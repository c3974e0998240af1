------------------------ MODULE GoDataPublisherProofs ------------------------
(***************************************************************************)
(* Safety of the Go data publisher for every number of publishers, waiters *)
(* and buffers, every capacity of the channel and every combination of     *)
(* faults: what the WaitGroup counts (Counted), that a buffer is in one    *)
(* place at a time (Owned), that a wait covers what was published before   *)
(* it (Covered), and that a message arrives as it was published as long as *)
(* no buffer is handed out with its reset pending (Intact).                *)
(***************************************************************************)
EXTENDS GoDataPublisher, FiniteSets, FiniteSetTheorems, SequenceTheorems, TLAPS

(* TypeOK without the counter, which needs Counted. *)
ShapeOK == BufferTypeOK /\ ThreadTypeOK

LEMMA AppendType ==
  ASSUME NEW S, NEW s \in Seq(S), NEW x \in S
  PROVE  Append(s, x) \in Seq(S)
OBVIOUS

LEMMA GetType ==
  ASSUME PoolTypeOK, NEW b \in Buffers, Get(b)
  PROVE  PoolTypeOK'
<1>1. made \in Int /\ NBuffers \in Int
  BY GDPAssumption DEF PoolTypeOK
<1>2. late' \in BOOLEAN
  BY DEF Get, PoolTypeOK
<1>3. pool' \subseteq Buffers
  BY DEF Get, PoolTypeOK
<1>4. made' = made \/ made' = b
  BY DEF Get
<1>5. made' \in 0 .. NBuffers
  BY <1>1, <1>4 DEF PoolTypeOK, Buffers
<1> QED BY <1>2, <1>3, <1>5 DEF PoolTypeOK

LEMMA PairUp ==
  ASSUME NEW x, NEW y
  PROVE  <<x>> \o <<y>> = <<x, y>>
<1> DEFINE S == {x, y}  s == <<x>> \o <<y>>  t == <<x, y>>
<1>1. s \in Seq(S) /\ Len(s) = 2 /\ s[1] = x /\ s[2] = y
  OBVIOUS
<1>2. t \in Seq(S) /\ Len(t) = 2 /\ t[1] = x /\ t[2] = y
  OBVIOUS
<1> HIDE DEF S, s, t
<1>3. \A i \in 1 .. Len(s) : s[i] = t[i]
  BY <1>1, <1>2
<1>4. s = t
  BY <1>1, <1>2, <1>3, SeqEqual
<1> QED BY <1>4 DEF s, t

LEMMA MyMessageType ==
  ASSUME ThreadTypeOK, NEW p \in Publishers, ppc[p] # "idle"
  PROVE  MyMessage(p) \in Messages
BY GDPAssumption DEF ThreadTypeOK, MyMessage, Messages

LEMMA WriteToType ==
  ASSUME content \in [Buffers -> Seq(Token)], NEW b \in Buffers, NEW tokens \in Seq(Token)
  PROVE  /\ WriteTo(b, tokens) => content' \in [Buffers -> Seq(Token)]
         /\ Reset(b) => content' \in [Buffers -> Seq(Token)]
<1>1. content[b] \o tokens \in Seq(Token) /\ <<>> \in Seq(Token)
  OBVIOUS
<1> QED BY <1>1 DEF WriteTo, Reset

-----------------------------------------------------------------------------
(* Types, part by part. *)
LEMMA PoolType ==
  ASSUME ShapeOK, [Next]_vars
  PROVE  PoolTypeOK'
<1> USE DEF poolVars, chanVars, pubVars, waitVars, flowVars, histVars
<1>0. PoolTypeOK /\ HandTypeOK /\ ThreadTypeOK
  BY DEF ShapeOK, BufferTypeOK
<1>1. ASSUME NEW p \in Publishers, Publish(p) \/ GetMessage(p) PROVE PoolTypeOK'
  BY <1>0, <1>1, GetType DEF Publish, GetMessage
<1>2. ASSUME NEW p \in Publishers, Put(p) PROVE PoolTypeOK'
  <2>1. body[p] \in Buffers
    BY <1>0, <1>2 DEF Put, PublisherAt, HandTypeOK
  <2> QED BY <1>0, <1>2, <2>1 DEF Put, PutBody, PoolTypeOK
<1>3. CASE PutLast
  <2>1. lastMessage \in Buffers
    BY <1>0, <1>3 DEF PutLast, FlowAt, HandTypeOK
  <2> QED BY <1>0, <1>3, <2>1 DEF PutLast, PoolTypeOK
<1>4. CASE \/ \E p \in Publishers : PublishStep(p) /\ ~GetMessage(p) /\ ~Put(p)
           \/ \E w \in Waiters : StartWait(w) \/ WaitForPublishComplete(w)
           \/ Flow /\ ~PutLast
           \/ StopDataFlow \/ Stop \/ UNCHANGED vars
  <2>1. UNCHANGED poolVars
    BY <1>4 DEF PublishStep, Encode, WriteHeader, WriteBody, AddToWaitGroup, SendToStack,
                AddPanics, SendPanics, ResetBody, StartWait, WaitForPublishComplete, Wait,
                WaitReturns, WaitPanics, Flow, Receive, ReceivePanics, Copy, ResetLast, WgDone,
                Release, Write, LoopHead, Close, StopDataFlow, Stop, vars
  <2> QED BY <1>0, <2>1 DEF PoolTypeOK
<1> QED BY <1>1, <1>2, <1>3, <1>4 DEF Next, PublishStep

LEMMA TokenType ==
  ASSUME ShapeOK, [Next]_vars
  PROVE  TokenTypeOK'
<1> USE DEF poolVars, chanVars, pubVars, waitVars, flowVars, histVars
<1>0. TokenTypeOK /\ HandTypeOK /\ ThreadTypeOK
  BY DEF ShapeOK, BufferTypeOK
<1>1. ASSUME NEW p \in Publishers, PublishStep(p) PROVE TokenTypeOK'
  <2>1. ppc[p] # "idle" => body[p] \in Buffers
    BY <1>0 DEF HandTypeOK
  <2>2. ppc[p] \in {"writeHeader", "writeBody"} => message[p] \in Buffers
    BY <1>0 DEF HandTypeOK
  <2>3. bodyArr[p] \in Seq(Token) /\ content \in [Buffers -> Seq(Token)]
    BY <1>0 DEF TokenTypeOK
  <2>4. CASE Encode(p)
    <3>1. MyMessage(p) \in Messages
      BY <1>0, <2>4, MyMessageType DEF Encode, PublisherAt
    <3>2. <<Data(MyMessage(p))>> \in Seq(Token)
      BY <3>1 DEF Data, Token
    <3>3. content' \in [Buffers -> Seq(Token)]
      BY <2>1, <2>3, <2>4, <3>2, WriteToType DEF Encode, PublisherAt
    <3> QED BY <1>0, <2>4, <3>3 DEF Encode, TokenTypeOK
  <2>5. CASE GetMessage(p)
    <3>1. content[body[p]] \in Seq(Token)
      BY <2>1, <2>3, <2>5 DEF GetMessage, PublisherAt
    <3>2. bodyArr' \in [Publishers -> Seq(Token)]
      BY <1>0, <2>5, <3>1 DEF GetMessage, TokenTypeOK
    <3> QED BY <1>0, <2>5, <3>2 DEF GetMessage, TokenTypeOK
  <2>6. CASE WriteHeader(p)
    <3>1. <<Header(Len(bodyArr[p]))>> \in Seq(Token)
      BY <2>3 DEF Header, Token
    <3>2. content' \in [Buffers -> Seq(Token)]
      BY <2>2, <2>3, <2>6, <3>1, WriteToType DEF WriteHeader, PublisherAt
    <3> QED BY <1>0, <2>6, <3>2 DEF WriteHeader, TokenTypeOK
  <2>7. CASE WriteBody(p)
    <3>1. content' \in [Buffers -> Seq(Token)]
      BY <2>2, <2>3, <2>7, WriteToType DEF WriteBody, PublisherAt
    <3> QED BY <1>0, <2>7, <3>1 DEF WriteBody, TokenTypeOK
  <2>8. CASE ResetBody(p)
    <3>1. content' \in [Buffers -> Seq(Token)]
      BY <2>1, <2>3, <2>8, WriteToType DEF ResetBody, PublisherAt
    <3>2. bodyArr' \in [Publishers -> Seq(Token)]
      BY <1>0, <2>8 DEF ResetBody, TokenTypeOK
    <3> QED BY <1>0, <2>8, <3>1, <3>2 DEF ResetBody, TokenTypeOK
  <2>9. CASE AddToWaitGroup(p) \/ AddPanics(p) \/ SendToStack(p) \/ SendPanics(p) \/ Put(p)
    BY <1>0, <2>9 DEF AddToWaitGroup, SendToStack, AddPanics, SendPanics, Put, TokenTypeOK
  <2> QED BY <1>1, <2>4, <2>5, <2>6, <2>7, <2>8, <2>9 DEF PublishStep
<1>2. CASE Copy
  <2>1. content[lastMessage] \in Seq(Token)
    BY <1>0, <1>2 DEF Copy, FlowAt, HandTypeOK, TokenTypeOK
  <2> QED BY <1>0, <1>2, <2>1 DEF Copy, TokenTypeOK
<1>3. CASE ResetLast
  <2>1. content' \in [Buffers -> Seq(Token)]
    BY <1>0, <1>3 DEF ResetLast, Reset, FlowAt, HandTypeOK, TokenTypeOK
  <2> QED BY <1>0, <1>3, <2>1 DEF ResetLast, TokenTypeOK
<1>4. CASE Write
  <2>1. wire' = wire \/ wire' = Append(wire, replyMessage)
    BY <1>4 DEF Write
  <2>2. wire \in Seq(Seq(Token)) /\ replyMessage \in Seq(Token)
    BY <1>0 DEF TokenTypeOK
  <2>3. Append(wire, replyMessage) \in Seq(Seq(Token))
    BY <2>2, AppendType, Zenon
  <2>4. wire' \in Seq(Seq(Token))
    BY <2>1, <2>2, <2>3, Zenon
  <2> QED BY <1>0, <1>4, <2>4 DEF Write, TokenTypeOK
<1>5. CASE \/ \E p \in Publishers : Publish(p)
           \/ \E w \in Waiters : StartWait(w) \/ WaitForPublishComplete(w)
           \/ Receive \/ ReceivePanics \/ PutLast \/ WgDone \/ Release \/ LoopHead \/ Close
           \/ StopDataFlow \/ Stop \/ UNCHANGED vars
  <2>1. UNCHANGED <<content, bodyArr, replyMessage, wire>>
    BY <1>5 DEF Publish, StartWait, WaitForPublishComplete, Wait, WaitReturns, WaitPanics,
                Receive, ReceivePanics, PutLast, WgDone, Release, LoopHead, Close, StopDataFlow,
                Stop, vars
  <2> QED BY <1>0, <2>1 DEF TokenTypeOK
<1> QED BY <1>1, <1>2, <1>3, <1>4, <1>5 DEF Next, Flow

LEMMA QueueType ==
  ASSUME ShapeOK, [Next]_vars
  PROVE  QueueTypeOK'
<1> USE DEF poolVars, chanVars, pubVars, waitVars, flowVars, histVars
<1>0. QueueTypeOK /\ HandTypeOK /\ ThreadTypeOK
  BY DEF ShapeOK, BufferTypeOK
<1>1. ASSUME NEW p \in Publishers, SendToStack(p) PROVE QueueTypeOK'
  <2>1. message[p] \in Buffers
    BY <1>0, <1>1 DEF SendToStack, PublisherAt, HandTypeOK
  <2>2. MyMessage(p) \in Messages
    BY <1>0, <1>1, MyMessageType DEF SendToStack, PublisherAt
  <2> QED BY <1>0, <1>1, <2>1, <2>2 DEF SendToStack, QueueTypeOK
<1>2. ASSUME NEW w \in Waiters, StartWait(w) PROVE QueueTypeOK'
  <2>1. Len(pushed) \in Nat
    BY <1>0 DEF QueueTypeOK
  <2> QED BY <1>0, <1>2, <2>1 DEF StartWait, QueueTypeOK
<1>3. CASE Receive
  <2>1. Tail(messageStack) \in Seq(Buffers)
    BY <1>0, <1>3, HeadTailProperties DEF Receive, QueueTypeOK
  <2> QED BY <1>0, <1>3, <2>1 DEF Receive, QueueTypeOK
<1>4. CASE \/ \E p \in Publishers : Publish(p) \/ (PublishStep(p) /\ ~SendToStack(p))
           \/ \E w \in Waiters : WaitForPublishComplete(w)
           \/ Flow /\ ~Receive
           \/ StopDataFlow \/ Stop \/ UNCHANGED vars
  <2>1. UNCHANGED <<messageStack, pushed, seen>>
    BY <1>4 DEF Publish, PublishStep, Encode, GetMessage, WriteHeader, WriteBody, AddToWaitGroup,
                AddPanics, SendPanics, Put, ResetBody, WaitForPublishComplete, Wait, WaitReturns,
                WaitPanics, Flow, ReceivePanics, Copy, PutLast, ResetLast, WgDone, Release,
                Write, LoopHead, Close, StopDataFlow, Stop, vars
  <2> QED BY <1>0, <2>1 DEF QueueTypeOK
<1> QED BY <1>1, <1>2, <1>3, <1>4 DEF Next, PublishStep

LEMMA HandType ==
  ASSUME ShapeOK, [Next]_vars
  PROVE  HandTypeOK'
<1> USE DEF poolVars, chanVars, pubVars, waitVars, flowVars, histVars
<1>0. QueueTypeOK /\ HandTypeOK /\ DOMAIN ppc = Publishers /\ \A b \in Buffers : b # NoBuffer
  BY DEF ShapeOK, BufferTypeOK, ThreadTypeOK, Buffers, NoBuffer
<1>1. ASSUME NEW p \in Publishers, Publish(p) PROVE HandTypeOK'
  BY <1>0, <1>1 DEF Publish, PublisherAt, Goto, HandTypeOK
<1>2. ASSUME NEW p \in Publishers, PublishStep(p) PROVE HandTypeOK'
  <2>1. CASE Encode(p) \/ WriteHeader(p) \/ WriteBody(p) \/ AddToWaitGroup(p) \/ AddPanics(p)
             \/ SendPanics(p) \/ Put(p)
    BY <1>0, <2>1 DEF Encode, WriteHeader, WriteBody, AddToWaitGroup, AddPanics, SendPanics, Put,
                      PublisherAt, Goto, HandTypeOK
  <2>2. CASE GetMessage(p)
    BY <1>0, <2>2 DEF GetMessage, PublisherAt, Goto, HandTypeOK
  <2>3. CASE SendToStack(p)
    BY <1>0, <2>3 DEF SendToStack, PublisherAt, Goto, HandTypeOK
  <2>4. CASE ResetBody(p)
    BY <1>0, <2>4 DEF ResetBody, PublisherAt, Goto, HandTypeOK
  <2> QED BY <1>2, <2>1, <2>2, <2>3, <2>4 DEF PublishStep
<1>3. CASE Flow
  <2>1. CASE Receive
    <3>1. Head(messageStack) \in Buffers
      BY <1>0, <2>1, HeadTailProperties DEF Receive, QueueTypeOK
    <3> QED BY <1>0, <2>1, <3>1 DEF Receive, HandTypeOK
  <2>2. CASE ReceivePanics \/ Copy \/ PutLast \/ ResetLast \/ WgDone \/ Release \/ Write
             \/ LoopHead \/ Close
    BY <1>0, <2>2 DEF ReceivePanics, Copy, PutLast, ResetLast, WgDone, Release, Write, LoopHead,
                      Close, AfterSend, StopFlow, FlowAt, HandTypeOK
  <2> QED BY <1>3, <2>1, <2>2 DEF Flow
<1>4. CASE \/ \E w \in Waiters : StartWait(w) \/ WaitForPublishComplete(w)
           \/ StopDataFlow \/ Stop \/ UNCHANGED vars
  BY <1>0, <1>4 DEF StartWait, WaitForPublishComplete, Wait, WaitReturns, WaitPanics,
                    StopDataFlow, Stop, vars, HandTypeOK
<1> QED BY <1>1, <1>2, <1>3, <1>4 DEF Next

LEMMA ThreadType ==
  ASSUME ShapeOK, [Next]_vars
  PROVE  ThreadTypeOK'
<1> USE DEF poolVars, chanVars, pubVars, waitVars, flowVars, histVars
<1>0. ThreadTypeOK
  BY DEF ShapeOK
<1>1. ASSUME NEW p \in Publishers, Publish(p) PROVE ThreadTypeOK'
  <2>1. published' \in [Publishers -> 0 .. MaxPublish]
    BY <1>0, <1>1, GDPAssumption DEF Publish, ThreadTypeOK
  <2>2. \A q \in Publishers : ppc'[q] # "idle" => published'[q] > 0
    BY <1>0, <1>1, GDPAssumption DEF Publish, Goto, ThreadTypeOK
  <2> QED BY <1>0, <1>1, <2>1, <2>2 DEF Publish, Goto, ThreadTypeOK
<1>2. ASSUME NEW p \in Publishers, PublishStep(p) PROVE ThreadTypeOK'
  <2>1. /\ UNCHANGED <<closed, published, wpc, flow, spc, stopRequest, first>>
        /\ panicked' \in BOOLEAN
    BY <1>0, <1>2 DEF PublishStep, Encode, GetMessage, WriteHeader, WriteBody, AddToWaitGroup,
                      SendToStack, AddPanics, SendPanics, Put, ResetBody, ThreadTypeOK
  <2>2. ppc[p] # "idle" /\ \E label \in {ppc[p], "idle", "getMessage", "writeHeader", "writeBody",
                                        "add", "send", "put", "reset"} :
                             ppc' = [ppc EXCEPT ![p] = label]
    BY <1>0, <1>2 DEF PublishStep, Encode, GetMessage, WriteHeader, WriteBody, AddToWaitGroup,
                      SendToStack, AddPanics, SendPanics, Put, ResetBody, PublisherAt, Goto,
                      ThreadTypeOK
  <2> QED BY <1>0, <2>1, <2>2 DEF ThreadTypeOK
<1>3. CASE Flow
  <2>1. /\ UNCHANGED <<closed, ppc, published, spc>>
        /\ panicked' \in BOOLEAN /\ stopRequest' \in BOOLEAN /\ first' \in BOOLEAN
    BY <1>0, <1>3 DEF Flow, Receive, ReceivePanics, Copy, PutLast, ResetLast, WgDone, Release,
                      Write, LoopHead, Close, AfterSend, StopFlow, ThreadTypeOK
  <2>2. flow' \in {"recv", "copy", "put", "reset", "wgDone", "release", "write", "loop", "close",
                     "done"}
    BY <1>0, <1>3 DEF Flow, Receive, ReceivePanics, Copy, PutLast, ResetLast, WgDone, Release,
                      Write, LoopHead, Close, AfterSend, StopFlow, ThreadTypeOK
  <2>3. wpc' = wpc \/ wpc' = [w \in Waiters |-> IF w \in Blocked THEN "released" ELSE wpc[w]]
    BY <1>3 DEF Flow, Receive, ReceivePanics, Copy, PutLast, ResetLast, WgDone, Release, Write,
                LoopHead, Close
  <2> QED BY <1>0, <2>1, <2>2, <2>3 DEF ThreadTypeOK
<1>4. ASSUME NEW w \in Waiters, StartWait(w) \/ WaitForPublishComplete(w) PROVE ThreadTypeOK'
  BY <1>0, <1>4 DEF StartWait, WaitForPublishComplete, Wait, WaitReturns, WaitPanics,
                    ThreadTypeOK
<1>5. CASE StopDataFlow \/ Stop \/ UNCHANGED vars
  BY <1>0, <1>5 DEF StopDataFlow, Stop, vars, ThreadTypeOK
<1> QED BY <1>1, <1>2, <1>3, <1>4, <1>5 DEF Next

LEMMA ShapeStep ==
  ASSUME ShapeOK, [Next]_vars
  PROVE  ShapeOK'
BY PoolType, TokenType, QueueType, HandType, ThreadType DEF ShapeOK, BufferTypeOK

LEMMA InitShape ==
  ASSUME Init
  PROVE  ShapeOK
<1>0. PoolTypeOK
  <2>1. 0 \in 0 .. NBuffers
    BY GDPAssumption
  <2> QED BY <2>1 DEF Init, PoolTypeOK
<1>1. HandTypeOK
  BY DEF Init, HandTypeOK
<1>2. TokenTypeOK /\ QueueTypeOK
  BY DEF Init, TokenTypeOK, QueueTypeOK
<1>3. ThreadTypeOK
  <2>1. published \in [Publishers -> 0 .. MaxPublish]
    BY GDPAssumption DEF Init
  <2> QED BY <2>1 DEF Init, ThreadTypeOK
<1> QED BY <1>0, <1>1, <1>2, <1>3 DEF ShapeOK, BufferTypeOK

-----------------------------------------------------------------------------
(* The WaitGroup counts the publishers that are about to send, the channel *)
(* and the message in the hands of SendMessage.                            *)
Sending == {p \in Publishers : ppc[p] = "send"}

Carried == IF flow \in {"copy", "put", "reset", "wgDone"} THEN 1 ELSE 0

Counted ==
  /\ IsFiniteSet(Sending)
  /\ wg = Cardinality(Sending) + Len(messageStack) + Carried

(* Where the flow is after the two parts of wg.Done. *)
LEMMA DoneFlow ==
  /\ WgDone => flow = "wgDone" /\ flow' \in {"release", "write", "close", "done"}
  /\ Release => flow = "release" /\ flow' \in {"write", "close", "done"}
<1>1. AfterSend => flow' \in {"write", "close", "done"}
  BY DEF AfterSend, StopFlow
<1> QED BY <1>1 DEF WgDone, Release, FlowAt

LEMMA CountedStep ==
  ASSUME ShapeOK, Counted, [Next]_vars
  PROVE  Counted'
<1> USE DEF poolVars, chanVars, pubVars, waitVars, flowVars, histVars, PublisherAt, FlowAt, Goto
<1>0. /\ messageStack \in Seq(Buffers) /\ DOMAIN ppc = Publishers /\ HandTypeOK
      /\ IsFiniteSet(Sending) /\ Cardinality(Sending) \in Nat /\ Carried \in Nat
      /\ wg = Cardinality(Sending) + Len(messageStack) + Carried
      /\ Len(messageStack) \in Nat
  BY FS_CardinalityType DEF ShapeOK, BufferTypeOK, QueueTypeOK, ThreadTypeOK, Counted, Carried
<1>1. ASSUME NEW p \in Publishers, AddToWaitGroup(p) PROVE Counted'
  <2>1. Sending' = Sending \cup {p} /\ p \notin Sending
    BY <1>0, <1>1 DEF AddToWaitGroup, Sending
  <2>2. IsFiniteSet(Sending') /\ Cardinality(Sending') = Cardinality(Sending) + 1
    BY <1>0, <2>1, FS_AddElement
  <2>3. wg' = wg + 1 /\ messageStack' = messageStack /\ Carried' = Carried
    BY <1>1 DEF AddToWaitGroup, Add, Carried
  <2> QED BY <1>0, <2>2, <2>3 DEF Counted
<1>2. ASSUME NEW p \in Publishers, SendToStack(p) PROVE Counted'
  <2>1. Sending' = Sending \ {p} /\ p \in Sending
    BY <1>0, <1>2 DEF SendToStack, Sending
  <2>2. IsFiniteSet(Sending') /\ Cardinality(Sending') = Cardinality(Sending) - 1
    BY <1>0, <2>1, FS_RemoveElement
  <2>3. wg' = wg /\ Carried' = Carried
    BY <1>2 DEF SendToStack, Carried
  <2>4. message[p] \in Buffers /\ messageStack' = Append(messageStack, message[p])
    BY <1>0, <1>2 DEF SendToStack, HandTypeOK
  <2>5. Len(messageStack') = Len(messageStack) + 1
    BY <1>0, <2>4
  <2> QED BY <1>0, <2>2, <2>3, <2>5 DEF Counted
<1>3. CASE Receive
  <2>1. Len(messageStack') = Len(messageStack) - 1
    BY <1>0, <1>3, HeadTailProperties DEF Receive
  <2>2. wg' = wg /\ Sending' = Sending /\ Carried = 0 /\ Carried' = 1
    BY <1>3 DEF Receive, Sending, Carried
  <2> QED BY <1>0, <2>1, <2>2 DEF Counted
<1>4. CASE WgDone
  <2>1. wg' = wg - 1 /\ messageStack' = messageStack /\ Sending' = Sending
    BY <1>4 DEF WgDone, Done, Sending
  <2>2. Carried = 1 /\ Carried' = 0
    BY <1>4, DoneFlow DEF Carried
  <2> QED BY <1>0, <2>1, <2>2 DEF Counted
<1>5. CASE \/ \E p \in Publishers :
                Publish(p) \/ (PublishStep(p) /\ ~AddToWaitGroup(p) /\ ~SendToStack(p))
           \/ \E w \in Waiters : StartWait(w) \/ WaitForPublishComplete(w)
           \/ Flow /\ ~Receive /\ ~WgDone
           \/ StopDataFlow \/ Stop \/ UNCHANGED vars
  <2>1. UNCHANGED <<wg, messageStack>>
    BY <1>5 DEF Publish, PublishStep, Encode, GetMessage, WriteHeader, WriteBody, AddPanics,
                SendPanics, Put, ResetBody, StartWait, WaitForPublishComplete, Wait, WaitReturns,
                WaitPanics, Flow, ReceivePanics, Copy, PutLast, ResetLast, Release, Write,
                LoopHead, Close, StopDataFlow, Stop, vars
  <2>2. Sending' = Sending
    BY <1>0, <1>5 DEF Publish, PublishStep, Encode, GetMessage, WriteHeader, WriteBody,
                      AddPanics, SendPanics, Put, ResetBody, StartWait, WaitForPublishComplete,
                      Wait, WaitReturns, WaitPanics, Flow, ReceivePanics, Copy, PutLast,
                      ResetLast, Release, Write, LoopHead, Close, StopDataFlow, Stop, vars,
                      Sending
  <2>3. CASE Release
    <3>1. Carried' = Carried
      BY <2>3, DoneFlow DEF Carried
    <3> QED BY <1>0, <2>1, <2>2, <3>1 DEF Counted
  <2>4. CASE ~Release
    <3>1. Carried' = Carried
      BY <1>5, <2>4
         DEF Publish, PublishStep, Encode, GetMessage, WriteHeader, WriteBody, AddPanics,
             SendPanics, Put, ResetBody, StartWait, WaitForPublishComplete, Wait, WaitReturns,
             WaitPanics, Flow, ReceivePanics, Copy, PutLast, ResetLast, Write, LoopHead, Close,
             StopFlow, StopDataFlow, Stop, vars, Carried
    <3> QED BY <1>0, <2>1, <2>2, <3>1 DEF Counted
  <2> QED BY <2>3, <2>4
<1> QED BY <1>1, <1>2, <1>3, <1>4, <1>5 DEF Next

LEMMA ShapeInvariant == Spec => [](ShapeOK /\ Counted)
<1>1. Init => ShapeOK /\ Counted
  <2> SUFFICES ASSUME Init PROVE Counted
    BY InitShape
  <2>1. Sending = {}
    BY DEF Init, Sending
  <2> QED BY <2>1, FS_EmptySet DEF Init, Counted, Carried
<1>2. ShapeOK /\ Counted /\ [Next]_vars => (ShapeOK /\ Counted)'
  BY ShapeStep, CountedStep
<1> QED BY <1>1, <1>2, PTL DEF Spec

(* Every variable keeps its type, and the WaitGroup never goes below zero, *)
(* which would panic: Add comes before the send, and Done after the        *)
(* receive (Publish, SendMessage).                                         *)
THEOREM TypeCorrect == Spec => []TypeOK
<1>1. ShapeOK /\ Counted => TypeOK
  BY FS_CardinalityType DEF ShapeOK, Counted, Carried, TypeOK, BufferTypeOK, QueueTypeOK
<1> QED BY <1>1, ShapeInvariant, PTL

-----------------------------------------------------------------------------
(* While the flow runs, what was sent to the channel is written, in hand   *)
(* or in the channel.  The counter is still zero when the last Done takes  *)
(* its waiters off, because an Add before that panics; so a waiter that it *)
(* has released is covered as one is that has returned.                    *)
Ended == flow \in {"close", "done"}

Writing == IF flow \in {"release", "write"} THEN 1 ELSE 0

AllAccounted == ~Ended => Len(pushed) = Len(wire) + Len(messageStack) + Carried + Writing

SeenBefore == \A w \in Waiters : seen[w] <= Len(pushed)

ReleasedAtZero == flow = "release" => Releasing

Cover(w) ==
  wpc[w] \in {"released", "done"} /\ ~Ended => seen[w] <= Len(wire) + Writing

Covered == AllAccounted /\ SeenBefore /\ ReleasedAtZero /\ \A w \in Waiters : Cover(w)

(* How far the queues get in a step. *)
LEMMA LengthStep ==
  ASSUME ShapeOK, [Next]_vars, ~Ended'
  PROVE  /\ ~Ended
         /\ Len(pushed) \in Nat /\ Len(wire) \in Nat /\ Len(messageStack) \in Nat
         /\ Len(pushed)' \in Nat /\ Len(wire)' \in Nat /\ Len(messageStack)' \in Nat
         /\ Len(pushed)' >= Len(pushed)
         /\ Len(wire)' + Writing' >= Len(wire) + Writing
         /\ \/ /\ Len(pushed)' = Len(pushed)
               /\ Len(wire)' + Len(messageStack)' + Carried' + Writing'
                  = Len(wire) + Len(messageStack) + Carried + Writing
            \/ /\ Len(pushed)' = Len(pushed) + 1
               /\ Len(wire)' + Len(messageStack)' + Carried' + Writing'
                  = Len(wire) + Len(messageStack) + Carried + Writing + 1
<1> USE DEF poolVars, chanVars, pubVars, waitVars, flowVars, histVars, PublisherAt, FlowAt
<1>0. /\ messageStack \in Seq(Buffers) /\ pushed \in Seq(Messages) /\ wire \in Seq(Seq(Token))
      /\ HandTypeOK /\ ThreadTypeOK /\ replyMessage \in Seq(Token)
  BY DEF ShapeOK, BufferTypeOK, QueueTypeOK, TokenTypeOK
<1>00. Len(pushed) \in Nat /\ Len(wire) \in Nat /\ Len(messageStack) \in Nat
  <2>1. \A S : \A s \in Seq(S) : Len(s) \in Nat
    OBVIOUS
  <2> QED BY <1>0, <2>1, Zenon
<1>1. ASSUME NEW p \in Publishers, SendToStack(p)
      PROVE  /\ Len(pushed)' = Len(pushed) + 1 /\ Len(messageStack)' = Len(messageStack) + 1
             /\ UNCHANGED <<wire, flow>>
  <2>1. message[p] \in Buffers /\ MyMessage(p) \in Messages
    BY <1>0, <1>1, MyMessageType DEF SendToStack, HandTypeOK
  <2>2. /\ messageStack' = Append(messageStack, message[p])
        /\ pushed' = Append(pushed, MyMessage(p)) /\ UNCHANGED <<wire, flow>>
    BY <1>1 DEF SendToStack
  <2> QED BY <1>0, <2>1, <2>2
<1>2. ASSUME Receive
      PROVE  /\ Len(messageStack)' = Len(messageStack) - 1 /\ UNCHANGED <<wire, pushed>>
             /\ flow = "recv" /\ flow' = "copy"
  BY <1>0, <1>2, HeadTailProperties DEF Receive
<1>3. ASSUME Write
      PROVE  /\ Len(wire)' = Len(wire) + 1 /\ UNCHANGED <<messageStack, pushed>>
             /\ flow = "write" /\ flow' = "loop"
  <2>1. flow = "write" /\ flow' = "loop" /\ UNCHANGED <<messageStack, pushed>>
        /\ wire' = Append(wire, replyMessage)
    BY <1>3 DEF Write, StopFlow, Ended
  <2>2. \A S : \A s \in Seq(S), x \in S : Len(Append(s, x)) = Len(s) + 1
    OBVIOUS
  <2> QED BY <1>0, <2>1, <2>2, Zenon
<1>4. ASSUME WgDone
      PROVE  UNCHANGED <<messageStack, pushed, wire>> /\ flow = "wgDone"
             /\ flow' \in {"release", "write"}
  BY <1>4, DoneFlow DEF WgDone, Ended
<1>5. ASSUME \/ \E p \in Publishers : Publish(p) \/ (PublishStep(p) /\ ~SendToStack(p))
             \/ \E w \in Waiters : StartWait(w) \/ WaitForPublishComplete(w)
             \/ Flow /\ ~Receive /\ ~WgDone /\ ~Write
             \/ StopDataFlow \/ Stop \/ UNCHANGED vars
      PROVE  UNCHANGED <<messageStack, pushed, wire, Carried, Writing>> /\ ~Ended
  <2>1. UNCHANGED <<messageStack, pushed, wire>>
    BY <1>5 DEF Publish, PublishStep, Encode, GetMessage, WriteHeader, WriteBody, AddToWaitGroup,
                AddPanics, SendPanics, Put, ResetBody, StartWait, WaitForPublishComplete, Wait,
                WaitReturns, WaitPanics, Flow, ReceivePanics, Copy, PutLast, ResetLast, Release,
                LoopHead, Close, StopDataFlow, Stop, vars
  <2>2. CASE Release
    BY <2>1, <2>2, DoneFlow DEF Carried, Writing, Ended
  <2>3. CASE ~Release
    <3>1. UNCHANGED <<Carried, Writing>> /\ ~Ended
      BY <1>5, <2>3
         DEF Publish, PublishStep, Encode, GetMessage, WriteHeader, WriteBody, AddToWaitGroup,
             AddPanics, SendPanics, Put, ResetBody, StartWait, WaitForPublishComplete, Wait,
             WaitReturns, WaitPanics, Flow, ReceivePanics, Copy, PutLast, ResetLast, LoopHead,
             Close, StopDataFlow, Stop, vars, Carried, Writing, Ended
    <3> QED BY <2>1, <3>1
  <2> QED BY <2>2, <2>3
<1>6. Carried \in Nat /\ Writing \in Nat
  BY DEF Carried, Writing
<1>7. CASE \E p \in Publishers : SendToStack(p)
  <2>1. /\ Len(pushed)' = Len(pushed) + 1 /\ Len(messageStack)' = Len(messageStack) + 1
        /\ UNCHANGED <<wire, flow>>
    BY <1>1, <1>7
  <2> QED BY <1>00, <1>6, <2>1 DEF Carried, Writing, Ended
<1>8. CASE Receive
  <2>1. Carried = 0 /\ Writing = 0 /\ Carried' = 1 /\ Writing' = 0 /\ ~Ended
        /\ messageStack # <<>>
    BY <1>2, <1>8 DEF Carried, Writing, Ended, Receive
  <2>2. Len(messageStack) > 0
    BY <1>0, <2>1
  <2> QED BY <1>00, <1>2, <1>8, <2>1, <2>2
<1>9. CASE Write \/ WgDone
  <2>1. CASE Write
    <3>1. Carried = 0 /\ Writing = 1 /\ Carried' = 0 /\ Writing' = 0 /\ ~Ended
      BY <1>3, <2>1 DEF Carried, Writing, Ended
    <3> QED BY <1>00, <1>3, <2>1, <3>1
  <2>2. CASE WgDone
    <3>1. Carried = 1 /\ Writing = 0 /\ Carried' = 0 /\ Writing' = 1 /\ ~Ended
      BY <1>4, <2>2 DEF Carried, Writing, Ended
    <3> QED BY <1>00, <1>4, <2>2, <3>1
  <2> QED BY <1>9, <2>1, <2>2
<1>10. CASE \/ \E p \in Publishers : Publish(p) \/ (PublishStep(p) /\ ~SendToStack(p))
            \/ \E w \in Waiters : StartWait(w) \/ WaitForPublishComplete(w)
            \/ Flow /\ ~Receive /\ ~WgDone /\ ~Write
            \/ StopDataFlow \/ Stop \/ UNCHANGED vars
  BY <1>00, <1>5, <1>6, <1>10
<1> QED BY <1>7, <1>8, <1>9, <1>10 DEF Next, PublishStep

LEMMA CoveredStep ==
  ASSUME ShapeOK, Counted, Covered, [Next]_vars
  PROVE  Covered'
<1> USE DEF poolVars, chanVars, pubVars, waitVars, flowVars, histVars
<1>0. seen \in [Waiters -> Nat] /\ DOMAIN wpc = Waiters /\ pushed \in Seq(Messages)
      /\ wire \in Seq(Seq(Token)) /\ messageStack \in Seq(Buffers)
  BY DEF ShapeOK, BufferTypeOK, QueueTypeOK, TokenTypeOK, ThreadTypeOK
<1>1. AllAccounted'
  <2> SUFFICES ASSUME ~Ended' PROVE AllAccounted'
    BY DEF AllAccounted
  <2>1. Carried \in Nat /\ Writing \in Nat /\ Carried' \in Nat /\ Writing' \in Nat
    BY DEF Carried, Writing
  <2>2. Len(pushed) = Len(wire) + Len(messageStack) + Carried + Writing
    BY LengthStep DEF Covered, AllAccounted
  <2>3. Len(pushed)' = Len(wire)' + Len(messageStack)' + Carried' + Writing'
    BY <2>1, <2>2, LengthStep
  <2> QED BY <2>3 DEF AllAccounted
<1>2. Len(pushed)' >= Len(pushed) /\ Len(pushed) \in Nat /\ Len(pushed)' \in Nat
  <2>1. CASE \E p \in Publishers : SendToStack(p)
    <3>1. PICK p \in Publishers : SendToStack(p)
      BY <2>1
    <3>2. MyMessage(p) \in Messages /\ pushed' = Append(pushed, MyMessage(p))
      BY <3>1, MyMessageType DEF SendToStack, PublisherAt, ShapeOK
    <3> QED BY <1>0, <3>2
  <2>2. CASE ~\E p \in Publishers : SendToStack(p)
    <3>1. pushed' = pushed
      BY <2>2 DEF Next, Publish, PublishStep, Encode, GetMessage, WriteHeader, WriteBody,
                  AddToWaitGroup, AddPanics, SendPanics, Put, ResetBody, StartWait,
                  WaitForPublishComplete, Wait, WaitReturns, WaitPanics, Flow, Receive,
                  ReceivePanics, Copy, PutLast, ResetLast, WgDone, Release, Write, LoopHead,
                  Close, StopDataFlow, Stop, vars
    <3> QED BY <1>0, <3>1
  <2> QED BY <2>1, <2>2
<1>3. ReleasedAtZero'
  <2> SUFFICES ASSUME flow' = "release" PROVE Releasing'
    BY DEF ReleasedAtZero
  <2>1. CASE WgDone
    BY <2>1 DEF WgDone, Done, AfterSend, StopFlow, Releasing, Blocked
  <2>2. CASE ~WgDone
    <3>1. \/ flow = "release" /\ (\E p \in Publishers : AddToWaitGroup(p))
          \/ UNCHANGED <<flow, wg>>
      BY <2>2 DEF Next, Publish, PublishStep, Encode, GetMessage, WriteHeader, WriteBody,
                  AddToWaitGroup, AddPanics, SendToStack, SendPanics, Put, ResetBody, StartWait,
                  WaitForPublishComplete, Wait, WaitReturns, WaitPanics, Flow, Receive,
                  ReceivePanics, Copy, PutLast, ResetLast, Release, Write, AfterSend, StopFlow,
                  LoopHead, Close, StopDataFlow, Stop, vars
    <3>2. flow = "release" /\ UNCHANGED wg /\ wg = 0 /\ Blocked # {}
      BY <2>2, <3>1 DEF AddToWaitGroup, Covered, ReleasedAtZero, Releasing
    <3>3. ~Flow
      BY <2>2, <3>2 DEF Flow, Receive, ReceivePanics, Copy, PutLast, ResetLast, Release, Write,
                        AfterSend, StopFlow, LoopHead, Close, FlowAt
    <3>4. Blocked \subseteq Blocked'
      <4>1. ASSUME NEW v \in Waiters, StartWait(v) \/ WaitForPublishComplete(v)
            PROVE  Blocked \subseteq Blocked'
        BY <1>0, <3>2, <4>1 DEF StartWait, WaitForPublishComplete, Wait, WaitReturns, WaitPanics,
                                Blocked
      <4>2. CASE ~\E v \in Waiters : StartWait(v) \/ WaitForPublishComplete(v)
        <5>1. UNCHANGED wpc
          BY <3>3, <4>2 DEF Next, Publish, PublishStep, Encode, GetMessage, WriteHeader, WriteBody,
                            AddToWaitGroup, AddPanics, SendToStack, SendPanics, Put, ResetBody,
                            StopDataFlow, Stop, vars
        <5> QED BY <5>1 DEF Blocked
      <4> QED BY <4>1, <4>2
    <3> QED BY <3>2, <3>4 DEF Releasing
  <2> QED BY <2>1, <2>2
<1>4. ASSUME NEW w \in Waiters
      PROVE  \/ seen'[w] = seen[w] /\ (wpc[w] \in {"released", "done"} \/ wg = 0)
             \/ seen'[w] \in {seen[w], Len(pushed)} /\ wpc'[w] \notin {"released", "done"}
  <2>1. CASE \E v \in Waiters : StartWait(v) \/ WaitForPublishComplete(v)
    BY <1>0, <2>1 DEF StartWait, WaitForPublishComplete, Wait, WaitReturns, WaitPanics
  <2>2. CASE Release
    BY <1>0, <2>2 DEF Release, FlowAt, Covered, ReleasedAtZero, Releasing
  <2>3. CASE ~Release /\ ~\E v \in Waiters : StartWait(v) \/ WaitForPublishComplete(v)
    <3>1. UNCHANGED <<seen, wpc>>
      BY <2>3 DEF Next, Publish, PublishStep, Encode, GetMessage, WriteHeader, WriteBody,
                  AddToWaitGroup, AddPanics, SendToStack, SendPanics, Put, ResetBody, Flow,
                  Receive, ReceivePanics, Copy, PutLast, ResetLast, WgDone, Write, LoopHead, Close,
                  StopDataFlow, Stop, vars
    <3> QED BY <3>1
  <2> QED BY <2>1, <2>2, <2>3
<1>5. SeenBefore'
  <2>1. ASSUME NEW w \in Waiters PROVE seen'[w] <= Len(pushed)'
    <3>1. seen[w] \in Nat /\ seen[w] <= Len(pushed)
      BY <1>0 DEF Covered, SeenBefore
    <3> QED BY <1>2, <1>4, <3>1
  <2> QED BY <2>1 DEF SeenBefore
<1>6. ASSUME NEW w \in Waiters PROVE Cover(w)'
  <2> SUFFICES ASSUME wpc'[w] \in {"released", "done"}, ~Ended'
               PROVE  seen'[w] <= Len(wire)' + Writing'
    BY DEF Cover
  <2>1. /\ ~Ended /\ Len(wire) \in Nat /\ Len(wire)' \in Nat
        /\ Len(wire)' + Writing' >= Len(wire) + Writing
        /\ Writing \in Nat /\ Writing' \in Nat /\ seen[w] \in Nat /\ seen[w] <= Len(pushed)
    BY <1>0, LengthStep DEF Writing, Covered, SeenBefore
  <2>2. CASE seen'[w] = seen[w] /\ wpc[w] \in {"released", "done"}
    <3>1. seen[w] <= Len(wire) + Writing
      BY <2>1, <2>2 DEF Covered, Cover
    <3> QED BY <2>1, <2>2, <3>1
  <2>3. CASE seen'[w] = seen[w] /\ wg = 0
    <3>1. Cardinality(Sending) \in Nat /\ Carried \in Nat /\ Len(messageStack) \in Nat
      BY <1>0, FS_CardinalityType DEF Counted, Carried
    <3>2. Len(messageStack) = 0 /\ Carried = 0
      BY <2>3, <3>1 DEF Counted
    <3>3. Len(pushed) = Len(wire) + Writing
      BY <2>1, <3>2 DEF Covered, AllAccounted
    <3> QED BY <2>1, <2>3, <3>3
  <2> QED BY <1>4, <2>2, <2>3
<1> QED BY <1>1, <1>3, <1>5, <1>6 DEF Covered

LEMMA CoveredInvariant == Spec => []Covered
<1>1. Init => Covered
  BY DEF Init, Covered, AllAccounted, SeenBefore, ReleasedAtZero, Cover, Carried, Writing
<1>2. ShapeOK /\ Counted /\ Covered /\ [Next]_vars => Covered'
  BY CoveredStep
<1> QED BY <1>1, <1>2, ShapeInvariant, PTL DEF Spec

(* WaitForPublishComplete covers all that was sent to the channel before   *)
(* it was called: it is written or in the one write under way.             *)
THEOREM WaitedForCorrect == Spec => []WaitedFor
<1>1. Covered => WaitedFor
  BY DEF Covered, Cover, Ended, Writing, WaitedFor
<1> QED BY <1>1, CoveredInvariant, PTL

-----------------------------------------------------------------------------
(* Who has which buffer.  Every buffer that is anywhere has been made, so  *)
(* one that New makes is nowhere yet.                                      *)
Known ==
  /\ pool \cup Stacked \cup HeldByFlow \subseteq 1 .. made
  /\ \A p \in Publishers : HeldBy(p) \subseteq 1 .. made

Owned == BufferOwned /\ Known

Live(p) == ppc[p] \notin {"idle", "reset"}

(* What the other publishers hold does not change. *)
OthersKeep(p) ==
  \A q \in Publishers \ {p} :
    HeldBy(q)' = HeldBy(q) /\ Live(q)' = Live(q) /\ UNCHANGED <<body[q], message[q]>>

LEMMA OthersKeepStep ==
  ASSUME ShapeOK, NEW p \in Publishers, Publish(p) \/ PublishStep(p)
  PROVE  OthersKeep(p) /\ UNCHANGED HeldByFlow
<1> USE DEF poolVars, chanVars, pubVars, waitVars, flowVars, histVars, Goto
<1>0. DOMAIN ppc = Publishers /\ DOMAIN body = Publishers /\ DOMAIN message = Publishers
  BY DEF ShapeOK, BufferTypeOK, HandTypeOK, ThreadTypeOK
<1>1. ASSUME NEW q \in Publishers \ {p} PROVE UNCHANGED <<ppc[q], body[q], message[q]>>
  BY <1>0, <1>1 DEF Publish, PublishStep, Encode, GetMessage, WriteHeader, WriteBody,
                    AddToWaitGroup, SendToStack, AddPanics, SendPanics, Put, ResetBody
<1>2. UNCHANGED HeldByFlow
  BY DEF Publish, PublishStep, Encode, GetMessage, WriteHeader, WriteBody, AddToWaitGroup,
         SendToStack, AddPanics, SendPanics, Put, ResetBody, HeldByFlow
<1> QED BY <1>1, <1>2 DEF OthersKeep, HeldBy, Live

(* A buffer that Get hands out is nowhere else. *)
LEMMA GetIsFree ==
  ASSUME ShapeOK, Owned, NEW b \in Buffers, Get(b)
  PROVE  /\ b \in 1 .. made' /\ b \notin pool' /\ pool' \subseteq pool
         /\ made \in Nat /\ made' \in Nat /\ made <= made'
         /\ b \notin Stacked \cup HeldByFlow
         /\ \A q \in Publishers : b \notin HeldBy(q)
<1>0. made \in Nat /\ NBuffers \in Nat /\ pool \subseteq 1 .. made
  BY GDPAssumption DEF ShapeOK, BufferTypeOK, PoolTypeOK, Owned, Known
<1>1. CASE b \in pool /\ pool' = pool \ {b} /\ made' = made
  <2>1. b \notin Stacked \cup HeldByFlow /\ \A q \in Publishers : b \notin HeldBy(q)
    BY <1>1 DEF Owned, BufferOwned
  <2> QED BY <1>0, <1>1, <2>1
<1>2. CASE b = made + 1 /\ made' = b /\ pool' = pool
  <2>1. b \notin 1 .. made
    BY <1>0, <1>2
  <2>2. b \notin Stacked \cup HeldByFlow /\ \A q \in Publishers : b \notin HeldBy(q)
    BY <2>1 DEF Owned, Known
  <2> QED BY <1>0, <1>2, <2>1, <2>2
<1> QED BY <1>1, <1>2 DEF Get

(* Publisher p gets a buffer. *)
LEMMA GetOwned ==
  ASSUME ShapeOK, Owned, NEW p \in Publishers, Publish(p) \/ GetMessage(p)
  PROVE  Owned'
<1> USE DEF chanVars, pubVars, Goto, PublisherAt
<1>0. /\ DOMAIN ppc = Publishers /\ DOMAIN body = Publishers /\ DOMAIN message = Publishers
      /\ \A b \in Buffers : b # NoBuffer
      /\ ppc[p] = "idle" => message[p] = NoBuffer
      /\ ppc[p] = "getMessage" => message[p] = NoBuffer
  BY DEF ShapeOK, BufferTypeOK, HandTypeOK, ThreadTypeOK, Buffers, NoBuffer
<1>1. PICK b \in Buffers : /\ Get(b) /\ UNCHANGED messageStack
                           /\ HeldBy(p)' = HeldBy(p) \cup {b}
                           /\ body'[p] # message'[p]
  <2>1. CASE Publish(p)
    BY <1>0, <2>1 DEF Publish, HeldBy
  <2>2. CASE GetMessage(p)
    <3>1. PICK b \in Buffers : Get(b) /\ message' = [message EXCEPT ![p] = b]
      BY <2>2 DEF GetMessage
    <3>2. body[p] \in HeldBy(p)
      BY <2>2 DEF GetMessage, HeldBy
    <3>3. b # body[p]
      BY <3>1, <3>2, GetIsFree
    <3> QED BY <1>0, <2>2, <3>1, <3>3 DEF GetMessage, HeldBy
  <2> QED BY <2>1, <2>2
<1>2. OthersKeep(p) /\ UNCHANGED HeldByFlow
  BY OthersKeepStep DEF PublishStep
<1>3. UNCHANGED Stacked
  BY <1>1 DEF Stacked
<1>4. /\ b \in 1 .. made' /\ b \notin pool' /\ pool' \subseteq pool
      /\ 1 .. made \subseteq 1 .. made'
      /\ b \notin Stacked \cup HeldByFlow
      /\ \A q \in Publishers : b \notin HeldBy(q)
  BY <1>1, GetIsFree
<1>5. Known'
  BY <1>1, <1>2, <1>3, <1>4 DEF Owned, Known, OthersKeep
<1>6. /\ (\A i, j \in 1 .. Len(messageStack) : i # j => messageStack[i] # messageStack[j])'
      /\ pool' \cap Stacked' = {}
      /\ HeldByFlow' \cap (pool' \cup Stacked') = {}
  BY <1>1, <1>2, <1>3, <1>4 DEF Owned, BufferOwned
<1>7. ASSUME NEW q \in Publishers
      PROVE  /\ HeldBy(q)' \cap (pool' \cup Stacked' \cup HeldByFlow') = {}
             /\ Live(q)' => body'[q] # message'[q]
  <2>1. HeldBy(q) \cap (pool \cup Stacked \cup HeldByFlow) = {}
        /\ (Live(q) => body[q] # message[q])
    BY DEF Owned, BufferOwned, Live
  <2>2. CASE q = p
    BY <1>1, <1>2, <1>3, <1>4, <2>1, <2>2
  <2>3. CASE q # p
    BY <1>1, <1>2, <1>3, <1>4, <2>1, <2>3 DEF OthersKeep
  <2> QED BY <2>2, <2>3
<1>8. ASSUME NEW q \in Publishers, NEW r \in Publishers \ {q} PROVE HeldBy(q)' \cap HeldBy(r)' = {}
  <2>1. HeldBy(q) \cap HeldBy(r) = {}
    BY DEF Owned, BufferOwned
  <2> QED BY <1>1, <1>2, <1>4, <2>1 DEF OthersKeep
<1>9. BufferOwned'
  BY <1>6, <1>7, <1>8 DEF BufferOwned, Live
<1> QED BY <1>5, <1>9 DEF Owned

(* Publisher p gives its message to the channel, or its body to the pool. *)
LEMMA GiveOwned ==
  ASSUME ShapeOK, Owned, NEW p \in Publishers, SendToStack(p) \/ Put(p)
  PROVE  Owned'
<1> USE DEF chanVars, pubVars, Goto, PublisherAt
<1>0. /\ DOMAIN ppc = Publishers /\ DOMAIN message = Publishers
      /\ NoBuffer \notin Buffers
      /\ messageStack \in Seq(Buffers)
  BY DEF ShapeOK, BufferTypeOK, HandTypeOK, QueueTypeOK, ThreadTypeOK, Buffers, NoBuffer
<1>00. /\ ppc[p] \in {"send", "put"} /\ body[p] \in Buffers
       /\ ppc[p] = "send" => message[p] \in Buffers
       /\ ppc[p] = "put" => message[p] = NoBuffer
  BY DEF ShapeOK, BufferTypeOK, HandTypeOK, SendToStack, Put
<1>1. OthersKeep(p) /\ UNCHANGED HeldByFlow
  BY OthersKeepStep DEF PublishStep
<1>2. PICK b \in HeldBy(p) :
        /\ HeldBy(p)' = HeldBy(p) \ {b} /\ made' = made
        /\ \/ pool' = pool \cup {b} /\ messageStack' = messageStack
           \/ pool' = pool /\ messageStack' = Append(messageStack, b) /\ b \in Buffers
        /\ Live(p)' => body'[p] # message'[p]
  <2>1. CASE SendToStack(p)
    <3>1. message[p] \in HeldBy(p) /\ body[p] # message[p]
      BY <1>0, <1>00, <2>1 DEF SendToStack, HeldBy, Owned, BufferOwned
    <3>2. HeldBy(p)' = HeldBy(p) \ {message[p]} /\ body'[p] # message'[p]
      BY <1>0, <1>00, <2>1, <3>1 DEF SendToStack, HeldBy
    <3> QED BY <1>00, <2>1, <3>1, <3>2 DEF SendToStack, poolVars
  <2>2. CASE Put(p)
    <3>1. body[p] \in HeldBy(p) /\ HeldBy(p)' = HeldBy(p) \ {body[p]} /\ ~Live(p)'
      BY <1>0, <1>00, <2>2 DEF Put, HeldBy, Live
    <3> QED BY <2>2, <3>1 DEF Put, PutBody
  <2> QED BY <2>1, <2>2
<1>3. /\ b \notin pool \cup Stacked \cup HeldByFlow /\ b \in 1 .. made
      /\ \A q \in Publishers \ {p} : b \notin HeldBy(q)
  BY DEF Owned, BufferOwned, Known
<1>4. /\ pool' \cup Stacked' = pool \cup Stacked \cup {b} /\ pool' \cap Stacked' = {}
      /\ \A i, j \in 1 .. Len(messageStack') : i # j => messageStack'[i] # messageStack'[j]
  <2>0. /\ pool \cap Stacked = {}
        /\ \A i, j \in 1 .. Len(messageStack) : i # j => messageStack[i] # messageStack[j]
    BY DEF Owned, BufferOwned
  <2>1. CASE pool' = pool \cup {b} /\ messageStack' = messageStack
    BY <1>3, <2>0, <2>1 DEF Stacked
  <2>2. CASE pool' = pool /\ messageStack' = Append(messageStack, b) /\ b \in Buffers
    <3>1. /\ Len(messageStack') = Len(messageStack) + 1 /\ Len(messageStack) \in Nat
          /\ \A i \in 1 .. Len(messageStack) : messageStack'[i] = messageStack[i]
          /\ messageStack'[Len(messageStack) + 1] = b
      BY <1>0, <2>2
    <3>2. Stacked' = Stacked \cup {b}
      BY <3>1 DEF Stacked
    <3>3. \A i \in 1 .. Len(messageStack) : messageStack[i] # b
      BY <1>3 DEF Stacked
    <3> QED BY <1>3, <2>0, <2>2, <3>1, <3>2, <3>3
  <2> QED BY <1>2, <2>1, <2>2
<1>5. Known'
  BY <1>1, <1>2, <1>3, <1>4 DEF Owned, Known, OthersKeep
<1>6. HeldByFlow' \cap (pool' \cup Stacked') = {}
  BY <1>1, <1>3, <1>4 DEF Owned, BufferOwned
<1>7. ASSUME NEW q \in Publishers
      PROVE  /\ HeldBy(q)' \cap (pool' \cup Stacked' \cup HeldByFlow') = {}
             /\ Live(q)' => body'[q] # message'[q]
  <2>1. HeldBy(q) \cap (pool \cup Stacked \cup HeldByFlow) = {}
        /\ (Live(q) => body[q] # message[q])
    BY DEF Owned, BufferOwned, Live
  <2>2. CASE q = p
    BY <1>1, <1>2, <1>3, <1>4, <2>1, <2>2
  <2>3. CASE q # p
    BY <1>1, <1>2, <1>3, <1>4, <2>1, <2>3 DEF OthersKeep
  <2> QED BY <2>2, <2>3
<1>8. ASSUME NEW q \in Publishers, NEW r \in Publishers \ {q} PROVE HeldBy(q)' \cap HeldBy(r)' = {}
  <2>1. HeldBy(q) \cap HeldBy(r) = {}
    BY DEF Owned, BufferOwned
  <2> QED BY <1>1, <1>2, <2>1 DEF OthersKeep
<1>9. BufferOwned'
  BY <1>4, <1>6, <1>7, <1>8 DEF BufferOwned, Live
<1> QED BY <1>5, <1>9 DEF Owned

(* The flow takes a buffer from the channel, or gives it to the pool. *)
LEMMA FlowOwned ==
  ASSUME ShapeOK, Owned, Receive \/ PutLast
  PROVE  Owned'
<1> USE DEF chanVars, pubVars, FlowAt
<1>0. messageStack \in Seq(Buffers)
  BY DEF ShapeOK, BufferTypeOK, QueueTypeOK
<1>1. UNCHANGED <<ppc, body, message, made>>
  BY DEF Receive, PutLast, poolVars
<1>2. \A q \in Publishers : HeldBy(q)' = HeldBy(q) /\ Live(q)' = Live(q)
  BY <1>1 DEF HeldBy, Live
<1>3. /\ pool' \cup Stacked' \cup HeldByFlow' \subseteq pool \cup Stacked \cup HeldByFlow
      /\ pool' \cap Stacked' = {}
      /\ HeldByFlow' \cap (pool' \cup Stacked') = {}
      /\ \A i, j \in 1 .. Len(messageStack') : i # j => messageStack'[i] # messageStack'[j]
  <2>0. /\ pool \cap Stacked = {} /\ HeldByFlow \cap (pool \cup Stacked) = {}
        /\ \A i, j \in 1 .. Len(messageStack) : i # j => messageStack[i] # messageStack[j]
    BY DEF Owned, BufferOwned
  <2>1. CASE Receive
    <3>1. /\ messageStack # <<>> /\ messageStack' = Tail(messageStack) /\ pool' = pool
          /\ HeldByFlow' = {Head(messageStack)}
      BY <2>1 DEF Receive, HeldByFlow, poolVars
    <3>2. /\ Len(messageStack) \in Nat /\ Len(messageStack) >= 1
          /\ Len(messageStack') = Len(messageStack) - 1
          /\ Head(messageStack) = messageStack[1]
          /\ \A i \in 1 .. Len(messageStack') : messageStack'[i] = messageStack[i + 1]
      BY <1>0, <3>1
    <3>3. /\ Head(messageStack) \in Stacked /\ Stacked' \subseteq Stacked
          /\ Head(messageStack) \notin Stacked'
      BY <2>0, <3>2 DEF Stacked
    <3>4. \A i, j \in 1 .. Len(messageStack') : i # j => messageStack'[i] # messageStack'[j]
      BY <2>0, <3>2
    <3> QED BY <2>0, <3>1, <3>3, <3>4
  <2>2. CASE PutLast
    <3>1. /\ messageStack' = messageStack /\ pool' = pool \cup {lastMessage}
          /\ HeldByFlow = {lastMessage} /\ HeldByFlow' = {}
      BY <2>2 DEF PutLast, HeldByFlow
    <3>2. Stacked' = Stacked
      BY <3>1 DEF Stacked
    <3> QED BY <2>0, <3>1, <3>2
  <2> QED BY <2>1, <2>2
<1>4. Known'
  BY <1>1, <1>2, <1>3 DEF Owned, Known
<1>5. BufferOwned'
  BY <1>1, <1>2, <1>3 DEF Owned, BufferOwned, Live
<1> QED BY <1>4, <1>5 DEF Owned

(* The other steps move no buffer. *)
LEMMA RestOwned ==
  ASSUME ShapeOK, Owned,
         \/ \E p \in Publishers :
              PublishStep(p) /\ ~GetMessage(p) /\ ~SendToStack(p) /\ ~Put(p)
         \/ \E w \in Waiters : StartWait(w) \/ WaitForPublishComplete(w)
         \/ Flow /\ ~Receive /\ ~PutLast
         \/ StopDataFlow \/ Stop \/ UNCHANGED vars
  PROVE  Owned' /\ UNCHANGED poolVars /\ UNCHANGED messageStack
<1> USE DEF chanVars, pubVars, flowVars, Goto, PublisherAt, FlowAt
<1>0. /\ DOMAIN ppc = Publishers /\ DOMAIN body = Publishers /\ DOMAIN message = Publishers
      /\ \A p \in Publishers : ppc[p] = "reset" => message[p] = NoBuffer
  BY DEF ShapeOK, BufferTypeOK, HandTypeOK, ThreadTypeOK
<1>1. UNCHANGED <<poolVars, messageStack>>
  BY DEF PublishStep, Encode, WriteHeader, WriteBody, AddToWaitGroup, AddPanics, SendPanics,
         ResetBody, StartWait, WaitForPublishComplete, Wait, WaitReturns, WaitPanics, Flow,
         ReceivePanics, Copy, ResetLast, WgDone, Release, Write, LoopHead, Close, StopDataFlow,
         Stop, vars
<1>2. HeldByFlow' = HeldByFlow
  BY DEF PublishStep, Encode, WriteHeader, WriteBody, AddToWaitGroup, AddPanics, SendPanics,
         ResetBody, StartWait, WaitForPublishComplete, Wait, WaitReturns, WaitPanics, Flow,
         ReceivePanics, Copy, ResetLast, WgDone, Release, Write, AfterSend, StopFlow, LoopHead,
         Close, StopDataFlow, Stop, vars, HeldByFlow
<1>3. ASSUME NEW q \in Publishers
      PROVE  HeldBy(q)' = HeldBy(q) /\ Live(q)' = Live(q) /\ message'[q] = message[q]
             /\ (Live(q) => body'[q] = body[q])
  <2>1. CASE \E p \in Publishers :
               PublishStep(p) /\ ~GetMessage(p) /\ ~SendToStack(p) /\ ~Put(p)
    <3>1. PICK p \in Publishers : PublishStep(p) /\ ~GetMessage(p) /\ ~SendToStack(p) /\ ~Put(p)
      BY <2>1
    <3>2. CASE q = p
      BY <1>0, <3>1, <3>2 DEF PublishStep, Encode, WriteHeader, WriteBody, AddToWaitGroup,
                              AddPanics, SendPanics, ResetBody, HeldBy, Live
    <3>3. CASE q # p
      BY <3>1, <3>3, OthersKeepStep DEF OthersKeep
    <3> QED BY <3>2, <3>3
  <2>2. CASE \/ \E w \in Waiters : StartWait(w) \/ WaitForPublishComplete(w)
             \/ Flow /\ ~Receive /\ ~PutLast
             \/ StopDataFlow \/ Stop \/ UNCHANGED vars
    <3>1. UNCHANGED <<ppc, body, message>>
      BY <2>2 DEF StartWait, WaitForPublishComplete, Wait, WaitReturns, WaitPanics, Flow,
                  ReceivePanics, Copy, ResetLast, WgDone, Release, Write, LoopHead, Close,
                  StopDataFlow, Stop, vars
    <3> QED BY <3>1 DEF HeldBy, Live
  <2> QED BY <2>1, <2>2
<1>4. Stacked' = Stacked
  BY <1>1 DEF Stacked
<1>5. Known'
  BY <1>1, <1>2, <1>3, <1>4 DEF Owned, Known, poolVars
<1>6. BufferOwned'
  BY <1>1, <1>2, <1>3, <1>4 DEF Owned, BufferOwned, Live, poolVars
<1> QED BY <1>1, <1>5, <1>6 DEF Owned

LEMMA OwnedInvariant == Spec => []Owned
<1>1. Init => Owned
  BY DEF Init, Owned, BufferOwned, Known, Stacked, HeldByFlow, HeldBy
<1>2. ShapeOK /\ Owned /\ [Next]_vars => Owned'
  BY GetOwned, GiveOwned, FlowOwned, RestOwned DEF Next, PublishStep, Flow
<1> QED BY <1>1, <1>2, ShapeInvariant, PTL DEF Spec

(* A buffer is in the pool, in the channel or in the hands of one          *)
(* goroutine, although Publish and SendMessage still reset it after they   *)
(* have put it back.                                                       *)
THEOREM BufferOwnedCorrect == Spec => []BufferOwned
<1>1. Owned => BufferOwned
  BY DEF Owned
<1> QED BY <1>1, OwnedInvariant, PTL

-----------------------------------------------------------------------------
(* What the buffers hold, as long as none was handed out with its reset    *)
(* pending.  A buffer that Get may hand out is empty.                      *)
Clean ==
  /\ \A p \in Publishers : ppc[p] = "reset" => body[p] \in pool
  /\ flow = "reset" => lastMessage \in pool
  /\ \A b \in Buffers : b > made \/ b \in pool \ ToReset => content[b] = <<>>

(* How far publisher p is with its message. *)
Stage(p) ==
  /\ ppc[p] = "encode" => content[body[p]] = <<>>
  /\ ppc[p] = "getMessage" => content[body[p]] = <<Data(MyMessage(p))>>
  /\ ppc[p] \in {"writeHeader", "writeBody"} => bodyArr[p] = <<Data(MyMessage(p))>>
  /\ ppc[p] = "writeHeader" => content[message[p]] = <<>>
  /\ ppc[p] = "writeBody" => content[message[p]] = <<Header(1)>>
  /\ ppc[p] \in {"add", "send"} => content[message[p]] = Whole(MyMessage(p))

(* What SendMessage has in hand and what is in the channel is the rest of  *)
(* what was sent to the channel, in the same order.                        *)
InTransit ==
  /\ \A i \in 1 .. Len(messageStack) :
       content[messageStack[i]] = Whole(pushed[Len(wire) + Carried + Writing + i])
  /\ flow = "copy" => content[lastMessage] = Whole(pushed[Len(wire) + 1])
  /\ flow \in {"put", "reset", "wgDone", "release", "write"} =>
       replyMessage = Whole(pushed[Len(wire) + 1])

Intact ==
  ~late => Clean /\ (\A p \in Publishers : Stage(p)) /\ (~Ended => InTransit) /\ WireIntact

LateStays ==
  late => late'

LEMMA LateStep ==
  ASSUME [Next]_vars
  PROVE  LateStays
<1>1. ASSUME NEW p \in Publishers, Publish(p) \/ GetMessage(p) PROVE LateStays
  BY <1>1 DEF Publish, GetMessage, Get, LateStays
<1>2. CASE ~\E p \in Publishers : Publish(p) \/ GetMessage(p)
  BY <1>2 DEF Next, PublishStep, Encode, WriteHeader, WriteBody, AddToWaitGroup, SendToStack,
              AddPanics, SendPanics, Put, ResetBody, StartWait, WaitForPublishComplete, Wait,
              WaitReturns, WaitPanics, Flow, Receive, ReceivePanics, Copy, PutLast, ResetLast,
              WgDone, Release, Write, LoopHead, Close, StopDataFlow, Stop, vars, poolVars,
              LateStays
<1> QED BY <1>1, <1>2

Writes(p) == Encode(p) \/ WriteHeader(p) \/ WriteBody(p)

(* A step writes to a buffer in the hands of one publisher or resets one   *)
(* that is in the pool, and leaves the others alone.                       *)
LEMMA ContentStep ==
  ASSUME ShapeOK, Clean, [Next]_vars, NEW b \in Buffers
  PROVE  \/ content'[b] = content[b]
         \/ b \in pool /\ content'[b] = <<>>
         \/ \E p \in Publishers : Writes(p) /\ b \in HeldBy(p)
<1> USE DEF PublisherAt, FlowAt
<1>0. /\ content \in [Buffers -> Seq(Token)] /\ HandTypeOK
  BY DEF ShapeOK, BufferTypeOK, TokenTypeOK
<1>1. ASSUME NEW p \in Publishers, Writes(p) PROVE content'[b] = content[b] \/ b \in HeldBy(p)
  <2>1. CASE Encode(p)
    BY <1>0, <2>1 DEF Encode, WriteTo, HeldBy
  <2>2. CASE WriteHeader(p)
    BY <1>0, <2>2 DEF WriteHeader, WriteTo, HeldBy, HandTypeOK
  <2>3. CASE WriteBody(p)
    BY <1>0, <2>3 DEF WriteBody, WriteTo, HeldBy, HandTypeOK
  <2> QED BY <1>1, <2>1, <2>2, <2>3 DEF Writes
<1>2. ASSUME NEW p \in Publishers, ResetBody(p)
      PROVE  content'[b] = content[b] \/ (b \in pool /\ content'[b] = <<>>)
  BY <1>0, <1>2 DEF ResetBody, Reset, Clean
<1>3. ASSUME ResetLast
      PROVE  content'[b] = content[b] \/ (b \in pool /\ content'[b] = <<>>)
  BY <1>0, <1>3 DEF ResetLast, Reset, Clean
<1>4. CASE \/ \E p \in Publishers :
                Publish(p) \/ (PublishStep(p) /\ ~Writes(p) /\ ~ResetBody(p))
           \/ \E w \in Waiters : StartWait(w) \/ WaitForPublishComplete(w)
           \/ Flow /\ ~ResetLast
           \/ StopDataFlow \/ Stop \/ UNCHANGED vars
  <2>1. content' = content
    BY <1>4 DEF Publish, PublishStep, Writes, GetMessage, AddToWaitGroup, SendToStack, AddPanics,
                SendPanics, Put, StartWait, WaitForPublishComplete, Wait, WaitReturns,
                WaitPanics, Flow, Receive, ReceivePanics, Copy, PutLast, WgDone, Release, Write,
                LoopHead, Close, StopDataFlow, Stop, vars
  <2> QED BY <2>1
<1> QED BY <1>1, <1>2, <1>3, <1>4 DEF Next, PublishStep, Writes

(* Steps of other goroutines do not touch what p is working on. *)
LEMMA HeldUntouched ==
  ASSUME ShapeOK, Owned, Clean, [Next]_vars, NEW p \in Publishers, ~Writes(p),
         NEW b \in HeldBy(p), b \in Buffers
  PROVE  content'[b] = content[b]
<1>1. b \notin pool /\ \A q \in Publishers \ {p} : b \notin HeldBy(q)
  BY DEF Owned, BufferOwned
<1> QED BY <1>1, ContentStep

LEMMA QueueUntouched ==
  ASSUME ShapeOK, Owned, Clean, [Next]_vars, NEW b \in Stacked \cup HeldByFlow, b \in Buffers
  PROVE  content'[b] = content[b]
<1>1. b \notin pool /\ \A q \in Publishers : b \notin HeldBy(q)
  BY DEF Owned, BufferOwned
<1> QED BY <1>1, ContentStep

(* No buffer that Get may hand out gets dirty, unless one is handed out    *)
(* with its reset pending.                                                 *)
LEMMA CleanStep ==
  ASSUME ShapeOK, Owned, Clean, [Next]_vars, ~late'
  PROVE  Clean'
<1> USE DEF poolVars, chanVars, pubVars, waitVars, flowVars, histVars, PublisherAt, FlowAt, Goto
<1>0. /\ DOMAIN ppc = Publishers /\ DOMAIN body = Publishers
      /\ made \in Nat /\ content \in [Buffers -> Seq(Token)] /\ HandTypeOK
  BY GDPAssumption DEF ShapeOK, BufferTypeOK, HandTypeOK, ThreadTypeOK, PoolTypeOK, TokenTypeOK
<1>1. /\ \A p \in Publishers : ppc[p] = "reset" => body[p] \in pool /\ body[p] \in ToReset
      /\ flow = "reset" => lastMessage \in pool /\ lastMessage \in ToReset
      /\ \A b \in Buffers : b > made \/ b \in pool \ ToReset => content[b] = <<>>
  BY DEF Clean, ToReset
<1>2. ASSUME NEW p \in Publishers, Publish(p) \/ GetMessage(p) PROVE Clean'
  <2>1. PICK b \in Buffers : Get(b)
    BY <1>2 DEF Publish, GetMessage
  <2>2. \A q \in Publishers : /\ ppc[q] = "reset" <=> ppc'[q] = "reset"
                              /\ ppc[q] = "reset" => body'[q] = body[q]
    BY <1>0, <1>2 DEF Publish, GetMessage
  <2>3. UNCHANGED <<flow, lastMessage, content>>
    BY <1>2 DEF Publish, GetMessage
  <2>4. ToReset' = ToReset
    BY <2>2, <2>3 DEF ToReset
  <2>5. /\ \A c \in ToReset : c \in pool => c \in pool'
        /\ pool' \subseteq pool /\ made' \in Nat /\ made' >= made
    <3>1. \/ b \notin ToReset /\ pool' = pool \ {b} /\ made' = made
          \/ pool' = pool /\ made' = made + 1
      BY <2>1, Zenon DEF Get
    <3> QED BY <1>0, <3>1
  <2>6. /\ \A q \in Publishers : ppc'[q] = "reset" => body'[q] \in pool'
        /\ flow' = "reset" => lastMessage' \in pool'
    BY <1>1, <2>2, <2>3, <2>5
  <2>7. \A c \in Buffers : c > made' \/ c \in pool' \ ToReset' => content'[c] = <<>>
    BY <1>0, <1>1, <2>3, <2>4, <2>5 DEF Buffers
  <2> QED BY <2>6, <2>7 DEF Clean
<1>3. ASSUME NEW p \in Publishers, Put(p) PROVE Clean'
  <2>1. /\ pool' = pool \cup {body[p]} /\ UNCHANGED <<body, flow, lastMessage, content, made>>
        /\ ppc' = [ppc EXCEPT ![p] = "reset"]
    BY <1>3 DEF Put, PutBody
  <2>2. ToReset \cup {body[p]} \subseteq ToReset'
    BY <1>0, <1>3, <2>1 DEF ToReset
  <2> QED BY <1>0, <1>1, <2>1, <2>2 DEF Clean
<1>4. CASE PutLast
  <2>1. /\ pool' = pool \cup {lastMessage} /\ UNCHANGED <<body, ppc, lastMessage, content, made>>
        /\ flow = "put" /\ flow' = "reset"
    BY <1>4 DEF PutLast
  <2>2. ToReset \cup {lastMessage} \subseteq ToReset'
    BY <2>1 DEF ToReset
  <2> QED BY <1>1, <2>1, <2>2 DEF Clean
<1>5. ASSUME NEW p \in Publishers, ResetBody(p) PROVE Clean'
  <2>1. /\ UNCHANGED <<pool, flow, lastMessage, made>> /\ ppc[p] = "reset"
        /\ ppc' = [ppc EXCEPT ![p] = "idle"] /\ body' = [body EXCEPT ![p] = NoBuffer]
        /\ content' = [content EXCEPT ![body[p]] = <<>>]
    BY <1>5 DEF ResetBody, Reset
  <2>2. \A q \in Publishers : ppc'[q] = "reset" => ppc[q] = "reset" /\ body'[q] = body[q]
    BY <1>0, <2>1
  <2>3. ToReset \subseteq ToReset' \cup {body[p]}
    BY <1>0, <2>1 DEF ToReset
  <2>4. \A c \in Buffers : c > made \/ c \in pool \ ToReset' => content'[c] = <<>>
    BY <1>0, <1>1, <2>1, <2>3
  <2> QED BY <1>1, <2>1, <2>2, <2>4 DEF Clean
<1>6. CASE ResetLast
  <2>1. /\ UNCHANGED <<pool, ppc, body, made>> /\ flow' = "wgDone"
        /\ content' = [content EXCEPT ![lastMessage] = <<>>]
    BY <1>6 DEF ResetLast, Reset
  <2>2. ToReset \subseteq ToReset' \cup {lastMessage}
    BY <2>1 DEF ToReset
  <2>3. \A c \in Buffers : c > made \/ c \in pool \ ToReset' => content'[c] = <<>>
    BY <1>0, <1>1, <2>1, <2>2
  <2> QED BY <1>1, <2>1, <2>3 DEF Clean
<1>7. CASE \/ \E p \in Publishers :
                PublishStep(p) /\ ~GetMessage(p) /\ ~Put(p) /\ ~ResetBody(p)
           \/ \E w \in Waiters : StartWait(w) \/ WaitForPublishComplete(w)
           \/ Flow /\ ~PutLast /\ ~ResetLast
           \/ StopDataFlow \/ Stop \/ UNCHANGED vars
  <2>1. UNCHANGED <<poolVars, body>>
    BY <1>7 DEF PublishStep, Encode, WriteHeader, WriteBody, AddToWaitGroup, SendToStack,
                AddPanics, SendPanics, StartWait, WaitForPublishComplete, Wait, WaitReturns,
                WaitPanics, Flow, Receive, ReceivePanics, Copy, WgDone, Release, Write, LoopHead,
                Close, StopDataFlow, Stop, vars
  <2>2. \A q \in Publishers : ppc[q] = "reset" <=> ppc'[q] = "reset"
    BY <1>0, <1>7 DEF PublishStep, Encode, WriteHeader, WriteBody, AddToWaitGroup, SendToStack,
                      AddPanics, SendPanics, StartWait, WaitForPublishComplete, Wait,
                      WaitReturns, WaitPanics, Flow, Receive, ReceivePanics, Copy, WgDone, Release,
                      Write, LoopHead, Close, StopDataFlow, Stop, vars
  <2>3. /\ flow = "reset" <=> flow' = "reset"
        /\ flow = "reset" => lastMessage' = lastMessage
    BY <1>7 DEF PublishStep, Encode, WriteHeader, WriteBody, AddToWaitGroup, SendToStack,
                AddPanics, SendPanics, StartWait, WaitForPublishComplete, Wait, WaitReturns,
                WaitPanics, Flow, Receive, ReceivePanics, Copy, WgDone, Release, Write, AfterSend,
                StopFlow, LoopHead, Close, StopDataFlow, Stop, vars
  <2>4. ToReset' = ToReset
    BY <2>1, <2>2, <2>3 DEF ToReset
  <2>5. ASSUME NEW c \in Buffers, c > made \/ c \in pool \ ToReset PROVE content'[c] = <<>>
    <3>1. content[c] = <<>>
      BY <1>1, <2>5
    <3>2. \A p \in Publishers : c \notin HeldBy(p)
      BY <1>0, <2>5 DEF Owned, BufferOwned, Known
    <3> QED BY <3>1, <3>2, ContentStep
  <2> QED BY <1>1, <2>1, <2>2, <2>3, <2>4, <2>5 DEF Clean
<1> QED BY <1>2, <1>3, <1>4, <1>5, <1>6, <1>7 DEF Next, PublishStep, Flow

LEMMA GetIsClean ==
  ASSUME ShapeOK, Clean, NEW b \in Buffers, Get(b), ~late'
  PROVE  content[b] = <<>>
<1>1. made \in Nat /\ Buffers \subseteq Nat
  BY GDPAssumption DEF ShapeOK, BufferTypeOK, PoolTypeOK, Buffers
<1>2. b \in pool \ ToReset \/ b = made + 1
  BY Zenon DEF Get
<1>3. b \in pool \ ToReset \/ b > made
  BY <1>1, <1>2
<1> QED BY <1>3 DEF Clean

(* A message is put together from clean buffers, whoever else is at work.  *)
LEMMA StageStep ==
  ASSUME ShapeOK, Owned, Clean, NEW p \in Publishers, Stage(p), [Next]_vars, ~late'
  PROVE  Stage(p)'
<1> USE DEF poolVars, chanVars, pubVars, waitVars, flowVars, histVars, PublisherAt, FlowAt, Goto
<1>0. /\ DOMAIN ppc = Publishers /\ DOMAIN body = Publishers /\ DOMAIN message = Publishers
      /\ DOMAIN bodyArr = Publishers /\ DOMAIN published = Publishers /\ DOMAIN content = Buffers
      /\ ppc[p] # "idle" => body[p] \in Buffers
      /\ ppc[p] \in {"writeHeader", "writeBody", "add", "send"} => message[p] \in Buffers
  BY DEF ShapeOK, BufferTypeOK, HandTypeOK, ThreadTypeOK, TokenTypeOK
<1>1. CASE Publish(p)
  <2>1. PICK b \in Buffers : Get(b) /\ body' = [body EXCEPT ![p] = b]
    BY <1>1 DEF Publish
  <2>2. content[b] = <<>> /\ content' = content
    BY <1>1, <2>1, GetIsClean DEF Publish
  <2> QED BY <1>0, <1>1, <2>1, <2>2 DEF Publish, Stage
<1>2. CASE Encode(p)
  <2>1. content'[body[p]] = <<Data(MyMessage(p))>>
    BY <1>0, <1>2 DEF Encode, WriteTo, Stage
  <2>2. ppc'[p] \in {"getMessage", "put"} /\ body' = body /\ MyMessage(p)' = MyMessage(p)
    BY <1>0, <1>2 DEF Encode, MyMessage
  <2> QED BY <2>1, <2>2 DEF Stage, Data
<1>3. CASE GetMessage(p)
  <2>1. PICK b \in Buffers : Get(b) /\ message' = [message EXCEPT ![p] = b]
    BY <1>3 DEF GetMessage
  <2>2. content[b] = <<>> /\ content' = content
    BY <1>3, <2>1, GetIsClean DEF GetMessage
  <2>3. bodyArr'[p] = <<Data(MyMessage(p))>>
    BY <1>0, <1>3 DEF GetMessage, Stage
  <2>4. ppc'[p] = "writeHeader" /\ MyMessage(p)' = MyMessage(p) /\ message'[p] = b
    BY <1>0, <1>3, <2>1 DEF GetMessage, MyMessage
  <2> QED BY <2>2, <2>3, <2>4 DEF Stage, Data
<1>4. CASE WriteHeader(p)
  <2>1. bodyArr[p] = <<Data(MyMessage(p))>> /\ content[message[p]] = <<>>
    BY <1>4 DEF WriteHeader, Stage
  <2>2. content'[message[p]] = <<Header(1)>>
    BY <1>0, <1>4, <2>1 DEF WriteHeader, WriteTo
  <2>3. ppc'[p] = "writeBody" /\ UNCHANGED <<message, bodyArr>> /\ MyMessage(p)' = MyMessage(p)
    BY <1>0, <1>4 DEF WriteHeader, MyMessage
  <2> QED BY <2>1, <2>2, <2>3 DEF Stage, Data, Header
<1>5. CASE WriteBody(p)
  <2>1. bodyArr[p] = <<Data(MyMessage(p))>> /\ content[message[p]] = <<Header(1)>>
    BY <1>5 DEF WriteBody, Stage
  <2>2. content'[message[p]] = Whole(MyMessage(p))
    <3>1. content'[message[p]] = content[message[p]] \o bodyArr[p]
      BY <1>0, <1>5 DEF WriteBody, WriteTo
    <3>2. \A x, y : <<x>> \o <<y>> = <<x, y>>
      BY PairUp
    <3> QED BY <2>1, <3>1, <3>2, Zenon DEF Whole
  <2>3. ppc'[p] = "add" /\ UNCHANGED message /\ MyMessage(p)' = MyMessage(p)
    BY <1>0, <1>5 DEF WriteBody, MyMessage
  <2> QED BY <2>2, <2>3 DEF Stage, Whole, Data, Header
<1>6. CASE AddToWaitGroup(p) \/ AddPanics(p) \/ SendPanics(p)
  <2>1. /\ ppc[p] \in {"add", "send"} /\ ppc'[p] \in {"add", "send"}
        /\ UNCHANGED <<message, content>> /\ MyMessage(p)' = MyMessage(p)
    BY <1>0, <1>6 DEF AddToWaitGroup, AddPanics, SendPanics, MyMessage
  <2> QED BY <2>1 DEF Stage, Whole, Data, Header
<1>7. CASE SendToStack(p) \/ Put(p) \/ ResetBody(p)
  <2>1. ppc'[p] \in {"put", "reset", "idle"}
    BY <1>0, <1>7 DEF SendToStack, Put, ResetBody
  <2> QED BY <2>1 DEF Stage
<1>8. CASE ~Publish(p) /\ ~PublishStep(p)
  <2>1. /\ UNCHANGED <<ppc[p], body[p], message[p], bodyArr[p], published[p]>>
    <3>1. CASE \E q \in Publishers \ {p} : Publish(q) \/ PublishStep(q)
      BY <1>0, <3>1 DEF Publish, PublishStep, Encode, GetMessage, WriteHeader, WriteBody,
                        AddToWaitGroup, SendToStack, AddPanics, SendPanics, Put, ResetBody
    <3>2. CASE ~\E q \in Publishers : Publish(q) \/ PublishStep(q)
      <4>1. UNCHANGED pubVars
        BY <3>2 DEF Next, StartWait, WaitForPublishComplete, Wait, WaitReturns, WaitPanics, Flow,
                    Receive, ReceivePanics, Copy, PutLast, ResetLast, WgDone, Release, Write,
                    LoopHead, Close, StopDataFlow, Stop, vars
      <4> QED BY <4>1
    <3> QED BY <1>8, <3>1, <3>2
  <2>2. ~Writes(p)
    BY <1>8 DEF Writes, PublishStep
  <2>3. ppc[p] \in {"encode", "getMessage"} => content'[body[p]] = content[body[p]]
    BY <1>0, <2>2, HeldUntouched DEF HeldBy
  <2>4. ppc[p] \in {"writeHeader", "writeBody", "add", "send"} =>
          content'[message[p]] = content[message[p]]
    <3> SUFFICES ASSUME ppc[p] \in {"writeHeader", "writeBody", "add", "send"}
                 PROVE  content'[message[p]] = content[message[p]]
      OBVIOUS
    <3>1. message[p] \in HeldBy(p) /\ message[p] \in Buffers
      BY <1>0 DEF HeldBy, Buffers, NoBuffer
    <3> QED BY <2>2, <3>1, HeldUntouched
  <2>5. MyMessage(p)' = MyMessage(p)
    BY <2>1 DEF MyMessage
  <2> QED BY <2>1, <2>3, <2>4, <2>5 DEF Stage, Whole, Data, Header
<1> QED BY <1>1, <1>2, <1>3, <1>4, <1>5, <1>6, <1>7, <1>8 DEF PublishStep

LEMMA AppendIsLast ==
  ASSUME NEW S, NEW s \in Seq(S), NEW x \in S
  PROVE  /\ Len(s) \in Nat /\ Len(Append(s, x)) = Len(s) + 1
         /\ \A i \in 1 .. Len(s) : Append(s, x)[i] = s[i]
         /\ Append(s, x)[Len(s) + 1] = x
OBVIOUS

(* What was sent to the channel stays in its place of the history. *)
LEMMA PushedStep ==
  ASSUME ShapeOK, [Next]_vars
  PROVE  /\ Len(pushed) \in Nat /\ Len(pushed)' \in Nat /\ Len(pushed) <= Len(pushed)'
         /\ \A i \in 1 .. Len(pushed) : pushed'[i] = pushed[i]
<1>0. pushed \in Seq(Messages)
  BY DEF ShapeOK, BufferTypeOK, QueueTypeOK
<1>1. CASE \E p \in Publishers : SendToStack(p)
  <2>1. PICK p \in Publishers : SendToStack(p)
    BY <1>1
  <2>2. MyMessage(p) \in Messages /\ pushed' = Append(pushed, MyMessage(p))
    BY <2>1, MyMessageType DEF SendToStack, PublisherAt, ShapeOK
  <2> QED BY <1>0, <2>2, AppendIsLast
<1>2. CASE ~\E p \in Publishers : SendToStack(p)
  <2>1. pushed' = pushed
    BY <1>2 DEF Next, Publish, PublishStep, Encode, GetMessage, WriteHeader, WriteBody,
                AddToWaitGroup, AddPanics, SendPanics, Put, ResetBody, StartWait,
                WaitForPublishComplete, Wait, WaitReturns, WaitPanics, Flow, Receive,
                ReceivePanics, Copy, PutLast, ResetLast, WgDone, Release, Write, LoopHead, Close,
                StopDataFlow, Stop, vars, histVars
  <2> QED BY <1>0, <2>1
<1> QED BY <1>1, <1>2

LEMMA WireStep ==
  ASSUME ShapeOK, AllAccounted, ~Ended => InTransit, WireIntact, [Next]_vars
  PROVE  WireIntact'
<1>0. wire \in Seq(Seq(Token)) /\ messageStack \in Seq(Buffers) /\ replyMessage \in Seq(Token)
  BY DEF ShapeOK, BufferTypeOK, TokenTypeOK, QueueTypeOK
<1>1. Len(wire) \in Nat /\ Len(messageStack) \in Nat
  <2>1. \A S : \A s \in Seq(S) : Len(s) \in Nat
    OBVIOUS
  <2> QED BY <1>0, <2>1, Zenon
<1>2. /\ Len(pushed) \in Nat /\ Len(pushed)' \in Nat /\ Len(pushed) <= Len(pushed)'
      /\ \A i \in 1 .. Len(pushed) : pushed'[i] = pushed[i]
  BY PushedStep
<1>3. CASE wire' = wire
  BY <1>1, <1>2, <1>3 DEF WireIntact, Whole, Header, Data
<1>4. CASE Write /\ wire' # wire
  <2>1. flow = "write" /\ wire' = Append(wire, replyMessage)
    BY <1>4 DEF Write, FlowAt
  <2>2. /\ Len(wire') = Len(wire) + 1 /\ wire'[Len(wire) + 1] = replyMessage
        /\ \A i \in 1 .. Len(wire) : wire'[i] = wire[i]
    BY <1>0, <2>1, AppendIsLast, Zenon
  <2>3. replyMessage = Whole(pushed[Len(wire) + 1]) /\ Len(pushed) >= Len(wire) + 1
    BY <1>1, <1>2, <2>1 DEF InTransit, AllAccounted, Ended, Carried, Writing
  <2>4. ASSUME NEW i \in 1 .. Len(wire') PROVE wire'[i] = Whole(pushed'[i])
    <3>1. i \in 1 .. Len(pushed) /\ pushed'[i] = pushed[i]
      BY <1>1, <1>2, <2>2, <2>3
    <3>2. CASE i = Len(wire) + 1
      BY <2>2, <2>3, <3>1, <3>2 DEF Whole, Header, Data
    <3>3. CASE i \in 1 .. Len(wire)
      BY <2>2, <3>1, <3>3 DEF WireIntact, Whole, Header, Data
    <3> QED BY <1>1, <2>2, <3>2, <3>3
  <2> QED BY <1>1, <1>2, <2>2, <2>3, <2>4 DEF WireIntact, Whole, Header, Data
<1>5. CASE ~Write
  <2>1. wire' = wire
    BY <1>5 DEF Next, Publish, PublishStep, Encode, GetMessage, WriteHeader, WriteBody,
                AddToWaitGroup, SendToStack, AddPanics, SendPanics, Put, ResetBody, StartWait,
                WaitForPublishComplete, Wait, WaitReturns, WaitPanics, Flow, Receive,
                ReceivePanics, Copy, PutLast, ResetLast, WgDone, Release, LoopHead, Close,
                StopDataFlow, Stop, vars, histVars
  <2> QED BY <1>3, <2>1
<1> QED BY <1>3, <1>4, <1>5

(* How far behind the end of wire the channel begins. *)
Base == Len(wire) + Carried + Writing

(* The channel holds the tail of what was sent to it. *)
LEMMA ChannelStep ==
  ASSUME ShapeOK, Owned, Clean, AllAccounted, \A p \in Publishers : Stage(p), InTransit,
         [Next]_vars, ~Ended'
  PROVE  \A i \in 1 .. Len(messageStack') :
           content'[messageStack'[i]] = Whole(pushed'[Base' + i])
<1> USE DEF poolVars, chanVars, pubVars, waitVars, flowVars, histVars, PublisherAt, FlowAt, Goto
<1>0. /\ messageStack \in Seq(Buffers) /\ pushed \in Seq(Messages)
      /\ wire \in Seq(Seq(Token)) /\ replyMessage \in Seq(Token)
  BY DEF ShapeOK, BufferTypeOK, QueueTypeOK, TokenTypeOK
<1>1. /\ Len(wire) \in Nat /\ Len(messageStack) \in Nat /\ Base \in Nat /\ Len(pushed) \in Nat
      /\ Carried \in Nat /\ Writing \in Nat /\ Carried' \in Nat /\ Writing' \in Nat
      /\ ~Ended
  <2>1. Len(wire) \in Nat /\ Len(messageStack) \in Nat /\ Len(pushed) \in Nat /\ ~Ended
    BY LengthStep
  <2>2. Carried \in Nat /\ Writing \in Nat /\ Carried' \in Nat /\ Writing' \in Nat
    BY DEF Carried, Writing
  <2> QED BY <2>1, <2>2 DEF Base
<1>2. Len(pushed) = Base + Len(messageStack)
  BY <1>1 DEF AllAccounted, Base
<1>3. /\ Len(pushed)' \in Nat /\ Len(pushed) <= Len(pushed)'
      /\ \A i \in 1 .. Len(pushed) : pushed'[i] = pushed[i]
  BY PushedStep
<1>4. \A i \in 1 .. Len(messageStack) :
        /\ content'[messageStack[i]] = Whole(pushed[Base + i])
        /\ pushed'[Base + i] = pushed[Base + i]
  <2> TAKE i \in 1 .. Len(messageStack)
  <2>1. messageStack[i] \in Stacked /\ messageStack[i] \in Buffers
    BY <1>0 DEF Stacked
  <2>2. content'[messageStack[i]] = content[messageStack[i]]
    BY <2>1, QueueUntouched
  <2>3. content[messageStack[i]] = Whole(pushed[Base + i])
    <3>1. Base + i = Len(wire) + Carried + Writing + i
      BY DEF Base
    <3> QED BY <3>1 DEF InTransit
  <2>4. Base + i \in 1 .. Len(pushed)
    BY <1>1, <1>2
  <2> QED BY <1>3, <2>2, <2>3, <2>4
<1>5. ASSUME NEW p \in Publishers, SendToStack(p)
      PROVE  /\ messageStack' = Append(messageStack, message[p]) /\ message[p] \in Buffers
             /\ Base' = Base
             /\ content'[message[p]] = Whole(pushed'[Base + Len(messageStack) + 1])
  <2>1. MyMessage(p) \in Messages /\ pushed' = Append(pushed, MyMessage(p))
    BY <1>5, MyMessageType DEF SendToStack, ShapeOK
  <2>2. pushed'[Len(pushed) + 1] = MyMessage(p)
    BY <1>0, <2>1, AppendIsLast
  <2>3. message[p] \in Buffers /\ content[message[p]] = Whole(MyMessage(p))
    BY <1>5 DEF SendToStack, ShapeOK, BufferTypeOK, HandTypeOK, Stage
  <2>4. /\ content' = content /\ messageStack' = Append(messageStack, message[p])
        /\ UNCHANGED <<wire, flow>>
    BY <1>5 DEF SendToStack
  <2>5. Base' = Base
    BY <2>4 DEF Base, Carried, Writing
  <2> QED BY <1>2, <2>2, <2>3, <2>4, <2>5
<1>6. CASE \E p \in Publishers : SendToStack(p)
  <2>1. PICK p \in Publishers : SendToStack(p)
    BY <1>6
  <2>2. /\ Len(messageStack') = Len(messageStack) + 1
        /\ \A i \in 1 .. Len(messageStack) : messageStack'[i] = messageStack[i]
        /\ messageStack'[Len(messageStack) + 1] = message[p]
    <3>1. messageStack' = Append(messageStack, message[p]) /\ message[p] \in Buffers
      BY <1>5, <2>1
    <3> QED BY <1>0, <3>1, AppendIsLast, Zenon
  <2>3. Base' = Base /\ content'[message[p]] = Whole(pushed'[Base + Len(messageStack) + 1])
    BY <1>5, <2>1
  <2> TAKE i \in 1 .. Len(messageStack')
  <2>4. CASE i = Len(messageStack) + 1
    <3>1. Base + Len(messageStack) + 1 = Base' + i
      BY <1>1, <2>3, <2>4
    <3> QED BY <2>2, <2>3, <2>4, <3>1
  <2>5. CASE i \in 1 .. Len(messageStack)
    BY <1>4, <2>2, <2>3, <2>5
  <2> QED BY <1>1, <2>2, <2>4, <2>5
<1>7. CASE Receive
  <2>1. /\ messageStack # <<>> /\ messageStack' = Tail(messageStack)
        /\ Carried = 0 /\ Writing = 0 /\ Carried' = 1 /\ Writing' = 0 /\ UNCHANGED wire
    BY <1>7 DEF Receive, Carried, Writing
  <2>2. /\ Len(messageStack') = Len(messageStack) - 1
        /\ \A i \in 1 .. Len(messageStack') : messageStack'[i] = messageStack[i + 1]
    BY <1>0, <2>1
  <2>3. Base' = Base + 1
    BY <1>1, <2>1 DEF Base
  <2> TAKE i \in 1 .. Len(messageStack')
  <2>4. i + 1 \in 1 .. Len(messageStack) /\ Base' + i = Base + (i + 1)
    BY <1>1, <2>2, <2>3
  <2> QED BY <1>4, <2>2, <2>4
<1>8. CASE ~Receive /\ ~\E p \in Publishers : SendToStack(p)
  <2>1. messageStack' = messageStack
    BY <1>8 DEF Next, Publish, PublishStep, Encode, GetMessage, WriteHeader, WriteBody,
                AddToWaitGroup, AddPanics, SendPanics, Put, ResetBody, StartWait,
                WaitForPublishComplete, Wait, WaitReturns, WaitPanics, Flow, ReceivePanics, Copy,
                PutLast, ResetLast, WgDone, Release, Write, LoopHead, Close, StopDataFlow, Stop,
                vars
  <2>2. Base' = Base
    <3>1. CASE Write
      <4>1. flow = "write" /\ flow' = "loop" /\ wire' = Append(wire, replyMessage)
        BY <1>1, <3>1 DEF Write, StopFlow, Ended
      <4>2. Len(wire') = Len(wire) + 1
        BY <1>0, <4>1, AppendIsLast, Zenon
      <4> QED BY <1>1, <4>1, <4>2 DEF Base, Carried, Writing
    <3>2. CASE ~Write
      <4>1. wire' = wire
        BY <1>8, <3>2 DEF Next, Publish, PublishStep, Encode, GetMessage, WriteHeader, WriteBody,
                          AddToWaitGroup, AddPanics, SendPanics, Put, ResetBody, StartWait,
                          WaitForPublishComplete, Wait, WaitReturns, WaitPanics, Flow,
                          ReceivePanics, Copy, PutLast, ResetLast, WgDone, Release, LoopHead,
                          Close, StopDataFlow, Stop, vars
      <4>2. \/ Carried' = Carried /\ Writing' = Writing
            \/ Carried = 1 /\ Writing = 0 /\ Carried' = 0 /\ Writing' = 1
        <5>1. CASE WgDone
          BY <5>1, DoneFlow DEF Ended, Carried, Writing
        <5>2. CASE Release
          BY <5>2, DoneFlow DEF Ended, Carried, Writing
        <5>3. CASE ~WgDone /\ ~Release
          BY <1>8, <3>2, <5>3
             DEF Next, Publish, PublishStep, Encode, GetMessage, WriteHeader, WriteBody,
                 AddToWaitGroup, AddPanics, SendPanics, Put, ResetBody, StartWait,
                 WaitForPublishComplete, Wait, WaitReturns, WaitPanics, Flow, ReceivePanics,
                 Copy, PutLast, ResetLast, LoopHead, Close, StopDataFlow, Stop, vars,
                 Carried, Writing, Ended
        <5> QED BY <5>1, <5>2, <5>3
      <4>3. CASE Carried' = Carried /\ Writing' = Writing
        BY <4>1, <4>3 DEF Base
      <4>4. CASE Carried = 1 /\ Writing = 0 /\ Carried' = 0 /\ Writing' = 1
        BY <1>1, <4>1, <4>4 DEF Base
      <4> QED BY <4>2, <4>3, <4>4
    <3> QED BY <3>1, <3>2
  <2> QED BY <1>4, <2>1, <2>2
<1> QED BY <1>6, <1>7, <1>8

(* What SendMessage has in hand is the message after those on the wire. *)
LEMMA CarriedStep ==
  ASSUME ShapeOK, Owned, Clean, AllAccounted, InTransit, [Next]_vars, ~Ended'
  PROVE  /\ flow' = "copy" => content'[lastMessage'] = Whole(pushed'[Len(wire') + 1])
         /\ flow' \in {"put", "reset", "wgDone", "release", "write"} =>
              replyMessage' = Whole(pushed'[Len(wire') + 1])
<1> USE DEF poolVars, chanVars, pubVars, waitVars, flowVars, histVars, FlowAt
<1> DEFINE InHand == {"copy", "put", "reset", "wgDone", "release", "write"}
<1>0. messageStack \in Seq(Buffers) /\ HandTypeOK
  BY DEF ShapeOK, BufferTypeOK, QueueTypeOK
<1>1. Len(wire) \in Nat /\ Len(messageStack) \in Nat /\ Len(pushed) \in Nat /\ ~Ended
  BY LengthStep
<1>2. Carried + Writing = 1 \/ messageStack # <<>> => pushed'[Len(wire) + 1] = pushed[Len(wire) + 1]
  <2> SUFFICES ASSUME Carried + Writing = 1 \/ messageStack # <<>>
               PROVE  Len(wire) + 1 \in 1 .. Len(pushed)
    BY PushedStep
  <2>1. messageStack # <<>> => Len(messageStack) >= 1
    BY <1>0
  <2> QED BY <1>1, <2>1 DEF AllAccounted, Carried, Writing
<1>3. CASE Receive
  <2>1. /\ messageStack # <<>> /\ lastMessage' = Head(messageStack) /\ flow' = "copy"
        /\ Carried = 0 /\ Writing = 0 /\ UNCHANGED <<wire, content>>
    BY <1>3 DEF Receive, Carried, Writing
  <2>2. Head(messageStack) = messageStack[1] /\ 1 \in 1 .. Len(messageStack)
    BY <1>0, <1>1, <2>1
  <2>3. content[messageStack[1]] = Whole(pushed[Len(wire) + Carried + Writing + 1])
    BY <2>2 DEF InTransit
  <2>4. Len(wire) + Carried + Writing + 1 = Len(wire) + 1
    BY <1>1, <2>1
  <2> QED BY <1>2, <2>1, <2>2, <2>3, <2>4
<1>4. CASE Copy
  <2>1. /\ flow = "copy" /\ flow' = "put" /\ replyMessage' = content[lastMessage]
        /\ UNCHANGED wire /\ Carried + Writing = 1
    BY <1>4 DEF Copy, Carried, Writing
  <2> QED BY <1>2, <2>1 DEF InTransit
<1>5. CASE ~Receive /\ ~Copy /\ flow' \in InHand
  <2>1. /\ flow \in InHand
        /\ flow' = "copy" => flow = "copy" /\ UNCHANGED <<lastMessage, wire>>
        /\ flow' # "copy" => flow # "copy" /\ UNCHANGED <<replyMessage, wire>>
    BY <1>1, <1>5
       DEF Next, Publish, PublishStep, Encode, GetMessage, WriteHeader, WriteBody,
           AddToWaitGroup, SendToStack, AddPanics, SendPanics, Put, ResetBody, StartWait,
           WaitForPublishComplete, Wait, WaitReturns, WaitPanics, Flow, ReceivePanics, PutLast,
           ResetLast, WgDone, Release, Write, AfterSend, StopFlow, LoopHead, Close, StopDataFlow,
           Stop, vars, Ended
  <2>2. Carried + Writing = 1
    BY <2>1 DEF Carried, Writing
  <2>3. flow = "copy" => content'[lastMessage] = content[lastMessage]
    BY <1>0, QueueUntouched DEF HeldByFlow, HandTypeOK
  <2> QED BY <1>2, <1>5, <2>1, <2>2, <2>3 DEF InTransit
<1> QED BY <1>3, <1>4, <1>5

LEMMA IntactStep ==
  ASSUME ShapeOK, Owned, AllAccounted, Intact, [Next]_vars
  PROVE  Intact'
<1> SUFFICES ASSUME ~late' PROVE Intact'
  BY DEF Intact
<1>1. Clean /\ (\A p \in Publishers : Stage(p)) /\ (~Ended => InTransit) /\ WireIntact
  BY LateStep DEF LateStays, Intact
<1>2. Clean'
  BY <1>1, CleanStep
<1>3. \A p \in Publishers : Stage(p)'
  BY <1>1, StageStep
<1>4. ~Ended' => InTransit'
  <2> SUFFICES ASSUME ~Ended' PROVE InTransit'
    OBVIOUS
  <2>1. InTransit
    BY <1>1, LengthStep
  <2>2. \A i \in 1 .. Len(messageStack') :
          content'[messageStack'[i]] = Whole(pushed'[Base' + i])
    BY <1>1, <2>1, ChannelStep
  <2>3. /\ flow' = "copy" => content'[lastMessage'] = Whole(pushed'[Len(wire') + 1])
        /\ flow' \in {"put", "reset", "wgDone", "release", "write"} =>
             replyMessage' = Whole(pushed'[Len(wire') + 1])
    BY <1>1, <2>1, CarriedStep
  <2> QED BY <2>2, <2>3 DEF InTransit, Base, Whole, Header, Data
<1>5. WireIntact'
  BY <1>1, WireStep
<1> QED BY <1>2, <1>3, <1>4, <1>5 DEF Intact

(* The wire carries what was published, one header and one body each, in   *)
(* the order of the channel, as long as no buffer was handed out between   *)
(* its Put and its Reset: with the two in that order, this is the only way *)
(* a message can be damaged, whatever else the goroutines do.              *)
THEOREM IntactUnlessLateCorrect == Spec => []IntactUnlessLate
<1>1. Init => Intact
  <2> SUFFICES ASSUME Init PROVE Intact
    OBVIOUS
  <2>1. Clean
    BY DEF Init, Clean, Buffers
  <2>2. \A p \in Publishers : Stage(p)
    BY DEF Init, Stage
  <2>3. InTransit /\ WireIntact
    BY DEF Init, InTransit, WireIntact
  <2> QED BY <2>1, <2>2, <2>3 DEF Intact
<1>2. ShapeOK /\ Owned /\ Covered /\ Intact /\ [Next]_vars => Intact'
  BY IntactStep DEF Covered
<1>3. Intact => IntactUnlessLate
  BY DEF Intact, IntactUnlessLate
<1> QED BY <1>1, <1>2, <1>3, ShapeInvariant, OwnedInvariant, CoveredInvariant, PTL DEF Spec

=============================================================================
