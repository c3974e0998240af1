------------------------- MODULE DataPublisherProofs -------------------------
(***************************************************************************)
(* Safety of the C++ data publisher for any number of publishers, waiters, *)
(* messages and sizes.  The inductive invariant is Fifo together with the  *)
(* type of the queues: the messages pushed are those written, those the    *)
(* flow thread holds and those in the queue, in this order.                *)
(***************************************************************************)
EXTENDS DataPublisher, SequenceTheorems, TLAPS

(* What one step may do to the queues. *)
QueuesSame == UNCHANGED <<messageStack, retMessage, pushed, wire>>

PushStep ==
  \E m \in Message :
    /\ messageStack' = Append(messageStack, m) /\ pushed' = Append(pushed, m)
    /\ UNCHANGED <<retMessage, wire, flow>>

TakeStep ==
  /\ flow = "take"
  /\ \E n \in 1 .. Len(messageStack) :
       /\ messageStack' = SubSeq(messageStack, n + 1, Len(messageStack))
       /\ \/ retMessage' = SubSeq(messageStack, 1, n) /\ flow' = "notify"
          \/ retMessage' = SubSeq(messageStack, 1, n - 1) /\ flow' = "close"
  /\ UNCHANGED <<pushed, wire>>

WriteStep ==
  /\ flow = "write" /\ flow' = "loop"
  /\ wire' = wire \o retMessage /\ retMessage' = <<>>
  /\ UNCHANGED <<messageStack, pushed>>

(* The flow thread goes from one label to the next without touching the    *)
(* queues.                                                                 *)
FlowMove ==
  \/ flow' = flow
  \/ flow \in {"waitData", "checkStop", "loop"} /\ flow' \in {"waitData", "checkStop", "take", "close"}
  \/ flow = "notify" /\ flow' = "write"
  \/ flow = "write" /\ flow' = "close"
  \/ flow = "close" /\ flow' = "done"

LEMMA PopProperties ==
  ASSUME NEW S, NEW s \in Seq(S), NEW n \in 1 .. Len(s)
  PROVE  /\ SubSeq(s, 1, n) \in Seq(S) /\ SubSeq(s, n + 1, Len(s)) \in Seq(S)
         /\ SubSeq(s, 1, n - 1) \in Seq(S)
         /\ SubSeq(s, 1, n) # <<>>
         /\ Len(SubSeq(s, 1, n)) = n
         /\ SubSeq(s, 1, n) \o SubSeq(s, n + 1, Len(s)) = s
<1>1. SubSeq(s, 1, n) \in Seq(S) /\ Len(SubSeq(s, 1, n)) = n
  BY SubSeqProperties
<1>2. SubSeq(s, n + 1, Len(s)) \in Seq(S) /\ SubSeq(s, 1, n - 1) \in Seq(S)
  BY SubSeqProperties
<1>3. SubSeq(s, 1, n) \o SubSeq(s, n + 1, Len(s)) = SubSeq(s, 1, Len(s))
  BY ConcatAdjacentSubSeq
<1> QED BY <1>1, <1>2, <1>3, SubSeqFull

-----------------------------------------------------------------------------
(* Every step is one of these, as far as the queues are concerned. *)
LEMMA QueueSteps ==
  ASSUME TypeOK, [Next]_vars
  PROVE  PushStep \/ TakeStep \/ WriteStep \/ (QueuesSame /\ FlowMove)
<1> USE DEF pubVars, waitVars, flowVars, QueuesSame, FlowMove
<1>1. ASSUME NEW p \in Publishers, Publish(p) PROVE PushStep
  <2>1. published[p] + 1 \in 1 .. MaxPublish
    BY <1>1, DPAssumption DEF Publish, TypeOK, ThreadTypeOK
  <2>2. PICK size \in Sizes : /\ Push(NextMessage(p, size))
                              /\ pushed' = Append(pushed, NextMessage(p, size))
    BY <1>1 DEF Publish
  <2>3. NextMessage(p, size) \in Message
    BY <2>1 DEF NextMessage, Message
  <2> QED BY <1>1, <2>2, <2>3 DEF Publish, PushStep, Push
<1>2. ASSUME NEW p \in Publishers, NotifyPublish(p) PROVE QueuesSame /\ FlowMove
  BY <1>2 DEF NotifyPublish
<1>3. ASSUME NEW w \in Waiters, WaitPublishComplete(w) \/ WakeUp(w)
      PROVE  QueuesSame /\ FlowMove
  BY <1>3 DEF WaitPublishComplete, WakeUp
<1>4. CASE Take
  <2>1. flow = "take" /\ UNCHANGED <<pushed, wire>>
    BY <1>4 DEF Take
  <2>2. \E n \in 1 .. Len(messageStack) :
          /\ messageStack' = SubSeq(messageStack, n + 1, Len(messageStack))
          /\ \/ retMessage' = SubSeq(messageStack, 1, n) /\ flow' = "notify"
             \/ retMessage' = SubSeq(messageStack, 1, n - 1) /\ flow' = "close"
    BY <1>4 DEF Take, Pop, FirstOf, StopFlow
  <2> QED BY <2>1, <2>2 DEF TakeStep
<1>5. CASE Write
  BY <1>5 DEF Write, WriteStep, StopFlow
<1>6. CASE WaitData \/ CheckStop \/ Notify \/ LoopHead \/ Close
  BY <1>6 DEF WaitData, CheckStop, Notify, LoopHead, Close, StopFlow
<1>7. CASE StopDataFlow \/ StopStep \/ UNCHANGED vars
  BY <1>7 DEF StopDataFlow, StopStep, SetStopWait, NotifyStop, vars
<1> QED BY <1>1, <1>2, <1>3, <1>4, <1>5, <1>6, <1>7 DEF Next, Flow

LEMMA QueueType ==
  ASSUME TypeOK, [Next]_vars
  PROVE  QueueTypeOK'
<1>0. QueueTypeOK
  BY DEF TypeOK
<1>1. CASE PushStep
  BY <1>0, <1>1 DEF PushStep, QueueTypeOK
<1>2. CASE TakeStep
  <2>1. PICK n \in 1 .. Len(messageStack) :
          /\ messageStack' = SubSeq(messageStack, n + 1, Len(messageStack))
          /\ \/ retMessage' = SubSeq(messageStack, 1, n)
             \/ retMessage' = SubSeq(messageStack, 1, n - 1)
    BY <1>2 DEF TakeStep
  <2>2. /\ SubSeq(messageStack, 1, n) \in Seq(Message)
        /\ SubSeq(messageStack, 1, n - 1) \in Seq(Message)
        /\ SubSeq(messageStack, n + 1, Len(messageStack)) \in Seq(Message)
    BY <1>0, PopProperties DEF QueueTypeOK
  <2>3. messageStack' \in Seq(Message) /\ retMessage' \in Seq(Message)
    BY <2>1, <2>2
  <2> QED BY <1>0, <1>2, <2>3 DEF TakeStep, QueueTypeOK
<1>3. CASE WriteStep
  <2>1. wire \o retMessage \in Seq(Message)
    BY <1>0, ConcatProperties DEF QueueTypeOK
  <2> QED BY <1>0, <1>3, <2>1 DEF WriteStep, QueueTypeOK
<1>4. CASE QueuesSame
  BY <1>0, <1>4 DEF QueuesSame, QueueTypeOK
<1> QED BY <1>1, <1>2, <1>3, <1>4, QueueSteps

LEMMA ThreadType ==
  ASSUME TypeOK, [Next]_vars
  PROVE  ThreadTypeOK'
<1> USE DEF pubVars, waitVars, flowVars, NotifyAll
<1>0. ThreadTypeOK /\ Len(pushed) \in Nat
  BY DEF TypeOK, QueueTypeOK
<1>1. ASSUME NEW p \in Publishers, Publish(p) PROVE ThreadTypeOK'
  <2>1. published' \in [Publishers -> 0 .. MaxPublish]
    BY <1>0, <1>1, DPAssumption DEF Publish, ThreadTypeOK
  <2> QED BY <1>0, <1>1, <2>1 DEF Publish, ThreadTypeOK
<1>2. ASSUME NEW p \in Publishers, NotifyPublish(p) PROVE ThreadTypeOK'
  BY <1>0, <1>2 DEF NotifyPublish, ThreadTypeOK
<1>3. ASSUME NEW w \in Waiters, WaitPublishComplete(w) PROVE ThreadTypeOK'
  <2>1. seen' \in [Waiters -> Nat]
    BY <1>0, <1>3 DEF WaitPublishComplete, ThreadTypeOK
  <2>2. wpc' \in [Waiters -> {"idle", "wait", "done"}] /\ waiting' \subseteq Waiters \cup {"flow"}
    BY <1>0, <1>3 DEF WaitPublishComplete, ThreadTypeOK
  <2> QED BY <1>0, <1>3, <2>1, <2>2 DEF WaitPublishComplete, ThreadTypeOK
<1>4. ASSUME NEW w \in Waiters, WakeUp(w) PROVE ThreadTypeOK'
  BY <1>0, <1>4 DEF WakeUp, ThreadTypeOK
<1>5. CASE Flow
  BY <1>0, <1>5 DEF Flow, WaitData, CheckStop, Take, Notify, Write, LoopHead, Close, StopFlow,
                    ThreadTypeOK
<1>6. CASE StopDataFlow \/ StopStep \/ UNCHANGED vars
  BY <1>0, <1>6 DEF StopDataFlow, StopStep, SetStopWait, NotifyStop, vars, ThreadTypeOK
<1> QED BY <1>1, <1>2, <1>3, <1>4, <1>5, <1>6 DEF Next

(* Every variable keeps its type. *)
THEOREM TypeCorrect == Spec => []TypeOK
<1>1. Init => TypeOK
  <2> SUFFICES ASSUME Init PROVE TypeOK
    OBVIOUS
  <2>1. QueueTypeOK
    BY DEF Init, QueueTypeOK
  <2>2. published \in [Publishers -> 0 .. MaxPublish]
    BY DPAssumption DEF Init
  <2>3. ThreadTypeOK
    BY <2>2 DEF Init, ThreadTypeOK
  <2> QED BY <2>1, <2>3 DEF TypeOK
<1>2. TypeOK /\ [Next]_vars => TypeOK'
  BY QueueType, ThreadType DEF TypeOK
<1> QED BY <1>1, <1>2, PTL DEF Spec

-----------------------------------------------------------------------------
(* What the flow thread holds, and in what order. *)
Holds == Running => (retMessage # <<>> <=> flow \in {"notify", "write"})

Fifo == Conserved /\ Holds /\ WrittenInOrder

LEMMA ConcatPrefix ==
  ASSUME NEW S, NEW s \in Seq(S), NEW t \in Seq(S)
  PROVE  Len(s) <= Len(s \o t) /\ \A i \in 1 .. Len(s) : s[i] = (s \o t)[i]
BY ConcatProperties

LEMMA FifoStep ==
  ASSUME TypeOK, Fifo, [Next]_vars
  PROVE  Fifo'
<1>0. QueueTypeOK /\ QueueTypeOK' /\ Len(pushed) \in Nat /\ Len(wire) \in Nat
  BY QueueType DEF TypeOK, QueueTypeOK
<1>a. /\ messageStack \in Seq(Message) /\ messageStack' \in Seq(Message)
      /\ retMessage \in Seq(Message) /\ retMessage' \in Seq(Message)
      /\ wire \in Seq(Message) /\ wire' \in Seq(Message)
  BY <1>0 DEF QueueTypeOK
<1>b. \A s, t, u \in Seq(Message) : (s \o t) \o u = s \o (t \o u)
  BY ConcatAssociative
<1>1. CASE PushStep
  <2>1. PICK m \in Message :
          /\ messageStack' = Append(messageStack, m) /\ pushed' = Append(pushed, m)
          /\ UNCHANGED <<retMessage, wire, flow>>
    BY <1>1 DEF PushStep
  <2>2. Holds'
    BY <2>1 DEF Fifo, Holds, Running
  <2>3. wire \o retMessage \in Seq(Message)
    BY <1>0, ConcatProperties DEF QueueTypeOK
  <2>4. /\ Append(messageStack, m) = messageStack \o <<m>>
        /\ Append(pushed, m) = pushed \o <<m>>
        /\ <<m>> \in Seq(Message)
    BY <1>0, AppendIsConcat DEF QueueTypeOK
  <2>5. ((wire \o retMessage) \o messageStack) \o <<m>> = (wire \o retMessage) \o (messageStack \o <<m>>)
    BY <1>a, <1>b, <2>3, <2>4, Zenon
  <2>6. Conserved'
    BY <2>1, <2>4, <2>5 DEF Fifo, Conserved, Running
  <2>7. Len(pushed') = Len(pushed) + 1 /\ \A i \in 1 .. Len(pushed) : pushed'[i] = pushed[i]
    BY <1>0, <2>1, AppendProperties DEF QueueTypeOK
  <2>8. WrittenInOrder'
    BY <1>0, <2>1, <2>7 DEF Fifo, WrittenInOrder
  <2> QED BY <2>2, <2>6, <2>8 DEF Fifo
<1>2. CASE TakeStep
  <2>1. flow = "take" /\ UNCHANGED <<pushed, wire>>
    BY <1>2 DEF TakeStep
  <2>2. PICK n \in 1 .. Len(messageStack) :
          /\ messageStack' = SubSeq(messageStack, n + 1, Len(messageStack))
          /\ \/ retMessage' = SubSeq(messageStack, 1, n) /\ flow' = "notify"
             \/ retMessage' = SubSeq(messageStack, 1, n - 1) /\ flow' = "close"
    BY <1>2 DEF TakeStep
  <2>3. retMessage = <<>> /\ pushed = wire \o retMessage \o messageStack
    BY <2>1 DEF Fifo, Holds, Conserved, Running
  <2>4. pushed = wire \o messageStack
    BY <1>0, <2>3, ConcatEmptySeq DEF QueueTypeOK
  <2>5. WrittenInOrder'
    BY <2>1 DEF Fifo, WrittenInOrder
  <2>6. CASE retMessage' = SubSeq(messageStack, 1, n) /\ flow' = "notify"
    <3>0. /\ SubSeq(messageStack, 1, n) # <<>>
          /\ SubSeq(messageStack, 1, n) \o SubSeq(messageStack, n + 1, Len(messageStack))
             = messageStack
      BY <1>a, PopProperties
    <3>1. retMessage' \o messageStack' = messageStack /\ retMessage' # <<>>
      BY <2>2, <2>6, <3>0
    <3>2. (wire \o retMessage') \o messageStack' = wire \o (retMessage' \o messageStack')
      BY <1>a, <1>b, Zenon
    <3> QED BY <2>1, <2>4, <2>5, <2>6, <3>1, <3>2 DEF Fifo, Holds, Conserved, Running
  <2>7. CASE flow' = "close"
    BY <2>5, <2>7 DEF Fifo, Holds, Conserved, Running
  <2> QED BY <2>2, <2>6, <2>7
<1>3. CASE WriteStep
  <2>1. /\ flow = "write" /\ flow' = "loop" /\ wire' = wire \o retMessage /\ retMessage' = <<>>
        /\ messageStack' = messageStack /\ pushed' = pushed
    BY <1>3 DEF WriteStep
  <2>2. pushed = (wire \o retMessage) \o messageStack
    BY <2>1 DEF Fifo, Conserved, Running
  <2>3. wire' \o retMessage' = wire'
    BY <1>0, <2>1, ConcatEmptySeq DEF QueueTypeOK
  <2>4. pushed' = wire' \o retMessage' \o messageStack'
    BY <2>1, <2>2, <2>3
  <2>5. WrittenInOrder'
    <3>1. (wire' \o retMessage') \o messageStack' = wire' \o messageStack'
      BY <2>3
    <3>2. pushed' = wire' \o messageStack'
      BY <2>4, <3>1
    <3>3. Len(wire') <= Len(pushed') /\ \A i \in 1 .. Len(wire') : wire'[i] = pushed'[i]
      BY <1>a, <3>2, ConcatPrefix
    <3> QED BY <3>3 DEF WrittenInOrder
  <2> QED BY <2>1, <2>4, <2>5 DEF Fifo, Holds, Conserved, Running
<1>4. CASE QueuesSame /\ FlowMove
  BY <1>4 DEF QueuesSame, FlowMove, Fifo, Holds, Conserved, Running, WrittenInOrder
<1> QED BY <1>1, <1>2, <1>3, <1>4, QueueSteps

LEMMA FifoInvariant == Spec => []Fifo
<1>1. Init => Fifo
  <2> SUFFICES ASSUME Init PROVE Fifo
    OBVIOUS
  <2>1. wire \o retMessage \o messageStack = <<>>
    BY DEF Init
  <2> QED BY <2>1 DEF Init, Fifo, Holds, Conserved, Running, WrittenInOrder
<1>2. TypeOK /\ Fifo /\ [Next]_vars => Fifo'
  BY FifoStep
<1> QED BY <1>1, <1>2, TypeCorrect, PTL DEF Spec

(* The messages pushed are those written, held and queued, in this order. *)
THEOREM ConservedCorrect == Spec => []Conserved
BY FifoInvariant, PTL DEF Fifo

(* What has been written is the beginning of what has been pushed, however *)
(* the flow ended.                                                         *)
THEOREM WrittenInOrderCorrect == Spec => []WrittenInOrder
BY FifoInvariant, PTL DEF Fifo

-----------------------------------------------------------------------------
(* What waitPublishComplete returns for. *)
SeenBound == \A w \in Waiters : seen[w] <= Len(pushed)

(* A step of one waiter: it returns only with an empty queue or a stop. *)
WaiterStep(w) ==
  /\ seen'[w] = seen[w] \/ seen'[w] = Len(pushed)
  /\ wpc'[w] = "done" => messageStack = <<>> \/ stopWait
  /\ UNCHANGED <<messageStack, retMessage, pushed, wire, flow, stopWait>>

LEMMA WaiterSteps ==
  ASSUME TypeOK, [Next]_vars, NEW w \in Waiters
  PROVE  UNCHANGED <<seen[w], wpc[w]>> \/ WaiterStep(w)
<1> USE DEF pubVars, waitVars, flowVars
<1>0. seen \in [Waiters -> Nat] /\ wpc \in [Waiters -> {"idle", "wait", "done"}]
  BY DEF TypeOK, ThreadTypeOK
<1>1. ASSUME NEW v \in Waiters, WaitPublishComplete(v) \/ WakeUp(v), v # w
      PROVE  UNCHANGED <<seen[w], wpc[w]>>
  BY <1>0, <1>1 DEF WaitPublishComplete, WakeUp
<1>2. CASE WaitPublishComplete(w) \/ WakeUp(w)
  BY <1>0, <1>2 DEF WaitPublishComplete, WakeUp, WaiterStep, QueueEmpty
<1>3. CASE \/ \E p \in Publishers : Publish(p) \/ NotifyPublish(p)
           \/ Flow \/ StopDataFlow \/ StopStep \/ UNCHANGED vars
  BY <1>3 DEF Publish, NotifyPublish, Flow, WaitData, CheckStop, Take, Notify, Write, LoopHead,
              Close, StopDataFlow, StopStep, SetStopWait, NotifyStop, vars
<1> QED BY <1>1, <1>2, <1>3 DEF Next

(* What is written or about to be written, and what is pushed, only grows. *)
LEMMA QueuesGrow ==
  ASSUME TypeOK, Fifo, [Next]_vars
  PROVE  /\ Len(pushed) <= Len(pushed')
         /\ Running' => /\ Running
                        /\ Len(wire) + Len(retMessage) <= Len(wire') + Len(retMessage')
<1>0. /\ messageStack \in Seq(Message) /\ retMessage \in Seq(Message)
      /\ wire \in Seq(Message) /\ pushed \in Seq(Message)
  BY DEF TypeOK, QueueTypeOK
<1>1. CASE PushStep
  BY <1>0, <1>1 DEF PushStep, Running
<1>2. CASE TakeStep
  <2>1. retMessage = <<>> /\ Running
    BY <1>2 DEF TakeStep, Fifo, Holds, Running
  <2>2. retMessage' \in Seq(Message)
    BY QueueType DEF QueueTypeOK
  <2> QED BY <1>0, <1>2, <2>1, <2>2 DEF TakeStep
<1>3. CASE WriteStep
  BY <1>0, <1>3, ConcatProperties DEF WriteStep, Running
<1>4. CASE QueuesSame /\ FlowMove
  BY <1>0, <1>4 DEF QueuesSame, FlowMove, Running
<1> QED BY <1>1, <1>2, <1>3, <1>4, QueueSteps

LEMMA StopStays ==
  ASSUME [Next]_vars, stopWait
  PROVE  stopWait'
BY DEF Next, Publish, NotifyPublish, WaitPublishComplete, WakeUp, Flow, WaitData, CheckStop, Take,
       Notify, Write, LoopHead, Close, StopDataFlow, StopStep, SetStopWait, NotifyStop, vars

LEMMA WaitedForStep ==
  ASSUME TypeOK, TypeOK', Fifo, SeenBound, WaitedFor, [Next]_vars
  PROVE  SeenBound' /\ WaitedFor'
<1>0. /\ messageStack \in Seq(Message) /\ Len(retMessage) \in Nat /\ Len(wire) \in Nat
      /\ Len(retMessage') \in Nat /\ Len(wire') \in Nat
      /\ Len(pushed) \in Nat /\ Len(pushed') \in Nat
      /\ seen \in [Waiters -> Nat] /\ seen' \in [Waiters -> Nat]
  BY DEF TypeOK, QueueTypeOK, ThreadTypeOK
<1>1. /\ Len(pushed) <= Len(pushed')
      /\ Running' => /\ Running
                     /\ Len(wire) + Len(retMessage) <= Len(wire') + Len(retMessage')
  BY QueuesGrow
<1>2. SUFFICES ASSUME NEW w \in Waiters
               PROVE  /\ seen'[w] <= Len(pushed')
                      /\ wpc'[w] = "done" /\ Running' /\ ~stopWait'
                           => seen'[w] <= Len(wire') + Len(retMessage')
  BY DEF SeenBound, WaitedFor, Running
<1>3. seen[w] <= Len(pushed)
  BY DEF SeenBound
<1>4. CASE UNCHANGED <<seen[w], wpc[w]>>
  <2>1. seen'[w] <= Len(pushed')
    BY <1>0, <1>1, <1>3, <1>4
  <2>2. ASSUME wpc'[w] = "done", Running', ~stopWait'
        PROVE  seen'[w] <= Len(wire') + Len(retMessage')
    <3>1. seen[w] <= Len(wire) + Len(retMessage)
      BY <1>1, <1>4, <2>2, StopStays DEF WaitedFor
    <3> QED BY <1>0, <1>1, <1>4, <2>2, <3>1
  <2> QED BY <2>1, <2>2
<1>5. CASE WaiterStep(w)
  <2>1. seen'[w] <= Len(pushed')
    BY <1>0, <1>1, <1>3, <1>5 DEF WaiterStep
  <2>2. ASSUME wpc'[w] = "done", Running', ~stopWait'
        PROVE  seen'[w] <= Len(wire') + Len(retMessage')
    <3>1. messageStack = <<>> /\ UNCHANGED <<pushed, wire, retMessage>>
      BY <1>5, <2>2 DEF WaiterStep
    <3>2. pushed = (wire \o retMessage) \o <<>>
      BY <1>1, <2>2, <3>1 DEF Fifo, Conserved, Running
    <3>3. wire \in Seq(Message) /\ retMessage \in Seq(Message)
      BY DEF TypeOK, QueueTypeOK
    <3>4. /\ wire \o retMessage \in Seq(Message)
          /\ Len(wire \o retMessage) = Len(wire) + Len(retMessage)
      BY <3>3, ConcatProperties
    <3>5. (wire \o retMessage) \o <<>> = wire \o retMessage
      BY <3>4, ConcatEmptySeq
    <3>6. Len(pushed) = Len(wire) + Len(retMessage)
      BY <3>2, <3>4, <3>5
    <3> QED BY <1>0, <1>3, <1>5, <3>1, <3>6 DEF WaiterStep
  <2> QED BY <2>1, <2>2
<1> QED BY <1>4, <1>5, WaiterSteps

(* When waitPublishComplete returns, everything published before it was    *)
(* called is written or in the one write under way, unless the flow was    *)
(* stopped or failed.                                                      *)
THEOREM WaitedForCorrect == Spec => []WaitedFor
<1>1. Init => SeenBound /\ WaitedFor
  BY DEF Init, SeenBound, WaitedFor
<1>2. TypeOK /\ TypeOK' /\ Fifo /\ SeenBound /\ WaitedFor /\ [Next]_vars => SeenBound' /\ WaitedFor'
  BY WaitedForStep
<1> QED BY <1>1, <1>2, TypeCorrect, FifoInvariant, PTL DEF Spec

=============================================================================
