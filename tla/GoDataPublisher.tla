--------------------------- MODULE GoDataPublisher ---------------------------
(***************************************************************************)
(* The Go data publisher, rpcmple_go/datapublisher.go, with the goroutine  *)
(* of messagemanager.go that runs it: user goroutines in Publish and in    *)
(* WaitForPublishComplete, the data flow goroutine in SendMessage, and a   *)
(* goroutine in StopDataFlow.                                              *)
(*                                                                         *)
(* A message travels in a bytes.Buffer that comes from a sync.Pool, goes   *)
(* through the channel messageStack and is put back.  Both Publish and     *)
(* SendMessage put a buffer back BEFORE they reset it, because deferred    *)
(* calls run last first, so it may be in other hands when it is reset.     *)
(* Every call on a buffer is a step of its own; calls on one buffer that   *)
(* overlap (a data race) take effect one after the other.                  *)
(*                                                                         *)
(* The WaitGroup counts messages and knows the goroutines that sleep in    *)
(* Wait.  A Done that counts down to zero releases them, and they check    *)
(* the WaitGroup again when they run: an Add between the two panics, in    *)
(* Add itself or in the Wait that finds the WaitGroup in use again.        *)
(*                                                                         *)
(* The contents of a buffer are tokens: a header with the length of the    *)
(* body it announces, and the data of a message, named by its publisher    *)
(* and its number.                                                         *)
(***************************************************************************)
EXTENDS Integers, Sequences

CONSTANTS
  Publishers,  \* goroutines that use Publish
  Waiters,     \* goroutines that use WaitForPublishComplete
  MaxPublish,  \* bound: calls of Publish per publisher
  NBuffers,    \* bound: buffers that the pool makes
  Capacity,    \* of the channel messageStack, 1024 in the code
  Faults       \* what may go wrong: "encode" (ToBinary fails or the body is
               \* too large), "write" (the connection fails), "stop"
               \* (StopDataFlow is called)

ASSUME GDPAssumption ==
  /\ MaxPublish \in Nat
  /\ Capacity \in Nat \ {0}
  /\ NBuffers \in Nat
  /\ Faults \subseteq {"encode", "write", "stop"}

VARIABLES
  pool,          \* buffers in messagePool
  made,          \* how many buffers New has made
  content,       \* what each buffer holds
  messageStack,  \* the buffers in the channel, oldest first
  wg,            \* the counter of the WaitGroup
  closed,        \* the channel has been closed
  panicked,      \* a goroutine has panicked, which ends the process
  ppc,           \* where each publisher is in Publish
  body, message, \* the buffers each publisher holds, or 0
  bodyArr,       \* body.Bytes()
  published,     \* number of calls of Publish each publisher has started
  wpc,           \* where each waiter is in WaitForPublishComplete
  flow,          \* where the data flow goroutine is
  first,         \* the first message has not been written yet
  lastMessage,   \* the buffer SendMessage holds, or 0
  replyMessage,  \* what SendMessage has produced
  stopRequest,   \* the flag of MessageManager
  spc,           \* where the goroutine in StopDataFlow is
  late,          \* history: a buffer was handed out while its reset was pending
  pushed,        \* history: the messages sent to the channel, in order
  wire,          \* history: what was written to the connection, in order
  seen           \* history: length of pushed when a waiter started

poolVars == <<pool, made, late>>
chanVars == <<messageStack, closed>>
pubVars  == <<ppc, body, message, bodyArr, published>>
waitVars == <<wpc, seen>>
flowVars == <<flow, first, lastMessage, replyMessage, stopRequest>>
histVars == <<pushed, wire>>
vars == <<poolVars, content, chanVars, wg, panicked, pubVars, waitVars, flowVars, spc, histVars>>

-----------------------------------------------------------------------------
Buffers == 1 .. NBuffers
NoBuffer == 0

Header(n) == [kind |-> "header", len |-> n]
Data(m) == [kind |-> "data", msg |-> m]

(* What is written for message m when all goes well. *)
Whole(m) == <<Header(1), Data(m)>>

MyMessage(p) == <<p, published[p]>>

(* The buffers whose reset is still to come after they were put back. *)
ToReset ==
  {body[p] : p \in {q \in Publishers : ppc[q] = "reset"}}
    \cup (IF flow = "reset" THEN {lastMessage} ELSE {})

(* messagePool.Get: one that was put back or a new one; the pool may drop  *)
(* what it holds at any time.                                              *)
Get(b) ==
  \/ /\ b \in pool
     /\ pool' = pool \ {b}
     /\ late' = (late \/ b \in ToReset)
     /\ UNCHANGED made
  \/ /\ b = made + 1
     /\ made' = b
     /\ UNCHANGED <<pool, late>>

PutBody(p) == pool' = pool \cup {body[p]}

WriteTo(b, tokens) == content' = [content EXCEPT ![b] = @ \o tokens]

ResetForgotten(b) == UNCHANGED content  \* mutant of Reset
Reset(b) == content' = [content EXCEPT ![b] = <<>>]

AddForgotten == UNCHANGED wg  \* mutant of Add
Add == wg' = wg + 1

DoneTwice == wg' = wg - 2  \* mutant of Done
DoneForgotten == UNCHANGED wg  \* mutant of Done
Done == wg' = wg - 1

(* The waiters asleep in Wait.  After a Done that reaches zero they stay   *)
(* registered for a moment (Releasing), in which no Add may come; a waiter *)
(* that has been released may not find the WaitGroup in use (InUse).       *)
Blocked == {w \in Waiters : wpc[w] = "blocked"}
Releasing == wg = 0 /\ Blocked # {}
InUse == wg # 0 \/ Blocked # {}

HasRoom == Len(messageStack) < Capacity

Init ==
  /\ pool = {} /\ made = 0 /\ late = FALSE
  /\ content = [b \in Buffers |-> <<>>]
  /\ messageStack = <<>> /\ closed = FALSE
  /\ wg = 0
  /\ panicked = FALSE
  /\ ppc = [p \in Publishers |-> "idle"]
  /\ body = [p \in Publishers |-> NoBuffer]
  /\ message = [p \in Publishers |-> NoBuffer]
  /\ bodyArr = [p \in Publishers |-> <<>>]
  /\ published = [p \in Publishers |-> 0]
  /\ wpc = [w \in Waiters |-> "idle"]
  /\ flow = "recv" /\ first = TRUE
  /\ lastMessage = NoBuffer
  /\ replyMessage = <<>>
  /\ stopRequest = FALSE
  /\ spc = "idle"
  /\ pushed = <<>> /\ wire = <<>>
  /\ seen = [w \in Waiters |-> 0]

PublisherAt(p, label) == ppc[p] = label /\ ~panicked
FlowAt(label) == flow = label /\ ~panicked
Goto(p, label) == ppc' = [ppc EXCEPT ![p] = label]

(*************************** Publish, publisher p **************************)

(* body := dp.messagePool.Get() *)
Publish(p) ==
  /\ PublisherAt(p, "idle")
  /\ published[p] < MaxPublish
  /\ \E b \in Buffers : Get(b) /\ body' = [body EXCEPT ![p] = b]
  /\ published' = [published EXCEPT ![p] = @ + 1]
  /\ Goto(p, "encode")
  /\ UNCHANGED <<content, chanVars, wg, panicked, message, bodyArr, waitVars, flowVars, spc, histVars>>

(* ToBinary appends to body; a failure leaves there what it has written.   *)
Encode(p) ==
  /\ PublisherAt(p, "encode")
  /\ WriteTo(body[p], <<Data(MyMessage(p))>>)
  /\ \/ Goto(p, "getMessage")
     \/ "encode" \in Faults /\ Goto(p, "put")
  /\ UNCHANGED <<poolVars, chanVars, wg, panicked, body, message, bodyArr, published, waitVars,
                 flowVars, spc, histVars>>

(* body.Bytes() and the second messagePool.Get() *)
GetMessage(p) ==
  /\ PublisherAt(p, "getMessage")
  /\ bodyArr' = [bodyArr EXCEPT ![p] = content[body[p]]]
  /\ \E b \in Buffers : Get(b) /\ message' = [message EXCEPT ![p] = b]
  /\ Goto(p, "writeHeader")
  /\ UNCHANGED <<content, chanVars, wg, panicked, body, published, waitVars, flowVars, spc, histVars>>

WriteHeader(p) ==
  /\ PublisherAt(p, "writeHeader")
  /\ WriteTo(message[p], <<Header(Len(bodyArr[p]))>>)
  /\ Goto(p, "writeBody")
  /\ UNCHANGED <<poolVars, chanVars, wg, panicked, body, message, bodyArr, published, waitVars,
                 flowVars, spc, histVars>>

WriteBody(p) ==
  /\ PublisherAt(p, "writeBody")
  /\ WriteTo(message[p], bodyArr[p])
  /\ Goto(p, "add")
  /\ UNCHANGED <<poolVars, chanVars, wg, panicked, body, message, bodyArr, published, waitVars,
                 flowVars, spc, histVars>>

(* dp.wg.Add(1) *)
AddToWaitGroup(p) ==
  /\ PublisherAt(p, "add")
  /\ ~Releasing
  /\ Add
  /\ Goto(p, "send")
  /\ UNCHANGED <<poolVars, content, chanVars, panicked, body, message, bodyArr, published, waitVars,
                 flowVars, spc, histVars>>

(* "WaitGroup misuse: Add called concurrently with Wait" *)
AddPanics(p) ==
  /\ PublisherAt(p, "add")
  /\ Releasing
  /\ panicked' = TRUE
  /\ UNCHANGED <<poolVars, content, chanVars, wg, pubVars, waitVars, flowVars, spc, histVars>>

SendToStackAndPut(p) ==  \* mutant of SendToStack: the message is put back as well
  /\ PublisherAt(p, "send")
  /\ ~closed
  /\ HasRoom
  /\ messageStack' = Append(messageStack, message[p])
  /\ pushed' = Append(pushed, MyMessage(p))
  /\ pool' = pool \cup {message[p]}
  /\ message' = [message EXCEPT ![p] = NoBuffer]
  /\ Goto(p, "put")
  /\ UNCHANGED <<made, late, content, closed, wg, panicked, body, bodyArr, published, waitVars,
                 flowVars, spc, wire>>

(* dp.messageStack <- message, which blocks while the channel is full *)
SendToStack(p) ==
  /\ PublisherAt(p, "send")
  /\ ~closed
  /\ HasRoom
  /\ messageStack' = Append(messageStack, message[p])
  /\ pushed' = Append(pushed, MyMessage(p))
  /\ message' = [message EXCEPT ![p] = NoBuffer]
  /\ Goto(p, "put")
  /\ UNCHANGED <<poolVars, content, closed, wg, panicked, body, bodyArr, published, waitVars,
                 flowVars, spc, wire>>

(* A send on the closed channel, also one that was blocked before, panics. *)
SendPanics(p) ==
  /\ PublisherAt(p, "send")
  /\ closed
  /\ panicked' = TRUE
  /\ UNCHANGED <<poolVars, content, chanVars, wg, pubVars, waitVars, flowVars, spc, histVars>>

(* The deferred calls: messagePool.Put(body), then body.Reset(). *)
Put(p) ==
  /\ PublisherAt(p, "put")
  /\ PutBody(p)
  /\ Goto(p, "reset")
  /\ UNCHANGED <<made, late, content, chanVars, wg, panicked, body, message, bodyArr, published,
                 waitVars, flowVars, spc, histVars>>

ResetBody(p) ==
  /\ PublisherAt(p, "reset")
  /\ Reset(body[p])
  /\ body' = [body EXCEPT ![p] = NoBuffer]
  /\ bodyArr' = [bodyArr EXCEPT ![p] = <<>>]
  /\ Goto(p, "idle")
  /\ UNCHANGED <<poolVars, chanVars, wg, panicked, message, published, waitVars, flowVars, spc,
                 histVars>>

PublishStep(p) ==
  \/ Encode(p) \/ GetMessage(p) \/ WriteHeader(p) \/ WriteBody(p) \/ AddToWaitGroup(p)
  \/ AddPanics(p) \/ SendToStack(p) \/ SendPanics(p) \/ Put(p) \/ ResetBody(p)

(******************** WaitForPublishComplete, waiter w *********************)

StartWait(w) ==
  /\ wpc[w] = "idle" /\ ~panicked
  /\ wpc' = [wpc EXCEPT ![w] = "wait"]
  /\ seen' = [seen EXCEPT ![w] = Len(pushed)]
  /\ UNCHANGED <<poolVars, content, chanVars, wg, panicked, pubVars, flowVars, spc, histVars>>

(* dp.wg.Wait(): at once when the counter is zero, otherwise asleep. *)
Wait(w) ==
  /\ wpc[w] = "wait" /\ ~panicked
  /\ wpc' = [wpc EXCEPT ![w] = IF wg = 0 THEN "done" ELSE "blocked"]
  /\ UNCHANGED <<poolVars, content, chanVars, wg, panicked, pubVars, seen, flowVars, spc, histVars>>

WaitReturns(w) ==
  /\ wpc[w] = "released" /\ ~panicked
  /\ ~InUse
  /\ wpc' = [wpc EXCEPT ![w] = "done"]
  /\ UNCHANGED <<poolVars, content, chanVars, wg, panicked, pubVars, seen, flowVars, spc, histVars>>

(* "WaitGroup is reused before previous Wait has returned" *)
WaitPanics(w) ==
  /\ wpc[w] = "released" /\ ~panicked
  /\ InUse
  /\ panicked' = TRUE
  /\ UNCHANGED <<poolVars, content, chanVars, wg, pubVars, waitVars, flowVars, spc, histVars>>

WaitForPublishComplete(w) == Wait(w) \/ WaitReturns(w) \/ WaitPanics(w)

(************************ the data flow goroutine **************************)

(* A first message that fails ends the goroutine and leaves the connection *)
(* open, a later one ends dataFlow, which closes it.                       *)
StopFlow ==
  /\ stopRequest' = TRUE
  /\ flow' = IF first THEN "done" ELSE "close"

(* lastMessage := <-dp.messageStack *)
Receive ==
  /\ FlowAt("recv")
  /\ messageStack # <<>>
  /\ lastMessage' = Head(messageStack)
  /\ messageStack' = Tail(messageStack)
  /\ flow' = "copy"
  /\ UNCHANGED <<poolVars, content, closed, wg, panicked, pubVars, waitVars, first, replyMessage,
                 stopRequest, spc, histVars>>

(* An empty closed channel gives a nil buffer, whose Len panics. *)
ReceivePanics ==
  /\ FlowAt("recv")
  /\ messageStack = <<>>
  /\ closed
  /\ panicked' = TRUE
  /\ UNCHANGED <<poolVars, content, chanVars, wg, pubVars, waitVars, flowVars, spc, histVars>>

(* The buffer is copied into the message of the manager; an empty one is   *)
(* an error, which here leaves replyMessage empty.                         *)
Copy ==
  /\ FlowAt("copy")
  /\ replyMessage' = content[lastMessage]
  /\ flow' = "put"
  /\ UNCHANGED <<poolVars, content, chanVars, wg, panicked, pubVars, waitVars, first, lastMessage,
                 stopRequest, spc, histVars>>

(* The deferred calls: messagePool.Put, Reset, wg.Done. *)
PutLast ==
  /\ FlowAt("put")
  /\ pool' = pool \cup {lastMessage}
  /\ flow' = "reset"
  /\ UNCHANGED <<made, late, content, chanVars, wg, panicked, pubVars, waitVars, first, lastMessage,
                 replyMessage, stopRequest, spc, histVars>>

ResetLast ==
  /\ FlowAt("reset")
  /\ Reset(lastMessage)
  /\ lastMessage' = NoBuffer
  /\ flow' = "wgDone"
  /\ UNCHANGED <<poolVars, chanVars, wg, panicked, pubVars, waitVars, first, replyMessage,
                 stopRequest, spc, histVars>>

(* SendMessage returns to the manager, with a message or with an error. *)
AfterSend ==
  IF replyMessage = <<>> THEN StopFlow ELSE flow' = "write" /\ UNCHANGED stopRequest

WgDone ==
  /\ FlowAt("wgDone")
  /\ Done
  /\ IF wg' = 0 /\ Blocked # {} THEN flow' = "release" /\ UNCHANGED stopRequest ELSE AfterSend
  /\ UNCHANGED <<poolVars, content, chanVars, panicked, pubVars, waitVars, first, lastMessage,
                 replyMessage, spc, histVars>>

(* The rest of wg.Done: it takes the waiters off and wakes them. *)
Release ==
  /\ FlowAt("release")
  /\ wpc' = [w \in Waiters |-> IF w \in Blocked THEN "released" ELSE wpc[w]]
  /\ AfterSend
  /\ UNCHANGED <<poolVars, content, chanVars, wg, panicked, pubVars, seen, first, lastMessage,
                 replyMessage, spc, histVars>>

(* binary.Write to the connection *)
Write ==
  /\ FlowAt("write")
  /\ replyMessage' = <<>>
  /\ \/ /\ wire' = Append(wire, replyMessage)
        /\ first' = FALSE
        /\ flow' = "loop"
        /\ UNCHANGED stopRequest
     \/ /\ "write" \in Faults
        /\ StopFlow
        /\ UNCHANGED <<wire, first>>
  /\ UNCHANGED <<poolVars, content, chanVars, wg, panicked, pubVars, waitVars, lastMessage, spc, pushed>>

LoopHeadOnce ==  \* mutant of LoopHead: the loop is left after one round
  /\ FlowAt("loop")
  /\ flow' = "close"
  /\ UNCHANGED <<poolVars, content, chanVars, wg, panicked, pubVars, waitVars, first, lastMessage,
                 replyMessage, stopRequest, spc, histVars>>

(* for !mm.stopRequest; a publisher has nothing to read. *)
LoopHead ==
  /\ FlowAt("loop")
  /\ flow' = IF stopRequest THEN "close" ELSE "recv"
  /\ UNCHANGED <<poolVars, content, chanVars, wg, panicked, pubVars, waitVars, first, lastMessage,
                 replyMessage, stopRequest, spc, histVars>>

(* mm.conn.Close() *)
Close ==
  /\ FlowAt("close")
  /\ flow' = "done"
  /\ UNCHANGED <<poolVars, content, chanVars, wg, panicked, pubVars, waitVars, first, lastMessage,
                 replyMessage, stopRequest, spc, histVars>>

Flow ==
  \/ Receive \/ ReceivePanics \/ Copy \/ PutLast \/ ResetLast \/ WgDone \/ Release
  \/ Write \/ LoopHead \/ Close

(******************************* StopDataFlow ******************************)

StopDataFlow ==
  /\ "stop" \in Faults
  /\ spc = "idle" /\ ~panicked
  /\ spc' = "stop"
  /\ stopRequest' = TRUE
  /\ UNCHANGED <<poolVars, content, chanVars, wg, panicked, pubVars, waitVars, flow, first,
                 lastMessage, replyMessage, histVars>>

(* Stop: close(dp.messageStack) *)
Stop ==
  /\ spc = "stop" /\ ~panicked
  /\ spc' = "done"
  /\ closed' = TRUE
  /\ UNCHANGED <<poolVars, content, messageStack, wg, panicked, pubVars, waitVars, flowVars, histVars>>

-----------------------------------------------------------------------------
Next ==
  \/ \E p \in Publishers : Publish(p) \/ PublishStep(p)
  \/ \E w \in Waiters : StartWait(w) \/ WaitForPublishComplete(w)
  \/ Flow
  \/ StopDataFlow \/ Stop

Spec == Init /\ [][Next]_vars

(* Every goroutine keeps being scheduled; nobody has to publish, to wait   *)
(* or to stop.                                                             *)
FairSpec ==
  /\ Spec
  /\ \A p \in Publishers : WF_vars(PublishStep(p))
  /\ \A w \in Waiters : WF_vars(WaitForPublishComplete(w))
  /\ WF_vars(Flow)
  /\ WF_vars(Stop)

-----------------------------------------------------------------------------
Messages == Publishers \X (1 .. MaxPublish)

Token == [kind : {"header"}, len : Nat] \cup [kind : {"data"}, msg : Messages]

PoolTypeOK ==
  /\ pool \subseteq Buffers
  /\ made \in 0 .. NBuffers
  /\ late \in BOOLEAN

TokenTypeOK ==
  /\ content \in [Buffers -> Seq(Token)]
  /\ bodyArr \in [Publishers -> Seq(Token)]
  /\ replyMessage \in Seq(Token)
  /\ wire \in Seq(Seq(Token))

QueueTypeOK ==
  /\ messageStack \in Seq(Buffers)
  /\ pushed \in Seq(Messages)
  /\ seen \in [Waiters -> Nat]

(* A goroutine that is about to use a buffer has one. *)
HandTypeOK ==
  /\ body \in [Publishers -> Buffers \cup {NoBuffer}]
  /\ message \in [Publishers -> Buffers \cup {NoBuffer}]
  /\ lastMessage \in Buffers \cup {NoBuffer}
  /\ \A p \in Publishers :
       /\ ppc[p] # "idle" => body[p] # NoBuffer
       /\ ppc[p] \in {"writeHeader", "writeBody", "add", "send"} <=> message[p] # NoBuffer
  /\ flow \in {"copy", "put", "reset"} => lastMessage # NoBuffer

BufferTypeOK == PoolTypeOK /\ TokenTypeOK /\ QueueTypeOK /\ HandTypeOK

ThreadTypeOK ==
  /\ closed \in BOOLEAN /\ panicked \in BOOLEAN /\ stopRequest \in BOOLEAN /\ first \in BOOLEAN
  /\ ppc \in [Publishers -> {"idle", "encode", "getMessage", "writeHeader", "writeBody", "add",
                             "send", "put", "reset"}]
  /\ published \in [Publishers -> 0 .. MaxPublish]
  /\ \A p \in Publishers : ppc[p] # "idle" => published[p] > 0
  /\ wpc \in [Waiters -> {"idle", "wait", "blocked", "released", "done"}]
  /\ flow \in {"recv", "copy", "put", "reset", "wgDone", "release", "write", "loop", "close", "done"}
  /\ spc \in {"idle", "stop", "done"}

(* The type of every variable; the WaitGroup panics below zero. *)
TypeOK == BufferTypeOK /\ ThreadTypeOK /\ wg \in Nat

(* The buffers a goroutine holds and may still write to or read from; one  *)
(* that it has put back and will only reset does not count.                *)
HeldBy(p) ==
  (IF ppc[p] \notin {"idle", "reset"} THEN {body[p]} ELSE {}) \cup ({message[p]} \ {NoBuffer})

HeldByFlow == IF flow \in {"copy", "put"} THEN {lastMessage} ELSE {}

Stacked == {messageStack[i] : i \in 1 .. Len(messageStack)}

(* A buffer is in the pool, in the channel or in the hands of a single     *)
(* goroutine, never in two of these at once, however the calls interleave. *)
BufferOwned ==
  /\ \A i, j \in 1 .. Len(messageStack) : i # j => messageStack[i] # messageStack[j]
  /\ pool \cap Stacked = {}
  /\ HeldByFlow \cap (pool \cup Stacked) = {}
  /\ \A p \in Publishers :
       /\ HeldBy(p) \cap (pool \cup Stacked \cup HeldByFlow) = {}
       /\ ppc[p] \notin {"idle", "reset"} => body[p] # message[p]
       /\ \A q \in Publishers \ {p} : HeldBy(p) \cap HeldBy(q) = {}

(* What is written is what was published, one header and one body each, in *)
(* the order of the channel.                                               *)
WireIntact ==
  /\ Len(wire) <= Len(pushed)
  /\ \A i \in 1 .. Len(wire) : wire[i] = Whole(pushed[i])

(* The same, as long as no buffer was handed out with its reset pending:   *)
(* putting back too early is the only way to damage a message.             *)
IntactUnlessLate == ~late => WireIntact

(* What WaitForPublishComplete does promise, while the flow runs: all that *)
(* was published before it was called is written or in the one write under *)
(* way (a waiter may see the zero before the flow gets to the write).      *)
WaitedFor ==
  \A w \in Waiters :
    wpc[w] = "done" /\ flow \notin {"close", "done"} =>
      seen[w] <= Len(wire) + (IF flow \in {"release", "write"} THEN 1 ELSE 0)

(* A Publish that counts a message while a WaitForPublishComplete wakes up *)
(* has made one of the two panic.                                          *)
WaitDisturbed ==
  /\ panicked
  /\ \/ Releasing /\ \E p \in Publishers : ppc[p] = "add"
     \/ InUse /\ \E w \in Waiters : wpc[w] = "released"

(* A message sent to the channel is written, unless the flow is stopped or *)
(* fails, or a Publish meets a WaitForPublishComplete that wakes up, which *)
(* ends the process with messages in the channel.                          *)
EventuallyWritten ==
  \A n \in 1 .. MaxPublish :
    Len(pushed) >= n ~> Len(wire) >= n \/ stopRequest \/ WaitDisturbed

(* Publish and WaitForPublishComplete return, unless the flow has ended    *)
(* with the channel full or not empty, the channel was closed under a      *)
(* goroutine that uses it, or a Publish met a wait that wakes up.  These   *)
(* are the only ways to a panic.                                           *)
EverybodyReturns ==
  LET Over == flow = "done" \/ (panicked /\ closed) \/ WaitDisturbed IN
  /\ \A p \in Publishers : ppc[p] # "idle" ~> ppc[p] = "idle" \/ Over
  /\ \A w \in Waiters : wpc[w] = "wait" ~> wpc[w] = "done" \/ Over

=============================================================================
