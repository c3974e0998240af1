---------------------------- MODULE DataPublisher ----------------------------
(***************************************************************************)
(* The C++ data publisher, include/rpcmple/dataPublisher.h, with the data  *)
(* flow thread of messageManager.h that runs it: user threads in publish,  *)
(* user threads in waitPublishComplete, the flow thread, which takes       *)
(* messages from messageStack, puts one or a group of them in retMessage   *)
(* and writes it, and a thread in stopDataFlow.                            *)
(*                                                                         *)
(* As in RpcClient a section that holds the mutex stackMtx is one step, a  *)
(* read of stopWait without it is a step of its own, and waiting is the    *)
(* set of threads that sleep on cv.  A message is named by its publisher   *)
(* and its number, and has a size, header included.                        *)
(***************************************************************************)
EXTENDS Integers, Sequences, SequencesExt

CONSTANTS
  Publishers,     \* threads that use publish
  Waiters,        \* threads that use waitPublishComplete
  MaxPublish,     \* bound: calls of publish per publisher
  Sizes,          \* the sizes a message may have
  GroupSize,      \* a group takes messages until it has this size, 1024
  MaxSize,        \* the largest size that can be sent, 16777220
  groupMessages,  \* the flag of the constructor
  Faults          \* what may go wrong: "write" (mConn->write fails),
                  \* "stop" (stopDataFlow is called)

ASSUME DPAssumption ==
  /\ MaxPublish \in Nat
  /\ Sizes \subseteq Nat \ {0}
  /\ GroupSize \in Nat \ {0}
  /\ MaxSize \in Nat
  /\ groupMessages \in BOOLEAN
  /\ "flow" \notin Waiters
  /\ Faults \subseteq {"write", "stop"}

VARIABLES
  messageStack,   \* messages published and not taken yet, oldest first
  stopWait,
  waiting,        \* threads that sleep on cv
  ppc,            \* where each publisher is in publish
  published,      \* number of messages each publisher has pushed
  wpc,            \* where each waiter is in waitPublishComplete
  flow,           \* where the data flow thread is
  retMessage,     \* the messages that the flow thread is about to write
  stopRequested,  \* the flag of messageManager
  spc,            \* where the thread in stopDataFlow is
  pushed,         \* history: all messages in the order of their push
  wire,           \* history: all messages written, in order
  seen            \* history: length of pushed when the waiter took the lock

pubVars  == <<ppc, published, pushed>>
waitVars == <<wpc, seen>>
flowVars == <<flow, retMessage, wire>>
vars == <<messageStack, stopWait, waiting, pubVars, waitVars, flowVars, stopRequested, spc>>

Message == [by : Publishers, no : 1 .. MaxPublish, size : Sizes]

-----------------------------------------------------------------------------
SizeOf(msgs) == FoldLeft(LAMBDA total, m : total + m.size, 0, msgs)

(* The n oldest messages in the queue. *)
FirstOf(n) == SubSeq(messageStack, 1, n)

(* messageStack.push: the new message goes to the end of the queue. *)
PushFirst(m) == messageStack' = <<m>> \o messageStack  \* mutant of Push
Push(m) == messageStack' = Append(messageStack, m)

(* messageStack.pop, n times. *)
PopLess(n) == messageStack' = SubSeq(messageStack, n, Len(messageStack))  \* mutant of Pop
Pop(n) == messageStack' = SubSeq(messageStack, n + 1, Len(messageStack))

(* The next message of publisher p, encoded. *)
NextMessage(p, size) == [by |-> p, no |-> published[p] + 1, size |-> size]

(* The predicates of cv.wait: the flow thread waits until there is         *)
(* something to write, waitPublishComplete until the queue is empty.       *)
SomethingToWrite == messageStack # <<>> \/ stopWait

QueueEmptyButOne == Len(messageStack) <= 1 \/ stopWait  \* mutant of QueueEmpty
QueueEmpty == messageStack = <<>> \/ stopWait

(* Mutant of NotifyAll: notify_one, which wakes up any one thread. *)
NotifyOne ==
  \/ waiting = {} /\ UNCHANGED waiting
  \/ \E t \in waiting : waiting' = waiting \ {t}

NotifyAll == waiting' = {}

Init ==
  /\ messageStack = <<>>
  /\ stopWait = FALSE
  /\ waiting = {}
  /\ ppc = [p \in Publishers |-> "idle"]
  /\ published = [p \in Publishers |-> 0]
  /\ wpc = [w \in Waiters |-> "idle"]
  /\ flow = "waitData"
  /\ retMessage = <<>>
  /\ stopRequested = FALSE
  /\ spc = "idle"
  /\ pushed = <<>>
  /\ wire = <<>>
  /\ seen = [w \in Waiters |-> 0]

(**************************** publish, thread p ****************************)

(* The message is encoded and pushed; its size is not looked at, nor is    *)
(* stopWait.  A publish that fails to encode changes nothing.              *)
Publish(p) ==
  /\ ppc[p] = "idle"
  /\ published[p] < MaxPublish
  /\ \E size \in Sizes :
       /\ Push(NextMessage(p, size))
       /\ pushed' = Append(pushed, NextMessage(p, size))
  /\ published' = [published EXCEPT ![p] = @ + 1]
  /\ ppc' = [ppc EXCEPT ![p] = "notify"]
  /\ UNCHANGED <<stopWait, waiting, waitVars, flowVars, stopRequested, spc>>

NotifyPublish(p) ==
  /\ ppc[p] = "notify"
  /\ NotifyAll
  /\ ppc' = [ppc EXCEPT ![p] = "idle"]
  /\ UNCHANGED <<messageStack, stopWait, published, pushed, waitVars, flowVars, stopRequested, spc>>

(********************** waitPublishComplete, thread w **********************)

(* The lock is taken for the first time: an empty queue needs no waiting. *)
WaitPublishComplete(w) ==
  /\ wpc[w] = "idle"
  /\ seen' = [seen EXCEPT ![w] = Len(pushed)]
  /\ IF QueueEmpty
     THEN /\ wpc' = [wpc EXCEPT ![w] = "done"]
          /\ UNCHANGED waiting
     ELSE /\ wpc' = [wpc EXCEPT ![w] = "wait"]
          /\ waiting' = waiting \cup {w}
  /\ UNCHANGED <<messageStack, stopWait, pubVars, flowVars, stopRequested, spc>>

(* cv.wait looks at its predicate again. *)
WakeUp(w) ==
  /\ wpc[w] = "wait"
  /\ w \notin waiting
  /\ IF QueueEmpty
     THEN /\ wpc' = [wpc EXCEPT ![w] = "done"]
          /\ UNCHANGED waiting
     ELSE /\ waiting' = waiting \cup {w}
          /\ UNCHANGED wpc
  /\ UNCHANGED <<seen, messageStack, stopWait, pubVars, flowVars, stopRequested, spc>>

(*************************** the data flow thread **************************)

(* writeMessage waits until there is something to write. *)
WaitData ==
  /\ flow = "waitData"
  /\ "flow" \notin waiting
  /\ IF SomethingToWrite
     THEN /\ flow' = "checkStop"
          /\ UNCHANGED waiting
     ELSE /\ waiting' = waiting \cup {"flow"}
          /\ UNCHANGED flow
  /\ UNCHANGED <<retMessage, wire, messageStack, stopWait, pubVars, waitVars, stopRequested, spc>>

(* writeMessage fails: dataFlow sets stopRequested and leaves. *)
StopFlow == flow' = "close" /\ stopRequested' = TRUE

(* if (stopWait), read without the lock. *)
CheckStop ==
  /\ flow = "checkStop"
  /\ IF stopWait THEN StopFlow ELSE flow' = "take" /\ UNCHANGED stopRequested
  /\ UNCHANGED <<retMessage, wire, messageStack, stopWait, waiting, pubVars, waitVars, spc>>

(* The loop with the lock takes n messages: one without grouping, else as  *)
(* many as it takes to reach GroupSize.                                    *)
Group(n) ==
  /\ n \in 1 .. Len(messageStack)
  /\ n = Len(messageStack) \/ ~groupMessages \/ SizeOf(FirstOf(n)) >= GroupSize
  /\ n > 1 => groupMessages /\ SizeOf(FirstOf(n - 1)) < GroupSize

(* The messages are taken out of the queue.  One that is too large ends    *)
(* the flow, after it and the ones before it have been taken.              *)
Take ==
  /\ flow = "take"
  /\ \/ \E n \in 1 .. Len(messageStack) :
          /\ Group(n)
          /\ \A i \in 1 .. n : messageStack[i].size <= MaxSize
          /\ retMessage' = FirstOf(n)
          /\ Pop(n)
          /\ flow' = "notify"
          /\ UNCHANGED stopRequested
     \/ \E n \in 1 .. Len(messageStack) :
          /\ \E group \in n .. Len(messageStack) : Group(group)
          /\ messageStack[n].size > MaxSize
          /\ \A i \in 1 .. n - 1 : messageStack[i].size <= MaxSize
          /\ retMessage' = FirstOf(n - 1)
          /\ Pop(n)
          /\ StopFlow
  /\ UNCHANGED <<wire, stopWait, waiting, pubVars, waitVars, spc>>

Notify ==
  /\ flow = "notify"
  /\ NotifyAll
  /\ flow' = "write"
  /\ UNCHANGED <<retMessage, wire, messageStack, stopWait, pubVars, waitVars, stopRequested, spc>>

(* mConn->write; retMessage is a local of dataFlow, empty in the next round. *)
Write ==
  /\ flow = "write"
  /\ \/ /\ wire' = wire \o retMessage
        /\ retMessage' = <<>>
        /\ flow' = "loop"
        /\ UNCHANGED stopRequested
     \/ /\ "write" \in Faults
        /\ StopFlow
        /\ UNCHANGED <<wire, retMessage>>
  /\ UNCHANGED <<messageStack, stopWait, waiting, pubVars, waitVars, spc>>

(* while (!stopRequested); a publisher has nothing to read. *)
LoopHead ==
  /\ flow = "loop"
  /\ flow' = IF stopRequested THEN "close" ELSE "waitData"
  /\ UNCHANGED <<retMessage, wire, messageStack, stopWait, waiting, pubVars, waitVars,
                 stopRequested, spc>>

(* mConn->close() and the close callback. *)
Close ==
  /\ flow = "close"
  /\ flow' = "done"
  /\ UNCHANGED <<retMessage, wire, messageStack, stopWait, waiting, pubVars, waitVars,
                 stopRequested, spc>>

Flow == WaitData \/ CheckStop \/ Take \/ Notify \/ Write \/ LoopHead \/ Close

(******************************* stopDataFlow ******************************)

StopDataFlow ==
  /\ "stop" \in Faults
  /\ spc = "idle"
  /\ spc' = "setStop"
  /\ stopRequested' = TRUE
  /\ UNCHANGED <<messageStack, stopWait, waiting, pubVars, waitVars, flowVars>>

(* stopParser: stopWait is set with the lock. *)
SetStopWait ==
  /\ spc = "setStop"
  /\ spc' = "notifyStop"
  /\ stopWait' = TRUE
  /\ UNCHANGED <<messageStack, waiting, pubVars, waitVars, flowVars, stopRequested>>

NotifyStop ==
  /\ spc = "notifyStop"
  /\ spc' = "done"
  /\ NotifyAll
  /\ UNCHANGED <<messageStack, stopWait, pubVars, waitVars, flowVars, stopRequested>>

StopStep == SetStopWait \/ NotifyStop

-----------------------------------------------------------------------------
Next ==
  \/ \E p \in Publishers : Publish(p) \/ NotifyPublish(p)
  \/ \E w \in Waiters : WaitPublishComplete(w) \/ WakeUp(w)
  \/ Flow
  \/ StopDataFlow \/ StopStep

Spec == Init /\ [][Next]_vars

(* Every thread keeps being scheduled; nobody has to publish, to wait or   *)
(* to stop.                                                                *)
FairSpec ==
  /\ Spec
  /\ \A p \in Publishers : WF_vars(NotifyPublish(p))
  /\ \A w \in Waiters : WF_vars(WakeUp(w))
  /\ WF_vars(Flow)
  /\ WF_vars(StopStep)

-----------------------------------------------------------------------------
QueueTypeOK ==
  /\ messageStack \in Seq(Message)
  /\ retMessage \in Seq(Message)
  /\ pushed \in Seq(Message)
  /\ wire \in Seq(Message)

ThreadTypeOK ==
  /\ stopWait \in BOOLEAN /\ stopRequested \in BOOLEAN
  /\ waiting \subseteq Waiters \cup {"flow"}
  /\ ppc \in [Publishers -> {"idle", "notify"}]
  /\ published \in [Publishers -> 0 .. MaxPublish]
  /\ wpc \in [Waiters -> {"idle", "wait", "done"}]
  /\ seen \in [Waiters -> Nat]
  /\ flow \in {"waitData", "checkStop", "take", "notify", "write", "loop", "close", "done"}
  /\ spc \in {"idle", "setStop", "notifyStop", "done"}

(* The type of every variable. *)
TypeOK == QueueTypeOK /\ ThreadTypeOK

(* The flow thread will write what it has taken. *)
Running == flow \notin {"close", "done"}

(* Nothing that was published is lost, doubled or overtaken: as long as    *)
(* the flow runs the messages pushed are those written, those in           *)
(* retMessage and those in the queue, in this order.                       *)
Conserved == Running => pushed = wire \o retMessage \o messageStack

(* Once the flow has ended, whatever ended it, the messages written are    *)
(* the first ones pushed.                                                  *)
WrittenInOrder ==
  /\ Len(wire) <= Len(pushed)
  /\ \A i \in 1 .. Len(wire) : wire[i] = pushed[i]

(* What waitPublishComplete does promise, unless the flow was stopped or   *)
(* failed: all messages published before it was called are written or in   *)
(* the one write under way.  The log message of waitPublishComplete says   *)
(* "waiting until all messages are published".                             *)
WaitedFor ==
  \A w \in Waiters :
    wpc[w] = "done" /\ Running /\ ~stopWait => seen[w] <= Len(wire) + Len(retMessage)

(* A message that was pushed is written, unless the flow is stopped or     *)
(* ends: the flow thread does not sleep while there is something to send.  *)
EventuallyWritten ==
  \A n \in 1 .. MaxPublish :
    Len(pushed) >= n ~> Len(wire) >= n \/ stopRequested

(* waitPublishComplete returns, unless the flow fails; a stop releases it. *)
WaiterReturns ==
  \A w \in Waiters : wpc[w] = "wait" ~> wpc[w] = "done" \/ (flow = "done" /\ ~stopWait)

(* stopDataFlow ends the flow, also when there is nothing to publish, and  *)
(* releases every thread in waitPublishComplete.                           *)
StopReleases ==
  /\ stopWait ~> flow = "done"
  /\ \A w \in Waiters : stopWait ~> wpc[w] # "wait"

(* Nobody sleeps for ever on the condition variable that the flow and the  *)
(* waiters share with opposite predicates (dataPublisher.h:69, 161).       *)
Released == WaiterReturns /\ StopReleases

=============================================================================
