------------------------------ MODULE RpcClient ------------------------------
(***************************************************************************)
(* The C++ RPC client, include/rpcmple/rpcClient.h, together with the data *)
(* flow thread of messageManager.h that runs it: user threads in callSync, *)
(* user threads in waitRPCComplete, the flow thread in writeMessage,       *)
(* parseMessage and the connection, a thread in stopDataFlow, and a server *)
(* that answers the requests it gets, one by one and in order.             *)
(*                                                                         *)
(* The mutex mtx guards canCall, sendIsReady, replIsReady, stopWait, args  *)
(* and rets: a section that holds it is one step.  stopWait is also read   *)
(* without it (callSync, writeMessage); each such read is a step of its    *)
(* own.  The condition variable cv is the set of threads that sleep on it; *)
(* cv.wait with a predicate goes on when the predicate holds and sleeps    *)
(* otherwise, notify_all empties the set.  A spurious wakeup only          *)
(* evaluates the predicate again and is left out.                          *)
(*                                                                         *)
(* A call is named <<caller, number>>, which stands for its procedure and  *)
(* its arguments; a reply carries the name of the call it answers.  Cutting *)
(* the byte streams into sections is the subject of MessageManager.        *)
(***************************************************************************)
EXTENDS Naturals, Sequences

CONSTANTS
  Callers,   \* threads that use callSync
  Waiters,   \* threads that use waitRPCComplete
  MaxCalls,  \* bound: calls per caller
  Faults,    \* what may go wrong: "encode" (toBinary fails), "decode"
             \* (fromBinary fails), "send" (message too large or not written),
             \* "close" (the server goes away), "stop" (stopDataFlow is called)
  NoCall     \* no call at all

Calls == Callers \X (1 .. MaxCalls)

ASSUME RCAssumption ==
  /\ MaxCalls \in Nat
  /\ NoCall \notin Calls
  /\ "flow" \notin Callers /\ "flow" \notin Waiters
  /\ Callers \cap Waiters = {}
  /\ Faults \subseteq {"encode", "decode", "send", "close", "stop"}

VARIABLES
  canCall, sendIsReady, replIsReady, stopWait,  \* the flags of rpcClient
  args,           \* the call that procedureID and args hold
  rets,           \* the call whose reply rets holds
  sectionID,      \* 0: a header comes next; 1: the body it announced
  waiting,        \* threads that sleep on cv
  stopRequested,  \* the flag of messageManager
  pc,             \* where each caller is in callSync
  calls,          \* number of calls each caller has started
  ok, got,        \* what the last callSync returned, and whose reply it handed out
  wpc,            \* where each waiter is in waitRPCComplete
  flow,           \* where the data flow thread is
  outgoing,       \* the request writeMessage has produced
  buffered,       \* how many sections of toClient are in readBuffer already
  spc,            \* where the thread in stopDataFlow is
  toServer,       \* requests under way, oldest first
  toClient,       \* sections of replies under way or in readBuffer, oldest first
  srvOpen,        \* the server has not closed the connection
  executed        \* history: the calls the server has executed

flagVars == <<canCall, sendIsReady, replIsReady>>
callVars == <<pc, calls, ok, got>>
flowVars == <<flow, outgoing, buffered, sectionID, stopRequested>>
netVars  == <<toServer, toClient, srvOpen, executed>>
vars == <<flagVars, stopWait, args, rets, waiting, callVars, wpc, flowVars, spc, netVars>>

-----------------------------------------------------------------------------
MyCall(c) == <<c, calls[c]>>

Goto(c, label) == pc' = [pc EXCEPT ![c] = label]

(* Mutant of NotifyAll: notify_one, which wakes up any one thread. *)
NotifyOne ==
  \/ waiting = {} /\ UNCHANGED waiting
  \/ \E t \in waiting : waiting' = waiting \ {t}

NotifyAll == waiting' = {}

(* cv.wait of thread t: go on when pred holds, else sleep until notified. *)
CvWait(t, pred, GoOn, stay) ==
  /\ t \notin waiting
  /\ \/ pred /\ GoOn /\ UNCHANGED waiting
     \/ ~pred /\ waiting' = waiting \cup {t} /\ UNCHANGED stay

-----------------------------------------------------------------------------
Init ==
  /\ canCall = TRUE
  /\ sendIsReady = FALSE
  /\ replIsReady = FALSE
  /\ stopWait = FALSE
  /\ args = NoCall
  /\ rets = NoCall
  /\ sectionID = 0
  /\ waiting = {}
  /\ stopRequested = FALSE
  /\ pc = [c \in Callers |-> "idle"]
  /\ calls = [c \in Callers |-> 0]
  /\ ok = [c \in Callers |-> FALSE]
  /\ got = [c \in Callers |-> NoCall]
  /\ wpc = [w \in Waiters |-> "idle"]
  /\ flow = "write"
  /\ outgoing = NoCall
  /\ buffered = 0
  /\ spc = "idle"
  /\ toServer = <<>>
  /\ toClient = <<>>
  /\ srvOpen = TRUE
  /\ executed = <<>>

(*************************** callSync, thread c ****************************)

(* The call starts; a wrong number of arguments is refused before this. *)
Call(c) ==
  /\ pc[c] = "idle"
  /\ calls[c] < MaxCalls
  /\ calls' = [calls EXCEPT ![c] = @ + 1]
  /\ ok' = [ok EXCEPT ![c] = FALSE]
  /\ got' = [got EXCEPT ![c] = NoCall]
  /\ Goto(c, "waitReady")
  /\ UNCHANGED <<flagVars, stopWait, args, rets, waiting, wpc, flowVars, spc, netVars>>

WaitReady(c) ==
  /\ pc[c] = "waitReady"
  /\ CvWait(c, canCall \/ stopWait, Goto(c, "checkStop"), pc)
  /\ UNCHANGED <<flagVars, stopWait, args, rets, calls, ok, got, wpc, flowVars, spc, netVars>>

(* if (stopWait) return false, read after the lock was released. *)
CheckStop(c) ==
  /\ pc[c] = "checkStop"
  /\ Goto(c, IF stopWait THEN "idle" ELSE "push")
  /\ UNCHANGED <<flagVars, stopWait, args, rets, waiting, calls, ok, got, wpc, flowVars, spc,
                 netVars>>

(* The second section with the lock: the arguments are encoded into args.  *)
(* A failure returns false and leaves args half written.                   *)
PushFails(c) ==
  /\ "encode" \in Faults
  /\ args' = NoCall
  /\ Goto(c, "idle")
  /\ UNCHANGED flagVars

Push(c) ==
  /\ pc[c] = "push"
  /\ \/ PushFails(c)
     \/ /\ args' = MyCall(c)
        /\ canCall' = FALSE
        /\ sendIsReady' = TRUE
        /\ Goto(c, "notifyCall")
        /\ UNCHANGED replIsReady
  /\ UNCHANGED <<stopWait, rets, waiting, calls, ok, got, wpc, flowVars, spc, netVars>>

NotifyCall(c) ==
  /\ pc[c] = "notifyCall"
  /\ NotifyAll
  /\ Goto(c, "waitReply")
  /\ UNCHANGED <<flagVars, stopWait, args, rets, calls, ok, got, wpc, flowVars, spc, netVars>>

WaitReply(c) ==
  /\ pc[c] = "waitReply"
  /\ CvWait(c, replIsReady \/ stopWait, Goto(c, "take"), pc)
  /\ UNCHANGED <<flagVars, stopWait, args, rets, calls, ok, got, wpc, flowVars, spc, netVars>>

(* Whether fromBinary can decode rets for caller c.  What is not the reply *)
(* to its own call (an older reply, or none yet) may decode or not.        *)
Decodes(c) == IF rets = MyCall(c) /\ "decode" \notin Faults THEN {TRUE} ELSE BOOLEAN

(* Mutant of Take: the reply stays marked as ready. *)
TakeKeepsReady(c) ==
  /\ pc[c] = "take"
  /\ canCall' = TRUE
  /\ \E decoded \in Decodes(c) :
       IF decoded THEN Goto(c, "notifyReturn") /\ got' = [got EXCEPT ![c] = rets]
                  ELSE Goto(c, "idle") /\ UNCHANGED got
  /\ UNCHANGED <<replIsReady, sendIsReady, stopWait, args, rets, waiting, calls, ok, wpc,
                 flowVars, spc, netVars>>

(* The reply is taken out of rets.  A failure to decode it returns false   *)
(* without reaching notify_all.                                            *)
Take(c) ==
  /\ pc[c] = "take"
  /\ replIsReady' = FALSE
  /\ canCall' = TRUE
  /\ \E decoded \in Decodes(c) :
       IF decoded THEN Goto(c, "notifyReturn") /\ got' = [got EXCEPT ![c] = rets]
                  ELSE Goto(c, "idle") /\ UNCHANGED got
  /\ UNCHANGED <<sendIsReady, stopWait, args, rets, waiting, calls, ok, wpc, flowVars, spc,
                 netVars>>

NotifyReturn(c) ==
  /\ pc[c] = "notifyReturn"
  /\ NotifyAll
  /\ ok' = [ok EXCEPT ![c] = TRUE]
  /\ Goto(c, "idle")
  /\ UNCHANGED <<flagVars, stopWait, args, rets, calls, got, wpc, flowVars, spc, netVars>>

(* callSync after its start, which is the user's choice. *)
CallStep(c) ==
  \/ WaitReady(c) \/ CheckStop(c) \/ Push(c) \/ NotifyCall(c)
  \/ WaitReply(c) \/ Take(c) \/ NotifyReturn(c)

(************************ waitRPCComplete, thread w ************************)

StartWait(w) ==
  /\ wpc[w] = "idle"
  /\ wpc' = [wpc EXCEPT ![w] = "wait"]
  /\ UNCHANGED <<flagVars, stopWait, args, rets, waiting, callVars, flowVars, spc, netVars>>

WaitRPCComplete(w) ==
  /\ wpc[w] = "wait"
  /\ CvWait(w, canCall \/ stopWait, wpc' = [wpc EXCEPT ![w] = "done"], wpc)
  /\ UNCHANGED <<flagVars, stopWait, args, rets, callVars, flowVars, spc, netVars>>

(*************************** the data flow thread **************************)

(* writeMessage: between a header and its body there is nothing to write. *)
Write ==
  /\ flow = "write"
  /\ flow' = IF sectionID # 0 THEN "next" ELSE "waitSend"
  /\ UNCHANGED <<flagVars, stopWait, args, rets, waiting, callVars, wpc, outgoing, buffered,
                 sectionID, stopRequested, spc, netVars>>

WaitSend ==
  /\ flow = "waitSend"
  /\ CvWait("flow", sendIsReady \/ stopWait, flow' = "checkStop", flow)
  /\ UNCHANGED <<flagVars, stopWait, args, rets, callVars, wpc, outgoing, buffered, sectionID,
                 stopRequested, spc, netVars>>

(* writeMessage returns false: dataFlow sets stopRequested and leaves. *)
StopFlow == flow' = "close" /\ stopRequested' = TRUE

(* The two reads of stopWait without the lock: before the request is taken *)
(* and before it is written.                                               *)
FlowCheckStop ==
  /\ flow \in {"checkStop", "checkAgain"}
  /\ IF stopWait
     THEN StopFlow
     ELSE /\ flow' = IF flow = "checkStop" THEN "fill" ELSE "send"
          /\ UNCHANGED stopRequested
  /\ UNCHANGED <<flagVars, stopWait, args, rets, waiting, callVars, wpc, outgoing, buffered,
                 sectionID, spc, netVars>>

(* Mutant of Fill: the request stays marked as ready to send. *)
FillKeepsReady ==
  /\ flow = "fill"
  /\ outgoing' = args
  /\ flow' = "notifySend"
  /\ UNCHANGED <<sendIsReady, stopRequested, canCall, replIsReady, stopWait, args, rets, waiting,
                 callVars, wpc, buffered, sectionID, spc, netVars>>

Fill ==
  /\ flow = "fill"
  /\ \/ /\ outgoing' = args
        /\ sendIsReady' = FALSE
        /\ flow' = "notifySend"
        /\ UNCHANGED stopRequested
     \/ /\ "send" \in Faults
        /\ StopFlow
        /\ UNCHANGED <<outgoing, sendIsReady>>
  /\ UNCHANGED <<canCall, replIsReady, stopWait, args, rets, waiting, callVars, wpc, buffered,
                 sectionID, spc, netVars>>

NotifySend ==
  /\ flow = "notifySend"
  /\ NotifyAll
  /\ flow' = "checkAgain"
  /\ UNCHANGED <<flagVars, stopWait, args, rets, callVars, wpc, outgoing, buffered, sectionID,
                 stopRequested, spc, netVars>>

(* mConn->write; it may also succeed, for nothing, when the server has     *)
(* closed its end.                                                         *)
Send ==
  /\ flow = "send"
  /\ outgoing' = NoCall
  /\ \/ /\ toServer' = Append(toServer, outgoing)
        /\ flow' = "next"
        /\ UNCHANGED stopRequested
     \/ /\ ~srvOpen \/ "send" \in Faults
        /\ StopFlow
        /\ UNCHANGED toServer
  /\ UNCHANGED <<flagVars, stopWait, args, rets, waiting, callVars, wpc, buffered, sectionID,
                 spc, toClient, srvOpen, executed>>

(* Back in dataFlow: the rest of readBuffer first, then the loop condition. *)
NextRound ==
  /\ flow = "next"
  /\ flow' = IF buffered > 0 THEN "parse" ELSE IF stopRequested THEN "close" ELSE "read"
  /\ UNCHANGED <<flagVars, stopWait, args, rets, waiting, callVars, wpc, outgoing, buffered,
                 sectionID, stopRequested, spc, netVars>>

(* mConn->read returns some of the sections that have arrived. *)
Read ==
  /\ flow = "read"
  /\ \E n \in 1 .. Len(toClient) : buffered' = n
  /\ flow' = "parse"
  /\ UNCHANGED <<flagVars, stopWait, args, rets, waiting, callVars, wpc, outgoing, sectionID,
                 stopRequested, spc, netVars>>

(* mConn->read fails: the loop is left, stopParser is not called. *)
ReadFails ==
  /\ flow = "read"
  /\ ~srvOpen
  /\ flow' = "close"
  /\ UNCHANGED <<flagVars, stopWait, args, rets, waiting, callVars, wpc, outgoing, buffered,
                 sectionID, stopRequested, spc, netVars>>

(* Mutant of ParseHeader: the reply is ready before its body is there. *)
ParseHeaderReady ==
  /\ flow = "parse"
  /\ sectionID = 0
  /\ Head(toClient).kind = "header"
  /\ sectionID' = 1
  /\ replIsReady' = TRUE
  /\ flow' = "write"
  /\ buffered' = buffered - 1
  /\ toClient' = Tail(toClient)
  /\ UNCHANGED <<canCall, sendIsReady, stopWait, args, rets, waiting, callVars, wpc, outgoing,
                 stopRequested, spc, toServer, srvOpen, executed>>

(* parseMessage of a header that announces a body. *)
ParseHeader ==
  /\ flow = "parse"
  /\ sectionID = 0
  /\ Head(toClient).kind = "header"
  /\ sectionID' = 1
  /\ flow' = "write"
  /\ buffered' = buffered - 1
  /\ toClient' = Tail(toClient)
  /\ UNCHANGED <<flagVars, stopWait, args, rets, waiting, callVars, wpc, outgoing,
                 stopRequested, spc, toServer, srvOpen, executed>>

(* parseMessage of a body, or of a header that announces none. *)
ParseReply ==
  /\ flow = "parse"
  /\ sectionID = 1 \/ Head(toClient).kind = "empty"
  /\ rets' = Head(toClient).call
  /\ replIsReady' = TRUE
  /\ sectionID' = 0
  /\ flow' = "notifyReply"
  /\ buffered' = buffered - 1
  /\ toClient' = Tail(toClient)
  /\ UNCHANGED <<canCall, sendIsReady, stopWait, args, waiting, callVars, wpc, outgoing,
                 stopRequested, spc, toServer, srvOpen, executed>>

NotifyReply ==
  /\ flow = "notifyReply"
  /\ NotifyAll
  /\ flow' = "write"
  /\ UNCHANGED <<flagVars, stopWait, args, rets, callVars, wpc, outgoing, buffered, sectionID,
                 stopRequested, spc, netVars>>

(* mConn->close() and the close callback. *)
Close ==
  /\ flow = "close"
  /\ flow' = "done"
  /\ UNCHANGED <<flagVars, stopWait, args, rets, waiting, callVars, wpc, outgoing, buffered,
                 sectionID, stopRequested, spc, netVars>>

Flow ==
  \/ Write \/ WaitSend \/ FlowCheckStop \/ Fill \/ NotifySend \/ Send \/ NextRound
  \/ Read \/ ReadFails \/ ParseHeader \/ ParseReply \/ NotifyReply \/ Close

(******************************* stopDataFlow ******************************)

(* stopRequested = true *)
StopDataFlow ==
  /\ "stop" \in Faults
  /\ spc = "idle"
  /\ spc' = "setStop"
  /\ stopRequested' = TRUE
  /\ UNCHANGED <<flagVars, stopWait, args, rets, waiting, callVars, wpc, flow, outgoing, buffered,
                 sectionID, netVars>>

(* stopParser: stopWait is set with the lock. *)
SetStopWait ==
  /\ spc = "setStop"
  /\ spc' = "notifyStop"
  /\ stopWait' = TRUE
  /\ UNCHANGED <<flagVars, args, rets, waiting, callVars, wpc, flowVars, netVars>>

NotifyStop ==
  /\ spc = "notifyStop"
  /\ spc' = "done"
  /\ NotifyAll
  /\ UNCHANGED <<flagVars, stopWait, args, rets, callVars, wpc, flowVars, netVars>>

StopStep == SetStopWait \/ NotifyStop

(******************************** the server *******************************)

(* The server executes the oldest request and answers it, with or without  *)
(* a body.                                                                 *)
Answer(call) ==
  {<<[kind |-> "empty", call |-> call]>>,
   <<[kind |-> "header", call |-> call], [kind |-> "body", call |-> call]>>}

ServerReply ==
  /\ srvOpen
  /\ toServer # <<>>
  /\ executed' = Append(executed, Head(toServer))
  /\ toServer' = Tail(toServer)
  /\ \E reply \in Answer(Head(toServer)) : toClient' = toClient \o reply
  /\ UNCHANGED <<flagVars, stopWait, args, rets, waiting, callVars, wpc, flowVars, spc, srvOpen>>

ServerClose ==
  /\ "close" \in Faults
  /\ srvOpen
  /\ srvOpen' = FALSE
  /\ UNCHANGED <<flagVars, stopWait, args, rets, waiting, callVars, wpc, flowVars, spc, toServer,
                 toClient, executed>>

-----------------------------------------------------------------------------
Next ==
  \/ \E c \in Callers : Call(c) \/ CallStep(c)
  \/ \E w \in Waiters : StartWait(w) \/ WaitRPCComplete(w)
  \/ Flow
  \/ StopDataFlow \/ StopStep
  \/ ServerReply \/ ServerClose

Spec == Init /\ [][Next]_vars

(* Every thread keeps being scheduled; nobody has to start a call, a wait  *)
(* or a stop, and the server need not answer.                              *)
FairSpec ==
  /\ Spec
  /\ \A c \in Callers : WF_vars(CallStep(c))
  /\ \A w \in Waiters : WF_vars(WaitRPCComplete(w))
  /\ WF_vars(Flow)
  /\ WF_vars(StopStep)

(* The same with a server that answers every request. *)
FairServerSpec == FairSpec /\ WF_vars(ServerReply)

-----------------------------------------------------------------------------
FlowLabels == {"write", "waitSend", "checkStop", "fill", "notifySend", "checkAgain", "send",
               "next", "read", "parse", "notifyReply", "close", "done"}

CallLabels == {"idle", "waitReady", "checkStop", "push", "notifyCall", "waitReply", "take",
               "notifyReturn"}

Section == [kind : {"empty", "header", "body"}, call : Calls \cup {NoCall}]

FlagsTypeOK ==
  /\ canCall \in BOOLEAN /\ sendIsReady \in BOOLEAN /\ replIsReady \in BOOLEAN
  /\ stopWait \in BOOLEAN /\ stopRequested \in BOOLEAN
  /\ waiting \subseteq Callers \cup Waiters \cup {"flow"}
  /\ spc \in {"idle", "setStop", "notifyStop", "done"}

CallTypeOK ==
  /\ pc \in [Callers -> CallLabels]
  /\ calls \in [Callers -> 0 .. MaxCalls]
  /\ \A c \in Callers : pc[c] # "idle" => calls[c] > 0
  /\ ok \in [Callers -> BOOLEAN]
  /\ got \in [Callers -> Calls \cup {NoCall}]
  /\ wpc \in [Waiters -> {"idle", "wait", "done"}]

DataTypeOK ==
  /\ args \in Calls \cup {NoCall}
  /\ rets \in Calls \cup {NoCall}
  /\ outgoing \in Calls \cup {NoCall}
  /\ flow \in FlowLabels
  /\ sectionID \in {0, 1}
  /\ buffered \in 0 .. Len(toClient)
  /\ flow = "parse" => buffered > 0

NetTypeOK ==
  /\ toServer \in Seq(Calls \cup {NoCall})
  /\ toClient \in Seq(Section)
  /\ srvOpen \in BOOLEAN
  /\ executed \in Seq(Calls \cup {NoCall})

(* The type of every variable. *)
TypeOK == FlagsTypeOK /\ CallTypeOK /\ DataTypeOK /\ NetTypeOK

(* callSync hands out the reply to its own call when it returns true,      *)
(* unless a stop has been requested.                                       *)
OwnReply == \A c \in Callers : ok[c] => got[c] = MyCall(c) \/ stopWait

(* No call is sent, hence executed, twice, and none that was not made. *)
AtMostOnce ==
  LET requests == executed \o toServer IN
    /\ \A i, j \in 1 .. Len(requests) : i # j => requests[i] # requests[j]
    /\ \A i \in 1 .. Len(requests) :
         \E c \in Callers : \E k \in 1 .. calls[c] : requests[i] = <<c, k>>

-----------------------------------------------------------------------------
(* What holds with one caller, until a stop is requested: its call is in   *)
(* one place at a time, on its way from args to rets.                      *)

(* The flow thread holds the request. *)
Holding == flow \in {"notifySend", "checkAgain", "send"}

(* canCall is FALSE exactly while callSync is between push and take, and   *)
(* then nothing of an earlier call is left anywhere.                       *)
Phase(c) ==
  /\ canCall <=> pc[c] \notin {"notifyCall", "waitReply", "take"}
  /\ pc[c] = "take" => replIsReady
  /\ flow \in {"checkStop", "fill"} => sendIsReady

Exclusive ==
  /\ canCall => ~sendIsReady /\ ~Holding /\ toServer = <<>> /\ toClient = <<>> /\ ~replIsReady
  /\ sendIsReady => ~Holding /\ toServer = <<>> /\ toClient = <<>> /\ ~replIsReady
  /\ Holding => toServer = <<>> /\ toClient = <<>> /\ ~replIsReady
  /\ toServer # <<>> => toClient = <<>> /\ ~replIsReady
  /\ toClient # <<>> => ~replIsReady

(* Wherever the call is, it is the one that the caller waits for. *)
Contents(c) ==
  /\ sendIsReady => args = MyCall(c)
  /\ Holding => outgoing = MyCall(c)
  /\ toServer # <<>> => toServer = <<MyCall(c)>>
  /\ sectionID = 0 => toClient = <<>> \/ toClient \in Answer(MyCall(c))
  /\ sectionID = 1 => toClient = <<[kind |-> "body", call |-> MyCall(c)]>>
  /\ replIsReady => rets = MyCall(c)
  /\ pc[c] = "notifyReturn" => got[c] = MyCall(c)
  /\ ok[c] => got[c] = MyCall(c)

CallTracked ==
  ~stopWait => \A c \in Callers : Phase(c) /\ Exclusive /\ Contents(c)

(* A call comes to its end when the server answers, unless the flow ends   *)
(* without a stop: nobody calls stopParser when the server has closed      *)
(* (messageManager.h:208, against the comment at messageManager.h:39-40).  *)
CallReturns ==
  \A c \in Callers :
    pc[c] # "idle" ~> pc[c] = "idle" \/ (flow = "done" /\ ~stopWait)

(* waitRPCComplete returns, with the same exception and one more: a call   *)
(* that fails to decode its reply makes the client ready and notifies      *)
(* nobody.                                                                 *)
SomeCallFailed == \E c \in Callers : calls[c] > 0 /\ pc[c] = "idle" /\ ~ok[c]

WaiterReturns ==
  \A w \in Waiters :
    wpc[w] = "wait" ~> wpc[w] = "done" \/ SomeCallFailed \/ (flow = "done" /\ ~stopWait)

(* stopDataFlow releases every call and every wait, whatever the server    *)
(* does.                                                                   *)
StopReleases ==
  /\ \A c \in Callers : (stopWait /\ pc[c] # "idle") ~> pc[c] = "idle"
  /\ \A w \in Waiters : (stopWait /\ wpc[w] = "wait") ~> wpc[w] = "done"

(* No thread sleeps for ever on the condition variable that callers,       *)
(* waiters and the flow share (cv, rpcClient.h:62).                        *)
Released == WaiterReturns /\ StopReleases

=============================================================================
