----------------------------- MODULE GoRpcClient -----------------------------
(***************************************************************************)
(* The Go RPC client, rpcmple_go/rpcmpleclient.go and rpcmplesignature.go, *)
(* with the goroutine of messagemanager.go that runs it: user goroutines   *)
(* in Call, the data flow goroutine in SendMessage, ParseMessage and       *)
(* GetMessageLen, a goroutine in StopDataFlow, and a server that answers   *)
(* the requests it gets, one by one and in order.                          *)
(*                                                                         *)
(* myLock is a variable, because a call that fails keeps it: a section     *)
(* that takes it and gives it back is one step, with the lock free.  The   *)
(* channel commandReady has no buffer: a send is one step with the receive *)
(* it meets; after it was closed a receive goes on at once and a send      *)
(* panics, which ends the process.                                         *)
(*                                                                         *)
(* Every caller calls a procedure of its own, and a call is named <<caller, *)
(* number>>; a reply carries the name of the call it answers.  Cutting the *)
(* byte streams into sections is the subject of GoMessageManager.          *)
(***************************************************************************)
EXTENDS Naturals, Sequences

CONSTANTS
  Callers,   \* goroutines that use Call, one per remote procedure
  MaxCalls,  \* bound: calls per caller
  AwaitReply,\* TRUE: the callback hands the reply to the caller, which waits
             \* for it, as in the examples; FALSE: the callback only returns
  Faults,    \* what may go wrong: "encode" (ToBinary fails or the body is too
             \* large), "decode" (FromBinary fails), "write" (the connection
             \* fails), "close" (the server goes away), "stop" (StopDataFlow),
             \* "recall" (a ReplyCallback uses Call)
  NoCall     \* no call at all

Calls == Callers \X (1 .. MaxCalls)

ASSUME GRCAssumption ==
  /\ MaxCalls \in Nat
  /\ AwaitReply \in BOOLEAN
  /\ NoCall \notin Calls
  /\ {"free", "flow"} \cap Callers = {}
  /\ Faults \subseteq {"encode", "decode", "write", "close", "stop", "recall"}

VARIABLES
  myLock,          \* "free" or who holds the mutex
  command,         \* the call that rc.command holds
  lastRemoteProc,  \* the caller whose procedure was called last, or NoCall
  sectionID,       \* 0: a header comes next; 1: the body it announced
  closed,          \* the channel commandReady has been closed
  panicked,        \* a goroutine has sent on the closed channel
  stopRequest,     \* the flag of MessageManager
  pc,              \* where each caller is in Call
  calls,           \* number of calls each caller has started
  got,             \* the reply that its callback got last
  returned,        \* history: the calls for which Call has returned true
  flow,            \* where the data flow goroutine is
  first,           \* the first message has not been written yet
  outgoing,        \* the request SendMessage has written into replyMessage
  buffered,        \* how many sections of toClient are in readBuffer already
  spc,             \* where the goroutine in StopDataFlow is
  toServer,        \* requests under way, oldest first
  toClient,        \* sections of replies under way or in readBuffer
  srvOpen,         \* the server has not closed the connection
  executed         \* history: the calls the server has executed

clientVars == <<myLock, command, lastRemoteProc>>
chanVars   == <<closed, panicked>>
callVars   == <<pc, calls, got, returned>>
flowVars   == <<flow, first, outgoing, buffered, sectionID>>
netVars    == <<toServer, toClient, srvOpen, executed>>
vars == <<clientVars, chanVars, stopRequest, callVars, flowVars, spc, netVars>>

-----------------------------------------------------------------------------
MyCall(c) == <<c, calls[c]>>

LockFree == myLock = "free"

(* Where the goroutines are; a panic ends all of them. *)
CallerAt(c, label) == pc[c] = label /\ ~panicked
FlowAt(label) == flow = label /\ ~panicked

Init ==
  /\ myLock = "free"
  /\ command = NoCall
  /\ lastRemoteProc = NoCall
  /\ sectionID = 0
  /\ closed = FALSE
  /\ panicked = FALSE
  /\ stopRequest = FALSE
  /\ pc = [c \in Callers |-> "idle"]
  /\ calls = [c \in Callers |-> 0]
  /\ got = [c \in Callers |-> NoCall]
  /\ returned = {}
  /\ flow = "start"
  /\ first = TRUE
  /\ outgoing = NoCall
  /\ buffered = 0
  /\ spc = "idle"
  /\ toServer = <<>>
  /\ toClient = <<>>
  /\ srvOpen = TRUE
  /\ executed = <<>>

(***************************** Call, caller c ******************************)

Call(c) ==
  /\ CallerAt(c, "idle")
  /\ calls[c] < MaxCalls
  /\ calls' = [calls EXCEPT ![c] = @ + 1]
  /\ got' = [got EXCEPT ![c] = NoCall]
  /\ pc' = [pc EXCEPT ![c] = "encode"]
  /\ UNCHANGED <<clientVars, chanVars, stopRequest, returned, flowVars, spc, netVars>>

(* The section with the lock: the request is written into command.         *)
Encode(c) ==
  /\ CallerAt(c, "encode")
  /\ LockFree
  /\ command' = MyCall(c)
  /\ lastRemoteProc' = c
  /\ pc' = [pc EXCEPT ![c] = "ready"]
  /\ UNCHANGED <<myLock, chanVars, stopRequest, calls, got, returned, flowVars, spc, netVars>>

(* The arguments cannot be encoded or are too large: Call returns false,   *)
(* with command reset and the lock taken.                                  *)
EncodeFails(c) ==
  /\ "encode" \in Faults
  /\ CallerAt(c, "encode")
  /\ LockFree
  /\ myLock' = c
  /\ command' = NoCall
  /\ pc' = [pc EXCEPT ![c] = "idle"]
  /\ UNCHANGED <<lastRemoteProc, chanVars, stopRequest, calls, got, returned, flowVars, spc, netVars>>

(* Mutant of MeetsFlow: the channel has a buffer of one. *)
MeetsFlowBuffered == flow \in {"recv", "read"} /\ flow' = flow

MeetsFlow == flow = "recv" /\ flow' = "fill"

(* commandReady <- true meets <-rc.commandReady in SendMessage, and Call   *)
(* returns true.                                                           *)
Ready(c) ==
  /\ CallerAt(c, "ready")
  /\ ~closed
  /\ MeetsFlow
  /\ returned' = returned \cup {MyCall(c)}
  /\ pc' = [pc EXCEPT ![c] = IF AwaitReply THEN "await" ELSE "idle"]
  /\ UNCHANGED <<clientVars, chanVars, stopRequest, calls, got, first, outgoing, buffered,
                 sectionID, spc, netVars>>

(* A send on a closed channel, also one that was blocked before, panics. *)
ReadyPanics(c) ==
  /\ CallerAt(c, "ready")
  /\ closed
  /\ panicked' = TRUE
  /\ UNCHANGED <<clientVars, closed, stopRequest, callVars, flowVars, spc, netVars>>

CallStep(c) == Encode(c) \/ EncodeFails(c) \/ Ready(c) \/ ReadyPanics(c)

(************************ the data flow goroutine **************************)

(* StartDataFlow and, after each sub-message, dataFlow call SendMessage,   *)
(* which has nothing to send between a header and its body.                *)
SendMessage ==
  /\ FlowAt("start") \/ FlowAt("reply")
  /\ flow' = IF sectionID # 0 THEN "getLen" ELSE "recv"
  /\ UNCHANGED <<clientVars, chanVars, stopRequest, callVars, first, outgoing, buffered, sectionID, spc,
                 netVars>>

(* Mutant of ReceiveClosed: the channel is not waited for. *)
ReceiveAlways ==
  /\ FlowAt("recv")
  /\ command # NoCall
  /\ flow' = "fill"
  /\ UNCHANGED <<clientVars, chanVars, stopRequest, callVars, first, outgoing, buffered, sectionID, spc,
                 netVars>>

(* <-rc.commandReady of the closed channel. *)
ReceiveClosed ==
  /\ FlowAt("recv")
  /\ closed
  /\ flow' = "fill"
  /\ UNCHANGED <<clientVars, chanVars, stopRequest, callVars, first, outgoing, buffered, sectionID, spc,
                 netVars>>

(* A first message that fails ends the goroutine and leaves the connection *)
(* open, a later one ends dataFlow, which closes it.                       *)
StopFlow ==
  /\ stopRequest' = TRUE
  /\ flow' = IF first THEN "done" ELSE "close"

(* The rest of SendMessage, with the lock: command is copied, and stays as *)
(* it is; an empty one is an error.                                        *)
Fill ==
  /\ FlowAt("fill")
  /\ LockFree
  /\ IF command # NoCall
     THEN /\ outgoing' = command
          /\ flow' = "write"
          /\ UNCHANGED stopRequest
     ELSE /\ StopFlow
          /\ UNCHANGED outgoing
  /\ UNCHANGED <<clientVars, chanVars, callVars, first, buffered, sectionID, spc, netVars>>

(* binary.Write to the connection; it may also succeed, for nothing, when  *)
(* the server has closed its end.                                          *)
Write ==
  /\ FlowAt("write")
  /\ outgoing' = NoCall
  /\ \/ /\ toServer' = Append(toServer, outgoing)
        /\ flow' = IF first THEN "loop" ELSE "getLen"
        /\ first' = FALSE
        /\ UNCHANGED stopRequest
     \/ /\ ~srvOpen \/ "write" \in Faults
        /\ StopFlow
        /\ UNCHANGED <<toServer, first>>
  /\ UNCHANGED <<clientVars, chanVars, callVars, buffered, sectionID, spc, toClient, srvOpen,
                 executed>>

(* GetMessageLen, with the lock; the rest of readBuffer comes first. *)
GetMessageLen ==
  /\ FlowAt("getLen")
  /\ LockFree
  /\ flow' = IF buffered > 0 THEN "parse" ELSE "loop"
  /\ UNCHANGED <<clientVars, chanVars, stopRequest, callVars, first, outgoing, buffered, sectionID,
                 spc, netVars>>

(* for !mm.stopRequest *)
LoopHead ==
  /\ FlowAt("loop")
  /\ flow' = IF stopRequest THEN "close" ELSE "read"
  /\ UNCHANGED <<clientVars, chanVars, stopRequest, callVars, first, outgoing, buffered, sectionID,
                 spc, netVars>>

Read ==
  /\ FlowAt("read")
  /\ \E n \in 1 .. Len(toClient) : buffered' = n
  /\ flow' = "parse"
  /\ UNCHANGED <<clientVars, chanVars, stopRequest, callVars, first, outgoing, sectionID, spc, netVars>>

(* mm.conn.Read fails: the loop is left, the parser is not told. *)
ReadFails ==
  /\ FlowAt("read")
  /\ ~srvOpen
  /\ flow' = "close"
  /\ UNCHANGED <<clientVars, chanVars, stopRequest, callVars, first, outgoing, buffered, sectionID, spc,
                 netVars>>

NextSection ==
  /\ buffered' = buffered - 1
  /\ toClient' = Tail(toClient)

AnnouncesNoBody == FALSE  \* mutant of AnnouncesBody: no reply has a body
AnnouncesBody == Head(toClient).kind = "header"

(* ParseMessage of a header that announces a body *)
ParseHeader ==
  /\ FlowAt("parse")
  /\ LockFree
  /\ sectionID = 0
  /\ AnnouncesBody
  /\ sectionID' = 1
  /\ NextSection
  /\ flow' = "reply"
  /\ UNCHANGED <<clientVars, chanVars, stopRequest, callVars, first, outgoing, spc, toServer, srvOpen,
                 executed>>

(* Whether FromBinary can decode the reply with the signature of           *)
(* lastRemoteProc; with the signature of another procedure it may or not.  *)
Decodes ==
  IF lastRemoteProc = Head(toClient).call[1] /\ "decode" \notin Faults THEN {TRUE} ELSE BOOLEAN

(* ParseMessage of a body, or of a header without one: the reply is        *)
(* decoded and the callback is called, all with the lock held.             *)
ParseReply ==
  /\ FlowAt("parse")
  /\ LockFree
  /\ sectionID = 1 \/ ~AnnouncesBody
  /\ \E decoded \in Decodes :
       IF decoded
       THEN /\ myLock' = "flow"
            /\ flow' = "callback"
            /\ UNCHANGED stopRequest
       ELSE /\ StopFlow
            /\ UNCHANGED myLock
  /\ UNCHANGED <<command, lastRemoteProc, chanVars, callVars, first, outgoing, buffered, sectionID,
                 spc, netVars>>

UnlockMissing == UNCHANGED myLock  \* mutant of Unlock: it is not deferred
Unlock == myLock' = "free"

(* ReplyCallback of lastRemoteProc; with AwaitReply it meets its caller on *)
(* a channel without a buffer.  Then ParseMessage returns.                 *)
Callback ==
  /\ FlowAt("callback")
  /\ LET c == lastRemoteProc IN
       /\ AwaitReply => pc[c] = "await"
       /\ got' = [got EXCEPT ![c] = Head(toClient).call]
       /\ pc' = IF AwaitReply THEN [pc EXCEPT ![c] = "idle"] ELSE pc
  /\ sectionID' = 0
  /\ NextSection
  /\ Unlock
  /\ flow' = "reply"
  /\ UNCHANGED <<command, lastRemoteProc, chanVars, stopRequest, calls, returned, first, outgoing,
                 spc, toServer, srvOpen, executed>>

(* A ReplyCallback that uses Call waits for the lock that ParseMessage     *)
(* holds around it.                                                        *)
CallbackCalls ==
  /\ "recall" \in Faults
  /\ FlowAt("callback")
  /\ flow' = "stuck"
  /\ UNCHANGED <<clientVars, chanVars, stopRequest, callVars, first, outgoing, buffered, sectionID,
                 spc, netVars>>

(* mm.conn.Close() *)
Close ==
  /\ FlowAt("close")
  /\ flow' = "done"
  /\ UNCHANGED <<clientVars, chanVars, stopRequest, callVars, first, outgoing, buffered, sectionID,
                 spc, netVars>>

Flow ==
  \/ SendMessage \/ ReceiveClosed \/ Fill \/ Write \/ GetMessageLen \/ LoopHead
  \/ Read \/ ReadFails \/ ParseHeader \/ ParseReply \/ Callback \/ CallbackCalls \/ Close

(******************************* StopDataFlow ******************************)

StopDataFlow ==
  /\ "stop" \in Faults
  /\ spc = "idle" /\ ~panicked
  /\ spc' = "stop"
  /\ stopRequest' = TRUE
  /\ UNCHANGED <<clientVars, chanVars, callVars, flowVars, netVars>>

(* Stop *)
Stop ==
  /\ spc = "stop" /\ ~panicked
  /\ spc' = "done"
  /\ closed' = TRUE
  /\ UNCHANGED <<clientVars, panicked, stopRequest, callVars, flowVars, netVars>>

(******************************** the server *******************************)

(* The server executes the oldest request and answers it, with or without  *)
(* a body.                                                                 *)
Answer(call) ==
  {<<[kind |-> "empty", call |-> call]>>,
   <<[kind |-> "header", call |-> call], [kind |-> "body", call |-> call]>>}

ServerReply ==
  /\ srvOpen
  /\ toServer # <<>>
  /\ executed' = Append(executed, Head(toServer))
  /\ toServer' = Tail(toServer)
  /\ \E reply \in Answer(Head(toServer)) : toClient' = toClient \o reply
  /\ UNCHANGED <<clientVars, chanVars, stopRequest, callVars, flowVars, spc, srvOpen>>

ServerClose ==
  /\ "close" \in Faults
  /\ srvOpen
  /\ srvOpen' = FALSE
  /\ UNCHANGED <<clientVars, chanVars, stopRequest, callVars, flowVars, spc, toServer, toClient,
                 executed>>

-----------------------------------------------------------------------------
Next ==
  \/ \E c \in Callers : Call(c) \/ CallStep(c)
  \/ Flow
  \/ StopDataFlow \/ Stop
  \/ ServerReply \/ ServerClose

Spec == Init /\ [][Next]_vars

(* Every goroutine keeps being scheduled; nobody has to start a call or a  *)
(* stop, and the server answers every request that reaches it.             *)
FairServerSpec ==
  /\ Spec
  /\ \A c \in Callers : WF_vars(CallStep(c))
  /\ WF_vars(Flow)
  /\ WF_vars(Stop)
  /\ WF_vars(ServerReply)

-----------------------------------------------------------------------------
Section == [kind : {"empty", "header", "body"}, call : Calls]

FlowLabels == {"start", "recv", "fill", "write", "getLen", "loop", "read", "parse", "callback",
               "stuck", "reply", "close", "done"}

FlagsTypeOK ==
  /\ closed \in BOOLEAN /\ panicked \in BOOLEAN /\ stopRequest \in BOOLEAN
  /\ myLock \in Callers \cup {"free", "flow"}
  /\ lastRemoteProc \in Callers \cup {NoCall}
  /\ spc \in {"idle", "stop", "done"}

CallTypeOK ==
  /\ pc \in [Callers -> {"idle", "encode", "ready", "await"}]
  /\ calls \in [Callers -> 0 .. MaxCalls]
  /\ \A c \in Callers : pc[c] # "idle" => calls[c] > 0
  /\ command \in Calls \cup {NoCall}
  /\ got \in [Callers -> Calls \cup {NoCall}]
  /\ returned \subseteq Calls

FlowTypeOK ==
  /\ flow \in FlowLabels
  /\ first \in BOOLEAN
  /\ sectionID \in {0, 1}
  /\ outgoing \in Calls \cup {NoCall}
  /\ flow = "write" => outgoing # NoCall
  /\ buffered \in 0 .. Len(toClient)
  /\ flow \in {"parse", "callback"} => buffered > 0

NetTypeOK ==
  /\ toServer \in Seq(Calls)
  /\ toClient \in Seq(Section)
  /\ srvOpen \in BOOLEAN
  /\ executed \in Seq(Calls)

(* The type of every variable. *)
TypeOK == FlagsTypeOK /\ CallTypeOK /\ FlowTypeOK /\ NetTypeOK

(* The reply that the callback of a procedure hands over answers the call  *)
(* that its caller waits for.                                              *)
OwnReply == \A c \in Callers : got[c] # NoCall => got[c] = MyCall(c)

Requests == executed \o toServer

(* No call is sent, hence executed, twice, as long as nobody has stopped   *)
(* the client; StopDataFlow may send the last one again (ReceiveClosed).   *)
SentOnceUntilStop ==
  ~closed => \A i, j \in 1 .. Len(Requests) : i # j => Requests[i] # Requests[j]

(* A call for which Call has returned true is sent: it is being written or *)
(* on its way or executed, unless the flow has ended.                      *)
TrueMeansSent ==
  flow \notin {"close", "done"} =>
    \A call \in returned :
      \/ call = command /\ flow = "fill"
      \/ call = outgoing
      \/ \E i \in 1 .. Len(Requests) : Requests[i] = call

(* A call that failed to encode has kept the lock for ever, or a callback  *)
(* waits for it in the goroutine that holds it.                            *)
LockLost == myLock \in Callers \/ flow = "stuck"

(* A call, with the wait for its reply, comes to its end, unless the lock  *)
(* is lost, the flow ends before (a server that closes: nobody tells the   *)
(* callers) or a stop makes it panic; and StopDataFlow ends the flow, if   *)
(* the server answers the request that is under way, with the same         *)
(* exceptions (Call, and Stop of rpcmpleclient.go).                        *)
CallReturns ==
  /\ \A c \in Callers : pc[c] # "idle" ~> pc[c] = "idle" \/ LockLost \/ flow = "done" \/ panicked
  /\ closed ~> flow = "done" \/ LockLost \/ panicked

=============================================================================
