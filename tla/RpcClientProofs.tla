--------------------------- MODULE RpcClientProofs ---------------------------
(***************************************************************************)
(* Safety of the C++ RPC client for every number of calls, every set of    *)
(* waiters and every combination of faults.  With one calling thread the   *)
(* call that is under way is tracked from args to rets (CallTracked, which *)
(* is inductive with TypeOK), so callSync hands out the reply to its own   *)
(* call; and what is on its way or executed is older than the call that is *)
(* still to be written (Fresh), so nothing is written twice.  With two     *)
(* callers this is lost: both may pass the check of canCall before either  *)
(* of them clears it.                                                      *)
(***************************************************************************)
EXTENDS RpcClient, SequenceTheorems, TLAPS

(* Only one thread uses callSync. *)
OneCaller == \E c : Callers = {c}

LEMMA AnswerType ==
  ASSUME NEW call \in Calls \cup {NoCall}, NEW reply \in Answer(call)
  PROVE  reply \in Seq(Section) /\ reply # <<>>
<1>1. /\ [kind |-> "empty", call |-> call] \in Section
      /\ [kind |-> "header", call |-> call] \in Section
      /\ [kind |-> "body", call |-> call] \in Section
  BY DEF Section
<1>2. CASE reply = <<[kind |-> "empty", call |-> call]>>
  BY <1>1, <1>2
<1>3. CASE reply = <<[kind |-> "header", call |-> call], [kind |-> "body", call |-> call]>>
  BY <1>1, <1>3
<1> QED BY <1>2, <1>3 DEF Answer

LEMMA HeadTailType ==
  ASSUME NEW S, NEW s \in Seq(S), s # <<>>
  PROVE  Head(s) \in S /\ Tail(s) \in Seq(S) /\ Len(Tail(s)) = Len(s) - 1
BY HeadTailProperties

-----------------------------------------------------------------------------
(* Type correctness, part by part, for any number of callers. *)
LEMMA FlagsType ==
  ASSUME TypeOK, [Next]_vars
  PROVE  FlagsTypeOK'
<1> USE DEF flagVars, callVars, flowVars, netVars, Goto, NotifyAll
<1>0. FlagsTypeOK
  BY DEF TypeOK
<1>1. ASSUME NEW c \in Callers, Call(c) \/ CallStep(c) PROVE FlagsTypeOK'
  BY <1>0, <1>1 DEF Call, CallStep, WaitReady, CheckStop, Push, PushFails, NotifyCall, WaitReply,
                    Take, NotifyReturn, CvWait, FlagsTypeOK
<1>2. ASSUME NEW w \in Waiters, StartWait(w) \/ WaitRPCComplete(w) PROVE FlagsTypeOK'
  BY <1>0, <1>2 DEF StartWait, WaitRPCComplete, CvWait, FlagsTypeOK
<1>3. CASE Flow
  BY <1>0, <1>3 DEF Flow, Write, WaitSend, CvWait, FlowCheckStop, Fill, NotifySend, Send, NextRound,
                    Read, ReadFails, ParseHeader, ParseReply, NotifyReply, Close, StopFlow,
                    FlagsTypeOK
<1>4. CASE StopDataFlow \/ StopStep \/ ServerReply \/ ServerClose \/ UNCHANGED vars
  BY <1>0, <1>4 DEF StopDataFlow, StopStep, SetStopWait, NotifyStop, ServerReply, ServerClose, vars,
                    FlagsTypeOK
<1> QED BY <1>1, <1>2, <1>3, <1>4 DEF Next

LEMMA CallType ==
  ASSUME TypeOK, [Next]_vars
  PROVE  CallTypeOK'
<1> USE DEF flagVars, callVars, flowVars, netVars, Goto, NotifyAll, CallLabels
<1>0. CallTypeOK /\ rets \in Calls \cup {NoCall}
  BY DEF TypeOK, DataTypeOK
<1>1. ASSUME NEW c \in Callers, Call(c) PROVE CallTypeOK'
  <2>1. calls' \in [Callers -> 0 .. MaxCalls]
    BY <1>0, <1>1, RCAssumption DEF Call, CallTypeOK
  <2>2. \A d \in Callers : pc'[d] # "idle" => calls'[d] > 0
    BY <1>0, <1>1, RCAssumption DEF Call, CallTypeOK
  <2> QED BY <1>0, <1>1, <2>1, <2>2 DEF Call, CallTypeOK
<1>2. ASSUME NEW c \in Callers, CallStep(c) PROVE CallTypeOK'
  BY <1>0, <1>2 DEF CallStep, WaitReady, CheckStop, Push, PushFails, NotifyCall, WaitReply,
                    Take, NotifyReturn, CvWait, CallTypeOK
<1>3. ASSUME NEW w \in Waiters, StartWait(w) \/ WaitRPCComplete(w) PROVE CallTypeOK'
  BY <1>0, <1>3 DEF StartWait, WaitRPCComplete, CvWait, CallTypeOK
<1>4. CASE Flow \/ StopDataFlow \/ StopStep \/ ServerReply \/ ServerClose \/ UNCHANGED vars
  <2>1. UNCHANGED <<pc, calls, ok, got, wpc>>
    BY <1>4 DEF Flow, Write, WaitSend, CvWait, FlowCheckStop, Fill, NotifySend, Send, NextRound,
                Read, ReadFails, ParseHeader, ParseReply, NotifyReply, Close, StopFlow,
                StopDataFlow, StopStep, SetStopWait, NotifyStop, ServerReply, ServerClose, vars
  <2> QED BY <1>0, <2>1 DEF CallTypeOK
<1> QED BY <1>1, <1>2, <1>3, <1>4 DEF Next

LEMMA DataType ==
  ASSUME TypeOK, [Next]_vars
  PROVE  DataTypeOK'
<1> USE DEF flagVars, callVars, flowVars, netVars, Goto, NotifyAll, FlowLabels
<1>0. DataTypeOK /\ NetTypeOK /\ Len(toClient) \in Nat
  BY DEF TypeOK, NetTypeOK
<1>1. ASSUME NEW c \in Callers, Push(c) PROVE DataTypeOK'
  <2>1. MyCall(c) \in Calls
    BY <1>1 DEF Push, MyCall, Calls, TypeOK, CallTypeOK
  <2>2. /\ args' = MyCall(c) \/ args' = NoCall
        /\ UNCHANGED <<rets, outgoing, flow, sectionID, buffered, toClient>>
    BY <1>1 DEF Push, PushFails
  <2> QED BY <1>0, <2>1, <2>2 DEF DataTypeOK
<1>2. CASE \/ \E c \in Callers : \/ Call(c) \/ WaitReady(c) \/ CheckStop(c) \/ NotifyCall(c)
                                \/ WaitReply(c) \/ Take(c) \/ NotifyReturn(c)
           \/ \E w \in Waiters : StartWait(w) \/ WaitRPCComplete(w)
           \/ NotifySend \/ WaitSend \/ FlowCheckStop \/ NextRound \/ ReadFails
           \/ NotifyReply \/ Close \/ Write
           \/ StopDataFlow \/ StopStep \/ ServerClose \/ UNCHANGED vars
  <2>1. /\ UNCHANGED <<args, rets, outgoing, sectionID, buffered, toClient>>
        /\ flow' \in FlowLabels /\ (flow' = "parse" => buffered > 0)
    BY <1>0, <1>2 DEF Call, WaitReady, CheckStop, NotifyCall, WaitReply, Take, NotifyReturn, CvWait,
                StartWait, WaitRPCComplete, NotifySend, WaitSend, FlowCheckStop, StopFlow,
                NextRound, ReadFails, NotifyReply, Close, Write, StopDataFlow, StopStep,
                SetStopWait, NotifyStop, ServerClose, vars, DataTypeOK
  <2> QED BY <1>0, <2>1 DEF DataTypeOK
<1>3. CASE Fill \/ Send
  BY <1>0, <1>3 DEF Fill, Send, StopFlow, DataTypeOK
<1>4. CASE Read
  BY <1>0, <1>4 DEF Read, DataTypeOK
<1>5. CASE ParseHeader \/ ParseReply
  <2>1. toClient # <<>> /\ buffered \in 1 .. Len(toClient)
    BY <1>0, <1>5 DEF ParseHeader, ParseReply, DataTypeOK
  <2>2. Head(toClient) \in Section /\ Len(Tail(toClient)) = Len(toClient) - 1
    BY <1>0, <2>1, HeadTailType DEF NetTypeOK
  <2>3. Head(toClient).call \in Calls \cup {NoCall}
    BY <2>2 DEF Section
  <2>4. /\ buffered' = buffered - 1 /\ toClient' = Tail(toClient)
        /\ rets' = rets \/ rets' = Head(toClient).call
        /\ sectionID' \in {0, 1} /\ flow' \in {"write", "notifyReply"}
        /\ UNCHANGED <<args, outgoing>>
    BY <1>5 DEF ParseHeader, ParseReply
  <2>5. buffered' \in 0 .. Len(toClient')
    BY <1>0, <2>1, <2>2, <2>4
  <2> QED BY <1>0, <2>3, <2>4, <2>5 DEF DataTypeOK
<1>6. CASE ServerReply
  <2>1. PICK reply \in Answer(Head(toServer)) : toClient' = toClient \o reply
    BY <1>6 DEF ServerReply
  <2>2. reply \in Seq(Section)
    BY <1>0, <1>6, <2>1, HeadTailType, AnswerType DEF ServerReply, NetTypeOK
  <2>3. Len(toClient') = Len(toClient) + Len(reply) /\ Len(reply) \in Nat
    BY <1>0, <2>1, <2>2 DEF NetTypeOK
  <2>4. UNCHANGED <<args, rets, outgoing, flow, sectionID, buffered>>
    BY <1>6 DEF ServerReply
  <2> QED BY <1>0, <2>3, <2>4 DEF DataTypeOK
<1> QED BY <1>1, <1>2, <1>3, <1>4, <1>5, <1>6 DEF Next, CallStep, Flow

LEMMA NetType ==
  ASSUME TypeOK, [Next]_vars
  PROVE  NetTypeOK'
<1> USE DEF flagVars, callVars, flowVars, netVars, Goto, NotifyAll
<1>0. NetTypeOK /\ DataTypeOK
  BY DEF TypeOK
<1>1. CASE Send
  <2>0. toServer' = toServer \/ toServer' = Append(toServer, outgoing)
    BY <1>1 DEF Send
  <2>1. toServer' \in Seq(Calls \cup {NoCall})
    BY <1>0, <2>0 DEF NetTypeOK, DataTypeOK
  <2> QED BY <1>0, <1>1, <2>1 DEF Send, NetTypeOK
<1>2. CASE ParseHeader \/ ParseReply
  <2>1. toClient # <<>> /\ toClient' = Tail(toClient)
    BY <1>0, <1>2 DEF ParseHeader, ParseReply, DataTypeOK
  <2>2. toClient' \in Seq(Section)
    BY <1>0, <2>1, HeadTailType DEF NetTypeOK
  <2> QED BY <1>0, <1>2, <2>2 DEF ParseHeader, ParseReply, NetTypeOK
<1>3. CASE ServerReply
  <2>1. PICK reply \in Answer(Head(toServer)) : toClient' = toClient \o reply
    BY <1>3 DEF ServerReply
  <2>2. Head(toServer) \in Calls \cup {NoCall} /\ Tail(toServer) \in Seq(Calls \cup {NoCall})
    BY <1>0, <1>3, HeadTailType DEF ServerReply, NetTypeOK
  <2>3. reply \in Seq(Section)
    BY <2>1, <2>2, AnswerType
  <2>4. toClient' \in Seq(Section) /\ executed' \in Seq(Calls \cup {NoCall})
    BY <1>0, <1>3, <2>1, <2>2, <2>3 DEF ServerReply, NetTypeOK
  <2> QED BY <1>0, <1>3, <2>2, <2>4 DEF ServerReply, NetTypeOK
<1>4. CASE \/ \E c \in Callers : Call(c) \/ CallStep(c)
           \/ \E w \in Waiters : StartWait(w) \/ WaitRPCComplete(w)
           \/ NotifySend \/ WaitSend \/ FlowCheckStop \/ Fill \/ NextRound \/ Read \/ ReadFails
           \/ NotifyReply \/ Close \/ Write
           \/ StopDataFlow \/ StopStep \/ UNCHANGED vars
  <2>1. UNCHANGED netVars
    BY <1>4 DEF Call, CallStep, WaitReady, CheckStop, Push, PushFails, NotifyCall, WaitReply, Take,
                NotifyReturn, CvWait, StartWait, WaitRPCComplete, NotifySend, WaitSend,
                FlowCheckStop, StopFlow, Fill, NextRound, Read, ReadFails, NotifyReply, Close, Write,
                StopDataFlow, StopStep, SetStopWait, NotifyStop, vars
  <2> QED BY <1>0, <2>1 DEF NetTypeOK
<1>5. CASE ServerClose
  BY <1>0, <1>5 DEF ServerClose, NetTypeOK
<1> QED BY <1>1, <1>2, <1>3, <1>4, <1>5 DEF Next, Flow

(* Every variable keeps its type, for any number of callers. *)
THEOREM TypeCorrect == Spec => []TypeOK
<1>1. Init => TypeOK
  <2> SUFFICES ASSUME Init PROVE TypeOK
    OBVIOUS
  <2>1. FlagsTypeOK
    BY DEF Init, FlagsTypeOK
  <2>2. CallTypeOK
    BY RCAssumption DEF Init, CallTypeOK, CallLabels
  <2>3. DataTypeOK
    BY DEF Init, DataTypeOK, FlowLabels
  <2>4. NetTypeOK
    BY DEF Init, NetTypeOK
  <2> QED BY <2>1, <2>2, <2>3, <2>4 DEF TypeOK
<1>2. TypeOK /\ [Next]_vars => TypeOK'
  BY FlagsType, CallType, DataType, NetType DEF TypeOK
<1> QED BY <1>1, <1>2, PTL DEF Spec

-----------------------------------------------------------------------------
(* One caller: the call is tracked.                                        *)
Tracked(c) == Phase(c) /\ Exclusive /\ Contents(c)

(* Steps of the caller itself. *)
LEMMA CallerTracked ==
  ASSUME NEW c, Callers = {c}, TypeOK, ~stopWait, Tracked(c), Call(c) \/ CallStep(c)
  PROVE  Tracked(c)'
<1> USE DEF flagVars, callVars, flowVars, netVars, Goto, NotifyAll
<1>0. pc \in [Callers -> CallLabels] /\ DOMAIN calls = Callers /\ DOMAIN ok = Callers
      /\ DOMAIN got = Callers /\ c \in Callers /\ sectionID \in {0, 1}
  BY DEF TypeOK, CallTypeOK, DataTypeOK
<1>1. CASE Call(c)
  BY <1>0, <1>1 DEF Call, Tracked, Phase, Exclusive, Contents, Holding, MyCall
<1>2. CASE WaitReady(c) \/ CheckStop(c) \/ NotifyCall(c) \/ WaitReply(c)
  BY <1>0, <1>2 DEF WaitReady, CheckStop, NotifyCall, WaitReply, CvWait, Tracked, Phase,
                    Exclusive, Contents, Holding, MyCall
<1>3. CASE Push(c)
  <2>1. canCall /\ ~sendIsReady
    BY <1>0, <1>3 DEF Push, Tracked, Phase, Exclusive
  <2>2. /\ MyCall(c)' = MyCall(c)
        /\ UNCHANGED <<replIsReady, rets, ok, got, flow, outgoing, sectionID, toServer, toClient>>
    BY <1>3 DEF Push, PushFails, MyCall
  <2>3. CASE /\ args' = MyCall(c) /\ ~canCall' /\ sendIsReady'
             /\ pc' = [pc EXCEPT ![c] = "notifyCall"]
    <3>1. pc'[c] = "notifyCall"
      BY <1>0, <2>3
    <3>2. Phase(c)'
      BY <2>1, <2>2, <2>3, <3>1 DEF Tracked, Phase
    <3>3. Exclusive'
      BY <2>1, <2>2, <2>3 DEF Tracked, Exclusive, Holding
    <3>4. Contents(c)'
      BY <2>1, <2>2, <2>3, <3>1 DEF Tracked, Contents, Holding
    <3> QED BY <3>2, <3>3, <3>4 DEF Tracked
  <2>4. CASE UNCHANGED flagVars /\ pc' = [pc EXCEPT ![c] = "idle"]
    <3>1. pc'[c] = "idle" /\ pc[c] = "push"
      BY <1>0, <1>3, <2>4 DEF Push
    <3>2. Phase(c)'
      BY <2>1, <2>2, <2>4, <3>1 DEF Tracked, Phase
    <3>3. Exclusive'
      BY <2>1, <2>2, <2>4 DEF Tracked, Exclusive, Holding
    <3>4. Contents(c)'
      BY <2>1, <2>2, <2>4, <3>1 DEF Tracked, Contents, Holding
    <3> QED BY <3>2, <3>3, <3>4 DEF Tracked
  <2> QED BY <1>3, <2>3, <2>4 DEF Push, PushFails
<1>4. CASE Take(c)
  BY <1>0, <1>4 DEF Take, Tracked, Phase, Exclusive, Contents, Holding, MyCall
<1>5. CASE NotifyReturn(c)
  BY <1>0, <1>5 DEF NotifyReturn, Tracked, Phase, Exclusive, Contents, Holding, MyCall
<1> QED BY <1>1, <1>2, <1>3, <1>4, <1>5 DEF CallStep

(* Steps of the flow thread. *)
LEMMA FlowTracked ==
  ASSUME NEW c, Callers = {c}, TypeOK, ~stopWait, Tracked(c), Flow
  PROVE  Tracked(c)'
<1> USE DEF flagVars, callVars, flowVars, netVars, NotifyAll
<1>0. sectionID \in {0, 1}
  BY DEF TypeOK, DataTypeOK
<1>1. CASE Write \/ WaitSend \/ FlowCheckStop \/ NotifySend \/ NextRound \/ Read \/ ReadFails
           \/ NotifyReply \/ Close
  BY <1>1 DEF Write, WaitSend, CvWait, FlowCheckStop, NotifySend, NextRound, Read, ReadFails,
              NotifyReply, Close, StopFlow, Tracked, Phase, Exclusive, Contents, Holding, MyCall
<1>2. CASE Fill
  BY <1>2 DEF Fill, StopFlow, Tracked, Phase, Exclusive, Contents, Holding, MyCall
<1>3. CASE Send
  <2>1. toServer = <<>> /\ outgoing = MyCall(c)
    BY <1>3 DEF Send, Tracked, Exclusive, Contents, Holding
  <2>2. Append(toServer, outgoing) = <<MyCall(c)>>
    BY <2>1
  <2> QED BY <1>3, <2>1, <2>2 DEF Send, StopFlow, Tracked, Phase, Exclusive, Contents, Holding, MyCall
<1>4. CASE ParseHeader
  <2>1. toClient = <<[kind |-> "header", call |-> MyCall(c)], [kind |-> "body", call |-> MyCall(c)]>>
    BY <1>4 DEF ParseHeader, Tracked, Contents, Answer, TypeOK, DataTypeOK
  <2>2. Tail(toClient) = <<[kind |-> "body", call |-> MyCall(c)]>>
    BY <2>1
  <2> QED BY <1>4, <2>1, <2>2 DEF ParseHeader, Tracked, Phase, Exclusive, Contents, Holding, MyCall
<1>5. CASE ParseReply
  <2>1. \/ toClient = <<[kind |-> "body", call |-> MyCall(c)]>>
        \/ toClient = <<[kind |-> "empty", call |-> MyCall(c)]>>
    BY <1>0, <1>5 DEF ParseReply, Tracked, Contents, Answer, TypeOK, DataTypeOK
  <2>2. Tail(toClient) = <<>> /\ Head(toClient).call = MyCall(c) /\ toClient # <<>>
    <3>1. CASE toClient = <<[kind |-> "body", call |-> MyCall(c)]>>
      BY <3>1
    <3>2. CASE toClient = <<[kind |-> "empty", call |-> MyCall(c)]>>
      BY <3>2
    <3> QED BY <2>1, <3>1, <3>2
  <2> QED BY <1>5, <2>2 DEF ParseReply, Tracked, Phase, Exclusive, Contents, Holding, MyCall
<1> QED BY <1>1, <1>2, <1>3, <1>4, <1>5 DEF Flow

(* Steps of the server, of waiters and of the thread that stops. *)
LEMMA OthersTracked ==
  ASSUME NEW c, Callers = {c}, TypeOK, ~stopWait, ~stopWait', Tracked(c),
         \/ \E w \in Waiters : StartWait(w) \/ WaitRPCComplete(w)
         \/ StopDataFlow \/ StopStep \/ ServerReply \/ ServerClose \/ UNCHANGED vars
  PROVE  Tracked(c)'
<1> USE DEF flagVars, callVars, flowVars, netVars, NotifyAll
<1>1. CASE ServerReply
  <2>1. toServer = <<MyCall(c)>> /\ toClient = <<>> /\ sectionID = 0
    BY <1>1 DEF ServerReply, Tracked, Exclusive, Contents, TypeOK, DataTypeOK
  <2>2. PICK reply \in Answer(Head(toServer)) : toClient' = toClient \o reply
    BY <1>1 DEF ServerReply
  <2>3. reply \in Answer(MyCall(c)) /\ Tail(toServer) = <<>>
    BY <2>1, <2>2
  <2>4. toClient' = reply
    BY <2>1, <2>2, <2>3 DEF Answer
  <2>5. UNCHANGED <<flagVars, args, rets, callVars, flowVars>> /\ toServer' = <<>>
    BY <1>1, <2>3 DEF ServerReply
  <2> QED BY <2>1, <2>3, <2>4, <2>5 DEF Tracked, Phase, Exclusive, Contents, Holding, MyCall
<1>2. CASE \/ \E w \in Waiters : StartWait(w) \/ WaitRPCComplete(w)
           \/ StopDataFlow \/ StopStep \/ ServerClose \/ UNCHANGED vars
  <2>1. UNCHANGED <<flagVars, args, rets, callVars, flow, outgoing, buffered, sectionID,
                    toServer, toClient>>
    BY <1>2 DEF StartWait, WaitRPCComplete, CvWait, StopDataFlow, StopStep, SetStopWait, NotifyStop,
                ServerClose, vars
  <2> QED BY <2>1 DEF Tracked, Phase, Exclusive, Contents, Holding, MyCall
<1> QED BY <1>1, <1>2

(* The single call under way is tracked until a stop is requested. *)
THEOREM CallIsTracked ==
  ASSUME OneCaller
  PROVE  Spec => []CallTracked
<1>1. PICK c : Callers = {c}
  BY DEF OneCaller
<1>2. CallTracked <=> (~stopWait => Tracked(c))
  BY <1>1 DEF CallTracked, Tracked
<1>3. CallTracked' <=> (~stopWait' => Tracked(c)')
  BY <1>1 DEF CallTracked, Tracked
<1>4. Init => CallTracked
  BY <1>1, <1>2 DEF Init, Tracked, Phase, Exclusive, Contents, Holding
<1>5. TypeOK /\ CallTracked /\ [Next]_vars => CallTracked'
  <2> SUFFICES ASSUME TypeOK, CallTracked, [Next]_vars, ~stopWait' PROVE Tracked(c)'
    BY <1>3
  <2>1. ~stopWait
    BY DEF Next, Call, CallStep, WaitReady, CheckStop, Push, NotifyCall, WaitReply, Take,
           NotifyReturn, CvWait, StartWait, WaitRPCComplete, Flow, Write, WaitSend, FlowCheckStop,
           Fill, NotifySend, Send, NextRound, Read, ReadFails, ParseHeader, ParseReply, NotifyReply,
           Close, StopDataFlow, StopStep, SetStopWait, NotifyStop, ServerReply, ServerClose, vars
  <2>2. Tracked(c)
    BY <1>2, <2>1
  <2> QED BY <1>1, <2>1, <2>2, CallerTracked, FlowTracked, OthersTracked DEF Next
<1> QED BY <1>4, <1>5, TypeCorrect, PTL DEF Spec

(* callSync returns the reply to its own call, for any number of calls and *)
(* whatever fails, until a stop is requested.                              *)
THEOREM OwnReplyCorrect ==
  ASSUME OneCaller
  PROVE  Spec => []OwnReply
<1>1. CallTracked => OwnReply
  BY DEF CallTracked, Contents, OwnReply
<1> QED BY <1>1, CallIsTracked, PTL

-----------------------------------------------------------------------------
(* One caller: what has been sent.  Tracked says nothing any more once a   *)
(* stop is requested, but a request that is under way then may still be    *)
(* sent, so the freshness of what may be sent next is kept apart (Fresh).  *)
Requests == executed \o toServer

(* The call of c is not ready to be sent yet. *)
NotYet(c) == pc[c] \in {"waitReady", "checkStop", "push"}

(* The number of the last call that may have been sent. *)
Last(c) == IF NotYet(c) THEN calls[c] - 1 ELSE calls[c]

IsCallOf(c, call) == \E k \in 1 .. Last(c) : call = <<c, k>>

NumberedUpTo(c) == \A i \in 1 .. Len(Requests) : IsCallOf(c, Requests[i])

NoRepeat == \A i, j \in 1 .. Len(Requests) : i # j => Requests[i] # Requests[j]

New(c, call) ==
  /\ IsCallOf(c, call)
  /\ \A i \in 1 .. Len(Requests) : Requests[i] # call

Fresh(c) ==
  /\ flow = "fill" => sendIsReady
  /\ pc[c] = "push" => ~sendIsReady /\ ~Holding
  /\ sendIsReady => ~Holding /\ New(c, args)
  /\ Holding => New(c, outgoing)
  /\ NumberedUpTo(c) /\ NoRepeat

LEMMA RequestsMove ==
  ASSUME NEW S, NEW s \in Seq(S), NEW t \in Seq(S), t # <<>>
  PROVE  Append(s, Head(t)) \o Tail(t) = s \o t
<1> DEFINE u == Append(s, Head(t)) \o Tail(t)
<1>1. Head(t) \in S /\ Tail(t) \in Seq(S) /\ Len(Tail(t)) = Len(t) - 1 /\ Len(t) \in Nat
  BY HeadTailType
<1>2. u \in Seq(S) /\ s \o t \in Seq(S) /\ Len(u) = Len(s \o t)
  BY <1>1
<1>3. \A i \in 1 .. Len(u) : u[i] = (s \o t)[i]
  BY <1>1
<1> QED BY <1>2, <1>3, SeqEqual

LEMMA RequestsGrow ==
  ASSUME NEW S, NEW s \in Seq(S), NEW t \in Seq(S), NEW x \in S
  PROVE  s \o Append(t, x) = Append(s \o t, x)
<1> DEFINE u == s \o Append(t, x)
           v == Append(s \o t, x)
<1>1. u \in Seq(S) /\ v \in Seq(S) /\ Len(u) = Len(v)
  OBVIOUS
<1>2. \A i \in 1 .. Len(u) : u[i] = v[i]
  OBVIOUS
<1> QED BY <1>1, <1>2, SeqEqual

SendSucceeds == Send /\ toServer' = Append(toServer, outgoing)

(* What was sent changes only when the flow thread writes to the server. *)
LEMMA RequestsStep ==
  ASSUME TypeOK, [Next]_vars
  PROVE  /\ Requests \in Seq(Calls \cup {NoCall})
         /\ \/ Requests' = Requests
            \/ SendSucceeds /\ Requests' = Append(Requests, outgoing)
<1> USE DEF flagVars, callVars, flowVars, netVars, NotifyAll
<1>1. /\ executed \in Seq(Calls \cup {NoCall}) /\ toServer \in Seq(Calls \cup {NoCall})
      /\ outgoing \in Calls \cup {NoCall} /\ Requests \in Seq(Calls \cup {NoCall})
  BY DEF TypeOK, NetTypeOK, DataTypeOK, Requests
<1>2. CASE Send
  <2>1. CASE toServer' = Append(toServer, outgoing)
    BY <1>1, <1>2, <2>1, RequestsGrow DEF Send, SendSucceeds, Requests
  <2>2. CASE UNCHANGED toServer
    BY <1>1, <1>2, <2>2 DEF Send, Requests
  <2> QED BY <1>2, <2>1, <2>2 DEF Send
<1>3. CASE ServerReply
  BY <1>1, <1>3, RequestsMove DEF ServerReply, Requests
<1>4. CASE \/ \E c \in Callers : Call(c) \/ CallStep(c)
           \/ \E w \in Waiters : StartWait(w) \/ WaitRPCComplete(w)
           \/ Flow /\ ~Send
           \/ StopDataFlow \/ StopStep \/ ServerClose \/ UNCHANGED vars
  <2>1. UNCHANGED <<executed, toServer>>
    BY <1>4 DEF Call, CallStep, WaitReady, CheckStop, Push, PushFails, NotifyCall, WaitReply, Take,
                NotifyReturn, CvWait, StartWait, WaitRPCComplete, Flow, Write, WaitSend,
                FlowCheckStop, Fill, NotifySend, NextRound, Read, ReadFails, ParseHeader,
                ParseReply, NotifyReply, Close, StopDataFlow, StopStep, SetStopWait, NotifyStop,
                ServerClose, vars
  <2> QED BY <1>1, <2>1 DEF Requests
<1> QED BY <1>2, <1>3, <1>4 DEF Next

(* A call that has been sent stays so. *)
LEMMA LastGrows ==
  ASSUME NEW c, Callers = {c}, TypeOK, [Next]_vars
  PROVE  Last(c) \in Int /\ Last(c)' \in Int /\ Last(c) <= Last(c)'
<1> USE DEF flagVars, callVars, flowVars, netVars, Goto, NotifyAll
<1>0. pc \in [Callers -> CallLabels] /\ calls[c] \in Int /\ DOMAIN calls = Callers /\ c \in Callers
  BY RCAssumption DEF TypeOK, CallTypeOK
<1>1. CASE Call(c)
  BY <1>0, <1>1 DEF Call, Last, NotYet
<1>2. CASE CallStep(c)
  <2>1. calls' = calls /\ (NotYet(c)' => NotYet(c))
    BY <1>0, <1>2 DEF CallStep, WaitReady, CheckStop, Push, PushFails, NotifyCall, WaitReply, Take,
                      NotifyReturn, CvWait, NotYet
  <2> QED BY <1>0, <2>1 DEF Last
<1>3. CASE ~Call(c) /\ ~CallStep(c)
  <2>1. UNCHANGED <<pc, calls>>
    BY <1>0, <1>3 DEF Next, StartWait, WaitRPCComplete, CvWait, Flow, Write, WaitSend,
                FlowCheckStop, Fill, NotifySend, Send, NextRound, Read, ReadFails, ParseHeader,
                ParseReply, NotifyReply, Close, StopDataFlow, StopStep, SetStopWait, NotifyStop,
                ServerReply, ServerClose, vars
  <2> QED BY <1>0, <2>1 DEF Last, NotYet
<1> QED BY <1>1, <1>2, <1>3

LEMMA NewStays ==
  ASSUME NEW c, Callers = {c}, TypeOK, [Next]_vars, Requests' = Requests
  PROVE  /\ \A call : IsCallOf(c, call) => \E k \in 1 .. Last(c)' : call = <<c, k>>
         /\ \A call : New(c, call) => /\ \E k \in 1 .. Last(c)' : call = <<c, k>>
                                      /\ \A i \in 1 .. Len(Requests') : Requests'[i] # call
         /\ NumberedUpTo(c) /\ NoRepeat => NumberedUpTo(c)' /\ NoRepeat'
<1>1. Last(c) \in Int /\ Last(c)' \in Int /\ Last(c) <= Last(c)'
  BY LastGrows
<1>2. 1 .. Last(c) \subseteq 1 .. Last(c)'
  BY <1>1
<1> QED BY <1>2 DEF New, IsCallOf, NumberedUpTo, NoRepeat

(* The request that the flow thread writes was not written before. *)
LEMMA SendFresh ==
  ASSUME NEW c, Callers = {c}, TypeOK, Fresh(c), [Next]_vars, SendSucceeds,
         Requests' = Append(Requests, outgoing), Requests \in Seq(Calls \cup {NoCall})
  PROVE  Fresh(c)'
<1>0. outgoing \in Calls \cup {NoCall}
  BY DEF TypeOK, DataTypeOK
<1>1. /\ flow = "send" /\ flow' = "next" /\ UNCHANGED <<pc, calls, sendIsReady>>
  BY DEF SendSucceeds, Send, callVars, flagVars
<1>2. Last(c)' = Last(c)
  BY <1>1 DEF Last, NotYet
<1>3. ~sendIsReady /\ New(c, outgoing) /\ NumberedUpTo(c) /\ NoRepeat
  BY <1>1 DEF Fresh, Holding
<1>4. /\ Len(Requests') = Len(Requests) + 1 /\ Len(Requests) \in Nat
      /\ \A i \in 1 .. Len(Requests) : Requests'[i] = Requests[i]
      /\ Requests'[Len(Requests) + 1] = outgoing
  BY <1>0
<1>5. NumberedUpTo(c)'
  <2>1. ASSUME NEW i \in 1 .. Len(Requests') PROVE \E k \in 1 .. Last(c) : Requests'[i] = <<c, k>>
    <3>1. CASE i \in 1 .. Len(Requests)
      BY <1>3, <1>4, <3>1 DEF NumberedUpTo, IsCallOf
    <3>2. CASE i = Len(Requests) + 1
      BY <1>3, <1>4, <3>2 DEF New, IsCallOf
    <3> QED BY <1>4, <3>1, <3>2
  <2> QED BY <1>2, <2>1 DEF NumberedUpTo, IsCallOf
<1>6. NoRepeat'
  BY <1>3, <1>4 DEF NoRepeat, New
<1> QED BY <1>1, <1>3, <1>5, <1>6 DEF Fresh, Holding

LEMMA FreshStep ==
  ASSUME NEW c, Callers = {c}, TypeOK, CallTracked, Fresh(c), [Next]_vars
  PROVE  Fresh(c)'
<1> USE DEF flagVars, callVars, flowVars, netVars, Goto, NotifyAll
<1>0. /\ pc \in [Callers -> CallLabels] /\ calls \in [Callers -> 0 .. MaxCalls] /\ c \in Callers
      /\ pc[c] # "idle" => calls[c] > 0
      /\ ~stopWait => Phase(c) /\ Exclusive
  BY DEF TypeOK, CallTypeOK, CallTracked
<1>00. \/ Requests' = Requests
       \/ SendSucceeds /\ Requests' = Append(Requests, outgoing)
             /\ Requests \in Seq(Calls \cup {NoCall})
  BY RequestsStep
<1> SUFFICES ASSUME Requests' = Requests PROVE Fresh(c)'
  BY <1>00, SendFresh
<1>1. NumberedUpTo(c)' /\ NoRepeat'
  BY NewStays DEF Fresh
<1>2. CASE Push(c) /\ ~UNCHANGED sendIsReady
  <2>1. /\ args' = <<c, calls[c]>> /\ sendIsReady' /\ pc[c] = "push"
        /\ pc' = [pc EXCEPT ![c] = "notifyCall"] /\ UNCHANGED <<calls, flow, outgoing>>
    BY <1>0, <1>2 DEF Push, PushFails, MyCall
  <2>2. ~Holding /\ ~Holding' /\ pc[c] = "push" /\ pc'[c] = "notifyCall"
    BY <1>0, <2>1 DEF Fresh, Holding
  <2>3. calls[c] \in Nat /\ calls[c] > 0
    BY <1>0, <2>2, RCAssumption
  <2>4. Last(c) = calls[c] - 1 /\ Last(c)' = calls[c]
    BY <2>1, <2>2 DEF Last, NotYet
  <2>5. \E k \in 1 .. Last(c)' : args' = <<c, k>>
    BY <2>1, <2>3, <2>4
  <2>6. \A i \in 1 .. Len(Requests) : Requests[i] # <<c, calls[c]>>
    <3> TAKE i \in 1 .. Len(Requests)
    <3>1. PICK k \in 1 .. calls[c] - 1 : Requests[i] = <<c, k>>
      BY <2>4 DEF Fresh, NumberedUpTo, IsCallOf
    <3> QED BY <2>3, <3>1
  <2>7. New(c, args)'
    BY <2>1, <2>5, <2>6 DEF New, IsCallOf
  <2> QED BY <1>1, <2>1, <2>2, <2>7 DEF Fresh
<1>3. CASE Push(c) /\ UNCHANGED sendIsReady
  <2>1. /\ ~sendIsReady /\ ~Holding /\ UNCHANGED <<flow, outgoing>>
        /\ pc'[c] # "push"
    BY <1>0, <1>3 DEF Push, PushFails, Fresh
  <2> QED BY <1>1, <1>3, <2>1 DEF Fresh, Holding
<1>4. CASE Fill
  <2>1. sendIsReady /\ New(c, args) /\ pc[c] # "push"
    BY <1>4 DEF Fill, Fresh
  <2>2. CASE outgoing' = args /\ ~sendIsReady' /\ flow' = "notifySend"
    <3>1. pc' = pc
      BY <1>4 DEF Fill
    <3>2. New(c, outgoing)'
      BY <2>1, <2>2, NewStays DEF New, IsCallOf
    <3> QED BY <1>1, <2>1, <2>2, <3>1, <3>2 DEF Fresh, Holding
  <2>3. CASE UNCHANGED <<outgoing, sendIsReady>> /\ flow' = "close"
    <3>1. UNCHANGED <<pc, args>>
      BY <1>4 DEF Fill
    <3>2. New(c, args)'
      BY <2>1, <3>1, NewStays DEF New, IsCallOf
    <3> QED BY <1>1, <2>1, <2>3, <3>1, <3>2 DEF Fresh, Holding
  <2> QED BY <1>4, <2>2, <2>3 DEF Fill, StopFlow
<1>5. CASE ~Push(c) /\ ~Fill
  <2>1. UNCHANGED <<args, sendIsReady>> /\ (Holding' => Holding /\ UNCHANGED outgoing)
    BY <1>5 DEF Next, Call, CallStep, WaitReady, CheckStop, NotifyCall, WaitReply, Take,
                NotifyReturn, CvWait, StartWait, WaitRPCComplete, Flow, Write, WaitSend,
                FlowCheckStop, StopFlow, NotifySend, Send, NextRound, Read, ReadFails, ParseHeader,
                ParseReply, NotifyReply, Close, StopDataFlow, StopStep, SetStopWait, NotifyStop,
                ServerReply, ServerClose, vars, Holding
  <2>2. flow' = "fill" => flow = "fill" \/ (flow = "checkStop" /\ ~stopWait)
    BY <1>5 DEF Next, Call, CallStep, WaitReady, CheckStop, NotifyCall, WaitReply, Take,
                NotifyReturn, CvWait, StartWait, WaitRPCComplete, Flow, Write, WaitSend,
                FlowCheckStop, StopFlow, NotifySend, Send, NextRound, Read, ReadFails, ParseHeader,
                ParseReply, NotifyReply, Close, StopDataFlow, StopStep, SetStopWait, NotifyStop,
                ServerReply, ServerClose, vars
  <2>3. pc'[c] = "push" => pc[c] = "push" \/ (pc[c] = "checkStop" /\ ~stopWait)
    BY <1>0, <1>5 DEF Next, Call, CallStep, WaitReady, CheckStop, NotifyCall, WaitReply, Take,
                NotifyReturn, CvWait, StartWait, WaitRPCComplete, Flow, Write, WaitSend,
                FlowCheckStop, NotifySend, Send, NextRound, Read, ReadFails, ParseHeader,
                ParseReply, NotifyReply, Close, StopDataFlow, StopStep, SetStopWait, NotifyStop,
                ServerReply, ServerClose, vars
  <2>4. flow' = "fill" => sendIsReady
    BY <1>0, <2>2 DEF Fresh, Phase
  <2>5. pc'[c] = "push" => ~sendIsReady /\ ~Holding
    BY <1>0, <2>3 DEF Fresh, Phase, Exclusive
  <2>6. sendIsReady => ~Holding /\ New(c, args)'
    BY <2>1, NewStays DEF Fresh, New, IsCallOf
  <2>7. Holding' => New(c, outgoing)'
    BY <2>1, NewStays DEF Fresh, New, IsCallOf
  <2> QED BY <1>1, <2>1, <2>4, <2>5, <2>6, <2>7 DEF Fresh
<1> QED BY <1>2, <1>3, <1>4, <1>5

(* No call is sent twice, hence none is executed twice, and none that was  *)
(* not made: also when a stop, a closed connection or a failure to encode  *)
(* or to decode cuts a call short (writeMessage clears sendIsReady as it   *)
(* takes the request, callSync sets it once per call).                     *)
THEOREM AtMostOnceCorrect ==
  ASSUME OneCaller
  PROVE  Spec => []AtMostOnce
<1>1. PICK c : Callers = {c}
  BY DEF OneCaller
<1>2. Init => Fresh(c)
  BY <1>1 DEF Init, Fresh, Holding, NumberedUpTo, NoRepeat, Requests
<1>3. TypeOK /\ CallTracked /\ Fresh(c) /\ [Next]_vars => Fresh(c)'
  BY <1>1, FreshStep
<1>4. TypeOK /\ Fresh(c) => AtMostOnce
  <2> SUFFICES ASSUME TypeOK, Fresh(c) PROVE AtMostOnce
    OBVIOUS
  <2>1. calls[c] \in Nat /\ Last(c) \in Int /\ Last(c) <= calls[c]
    BY <1>1, RCAssumption DEF TypeOK, CallTypeOK, Last
  <2>2. \A i \in 1 .. Len(Requests) : \E k \in 1 .. calls[c] : Requests[i] = <<c, k>>
    BY <2>1 DEF Fresh, NumberedUpTo, IsCallOf
  <2>3. NoRepeat
    BY DEF Fresh
  <2> QED BY <1>1, <2>2, <2>3 DEF AtMostOnce, NoRepeat, Requests
<1> QED BY <1>2, <1>3, <1>4, TypeCorrect, CallIsTracked, PTL DEF Spec

=============================================================================
