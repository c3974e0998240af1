-------------------------- MODULE GoRpcClientProofs --------------------------
(***************************************************************************)
(* Safety of the Go RPC client for every number of calls and every         *)
(* combination of faults.  With one caller whose callback hands the reply  *)
(* over to it, the call under way is in one place at a time, from command  *)
(* to the callback (Tracked); so the reply is the one to its own call,     *)
(* nothing is sent twice before a stop, and what Call reports as sent is   *)
(* sent.  With a callback that only returns this is lost: the run that     *)
(* shows a second call overwriting command has AwaitReply = FALSE.         *)
(***************************************************************************)
EXTENDS GoRpcClient, SequenceTheorems, TLAPS

(* Only one goroutine uses Call. *)
OneCaller == \E c : Callers = {c}

LEMMA AnswerType ==
  ASSUME NEW call \in Calls, NEW reply \in Answer(call)
  PROVE  reply \in Seq(Section)
<1>1. /\ [kind |-> "empty", call |-> call] \in Section
      /\ [kind |-> "header", call |-> call] \in Section
      /\ [kind |-> "body", call |-> call] \in Section
  BY DEF Section
<1>2. CASE reply = <<[kind |-> "empty", call |-> call]>>
  BY <1>1, <1>2
<1>3. CASE reply = <<[kind |-> "header", call |-> call], [kind |-> "body", call |-> call]>>
  BY <1>1, <1>3
<1> QED BY <1>2, <1>3 DEF Answer

LEMMA HeadTailType ==
  ASSUME NEW S, NEW s \in Seq(S), s # <<>>
  PROVE  Head(s) \in S /\ Tail(s) \in Seq(S) /\ Len(Tail(s)) = Len(s) - 1
BY HeadTailProperties

(* A request that moves from toServer to executed does not change the      *)
(* sequence of all requests; one that is sent is added at its end.         *)
LEMMA RequestsMove ==
  ASSUME NEW S, NEW s \in Seq(S), NEW t \in Seq(S), t # <<>>
  PROVE  Append(s, Head(t)) \o Tail(t) = s \o t
<1> DEFINE u == Append(s, Head(t)) \o Tail(t)
<1>1. Head(t) \in S /\ Tail(t) \in Seq(S) /\ Len(Tail(t)) = Len(t) - 1 /\ Len(t) \in Nat
  BY HeadTailType
<1>2. u \in Seq(S) /\ s \o t \in Seq(S) /\ Len(u) = Len(s \o t)
  BY <1>1
<1>3. \A i \in 1 .. Len(u) : u[i] = (s \o t)[i]
  BY <1>1
<1> QED BY <1>2, <1>3, SeqEqual

LEMMA RequestsGrow ==
  ASSUME NEW S, NEW s \in Seq(S), NEW t \in Seq(S), NEW x \in S
  PROVE  s \o Append(t, x) = Append(s \o t, x)
<1> DEFINE u == s \o Append(t, x)
           v == Append(s \o t, x)
<1>1. u \in Seq(S) /\ v \in Seq(S) /\ Len(u) = Len(v)
  OBVIOUS
<1>2. \A i \in 1 .. Len(u) : u[i] = v[i]
  OBVIOUS
<1> QED BY <1>1, <1>2, SeqEqual

-----------------------------------------------------------------------------
(* Type correctness, part by part, for any number of callers. *)
LEMMA FlagsType ==
  ASSUME TypeOK, [Next]_vars
  PROVE  FlagsTypeOK'
<1> USE DEF clientVars, chanVars, callVars, flowVars, netVars
<1>0. FlagsTypeOK
  BY DEF TypeOK
<1>1. ASSUME NEW c \in Callers, Call(c) \/ CallStep(c) PROVE FlagsTypeOK'
  BY <1>0, <1>1 DEF Call, CallStep, Encode, EncodeFails, Ready, ReadyPanics, FlagsTypeOK
<1>2. CASE Flow
  BY <1>0, <1>2 DEF Flow, SendMessage, ReceiveClosed, Fill, Write, GetMessageLen, LoopHead, Read,
                    ReadFails, ParseHeader, ParseReply, Callback, CallbackCalls, Close, StopFlow,
                    NextSection, Unlock, FlagsTypeOK
<1>3. CASE StopDataFlow \/ Stop \/ ServerReply \/ ServerClose \/ UNCHANGED vars
  BY <1>0, <1>3 DEF StopDataFlow, Stop, ServerReply, ServerClose, vars, FlagsTypeOK
<1> QED BY <1>1, <1>2, <1>3 DEF Next

LEMMA CallType ==
  ASSUME TypeOK, [Next]_vars
  PROVE  CallTypeOK'
<1> USE DEF clientVars, chanVars, callVars, flowVars, netVars
<1>0. CallTypeOK /\ FlowTypeOK /\ NetTypeOK
  BY DEF TypeOK
<1>1. ASSUME NEW c \in Callers, Call(c) PROVE CallTypeOK'
  <2>1. calls' \in [Callers -> 0 .. MaxCalls]
    BY <1>0, <1>1, GRCAssumption DEF Call, CallTypeOK
  <2>2. \A d \in Callers : pc'[d] # "idle" => calls'[d] > 0
    BY <1>0, <1>1, GRCAssumption DEF Call, CallTypeOK
  <2> QED BY <1>0, <1>1, <2>1, <2>2 DEF Call, CallTypeOK
<1>2. ASSUME NEW c \in Callers, CallStep(c) PROVE CallTypeOK'
  <2>1. pc[c] # "idle" => MyCall(c) \in Calls
    BY <1>0, GRCAssumption DEF CallTypeOK, MyCall, Calls
  <2>2. CASE Encode(c)
    BY <1>0, <2>1, <2>2 DEF Encode, CallerAt, CallTypeOK
  <2>3. CASE Ready(c)
    BY <1>0, <2>1, <2>3 DEF Ready, CallerAt, CallTypeOK
  <2>4. CASE EncodeFails(c) \/ ReadyPanics(c)
    BY <1>0, <2>4 DEF EncodeFails, ReadyPanics, CallerAt, CallTypeOK
  <2> QED BY <1>2, <2>2, <2>3, <2>4 DEF CallStep
<1>3. CASE Callback
  <2>1. toClient # <<>>
    BY <1>0, <1>3 DEF Callback, FlowAt, FlowTypeOK
  <2>2. Head(toClient) \in Section
    BY <1>0, <2>1, HeadTailType DEF NetTypeOK
  <2>3. Head(toClient).call \in Calls
    BY <2>2 DEF Section
  <2>4. /\ got' = [got EXCEPT ![lastRemoteProc] = Head(toClient).call]
        /\ pc' = pc \/ pc' = [pc EXCEPT ![lastRemoteProc] = "idle"]
        /\ UNCHANGED <<calls, command, returned>>
    BY <1>3 DEF Callback
  <2> QED BY <1>0, <2>3, <2>4 DEF CallTypeOK
<1>4. CASE \/ Flow /\ ~Callback
           \/ StopDataFlow \/ Stop \/ ServerReply \/ ServerClose \/ UNCHANGED vars
  <2>1. UNCHANGED <<callVars, command>>
    BY <1>4 DEF Flow, SendMessage, ReceiveClosed, Fill, Write, GetMessageLen, LoopHead, Read,
                ReadFails, ParseHeader, ParseReply, CallbackCalls, Close, StopDataFlow, Stop,
                ServerReply, ServerClose, vars
  <2> QED BY <1>0, <2>1 DEF CallTypeOK
<1> QED BY <1>1, <1>2, <1>3, <1>4 DEF Next

LEMMA FlowType ==
  ASSUME TypeOK, [Next]_vars
  PROVE  FlowTypeOK'
<1> USE DEF clientVars, chanVars, callVars, flowVars, netVars, FlowLabels, FlowAt
<1>0. FlowTypeOK /\ NetTypeOK /\ CallTypeOK /\ Len(toClient) \in Nat
  BY DEF TypeOK, NetTypeOK
<1>1. ASSUME NEW c \in Callers, Call(c) \/ CallStep(c) PROVE FlowTypeOK'
  BY <1>0, <1>1 DEF Call, CallStep, Encode, EncodeFails, Ready, MeetsFlow, ReadyPanics, FlowTypeOK
<1>2. CASE SendMessage \/ ReceiveClosed \/ GetMessageLen \/ LoopHead \/ Read \/ ReadFails
           \/ CallbackCalls \/ Close
  BY <1>0, <1>2 DEF SendMessage, ReceiveClosed, GetMessageLen, LoopHead, Read, ReadFails,
                    CallbackCalls, Close, FlowTypeOK
<1>3. CASE Fill
  BY <1>0, <1>3 DEF Fill, StopFlow, FlowTypeOK, CallTypeOK
<1>4. CASE Write
  BY <1>0, <1>4 DEF Write, StopFlow, FlowTypeOK
<1>5. CASE ParseHeader \/ Callback
  <2>1. toClient # <<>> /\ buffered \in 1 .. Len(toClient)
    BY <1>0, <1>5 DEF ParseHeader, Callback, FlowTypeOK
  <2>2. Len(Tail(toClient)) = Len(toClient) - 1
    BY <1>0, <2>1, HeadTailType DEF NetTypeOK
  <2>3. /\ buffered' = buffered - 1 /\ toClient' = Tail(toClient)
        /\ sectionID' \in {0, 1} /\ flow' = "reply"
        /\ UNCHANGED <<first, outgoing>>
    BY <1>5 DEF ParseHeader, Callback, NextSection
  <2>4. buffered' \in 0 .. Len(toClient')
    BY <1>0, <2>1, <2>2, <2>3
  <2> QED BY <1>0, <2>3, <2>4 DEF FlowTypeOK
<1>6. CASE ParseReply
  BY <1>0, <1>6 DEF ParseReply, StopFlow, FlowTypeOK
<1>7. CASE ServerReply
  <2>1. PICK reply \in Answer(Head(toServer)) : toClient' = toClient \o reply
    BY <1>7 DEF ServerReply
  <2>2. reply \in Seq(Section)
    BY <1>0, <1>7, <2>1, HeadTailType, AnswerType DEF ServerReply, NetTypeOK
  <2>3. Len(toClient') = Len(toClient) + Len(reply) /\ Len(reply) \in Nat
    BY <1>0, <2>1, <2>2 DEF NetTypeOK
  <2>4. UNCHANGED flowVars
    BY <1>7 DEF ServerReply
  <2> QED BY <1>0, <2>3, <2>4 DEF FlowTypeOK
<1>8. CASE StopDataFlow \/ Stop \/ ServerClose \/ UNCHANGED vars
  BY <1>0, <1>8 DEF StopDataFlow, Stop, ServerClose, vars, FlowTypeOK
<1> QED BY <1>1, <1>2, <1>3, <1>4, <1>5, <1>6, <1>7, <1>8 DEF Next, Flow

LEMMA NetType ==
  ASSUME TypeOK, [Next]_vars
  PROVE  NetTypeOK'
<1> USE DEF clientVars, chanVars, callVars, flowVars, netVars
<1>0. NetTypeOK /\ FlowTypeOK
  BY DEF TypeOK
<1>1. CASE Write
  <2>0. toServer' = toServer \/ toServer' = Append(toServer, outgoing)
    BY <1>1 DEF Write
  <2>1. outgoing \in Calls
    BY <1>0, <1>1 DEF Write, FlowAt, FlowTypeOK
  <2>2. toServer' \in Seq(Calls)
    BY <1>0, <2>0, <2>1 DEF NetTypeOK
  <2> QED BY <1>0, <1>1, <2>2 DEF Write, NetTypeOK
<1>2. CASE ParseHeader \/ Callback
  <2>1. toClient # <<>> /\ toClient' = Tail(toClient)
    BY <1>0, <1>2 DEF ParseHeader, Callback, NextSection, FlowAt, FlowTypeOK
  <2>2. toClient' \in Seq(Section)
    BY <1>0, <2>1, HeadTailType DEF NetTypeOK
  <2> QED BY <1>0, <1>2, <2>2 DEF ParseHeader, Callback, NetTypeOK
<1>3. CASE ServerReply
  <2>1. PICK reply \in Answer(Head(toServer)) : toClient' = toClient \o reply
    BY <1>3 DEF ServerReply
  <2>2. Head(toServer) \in Calls /\ Tail(toServer) \in Seq(Calls)
    BY <1>0, <1>3, HeadTailType DEF ServerReply, NetTypeOK
  <2>3. reply \in Seq(Section)
    BY <2>1, <2>2, AnswerType
  <2>4. toClient' \in Seq(Section) /\ executed' \in Seq(Calls)
    BY <1>0, <1>3, <2>1, <2>2, <2>3 DEF ServerReply, NetTypeOK
  <2> QED BY <1>0, <1>3, <2>2, <2>4 DEF ServerReply, NetTypeOK
<1>4. CASE \/ \E c \in Callers : Call(c) \/ CallStep(c)
           \/ SendMessage \/ ReceiveClosed \/ Fill \/ GetMessageLen \/ LoopHead \/ Read
           \/ ReadFails \/ ParseReply \/ CallbackCalls \/ Close
           \/ StopDataFlow \/ Stop \/ UNCHANGED vars
  <2>1. UNCHANGED netVars
    BY <1>4 DEF Call, CallStep, Encode, EncodeFails, Ready, ReadyPanics, SendMessage,
                ReceiveClosed, Fill, GetMessageLen, LoopHead, Read, ReadFails, ParseReply,
                CallbackCalls, Close, StopDataFlow, Stop, vars
  <2> QED BY <1>0, <2>1 DEF NetTypeOK
<1>5. CASE ServerClose
  BY <1>0, <1>5 DEF ServerClose, NetTypeOK
<1> QED BY <1>1, <1>2, <1>3, <1>4, <1>5 DEF Next, Flow

(* Every variable of the Go client keeps its type, for any number of       *)
(* callers: no header or body is parsed that has not been read, and no     *)
(* empty request is written (SendMessage, ParseMessage).                   *)
THEOREM TypeCorrect == Spec => []TypeOK
<1>1. Init => TypeOK
  <2> SUFFICES ASSUME Init PROVE TypeOK
    OBVIOUS
  <2>1. FlagsTypeOK
    BY DEF Init, FlagsTypeOK
  <2>2. CallTypeOK
    BY GRCAssumption DEF Init, CallTypeOK
  <2>3. FlowTypeOK
    BY DEF Init, FlowTypeOK, FlowLabels
  <2>4. NetTypeOK
    BY DEF Init, NetTypeOK
  <2> QED BY <2>1, <2>2, <2>3, <2>4 DEF TypeOK
<1>2. TypeOK /\ [Next]_vars => TypeOK'
  BY FlagsType, CallType, FlowType, NetType DEF TypeOK
<1> QED BY <1>1, <1>2, PTL DEF Spec

-----------------------------------------------------------------------------
(* One caller: the call is tracked.                                        *)

Ended == flow \in {"close", "done"}

(* No trace of a call is left between command and the callback. *)
Unsent == outgoing = NoCall /\ toServer = <<>> /\ toClient = <<>> /\ sectionID = 0

Quiet == Ended \/ (flow \in {"start", "recv", "reply"} /\ Unsent)

(* The call is with the server, or its reply is under way. *)
Replying(call) ==
  \/ sectionID = 0 /\ toServer = <<call>> /\ toClient = <<>>
  \/ sectionID = 0 /\ toServer = <<>> /\ toClient = <<[kind |-> "empty", call |-> call]>>
  \/ /\ sectionID = 0 /\ toServer = <<>> /\ flow # "callback"
     /\ toClient = <<[kind |-> "header", call |-> call], [kind |-> "body", call |-> call]>>
  \/ sectionID = 1 /\ toServer = <<>> /\ toClient = <<[kind |-> "body", call |-> call]>>

UnderWay(call) ==
  \/ Ended \/ flow = "stuck"
  \/ flow = "fill" /\ command = call /\ Unsent
  \/ flow = "write" /\ outgoing = call /\ toServer = <<>> /\ toClient = <<>> /\ sectionID = 0
  \/ /\ flow \in {"getLen", "loop", "read", "parse", "callback"} \/ (flow = "reply" /\ sectionID = 1)
     /\ outgoing = NoCall
     /\ Replying(call)

(* The call that its caller waits for is under way, and before a stop      *)
(* nothing else is.                                                        *)
Tracked(c) ==
  /\ pc[c] = "await" => lastRemoteProc = c /\ UnderWay(MyCall(c))
  /\ pc[c] # "await" => closed \/ Quiet
  /\ pc[c] = "ready" => command = MyCall(c) /\ lastRemoteProc = c
  /\ got[c] # NoCall => got[c] = MyCall(c)

LEMMA CallerTracked ==
  ASSUME NEW c, Callers = {c}, AwaitReply, TypeOK, Tracked(c), Call(c) \/ CallStep(c)
  PROVE  Tracked(c)'
<1> USE DEF clientVars, chanVars, callVars, flowVars, netVars, CallerAt
<1>0. DOMAIN pc = Callers /\ DOMAIN calls = Callers /\ DOMAIN got = Callers /\ c \in Callers
  BY DEF TypeOK, CallTypeOK
<1>1. CASE Call(c)
  BY <1>0, <1>1 DEF Call, Tracked, Quiet, Unsent, Ended
<1>2. CASE Encode(c)
  BY <1>0, <1>2 DEF Encode, Tracked, Quiet, Unsent, Ended, MyCall
<1>3. CASE EncodeFails(c)
  BY <1>0, <1>3 DEF EncodeFails, Tracked, Quiet, Unsent, Ended, MyCall
<1>4. CASE Ready(c)
  <2>1. pc[c] = "ready" /\ Quiet /\ flow = "recv"
    BY <1>4 DEF Ready, MeetsFlow, Tracked
  <2>2. command = MyCall(c) /\ lastRemoteProc = c /\ Unsent
    BY <1>4, <2>1 DEF Ready, Tracked, Quiet, Ended
  <2> QED BY <1>0, <1>4, <2>1, <2>2 DEF Ready, MeetsFlow, Tracked, UnderWay, Unsent, MyCall
<1>5. CASE ReadyPanics(c)
  BY <1>0, <1>5 DEF ReadyPanics, Tracked, Quiet, Unsent, Ended, MyCall
<1> QED BY <1>1, <1>2, <1>3, <1>4, <1>5 DEF CallStep

LEMMA FlowTracked ==
  ASSUME NEW c, Callers = {c}, AwaitReply, TypeOK, Tracked(c), Flow
  PROVE  Tracked(c)'
<1> USE DEF clientVars, chanVars, callVars, flowVars, netVars, FlowAt
<1>0. /\ DOMAIN pc = Callers /\ DOMAIN got = Callers /\ c \in Callers
      /\ sectionID \in {0, 1}
      /\ MyCall(c)' = MyCall(c)
  BY DEF TypeOK, CallTypeOK, FlowTypeOK, Flow, SendMessage, ReceiveClosed, Fill, Write,
         GetMessageLen, LoopHead, Read, ReadFails, ParseHeader, ParseReply, Callback,
         CallbackCalls, Close, MyCall
<1>1. CASE SendMessage
  BY <1>0, <1>1 DEF SendMessage, Tracked, UnderWay, Replying, Quiet, Unsent, Ended
<1>2. CASE ReceiveClosed \/ GetMessageLen \/ LoopHead \/ Read \/ ReadFails \/ CallbackCalls
           \/ Close
  BY <1>0, <1>2 DEF ReceiveClosed, GetMessageLen, LoopHead, Read, ReadFails, CallbackCalls, Close,
                    Tracked, UnderWay, Replying, Quiet, Unsent, Ended
<1>3. CASE Fill
  BY <1>0, <1>3 DEF Fill, StopFlow, Tracked, UnderWay, Quiet, Unsent, Ended
<1>4. CASE Write
  <2>1. UNCHANGED <<pc, got, command, lastRemoteProc, closed, sectionID, toClient>>
        /\ outgoing' = NoCall
    BY <1>4 DEF Write
  <2>2. CASE Ended'
    BY <1>0, <1>4, <2>1, <2>2 DEF Tracked, UnderWay, Quiet, Ended
  <2>3. CASE toServer' = Append(toServer, outgoing) /\ flow' \in {"loop", "getLen"}
    <3>1. CASE pc[c] = "await"
      <4>1. outgoing = MyCall(c) /\ toServer = <<>> /\ toClient = <<>> /\ sectionID = 0
        BY <1>4, <3>1 DEF Write, Tracked, UnderWay, Ended
      <4>2. toServer' = <<MyCall(c)>>
        BY <2>3, <4>1
      <4> QED BY <1>0, <2>1, <2>3, <3>1, <4>1, <4>2 DEF Tracked, UnderWay, Replying
    <3>2. CASE pc[c] # "await"
      BY <1>0, <1>4, <2>1, <3>2 DEF Write, Tracked, Quiet, Ended
    <3> QED BY <3>1, <3>2
  <2> QED BY <1>4, <2>2, <2>3 DEF Write, StopFlow, Ended
<1>5. CASE ParseHeader
  <2>1. UNCHANGED <<pc, got, command, lastRemoteProc, closed, toServer, outgoing>>
        /\ sectionID = 0 /\ sectionID' = 1 /\ flow = "parse" /\ flow' = "reply"
        /\ toClient' = Tail(toClient) /\ toClient # <<>>
        /\ Head(toClient).kind = "header"
    BY <1>5 DEF ParseHeader, NextSection, AnnouncesBody, TypeOK, FlowTypeOK
  <2>2. CASE pc[c] = "await"
    <3>1. /\ toClient = <<[kind |-> "header", call |-> MyCall(c)],
                          [kind |-> "body", call |-> MyCall(c)]>>
          /\ toServer = <<>> /\ outgoing = NoCall
      BY <2>1, <2>2 DEF Tracked, UnderWay, Replying, Ended
    <3>2. toClient' = <<[kind |-> "body", call |-> MyCall(c)]>>
      BY <2>1, <3>1
    <3> QED BY <1>0, <2>1, <2>2, <3>1, <3>2 DEF Tracked, UnderWay, Replying
  <2>3. CASE pc[c] # "await"
    BY <1>0, <2>1, <2>3 DEF Tracked, Quiet, Ended
  <2> QED BY <2>2, <2>3
<1>6. CASE ParseReply
  <2>1. UNCHANGED <<pc, got, command, lastRemoteProc, closed, toServer, toClient, outgoing,
                    sectionID>>
        /\ flow = "parse" /\ (flow' = "callback" \/ Ended')
        /\ (sectionID = 1 \/ Head(toClient).kind # "header")
    BY <1>6 DEF ParseReply, StopFlow, AnnouncesBody, Ended
  <2>2. CASE pc[c] = "await"
    BY <1>0, <2>1, <2>2 DEF Tracked, UnderWay, Replying, Ended
  <2>3. CASE pc[c] # "await"
    BY <1>0, <2>1, <2>3 DEF Tracked, Quiet, Ended
  <2> QED BY <2>2, <2>3
<1>7. CASE Callback
  <2>1. /\ flow = "callback" /\ flow' = "reply" /\ sectionID' = 0 /\ toClient' = Tail(toClient)
        /\ got' = [got EXCEPT ![lastRemoteProc] = Head(toClient).call]
        /\ pc' = [pc EXCEPT ![lastRemoteProc] = "idle"]
        /\ pc[lastRemoteProc] = "await"
        /\ UNCHANGED <<command, lastRemoteProc, closed, toServer, outgoing>>
    BY <1>7 DEF Callback, NextSection
  <2>2. CASE pc[c] = "await"
    <3>0. lastRemoteProc = c /\ outgoing = NoCall /\ Replying(MyCall(c)) /\ toClient # <<>>
      BY <2>1, <2>2 DEF Tracked, UnderWay, Ended, TypeOK, FlowTypeOK
    <3>1. /\ lastRemoteProc = c /\ toServer = <<>> /\ outgoing = NoCall
          /\ \/ toClient = <<[kind |-> "empty", call |-> MyCall(c)]>>
             \/ toClient = <<[kind |-> "body", call |-> MyCall(c)]>>
      BY <2>1, <3>0 DEF Replying
    <3>2. Head(toClient).call = MyCall(c) /\ Tail(toClient) = <<>>
      <4>1. CASE toClient = <<[kind |-> "empty", call |-> MyCall(c)]>>
        BY <4>1
      <4>2. CASE toClient = <<[kind |-> "body", call |-> MyCall(c)]>>
        BY <4>2
      <4> QED BY <3>1, <4>1, <4>2
    <3>3. got'[c] = MyCall(c) /\ pc'[c] = "idle" /\ toClient' = <<>>
      BY <1>0, <2>1, <3>1, <3>2
    <3> QED BY <1>0, <2>1, <3>1, <3>3 DEF Tracked, Quiet, Unsent
  <2>3. CASE pc[c] # "await"
    <3>1. pc'[c] = pc[c] /\ got'[c] = got[c]
      BY <1>0, <2>1, <2>3
    <3> QED BY <1>0, <2>1, <2>3, <3>1 DEF Tracked, Quiet, Ended
  <2> QED BY <2>2, <2>3
<1> QED BY <1>1, <1>2, <1>3, <1>4, <1>5, <1>6, <1>7 DEF Flow

LEMMA OthersTracked ==
  ASSUME NEW c, Callers = {c}, TypeOK, Tracked(c),
         StopDataFlow \/ Stop \/ ServerReply \/ ServerClose \/ UNCHANGED vars
  PROVE  Tracked(c)'
<1> USE DEF clientVars, chanVars, callVars, flowVars, netVars
<1>1. CASE ServerReply
  <2>1. PICK reply \in Answer(Head(toServer)) : toClient' = toClient \o reply
    BY <1>1 DEF ServerReply
  <2>2. UNCHANGED <<pc, got, calls, command, lastRemoteProc, closed, flow, outgoing, sectionID>>
        /\ toServer # <<>> /\ toServer' = Tail(toServer)
    BY <1>1 DEF ServerReply
  <2>3. MyCall(c)' = MyCall(c)
    BY <2>2 DEF MyCall
  <2>4. CASE pc[c] = "await" /\ ~Ended /\ flow # "stuck"
    <3>1. /\ toServer = <<MyCall(c)>> /\ toClient = <<>> /\ sectionID = 0 /\ outgoing = NoCall
          /\ flow \in {"getLen", "loop", "read", "parse", "callback"}
      BY <2>2, <2>4 DEF Tracked, UnderWay, Replying, Unsent
    <3>2. flow # "callback"
      BY <3>1 DEF TypeOK, FlowTypeOK
    <3>3. Head(toServer) = MyCall(c) /\ toServer' = <<>>
      BY <2>2, <3>1
    <3>4. toClient' = reply
      BY <2>1, <3>1, <3>3 DEF Answer
    <3> QED BY <2>1, <2>2, <2>3, <2>4, <3>1, <3>2, <3>3, <3>4
            DEF Tracked, UnderWay, Replying, Answer
  <2>5. CASE ~(pc[c] = "await" /\ ~Ended /\ flow # "stuck")
    BY <2>2, <2>3, <2>5 DEF Tracked, UnderWay, Quiet, Unsent, Ended
  <2> QED BY <2>4, <2>5
<1>2. CASE StopDataFlow \/ Stop \/ ServerClose \/ UNCHANGED vars
  <2>1. UNCHANGED <<clientVars, callVars, flowVars, toServer, toClient>> /\ (closed => closed')
    BY <1>2 DEF StopDataFlow, Stop, ServerClose, vars
  <2> QED BY <2>1 DEF Tracked, UnderWay, Replying, Quiet, Unsent, Ended, MyCall
<1> QED BY <1>1, <1>2

(* The call that a single caller waits for is in one place, up to the end  *)
(* of the flow and also after a stop.                                      *)
LEMMA CallIsTracked ==
  ASSUME NEW c, Callers = {c}, AwaitReply
  PROVE  Spec => []Tracked(c)
<1>1. Init => Tracked(c)
  BY DEF Init, Tracked, Quiet, Unsent
<1>2. TypeOK /\ Tracked(c) /\ [Next]_vars => Tracked(c)'
  BY CallerTracked, FlowTracked, OthersTracked DEF Next
<1> QED BY <1>1, <1>2, TypeCorrect, PTL DEF Spec

(* The reply that the callback hands over answers the call that its caller *)
(* waits for, for any number of calls and whatever fails, before a stop    *)
(* and after it (ParseMessage decodes with lastRemoteProc).                *)
THEOREM OwnReplyCorrect ==
  ASSUME OneCaller, AwaitReply
  PROVE  Spec => []OwnReply
<1>1. PICK c : Callers = {c}
  BY DEF OneCaller
<1>2. Tracked(c) => OwnReply
  BY <1>1 DEF Tracked, OwnReply
<1>3. Spec => []Tracked(c)
  BY <1>1, CallIsTracked
<1> QED BY <1>2, <1>3, PTL

-----------------------------------------------------------------------------
(* The sequence of all requests grows by the write of SendMessage only.    *)
WriteSucceeds ==
  /\ flow = "write" /\ flow' \in {"loop", "getLen"}
  /\ Requests' = Append(Requests, outgoing)
  /\ UNCHANGED <<closed, callVars>>

LEMMA RequestsStep ==
  ASSUME TypeOK, [Next]_vars
  PROVE  Requests \in Seq(Calls) /\ (Requests' = Requests \/ WriteSucceeds)
<1> USE DEF clientVars, chanVars, callVars, flowVars, netVars
<1>1. executed \in Seq(Calls) /\ toServer \in Seq(Calls)
  BY DEF TypeOK, NetTypeOK
<1>2. CASE Write
  <2>1. flow = "write" /\ outgoing \in Calls
    BY <1>2 DEF Write, FlowAt, TypeOK, FlowTypeOK
  <2>2. \/ toServer' = Append(toServer, outgoing) /\ flow' \in {"loop", "getLen"}
        \/ toServer' = toServer
    BY <1>2 DEF Write
  <2>3. UNCHANGED <<closed, callVars, executed>>
    BY <1>2 DEF Write
  <2>4. executed \o Append(toServer, outgoing) = Append(executed \o toServer, outgoing)
    BY <1>1, <2>1, RequestsGrow
  <2>5. CASE toServer' = Append(toServer, outgoing) /\ flow' \in {"loop", "getLen"}
    <3>1. Requests' = Append(Requests, outgoing)
      BY <2>3, <2>4, <2>5 DEF Requests
    <3> QED BY <1>1, <2>1, <2>3, <2>5, <3>1 DEF Requests, WriteSucceeds
  <2>6. CASE toServer' = toServer
    BY <1>1, <2>3, <2>6 DEF Requests
  <2> QED BY <2>2, <2>5, <2>6
<1>3. CASE ServerReply
  BY <1>1, <1>3, RequestsMove DEF ServerReply, Requests
<1>4. CASE \/ \E c \in Callers : Call(c) \/ CallStep(c)
           \/ Flow /\ ~Write
           \/ StopDataFlow \/ Stop \/ ServerClose \/ UNCHANGED vars
  <2>1. UNCHANGED <<executed, toServer>>
    BY <1>4 DEF Call, CallStep, Encode, EncodeFails, Ready, ReadyPanics, Flow, SendMessage,
                ReceiveClosed, Fill, GetMessageLen, LoopHead, Read, ReadFails, ParseHeader,
                ParseReply, Callback, CallbackCalls, Close, StopDataFlow, Stop, ServerClose, vars
  <2> QED BY <1>1, <2>1 DEF Requests
<1> QED BY <1>2, <1>3, <1>4 DEF Next

(* The call of c is still to be sent. *)
ToBeSent(c) == pc[c] = "await" /\ flow \in {"fill", "write"}
NotYet(c) == pc[c] \in {"encode", "ready"} \/ ToBeSent(c)

(* The number of the last call that may have been sent. *)
LastSent(c) == IF NotYet(c) THEN calls[c] - 1 ELSE calls[c]

NumberedUpTo(c, n) == \A i \in 1 .. Len(Requests) : \E k \in 1 .. n : Requests[i] = <<c, k>>

NoRepeat == \A i, j \in 1 .. Len(Requests) : i # j => Requests[i] # Requests[j]

SentOnce(c) == ~closed => NumberedUpTo(c, LastSent(c)) /\ NoRepeat

(* Until a stop, no step takes back that a call has been sent. *)
LEMMA LastSentGrows ==
  ASSUME NEW c, Callers = {c}, AwaitReply, TypeOK, Tracked(c), [Next]_vars, ~closed'
  PROVE  ~closed /\ LastSent(c) \in Int /\ LastSent(c)' \in Int /\ LastSent(c)' >= LastSent(c)
<1> USE DEF clientVars, chanVars, callVars, flowVars, netVars, CallerAt, FlowAt
<1>0. pc \in [Callers -> {"idle", "encode", "ready", "await"}] /\ calls[c] \in Int /\ c \in Callers
      /\ DOMAIN calls = Callers
  BY GRCAssumption DEF TypeOK, CallTypeOK
<1>1. CASE Call(c)
  BY <1>0, <1>1 DEF Call, LastSent, NotYet, ToBeSent
<1>2. CASE CallStep(c)
  BY <1>0, <1>2 DEF CallStep, Encode, EncodeFails, Ready, MeetsFlow, ReadyPanics, LastSent, NotYet,
                    ToBeSent
<1>3. CASE Flow
  <2>1. UNCHANGED <<closed, calls>>
    BY <1>3 DEF Flow, SendMessage, ReceiveClosed, Fill, Write, GetMessageLen, LoopHead, Read,
                ReadFails, ParseHeader, ParseReply, Callback, CallbackCalls, Close
  <2>2. CASE ~NotYet(c)'
    BY <1>0, <2>1, <2>2 DEF LastSent
  <2>3. CASE NotYet(c)' /\ Callback
    <3>1. flow' = "reply" /\ pc' = [pc EXCEPT ![lastRemoteProc] = "idle"]
      BY <2>3 DEF Callback
    <3>2. NotYet(c)
      BY <1>0, <2>3, <3>1 DEF NotYet, ToBeSent
    <3> QED BY <1>0, <2>1, <2>3, <3>2 DEF LastSent
  <2>4. CASE NotYet(c)' /\ ~Callback
    <3>1. NotYet(c)
      BY <1>0, <1>3, <2>1, <2>4
         DEF Flow, SendMessage, ReceiveClosed, Fill, Write, StopFlow, GetMessageLen, LoopHead, Read,
             ReadFails, ParseHeader, ParseReply, CallbackCalls, Close, NotYet, ToBeSent
    <3> QED BY <1>0, <2>1, <2>4, <3>1 DEF LastSent
  <2> QED BY <2>2, <2>3, <2>4
<1>4. CASE StopDataFlow \/ Stop \/ ServerReply \/ ServerClose \/ UNCHANGED vars
  BY <1>0, <1>4 DEF StopDataFlow, Stop, ServerReply, ServerClose, vars, LastSent, NotYet, ToBeSent
<1> QED BY <1>1, <1>2, <1>3, <1>4 DEF Next

LEMMA SentOnceStep ==
  ASSUME NEW c, Callers = {c}, AwaitReply, TypeOK, Tracked(c), SentOnce(c), [Next]_vars
  PROVE  SentOnce(c)'
<1> SUFFICES ASSUME ~closed' PROVE NumberedUpTo(c, LastSent(c))' /\ NoRepeat'
  BY DEF SentOnce
<1>0. ~closed /\ LastSent(c) \in Int /\ LastSent(c)' \in Int /\ LastSent(c)' >= LastSent(c)
  BY LastSentGrows
<1>1. NumberedUpTo(c, LastSent(c)) /\ NoRepeat /\ Requests \in Seq(Calls)
  BY <1>0, RequestsStep DEF SentOnce
<1>2. CASE Requests' = Requests
  BY <1>0, <1>1, <1>2 DEF NumberedUpTo, NoRepeat
<1>3. CASE WriteSucceeds
  <2>1. pc[c] = "await" /\ outgoing = MyCall(c)
    BY <1>0, <1>3 DEF WriteSucceeds, Tracked, UnderWay, Quiet, Ended
  <2>2. calls[c] \in Int /\ calls[c] > 0 /\ MyCall(c) \in Calls
    BY <2>1, GRCAssumption DEF TypeOK, CallTypeOK, MyCall, Calls
  <2>3. LastSent(c) = calls[c] - 1 /\ LastSent(c)' = calls[c]
    BY <1>3, <2>1, <2>2 DEF WriteSucceeds, LastSent, NotYet, ToBeSent, callVars
  <2>4. /\ Len(Requests') = Len(Requests) + 1
        /\ \A i \in 1 .. Len(Requests) : Requests'[i] = Requests[i]
        /\ Requests'[Len(Requests) + 1] = <<c, calls[c]>>
    BY <1>1, <1>3, <2>1, <2>2 DEF WriteSucceeds, MyCall
  <2>5. \A i \in 1 .. Len(Requests) : Requests[i] # <<c, calls[c]>>
    BY <1>1, <2>2, <2>3 DEF NumberedUpTo
  <2>6. NumberedUpTo(c, LastSent(c))'
    BY <1>1, <2>2, <2>3, <2>4 DEF NumberedUpTo
  <2>7. NoRepeat'
    BY <1>1, <2>4, <2>5 DEF NoRepeat
  <2> QED BY <2>6, <2>7
<1> QED BY <1>2, <1>3, RequestsStep

(* No call is sent twice before a stop (SendMessage leaves command as it   *)
(* is; only a new call on commandReady makes it look at it again).         *)
THEOREM SentOnceCorrect ==
  ASSUME OneCaller, AwaitReply
  PROVE  Spec => []SentOnceUntilStop
<1>1. PICK c : Callers = {c}
  BY DEF OneCaller
<1>2. Init => SentOnce(c)
  BY DEF Init, SentOnce, NumberedUpTo, NoRepeat, Requests
<1>3. TypeOK /\ Tracked(c) /\ SentOnce(c) /\ [Next]_vars => SentOnce(c)'
  BY <1>1, SentOnceStep
<1>4. SentOnce(c) => SentOnceUntilStop
  BY DEF SentOnce, NoRepeat, SentOnceUntilStop
<1>5. Spec => []Tracked(c)
  BY <1>1, CallIsTracked
<1> QED BY <1>2, <1>3, <1>4, <1>5, TypeCorrect, PTL DEF Spec

-----------------------------------------------------------------------------
(* What Call has reported as sent is sent or about to be sent. *)
IsSent(call) == \E i \in 1 .. Len(Requests) : Requests[i] = call

Kept(c) ==
  ~Ended => \A call \in returned : IsSent(call) \/ (ToBeSent(c) /\ call = MyCall(c))

(* A call that is to be sent is written, or it still is to be sent. *)
LEMMA ToBeSentStep ==
  ASSUME NEW c, Callers = {c}, AwaitReply, TypeOK, Tracked(c), [Next]_vars, ~Ended'
  PROVE  /\ ~Ended
         /\ ToBeSent(c) => \/ WriteSucceeds /\ outgoing = MyCall(c)
                           \/ ToBeSent(c)' /\ MyCall(c)' = MyCall(c)
         /\ returned' = returned \/ (returned' = returned \cup {MyCall(c)} /\ ToBeSent(c)'
                                     /\ MyCall(c)' = MyCall(c))
<1> USE DEF clientVars, chanVars, callVars, flowVars, netVars, CallerAt, FlowAt
<1>0. DOMAIN pc = Callers /\ c \in Callers /\ (NoCall # MyCall(c) \/ pc[c] # "await")
  BY GRCAssumption DEF TypeOK, CallTypeOK, MyCall, Calls
<1>1. CASE Call(c)
  BY <1>0, <1>1 DEF Call, ToBeSent, Ended
<1>2. CASE CallStep(c)
  <2>1. calls' = calls /\ MyCall(c)' = MyCall(c)
    BY <1>2 DEF CallStep, Encode, EncodeFails, Ready, ReadyPanics, MyCall
  <2>2. CASE Ready(c)
    BY <1>0, <2>1, <2>2 DEF Ready, MeetsFlow, ToBeSent, Ended
  <2>3. CASE Encode(c) \/ EncodeFails(c) \/ ReadyPanics(c)
    <3>1. UNCHANGED <<flow, returned>> /\ (pc' = pc \/ ~ToBeSent(c))
      BY <1>0, <2>3 DEF Encode, EncodeFails, ReadyPanics, ToBeSent
    <3> QED BY <2>1, <3>1 DEF ToBeSent, Ended
  <2> QED BY <1>2, <2>2, <2>3 DEF CallStep
<1>3. CASE Flow
  <2>1. ~Ended /\ returned' = returned /\ calls' = calls
    BY <1>3 DEF Flow, SendMessage, ReceiveClosed, Fill, Write, StopFlow, GetMessageLen, LoopHead,
                Read, ReadFails, ParseHeader, ParseReply, Callback, CallbackCalls, Close, Ended
  <2>2. ASSUME ToBeSent(c)
        PROVE  \/ WriteSucceeds /\ outgoing = MyCall(c)
               \/ ToBeSent(c)' /\ MyCall(c)' = MyCall(c)
    <3>1. CASE Fill
      <4>1. command = MyCall(c)
        BY <2>1, <2>2, <3>1 DEF Fill, ToBeSent, Tracked, UnderWay
      <4> QED BY <1>0, <2>1, <2>2, <3>1, <4>1 DEF Fill, ToBeSent, MyCall
    <3>2. CASE Write
      <4>1. outgoing = MyCall(c)
        BY <2>1, <2>2, <3>2 DEF Write, ToBeSent, Tracked, UnderWay
      <4>2. flow' \in {"loop", "getLen"} /\ toServer' = Append(toServer, outgoing)
        BY <3>2 DEF Write, StopFlow, Ended
      <4>3. executed \in Seq(Calls) /\ toServer \in Seq(Calls) /\ outgoing \in Calls
        BY <3>2 DEF Write, TypeOK, NetTypeOK, FlowTypeOK
      <4>4. executed \o Append(toServer, outgoing) = Append(executed \o toServer, outgoing)
        BY <4>3, RequestsGrow
      <4> QED BY <3>2, <4>1, <4>2, <4>4 DEF Write, WriteSucceeds, Requests
    <3> QED BY <1>3, <2>2, <3>1, <3>2
            DEF Flow, SendMessage, ReceiveClosed, GetMessageLen, LoopHead, Read, ReadFails,
                ParseHeader, ParseReply, Callback, CallbackCalls, Close, ToBeSent
  <2> QED BY <2>1, <2>2
<1>4. CASE StopDataFlow \/ Stop \/ ServerReply \/ ServerClose \/ UNCHANGED vars
  <2>1. UNCHANGED <<flow, pc, calls, returned>>
    BY <1>4 DEF StopDataFlow, Stop, ServerReply, ServerClose, vars
  <2> QED BY <2>1 DEF ToBeSent, MyCall, Ended
<1> QED BY <1>1, <1>2, <1>3, <1>4 DEF Next

LEMMA KeptStep ==
  ASSUME NEW c, Callers = {c}, AwaitReply, TypeOK, Tracked(c), Kept(c), [Next]_vars
  PROVE  Kept(c)'
<1> SUFFICES ASSUME ~Ended', NEW call \in returned'
             PROVE  IsSent(call)' \/ (ToBeSent(c)' /\ call = MyCall(c)')
  BY DEF Kept
<1>1. Requests \in Seq(Calls) /\ (Requests' = Requests \/ WriteSucceeds)
  BY RequestsStep
<1>2. IsSent(call) => IsSent(call)'
  <2>1. CASE Requests' = Requests
    BY <2>1 DEF IsSent
  <2>2. CASE WriteSucceeds
    <3>1. outgoing \in Calls
      BY <2>2 DEF WriteSucceeds, TypeOK, FlowTypeOK
    <3>2. /\ Len(Requests') = Len(Requests) + 1
          /\ \A i \in 1 .. Len(Requests) : Requests'[i] = Requests[i]
      BY <1>1, <2>2, <3>1 DEF WriteSucceeds
    <3> QED BY <1>1, <3>2 DEF IsSent
  <2> QED BY <1>1, <2>1, <2>2
<1>3. ASSUME WriteSucceeds, outgoing = MyCall(c) PROVE IsSent(MyCall(c))'
  <2>1. outgoing \in Calls
    BY <1>3 DEF WriteSucceeds, TypeOK, FlowTypeOK
  <2>2. /\ Len(Requests') = Len(Requests) + 1
        /\ Requests'[Len(Requests) + 1] = MyCall(c)
    BY <1>1, <1>3, <2>1 DEF WriteSucceeds
  <2>3. MyCall(c)' = MyCall(c)
    BY <1>3 DEF WriteSucceeds, callVars, MyCall
  <2> QED BY <1>1, <2>2, <2>3 DEF IsSent
<1>4. CASE call \in returned
  <2>1. IsSent(call) \/ (ToBeSent(c) /\ call = MyCall(c))
    BY <1>4, ToBeSentStep DEF Kept
  <2>2. CASE ToBeSent(c) /\ call = MyCall(c)
    <3>1. \/ WriteSucceeds /\ outgoing = MyCall(c)
          \/ ToBeSent(c)' /\ MyCall(c)' = MyCall(c)
      BY <2>2, ToBeSentStep
    <3>2. CASE WriteSucceeds /\ outgoing = MyCall(c)
      <4>1. MyCall(c)' = MyCall(c)
        BY <3>2 DEF WriteSucceeds, callVars, MyCall
      <4>2. IsSent(call)' <=> IsSent(MyCall(c))'
        BY <2>2, <4>1 DEF IsSent
      <4> QED BY <1>3, <3>2, <4>2
    <3> QED BY <2>2, <3>1, <3>2
  <2> QED BY <1>2, <2>1, <2>2
<1>5. CASE call \notin returned
  BY <1>5, ToBeSentStep
<1> QED BY <1>4, <1>5

(* A call for which Call has returned true is being written, on its way or *)
(* executed, unless the flow has ended; with a callback that only returns  *)
(* the next call may overwrite it in command first.                        *)
THEOREM TrueMeansSentCorrect ==
  ASSUME OneCaller, AwaitReply
  PROVE  Spec => []TrueMeansSent
<1>1. PICK c : Callers = {c}
  BY DEF OneCaller
<1>2. Init => Kept(c)
  BY DEF Init, Kept
<1>3. TypeOK /\ Tracked(c) /\ Kept(c) /\ [Next]_vars => Kept(c)'
  BY <1>1, KeptStep
<1>4. TypeOK /\ Tracked(c) /\ Kept(c) => TrueMeansSent
  BY DEF Kept, IsSent, ToBeSent, Ended, Tracked, UnderWay, TrueMeansSent
<1>5. Spec => []Tracked(c)
  BY <1>1, CallIsTracked
<1> QED BY <1>2, <1>3, <1>4, <1>5, TypeCorrect, PTL DEF Spec

=============================================================================
