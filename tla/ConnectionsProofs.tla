-------------------------- MODULE ConnectionsProofs --------------------------
(***************************************************************************)
(* The lives of connections and their handles, for any number of both.     *)
(* First, the data flow never uses what its user has deleted: inductive is *)
(* NoDanglingUse with the order in which a manager comes and goes.  Then,  *)
(* whose handle is whose (Books): as long as nobody has closed what is not *)
(* his, whoever holds a handle has it as his socket and the other way      *)
(* round, and Winsock is started once for each socket in use, so the       *)
(* WSACleanup that is the last one takes nobody's socket but that of an    *)
(* accepted connection whose server is gone.                               *)
(***************************************************************************)
EXTENDS Connections, FiniteSetTheorems, TLAPS

Active == {"running", "close", "release"}  \* the flow uses the connection

LifeTypeOK ==
  /\ way \in [Conns -> Ways]
  /\ conn \in [Conns -> {"new", "failed", "created", "closing", "gone"}]
  /\ manager \in [Conns -> {"none", "alive", "gone"}]
  /\ flow \in [Conns -> {"none", "callback", "done"} \cup Active]

(* A manager that has not been made has no flow, and one that is deleted   *)
(* as promised has left the loop.                                          *)
Orderly(c) ==
  /\ manager[c] = "none" => flow[c] = "none"
  /\ manager[c] = "gone" /\ way[c] = "blocking" => flow[c] = "done"
  /\ manager[c] = "gone" /\ way[c] = "callback" => flow[c] \in {"callback", "done"}

NoDanglingUseOf(c) ==
  way[c] # "direct" =>
    /\ flow[c] \in Active => conn[c] = "created" /\ manager[c] = "alive"
    /\ flow[c] = "callback" => manager[c] = "alive" \/ way[c] = "callback"

LifeInv == LifeTypeOK /\ \A c \in Conns : Orderly(c) /\ NoDanglingUseOf(c)

-----------------------------------------------------------------------------
(* What a step does to one connection, its manager and its flow. *)
Same(c) == conn'[c] = conn[c] /\ manager'[c] = manager[c] /\ flow'[c] = flow[c]

LifeStep(c) ==
  \/ Same(c)
  \/ /\ conn[c] # "created" \/ MayDelete(c)
     /\ conn'[c] \in {"failed", "created", "closing", "gone"}
     /\ manager'[c] = manager[c] /\ flow'[c] = flow[c]
  \/ /\ conn[c] = "created" /\ manager[c] = "none"
     /\ conn'[c] = conn[c] /\ manager'[c] = "alive" /\ flow'[c] = "running"
  \/ /\ flow[c] \in Active /\ flow'[c] \in {"close", "release", "callback"}
     /\ conn'[c] = conn[c] /\ manager'[c] = manager[c]
  \/ /\ flow[c] = "callback" /\ flow'[c] = "done"
     /\ conn'[c] = conn[c] /\ manager'[c] = manager[c]
  \/ /\ manager[c] = "alive" /\ manager'[c] = "gone"
     /\ way[c] = "blocking" => flow[c] = "done"
     /\ way[c] = "callback" => flow[c] = "callback"
     /\ conn'[c] = conn[c] /\ flow'[c] = flow[c]

(* Every step is one of these for each connection, and keeps the types. *)
LEMMA LifeSteps ==
  ASSUME LifeTypeOK, [Next]_vars
  PROVE  LifeTypeOK' /\ way' = way /\ \A c \in Conns : LifeStep(c)
<1> USE DEF LifeTypeOK, Active
<1>1. CASE UNCHANGED <<way, conn, manager, flow>>
  BY <1>1 DEF LifeStep, Same
<1>2. ASSUME NEW d \in Conns, Create(d)
      PROVE  LifeTypeOK' /\ way' = way /\ \A c \in Conns : LifeStep(c)
  <2>1. UNCHANGED <<way, manager, flow>> /\ conn[d] = "new"
    BY <1>2 DEF Create
  <2>2. PICK new \in {"failed", "created"} : conn' = [conn EXCEPT ![d] = new]
    BY <1>2 DEF Create
  <2> QED BY <2>1, <2>2 DEF LifeStep, Same
<1>3. ASSUME NEW d \in Conns, StartDataFlow(d)
      PROVE  LifeTypeOK' /\ way' = way /\ \A c \in Conns : LifeStep(c)
  BY <1>3 DEF StartDataFlow, LifeStep, Same
<1>4. ASSUME NEW d \in Conns, NEW stage \in Active, NEW next \in {"close", "release", "callback"},
             flow[d] = stage, FlowGoesTo(d, next), UNCHANGED <<way, conn, manager>>
      PROVE  LifeTypeOK' /\ way' = way /\ \A c \in Conns : LifeStep(c)
  BY <1>4 DEF FlowGoesTo, LifeStep, Same
<1>5. ASSUME NEW d \in Conns, LeaveLoop(d) \/ FlowCloses(d) \/ FlowReleases(d)
      PROVE  LifeTypeOK' /\ way' = way /\ \A c \in Conns : LifeStep(c)
  <2>1. After("running") = "close" /\ After("close") = "callback"
    BY DEF After
  <2>2. CASE LeaveLoop(d)
    BY <1>4, <2>1, <2>2 DEF LeaveLoop
  <2>3. CASE FlowCloses(d)
    BY <1>4, <2>1, <2>3 DEF FlowCloses
  <2>4. CASE FlowReleases(d)
    BY <1>4, <2>1, <2>4 DEF FlowReleases
  <2> QED BY <1>5, <2>2, <2>3, <2>4
<1>6. ASSUME NEW d \in Conns, FlowCallsBack(d)
      PROVE  LifeTypeOK' /\ way' = way /\ \A c \in Conns : LifeStep(c)
  <2>1. After("callback") = "done"
    BY DEF After
  <2> QED BY <1>6, <2>1 DEF FlowCallsBack, FlowGoesTo, LifeStep, Same
<1>7. ASSUME NEW d \in Conns, DeleteConnection(d) \/ ConnectionDeleted(d)
      PROVE  LifeTypeOK' /\ way' = way /\ \A c \in Conns : LifeStep(c)
  <2>1. UNCHANGED <<way, manager, flow>> /\ (conn[d] = "closing" \/ MayDelete(d))
    BY <1>7 DEF DeleteConnection, ConnectionDeleted
  <2>2. PICK new \in {"closing", "gone"} : conn' = [conn EXCEPT ![d] = new]
    BY <1>7 DEF DeleteConnection, ConnectionDeleted
  <2> QED BY <2>1, <2>2 DEF LifeStep, Same
<1>8. ASSUME NEW d \in Conns, DeleteManager(d)
      PROVE  LifeTypeOK' /\ way' = way /\ \A c \in Conns : LifeStep(c)
  <2>1. /\ UNCHANGED <<way, conn, flow>> /\ manager[d] = "alive"
        /\ manager' = [manager EXCEPT ![d] = "gone"]
    BY <1>8 DEF DeleteManager
  <2>2. /\ way[d] = "blocking" => flow[d] = "done"
        /\ way[d] = "callback" => flow[d] = "callback"
    BY <1>8 DEF DeleteManager
  <2> QED BY <2>1, <2>2 DEF LifeStep, Same
<1>9. CASE StartTCPServer \/ StopTCPServer \/ ServerStopped
  BY <1>1, <1>9 DEF StartTCPServer, StopTCPServer, ServerStopped, objects
<1>10. CASE UNCHANGED vars
  BY <1>1, <1>10 DEF vars, objects
<1> QED BY <1>2, <1>3, <1>5, <1>6, <1>7, <1>8, <1>9, <1>10 DEF Next

LEMMA LifeInvariant == Spec => []LifeInv
<1>1. Init => LifeInv
  BY DEF Init, LifeInv, LifeTypeOK, Orderly, NoDanglingUseOf, Active
<1>2. LifeInv /\ [Next]_vars => LifeInv'
  <2> SUFFICES ASSUME LifeInv, [Next]_vars PROVE LifeInv'
    OBVIOUS
  <2>1. LifeTypeOK' /\ way' = way /\ \A c \in Conns : LifeStep(c)
    BY LifeSteps DEF LifeInv
  <2>2. ASSUME NEW c \in Conns PROVE Orderly(c)' /\ NoDanglingUseOf(c)'
    <3>1. LifeTypeOK /\ Orderly(c) /\ NoDanglingUseOf(c) /\ LifeStep(c)
      BY <2>1 DEF LifeInv
    <3>2. way[c] \in {"blocking", "callback", "direct"}
      BY <3>1, CNAssumption DEF LifeTypeOK
    <3> QED BY <2>1, <3>1, <3>2
        DEF LifeTypeOK, Orderly, NoDanglingUseOf, LifeStep, Same, MayDelete, Active
  <2> QED BY <2>1, <2>2 DEF LifeInv
<1> QED BY <1>1, <1>2, PTL DEF Spec

(* Behind startDataFlowBlocking, or in onCloseCallback, whoever deletes    *)
(* the connection and its manager does not take them from the data flow.   *)
THEOREM NoDanglingUseCorrect == Spec => []NoDanglingUse
<1>1. LifeInv => NoDanglingUse
  BY DEF LifeInv, NoDanglingUseOf, NoDanglingUse, Active
<1> QED BY <1>1, LifeInvariant, PTL

-----------------------------------------------------------------------------
(* Whose handle is whose, until somebody closes what is not his: the       *)
(* books that the connections, the listening socket and Winsock keep.      *)
HandleTypeOK ==
  /\ kind \in [Conns -> {"tcpClient", "tcpServer", "udp", "pipe"}]
  /\ socket \in [Conns -> Handles \cup {Invalid}]
  /\ listen \in Handles \cup {Invalid}
  /\ holder \in [Handles -> Conns \cup {Listener, Nobody}]
  /\ server \in {"none", "failed", "listening", "stopping", "stopped"}
  /\ wsa \in Nat
  /\ stale \subseteq Conns \cup {Listener}

(* c has closed its handle and may still have the value of it. *)
HasClosed(c) ==
  \/ conn[c] = "closing" \/ flow[c] = "release"
  \/ kind[c] = "pipe" /\ flow[c] \in {"callback", "done"}

(* The last WSACleanup may have closed the socket of c. *)
CutOff(c) == kind[c] = "tcpServer" /\ server = "stopped"

(* Every handle that c has opened is its socket, and the other way round.  *)
HolderIsOwner(c) ==
  /\ \A h \in Handles : holder[h] = c => socket[c] = h /\ ~HasClosed(c) /\ c \notin stale
  /\ socket[c] # Invalid /\ ~HasClosed(c) /\ c \notin stale => holder[socket[c]] = c \/ CutOff(c)

(* When c has a socket. *)
SocketKept(c) ==
  /\ conn[c] \in {"new", "failed"} => manager[c] = "none" /\ flow[c] = "none"
  /\ conn[c] \in {"new", "failed"} /\ c \notin stale => socket[c] = Invalid
  /\ conn[c] = "created" /\ flow[c] \in {"none", "running", "close"} => socket[c] # Invalid
  /\ conn[c] = "closing" => kind[c] # "pipe" /\ socket[c] # Invalid /\ flow[c] # "release"
  /\ flow[c] = "release" => socket[c] # Invalid /\ (kind[c] # "pipe" => conn[c] = "created")
  /\ kind[c] # "pipe" /\ (conn[c] = "gone" \/ flow[c] \in {"callback", "done"}) =>
       socket[c] = Invalid
  /\ c \in stale => conn[c] = "failed" /\ UsesWinsock(c) /\ socket[c] # Invalid
  /\ kind[c] = "tcpServer" /\ socket[c] # Invalid => server \in {"listening", "stopping", "stopped"}

ListenerKept ==
  /\ server = "listening" => listen # Invalid /\ holder[listen] = Listener
  /\ server = "failed" /\ listen # Invalid => Listener \in stale
  /\ server = "none" => listen = Invalid
  /\ \A h \in Handles : holder[h] = Listener => server = "listening" /\ listen = h

Using == {c \in Conns : UsesWinsock(c) /\ socket[c] # Invalid /\ c \notin stale}

ServerUses == IF server \in {"listening", "stopping"} THEN 1 ELSE 0

WinsockCounted == wsa = Cardinality(Using) + ServerUses

InOrder ==
  /\ \A c \in Conns : HolderIsOwner(c) /\ SocketKept(c)
  /\ ListenerKept
  /\ WinsockCounted

Books == wrong = {} => InOrder

LEMMA HandleTypes ==
  ASSUME HandleTypeOK, [Next]_vars
  PROVE  HandleTypeOK' /\ kind' = kind /\ (wrong \subseteq wrong' /\ stale \subseteq stale')
<1> USE DEF HandleTypeOK, objects, system, Nobody
<1>1. ASSUME NEW who \in Conns \cup {Listener}, NEW h \in Handles, CloseHandle(who, h)
      PROVE  holder' \in [Handles -> Conns \cup {Listener, Nobody}] /\ wrong \subseteq wrong'
  BY <1>1 DEF CloseHandle
<1>2. ASSUME WSACleanup
      PROVE  holder' \in [Handles -> Conns \cup {Listener, Nobody}] /\ wsa' \in Nat
  BY <1>2 DEF WSACleanup
<1>3. CASE StartTCPServer
  BY <1>3 DEF StartTCPServer
<1>4. CASE StopTCPServer
  BY <1>1, <1>4 DEF StopTCPServer
<1>5. CASE ServerStopped
  BY <1>2, <1>5 DEF ServerStopped
<1>6. ASSUME NEW c \in Conns, Create(c)
      PROVE  HandleTypeOK' /\ kind' = kind /\ wrong \subseteq wrong' /\ stale \subseteq stale'
  BY <1>6 DEF Create
<1>7. ASSUME NEW c \in Conns, FlowReleases(c) \/ ConnectionDeleted(c)
      PROVE  HandleTypeOK' /\ kind' = kind /\ wrong \subseteq wrong' /\ stale \subseteq stale'
  <2>1. Release(c) /\ UNCHANGED <<kind, server, listen, stale, wrong>>
    BY <1>7 DEF FlowReleases, ConnectionDeleted
  <2>2. socket' \in [Conns -> Handles \cup {Invalid}]
    BY <2>1 DEF Release
  <2>3. holder' \in [Handles -> Conns \cup {Listener, Nobody}] /\ wsa' \in Nat
    BY <1>2, <2>1 DEF Release
  <2> QED BY <2>1, <2>2, <2>3
<1>8. ASSUME NEW c \in Conns, FlowCloses(c) \/ DeleteConnection(c)
      PROVE  HandleTypeOK' /\ kind' = kind /\ wrong \subseteq wrong' /\ stale \subseteq stale'
  <2>1. UNCHANGED <<kind, socket, server, listen, wsa, stale>>
    BY <1>8 DEF FlowCloses, DeleteConnection
  <2>2. (socket[c] # Invalid /\ CloseHandle(c, socket[c])) \/ UNCHANGED <<holder, wrong>>
    BY <1>8 DEF FlowCloses, DeleteConnection
  <2>3. holder' \in [Handles -> Conns \cup {Listener, Nobody}] /\ wrong \subseteq wrong'
    BY <1>1, <2>2
  <2> QED BY <2>1, <2>3
<1>9. ASSUME NEW c \in Conns, StartDataFlow(c) \/ LeaveLoop(c) \/ FlowCallsBack(c) \/ DeleteManager(c)
      PROVE  HandleTypeOK' /\ kind' = kind /\ wrong \subseteq wrong' /\ stale \subseteq stale'
  BY <1>9 DEF StartDataFlow, LeaveLoop, FlowCallsBack, DeleteManager
<1>10. CASE UNCHANGED vars
  BY <1>10 DEF vars
<1> QED BY <1>3, <1>4, <1>5, <1>6, <1>7, <1>8, <1>9, <1>10 DEF Next

(* Whoever closes a handle and does nothing wrong gives back his own. *)
LEMMA ClosesOwn ==
  ASSUME HandleTypeOK, NEW who \in Conns \cup {Listener}, NEW h \in Handles,
         CloseHandle(who, h), wrong = {}, wrong' = {}
  PROVE  holder[h] = who /\ holder' = [holder EXCEPT ![h] = Nobody]
<1>1. holder[h] = who
  BY DEF CloseHandle
<1> QED BY <1>1 DEF CloseHandle

(* A connection whose handle and objects a step leaves alone; the last     *)
(* WSACleanup may cut it off.                                              *)
LeftAlone(c) ==
  /\ UNCHANGED <<conn[c], manager[c], flow[c], socket[c]>>
  /\ c \in stale' <=> c \in stale
  /\ \A h \in Handles : /\ holder'[h] = c => holder[h] = c
                        /\ holder[h] = c => holder'[h] = c \/ CutOff(c)'

ServerGoesOn ==
  server \in {"listening", "stopping", "stopped"} =>
    server' \in {"listening", "stopping", "stopped"} /\ (server = "stopped" => server' = server)

LEMMA LeftAloneKept ==
  ASSUME HandleTypeOK, kind' = kind, NEW c \in Conns, HolderIsOwner(c), SocketKept(c),
         LeftAlone(c), ServerGoesOn
  PROVE  HolderIsOwner(c)' /\ SocketKept(c)'
<1>1. HasClosed(c)' = HasClosed(c) /\ UsesWinsock(c)' = UsesWinsock(c)
  BY DEF LeftAlone, HasClosed, UsesWinsock
<1>2. CutOff(c) => CutOff(c)'
  BY DEF CutOff, ServerGoesOn
<1>3. socket[c] # Invalid => socket[c] \in Handles
  BY DEF HandleTypeOK
<1>4. HolderIsOwner(c)'
  BY <1>1, <1>2, <1>3 DEF HolderIsOwner, LeftAlone
<1>5. SocketKept(c)'
  BY <1>1 DEF SocketKept, LeftAlone, ServerGoesOn
<1> QED BY <1>4, <1>5

LEMMA UsingIsFinite ==
  IsFiniteSet(Using) /\ Cardinality(Using) \in Nat
<1>1. Using \subseteq Conns
  BY DEF Using
<1> QED BY <1>1, CNAssumption, FS_Subset, FS_CardinalityType

(* WSACleanup closes nobody's socket but that of an accepted connection    *)
(* whose server has been stopped, or is about to be, if all the users of   *)
(* Winsock are counted.                                                    *)
LEMMA CleanupStep ==
  ASSUME HandleTypeOK, InOrder, WSACleanup, NEW who,
         who \in Using \/ (who = Listener /\ server = "stopping")
  PROVE  /\ wsa' = wsa - 1
         /\ \A h \in Handles :
              /\ holder'[h] \in {holder[h], Nobody}
              /\ holder[h] = Listener => holder'[h] = Listener
              /\ \A d \in Conns \ {who} :
                   holder[h] = d =>
                     \/ holder'[h] = d
                     \/ kind[d] = "tcpServer" /\ (server = "stopped" \/ who = Listener)
<1>0. IsFiniteSet(Using) /\ Cardinality(Using) \in Nat /\ wsa = Cardinality(Using) + ServerUses
  BY UsingIsFinite DEF InOrder, WinsockCounted
<1>1. Using # {} => Cardinality(Using) >= 1
  BY <1>0, FS_EmptySet
<1>2. wsa >= 1
  BY <1>0, <1>1 DEF ServerUses
<1>3. wsa' = wsa - 1
  BY <1>0, <1>2 DEF WSACleanup, HandleTypeOK
<1>4. CASE wsa > 1
  <2>1. holder' = holder
    BY <1>4 DEF WSACleanup
  <2> QED BY <1>3, <2>1
<1>5. CASE wsa = 1
  <2>1. Using \subseteq {who} /\ server # "listening" /\ (server = "stopping" => who = Listener)
    <3>1. CASE who \in Using
      <4>1. Cardinality(Using) = 1 /\ ServerUses = 0
        BY <1>0, <1>1, <1>5, <3>1 DEF ServerUses
      <4>2. Cardinality(Using \ {who}) = 0 /\ IsFiniteSet(Using \ {who})
        BY <1>0, <3>1, <4>1, FS_RemoveElement
      <4>3. Using \ {who} = {}
        BY <4>2, FS_EmptySet
      <4> QED BY <4>1, <4>3 DEF ServerUses
    <3>2. CASE who = Listener /\ server = "stopping"
      <4>1. Cardinality(Using) = 0
        BY <1>0, <1>5, <3>2 DEF ServerUses
      <4>2. Using = {}
        BY <1>0, <4>1, FS_EmptySet
      <4> QED BY <3>2, <4>2
    <3> QED BY <3>1, <3>2
  <2>2. \A h \in Handles : holder'[h] = IF \E c \in Conns : holder[h] = c /\ kind[c] = "pipe"
                                        THEN holder[h] ELSE Nobody
    BY <1>5 DEF WSACleanup
  <2>3. \A h \in Handles : holder[h] # Listener
    BY <2>1 DEF InOrder, ListenerKept
  <2>4. ASSUME NEW h \in Handles, NEW d \in Conns \ {who}, holder[h] = d, kind[d] # "pipe"
        PROVE  kind[d] = "tcpServer" /\ (server = "stopped" \/ who = Listener)
    <3>1. socket[d] = h /\ d \notin stale /\ h # Invalid
      BY <2>4, CNAssumption DEF InOrder, HolderIsOwner, Invalid
    <3>2. ~UsesWinsock(d)
      BY <2>1, <3>1 DEF Using
    <3>3. kind[d] = "tcpServer"
      BY <2>4, <3>2 DEF UsesWinsock, HandleTypeOK
    <3> QED BY <2>1, <3>1, <3>3 DEF InOrder, SocketKept
  <2> QED BY <1>3, <2>2, <2>3, <2>4
<1> QED BY <1>0, <1>2, <1>4, <1>5 DEF HandleTypeOK

(* Steps of the listening socket. *)
LEMMA ServerInOrder ==
  ASSUME HandleTypeOK, InOrder, wrong = {}, wrong' = {},
         StartTCPServer \/ StopTCPServer \/ ServerStopped
  PROVE  InOrder'
<1> USE DEF objects
<1>0. /\ \A c \in Conns : HolderIsOwner(c) /\ SocketKept(c)
      /\ ListenerKept /\ WinsockCounted /\ kind' = kind
      /\ Listener \notin Conns /\ Nobody \notin Conns \cup {Listener}
      /\ Invalid \notin Handles /\ DOMAIN holder = Handles
      /\ wsa \in Nat /\ Cardinality(Using) \in Nat
  BY CNAssumption, UsingIsFinite
     DEF InOrder, StartTCPServer, StopTCPServer, ServerStopped, Nobody, Invalid, HandleTypeOK
<1>1. UNCHANGED <<conn, manager, flow, socket>> /\ ServerGoesOn
  BY DEF StartTCPServer, StopTCPServer, ServerStopped, ServerGoesOn
<1>2. Using' = Using
  <2>1. \A c \in Conns : c \in stale' <=> c \in stale
    BY <1>0 DEF StartTCPServer, StopTCPServer, ServerStopped
  <2> QED BY <1>0, <1>1, <2>1 DEF Using, UsesWinsock
<1>3. SUFFICES (\A c \in Conns : LeftAlone(c)) /\ ListenerKept' /\ WinsockCounted'
  BY <1>0, <1>1, LeftAloneKept DEF InOrder
<1>4. CASE StartTCPServer
  <2>1. CASE UNCHANGED <<listen, holder, wsa, stale>> /\ server' = "failed"
    <3>1. server = "none" /\ listen = Invalid
      BY <1>0, <1>4 DEF StartTCPServer, ListenerKept
    <3> QED BY <1>0, <1>1, <1>2, <2>1, <3>1
            DEF LeftAlone, ListenerKept, WinsockCounted, ServerUses
  <2>2. ASSUME NEW h \in Handles, Free(h), listen' = h, server' = "listening",
               holder' = [holder EXCEPT ![h] = Listener], wsa' = wsa + 1, UNCHANGED stale
        PROVE  (\A c \in Conns : LeftAlone(c)) /\ ListenerKept' /\ WinsockCounted'
    <3>1. server = "none" /\ holder[h] = Nobody
      BY <1>4, <2>2 DEF StartTCPServer, Free
    <3>2. \A c \in Conns : LeftAlone(c)
      BY <1>0, <1>1, <2>2, <3>1 DEF LeftAlone
    <3>3. ListenerKept'
      BY <1>0, <2>2, <3>1 DEF ListenerKept
    <3>4. WinsockCounted'
      BY <1>0, <1>2, <2>2, <3>1 DEF WinsockCounted, ServerUses
    <3> QED BY <3>2, <3>3, <3>4
  <2>3. ASSUME NEW h \in Handles, listen' = h, server' = "failed",
               stale' = stale \cup {Listener}, UNCHANGED <<holder, wsa>>
        PROVE  (\A c \in Conns : LeftAlone(c)) /\ ListenerKept' /\ WinsockCounted'
    <3>1. server = "none"
      BY <1>4 DEF StartTCPServer
    <3> QED BY <1>0, <1>1, <1>2, <2>3, <3>1
            DEF LeftAlone, ListenerKept, WinsockCounted, ServerUses
  <2> QED BY <1>4, <2>1, <2>2, <2>3 DEF StartTCPServer
<1>5. CASE StopTCPServer
  <2>1. CASE listen = Invalid
    <3>1. server = "failed" /\ server' = "stopped" /\ UNCHANGED <<holder, listen, wsa, stale>>
      BY <1>0, <1>5, <2>1 DEF StopTCPServer, ListenerKept
    <3> QED BY <1>0, <1>1, <1>2, <3>1 DEF LeftAlone, ListenerKept, WinsockCounted, ServerUses
  <2>2. CASE listen # Invalid
    <3>1. listen \in Handles /\ CloseHandle(Listener, listen) /\ server' = "stopping"
          /\ UNCHANGED <<listen, wsa, stale>>
      BY <1>5, <2>2 DEF StopTCPServer, HandleTypeOK
    <3>2. holder[listen] = Listener /\ holder' = [holder EXCEPT ![listen] = Nobody]
      BY <3>1, ClosesOwn
    <3>3. server = "listening"
      BY <1>0, <3>1, <3>2 DEF ListenerKept
    <3>4. \A c \in Conns : LeftAlone(c)
      BY <1>0, <1>1, <3>1, <3>2 DEF LeftAlone
    <3>5. ListenerKept'
      BY <1>0, <3>1, <3>2, <3>3 DEF ListenerKept
    <3>6. WinsockCounted'
      BY <1>0, <1>2, <3>1, <3>3 DEF WinsockCounted, ServerUses
    <3> QED BY <3>4, <3>5, <3>6
  <2> QED BY <2>1, <2>2
<1>6. CASE ServerStopped
  <2>1. /\ server = "stopping" /\ server' = "stopped" /\ WSACleanup
        /\ UNCHANGED <<listen, stale>>
    BY <1>6 DEF ServerStopped
  <2>2. /\ wsa' = wsa - 1
        /\ \A h \in Handles :
             /\ holder'[h] \in {holder[h], Nobody}
             /\ \A d \in Conns : holder[h] = d => holder'[h] = d \/ kind[d] = "tcpServer"
    <3>1. Conns \ {Listener} = Conns
      BY <1>0
    <3> QED BY <2>1, <3>1, CleanupStep
  <2>3. \A c \in Conns : LeftAlone(c)
    BY <1>0, <1>1, <2>1, <2>2 DEF LeftAlone, CutOff
  <2>4. ListenerKept'
    BY <1>0, <2>1, <2>2 DEF ListenerKept
  <2>5. WinsockCounted'
    BY <1>0, <1>2, <2>1, <2>2 DEF WinsockCounted, ServerUses
  <2> QED BY <2>3, <2>4, <2>5
<1> QED BY <1>4, <1>5, <1>6

(* Steps of one connection. *)
LEMMA OneConnection ==
  ASSUME HandleTypeOK, InOrder, kind' = kind, NEW c \in Conns,
         \A d \in Conns \ {c} : LeftAlone(d),
         UNCHANGED server,
         HolderIsOwner(c)' /\ SocketKept(c)', ListenerKept', WinsockCounted'
  PROVE  InOrder'
<1>1. ServerGoesOn
  BY DEF ServerGoesOn
<1>2. \A d \in Conns \ {c} : HolderIsOwner(d)' /\ SocketKept(d)'
  BY <1>1, LeftAloneKept DEF InOrder
<1> QED BY <1>2 DEF InOrder

(* No handle changes hands. *)
NoHandle == UNCHANGED <<kind, socket, holder, wsa, stale, server, listen>>

LEMMA NoHandleInOrder ==
  ASSUME HandleTypeOK, InOrder, NEW c \in Conns, NoHandle,
         \A d \in Conns \ {c} : UNCHANGED <<conn[d], manager[d], flow[d]>>,
         (HolderIsOwner(c) => HolderIsOwner(c)'), SocketKept(c)'
  PROVE  InOrder'
<1>1. Using' = Using
  BY DEF NoHandle, Using, UsesWinsock
<1>2. WinsockCounted'
  BY <1>1 DEF NoHandle, InOrder, WinsockCounted, ServerUses
<1>3. ListenerKept'
  BY DEF NoHandle, InOrder, ListenerKept
<1>4. \A d \in Conns \ {c} : LeftAlone(d)
  BY DEF NoHandle, LeftAlone
<1>5. HolderIsOwner(c)' /\ SocketKept(c)' /\ kind' = kind /\ server' = server
  BY DEF InOrder, NoHandle
<1> QED BY <1>2, <1>3, <1>4, <1>5, OneConnection

(* The flow and the manager of a connection come, go on and go. *)
LEMMA QuietInOrder ==
  ASSUME HandleTypeOK, LifeInv, InOrder, NEW c \in Conns,
         \/ StartDataFlow(c) \/ LeaveLoop(c) \/ FlowCallsBack(c) \/ DeleteManager(c)
         \/ FlowCloses(c) /\ socket[c] = Invalid
         \/ DeleteConnection(c) /\ (socket[c] = Invalid \/ kind[c] = "pipe")
         \/ Create(c) /\ UNCHANGED socket /\ socket[c] = Invalid
  PROVE  InOrder'
<1> USE DEF objects, system, FlowGoesTo
<1>0. /\ HolderIsOwner(c) /\ SocketKept(c) /\ Orderly(c)
      /\ conn \in [Conns -> {"new", "failed", "created", "closing", "gone"}]
      /\ manager \in [Conns -> {"none", "alive", "gone"}]
      /\ flow \in [Conns -> {"none", "callback", "done"} \cup Active]
      /\ Invalid \notin Handles
      /\ After("running") = "close" /\ After("close") = "callback" /\ After("callback") = "done"
  BY CNAssumption DEF InOrder, LifeInv, LifeTypeOK, Invalid, After
<1>1. CASE StartDataFlow(c)
  <2>1. /\ NoHandle /\ conn' = conn /\ conn[c] = "created" /\ manager[c] = "none"
        /\ manager' = [manager EXCEPT ![c] = "alive"] /\ flow' = [flow EXCEPT ![c] = "running"]
    BY <1>1 DEF StartDataFlow, NoHandle
  <2>2. flow[c] = "none"
    BY <1>0, <2>1 DEF Orderly
  <2>3. HolderIsOwner(c)'
    BY <1>0, <2>1, <2>2 DEF HolderIsOwner, HasClosed, CutOff, NoHandle
  <2>4. SocketKept(c)'
    BY <1>0, <2>1, <2>2 DEF SocketKept, NoHandle, UsesWinsock
  <2> QED BY <1>0, <2>1, <2>3, <2>4, NoHandleInOrder
<1>2. CASE LeaveLoop(c)
  <2>1. /\ NoHandle /\ UNCHANGED <<conn, manager>> /\ flow[c] = "running"
        /\ flow' = [flow EXCEPT ![c] = "close"]
    BY <1>0, <1>2 DEF LeaveLoop, NoHandle
  <2>2. HolderIsOwner(c)'
    BY <1>0, <2>1 DEF HolderIsOwner, HasClosed, CutOff, NoHandle
  <2>3. SocketKept(c)'
    BY <1>0, <2>1 DEF SocketKept, NoHandle, UsesWinsock
  <2> QED BY <1>0, <2>1, <2>2, <2>3, NoHandleInOrder
<1>3. CASE FlowCallsBack(c)
  <2>1. /\ NoHandle /\ UNCHANGED <<conn, manager>> /\ flow[c] = "callback"
        /\ flow' = [flow EXCEPT ![c] = "done"]
    BY <1>0, <1>3 DEF FlowCallsBack, NoHandle
  <2>2. HolderIsOwner(c)'
    BY <1>0, <2>1 DEF HolderIsOwner, HasClosed, CutOff, NoHandle
  <2>3. SocketKept(c)'
    BY <1>0, <2>1 DEF SocketKept, NoHandle, UsesWinsock
  <2> QED BY <1>0, <2>1, <2>2, <2>3, NoHandleInOrder
<1>4. CASE DeleteManager(c)
  <2>1. /\ NoHandle /\ UNCHANGED <<conn, flow>> /\ manager[c] = "alive"
        /\ manager' = [manager EXCEPT ![c] = "gone"]
    BY <1>4 DEF DeleteManager, NoHandle
  <2>2. HolderIsOwner(c)'
    BY <1>0, <2>1 DEF HolderIsOwner, HasClosed, CutOff, NoHandle
  <2>3. SocketKept(c)'
    BY <1>0, <2>1 DEF SocketKept, NoHandle, UsesWinsock
  <2> QED BY <1>0, <2>1, <2>2, <2>3, NoHandleInOrder
<1>5. CASE FlowCloses(c) /\ socket[c] = Invalid
  <2>1. /\ NoHandle /\ UNCHANGED <<conn, manager>> /\ flow[c] = "close"
        /\ flow' = [flow EXCEPT ![c] = "callback"]
    BY <1>0, <1>5 DEF FlowCloses, NoHandle
  <2>2. HolderIsOwner(c)'
    BY <1>0, <1>5, <2>1 DEF HolderIsOwner, HasClosed, CutOff, NoHandle
  <2>3. SocketKept(c)'
    BY <1>0, <1>5, <2>1 DEF SocketKept, NoHandle, UsesWinsock
  <2> QED BY <1>0, <2>1, <2>2, <2>3, NoHandleInOrder
<1>6. CASE DeleteConnection(c) /\ (socket[c] = Invalid \/ kind[c] = "pipe")
  <2>1. /\ NoHandle /\ UNCHANGED <<flow, manager>> /\ conn[c] \in {"created", "failed"}
        /\ conn' = [conn EXCEPT ![c] = "gone"]
    BY <1>6 DEF DeleteConnection, MayDelete, NoHandle
  <2>2. HolderIsOwner(c)'
    BY <1>0, <1>6, <2>1 DEF HolderIsOwner, HasClosed, CutOff, NoHandle
  <2>3. SocketKept(c)'
    BY <1>0, <1>6, <2>1 DEF SocketKept, NoHandle, UsesWinsock
  <2> QED BY <1>0, <2>1, <2>2, <2>3, NoHandleInOrder
<1>7. CASE Create(c) /\ UNCHANGED socket /\ socket[c] = Invalid
  <2>1. /\ NoHandle /\ UNCHANGED <<flow, manager>> /\ conn[c] = "new"
        /\ conn' = [conn EXCEPT ![c] = "failed"]
    BY <1>0, <1>7 DEF Create, NoHandle, HandleTypeOK
  <2>2. HolderIsOwner(c)'
    BY <1>0, <1>7, <2>1 DEF HolderIsOwner, HasClosed, CutOff, NoHandle
  <2>3. SocketKept(c)'
    BY <1>0, <1>7, <2>1 DEF SocketKept, NoHandle, UsesWinsock
  <2> QED BY <1>0, <2>1, <2>2, <2>3, NoHandleInOrder
<1> QED BY <1>1, <1>2, <1>3, <1>4, <1>5, <1>6, <1>7
(* A connection gives its handle back. *)
LEMMA ClosesInOrder ==
  ASSUME HandleTypeOK, LifeInv, InOrder, wrong = {}, wrong' = {}, NEW c \in Conns,
         socket[c] # Invalid,
         FlowCloses(c) \/ (DeleteConnection(c) /\ kind[c] # "pipe")
  PROVE  InOrder'
<1>0. /\ HolderIsOwner(c) /\ SocketKept(c) /\ ListenerKept /\ WinsockCounted
      /\ conn \in [Conns -> {"new", "failed", "created", "closing", "gone"}]
      /\ flow \in [Conns -> {"none", "callback", "done"} \cup Active]
      /\ socket[c] \in Handles /\ DOMAIN holder = Handles
      /\ Listener \notin Conns /\ Nobody \notin Conns \cup {Listener}
  BY CNAssumption DEF InOrder, LifeInv, LifeTypeOK, HandleTypeOK, Nobody
<1>1. /\ CloseHandle(c, socket[c])
      /\ UNCHANGED <<kind, manager, socket, server, listen, wsa, stale>>
  BY DEF FlowCloses, DeleteConnection
<1>2. holder[socket[c]] = c /\ holder' = [holder EXCEPT ![socket[c]] = Nobody]
  BY <1>0, <1>1, ClosesOwn
<1>3. ~HasClosed(c) /\ c \notin stale
  BY <1>0, <1>2 DEF HolderIsOwner
<1>4. \/ /\ flow[c] = "close" /\ flow' = [flow EXCEPT ![c] = "release"] /\ conn' = conn
      \/ /\ MayDelete(c) /\ conn' = [conn EXCEPT ![c] = "closing"] /\ flow' = flow
         /\ kind[c] # "pipe"
  BY DEF FlowCloses, DeleteConnection, FlowGoesTo
<1>5. HasClosed(c)'
  BY <1>0, <1>4 DEF HasClosed
<1>6. HolderIsOwner(c)'
  BY <1>0, <1>2, <1>5 DEF HolderIsOwner
<1>7. SocketKept(c)'
  <2>1. CASE flow[c] = "close" /\ flow' = [flow EXCEPT ![c] = "release"] /\ conn' = conn
    BY <1>0, <1>1, <1>3, <2>1 DEF SocketKept, HasClosed, UsesWinsock, Active
  <2>2. CASE MayDelete(c) /\ conn' = [conn EXCEPT ![c] = "closing"] /\ flow' = flow
             /\ kind[c] # "pipe"
    BY <1>0, <1>1, <1>3, <2>2 DEF SocketKept, HasClosed, UsesWinsock, MayDelete, Active
  <2> QED BY <1>4, <2>1, <2>2
<1>8. \A d \in Conns \ {c} : LeftAlone(d)
  BY <1>0, <1>1, <1>2, <1>4 DEF LeftAlone
<1>9. ListenerKept'
  BY <1>0, <1>1, <1>2 DEF ListenerKept
<1>10. WinsockCounted'
  <2>1. Using' = Using
    BY <1>1 DEF Using, UsesWinsock
  <2> QED BY <1>0, <1>1, <2>1 DEF WinsockCounted, ServerUses
<1> QED BY <1>1, <1>6, <1>7, <1>8, <1>9, <1>10, OneConnection

(* The other half of close. *)
LEMMA ReleaseInOrder ==
  ASSUME HandleTypeOK, LifeInv, InOrder, NEW c \in Conns,
         FlowReleases(c) \/ ConnectionDeleted(c)
  PROVE  InOrder'
<1>0. /\ HolderIsOwner(c) /\ SocketKept(c) /\ ListenerKept /\ WinsockCounted
      /\ conn \in [Conns -> {"new", "failed", "created", "closing", "gone"}]
      /\ flow \in [Conns -> {"none", "callback", "done"} \cup Active]
      /\ Listener \notin Conns /\ Nobody \notin Conns \cup {Listener} /\ Invalid \notin Handles
      /\ DOMAIN holder = Handles /\ DOMAIN socket = Conns
      /\ IsFiniteSet(Using) /\ Cardinality(Using) \in Nat
  BY CNAssumption, UsingIsFinite
     DEF InOrder, LifeInv, LifeTypeOK, HandleTypeOK, Nobody, Invalid
<1>1. Release(c) /\ UNCHANGED <<kind, manager, server, listen, stale>>
  BY DEF FlowReleases, ConnectionDeleted
<1>2. \/ flow[c] = "release" /\ flow' = [flow EXCEPT ![c] = "callback"] /\ conn' = conn
      \/ conn[c] = "closing" /\ conn' = [conn EXCEPT ![c] = "gone"] /\ flow' = flow
  BY DEF FlowReleases, ConnectionDeleted, FlowGoesTo, After
<1>3. HasClosed(c) /\ socket[c] # Invalid /\ c \notin stale
  BY <1>0, <1>2 DEF HasClosed, SocketKept
<1>4. \A h \in Handles : holder[h] # c
  BY <1>0, <1>3 DEF HolderIsOwner
<1>5. /\ kind[c] = "pipe" => socket' = socket
      /\ kind[c] # "pipe" => socket' = [socket EXCEPT ![c] = Invalid]
  BY <1>1 DEF Release, HandleTypeOK
<1>6. \A h \in Handles :
        /\ holder'[h] \in {holder[h], Nobody}
        /\ holder[h] = Listener => holder'[h] = Listener
        /\ \A d \in Conns \ {c} :
             holder[h] = d => holder'[h] = d \/ (kind[d] = "tcpServer" /\ server = "stopped")
  <2>1. CASE UsesWinsock(c)
    <3>1. c \in Using /\ WSACleanup
      BY <1>1, <1>3, <2>1 DEF Using, Release
    <3> QED BY <1>0, <3>1, CleanupStep
  <2>2. CASE ~UsesWinsock(c)
    BY <1>1, <2>2 DEF Release
  <2> QED BY <2>1, <2>2
<1>7. WinsockCounted'
  <2>1. CASE UsesWinsock(c)
    <3>1. c \in Using /\ WSACleanup
      BY <1>1, <1>3, <2>1 DEF Using, Release
    <3>2. wsa' = wsa - 1
      BY <3>1, CleanupStep
    <3>3. Using' = Using \ {c}
      <4>1. socket' = [socket EXCEPT ![c] = Invalid]
        BY <1>5, <2>1 DEF UsesWinsock
      <4> QED BY <1>0, <1>1, <4>1 DEF Using, UsesWinsock
    <3>4. Cardinality(Using') = Cardinality(Using) - 1
      BY <1>0, <3>1, <3>3, FS_RemoveElement
    <3>5. ServerUses' = ServerUses /\ ServerUses \in {0, 1}
      BY <1>1 DEF ServerUses
    <3> QED BY <1>0, <3>2, <3>4, <3>5 DEF WinsockCounted
  <2>2. CASE ~UsesWinsock(c)
    <3>1. wsa' = wsa
      BY <1>1, <2>2 DEF Release
    <3>2. Using' = Using
      BY <1>0, <1>1, <1>5, <2>2 DEF Using, UsesWinsock
    <3> QED BY <1>0, <1>1, <3>1, <3>2 DEF WinsockCounted, ServerUses
  <2> QED BY <2>1, <2>2
<1>8. \A d \in Conns \ {c} : LeftAlone(d)
  BY <1>0, <1>1, <1>2, <1>5, <1>6 DEF LeftAlone, CutOff
<1>9. ListenerKept'
  BY <1>0, <1>1, <1>6 DEF ListenerKept, HandleTypeOK
<1>10. HolderIsOwner(c)'
  <2>1. \A h \in Handles : holder'[h] # c
    BY <1>0, <1>4, <1>6
  <2>2. socket'[c] # Invalid => HasClosed(c)'
    BY <1>0, <1>1, <1>2, <1>3, <1>5 DEF HasClosed, SocketKept
  <2> QED BY <2>1, <2>2 DEF HolderIsOwner
<1>11. SocketKept(c)'
  <2>1. CASE flow[c] = "release" /\ flow' = [flow EXCEPT ![c] = "callback"] /\ conn' = conn
    BY <1>0, <1>1, <1>3, <1>5, <2>1 DEF SocketKept, UsesWinsock
  <2>2. CASE conn[c] = "closing" /\ conn' = [conn EXCEPT ![c] = "gone"] /\ flow' = flow
    BY <1>0, <1>1, <1>3, <1>5, <2>2 DEF SocketKept, UsesWinsock
  <2> QED BY <1>2, <2>1, <2>2
<1> QED BY <1>1, <1>7, <1>8, <1>9, <1>10, <1>11, OneConnection
(* A new connection: it opens a handle, or keeps one that it has closed.   *)
LEMMA CreateInOrder ==
  ASSUME HandleTypeOK, LifeInv, InOrder, NEW c \in Conns, NEW h \in Handles,
         conn[c] = "new", Free(h), socket' = [socket EXCEPT ![c] = h],
         UNCHANGED <<kind, manager, flow, server, listen>>,
         \/ /\ kind[c] = "tcpServer" => server = "listening"
            /\ conn' = [conn EXCEPT ![c] = "created"]
            /\ holder' = [holder EXCEPT ![h] = c]
            /\ wsa' = IF UsesWinsock(c) THEN wsa + 1 ELSE wsa
            /\ UNCHANGED stale
         \/ /\ UsesWinsock(c)
            /\ conn' = [conn EXCEPT ![c] = "failed"]
            /\ stale' = stale \cup {c}
            /\ UNCHANGED <<holder, wsa>>
  PROVE  InOrder'
<1>0. /\ HolderIsOwner(c) /\ SocketKept(c) /\ ListenerKept /\ WinsockCounted
      /\ conn \in [Conns -> {"new", "failed", "created", "closing", "gone"}]
      /\ Listener \notin Conns /\ Nobody \notin Conns \cup {Listener} /\ Invalid \notin Handles
      /\ DOMAIN holder = Handles /\ DOMAIN socket = Conns /\ holder[h] = Nobody
      /\ IsFiniteSet(Using) /\ Cardinality(Using) \in Nat /\ wsa \in Nat
  BY CNAssumption, UsingIsFinite
     DEF InOrder, LifeInv, LifeTypeOK, HandleTypeOK, Nobody, Invalid, Free
<1>1. manager[c] = "none" /\ flow[c] = "none" /\ c \notin stale /\ socket[c] = Invalid
  BY <1>0 DEF SocketKept
<1>2. \A g \in Handles : holder[g] # c
  BY <1>0, <1>1 DEF HolderIsOwner
<1>3. c \notin Using
  BY <1>1 DEF Using
<1>4. CASE /\ kind[c] = "tcpServer" => server = "listening"
           /\ conn' = [conn EXCEPT ![c] = "created"]
           /\ holder' = [holder EXCEPT ![h] = c]
           /\ wsa' = IF UsesWinsock(c) THEN wsa + 1 ELSE wsa
           /\ UNCHANGED stale
  <2>1. \A d \in Conns \ {c} : LeftAlone(d)
    BY <1>0, <1>4 DEF LeftAlone
  <2>2. ListenerKept'
    BY <1>0, <1>4 DEF ListenerKept
  <2>3. HolderIsOwner(c)'
    BY <1>0, <1>1, <1>2, <1>4 DEF HolderIsOwner, HasClosed
  <2>4. SocketKept(c)'
    BY <1>0, <1>1, <1>4 DEF SocketKept, UsesWinsock
  <2>5. Using' = IF UsesWinsock(c) THEN Using \cup {c} ELSE Using
    BY <1>0, <1>1, <1>4 DEF Using, UsesWinsock
  <2>6. Cardinality(Using') = IF UsesWinsock(c) THEN Cardinality(Using) + 1 ELSE Cardinality(Using)
    BY <1>0, <1>3, <2>5, FS_AddElement
  <2>7. WinsockCounted'
    BY <1>0, <1>4, <2>6 DEF WinsockCounted, ServerUses
  <2> QED BY <2>1, <2>2, <2>3, <2>4, <2>7, OneConnection
<1>5. CASE /\ UsesWinsock(c)
           /\ conn' = [conn EXCEPT ![c] = "failed"]
           /\ stale' = stale \cup {c}
           /\ UNCHANGED <<holder, wsa>>
  <2>1. \A d \in Conns \ {c} : LeftAlone(d)
    BY <1>0, <1>5 DEF LeftAlone
  <2>2. ListenerKept'
    BY <1>0, <1>5 DEF ListenerKept
  <2>3. HolderIsOwner(c)'
    BY <1>2, <1>5 DEF HolderIsOwner
  <2>4. SocketKept(c)'
    BY <1>0, <1>1, <1>5 DEF SocketKept, UsesWinsock
  <2>5. Using' = Using
    BY <1>0, <1>1, <1>5 DEF Using, UsesWinsock
  <2>6. WinsockCounted'
    BY <1>0, <1>5, <2>5 DEF WinsockCounted, ServerUses
  <2> QED BY <2>1, <2>2, <2>3, <2>4, <2>6, OneConnection
<1> QED BY <1>4, <1>5

LEMMA BooksInvariant == Spec => [](LifeInv /\ HandleTypeOK /\ Books)
<1>1. Init => HandleTypeOK /\ Books
  <2> SUFFICES ASSUME Init PROVE HandleTypeOK /\ Books
    OBVIOUS
  <2>1. HandleTypeOK
    BY CNAssumption DEF Init, HandleTypeOK
  <2>2. \A c \in Conns : HolderIsOwner(c) /\ SocketKept(c)
    BY CNAssumption DEF Init, HolderIsOwner, SocketKept, HasClosed, Invalid, Nobody
  <2>3. ListenerKept
    BY CNAssumption DEF Init, ListenerKept, Invalid, Nobody
  <2>4. WinsockCounted
    <3>1. Using = {}
      BY DEF Init, Using
    <3> QED BY <3>1, FS_EmptySet DEF Init, WinsockCounted, ServerUses
  <2> QED BY <2>1, <2>2, <2>3, <2>4 DEF Books, InOrder
<1>2. LifeInv /\ HandleTypeOK /\ Books /\ [Next]_vars => HandleTypeOK' /\ Books'
  <2> SUFFICES ASSUME LifeInv, HandleTypeOK, Books, [Next]_vars
               PROVE  HandleTypeOK' /\ Books'
    OBVIOUS
  <2>1. HandleTypeOK' /\ kind' = kind /\ wrong \subseteq wrong' /\ stale \subseteq stale'
    BY HandleTypes
  <2> SUFFICES ASSUME wrong' = {} PROVE InOrder'
    BY <2>1 DEF Books
  <2>2. wrong = {} /\ InOrder
    BY <2>1 DEF Books
  <2>3. CASE StartTCPServer \/ StopTCPServer \/ ServerStopped
    BY <2>2, <2>3, ServerInOrder
  <2>4. ASSUME NEW c \in Conns, Create(c) PROVE InOrder'
    <3>1. conn[c] = "new" /\ UNCHANGED <<kind, manager, flow, server, listen>>
      BY <2>4 DEF Create
    <3>2. CASE UNCHANGED socket
      <4>1. socket[c] = Invalid
        BY <2>2, <3>1 DEF InOrder, SocketKept, HandleTypeOK
      <4> QED BY <2>2, <2>4, <3>2, <4>1, QuietInOrder
    <3>3. CASE ~UNCHANGED socket
      BY <2>2, <2>4, <3>1, <3>3, CreateInOrder DEF Create
    <3> QED BY <3>2, <3>3
  <2>5. ASSUME NEW c \in Conns, FlowCloses(c) \/ DeleteConnection(c) PROVE InOrder'
    <3>1. CASE socket[c] = Invalid \/ (DeleteConnection(c) /\ kind[c] = "pipe")
      BY <2>2, <2>5, <3>1, QuietInOrder
    <3>2. CASE ~(socket[c] = Invalid \/ (DeleteConnection(c) /\ kind[c] = "pipe"))
      BY <2>2, <2>5, <3>2, ClosesInOrder
    <3> QED BY <3>1, <3>2
  <2>6. ASSUME NEW c \in Conns, FlowReleases(c) \/ ConnectionDeleted(c) PROVE InOrder'
    BY <2>2, <2>6, ReleaseInOrder
  <2>7. ASSUME NEW c \in Conns,
               StartDataFlow(c) \/ LeaveLoop(c) \/ FlowCallsBack(c) \/ DeleteManager(c)
        PROVE  InOrder'
    BY <2>2, <2>7, QuietInOrder
  <2>8. CASE UNCHANGED vars
    BY <2>2, <2>8
       DEF vars, objects, system, InOrder, HolderIsOwner, SocketKept, HasClosed, CutOff,
           UsesWinsock, ListenerKept, WinsockCounted, Using, ServerUses
  <2> QED BY <2>3, <2>4, <2>5, <2>6, <2>7, <2>8 DEF Next
<1> QED BY <1>1, <1>2, LifeInvariant, PTL DEF Spec

(* While nobody has closed what is not his, a socket in use is held by     *)
(* its connection or cut off by the end of its server, Winsock is started  *)
(* as often as it is used, and a connection that is deleted has given back *)
(* its handle, unless it is a pipe whose flow has not ended.               *)
THEOREM KeptAndReleasedCorrect == Spec => []KeptAndReleased
<1>1. LifeInv /\ HandleTypeOK /\ Books => KeptAndReleased
  <2> SUFFICES ASSUME LifeInv, HandleTypeOK, InOrder, wrong = {} PROVE KeptAndReleased
    BY DEF Books, KeptAndReleased
  <2>1. ASSUME NEW c \in Conns
        PROVE  /\ flow[c] = "running" /\ way[c] # "direct" =>
                    holder[socket[c]] = c \/ (kind[c] = "tcpServer" /\ server = "stopped")
               /\ conn[c] = "gone" =>
                    (\A h \in Handles : holder[h] # c) \/ (kind[c] = "pipe" /\ flow[c] # "done")
    <3>1. HolderIsOwner(c) /\ SocketKept(c) /\ NoDanglingUseOf(c) /\ Invalid \notin Handles
      BY CNAssumption DEF InOrder, LifeInv, Invalid
    <3>2. ASSUME flow[c] = "running", way[c] # "direct"
          PROVE  holder[socket[c]] = c \/ (kind[c] = "tcpServer" /\ server = "stopped")
      <4>1. conn[c] = "created" /\ socket[c] # Invalid
        BY <3>1, <3>2 DEF NoDanglingUseOf, SocketKept, Active
      <4>2. ~HasClosed(c) /\ c \notin stale
        BY <3>1, <3>2, <4>1 DEF HasClosed, SocketKept
      <4> QED BY <3>1, <4>1, <4>2 DEF HolderIsOwner, CutOff
    <3>3. ASSUME conn[c] = "gone", NEW h \in Handles, holder[h] = c
          PROVE  kind[c] = "pipe" /\ flow[c] # "done"
      <4>1. socket[c] = h /\ h # Invalid /\ ~HasClosed(c)
        BY <3>1, <3>3 DEF HolderIsOwner
      <4> QED BY <3>1, <3>3, <4>1 DEF SocketKept, HasClosed
    <3> QED BY <3>2, <3>3
  <2>2. wsa = Cardinality(Using) + ServerUses
    BY DEF InOrder, WinsockCounted
  <2> QED BY <2>1, <2>2 DEF KeptAndReleased, Using, ServerUses
<1> QED BY <1>1, BooksInvariant, PTL
(* A connection that closes what is not its own is one of the guilty.      *)
LEMMA WrongIsGuilty ==
  ASSUME LifeInv, HandleTypeOK, InOrder, wrong = {}, NEW c \in Conns, socket[c] # Invalid,
         holder[socket[c]] # c,
         flow[c] = "close" \/ (MayDelete(c) /\ kind[c] # "pipe")
  PROVE  Guilty(c)
<1>1. /\ HolderIsOwner(c) /\ SocketKept(c) /\ Orderly(c) /\ NoDanglingUseOf(c)
      /\ way[c] \in {"blocking", "callback", "direct"}
  BY CNAssumption DEF InOrder, LifeInv, LifeTypeOK
<1>2. HasClosed(c) \/ c \in stale \/ CutOff(c)
  BY <1>1 DEF HolderIsOwner
<1>3. ASSUME HasClosed(c) PROVE way[c] = "direct"
  <2>1. CASE flow[c] = "close"
    BY <1>1, <1>3, <2>1 DEF HasClosed, NoDanglingUseOf, Active
  <2>2. CASE MayDelete(c) /\ kind[c] # "pipe"
    <3>1. flow[c] = "release"
      BY <1>3, <2>2 DEF HasClosed, MayDelete
    <3>2. manager[c] = "gone"
      BY <1>1, <2>2, <3>1 DEF MayDelete, Orderly
    <3> QED BY <1>1, <3>1, <3>2 DEF Orderly
  <2> QED BY <2>1, <2>2
<1> QED BY <1>2, <1>3 DEF Guilty, CutOff

(* Every variable keeps its type, for any number of connections.           *)
THEOREM TypeCorrect == Spec => []TypeOK
<1>1. Init => wrong \subseteq Conns \cup {Listener}
  BY DEF Init
<1>2. /\ LifeInv /\ HandleTypeOK /\ wrong \subseteq Conns \cup {Listener} /\ [Next]_vars
      => (wrong \subseteq Conns \cup {Listener})'
  <2> SUFFICES ASSUME LifeInv, HandleTypeOK, wrong \subseteq Conns \cup {Listener}, [Next]_vars
               PROVE  wrong' \subseteq Conns \cup {Listener}
    OBVIOUS
  <2>1. ASSUME NEW who \in Conns \cup {Listener}, NEW h, CloseHandle(who, h)
        PROVE  wrong' \subseteq Conns \cup {Listener}
    BY <2>1 DEF CloseHandle
  <2>2. \/ wrong' = wrong
        \/ StopTCPServer
        \/ \E c \in Conns : FlowCloses(c) \/ DeleteConnection(c)
    BY DEF Next, vars, system, StartTCPServer, ServerStopped, Create, StartDataFlow,
           LeaveLoop, FlowReleases, FlowCallsBack, ConnectionDeleted, DeleteManager
  <2>3. CASE StopTCPServer
    BY <2>1, <2>3 DEF StopTCPServer
  <2>4. ASSUME NEW c \in Conns, FlowCloses(c) \/ DeleteConnection(c)
        PROVE  wrong' \subseteq Conns \cup {Listener}
    BY <2>1, <2>4 DEF FlowCloses, DeleteConnection
  <2> QED BY <2>2, <2>3, <2>4
<1>3. LifeInv /\ HandleTypeOK /\ wrong \subseteq Conns \cup {Listener} => TypeOK
  BY DEF LifeInv, LifeTypeOK, HandleTypeOK, TypeOK, Active
<1> QED BY <1>1, <1>2, <1>3, BooksInvariant, PTL DEF Spec

(* If a handle has ever been closed by one who had not opened it, somebody *)
(* who had kept a stale handle, or was deleted under his flow, or had lost *)
(* his server, has done so.                                                *)
THEOREM ClosedByOwnerCorrect == Spec => []ClosedByOwner
<1>1. Init => ClosedByOwner
  BY DEF Init, ClosedByOwner
<1>2. LifeInv /\ HandleTypeOK /\ Books /\ ClosedByOwner /\ [Next]_vars => ClosedByOwner'
  <2> SUFFICES ASSUME LifeInv, HandleTypeOK, Books, ClosedByOwner, [Next]_vars
               PROVE  ClosedByOwner'
    OBVIOUS
  <2>1. kind' = kind /\ way' = way /\ wrong \subseteq wrong' /\ stale \subseteq stale'
    BY HandleTypes, LifeSteps DEF LifeInv
  <2>2. server = "stopped" => server' = "stopped"
    BY DEF Next, vars, system, StartTCPServer, StopTCPServer, ServerStopped, Create,
           StartDataFlow, LeaveLoop, FlowCloses, FlowReleases, FlowCallsBack,
           DeleteConnection, ConnectionDeleted, DeleteManager
  <2>3. ASSUME NEW who, Guilty(who) PROVE Guilty(who)'
    BY <2>1, <2>2, <2>3 DEF Guilty
  <2>4. CASE wrong # {}
    BY <2>1, <2>3, <2>4 DEF ClosedByOwner
  <2>5. CASE wrong = {} /\ wrong' = {}
    BY <2>5 DEF ClosedByOwner
  <2>6. CASE wrong = {} /\ wrong' # {}
    <3>1. InOrder
      BY <2>6 DEF Books
    <3>2. ASSUME NEW who, NEW h, CloseHandle(who, h)
          PROVE  holder[h] # who /\ who \in wrong'
      BY <2>6, <3>2 DEF CloseHandle
    <3>3. \/ StopTCPServer
          \/ \E c \in Conns : FlowCloses(c) \/ DeleteConnection(c)
      BY <2>6 DEF Next, vars, system, StartTCPServer, ServerStopped, Create, StartDataFlow,
                  LeaveLoop, FlowReleases, FlowCallsBack, ConnectionDeleted, DeleteManager
    <3>4. CASE StopTCPServer
      <4>1. listen # Invalid /\ server \in {"listening", "failed"} /\ CloseHandle(Listener, listen)
        BY <2>6, <3>4 DEF StopTCPServer
      <4>2. holder[listen] # Listener /\ Listener \in wrong'
        BY <3>2, <4>1
      <4>3. Listener \in stale
        BY <3>1, <4>1, <4>2 DEF InOrder, ListenerKept
      <4> QED BY <2>3, <4>2, <4>3 DEF ClosedByOwner, Guilty
    <3>5. ASSUME NEW c \in Conns, FlowCloses(c) \/ DeleteConnection(c)
          PROVE  ClosedByOwner'
      <4>1. /\ socket[c] # Invalid /\ CloseHandle(c, socket[c])
            /\ flow[c] = "close" \/ (MayDelete(c) /\ kind[c] # "pipe")
        BY <2>6, <3>5 DEF FlowCloses, DeleteConnection
      <4>2. holder[socket[c]] # c /\ c \in wrong'
        BY <3>2, <4>1
      <4>3. Guilty(c)
        BY <2>6, <3>1, <4>1, <4>2, WrongIsGuilty
      <4> QED BY <2>3, <4>2, <4>3 DEF ClosedByOwner
    <3> QED BY <3>3, <3>4, <3>5
  <2> QED BY <2>4, <2>5, <2>6
<1> QED BY <1>1, <1>2, BooksInvariant, PTL DEF Spec

=============================================================================
