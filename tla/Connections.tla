----------------------------- MODULE Connections -----------------------------
(***************************************************************************)
(* The life of the C++ connections of one process, from create to their    *)
(* destruction: tcpSocketClient.h, tcpSocketServer.h, udpSocket.h and      *)
(* namedPipeClient.h, each with a manager whose data flow closes it        *)
(* (dataFlow of messageManager.h) and the user who deletes both.  What     *)
(* they share is the operating system's: handles, which it gives to        *)
(* somebody else once they are closed, and the count of WSAStartup, whose  *)
(* last WSACleanup closes every socket of the process.                     *)
(***************************************************************************)
EXTENDS Integers, FiniteSets

CONSTANTS
  Conns,    \* connections
  Kinds,    \* of "tcpClient", "tcpServer", "udp" and "pipe"
  Ways,     \* how the user deletes: "blocking" after startDataFlowBlocking,
            \* "callback" in onCloseCallback, "direct" at any time after
            \* startDataFlowNonBlocking
  Handles,  \* values of handles
  Listener  \* stands for startTCPServer among the owners of handles

ASSUME CNAssumption ==
  /\ Kinds \subseteq {"tcpClient", "tcpServer", "udp", "pipe"}
  /\ Ways \subseteq {"blocking", "callback", "direct"}
  /\ Handles \subseteq Nat \ {0}
  /\ Listener \notin Conns
  /\ "nobody" \notin Conns \cup {Listener}
  /\ IsFiniteSet(Conns) /\ IsFiniteSet(Handles)

VARIABLES
  kind, way,
  conn,     \* the connection object
  manager,  \* the manager object
  flow,     \* where the data flow is
  socket,   \* connectSocket, clientSocket, mSocket or hPipe
  server,   \* what startTCPServer and stopTCPServer have done
  listen,   \* the handle startTCPServer returned
  holder,   \* who has opened a handle
  wsa,      \* WSAStartup without WSACleanup
  stale,    \* history: who has kept the handle that it closed when its
            \* creation failed
  wrong     \* history: who has closed a handle that was not its own

objects == <<conn, manager, flow, socket>>
system  == <<server, listen, holder, wsa, stale, wrong>>
vars == <<kind, way, objects, system>>

Invalid == 0  \* INVALID_SOCKET
Nobody == "nobody"

-----------------------------------------------------------------------------
(* The operating system. *)

Free(h) == holder[h] = Nobody

(* closesocket or CloseHandle; closesocket has no effect on a pipe. *)
CloseHandle(who, h) ==
  /\ wrong' = IF holder[h] = who THEN wrong ELSE wrong \cup {who}
  /\ holder' = IF \E c \in Conns \ {who} : holder[h] = c /\ kind[c] = "pipe" THEN holder
               ELSE [holder EXCEPT ![h] = Nobody]

WSACleanup ==
  /\ wsa' = IF wsa > 0 THEN wsa - 1 ELSE 0
  /\ holder' = IF wsa > 1 THEN holder
               ELSE [h \in Handles |->
                       IF \E c \in Conns : holder[h] = c /\ kind[c] = "pipe" THEN holder[h]
                       ELSE Nobody]

-----------------------------------------------------------------------------
(* startTCPServer.  When bind or listen fails it returns the handle that   *)
(* it has closed, not INVALID_SOCKET.                                      *)
StartTCPServer ==
  /\ server = "none"
  /\ \/ server' = "failed" /\ UNCHANGED <<listen, holder, wsa, stale>>
     \/ \E h \in Handles :
          /\ Free(h)
          /\ listen' = h
          /\ \/ /\ server' = "listening"
                /\ holder' = [holder EXCEPT ![h] = Listener]
                /\ wsa' = wsa + 1
                /\ UNCHANGED stale
             \/ /\ server' = "failed"
                /\ stale' = stale \cup {Listener}
                /\ UNCHANGED <<holder, wsa>>
  /\ UNCHANGED <<kind, way, objects, wrong>>

(* stopTCPServer: closesocket, then WSACleanup. *)
StopTCPServer ==
  /\ server \in {"listening", "failed"}
  /\ IF listen = Invalid THEN server' = "stopped" /\ UNCHANGED <<holder, wrong>>
     ELSE server' = "stopping" /\ CloseHandle(Listener, listen)
  /\ UNCHANGED <<kind, way, objects, listen, wsa, stale>>

ServerStopped ==
  /\ server = "stopping"
  /\ server' = "stopped"
  /\ WSACleanup
  /\ UNCHANGED <<kind, way, objects, listen, stale, wrong>>

-----------------------------------------------------------------------------
(* create.  A tcpSocketClient whose connect and a udpSocket whose bind     *)
(* fails has closed its socket and called WSACleanup, and keeps the value  *)
(* of the handle.                                                          *)
UsesWinsock(c) == kind[c] \in {"tcpClient", "udp"}  \* calls WSAStartup itself

Create(c) ==
  /\ conn[c] = "new"
  /\ \/ /\ conn' = [conn EXCEPT ![c] = "failed"]
        /\ UNCHANGED <<socket, holder, wsa, stale>>
     \/ \E h \in Handles :
          /\ Free(h)
          /\ socket' = [socket EXCEPT ![c] = h]
          /\ \/ /\ kind[c] = "tcpServer" => server = "listening"  \* accept
                /\ conn' = [conn EXCEPT ![c] = "created"]
                /\ holder' = [holder EXCEPT ![h] = c]
                /\ wsa' = IF UsesWinsock(c) THEN wsa + 1 ELSE wsa
                /\ UNCHANGED stale
             \/ /\ UsesWinsock(c)
                /\ conn' = [conn EXCEPT ![c] = "failed"]
                /\ stale' = stale \cup {c}
                /\ UNCHANGED <<holder, wsa>>
  /\ UNCHANGED <<kind, way, manager, flow, server, listen, wrong>>

(* A manager is made for the connection and its data flow starts. *)
StartDataFlow(c) ==
  /\ conn[c] = "created" /\ manager[c] = "none"
  /\ manager' = [manager EXCEPT ![c] = "alive"]
  /\ flow' = [flow EXCEPT ![c] = "running"]
  /\ UNCHANGED <<kind, way, conn, socket, system>>

(* Mutant of After: the callback comes before the connection is closed. *)
AfterCallbackFirst(stage) ==
  CASE stage = "running" -> "callback" [] stage = "callback" -> "close" [] OTHER -> "done"

(* The end of dataFlow: the loop, mConn->close(), onCloseCallback. *)
After(stage) ==
  CASE stage = "running" -> "close" [] stage = "close" -> "callback" [] OTHER -> "done"

FlowGoesTo(c, stage) == flow' = [flow EXCEPT ![c] = stage]

(* The loop ends: the peer is gone, an error, or stopDataFlow. *)
LeaveLoop(c) ==
  /\ flow[c] = "running"
  /\ FlowGoesTo(c, After("running"))
  /\ UNCHANGED <<kind, way, conn, manager, socket, system>>

(* Mutants of Release: without the assignment, and without WSACleanup. *)
ReleaseKeepsSocket(c) ==
  /\ UNCHANGED socket
  /\ IF UsesWinsock(c) THEN WSACleanup ELSE UNCHANGED <<holder, wsa>>
ReleaseNoCleanup(c) ==
  /\ socket' = [socket EXCEPT ![c] = IF kind[c] = "pipe" THEN @ ELSE Invalid]
  /\ UNCHANGED <<holder, wsa>>

(* close behind closesocket: the socket is INVALID_SOCKET, and those that  *)
(* called WSAStartup call WSACleanup.  A pipe keeps its handle.            *)
Release(c) ==
  /\ socket' = [socket EXCEPT ![c] = IF kind[c] = "pipe" THEN @ ELSE Invalid]
  /\ IF UsesWinsock(c) THEN WSACleanup ELSE UNCHANGED <<holder, wsa>>

(* mConn->close(), which looks at the socket first unless it is a pipe. *)
FlowCloses(c) ==
  /\ flow[c] = "close"
  /\ IF socket[c] = Invalid THEN FlowGoesTo(c, After("close")) /\ UNCHANGED <<holder, wrong>>
     ELSE FlowGoesTo(c, "release") /\ CloseHandle(c, socket[c])
  /\ UNCHANGED <<kind, way, conn, manager, socket, server, listen, wsa, stale>>

FlowReleases(c) ==
  /\ flow[c] = "release"
  /\ FlowGoesTo(c, After("close"))
  /\ Release(c)
  /\ UNCHANGED <<kind, way, conn, manager, server, listen, stale, wrong>>

(* onCloseCallback, if there is one; it ends when it has deleted both. *)
FlowCallsBack(c) ==
  /\ flow[c] = "callback"
  /\ way[c] = "callback" => manager[c] = "gone"
  /\ FlowGoesTo(c, After("callback"))
  /\ UNCHANGED <<kind, way, conn, manager, socket, system>>

-----------------------------------------------------------------------------
(* delete of the connection: the user's, when the manager is gone or was   *)
(* never made; or that of the callback, which begins with it.  The         *)
(* destructor closes, but that of a pipe does nothing.                     *)
MayDelete(c) ==
  \/ conn[c] \in {"created", "failed"} /\ manager[c] = "none"
  \/ conn[c] = "created" /\ manager[c] = "gone"
  \/ conn[c] = "created" /\ way[c] = "callback" /\ flow[c] = "callback"

DeleteConnection(c) ==
  /\ MayDelete(c)
  /\ IF socket[c] = Invalid \/ kind[c] = "pipe"
     THEN conn' = [conn EXCEPT ![c] = "gone"] /\ UNCHANGED <<holder, wrong>>
     ELSE conn' = [conn EXCEPT ![c] = "closing"] /\ CloseHandle(c, socket[c])
  /\ UNCHANGED <<kind, way, manager, flow, socket, server, listen, wsa, stale>>

ConnectionDeleted(c) ==
  /\ conn[c] = "closing"
  /\ conn' = [conn EXCEPT ![c] = "gone"]
  /\ Release(c)
  /\ UNCHANGED <<kind, way, manager, flow, server, listen, stale, wrong>>

(* delete of the manager; no destructor waits for the data flow. *)
DeleteManager(c) ==
  /\ manager[c] = "alive"
  /\ CASE way[c] = "blocking" -> flow[c] = "done"
       [] way[c] = "callback" -> flow[c] = "callback" /\ conn[c] = "gone"
       [] way[c] = "direct"   -> TRUE
  /\ manager' = [manager EXCEPT ![c] = "gone"]
  /\ UNCHANGED <<kind, way, conn, flow, socket, system>>

Init ==
  /\ kind \in [Conns -> Kinds]
  /\ way \in [Conns -> Ways]
  /\ conn = [c \in Conns |-> "new"]
  /\ manager = [c \in Conns |-> "none"]
  /\ flow = [c \in Conns |-> "none"]
  /\ socket = [c \in Conns |-> Invalid]
  /\ server = "none" /\ listen = Invalid
  /\ holder = [h \in Handles |-> Nobody]
  /\ wsa = 0 /\ stale = {} /\ wrong = {}

Next ==
  \/ StartTCPServer \/ StopTCPServer \/ ServerStopped
  \/ \E c \in Conns :
       \/ Create(c) \/ StartDataFlow(c)
       \/ LeaveLoop(c) \/ FlowCloses(c) \/ FlowReleases(c) \/ FlowCallsBack(c)
       \/ DeleteConnection(c) \/ ConnectionDeleted(c) \/ DeleteManager(c)

Spec == Init /\ [][Next]_vars

-----------------------------------------------------------------------------
(* Properties. *)

(* Every variable keeps its type: a handle has one holder, and a           *)
(* connection is in one of the stages of its life.                         *)
TypeOK ==
  /\ way \in [Conns -> Ways]
  /\ kind \in [Conns -> {"tcpClient", "tcpServer", "udp", "pipe"}]
  /\ conn \in [Conns -> {"new", "failed", "created", "closing", "gone"}]
  /\ manager \in [Conns -> {"none", "alive", "gone"}]
  /\ flow \in [Conns -> {"none", "running", "close", "release", "callback", "done"}]
  /\ socket \in [Conns -> Handles \cup {Invalid}]
  /\ listen \in Handles \cup {Invalid}
  /\ server \in {"none", "failed", "listening", "stopping", "stopped"}
  /\ holder \in [Handles -> Conns \cup {Listener, Nobody}]
  /\ wsa \in Nat
  /\ stale \subseteq Conns \cup {Listener} /\ wrong \subseteq Conns \cup {Listener}

(* The data flow, a detached thread, does not touch a connection or a      *)
(* manager that has been deleted, if the user deletes them behind          *)
(* startDataFlowBlocking (example1.cpp) or in onCloseCallback              *)
(* (example4RPCServerOverTCP.cpp); a user who deletes at once              *)
(* (example3.cpp:63) has no such promise.                                  *)
NoDanglingUse ==
  \A c \in Conns : way[c] # "direct" =>
    /\ flow[c] \in {"running", "close", "release"} => conn[c] = "created" /\ manager[c] = "alive"
    /\ flow[c] = "callback" => manager[c] = "alive" \/ way[c] = "callback"

(* Those who may close what is not theirs: whose creation failed behind    *)
(* the socket (tcpSocketClient.h:89, udpSocket.h:95, tcpSocketServer.h:61),*)
(* who is deleted while its flow may run, and a connection that was        *)
(* accepted and whose server has been stopped, since it has no WSAStartup  *)
(* of its own.                                                             *)
Guilty(who) ==
  \/ who \in stale
  \/ who \in Conns /\ way[who] = "direct"
  \/ who \in Conns /\ kind[who] = "tcpServer" /\ server = "stopped"

(* A handle is closed by the one who has opened it, and once (close and    *)
(* the destructors of the connection managers): if ever somebody closes    *)
(* the handle of somebody else, or twice, one of the guilty has done it.   *)
ClosedByOwner == wrong = {} \/ \E who \in wrong : Guilty(who)

(* As long as that has not happened, nobody's socket disappears under him  *)
(* while he uses it, Winsock is started once for each open client, UDP and *)
(* listening socket and no more, and what is deleted is closed; but for    *)
(* connections accepted by a server that has been stopped, and a pipe that *)
(* never had a flow (namedPipeClient.h:41).                                *)
KeptAndReleased ==
  wrong = {} =>
    /\ \A c \in Conns :
         /\ flow[c] = "running" /\ way[c] # "direct" =>
              \/ holder[socket[c]] = c
              \/ kind[c] = "tcpServer" /\ server = "stopped"
         /\ conn[c] = "gone" =>
              \/ \A h \in Handles : holder[h] # c
              \/ kind[c] = "pipe" /\ flow[c] # "done"
    /\ wsa = Cardinality({c \in Conns : UsesWinsock(c) /\ socket[c] # Invalid /\ c \notin stale})
             + IF server \in {"listening", "stopping"} THEN 1 ELSE 0

=============================================================================
