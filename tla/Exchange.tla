------------------------------- MODULE Exchange -------------------------------
(***************************************************************************)
(* Two processes over one connection: the near one has an rpcClient or a   *)
(* dataPublisher, the far one the rpcServer or dataSubscriber it talks to, *)
(* each with the manager that reads, parses and answers.  It composes      *)
(* rpcServer.h, rpcClient.h, dataSubscriber.h and dataPublisher.h with     *)
(* rpcmpleclient.go, rpcmplesignature.go, datasubscriber.go and            *)
(* datapublisher.go, over a stream (TCP, a named pipe), UDP or the         *)
(* standard input and output.  The server exists in C++ only.              *)
(*                                                                         *)
(* A word stands for some bytes.  A header is two words, the digits of     *)
(* id * Base + length: Base stands for 16777216, also the limit of a       *)
(* length, and Ids for 256.  The body of the k-th message repeats k.  Its  *)
(* user is one thread that starts a call when the one before has returned; *)
(* RpcClient, GoRpcClient and the publishers' modules have many.           *)
(***************************************************************************)
EXTENDS Integers, SequencesExt

CONSTANTS
  Base, Ids,    \* digits of a header
  ArgLens,      \* for each procedure, the lengths of its encoded arguments
  RetLens,      \* and of its encoded returns; {0} for an empty signature
  Transports,   \* of "stream", "udp" and "stdio"
  GroupLimit,   \* a group is complete at this size, 1024 in the code
  MaxDatagram,  \* 65507 in the code
  MaxSent       \* bound: calls or published messages, lost and doubled datagrams

Procedures == DOMAIN ArgLens

ASSUME EXAssumption ==
  /\ Base \in Nat /\ MaxSent \in Nat
  /\ 2 < Base /\ MaxSent < Base /\ Ids \in 2 .. Base
  /\ Procedures \subseteq 0 .. Ids - 1 /\ DOMAIN RetLens = Procedures
  /\ \A p \in Procedures : ArgLens[p] \subseteq Nat /\ RetLens[p] \subseteq Nat
  /\ \A lens \in {ArgLens[p] : p \in Procedures} \cup {RetLens[p] : p \in Procedures} :
       0 \in lens => lens = {0}
  /\ Transports \subseteq {"stream", "udp", "stdio"}

VARIABLES
  pair,        \* "rpc" or "publish"
  lang,        \* the language of each side
  transport,
  topic,       \* the publisher's signature: that of this procedure's arguments
  net,         \* what is on its way to each side: words, or datagrams
  connected,   \* neither side has closed and the connection is not reset
  flow,        \* where the data flow of each side is
  reader,      \* the manager: words read and not yet used, the sub-message
               \* under construction and its length
  section,     \* sectionID of each parser
  header,      \* the success flag at the client, procedureID at the server
  serialized,  \* callReturnsSerialized of the server
  sent,        \* history: requests or messages that were to be written
  executed,    \* history: procedures called with what, or callbacks
  results,     \* history: what the procedures returned, and if it was encoded
  returned     \* history: replies handed to the user of the client

config  == <<pair, lang, transport, topic>>
history == <<sent, executed, results, returned>>
vars == <<config, net, connected, flow, reader, section, header, serialized, history>>

Sides == {"near", "far"}
Languages == {"C++", "Go"}
Words == 0 .. Base - 1
Message == [id : Nat, body : Seq(Words)]

-----------------------------------------------------------------------------
(* Mutants of Header: without the id, and with a length of any size. *)
HeaderWithoutId(id, len) == <<len % Base, 0>>
HeaderUnlimited(id, len) == <<len, id>>

(* uint32(id) * 16777216 + length, of which a length at the limit changes  *)
(* the id; mVal % 16777216 and mVal / 16777216 take it apart.              *)
Header(id, len) == <<(id * Base + len) % Base, ((id * Base + len) \div Base) % Ids>>
LengthOf(words) == words[1]
IdOf(words) == words[2]

TooLong(len) == len > Base

Body(k, len) == [i \in 1 .. len |-> k]

(* One of the first k messages has the length that its header carries over *)
(* into the id (rpcClient.h:221, rpcServer.h:231 compare with >).          *)
AtLimit(messages, k) ==
  \E i \in 1 .. k : i \in DOMAIN messages /\ Len(messages[i].body) >= Base

(* What the conversion of body to values says.  An empty signature takes   *)
(* whatever comes; any other takes a body that was encoded for it (one of  *)
(* intact) and refuses an empty one; of the rest both are possible.        *)
Decodes(body, intact, lens) ==
  IF 0 \in lens \/ body \in intact THEN {TRUE}
  ELSE IF body = <<>> THEN {FALSE} ELSE BOOLEAN

Bodies(messages) == {messages[i].body : i \in DOMAIN messages}

-----------------------------------------------------------------------------
(* The managers. *)

Finish(s) ==
  /\ flow' = [flow EXCEPT ![s] = "done"]
  /\ connected' = FALSE

(* Goes on with the rest of what was read, for a sub-message of length     *)
(* len.  A manager that is asked for length 0 and has nothing left to      *)
(* parse only asks its parser for something to send, again and again; a    *)
(* publisher's waits there for the next message.                           *)
Resume(s, rest, len) ==
  /\ reader' = [reader EXCEPT ![s] = [buffered |-> rest, message |-> <<>>, length |-> len]]
  /\ flow' = [flow EXCEPT ![s] = IF pair = "publish" /\ s = "near" THEN "idle"
                                 ELSE IF rest # <<>> THEN "round"
                                 ELSE IF len > 0 THEN "read" ELSE "spin"]
  /\ UNCHANGED connected

(* Mutant of Deliver: the header is a datagram of its own. *)
DeliverInPieces(to, words) ==
  net' = [net EXCEPT ![to] =
            @ \o IF transport # "udp" THEN words
                 ELSE <<SubSeq(words, 1, 2), SubSeq(words, 3, Len(words))>>]

(* send in a loop until all is written, or one sendto. *)
Deliver(to, words) ==
  net' = [net EXCEPT ![to] = IF transport = "udp" THEN Append(@, words) ELSE @ \o words]

(* mConn->write, and then the next sub-message, a header.  A stream whose  *)
(* other end is gone takes what is written or fails; a datagram may be too *)
(* large.                                                                  *)
Write(s, to, words, rest) ==
  LET broken == transport # "udp" /\ ~connected
      tooBig == transport = "udp" /\ Len(words) > MaxDatagram
  IN \/ ~broken /\ ~tooBig /\ Deliver(to, words) /\ Resume(s, rest, 2)
     \/ broken /\ UNCHANGED net /\ Resume(s, rest, 2)
     \/ (broken \/ tooBig) /\ Finish(s) /\ UNCHANGED <<net, reader>>

(* A stream gives any piece of what has arrived and UDP one datagram; in   *)
(* C++ the standard input gives nothing until the read buffer is full.     *)
ReadCap == Base + 2

StdInput(s) == transport = "stdio" /\ lang[s] = "C++"

Read(s) ==
  /\ flow[s] = "read"
  /\ IF transport = "udp"
     THEN \E i \in DOMAIN net[s] :
            /\ reader' = [reader EXCEPT ![s].buffered = net[s][i]]
            /\ net' = [net EXCEPT ![s] = RemoveAt(@, i)]
     ELSE \E n \in IF StdInput(s) THEN {ReadCap} ELSE 1 .. ReadCap :
            /\ n <= Len(net[s])
            /\ reader' = [reader EXCEPT ![s].buffered = SubSeq(net[s], 1, n)]
            /\ net' = [net EXCEPT ![s] = SubSeq(@, n + 1, Len(@))]
  /\ flow' = [flow EXCEPT ![s] = "round"]
  /\ UNCHANGED <<config, connected, section, header, serialized, history>>

(* End of file, or a reset that discards what has not been read. *)
ReadFails(s) ==
  /\ flow[s] = "read"
  /\ transport # "udp" /\ ~connected
  /\ Finish(s)
  /\ UNCHANGED <<config, net, reader, section, header, serialized, history>>

(* Mutant of Taken: C++ too takes the whole length. *)
TakenLength(s) == Min({Len(reader[s].buffered), reader[s].length})

(* One round of the inner loop: C++ takes what is missing, Go takes up to  *)
(* the whole length, which is too much after a read that ended inside.     *)
Taken(s) ==
  Min({Len(reader[s].buffered),
       reader[s].length - IF lang[s] = "C++" THEN Len(reader[s].message) ELSE 0})

Gathered(s) == reader[s].message \o SubSeq(reader[s].buffered, 1, Taken(s))
Rest(s) == SubSeq(reader[s].buffered, Taken(s) + 1, Len(reader[s].buffered))
Complete(s) == flow[s] = "round" /\ Len(Gathered(s)) = reader[s].length

Gather(s) ==
  /\ flow[s] = "round" /\ ~Complete(s)
  /\ reader' = [reader EXCEPT ![s].message = Gathered(s), ![s].buffered = Rest(s)]
  /\ flow' = [flow EXCEPT ![s] = IF Rest(s) = <<>> THEN "read" ELSE "round"]
  /\ UNCHANGED <<config, net, connected, section, header, serialized, history>>

ExpectHeader(s) == section' = [section EXCEPT ![s] = 0]

(* The header of a message with a body: the parser asks for the body. *)
ExpectBody(s, words) ==
  /\ section' = [section EXCEPT ![s] = 1]
  /\ header' = [header EXCEPT ![s] = IdOf(words)]
  /\ Resume(s, Rest(s), LengthOf(words))
  /\ UNCHANGED <<net, serialized, history>>

-----------------------------------------------------------------------------
(* The client. *)

(* callSync or Call, and writeMessage or SendMessage that was waiting for  *)
(* it.  A request that is too long ends the flow in C++; in Go Call        *)
(* returns, with the lock that every later Call needs.                     *)
Call(p, len) ==
  /\ pair = "rpc" /\ flow["near"] = "idle"
  /\ Len(sent) < MaxSent
  /\ ~AtLimit(sent, MaxSent) /\ ~AtLimit(results, MaxSent)  \* bound: no more calls then
  /\ IF TooLong(len)
     THEN /\ IF lang["near"] = "C++" THEN Finish("near")
             ELSE flow' = [flow EXCEPT !["near"] = "locked"] /\ UNCHANGED connected
          /\ UNCHANGED <<net, reader, sent>>
     ELSE LET body == Body(Len(sent) + 1, len)
          IN /\ sent' = Append(sent, [id |-> p, body |-> body])
             /\ Write("near", "far", Header(p, len) \o body, reader["near"].buffered)
  /\ UNCHANGED <<config, section, header, serialized, executed, results, returned>>

(* The reply is complete.  C++ ignores the success flag and its caller     *)
(* decodes; Go decodes for the procedure called last, and stops the flow   *)
(* when that fails.  Then the flow waits in writeMessage for a call.       *)
Reply(flag, body) ==
  LET mine(i) == results[i].whole /\ executed[i].id = Last(sent).id
      whole == {results[i].body : i \in {i \in DOMAIN results : mine(i)}}
      ok == IF lang["near"] = "C++" THEN {TRUE} ELSE Decodes(body, whole, RetLens[Last(sent).id])
      got == [id |-> IF lang["near"] = "C++" \/ flag = 1 THEN 1 ELSE 0, body |-> body]
  IN /\ \/ /\ TRUE \in ok
           /\ ExpectHeader("near")
           /\ returned' = Append(returned, got)
           /\ reader' = [reader EXCEPT !["near"] =
                           [buffered |-> Rest("near"), message |-> <<>>, length |-> 2]]
           /\ flow' = [flow EXCEPT !["near"] = "idle"]
           /\ UNCHANGED connected
        \/ FALSE \in ok /\ Finish("near") /\ UNCHANGED <<reader, section, returned>>
     /\ UNCHANGED <<net, header, serialized, sent, executed, results>>

ParseReply ==
  /\ pair = "rpc" /\ Complete("near")
  /\ LET words == Gathered("near")
     IN IF section["near"] = 1 THEN Reply(header["near"], words)
        ELSE IF LengthOf(words) > 0 THEN ExpectBody("near", words)
        ELSE Reply(IdOf(words), <<>>)
  /\ UNCHANGED config

-----------------------------------------------------------------------------
(* The server. *)

(* callReturnsSerialized after a toBinary that fails: the values before    *)
(* the one it refuses have been written over the reply before.             *)
Leftover(old, new, n) == SubSeq(new, 1, n) \o SubSeq(old, n + 1, Len(old))

(* Mutant of Encoded: what is left of a longer reply is not cut off. *)
EncodedOver(old, new) == {[ok |-> TRUE, bytes |-> Leftover(old, new, Len(new))]}

(* rets.toBinary, whose result call ignores. *)
Encoded(old, new) ==
  {[ok |-> TRUE, bytes |-> new]} \cup
  {[ok |-> FALSE, bytes |-> Leftover(old, new, n)] : n \in 0 .. Len(new) - 1}

(* call, and writeMessage with the reply.  An id without procedure, a      *)
(* procedure that fails or returns the wrong number of values and a reply  *)
(* that is too long end the flow, so no reply says that a call failed.     *)
Execute(id, args) ==
  /\ \/ /\ id \in Procedures
        /\ ExpectHeader("far")
        /\ executed' = Append(executed, [id |-> id, body |-> args])
        /\ \E len \in RetLens[id] : \E code \in Encoded(serialized, Body(Len(sent), len)) :
             /\ serialized' = code.bytes
             /\ results' = Append(results, [body |-> Body(Len(sent), len), whole |-> code.ok])
             /\ IF TooLong(Len(code.bytes))
                THEN Finish("far") /\ UNCHANGED <<net, reader>>
                ELSE Write("far", "near", Header(1, Len(code.bytes)) \o code.bytes, Rest("far"))
     \/ /\ executed' = IF id \in Procedures
                       THEN Append(executed, [id |-> id, body |-> args]) ELSE executed
        /\ Finish("far")
        /\ UNCHANGED <<net, reader, section, serialized, results>>
  /\ UNCHANGED <<header, sent, returned>>

ParseRequest ==
  /\ pair = "rpc" /\ Complete("far")
  /\ LET words == Gathered("far")
     IN IF section["far"] = 1 THEN Execute(header["far"], words)
        ELSE IF LengthOf(words) > 0 THEN ExpectBody("far", words)
        ELSE Execute(IdOf(words), <<>>)
  /\ UNCHANGED config

-----------------------------------------------------------------------------
(* The publisher: publish and the writeMessage or SendMessage that takes   *)
(* the message from the queue.  A C++ publisher may be one that groups: it *)
(* takes what is queued until the group is large enough.  A message that   *)
(* is too long ends its flow; Go refuses to publish it.                    *)
Group(lens) ==
  FlattenSeq([k \in DOMAIN lens |-> Header(1, lens[k]) \o Body(Len(sent) + k, lens[k])])

Groups ==
  LET lens == ArgLens[topic]
  IN {<<len>> : len \in lens} \cup
     {g \in lens \X lens : lang["near"] = "C++" /\ g[1] + 2 < GroupLimit}

Publish(lens) ==
  /\ pair = "publish" /\ flow["near"] = "idle"
  /\ Len(sent) + Len(lens) <= MaxSent
  /\ IF \E k \in DOMAIN lens : TooLong(lens[k])
     THEN /\ IF lang["near"] = "C++" THEN Finish("near") ELSE UNCHANGED <<flow, connected>>
          /\ UNCHANGED <<net, reader, sent>>
     ELSE /\ sent' = sent \o [k \in DOMAIN lens |-> [id |-> 1, body |-> Body(Len(sent) + k, lens[k])]]
          /\ Write("near", "far", Group(lens), <<>>)
  /\ UNCHANGED <<config, section, header, serialized, executed, results, returned>>

(* The subscriber: the callback with the values of one message, and the    *)
(* next header.  C++ calls it even when the body does not decode, and goes *)
(* on (fromBinary has made as many values as it wants to see); Go calls it *)
(* with the success flag of the header, or stops.                          *)
Callback(flag, body) ==
  LET ok == IF lang["far"] = "C++" THEN {TRUE} ELSE Decodes(body, Bodies(sent), ArgLens[topic])
      got == [id |-> IF lang["far"] = "C++" \/ flag = 1 THEN 1 ELSE 0, body |-> body]
  IN /\ \/ /\ TRUE \in ok
           /\ ExpectHeader("far")
           /\ executed' = Append(executed, got)
           /\ Resume("far", Rest("far"), 2)
        \/ FALSE \in ok /\ Finish("far") /\ UNCHANGED <<reader, section, executed>>
     /\ UNCHANGED <<net, header, serialized, sent, results, returned>>

(* A header without a body: C++ calls back if the signature is empty and   *)
(* stops otherwise; Go asks its manager for a body of length 0.            *)
ParsePublished ==
  /\ pair = "publish" /\ Complete("far")
  /\ LET words == Gathered("far")
     IN IF section["far"] = 1 THEN Callback(header["far"], words)
        ELSE IF LengthOf(words) > 0 \/ lang["far"] = "Go" THEN ExpectBody("far", words)
        ELSE IF ArgLens[topic] = {0} THEN Callback(IdOf(words), <<>>)
        ELSE Finish("far") /\ UNCHANGED <<net, reader, section, header, serialized, history>>
  /\ UNCHANGED config

-----------------------------------------------------------------------------
(* The network and the processes at its ends. *)

Disconnect ==
  /\ connected
  /\ connected' = FALSE
  /\ UNCHANGED <<config, net, flow, reader, section, header, serialized, history>>

LoseDatagram ==
  /\ transport = "udp"
  /\ \E i \in DOMAIN net["far"] : net' = [net EXCEPT !["far"] = RemoveAt(@, i)]
  /\ UNCHANGED <<config, connected, flow, reader, section, header, serialized, history>>

DoubleDatagram ==
  /\ transport = "udp"
  /\ Len(net["far"]) + Len(executed) < MaxSent
  /\ \E i \in DOMAIN net["far"] : net' = [net EXCEPT !["far"] = Append(@, @[i])]
  /\ UNCHANGED <<config, connected, flow, reader, section, header, serialized, history>>

Init ==
  /\ transport \in Transports
  /\ pair \in {"rpc", "publish"} /\ (pair = "rpc" => transport # "udp")
  /\ lang \in [Sides -> Languages] /\ (pair = "rpc" => lang["far"] = "C++")
  /\ transport = "stdio" => \E s \in Sides : lang[s] = "Go"  \* it launches the other
  /\ topic \in IF pair = "publish" THEN Procedures ELSE {Min(Procedures)}
  /\ net = [s \in Sides |-> <<>>]
  /\ connected = TRUE
  /\ flow = [s \in Sides |-> IF s = "near" THEN "idle" ELSE "read"]
  /\ reader = [s \in Sides |-> [buffered |-> <<>>, message |-> <<>>, length |-> 2]]
  /\ section = [s \in Sides |-> 0]
  /\ header = [s \in Sides |-> 0]
  /\ serialized = <<>>
  /\ sent = <<>> /\ executed = <<>> /\ results = <<>> /\ returned = <<>>

DataFlow(s) ==
  \/ Read(s) \/ ReadFails(s) \/ Gather(s)
  \/ s = "near" /\ ParseReply
  \/ s = "far" /\ (ParseRequest \/ ParsePublished)

Next ==
  \/ \E p \in Procedures : \E len \in ArgLens[p] : Call(p, len)
  \/ \E lens \in Groups : Publish(lens)
  \/ \E s \in Sides : DataFlow(s)
  \/ Disconnect \/ LoseDatagram \/ DoubleDatagram

Spec == Init /\ [][Next]_vars

(* The thread of each data flow runs; nobody has to call or publish, and   *)
(* the network promises nothing.                                           *)
FairSpec == Spec /\ \A s \in Sides : WF_vars(DataFlow(s))

-----------------------------------------------------------------------------
(* Properties. *)

(* Every variable keeps its type; in particular no word of the wire        *)
(* exceeds its width (uint32ToBytes of a header).                          *)
TypeOK ==
  /\ net \in [Sides -> IF transport = "udp" THEN Seq(Seq(Words)) ELSE Seq(Words)]
  /\ connected \in BOOLEAN
  /\ flow \in [Sides -> {"idle", "read", "round", "spin", "locked", "done"}]
  /\ reader \in [Sides -> [buffered : Seq(Words), message : Seq(Words), length : Words]]
  /\ section \in [Sides -> {0, 1}]
  /\ header \in [Sides -> Words]
  /\ serialized \in Seq(Words)
  /\ sent \in Seq(Message) /\ executed \in Seq(Message) /\ returned \in Seq(Message)
  /\ results \in Seq([body : Seq(Words), whole : BOOLEAN])

(* The server calls the procedures that were requested, with the arguments *)
(* that were sent, in that order and once, however reads cut the stream;   *)
(* but for a request whose length is at the limit, and what follows it     *)
(* (parseMessage and call of rpcServer.h).                                 *)
ExecutedAsCalled ==
  pair = "rpc" =>
    \A i \in DOMAIN executed :
      AtLimit(sent, i) \/ (i \in DOMAIN sent /\ executed[i] = sent[i])

(* The i-th reply a client hands over is what the i-th call returned, with *)
(* success; but for lengths at the limit, and for values that toBinary     *)
(* refuses, whose call is answered with bytes of the reply before          *)
(* (callReturnsSerialized, rpcServer.h:133).                               *)
ReplyMatches ==
  pair = "rpc" =>
    \A i \in DOMAIN returned :
      \/ AtLimit(sent, i) \/ AtLimit(results, i)
      \/ /\ i \in DOMAIN results
         /\ results[i].whole => returned[i] = [id |-> 1, body |-> results[i].body]

(* A subscriber stays in step: over a stream its callbacks are the first   *)
(* messages published; over UDP each is a message published, whatever is   *)
(* lost, doubled or overtaken, and it waits for the next datagram only     *)
(* where a message starts (udpSocket.h:154, parseMessage of both).         *)
SubscriberInStep ==
  pair = "publish" =>
    IF transport # "udp" THEN IsPrefix(executed, sent)
    ELSE /\ \A i \in DOMAIN executed : \E k \in DOMAIN sent : executed[i] = sent[k]
         /\ flow["far"] = "read" => section["far"] = 0 /\ reader["far"].message = <<>>

(* A Go manager took too much (messagemanager.go:129), or was asked for a  *)
(* body of length 0 with nothing to parse (datasubscriber.go:84).          *)
Stalled(s) ==
  /\ lang[s] = "Go"
  /\ flow[s] = "spin" \/ Len(reader[s].message) > reader[s].length

(* Every request is answered or the flow of the client comes to its end;   *)
(* but for a Go client that has stalled and lengths at the limit.  Whether *)
(* the caller wakes up at that end is the subject of the clients' modules: *)
(* in C++ it sleeps on.  That the C++ server answers the calls that reach  *)
(* its standard input is README.md:45.                                     *)
CallsReturn ==
  \A k \in 1 .. MaxSent :
    (pair = "rpc" /\ Len(sent) >= k) ~>
      (Len(returned) >= k \/ flow["near"] = "done" \/ Stalled("near")
       \/ AtLimit(sent, k) \/ AtLimit(results, k))

(* What is written to a stream reaches the callback, until a flow ends;    *)
(* but for a Go subscriber that has stalled.                               *)
PublishedArrive ==
  \A k \in 1 .. MaxSent :
    (pair = "publish" /\ transport # "udp" /\ Len(sent) >= k) ~>
      (Len(executed) >= k \/ "done" \in {flow[s] : s \in Sides} \/ Stalled("far"))

EverythingArrives == CallsReturn /\ PublishedArrive

=============================================================================
