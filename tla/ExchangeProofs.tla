---------------------------- MODULE ExchangeProofs ----------------------------
(***************************************************************************)
(* Safety of the two ends of a connection for any number of calls and      *)
(* messages, any lengths, any procedures and any cuts of the stream.       *)
(*                                                                         *)
(* Sound has the types, and what ties the position of a data flow to what  *)
(* its manager holds.  What arrives at a side is then a matter of bytes:   *)
(* Pending is what it will parse, and a step that parses nothing keeps it. *)
(* For calls, RpcOK says that at most one request and one reply are on     *)
(* their way and whose they are.  For publishing, StreamOK says that the   *)
(* messages written are on their way one after the other, and UdpOK that   *)
(* every datagram is a message or a group of two.                          *)
(***************************************************************************)
EXTENDS Exchange, SequenceTheorems, TLAPS

(* Concatenation, by a name of its own that is expanded nowhere but here.  *)
Cat(a, b) == a \o b

(* The type and the length of a concatenation. *)
LEMMA CatType ==
  ASSUME NEW S, NEW a \in Seq(S), NEW b \in Seq(S)
  PROVE  Cat(a, b) \in Seq(S) /\ Len(Cat(a, b)) = Len(a) + Len(b)
BY ConcatProperties DEF Cat

(* Concatenation is associative ... *)
LEMMA CatAssociative ==
  ASSUME NEW S, NEW a \in Seq(S), NEW b \in Seq(S), NEW c \in Seq(S)
  PROVE  Cat(Cat(a, b), c) = Cat(a, Cat(b, c))
BY ConcatAssociative DEF Cat

(* ... and the empty sequence is neutral. *)
LEMMA CatEmpty ==
  ASSUME NEW S, NEW a \in Seq(S)
  PROVE  Cat(<<>>, a) = a /\ Cat(a, <<>>) = a
BY ConcatEmptySeq DEF Cat

(* Equal concatenations of pieces that are equally long are of equal pieces. *)
LEMMA CutEqual ==
  ASSUME NEW S, NEW a \in Seq(S), NEW b \in Seq(S), NEW c \in Seq(S), NEW d \in Seq(S),
         Cat(a, b) = Cat(c, d), Len(a) = Len(c)
  PROVE  a = c /\ b = d
<1> USE DEF Cat
<1>1. \A i \in 1 .. Len(a) : a[i] = c[i]
  <2>1. \A i \in 1 .. Len(a) : (a \o b)[i] = a[i]
    BY ConcatProperties, LenProperties
  <2>2. \A i \in 1 .. Len(a) : (c \o d)[i] = c[i]
    BY ConcatProperties, LenProperties
  <2> QED BY <2>1, <2>2
<1>2. a = c
  BY <1>1, SeqEqual
<1>3. Len(b) = Len(d)
  BY ConcatProperties, LenProperties
<1>4. \A i \in 1 .. Len(b) : b[i] = d[i]
  <2>1. ASSUME NEW i \in 1 .. Len(b) PROVE b[i] = d[i]
    <3>1. Len(a) \in Nat /\ Len(b) \in Nat
      BY LenProperties
    <3>2. Len(a) + i \in 1 .. Len(a) + Len(b) /\ ~(Len(a) + i <= Len(a)) /\ (Len(a) + i) - Len(a) = i
      BY <3>1
    <3>3. (a \o b)[Len(a) + i] = b[i]
      <4>1. \A j \in 1 .. Len(a) + Len(b) : (a \o b)[j] = IF j <= Len(a) THEN a[j] ELSE b[j - Len(a)]
        BY ConcatProperties, Zenon
      <4> QED BY <3>2, <4>1
    <3>4. (a \o d)[Len(a) + i] = d[i]
      <4>1. \A j \in 1 .. Len(a) + Len(d) : (a \o d)[j] = IF j <= Len(a) THEN a[j] ELSE d[j - Len(a)]
        BY ConcatProperties, Zenon
      <4> QED BY <1>3, <3>2, <4>1
    <3> QED BY <1>2, <3>3, <3>4
  <2> QED BY <2>1
<1> QED BY <1>2, <1>3, <1>4, SeqEqual

(* A sequence cut in two, and put together again. *)
LEMMA SplitSeq ==
  ASSUME NEW S, NEW s \in Seq(S), NEW k \in 0 .. Len(s)
  PROVE  /\ SubSeq(s, 1, k) \in Seq(S) /\ Len(SubSeq(s, 1, k)) = k
         /\ SubSeq(s, k + 1, Len(s)) \in Seq(S) /\ Len(SubSeq(s, k + 1, Len(s))) = Len(s) - k
         /\ Cat(SubSeq(s, 1, k), SubSeq(s, k + 1, Len(s))) = s
<1>0. Len(s) \in Nat
  BY LenProperties
<1>1. \A i \in 1 .. Len(s) : s[i] \in S
  BY ElementOfSeq
<1>2. SubSeq(s, 1, k) \in Seq(S) /\ Len(SubSeq(s, 1, k)) = k
  BY <1>0, <1>1, SubSeqProperties
<1>3. SubSeq(s, k + 1, Len(s)) \in Seq(S) /\ Len(SubSeq(s, k + 1, Len(s))) = Len(s) - k
  <2>1. \A i \in k + 1 .. Len(s) : s[i] \in S
    BY <1>0, <1>1
  <2> QED BY <1>0, <2>1, SubSeqProperties
<1>4. SubSeq(s, 1, k) \o SubSeq(s, k + 1, Len(s)) = SubSeq(s, 1, Len(s))
  <2>1. 1 \in 1 .. Len(s) + 1 /\ k \in 1 - 1 .. Len(s) /\ Len(s) \in k .. Len(s)
    BY <1>0
  <2> QED BY <2>1, ConcatAdjacentSubSeq
<1> QED BY <1>2, <1>3, <1>4, SubSeqFull DEF Cat

(* The smaller of two numbers. *)
LEMMA MinOfTwo ==
  ASSUME NEW a \in Int, NEW b \in Int
  PROVE  Min({a, b}) = IF a <= b THEN a ELSE b
BY DEF Min

(* A header below the limit says the id and the length that it was made of  *)
(* (uint32ToBytes of rpcClient.h, and mVal / 16777216, mVal % 16777216).    *)
LEMMA HeaderParts ==
  ASSUME NEW id \in Nat, id < Ids, NEW len \in Nat, len < Base
  PROVE  Header(id, len) = <<len, id>>
<1>0. Base \in Nat /\ Base > 2 /\ Ids \in Nat /\ Ids > 0
  BY EXAssumption
<1>1. (id * Base + len) \div Base = id
  BY <1>0
<1>2. (id * Base + len) % Base = len
  BY <1>0
<1>3. id % Ids = id
  BY <1>0
<1> QED BY <1>1, <1>2, <1>3 DEF Header

(* A header is two words, whatever the length: the carry is cut off. *)
LEMMA HeaderType ==
  ASSUME NEW id \in Nat, NEW len \in Nat
  PROVE  Header(id, len) \in Seq(Words) /\ Len(Header(id, len)) = 2
<1>0. Base \in Nat /\ Base > 2 /\ Ids \in Nat /\ Ids > 0 /\ Ids <= Base
  BY EXAssumption
<1>1. id * Base + len \in Nat
  BY <1>0
<1>2. (id * Base + len) % Base \in Words
  BY <1>0, <1>1 DEF Words
<1>3. (id * Base + len) \div Base \in Nat
  BY <1>0, <1>1
<1>4. ((id * Base + len) \div Base) % Ids \in Words
  BY <1>0, <1>3 DEF Words
<1> QED BY <1>2, <1>4 DEF Header

(* A body is words. *)
LEMMA BodyType ==
  ASSUME NEW k \in Words, NEW len \in Nat
  PROVE  Body(k, len) \in Seq(Words) /\ Len(Body(k, len)) = len
<1>1. Body(k, len) \in [1 .. len -> Words]
  BY DEF Body
<1> QED BY <1>1, IsASeq DEF Body

-----------------------------------------------------------------------------
(* Types. *)
ConfigOK ==
  /\ pair \in {"rpc", "publish"} /\ transport \in {"stream", "udp", "stdio"}
  /\ lang \in [Sides -> Languages]
  /\ pair = "rpc" => transport # "udp" /\ lang["far"] = "C++"
  /\ pair = "publish" => topic \in Procedures

FlowStages == {"idle", "read", "round", "spin", "locked", "done"}
Reader == [buffered : Seq(Words), message : Seq(Words), length : Words]

NetOK == net \in [Sides -> IF transport = "udp" THEN Seq(Seq(Words)) ELSE Seq(Words)]
FlowOK == connected \in BOOLEAN /\ flow \in [Sides -> FlowStages]
ReaderOK == reader \in [Sides -> Reader]
ParserOK == section \in [Sides -> {0, 1}] /\ header \in [Sides -> Words]
SentOK == sent \in Seq(Message)
DoneOK ==
  /\ serialized \in Seq(Words)
  /\ executed \in Seq(Message) /\ returned \in Seq(Message)
  /\ results \in Seq([body : Seq(Words), whole : BOOLEAN])

(* A parser that waits for a header has asked for its length; C++ never    *)
(* takes more than was asked for; what was read is used up before a flow   *)
(* reads again; only a client or a publisher waits for its user; and who   *)
(* has finished has closed.                                                *)
SideOK(s) ==
  /\ section[s] = 0 /\ flow[s] # "done" => reader[s].length = 2
  /\ lang[s] = "C++" => Len(reader[s].message) <= reader[s].length
  /\ flow[s] = "read" => reader[s].buffered = <<>>
  /\ flow[s] \in {"idle", "locked"} => s = "near"
  /\ flow[s] = "done" => ~connected

SentBounded == Len(sent) <= MaxSent

Sound ==
  /\ ConfigOK /\ NetOK /\ FlowOK /\ ReaderOK /\ ParserOK /\ SentOK /\ DoneOK
  /\ SentBounded
  /\ \A s \in Sides : SideOK(s)

(* The parts of the invariant that are types. *)
LEMMA TypesOfParts ==
  TypeOK <=> NetOK /\ FlowOK /\ ReaderOK /\ ParserOK /\ SentOK /\ DoneOK
BY DEF TypeOK, NetOK, FlowOK, ReaderOK, ParserOK, SentOK, DoneOK, FlowStages, Reader

(* What a step does to a side that it is not a step of. *)
Untouched(s) ==
  UNCHANGED <<flow[s], reader[s], section[s], header[s]>> /\ (connected' => connected)

(* A side that no step touches stays as it was. *)
LEMMA UntouchedKept ==
  ASSUME UNCHANGED lang, NEW s \in Sides, SideOK(s), FlowOK, Untouched(s)
  PROVE  SideOK(s)'
BY DEF SideOK, Untouched, FlowOK

(* What Resume does to the two sides. *)
LEMMA ResumeTypes ==
  ASSUME FlowOK, ReaderOK, NEW s \in Sides, NEW rest \in Seq(Words), NEW len \in Words,
         Resume(s, rest, len)
  PROVE  /\ FlowOK' /\ ReaderOK' /\ connected' = connected
         /\ \A t \in Sides \ {s} : reader'[t] = reader[t] /\ flow'[t] = flow[t]
         /\ reader'[s] = [buffered |-> rest, message |-> <<>>, length |-> len]
         /\ flow'[s] = IF pair = "publish" /\ s = "near" THEN "idle"
                       ELSE IF rest # <<>> THEN "round"
                       ELSE IF len > 0 THEN "read" ELSE "spin"
<1>1. [buffered |-> rest, message |-> <<>>, length |-> len] \in Reader
  BY DEF Reader
<1>2. /\ reader' = [reader EXCEPT ![s] = [buffered |-> rest, message |-> <<>>, length |-> len]]
      /\ connected' = connected
  BY DEF Resume
<1>3. flow' = [flow EXCEPT ![s] = IF pair = "publish" /\ s = "near" THEN "idle"
                                  ELSE IF rest # <<>> THEN "round"
                                  ELSE IF len > 0 THEN "read" ELSE "spin"]
  BY DEF Resume
<1>4. ReaderOK' /\ \A t \in Sides \ {s} : reader'[t] = reader[t]
  BY <1>1, <1>2 DEF ReaderOK
<1>5. reader'[s] = [buffered |-> rest, message |-> <<>>, length |-> len]
  BY <1>2 DEF ReaderOK
<1>6. FlowOK'
  BY <1>2, <1>3 DEF FlowOK, FlowStages
<1>7. \A t \in Sides \ {s} : flow'[t] = flow[t]
  BY <1>3 DEF FlowOK
<1>8. flow'[s] = IF pair = "publish" /\ s = "near" THEN "idle"
                 ELSE IF rest # <<>> THEN "round"
                 ELSE IF len > 0 THEN "read" ELSE "spin"
  BY <1>3 DEF FlowOK
<1> QED BY <1>2, <1>4, <1>5, <1>6, <1>7, <1>8

(* A manager that goes on has used up what was read or goes on parsing. *)
LEMMA ResumeSide ==
  ASSUME FlowOK, ReaderOK, UNCHANGED <<lang, pair>>, NEW s \in Sides, NEW rest \in Seq(Words),
         NEW len \in Words, Resume(s, rest, len), section'[s] = 0 => len = 2
  PROVE  SideOK(s)'
<1>1. /\ reader'[s] = [buffered |-> rest, message |-> <<>>, length |-> len]
      /\ flow'[s] = IF pair = "publish" /\ s = "near" THEN "idle"
                    ELSE IF rest # <<>> THEN "round"
                    ELSE IF len > 0 THEN "read" ELSE "spin"
  BY ResumeTypes
<1>2. reader'[s].length = len /\ reader'[s].message = <<>> /\ reader'[s].buffered = rest
  BY <1>1
<1>3. Len(<<>>) <= len
  BY EXAssumption DEF Words
<1> QED BY <1>1, <1>2, <1>3 DEF SideOK

(* A manager that has come to its end has closed its connection. *)
LEMMA FinishSide ==
  ASSUME FlowOK, UNCHANGED <<lang, reader>>, NEW s \in Sides, SideOK(s), Finish(s)
  PROVE  /\ FlowOK' /\ SideOK(s)' /\ ~connected' /\ flow'[s] = "done"
         /\ \A t \in Sides \ {s} : flow'[t] = flow[t]
<1>1. flow' = [flow EXCEPT ![s] = "done"] /\ connected' = FALSE
  BY DEF Finish
<1>2. FlowOK' /\ flow'[s] = "done" /\ \A t \in Sides \ {s} : flow'[t] = flow[t]
  BY <1>1 DEF FlowOK, FlowStages
<1> QED BY <1>1, <1>2 DEF SideOK

(* The same for a write and what follows it. *)
LEMMA WriteTypes ==
  ASSUME ConfigOK, NetOK, FlowOK, ReaderOK, UNCHANGED <<config>>,
         NEW s \in Sides, NEW to \in Sides, NEW words \in Seq(Words), NEW rest \in Seq(Words),
         Write(s, to, words, rest), SideOK(s)
  PROVE  /\ NetOK' /\ FlowOK' /\ ReaderOK' /\ SideOK(s)'
         /\ \A t \in Sides \ {s} : reader'[t] = reader[t] /\ flow'[t] = flow[t]
         /\ connected' => connected
<1>1. 2 \in Words
  BY EXAssumption DEF Words
<1>2. UNCHANGED <<lang, pair, transport>>
  BY DEF config
<1>3. Deliver(to, words) => NetOK'
  <2>1. CASE transport = "udp"
    <3>1. net[to] \in Seq(Seq(Words))
      BY <2>1 DEF NetOK
    <3>2. Append(net[to], words) \in Seq(Seq(Words))
      BY <3>1
    <3> QED BY <1>2, <2>1, <3>2 DEF Deliver, NetOK
  <2>2. CASE transport # "udp"
    <3>1. net[to] \in Seq(Words)
      BY <2>2 DEF NetOK
    <3>2. net[to] \o words \in Seq(Words)
      BY <3>1
    <3> QED BY <1>2, <2>2, <3>2 DEF Deliver, NetOK
  <2> QED BY <2>1, <2>2
<1>4. \/ (Deliver(to, words) \/ UNCHANGED net) /\ Resume(s, rest, 2)
      \/ Finish(s) /\ UNCHANGED <<net, reader>>
  BY DEF Write
<1>5. CASE (Deliver(to, words) \/ UNCHANGED net) /\ Resume(s, rest, 2)
  <2>1. NetOK'
    BY <1>2, <1>3, <1>5 DEF NetOK
  <2>2. SideOK(s)'
    BY <1>1, <1>2, <1>5, ResumeSide
  <2> QED BY <1>1, <1>5, <2>1, <2>2, ResumeTypes
<1>6. CASE Finish(s) /\ UNCHANGED <<net, reader>>
  <2>1. NetOK' /\ ReaderOK'
    BY <1>2, <1>6 DEF NetOK, ReaderOK
  <2> QED BY <1>2, <1>6, <2>1, FinishSide
<1> QED BY <1>4, <1>5, <1>6

(* One round takes a prefix of what was read. *)
LEMMA TakenPrefix ==
  ASSUME ReaderOK, ConfigOK, NEW s \in Sides, SideOK(s)
  PROVE  /\ Taken(s) \in 0 .. Len(reader[s].buffered)
         /\ lang[s] = "C++" => Taken(s) <= reader[s].length - Len(reader[s].message)
         /\ Gathered(s) \in Seq(Words) /\ Rest(s) \in Seq(Words)
         /\ Len(Gathered(s)) = Len(reader[s].message) + Taken(s)
         /\ Cat(Gathered(s), Rest(s)) = Cat(reader[s].message, reader[s].buffered)
<1> DEFINE b == reader[s].buffered
           m == reader[s].message
           k == Taken(s)
<1>1. b \in Seq(Words) /\ m \in Seq(Words) /\ reader[s].length \in Nat
  BY EXAssumption DEF ReaderOK, Reader, Words
<1>2. Len(b) \in Nat /\ Len(m) \in Nat
  BY <1>1, LenProperties
<1>4. /\ k \in 0 .. Len(b)
      /\ lang[s] = "C++" => k <= reader[s].length - Len(m)
  <2> DEFINE gap == reader[s].length - IF lang[s] = "C++" THEN Len(m) ELSE 0
  <2>1. gap \in Int /\ gap >= 0 /\ (lang[s] = "C++" => gap = reader[s].length - Len(m))
    BY <1>1, <1>2 DEF SideOK
  <2>2. k = Min({Len(b), gap})
    BY DEF Taken
  <2> HIDE DEF gap, k, b, m
  <2> QED BY <1>2, <2>1, <2>2, MinOfTwo
<1> DEFINE x == SubSeq(b, 1, k)
           y == SubSeq(b, k + 1, Len(b))
<1> HIDE DEF b, m, k
<1>5. x \in Seq(Words) /\ Len(x) = k /\ y \in Seq(Words) /\ Cat(x, y) = b
  BY <1>1, <1>4, SplitSeq
<1> HIDE DEF x, y
<1>6. Cat(Cat(m, x), y) = Cat(m, b)
  BY <1>1, <1>5, CatAssociative
<1>7. Cat(m, x) \in Seq(Words) /\ Len(Cat(m, x)) = Len(m) + k
  BY <1>1, <1>5, CatType
<1>8. Gathered(s) = Cat(m, x) /\ Rest(s) = y
  BY DEF Gathered, Rest, Cat, b, m, k, x, y
<1> QED BY <1>4, <1>5, <1>6, <1>7, <1>8 DEF b, m, k

(* A datagram taken from anywhere in a queue. *)
LEMMA RemoveType ==
  ASSUME NEW S, NEW s \in Seq(S), NEW i \in 1 .. Len(s)
  PROVE  RemoveAt(s, i) \in Seq(S)
<1>0. Len(s) \in Nat /\ i - 1 \in 0 .. Len(s) /\ i \in 0 .. Len(s)
  BY LenProperties
<1>1. SubSeq(s, 1, i - 1) \in Seq(S) /\ SubSeq(s, i + 1, Len(s)) \in Seq(S)
  BY <1>0, SplitSeq
<1> QED BY <1>1 DEF RemoveAt

(* A read gives words, from a stream or of a datagram. *)
LEMMA ReadSound ==
  ASSUME Sound, NEW s \in Sides, Read(s)
  PROVE  Sound'
<1>0. /\ UNCHANGED <<pair, lang, transport, topic, connected, section, header, serialized>>
      /\ UNCHANGED <<sent, executed, results, returned>>
      /\ flow[s] = "read" /\ flow' = [flow EXCEPT ![s] = "round"]
  BY DEF Read, config, history
<1>1. PICK piece \in Seq(Words) :
        /\ reader' = [reader EXCEPT ![s].buffered = piece]
        /\ NetOK'
        /\ \A t \in Sides \ {s} : net'[t] = net[t]
  <2>1. CASE transport = "udp"
    <3>1. net[s] \in Seq(Seq(Words))
      BY <2>1 DEF Sound, NetOK
    <3>2. PICK i \in DOMAIN net[s] :
            reader' = [reader EXCEPT ![s].buffered = net[s][i]]
            /\ net' = [net EXCEPT ![s] = RemoveAt(@, i)]
      BY <2>1 DEF Read
    <3>3. i \in 1 .. Len(net[s])
      BY <3>1, <3>2
    <3>4. RemoveAt(net[s], i) \in Seq(Seq(Words)) /\ net[s][i] \in Seq(Words)
      BY <3>1, <3>3, RemoveType, ElementOfSeq
    <3>5. NetOK' /\ \A t \in Sides \ {s} : net'[t] = net[t]
      BY <1>0, <2>1, <3>2, <3>4 DEF Sound, NetOK
    <3> QED BY <3>2, <3>4, <3>5
  <2>2. CASE transport # "udp"
    <3>1. net[s] \in Seq(Words) /\ Len(net[s]) \in Nat /\ ReadCap \in Nat
      BY <2>2, LenProperties, EXAssumption DEF Sound, NetOK, ReadCap
    <3>2. PICK n \in IF StdInput(s) THEN {ReadCap} ELSE 1 .. ReadCap :
            /\ n <= Len(net[s])
            /\ reader' = [reader EXCEPT ![s].buffered = SubSeq(net[s], 1, n)]
            /\ net' = [net EXCEPT ![s] = SubSeq(@, n + 1, Len(@))]
      BY <2>2 DEF Read
    <3>3. n \in 0 .. Len(net[s])
      BY <3>1, <3>2
    <3>4. SubSeq(net[s], 1, n) \in Seq(Words) /\ SubSeq(net[s], n + 1, Len(net[s])) \in Seq(Words)
      BY <3>1, <3>3, SplitSeq
    <3>5. NetOK' /\ \A t \in Sides \ {s} : net'[t] = net[t]
      BY <1>0, <2>2, <3>2, <3>4 DEF Sound, NetOK
    <3> QED BY <3>2, <3>4, <3>5
  <2> QED BY <2>1, <2>2
<1>2. reader[s] \in Reader
  BY DEF Sound, ReaderOK
<1>3. /\ reader'[s].buffered = piece /\ reader'[s].message = reader[s].message
      /\ reader'[s].length = reader[s].length
      /\ reader'[s] \in Reader /\ \A t \in Sides \ {s} : reader'[t] = reader[t]
  BY <1>1, <1>2 DEF Sound, ReaderOK, Reader
<1>4. ReaderOK'
  BY <1>1, <1>2, <1>3 DEF Sound, ReaderOK
<1>5. FlowOK' /\ flow'[s] = "round" /\ \A t \in Sides \ {s} : flow'[t] = flow[t]
  BY <1>0 DEF Sound, FlowOK, FlowStages
<1>6. SideOK(s)'
  BY <1>0, <1>3, <1>5 DEF Sound, SideOK
<1>7. \A t \in Sides \ {s} : SideOK(t)'
  <2>1. \A t \in Sides \ {s} : Untouched(t)
    BY <1>0, <1>3, <1>5 DEF Untouched
  <2> QED BY <1>0, <2>1, UntouchedKept DEF Sound
<1>8. ConfigOK' /\ ParserOK' /\ SentOK' /\ DoneOK' /\ SentBounded'
  BY <1>0 DEF Sound, ConfigOK, ParserOK, SentOK, DoneOK, SentBounded
<1> QED BY <1>1, <1>4, <1>5, <1>6, <1>7, <1>8 DEF Sound

(* A round of the inner loop, after which the manager parses or reads. *)
LEMMA GatherSound ==
  ASSUME Sound, NEW s \in Sides, Gather(s)
  PROVE  Sound'
<1>0. /\ UNCHANGED <<pair, lang, transport, topic, net, connected, section, header, serialized>>
      /\ UNCHANGED <<sent, executed, results, returned>>
      /\ flow[s] = "round" /\ ~Complete(s)
      /\ reader' = [reader EXCEPT ![s].message = Gathered(s), ![s].buffered = Rest(s)]
      /\ flow' = [flow EXCEPT ![s] = IF Rest(s) = <<>> THEN "read" ELSE "round"]
  BY DEF Gather, config, history
<1>1. ReaderOK /\ ConfigOK /\ SideOK(s) /\ FlowOK /\ reader[s] \in Reader
  BY DEF Sound, ReaderOK
<1>2. /\ Gathered(s) \in Seq(Words) /\ Rest(s) \in Seq(Words)
      /\ Taken(s) \in 0 .. Len(reader[s].buffered)
      /\ lang[s] = "C++" => Taken(s) <= reader[s].length - Len(reader[s].message)
      /\ Len(Gathered(s)) = Len(reader[s].message) + Taken(s)
  BY <1>1, TakenPrefix
<1>3. /\ reader'[s].buffered = Rest(s) /\ reader'[s].message = Gathered(s)
      /\ reader'[s].length = reader[s].length
      /\ reader'[s] \in Reader /\ \A t \in Sides \ {s} : reader'[t] = reader[t]
  BY <1>0, <1>1, <1>2 DEF ReaderOK, Reader
<1>4. ReaderOK'
  BY <1>0, <1>1, <1>3 DEF ReaderOK
<1>5. FlowOK' /\ flow'[s] = (IF Rest(s) = <<>> THEN "read" ELSE "round")
      /\ \A t \in Sides \ {s} : flow'[t] = flow[t]
  BY <1>0, <1>1 DEF FlowOK, FlowStages
<1>6. lang[s] = "C++" => Len(Gathered(s)) <= reader[s].length
  <2>1. Len(reader[s].message) \in Nat /\ Len(reader[s].buffered) \in Nat /\ reader[s].length \in Int
    BY <1>1, LenProperties, EXAssumption DEF Reader, Words
  <2> QED BY <1>2, <2>1
<1>7. SideOK(s)'
  BY <1>0, <1>1, <1>3, <1>5, <1>6 DEF SideOK
<1>8. \A t \in Sides \ {s} : SideOK(t)'
  <2>1. \A t \in Sides \ {s} : Untouched(t)
    BY <1>0, <1>3, <1>5 DEF Untouched
  <2> QED BY <1>0, <2>1, UntouchedKept DEF Sound
<1>9. ConfigOK' /\ NetOK' /\ ParserOK' /\ SentOK' /\ DoneOK' /\ SentBounded'
  BY <1>0 DEF Sound, ConfigOK, NetOK, ParserOK, SentOK, DoneOK, SentBounded
<1> QED BY <1>4, <1>5, <1>7, <1>8, <1>9 DEF Sound

(* The connection or a datagram is lost, or a datagram doubled. *)
LEMMA NetworkSound ==
  ASSUME Sound, Disconnect \/ LoseDatagram \/ DoubleDatagram \/ (\E s \in Sides : ReadFails(s))
  PROVE  Sound'
<1>1. UNCHANGED <<config, reader, section, header, serialized, history>>
  BY DEF Disconnect, LoseDatagram, DoubleDatagram, ReadFails
<1>2. ConfigOK' /\ ReaderOK' /\ ParserOK' /\ SentOK' /\ DoneOK' /\ SentBounded'
  BY <1>1 DEF config, history, Sound, ConfigOK, ReaderOK, ParserOK, SentOK, DoneOK, SentBounded
<1>3. UNCHANGED <<lang, transport, reader, section, header>>
  BY <1>1 DEF config
<1>4. CASE Disconnect
  <2>1. UNCHANGED <<net, flow>> /\ connected' = FALSE
    BY <1>4 DEF Disconnect
  <2>2. NetOK' /\ FlowOK' /\ \A s \in Sides : Untouched(s)
    BY <1>3, <2>1 DEF Sound, NetOK, FlowOK, Untouched
  <2>3. \A s \in Sides : SideOK(s)'
    BY <1>3, <2>2, UntouchedKept DEF Sound
  <2> QED BY <1>2, <2>2, <2>3 DEF Sound
<1>5. CASE LoseDatagram \/ DoubleDatagram
  <2>1. UNCHANGED <<connected, flow>> /\ transport = "udp" /\ net["far"] \in Seq(Seq(Words))
    BY <1>5 DEF LoseDatagram, DoubleDatagram, Sound, NetOK, Sides
  <2>2. PICK i \in DOMAIN net["far"] : \/ net' = [net EXCEPT !["far"] = RemoveAt(@, i)]
                                       \/ net' = [net EXCEPT !["far"] = Append(@, @[i])]
    BY <1>5 DEF LoseDatagram, DoubleDatagram
  <2>3. i \in 1 .. Len(net["far"])
    BY <2>1, <2>2
  <2>4. RemoveAt(net["far"], i) \in Seq(Seq(Words)) /\ Append(net["far"], net["far"][i]) \in Seq(Seq(Words))
    BY <2>1, <2>3, RemoveType, ElementOfSeq, AppendProperties
  <2>5. NetOK'
    BY <1>3, <2>1, <2>2, <2>4 DEF Sound, NetOK, Sides
  <2>6. FlowOK' /\ \A s \in Sides : Untouched(s)
    BY <1>3, <2>1 DEF Sound, FlowOK, Untouched
  <2>7. \A s \in Sides : SideOK(s)'
    BY <1>3, <2>6, UntouchedKept DEF Sound
  <2> QED BY <1>2, <2>5, <2>6, <2>7 DEF Sound
<1>6. ASSUME NEW s \in Sides, ReadFails(s) PROVE Sound'
  <2>1. Finish(s) /\ UNCHANGED net
    BY <1>6 DEF ReadFails
  <2>2. /\ FlowOK' /\ SideOK(s)' /\ ~connected'
        /\ \A t \in Sides \ {s} : flow'[t] = flow[t]
    BY <1>3, <2>1, FinishSide DEF Sound
  <2>3. \A t \in Sides \ {s} : SideOK(t)'
    <3>1. \A t \in Sides \ {s} : Untouched(t)
      BY <1>3, <2>2 DEF Untouched
    <3> QED BY <1>3, <3>1, UntouchedKept DEF Sound
  <2>4. NetOK'
    BY <1>3, <2>1 DEF Sound, NetOK
  <2> QED BY <1>2, <2>2, <2>3, <2>4 DEF Sound
<1> QED BY <1>4, <1>5, <1>6

(* A group of one or two messages. *)
LEMMA FlattenOne ==
  ASSUME NEW x
  PROVE  FlattenSeq(<<x>>) = x
<1> DEFINE s == <<x>>
           Eqn(f) == f = [i \in 1 .. Len(s) |-> IF i = 1 THEN s[i] ELSE f[i - 1] \o s[i]]
           g == CHOOSE f : Eqn(f)
<1>1. Len(s) = 1 /\ s[1] = x
  OBVIOUS
<1>2. Eqn(s)
  OBVIOUS
<1>3. Eqn(g)
  BY <1>2
<1>4. FlattenSeq(s) = g[1]
  BY <1>1 DEF FlattenSeq
<1>5. \A i \in 1 .. 1 : g[i] = IF i = 1 THEN s[i] ELSE g[i - 1] \o s[i]
  <2> HIDE DEF g, s
  <2> QED BY <1>1, <1>3
<1> QED BY <1>1, <1>4, <1>5 DEF s

(* A group of two is its two messages one after the other. *)
LEMMA FlattenTwo ==
  ASSUME NEW x, NEW y
  PROVE  FlattenSeq(<<x, y>>) = Cat(x, y)
<1> DEFINE s == <<x, y>>
           Eqn(f) == f = [i \in 1 .. Len(s) |-> IF i = 1 THEN s[i] ELSE f[i - 1] \o s[i]]
           g == CHOOSE f : Eqn(f)
           w == <<x, x \o y>>
<1>1. Len(s) = 2 /\ s[1] = x /\ s[2] = y
  OBVIOUS
<1>2. Eqn(w)
  OBVIOUS
<1>3. Eqn(g)
  BY <1>2
<1>4. FlattenSeq(s) = g[2]
  BY <1>1 DEF FlattenSeq
<1> HIDE DEF g, s
<1>5. \A i \in 1 .. 2 : g[i] = IF i = 1 THEN s[i] ELSE g[i - 1] \o s[i]
  BY <1>1, <1>3
<1>6. g[1] = x
  BY <1>1, <1>5
<1>7. g[2] = g[1] \o s[2]
  <2>1. 2 \in 1 .. 2 /\ 2 # 1 /\ 2 - 1 = 1
    OBVIOUS
  <2> QED BY <1>5, <2>1
<1> QED BY <1>1, <1>4, <1>6, <1>7 DEF s, Cat

(* The k-th message of a length, as a publisher sends it. *)
Encoding(k, len) == Cat(Header(1, len), Body(k, len))

(* A message that is not too long has been encoded as words. *)
LEMMA EncodingType ==
  ASSUME NEW k \in Words, NEW len \in Nat
  PROVE  Encoding(k, len) \in Seq(Words) /\ Len(Encoding(k, len)) = len + 2
<1>1. Header(1, len) \in Seq(Words) /\ Len(Header(1, len)) = 2
  BY HeaderType
<1>2. Body(k, len) \in Seq(Words) /\ Len(Body(k, len)) = len
  BY BodyType
<1>3. Encoding(k, len) \in Seq(Words) /\ Len(Encoding(k, len)) = 2 + len
  BY <1>1, <1>2, CatType DEF Encoding
<1> QED BY <1>3

(* A group is one message or, in C++, two. *)
LEMMA GroupIs ==
  ASSUME NEW lens \in Groups, topic \in Procedures
  PROVE  \/ \E a \in ArgLens[topic] : lens = <<a>> /\ Group(lens) = Encoding(Len(sent) + 1, a)
         \/ /\ lang["near"] = "C++"
            /\ \E a, b \in ArgLens[topic] :
                 /\ lens = <<a, b>>
                 /\ Group(lens) = Cat(Encoding(Len(sent) + 1, a), Encoding(Len(sent) + 2, b))
<1> DEFINE E(k, len) == Header(1, len) \o Body(Len(sent) + k, len)
<1>1. Group(lens) = FlattenSeq([k \in DOMAIN lens |-> E(k, lens[k])])
  BY DEF Group
<1>2. \A k, len : E(k, len) = Encoding(Len(sent) + k, len)
  BY DEF Encoding, Cat
<1> HIDE DEF E
<1>3. ASSUME NEW a \in ArgLens[topic], lens = <<a>>
      PROVE  Group(lens) = Encoding(Len(sent) + 1, a)
  <2>1. [k \in DOMAIN lens |-> E(k, lens[k])] = <<E(1, a)>>
    BY <1>3
  <2> QED BY <1>1, <1>2, <2>1, FlattenOne
<1>4. ASSUME NEW a \in ArgLens[topic], NEW b \in ArgLens[topic], lens = <<a, b>>
      PROVE  Group(lens) = Cat(Encoding(Len(sent) + 1, a), Encoding(Len(sent) + 2, b))
  <2>1. [k \in DOMAIN lens |-> E(k, lens[k])] = <<E(1, a), E(2, b)>>
    BY <1>4
  <2> QED BY <1>1, <1>2, <2>1, FlattenTwo
<1>5. \/ \E a \in ArgLens[topic] : lens = <<a>>
      \/ lang["near"] = "C++" /\ \E a, b \in ArgLens[topic] : lens = <<a, b>>
  BY DEF Groups
<1> QED BY <1>3, <1>4, <1>5

(* What one publish adds to sent. *)
Published(lens) == [k \in DOMAIN lens |-> [id |-> 1, body |-> Body(Len(sent) + k, lens[k])]]

(* callSync and Call, with what is written. *)
LEMMA CallSound ==
  ASSUME Sound, NEW p \in Procedures, NEW len \in ArgLens[p], Call(p, len)
  PROVE  Sound'
<1>0. /\ UNCHANGED <<pair, lang, transport, topic, section, header, serialized, executed, results, returned>>
      /\ pair = "rpc" /\ flow["near"] = "idle" /\ Len(sent) < MaxSent
      /\ len \in Nat /\ p \in Nat /\ "near" \in Sides /\ "far" \in Sides
      /\ sent \in Seq(Message) /\ Len(sent) \in Nat
  BY EXAssumption, LenProperties DEF Call, config, Sides, Sound, SentOK
<1>1. ConfigOK' /\ ParserOK' /\ DoneOK'
  BY <1>0 DEF Sound, ConfigOK, ParserOK, DoneOK
<1>2. SUFFICES /\ NetOK' /\ FlowOK' /\ ReaderOK' /\ SentOK' /\ SentBounded' /\ SideOK("near")'
               /\ connected' => connected
               /\ flow'["far"] = flow["far"] /\ reader'["far"] = reader["far"]
  <2>1. Untouched("far")
    BY <1>0, <1>2 DEF Untouched
  <2>2. SideOK("far")'
    BY <1>0, <2>1, UntouchedKept DEF Sound
  <2> QED BY <1>1, <1>2, <2>2 DEF Sound, Sides
<1>3. CASE TooLong(len)
  <2>1. UNCHANGED <<net, reader, sent>>
    BY <1>3 DEF Call
  <2>2. NetOK' /\ ReaderOK' /\ SentOK' /\ SentBounded'
    BY <1>0, <2>1 DEF Sound, NetOK, ReaderOK, SentOK, SentBounded
  <2>3. CASE Finish("near")
    BY <1>0, <2>1, <2>2, <2>3, FinishSide DEF Sound, Sides
  <2>4. CASE flow' = [flow EXCEPT !["near"] = "locked"] /\ UNCHANGED connected
    <3>1. FlowOK' /\ flow'["near"] = "locked" /\ flow'["far"] = flow["far"]
      BY <1>0, <2>4 DEF Sound, FlowOK, FlowStages, Sides
    <3>2. SideOK("near")
      BY <1>0 DEF Sound
    <3> QED BY <1>0, <2>1, <2>2, <2>4, <3>1, <3>2 DEF SideOK
  <2> QED BY <1>3, <2>3, <2>4 DEF Call
<1>4. CASE ~TooLong(len)
  <2> DEFINE body == Body(Len(sent) + 1, len)
             words == Header(p, len) \o body
             m == [id |-> p, body |-> body]
  <2>1. /\ sent' = Append(sent, m)
        /\ Write("near", "far", words, reader["near"].buffered)
    BY <1>4 DEF Call
  <2>2. Len(sent) + 1 \in Words
    BY <1>0, EXAssumption DEF Words
  <2>3. body \in Seq(Words) /\ words \in Seq(Words)
    <3>1. body \in Seq(Words) /\ Header(p, len) \in Seq(Words)
      BY <1>0, <2>2, HeaderType, BodyType
    <3> HIDE DEF body
    <3>2. words = Cat(Header(p, len), body)
      BY DEF Cat
    <3> QED BY <3>1, <3>2, CatType
  <2>4. m \in Message
    BY <1>0, <2>3 DEF Message
  <2>5. reader["near"].buffered \in Seq(Words)
    BY <1>0 DEF Sound, ReaderOK, Reader
  <2>6. SentOK' /\ SentBounded'
    <3> HIDE DEF m
    <3>1. sent' \in Seq(Message) /\ Len(sent') = Len(sent) + 1
      BY <1>0, <2>1, <2>4, AppendProperties
    <3> QED BY <1>0, <3>1, EXAssumption DEF SentOK, SentBounded
  <2> HIDE DEF words
  <2>7. /\ NetOK' /\ FlowOK' /\ ReaderOK' /\ SideOK("near")'
        /\ \A t \in Sides \ {"near"} : reader'[t] = reader[t] /\ flow'[t] = flow[t]
        /\ connected' => connected
    BY <1>0, <2>1, <2>3, <2>5, WriteTypes DEF Sound, config
  <2> QED BY <1>0, <2>6, <2>7
<1> QED BY <1>3, <1>4

(* The invariant from that of both sides. *)
LEMMA SideSound ==
  ASSUME Sound, UNCHANGED config, NEW s \in Sides,
         NetOK', FlowOK', ReaderOK', ParserOK', SentOK', DoneOK', SentBounded', SideOK(s)',
         \A t \in Sides \ {s} : Untouched(t)
  PROVE  Sound'
<1>1. \A t \in Sides \ {s} : SideOK(t)'
  BY UntouchedKept DEF Sound, config
<1>2. ConfigOK'
  BY DEF Sound, ConfigOK, config
<1> QED BY <1>1, <1>2 DEF Sound

(* Sequences of one and two elements. *)
LEMMA ShortSeqs ==
  ASSUME NEW S, NEW x \in S, NEW y \in S
  PROVE  /\ <<x>> \in Seq(S) /\ Len(<<x>>) = 1
         /\ <<x, y>> \in Seq(S) /\ Len(<<x, y>>) = 2
OBVIOUS

(* publish and Publish, with what is written. *)
LEMMA PublishSound ==
  ASSUME Sound, NEW lens \in Groups, Publish(lens)
  PROVE  Sound'
<1>0. /\ UNCHANGED config /\ pair = "publish" /\ topic \in Procedures
      /\ UNCHANGED <<section, header, serialized, executed, results, returned>>
      /\ Len(sent) + Len(lens) <= MaxSent /\ "near" \in Sides /\ "far" \in Sides
      /\ sent \in Seq(Message) /\ Len(sent) \in Nat
  BY LenProperties DEF Publish, Sides, Sound, SentOK, ConfigOK
<1>1. ParserOK' /\ DoneOK'
  BY <1>0 DEF Sound, ParserOK, DoneOK
<1>2. CASE \E k \in DOMAIN lens : TooLong(lens[k])
  <2>1. UNCHANGED <<net, reader, sent>> /\ (Finish("near") \/ UNCHANGED <<flow, connected>>)
    BY <1>2 DEF Publish
  <2>2. NetOK' /\ ReaderOK' /\ SentOK' /\ SentBounded'
    BY <1>0, <2>1 DEF Sound, NetOK, ReaderOK, SentOK, SentBounded, config
  <2>3. CASE Finish("near")
    <3>1. FlowOK' /\ SideOK("near")' /\ ~connected' /\ flow'["far"] = flow["far"]
      BY <1>0, <2>1, <2>3, FinishSide DEF Sound, Sides, config
    <3>2. \A t \in Sides \ {"near"} : Untouched(t)
      BY <1>0, <2>1, <3>1 DEF Untouched, Sides
    <3> QED BY <1>0, <1>1, <2>2, <3>1, <3>2, SideSound
  <2>4. CASE UNCHANGED <<flow, connected>>
    <3>1. FlowOK' /\ SideOK("near")' /\ \A t \in Sides \ {"near"} : Untouched(t)
      BY <1>0, <2>1, <2>4 DEF Sound, FlowOK, SideOK, Untouched, config
    <3> QED BY <1>0, <1>1, <2>2, <3>1, SideSound
  <2> QED BY <2>1, <2>3, <2>4
<1>3. CASE ~\E k \in DOMAIN lens : TooLong(lens[k])
  <2>1. sent' = sent \o Published(lens) /\ Write("near", "far", Group(lens), <<>>)
    BY <1>3 DEF Publish, Published
  <2>2. Group(lens) \in Seq(Words) /\ Published(lens) \in Seq(Message) /\ Len(Published(lens)) = Len(lens)
    <3>1. ArgLens[topic] \subseteq Nat
      BY <1>0, EXAssumption
    <3>2. ASSUME NEW a \in ArgLens[topic], lens = <<a>>, Group(lens) = Encoding(Len(sent) + 1, a)
          PROVE  Group(lens) \in Seq(Words) /\ Published(lens) \in Seq(Message) /\ Len(Published(lens)) = Len(lens)
      <4>1. Len(sent) + 1 \in Words
        BY <1>0, <3>2, EXAssumption DEF Words
      <4>2. Published(lens) = << [id |-> 1, body |-> Body(Len(sent) + 1, a)] >>
        BY <3>2 DEF Published
      <4>3. [id |-> 1, body |-> Body(Len(sent) + 1, a)] \in Message
        BY <3>1, <4>1, BodyType DEF Message
      <4>4. Published(lens) \in Seq(Message) /\ Len(Published(lens)) = 1
        BY <4>2, <4>3, ShortSeqs
      <4>5. Group(lens) \in Seq(Words)
        BY <3>1, <3>2, <4>1, EncodingType
      <4>6. Len(lens) = 1
        BY <3>2
      <4> QED BY <4>4, <4>5, <4>6
    <3>3. ASSUME NEW a \in ArgLens[topic], NEW b \in ArgLens[topic], lens = <<a, b>>,
                 Group(lens) = Cat(Encoding(Len(sent) + 1, a), Encoding(Len(sent) + 2, b))
          PROVE  Group(lens) \in Seq(Words) /\ Published(lens) \in Seq(Message) /\ Len(Published(lens)) = Len(lens)
      <4>1. Len(sent) + 1 \in Words /\ Len(sent) + 2 \in Words
        BY <1>0, <3>3, EXAssumption DEF Words
      <4>2. Published(lens) = << [id |-> 1, body |-> Body(Len(sent) + 1, a)],
                                 [id |-> 1, body |-> Body(Len(sent) + 2, b)] >>
        BY <3>3 DEF Published
      <4>3. /\ [id |-> 1, body |-> Body(Len(sent) + 1, a)] \in Message
            /\ [id |-> 1, body |-> Body(Len(sent) + 2, b)] \in Message
        BY <3>1, <4>1, BodyType DEF Message
      <4>4. Encoding(Len(sent) + 1, a) \in Seq(Words) /\ Encoding(Len(sent) + 2, b) \in Seq(Words)
        BY <3>1, <4>1, EncodingType
      <4>5. Group(lens) \in Seq(Words)
        BY <3>3, <4>4, CatType
      <4>6. Published(lens) \in Seq(Message) /\ Len(Published(lens)) = 2
        BY <4>2, <4>3, ShortSeqs
      <4>7. Len(lens) = 2
        BY <3>3
      <4> QED BY <4>5, <4>6, <4>7
    <3> QED BY <1>0, <3>2, <3>3, GroupIs
  <2>3. SentOK' /\ SentBounded'
    <3>1. /\ Cat(sent, Published(lens)) \in Seq(Message)
          /\ Len(Cat(sent, Published(lens))) = Len(sent) + Len(Published(lens))
      BY <1>0, <2>2, CatType
    <3>2. sent' = Cat(sent, Published(lens))
      BY <2>1 DEF Cat
    <3> QED BY <1>0, <2>2, <3>1, <3>2 DEF SentOK, SentBounded
  <2>4. <<>> \in Seq(Words)
    OBVIOUS
  <2>5. /\ NetOK' /\ FlowOK' /\ ReaderOK' /\ SideOK("near")'
        /\ \A t \in Sides \ {"near"} : reader'[t] = reader[t] /\ flow'[t] = flow[t]
        /\ connected' => connected
    BY <1>0, <2>1, <2>2, <2>4, WriteTypes DEF Sound
  <2>6. \A t \in Sides \ {"near"} : Untouched(t)
    BY <1>0, <2>5 DEF Untouched
  <2> QED BY <1>0, <1>1, <2>3, <2>5, <2>6, SideSound
<1> QED BY <1>2, <1>3

(* What a parser gets. *)
LEMMA ParsedWords ==
  ASSUME Sound, NEW s \in Sides, Complete(s)
  PROVE  /\ Gathered(s) \in Seq(Words) /\ Rest(s) \in Seq(Words)
         /\ Len(Gathered(s)) = reader[s].length
         /\ section[s] \in {0, 1} /\ header[s] \in Words
         /\ section[s] = 0 => /\ Len(Gathered(s)) = 2
                              /\ LengthOf(Gathered(s)) \in Words /\ IdOf(Gathered(s)) \in Words
<1>1. /\ Gathered(s) \in Seq(Words) /\ Rest(s) \in Seq(Words)
      /\ section[s] \in {0, 1} /\ header[s] \in Words
  BY TakenPrefix DEF Sound, ParserOK
<1>2. Len(Gathered(s)) = reader[s].length /\ flow[s] = "round"
  BY DEF Complete
<1>3. section[s] = 0 => Len(Gathered(s)) = 2
  BY <1>2 DEF Sound, SideOK
<1> QED BY <1>1, <1>2, <1>3, ElementOfSeq DEF LengthOf, IdOf

(* A header was parsed and the body is asked for. *)
LEMMA ExpectBodySound ==
  ASSUME Sound, UNCHANGED config, NEW s \in Sides, Complete(s), section[s] = 0,
         ExpectBody(s, Gathered(s))
  PROVE  Sound'
<1>0. LengthOf(Gathered(s)) \in Words /\ IdOf(Gathered(s)) \in Words /\ Rest(s) \in Seq(Words)
  BY ParsedWords
<1>1. /\ section' = [section EXCEPT ![s] = 1]
      /\ header' = [header EXCEPT ![s] = IdOf(Gathered(s))]
      /\ Resume(s, Rest(s), LengthOf(Gathered(s)))
      /\ UNCHANGED <<net, serialized, history>>
  BY DEF ExpectBody
<1>2. ParserOK' /\ section'[s] = 1 /\ \A t \in Sides \ {s} : UNCHANGED <<section[t], header[t]>>
  BY <1>0, <1>1 DEF Sound, ParserOK
<1>3. NetOK' /\ SentOK' /\ DoneOK' /\ SentBounded'
  BY <1>1 DEF Sound, NetOK, SentOK, DoneOK, SentBounded, history, config
<1>4. /\ FlowOK' /\ ReaderOK' /\ connected' = connected
      /\ \A t \in Sides \ {s} : reader'[t] = reader[t] /\ flow'[t] = flow[t]
  BY <1>0, <1>1, ResumeTypes DEF Sound
<1>5. SideOK(s)'
  BY <1>0, <1>1, <1>2, ResumeSide DEF Sound, config
<1>6. \A t \in Sides \ {s} : Untouched(t)
  BY <1>2, <1>4 DEF Untouched
<1> QED BY <1>2, <1>3, <1>4, <1>5, <1>6, SideSound

(* A reply was parsed. *)
LEMMA ReplySound ==
  ASSUME Sound, UNCHANGED config, Complete("near"), NEW flag \in Words, NEW body \in Seq(Words),
         Reply(flag, body)
  PROVE  Sound'
<1>0. "near" \in Sides /\ Rest("near") \in Seq(Words)
  BY ParsedWords DEF Sides
<1>1. UNCHANGED <<net, header, serialized, sent, executed, results>>
  BY DEF Reply
<1>2. NetOK' /\ SentOK' /\ SentBounded'
  BY <1>1 DEF Sound, NetOK, SentOK, SentBounded, config
<1>3. CASE Finish("near") /\ UNCHANGED <<reader, section, returned>>
  <2>1. ReaderOK' /\ ParserOK' /\ DoneOK'
    BY <1>1, <1>3 DEF Sound, ReaderOK, ParserOK, DoneOK
  <2>2. FlowOK' /\ SideOK("near")' /\ ~connected' /\ \A t \in Sides \ {"near"} : flow'[t] = flow[t]
    BY <1>0, <1>3, FinishSide DEF Sound, config
  <2>3. \A t \in Sides \ {"near"} : Untouched(t)
    BY <1>1, <1>3, <2>2 DEF Untouched
  <2> QED BY <1>0, <1>2, <2>1, <2>2, <2>3, SideSound
<1>4. CASE /\ ExpectHeader("near")
           /\ returned' = Append(returned, [id |-> IF lang["near"] = "C++" \/ flag = 1 THEN 1 ELSE 0,
                                            body |-> body])
           /\ reader' = [reader EXCEPT !["near"] =
                           [buffered |-> Rest("near"), message |-> <<>>, length |-> 2]]
           /\ flow' = [flow EXCEPT !["near"] = "idle"]
           /\ UNCHANGED connected
  <2> DEFINE got == [id |-> IF lang["near"] = "C++" \/ flag = 1 THEN 1 ELSE 0, body |-> body]
             new == [buffered |-> Rest("near"), message |-> <<>>, length |-> 2]
  <2>1. got \in Message
    BY DEF Message
  <2>2. new \in Reader /\ new.length = 2 /\ new.message = <<>>
    BY <1>0, EXAssumption DEF Reader, Words
  <2>3. DoneOK'
    <3> HIDE DEF got
    <3>1. returned' = Append(returned, got) /\ returned \in Seq(Message)
      BY <1>4 DEF got, Sound, DoneOK
    <3>2. Append(returned, got) \in Seq(Message)
      BY <2>1, <3>1, AppendProperties
    <3> QED BY <1>1, <3>1, <3>2 DEF Sound, DoneOK
  <2> HIDE DEF new
  <2>4. reader' = [reader EXCEPT !["near"] = new]
    BY <1>4 DEF new
  <2>5. ReaderOK' /\ reader'["near"] = new /\ \A t \in Sides \ {"near"} : reader'[t] = reader[t]
    BY <1>0, <2>2, <2>4 DEF Sound, ReaderOK
  <2>6. /\ FlowOK' /\ flow'["near"] = "idle" /\ \A t \in Sides \ {"near"} : flow'[t] = flow[t]
    BY <1>0, <1>4 DEF Sound, FlowOK, FlowStages
  <2>7. ParserOK' /\ \A t \in Sides \ {"near"} : UNCHANGED <<section[t], header[t]>>
    BY <1>0, <1>1, <1>4 DEF Sound, ParserOK, ExpectHeader
  <2>8. SideOK("near")'
    <3>1. Len(<<>>) <= 2
      OBVIOUS
    <3> QED BY <2>2, <2>5, <2>6, <3>1 DEF SideOK
  <2>9. \A t \in Sides \ {"near"} : Untouched(t)
    BY <1>4, <2>5, <2>6, <2>7 DEF Untouched
  <2> QED BY <1>0, <1>2, <2>3, <2>5, <2>6, <2>7, <2>8, <2>9, SideSound
<1> QED BY <1>3, <1>4 DEF Reply

(* parseMessage and ParseMessage of the clients. *)
LEMMA ParseReplySound ==
  ASSUME Sound, ParseReply
  PROVE  Sound'
<1>1. UNCHANGED config /\ Complete("near") /\ "near" \in Sides
  BY DEF ParseReply, Sides
<1>2. /\ Gathered("near") \in Seq(Words) /\ header["near"] \in Words
      /\ section["near"] \in {0, 1} /\ <<>> \in Seq(Words)
      /\ section["near"] = 0 => IdOf(Gathered("near")) \in Words
  BY <1>1, ParsedWords
<1>3. \/ section["near"] = 1 /\ Reply(header["near"], Gathered("near"))
      \/ section["near"] = 0 /\ ExpectBody("near", Gathered("near"))
      \/ section["near"] = 0 /\ Reply(IdOf(Gathered("near")), <<>>)
  BY <1>2 DEF ParseReply
<1> QED BY <1>1, <1>2, <1>3, ReplySound, ExpectBodySound

(* A reply that toBinary has cut short is words of two replies. *)
LEMMA EncodedType ==
  ASSUME NEW old \in Seq(Words), NEW new \in Seq(Words), NEW code \in Encoded(old, new)
  PROVE  /\ code.bytes \in Seq(Words) /\ code.ok \in BOOLEAN /\ (code.ok => code.bytes = new)
         /\ Len(code.bytes) <= Len(old) \/ Len(code.bytes) <= Len(new)
<1>1. CASE code = [ok |-> TRUE, bytes |-> new]
  <2>1. code.bytes = new /\ code.ok = TRUE
    BY <1>1
  <2>2. Len(code.bytes) <= Len(new)
    <3>1. Len(new) \in Nat
      BY LenProperties
    <3> QED BY <2>1, <3>1
  <2>3. code.bytes \in Seq(Words) /\ code.ok \in BOOLEAN /\ (code.ok => code.bytes = new)
    BY <2>1
  <2> QED BY <2>2, <2>3
<1>2. ASSUME NEW n \in 0 .. Len(new) - 1, code = [ok |-> FALSE, bytes |-> Leftover(old, new, n)]
      PROVE  /\ code.bytes \in Seq(Words) /\ code.ok = FALSE
             /\ Len(code.bytes) <= Len(old) \/ Len(code.bytes) <= Len(new)
  <2>0. Len(old) \in Nat /\ Len(new) \in Nat
    BY LenProperties
  <2> DEFINE x == SubSeq(new, 1, n)
             y == SubSeq(old, n + 1, Len(old))
  <2>1. x \in Seq(Words) /\ Len(x) = n
    BY <2>0, SplitSeq
  <2>2. y \in Seq(Words) /\ Len(y) = IF n <= Len(old) THEN Len(old) - n ELSE 0
    <3>1. CASE n <= Len(old)
      BY <2>0, <3>1, SplitSeq
    <3>2. CASE ~(n <= Len(old))
      <4>1. y = <<>>
        BY <2>0, <3>2
      <4> QED BY <3>2, <4>1
    <3> QED BY <3>1, <3>2
  <2>3. code.bytes = Cat(x, y) /\ code.ok = FALSE
    BY <1>2 DEF Leftover, Cat
  <2> HIDE DEF x, y
  <2>4. Cat(x, y) \in Seq(Words) /\ Len(Cat(x, y)) = Len(x) + Len(y)
    BY <2>1, <2>2, CatType
  <2> QED BY <2>0, <2>1, <2>2, <2>3, <2>4
<1>3. \/ code = [ok |-> TRUE, bytes |-> new]
      \/ \E n \in 0 .. Len(new) - 1 : code = [ok |-> FALSE, bytes |-> Leftover(old, new, n)]
  BY Zenon DEF Encoded
<1> DEFINE Typed == /\ code.bytes \in Seq(Words) /\ code.ok \in BOOLEAN
                    /\ code.ok => code.bytes = new
                    /\ Len(code.bytes) <= Len(old) \/ Len(code.bytes) <= Len(new)
<1>4. code = [ok |-> TRUE, bytes |-> new] => Typed
  BY <1>1
<1>5. ASSUME NEW n \in 0 .. Len(new) - 1, code = [ok |-> FALSE, bytes |-> Leftover(old, new, n)]
      PROVE  Typed
  BY <1>2, <1>5
<1> HIDE DEF Typed
<1>6. Typed
  BY <1>3, <1>4, <1>5
<1> QED BY <1>6 DEF Typed

(* call of the server, with the reply. *)
LEMMA ExecuteSound ==
  ASSUME Sound, UNCHANGED config, pair = "rpc", Complete("far"), NEW id \in Words,
         NEW args \in Seq(Words), Execute(id, args)
  PROVE  Sound'
<1>0. /\ "far" \in Sides /\ "near" \in Sides /\ Rest("far") \in Seq(Words) /\ id \in Nat
      /\ [id |-> id, body |-> args] \in Message
      /\ serialized \in Seq(Words) /\ executed \in Seq(Message)
      /\ results \in Seq([body : Seq(Words), whole : BOOLEAN])
      /\ Len(sent) \in Words
  <2>1. Len(sent) \in Nat /\ id \in Nat
    BY LenProperties DEF Sound, SentOK, Words
  <2>2. Len(sent) \in Words
    BY <2>1, EXAssumption DEF Sound, SentBounded, Words
  <2> QED BY <2>1, <2>2, ParsedWords DEF Sides, Message, Sound, DoneOK
<1>1. UNCHANGED <<header, sent, returned>>
  BY DEF Execute
<1>2. SentOK' /\ SentBounded'
  BY <1>1 DEF Sound, SentOK, SentBounded
<1>3. Append(executed, [id |-> id, body |-> args]) \in Seq(Message)
  BY <1>0, AppendProperties
<1>4. ASSUME id \in Procedures, ExpectHeader("far"),
             executed' = Append(executed, [id |-> id, body |-> args]),
             NEW len \in RetLens[id], NEW code \in Encoded(serialized, Body(Len(sent), len)),
             serialized' = code.bytes,
             results' = Append(results, [body |-> Body(Len(sent), len), whole |-> code.ok]),
             \/ Finish("far") /\ UNCHANGED <<net, reader>>
             \/ Write("far", "near", Header(1, Len(code.bytes)) \o code.bytes, Rest("far"))
      PROVE  Sound'
  <2>1. Body(Len(sent), len) \in Seq(Words)
    BY <1>0, <1>4, EXAssumption, BodyType
  <2>2. code.bytes \in Seq(Words) /\ code.ok \in BOOLEAN
    BY <1>0, <2>1, EncodedType
  <2>3. DoneOK'
    <3>1. [body |-> Body(Len(sent), len), whole |-> code.ok] \in [body : Seq(Words), whole : BOOLEAN]
      BY <2>1, <2>2
    <3>2. results' \in Seq([body : Seq(Words), whole : BOOLEAN])
      BY <1>0, <1>4, <3>1, AppendProperties
    <3> QED BY <1>1, <1>3, <1>4, <2>2, <3>2 DEF Sound, DoneOK
  <2>4. ParserOK' /\ section'["far"] = 0 /\ \A t \in Sides \ {"far"} : UNCHANGED <<section[t], header[t]>>
    BY <1>0, <1>1, <1>4 DEF Sound, ParserOK, ExpectHeader
  <2>5. CASE Finish("far") /\ UNCHANGED <<net, reader>>
    <3>1. NetOK' /\ ReaderOK'
      BY <2>5 DEF Sound, NetOK, ReaderOK, config
    <3>2. FlowOK' /\ SideOK("far")' /\ ~connected' /\ \A t \in Sides \ {"far"} : flow'[t] = flow[t]
      BY <1>0, <2>5, FinishSide DEF Sound, config
    <3>3. \A t \in Sides \ {"far"} : Untouched(t)
      BY <2>4, <2>5, <3>2 DEF Untouched
    <3> QED BY <1>0, <1>2, <2>3, <2>4, <3>1, <3>2, <3>3, SideSound
  <2>6. CASE Write("far", "near", Header(1, Len(code.bytes)) \o code.bytes, Rest("far"))
    <3> DEFINE words == Header(1, Len(code.bytes)) \o code.bytes
    <3>1. words \in Seq(Words)
      <4>1. Header(1, Len(code.bytes)) \in Seq(Words)
        BY <2>2, LenProperties, HeaderType
      <4>2. words = Cat(Header(1, Len(code.bytes)), code.bytes)
        BY DEF Cat
      <4> QED BY <2>2, <4>1, <4>2, CatType
    <3>2. Write("far", "near", words, Rest("far"))
      BY <2>6
    <3> HIDE DEF words
    <3>3. /\ NetOK' /\ FlowOK' /\ ReaderOK' /\ SideOK("far")'
          /\ \A t \in Sides \ {"far"} : reader'[t] = reader[t] /\ flow'[t] = flow[t]
          /\ connected' => connected
      BY <1>0, <3>1, <3>2, WriteTypes DEF Sound
    <3>4. \A t \in Sides \ {"far"} : Untouched(t)
      BY <2>4, <3>3 DEF Untouched
    <3> QED BY <1>0, <1>2, <2>3, <2>4, <3>3, <3>4, SideSound
  <2> QED BY <1>4, <2>5, <2>6
<1>5. ASSUME executed' = IF id \in Procedures
                         THEN Append(executed, [id |-> id, body |-> args]) ELSE executed,
             Finish("far"), UNCHANGED <<net, reader, section, serialized, results>>
      PROVE  Sound'
  <2>1. NetOK' /\ ReaderOK' /\ ParserOK'
    BY <1>1, <1>5 DEF Sound, NetOK, ReaderOK, ParserOK, config
  <2>2. DoneOK'
    BY <1>0, <1>1, <1>3, <1>5 DEF Sound, DoneOK
  <2>3. FlowOK' /\ SideOK("far")' /\ ~connected' /\ \A t \in Sides \ {"far"} : flow'[t] = flow[t]
    BY <1>0, <1>5, FinishSide DEF Sound, config
  <2>4. \A t \in Sides \ {"far"} : Untouched(t)
    BY <1>1, <1>5, <2>3 DEF Untouched
  <2> QED BY <1>0, <1>2, <2>1, <2>2, <2>3, <2>4, SideSound
<1> QED BY <1>4, <1>5 DEF Execute

(* parseMessage of the server. *)
LEMMA ParseRequestSound ==
  ASSUME Sound, ParseRequest
  PROVE  Sound'
<1>1. UNCHANGED config /\ Complete("far") /\ "far" \in Sides /\ pair = "rpc"
  BY DEF ParseRequest, Sides
<1>2. /\ Gathered("far") \in Seq(Words) /\ header["far"] \in Words
      /\ section["far"] \in {0, 1} /\ <<>> \in Seq(Words)
      /\ section["far"] = 0 => IdOf(Gathered("far")) \in Words
  BY <1>1, ParsedWords
<1>3. \/ section["far"] = 1 /\ Execute(header["far"], Gathered("far"))
      \/ section["far"] = 0 /\ ExpectBody("far", Gathered("far"))
      \/ section["far"] = 0 /\ Execute(IdOf(Gathered("far")), <<>>)
  BY <1>2 DEF ParseRequest
<1> QED BY <1>1, <1>2, <1>3, ExecuteSound, ExpectBodySound

(* The callback of a subscriber. *)
LEMMA CallbackSound ==
  ASSUME Sound, UNCHANGED config, Complete("far"), NEW flag \in Words, NEW body \in Seq(Words),
         Callback(flag, body)
  PROVE  Sound'
<1>0. "far" \in Sides /\ Rest("far") \in Seq(Words) /\ 2 \in Words
  BY ParsedWords, EXAssumption DEF Sides, Words
<1>1. UNCHANGED <<net, header, serialized, sent, results, returned>>
  BY DEF Callback
<1>2. NetOK' /\ SentOK' /\ SentBounded'
  BY <1>1 DEF Sound, NetOK, SentOK, SentBounded, config
<1>3. CASE Finish("far") /\ UNCHANGED <<reader, section, executed>>
  <2>1. ReaderOK' /\ ParserOK' /\ DoneOK'
    BY <1>1, <1>3 DEF Sound, ReaderOK, ParserOK, DoneOK
  <2>2. FlowOK' /\ SideOK("far")' /\ ~connected' /\ \A t \in Sides \ {"far"} : flow'[t] = flow[t]
    BY <1>0, <1>3, FinishSide DEF Sound, config
  <2>3. \A t \in Sides \ {"far"} : Untouched(t)
    BY <1>1, <1>3, <2>2 DEF Untouched
  <2> QED BY <1>0, <1>2, <2>1, <2>2, <2>3, SideSound
<1>4. CASE /\ ExpectHeader("far")
           /\ executed' = Append(executed, [id |-> IF lang["far"] = "C++" \/ flag = 1 THEN 1 ELSE 0,
                                            body |-> body])
           /\ Resume("far", Rest("far"), 2)
  <2> DEFINE got == [id |-> IF lang["far"] = "C++" \/ flag = 1 THEN 1 ELSE 0, body |-> body]
  <2>1. got \in Message
    BY DEF Message
  <2>2. DoneOK'
    <3> HIDE DEF got
    <3>1. executed' = Append(executed, got) /\ executed \in Seq(Message)
      BY <1>4 DEF got, Sound, DoneOK
    <3>2. Append(executed, got) \in Seq(Message)
      BY <2>1, <3>1, AppendProperties
    <3> QED BY <1>1, <3>1, <3>2 DEF Sound, DoneOK
  <2>3. /\ FlowOK' /\ ReaderOK' /\ connected' = connected
        /\ \A t \in Sides \ {"far"} : reader'[t] = reader[t] /\ flow'[t] = flow[t]
    BY <1>0, <1>4, ResumeTypes DEF Sound
  <2>4. SideOK("far")'
    BY <1>0, <1>4, ResumeSide DEF Sound, config
  <2>5. ParserOK' /\ \A t \in Sides \ {"far"} : UNCHANGED <<section[t], header[t]>>
    BY <1>0, <1>1, <1>4 DEF Sound, ParserOK, ExpectHeader
  <2>6. \A t \in Sides \ {"far"} : Untouched(t)
    BY <2>3, <2>5 DEF Untouched
  <2> QED BY <1>0, <1>2, <2>2, <2>3, <2>4, <2>5, <2>6, SideSound
<1> QED BY <1>3, <1>4 DEF Callback

(* parseMessage and ParseMessage of the subscribers. *)
LEMMA ParsePublishedSound ==
  ASSUME Sound, ParsePublished
  PROVE  Sound'
<1>1. UNCHANGED config /\ Complete("far") /\ "far" \in Sides
  BY DEF ParsePublished, Sides
<1>2. /\ Gathered("far") \in Seq(Words) /\ header["far"] \in Words
      /\ section["far"] \in {0, 1} /\ <<>> \in Seq(Words)
      /\ section["far"] = 0 => IdOf(Gathered("far")) \in Words
  BY <1>1, ParsedWords
<1>3. \/ section["far"] = 1 /\ Callback(header["far"], Gathered("far"))
      \/ section["far"] = 0 /\ ExpectBody("far", Gathered("far"))
      \/ section["far"] = 0 /\ Callback(IdOf(Gathered("far")), <<>>)
      \/ Finish("far") /\ UNCHANGED <<net, reader, section, header, serialized, history>>
  BY <1>2 DEF ParsePublished
<1>4. CASE Finish("far") /\ UNCHANGED <<net, reader, section, header, serialized, history>>
  <2>1. NetOK' /\ ReaderOK' /\ ParserOK' /\ SentOK' /\ DoneOK' /\ SentBounded'
    BY <1>1, <1>4 DEF Sound, NetOK, ReaderOK, ParserOK, SentOK, DoneOK, SentBounded, history, config
  <2>2. FlowOK' /\ SideOK("far")' /\ ~connected' /\ \A t \in Sides \ {"far"} : flow'[t] = flow[t]
    BY <1>1, <1>4, FinishSide DEF Sound, config
  <2>3. \A t \in Sides \ {"far"} : Untouched(t)
    BY <1>4, <2>2 DEF Untouched
  <2> QED BY <1>1, <2>1, <2>2, <2>3, SideSound
<1> QED BY <1>1, <1>2, <1>3, <1>4, CallbackSound, ExpectBodySound

(* The invariant holds at the start ... *)
LEMMA InitSound == Init => Sound
<1> SUFFICES ASSUME Init PROVE Sound
  OBVIOUS
<1>0. /\ 2 \in Words /\ 0 \in Words /\ 0 \in Nat
      /\ Transports \subseteq {"stream", "udp", "stdio"} /\ MaxSent \in Nat
  BY EXAssumption DEF Words
<1>1. ConfigOK
  BY <1>0 DEF Init, ConfigOK
<1>2. NetOK /\ FlowOK
  BY DEF Init, NetOK, FlowOK, FlowStages
<1>3. [buffered |-> <<>>, message |-> <<>>, length |-> 2] \in Reader
  BY <1>0 DEF Reader
<1>4. ReaderOK /\ ParserOK
  BY <1>0, <1>3 DEF Init, ReaderOK, ParserOK
<1>5. SentOK /\ DoneOK /\ SentBounded
  BY <1>0 DEF Init, SentOK, DoneOK, SentBounded
<1>6. \A s \in Sides : SideOK(s)
  <2>1. ASSUME NEW s \in Sides
        PROVE  /\ reader[s].buffered = <<>> /\ reader[s].message = <<>> /\ reader[s].length = 2
               /\ flow[s] = IF s = "near" THEN "idle" ELSE "read"
    BY DEF Init
  <2>2. Len(<<>>) <= 2
    OBVIOUS
  <2> QED BY <2>1, <2>2 DEF SideOK
<1> QED BY <1>1, <1>2, <1>4, <1>5, <1>6 DEF Sound

(* ... and every step keeps it. *)
LEMMA NextSound ==
  ASSUME Sound, [Next]_vars
  PROVE  Sound'
<1>1. CASE UNCHANGED vars
  BY <1>1 DEF vars, config, history, Sound, ConfigOK, NetOK, FlowOK, ReaderOK, ParserOK, SentOK,
              DoneOK, SentBounded, SideOK
<1>2. CASE Next
  BY <1>2, CallSound, PublishSound, ReadSound, GatherSound, NetworkSound, ParseReplySound,
     ParseRequestSound, ParsePublishedSound DEF Next, DataFlow
<1> QED BY <1>1, <1>2

(* Every variable keeps its type; the words of a header keep their width,   *)
(* whatever the lengths, and a section is that of a header or of a body     *)
(* (parseMessage and writeMessage of both ends, dataFlow of both managers). *)
THEOREM TypeCorrect == Spec => []TypeOK
<1>1. Spec => []Sound
  BY InitSound, NextSound, PTL DEF Spec
<1>2. Sound => TypeOK
  BY TypesOfParts DEF Sound
<1> QED BY <1>1, <1>2, PTL

-----------------------------------------------------------------------------
(* What is on its way to a side: the bytes it has read and not yet parsed  *)
(* and, over a stream, the ones that have yet to be read.                  *)
Behind(s) == IF transport = "udp" THEN <<>> ELSE net[s]
Pending(s) == Cat(Cat(reader[s].message, reader[s].buffered), Behind(s))

(* What follows the sub-message that a parser gets. *)
Following(s) == Cat(Rest(s), Behind(s))

(* Nothing arrives; or the message of id and body does, and rest after it, *)
(* as a whole or without the header, which the parser has.                 *)
Quiet(s) == section[s] = 0 /\ Pending(s) = <<>>

Arrives(s, id, body, rest) ==
  \/ section[s] = 0 /\ Pending(s) = Cat(Header(id, Len(body)), Cat(body, rest))
  \/ /\ section[s] = 1
     /\ <<reader[s].length, header[s]>> = Header(id, Len(body))
     /\ Pending(s) = Cat(body, rest)

Waiting == {"idle", "locked"}

(* What a step that parses nothing leaves of a side. *)
Kept(s) ==
  /\ section'[s] = section[s] /\ header'[s] = header[s]
  /\ reader'[s].length = reader[s].length
  /\ Pending(s)' = Pending(s)
  /\ flow[s] = "done" => flow'[s] = "done"
  /\ flow'[s] = "done" \/ (flow'[s] \in Waiting <=> flow[s] \in Waiting)
  /\ connected' => connected

Still(s) ==
  /\ UNCHANGED <<transport, flow[s], reader[s], net[s], section[s], header[s]>>
  /\ connected' => connected

(* A side whose variables do not change is kept. *)
LEMMA StillKept ==
  ASSUME NEW s \in Sides, Still(s)
  PROVE  Kept(s)
BY DEF Still, Kept, Pending, Behind

(* The types of what is on its way. *)
LEMMA BehindType ==
  ASSUME Sound, NEW s \in Sides
  PROVE  /\ Behind(s) \in Seq(Words) /\ Pending(s) \in Seq(Words)
         /\ reader[s].message \in Seq(Words) /\ reader[s].buffered \in Seq(Words)
         /\ reader[s].length \in Nat /\ header[s] \in Nat /\ section[s] \in {0, 1}
<1>1. Behind(s) \in Seq(Words)
  BY DEF Sound, NetOK, Behind
<1>2. /\ reader[s].message \in Seq(Words) /\ reader[s].buffered \in Seq(Words)
      /\ reader[s].length \in Nat /\ header[s] \in Nat /\ section[s] \in {0, 1}
  BY EXAssumption DEF Sound, ReaderOK, Reader, ParserOK, Words
<1>3. Pending(s) \in Seq(Words)
  BY <1>1, <1>2, CatType DEF Pending
<1> QED BY <1>1, <1>2, <1>3

(* Only empty pieces make an empty whole. *)
LEMMA CatIsEmpty ==
  ASSUME NEW S, NEW a \in Seq(S), NEW b \in Seq(S), Cat(a, b) = <<>>
  PROVE  a = <<>> /\ b = <<>>
<1>1. Len(a) \in Nat /\ Len(b) \in Nat /\ Len(Cat(a, b)) = Len(a) + Len(b)
  BY CatType, LenProperties
<1>2. Len(Cat(a, b)) = 0
  OBVIOUS
<1>3. Len(a) = 0 /\ Len(b) = 0
  BY <1>1, <1>2
<1> QED BY <1>3, EmptySeq

(* A stream is read in any pieces, and the pieces are joined. *)
LEMMA ReadKept ==
  ASSUME Sound, transport # "udp", NEW s \in Sides, Read(s)
  PROVE  \A t \in Sides : Kept(t)
<1>0. /\ UNCHANGED <<transport, connected, section, header>>
      /\ flow[s] = "read" /\ flow' = [flow EXCEPT ![s] = "round"]
      /\ reader[s].buffered = <<>>
  BY DEF Read, config, Sound, SideOK
<1>1. net[s] \in Seq(Words) /\ Len(net[s]) \in Nat /\ ReadCap \in Nat /\ reader[s].message \in Seq(Words)
  BY LenProperties, EXAssumption, BehindType DEF Sound, NetOK, ReadCap
<1>2. PICK n \in IF StdInput(s) THEN {ReadCap} ELSE 1 .. ReadCap :
        /\ n <= Len(net[s])
        /\ reader' = [reader EXCEPT ![s].buffered = SubSeq(net[s], 1, n)]
        /\ net' = [net EXCEPT ![s] = SubSeq(@, n + 1, Len(@))]
  BY DEF Read
<1>3. n \in 0 .. Len(net[s])
  BY <1>1, <1>2
<1> DEFINE x == SubSeq(net[s], 1, n)
           y == SubSeq(net[s], n + 1, Len(net[s]))
<1>4. x \in Seq(Words) /\ y \in Seq(Words) /\ Cat(x, y) = net[s]
  BY <1>1, <1>3, SplitSeq
<1> HIDE DEF x, y
<1>5. /\ reader' = [reader EXCEPT ![s].buffered = x]
      /\ net' = [net EXCEPT ![s] = y]
  BY <1>2 DEF x, y
<1>6. /\ reader'[s].buffered = x /\ reader'[s].message = reader[s].message
      /\ reader'[s].length = reader[s].length /\ net'[s] = y
      /\ \A t \in Sides \ {s} : reader'[t] = reader[t] /\ net'[t] = net[t]
  BY <1>5 DEF Sound, ReaderOK, Reader, NetOK
<1>7. flow'[s] = "round" /\ \A t \in Sides \ {s} : flow'[t] = flow[t]
  BY <1>0 DEF Sound, FlowOK
<1>8. Pending(s)' = Pending(s)
  <2>1. Pending(s) = Cat(reader[s].message, net[s])
    BY <1>0, <1>1, CatEmpty DEF Pending, Behind
  <2>2. Pending(s)' = Cat(Cat(reader[s].message, x), y)
    BY <1>0, <1>6 DEF Pending, Behind
  <2> QED BY <1>1, <1>4, <2>1, <2>2, CatAssociative
<1>9. Kept(s)
  BY <1>0, <1>6, <1>7, <1>8 DEF Kept, Waiting
<1>10. \A t \in Sides \ {s} : Kept(t)
  <2>1. \A t \in Sides \ {s} : Still(t)
    BY <1>0, <1>6, <1>7 DEF Still
  <2> QED BY <2>1, StillKept
<1> QED BY <1>9, <1>10

(* A round of the inner loop moves bytes and neither loses nor adds one. *)
LEMMA GatherKept ==
  ASSUME Sound, NEW s \in Sides, Gather(s)
  PROVE  \A t \in Sides : Kept(t)
<1>0. /\ UNCHANGED <<transport, net, connected, section, header>>
      /\ flow[s] = "round"
      /\ reader' = [reader EXCEPT ![s].message = Gathered(s), ![s].buffered = Rest(s)]
      /\ flow' = [flow EXCEPT ![s] = IF Rest(s) = <<>> THEN "read" ELSE "round"]
  BY DEF Gather, config
<1>1. /\ reader'[s].buffered = Rest(s) /\ reader'[s].message = Gathered(s)
      /\ reader'[s].length = reader[s].length
      /\ \A t \in Sides \ {s} : reader'[t] = reader[t]
  BY <1>0 DEF Sound, ReaderOK, Reader
<1>2. flow'[s] \in {"read", "round"} /\ \A t \in Sides \ {s} : flow'[t] = flow[t]
  BY <1>0 DEF Sound, FlowOK
<1>3. Cat(Gathered(s), Rest(s)) = Cat(reader[s].message, reader[s].buffered)
  BY TakenPrefix DEF Sound
<1>4. Pending(s)' = Pending(s)
  BY <1>0, <1>1, <1>3 DEF Pending, Behind
<1>5. Kept(s)
  BY <1>0, <1>1, <1>2, <1>4 DEF Kept, Waiting
<1>6. \A t \in Sides \ {s} : Kept(t)
  <2>1. \A t \in Sides \ {s} : Still(t)
    BY <1>0, <1>1, <1>2 DEF Still
  <2> QED BY <2>1, StillKept
<1> QED BY <1>5, <1>6

(* The end of one side leaves what is on its way to both. *)
LEMMA FinishKept ==
  ASSUME Sound, NEW s \in Sides, Finish(s), UNCHANGED <<transport, net, reader, section, header>>
  PROVE  flow'[s] = "done" /\ \A t \in Sides : Kept(t)
<1>1. flow' = [flow EXCEPT ![s] = "done"] /\ connected' = FALSE
  BY DEF Finish
<1>2. flow'[s] = "done" /\ \A t \in Sides \ {s} : flow'[t] = flow[t]
  BY <1>1 DEF Sound, FlowOK
<1>3. \A t \in Sides : Pending(t)' = Pending(t)
  BY DEF Pending, Behind
<1> QED BY <1>1, <1>2, <1>3 DEF Kept

(* What a parser gets is the first part of what was pending. *)
LEMMA ParsedPending ==
  ASSUME Sound, NEW s \in Sides, Complete(s)
  PROVE  /\ Following(s) \in Seq(Words)
         /\ Pending(s) = Cat(Gathered(s), Following(s))
<1>1. Gathered(s) \in Seq(Words) /\ Rest(s) \in Seq(Words) /\ Behind(s) \in Seq(Words)
  BY ParsedWords, BehindType
<1>2. Cat(Gathered(s), Rest(s)) = Cat(reader[s].message, reader[s].buffered)
  BY TakenPrefix DEF Sound
<1>3. Pending(s) = Cat(Cat(Gathered(s), Rest(s)), Behind(s))
  BY <1>2 DEF Pending
<1> QED BY <1>1, <1>3, CatAssociative, CatType DEF Following

(* Who gets nothing parses nothing. *)
LEMMA QuietParsesNothing ==
  ASSUME Sound, NEW s \in Sides, Complete(s), Quiet(s)
  PROVE  FALSE
<1>1. Pending(s) = <<>> /\ section[s] = 0
  BY DEF Quiet
<1>2. Gathered(s) \in Seq(Words) /\ Len(Gathered(s)) = 2 /\ Following(s) \in Seq(Words)
  BY <1>1, ParsedWords, ParsedPending
<1>3. Gathered(s) = <<>>
  BY <1>1, <1>2, ParsedPending, CatIsEmpty
<1> QED BY <1>2, <1>3

(* The parser gets the header and then the body. *)
LEMMA Arrived ==
  ASSUME Sound, NEW s \in Sides, Complete(s),
         NEW id \in Nat, NEW body \in Seq(Words), NEW rest \in Seq(Words),
         Arrives(s, id, body, rest)
  PROVE  /\ section[s] = 0 => /\ Gathered(s) = Header(id, Len(body))
                              /\ Following(s) = Cat(body, rest)
         /\ section[s] = 1 => /\ Len(Gathered(s)) = reader[s].length
                              /\ <<reader[s].length, header[s]>> = Header(id, Len(body))
                              /\ Pending(s) = Cat(body, rest)
         /\ section[s] = 1 /\ id < Ids /\ Len(body) < Base
              => /\ Gathered(s) = body /\ header[s] = id /\ reader[s].length = Len(body)
                 /\ Following(s) = rest
<1>0. /\ Gathered(s) \in Seq(Words) /\ Following(s) \in Seq(Words)
      /\ Pending(s) = Cat(Gathered(s), Following(s))
      /\ Len(Gathered(s)) = reader[s].length /\ Len(body) \in Nat
  BY ParsedWords, ParsedPending, LenProperties
<1>1. Header(id, Len(body)) \in Seq(Words) /\ Len(Header(id, Len(body))) = 2
  BY <1>0, HeaderType
<1>2. Cat(body, rest) \in Seq(Words)
  BY CatType
<1>3. CASE section[s] = 0
  <2>1. Pending(s) = Cat(Header(id, Len(body)), Cat(body, rest)) /\ Len(Gathered(s)) = 2
    BY <1>3, ParsedWords DEF Arrives
  <2>2. Gathered(s) = Header(id, Len(body)) /\ Following(s) = Cat(body, rest)
    BY <1>0, <1>1, <1>2, <2>1, CutEqual
  <2> QED BY <1>3, <2>2
<1>4. CASE section[s] = 1
  <2>1. /\ <<reader[s].length, header[s]>> = Header(id, Len(body))
        /\ Pending(s) = Cat(body, rest)
    BY <1>4 DEF Arrives
  <2>2. ASSUME id < Ids, Len(body) < Base
        PROVE  /\ Gathered(s) = body /\ header[s] = id /\ reader[s].length = Len(body)
               /\ Following(s) = rest
    <3>1. <<reader[s].length, header[s]>> = <<Len(body), id>>
      BY <1>0, <2>1, <2>2, HeaderParts
    <3>2. reader[s].length = Len(body) /\ header[s] = id
      BY <3>1
    <3>3. Gathered(s) = body /\ Following(s) = rest
      BY <1>0, <2>1, <3>2, CutEqual
    <3> QED BY <3>2, <3>3
  <2> QED BY <1>0, <1>4, <2>1, <2>2
<1> QED BY <1>3, <1>4, BehindType

(* The first of the two cases of Arrived: the header. *)
LEMMA ArrivedHeader ==
  ASSUME Sound, NEW s \in Sides, Complete(s), section[s] = 0,
         NEW id \in Nat, NEW body \in Seq(Words), NEW rest \in Seq(Words),
         Arrives(s, id, body, rest)
  PROVE  Gathered(s) = Header(id, Len(body)) /\ Following(s) = Cat(body, rest)
BY Arrived

(* The second: the body. *)
LEMMA ArrivedBody ==
  ASSUME Sound, NEW s \in Sides, Complete(s), section[s] = 1,
         NEW id \in Nat, NEW body \in Seq(Words), NEW rest \in Seq(Words),
         Arrives(s, id, body, rest), id < Ids, Len(body) < Base
  PROVE  Gathered(s) = body /\ header[s] = id /\ Following(s) = rest
BY Arrived

(* What is pending after a parser has asked for the next sub-message. *)
LEMMA AskedPending ==
  ASSUME Sound, NEW s \in Sides, UNCHANGED transport, net'[s] = net[s], Complete(s),
         reader'[s].message = <<>>, reader'[s].buffered = Rest(s)
  PROVE  Pending(s)' = Following(s)
<1>1. Rest(s) \in Seq(Words) /\ Cat(<<>>, Rest(s)) = Rest(s)
  BY ParsedWords, CatEmpty
<1>2. Behind(s)' = Behind(s)
  BY DEF Behind
<1> QED BY <1>1, <1>2 DEF Pending, Following

-----------------------------------------------------------------------------
(* Calls: no length was at the limit. *)
Plain(messages) == ~AtLimit(messages, MaxSent)

(* A length at the limit stays one as more is sent. *)
LEMMA AtLimitGrows ==
  ASSUME NEW S, NEW messages \in Seq(S), NEW m, NEW k \in Int, NEW l \in Int, k <= l
  PROVE  /\ AtLimit(messages, k) => AtLimit(messages, l) /\ AtLimit(Append(messages, m), l)
         /\ AtLimit(Append(messages, m), l) =>
              \/ AtLimit(messages, l)
              \/ Len(messages) + 1 <= l /\ Len(m.body) >= Base
         /\ Len(m.body) >= Base /\ Len(messages) + 1 <= l => AtLimit(Append(messages, m), l)
<1>0. Len(messages) \in Nat
  BY LenProperties
<1>1. /\ DOMAIN messages = 1 .. Len(messages)
      /\ DOMAIN Append(messages, m) = 1 .. Len(messages) + 1
      /\ \A i \in 1 .. Len(messages) : Append(messages, m)[i] = messages[i]
      /\ Append(messages, m)[Len(messages) + 1] = m
  OBVIOUS
<1>2. AtLimit(messages, k) => AtLimit(messages, l) /\ AtLimit(Append(messages, m), l)
  BY <1>0, <1>1 DEF AtLimit
<1>3. ASSUME AtLimit(Append(messages, m), l)
      PROVE  AtLimit(messages, l) \/ (Len(messages) + 1 <= l /\ Len(m.body) >= Base)
  <2>1. PICK i \in 1 .. l : i \in DOMAIN Append(messages, m) /\ Len(Append(messages, m)[i].body) >= Base
    BY <1>3 DEF AtLimit
  <2>2. CASE i \in 1 .. Len(messages)
    BY <1>1, <2>1, <2>2 DEF AtLimit
  <2>3. CASE i = Len(messages) + 1
    BY <1>0, <1>1, <2>1, <2>3
  <2> QED BY <1>0, <1>1, <2>1, <2>2, <2>3
<1>4. Len(m.body) >= Base /\ Len(messages) + 1 <= l => AtLimit(Append(messages, m), l)
  BY <1>0, <1>1 DEF AtLimit
<1> QED BY <1>2, <1>3, <1>4

(* The server has nothing to do, or the request that was written last.     *)
FarRpc ==
  Plain(sent) =>
    \/ flow["far"] = "done"
    \/ /\ Len(results) = Len(executed)
       /\ \/ Quiet("far") /\ (Len(executed) = Len(sent) \/ ~connected)
          \/ /\ Len(executed) = Len(sent) - 1
             /\ sent[Len(sent)].id \in Procedures
             /\ Arrives("far", sent[Len(sent)].id, sent[Len(sent)].body, <<>>)

(* The client waits for its user when every request has been answered, or  *)
(* has nothing to read yet, or the reply to the last request.              *)
Answer ==
  /\ Len(results) = Len(sent)
  /\ results[Len(sent)].whole => serialized = results[Len(sent)].body
  /\ Arrives("near", 1, serialized, <<>>)

NearRpc ==
  Plain(sent) /\ Plain(results) =>
    /\ Len(serialized) < Base
    /\ \/ flow["near"] = "done"
       \/ /\ flow["near"] \in Waiting /\ Quiet("near")
          /\ Len(returned) = Len(sent) /\ Len(results) = Len(sent)
       \/ /\ flow["near"] \notin Waiting /\ Len(returned) = Len(sent) - 1
          /\ Quiet("near") \/ Answer

InOrder ==
  Plain(sent) =>
    /\ Len(results) <= Len(executed) /\ Len(executed) <= Len(sent)
    /\ Len(sent) - 1 <= Len(returned)

(* A length at the limit ends the calls: it is that of the last request or *)
(* of its answer, and the ones before it have been served.                 *)
Spoilt ==
  /\ ~Plain(sent) => AtLimit(sent, Len(executed) + 1) /\ AtLimit(sent, Len(returned) + 1)
  /\ Plain(sent) /\ ~Plain(results) => AtLimit(results, Len(returned) + 1)

RpcOK == FarRpc /\ NearRpc /\ InOrder /\ Spoilt /\ ExecutedAsCalled /\ ReplyMatches

(* What parses nothing keeps the invariant of the server ... *)
LEMMA FarRpcKept ==
  ASSUME FarRpc, Kept("far"), UNCHANGED <<sent, executed, results>>
  PROVE  FarRpc'
<1>1. SUFFICES ASSUME Plain(sent) PROVE FarRpc'
  BY DEF FarRpc, Plain
<1>2. \/ flow["far"] = "done"
      \/ /\ Len(results) = Len(executed)
         /\ \/ Quiet("far") /\ (Len(executed) = Len(sent) \/ ~connected)
            \/ /\ Len(executed) = Len(sent) - 1 /\ sent[Len(sent)].id \in Procedures
               /\ Arrives("far", sent[Len(sent)].id, sent[Len(sent)].body, <<>>)
  BY <1>1 DEF FarRpc
<1>3. (flow["far"] = "done" => flow'["far"] = "done") /\ (connected' => connected)
  BY DEF Kept
<1>4. Quiet("far") => Quiet("far")'
  BY DEF Quiet, Kept
<1>5. Arrives("far", sent[Len(sent)].id, sent[Len(sent)].body, <<>>)
        => Arrives("far", sent[Len(sent)].id, sent[Len(sent)].body, <<>>)'
  BY DEF Arrives, Kept
<1> QED BY <1>2, <1>3, <1>4, <1>5 DEF FarRpc

(* ... and that of the client ... *)
LEMMA NearRpcKept ==
  ASSUME NearRpc, Kept("near"), UNCHANGED <<sent, results, returned, serialized>>
  PROVE  NearRpc'
<1>1. SUFFICES ASSUME Plain(sent) /\ Plain(results) PROVE NearRpc'
  BY DEF NearRpc, Plain
<1>2. /\ Len(serialized) < Base
      /\ \/ flow["near"] = "done"
         \/ /\ flow["near"] \in Waiting /\ Quiet("near")
            /\ Len(returned) = Len(sent) /\ Len(results) = Len(sent)
         \/ /\ flow["near"] \notin Waiting /\ Len(returned) = Len(sent) - 1
            /\ Quiet("near") \/ Answer
  BY <1>1 DEF NearRpc
<1>3. /\ flow["near"] = "done" => flow'["near"] = "done"
      /\ flow'["near"] = "done" \/ (flow'["near"] \in Waiting <=> flow["near"] \in Waiting)
  BY DEF Kept
<1>4. Quiet("near") => Quiet("near")'
  BY DEF Quiet, Kept
<1>5. Answer => Answer'
  BY DEF Answer, Arrives, Kept
<1> QED BY <1>2, <1>3, <1>4, <1>5 DEF NearRpc

(* ... and so all of it. *)
LEMMA RpcKept ==
  ASSUME RpcOK, \A s \in Sides : Kept(s), UNCHANGED <<pair, serialized, history>>
  PROVE  RpcOK'
<1>0. Kept("near") /\ Kept("far") /\ UNCHANGED <<sent, executed, results, returned>>
  BY DEF Sides, history
<1>1. FarRpc' /\ NearRpc'
  BY <1>0, FarRpcKept, NearRpcKept DEF RpcOK
<1>2. Plain(sent)' = Plain(sent) /\ Plain(results)' = Plain(results)
  BY <1>0 DEF Plain
<1>3. InOrder' /\ Spoilt'
  BY <1>0, <1>2 DEF RpcOK, InOrder, Spoilt
<1>4. ExecutedAsCalled' /\ ReplyMatches'
  BY <1>0 DEF RpcOK, ExecutedAsCalled, ReplyMatches
<1> QED BY <1>1, <1>3, <1>4 DEF RpcOK

(* The header of a message was taken: the parser waits for its body. *)
LEMMA AskedForBody ==
  ASSUME Sound, UNCHANGED config, NEW s \in Sides, Complete(s), section[s] = 0,
         ExpectBody(s, Gathered(s)), pair = "rpc" \/ s = "far"
  PROVE  /\ section'[s] = 1 /\ <<reader'[s].length, header'[s]>> = Gathered(s)
         /\ reader'[s].message = <<>> /\ reader'[s].buffered = Rest(s)
         /\ Pending(s)' = Following(s)
         /\ flow'[s] = IF Rest(s) # <<>> THEN "round"
                       ELSE IF LengthOf(Gathered(s)) > 0 THEN "read" ELSE "spin"
         /\ connected' = connected /\ UNCHANGED <<net, serialized, history>>
         /\ \A t \in Sides \ {s} : Still(t)
<1>0. /\ LengthOf(Gathered(s)) \in Words /\ IdOf(Gathered(s)) \in Words
      /\ Rest(s) \in Seq(Words) /\ Gathered(s) \in Seq(Words) /\ Len(Gathered(s)) = 2
  BY ParsedWords
<1>1. /\ section' = [section EXCEPT ![s] = 1]
      /\ header' = [header EXCEPT ![s] = IdOf(Gathered(s))]
      /\ Resume(s, Rest(s), LengthOf(Gathered(s)))
      /\ UNCHANGED <<net, serialized, history>>
  BY DEF ExpectBody
<1>2. /\ section'[s] = 1 /\ header'[s] = IdOf(Gathered(s))
      /\ \A t \in Sides \ {s} : UNCHANGED <<section[t], header[t]>>
  BY <1>1 DEF Sound, ParserOK
<1>3. /\ reader'[s] = [buffered |-> Rest(s), message |-> <<>>, length |-> LengthOf(Gathered(s))]
      /\ flow'[s] = IF Rest(s) # <<>> THEN "round"
                    ELSE IF LengthOf(Gathered(s)) > 0 THEN "read" ELSE "spin"
      /\ connected' = connected
      /\ \A t \in Sides \ {s} : reader'[t] = reader[t] /\ flow'[t] = flow[t]
  <2>1. ~(pair = "publish" /\ s = "near")
    OBVIOUS
  <2> QED BY <1>0, <1>1, <2>1, ResumeTypes DEF Sound
<1>4. /\ reader'[s].buffered = Rest(s) /\ reader'[s].message = <<>>
      /\ reader'[s].length = LengthOf(Gathered(s))
  BY <1>3
<1>5. <<LengthOf(Gathered(s)), IdOf(Gathered(s))>> = Gathered(s)
  BY <1>0 DEF LengthOf, IdOf
<1>6. Pending(s)' = Following(s)
  BY <1>1, <1>4, AskedPending DEF config
<1>7. \A t \in Sides \ {s} : Still(t)
  BY <1>1, <1>2, <1>3 DEF Still, config
<1> QED BY <1>1, <1>2, <1>3, <1>4, <1>5, <1>6, <1>7

(* The server has the header of a request. *)
LEMMA AskedFarRpc ==
  ASSUME Sound, RpcOK, UNCHANGED config, pair = "rpc", Complete("far"), section["far"] = 0,
         ExpectBody("far", Gathered("far"))
  PROVE  RpcOK'
<1>0. "far" \in Sides /\ "near" \in Sides \ {"far"} /\ "near" \in Sides
  BY DEF Sides
<1>1. /\ section'["far"] = 1 /\ <<reader'["far"].length, header'["far"]>> = Gathered("far")
      /\ Pending("far")' = Following("far")
      /\ UNCHANGED <<serialized, sent, executed, results, returned>>
      /\ Still("near")
  BY <1>0, AskedForBody DEF history
<1>2. NearRpc'
  BY <1>0, <1>1, StillKept, NearRpcKept DEF RpcOK
<1>3. FarRpc'
  <2>1. SUFFICES ASSUME Plain(sent) PROVE FarRpc'
    BY <1>1 DEF FarRpc, Plain
  <2>2. /\ Len(results) = Len(executed) /\ Len(executed) = Len(sent) - 1
        /\ sent[Len(sent)].id \in Procedures
        /\ Arrives("far", sent[Len(sent)].id, sent[Len(sent)].body, <<>>)
    <3>1. flow["far"] # "done" /\ ~Quiet("far")
      BY <1>0, QuietParsesNothing DEF Complete
    <3> QED BY <2>1, <3>1 DEF RpcOK, FarRpc
  <2>3. sent[Len(sent)].id \in Nat /\ sent[Len(sent)].body \in Seq(Words) /\ <<>> \in Seq(Words)
    <3>1. Len(sent) \in Nat /\ Len(executed) \in Nat /\ sent \in Seq(Message)
      BY LenProperties DEF Sound, SentOK, DoneOK
    <3>2. Len(sent) \in 1 .. Len(sent)
      BY <2>2, <3>1
    <3>3. sent[Len(sent)] \in Message
      BY <3>1, <3>2, ElementOfSeq
    <3> QED BY <3>3 DEF Message
  <2>4. /\ Gathered("far") = Header(sent[Len(sent)].id, Len(sent[Len(sent)].body))
        /\ Following("far") = Cat(sent[Len(sent)].body, <<>>)
    <3> DEFINE id == sent[Len(sent)].id
               body == sent[Len(sent)].body
    <3>1. Arrives("far", id, body, <<>>) /\ id \in Nat /\ body \in Seq(Words) /\ <<>> \in Seq(Words)
      BY <2>2, <2>3
    <3> HIDE DEF id, body
    <3>2. Gathered("far") = Header(id, Len(body)) /\ Following("far") = Cat(body, <<>>)
      BY <1>0, <3>1, ArrivedHeader
    <3> QED BY <3>2 DEF id, body
  <2>5. Arrives("far", sent[Len(sent)].id, sent[Len(sent)].body, <<>>)'
    BY <1>1, <2>4 DEF Arrives
  <2> QED BY <1>1, <2>2, <2>5 DEF FarRpc
<1>4. Plain(sent)' = Plain(sent) /\ Plain(results)' = Plain(results)
  BY <1>1 DEF Plain
<1>5. InOrder' /\ Spoilt'
  BY <1>1, <1>4 DEF RpcOK, InOrder, Spoilt
<1>6. ExecutedAsCalled' /\ ReplyMatches'
  BY <1>1 DEF RpcOK, ExecutedAsCalled, ReplyMatches, config
<1> QED BY <1>2, <1>3, <1>5, <1>6 DEF RpcOK

(* The client has the header of a reply. *)
LEMMA AskedNearRpc ==
  ASSUME Sound, RpcOK, UNCHANGED config, pair = "rpc", Complete("near"), section["near"] = 0,
         ExpectBody("near", Gathered("near"))
  PROVE  RpcOK'
<1>0. "near" \in Sides /\ "far" \in Sides \ {"near"} /\ "far" \in Sides
  BY DEF Sides
<1>1. /\ section'["near"] = 1 /\ <<reader'["near"].length, header'["near"]>> = Gathered("near")
      /\ Pending("near")' = Following("near")
      /\ flow'["near"] \notin Waiting
      /\ UNCHANGED <<serialized, sent, executed, results, returned>>
      /\ Still("far")
  BY <1>0, AskedForBody DEF history, Waiting
<1>2. FarRpc'
  BY <1>0, <1>1, StillKept, FarRpcKept DEF RpcOK
<1>3. NearRpc'
  <2>1. SUFFICES ASSUME Plain(sent) /\ Plain(results) PROVE NearRpc'
    BY <1>1 DEF NearRpc, Plain
  <2>2. Len(serialized) < Base /\ Len(returned) = Len(sent) - 1 /\ Answer
    <3>1. flow["near"] \notin Waiting /\ flow["near"] # "done" /\ ~Quiet("near")
      BY <1>0, QuietParsesNothing DEF Complete, Waiting
    <3> QED BY <2>1, <3>1 DEF RpcOK, NearRpc
  <2>3. serialized \in Seq(Words) /\ <<>> \in Seq(Words) /\ 1 \in Nat
    BY DEF Sound, DoneOK
  <2>4. /\ Gathered("near") = Header(1, Len(serialized))
        /\ Following("near") = Cat(serialized, <<>>)
    <3>1. Arrives("near", 1, serialized, <<>>)
      BY <2>2 DEF Answer
    <3> QED BY <1>0, <2>3, <3>1, ArrivedHeader
  <2>5. Answer'
    BY <1>1, <2>2, <2>4 DEF Answer, Arrives
  <2> QED BY <1>1, <2>2, <2>5 DEF NearRpc
<1>4. Plain(sent)' = Plain(sent) /\ Plain(results)' = Plain(results)
  BY <1>1 DEF Plain
<1>5. InOrder' /\ Spoilt'
  BY <1>1, <1>4 DEF RpcOK, InOrder, Spoilt
<1>6. ExecutedAsCalled' /\ ReplyMatches'
  BY <1>1 DEF RpcOK, ExecutedAsCalled, ReplyMatches, config
<1> QED BY <1>2, <1>3, <1>5, <1>6 DEF RpcOK

(* What is written reaches the other side whole, or the connection is gone. *)
LEMMA WriteEffect ==
  ASSUME Sound, UNCHANGED config, transport # "udp",
         NEW s \in Sides, NEW to \in Sides \ {s}, NEW words \in Seq(Words), NEW rest \in Seq(Words),
         Write(s, to, words, rest)
  PROVE  /\ \/ /\ connected /\ connected' /\ Resume(s, rest, 2)
               /\ net'[s] = net[s] /\ Pending(to)' = Cat(Pending(to), words)
            \/ /\ ~connected /\ ~connected' /\ Resume(s, rest, 2)
               /\ net'[s] = net[s] /\ Pending(to)' = Pending(to)
            \/ /\ ~connected' /\ Finish(s) /\ flow'[s] = "done"
               /\ net'[s] = net[s] /\ Pending(to)' = Pending(to)
         /\ flow'[to] = flow[to] /\ reader'[to] = reader[to]
<1>0. /\ UNCHANGED <<transport, pair>> /\ 2 \in Words /\ connected \in BOOLEAN
      /\ net[to] \in Seq(Words) /\ Behind(to) = net[to] /\ Behind(to)' = net'[to]
      /\ Pending(to) = Cat(Cat(reader[to].message, reader[to].buffered), net[to])
      /\ Cat(reader[to].message, reader[to].buffered) \in Seq(Words)
  <2>1. UNCHANGED <<transport, pair>> /\ 2 \in Words /\ connected \in BOOLEAN
    BY EXAssumption DEF config, Words, Sound, FlowOK
  <2>2. net[to] \in Seq(Words) /\ Behind(to) = net[to] /\ Behind(to)' = net'[to]
    BY <2>1 DEF Sound, NetOK, Behind
  <2>3. Pending(to) = Cat(Cat(reader[to].message, reader[to].buffered), net[to])
    BY <2>2 DEF Pending
  <2>4. Cat(reader[to].message, reader[to].buffered) \in Seq(Words)
    BY BehindType, CatType
  <2> QED BY <2>1, <2>2, <2>3, <2>4
<1>1. \/ connected /\ Deliver(to, words) /\ Resume(s, rest, 2)
      \/ ~connected /\ UNCHANGED net /\ Resume(s, rest, 2)
      \/ ~connected /\ Finish(s) /\ UNCHANGED <<net, reader>>
  BY DEF Write
<1>2. ASSUME Resume(s, rest, 2)
      PROVE  connected' = connected /\ flow'[to] = flow[to] /\ reader'[to] = reader[to]
  BY <1>0, <1>2, ResumeTypes DEF Sound
<1>3. CASE connected /\ Deliver(to, words) /\ Resume(s, rest, 2)
  <2>1. net' = [net EXCEPT ![to] = net[to] \o words]
    BY <1>3 DEF Deliver
  <2>2. net'[to] = Cat(net[to], words) /\ net'[s] = net[s]
    BY <2>1 DEF Sound, NetOK, Cat
  <2>3. Pending(to)' = Cat(Cat(reader[to].message, reader[to].buffered), Cat(net[to], words))
    BY <1>0, <1>2, <1>3, <2>2 DEF Pending
  <2>4. Pending(to)' = Cat(Pending(to), words)
    BY <1>0, <2>3, CatAssociative
  <2> QED BY <1>2, <1>3, <2>2, <2>4
<1>4. CASE ~connected /\ UNCHANGED net /\ Resume(s, rest, 2)
  <2>1. Pending(to)' = Pending(to)
    BY <1>0, <1>2, <1>4 DEF Pending
  <2> QED BY <1>2, <1>4, <2>1
<1>5. CASE ~connected /\ Finish(s) /\ UNCHANGED <<net, reader>>
  <2>1. flow' = [flow EXCEPT ![s] = "done"] /\ connected' = FALSE
    BY <1>5 DEF Finish
  <2>2. flow'[s] = "done" /\ flow'[to] = flow[to]
    BY <2>1 DEF Sound, FlowOK
  <2>3. Pending(to)' = Pending(to)
    BY <1>0, <1>5 DEF Pending
  <2> QED BY <1>5, <2>1, <2>2, <2>3
<1> QED BY <1>1, <1>3, <1>4, <1>5

(* A call is written behind nothing: every earlier request was answered. *)
LEMMA CallRpc ==
  ASSUME Sound, RpcOK, NEW p \in Procedures, NEW len \in ArgLens[p], Call(p, len)
  PROVE  RpcOK'
<1>0. /\ UNCHANGED <<config, section, header, serialized, executed, results, returned>>
      /\ pair = "rpc" /\ flow["near"] = "idle" /\ transport # "udp"
      /\ Plain(sent) /\ Plain(results) /\ Len(sent) < MaxSent
      /\ "near" \in Sides /\ "far" \in Sides \ {"near"} /\ "far" \in Sides
      /\ sent \in Seq(Message) /\ Len(sent) \in Nat /\ len \in Nat /\ p \in Nat
      /\ Len(results) \in Nat /\ Len(executed) \in Nat /\ Len(returned) \in Nat
  BY EXAssumption, LenProperties DEF Call, Plain, Sides, Sound, SentOK, DoneOK, ConfigOK
<1>1. CASE TooLong(len)
  <2>1. UNCHANGED <<net, reader, sent>>
    BY <1>1 DEF Call
  <2>2. ASSUME Finish("near") PROVE RpcOK'
    <3>1. \A s \in Sides : Kept(s)
      BY <1>0, <2>1, <2>2, FinishKept DEF config
    <3> QED BY <1>0, <2>1, <3>1, RpcKept DEF config, history
  <2>3. ASSUME flow' = [flow EXCEPT !["near"] = "locked"], UNCHANGED connected PROVE RpcOK'
    <3>1. flow'["near"] = "locked" /\ flow'["far"] = flow["far"]
      BY <1>0, <2>3 DEF Sound, FlowOK
    <3>2. \A s \in Sides : Pending(s)' = Pending(s)
      BY <1>0, <2>1 DEF Pending, Behind, config
    <3>3. Kept("near") /\ Kept("far")
      BY <1>0, <2>1, <2>3, <3>1, <3>2 DEF Kept, Waiting
    <3> QED BY <1>0, <2>1, <3>3, RpcKept DEF config, history, Sides
  <2> QED BY <1>1, <2>2, <2>3 DEF Call
<1>2. CASE ~TooLong(len)
  <2> DEFINE body == Body(Len(sent) + 1, len)
             words == Header(p, len) \o body
             m == [id |-> p, body |-> body]
             n == Len(sent)
  <2>1. sent' = Append(sent, m) /\ Write("near", "far", words, reader["near"].buffered)
    BY <1>2 DEF Call
  <2>2. body \in Seq(Words) /\ Len(body) = len /\ m.id = p /\ m.body = body
    <3>1. n + 1 \in Words
      BY <1>0, EXAssumption DEF Words
    <3> QED BY <1>0, <3>1, BodyType
  <2>3. words = Cat(Header(p, Len(body)), Cat(body, <<>>)) /\ words \in Seq(Words)
    <3> HIDE DEF body
    <3>1. words = Cat(Header(p, Len(body)), body) /\ Cat(body, <<>>) = body
      BY <2>2, CatEmpty DEF Cat
    <3>2. Header(p, len) \in Seq(Words)
      BY <1>0, HeaderType
    <3> HIDE DEF words
    <3> QED BY <2>2, <3>1, <3>2, CatType
  <2> HIDE DEF words, m
  <2>4. /\ Len(sent') = n + 1 /\ sent'[n + 1] = m /\ DOMAIN sent = 1 .. n
        /\ DOMAIN sent' = 1 .. n + 1 /\ \A i \in 1 .. n : sent'[i] = sent[i]
    BY <1>0, <2>1
  (* The client has had its replies, and nothing is on its way. *)
  <2>5. /\ Quiet("near") /\ Len(serialized) < Base
        /\ Len(returned) = n /\ Len(results) = n /\ Len(executed) = n
        /\ flow["far"] = "done" \/ Quiet("far")
    <3>1. Quiet("near") /\ Len(returned) = n /\ Len(results) = n /\ Len(serialized) < Base
      BY <1>0 DEF RpcOK, NearRpc, Waiting
    <3>2. Len(executed) = n
      BY <1>0, <3>1 DEF RpcOK, InOrder
    <3>3. flow["far"] = "done" \/ Quiet("far")
      BY <1>0, <3>2 DEF RpcOK, FarRpc
    <3> QED BY <3>1, <3>2, <3>3
  <2>6. /\ reader["near"].buffered = <<>> /\ reader["near"].buffered \in Seq(Words)
        /\ Behind("near") = <<>> /\ Pending("far") \in Seq(Words)
    <3>1. /\ reader["near"].message \in Seq(Words) /\ reader["near"].buffered \in Seq(Words)
          /\ Behind("near") \in Seq(Words) /\ Pending("far") \in Seq(Words)
      BY <1>0, BehindType
    <3>2. Cat(reader["near"].message, reader["near"].buffered) \in Seq(Words)
      BY <3>1, CatType
    <3>3. Cat(reader["near"].message, reader["near"].buffered) = <<>> /\ Behind("near") = <<>>
      BY <2>5, <3>1, <3>2, CatIsEmpty DEF Quiet, Pending
    <3>4. reader["near"].buffered = <<>>
      BY <3>1, <3>3, CatIsEmpty
    <3> QED BY <3>1, <3>3, <3>4
  <2>7. /\ \/ /\ connected /\ connected' /\ Resume("near", <<>>, 2)
              /\ net'["near"] = net["near"] /\ Pending("far")' = Cat(Pending("far"), words)
           \/ /\ ~connected /\ ~connected' /\ Resume("near", <<>>, 2)
              /\ net'["near"] = net["near"] /\ Pending("far")' = Pending("far")
           \/ /\ ~connected' /\ Finish("near") /\ flow'["near"] = "done"
              /\ net'["near"] = net["near"] /\ Pending("far")' = Pending("far")
        /\ flow'["far"] = flow["far"] /\ reader'["far"] = reader["far"]
    BY <1>0, <2>1, <2>3, <2>6, WriteEffect
  <2>8. NearRpc'
    <3>1. CASE flow'["near"] = "done"
      BY <1>0, <2>5, <3>1 DEF NearRpc
    <3>2. CASE Resume("near", <<>>, 2) /\ net'["near"] = net["near"]
      <4>1. /\ reader'["near"] = [buffered |-> <<>>, message |-> <<>>, length |-> 2]
            /\ flow'["near"] = "read"
        <5>1. <<>> \in Seq(Words) /\ 2 \in Words
          BY EXAssumption DEF Words
        <5>2. /\ reader'["near"] = [buffered |-> <<>>, message |-> <<>>, length |-> 2]
              /\ flow'["near"] = IF pair = "publish" /\ "near" = "near" THEN "idle"
                                 ELSE IF <<>> # <<>> THEN "round"
                                 ELSE IF 2 > 0 THEN "read" ELSE "spin"
          BY <1>0, <3>2, <5>1, ResumeTypes, Zenon DEF Sound
        <5> QED BY <1>0, <5>2
      <4>2. Behind("near")' = <<>>
        BY <1>0, <2>6, <3>2 DEF Behind, config
      <4>3. Cat(Cat(<<>>, <<>>), <<>>) = <<>>
        <5>1. <<>> \in Seq(Words)
          OBVIOUS
        <5> QED BY <5>1, CatEmpty
      <4>4. Pending("near")' = <<>>
        BY <4>1, <4>2, <4>3 DEF Pending
      <4>5. Quiet("near")'
        BY <1>0, <2>5, <4>4 DEF Quiet
      <4>6. Len(returned) = Len(sent') - 1
        BY <1>0, <2>4, <2>5
      <4> QED BY <1>0, <2>5, <4>1, <4>5, <4>6 DEF NearRpc, Waiting
    <3> QED BY <2>7, <3>1, <3>2
  <2>9. FarRpc'
    <3>1. CASE flow["far"] = "done"
      BY <2>7, <3>1 DEF FarRpc
    <3>2. CASE Quiet("far") /\ ~connected' /\ Pending("far")' = Pending("far")
      <4>1. Quiet("far")'
        BY <1>0, <3>2 DEF Quiet
      <4> QED BY <1>0, <2>5, <3>2, <4>1 DEF FarRpc
    <3>3. CASE Quiet("far") /\ Pending("far")' = Cat(Pending("far"), words)
      <4>1. Pending("far")' = words
        BY <2>3, <3>3, CatEmpty DEF Quiet
      <4>2. section'["far"] = 0
        BY <1>0, <3>3 DEF Quiet
      <4>3. Arrives("far", sent[Len(sent)].id, sent[Len(sent)].body, <<>>)'
        BY <2>2, <2>3, <2>4, <4>1, <4>2 DEF Arrives
      <4>4. Len(executed) = Len(sent') - 1 /\ sent'[Len(sent')].id \in Procedures
        BY <1>0, <2>2, <2>4, <2>5
      <4> QED BY <1>0, <2>5, <4>3, <4>4 DEF FarRpc
    <3> QED BY <2>5, <2>7, <3>1, <3>2, <3>3
  <2>10. InOrder'
    BY <1>0, <2>4, <2>5 DEF InOrder
  <2>11. Spoilt'
    <3>1. ASSUME ~Plain(sent)' PROVE AtLimit(sent', n + 1)
      <4>1. AtLimit(sent', MaxSent) /\ ~AtLimit(sent, MaxSent)
        BY <1>0, <3>1 DEF Plain
      <4>2. Len(m.body) >= Base
        BY <1>0, <2>1, <4>1, EXAssumption, AtLimitGrows
      <4> QED BY <1>0, <2>1, <4>2, AtLimitGrows
    <3>2. Plain(results)'
      BY <1>0 DEF Plain
    <3> QED BY <1>0, <2>5, <3>1, <3>2 DEF Spoilt
  <2>12. \A i \in Nat : AtLimit(sent, i) => AtLimit(sent', i)
    BY <1>0, <2>1, AtLimitGrows
  <2>13. DOMAIN executed \subseteq Nat /\ DOMAIN returned \subseteq Nat
    BY <1>0 DEF Sound, DoneOK
  <2>14. ExecutedAsCalled'
    BY <1>0, <2>4, <2>12, <2>13 DEF RpcOK, ExecutedAsCalled
  <2>15. ReplyMatches'
    BY <1>0, <2>12, <2>13 DEF RpcOK, ReplyMatches
  <2> QED BY <2>8, <2>9, <2>10, <2>11, <2>14, <2>15 DEF RpcOK
<1> QED BY <1>1, <1>2

(* The client hands over a reply: that of its last call. *)
LEMMA ReplyRpc ==
  ASSUME Sound, RpcOK, UNCHANGED config, pair = "rpc", Complete("near"),
         NEW flag \in Words, NEW body \in Seq(Words), Reply(flag, body),
         Plain(sent) /\ Plain(results) =>
           /\ Len(results) = Len(sent) /\ Len(returned) = Len(sent) - 1
           /\ results[Len(sent)].whole => body = results[Len(sent)].body
           /\ flag = 1 /\ Following("near") = <<>>
  PROVE  RpcOK'
<1>0. /\ UNCHANGED <<net, header, serialized, sent, executed, results>> /\ UNCHANGED <<pair, transport>>
      /\ "near" \in Sides /\ "far" \in Sides \ {"near"} /\ "far" \in Sides
      /\ returned \in Seq(Message) /\ Len(returned) \in Nat /\ Len(sent) \in Nat
  BY LenProperties DEF Reply, config, Sides, Sound, DoneOK, SentOK
<1>1. CASE Finish("near") /\ UNCHANGED <<reader, section, returned>>
  <2>1. \A s \in Sides : Kept(s)
    BY <1>0, <1>1, FinishKept
  <2> QED BY <1>0, <1>1, <2>1, RpcKept DEF history
<1> DEFINE got == [id |-> IF lang["near"] = "C++" \/ flag = 1 THEN 1 ELSE 0, body |-> body]
           next == [buffered |-> Rest("near"), message |-> <<>>, length |-> 2]
<1>2. CASE /\ ExpectHeader("near")
           /\ returned' = Append(returned, got)
           /\ reader' = [reader EXCEPT !["near"] = next]
           /\ flow' = [flow EXCEPT !["near"] = "idle"]
           /\ UNCHANGED connected
  <2> DEFINE r == Len(returned)
  <2>1. next.buffered = Rest("near") /\ next.message = <<>>
    OBVIOUS
  <2>2. got.id = (IF lang["near"] = "C++" \/ flag = 1 THEN 1 ELSE 0) /\ got.body = body
    OBVIOUS
  <2> HIDE DEF next
  <2>3. /\ reader'["near"] = next /\ reader'["far"] = reader["far"]
        /\ flow'["near"] = "idle" /\ flow'["far"] = flow["far"]
        /\ section'["near"] = 0 /\ section'["far"] = section["far"]
    BY <1>0, <1>2 DEF Sound, ReaderOK, FlowOK, ParserOK, ExpectHeader
  <2>4. Kept("far")
    <3>1. Still("far")
      BY <1>0, <1>2, <2>3 DEF Still
    <3> QED BY <1>0, <3>1, StillKept
  <2>5. FarRpc'
    BY <1>0, <2>4, FarRpcKept DEF RpcOK
  <2>6. /\ DOMAIN returned = 1 .. r /\ DOMAIN returned' = 1 .. r + 1 /\ Len(returned') = r + 1
        /\ returned'[r + 1] = got /\ \A i \in 1 .. r : returned'[i] = returned[i]
    <3> HIDE DEF got
    <3> QED BY <1>0, <1>2
  <2>7. Plain(sent)' = Plain(sent) /\ Plain(results)' = Plain(results)
    BY <1>0 DEF Plain
  <2>8. NearRpc'
    <3>1. SUFFICES ASSUME Plain(sent) /\ Plain(results) PROVE NearRpc'
      BY <2>7 DEF NearRpc
    <3>2. Pending("near")' = <<>>
      BY <1>0, <2>1, <2>3, <3>1, AskedPending
    <3>3. Quiet("near")'
      BY <2>3, <3>2 DEF Quiet
    <3>4. Len(serialized') < Base
      BY <1>0, <3>1 DEF RpcOK, NearRpc
    <3>5. Len(returned') = Len(sent') /\ Len(results') = Len(sent')
      BY <1>0, <2>6, <3>1
    <3> QED BY <2>3, <3>3, <3>4, <3>5 DEF NearRpc, Waiting
  <2>9. InOrder'
    BY <1>0, <2>6, <2>7 DEF RpcOK, InOrder
  <2>10. Spoilt'
    <3>1. /\ AtLimit(sent, r + 1) => AtLimit(sent, r + 1 + 1)
          /\ AtLimit(results, r + 1) => AtLimit(results, r + 1 + 1)
      <4>1. r + 1 \in Int /\ r + 1 + 1 \in Int /\ r + 1 <= r + 1 + 1
        BY <1>0
      <4>2. sent \in Seq(Message) /\ results \in Seq([body : Seq(Words), whole : BOOLEAN])
        BY DEF Sound, SentOK, DoneOK
      <4> HIDE DEF r
      <4> QED BY <4>1, <4>2, AtLimitGrows
    <3> QED BY <1>0, <2>6, <2>7, <3>1 DEF RpcOK, Spoilt
  <2>11. ReplyMatches'
    <3>1. ASSUME NEW i \in 1 .. r
          PROVE \/ AtLimit(sent, i) \/ AtLimit(results, i)
                \/ /\ i \in DOMAIN results
                   /\ results[i].whole => returned'[i] = [id |-> 1, body |-> results[i].body]
      <4>1. i \in DOMAIN returned /\ returned'[i] = returned[i]
        BY <2>6
      <4> QED BY <4>1 DEF RpcOK, ReplyMatches
    <3>2. \/ AtLimit(sent, r + 1) \/ AtLimit(results, r + 1)
          \/ /\ r + 1 \in DOMAIN results
             /\ results[r + 1].whole => returned'[r + 1] = [id |-> 1, body |-> results[r + 1].body]
      <4>1. CASE ~(Plain(sent) /\ Plain(results))
        BY <4>1 DEF RpcOK, Spoilt
      <4>2. CASE Plain(sent) /\ Plain(results)
        <5>1. /\ r + 1 = Len(sent) /\ Len(results) = Len(sent) /\ flag = 1
              /\ results[r + 1].whole => body = results[r + 1].body
          BY <1>0, <4>2
        <5>2. r + 1 \in DOMAIN results
          BY <1>0, <5>1 DEF Sound, DoneOK
        <5> QED BY <2>6, <5>1, <5>2
      <4> QED BY <4>1, <4>2
    <3>3. \A i \in 1 .. r + 1 : i \in 1 .. r \/ i = r + 1
      BY <1>0
    <3> HIDE DEF r, got
    <3> QED BY <1>0, <2>6, <3>1, <3>2, <3>3 DEF ReplyMatches
  <2>12. ExecutedAsCalled'
    BY <1>0 DEF RpcOK, ExecutedAsCalled
  <2> QED BY <2>5, <2>8, <2>9, <2>10, <2>11, <2>12 DEF RpcOK
<1> QED BY <1>1, <1>2 DEF Reply

(* parseMessage and ParseMessage of the clients keep the invariant. *)
LEMMA ParseReplyRpc ==
  ASSUME Sound, RpcOK, ParseReply
  PROVE  RpcOK'
<1>1. /\ UNCHANGED config /\ Complete("near") /\ "near" \in Sides /\ pair = "rpc"
      /\ flow["near"] = "round"
  BY DEF ParseReply, Sides, Complete
<1>2. /\ Gathered("near") \in Seq(Words) /\ header["near"] \in Words
      /\ section["near"] \in {0, 1} /\ <<>> \in Seq(Words)
      /\ section["near"] = 0 => IdOf(Gathered("near")) \in Words /\ LengthOf(Gathered("near")) \in Words
  BY <1>1, ParsedWords
<1>3. Plain(sent) /\ Plain(results) =>
        /\ Len(serialized) < Base /\ Len(returned) = Len(sent) - 1 /\ Len(results) = Len(sent)
        /\ results[Len(sent)].whole => serialized = results[Len(sent)].body
        /\ Arrives("near", 1, serialized, <<>>)
  <2>1. flow["near"] \notin Waiting /\ flow["near"] # "done" /\ ~Quiet("near")
    BY <1>1, QuietParsesNothing DEF Waiting
  <2> QED BY <2>1 DEF RpcOK, NearRpc, Answer
<1>4. serialized \in Seq(Words) /\ Len(serialized) \in Nat /\ 1 \in Nat /\ 1 < Ids
  BY LenProperties, EXAssumption DEF Sound, DoneOK
<1>5. CASE section["near"] = 1 /\ Reply(header["near"], Gathered("near"))
  <2>1. Plain(sent) /\ Plain(results) =>
          Gathered("near") = serialized /\ header["near"] = 1 /\ Following("near") = <<>>
    BY <1>1, <1>2, <1>3, <1>4, <1>5, ArrivedBody
  <2> QED BY <1>1, <1>2, <1>3, <1>5, <2>1, ReplyRpc
<1>6. CASE section["near"] = 0 /\ ExpectBody("near", Gathered("near"))
  BY <1>1, <1>6, AskedNearRpc
<1>7. CASE /\ section["near"] = 0 /\ ~(LengthOf(Gathered("near")) > 0)
           /\ Reply(IdOf(Gathered("near")), <<>>)
  <2>1. Plain(sent) /\ Plain(results) =>
          serialized = <<>> /\ IdOf(Gathered("near")) = 1 /\ Following("near") = <<>>
    <3>1. SUFFICES ASSUME Plain(sent) /\ Plain(results)
                   PROVE  serialized = <<>> /\ IdOf(Gathered("near")) = 1 /\ Following("near") = <<>>
      OBVIOUS
    <3>2. /\ Gathered("near") = Header(1, Len(serialized))
          /\ Following("near") = Cat(serialized, <<>>)
      BY <1>1, <1>2, <1>3, <1>4, <1>7, <3>1, ArrivedHeader
    <3>3. Header(1, Len(serialized)) = <<Len(serialized), 1>>
      BY <1>3, <1>4, <3>1, HeaderParts
    <3>4. LengthOf(Gathered("near")) = Len(serialized) /\ IdOf(Gathered("near")) = 1
      BY <3>2, <3>3 DEF LengthOf, IdOf
    <3>5. serialized = <<>>
      BY <1>4, <1>7, <3>4, EmptySeq
    <3> QED BY <1>2, <3>2, <3>4, <3>5, CatEmpty
  <2> QED BY <1>1, <1>2, <1>3, <1>7, <2>1, ReplyRpc
<1> QED BY <1>2, <1>5, <1>6, <1>7 DEF ParseReply

(* What the server does with a request that is due: it is the last one.    *)
Due(id, args) ==
  Plain(sent) =>
    /\ Len(executed) = Len(sent) - 1 /\ Len(results) = Len(executed)
    /\ id = sent[Len(sent)].id /\ args = sent[Len(sent)].body
    /\ Following("far") = <<>>

(* After a request that is due, what was executed is what was sent. *)
LEMMA ExecutedDue ==
  ASSUME Sound, RpcOK, NEW id, NEW args, Due(id, args), UNCHANGED <<pair, sent, returned>>,
         executed' = Append(executed, [id |-> id, body |-> args])
  PROVE  /\ ExecutedAsCalled' /\ Len(executed') = Len(executed) + 1
         /\ AtLimit(sent, Len(executed) + 1) => AtLimit(sent, Len(executed') + 1)
         /\ Plain(sent) => Len(executed') = Len(sent)
<1> DEFINE e == Len(executed)
           m == [id |-> id, body |-> args]
<1>0. /\ executed \in Seq(Message) /\ e \in Nat /\ sent \in Seq(Message) /\ Len(sent) \in Nat
  BY LenProperties DEF Sound, DoneOK, SentOK
<1>1. /\ DOMAIN executed = 1 .. e /\ DOMAIN executed' = 1 .. e + 1 /\ Len(executed') = e + 1
      /\ executed'[e + 1] = m /\ \A i \in 1 .. e : executed'[i] = executed[i]
  <2> HIDE DEF m
  <2> QED BY <1>0 DEF m
<1>2. ASSUME pair = "rpc", NEW i \in 1 .. e
      PROVE  AtLimit(sent, i) \/ (i \in DOMAIN sent /\ executed'[i] = sent[i])
  <2>1. i \in DOMAIN executed /\ executed'[i] = executed[i]
    BY <1>1
  <2> QED BY <1>2, <2>1 DEF RpcOK, ExecutedAsCalled
<1>3. AtLimit(sent, e + 1) \/ (e + 1 \in DOMAIN sent /\ executed'[e + 1] = sent[e + 1])
  <2>1. CASE ~Plain(sent)
    BY <2>1 DEF RpcOK, Spoilt
  <2>2. CASE Plain(sent)
    <3>1. e + 1 = Len(sent) /\ id = sent[e + 1].id /\ args = sent[e + 1].body
      BY <1>0, <2>2 DEF Due
    <3>2. e + 1 \in 1 .. Len(sent)
      BY <1>0, <3>1
    <3>3. sent[e + 1] \in Message
      BY <1>0, <3>2, ElementOfSeq
    <3>4. sent[e + 1] = [id |-> sent[e + 1].id, body |-> sent[e + 1].body]
      BY <3>3 DEF Message
    <3> QED BY <1>0, <1>1, <3>1, <3>2, <3>4
  <2> QED BY <2>1, <2>2
<1>4. \A i \in 1 .. e + 1 : i \in 1 .. e \/ i = e + 1
  BY <1>0
<1>5. ExecutedAsCalled'
  <2> HIDE DEF e, m
  <2> QED BY <1>1, <1>2, <1>3, <1>4 DEF ExecutedAsCalled
<1>6. AtLimit(sent, e + 1) => AtLimit(sent, Len(executed') + 1)
  <2>1. e + 1 \in Int /\ Len(executed') + 1 \in Int /\ e + 1 <= Len(executed') + 1
    BY <1>0, <1>1
  <2> HIDE DEF e
  <2> QED BY <1>0, <2>1, AtLimitGrows
<1>7. Plain(sent) => Len(executed') = Len(sent)
  BY <1>0, <1>1 DEF Due
<1> QED BY <1>1, <1>5, <1>6, <1>7

(* What one more result does to the properties. *)
LEMMA ResultsGrow ==
  ASSUME Sound, RpcOK, NEW body \in Seq(Words), NEW whole \in BOOLEAN,
         UNCHANGED <<pair, sent, returned>>,
         results' = Append(results, [body |-> body, whole |-> whole])
  PROVE  /\ ReplyMatches' /\ Len(results') = Len(results) + 1
         /\ results'[Len(results) + 1] = [body |-> body, whole |-> whole]
         /\ Plain(results)' => Plain(results)
         /\ Plain(results)' /\ Len(results) < MaxSent => Len(body) < Base
         /\ AtLimit(results, Len(returned) + 1) => AtLimit(results', Len(returned) + 1)
         /\ Len(results) <= Len(returned) /\ ~Plain(results)' =>
              AtLimit(results, MaxSent) \/ AtLimit(results', Len(returned) + 1)
<1> DEFINE q == Len(results)
           m == [body |-> body, whole |-> whole]
           S == [body : Seq(Words), whole : BOOLEAN]
<1>0. /\ results \in Seq(S) /\ q \in Nat /\ m.body = body /\ Len(returned) \in Nat
      /\ MaxSent \in Int /\ Base \in Nat /\ Len(body) \in Nat
  BY EXAssumption, LenProperties DEF Sound, DoneOK
<1> HIDE DEF m, S
<1>1. /\ DOMAIN results = 1 .. q /\ DOMAIN results' = 1 .. q + 1 /\ Len(results') = q + 1
      /\ results'[q + 1] = m /\ \A i \in 1 .. q : results'[i] = results[i]
  BY <1>0 DEF m
<1>2. results' = Append(results, m)
  BY DEF m
<1> HIDE DEF q
<1>3. \A k \in Int : AtLimit(results, k) => AtLimit(results', k)
  BY <1>0, <1>2, AtLimitGrows
<1>4. \A k \in Int : AtLimit(results', k) => AtLimit(results, k) \/ Len(body) >= Base
  BY <1>0, <1>2, AtLimitGrows
<1>5. \A k \in Int : Len(body) >= Base /\ q + 1 <= k => AtLimit(results', k)
  BY <1>0, <1>2, AtLimitGrows DEF q
<1>6. ReplyMatches'
  <2>1. DOMAIN returned \subseteq Int
    BY DEF Sound, DoneOK
  <2>2. \A i \in DOMAIN results : i \in DOMAIN results' /\ results'[i] = results[i]
    BY <1>0, <1>1
  <2>3. ASSUME pair = "rpc", NEW i \in DOMAIN returned
        PROVE \/ AtLimit(sent, i) \/ AtLimit(results', i)
              \/ /\ i \in DOMAIN results'
                 /\ results'[i].whole => returned[i] = [id |-> 1, body |-> results'[i].body]
    <3>1. \/ AtLimit(sent, i) \/ AtLimit(results, i)
          \/ /\ i \in DOMAIN results
             /\ results[i].whole => returned[i] = [id |-> 1, body |-> results[i].body]
      BY <2>3 DEF RpcOK, ReplyMatches
    <3>2. AtLimit(results, i) => AtLimit(results', i)
      BY <1>3, <2>1
    <3> QED BY <2>2, <3>1, <3>2
  <2> QED BY <2>3 DEF ReplyMatches
<1>7. Plain(results)' => Plain(results)
  BY <1>0, <1>3 DEF Plain
<1>8. Plain(results)' /\ q < MaxSent => Len(body) < Base
  <2>1. q < MaxSent => q + 1 <= MaxSent
    BY <1>0 DEF q
  <2> QED BY <1>0, <1>5, <2>1 DEF Plain
<1>9. AtLimit(results, Len(returned) + 1) => AtLimit(results', Len(returned) + 1)
  BY <1>0, <1>3
<1>10. q <= Len(returned) /\ ~Plain(results)' =>
         AtLimit(results, MaxSent) \/ AtLimit(results', Len(returned) + 1)
  <2>1. q <= Len(returned) => q + 1 <= Len(returned) + 1
    BY <1>0
  <2> QED BY <1>0, <1>4, <1>5, <2>1 DEF Plain
<1> QED BY <1>1, <1>6, <1>7, <1>8, <1>9, <1>10 DEF q, m

(* The server calls the procedure and writes what it returned. *)
LEMMA AnswerRpc ==
  ASSUME Sound, RpcOK, UNCHANGED config, pair = "rpc", Complete("far"),
         NEW id \in Procedures, NEW args \in Seq(Words), Due(id, args),
         ExpectHeader("far"), executed' = Append(executed, [id |-> id, body |-> args]),
         UNCHANGED <<header, sent, returned>>,
         NEW body \in Seq(Words), NEW code \in Encoded(serialized, body),
         serialized' = code.bytes,
         results' = Append(results, [body |-> body, whole |-> code.ok]),
         \/ Finish("far") /\ UNCHANGED <<net, reader>>
         \/ Write("far", "near", Header(1, Len(code.bytes)) \o code.bytes, Rest("far"))
  PROVE  RpcOK'
<1> DEFINE n == Len(sent)
           words == Header(1, Len(code.bytes)) \o code.bytes
<1>0. /\ "near" \in Sides \ {"far"} /\ "far" \in Sides /\ "near" \in Sides /\ flow["far"] = "round"
      /\ UNCHANGED <<pair, transport>> /\ transport # "udp" /\ n \in Nat /\ n <= MaxSent
      /\ Len(returned) \in Nat /\ Len(results) \in Nat /\ Len(executed) \in Nat
      /\ Rest("far") \in Seq(Words) /\ serialized \in Seq(Words)
  <2>1. Rest("far") \in Seq(Words) /\ "far" \in Sides /\ "near" \in Sides \ {"far"} /\ "near" \in Sides
    BY ParsedWords DEF Sides
  <2>2. /\ n \in Nat /\ n <= MaxSent /\ Len(returned) \in Nat /\ Len(results) \in Nat
        /\ Len(executed) \in Nat /\ serialized \in Seq(Words) /\ transport # "udp"
    BY LenProperties DEF Sound, SentOK, SentBounded, DoneOK, ConfigOK
  <2> QED BY <2>1, <2>2 DEF Complete, config
<1>1. /\ code.bytes \in Seq(Words) /\ code.ok \in BOOLEAN /\ (code.ok => code.bytes = body)
      /\ Len(code.bytes) <= Len(serialized) \/ Len(code.bytes) <= Len(body)
      /\ Len(code.bytes) \in Nat /\ Len(serialized) \in Nat /\ Len(body) \in Nat
  BY <1>0, EncodedType, LenProperties
<1>2. words = Cat(Header(1, Len(code.bytes)), Cat(code.bytes, <<>>)) /\ words \in Seq(Words)
  <2>1. words = Cat(Header(1, Len(code.bytes)), code.bytes) /\ Cat(code.bytes, <<>>) = code.bytes
    BY <1>1, CatEmpty DEF Cat
  <2>2. Header(1, Len(code.bytes)) \in Seq(Words)
    BY <1>1, HeaderType
  <2> HIDE DEF words
  <2> QED BY <1>1, <2>1, <2>2, CatType
<1>3. /\ ExecutedAsCalled' /\ Len(executed') = Len(executed) + 1
      /\ AtLimit(sent, Len(executed) + 1) => AtLimit(sent, Len(executed') + 1)
      /\ Plain(sent) => Len(executed') = n
  BY <1>0, ExecutedDue
<1>4. /\ ReplyMatches' /\ Len(results') = Len(results) + 1
      /\ results'[Len(results) + 1] = [body |-> body, whole |-> code.ok]
      /\ Plain(results)' => Plain(results)
      /\ Plain(results)' /\ Len(results) < MaxSent => Len(body) < Base
      /\ AtLimit(results, Len(returned) + 1) => AtLimit(results', Len(returned) + 1)
      /\ Len(results) <= Len(returned) /\ ~Plain(results)' =>
           AtLimit(results, MaxSent) \/ AtLimit(results', Len(returned) + 1)
  BY <1>0, <1>1, ResultsGrow
<1>5. Plain(sent)' = Plain(sent)
  BY DEF Plain
<1>6. Plain(sent) =>
        Len(executed) = n - 1 /\ Len(results) = n - 1 /\ Len(results') = n /\ n - 1 <= Len(returned)
  BY <1>0, <1>4 DEF Due, RpcOK, InOrder
<1>7. InOrder'
  BY <1>0, <1>3, <1>5, <1>6 DEF InOrder
<1>8. Spoilt'
  <2>1. ~Plain(sent) => AtLimit(sent, Len(executed') + 1) /\ AtLimit(sent, Len(returned) + 1)
    BY <1>3 DEF RpcOK, Spoilt
  <2>2. ASSUME Plain(sent), ~Plain(results)' PROVE AtLimit(results', Len(returned) + 1)
    <3>1. CASE Plain(results)
      BY <1>4, <1>6, <2>2, <3>1 DEF Plain
    <3>2. CASE ~Plain(results)
      BY <1>4, <2>2, <3>2 DEF RpcOK, Spoilt
    <3> QED BY <3>1, <3>2
  <2> QED BY <1>5, <2>1, <2>2 DEF Spoilt
(* What the write does. *)
<1> HIDE DEF words
<1>9. /\ flow'["near"] = flow["near"]
      /\ UNCHANGED <<section["near"], header["near"], reader["near"]>>
      /\ \/ flow'["far"] = "done"
         \/ /\ section'["far"] = 0 /\ Pending("far")' = Following("far")
      /\ Pending("near")' = Pending("near") \/ Pending("near")' = Cat(Pending("near"), words)
  <2>1. section'["far"] = 0 /\ section'["near"] = section["near"]
    BY <1>0 DEF ExpectHeader, Sound, ParserOK
  <2>2. CASE Finish("far") /\ UNCHANGED <<net, reader>>
    <3>1. flow' = [flow EXCEPT !["far"] = "done"]
      BY <2>2 DEF Finish
    <3>2. flow'["far"] = "done" /\ flow'["near"] = flow["near"]
      BY <1>0, <3>1 DEF Sound, FlowOK
    <3>3. Pending("near")' = Pending("near")
      BY <1>0, <2>2 DEF Pending, Behind
    <3> QED BY <2>1, <2>2, <3>2, <3>3
  <2>3. CASE Write("far", "near", words, Rest("far"))
    <3>1. /\ \/ /\ Resume("far", Rest("far"), 2) /\ net'["far"] = net["far"]
                /\ Pending("near")' = Cat(Pending("near"), words) \/ Pending("near")' = Pending("near")
             \/ flow'["far"] = "done" /\ Pending("near")' = Pending("near")
          /\ flow'["near"] = flow["near"] /\ reader'["near"] = reader["near"]
      BY <1>0, <1>2, <2>3, WriteEffect
    <3>2. ASSUME Resume("far", Rest("far"), 2), net'["far"] = net["far"]
          PROVE  Pending("far")' = Following("far")
      <4>1. 2 \in Words
        BY EXAssumption DEF Words
      <4>2. reader'["far"] = [buffered |-> Rest("far"), message |-> <<>>, length |-> 2]
        BY <1>0, <3>2, <4>1, ResumeTypes DEF Sound
      <4>3. reader'["far"].buffered = Rest("far") /\ reader'["far"].message = <<>>
        BY <4>2
      <4> QED BY <1>0, <3>2, <4>3, AskedPending
    <3> QED BY <2>1, <3>1, <3>2
  <2> QED BY <2>2, <2>3 DEF words
<1>10. FarRpc'
  <2>1. SUFFICES ASSUME Plain(sent), flow'["far"] # "done" PROVE FarRpc'
    BY <1>5 DEF FarRpc
  <2>2. Quiet("far")'
    BY <1>9, <2>1 DEF Quiet, Due
  <2> QED BY <1>3, <1>6, <2>1, <2>2 DEF FarRpc
<1>11. NearRpc'
  <2>1. SUFFICES ASSUME Plain(sent), Plain(results)' PROVE NearRpc'
    BY <1>5 DEF NearRpc
  <2>2. /\ Plain(results) /\ Len(serialized) < Base /\ Len(body) < Base
        /\ Len(executed) = n - 1 /\ Len(results) = n - 1 /\ Len(results') = n
    <3>1. Plain(results) /\ Len(executed) = n - 1 /\ Len(results) = n - 1 /\ Len(results') = n
      BY <1>4, <1>6, <2>1
    <3>2. Len(results) < MaxSent
      BY <1>0, <3>1, EXAssumption
    <3>3. Len(body) < Base
      BY <1>4, <2>1, <3>2
    <3>4. Len(serialized) < Base
      BY <2>1, <3>1 DEF RpcOK, NearRpc
    <3> QED BY <3>1, <3>3, <3>4
  <2>3. Len(code.bytes) < Base
    BY <1>1, <2>2, EXAssumption
  <2>4. \/ flow["near"] = "done"
        \/ flow["near"] \notin Waiting /\ Len(returned) = n - 1 /\ Quiet("near")
    BY <1>0, <2>1, <2>2 DEF RpcOK, NearRpc, Answer
  <2>5. CASE flow["near"] = "done"
    BY <1>9, <2>3, <2>5 DEF NearRpc
  <2>6. CASE flow["near"] \notin Waiting /\ Len(returned) = n - 1 /\ Quiet("near")
    <3>1. CASE Pending("near")' = Pending("near")
      <4>1. Quiet("near")'
        BY <1>9, <2>6, <3>1 DEF Quiet
      <4> QED BY <1>9, <2>3, <2>6, <4>1 DEF NearRpc
    <3>2. CASE Pending("near")' = Cat(Pending("near"), words)
      <4>1. section'["near"] = 0 /\ Pending("near") = <<>>
        BY <1>9, <2>6 DEF Quiet
      <4>2. Pending("near")' = words
        BY <1>2, <3>2, <4>1, CatEmpty
      <4>3. Arrives("near", 1, serialized, <<>>)'
        BY <1>2, <4>1, <4>2 DEF Arrives
      <4>4. results'[n].whole => code.bytes = results'[n].body
        <5>1. results'[n] = [body |-> body, whole |-> code.ok]
          BY <1>0, <1>4, <2>2
        <5>2. /\ [body |-> body, whole |-> code.ok].whole = code.ok
              /\ [body |-> body, whole |-> code.ok].body = body
          OBVIOUS
        <5>3. results'[n].whole = code.ok /\ results'[n].body = body
          BY <5>1, <5>2, Zenon
        <5> QED BY <1>1, <5>3
      <4>5. Answer'
        BY <2>2, <4>3, <4>4 DEF Answer
      <4> QED BY <1>9, <2>3, <2>6, <4>5 DEF NearRpc
    <3> QED BY <1>9, <3>1, <3>2
  <2> QED BY <2>4, <2>5, <2>6
<1> QED BY <1>3, <1>4, <1>7, <1>8, <1>10, <1>11 DEF RpcOK

(* The whole of call: no such procedure, a failure, or an answer. *)
LEMMA ExecuteRpc ==
  ASSUME Sound, RpcOK, UNCHANGED config, pair = "rpc", Complete("far"),
         NEW id \in Words, NEW args \in Seq(Words), Execute(id, args), Due(id, args)
  PROVE  RpcOK'
<1>0. /\ "near" \in Sides /\ "far" \in Sides /\ UNCHANGED <<header, sent, returned, pair, transport>>
      /\ Len(sent) \in Words /\ Len(returned) \in Nat /\ Len(results) \in Nat /\ Len(executed) \in Nat
  <2>1. /\ Len(sent) \in Nat /\ Len(returned) \in Nat /\ Len(results) \in Nat /\ Len(executed) \in Nat
    BY LenProperties DEF Sound, SentOK, DoneOK
  <2>2. Len(sent) \in Words
    BY <2>1, EXAssumption DEF Sound, SentBounded, Words
  <2> QED BY <2>1, <2>2 DEF Execute, Sides, config
<1>1. ASSUME id \in Procedures, ExpectHeader("far"),
             executed' = Append(executed, [id |-> id, body |-> args]),
             NEW len \in RetLens[id], NEW code \in Encoded(serialized, Body(Len(sent), len)),
             serialized' = code.bytes,
             results' = Append(results, [body |-> Body(Len(sent), len), whole |-> code.ok]),
             \/ Finish("far") /\ UNCHANGED <<net, reader>>
             \/ Write("far", "near", Header(1, Len(code.bytes)) \o code.bytes, Rest("far"))
      PROVE  RpcOK'
  <2> DEFINE body == Body(Len(sent), len)
  <2>1. body \in Seq(Words)
    BY <1>0, <1>1, EXAssumption, BodyType
  <2> HIDE DEF body
  <2>2. code \in Encoded(serialized, body) /\ results' = Append(results, [body |-> body, whole |-> code.ok])
    BY <1>1 DEF body
  <2> QED BY <1>0, <1>1, <2>1, <2>2, AnswerRpc
<1>2. ASSUME executed' = IF id \in Procedures
                         THEN Append(executed, [id |-> id, body |-> args]) ELSE executed,
             Finish("far"), UNCHANGED <<net, reader, section, serialized, results>>
      PROVE  RpcOK'
  <2>1. flow'["far"] = "done" /\ Kept("near") /\ Kept("far") /\ \A s \in Sides : Kept(s)
    BY <1>0, <1>2, FinishKept
  <2>2. CASE id \notin Procedures
    BY <1>0, <1>2, <2>1, <2>2, RpcKept DEF history
  <2>3. CASE id \in Procedures
    <3>1. /\ ExecutedAsCalled' /\ Len(executed') = Len(executed) + 1
          /\ AtLimit(sent, Len(executed) + 1) => AtLimit(sent, Len(executed') + 1)
          /\ Plain(sent) => Len(executed') = Len(sent)
      BY <1>0, <1>2, <2>3, ExecutedDue
    <3>2. Plain(sent)' = Plain(sent) /\ Plain(results)' = Plain(results)
      BY <1>0, <1>2 DEF Plain
    <3>3. FarRpc' /\ NearRpc'
      BY <1>0, <1>2, <2>1, NearRpcKept DEF RpcOK, FarRpc
    <3>4. InOrder' /\ Spoilt' /\ ReplyMatches'
      BY <1>0, <1>2, <3>1, <3>2 DEF RpcOK, InOrder, Spoilt, ReplyMatches
    <3> QED BY <3>1, <3>3, <3>4 DEF RpcOK
  <2> QED BY <2>2, <2>3
<1> QED BY <1>1, <1>2 DEF Execute

(* parseMessage of the server keeps the invariant. *)
LEMMA ParseRequestRpc ==
  ASSUME Sound, RpcOK, ParseRequest
  PROVE  RpcOK'
<1> DEFINE m == sent[Len(sent)]
<1>1. /\ UNCHANGED config /\ Complete("far") /\ "far" \in Sides /\ pair = "rpc"
      /\ flow["far"] = "round"
  BY DEF ParseRequest, Sides, Complete
<1>2. /\ Gathered("far") \in Seq(Words) /\ header["far"] \in Words
      /\ section["far"] \in {0, 1} /\ <<>> \in Seq(Words)
      /\ section["far"] = 0 => IdOf(Gathered("far")) \in Words /\ LengthOf(Gathered("far")) \in Words
  BY <1>1, ParsedWords
<1>3. Plain(sent) =>
        /\ Len(results) = Len(executed) /\ Len(executed) = Len(sent) - 1
        /\ m.id \in Nat /\ m.id < Ids /\ m.body \in Seq(Words) /\ Len(m.body) \in Nat /\ Len(m.body) < Base
        /\ Arrives("far", m.id, m.body, <<>>)
  <2>1. SUFFICES ASSUME Plain(sent)
                 PROVE  /\ Len(results) = Len(executed) /\ Len(executed) = Len(sent) - 1
                        /\ m.id \in Nat /\ m.id < Ids /\ m.body \in Seq(Words)
                        /\ Len(m.body) \in Nat /\ Len(m.body) < Base
                        /\ Arrives("far", m.id, m.body, <<>>)
    OBVIOUS
  <2>2. flow["far"] # "done" /\ ~Quiet("far")
    BY <1>1, QuietParsesNothing
  <2>3. /\ Len(results) = Len(executed) /\ Len(executed) = Len(sent) - 1
        /\ m.id \in Procedures /\ Arrives("far", m.id, m.body, <<>>)
    BY <2>1, <2>2 DEF RpcOK, FarRpc
  <2>4. Len(sent) \in Nat /\ Len(executed) \in Nat /\ Len(sent) <= MaxSent /\ MaxSent \in Nat
    BY LenProperties, EXAssumption DEF Sound, SentOK, SentBounded, DoneOK
  <2>5. Len(sent) \in 1 .. MaxSent /\ Len(sent) \in DOMAIN sent
    BY <2>3, <2>4 DEF Sound, SentOK
  <2>6. m \in Message
    BY <2>5 DEF Sound, SentOK
  <2>7. m.body \in Seq(Words) /\ Len(m.body) \in Nat
    BY <2>6, LenProperties DEF Message
  <2>8. Len(m.body) < Base
    BY <2>1, <2>5, <2>7, EXAssumption DEF Plain, AtLimit
  <2>9. m.id \in Nat /\ m.id < Ids
    <3>1. \A p \in Procedures : p \in Nat /\ p < Ids
      BY EXAssumption
    <3> QED BY <2>3, <3>1
  <2> QED BY <2>3, <2>7, <2>8, <2>9
<1> HIDE DEF m
<1>4. CASE section["far"] = 1 /\ Execute(header["far"], Gathered("far"))
  <2>1. Plain(sent) => Gathered("far") = m.body /\ header["far"] = m.id /\ Following("far") = <<>>
    BY <1>1, <1>2, <1>3, <1>4, ArrivedBody
  <2>2. Due(header["far"], Gathered("far"))
    BY <1>3, <2>1 DEF Due, m
  <2> QED BY <1>1, <1>2, <1>4, <2>2, ExecuteRpc
<1>5. CASE section["far"] = 0 /\ ExpectBody("far", Gathered("far"))
  BY <1>1, <1>5, AskedFarRpc
<1>6. CASE /\ section["far"] = 0 /\ ~(LengthOf(Gathered("far")) > 0)
           /\ Execute(IdOf(Gathered("far")), <<>>)
  <2>1. ASSUME Plain(sent)
        PROVE  m.body = <<>> /\ IdOf(Gathered("far")) = m.id /\ Following("far") = <<>>
    <3>1. Gathered("far") = Header(m.id, Len(m.body)) /\ Following("far") = Cat(m.body, <<>>)
      BY <1>1, <1>2, <1>3, <1>6, <2>1, ArrivedHeader
    <3>2. Header(m.id, Len(m.body)) = <<Len(m.body), m.id>>
      BY <1>3, <2>1, HeaderParts
    <3>3. LengthOf(Gathered("far")) = Len(m.body) /\ IdOf(Gathered("far")) = m.id
      BY <3>1, <3>2 DEF LengthOf, IdOf
    <3>4. m.body = <<>>
      BY <1>3, <1>6, <2>1, <3>3, EmptySeq
    <3> QED BY <1>2, <3>1, <3>3, <3>4, CatEmpty
  <2>2. Due(IdOf(Gathered("far")), <<>>)
    BY <1>3, <2>1 DEF Due, m
  <2> QED BY <1>1, <1>2, <1>6, <2>2, ExecuteRpc
<1> QED BY <1>2, <1>4, <1>5, <1>6 DEF ParseRequest

RpcInv == pair = "rpc" => RpcOK

(* The invariant of the calls holds at the start ... *)
LEMMA InitRpc == Init => RpcInv
<1> SUFFICES ASSUME Init, pair = "rpc" PROVE RpcOK
  BY DEF RpcInv
<1>1. /\ sent = <<>> /\ executed = <<>> /\ results = <<>> /\ returned = <<>> /\ serialized = <<>>
      /\ Len(<<>>) = 0 /\ DOMAIN <<>> = {}
  BY DEF Init
<1>2. Plain(sent) /\ Plain(results)
  BY <1>1 DEF Plain, AtLimit
<1>3. <<>> \in Seq(Words)
  OBVIOUS
<1>4. Quiet("near") /\ Quiet("far") /\ flow["near"] = "idle"
  <2>1. \A s \in Sides : /\ reader[s].message = <<>> /\ reader[s].buffered = <<>>
                         /\ Behind(s) = <<>> /\ section[s] = 0
    BY DEF Init, Behind
  <2>2. Cat(Cat(<<>>, <<>>), <<>>) = <<>>
    BY <1>3, CatEmpty
  <2> QED BY <2>1, <2>2 DEF Quiet, Pending, Init, Sides
<1>5. FarRpc /\ InOrder /\ Spoilt
  BY <1>1, <1>2, <1>4 DEF FarRpc, InOrder, Spoilt
<1>6. NearRpc
  BY <1>1, <1>2, <1>4, EXAssumption DEF NearRpc, Waiting
<1>7. ExecutedAsCalled /\ ReplyMatches
  BY <1>1 DEF ExecutedAsCalled, ReplyMatches
<1> QED BY <1>5, <1>6, <1>7 DEF RpcOK

(* ... every step keeps it ... *)
LEMMA NextRpc ==
  ASSUME Sound, RpcInv, [Next]_vars
  PROVE  RpcInv'
<1>0. UNCHANGED config
  BY DEF Next, vars, Call, Publish, DataFlow, Read, ReadFails, Gather, ParseReply, ParseRequest,
         ParsePublished, Disconnect, LoseDatagram, DoubleDatagram
<1>1. SUFFICES ASSUME pair = "rpc", RpcOK PROVE RpcOK'
  BY <1>0 DEF RpcInv, config
<1>2. transport # "udp"
  BY <1>1 DEF Sound, ConfigOK
<1>3. CASE UNCHANGED vars
  <2>1. \A s \in Sides : Still(s)
    BY <1>3 DEF Still, vars, config
  <2> QED BY <1>1, <1>3, <2>1, StillKept, RpcKept DEF vars, config
<1>4. ASSUME NEW p \in Procedures, NEW len \in ArgLens[p], Call(p, len) PROVE RpcOK'
  BY <1>1, <1>4, CallRpc
<1>5. ASSUME NEW s \in Sides, Read(s) \/ Gather(s) PROVE RpcOK'
  <2>1. \A t \in Sides : Kept(t)
    BY <1>2, <1>5, ReadKept, GatherKept
  <2> QED BY <1>0, <1>1, <1>5, <2>1, RpcKept DEF Read, Gather, config
<1>6. ASSUME NEW s \in Sides, ReadFails(s) PROVE RpcOK'
  <2>1. Finish(s) /\ UNCHANGED <<transport, net, reader, section, header, serialized, history>>
    BY <1>6 DEF ReadFails, config
  <2>2. \A t \in Sides : Kept(t)
    BY <2>1, FinishKept
  <2> QED BY <1>0, <1>1, <2>1, <2>2, RpcKept DEF config
<1>7. CASE Disconnect
  <2>1. \A s \in Sides : Still(s)
    BY <1>7 DEF Still, Disconnect, config
  <2> QED BY <1>0, <1>1, <1>7, <2>1, StillKept, RpcKept DEF Disconnect, config
<1>8. CASE ParseReply
  BY <1>1, <1>8, ParseReplyRpc
<1>9. CASE ParseRequest
  BY <1>1, <1>9, ParseRequestRpc
<1>10. ~ParsePublished /\ ~LoseDatagram /\ ~DoubleDatagram /\ \A lens \in Groups : ~Publish(lens)
  BY <1>1, <1>2 DEF ParsePublished, LoseDatagram, DoubleDatagram, Publish
<1> QED BY <1>3, <1>4, <1>5, <1>6, <1>7, <1>8, <1>9, <1>10 DEF Next, DataFlow

(* ... so that it always holds. *)
LEMMA RpcAlways == Spec => []RpcInv
<1>1. Sound /\ RpcInv /\ [Next]_vars => (Sound /\ RpcInv)'
  BY NextSound, NextRpc
<1> QED BY InitSound, InitRpc, <1>1, PTL DEF Spec

(* The server executes what was called, in order, once and with the         *)
(* arguments that were sent, however reads cut the stream, but for lengths  *)
(* at the limit (parseMessage and call of rpcServer.h).                     *)
THEOREM ExecutedAsCalledCorrect == Spec => []ExecutedAsCalled
<1>1. RpcInv => ExecutedAsCalled
  BY DEF RpcInv, RpcOK, ExecutedAsCalled
<1> QED BY <1>1, RpcAlways, PTL

(* The i-th reply handed over is what the i-th call returned, but for       *)
(* lengths at the limit and returns that toBinary refuses (rpcServer.h:133, *)
(* parseMessage and ParseMessage of the clients).                           *)
THEOREM ReplyMatchesCorrect == Spec => []ReplyMatches
<1>1. RpcInv => ReplyMatches
  BY DEF RpcInv, RpcOK, ReplyMatches
<1> QED BY <1>1, RpcAlways, PTL

-----------------------------------------------------------------------------
(* Published messages. *)

(* A message and what follows it. *)
Framed(m, rest) == Cat(Header(m.id, Len(m.body)), Cat(m.body, rest))

(* What was published has the length that the signature gives it. *)
SentAsPublished ==
  \A k \in DOMAIN sent :
    sent[k].id = 1 /\ Len(sent[k].body) \in ArgLens[topic] /\ Len(sent[k].body) <= Base

(* C++ never waits for a body of length 0. *)
BodyAsked ==
  flow["far"] # "done" /\ section["far"] = 1 /\ lang["far"] = "C++" => reader["far"].length > 0

(* A length at the limit is 0 in the header. *)
LEMMA HeaderAtLimit == Header(1, Base)[1] = 0
<1>1. Base \in Nat /\ Base > 2
  BY EXAssumption
<1>2. (1 * Base + Base) % Base = 0
  BY <1>1
<1> QED BY <1>2 DEF Header

(* A framed message, and what is put behind it. *)
LEMMA FramedType ==
  ASSUME NEW m \in Message, NEW rest \in Seq(Words)
  PROVE  /\ Framed(m, rest) \in Seq(Words) /\ Cat(m.body, rest) \in Seq(Words)
         /\ Framed(m, rest) # <<>>
         /\ \A x \in Seq(Words) : Cat(Framed(m, rest), x) = Framed(m, Cat(rest, x))
<1>1. m.body \in Seq(Words) /\ m.id \in Nat /\ Len(m.body) \in Nat
  BY LenProperties DEF Message
<1>2. Header(m.id, Len(m.body)) \in Seq(Words) /\ Len(Header(m.id, Len(m.body))) = 2
  BY <1>1, HeaderType
<1>3. Cat(m.body, rest) \in Seq(Words) /\ Len(Cat(m.body, rest)) \in Nat
  BY <1>1, CatType, LenProperties
<1>4. /\ Framed(m, rest) \in Seq(Words)
      /\ Len(Framed(m, rest)) = Len(Header(m.id, Len(m.body))) + Len(Cat(m.body, rest))
  BY <1>2, <1>3, CatType DEF Framed
<1>5. Framed(m, rest) # <<>>
  <2>1. Len(Framed(m, rest)) # 0
    BY <1>2, <1>3, <1>4
  <2> QED BY <2>1
<1>6. ASSUME NEW x \in Seq(Words) PROVE Cat(Framed(m, rest), x) = Framed(m, Cat(rest, x))
  <2>1. Cat(Framed(m, rest), x) = Cat(Header(m.id, Len(m.body)), Cat(Cat(m.body, rest), x))
    BY <1>2, <1>3, CatAssociative DEF Framed
  <2>2. Cat(Cat(m.body, rest), x) = Cat(m.body, Cat(rest, x))
    BY <1>1, CatAssociative
  <2> QED BY <2>1, <2>2 DEF Framed
<1> QED BY <1>3, <1>4, <1>5, <1>6

(* What the subscriber does with a sub-message of a published message m:   *)
(* it ends, it waits for the body, or it hands m over.                     *)
Ended == flow'["far"] = "done" /\ executed' = executed

Asked(m, rest) ==
  /\ section'["far"] = 1 /\ section["far"] = 0
  /\ <<reader'["far"].length, header'["far"]>> = Header(1, Len(m.body))
  /\ Pending("far")' = Cat(m.body, rest) /\ executed' = executed
  /\ lang["far"] = "C++" => reader'["far"].length > 0
  /\ reader'["far"].message = <<>> /\ reader'["far"].buffered = Rest("far")
  /\ flow'["far"] = IF Rest("far") # <<>> THEN "round"
                    ELSE IF reader'["far"].length > 0 THEN "read" ELSE "spin"

HandedOver(m, rest) ==
  /\ section'["far"] = 0 /\ Pending("far")' = rest
  /\ executed' = Append(executed, m)
  /\ reader'["far"].message = <<>> /\ reader'["far"].buffered = Rest("far")
  /\ flow'["far"] = IF Rest("far") # <<>> THEN "round" ELSE "read"

(* The callback hands a message over or ends the flow. *)
LEMMA CallbackDoes ==
  ASSUME Sound, UNCHANGED config, Complete("far"), NEW flag \in Words, NEW m \in Message,
         Callback(flag, m.body), flag = 1, m.id = 1
  PROVE  Ended \/ HandedOver(m, Following("far"))
<1>0. "far" \in Sides /\ 2 \in Words /\ Rest("far") \in Seq(Words) /\ UNCHANGED <<transport, net>>
  BY ParsedWords, EXAssumption DEF Sides, Words, Callback, config
<1>1. CASE Finish("far") /\ UNCHANGED executed
  BY <1>0, <1>1 DEF Ended, Finish, Sound, FlowOK
<1>2. CASE /\ ExpectHeader("far")
           /\ executed' = Append(executed, [id |-> IF lang["far"] = "C++" \/ flag = 1 THEN 1 ELSE 0,
                                            body |-> m.body])
           /\ Resume("far", Rest("far"), 2)
  <2>1. [id |-> IF lang["far"] = "C++" \/ flag = 1 THEN 1 ELSE 0, body |-> m.body] = m
    BY DEF Message
  <2>2. executed' = Append(executed, m)
    BY <1>2, <2>1
  <2>3. section'["far"] = 0
    BY <1>0, <1>2 DEF ExpectHeader, Sound, ParserOK
  <2>4. /\ reader'["far"] = [buffered |-> Rest("far"), message |-> <<>>, length |-> 2]
        /\ flow'["far"] = IF pair = "publish" /\ "far" = "near" THEN "idle"
                          ELSE IF Rest("far") # <<>> THEN "round"
                          ELSE IF 2 > 0 THEN "read" ELSE "spin"
    BY <1>0, <1>2, ResumeTypes, Zenon DEF Sound
  <2>5. /\ reader'["far"].buffered = Rest("far") /\ reader'["far"].message = <<>>
        /\ flow'["far"] = IF Rest("far") # <<>> THEN "round" ELSE "read"
    BY <2>4
  <2>6. Pending("far")' = Following("far")
    BY <1>0, <2>5, AskedPending
  <2> QED BY <2>2, <2>3, <2>5, <2>6 DEF HandedOver
<1> QED BY <1>1, <1>2 DEF Callback

(* parseMessage of a subscriber, when a published message arrives. *)
LEMMA ParsedMessage ==
  ASSUME Sound, ParsePublished, SentAsPublished, BodyAsked,
         NEW k \in DOMAIN sent, NEW rest \in Seq(Words),
         Arrives("far", 1, sent[k].body, rest)
  PROVE  /\ UNCHANGED <<config, net, sent>> /\ (connected' => connected)
         /\ Ended \/ Asked(sent[k], rest) \/ HandedOver(sent[k], rest)
<1> DEFINE m == sent[k]
<1>0. /\ UNCHANGED config /\ Complete("far") /\ "far" \in Sides /\ pair = "publish"
      /\ sent \in Seq(Message) /\ m \in Message /\ m.body \in Seq(Words) /\ Len(m.body) \in Nat
      /\ m.id = 1 /\ Len(m.body) \in ArgLens[topic] /\ Len(m.body) <= Base
      /\ Base \in Nat /\ Base > 2 /\ 1 \in Nat /\ 1 < Ids /\ topic \in Procedures
      /\ connected \in BOOLEAN
  <2>1. m \in Message /\ sent \in Seq(Message)
    BY DEF Sound, SentOK
  <2>2. m.body \in Seq(Words) /\ Len(m.body) \in Nat
    BY <2>1, LenProperties DEF Message
  <2>3. m.id = 1 /\ Len(m.body) \in ArgLens[topic] /\ Len(m.body) <= Base
    BY DEF SentAsPublished
  <2> HIDE DEF m
  <2> QED BY <2>1, <2>2, <2>3, EXAssumption DEF ParsePublished, Sides, Sound, ConfigOK, FlowOK
<1>1. /\ Gathered("far") \in Seq(Words) /\ header["far"] \in Words
      /\ section["far"] \in {0, 1} /\ <<>> \in Seq(Words)
      /\ section["far"] = 0 => /\ IdOf(Gathered("far")) \in Words
                               /\ LengthOf(Gathered("far")) \in Words
  BY <1>0, ParsedWords
<1>2. /\ section["far"] = 1 => Callback(header["far"], Gathered("far"))
      /\ section["far"] = 0 =>
           \/ /\ LengthOf(Gathered("far")) > 0 \/ lang["far"] = "Go"
              /\ ExpectBody("far", Gathered("far"))
           \/ /\ ~(LengthOf(Gathered("far")) > 0) /\ ArgLens[topic] = {0}
              /\ Callback(IdOf(Gathered("far")), <<>>)
           \/ Finish("far") /\ UNCHANGED <<net, reader, section, header, serialized, history>>
  BY <1>1 DEF ParsePublished
<1>3. UNCHANGED <<config, net, sent>> /\ (connected' => connected)
  <2>1. UNCHANGED <<net, sent>> /\ (connected' = FALSE \/ connected' = connected)
    BY <1>1, <1>2 DEF Callback, ExpectBody, Finish, Resume, history
  <2> QED BY <1>0, <2>1
(* The body. *)
<1>4. CASE section["far"] = 1 /\ Len(m.body) < Base
  <2>1. Gathered("far") = m.body /\ header["far"] = 1 /\ Following("far") = rest
    BY <1>0, <1>4, ArrivedBody
  <2> QED BY <1>0, <1>1, <1>2, <1>3, <1>4, <2>1, CallbackDoes
(* A body whose length the header carried over into the id. *)
<1>5. CASE section["far"] = 1 /\ Len(m.body) = Base
  <2>1. Len(Gathered("far")) = reader["far"].length /\ <<reader["far"].length, header["far"]>> = Header(1, Base)
    BY <1>0, <1>5, Arrived
  <2>2. <<reader["far"].length, header["far"]>>[1] = 0
    BY <2>1, HeaderAtLimit
  <2>3. Gathered("far") = <<>> /\ reader["far"].length = 0
    BY <1>1, <2>1, <2>2, EmptySeq
  <2>4. lang["far"] # "C++"
    BY <1>0, <1>5, <2>3 DEF BodyAsked, Complete
  <2>5. 0 \notin ArgLens[topic]
    <3>1. ArgLens[topic] \in {ArgLens[p] : p \in Procedures} \cup {RetLens[p] : p \in Procedures}
      BY <1>0
    <3>2. 0 \in ArgLens[topic] => ArgLens[topic] = {0}
      BY <3>1, EXAssumption
    <3> QED BY <1>0, <1>5, <3>2
  <2>6. <<>> \notin Bodies(sent)
    <3>1. Len(<<>>) = 0
      OBVIOUS
    <3> QED BY <2>5, <3>1 DEF Bodies, SentAsPublished
  <2>7. Decodes(<<>>, Bodies(sent), ArgLens[topic]) = {FALSE}
    BY <2>5, <2>6 DEF Decodes
  <2>8. Finish("far") /\ UNCHANGED executed
    BY <1>2, <1>5, <2>3, <2>4, <2>7 DEF Callback
  <2> QED BY <1>0, <1>3, <2>8 DEF Ended, Finish, Sound, FlowOK
(* The header. *)
<1>6. CASE section["far"] = 0
  <2>1. Gathered("far") = Header(1, Len(m.body)) /\ Following("far") = Cat(m.body, rest)
    BY <1>0, <1>6, ArrivedHeader
  <2>2. CASE /\ LengthOf(Gathered("far")) > 0 \/ lang["far"] = "Go"
             /\ ExpectBody("far", Gathered("far"))
    <3>1. /\ section'["far"] = 1 /\ <<reader'["far"].length, header'["far"]>> = Gathered("far")
          /\ reader'["far"].message = <<>> /\ reader'["far"].buffered = Rest("far")
          /\ Pending("far")' = Following("far")
          /\ flow'["far"] = IF Rest("far") # <<>> THEN "round"
                            ELSE IF LengthOf(Gathered("far")) > 0 THEN "read" ELSE "spin"
          /\ UNCHANGED history
      BY <1>0, <1>6, <2>2, AskedForBody
    <3>2. reader'["far"].length = LengthOf(Gathered("far"))
      BY <3>1 DEF LengthOf
    <3>3. lang["far"] = "C++" => reader'["far"].length > 0
      BY <2>2, <3>2
    <3>4. Asked(m, rest)
      BY <1>6, <2>1, <3>1, <3>2, <3>3 DEF Asked, history
    <3> QED BY <1>3, <3>4
  <2>3. CASE /\ ~(LengthOf(Gathered("far")) > 0) /\ ArgLens[topic] = {0}
             /\ Callback(IdOf(Gathered("far")), <<>>)
    <3>1. Len(m.body) = 0
      BY <1>0, <2>3
    <3>2. m.body = <<>>
      BY <1>0, <3>1, EmptySeq
    <3>3. Header(1, Len(m.body)) = <<Len(m.body), 1>>
      BY <1>0, <3>1, HeaderParts
    <3>4. IdOf(Gathered("far")) = 1
      BY <2>1, <3>3 DEF IdOf
    <3>5. Following("far") = rest
      BY <2>1, <3>2, CatEmpty
    <3> QED BY <1>0, <1>1, <1>3, <1>6, <2>3, <3>2, <3>4, <3>5, CallbackDoes
  <2>4. CASE Finish("far") /\ UNCHANGED <<net, reader, section, header, serialized, history>>
    BY <1>0, <1>3, <2>4 DEF Ended, Finish, Sound, FlowOK, history
  <2> QED BY <1>2, <1>6, <2>2, <2>3, <2>4
<1> QED BY <1>0, <1>1, <1>4, <1>5, <1>6

(* What one publish writes. *)
LEMMA PublishedGroup ==
  ASSUME Sound, UNCHANGED topic, pair = "publish", SentAsPublished,
         NEW lens \in Groups, Len(sent) + Len(lens) <= MaxSent,
         ~\E k \in DOMAIN lens : TooLong(lens[k]),
         sent' = sent \o Published(lens)
  PROVE  /\ SentAsPublished' /\ Group(lens) \in Seq(Words)
         /\ \A k \in DOMAIN sent : k \in DOMAIN sent' /\ sent'[k] = sent[k]
         /\ sent' \in Seq(Message)
         /\ \/ /\ Len(sent') = Len(sent) + 1
               /\ Group(lens) = Framed(sent'[Len(sent) + 1], <<>>)
            \/ /\ Len(sent') = Len(sent) + 2
               /\ Group(lens) = Framed(sent'[Len(sent) + 1], Framed(sent'[Len(sent) + 2], <<>>))
<1> DEFINE n == Len(sent)
           M(k, len) == [id |-> 1, body |-> Body(n + k, len)]
<1>0. /\ sent \in Seq(Message) /\ n \in Nat /\ DOMAIN sent = 1 .. n /\ topic \in Procedures
      /\ ArgLens[topic] \subseteq Nat /\ Base \in Nat /\ MaxSent \in Nat /\ MaxSent < Base
      /\ <<>> \in Seq(Words)
  <2>1. sent \in Seq(Message) /\ topic \in Procedures
    BY DEF Sound, SentOK, ConfigOK
  <2> QED BY <2>1, LenProperties, EXAssumption
<1>1. ASSUME NEW k \in {1, 2}, NEW len \in ArgLens[topic], n + k \in Words, ~TooLong(len)
      PROVE  /\ M(k, len) \in Message /\ M(k, len).id = 1
             /\ Len(M(k, len).body) \in ArgLens[topic] /\ Len(M(k, len).body) <= Base
             /\ Encoding(n + k, len) = Framed(M(k, len), <<>>)
  <2>1. Body(n + k, len) \in Seq(Words) /\ Len(Body(n + k, len)) = len /\ len \in Nat
    BY <1>0, <1>1, BodyType
  <2>2. M(k, len).id = 1 /\ M(k, len).body = Body(n + k, len) /\ M(k, len) \in Message
    BY <2>1 DEF Message
  <2>3. len <= Base
    BY <1>0, <1>1, <2>1 DEF TooLong
  <2>4. Cat(Body(n + k, len), <<>>) = Body(n + k, len)
    BY <2>1, CatEmpty
  <2>5. Framed(M(k, len), <<>>) = Cat(Header(1, len), Body(n + k, len))
    <3> HIDE DEF M
    <3> QED BY <2>1, <2>2, <2>4 DEF Framed
  <2> HIDE DEF M
  <2> QED BY <1>1, <2>1, <2>2, <2>3, <2>5 DEF Encoding
<1>2. ASSUME NEW a \in ArgLens[topic], lens = <<a>>, Group(lens) = Encoding(n + 1, a)
      PROVE  /\ M(1, a) \in Message /\ M(1, a).id = 1
             /\ Len(M(1, a).body) \in ArgLens[topic] /\ Len(M(1, a).body) <= Base
             /\ Group(lens) = Framed(M(1, a), <<>>)
             /\ sent' = Cat(sent, <<M(1, a)>>)
  <2>1. DOMAIN lens = {1} /\ lens[1] = a /\ Len(lens) = 1
    BY <1>2
  <2>2. ~TooLong(a) /\ n + 1 \in Words
    BY <1>0, <2>1 DEF Words
  <2>3. Published(lens) = <<M(1, a)>>
    BY <1>2 DEF Published
  <2>4. sent' = Cat(sent, <<M(1, a)>>)
    BY <2>3 DEF Cat
  <2>5. 1 \in {1, 2}
    OBVIOUS
  <2> HIDE DEF M
  <2> QED BY <1>1, <1>2, <2>2, <2>4, <2>5
<1>3. ASSUME NEW a \in ArgLens[topic], NEW b \in ArgLens[topic], lens = <<a, b>>,
             Group(lens) = Cat(Encoding(n + 1, a), Encoding(n + 2, b))
      PROVE  /\ M(1, a) \in Message /\ M(1, a).id = 1
             /\ Len(M(1, a).body) \in ArgLens[topic] /\ Len(M(1, a).body) <= Base
             /\ M(2, b) \in Message /\ M(2, b).id = 1
             /\ Len(M(2, b).body) \in ArgLens[topic] /\ Len(M(2, b).body) <= Base
             /\ Group(lens) = Cat(Framed(M(1, a), <<>>), Framed(M(2, b), <<>>))
             /\ sent' = Cat(sent, <<M(1, a), M(2, b)>>)
  <2>1. DOMAIN lens = {1, 2} /\ lens[1] = a /\ lens[2] = b /\ Len(lens) = 2
    BY <1>3
  <2>2. ~TooLong(a) /\ ~TooLong(b) /\ n + 1 \in Words /\ n + 2 \in Words
    BY <1>0, <2>1 DEF Words
  <2>3. Published(lens) = <<M(1, a), M(2, b)>>
    BY <1>3 DEF Published
  <2>4. sent' = Cat(sent, <<M(1, a), M(2, b)>>)
    BY <2>3 DEF Cat
  <2>5. 1 \in {1, 2} /\ 2 \in {1, 2}
    OBVIOUS
  <2> HIDE DEF M
  <2>6. /\ M(1, a) \in Message /\ M(1, a).id = 1
        /\ Len(M(1, a).body) \in ArgLens[topic] /\ Len(M(1, a).body) <= Base
        /\ Encoding(n + 1, a) = Framed(M(1, a), <<>>)
    BY <1>1, <2>2, <2>5
  <2>7. /\ M(2, b) \in Message /\ M(2, b).id = 1
        /\ Len(M(2, b).body) \in ArgLens[topic] /\ Len(M(2, b).body) <= Base
        /\ Encoding(n + 2, b) = Framed(M(2, b), <<>>)
    BY <1>1, <2>2, <2>5
  <2> QED BY <1>3, <2>4, <2>6, <2>7
<1> HIDE DEF M
<1>4. ASSUME NEW m \in Message, m.id = 1, Len(m.body) \in ArgLens[topic], Len(m.body) <= Base,
             Group(lens) = Framed(m, <<>>), sent' = Cat(sent, <<m>>)
      PROVE  /\ SentAsPublished' /\ Group(lens) \in Seq(Words)
             /\ \A k \in DOMAIN sent : k \in DOMAIN sent' /\ sent'[k] = sent[k]
             /\ Len(sent') = n + 1 /\ Group(lens) = Framed(sent'[n + 1], <<>>)
             /\ sent' \in Seq(Message)
  <2>1. /\ Len(sent') = n + 1 /\ DOMAIN sent' = 1 .. n + 1 /\ sent'[n + 1] = m
        /\ \A k \in 1 .. n : sent'[k] = sent[k]
        /\ sent' \in Seq(Message)
    BY <1>0, <1>4 DEF Cat
  <2>2. SentAsPublished'
    <3>1. \A k \in DOMAIN sent' : k \in DOMAIN sent \/ k = n + 1
      BY <1>0, <2>1
    <3> QED BY <1>0, <1>4, <2>1, <3>1 DEF SentAsPublished
  <2>3. Group(lens) \in Seq(Words)
    BY <1>0, <1>4, FramedType
  <2> QED BY <1>0, <1>4, <2>1, <2>2, <2>3
<1>5. ASSUME NEW m1 \in Message, m1.id = 1, Len(m1.body) \in ArgLens[topic], Len(m1.body) <= Base,
             NEW m2 \in Message, m2.id = 1, Len(m2.body) \in ArgLens[topic], Len(m2.body) <= Base,
             Group(lens) = Cat(Framed(m1, <<>>), Framed(m2, <<>>)), sent' = Cat(sent, <<m1, m2>>)
      PROVE  /\ SentAsPublished' /\ Group(lens) \in Seq(Words)
             /\ \A k \in DOMAIN sent : k \in DOMAIN sent' /\ sent'[k] = sent[k]
             /\ Len(sent') = n + 2 /\ Group(lens) = Framed(sent'[n + 1], Framed(sent'[n + 2], <<>>))
             /\ sent' \in Seq(Message)
  <2>1. /\ Len(sent') = n + 2 /\ DOMAIN sent' = 1 .. n + 2
        /\ sent'[n + 1] = m1 /\ sent'[n + 2] = m2
        /\ \A k \in 1 .. n : sent'[k] = sent[k]
        /\ sent' \in Seq(Message)
    BY <1>0, <1>5 DEF Cat
  <2>2. SentAsPublished'
    <3>1. \A k \in DOMAIN sent' : k \in DOMAIN sent \/ k = n + 1 \/ k = n + 2
      BY <1>0, <2>1
    <3> QED BY <1>0, <1>5, <2>1, <3>1 DEF SentAsPublished
  <2>3. Framed(m2, <<>>) \in Seq(Words)
    BY <1>0, FramedType
  <2>4. Group(lens) = Framed(m1, Framed(m2, <<>>))
    <3>1. Cat(Framed(m1, <<>>), Framed(m2, <<>>)) = Framed(m1, Cat(<<>>, Framed(m2, <<>>)))
      BY <1>0, <2>3, FramedType
    <3>2. Cat(<<>>, Framed(m2, <<>>)) = Framed(m2, <<>>)
      BY <2>3, CatEmpty
    <3> QED BY <1>5, <3>1, <3>2
  <2>5. Group(lens) \in Seq(Words)
    BY <2>3, <2>4, FramedType
  <2> QED BY <1>0, <2>1, <2>2, <2>4, <2>5
<1>6. CASE \E a \in ArgLens[topic] : lens = <<a>> /\ Group(lens) = Encoding(n + 1, a)
  <2>1. PICK a \in ArgLens[topic] : lens = <<a>> /\ Group(lens) = Encoding(n + 1, a)
    BY <1>6
  <2>2. /\ M(1, a) \in Message /\ M(1, a).id = 1
        /\ Len(M(1, a).body) \in ArgLens[topic] /\ Len(M(1, a).body) <= Base
        /\ Group(lens) = Framed(M(1, a), <<>>)
        /\ sent' = Cat(sent, <<M(1, a)>>)
    BY <1>2, <2>1
  <2> QED BY <1>4, <2>2
<1>7. CASE \E a, b \in ArgLens[topic] :
             /\ lens = <<a, b>>
             /\ Group(lens) = Cat(Encoding(n + 1, a), Encoding(n + 2, b))
  <2>1. PICK a, b \in ArgLens[topic] :
               /\ lens = <<a, b>>
               /\ Group(lens) = Cat(Encoding(n + 1, a), Encoding(n + 2, b))
    BY <1>7
  <2>2. /\ M(1, a) \in Message /\ M(1, a).id = 1
        /\ Len(M(1, a).body) \in ArgLens[topic] /\ Len(M(1, a).body) <= Base
        /\ M(2, b) \in Message /\ M(2, b).id = 1
        /\ Len(M(2, b).body) \in ArgLens[topic] /\ Len(M(2, b).body) <= Base
        /\ Group(lens) = Cat(Framed(M(1, a), <<>>), Framed(M(2, b), <<>>))
        /\ sent' = Cat(sent, <<M(1, a), M(2, b)>>)
    BY <1>3, <2>1
  <2> QED BY <1>5, <2>2
<1> QED BY <1>0, <1>6, <1>7, GroupIs

(* Over a stream, the messages that were written and not yet handed over   *)
(* are on their way in order: f[k] is what follows the k-th message, and w *)
(* the number of messages written until the connection was lost.           *)
OnItsWay(w, f) ==
  /\ Len(executed) <= w /\ (connected => w = Len(sent))
  /\ f[w] = <<>> /\ \A k \in 1 .. w : f[k - 1] = Framed(sent[k], f[k])
  /\ \/ flow["far"] = "done"
     \/ Len(executed) = w /\ Quiet("far")
     \/ /\ Len(executed) < w
        /\ Arrives("far", 1, sent[Len(executed) + 1].body, f[Len(executed) + 1])

InStream == \E w \in 0 .. Len(sent) : \E f \in [0 .. w -> Seq(Words)] : OnItsWay(w, f)

HandedOverInOrder == \A k \in DOMAIN executed : k \in DOMAIN sent /\ executed[k] = sent[k]

StreamOK == SentAsPublished /\ BodyAsked /\ HandedOverInOrder /\ InStream

(* A step that parses and publishes nothing leaves the stream as it is. *)
LEMMA StreamKept ==
  ASSUME StreamOK, Kept("far"), UNCHANGED <<config, sent, executed>>
  PROVE  StreamOK'
<1>0. UNCHANGED <<lang, topic>>
  BY DEF config
<1>1. SentAsPublished' /\ HandedOverInOrder'
  BY <1>0 DEF StreamOK, SentAsPublished, HandedOverInOrder
<1>2. BodyAsked'
  BY <1>0 DEF StreamOK, BodyAsked, Kept
<1>11. PICK w \in 0 .. Len(sent) : \E f \in [0 .. w -> Seq(Words)] : OnItsWay(w, f)
  BY DEF StreamOK, InStream
<1>3. PICK f \in [0 .. w -> Seq(Words)] : OnItsWay(w, f)
  BY <1>11
<1>4. /\ Len(executed) <= w /\ (connected => w = Len(sent))
      /\ f[w] = <<>> /\ \A k \in 1 .. w : f[k - 1] = Framed(sent[k], f[k])
      /\ \/ flow["far"] = "done"
         \/ Len(executed) = w /\ Quiet("far")
         \/ /\ Len(executed) < w
            /\ Arrives("far", 1, sent[Len(executed) + 1].body, f[Len(executed) + 1])
  BY <1>3 DEF OnItsWay
<1>5. (flow["far"] = "done" => flow'["far"] = "done") /\ (connected' => connected)
  BY DEF Kept
<1>6. Quiet("far") => Quiet("far")'
  BY DEF Quiet, Kept
<1>7. Arrives("far", 1, sent[Len(executed) + 1].body, f[Len(executed) + 1])
        => Arrives("far", 1, sent[Len(executed) + 1].body, f[Len(executed) + 1])'
  BY DEF Arrives, Kept
<1>8. \A k \in 1 .. w : f[k - 1] = Framed(sent'[k], f[k])
  BY <1>4
<1>9. OnItsWay(w, f)'
  BY <1>4, <1>5, <1>6, <1>7, <1>8 DEF OnItsWay, Framed
<1>10. InStream'
  BY <1>9 DEF InStream
<1> QED BY <1>1, <1>2, <1>10 DEF StreamOK

(* A subscriber that parses moves along the stream by one message at most. *)
LEMMA StreamParsed ==
  ASSUME Sound, StreamOK, ParsePublished
  PROVE  StreamOK'
<1>0. /\ UNCHANGED config /\ Complete("far") /\ "far" \in Sides /\ flow["far"] = "round"
      /\ Len(executed) \in Nat /\ Len(sent) \in Nat
      /\ SentAsPublished /\ BodyAsked /\ HandedOverInOrder
  BY LenProperties DEF ParsePublished, Complete, Sides, Sound, DoneOK, SentOK, StreamOK
<1>1. PICK w \in 0 .. Len(sent) : \E f \in [0 .. w -> Seq(Words)] : OnItsWay(w, f)
  BY DEF StreamOK, InStream
<1>2. PICK f \in [0 .. w -> Seq(Words)] : OnItsWay(w, f)
  BY <1>1
<1>3. PICK k \in Nat : k = Len(executed) + 1
  BY <1>0
<1>4. /\ Len(executed) = k - 1 /\ k - 1 < w /\ (connected => w = Len(sent)) /\ f[w] = <<>>
      /\ \A j \in 1 .. w : f[j - 1] = Framed(sent[j], f[j])
      /\ Arrives("far", 1, sent[k].body, f[k])
  <2>1. Len(executed) = k - 1
    BY <1>0, <1>3
  <2>2. /\ Len(executed) < w /\ (connected => w = Len(sent)) /\ f[w] = <<>>
        /\ \A j \in 1 .. w : f[j - 1] = Framed(sent[j], f[j])
        /\ Arrives("far", 1, sent[Len(executed) + 1].body, f[Len(executed) + 1])
    BY <1>0, <1>2, QuietParsesNothing DEF OnItsWay
  <2> QED BY <1>3, <2>1, <2>2
<1>5. w \in Nat /\ w <= Len(sent) /\ k \in Nat
  BY <1>0, <1>1, <1>3
<1>6. k \in 1 .. w /\ k \in 0 .. w /\ k \in 1 .. Len(sent)
  <2>1. k >= 1 /\ k <= w
    BY <1>0, <1>3, <1>4, <1>5
  <2> QED BY <1>0, <1>5, <2>1
<1>7. k \in DOMAIN sent /\ f[k] \in Seq(Words)
  BY <1>2, <1>6 DEF Sound, SentOK
<1>8. /\ UNCHANGED <<config, net, sent>> /\ (connected' => connected)
      /\ Ended \/ Asked(sent[k], f[k]) \/ HandedOver(sent[k], f[k])
  <2>1. PICK rest \in Seq(Words) : rest = f[k]
    BY <1>7
  <2>2. Arrives("far", 1, sent[k].body, rest)
    BY <1>4, <2>1
  <2>3. /\ UNCHANGED <<config, net, sent>> /\ (connected' => connected)
        /\ Ended \/ Asked(sent[k], rest) \/ HandedOver(sent[k], rest)
    BY <1>0, <1>7, <2>2, ParsedMessage
  <2> QED BY <2>1, <2>3
<1>9. UNCHANGED <<lang, topic, sent>> /\ (connected' => w = Len(sent'))
  BY <1>4, <1>8 DEF config
<1>10. SentAsPublished' /\ \A j \in 1 .. w : f[j - 1] = Framed(sent'[j], f[j])
  BY <1>0, <1>4, <1>9 DEF SentAsPublished
<1>11. ASSUME OnItsWay(w, f)' PROVE InStream'
  <2>1. w \in 0 .. Len(sent')
    BY <1>1, <1>9
  <2> QED BY <1>2, <1>11, <2>1 DEF InStream
<1>12. CASE Ended
  <2>1. BodyAsked' /\ HandedOverInOrder'
    BY <1>0, <1>9, <1>12 DEF Ended, BodyAsked, HandedOverInOrder
  <2>2. Len(executed') <= w
    <3>1. Len(executed') = k - 1
      BY <1>4, <1>12 DEF Ended
    <3> QED BY <1>4, <1>5, <3>1
  <2>3. OnItsWay(w, f)'
    BY <1>4, <1>9, <1>10, <1>12, <2>2 DEF OnItsWay, Framed, Ended
  <2> QED BY <1>10, <1>11, <2>1, <2>3 DEF StreamOK
<1>13. CASE Asked(sent[k], f[k])
  <2>1. executed' = executed
    BY <1>13 DEF Asked
  <2>2. BodyAsked' /\ HandedOverInOrder'
    BY <1>0, <1>9, <1>13 DEF Asked, BodyAsked, HandedOverInOrder
  <2>3. Arrives("far", 1, sent[k].body, f[k])'
    BY <1>9, <1>13 DEF Arrives, Asked
  <2>4. Len(executed') + 1 = k /\ Len(executed') < w /\ Len(executed') <= w
    <3>1. Len(executed') = k - 1
      BY <1>4, <2>1
    <3> QED BY <1>4, <1>5, <3>1
  <2>5. OnItsWay(w, f)'
    BY <1>4, <1>9, <1>10, <2>3, <2>4 DEF OnItsWay, Framed
  <2> QED BY <1>10, <1>11, <2>2, <2>5 DEF StreamOK
<1>14. CASE HandedOver(sent[k], f[k])
  <2>1. section'["far"] = 0 /\ Pending("far")' = f[k] /\ executed' = Append(executed, sent[k])
    BY <1>14 DEF HandedOver
  <2>2. Len(executed') = k /\ executed'[k] = sent[k]
        /\ \A j \in DOMAIN executed' : j = k \/ (j \in DOMAIN executed /\ executed'[j] = executed[j])
    <3>1. executed \in Seq(Message) /\ k = Len(executed) + 1
      BY <1>3 DEF Sound, DoneOK
    <3> QED BY <2>1, <3>1
  <2>3. HandedOverInOrder'
    BY <1>0, <1>7, <1>9, <2>2 DEF HandedOverInOrder
  <2>4. BodyAsked'
    BY <2>1 DEF BodyAsked
  <2>5. Len(executed') <= w
    BY <1>5, <1>6, <2>2
  <2>6. CASE k = w
    <3>1. Quiet("far")'
      BY <1>4, <2>1, <2>6 DEF Quiet
    <3>2. OnItsWay(w, f)'
      BY <1>4, <1>9, <1>10, <2>2, <2>5, <2>6, <3>1 DEF OnItsWay, Framed
    <3> QED BY <1>10, <1>11, <2>3, <2>4, <3>2 DEF StreamOK
  <2>7. CASE k < w
    <3>1. PICK n \in 1 .. w : n = k + 1 /\ n - 1 = k
      BY <1>5, <2>7
    <3>2. n \in DOMAIN sent
      <4>1. n \in 1 .. Len(sent)
        BY <1>0, <1>5
      <4> QED BY <4>1 DEF Sound, SentOK
    <3>3. f[k] = Framed(sent[n], f[n])
      BY <1>4, <3>1
    <3>4. sent[n].id = 1
      BY <1>0, <3>2 DEF SentAsPublished
    <3>5. Pending("far")' = Cat(Header(1, Len(sent[n].body)), Cat(sent[n].body, f[n]))
      BY <2>1, <3>3, <3>4 DEF Framed
    <3>6. Arrives("far", 1, sent[n].body, f[n])'
      BY <1>9, <2>1, <3>5 DEF Arrives
    <3>7. Len(executed') + 1 = n /\ Len(executed') < w
      BY <2>2, <2>7, <3>1
    <3>8. OnItsWay(w, f)'
      BY <1>4, <1>9, <1>10, <2>5, <3>6, <3>7 DEF OnItsWay, Framed
    <3> QED BY <1>10, <1>11, <2>3, <2>4, <3>8 DEF StreamOK
  <2> QED BY <1>5, <1>6, <2>6, <2>7
<1> QED BY <1>8, <1>12, <1>13, <1>14

(* More arrives behind a message that is on its way. *)
LEMMA ArrivesMore ==
  ASSUME Sound, NEW m \in Message, NEW rest \in Seq(Words), NEW x \in Seq(Words),
         Arrives("far", 1, m.body, rest), Pending("far")' = Cat(Pending("far"), x),
         section'["far"] = section["far"], header'["far"] = header["far"],
         reader'["far"] = reader["far"]
  PROVE  Arrives("far", 1, m.body, Cat(rest, x))'
<1>1. m.body \in Seq(Words) /\ Len(m.body) \in Nat /\ Cat(m.body, rest) \in Seq(Words)
  BY LenProperties, CatType DEF Message
<1>2. Header(1, Len(m.body)) \in Seq(Words)
  BY <1>1, HeaderType
<1>3. Cat(Cat(m.body, rest), x) = Cat(m.body, Cat(rest, x))
  BY <1>1, CatAssociative
<1>4. Cat(Cat(Header(1, Len(m.body)), Cat(m.body, rest)), x)
        = Cat(Header(1, Len(m.body)), Cat(m.body, Cat(rest, x)))
  BY <1>1, <1>2, <1>3, CatAssociative
<1> QED BY <1>3, <1>4 DEF Arrives

(* The stream after a write that was delivered: the messages n + 1 .. v    *)
(* follow the ones that were on their way.                                 *)
LEMMA StreamGrows ==
  ASSUME Sound, StreamOK, SentAsPublished', connected, sent' \in Seq(Message),
         NEW n \in Nat, n = Len(sent), NEW v \in Nat, n < v, v = Len(sent'),
         \A k \in DOMAIN sent : k \in DOMAIN sent' /\ sent'[k] = sent[k],
         NEW tail \in [n .. v -> Seq(Words)], tail[v] = <<>>,
         \A k \in n + 1 .. v : tail[k - 1] = Framed(sent'[k], tail[k]),
         Pending("far")' = Cat(Pending("far"), tail[n]),
         section'["far"] = section["far"], header'["far"] = header["far"],
         reader'["far"] = reader["far"], flow'["far"] = flow["far"],
         UNCHANGED <<config, executed>>
  PROVE  StreamOK'
<1>0. /\ Len(executed) \in Nat /\ lang' = lang /\ BodyAsked /\ HandedOverInOrder
      /\ sent \in Seq(Message)
  BY LenProperties DEF Sound, DoneOK, SentOK, StreamOK, config
<1>1. PICK w \in 0 .. Len(sent) : \E f \in [0 .. w -> Seq(Words)] : OnItsWay(w, f)
  BY DEF StreamOK, InStream
<1>2. PICK f \in [0 .. w -> Seq(Words)] : OnItsWay(w, f)
  BY <1>1
<1>3. w = n
  BY <1>2 DEF OnItsWay
<1>4. /\ Len(executed) <= n /\ f[n] = <<>> /\ f \in [0 .. n -> Seq(Words)]
      /\ \A k \in 1 .. n : f[k - 1] = Framed(sent[k], f[k])
      /\ \/ flow["far"] = "done"
         \/ Len(executed) = n /\ Quiet("far")
         \/ /\ Len(executed) < n
            /\ Arrives("far", 1, sent[Len(executed) + 1].body, f[Len(executed) + 1])
  BY <1>2, <1>3 DEF OnItsWay
<1>5. PICK x \in Seq(Words) : x = tail[n]
  <2>1. n \in n .. v
    OBVIOUS
  <2> QED BY <2>1
<1> DEFINE g == [k \in 0 .. v |-> IF k < n THEN Cat(f[k], x) ELSE tail[k]]
<1>6. /\ g \in [0 .. v -> Seq(Words)] /\ \A k \in 0 .. v : k < n => g[k] = Cat(f[k], x)
      /\ \A k \in 0 .. v : ~(k < n) => g[k] = tail[k]
  <2>1. \A k \in 0 .. v : k < n => Cat(f[k], x) \in Seq(Words)
    <3> SUFFICES ASSUME NEW k \in 0 .. v, k < n PROVE Cat(f[k], x) \in Seq(Words)
      OBVIOUS
    <3>1. k \in 0 .. n
      OBVIOUS
    <3>2. f[k] \in Seq(Words)
      BY <1>4, <3>1
    <3> QED BY <1>5, <3>2, CatType
  <2>2. \A k \in 0 .. v : ~(k < n) => tail[k] \in Seq(Words)
    OBVIOUS
  <2> QED BY <2>1, <2>2
<1> HIDE DEF g
<1>7. g[n] = x /\ Cat(f[n], x) = x
  <2>1. n \in 0 .. v /\ ~(n < n)
    OBVIOUS
  <2> QED BY <1>4, <1>5, <1>6, <2>1, CatEmpty
<1>8. \A k \in 0 .. n : g[k] = Cat(f[k], x)
  <2>1. \A k \in 0 .. n : k \in 0 .. v /\ (k < n \/ k = n)
    OBVIOUS
  <2> QED BY <1>6, <1>7, <2>1
<1>9. ASSUME NEW k \in 1 .. v PROVE g[k - 1] = Framed(sent'[k], g[k])
  <2>1. CASE k <= n
    <3>1. k \in 0 .. n /\ k - 1 \in 0 .. n /\ k \in 1 .. n /\ f[k] \in Seq(Words)
      BY <1>4, <2>1
    <3>2. sent[k] \in Message /\ sent'[k] = sent[k]
      BY <1>0, <3>1
    <3>3. f[k - 1] = Framed(sent[k], f[k])
      BY <1>4, <3>1
    <3> QED BY <1>5, <1>8, <3>1, <3>2, <3>3, FramedType
  <2>2. CASE k = n + 1
    <3>1. k \in 0 .. v /\ ~(k < n) /\ k - 1 = n /\ k \in n + 1 .. v
      BY <2>2
    <3> QED BY <1>5, <1>6, <1>7, <3>1
  <2>3. CASE k > n + 1
    <3>1. k \in 0 .. v /\ k - 1 \in 0 .. v /\ ~(k < n) /\ ~(k - 1 < n) /\ k \in n + 1 .. v
      BY <2>3
    <3> QED BY <1>6, <3>1
  <2> QED BY <2>1, <2>2, <2>3
<1>10. g[v] = <<>>
  <2>1. v \in 0 .. v /\ ~(v < n)
    OBVIOUS
  <2> QED BY <1>6, <2>1
<1>11. Len(executed') <= v /\ Len(executed') < v
  <2>1. PICK e \in Nat : e = Len(executed) /\ e = Len(executed')
    BY <1>0
  <2>2. e <= n
    BY <1>4, <2>1
  <2>3. e <= v /\ e < v
    BY <2>2
  <2> QED BY <2>1, <2>3
<1>12. flow["far"] = "done" \/ Arrives("far", 1, sent[Len(executed) + 1].body, g[Len(executed) + 1])'
  <2>1. PICK k \in Nat : k = Len(executed) + 1
    BY <1>0
  <2>2. k \in 1 .. v
    BY <1>11, <2>1
  <2>3. CASE Len(executed) = n /\ Quiet("far")
    <3>1. k = n + 1 /\ k - 1 = n
      BY <2>1, <2>3
    <3>2. Pending("far") = <<>> /\ section["far"] = 0
      BY <2>3 DEF Quiet
    <3>3. Pending("far")' = x
      BY <1>5, <3>2, CatEmpty
    <3>4. x = Framed(sent'[k], g[k])
      BY <1>7, <1>9, <2>2, <3>1
    <3>5. sent'[k].id = 1
      <4>1. k \in DOMAIN sent'
        BY <2>2
      <4> QED BY <4>1 DEF SentAsPublished
    <3> QED BY <2>1, <3>2, <3>3, <3>4, <3>5 DEF Arrives, Framed
  <2>4. CASE /\ Len(executed) < n
             /\ Arrives("far", 1, sent[Len(executed) + 1].body, f[Len(executed) + 1])
    <3>1. k \in 1 .. n /\ k \in 0 .. n
      BY <1>0, <2>1, <2>4
    <3>2. PICK m \in Message : m = sent[k] /\ m = sent'[k]
      BY <1>0, <3>1
    <3>3. f[k] \in Seq(Words)
      BY <1>4, <3>1
    <3>4. Arrives("far", 1, m.body, f[k])
      BY <2>1, <2>4, <3>2
    <3>5. Arrives("far", 1, m.body, Cat(f[k], x))'
      BY <1>5, <3>3, <3>4, ArrivesMore
    <3>6. Arrives("far", 1, m.body, g[k])'
      BY <1>8, <3>1, <3>5
    <3> QED BY <2>1, <3>2, <3>6 DEF Arrives
  <2> QED BY <1>4, <2>3, <2>4
<1>13. OnItsWay(v, g)'
  BY <1>9, <1>10, <1>11, <1>12 DEF OnItsWay, Framed
<1>14. InStream'
  <2>1. v \in 0 .. Len(sent')
    OBVIOUS
  <2> QED BY <1>6, <1>13, <2>1 DEF InStream
<1>15. BodyAsked' /\ HandedOverInOrder'
  BY <1>0 DEF BodyAsked, HandedOverInOrder
<1> QED BY <1>14, <1>15 DEF StreamOK

(* The stream after a write that went nowhere: what was on its way stays.  *)
LEMMA StreamCut ==
  ASSUME StreamOK, SentAsPublished', ~connected', Len(sent) \in Nat, Len(sent') \in Nat,
         Len(sent) <= Len(sent'), DOMAIN sent = 1 .. Len(sent),
         \A k \in DOMAIN sent : k \in DOMAIN sent' /\ sent'[k] = sent[k],
         Kept("far"), UNCHANGED <<config, executed>>, Len(executed) \in Nat
  PROVE  StreamOK'
<1>0. lang' = lang /\ BodyAsked /\ HandedOverInOrder
  BY DEF StreamOK, config
<1>1. PICK w \in 0 .. Len(sent) : \E f \in [0 .. w -> Seq(Words)] : OnItsWay(w, f)
  BY DEF StreamOK, InStream
<1>2. PICK f \in [0 .. w -> Seq(Words)] : OnItsWay(w, f)
  BY <1>1
<1>3. /\ Len(executed) <= w /\ f[w] = <<>> /\ \A k \in 1 .. w : f[k - 1] = Framed(sent[k], f[k])
      /\ \/ flow["far"] = "done"
         \/ Len(executed) = w /\ Quiet("far")
         \/ /\ Len(executed) < w
            /\ Arrives("far", 1, sent[Len(executed) + 1].body, f[Len(executed) + 1])
  BY <1>2 DEF OnItsWay
<1>4. \A k \in 1 .. w : sent'[k] = sent[k]
  <2>1. \A k \in 1 .. w : k \in 1 .. Len(sent)
    BY <1>1
  <2> QED BY <2>1
<1>5. \A k \in 1 .. w : f[k - 1] = Framed(sent'[k], f[k])
  BY <1>3, <1>4
<1>6. Quiet("far") => Quiet("far")'
  BY DEF Quiet, Kept
<1>7. ASSUME Len(executed) < w, Arrives("far", 1, sent[Len(executed) + 1].body, f[Len(executed) + 1])
      PROVE  Arrives("far", 1, sent[Len(executed) + 1].body, f[Len(executed) + 1])'
  <2>1. PICK k \in Nat : k = Len(executed) + 1
    OBVIOUS
  <2>2. k \in 1 .. w
    BY <1>1, <1>7, <2>1
  <2>3. sent'[k] = sent[k]
    BY <1>4, <2>2
  <2>4. Arrives("far", 1, sent[k].body, f[k])
    BY <1>7, <2>1
  <2>5. Arrives("far", 1, sent[k].body, f[k])'
    BY <2>3, <2>4 DEF Arrives, Kept
  <2> QED BY <2>1, <2>5
<1>8. OnItsWay(w, f)'
  <2>1. flow["far"] = "done" => flow'["far"] = "done"
    BY DEF Kept
  <2>2. executed' = executed
    OBVIOUS
  <2>3. \A k \in 1 .. w : f[k - 1] = Framed(sent[k], f[k])'
    BY <1>5 DEF Framed
  <2> QED BY <1>3, <1>6, <1>7, <2>1, <2>2, <2>3 DEF OnItsWay
<1>9. InStream'
  <2>1. w \in 0 .. Len(sent')
    BY <1>1
  <2> QED BY <1>2, <1>8, <2>1 DEF InStream
<1>10. BodyAsked' /\ HandedOverInOrder'
  BY <1>0 DEF BodyAsked, HandedOverInOrder, Kept
<1> QED BY <1>9, <1>10 DEF StreamOK

(* What one publish does to the stream, delivered or not. *)
LEMMA StreamPublish ==
  ASSUME Sound, StreamOK, transport # "udp", NEW lens \in Groups, Publish(lens)
  PROVE  StreamOK'
<1>0. /\ UNCHANGED config /\ UNCHANGED topic /\ UNCHANGED transport /\ pair = "publish"
      /\ UNCHANGED <<section, header, executed>>
      /\ "near" \in Sides /\ "far" \in Sides \ {"near"} /\ <<>> \in Seq(Words)
  BY DEF Publish, config, Sides
<1>1. CASE \E k \in DOMAIN lens : TooLong(lens[k])
  <2>1. UNCHANGED <<net, reader, sent>> /\ (Finish("near") \/ UNCHANGED <<flow, connected>>)
    BY <1>1 DEF Publish
  <2>2. Kept("far")
    <3>1. CASE Finish("near")
      BY <1>0, <2>1, <3>1, FinishKept
    <3>2. CASE UNCHANGED <<flow, connected>>
      <4>1. Still("far")
        BY <1>0, <2>1, <3>2 DEF Still
      <4> QED BY <1>0, <4>1, StillKept
    <3> QED BY <2>1, <3>1, <3>2
  <2> QED BY <1>0, <2>1, <2>2, StreamKept
<1>2. CASE ~\E k \in DOMAIN lens : TooLong(lens[k])
  <2>1. /\ sent' = sent \o Published(lens) /\ Write("near", "far", Group(lens), <<>>)
        /\ Len(sent) + Len(lens) <= MaxSent /\ SentAsPublished
    BY <1>2 DEF Publish, Published, StreamOK
  <2>2. /\ SentAsPublished' /\ Group(lens) \in Seq(Words)
        /\ \A k \in DOMAIN sent : k \in DOMAIN sent' /\ sent'[k] = sent[k]
        /\ sent' \in Seq(Message)
        /\ \/ /\ Len(sent') = Len(sent) + 1
              /\ Group(lens) = Framed(sent'[Len(sent) + 1], <<>>)
           \/ /\ Len(sent') = Len(sent) + 2
              /\ Group(lens) = Framed(sent'[Len(sent) + 1], Framed(sent'[Len(sent) + 2], <<>>))
    BY <1>0, <1>2, <2>1, PublishedGroup
  <2>3. /\ \/ connected /\ connected' /\ Pending("far")' = Cat(Pending("far"), Group(lens))
           \/ ~connected' /\ Pending("far")' = Pending("far")
        /\ flow'["far"] = flow["far"] /\ reader'["far"] = reader["far"]
    BY <1>0, <2>1, <2>2, WriteEffect
  <2>4. PICK n \in Nat : n = Len(sent)
    BY LenProperties DEF Sound, SentOK
  <2>5. PICK v \in Nat : v = Len(sent')
    BY <2>2, LenProperties
  <2>6. n < v
    BY <2>2, <2>4, <2>5
  <2>7. CASE ~connected' /\ Pending("far")' = Pending("far")
    <3>1. Kept("far")
      BY <1>0, <2>3, <2>7 DEF Kept
    <3>2. /\ Len(sent) \in Nat /\ Len(sent') \in Nat /\ Len(sent) <= Len(sent')
          /\ DOMAIN sent = 1 .. Len(sent) /\ Len(executed) \in Nat
      <4>1. DOMAIN sent = 1 .. Len(sent) /\ Len(executed) \in Nat
        BY LenProperties DEF Sound, SentOK, DoneOK
      <4>2. n <= v
        BY <2>6
      <4> QED BY <2>4, <2>5, <4>1, <4>2
    <3> QED BY <1>0, <2>2, <2>7, <3>1, <3>2, StreamCut
  <2>8. ASSUME connected, Pending("far")' = Cat(Pending("far"), Group(lens)),
               NEW tail \in [n .. v -> Seq(Words)], tail[n] = Group(lens), tail[v] = <<>>,
               \A k \in n + 1 .. v : tail[k - 1] = Framed(sent'[k], tail[k])
        PROVE  StreamOK'
    <3>1. Pending("far")' = Cat(Pending("far"), tail[n])
      BY <2>8
    <3>2. /\ section'["far"] = section["far"] /\ header'["far"] = header["far"]
          /\ UNCHANGED <<config, executed>>
      BY <1>0
    <3> QED BY <2>2, <2>3, <2>4, <2>5, <2>6, <2>8, <3>1, <3>2, StreamGrows
  <2>9. CASE /\ connected /\ Pending("far")' = Cat(Pending("far"), Group(lens))
             /\ Len(sent') = Len(sent) + 1
             /\ Group(lens) = Framed(sent'[Len(sent) + 1], <<>>)
    <3>1. v = n + 1 /\ Group(lens) = Framed(sent'[n + 1], <<>>)
      BY <2>4, <2>5, <2>9
    <3> DEFINE tail == [k \in n .. v |-> IF k = n THEN Group(lens) ELSE <<>>]
    <3>2. tail \in [n .. v -> Seq(Words)] /\ tail[n] = Group(lens) /\ tail[v] = <<>>
      BY <1>0, <2>2, <3>1
    <3>3. \A k \in n + 1 .. v : k = n + 1 /\ k - 1 = n
      BY <3>1
    <3> HIDE DEF tail
    <3>4. PICK t \in [n .. v -> Seq(Words)] : t = tail
      BY <3>2
    <3>5. t[n] = Group(lens) /\ t[v] = <<>>
      BY <3>2, <3>4
    <3>6. \A k \in n + 1 .. v : t[k - 1] = Framed(sent'[k], t[k])
      BY <3>1, <3>3, <3>5
    <3> QED BY <2>8, <2>9, <3>5, <3>6
  <2>10. CASE /\ connected /\ Pending("far")' = Cat(Pending("far"), Group(lens))
              /\ Len(sent') = Len(sent) + 2
              /\ Group(lens) = Framed(sent'[Len(sent) + 1], Framed(sent'[Len(sent) + 2], <<>>))
    <3>1. v = n + 2 /\ Group(lens) = Framed(sent'[n + 1], Framed(sent'[n + 2], <<>>))
      BY <2>4, <2>5, <2>10
    <3>2. Framed(sent'[n + 2], <<>>) \in Seq(Words)
      <4>1. n + 2 \in 1 .. Len(sent')
        BY <2>5, <3>1
      <4>2. sent'[n + 2] \in Message
        BY <2>2, <4>1
      <4> QED BY <1>0, <4>2, FramedType
    <3> DEFINE last == Framed(sent'[n + 2], <<>>)
               tail == [k \in n .. v |-> IF k = n THEN Group(lens)
                                         ELSE IF k = n + 1 THEN last ELSE <<>>]
    <3>3. /\ tail \in [n .. v -> Seq(Words)]
          /\ tail[n] = Group(lens) /\ tail[n + 1] = last /\ tail[v] = <<>>
      <4> HIDE DEF last
      <4>1. last \in Seq(Words)
        BY <3>2 DEF last
      <4> QED BY <1>0, <2>2, <3>1, <4>1
    <3>4. \A k \in n + 1 .. v : (k = n + 1 /\ k - 1 = n) \/ (k = n + 2 /\ k - 1 = n + 1)
      BY <3>1
    <3> HIDE DEF tail
    <3>5. PICK t \in [n .. v -> Seq(Words)] : t = tail
      BY <3>3
    <3>6. t[n] = Group(lens) /\ t[n + 1] = last /\ t[v] = <<>>
      BY <3>3, <3>5
    <3>7. \A k \in n + 1 .. v : t[k - 1] = Framed(sent'[k], t[k])
      BY <3>1, <3>4, <3>6
    <3> QED BY <2>8, <2>10, <3>6, <3>7
  <2> QED BY <2>2, <2>3, <2>7, <2>9, <2>10
<1> QED BY <1>1, <1>2

(* Over UDP a datagram is one published message, or the two of a group,    *)
(* and the subscriber reads the next one only after it has used up all of  *)
(* the one before.                                                         *)
Tails == {<<>>} \cup {Framed(sent[j], <<>>) : j \in DOMAIN sent}
Datagrams == UNION {{Framed(sent[k], rest) : rest \in Tails} : k \in DOMAIN sent}

OneOfSent == \A i \in DOMAIN executed : \E k \in DOMAIN sent : executed[i] = sent[k]

InDatagram ==
  \/ flow["far"] \in {"done", "spin"}
  \/ flow["far"] = "read" /\ section["far"] = 0 /\ reader["far"].message = <<>>
  \/ /\ flow["far"] = "round" /\ reader["far"].message = <<>>
     /\ \E k \in DOMAIN sent : \E rest \in Tails : Arrives("far", 1, sent[k].body, rest)

UdpOK ==
  SentAsPublished /\ BodyAsked /\ OneOfSent /\ InDatagram /\ net["far"] \in Seq(Datagrams)

(* Datagrams are words. *)
LEMMA DatagramsType ==
  ASSUME sent \in Seq(Message)
  PROVE  Tails \subseteq Seq(Words) /\ Datagrams \subseteq Seq(Words) /\ <<>> \in Tails
<1>1. <<>> \in Seq(Words) /\ \A k \in DOMAIN sent : sent[k] \in Message
  OBVIOUS
<1>2. \A j \in DOMAIN sent : Framed(sent[j], <<>>) \in Seq(Words)
  BY <1>1, FramedType
<1>3. Tails \subseteq Seq(Words)
  BY <1>1, <1>2 DEF Tails
<1>4. \A k \in DOMAIN sent : \A rest \in Tails : Framed(sent[k], rest) \in Seq(Words)
  BY <1>1, <1>3, FramedType
<1> QED BY <1>3, <1>4 DEF Tails, Datagrams

(* What was a datagram stays one when more is published. *)
LEMMA DatagramsGrow ==
  ASSUME \A k \in DOMAIN sent : k \in DOMAIN sent' /\ sent'[k] = sent[k]
  PROVE  Tails \subseteq Tails' /\ Datagrams \subseteq Datagrams'
<1>1. Tails \subseteq Tails'
  BY DEF Tails, Framed
<1>2. ASSUME NEW d \in Datagrams PROVE d \in Datagrams'
  <2>1. PICK k \in DOMAIN sent : \E rest \in Tails : d = Framed(sent[k], rest)
    BY DEF Datagrams
  <2>2. PICK rest \in Tails : d = Framed(sent[k], rest)
    BY <2>1
  <2>3. k \in DOMAIN sent' /\ rest \in Tails' /\ d = Framed(sent'[k], rest)
    BY <1>1, <2>2
  <2> QED BY <2>3 DEF Datagrams, Framed
<1> QED BY <1>1, <1>2

(* A step that leaves the subscriber alone. *)
LEMMA UdpElsewhere ==
  ASSUME UdpOK, SentAsPublished', transport = "udp", UNCHANGED <<config, executed>>,
         \A k \in DOMAIN sent : k \in DOMAIN sent' /\ sent'[k] = sent[k],
         flow'["far"] = flow["far"], reader'["far"] = reader["far"],
         section'["far"] = section["far"], header'["far"] = header["far"],
         net'["far"] \in Seq(Datagrams)'
  PROVE  UdpOK'
<1>0. lang' = lang /\ transport' = "udp" /\ Tails \subseteq Tails'
  BY DatagramsGrow DEF config
<1>1. BodyAsked' /\ OneOfSent'
  <2>1. BodyAsked /\ OneOfSent
    BY DEF UdpOK
  <2>2. OneOfSent'
    BY <2>1 DEF OneOfSent
  <2> QED BY <1>0, <2>1, <2>2 DEF BodyAsked
<1>2. Pending("far")' = Pending("far")
  BY <1>0 DEF Pending, Behind
<1>3. InDatagram
  BY DEF UdpOK
<1>4. ASSUME NEW k \in DOMAIN sent, NEW rest \in Tails, Arrives("far", 1, sent[k].body, rest)
      PROVE  k \in DOMAIN sent' /\ rest \in Tails' /\ Arrives("far", 1, sent[k].body, rest)'
  BY <1>0, <1>2, <1>4 DEF Arrives
<1>5. InDatagram'
  <2>1. CASE flow["far"] \in {"done", "spin"}
    BY <2>1 DEF InDatagram
  <2>2. CASE flow["far"] = "read" /\ section["far"] = 0 /\ reader["far"].message = <<>>
    BY <2>2 DEF InDatagram
  <2>3. CASE /\ flow["far"] = "round" /\ reader["far"].message = <<>>
             /\ \E k \in DOMAIN sent : \E rest \in Tails : Arrives("far", 1, sent[k].body, rest)
    BY <1>4, <2>3 DEF InDatagram
  <2> QED BY <1>3, <2>1, <2>2, <2>3 DEF InDatagram
<1> QED BY <1>1, <1>5 DEF UdpOK

(* recvfrom gives one whole datagram, and the subscriber is at a header. *)
LEMMA UdpRead ==
  ASSUME Sound, UdpOK, transport = "udp", NEW s \in Sides, Read(s)
  PROVE  UdpOK'
<1>0. /\ UNCHANGED config /\ UNCHANGED <<section, header, sent, executed>>
      /\ flow[s] = "read" /\ flow' = [flow EXCEPT ![s] = "round"]
      /\ lang' = lang /\ transport' = "udp"
      /\ sent \in Seq(Message) /\ "far" \in Sides
  BY DEF Read, config, history, Sound, SentOK, Sides
<1>1. SentAsPublished /\ BodyAsked /\ OneOfSent /\ InDatagram /\ net["far"] \in Seq(Datagrams)
  BY DEF UdpOK
<1>2. SentAsPublished' /\ OneOfSent' /\ Datagrams' = Datagrams /\ Tails' = Tails
  BY <1>0, <1>1 DEF SentAsPublished, OneOfSent, Datagrams, Tails, Framed, config
<1>3. net[s] \in Seq(Seq(Words))
  BY DEF Sound, NetOK
<1>4. PICK i \in DOMAIN net[s] :
        reader' = [reader EXCEPT ![s].buffered = net[s][i]]
        /\ net' = [net EXCEPT ![s] = RemoveAt(@, i)]
  BY DEF Read
<1>5. i \in 1 .. Len(net[s])
  BY <1>3, <1>4
<1>6. reader'[s].buffered = net[s][i] /\ reader'[s].message = reader[s].message
      /\ \A t \in Sides \ {s} : reader'[t] = reader[t]
  BY <1>4 DEF Sound, ReaderOK, Reader
<1>7. net'[s] = RemoveAt(net[s], i) /\ \A t \in Sides \ {s} : net'[t] = net[t]
  BY <1>4 DEF Sound, NetOK
<1>8. flow'[s] = "round" /\ \A t \in Sides \ {s} : flow'[t] = flow[t]
  BY <1>0 DEF Sound, FlowOK
<1>9. CASE s = "near"
  <2>1. "far" \in Sides \ {s}
    BY <1>9 DEF Sides
  <2>2. net'["far"] \in Seq(Datagrams)'
    BY <1>1, <1>2, <1>7, <2>1
  <2> QED BY <1>0, <1>2, <1>6, <1>8, <2>1, <2>2, UdpElsewhere
<1>10. CASE s = "far"
  <2>1. net'["far"] \in Seq(Datagrams) /\ net["far"][i] \in Datagrams
    <3>1. i \in 1 .. Len(net["far"])
      BY <1>5, <1>10
    <3> QED BY <1>1, <1>7, <1>10, <3>1, RemoveType, ElementOfSeq
  <2>2. PICK k \in DOMAIN sent : \E rest \in Tails : net["far"][i] = Framed(sent[k], rest)
    BY <2>1 DEF Datagrams
  <2>3. PICK rest \in Tails : net["far"][i] = Framed(sent[k], rest)
    BY <2>2
  <2>4. section["far"] = 0 /\ reader["far"].message = <<>>
    BY <1>0, <1>1, <1>10 DEF InDatagram
  <2>5. Framed(sent[k], rest) \in Seq(Words) /\ <<>> \in Seq(Words)
    <3>1. sent[k] \in Message /\ rest \in Seq(Words)
      BY <1>0, DatagramsType
    <3> QED BY <3>1, FramedType
  <2>6. Pending("far")' = Framed(sent[k], rest)
    <3>1. Pending("far")' = Cat(Cat(<<>>, Framed(sent[k], rest)), <<>>)
      BY <1>0, <1>6, <1>10, <2>3, <2>4 DEF Pending, Behind
    <3> QED BY <2>5, <3>1, CatEmpty
  <2>7. sent[k].id = 1
    BY <1>1 DEF SentAsPublished
  <2>8. Arrives("far", 1, sent[k].body, rest)'
    BY <1>0, <2>4, <2>6, <2>7 DEF Arrives, Framed
  <2>9. InDatagram'
    BY <1>0, <1>2, <1>6, <1>8, <1>10, <2>4, <2>8 DEF InDatagram
  <2>10. BodyAsked'
    BY <1>0, <2>4 DEF BodyAsked
  <2> QED BY <1>2, <2>1, <2>9, <2>10 DEF UdpOK
<1> QED BY <1>9, <1>10 DEF Sides

(* A subscriber that has some of a datagram left can parse. *)
LEMMA UdpComplete ==
  ASSUME Sound, UdpOK, transport = "udp", flow["far"] = "round"
  PROVE  Complete("far")
<1> DEFINE b == reader["far"].buffered
           len == reader["far"].length
<1>1. /\ reader["far"].message = <<>>
      /\ \E k \in DOMAIN sent : \E rest \in Tails : Arrives("far", 1, sent[k].body, rest)
  BY DEF UdpOK, InDatagram
<1>2. PICK k \in DOMAIN sent : \E rest \in Tails : Arrives("far", 1, sent[k].body, rest)
  BY <1>1
<1>3. PICK rest \in Tails : Arrives("far", 1, sent[k].body, rest)
  BY <1>2
<1>4. PICK m \in Message : m = sent[k]
  BY DEF Sound, SentOK
<1>5. m.body \in Seq(Words) /\ Len(m.body) \in Nat /\ rest \in Seq(Words) /\ Len(rest) \in Nat
  <2>1. m.body \in Seq(Words) /\ rest \in Seq(Words)
    BY DatagramsType DEF Message, Sound, SentOK
  <2> QED BY <2>1, LenProperties
<1>6. Len(m.body) <= Base
  BY <1>4 DEF UdpOK, SentAsPublished
<1>7. "far" \in Sides /\ b \in Seq(Words) /\ Len(b) \in Nat /\ len \in Nat /\ <<>> \in Seq(Words)
      /\ section["far"] \in {0, 1}
  <2>1. "far" \in Sides
    BY DEF Sides
  <2> QED BY <2>1, BehindType, LenProperties
<1>8. Pending("far") = b
  <2>1. Pending("far") = Cat(Cat(<<>>, b), <<>>)
    BY <1>1 DEF Pending, Behind
  <2> HIDE DEF b
  <2> QED BY <1>7, <2>1, CatEmpty
<1> HIDE DEF b, len
<1>9. Len(Cat(m.body, rest)) = Len(m.body) + Len(rest) /\ Cat(m.body, rest) \in Seq(Words)
  BY <1>5, CatType
<1>10. len <= Len(b)
  <2>1. CASE section["far"] = 0 /\ Pending("far") = Cat(Header(1, Len(m.body)), Cat(m.body, rest))
    <3>1. len = 2
      BY <1>7, <2>1 DEF Sound, SideOK, len
    <3>2. Header(1, Len(m.body)) \in Seq(Words) /\ Len(Header(1, Len(m.body))) = 2
      BY <1>5, HeaderType
    <3>3. Len(b) = 2 + (Len(m.body) + Len(rest))
      <4>1. Len(Cat(Header(1, Len(m.body)), Cat(m.body, rest)))
              = Len(Header(1, Len(m.body))) + Len(Cat(m.body, rest))
        BY <1>9, <3>2, CatType
      <4> QED BY <1>8, <1>9, <2>1, <3>2, <4>1
    <3> QED BY <1>5, <3>1, <3>3
  <2>2. CASE /\ section["far"] = 1 /\ <<len, header["far"]>> = Header(1, Len(m.body))
             /\ Pending("far") = Cat(m.body, rest)
    <3>1. Len(b) = Len(m.body) + Len(rest)
      BY <1>8, <1>9, <2>2
    <3>2. len = Header(1, Len(m.body))[1]
      BY <2>2
    <3>3. Base \in Nat /\ Base > 2 /\ 1 < Ids
      BY EXAssumption
    <3>4. CASE Len(m.body) < Base
      <4>1. Header(1, Len(m.body)) = <<Len(m.body), 1>>
        BY <1>5, <3>3, <3>4, HeaderParts
      <4> QED BY <1>5, <3>1, <3>2, <4>1
    <3>5. CASE Len(m.body) = Base
      BY <1>7, <3>2, <3>5, HeaderAtLimit
    <3> QED BY <1>5, <1>6, <3>3, <3>4, <3>5
  <2> QED BY <1>3, <1>4, <2>1, <2>2 DEF Arrives, len
<1>11. Taken("far") = len
  <2>1. Len(<<>>) = 0
    OBVIOUS
  <2>2. Taken("far") = Min({Len(b), len - 0})
    BY <1>1, <1>7, <2>1 DEF Taken, b, len
  <2> QED BY <1>7, <1>10, <2>2, MinOfTwo
<1>12. Len(Gathered("far")) = len
  <2>1. Len(Gathered("far")) = Len(reader["far"].message) + Taken("far")
    BY <1>7, TakenPrefix DEF Sound
  <2> QED BY <1>1, <1>7, <1>11, <2>1
<1> QED BY <1>12 DEF Complete, len

(* A subscriber parses a datagram message by message. *)
LEMMA UdpParsed ==
  ASSUME Sound, UdpOK, transport = "udp", ParsePublished
  PROVE  UdpOK'
<1>0. /\ Complete("far") /\ "far" \in Sides /\ flow["far"] = "round"
      /\ sent \in Seq(Message) /\ executed \in Seq(Message) /\ <<>> \in Seq(Words)
      /\ SentAsPublished /\ BodyAsked /\ OneOfSent /\ InDatagram /\ net["far"] \in Seq(Datagrams)
  BY DEF ParsePublished, Complete, Sides, Sound, SentOK, DoneOK, UdpOK
<1>1. PICK k \in DOMAIN sent : \E rest \in Tails : Arrives("far", 1, sent[k].body, rest)
  BY <1>0 DEF InDatagram
<1>2. PICK rest \in Tails : Arrives("far", 1, sent[k].body, rest)
  BY <1>1
<1>3. rest \in Seq(Words) /\ sent[k] \in Message
  BY <1>0, DatagramsType
<1>4. /\ UNCHANGED <<config, net, sent>>
      /\ Ended \/ Asked(sent[k], rest) \/ HandedOver(sent[k], rest)
  BY <1>0, <1>2, <1>3, ParsedMessage
<1>5. /\ lang' = lang /\ transport' = "udp" /\ SentAsPublished'
      /\ Tails' = Tails /\ net'["far"] \in Seq(Datagrams)'
  BY <1>0, <1>4 DEF SentAsPublished, Datagrams, Tails, Framed, config
<1>6. Rest("far") \in Seq(Words)
  BY <1>0, ParsedWords
<1>7. ASSUME reader'["far"].message = <<>>, reader'["far"].buffered = Rest("far")
      PROVE  Pending("far")' = Rest("far")
  <2>1. Pending("far")' = Cat(Cat(<<>>, Rest("far")), <<>>)
    BY <1>5, <1>7 DEF Pending, Behind
  <2> QED BY <1>0, <1>6, <2>1, CatEmpty
<1>8. CASE Ended
  <2>1. BodyAsked' /\ OneOfSent' /\ InDatagram'
    BY <1>0, <1>4, <1>8 DEF Ended, BodyAsked, OneOfSent, InDatagram
  <2> QED BY <1>5, <2>1 DEF UdpOK
<1>9. CASE Asked(sent[k], rest)
  <2>1. BodyAsked' /\ OneOfSent'
    BY <1>0, <1>4, <1>5, <1>9 DEF Asked, BodyAsked, OneOfSent
  <2>2. Arrives("far", 1, sent[k].body, rest)'
    BY <1>4, <1>9 DEF Arrives, Asked
  <2>3. reader'["far"].message = <<>> /\ reader'["far"].buffered = Rest("far")
        /\ flow'["far"] = IF Rest("far") # <<>> THEN "round"
                          ELSE IF reader'["far"].length > 0 THEN "read" ELSE "spin"
    BY <1>9 DEF Asked
  <2>4. CASE Rest("far") # <<>>
    BY <1>2, <1>4, <1>5, <2>2, <2>3, <2>4, <2>1 DEF UdpOK, InDatagram
  <2>5. CASE Rest("far") = <<>>
    <3>1. Cat(sent[k].body, rest) = <<>>
      BY <1>7, <1>9, <2>3, <2>5 DEF Asked
    <3>2. sent[k].body = <<>>
      BY <1>3, <3>1, CatIsEmpty DEF Message
    <3>3. Header(1, Len(sent[k].body)) = <<0, 1>>
      <4>1. 1 < Ids /\ 0 < Base
        BY EXAssumption
      <4> QED BY <3>2, <4>1, HeaderParts
    <3>4. reader'["far"].length = 0
      BY <1>9, <3>3 DEF Asked
    <3>5. flow'["far"] = "spin"
      BY <2>3, <2>5, <3>4
    <3> QED BY <1>5, <2>1, <3>5 DEF UdpOK, InDatagram
  <2> QED BY <2>4, <2>5
<1>10. CASE HandedOver(sent[k], rest)
  <2>1. /\ section'["far"] = 0 /\ Pending("far")' = rest /\ executed' = Append(executed, sent[k])
        /\ reader'["far"].message = <<>> /\ reader'["far"].buffered = Rest("far")
        /\ flow'["far"] = IF Rest("far") # <<>> THEN "round" ELSE "read"
    BY <1>10 DEF HandedOver
  <2>2. BodyAsked'
    BY <2>1 DEF BodyAsked
  <2>3. OneOfSent'
    <3>1. \A i \in DOMAIN executed' :
            executed'[i] = sent[k] \/ (i \in DOMAIN executed /\ executed'[i] = executed[i])
      BY <1>0, <1>3, <2>1
    <3> QED BY <1>0, <1>4, <3>1 DEF OneOfSent
  <2>4. InDatagram'
    <3>1. CASE Rest("far") = <<>>
      BY <2>1, <3>1 DEF InDatagram
    <3>2. CASE Rest("far") # <<>>
      <4>1. rest # <<>>
        BY <1>7, <2>1, <3>2
      <4>2. PICK j \in DOMAIN sent : rest = Framed(sent[j], <<>>)
        BY <4>1 DEF Tails
      <4>3. sent[j].id = 1
        BY <1>0 DEF SentAsPublished
      <4>4. Arrives("far", 1, sent[j].body, <<>>)'
        BY <1>4, <2>1, <4>2, <4>3 DEF Arrives, Framed
      <4>5. <<>> \in Tails'
        BY DEF Tails
      <4> QED BY <1>4, <2>1, <3>2, <4>4, <4>5 DEF InDatagram
    <3> QED BY <3>1, <3>2
  <2> QED BY <1>5, <2>2, <2>3, <2>4 DEF UdpOK
<1> QED BY <1>4, <1>8, <1>9, <1>10

(* Publishing to a datagram socket. *)
LEMMA UdpPublish ==
  ASSUME Sound, UdpOK, transport = "udp", NEW lens \in Groups, Publish(lens)
  PROVE  UdpOK'
<1>0. /\ UNCHANGED <<config, topic, section, header, executed>> /\ pair = "publish"
      /\ "near" \in Sides /\ "far" \in Sides \ {"near"} /\ <<>> \in Seq(Words)
      /\ SentAsPublished /\ net["far"] \in Seq(Datagrams) /\ sent \in Seq(Message)
  BY DEF Publish, config, Sides, UdpOK, Sound, SentOK
<1>1. CASE \E k \in DOMAIN lens : TooLong(lens[k])
  <2>1. UNCHANGED <<net, reader, sent>> /\ (Finish("near") \/ UNCHANGED <<flow, connected>>)
    BY <1>1 DEF Publish
  <2>2. flow'["far"] = flow["far"]
    BY <1>0, <2>1 DEF Finish, Sound, FlowOK
  <2>3. SentAsPublished' /\ net'["far"] \in Seq(Datagrams)'
    BY <1>0, <2>1 DEF SentAsPublished, Datagrams, Tails, Framed
  <2> QED BY <1>0, <2>1, <2>2, <2>3, UdpElsewhere
<1>2. CASE ~\E k \in DOMAIN lens : TooLong(lens[k])
  <2>1. /\ sent' = sent \o Published(lens) /\ Write("near", "far", Group(lens), <<>>)
        /\ Len(sent) + Len(lens) <= MaxSent
    BY <1>2 DEF Publish, Published
  <2>2. /\ SentAsPublished' /\ Group(lens) \in Seq(Words)
        /\ \A k \in DOMAIN sent : k \in DOMAIN sent' /\ sent'[k] = sent[k]
        /\ sent' \in Seq(Message)
        /\ \/ /\ Len(sent') = Len(sent) + 1
              /\ Group(lens) = Framed(sent'[Len(sent) + 1], <<>>)
           \/ /\ Len(sent') = Len(sent) + 2
              /\ Group(lens) = Framed(sent'[Len(sent) + 1], Framed(sent'[Len(sent) + 2], <<>>))
    BY <1>0, <1>2, <2>1, PublishedGroup
  <2>3. Group(lens) \in Datagrams'
    <3>1. PICK n \in Nat : n = Len(sent)
      BY <1>0, LenProperties
    <3>2. <<>> \in Tails'
      BY DEF Tails
    <3>3. CASE Len(sent') = Len(sent) + 1 /\ Group(lens) = Framed(sent'[Len(sent) + 1], <<>>)
      <4>1. n + 1 \in DOMAIN sent' /\ Group(lens) = Framed(sent'[n + 1], <<>>)
        BY <2>2, <3>1, <3>3
      <4> QED BY <3>2, <4>1 DEF Datagrams, Framed
    <3>4. CASE /\ Len(sent') = Len(sent) + 2
               /\ Group(lens) = Framed(sent'[Len(sent) + 1], Framed(sent'[Len(sent) + 2], <<>>))
      <4>1. n + 1 \in DOMAIN sent' /\ n + 2 \in DOMAIN sent'
            /\ Group(lens) = Framed(sent'[n + 1], Framed(sent'[n + 2], <<>>))
        BY <2>2, <3>1, <3>4
      <4>2. Framed(sent'[n + 2], <<>>) \in Tails'
        BY <4>1 DEF Tails, Framed
      <4> QED BY <4>1, <4>2 DEF Datagrams, Framed
    <3> QED BY <2>2, <3>3, <3>4
  <2>4. net["far"] \in Seq(Datagrams')
    BY <1>0, <2>2, DatagramsGrow, SeqMonotonic
  <2>5. /\ UNCHANGED net \/ net' = [net EXCEPT !["far"] = Append(@, Group(lens))]
        /\ (Finish("near") /\ UNCHANGED reader) \/ Resume("near", <<>>, 2)
    BY <2>1 DEF Write, Deliver
  <2>6. net'["far"] \in Seq(Datagrams')
    <3>1. net' = net \/ net'["far"] = Append(net["far"], Group(lens))
      BY <1>0, <2>5 DEF Sound, NetOK
    <3> QED BY <2>3, <2>4, <3>1, AppendProperties
  <2>7. flow'["far"] = flow["far"] /\ reader'["far"] = reader["far"]
    <3>1. CASE Finish("near") /\ UNCHANGED reader
      BY <1>0, <3>1 DEF Finish, Sound, FlowOK
    <3>2. CASE Resume("near", <<>>, 2)
      <4>1. 2 \in Words
        BY EXAssumption DEF Words
      <4>2. FlowOK /\ ReaderOK
        BY DEF Sound
      <4> QED BY <1>0, <3>2, <4>1, <4>2, ResumeTypes
    <3> QED BY <2>5, <3>1, <3>2
  <2> QED BY <1>0, <2>2, <2>6, <2>7, UdpElsewhere
<1> QED BY <1>1, <1>2

(* A datagram is lost or doubled, or a side leaves. *)
LEMMA UdpNetwork ==
  ASSUME Sound, UdpOK, transport = "udp", Disconnect \/ LoseDatagram \/ DoubleDatagram
  PROVE  UdpOK'
<1>1. /\ UNCHANGED <<config, flow, reader, section, header, sent, executed>>
      /\ SentAsPublished /\ net["far"] \in Seq(Datagrams) /\ "far" \in Sides
  BY DEF Disconnect, LoseDatagram, DoubleDatagram, history, UdpOK, Sides
<1>2. SentAsPublished' /\ Datagrams' = Datagrams
  BY <1>1 DEF SentAsPublished, Datagrams, Tails, Framed, config
<1>3. \/ UNCHANGED net
      \/ \E i \in DOMAIN net["far"] : net' = [net EXCEPT !["far"] = RemoveAt(@, i)]
      \/ \E i \in DOMAIN net["far"] : net' = [net EXCEPT !["far"] = Append(@, @[i])]
  BY DEF Disconnect, LoseDatagram, DoubleDatagram
<1>4. ASSUME NEW i \in DOMAIN net["far"],
             \/ net' = [net EXCEPT !["far"] = RemoveAt(@, i)]
             \/ net' = [net EXCEPT !["far"] = Append(@, @[i])]
      PROVE  net'["far"] \in Seq(Datagrams)
  <2>1. i \in 1 .. Len(net["far"])
    BY <1>1
  <2>2. net'["far"] = RemoveAt(net["far"], i) \/ net'["far"] = Append(net["far"], net["far"][i])
    BY <1>1, <1>4 DEF Sound, NetOK
  <2>3. net["far"][i] \in Datagrams
    BY <1>1, <2>1, ElementOfSeq
  <2>4. RemoveAt(net["far"], i) \in Seq(Datagrams)
    BY <1>1, <2>1, RemoveType
  <2>5. Append(net["far"], net["far"][i]) \in Seq(Datagrams)
    BY <1>1, <2>3, AppendProperties
  <2> QED BY <2>2, <2>4, <2>5
<1>5. net'["far"] \in Seq(Datagrams)'
  BY <1>1, <1>2, <1>3, <1>4
<1> QED BY <1>1, <1>2, <1>5, UdpElsewhere

-----------------------------------------------------------------------------
PublishInv == pair = "publish" => IF transport = "udp" THEN UdpOK ELSE StreamOK

(* The invariant of publishing holds at the start ... *)
LEMMA InitPublish == Init => PublishInv
<1> SUFFICES ASSUME Init PROVE UdpOK /\ StreamOK
  BY DEF PublishInv
<1>1. /\ sent = <<>> /\ executed = <<>> /\ Len(<<>>) = 0 /\ DOMAIN <<>> = {} /\ "far" \in Sides
      /\ section["far"] = 0 /\ flow["far"] = "read" /\ net["far"] = <<>>
      /\ reader["far"].message = <<>> /\ reader["far"].buffered = <<>>
  BY DEF Init, Sides
<1>2. SentAsPublished /\ BodyAsked /\ OneOfSent /\ HandedOverInOrder /\ InDatagram
  BY <1>1 DEF SentAsPublished, BodyAsked, OneOfSent, HandedOverInOrder, InDatagram
<1>3. net["far"] \in Seq(Datagrams)
  BY <1>1
<1>4. InStream
  <2>1. Quiet("far")
    <3>1. <<>> \in Seq(Words) /\ Behind("far") = <<>>
      BY <1>1 DEF Behind
    <3>2. Cat(Cat(<<>>, <<>>), <<>>) = <<>>
      BY <3>1, CatEmpty
    <3> QED BY <1>1, <3>1, <3>2 DEF Quiet, Pending
  <2> DEFINE f == [k \in 0 .. 0 |-> <<>>]
  <2>2. f \in [0 .. 0 -> Seq(Words)] /\ f[0] = <<>>
    OBVIOUS
  <2> HIDE DEF f
  <2>3. Len(executed) <= 0 /\ Len(executed) = 0 /\ Len(sent) = 0 /\ \A k \in 1 .. 0 : FALSE
    BY <1>1
  <2>4. OnItsWay(0, f)
    BY <2>1, <2>2, <2>3 DEF OnItsWay
  <2>5. 0 \in 0 .. Len(sent)
    BY <2>3
  <2> QED BY <2>2, <2>4, <2>5 DEF InStream
<1> QED BY <1>2, <1>3, <1>4 DEF UdpOK, StreamOK

(* ... every step keeps it over a stream ... *)
LEMMA NextStream ==
  ASSUME Sound, StreamOK, pair = "publish", transport # "udp", [Next]_vars
  PROVE  StreamOK'
<1>1. CASE UNCHANGED vars
  <2>1. "far" \in Sides /\ Still("far")
    BY <1>1 DEF Still, vars, config, Sides
  <2> QED BY <1>1, <2>1, StillKept, StreamKept DEF vars, history
<1>2. ASSUME NEW lens \in Groups, Publish(lens) PROVE StreamOK'
  BY <1>2, StreamPublish
<1>3. ASSUME NEW s \in Sides, Read(s) \/ Gather(s) PROVE StreamOK'
  <2>1. Kept("far")
    BY <1>3, ReadKept, GatherKept DEF Sides
  <2> QED BY <1>3, <2>1, StreamKept DEF Read, Gather, history
<1>4. ASSUME NEW s \in Sides, ReadFails(s) PROVE StreamOK'
  <2>1. Finish(s) /\ UNCHANGED <<config, transport, net, reader, section, header, sent, executed>>
    BY <1>4 DEF ReadFails, config, history
  <2>2. Kept("far")
    BY <2>1, FinishKept DEF Sides
  <2> QED BY <2>1, <2>2, StreamKept
<1>5. CASE Disconnect
  <2>1. "far" \in Sides /\ Still("far")
    BY <1>5 DEF Still, Disconnect, config, Sides
  <2> QED BY <1>5, <2>1, StillKept, StreamKept DEF Disconnect, history
<1>6. CASE ParsePublished
  BY <1>6, StreamParsed
<1>7. /\ ~ParseReply /\ ~ParseRequest /\ ~LoseDatagram /\ ~DoubleDatagram
      /\ \A p \in Procedures : \A len \in ArgLens[p] : ~Call(p, len)
  BY DEF ParseReply, ParseRequest, LoseDatagram, DoubleDatagram, Call
<1> QED BY <1>1, <1>2, <1>3, <1>4, <1>5, <1>6, <1>7 DEF Next, DataFlow

(* ... and over UDP ... *)
LEMMA NextUdp ==
  ASSUME Sound, UdpOK, pair = "publish", transport = "udp", [Next]_vars
  PROVE  UdpOK'
<1>0. SentAsPublished /\ net["far"] \in Seq(Datagrams) /\ "near" \in Sides /\ "far" \in Sides
  BY DEF UdpOK, Sides
<1>1. CASE UNCHANGED vars
  <2>1. UNCHANGED <<config, topic, net, flow, reader, section, header, sent, executed>>
    BY <1>1 DEF vars, config, history
  <2>2. SentAsPublished' /\ net'["far"] \in Seq(Datagrams)'
    BY <1>0, <2>1 DEF SentAsPublished, Datagrams, Tails, Framed
  <2> QED BY <2>1, <2>2, UdpElsewhere
<1>2. ASSUME NEW lens \in Groups, Publish(lens) PROVE UdpOK'
  BY <1>2, UdpPublish
<1>3. ASSUME NEW s \in Sides, Read(s) PROVE UdpOK'
  BY <1>3, UdpRead
<1>4. ~Gather("far")
  BY UdpComplete DEF Gather
<1>5. CASE Gather("near")
  <2>1. /\ UNCHANGED <<config, topic, net, section, header, sent, executed>>
        /\ reader' = [reader EXCEPT !["near"].message = Gathered("near"),
                                    !["near"].buffered = Rest("near")]
        /\ flow' = [flow EXCEPT !["near"] = IF Rest("near") = <<>> THEN "read" ELSE "round"]
    BY <1>5 DEF Gather, history, config
  <2>2. reader'["far"] = reader["far"] /\ flow'["far"] = flow["far"]
    BY <1>0, <2>1 DEF Sound, ReaderOK, FlowOK
  <2>3. SentAsPublished' /\ net'["far"] \in Seq(Datagrams)'
    BY <1>0, <2>1 DEF SentAsPublished, Datagrams, Tails, Framed
  <2> QED BY <2>1, <2>2, <2>3, UdpElsewhere
<1>6. CASE Disconnect \/ LoseDatagram \/ DoubleDatagram
  BY <1>6, UdpNetwork
<1>7. CASE ParsePublished
  BY <1>7, UdpParsed
<1>8. /\ ~ParseReply /\ ~ParseRequest /\ \A s \in Sides : ~ReadFails(s)
      /\ \A p \in Procedures : \A len \in ArgLens[p] : ~Call(p, len)
  BY DEF ParseReply, ParseRequest, ReadFails, Call
<1> QED BY <1>1, <1>2, <1>3, <1>4, <1>5, <1>6, <1>7, <1>8 DEF Next, DataFlow, Sides

(* ... and no step changes from one to the other. *)
LEMMA NextPublish ==
  ASSUME Sound, PublishInv, [Next]_vars
  PROVE  PublishInv'
<1>1. UNCHANGED <<pair, transport>>
  BY DEF Next, vars, config, Call, Publish, DataFlow, Read, ReadFails, Gather, ParseReply,
         ParseRequest, ParsePublished, Disconnect, LoseDatagram, DoubleDatagram
<1> QED BY <1>1, NextStream, NextUdp DEF PublishInv

(* A subscriber stays in step: over a stream its callbacks are the first    *)
(* messages published, over UDP each is a message published and it reads the*)
(* next datagram only where a message starts (parseMessage of               *)
(* dataSubscriber.h, ParseMessage of datasubscriber.go, udpSocket.h:154).   *)
THEOREM SubscriberInStepCorrect == Spec => []SubscriberInStep
<1>1. Sound /\ PublishInv /\ [Next]_vars => (Sound /\ PublishInv)'
  BY NextSound, NextPublish
<1>2. Sound /\ PublishInv => SubscriberInStep
  <2> SUFFICES ASSUME Sound, PublishInv, pair = "publish"
               PROVE  IF transport # "udp" THEN IsPrefix(executed, sent)
                      ELSE /\ \A i \in DOMAIN executed : \E k \in DOMAIN sent : executed[i] = sent[k]
                           /\ flow["far"] = "read"
                                => section["far"] = 0 /\ reader["far"].message = <<>>
    BY DEF SubscriberInStep
  <2>1. CASE transport = "udp"
    BY <2>1 DEF PublishInv, UdpOK, OneOfSent, InDatagram
  <2>2. CASE transport # "udp"
    <3>1. /\ executed \in Seq(Message) /\ sent \in Seq(Message)
          /\ \A k \in DOMAIN executed : k \in DOMAIN sent /\ executed[k] = sent[k]
      BY <2>2 DEF Sound, SentOK, DoneOK, PublishInv, StreamOK, HandedOverInOrder
    <3>2. Len(executed) <= Len(sent)
      <4>1. Len(executed) = 0 \/ Len(executed) \in DOMAIN executed
        BY <3>1, LenProperties
      <4>2. Len(executed) = 0 \/ Len(executed) \in 1 .. Len(sent)
        BY <3>1, <4>1, LenProperties
      <4> QED BY <3>1, <4>2, LenProperties
    <3>3. SubSeq(executed, 1, Len(executed)) = SubSeq(sent, 1, Len(executed))
      BY <3>1, <3>2, LenProperties
    <3> QED BY <2>2, <3>2, <3>3 DEF IsPrefix
  <2> QED BY <2>1, <2>2
<1> QED BY InitSound, InitPublish, <1>1, <1>2, PTL DEF Spec

=============================================================================
