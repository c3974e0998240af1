------------------------ MODULE MessageManagerProofs ------------------------
(***************************************************************************)
(* Safety of MessageManager for every stream length, every set of lengths, *)
(* every buffer size and both kinds of parsers of the library.  The        *)
(* inductive invariant is TypeOK /\ Framing: the counters agree with each  *)
(* other, and the part of message that is filled holds exactly the bytes   *)
(* that follow the cursor.  The same for GoMessageManager, with the same   *)
(* constants and, where they mean the same, the same variables.            *)
(***************************************************************************)
EXTENDS MessageManager, TLAPS

(* The library's own parsers: none of them mixes positive lengths with 0. *)
LibraryRoles == Roles \subseteq {"receiver", "sender"}

(* What one round of the inner loop copies is never more than what was     *)
(* read, nor more than what is missing.                                    *)
LEMMA TransferredBounds ==
  ASSUME TypeOK
  PROVE  /\ TransferredBytes \in Nat
         /\ TransferredBytes <= bytesRead - bytesParsed
         /\ TransferredBytes <= messageMissingBytes
         /\ \/ TransferredBytes = bytesRead - bytesParsed
            \/ TransferredBytes = messageMissingBytes
BY DEF TypeOK, TransferredBytes

(* Every length is a natural number. *)
LEMMA ParserLensType ==
  ASSUME TypeOK
  PROVE  \A len \in ParserLens : len \in Nat /\ len \in Lens \cup {0}
BY MMAssumption DEF TypeOK, ParserLens

LEMMA LengthType ==
  ASSUME TypeOK
  PROVE  messageLength \in Nat
BY MMAssumption DEF TypeOK

(* Resizing keeps the type of message. *)
LEMMA ResizeType ==
  ASSUME TypeOK, NEW len \in Nat, ResizeMessage(len)
  PROVE  messageSize' \in Nat /\ message' \in [0 .. messageSize' - 1 -> Int]
BY SMTT(30) DEF TypeOK, ResizeMessage, NoByte

-----------------------------------------------------------------------------
(* Type correctness, for every parser. *)
THEOREM TypeCorrect == Spec => []TypeOK
<1>1. Init => TypeOK
  <2> SUFFICES ASSUME Init PROVE TypeOK
    OBVIOUS
  <2>1. message \in [0 .. messageSize - 1 -> Int]
    BY DEF Init, NoByte
  <2>2. bytesParsed \in 0 .. bytesRead /\ sent \in 0 .. StreamLen /\ received \in 0 .. sent
    BY MMAssumption DEF Init
  <2> QED BY <2>1, <2>2 DEF Init, TypeOK
<1>2. TypeOK /\ [Next]_vars => TypeOK'
  <2> SUFFICES ASSUME TypeOK, [Next]_vars PROVE TypeOK'
    OBVIOUS
  <2> USE DEF frameVars, readVars, peerVars, histVars
  <2>1. CASE Start
    <3>1. PICK len \in ParserLens, ok \in BOOLEAN :
            /\ ResizeMessage(len)
            /\ ResetCounters(len)
            /\ stopRequested' = (stopRequested \/ ~ok)
      BY <2>1 DEF Start
    <3>2. len \in Nat /\ len \in Lens \cup {0}
      BY <3>1, ParserLensType
    <3>3. messageSize' \in Nat /\ message' \in [0 .. messageSize' - 1 -> Int]
      BY <3>1, <3>2, ResizeType
    <3> QED BY <2>1, <3>1, <3>2, <3>3 DEF Start, TypeOK, ResetCounters
  <2>2. CASE LoopHead
    BY <2>2 DEF LoopHead, TypeOK
  <2>3. CASE Read
    BY <2>3, MMAssumption DEF Read, TypeOK
  <2>4. CASE ReadFails
    BY <2>4 DEF ReadFails, TypeOK
  <2>5. CASE CopyBytes
    <3>1. message' \in [0 .. messageSize' - 1 -> Int]
      BY <2>5, TransferredBounds DEF CopyBytes, CopyToMessage, ReadByte, TypeOK
    <3>2. /\ messageLastIdx' = messageLastIdx + TransferredBytes
          /\ messageMissingBytes' = messageMissingBytes - TransferredBytes
          /\ bytesParsed' = bytesParsed + TransferredBytes
          /\ flow' \in {"copy", "parse"}
      BY <2>5 DEF CopyBytes
    <3>3. /\ messageLastIdx' \in Nat
          /\ messageMissingBytes' \in Nat
          /\ bytesParsed' \in 0 .. bytesRead
      <4>1. /\ TransferredBytes \in Nat
            /\ TransferredBytes <= bytesRead - bytesParsed
            /\ TransferredBytes <= messageMissingBytes
        BY TransferredBounds
      <4> QED BY <3>2, <4>1 DEF TypeOK
    <3> QED BY <2>5, <3>1, <3>2, <3>3 DEF CopyBytes, TypeOK
  <2>6. CASE CopyDone
    BY <2>6 DEF CopyDone, TypeOK
  <2>7. CASE Parse
    <3>1. cursor' \in Nat
      BY <2>7, LengthType DEF Parse, TypeOK
    <3> QED BY <2>7, <3>1 DEF Parse, TypeOK
  <2>8. CASE Reply
    <3>1. CASE \E len \in ParserLens : ResizeMessage(len) /\ ResetCounters(len)
      <4>1. PICK len \in ParserLens : ResizeMessage(len) /\ ResetCounters(len)
        BY <3>1
      <4>2. len \in Nat /\ len \in Lens \cup {0}
        BY <4>1, ParserLensType
      <4>3. messageSize' \in Nat /\ message' \in [0 .. messageSize' - 1 -> Int]
        BY <4>1, <4>2, ResizeType
      <4> QED BY <2>8, <4>1, <4>2, <4>3 DEF Reply, TypeOK, ResetCounters
    <3>2. CASE UNCHANGED frameVars
      BY <2>8, <3>2 DEF Reply, TypeOK
    <3> QED BY <2>8, <3>1, <3>2 DEF Reply
  <2>9. CASE Send
    <3>1. CASE \E len \in ParserLens : ResetCounters(len)
      <4>1. PICK len \in ParserLens : ResetCounters(len)
        BY <3>1
      <4>2. len \in Nat /\ len \in Lens \cup {0}
        BY <4>1, ParserLensType
      <4> QED BY <2>9, <4>1, <4>2 DEF Send, TypeOK, ResetCounters
    <3>2. CASE UNCHANGED <<messageLastIdx, messageLength, messageMissingBytes>>
      BY <2>9, <3>2 DEF Send, TypeOK
    <3> QED BY <2>9, <3>1, <3>2 DEF Send
  <2>10. CASE Close
    BY <2>10 DEF Close, TypeOK
  <2>11. CASE StopDataFlow
    BY <2>11 DEF StopDataFlow, TypeOK
  <2>12. CASE PeerSend
    BY <2>12, MMAssumption DEF PeerSend, TypeOK
  <2>13. CASE PeerClose
    BY <2>13 DEF PeerClose, TypeOK
  <2>14. CASE Terminated \/ UNCHANGED vars
    BY <2>14 DEF Terminated, TypeOK, vars
  <2> QED BY <2>1, <2>2, <2>3, <2>4, <2>5, <2>6, <2>7, <2>8, <2>9, <2>10, <2>11, <2>12,
             <2>13, <2>14 DEF Next, Flow
<1> QED BY <1>1, <1>2, PTL DEF Spec

-----------------------------------------------------------------------------
(* The lengths of the two kinds of parsers. *)
LEMMA ReceiverLens ==
  ASSUME role = "receiver"
  PROVE  \A len \in ParserLens : len \in Nat /\ len > 0
BY MMAssumption DEF ParserLens

LEMMA SenderLens ==
  ASSUME role = "sender"
  PROVE  \A len \in ParserLens : len = 0
BY DEF ParserLens

(* One round of the inner loop keeps the filled part of message in order:  *)
(* the bytes it appends are those that follow the ones already there.      *)
LEMMA CopyKeepsOrder ==
  ASSUME TypeOK, CountersAgree, BytesInOrder, CopyBytes
  PROVE  \A i \in 0 .. messageLastIdx' - 1 : message'[i] = cursor + i
<1> DEFINE n == TransferredBytes
<1>1. n \in Nat /\ n <= messageMissingBytes /\ n <= bytesRead - bytesParsed
  BY TransferredBounds
<1>2. /\ messageLastIdx' = messageLastIdx + n
      /\ message' = [i \in DOMAIN message |->
                       IF i \in messageLastIdx .. messageLastIdx + n - 1
                       THEN ReadByte(bytesParsed + (i - messageLastIdx))
                       ELSE message[i]]
      /\ flow = "copy"
  BY DEF CopyBytes, CopyToMessage
<1>3. cursor + messageLastIdx + (bytesRead - bytesParsed) = received
  BY <1>2 DEF CountersAgree, Held
<1>4. messageLastIdx + n <= messageSize
  BY <1>1 DEF CountersAgree, TypeOK
<1> HIDE DEF n
<1> SUFFICES ASSUME NEW i \in 0 .. messageLastIdx' - 1
             PROVE  message'[i] = cursor + i
  OBVIOUS
<1>5. i \in 0 .. messageLastIdx + n - 1 /\ i \in DOMAIN message
  BY <1>1, <1>2, <1>4 DEF TypeOK
<1>6. CASE i < messageLastIdx
  <2>1. i \in 0 .. messageLastIdx - 1
    BY <1>5, <1>6 DEF TypeOK
  <2>2. message'[i] = message[i]
    BY <1>2, <1>5, <1>6, <2>1 DEF TypeOK
  <2> QED BY <1>2, <2>1, <2>2 DEF BytesInOrder
<1>7. CASE i >= messageLastIdx
  <2>1. i \in messageLastIdx .. messageLastIdx + n - 1
    BY <1>1, <1>5, <1>7 DEF TypeOK
  <2>2. message'[i] = ReadByte(bytesParsed + (i - messageLastIdx))
    BY <1>2, <1>5, <2>1
  <2> QED BY <1>3, <1>5, <2>2 DEF ReadByte, TypeOK
<1> QED BY <1>5, <1>6, <1>7 DEF TypeOK

(* Setting up the next sub-message of a receiving parser establishes the   *)
(* counters, wherever the unread bytes are.                                *)
LEMMA FreshFrame ==
  ASSUME TypeOK', role = "receiver",
         NEW len \in ParserLens, ResizeMessage(len), ResetCounters(len),
         flow' \in {"loop", "copy"},
         cursor' + (bytesRead' - bytesParsed') = received',
         flow' = "loop" => bytesParsed' = bytesRead'
  PROVE  CountersAgree' /\ BytesInOrder'
<1>1. len \in Nat /\ len > 0
  BY ReceiverLens
<1>2. messageLength' = len /\ messageSize' = len /\ messageLastIdx' = 0 /\ messageMissingBytes' = len
  BY DEF ResizeMessage, ResetCounters
<1>3. BytesInOrder'
  BY <1>2 DEF BytesInOrder
<1>4. cursor' + Held' + (bytesRead' - bytesParsed') = received'
  <2>1. cursor' \in Nat /\ Held' = 0
    BY <1>2 DEF TypeOK, Held
  <2> QED BY <2>1
<1>5. (messageMissingBytes = 0)' <=> (flow \in {"parse", "reply"})'
  BY <1>1, <1>2
<1>6. (messageLength > 0 /\ messageLastIdx + messageMissingBytes = messageLength)'
  BY <1>1, <1>2
<1> QED BY <1>2, <1>3, <1>4, <1>5, <1>6 DEF CountersAgree

(* Every step of a receiving manager preserves the framing invariant. *)
LEMMA ReceiverStep ==
  ASSUME TypeOK, TypeOK', Framing, [Next]_vars
  PROVE  ReceiverFraming'
<1> SUFFICES ASSUME InLoop', role' = "receiver"
             PROVE  CountersAgree' /\ BytesInOrder' /\ (flow # "send")'
  BY DEF ReceiverFraming
<1> USE DEF frameVars, readVars, peerVars, histVars
<1>a. role = "receiver"
  BY DEF Next, Flow, Start, LoopHead, Read, ReadFails, CopyBytes, CopyDone, Parse, Reply,
         Send, Close, StopDataFlow, PeerSend, PeerClose, Terminated, vars
<1>b. InLoop => CountersAgree /\ BytesInOrder /\ flow # "send"
  BY <1>a DEF Framing, ReceiverFraming
<1>1. CASE Start
  <2>1. PICK len \in ParserLens : ResizeMessage(len) /\ ResetCounters(len)
    BY <1>1 DEF Start
  <2>2. cursor' = 0 /\ received' = 0 /\ bytesRead' = 0 /\ bytesParsed' = 0 /\ flow' = "loop"
    BY <1>1 DEF Start, Framing
  <2> QED BY <1>a, <2>1, <2>2, FreshFrame
<1>2. CASE LoopHead
  <2>1. CountersAgree /\ BytesInOrder /\ flow = "loop"
    BY <1>2, <1>b DEF LoopHead, InLoop
  <2>2. flow' = "read" /\ bytesRead' = 0 /\ bytesParsed' = 0
    BY <1>2, <2>1 DEF LoopHead, InLoop, CountersAgree
  <2>3. UNCHANGED <<message, messageSize, messageLastIdx, messageLength,
                    messageMissingBytes, received, cursor>>
    BY <1>2 DEF LoopHead
  <2>4. CountersAgree'
    BY <2>1, <2>2, <2>3 DEF CountersAgree, Held, TypeOK
  <2> QED BY <2>1, <2>2, <2>3, <2>4 DEF BytesInOrder
<1>3. CASE Read
  BY <1>3, <1>b DEF Read, InLoop, CountersAgree, BytesInOrder, Held, TypeOK
<1>4. CASE CopyBytes
  <2>1. CountersAgree /\ BytesInOrder /\ flow = "copy"
    BY <1>4, <1>b DEF CopyBytes, InLoop
  <2>2. \A i \in 0 .. messageLastIdx' - 1 : message'[i] = cursor + i
    BY <1>4, <2>1, CopyKeepsOrder
  <2>3. BytesInOrder'
    BY <1>4, <2>2 DEF CopyBytes, BytesInOrder
  <2>4. CountersAgree'
    <3> DEFINE n == TransferredBytes
    <3>1. n \in Nat /\ n <= messageMissingBytes /\ n <= bytesRead - bytesParsed
      BY TransferredBounds
    <3>2. /\ messageLastIdx' = messageLastIdx + n
          /\ messageMissingBytes' = messageMissingBytes - n
          /\ bytesParsed' = bytesParsed + n
          /\ flow' = IF messageMissingBytes - n = 0 THEN "parse" ELSE "copy"
          /\ UNCHANGED <<messageSize, messageLength, bytesRead, received, cursor>>
      BY <1>4 DEF CopyBytes
    <3> HIDE DEF n
    <3> QED BY <2>1, <3>1, <3>2 DEF CountersAgree, Held, TypeOK
  <2> QED BY <1>4, <2>3, <2>4 DEF CopyBytes
<1>5. CASE CopyDone
  BY <1>5, <1>b DEF CopyDone, InLoop, CountersAgree, BytesInOrder, Held, TypeOK
<1>6. CASE Parse
  <2>1. CountersAgree /\ flow = "parse" /\ flow' = "reply"
    BY <1>6, <1>b DEF Parse, InLoop
  <2>2. cursor' = cursor + messageLength
    BY <1>6 DEF Parse
  <2>3. UNCHANGED <<messageSize, messageLastIdx, messageLength, messageMissingBytes,
                    bytesRead, bytesParsed, received>>
    BY <1>6 DEF Parse
  <2>4. CountersAgree'
    BY <2>1, <2>2, <2>3 DEF CountersAgree, Held, TypeOK
  <2> QED BY <2>1, <2>4 DEF BytesInOrder
<1>7. CASE Reply
  <2>1. flow' = "copy" /\ flow = "reply"
    BY <1>7 DEF Reply, InLoop
  <2>2. PICK len \in ParserLens : ResizeMessage(len) /\ ResetCounters(len)
    BY <1>7, <2>1 DEF Reply
  <2>3. cursor + (bytesRead - bytesParsed) = received
    BY <1>b, <2>1 DEF InLoop, CountersAgree, Held, TypeOK
  <2>4. UNCHANGED <<bytesRead, bytesParsed, received, cursor>>
    BY <1>7 DEF Reply
  <2> QED BY <1>a, <2>1, <2>2, <2>3, <2>4, FreshFrame
<1>8. CASE ReadFails \/ Send \/ Close
  BY <1>8, <1>b DEF ReadFails, Send, Close, InLoop
<1>9. CASE StopDataFlow \/ PeerSend \/ PeerClose \/ Terminated \/ UNCHANGED vars
  <2>1. UNCHANGED <<role, flow, frameVars, readVars, histVars>>
    BY <1>9 DEF StopDataFlow, PeerSend, PeerClose, Terminated, vars
  <2>2. CountersAgree /\ BytesInOrder /\ flow # "send"
    BY <1>b, <2>1 DEF InLoop
  <2> QED BY <2>1, <2>2 DEF CountersAgree, BytesInOrder, Held
<1> QED BY <1>1, <1>2, <1>3, <1>4, <1>5, <1>6, <1>7, <1>8, <1>9 DEF Next, Flow

(* Every step of a sending manager stays out of the code that reads. *)
LEMMA SenderStep ==
  ASSUME TypeOK, Framing, [Next]_vars
  PROVE  SenderFraming'
<1> SUFFICES ASSUME InLoop', role' = "sender"
             PROVE  (messageLength = 0 /\ flow \in {"loop", "send"})'
  BY DEF SenderFraming
<1> USE DEF frameVars, readVars, peerVars, histVars
<1>a. role = "sender"
  BY DEF Next, Flow, Start, LoopHead, Read, ReadFails, CopyBytes, CopyDone, Parse, Reply,
         Send, Close, StopDataFlow, PeerSend, PeerClose, Terminated, vars
<1>b. InLoop => messageLength = 0 /\ flow \in {"loop", "send"}
  BY <1>a DEF Framing, SenderFraming
<1>1. CASE Start
  BY <1>1, <1>a, SenderLens DEF Start, ResetCounters
<1>2. CASE LoopHead
  BY <1>2, <1>b DEF LoopHead, InLoop
<1>3. CASE Send
  BY <1>3, <1>a, <1>b, SenderLens DEF Send, ResetCounters, InLoop
<1>4. CASE Read \/ ReadFails \/ CopyBytes \/ CopyDone \/ Parse \/ Reply \/ Close
  BY <1>4, <1>b DEF Read, ReadFails, CopyBytes, CopyDone, Parse, Reply, Close, InLoop
<1>5. CASE StopDataFlow \/ PeerSend \/ PeerClose \/ Terminated \/ UNCHANGED vars
  BY <1>5, <1>b DEF StopDataFlow, PeerSend, PeerClose, Terminated, vars, InLoop
<1> QED BY <1>1, <1>2, <1>3, <1>4, <1>5 DEF Next, Flow

(* Framing holds in every reachable state: TypeOK /\ Framing is inductive. *)
THEOREM FramingCorrect == Spec => []Framing
<1>1. Init => Framing
  BY DEF Init, Framing, ReceiverFraming, SenderFraming, InLoop
<1>2. TypeOK /\ TypeOK' /\ Framing /\ [Next]_vars => Framing'
  <2> SUFFICES ASSUME TypeOK, TypeOK', Framing, [Next]_vars PROVE Framing'
    OBVIOUS
  <2>1. (flow = "start")' => cursor' = 0 /\ received' = 0 /\ bytesRead' = 0 /\ bytesParsed' = 0
    BY DEF Framing, Next, Flow, Start, LoopHead, Read, ReadFails, CopyBytes, CopyDone, Parse,
           Reply, Send, Close, StopDataFlow, PeerSend, PeerClose, Terminated, vars,
           frameVars, readVars, peerVars, histVars
  <2> QED BY <2>1, ReceiverStep, SenderStep DEF Framing
<1> QED BY <1>1, <1>2, TypeCorrect, PTL DEF Spec

(* std::copy stays inside message: no unchecked write behind its end, for  *)
(* every way the stream is cut into reads.                                 *)
THEOREM CopySafe ==
  ASSUME LibraryRoles
  PROVE  Spec => []CopyInBounds
<1>1. TypeOK /\ Framing => CopyInBounds
  <2> SUFFICES ASSUME TypeOK, Framing, flow = "copy", bytesParsed < bytesRead
               PROVE  messageLastIdx + TransferredBytes <= messageSize
    BY DEF CopyInBounds
  <2>1. CountersAgree
    BY DEF LibraryRoles, TypeOK, Framing, ReceiverFraming, SenderFraming, InLoop
  <2>2. TransferredBytes \in Nat /\ TransferredBytes <= messageMissingBytes
    BY TransferredBounds
  <2> QED BY <2>1, <2>2 DEF CountersAgree, TypeOK
<1> QED BY <1>1, TypeCorrect, FramingCorrect, PTL

(* The manager implements SubMessageStream: whatever the reads return, the *)
(* parser gets the bytes of the peer, in order, cut as it asked.           *)
THEOREM StreamRefined ==
  ASSUME LibraryRoles
  PROVE  Spec => StreamSpec
<1>1. Init => Stream!Init
  BY DEF Init, Stream!Init, StreamTurn
<1>2. TypeOK /\ Framing /\ [Next]_vars => [Stream!Next]_(Stream!svars)
  <2> SUFFICES ASSUME TypeOK, Framing, [Next]_vars PROVE [Stream!Next]_(Stream!svars)
    OBVIOUS
  <2> USE DEF histVars
  <2>1. CASE Parse
    <3>1. CountersAgree /\ BytesInOrder
      BY <2>1 DEF Parse, LibraryRoles, TypeOK, Framing, ReceiverFraming, SenderFraming, InLoop
    <3>2. messageLastIdx = messageLength /\ messageSize = messageLength /\ messageLength \in Lens
      BY <2>1, <3>1, MMAssumption DEF Parse, CountersAgree, TypeOK
    <3>3. \A i \in 0 .. messageLength - 1 : i < messageSize /\ message[i] = cursor + i
      BY <2>1, <3>1, <3>2, MMAssumption DEF Parse, BytesInOrder
    <3>4. delivered' = Stream!NextBytes(messageLength)
      BY <2>1, <3>3 DEF Parse, Stream!NextBytes
    <3>5. StreamTurn = "parse" /\ StreamTurn' \in {"answer", "ended"}
      BY <2>1 DEF Parse, StreamTurn
    <3>6. Stream!Deliver(messageLength)
      BY <2>1, <3>4, <3>5 DEF Parse, Stream!Deliver
    <3> QED BY <3>2, <3>6 DEF Stream!Next
  <2>2. CASE Reply
    BY <2>2 DEF Reply, Stream!Next, Stream!Answer, Stream!End, StreamTurn
  <2>3. CASE LoopHead \/ ReadFails \/ Send
    <3>1. UNCHANGED histVars /\ (StreamTurn' = "ended" \/ StreamTurn' = StreamTurn)
      BY <2>3 DEF LoopHead, ReadFails, Send, StreamTurn
    <3> QED BY <3>1 DEF Stream!Next, Stream!End, Stream!svars
  <2>4. CASE Start \/ Read \/ CopyBytes \/ CopyDone \/ Close
    <3>1. UNCHANGED histVars /\ StreamTurn' = StreamTurn
      BY <2>4 DEF Start, Read, CopyBytes, CopyDone, Close, StreamTurn
    <3> QED BY <3>1 DEF Stream!svars
  <2>5. CASE StopDataFlow \/ PeerSend \/ PeerClose \/ Terminated \/ UNCHANGED vars
    BY <2>5 DEF StopDataFlow, PeerSend, PeerClose, Terminated, vars, StreamTurn, Stream!svars
  <2> QED BY <2>1, <2>2, <2>3, <2>4, <2>5 DEF Next, Flow
<1> QED BY <1>1, <1>2, TypeCorrect, FramingCorrect, PTL DEF Spec, StreamSpec, Stream!Spec

-----------------------------------------------------------------------------
(* The Go manager, with the same peer, lengths and buffer size, and the    *)
(* same safety for all library parsers and both kinds of connections.  It  *)
(* may fail to call the parser (the run GoMM_Split catches it), but it     *)
(* never calls it with wrong bytes.                                        *)
VARIABLES stopRequest, readMessage, buffered  \* those that only Go's manager has

Go == INSTANCE GoMessageManager

LEMMA GoAssumption ==
  ASSUME LibraryRoles
  PROVE  /\ StreamLen \in Nat
         /\ Lens \subseteq Nat \ {0}
         /\ ReadCap \in Nat \ {0}
         /\ Roles \subseteq {"receiver", "sender"}
BY MMAssumption DEF LibraryRoles


LEMMA GoTransferredBounds ==
  ASSUME LibraryRoles, Go!TypeOK
  PROVE  /\ Go!TransferredBytes \in Nat
         /\ Go!TransferredBytes <= buffered
<1>1. messageLength \in Nat /\ buffered \in Nat
  BY GoAssumption DEF Go!TypeOK
<1> QED BY <1>1 DEF Go!TransferredBytes

LEMMA GoLensType ==
  ASSUME LibraryRoles
  PROVE  \A len \in Go!ParserLens :
    /\ len \in Nat /\ len \in Lens \cup {0}
    /\ role = "receiver" => len > 0
    /\ role = "sender" => len = 0
BY GoAssumption DEF Go!ParserLens

-----------------------------------------------------------------------------
(* Type correctness, for both kinds of parsers and of connections. *)
THEOREM GoTypeCorrect ==
  ASSUME LibraryRoles
  PROVE  Go!Spec => []Go!TypeOK
<1>1. Go!Init => Go!TypeOK
  <2> SUFFICES ASSUME Go!Init PROVE Go!TypeOK
    OBVIOUS
  <2>1. messageLength \in Nat /\ messageLength \in Lens \cup {0}
    BY GoLensType DEF Go!Init
  <2>2. buffered \in 0 .. received /\ sent \in 0 .. StreamLen /\ received \in 0 .. sent
    BY GoAssumption DEF Go!Init
  <2>3. messageMissingBytes \in Int /\ messageLastIdx \in Nat /\ cursor \in Nat
    BY <2>1 DEF Go!Init
  <2>4. role \in Roles /\ flow = "start" /\ stopRequest = FALSE /\ peerOpen = TRUE
    BY DEF Go!Init
  <2> QED BY <2>1, <2>2, <2>3, <2>4 DEF Go!TypeOK
<1>2. Go!TypeOK /\ [Go!Next]_(Go!vars) => Go!TypeOK'
  <2> SUFFICES ASSUME Go!TypeOK, [Go!Next]_(Go!vars) PROVE Go!TypeOK'
    OBVIOUS
  <2> USE DEF Go!frameVars, Go!readVars, Go!peerVars, Go!histVars
  <2>1. CASE Go!Start
    BY <2>1 DEF Go!Start, Go!TypeOK
  <2>2. CASE Go!LoopHead
    BY <2>2 DEF Go!LoopHead, Go!TypeOK
  <2>3. CASE Go!Read
    <3>1. PICK n \in 1 .. ReadCap :
            received + n <= sent /\ received' = received + n /\ buffered' = n
      BY <2>3 DEF Go!Read
    <3>2. buffered' \in 0 .. received' /\ received' \in 0 .. sent
      BY <3>1, GoAssumption DEF Go!TypeOK
    <3> QED BY <2>3, <3>2 DEF Go!Read, Go!TypeOK
  <2>4. CASE Go!ReadFails
    BY <2>4 DEF Go!ReadFails, Go!TypeOK
  <2>5. CASE Go!CopyBytes
    <3>1. /\ messageLastIdx' = messageLastIdx + Go!TransferredBytes
          /\ messageMissingBytes' = messageMissingBytes - Go!TransferredBytes
          /\ buffered' = buffered - Go!TransferredBytes
          /\ flow' \in {"copy", "parse"}
      BY <2>5 DEF Go!CopyBytes, Go!WriteReadMessage
    <3>2. /\ messageLastIdx' \in Nat
          /\ messageMissingBytes' \in Int
          /\ buffered' \in 0 .. received
      BY <3>1, GoTransferredBounds DEF Go!TypeOK
    <3> QED BY <2>5, <3>1, <3>2 DEF Go!CopyBytes, Go!TypeOK
  <2>6. CASE Go!CopyDone
    BY <2>6 DEF Go!CopyDone, Go!TypeOK
  <2>7. CASE Go!Parse
    <3>1. cursor' \in Nat
      BY <2>7 DEF Go!Parse, Go!TypeOK
    <3> QED BY <2>7, <3>1 DEF Go!Parse, Go!TypeOK
  <2>8. CASE Go!Reply \/ Go!Send
    <3>1. CASE \E len \in Go!ParserLens : Go!ResetCounters(len)
      <4>1. PICK len \in Go!ParserLens : Go!ResetCounters(len)
        BY <3>1
      <4>2. len \in Nat /\ len \in Lens \cup {0}
        BY <4>1, GoLensType
      <4>3. /\ messageLastIdx' \in Nat
            /\ messageLength' \in Lens \cup {0}
            /\ messageMissingBytes' \in Int
        BY <4>1, <4>2 DEF Go!ResetCounters
      <4> QED BY <2>8, <4>3 DEF Go!Reply, Go!Send, Go!TypeOK
    <3>2. CASE UNCHANGED <<messageLastIdx, messageLength, messageMissingBytes>>
      BY <2>8, <3>2 DEF Go!Reply, Go!Send, Go!TypeOK
    <3> QED BY <2>8, <3>1, <3>2 DEF Go!Reply, Go!Send
  <2>9. CASE Go!Close
    BY <2>9 DEF Go!Close, Go!TypeOK
  <2>10. CASE Go!StopDataFlow
    BY <2>10 DEF Go!StopDataFlow, Go!TypeOK
  <2>11. CASE Go!PeerSend
    BY <2>11, GoAssumption DEF Go!PeerSend, Go!TypeOK
  <2>12. CASE Go!PeerClose
    BY <2>12 DEF Go!PeerClose, Go!TypeOK
  <2>13. CASE Go!Terminated \/ UNCHANGED Go!vars
    BY <2>13 DEF Go!Terminated, Go!TypeOK, Go!vars
  <2> QED BY <2>1, <2>2, <2>3, <2>4, <2>5, <2>6, <2>7, <2>8, <2>9, <2>10, <2>11, <2>12,
             <2>13 DEF Go!Next, Go!Flow
<1> QED BY <1>1, <1>2, PTL DEF Go!Spec

-----------------------------------------------------------------------------
(* One round of the inner loop appends the bytes that follow. *)
LEMMA GoCopyKeepsOrder ==
  ASSUME LibraryRoles, Go!TypeOK, Go!CopyBytes,
         readMessage = [i \in 0 .. messageLastIdx - 1 |-> cursor + i],
         cursor + messageLastIdx + buffered = received
  PROVE  readMessage' = [i \in 0 .. messageLastIdx' - 1 |-> cursor + i]
<1> DEFINE n == Go!TransferredBytes
<1>1. n \in Nat
  BY GoTransferredBounds
<1>2. /\ messageLastIdx' = messageLastIdx + n
      /\ readMessage' = [i \in 0 .. messageLastIdx + n - 1 |->
                          IF i < messageLastIdx THEN readMessage[i]
                          ELSE (received - buffered) + (i - messageLastIdx)]
  BY DEF Go!CopyBytes, Go!WriteReadMessage
<1> HIDE DEF n
<1>3. DOMAIN readMessage' = 0 .. messageLastIdx' - 1
  BY <1>1, <1>2 DEF Go!TypeOK
<1>4. ASSUME NEW i \in 0 .. messageLastIdx' - 1
      PROVE  readMessage'[i] = cursor + i
  <2>1. i \in 0 .. messageLastIdx + n - 1
    BY <1>1, <1>2 DEF Go!TypeOK
  <2>2. CASE i < messageLastIdx
    <3>1. i \in 0 .. messageLastIdx - 1
      BY <2>1, <2>2 DEF Go!TypeOK
    <3> QED BY <1>2, <2>1, <2>2, <3>1
  <2>3. CASE ~(i < messageLastIdx)
    <3>1. readMessage'[i] = (received - buffered) + (i - messageLastIdx)
      BY <1>2, <2>1, <2>3
    <3> QED BY <2>1, <3>1 DEF Go!TypeOK
  <2> QED BY <2>2, <2>3
<1> QED BY <1>2, <1>3, <1>4

(* Every step of a receiving manager preserves the framing invariant. *)
LEMMA GoReceiverStep ==
  ASSUME LibraryRoles, Go!TypeOK, Go!TypeOK', Go!Framing, [Go!Next]_(Go!vars)
  PROVE  Go!ReceiverFraming'
<1> SUFFICES ASSUME Go!InLoop', role' = "receiver"
             PROVE  /\ (flow # "send")'
                    /\ (messageLength > 0)'
                    /\ (messageLastIdx + messageMissingBytes = messageLength)'
                    /\ (flow = "parse" => messageMissingBytes = 0)'
                    /\ (cursor + Go!Held + buffered = received)'
                    /\ (flow \in {"loop", "read"} => buffered = 0)'
                    /\ (readMessage = [i \in 0 .. Go!Held - 1 |-> cursor + i])'
  BY DEF Go!ReceiverFraming
<1> USE DEF Go!frameVars, Go!readVars, Go!peerVars, Go!histVars
<1>a. role = "receiver"
  BY DEF Go!Next, Go!Flow, Go!Start, Go!LoopHead, Go!Read, Go!ReadFails, Go!CopyBytes,
      Go!CopyDone, Go!Parse, Go!Reply,
         Go!Send, Go!Close, Go!StopDataFlow, Go!PeerSend, Go!PeerClose, Go!Terminated, Go!vars
<1>b. Go!InLoop =>
        /\ flow # "send"
        /\ messageLength > 0
        /\ messageLastIdx + messageMissingBytes = messageLength
        /\ flow = "parse" => messageMissingBytes = 0
        /\ cursor + Go!Held + buffered = received
        /\ flow \in {"loop", "read"} => buffered = 0
        /\ readMessage = [i \in 0 .. Go!Held - 1 |-> cursor + i]
  BY <1>a DEF Go!Framing, Go!ReceiverFraming
<1>1. CASE Go!Start
  <2>1. /\ flow' = "loop"
        /\ cursor' = 0 /\ received' = 0 /\ buffered' = 0 /\ messageLastIdx' = 0
        /\ messageMissingBytes' = messageLength' /\ messageLength' = messageLength
        /\ readMessage' = [i \in 0 .. -1 |-> 0]
    BY <1>1 DEF Go!Start, Go!Framing, Go!InLoop
  <2>2. messageLength > 0 /\ messageLength \in Nat
    BY <1>1, <1>a, GoLensType DEF Go!Start, Go!Framing
  <2> QED BY <2>1, <2>2 DEF Go!Held
<1>2. CASE Go!LoopHead
  BY <1>2, <1>b DEF Go!LoopHead, Go!InLoop, Go!Held, Go!TypeOK
<1>3. CASE Go!Read
  BY <1>3, <1>b DEF Go!Read, Go!InLoop, Go!Held, Go!TypeOK
<1>4. CASE Go!CopyBytes
  <2> DEFINE n == Go!TransferredBytes
  <2>1. flow = "copy" /\ Go!Held = messageLastIdx /\ Go!InLoop
    BY <1>4 DEF Go!CopyBytes, Go!Held, Go!InLoop
  <2>2. readMessage' = [i \in 0 .. messageLastIdx' - 1 |-> cursor + i]
    BY <1>4, <1>b, <2>1, GoCopyKeepsOrder
  <2>3. /\ messageLastIdx' = messageLastIdx + n
        /\ messageMissingBytes' = messageMissingBytes - n
        /\ buffered' = buffered - n
        /\ flow' = IF messageMissingBytes - n = 0 THEN "parse" ELSE "copy"
        /\ UNCHANGED <<messageLength, received, cursor>>
    BY <1>4 DEF Go!CopyBytes, Go!WriteReadMessage
  <2>4. n \in Nat
    BY GoTransferredBounds
  <2>5. Go!Held' = messageLastIdx' /\ flow' \in {"copy", "parse"}
    BY <2>3 DEF Go!Held
  <2> HIDE DEF n
  <2> QED BY <1>b, <2>1, <2>2, <2>3, <2>4, <2>5 DEF Go!TypeOK
<1>5. CASE Go!CopyDone
  BY <1>5, <1>b DEF Go!CopyDone, Go!InLoop, Go!Held, Go!TypeOK
<1>6. CASE Go!Parse
  <2>1. flow = "parse" /\ flow' = "reply" /\ Go!Held = messageLastIdx /\ Go!Held' = 0 /\ Go!InLoop
    BY <1>6 DEF Go!Parse, Go!Held, Go!InLoop, Go!TypeOK
  <2>2. /\ cursor' = cursor + messageLastIdx
        /\ readMessage' = [i \in 0 .. -1 |-> 0]
        /\ UNCHANGED <<messageLength, messageLastIdx, messageMissingBytes, buffered, received>>
    BY <1>6, <2>1 DEF Go!Parse
  <2> QED BY <1>b, <2>1, <2>2 DEF Go!TypeOK
<1>7. CASE Go!Reply
  <2>1. flow = "reply" /\ flow' = "copy" /\ Go!Held = 0 /\ Go!InLoop
    BY <1>7 DEF Go!Reply, Go!Held, Go!InLoop
  <2>2. PICK len \in Go!ParserLens : Go!ResetCounters(len)
    BY <1>7, <2>1 DEF Go!Reply
  <2>3. len \in Nat /\ len > 0
    BY <1>a, <2>2, GoLensType
  <2>4. Go!Held' = 0 /\ UNCHANGED <<cursor, received, buffered, readMessage>>
    BY <1>7, <2>1, <2>2 DEF Go!Reply, Go!Held, Go!ResetCounters
  <2> QED BY <1>b, <2>1, <2>2, <2>3, <2>4 DEF Go!ResetCounters
<1>8. CASE Go!ReadFails \/ Go!Send \/ Go!Close
  BY <1>8, <1>b DEF Go!ReadFails, Go!Send, Go!Close, Go!InLoop
<1>9. CASE Go!StopDataFlow \/ Go!PeerSend \/ Go!PeerClose \/ Go!Terminated \/ UNCHANGED Go!vars
  <2>1. UNCHANGED <<role, flow, Go!frameVars, Go!readVars, Go!histVars>> /\ Go!InLoop /\ Go!Held' = Go!Held
    BY <1>9 DEF Go!StopDataFlow, Go!PeerSend, Go!PeerClose, Go!Terminated, Go!vars, Go!InLoop,
        Go!Held, Go!TypeOK
  <2> QED BY <1>b, <2>1
<1> QED BY <1>1, <1>2, <1>3, <1>4, <1>5, <1>6, <1>7, <1>8, <1>9 DEF Go!Next, Go!Flow

(* Every step of a sending manager stays out of the code that reads. *)
LEMMA GoSenderStep ==
  ASSUME LibraryRoles, Go!TypeOK, Go!Framing, [Go!Next]_(Go!vars)
  PROVE  Go!SenderFraming'
<1> SUFFICES ASSUME Go!InLoop', role' = "sender"
             PROVE  (messageLength = 0 /\ flow \in {"loop", "send"})'
  BY DEF Go!SenderFraming
<1> USE DEF Go!frameVars, Go!readVars, Go!peerVars, Go!histVars
<1>a. role = "sender"
  BY DEF Go!Next, Go!Flow, Go!Start, Go!LoopHead, Go!Read, Go!ReadFails, Go!CopyBytes,
      Go!CopyDone, Go!Parse, Go!Reply,
         Go!Send, Go!Close, Go!StopDataFlow, Go!PeerSend, Go!PeerClose, Go!Terminated, Go!vars
<1>b. Go!InLoop => messageLength = 0 /\ flow \in {"loop", "send"}
  BY <1>a DEF Go!Framing, Go!SenderFraming
<1>1. CASE Go!Start
  BY <1>1, <1>a, GoLensType DEF Go!Start, Go!Framing, Go!InLoop
<1>2. CASE Go!LoopHead
  BY <1>2, <1>b DEF Go!LoopHead, Go!InLoop
<1>3. CASE Go!Send
  BY <1>3, <1>a, <1>b, GoLensType DEF Go!Send, Go!ResetCounters, Go!InLoop
<1>4. CASE Go!Read \/ Go!ReadFails \/ Go!CopyBytes \/ Go!CopyDone \/ Go!Parse \/ Go!Reply \/ Go!Close
  BY <1>4, <1>b DEF Go!Read, Go!ReadFails, Go!CopyBytes, Go!CopyDone, Go!Parse, Go!Reply,
      Go!Close, Go!InLoop
<1>5. CASE Go!StopDataFlow \/ Go!PeerSend \/ Go!PeerClose \/ Go!Terminated \/ UNCHANGED Go!vars
  BY <1>5, <1>b DEF Go!StopDataFlow, Go!PeerSend, Go!PeerClose, Go!Terminated, Go!vars,
      Go!InLoop, Go!TypeOK
<1> QED BY <1>1, <1>2, <1>3, <1>4, <1>5 DEF Go!Next, Go!Flow

(* Framing holds in every reachable state: TypeOK /\ Framing is inductive. *)
THEOREM GoFramingCorrect ==
  ASSUME LibraryRoles
  PROVE  Go!Spec => []Go!Framing
<1>1. Go!Init => Go!Framing
  BY DEF Go!Init, Go!Framing, Go!ReceiverFraming, Go!SenderFraming, Go!InLoop
<1>2. Go!TypeOK /\ Go!TypeOK' /\ Go!Framing /\ [Go!Next]_(Go!vars) => Go!Framing'
  <2> SUFFICES ASSUME Go!TypeOK, Go!TypeOK', Go!Framing, [Go!Next]_(Go!vars) PROVE Go!Framing'
    OBVIOUS
  <2> USE DEF Go!frameVars, Go!readVars, Go!peerVars, Go!histVars
  <2>1. CASE flow' = "start"
    <3>1. flow = "start" /\ UNCHANGED <<role, Go!frameVars, Go!readVars, cursor>>
      BY <2>1 DEF Go!Next, Go!Flow, Go!Start, Go!LoopHead, Go!Read, Go!ReadFails,
          Go!CopyBytes, Go!CopyDone, Go!Parse,
             Go!Reply, Go!Send, Go!Close, Go!StopDataFlow, Go!PeerSend, Go!PeerClose, Go!Terminated, Go!vars
    <3> QED BY <2>1, <3>1, GoReceiverStep, GoSenderStep DEF Go!Framing, Go!ParserLens
  <2>2. CASE flow' # "start"
    BY <2>2, GoReceiverStep, GoSenderStep DEF Go!Framing
  <2> QED BY <2>1, <2>2
<1> QED BY <1>1, <1>2, GoTypeCorrect, PTL DEF Go!Spec

(* The Go manager implements SubMessageStream: whatever the reads return,  *)
(* what ParseMessage gets is the next sub-message of the stream.           *)
THEOREM GoStreamRefined ==
  ASSUME LibraryRoles
  PROVE  Go!Spec => Go!StreamSpec
<1>1. Go!Init => Go!Stream!Init
  BY DEF Go!Init, Go!Stream!Init, Go!StreamTurn
<1>2. Go!TypeOK /\ Go!Framing /\ [Go!Next]_(Go!vars) => [Go!Stream!Next]_(Go!Stream!svars)
  <2> SUFFICES ASSUME Go!TypeOK, Go!Framing, [Go!Next]_(Go!vars) PROVE [Go!Stream!Next]_(Go!Stream!svars)
    OBVIOUS
  <2> USE DEF Go!histVars
  <2>1. CASE Go!Parse
    <3>1. /\ flow = "parse" /\ Go!Held = messageLastIdx /\ Go!InLoop
          /\ delivered' = readMessage
          /\ cursor' = cursor + messageLastIdx
      BY <2>1 DEF Go!Parse, Go!Held, Go!InLoop
    <3>2. role = "receiver"
      BY <3>1, GoAssumption DEF Go!Framing, Go!SenderFraming, Go!TypeOK
    <3>3. /\ messageLength > 0 /\ messageLastIdx + messageMissingBytes = messageLength
          /\ messageMissingBytes = 0
          /\ readMessage = [i \in 0 .. messageLastIdx - 1 |-> cursor + i]
      BY <3>1, <3>2 DEF Go!Framing, Go!ReceiverFraming
    <3>4. messageLastIdx = messageLength /\ messageLength \in Lens
      BY <3>3, GoAssumption DEF Go!TypeOK
    <3>5. readMessage = Go!Stream!NextBytes(messageLength)
      BY <3>3, <3>4 DEF Go!Stream!NextBytes
    <3>6. Go!StreamTurn = "parse" /\ Go!StreamTurn' \in {"answer", "ended"}
      BY <2>1 DEF Go!Parse, Go!StreamTurn
    <3>7. Go!Stream!Deliver(messageLength)
      BY <3>1, <3>4, <3>5, <3>6 DEF Go!Stream!Deliver
    <3> QED BY <3>4, <3>7 DEF Go!Stream!Next
  <2>2. CASE Go!Reply
    BY <2>2 DEF Go!Reply, Go!Stream!Next, Go!Stream!Answer, Go!Stream!End, Go!StreamTurn
  <2>3. CASE Go!LoopHead \/ Go!ReadFails \/ Go!Send \/ Go!CopyDone \/ Go!Start \/ Go!StopDataFlow
    <3>1. UNCHANGED Go!histVars /\ (Go!StreamTurn' = "ended" \/ Go!StreamTurn' = Go!StreamTurn)
      BY <2>3 DEF Go!LoopHead, Go!ReadFails, Go!Send, Go!CopyDone, Go!Start, Go!StopDataFlow,
          Go!StreamTurn, Go!TypeOK
    <3> QED BY <3>1 DEF Go!Stream!Next, Go!Stream!End, Go!Stream!svars
  <2>4. CASE Go!Read \/ Go!CopyBytes \/ Go!Close
    <3>1. UNCHANGED Go!histVars /\ Go!StreamTurn' = Go!StreamTurn
      BY <2>4 DEF Go!Read, Go!CopyBytes, Go!Close, Go!StreamTurn
    <3> QED BY <3>1 DEF Go!Stream!svars
  <2>5. CASE Go!PeerSend \/ Go!PeerClose \/ Go!Terminated \/ UNCHANGED Go!vars
    BY <2>5 DEF Go!PeerSend, Go!PeerClose, Go!Terminated, Go!vars, Go!StreamTurn, Go!Stream!svars
  <2> QED BY <2>1, <2>2, <2>3, <2>4, <2>5 DEF Go!Next, Go!Flow
<1> QED BY <1>1, <1>2, GoTypeCorrect, GoFramingCorrect, PTL DEF Go!Spec, Go!StreamSpec, Go!Stream!Spec

=============================================================================
