--------------------------- MODULE MessageManager ---------------------------
(***************************************************************************)
(* The C++ message manager, include/rpcmple/messageManager.h: the data     *)
(* flow thread (dataFlow), which reads the connection in pieces of any     *)
(* size, cuts the bytes into sub-messages of the length the parser asks    *)
(* for (getMessageLen), hands each to parseMessage and then writes what    *)
(* writeMessage produces; and stopDataFlow, called from another thread.    *)
(*                                                                         *)
(* Abstractions.  A byte is its position in the stream of the peer, so a   *)
(* buffer shows which bytes of the stream it holds.  The parser is any     *)
(* parser: parseMessage and writeMessage succeed or fail and getMessageLen *)
(* returns any length its kind of parser may return.  A read returns any   *)
(* number of the bytes that have arrived.                                  *)
(***************************************************************************)
EXTENDS Integers

CONSTANTS
  StreamLen,  \* bound: how many bytes the peer sends
  Lens,       \* the positive lengths a parser may ask for
  ReadCap,    \* size of readBuffer, 16777220 in the code
  Roles       \* the kinds of parsers: "receiver" always asks for a positive
              \* length (rpcClient, rpcServer, dataSubscriber), "sender" always
              \* for 0 (dataPublisher), "mixed" (user-written) for either

ASSUME MMAssumption ==
  /\ StreamLen \in Nat
  /\ Lens \subseteq Nat \ {0}
  /\ ReadCap \in Nat \ {0}
  /\ Roles \subseteq {"receiver", "sender", "mixed"}

VARIABLES
  role,                 \* which kind of parser the manager serves
  flow,                 \* where the data flow thread is
  stopRequested,
  message,              \* the sub-message under construction, 0-indexed
  messageSize,          \* message.size()
  messageLastIdx,       \* next free index of message
  messageLength,        \* length the parser asked for
  messageMissingBytes,  \* bytes still to come for this sub-message
  bytesRead,            \* bytes in readBuffer
  bytesParsed,          \* bytes of readBuffer already copied
  sent,                 \* bytes the peer has written so far
  received,             \* bytes read from the connection so far
  peerOpen,             \* the peer has neither closed nor reset the connection
  cursor,               \* history: bytes handed to parseMessage so far
  delivered             \* history: the last sub-message handed to parseMessage

frameVars == <<message, messageSize, messageLastIdx, messageLength, messageMissingBytes>>
readVars  == <<bytesRead, bytesParsed, received>>
peerVars  == <<sent, peerOpen>>
histVars  == <<cursor, delivered>>
vars == <<role, flow, stopRequested, frameVars, readVars, peerVars, histVars>>

-----------------------------------------------------------------------------

NoByte == -1  \* content of a cell the code has not written from the stream

ParserLens ==
  CASE role = "receiver" -> Lens
    [] role = "sender"   -> {0}
    [] role = "mixed"    -> Lens \cup {0}

(* The i-th byte of readBuffer: the last bytesRead bytes received. *)
ReadByte(i) == received - bytesRead + i

(* Mutant of ResizeMessage: a vector that can only grow. *)
ResizeMessageGrowOnly(len) ==
  IF len > messageSize
  THEN /\ message' = [i \in 0 .. len - 1 |-> IF i < messageSize THEN message[i] ELSE NoByte]
       /\ messageSize' = len
  ELSE UNCHANGED <<message, messageSize>>

(* std::vector::resize: the old prefix stays, new cells are zeroed. *)
ResizeMessage(len) ==
  /\ message' = [i \in 0 .. len - 1 |-> IF i < messageSize THEN message[i] ELSE NoByte]
  /\ messageSize' = len

ResetCounters(len) ==
  /\ messageLastIdx' = 0
  /\ messageLength' = len
  /\ messageMissingBytes' = len

(* Mutant of TransferredBytes: clamps with the whole length of the         *)
(* sub-message instead of with what is still missing of it.                *)
TransferredBytesOfLength ==
  IF bytesRead - bytesParsed < messageLength
  THEN bytesRead - bytesParsed
  ELSE messageLength

(* Mutant of TransferredBytes: the last missing byte is never copied. *)
TransferredBytesShort ==
  IF bytesRead - bytesParsed < messageMissingBytes
  THEN bytesRead - bytesParsed
  ELSE messageMissingBytes - 1

(* How many bytes one round of the inner loop copies. *)
TransferredBytes ==
  IF bytesRead - bytesParsed < messageMissingBytes
  THEN bytesRead - bytesParsed
  ELSE messageMissingBytes

(* Mutant of CopyToMessage: always copies from the start of readBuffer. *)
CopyToMessageFromStart(n) ==
  message' = [i \in DOMAIN message |->
                IF i \in messageLastIdx .. messageLastIdx + n - 1
                THEN ReadByte(i - messageLastIdx)
                ELSE message[i]]

(* std::copy of n bytes of readBuffer to message at messageLastIdx. *)
CopyToMessage(n) ==
  message' = [i \in DOMAIN message |->
                IF i \in messageLastIdx .. messageLastIdx + n - 1
                THEN ReadByte(bytesParsed + (i - messageLastIdx))
                ELSE message[i]]

-----------------------------------------------------------------------------
Init ==
  /\ role \in Roles
  /\ flow = "start"
  /\ stopRequested = FALSE
  /\ message = [i \in 0 .. -1 |-> NoByte]
  /\ messageSize = 0
  /\ messageLastIdx = 0
  /\ messageLength = 0
  /\ messageMissingBytes = 0
  /\ bytesRead = 0
  /\ bytesParsed = 0
  /\ sent = 0
  /\ received = 0
  /\ peerOpen = TRUE
  /\ cursor = 0
  /\ delivered = <<>>

(* init() and, for a requester, the first message: ok is FALSE when        *)
(* writeMessage fails, the message is too large or it cannot be written.   *)
Start ==
  /\ flow = "start"
  /\ \E len \in ParserLens, ok \in BOOLEAN :
       /\ ResizeMessage(len)
       /\ ResetCounters(len)
       /\ stopRequested' = (stopRequested \/ ~ok)
  /\ flow' = "loop"
  /\ UNCHANGED <<role, readVars, peerVars, histVars>>

(* while (!stopRequested): the only place where the flag is looked at. *)
LoopHead ==
  /\ flow = "loop"
  /\ IF stopRequested
     THEN /\ flow' = "close"
          /\ UNCHANGED <<bytesRead, bytesParsed>>
     ELSE /\ flow' = IF messageLength > 0 THEN "read" ELSE "send"
          /\ bytesRead' = 0
          /\ bytesParsed' = 0
  /\ UNCHANGED <<role, stopRequested, frameVars, received, peerVars, histVars>>

(* mConn->read returns any positive number of the bytes that have arrived. *)
Read ==
  /\ flow = "read"
  /\ \E n \in 1 .. ReadCap :
       /\ received + n <= sent
       /\ received' = received + n
       /\ bytesRead' = n
  /\ flow' = "copy"
  /\ UNCHANGED <<role, stopRequested, frameVars, bytesParsed, peerVars, histVars>>

(* Mutant of ReadFails: a failed read is tried again. *)
ReadFailsRetries ==
  /\ flow = "read"
  /\ ~peerOpen
  /\ flow' = "loop"
  /\ UNCHANGED <<role, stopRequested, frameVars, readVars, peerVars, histVars>>

(* mConn->read fails: the peer closed, or reset the connection, which may  *)
(* discard bytes not read yet.  The loop is left without stopRequested.    *)
ReadFails ==
  /\ flow = "read"
  /\ ~peerOpen
  /\ flow' = "close"
  /\ UNCHANGED <<role, stopRequested, frameVars, readVars, peerVars, histVars>>

(* One round of while (bytesParsed<bytesRead), up to parseMessage. *)
CopyBytes ==
  /\ flow = "copy"
  /\ bytesParsed < bytesRead
  /\ LET n == TransferredBytes IN
       /\ CopyToMessage(n)
       /\ messageLastIdx' = messageLastIdx + n
       /\ messageMissingBytes' = messageMissingBytes - n
       /\ bytesParsed' = bytesParsed + n
       /\ flow' = IF messageMissingBytes - n = 0 THEN "parse" ELSE "copy"
  /\ UNCHANGED <<role, stopRequested, messageSize, messageLength, bytesRead, received,
                 peerVars, histVars>>

CopyDone ==
  /\ flow = "copy"
  /\ bytesParsed >= bytesRead
  /\ flow' = "loop"
  /\ UNCHANGED <<role, stopRequested, frameVars, readVars, peerVars, histVars>>

(* parseMessage gets the first messageLength cells; FALSE stops the flow. *)
Parse ==
  /\ flow = "parse"
  /\ delivered' = [i \in 0 .. messageLength - 1 |->
                     IF i < messageSize THEN message[i] ELSE NoByte]
  /\ cursor' = cursor + messageLength
  /\ \/ /\ flow' = "reply"
        /\ UNCHANGED stopRequested
     \/ /\ flow' = "close"
        /\ stopRequested' = TRUE
  /\ UNCHANGED <<role, frameVars, readVars, peerVars>>

(* writeMessage, and mConn->write when it produced something; then the     *)
(* counters are set for the next sub-message.  Any failure ends the flow.  *)
Reply ==
  /\ flow = "reply"
  /\ \/ /\ \E len \in ParserLens : ResizeMessage(len) /\ ResetCounters(len)
        /\ flow' = "copy"
        /\ UNCHANGED stopRequested
     \/ /\ flow' = "close"
        /\ stopRequested' = TRUE
        /\ UNCHANGED frameVars
  /\ UNCHANGED <<role, readVars, peerVars, histVars>>

(* The branch for messageLength = 0: nothing to read, only to send.  The   *)
(* counters are set for the next round but message is not resized.         *)
Send ==
  /\ flow = "send"
  /\ \/ /\ \E len \in ParserLens : ResetCounters(len)
        /\ flow' = "loop"
        /\ UNCHANGED stopRequested
     \/ /\ flow' = "close"
        /\ stopRequested' = TRUE
        /\ UNCHANGED <<messageLastIdx, messageLength, messageMissingBytes>>
  /\ UNCHANGED <<role, message, messageSize, readVars, peerVars, histVars>>

(* mConn->close() and the close callback. *)
Close ==
  /\ flow = "close"
  /\ flow' = "done"
  /\ UNCHANGED <<role, stopRequested, frameVars, readVars, peerVars, histVars>>

Flow ==
  \/ Start \/ LoopHead \/ Read \/ ReadFails \/ CopyBytes \/ CopyDone
  \/ Parse \/ Reply \/ Send \/ Close

(* stopDataFlow, from any other thread, at any time. *)
StopDataFlow ==
  /\ ~stopRequested
  /\ stopRequested' = TRUE
  /\ UNCHANGED <<role, flow, frameVars, readVars, peerVars, histVars>>

(* The process at the other end. *)
PeerSend ==
  /\ peerOpen
  /\ sent < StreamLen
  /\ sent' = sent + 1
  /\ UNCHANGED <<role, flow, stopRequested, frameVars, readVars, peerOpen, histVars>>

PeerClose ==
  /\ peerOpen
  /\ peerOpen' = FALSE
  /\ UNCHANGED <<role, flow, stopRequested, frameVars, readVars, sent, histVars>>

(* The thread has returned: the system may rest. *)
Terminated ==
  /\ flow = "done"
  /\ UNCHANGED vars

Next == Flow \/ StopDataFlow \/ PeerSend \/ PeerClose \/ Terminated

Spec == Init /\ [][Next]_vars

(* The thread keeps being scheduled and the parser returns from its calls   *)
(* (rpcClient::writeMessage, which waits for a call, is the subject of      *)
(* RpcClient); the peer and the user promise nothing.                       *)
FairSpec == Spec /\ WF_vars(Flow)

-----------------------------------------------------------------------------
(* The type of every variable. *)
TypeOK ==
  /\ role \in Roles
  /\ flow \in {"start", "loop", "read", "copy", "parse", "reply", "send", "close", "done"}
  /\ stopRequested \in BOOLEAN
  /\ messageSize \in Nat
  /\ message \in [0 .. messageSize - 1 -> Int]
  /\ messageLastIdx \in Nat
  /\ messageLength \in Lens \cup {0}
  /\ messageMissingBytes \in Nat
  /\ bytesRead \in Nat
  /\ bytesParsed \in 0 .. bytesRead
  /\ flow = "read" => bytesParsed = 0
  /\ sent \in 0 .. StreamLen
  /\ received \in 0 .. sent
  /\ peerOpen \in BOOLEAN
  /\ cursor \in Nat

(* A thread that is still in the loop of dataFlow, past init(). *)
InLoop == flow \in {"loop", "read", "copy", "parse", "reply", "send"}

(* Bytes of the current sub-message that the parser has not got yet. *)
Held == IF flow = "reply" THEN 0 ELSE messageLastIdx

(* For a receiving parser: what is copied plus what is missing is the      *)
(* length asked for, message is exactly that long, the sub-message is      *)
(* complete exactly when it is parsed and answered, and every byte         *)
(* received is either handed over, or in message, or still in readBuffer.  *)
CountersAgree ==
  /\ messageLength > 0
  /\ messageSize = messageLength
  /\ messageLastIdx + messageMissingBytes = messageLength
  /\ (messageMissingBytes = 0) <=> (flow \in {"parse", "reply"})
  /\ cursor + Held + (bytesRead - bytesParsed) = received
  /\ flow = "loop" => bytesParsed = bytesRead
  /\ flow = "read" => bytesRead = 0 /\ bytesParsed = 0

(* The part of message filled so far holds the bytes that follow the       *)
(* cursor, in stream order, however the reads were cut.                    *)
BytesInOrder ==
  flow # "reply" => \A i \in 0 .. messageLastIdx - 1 : message[i] = cursor + i

ReceiverFraming ==
  InLoop /\ role = "receiver" => CountersAgree /\ BytesInOrder /\ flow # "send"

(* A sending parser never reaches the code that reads. *)
SenderFraming ==
  InLoop /\ role = "sender" => messageLength = 0 /\ flow \in {"loop", "send"}

(* Framing: what cutting the stream relies on between any two steps of the *)
(* thread.                                                                 *)
Framing ==
  /\ flow = "start" => cursor = 0 /\ received = 0 /\ bytesRead = 0 /\ bytesParsed = 0
  /\ ReceiverFraming
  /\ SenderFraming

(* std::copy never writes behind the end of message: the precondition of   *)
(* the copy to message.begin() + messageLastIdx, which nothing checks.     *)
CopyInBounds ==
  flow = "copy" /\ bytesParsed < bytesRead =>
    messageLastIdx + TransferredBytes <= messageSize

(* Refinement: a manager whose parser always receives or always sends      *)
(* gives it the stream cut into consecutive sub-messages, see              *)
(* SubMessageStream.                                                       *)
StreamTurn ==
  IF flow \in {"close", "done"} THEN "ended"
  ELSE IF flow = "reply" THEN "answer" ELSE "parse"

Stream == INSTANCE SubMessageStream WITH turn <- StreamTurn

StreamSpec == Stream!Spec

(* A sub-message of which every byte has been sent is handed to the        *)
(* parser, unless the flow is stopped or the peer goes away.               *)
SubMessageParsed ==
  \A k \in 0 .. StreamLen :
    (role = "receiver" /\ flow \in {"loop", "read", "copy"}
       /\ cursor = k /\ sent >= cursor + messageLength)
      ~> (cursor > k \/ stopRequested \/ ~peerOpen)

(* A receiving flow ends after the peer has closed: the bytes that were    *)
(* under way are drained and the failing read leaves the loop.             *)
PeerCloseEndsFlow == (role = "receiver" /\ ~peerOpen) ~> flow = "done"

=============================================================================
