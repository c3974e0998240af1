-------------------------- MODULE GoMessageManager --------------------------
(***************************************************************************)
(* The Go message manager, rpcmple_go/messagemanager.go: the goroutine     *)
(* that sends the first message and then runs dataFlow, and StopDataFlow,  *)
(* called from another goroutine.  It has the same task as the C++ one,    *)
(* see MessageManager and SubMessageStream, but collects a sub-message in  *)
(* a growing bytes.Buffer, takes messageLength bytes at a time from what   *)
(* was read, and keeps its connection open when the first message fails.   *)
(*                                                                         *)
(* Abstractions as in MessageManager: a byte is its position in the stream *)
(* of the peer, the parser is any parser, a read returns any number of the *)
(* bytes that have arrived.                                                *)
(***************************************************************************)
EXTENDS Integers

CONSTANTS
  StreamLen,  \* bound: how many bytes the peer sends
  Lens,       \* the positive lengths a parser may ask for
  ReadCap,    \* len(readBufferRaw), 16777220 in the code
  Roles       \* kinds of parsers: "receiver" (rpcClient, dataSubscriber with a
              \* non-empty signature) or "sender" (dataPublisher)

ASSUME GoMMAssumption ==
  /\ StreamLen \in Nat
  /\ Lens \subseteq Nat \ {0}
  /\ ReadCap \in Nat \ {0}
  /\ Roles \subseteq {"receiver", "sender"}

VARIABLES
  role,                 \* which kind of parser the manager serves
  flow,                 \* where the data flow goroutine is
  stopRequest,
  readMessage,          \* the bytes collected for the sub-message, 0-indexed
  messageLastIdx,       \* readMessage.Len()
  messageLength,        \* length the parser asked for
  messageMissingBytes,  \* bytes still to come for this sub-message
  buffered,             \* readBuffer.Len(): bytes read but not collected yet
  sent,                 \* bytes the peer has written so far
  received,             \* bytes read from the connection so far
  peerOpen,             \* the peer has neither closed nor reset the connection
  cursor,               \* history: bytes handed to ParseMessage so far
  delivered             \* history: the last sub-message handed to ParseMessage

frameVars == <<readMessage, messageLastIdx, messageLength, messageMissingBytes>>
readVars  == <<buffered, received>>
peerVars  == <<sent, peerOpen>>
histVars  == <<cursor, delivered>>
vars == <<role, flow, stopRequest, frameVars, readVars, peerVars, histVars>>

-----------------------------------------------------------------------------

ParserLens == IF role = "sender" THEN {0} ELSE Lens

ResetCounters(len) ==
  /\ messageLastIdx' = 0
  /\ messageLength' = len
  /\ messageMissingBytes' = len

(* Mutant of TransferredBytes: one byte is left behind at the end. *)
TransferredBytesShort ==
  IF buffered < messageLength /\ buffered > 1 THEN buffered - 1 ELSE 0

(* readBuffer.Next(messageLength): that many bytes, or all there are. *)
TransferredBytes == IF buffered < messageLength THEN buffered ELSE messageLength

(* Mutant of WriteReadMessage: what is missing is counted from the whole   *)
(* length, so the bytes of earlier rounds are forgotten.                   *)
WriteReadMessageForgets(n) ==
  /\ readMessage' = [i \in 0 .. messageLastIdx + n - 1 |->
                       IF i < messageLastIdx THEN readMessage[i]
                       ELSE (received - buffered) + (i - messageLastIdx)]
  /\ messageLastIdx' = messageLastIdx + n
  /\ messageMissingBytes' = messageLength - n
  /\ buffered' = buffered - n

(* readMessage.Write of the next n bytes of readBuffer. *)
WriteReadMessage(n) ==
  /\ readMessage' = [i \in 0 .. messageLastIdx + n - 1 |->
                       IF i < messageLastIdx THEN readMessage[i]
                       ELSE (received - buffered) + (i - messageLastIdx)]
  /\ messageLastIdx' = messageLastIdx + n
  /\ messageMissingBytes' = messageMissingBytes - n
  /\ buffered' = buffered - n

-----------------------------------------------------------------------------
(* NewMessageManager *)
Init ==
  /\ role \in Roles
  /\ flow = "start"
  /\ stopRequest = FALSE
  /\ readMessage = [i \in 0 .. -1 |-> 0]
  /\ messageLastIdx = 0
  /\ messageLength \in ParserLens
  /\ messageMissingBytes = messageLength
  /\ buffered = 0
  /\ sent = 0
  /\ received = 0
  /\ peerOpen = TRUE
  /\ cursor = 0
  /\ delivered = <<>>

(* StartDataFlowBlocking and StartDataFlowNonBlocking: a requester sends   *)
(* its first message; when SendMessage fails, produces nothing or too      *)
(* much, or the write fails, the function returns and never runs dataFlow. *)
Start ==
  /\ flow = "start"
  /\ \/ /\ flow' = "loop"
        /\ UNCHANGED stopRequest
     \/ /\ flow' = "done"
        /\ stopRequest' = TRUE
  /\ UNCHANGED <<role, frameVars, readVars, peerVars, histVars>>

(* for !mm.stopRequest: the only place where the flag is looked at. *)
LoopHead ==
  /\ flow = "loop"
  /\ flow' = IF stopRequest THEN "close"
             ELSE IF messageLength # 0 THEN "read" ELSE "send"
  /\ UNCHANGED <<role, stopRequest, frameVars, readVars, peerVars, histVars>>

(* mm.conn.Read returns some of the bytes that have arrived. *)
Read ==
  /\ flow = "read"
  /\ \E n \in 1 .. ReadCap :
       /\ received + n <= sent
       /\ received' = received + n
       /\ buffered' = n
  /\ flow' = "copy"
  /\ UNCHANGED <<role, stopRequest, frameVars, peerVars, histVars>>

(* mm.conn.Read returns an error or no bytes. *)
ReadFails ==
  /\ flow = "read"
  /\ ~peerOpen
  /\ flow' = "close"
  /\ UNCHANGED <<role, stopRequest, frameVars, readVars, peerVars, histVars>>

(* One round of for readBuffer.Len() > 0, up to ParseMessage. *)
CopyBytes ==
  /\ flow = "copy"
  /\ buffered > 0
  /\ WriteReadMessage(TransferredBytes)
  /\ flow' = IF messageMissingBytes - TransferredBytes = 0 THEN "parse" ELSE "copy"
  /\ UNCHANGED <<role, stopRequest, messageLength, received, peerVars, histVars>>

CopyDone ==
  /\ flow = "copy"
  /\ buffered = 0
  /\ flow' = "loop"
  /\ UNCHANGED <<role, stopRequest, frameVars, readVars, peerVars, histVars>>

(* Mutant of Parse: readMessage is not reset, so it is handed over again. *)
ParseNoReset ==
  /\ flow = "parse"
  /\ delivered' = readMessage
  /\ cursor' = cursor + messageLength
  /\ \/ /\ flow' = "copy"
        /\ messageMissingBytes' = messageLength
        /\ UNCHANGED stopRequest
     \/ /\ flow' = "loop"
        /\ stopRequest' = TRUE
        /\ UNCHANGED messageMissingBytes
  /\ UNCHANGED <<role, readMessage, messageLastIdx, messageLength, readVars, peerVars>>

(* ParseMessage gets all of readMessage; FALSE stops the flow.  On success *)
(* readMessage is reset; its next free index is reset after the answer.    *)
Parse ==
  /\ flow = "parse"
  /\ delivered' = readMessage
  /\ cursor' = cursor + messageLastIdx
  /\ \/ /\ flow' = "reply"
        /\ readMessage' = [i \in 0 .. -1 |-> 0]
        /\ UNCHANGED stopRequest
     \/ /\ flow' = "loop"
        /\ stopRequest' = TRUE
        /\ UNCHANGED readMessage
  /\ UNCHANGED <<role, messageLastIdx, messageLength, messageMissingBytes, readVars, peerVars>>

(* SendMessage and the write of what it produced; any failure breaks the   *)
(* inner loop with the stop flag set.                                      *)
Reply ==
  /\ flow = "reply"
  /\ \/ /\ \E len \in ParserLens : ResetCounters(len)
        /\ flow' = "copy"
        /\ UNCHANGED stopRequest
     \/ /\ flow' = "loop"
        /\ stopRequest' = TRUE
        /\ UNCHANGED <<messageLastIdx, messageLength, messageMissingBytes>>
  /\ UNCHANGED <<role, readMessage, readVars, peerVars, histVars>>

(* The branch for messageLength = 0: nothing to read, only to send. *)
Send ==
  /\ flow = "send"
  /\ \/ /\ \E len \in ParserLens : ResetCounters(len)
        /\ flow' = "loop"
        /\ UNCHANGED stopRequest
     \/ /\ flow' = "close"
        /\ stopRequest' = TRUE
        /\ UNCHANGED <<messageLastIdx, messageLength, messageMissingBytes>>
  /\ UNCHANGED <<role, readMessage, readVars, peerVars, histVars>>

(* mm.conn.Close() *)
Close ==
  /\ flow = "close"
  /\ flow' = "done"
  /\ UNCHANGED <<role, stopRequest, frameVars, readVars, peerVars, histVars>>

Flow ==
  \/ Start \/ LoopHead \/ Read \/ ReadFails \/ CopyBytes \/ CopyDone
  \/ Parse \/ Reply \/ Send \/ Close

(* StopDataFlow, from any other goroutine, at any time. *)
StopDataFlow ==
  /\ ~stopRequest
  /\ stopRequest' = TRUE
  /\ UNCHANGED <<role, flow, frameVars, readVars, peerVars, histVars>>

(* The process at the other end. *)
PeerSend ==
  /\ peerOpen
  /\ sent < StreamLen
  /\ sent' = sent + 1
  /\ UNCHANGED <<role, flow, stopRequest, frameVars, readVars, peerOpen, histVars>>

PeerClose ==
  /\ peerOpen
  /\ peerOpen' = FALSE
  /\ UNCHANGED <<role, flow, stopRequest, frameVars, readVars, sent, histVars>>

(* The goroutine has returned: the system may rest. *)
Terminated ==
  /\ flow = "done"
  /\ UNCHANGED vars

Next == Flow \/ StopDataFlow \/ PeerSend \/ PeerClose \/ Terminated

Spec == Init /\ [][Next]_vars

(* The goroutine keeps being scheduled; the peer and the user promise      *)
(* nothing, and the parser returns from every call.                        *)
FairSpec == Spec /\ WF_vars(Flow)

-----------------------------------------------------------------------------
(* The type of every variable; messageMissingBytes is a signed Go int and  *)
(* does become negative, see SubMessageParsed.  What readMessage holds is  *)
(* a part of Framing.                                                      *)
TypeOK ==
  /\ role \in Roles
  /\ flow \in {"start", "loop", "read", "copy", "parse", "reply", "send", "close", "done"}
  /\ stopRequest \in BOOLEAN
  /\ messageLastIdx \in Nat
  /\ messageLength \in Lens \cup {0}
  /\ messageMissingBytes \in Int
  /\ buffered \in 0 .. received
  /\ sent \in 0 .. StreamLen
  /\ received \in 0 .. sent
  /\ peerOpen \in BOOLEAN
  /\ cursor \in Nat

(* The goroutine is in the loop of dataFlow and will still look at bytes. *)
InLoop ==
  \/ flow \in {"read", "copy", "parse", "reply", "send"}
  \/ flow = "loop" /\ ~stopRequest

(* Bytes of the current sub-message that the parser has not got yet. *)
Held == IF flow = "reply" THEN 0 ELSE messageLastIdx

(* Framing: what is collected plus what is missing is the length asked for *)
(* (missing may be negative: too much was collected, and then the parser   *)
(* is not called), every byte received is handed over, or collected, or    *)
(* still in readBuffer, and what is collected follows the cursor.          *)
ReceiverFraming ==
  InLoop /\ role = "receiver" =>
    /\ flow # "send"
    /\ messageLength > 0
    /\ messageLastIdx + messageMissingBytes = messageLength
    /\ flow = "parse" => messageMissingBytes = 0
    /\ cursor + Held + buffered = received
    /\ flow \in {"loop", "read"} => buffered = 0
    /\ readMessage = [i \in 0 .. Held - 1 |-> cursor + i]

(* A sending parser never reaches the code that reads. *)
SenderFraming ==
  InLoop /\ role = "sender" => messageLength = 0 /\ flow \in {"loop", "send"}

Framing ==
  /\ flow = "start" => /\ cursor = 0 /\ received = 0 /\ buffered = 0 /\ messageLastIdx = 0
                       /\ messageMissingBytes = messageLength
                       /\ messageLength \in ParserLens
                       /\ readMessage = [i \in 0 .. -1 |-> 0]
  /\ ReceiverFraming
  /\ SenderFraming

(* Refinement: whatever ParseMessage gets is the next sub-message of the   *)
(* stream, however the reads were cut.                                     *)
StreamTurn ==
  IF flow \in {"close", "done"} \/ (flow = "loop" /\ stopRequest) THEN "ended"
  ELSE IF flow = "reply" THEN "answer" ELSE "parse"

Stream == INSTANCE SubMessageStream WITH turn <- StreamTurn

StreamSpec == Stream!Spec

(* A sub-message of which every byte has been sent is handed to the        *)
(* parser, unless the flow is stopped or the peer goes away: ParseMessage  *)
(* "gets called when a byte sequence of len returned by GetMessageLen is   *)
(* read from the Reader".                                                  *)
SubMessageParsed ==
  \A k \in 0 .. StreamLen :
    (role = "receiver" /\ flow \in {"loop", "read", "copy"}
       /\ cursor = k /\ sent >= cursor + messageLength)
      ~> (cursor > k \/ stopRequest \/ ~peerOpen)

(* What does hold: the same, unless the manager has collected more bytes   *)
(* than were missing.                                                      *)
ParsedUnlessOvershot ==
  \A k \in 0 .. StreamLen :
    (role = "receiver" /\ flow \in {"loop", "read", "copy"}
       /\ cursor = k /\ sent >= cursor + messageLength)
      ~> (cursor > k \/ messageMissingBytes < 0 \/ stopRequest \/ ~peerOpen)

=============================================================================
