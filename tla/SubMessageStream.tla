-------------------------- MODULE SubMessageStream --------------------------
(***************************************************************************)
(* What a message manager promises to the parser that sits on top of it,   *)
(* with no buffers and no reads: the bytes of the connection are cut into  *)
(* consecutive sub-messages, each as long as the parser asked for, none    *)
(* lost, none twice, none shifted; after each sub-message the parser is    *)
(* asked for an answer before it gets the next one; once the flow has      *)
(* ended nothing is handed over any more.                                  *)
(*                                                                         *)
(* A byte is named by its position in the stream the peer writes.          *)
(* MessageManager (C++) and GoMessageManager (Go) are compared with it.    *)
(***************************************************************************)
EXTENDS Integers

CONSTANT Lens  \* the lengths a parser may ask for, all of them positive

VARIABLES
  cursor,     \* how many bytes of the stream have been handed to the parser
  delivered,  \* the last sub-message handed to the parser
  turn        \* "parse": next comes a sub-message; "answer": next comes the
              \* parser's answer to the last one; "ended": the flow is over

svars == <<cursor, delivered, turn>>

Init ==
  /\ cursor = 0
  /\ delivered = <<>>
  /\ turn = "parse"

(* The n bytes that follow the cursor, in order. *)
NextBytes(n) == [i \in 0 .. n - 1 |-> cursor + i]

(* The next sub-message, n bytes long; the parser takes it or rejects it. *)
Deliver(n) ==
  /\ turn = "parse"
  /\ delivered' = NextBytes(n)
  /\ cursor' = cursor + n
  /\ turn' \in {"answer", "ended"}

(* The parser has answered. *)
Answer ==
  /\ turn = "answer"
  /\ turn' = "parse"
  /\ UNCHANGED <<cursor, delivered>>

(* The flow ends: stop request, closed connection, failing parser. *)
End ==
  /\ turn' = "ended"
  /\ UNCHANGED <<cursor, delivered>>

Next ==
  \/ \E n \in Lens : Deliver(n)
  \/ Answer
  \/ End

Spec == Init /\ [][Next]_svars

=============================================================================
