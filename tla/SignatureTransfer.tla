-------------------------- MODULE SignatureTransfer --------------------------
(***************************************************************************)
(* One message between two processes: the sender writes values with the    *)
(* codec of its language, the receiver reads them with its own, and both   *)
(* use the same signature.  The receiver gets the bytes as they are, which *)
(* is what the managers see to.                                            *)
(***************************************************************************)
EXTENDS GoDataSignature

CONSTANTS
  CppCases,  \* pairs of a signature and values that a C++ program may pass
  GoCases,   \* the same for a Go program
  Olds       \* what the vector of toBinary may hold from the message before

(* What programs pass: the types of a signature, and values of the types   *)
(* that the language has.  A wide character has at most the two digits     *)
(* that WideBytes writes.                                                  *)
SignatureTypes == DOMAIN Tags \cup {"v"}

Digits == 0 .. Radix - 1
Numbers == 0 .. Radix * Radix - 1
WideChars == 0 .. Lead + Radix - 3

IsGoValue(value) ==
  /\ value = [type |-> value.type, val |-> value.val]
  /\ CASE value.type = "i" -> value.val \in Numbers
       [] value.type = "I" -> value.val \in Seq(Numbers)
       [] value.type = "s" -> value.val \in Seq(Digits)
       [] value.type = "S" -> value.val \in Seq(Seq(Digits))
       [] OTHER -> FALSE

IsCppValue(value) ==
  \/ IsGoValue(value)
  \/ /\ value = [type |-> value.type, val |-> value.val]
     /\ \/ value.type = "w" /\ value.val \in Seq(WideChars)
        \/ value.type = "W" /\ value.val \in Seq(Seq(WideChars))

(* The callers in C++ compare the number of values; Go's ToBinary does. *)
ASSUME STAssumption ==
  /\ \A case \in CppCases :
       /\ case[1] \in Seq(SignatureTypes)
       /\ Len(case[2]) = Len(case[1]) /\ DOMAIN case[2] = 1 .. Len(case[2])
       /\ \A k \in DOMAIN case[2] : IsCppValue(case[2][k])
  /\ \A case \in GoCases :
       /\ case[1] \in Seq(SignatureTypes)
       /\ Len(case[2]) \in Nat /\ DOMAIN case[2] = 1 .. Len(case[2])
       /\ \A k \in DOMAIN case[2] : IsGoValue(case[2][k])
  /\ \A bytes \in Olds : bytes \in Seq(Digits)

VARIABLES
  sender, receiver,   \* the languages
  signature, values,  \* what is to be transferred
  old,                \* what the vector of a C++ sender holds before
  stage,              \* how far the transfer is, or how it ended
  message,            \* the bytes written
  overrun,            \* bytes were written behind the end of the vector
  received            \* the values read

inputs == <<sender, receiver, signature, values, old>>
vars == <<inputs, stage, message, overrun, received>>

Init ==
  /\ receiver \in {"cpp", "go"}
  /\ \/ /\ sender = "cpp"
        /\ \E case \in CppCases : signature = case[1] /\ values = case[2]
        /\ old \in Olds
     \/ /\ sender = "go"
        /\ \E case \in GoCases : signature = case[1] /\ values = case[2]
        /\ old = <<>>
  /\ stage = "start"
  /\ message = <<>>
  /\ overrun = FALSE
  /\ received = <<>>

CppEncode ==
  /\ stage = "start"
  /\ sender = "cpp"
  /\ LET st == ToBinary(signature, values, old) IN
       /\ stage' = IF st.ok THEN "sent" ELSE "refused"
       /\ message' = st.message
       /\ overrun' = st.overrun
  /\ UNCHANGED <<inputs, received>>

GoEncode ==
  /\ stage = "start"
  /\ sender = "go"
  /\ LET st == GoToBinary(signature, values) IN
       /\ stage' = IF st.ok THEN "sent" ELSE "refused"
       /\ message' = st.body
  /\ UNCHANGED <<inputs, overrun, received>>

Received(bytes) ==
  IF receiver = "cpp" THEN FromBinary(signature, bytes) ELSE GoFromBinary(signature, bytes)

Decode ==
  /\ stage = "sent"
  /\ LET got == Received(message) IN
       /\ stage' = got.end
       /\ received' = got.val
  /\ UNCHANGED <<inputs, message, overrun>>

Next == CppEncode \/ GoEncode \/ Decode

Spec == Init /\ [][Next]_vars

-----------------------------------------------------------------------------
(* The lengths that a value has: of its text or array, and of the texts in *)
(* an array.                                                               *)
Texts(value) ==
  CASE value.type = "s" -> {value.val}
    [] value.type = "w" -> {ToBytes(value.val)}
    [] value.type = "S" -> ToSet(value.val)
    [] value.type = "W" -> {ToBytes(str) : str \in ToSet(value.val)}
    [] OTHER -> {}

Lengths(value) ==
  {Len(text) : text \in Texts(value)}
    \cup IF value.type \in {"I", "S", "W"} THEN {Len(value.val)} ELSE {}

AllLengths == UNION {Lengths(values[k]) : k \in DOMAIN values}

(* A length of exactly Radix passes the check and is written as 0. *)
AtLimit == Radix \in AllLengths

(* What a value says, in whatever language. *)
Plain(value) ==
  CASE value.type = "w" -> [type |-> "s", val |-> ToBytes(value.val)]
    [] value.type = "W" -> [type |-> "S", val |-> [k \in DOMAIN value.val |-> ToBytes(value.val[k])]]
    [] OTHER -> value

(* The format, stated for what values say. *)
TextFormat(text) == <<Len(text)>> \o text

NumberFormat(n) == <<n % Radix, n \div Radix>>

ValueFormat(value) ==
  LET plain == Plain(value) IN
    CASE plain.type = "i" -> NumberFormat(plain.val)
      [] plain.type = "s" -> TextFormat(plain.val)
      [] plain.type = "I" ->
           <<Len(plain.val)>> \o FlattenSeq([k \in DOMAIN plain.val |-> NumberFormat(plain.val[k])])
      [] plain.type = "S" ->
           <<Len(plain.val)>> \o FlattenSeq([k \in DOMAIN plain.val |-> TextFormat(plain.val[k])])

Format ==
  FlattenSeq([k \in DOMAIN values |->
                IF signature[k] = "v"
                THEN <<Tags[Plain(values[k]).type]>> \o ValueFormat(values[k])
                ELSE ValueFormat(values[k])])

(* What is sent is the format and nothing else: both languages write the   *)
(* same bytes, and nothing of an earlier message in the same vector is left *)
(* behind.                                                                 *)
FormatExact ==
  stage # "start" /\ stage # "refused" /\ ~AtLimit => message = Format /\ ~overrun

(* The lengths that are compared with the limit.  An array of exactly      *)
(* Radix elements is written by C++ as one of none: the loop runs over the *)
(* truncated length, and no element is looked at.                          *)
Compared(value) ==
  IF sender = "cpp" /\ value.type \in {"S", "W"} /\ Len(value.val) = Radix
  THEN {Radix} ELSE Lengths(value)

(* The values that are refused are those of another type than the          *)
(* signature says and those with a length above the limit, and in Go also  *)
(* more or fewer values than the signature has types.                      *)
FitsType(k) ==
  \/ signature[k] = "v"
  \/ values[k].type = IF sender = "go" THEN GoType(signature[k]) ELSE signature[k]

RefusedExactly ==
  stage # "start" =>
    (stage = "refused" <=> \/ Len(signature) # Len(values)
                           \/ \E k \in DOMAIN values : ~FitsType(k)
                           \/ \E k \in DOMAIN values : \E n \in Compared(values[k]) : n > Radix)

(* A text that a C++ receiver makes a wide string of must be well formed,  *)
(* or the conversion raises an exception, and hold no zero, or it is cut.  *)
Convertible(k) ==
  receiver = "cpp" /\ signature[k] \in {"w", "W"} =>
    \A text \in Texts(values[k]) : WellFormed(text) /\ 0 \notin ToSet(text)

(* Every value that is sent is read, and says the same, in each of the     *)
(* four combinations of languages.                                         *)
TransferIntact ==
  stage \in {"ok", "incomplete", "raised"} /\ ~AtLimit /\ (\A k \in DOMAIN values : Convertible(k)) =>
    /\ stage = "ok"
    /\ Len(received) = Len(values)
    /\ \A k \in DOMAIN values : Plain(received[k]) = Plain(values[k])

(* A message that is cut short is never taken for a whole one. *)
PrefixRefused ==
  stage = "sent" /\ ~AtLimit =>
    \A n \in 0 .. Len(message) - 1 : Received(SubSeq(message, 1, n)).end # "ok"

=============================================================================
