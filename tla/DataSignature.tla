---------------------------- MODULE DataSignature ----------------------------
(***************************************************************************)
(* The C++ codec, include/rpcmple/dataSignature.h with the conversions of  *)
(* rpcmple.h: toBinary writes values into a vector as the types of the     *)
(* signature say, fromBinary reads them back.                              *)
(*                                                                         *)
(* A message is a sequence of digits in base Radix, the least significant  *)
(* one first.  A length takes one digit and a number (int64, uint64 and    *)
(* double are only copied) two; in the code these are 2 and 8 bytes.  So   *)
(* Radix stands for 65536, the limit of a length.  A character of a string *)
(* is one digit, a wide character one or two, as in UTF-8.                 *)
(*                                                                         *)
(* Types: "i" a number (i, u, d), "I" numbers (I, U, D), "s" a string, "S" *)
(* strings, "w" a wide string, "W" wide strings, "v" any of these.         *)
(***************************************************************************)
EXTENDS Integers, SequencesExt

CONSTANT Radix  \* base of a digit, and the limit that lengths are checked against

ASSUME DSAssumption == Radix \in Nat /\ Radix > 7

(* The byte that marks the type of a variant. *)
Tags == [i |-> 1, I |-> 2, s |-> 3, S |-> 4, w |-> 5, W |-> 6]

Indexes(n) == [k \in 1 .. n |-> k]

-----------------------------------------------------------------------------
(* uint64ToBytes and its siblings, and uint16ToBytes, which truncates. *)
NumberBytesSwapped(n) == <<n \div Radix, n % Radix>>  \* mutant of NumberBytes
NumberBytes(n) == <<n % Radix, n \div Radix>>
LengthBytes(n) == <<n % Radix>>

(* UTF-8: a wide character below Lead is its own digit, any other is the   *)
(* leading digit and a second one, which is neither zero nor leading.      *)
Lead == Radix - 1

WideBytes(c) == IF c < Lead THEN <<c>> ELSE <<Lead, c - Lead + 1>>

(* converter.to_bytes *)
ToBytes(str) == FlattenSeq([k \in DOMAIN str |-> WideBytes(str[k])])

(* byteVal.c_str(): the string ends at the first zero. *)
CString(bytes) ==
  LET zero == SelectInSeq(bytes, LAMBDA d : d = 0)
  IN IF zero = 0 THEN bytes ELSE SubSeq(bytes, 1, zero - 1)

(* converter.from_bytes raises an exception at a leading digit that is not *)
(* followed by a second one.                                               *)
WellFormed(bytes) ==
  \A k \in DOMAIN bytes : bytes[k] = Lead => k < Len(bytes) /\ bytes[k + 1] \notin {0, Lead}

FromBytes(bytes) ==
  LET wide[k \in 1 .. Len(bytes) + 1] ==
        IF k > Len(bytes) THEN <<>>
        ELSE IF bytes[k] = Lead THEN <<Lead + bytes[k + 1] - 1>> \o wide[k + 2]
        ELSE <<bytes[k]>> \o wide[k + 1]
  IN wide[1]

-----------------------------------------------------------------------------
(* toBinary: what it has written so far.  overrun records that bytes were  *)
(* written behind the end of message, where they overwrite other memory.   *)
Writing(old) == [ok |-> TRUE, replyOffset |-> 0, message |-> old, overrun |-> FALSE]

Refuse(st) == [st EXCEPT !.ok = FALSE]

(* if (message.size() < replyOffset + n) message.resize(message.size() + n) *)
Grow(st, n) ==
  IF Len(st.message) < st.replyOffset + n
  THEN [st EXCEPT !.message = @ \o [k \in 1 .. n |-> 0]]
  ELSE st

(* Copies bytes to message.data() + replyOffset and goes on by n. *)
Copy(st, bytes, n) ==
  [st EXCEPT
     !.message = [k \in DOMAIN @ |->
                    IF k \in st.replyOffset + 1 .. st.replyOffset + Len(bytes)
                    THEN bytes[k - st.replyOffset] ELSE @[k]],
     !.overrun = @ \/ st.replyOffset + Len(bytes) > Len(st.message),
     !.replyOffset = @ + n]

Put(st, bytes) == Copy(Grow(st, Len(bytes)), bytes, Len(bytes))

TooLongOffByOne(n) == n >= Radix  \* mutant of TooLong
TooLong(n) == n > Radix

(* A length; the vector has grown before the length is refused. *)
PutLength(st, n) ==
  IF TooLong(n) THEN Refuse(Grow(st, 1)) ELSE Put(st, LengthBytes(n))

PutNumber(st, n) == Put(st, NumberBytes(n))

(* The vector grows by the truncated length, the whole string is copied. *)
PutString(st, str) ==
  LET start == PutLength(st, Len(str))
      size == Len(str) % Radix
  IN IF start.ok THEN Copy(Grow(start, size), str, size) ELSE start

PutWide(st, str) == PutString(st, ToBytes(str))

(* An element of an array, by the type of the elements. *)
PutOne(st, type, val) ==
  CASE type = "i" -> PutNumber(st, val)
    [] type = "s" -> PutString(st, val)
    [] type = "w" -> PutWide(st, val)

(* As many of the elements as the truncated length says. *)
PutEach(st, arr, type) ==
  LET start == PutLength(st, Len(arr))
  IN IF ~start.ok THEN start
     ELSE FoldLeft(LAMBDA acc, k : IF acc.ok THEN PutOne(acc, type, arr[k]) ELSE acc,
                   start, Indexes(Len(arr) % Radix))

PutNumbers(st, arr) == PutEach(st, arr, "i")

PutStrings(st, arr) == PutEach(st, arr, "s")

PutWides(st, arr) == PutEach(st, arr, "w")

(* One value by its type; a value of another type is refused. *)
PutTyped(st, type, value) ==
  IF type # value.type THEN Refuse(st)
  ELSE CASE type = "i" -> PutNumber(st, value.val)
         [] type = "I" -> PutNumbers(st, value.val)
         [] type = "s" -> PutString(st, value.val)
         [] type = "S" -> PutStrings(st, value.val)
         [] type = "w" -> PutWide(st, value.val)
         [] type = "W" -> PutWides(st, value.val)

(* The type a variant is marked with: a wide string is marked as a string. *)
VariantMark(type) == CASE type = "w" -> "s" [] type = "W" -> "S" [] OTHER -> type

PutVariant(st, value) ==
  PutTyped(Put(st, <<Tags[VariantMark(value.type)]>>), value.type, value)

(* One value by its type in the signature. *)
PutValue(st, type, value) ==
  IF type = "v" THEN PutVariant(st, value) ELSE PutTyped(st, type, value)

(* Mutant of ToBinary: what was in message before is not cut off. *)
ToBinaryNoTrim(signature, rets, old) ==
  FoldLeft(LAMBDA st, k : IF st.ok THEN PutValue(st, signature[k], rets[k]) ELSE st,
           Writing(old), Indexes(Len(signature)))

(* dataSignature::toBinary; old is what message holds before: the last     *)
(* message, or zeros.  Its callers have compared the number of values.     *)
ToBinary(signature, rets, old) ==
  LET end == FoldLeft(LAMBDA st, k : IF st.ok THEN PutValue(st, signature[k], rets[k]) ELSE st,
                      Writing(old), Indexes(Len(signature)))
  IN IF end.ok THEN [end EXCEPT !.message = SubSeq(@, 1, end.replyOffset)] ELSE end

-----------------------------------------------------------------------------
(* fromBinary: what has been read, from which offset to go on.  A wide     *)
(* string that is not well formed raises an exception.                     *)
Got(offset, val) == [end |-> "ok", offset |-> offset, val |-> val]
Incomplete == [end |-> "incomplete", offset |-> 0, val |-> <<>>]
Raised == [end |-> "raised", offset |-> 0, val |-> <<>>]

(* Mutant of GetNumber: a message that ends inside the number is accepted. *)
GetNumberUnchecked(message, offset) ==
  IF Len(message) - offset < 1 THEN Incomplete
  ELSE Got(offset + 1, message[offset + 1])

GetNumber(message, offset) ==
  IF Len(message) - offset < 2 THEN Incomplete
  ELSE Got(offset + 2, message[offset + 1] + Radix * message[offset + 2])

GetLength(message, offset) ==
  IF Len(message) - offset < 1 THEN Incomplete ELSE Got(offset + 1, message[offset + 1])

GetString(message, offset) ==
  LET len == GetLength(message, offset)
  IN IF len.end # "ok" THEN len
     ELSE IF Len(message) - len.offset < len.val THEN Incomplete
     ELSE Got(len.offset + len.val, SubSeq(message, len.offset + 1, len.offset + len.val))

GetWide(message, offset) ==
  LET str == GetString(message, offset)
      bytes == CString(str.val)
  IN IF str.end # "ok" THEN str
     ELSE IF ~WellFormed(bytes) THEN Raised
     ELSE Got(str.offset, FromBytes(bytes))

(* An element of an array, by the type of the elements. *)
GetOne(message, offset, type) ==
  CASE type = "i" -> GetNumber(message, offset)
    [] type = "s" -> GetString(message, offset)
    [] type = "w" -> GetWide(message, offset)

(* What has been read so far and one more value, if both are whole. *)
Followed(acc, one) ==
  IF acc.end # "ok" THEN acc
  ELSE IF one.end # "ok" THEN one
  ELSE Got(one.offset, Append(acc.val, one.val))

(* The elements one after the other, from a length that comes first. *)
GetEach(message, offset, type) ==
  LET len == GetLength(message, offset)
  IN IF len.end # "ok" THEN len
     ELSE FoldLeft(LAMBDA acc, k : Followed(acc, GetOne(message, acc.offset, type)),
                   Got(len.offset, <<>>), Indexes(len.val))

GetNumbers(message, offset) == GetEach(message, offset, "i")

GetStrings(message, offset) == GetEach(message, offset, "s")

GetWides(message, offset) == GetEach(message, offset, "w")

GetTyped(message, offset, type) ==
  CASE type = "i" -> GetNumber(message, offset)
    [] type = "I" -> GetNumbers(message, offset)
    [] type = "s" -> GetString(message, offset)
    [] type = "S" -> GetStrings(message, offset)
    [] type = "w" -> GetWide(message, offset)
    [] type = "W" -> GetWides(message, offset)

(* The type that the next value has: a variant is marked with its own. *)
TypeAt(message, offset, type) ==
  IF type # "v" THEN Got(offset, type)
  ELSE IF Len(message) - offset < 1 THEN Incomplete
  ELSE IF message[offset + 1] \notin {Tags[t] : t \in DOMAIN Tags} THEN Incomplete
  ELSE Got(offset + 1, CHOOSE t \in DOMAIN Tags : Tags[t] = message[offset + 1])

(* The value of a type, together with the type. *)
GetMarked(message, offset, type) ==
  LET one == GetTyped(message, offset, type)
  IN IF one.end # "ok" THEN one ELSE Got(one.offset, [type |-> type, val |-> one.val])

(* One value by its type in the signature. *)
GetValue(message, offset, type) ==
  LET mark == TypeAt(message, offset, type)
  IN IF mark.end # "ok" THEN mark ELSE GetMarked(message, mark.offset, mark.val)

(* dataSignature::fromBinary; what follows the last value is not looked at. *)
FromBinary(signature, message) ==
  FoldLeft(LAMBDA acc, k : Followed(acc, GetValue(message, acc.offset, signature[k])),
           Got(0, <<>>), Indexes(Len(signature)))

=============================================================================
