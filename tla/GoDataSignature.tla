--------------------------- MODULE GoDataSignature ---------------------------
(***************************************************************************)
(* The Go codec, rpcmple_go/datasignature.go, with the digits and types of *)
(* DataSignature.  Go has no wide strings: "w" and "W" are strings, and a  *)
(* value is a number, numbers, a string or strings.                        *)
(*                                                                         *)
(* ToBinary appends to a bytes.Buffer, so nothing can be overrun and       *)
(* nothing old is left behind; its loops run over the value itself and not *)
(* over the truncated length.                                              *)
(***************************************************************************)
EXTENDS DataSignature

Appending == [ok |-> TRUE, body |-> <<>>]

Abandon(st) == [st EXCEPT !.ok = FALSE]

Add(st, bytes) == [st EXCEPT !.body = @ \o bytes]

AddLength(st, n) == IF TooLong(n) THEN Abandon(st) ELSE Add(st, LengthBytes(n))

AddNumber(st, n) == Add(st, NumberBytes(n))

AddString(st, str) ==
  LET start == AddLength(st, Len(str)) IN IF start.ok THEN Add(start, str) ELSE start

(* An element of a slice, by the type of the elements. *)
AddOne(st, type, val) == IF type = "i" THEN AddNumber(st, val) ELSE AddString(st, val)

AddEach(st, arr, type) ==
  FoldLeft(LAMBDA acc, k : IF acc.ok THEN AddOne(acc, type, arr[k]) ELSE acc,
           AddLength(st, Len(arr)), Indexes(Len(arr)))

(* The type of a Go value that a type of the signature asks for. *)
GoType(type) == CASE type = "w" -> "s" [] type = "W" -> "S" [] OTHER -> type

AddTyped(st, type, value) ==
  IF GoType(type) # value.type THEN Abandon(st)
  ELSE CASE value.type = "i" -> AddNumber(st, value.val)
         [] value.type = "I" -> AddEach(st, value.val, "i")
         [] value.type = "s" -> AddString(st, value.val)
         [] value.type = "S" -> AddEach(st, value.val, "s")

(* One value by its type in the signature; a variant is marked with its own. *)
AddValue(st, type, value) ==
  IF type = "v" THEN AddTyped(Add(st, <<Tags[value.type]>>), value.type, value)
  ELSE AddTyped(st, type, value)

(* DataSignature.ToBinary *)
GoToBinary(ds, arguments) ==
  IF Len(ds) # Len(arguments) THEN Abandon(Appending)
  ELSE FoldLeft(LAMBDA st, k : IF st.ok THEN AddValue(st, ds[k], arguments[k]) ELSE st,
                Appending, Indexes(Len(ds)))

(* One value by its type in the signature; a string is kept as it is. *)
GoGetValue(message, offset, type) ==
  LET mark == TypeAt(message, offset, type)
  IN IF mark.end # "ok" THEN mark ELSE GetMarked(message, mark.offset, GoType(mark.val))

(* DataSignature.FromBinary: reads like that of C++, with other errors. *)
GoFromBinary(ds, message) ==
  FoldLeft(LAMBDA acc, k : Followed(acc, GoGetValue(message, acc.offset, ds[k])),
           Got(0, <<>>), Indexes(Len(ds)))

=============================================================================
