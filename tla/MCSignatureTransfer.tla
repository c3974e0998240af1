------------------------- MODULE MCSignatureTransfer -------------------------
(***************************************************************************)
(* Values for the runs of SignatureTransfer: every type of signature with  *)
(* values of every type, of lengths from 0 to one above the limit.         *)
(***************************************************************************)
EXTENDS SignatureTransfer

Value(type, val) == [type |-> type, val |-> val]

Threes(n) == [k \in 1 .. n |-> 3]

(* Numbers of one and two digits; arrays below, at and above the limit. *)
NumberValues == {Value("i", 3), Value("i", 9)}
ArrayValues == {Value("I", arr) : arr \in {<<>>, <<9, 3>>, Threes(Radix - 1), Threes(Radix), Threes(Radix + 1)}}

(* Strings: any bytes, also a zero and a leading digit with nothing after. *)
Strings == {<<>>, <<0, 3>>, <<Lead>>, Threes(Radix), Threes(Radix + 1)}
StringValues == {Value("s", str) : str \in Strings}
TooLongs == [k \in 1 .. Radix |-> Threes(Radix + 1)]
StringsValues == {Value("S", arr) : arr \in {<<>>, <<<<>>, <<3, 4>>>>, <<Threes(Radix), <<3>>>>, TooLongs}}

(* Wide strings: characters of one and of two digits, and a zero. *)
WideValues == {Value("w", str) : str \in {<<>>, <<3, 9>>, <<0, 3>>, <<9, 9, 9, 9>>}}
WidesValues == {Value("W", arr) : arr \in {<<>>, <<<<9>>, <<>>>>, <<<<3, Lead>>, <<4>>>>}}

GoValues == NumberValues \cup ArrayValues \cup StringValues \cup StringsValues
CppValues == GoValues \cup WideValues \cup WidesValues

(* The value after the first one shows where reading the first one ended. *)
LastValues == {Value("i", 9), Value("s", <<4>>)}

Pairs(Values) ==
  {<<<<type>>, <<value>>>> : type \in SignatureTypes, value \in Values}
    \cup {<<<<type, last.type>>, <<value, last>>>> :
            type \in SignatureTypes, value \in Values, last \in LastValues}

MCCppCases == Pairs(CppValues)
MCGoCases ==
  Pairs(GoValues)
    \cup {<<<<"i">>, <<>>>>, <<<<>>, <<Value("i", 3)>>>>, <<<<"i">>, <<Value("i", 3), Value("i", 9)>>>>}
MCOlds == {<<>>, [k \in 1 .. 2 * Radix |-> 5]}
=============================================================================
