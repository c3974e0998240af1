------------------------------ MODULE MCExchange ------------------------------
(***************************************************************************)
(* The procedures of the runs of Exchange.  Base is 3: procedure 0 has     *)
(* arguments below, at and above the limit of a length and an empty        *)
(* return, procedure 1 the other way round.  A publisher has the signature *)
(* of the arguments of either.                                             *)
(***************************************************************************)
EXTENDS Exchange

MCArgLens == 0 :> {1, 3, 4} @@ 1 :> {0}
MCRetLens == 0 :> {0} @@ 1 :> {1, 2, 3, 4}

=============================================================================
