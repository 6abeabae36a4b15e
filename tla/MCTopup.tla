-------------------------------- MODULE MCTopup --------------------------------
(***************************************************************************)
(* The instance of Topup for TLC: two payments that carry the reference of *)
(* one intent, a bare transfer, and an intent nobody pays but that any of  *)
(* the three may be confirmed for.                                         *)
(***************************************************************************)
EXTENDS Topup, TLC

CONSTANTS i1, i2, x1, x2, d

MCIntentOf == [x \in Payments |-> IF x = d THEN NoIntent ELSE i1]

(* Requests are interchangeable.                                           *)
Symmetry == Permutations(Sessions)
===============================================================================
