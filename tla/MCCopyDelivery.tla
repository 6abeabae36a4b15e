---------------------------- MODULE MCCopyDelivery ----------------------------
(***************************************************************************)
(* Instances of CopyDelivery for TLC.                                      *)
(***************************************************************************)
EXTENDS CopyDelivery, TLC

CONSTANTS Alice, Bob

(* One order.                                                              *)
OneBuyer == 1 :> Alice

(* Two orders of two buyers, and two of the same buyer (a re-buy).         *)
BobThenAlice == (1 :> Bob) @@ (2 :> Alice)
SameBuyer    == (1 :> Alice) @@ (2 :> Alice)

Symmetry == Permutations(Refunders)
===============================================================================
