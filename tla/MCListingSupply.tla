---------------------------- MODULE MCListingSupply ----------------------------
(***************************************************************************)
(* Instances of ListingSupply for TLC.                                     *)
(***************************************************************************)
EXTENDS ListingSupply, TLC

(* Orders, requests and refund handlers are interchangeable (safety runs   *)
(* only).                                                                  *)
Symmetry == Permutations(Orders) \cup Permutations(Calls) \cup Permutations(Refunders)
===============================================================================
