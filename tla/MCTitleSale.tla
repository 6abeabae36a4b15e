------------------------------ MODULE MCTitleSale ------------------------------
(***************************************************************************)
(* The instance of TitleSale for TLC: one title and two orders for it, by  *)
(* different buyers.                                                       *)
(***************************************************************************)
EXTENDS TitleSale, TLC

CONSTANTS o1, o2, b1, b2

MCBuyerOf == o1 :> b1 @@ o2 :> b2

(* Requests of a kind are interchangeable, and so are the two orders with  *)
(* their buyers.                                                           *)
Swap == o1 :> o2 @@ o2 :> o1 @@ b1 :> b2 @@ b2 :> b1
Symmetry == Permutations(Drivers) \cup Permutations(Exports) \cup {Swap}

(* The state after a first export that nothing interfered with, so that    *)
(* all requests are left for the sales.                                    *)
Exported ==
    /\ rail \in {"base", "solana"}
    /\ owner = Seller /\ pending = {} /\ sold = None
    /\ status = [o \in Orders |-> "unpaid"]
    /\ saga = [o \in Orders |-> "none"]
    /\ wraps = {Seller} /\ owners = {Seller} /\ audit = {}
    /\ mirror = [status |-> "minted", owner |-> Seller]
    /\ driver = [d \in Drivers |-> NoRun]
    /\ refund = [r \in Refunds |-> NoRefund]
    /\ export = [e \in Exports |-> NoExport]
    /\ calls = 0 /\ faults = 0
    /\ cause = [o \in Orders |-> {}] /\ stale = FALSE /\ torn = {}

MCInit == Init \/ Exported
MCSpec == MCInit /\ [][Next]_vars
===============================================================================
