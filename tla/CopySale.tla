------------------------------- MODULE CopySale -------------------------------
(***************************************************************************)
(* What the marketplace promises about the sale of a copy, without the     *)
(* protocol: an open order is either closed unpaid or becomes owed to the  *)
(* buyer; what is owed is delivered, and can be refunded before or after;  *)
(* nothing that is owed to a servable buyer stays owed for ever.           *)
(***************************************************************************)
CONSTANTS Orders,       \* the orders
          Servable      \* those whose delivery can succeed

VARIABLE sale           \* sale[o]: the phase of order o

Phase == {"open", "closed", "owed", "delivered", "unwound"}

Init == sale = [o \in Orders |-> "open"]

Move(o, from, to) == sale[o] = from /\ sale' = [sale EXCEPT ![o] = to]

Close(o)   == Move(o, "open", "closed")
Capture(o) == Move(o, "open", "owed")
Deliver(o) == Move(o, "owed", "delivered")
Refund(o)  == Move(o, "owed", "unwound") \/ Move(o, "delivered", "unwound")

Next == \E o \in Orders : Close(o) \/ Capture(o) \/ Deliver(o) \/ Refund(o)

Fairness == \A o \in Servable : WF_sale(Deliver(o))

SafeSpec == Init /\ [][Next]_sale

Spec == SafeSpec /\ Fairness
===============================================================================
