------------------------------- MODULE OrderDag -------------------------------
(***************************************************************************)
(* The life cycle of a marketplace order, as order-orchestrator.ts states  *)
(* it: the statuses of marketplace_orders.status and the sanctioned edges  *)
(* between them.  Pure: no state, no actions.                              *)
(***************************************************************************)
EXTENDS Naturals

Status == {"created", "awaiting_payment", "paid", "delivering", "delivered",
           "settled", "refunding", "refunded", "failed", "expired"}

Transitions ==
    {<<"created", "awaiting_payment">>, <<"created", "expired">>,
     <<"created", "failed">>,
     <<"awaiting_payment", "paid">>, <<"awaiting_payment", "failed">>,
     <<"awaiting_payment", "expired">>,
     <<"paid", "delivering">>, <<"paid", "refunding">>, <<"paid", "failed">>,
     <<"delivering", "delivered">>, <<"delivering", "failed">>,
     <<"delivered", "settled">>, <<"delivered", "refunding">>,
     <<"settled", "refunding">>,
     <<"refunding", "refunded">>, <<"refunding", "failed">>}

CanTransition(from, to) == <<from, to>> \in Transitions

(* The states a payment may still move to 'paid'.                          *)
PrePaidStates == {"created", "awaiting_payment"}

(* What refundOrder treats as "already refunding".                         *)
AlreadyRefunding == {"refunding", "refunded"}

(* The statuses only a captured payment leads to.                          *)
PaidStates == {"paid", "delivering", "delivered", "settled"} \cup AlreadyRefunding
===============================================================================
