----------------------------- MODULE CopyDelivery -----------------------------
(***************************************************************************)
(* Delivery of a paid copy of a memory pack, and its refund:               *)
(*                                                                         *)
(*   - the Stripe webhook, which records the payment event and then        *)
(*     advances the order (markOrderPaid), or unwinds it (refundOrder);    *)
(*   - the delivery sweeps (dispatchPendingDeliveries): the poller's, and  *)
(*     the nudges the webhook fires without waiting for them;              *)
(*   - grantCopy, which clones the pack's memories one insert at a time    *)
(*     and grants the entitlement last;                                    *)
(*   - clawbackCopy, which revokes, deletes the clones, frees the unit.    *)
(*                                                                         *)
(* Every database call of the code is one step, and what a handler read    *)
(* before an await it still holds after it.  The tables (status, events,   *)
(* ent, clones, ...) survive a crash; handlers and sweeps do not.          *)
(*                                                                         *)
(* One pack, every order with a buyer wallet (checkout requires one).      *)
(* Checkout only writes listing_kind = 'copy', so the dispatcher's title   *)
(* filter is not modelled.  'settled' and 'refunded' are never written.    *)
(***************************************************************************)
EXTENDS OrderDag, FiniteSets

CONSTANTS
    Orders,          \* order ids, numbered in the order of created_at
    Buyers, BuyerOf, \* the buyer wallet of each order
    PackSize,        \* number of member memories of the pack
    Encrypted,       \* do the members carry provider DEK wraps?
    Keyless,         \* buyers who have published no encryption key
    Poller,          \* the sweep of the delivery poller
    Nudges,          \* the sweeps fired by the webhook (bounds how many overlap)
    SweepLimit,      \* orders one sweep drains at most
    Refunders,       \* refund handlers that may run at the same time
    MaxRefunds,      \* bound: refund events and requests that arrive
    MaxFaults,       \* bound: crashes and rejected database calls
    NoOrder

Sweepers == {Poller} \cup Nudges
Members  == 1..PackSize

(* An encrypted pack cannot be sealed for a buyer without a key.           *)
Undeliverable == {o \in Orders : Encrypted /\ BuyerOf[o] \in Keyless}

ASSUME OrdersAssumption == Orders \subseteq Nat /\ NoOrder \notin Orders
ASSUME BuyersAssumption == BuyerOf \in [Orders -> Buyers]
ASSUME SizesAssumption ==
    /\ PackSize \in Nat \ {0}
    /\ SweepLimit \in Nat \ {0}
    /\ MaxRefunds \in Nat
    /\ MaxFaults \in Nat
    /\ Encrypted \in BOOLEAN
ASSUME ProcessesAssumption == Poller \notin Nudges

VARIABLES
    \* the database
    status,      \* marketplace_orders.status
    events,      \* orders whose payment_intent.succeeded event is recorded
    ent,         \* pack_entitlements: the buyer's copy_license row
    entOrder,    \* pack_entitlements.order_id
    clones,      \* clones[o][m]: copies of member m tagged with order o
    seals,       \* seals[o][m]: how many of those carry an owner DEK wrap
    releases,    \* how often order o's supply unit was handed back
    \* Stripe
    charged,     \* orders whose PaymentIntent has captured money
    asked,       \* orders with a refund event or request not yet answered 200
    \* handlers and sweeps in memory
    advancing,   \* webhook handlers between the event insert and the advance
    pc,          \* where each sweep is
    fresh,       \* what it has left of its snapshot: rows read as 'paid'
    resume,      \*   ... and rows read as 'delivering'
    cur,         \* the order it is delivering
    at,          \* the next member to clone
    gone,        \* sweeps whose last clone a clawback deleted before its seal
    rpc, rord, rseen, \* refund handlers: position, order, status read
    \* bounds and history
    refunds, faults,  \* how many arrived, how many happened
    cut,         \* orders whose clone loop was interrupted
    unguarded,   \* orders the re-entry guard does not protect: two sweeps had
                 \* them at once, or the probe failed with clones there
    missed,      \* orders whose refund update matched no row
    chased,      \* orders a sweep was at, or came back to, once refunding
    acked        \* orders with a refund answered 200

dbVars     == <<status, events, ent, entOrder, clones, seals, releases>>
sweepVars  == <<pc, fresh, resume, cur, at, gone>>
refundVars == <<rpc, rord, rseen>>
stripeVars == <<charged, asked, refunds>>
pastVars   == <<cut, unguarded, missed, chased, acked>>
vars == <<dbVars, sweepVars, refundVars, stripeVars, pastVars, advancing, faults>>

DeliveryPc == {"check", "probe", "clone", "seal", "grant", "mark"}
SweepPc  == {"idle", "start", "next", "expire"} \cup DeliveryPc
RefundPc == {"idle", "guard", "revoke", "purge", "release"}

Init ==
    /\ status   = [o \in Orders |-> "created"]
    /\ events   = {}
    /\ ent      = [b \in Buyers |-> "none"]
    /\ entOrder = [b \in Buyers |-> NoOrder]
    /\ clones   = [o \in Orders |-> [m \in Members |-> 0]]
    /\ seals    = [o \in Orders |-> [m \in Members |-> 0]]
    /\ releases = [o \in Orders |-> 0]
    /\ charged  = {}
    /\ asked    = {}
    /\ refunds  = 0
    /\ advancing = {}
    /\ pc       = [w \in Sweepers |-> "idle"]
    /\ fresh    = [w \in Sweepers |-> {}]
    /\ resume   = [w \in Sweepers |-> {}]
    /\ cur      = [w \in Sweepers |-> NoOrder]
    /\ at       = [w \in Sweepers |-> 1]
    /\ gone     = {}
    /\ rpc      = [r \in Refunders |-> "idle"]
    /\ rord     = [r \in Refunders |-> NoOrder]
    /\ rseen    = [r \in Refunders |-> "created"]
    /\ faults   = 0
    /\ cut = {} /\ unguarded = {} /\ missed = {} /\ chased = {} /\ acked = {}

SetStatus(o, s) == status' = [status EXCEPT ![o] = s]

-----------------------------------------------------------------------------
(* Stripe and the clients: what arrives from outside.                      *)

(* Checkout's last write: the intent is open and recorded.  It is guarded  *)
(* and may come after the webhook, or never.                               *)
AwaitPayment(o) ==
    /\ status[o] = "created"
    /\ SetStatus(o, "awaiting_payment")
    /\ UNCHANGED <<events, ent, entOrder, clones, seals, releases, sweepVars,
                   refundVars, stripeVars, pastVars, advancing, faults>>

(* The buyer pays.  The PaymentIntent is not cancelled when the order      *)
(* expires, so the order may be in any state.                              *)
Charge(o) ==
    /\ o \notin charged
    /\ charged' = charged \cup {o}
    /\ UNCHANGED <<dbVars, sweepVars, refundVars, asked, refunds, pastVars,
                   advancing, faults>>

(* A dispute or refund event of a charged order, or a refund request for   *)
(* it; it is repeated until it is answered 200, and may come again.        *)
AskRefund(o) ==
    /\ o \in charged
    /\ refunds < MaxRefunds
    /\ refunds' = refunds + 1
    /\ asked' = asked \cup {o}
    /\ UNCHANGED <<dbVars, sweepVars, refundVars, charged, pastVars,
                   advancing, faults>>

-----------------------------------------------------------------------------
(* markOrderPaid: the payment webhook.                                     *)

(* Mutant: a rejected insert is logged and the order advanced all the same. *)
RecordEventIgnored(o) ==
    /\ o \in charged \ events
    /\ advancing' = advancing \cup {o}
    /\ UNCHANGED <<status, events, ent, entOrder, clones, seals, releases,
                   sweepVars, refundVars, stripeVars, pastVars, faults>>

(* The event insert.  A redelivery hits UNIQUE(rail, rail_event_id) and    *)
(* answers 200 without touching the order: it changes nothing, whether or  *)
(* not the handler that inserted the row ever advanced the order.          *)
RecordEvent(o) ==
    /\ o \in charged \ events
    /\ events' = events \cup {o}
    /\ advancing' = advancing \cup {o}
    /\ UNCHANGED <<status, ent, entOrder, clones, seals, releases, sweepVars,
                   refundVars, stripeVars, pastVars, faults>>

(* dispatchDeliveryNudge: start a sweep, and do not wait for it.           *)
StartNudge ==
    \/ \E n \in Nudges : pc[n] = "idle" /\ pc' = [pc EXCEPT ![n] = "start"]
    \/ (\A n \in Nudges : pc[n] # "idle") /\ UNCHANGED pc

(* The conditional advance; only an applied one is followed by a nudge.    *)
AdvanceToPaid(o) ==
    /\ o \in advancing
    /\ advancing' = advancing \ {o}
    /\ \/ status[o] \in PrePaidStates /\ SetStatus(o, "paid") /\ StartNudge
       \/ status[o] \notin PrePaidStates /\ UNCHANGED <<status, pc>>
    /\ UNCHANGED <<events, ent, entOrder, clones, seals, releases, fresh, resume,
                   cur, at, gone, refundVars, stripeVars, pastVars, faults>>

-----------------------------------------------------------------------------
(* dispatchPendingDeliveries.                                              *)

(* Mutant: a row left at 'delivering' is not picked up again.              *)
DeliverableFresh == {o \in Orders : status[o] = "paid"}

Deliverable == {o \in Orders : status[o] \in {"paid", "delivering"}}

(* The oldest SweepLimit of them.                                          *)
Window == {o \in Deliverable :
              Cardinality({p \in Deliverable : p < o}) < SweepLimit}

(* The SELECT: a poller tick (skipped while the last one is running) or a  *)
(* nudge.  The rows are a snapshot; their status may be stale when used.   *)
SelectPending(w) ==
    /\ pc[w] = IF w = Poller THEN "idle" ELSE "start"
    /\ fresh'  = [fresh  EXCEPT ![w] = {o \in Window : status[o] = "paid"}]
    /\ resume' = [resume EXCEPT ![w] = {o \in Window : status[o] = "delivering"}]
    /\ pc' = [pc EXCEPT ![w] = "next"]
    /\ UNCHANGED <<dbVars, cur, at, gone, refundVars, stripeVars, pastVars,
                   advancing, faults>>

(* The sweeps that are delivering order o.                                 *)
HeldBy(o) == {w \in Sweepers : cur[w] = o}

(* o is the next row of w's snapshot, oldest first.                        *)
IsNext(w, o) ==
    /\ pc[w] = "next"
    /\ o \in fresh[w] \cup resume[w]
    /\ \A p \in fresh[w] \cup resume[w] : o <= p

(* Mutant: the claim without .eq('status', 'paid').                        *)
ClaimUnguarded(w, o) ==
    /\ IsNext(w, o) /\ o \in fresh[w]
    /\ fresh' = [fresh EXCEPT ![w] = @ \ {o}]
    /\ SetStatus(o, "delivering")
    /\ cur' = [cur EXCEPT ![w] = o]
    /\ pc' = [pc EXCEPT ![w] = "check"]
    /\ UNCHANGED <<events, ent, entOrder, clones, seals, releases, resume, at,
                   gone, refundVars, stripeVars, pastVars, advancing, faults>>

(* claimForDelivery: the conditional update of a row read as 'paid'; a row *)
(* that has left 'paid' since is skipped.                                  *)
ClaimForDelivery(w, o) ==
    /\ IsNext(w, o) /\ o \in fresh[w]
    /\ fresh' = [fresh EXCEPT ![w] = @ \ {o}]
    /\ \/ /\ status[o] = "paid"
          /\ SetStatus(o, "delivering")
          /\ cur' = [cur EXCEPT ![w] = o]
          /\ pc' = [pc EXCEPT ![w] = "check"]
       \/ status[o] # "paid" /\ UNCHANGED <<status, cur, pc>>
    /\ UNCHANGED <<events, ent, entOrder, clones, seals, releases, resume, at,
                   gone, refundVars, stripeVars, pastVars, advancing, faults>>

(* A row read as 'delivering' is resumed without a claim, whoever else is  *)
(* at work on the order and whatever has become of it since.               *)
ResumeDelivery(w, o) ==
    /\ IsNext(w, o) /\ o \in resume[w]
    /\ resume' = [resume EXCEPT ![w] = @ \ {o}]
    /\ cur' = [cur EXCEPT ![w] = o]
    /\ pc' = [pc EXCEPT ![w] = "check"]
    /\ unguarded' = IF HeldBy(o) = {} THEN unguarded ELSE unguarded \cup {o}
    /\ chased' = IF status[o] \in AlreadyRefunding THEN chased \cup {o} ELSE chased
    /\ UNCHANGED <<dbVars, fresh, at, gone, refundVars, stripeVars, cut, missed,
                   acked, advancing, faults>>

(* Mutant: the completion without .eq('status', 'delivering').             *)
MarkDeliveredUnguarded(w) ==
    /\ pc[w] = "mark"
    /\ SetStatus(cur[w], "delivered")
    /\ cur' = [cur EXCEPT ![w] = NoOrder]
    /\ pc' = [pc EXCEPT ![w] = "next"]
    /\ UNCHANGED <<events, ent, entOrder, clones, seals, releases, fresh, resume,
                   at, gone, refundVars, stripeVars, pastVars, advancing, faults>>

(* markDelivered completes the order if it is still 'delivering'; the      *)
(* number of rows it matched is not looked at.                             *)
MarkDelivered(w) ==
    /\ pc[w] = "mark"
    /\ \/ status[cur[w]] = "delivering" /\ SetStatus(cur[w], "delivered")
       \/ status[cur[w]] # "delivering" /\ UNCHANGED status
    /\ cur' = [cur EXCEPT ![w] = NoOrder]
    /\ pc' = [pc EXCEPT ![w] = "next"]
    /\ UNCHANGED <<events, ent, entOrder, clones, seals, releases, fresh, resume,
                   at, gone, refundVars, stripeVars, pastVars, advancing, faults>>

(* The end of the list: a nudge is done, the poller expires stale orders.  *)
EndSweep(w) ==
    /\ pc[w] = "next" /\ fresh[w] \cup resume[w] = {}
    /\ pc' = [pc EXCEPT ![w] = IF w = Poller THEN "expire" ELSE "idle"]
    /\ UNCHANGED <<dbVars, fresh, resume, cur, at, gone, refundVars, stripeVars,
                   pastVars, advancing, faults>>

(* expireStaleSupplyHolds: an order past expires_at (any, time is not      *)
(* modelled) leaves the pre-paid state it was read in.  ListingSupply      *)
(* models what this does to the listing.                                   *)
ExpireStale(w, o) ==
    /\ pc[w] = "expire" /\ status[o] \in PrePaidStates
    /\ SetStatus(o, "expired")
    /\ UNCHANGED <<events, ent, entOrder, clones, seals, releases, sweepVars,
                   refundVars, stripeVars, pastVars, advancing, faults>>

EndTick(w) ==
    /\ pc[w] = "expire"
    /\ pc' = [pc EXCEPT ![w] = "idle"]
    /\ UNCHANGED <<dbVars, fresh, resume, cur, at, gone, refundVars, stripeVars,
                   pastVars, advancing, faults>>

-----------------------------------------------------------------------------
(* grantCopy, run by sweep w for order cur[w].                             *)

Goto(w, l) == pc' = [pc EXCEPT ![w] = l]

(* An active entitlement of this buyer for this pack ends the delivery at  *)
(* once; otherwise the pack is loaded, which throws for an encrypted pack  *)
(* whose buyer has no published key and leaves the order 'delivering'.     *)
CheckEntitlement(w) ==
    /\ pc[w] = "check"
    /\ \/ ent[BuyerOf[cur[w]]] = "active" /\ Goto(w, "mark") /\ UNCHANGED cur
       \/ /\ ent[BuyerOf[cur[w]]] # "active"
          /\ cur[w] \notin Undeliverable
          /\ Goto(w, "probe") /\ UNCHANGED cur
       \/ /\ ent[BuyerOf[cur[w]]] # "active"
          /\ cur[w] \in Undeliverable
          /\ cur' = [cur EXCEPT ![w] = NoOrder] /\ Goto(w, "next")
    /\ UNCHANGED <<dbVars, fresh, resume, at, gone, refundVars, stripeVars,
                   pastVars, advancing, faults>>

(* The re-entry guard looks for any clone of the pack in the buyer's       *)
(* namespace, whichever order it was made for, and skips the whole loop.   *)
HasClones(b) ==
    \E p \in Orders : BuyerOf[p] = b /\ \E m \in Members : clones[p][m] > 0

(* Mutant: no re-entry guard.                                              *)
ProbeNothing(w) ==
    /\ pc[w] = "probe"
    /\ Goto(w, "clone")
    /\ at' = [at EXCEPT ![w] = 1]
    /\ UNCHANGED <<dbVars, fresh, resume, cur, gone, refundVars, stripeVars,
                   pastVars, advancing, faults>>

ProbeClones(w) ==
    /\ pc[w] = "probe"
    /\ Goto(w, IF HasClones(BuyerOf[cur[w]]) THEN "grant" ELSE "clone")
    /\ at' = [at EXCEPT ![w] = 1]
    /\ UNCHANGED <<dbVars, fresh, resume, cur, gone, refundVars, stripeVars,
                   pastVars, advancing, faults>>

(* Mutant: one member too many.                                            *)
NextMemberOrOneMore(w, m) ==
    IF m <= PackSize THEN Goto(w, "clone") /\ at' = [at EXCEPT ![w] = m + 1]
                     ELSE Goto(w, "grant") /\ UNCHANGED at

(* Past member m: on to the next one, or to the entitlement.               *)
NextMember(w, m) ==
    IF m < PackSize THEN Goto(w, "clone") /\ at' = [at EXCEPT ![w] = m + 1]
                    ELSE Goto(w, "grant") /\ UNCHANGED at

CloneMember(w) ==
    /\ pc[w] = "clone"
    /\ clones' = [clones EXCEPT ![cur[w]][at[w]] = @ + 1]
    /\ IF Encrypted THEN Goto(w, "seal") /\ UNCHANGED at
                    ELSE NextMember(w, at[w])
    /\ UNCHANGED <<status, events, ent, entOrder, seals, releases, fresh, resume,
                   cur, gone, refundVars, stripeVars, pastVars, advancing, faults>>

(* The owner wrap of the clone just made.  The wrap row references its     *)
(* memory: if a clawback deleted the clone meanwhile the insert fails.     *)
SealClone(w) ==
    /\ pc[w] = "seal"
    /\ \/ /\ w \notin gone
          /\ seals' = [seals EXCEPT ![cur[w]][at[w]] = @ + 1]
          /\ NextMember(w, at[w])
          /\ UNCHANGED <<cur, gone, cut>>
       \/ /\ w \in gone
          /\ Goto(w, "next")
          /\ gone' = gone \ {w}
          /\ cut' = cut \cup {cur[w]}
          /\ cur' = [cur EXCEPT ![w] = NoOrder]
          /\ UNCHANGED <<seals, at>>
    /\ UNCHANGED <<status, events, ent, entOrder, clones, releases, fresh, resume,
                   refundVars, stripeVars, unguarded, missed, chased, acked,
                   advancing, faults>>

(* The entitlement: inserted, or on 23505 (a row is there, and rows are    *)
(* never deleted) re-activated and re-pointed by the update that follows.  *)
GrantEntitlement(w) ==
    /\ pc[w] = "grant"
    /\ ent' = [ent EXCEPT ![BuyerOf[cur[w]]] = "active"]
    /\ entOrder' = [entOrder EXCEPT ![BuyerOf[cur[w]]] = cur[w]]
    /\ Goto(w, "mark")
    /\ UNCHANGED <<status, events, clones, seals, releases, fresh, resume, cur, at,
                   gone, refundVars, stripeVars, pastVars, advancing, faults>>

-----------------------------------------------------------------------------
(* refundOrder and clawbackCopy, run by refund handler r.                  *)

(* The refund is answered 200.                                             *)
Answered(r) ==
    /\ rpc' = [rpc EXCEPT ![r] = "idle"]
    /\ rord' = [rord EXCEPT ![r] = NoOrder]
    /\ asked' = asked \ {rord[r]}
    /\ acked' = acked \cup {rord[r]}

(* Mutant: an order that is being refunded is answered without a clawback. *)
ReadForRefundOnce(r, o) ==
    /\ rpc[r] = "idle" /\ o \in asked
    /\ \/ /\ status[o] \in AlreadyRefunding
          /\ asked' = asked \ {o} /\ acked' = acked \cup {o}
          /\ UNCHANGED refundVars
       \/ /\ CanTransition(status[o], "refunding")
          /\ rpc' = [rpc EXCEPT ![r] = "guard"]
          /\ rord'  = [rord  EXCEPT ![r] = o]
          /\ rseen' = [rseen EXCEPT ![r] = status[o]]
          /\ UNCHANGED <<asked, acked>>
    /\ UNCHANGED <<dbVars, sweepVars, charged, refunds, cut, unguarded, missed,
                   chased, advancing, faults>>

(* The read.  An order that cannot be refunded from the state it is in is  *)
(* refused (409, or 500 to Stripe, which repeats the event): no change.    *)
ReadForRefund(r, o) ==
    /\ rpc[r] = "idle" /\ o \in asked
    /\ \/ status[o] \in AlreadyRefunding /\ rpc' = [rpc EXCEPT ![r] = "revoke"]
       \/ /\ CanTransition(status[o], "refunding")
          /\ rpc' = [rpc EXCEPT ![r] = "guard"]
    /\ rord'  = [rord  EXCEPT ![r] = o]
    /\ rseen' = [rseen EXCEPT ![r] = status[o]]
    /\ UNCHANGED <<dbVars, sweepVars, stripeVars, pastVars, advancing, faults>>

(* The guarded update.  The handler goes on to the clawback whether or not *)
(* it matched the row.                                                     *)
MarkRefunding(r) ==
    /\ rpc[r] = "guard"
    /\ \/ /\ status[rord[r]] = rseen[r]
          /\ SetStatus(rord[r], "refunding")
          /\ chased' = IF HeldBy(rord[r]) = {} THEN chased ELSE chased \cup {rord[r]}
          /\ UNCHANGED missed
       \/ /\ status[rord[r]] # rseen[r]
          /\ missed' = IF status[rord[r]] \in AlreadyRefunding
                       THEN missed ELSE missed \cup {rord[r]}
          /\ UNCHANGED <<status, chased>>
    /\ rpc' = [rpc EXCEPT ![r] = "revoke"]
    /\ UNCHANGED <<events, ent, entOrder, clones, seals, releases, sweepVars, rord,
                   rseen, stripeVars, cut, unguarded, acked, advancing, faults>>

(* The revoke: whatever copy_license row the buyer holds for the pack.     *)
RevokeEntitlement(r) ==
    LET b == BuyerOf[rord[r]] IN
    /\ rpc[r] = "revoke"
    /\ ent' = [ent EXCEPT ![b] = IF @ = "none" THEN "none" ELSE "refunded"]
    /\ rpc' = [rpc EXCEPT ![r] = "purge"]
    /\ UNCHANGED <<status, events, entOrder, clones, seals, releases, sweepVars,
                   rord, rseen, stripeVars, pastVars, advancing, faults>>

(* The clones of order o go, their wraps cascade, and a sweep about to     *)
(* seal one of them will find it gone.                                     *)
EraseClones(o) ==
    /\ clones' = [clones EXCEPT ![o] = [m \in Members |-> 0]]
    /\ seals'  = [seals  EXCEPT ![o] = [m \in Members |-> 0]]
    /\ gone' = gone \cup {w \in HeldBy(o) : pc[w] = "seal"}

(* Mutant: the unit is freed whether or not a clone was deleted.           *)
DeleteAndAlwaysRelease(r) ==
    /\ rpc[r] = "purge"
    /\ EraseClones(rord[r])
    /\ rpc' = [rpc EXCEPT ![r] = "release"]
    /\ UNCHANGED <<status, events, ent, entOrder, releases, pc, fresh, resume, cur,
                   at, rord, rseen, stripeVars, pastVars, advancing, faults>>

(* The delete of this order's clones; only the run that deleted some goes  *)
(* on to free the unit.                                                    *)
DeleteClones(r) ==
    /\ rpc[r] = "purge"
    /\ EraseClones(rord[r])
    /\ IF \E m \in Members : clones[rord[r]][m] > 0
       THEN rpc' = [rpc EXCEPT ![r] = "release"] /\ UNCHANGED <<rord, asked, acked>>
       ELSE Answered(r)
    /\ UNCHANGED <<status, events, ent, entOrder, releases, pc, fresh, resume, cur,
                   at, rseen, charged, refunds, cut, unguarded, missed, chased,
                   advancing, faults>>

ReleaseUnit(r) ==
    /\ rpc[r] = "release"
    /\ releases' = [releases EXCEPT ![rord[r]] = @ + 1]
    /\ Answered(r)
    /\ UNCHANGED <<status, events, ent, entOrder, clones, seals, sweepVars, rseen,
                   charged, refunds, cut, unguarded, missed, chased, advancing,
                   faults>>

-----------------------------------------------------------------------------
(* Failures.                                                               *)

(* Sweep w is inside the clone loop, with some of the rows written.        *)
InLoop(w) == pc[w] = "seal" \/ (pc[w] = "clone" /\ at[w] > 1)

Fail == faults < MaxFaults /\ faults' = faults + 1

(* A database call of grantCopy or markDelivered rejects (at 'probe', one  *)
(* of the loads before it): the order stays where it is and the sweep goes *)
(* on to the next.                                                         *)
DeliveryThrows(w) ==
    /\ Fail
    /\ pc[w] \in DeliveryPc
    /\ cut' = IF InLoop(w) THEN cut \cup {cur[w]} ELSE cut
    /\ cur' = [cur EXCEPT ![w] = NoOrder]
    /\ gone' = gone \ {w}
    /\ Goto(w, "next")
    /\ UNCHANGED <<dbVars, fresh, resume, at, refundVars, stripeVars, unguarded,
                   missed, chased, acked, advancing>>

(* The probe of the re-entry guard rejects: its error is not looked at, no *)
(* data means no clone, and the members are cloned, again if need be.      *)
ProbeFails(w) ==
    /\ Fail
    /\ pc[w] = "probe"
    /\ Goto(w, "clone")
    /\ at' = [at EXCEPT ![w] = 1]
    /\ unguarded' = IF HasClones(BuyerOf[cur[w]]) THEN unguarded \cup {cur[w]}
                                                 ELSE unguarded
    /\ UNCHANGED <<dbVars, fresh, resume, cur, gone, refundVars, stripeVars, cut,
                   missed, chased, acked, advancing>>

(* The claim rejects: the row keeps its status and the sweep goes on.      *)
ClaimThrows(w, o) ==
    /\ Fail
    /\ IsNext(w, o) /\ o \in fresh[w]
    /\ fresh' = [fresh EXCEPT ![w] = @ \ {o}]
    /\ UNCHANGED <<dbVars, pc, resume, cur, at, gone, refundVars, stripeVars,
                   pastVars, advancing>>

(* The SELECT of a nudge rejects: nobody waits for it.                     *)
SelectThrows(n) ==
    /\ Fail
    /\ pc[n] = "start"
    /\ Goto(n, "idle")
    /\ UNCHANGED <<dbVars, fresh, resume, cur, at, gone, refundVars, stripeVars,
                   pastVars, advancing>>

(* The order update of a webhook rejects: 500, and Stripe sends the event  *)
(* again, which is then a duplicate.                                       *)
AdvanceThrows(o) ==
    /\ Fail
    /\ o \in advancing
    /\ advancing' = advancing \ {o}
    /\ UNCHANGED <<dbVars, sweepVars, refundVars, stripeVars, pastVars>>

(* A database call of a refund rejects; it has not been answered 200.      *)
RefundThrows(r) ==
    /\ Fail
    /\ rpc[r] \in {"guard", "revoke", "purge"}
    /\ rpc' = [rpc EXCEPT ![r] = "idle"]
    /\ rord' = [rord EXCEPT ![r] = NoOrder]
    /\ UNCHANGED <<dbVars, sweepVars, rseen, stripeVars, pastVars, advancing>>

(* releaseSupplyUnit is best effort: it logs a failure and returns, and    *)
(* the refund is answered 200 with the unit still counted as sold.         *)
ReleaseFails(r) ==
    /\ Fail
    /\ rpc[r] = "release"
    /\ Answered(r)
    /\ UNCHANGED <<dbVars, sweepVars, rseen, charged, refunds, cut, unguarded,
                   missed, chased, advancing>>

(* The server process dies and comes back.                                 *)
Crash ==
    /\ Fail
    /\ advancing' = {}
    /\ pc'     = [w \in Sweepers |-> "idle"]
    /\ fresh'  = [w \in Sweepers |-> {}]
    /\ resume' = [w \in Sweepers |-> {}]
    /\ cur'    = [w \in Sweepers |-> NoOrder]
    /\ gone'   = {}
    /\ rpc'    = [r \in Refunders |-> "idle"]
    /\ rord'   = [r \in Refunders |-> NoOrder]
    /\ cut' = cut \cup {cur[w] : w \in {v \in Sweepers : InLoop(v)}}
    /\ UNCHANGED <<dbVars, at, rseen, stripeVars, unguarded, missed, chased, acked>>

-----------------------------------------------------------------------------
GrantCopy(w) ==
    CheckEntitlement(w) \/ ProbeClones(w) \/ CloneMember(w) \/ SealClone(w)
    \/ GrantEntitlement(w)

Sweep(w) ==
    \/ SelectPending(w) \/ EndSweep(w) \/ EndTick(w)
    \/ \E o \in Orders : ClaimForDelivery(w, o) \/ ResumeDelivery(w, o)
    \/ GrantCopy(w) \/ MarkDelivered(w)

Refund(r) ==
    \/ \E o \in Orders : ReadForRefund(r, o)
    \/ MarkRefunding(r) \/ RevokeEntitlement(r) \/ DeleteClones(r)
    \/ ReleaseUnit(r)

Outside == \E o \in Orders : AwaitPayment(o) \/ Charge(o) \/ AskRefund(o)

Webhook == \E o \in Orders : RecordEvent(o) \/ AdvanceToPaid(o)

Expiry == \E w \in {Poller}, o \in Orders : ExpireStale(w, o)

Failure ==
    \/ \E w \in Sweepers :
          DeliveryThrows(w) \/ ProbeFails(w) \/ \E o \in Orders : ClaimThrows(w, o)
    \/ \E n \in Nudges : SelectThrows(n)
    \/ \E o \in Orders : AdvanceThrows(o)
    \/ \E r \in Refunders : RefundThrows(r) \/ ReleaseFails(r)
    \/ Crash

Next ==
    \/ Outside \/ Webhook \/ Expiry \/ Failure
    \/ \E w \in Sweepers : Sweep(w)
    \/ \E r \in Refunders : Refund(r)

Spec == Init /\ [][Next]_vars

(* The poller's interval keeps firing and its sweep runs to its end; a     *)
(* nudge may stall, and nothing makes a buyer pay or Stripe hurry.         *)
FairSpec == Spec /\ WF_vars(Sweep(Poller))

(* Stripe repeats an event until it is answered, and a webhook that does   *)
(* not fail runs to its end.                                               *)
StripeFairSpec ==
    FairSpec /\ \A o \in Orders : WF_vars(RecordEvent(o)) /\ WF_vars(AdvanceToPaid(o))

-----------------------------------------------------------------------------
DbTypes ==
    /\ status \in [Orders -> Status]
    /\ events \subseteq Orders
    /\ ent \in [Buyers -> {"none", "active", "refunded"}]
    /\ entOrder \in [Buyers -> Orders \cup {NoOrder}]
    /\ clones \in [Orders -> [Members -> Nat]]
    /\ seals \in [Orders -> [Members -> Nat]]
    /\ releases \in [Orders -> Nat]

OutsideTypes ==
    /\ charged \subseteq Orders /\ asked \subseteq Orders /\ advancing \subseteq Orders
    /\ cut \subseteq Orders /\ unguarded \subseteq Orders
    /\ missed \subseteq Orders /\ chased \subseteq Orders /\ acked \subseteq Orders
    /\ refunds \in 0..MaxRefunds /\ faults \in 0..MaxFaults

SweepTypes ==
    /\ pc \in [Sweepers -> SweepPc]
    /\ fresh \in [Sweepers -> SUBSET Orders]
    /\ resume \in [Sweepers -> SUBSET Orders]
    /\ cur \in [Sweepers -> Orders \cup {NoOrder}]
    /\ at \in [Sweepers -> Members]
    /\ gone \subseteq {w \in Sweepers : pc[w] = "seal"}
    /\ \A w \in Sweepers : cur[w] \in Orders <=> pc[w] \in DeliveryPc

RefundTypes ==
    /\ rpc \in [Refunders -> RefundPc]
    /\ rord \in [Refunders -> Orders \cup {NoOrder}]
    /\ rseen \in [Refunders -> Status]
    /\ \A r \in Refunders : rord[r] \in Orders <=> rpc[r] # "idle"

(* Types.  Every row, every handler and every sweep is in a state the code *)
(* can name: an interrupted delivery never leaves a sweep or a handler     *)
(* pointing at no order, and the clone loop never leaves 1..PackSize.      *)
TypeOK == DbTypes /\ OutsideTypes /\ SweepTypes /\ RefundTypes

(* Nothing of order o has been handed over and nobody is at work on it.    *)
Untouched(o) ==
    /\ status[o] \notin PaidStates
    /\ \A m \in Members : clones[o][m] = 0
    /\ \A b \in Buyers : entOrder[b] # o
    /\ \A w \in Sweepers : o \notin fresh[w] \cup resume[w] /\ cur[w] # o
    /\ \A r \in Refunders : rord[r] # o

(* Nothing is handed over before a verified payment event of that order is *)
(* in the ledger: not a cloned memory, not a sweep or a refund at work on  *)
(* it, not the entitlement, whichever sweep, replay or re-buy wrote it.    *)
NothingBeforeCapture ==
    /\ events \subseteq charged
    /\ \A o \in Orders \ events : Untouched(o)
    /\ \A b \in Buyers : ent[b] = "active" => entOrder[b] \in Orders

(* The buyer's only order that was ever paid for.                          *)
Alone(o) ==
    \A p \in Orders \ {o} : BuyerOf[p] = BuyerOf[o] => status[p] \notin PaidStates

(* Every member is there, with its owner wrap when the pack is encrypted.  *)
AtLeastWhole(o) ==
    \A m \in Members : clones[o][m] >= 1 /\ (Encrypted => seals[o][m] >= 1)
ExactlyWhole(o) ==
    \A m \in Members :
        clones[o][m] = 1 /\ seals[o][m] = (IF Encrypted THEN 1 ELSE 0)

(* "Never silently half-delivers" (grant-copy.ts): an order marked         *)
(* delivered gave its buyer an active entitlement for this very order and  *)
(* every member, each with its owner wrap when the pack is encrypted, or   *)
(* else a sweep is still writing them; and gave them exactly once unless   *)
(* the re-entry guard could not protect it (unguarded).  However sweeps    *)
(* overlap and calls fail, what is excepted is an interrupted clone loop   *)
(* (cut), a refund that lost its guarded update (missed), and a buyer who  *)
(* paid for the pack twice, whose second order finds the first one's copy. *)
WholeCopyDelivered ==
    \A o \in Orders \ (cut \cup missed) :
        status[o] = "delivered" /\ Alone(o) =>
            /\ ent[BuyerOf[o]] = "active" /\ entOrder[BuyerOf[o]] = o
            /\ AtLeastWhole(o) \/ \E w \in HeldBy(o) : InLoop(w)
            /\ o \notin unguarded => ExactlyWhole(o)

(* A refund that was answered 200 took everything back, for good: no       *)
(* delivery that is retried, resumed or in flight for another order leaves *)
(* a memory, a wrap or an active entitlement of that order behind.  It     *)
(* needs a refund whose update matched the row, and no sweep at the order  *)
(* then or later (chased: of two overlapping sweeps one marks the order    *)
(* delivered, it is refunded, and the other is still writing its copy).    *)
RefundTakesCopyBack ==
    \A o \in acked \ (missed \cup chased) :
        /\ \A m \in Members : clones[o][m] = 0 /\ seals[o][m] = 0
        /\ ~(ent[BuyerOf[o]] = "active" /\ entOrder[BuyerOf[o]] = o)

(* The supply unit of an order is handed back at most once however often   *)
(* disputes are re-fired, refunds retried or run side by side and sweeps   *)
(* overlap (refund-clawback.ts: "EXACTLY ONCE across all clawback          *)
(* re-runs"), unless a delivery wrote clones again behind the clawback.    *)
UnitReturnedOnce == \A o \in Orders \ (missed \cup chased) : releases[o] <= 1

(* Every write of marketplace_orders.status follows a sanctioned edge, the *)
(* webhook's own created -> paid apart, although every writer decides on a *)
(* status it read earlier.                                                 *)
StatusFollowsDag ==
    [][\A o \in Orders :
         status'[o] # status[o] =>
            \/ CanTransition(status[o], status'[o])
            \/ status[o] = "created" /\ status'[o] = "paid"]_vars

(* A paid order whose delivery can succeed is delivered or refunded, with  *)
(* crashes, stalled nudges and older undeliverable orders in the queue, as *)
(* long as those are fewer than one sweep drains.                          *)
PaidIsServed ==
    \A o \in Orders \ Undeliverable :
        status[o] = "paid" ~> status[o] \in {"delivered"} \cup AlreadyRefunding

(* The protocol implements the sale it promises.                           *)
SalePhase(s) ==
    IF s \in PrePaidStates THEN "open"
    ELSE IF s \in {"paid", "delivering"} THEN "owed"
    ELSE IF s \in {"delivered", "settled"} THEN "delivered"
    ELSE IF s \in AlreadyRefunding THEN "unwound"
    ELSE "closed"

Sale == INSTANCE CopySale WITH
            Servable <- Orders \ Undeliverable,
            sale <- [o \in Orders |-> SalePhase(status[o])]

(* Seen through its statuses, an order runs through the abstract sale of   *)
(* CopySale: captured before delivered, delivered before or after nothing  *)
(* else, never re-opened, and in the end delivered or unwound.             *)
SaleIsKept == Sale!Spec

-----------------------------------------------------------------------------
(* What the documentation says and the code does not do.                   *)

(* A webhook that fails between the event insert and the advance is        *)
(* repeated by Stripe, and "a retry is safe" (marketplace-payments.routes):*)
(* a recorded payment nobody is acting on, of an order that still waits    *)
(* for it, makes the order paid in the end.                                *)
RetryAdvances ==
    \A o \in Orders :
        o \in events \ advancing /\ status[o] \in PrePaidStates
            ~> status[o] \in PaidStates

(* A refund answered 200 leaves its buyer without access: otherwise "every *)
(* copy sale is a free pack via chargeback" (refund-clawback.ts).          *)
RefundedHasNoAccess ==
    \A o \in acked : ~(ent[BuyerOf[o]] = "active" /\ entOrder[BuyerOf[o]] = o)

(* An interrupted delivery is completed by the next sweep, "never silently *)
(* half-delivers" (grant-copy.ts): an order marked delivered gave its      *)
(* buyer every member.                                                     *)
DeliveredIsWhole ==
    \A o \in Orders \ missed :
        status[o] = "delivered" => \A m \in Members : clones[o][m] > 0
===============================================================================
