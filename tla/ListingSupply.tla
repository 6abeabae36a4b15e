---------------------------- MODULE ListingSupply ----------------------------
(***************************************************************************)
(* The finite supply of one listing, and everything that moves it:         *)
(*                                                                         *)
(*   - checkout (POST /v1/market/orders): create the order, claim a unit   *)
(*     by compare-and-swap, open the PaymentIntent; repeated by clients;   *)
(*   - the delivery sweeps, which write the copy of a paid order, and the  *)
(*     refunds, which delete it and whose delete hands the unit back;      *)
(*   - the expiry of unpaid orders, which hands a unit back as well, by    *)
(*     the same compare-and-swap;                                          *)
(*   - the seller, who edits the supply, delists and publishes again with  *)
(*     plain updates decided on an earlier read.                           *)
(*                                                                         *)
(* Every database call is one step.  Of payment and delivery only what the *)
(* unit depends on is here (is a copy of the order there, or about to be   *)
(* written?); CopyDelivery models them.                                    *)
(***************************************************************************)
EXTENDS OrderDag, FiniteSets

CONSTANTS
    Orders,        \* (buyer, client_token) pairs: the idempotency identities
    Calls,         \* checkout requests in flight at most
    Unlimited,     \* supply_total IS NULL
    InitTotal,     \* supply_total the listing was created with
    Edits,         \* supply_total values the seller may set
    MaxAttempts,   \* SUPPLY_CLAIM_MAX_ATTEMPTS, SUPPLY_RELEASE_MAX_ATTEMPTS
    Refunders,     \* refund handlers that may run at the same time
    Expiry,        \* the expiry sweep, which hands units back one by one
    MaxPosts,      \* bound: checkout requests
    MaxRefunds,    \* bound: refund events and requests
    MaxEdits,      \* bound: seller requests
    MaxFaults,     \* bound: crashes and rejected database calls
    NoOrder

ASSUME SupplyAssumption ==
    /\ Unlimited \notin Nat
    /\ InitTotal \in Nat \ {0}
    /\ Edits \subseteq Nat \ {0}
    /\ MaxAttempts \in Nat \ {0}
    /\ NoOrder \notin Orders
    /\ Expiry \notin Refunders

Releasers == Refunders \cup {Expiry}

VARIABLES
    \* the database
    listing,    \* pack_listings: status, supply_total, supply_sold
    status,     \* marketplace_orders.status, "none" before the insert
    intents,    \* orders with an open PaymentIntent
    \* checkout requests: position, order, supply_total and order status as
    \* read, supply_sold as read, attempts made
    call,
    copied,     \* orders with a clone in the buyer's namespace
    held,       \* orders a delivery sweep is at, or has in its snapshot
    \* refunds and the expiry sweep: position, order, its status as read,
    \* supply_sold and listing status as read, attempts made
    release,
    seller,     \* the seller's request in flight, and the total it will write
    \* bounds and history
    posts, refunds, edits, faults,
    peak,       \* the largest finite supply_total so far
    captured,   \* orders whose PaymentIntent captured money
    claimed,    \* orders that claimed a unit
    freed,      \* orders on whose behalf a unit was handed back
    twice,      \* orders on whose behalf a second unit was handed back
    extra,      \* how many units went back beyond each order's first
    kept,       \* orders whose release ended without handing a unit back
    uncounted,  \* orders inserted by a request that read no limit
    replayed,   \* orders whose intent another request than theirs asked for
    missed,     \* orders whose refund update matched no row
    erased,     \* orders whose clones a refund deleted
    recloned    \* ... and a sweep wrote again

orderVars == <<status, intents, captured>>
copyVars  == <<copied, held>>
unitVars  == <<peak, claimed, freed, twice, extra, kept>>
pastVars  == <<uncounted, replayed, missed, erased, recloned>>
vars == <<listing, orderVars, copyVars, call, release, seller, posts, refunds,
          edits, faults, unitVars, pastVars>>

ListingStatus == {"draft", "pending_compliance", "listed", "sold_out", "delisted"}

IdleCall    == [pc |-> "idle", ord |-> NoOrder, total |-> Unlimited,
                seen |-> "none", sold |-> 0, tries |-> 0]
NoRelease   == [pc |-> "idle", ord |-> NoOrder, seen |-> "none", sold |-> 0,
                flip |-> FALSE, tries |-> 0]
IdleSeller  == [pc |-> "idle", total |-> Unlimited]

Init ==
    /\ listing = [status |-> "draft", total |-> InitTotal, sold |-> 0]
    /\ status  = [o \in Orders |-> "none"]
    /\ intents = {} /\ captured = {}
    /\ call    = [h \in Calls |-> IdleCall]
    /\ release = [x \in Releasers |-> NoRelease]
    /\ copied = {} /\ held = {}
    /\ seller  = IdleSeller
    /\ posts = 0 /\ refunds = 0 /\ edits = 0 /\ faults = 0
    /\ peak = InitTotal
    /\ claimed = {} /\ freed = {} /\ twice = {} /\ extra = 0 /\ kept = {}
    /\ uncounted = {} /\ replayed = {} /\ missed = {} /\ erased = {} /\ recloned = {}

Fail == faults < MaxFaults /\ faults' = faults + 1

-----------------------------------------------------------------------------
(* Checkout.                                                               *)

(* The listing must be 'listed'; its supply_total is kept for the claim.   *)
ReadListing(h, o) ==
    /\ call[h].pc = "idle"
    /\ posts < MaxPosts
    /\ posts' = posts + 1
    /\ listing.status = "listed"
    /\ call' = [call EXCEPT ![h] = [IdleCall EXCEPT !.pc = "order", !.ord = o,
                                                    !.total = listing.total]]
    /\ UNCHANGED <<listing, orderVars, copyVars, release, seller, refunds, edits,
                   faults, unitVars, pastVars>>

(* createOrder: insert the order, or return the one that is there, in      *)
(* whatever status it is.  Only the call that inserted it claims a unit.   *)
CreateOrder(h) ==
    LET o == call[h].ord IN
    /\ call[h].pc = "order"
    /\ \/ /\ status[o] = "none"
          /\ status' = [status EXCEPT ![o] = "created"]
          /\ call' = [call EXCEPT
                ![h].seen = "created",
                ![h].pc = IF call[h].total = Unlimited THEN "intent" ELSE "supply"]
          /\ uncounted' = IF call[h].total = Unlimited THEN uncounted \cup {o}
                                                       ELSE uncounted
          /\ UNCHANGED replayed
       \/ /\ status[o] # "none"
          /\ call' = [call EXCEPT ![h].seen = status[o], ![h].pc = "intent"]
          /\ replayed' = replayed \cup {o}
          /\ UNCHANGED <<status, uncounted>>
    /\ UNCHANGED <<listing, intents, captured, copyVars, release, seller, posts,
                   refunds, edits, faults, unitVars, missed, erased, recloned>>

(* Mutant: an off-by-one at the cap.                                       *)
ReadSupplyPastCap(h) ==
    /\ call[h].pc = "supply"
    /\ call' = [call EXCEPT
          ![h].sold = listing.sold,
          ![h].pc = IF listing.sold > call[h].total THEN "orphan" ELSE "claim"]
    /\ UNCHANGED <<listing, orderVars, copyVars, release, seller, posts, refunds,
                   edits, faults, unitVars, pastVars>>

(* claimSupplyUnit, the read: sold out for the total read earlier?         *)
ReadSupply(h) ==
    /\ call[h].pc = "supply"
    /\ call' = [call EXCEPT
          ![h].sold = listing.sold,
          ![h].pc = IF listing.sold >= call[h].total THEN "orphan" ELSE "claim"]
    /\ UNCHANGED <<listing, orderVars, copyVars, release, seller, posts, refunds,
                   edits, faults, unitVars, pastVars>>

(* The sale of one more unit, which leaves the buyable set at the cap.     *)
Sold(l, total) ==
    [l EXCEPT !.sold = @ + 1,
              !.status = IF l.sold + 1 >= total THEN "sold_out" ELSE @]

(* Mutant: the claim without .eq('supply_sold', sold), written from the    *)
(* value read.                                                             *)
ClaimBlindly(h) ==
    LET c == call[h] IN
    /\ c.pc = "claim"
    /\ listing' = Sold([listing EXCEPT !.sold = c.sold], c.total)
    /\ claimed' = claimed \cup {c.ord}
    /\ call' = [call EXCEPT ![h].pc = "intent"]
    /\ UNCHANGED <<orderVars, copyVars, release, seller, posts, refunds, edits,
                   faults, peak, freed, twice, extra, kept, pastVars>>

(* The compare-and-swap; the loser reads again, and concedes in the end.   *)
ClaimUnit(h) ==
    LET c == call[h] IN
    /\ c.pc = "claim"
    /\ \/ /\ listing.sold = c.sold
          /\ listing' = Sold(listing, c.total)
          /\ claimed' = claimed \cup {c.ord}
          /\ call' = [call EXCEPT ![h].pc = "intent"]
       \/ /\ listing.sold # c.sold
          /\ call' = [call EXCEPT
                ![h].tries = @ + 1,
                ![h].pc = IF c.tries + 1 = MaxAttempts THEN "orphan" ELSE "supply"]
          /\ UNCHANGED <<listing, claimed>>
    /\ UNCHANGED <<orderVars, copyVars, release, seller, posts, refunds, edits,
                   faults, peak, freed, twice, extra, kept, pastVars>>

(* failOrphanOrder, and 409: fail the order if it is still 'created'.      *)
FailOrphanOrder(h) ==
    LET o == call[h].ord IN
    /\ call[h].pc = "orphan"
    /\ status' = IF status[o] = "created" THEN [status EXCEPT ![o] = "failed"] ELSE status
    /\ call' = [call EXCEPT ![h] = IdleCall]
    /\ UNCHANGED <<listing, intents, captured, copyVars, release, seller, posts,
                   refunds, edits, faults, unitVars, pastVars>>

(* createIntent, with the client_token as Stripe's idempotency key: every  *)
(* call of an order opens or returns the same PaymentIntent.               *)
OpenIntent(h) ==
    /\ call[h].pc = "intent"
    /\ intents' = intents \cup {call[h].ord}
    /\ call' = [call EXCEPT ![h] =
          IF @.seen = "created" THEN [@ EXCEPT !.pc = "await"] ELSE IdleCall]
    /\ UNCHANGED <<listing, status, captured, copyVars, release, seller, posts,
                   refunds, edits, faults, unitVars, pastVars>>

(* The guarded update to 'awaiting_payment'.                               *)
AwaitPayment(h) ==
    LET o == call[h].ord IN
    /\ call[h].pc = "await"
    /\ status' = IF status[o] = "created"
                 THEN [status EXCEPT ![o] = "awaiting_payment"] ELSE status
    /\ call' = [call EXCEPT ![h] = IdleCall]
    /\ UNCHANGED <<listing, intents, captured, copyVars, release, seller, posts,
                   refunds, edits, faults, unitVars, pastVars>>

(* A call of the database or of Stripe rejects: 500, or for the orphan     *)
(* update and the last one a warning; what was written stays.              *)
CheckoutThrows(h) ==
    /\ Fail
    /\ call[h].pc \in {"order", "supply", "claim", "orphan", "intent", "await"}
    /\ call' = [call EXCEPT ![h] = IdleCall]
    /\ UNCHANGED <<listing, orderVars, copyVars, release, seller, posts, refunds,
                   edits, unitVars, pastVars>>

-----------------------------------------------------------------------------
(* Payment and delivery of an order.                                       *)

(* The buyer pays an open intent; the webhook moves a pre-paid order only. *)
Pay(o) ==
    /\ o \in intents \ captured
    /\ captured' = captured \cup {o}
    /\ status' = IF status[o] \in PrePaidStates THEN [status EXCEPT ![o] = "paid"]
                 ELSE status
    /\ UNCHANGED <<listing, intents, copyVars, call, release, seller, posts, refunds,
                   edits, faults, unitVars, pastVars>>

(* A sweep claims a paid order, or finds it 'delivering' and will resume   *)
(* it, whatever has become of it by then.                                  *)
TakeForDelivery(o) ==
    /\ status[o] \in {"paid", "delivering"}
    /\ status' = [status EXCEPT ![o] = "delivering"]
    /\ held' = held \cup {o}
    /\ UNCHANGED <<listing, intents, captured, copied, call, release, seller, posts,
                   refunds, edits, faults, unitVars, pastVars>>

(* grantCopy writes a clone of an order its sweep is at: one of several,   *)
(* so this may happen again after a refund deleted the ones before.        *)
CloneCopy(o) ==
    /\ o \in held \ copied
    /\ copied' = copied \cup {o}
    /\ recloned' = IF o \in erased THEN recloned \cup {o} ELSE recloned
    /\ UNCHANGED <<listing, orderVars, held, call, release, seller, posts, refunds,
                   edits, faults, unitVars, uncounted, replayed, missed, erased>>

(* The completion, if the order is still 'delivering'.  It does not ask    *)
(* for the clones; another sweep may be at the order still.                *)
MarkDelivered(o) ==
    /\ o \in held
    /\ status' = IF status[o] = "delivering" THEN [status EXCEPT ![o] = "delivered"]
                 ELSE status
    /\ held' \in {held, held \ {o}}
    /\ UNCHANGED <<listing, intents, captured, copied, call, release, seller, posts,
                   refunds, edits, faults, unitVars, pastVars>>

(* The delivery throws, and the sweep goes on to the next order.           *)
LeaveOrder(o) ==
    /\ Fail
    /\ o \in held
    /\ held' = held \ {o}
    /\ UNCHANGED <<listing, orderVars, copied, call, release, seller, posts,
                   refunds, edits, unitVars, pastVars>>

-----------------------------------------------------------------------------
(* refundOrder and clawbackCopy, as far as the unit goes.                  *)

(* The read: a refund under way is run again, a captured order that may be *)
(* refunded is; any other is refused.                                      *)
ReadForRefund(r, o) ==
    /\ release[r].pc = "idle"
    /\ o \in captured
    /\ refunds < MaxRefunds
    /\ refunds' = refunds + 1
    /\ \E pc \in {"guard", "purge"} :
          /\ pc = "guard" => CanTransition(status[o], "refunding")
          /\ pc = "purge" => status[o] \in AlreadyRefunding
          /\ release' = [release EXCEPT ![r] =
                [NoRelease EXCEPT !.pc = pc, !.ord = o, !.seen = status[o]]]
    /\ UNCHANGED <<listing, orderVars, copyVars, call, seller, posts, edits, faults,
                   unitVars, pastVars>>

(* The guarded update; the clawback follows whether or not it matched.     *)
MarkRefunding(r) ==
    LET o == release[r].ord IN
    /\ release[r].pc = "guard"
    /\ \/ /\ status[o] = release[r].seen
          /\ status' = [status EXCEPT ![o] = "refunding"]
          /\ UNCHANGED missed
       \/ /\ status[o] # release[r].seen
          /\ missed' = IF status[o] \in AlreadyRefunding THEN missed
                                                          ELSE missed \cup {o}
          /\ UNCHANGED status
    /\ release' = [release EXCEPT ![r].pc = "purge"]
    /\ UNCHANGED <<listing, intents, captured, copyVars, call, seller, posts,
                   refunds, edits, faults, unitVars, uncounted, replayed, erased,
                   recloned>>

(* Mutant: the unit is freed whether or not a clone was deleted.           *)
DeleteAndAlwaysRelease(r) ==
    LET o == release[r].ord IN
    /\ release[r].pc = "purge"
    /\ copied' = copied \ {o}
    /\ erased' = erased \cup {o}
    /\ release' = [release EXCEPT ![r].pc = "read"]
    /\ UNCHANGED <<listing, orderVars, held, call, seller, posts, refunds, edits,
                   faults, unitVars, uncounted, replayed, missed, recloned>>

(* The delete; only the refund that deleted a clone goes on to the unit.   *)
DeleteClones(r) ==
    LET o == release[r].ord IN
    /\ release[r].pc = "purge"
    /\ copied' = copied \ {o}
    /\ erased' = IF o \in copied THEN erased \cup {o} ELSE erased
    /\ release' = [release EXCEPT ![r] =
          IF o \in copied THEN [@ EXCEPT !.pc = "read"] ELSE NoRelease]
    /\ UNCHANGED <<listing, orderVars, held, call, seller, posts, refunds, edits,
                   faults, unitVars, uncounted, replayed, missed, recloned>>

(* A call before the delete rejects: the event or request comes again.     *)
RefundThrows(r) ==
    /\ Fail
    /\ release[r].pc \in {"guard", "purge"}
    /\ release' = [release EXCEPT ![r] = NoRelease]
    /\ UNCHANGED <<listing, orderVars, copyVars, call, seller, posts, refunds,
                   edits, unitVars, pastVars>>

-----------------------------------------------------------------------------
(* expireStaleSupplyHolds.                                                 *)

(* Mutant: the order expires and its unit stays sold.                      *)
ExpireOnly(o) ==
    /\ release[Expiry].pc = "idle"
    /\ status[o] \in PrePaidStates
    /\ status' = [status EXCEPT ![o] = "expired"]
    /\ UNCHANGED <<listing, intents, captured, copyVars, call, release, seller,
                   posts, refunds, edits, faults, unitVars, pastVars>>

(* One order after the other, each out of the exact pre-paid status it was *)
(* read in; whether it ever claimed a unit is not recorded and not asked.  *)
ExpireStale(o) ==
    /\ release[Expiry].pc = "idle"
    /\ status[o] \in PrePaidStates
    /\ status' = [status EXCEPT ![o] = "expired"]
    /\ release' = [release EXCEPT ![Expiry] = [@ EXCEPT !.pc = "read", !.ord = o]]
    /\ UNCHANGED <<listing, intents, captured, copyVars, call, seller, posts,
                   refunds, edits, faults, unitVars, pastVars>>

-----------------------------------------------------------------------------
(* releaseSupplyUnit, on behalf of the order of x.                         *)

Done(x) == release' = [release EXCEPT ![x] = NoRelease]

(* Mutant: the test at zero is dropped.                                    *)
ReadPastZero(x) ==
    /\ release[x].pc = "read"
    /\ listing.total # Unlimited
    /\ release' = [release EXCEPT ![x].pc = "swap", ![x].sold = listing.sold,
                                  ![x].flip = listing.status = "sold_out"]
    /\ UNCHANGED <<listing, orderVars, copyVars, call, seller, posts, refunds, edits,
                   faults, unitVars, pastVars>>

(* The read: nothing to hand back for an unlimited listing, or at zero.    *)
ReadForRelease(x) ==
    /\ release[x].pc = "read"
    /\ \/ /\ listing.total # Unlimited /\ listing.sold > 0
          /\ release' = [release EXCEPT
                ![x].pc = "swap", ![x].sold = listing.sold,
                ![x].flip = listing.status = "sold_out"]
          /\ UNCHANGED kept
       \/ /\ listing.total = Unlimited \/ listing.sold = 0
          /\ kept' = kept \cup {release[x].ord}
          /\ Done(x)
    /\ UNCHANGED <<listing, orderVars, copyVars, call, seller, posts, refunds, edits,
                   faults, peak, claimed, freed, twice, extra, pastVars>>

(* A unit goes back on behalf of o.                                        *)
HandBack(o) ==
    /\ freed' = freed \cup {o}
    /\ twice' = IF o \in freed THEN twice \cup {o} ELSE twice
    /\ extra' = IF o \in freed THEN extra + 1 ELSE extra

(* Mutant: the sold-out listing is not opened again.                       *)
ReleaseWithoutFlip(x) ==
    /\ release[x].pc = "swap"
    /\ listing.sold = release[x].sold
    /\ listing' = [listing EXCEPT !.sold = @ - 1]
    /\ HandBack(release[x].ord)
    /\ Done(x)
    /\ UNCHANGED <<orderVars, copyVars, call, seller, posts, refunds, edits, faults,
                   peak, claimed, kept, pastVars>>

(* The compare-and-swap on supply_sold; the listing's status is written    *)
(* from the earlier read.                                                  *)
ReleaseUnit(x) ==
    LET r == release[x] IN
    /\ r.pc = "swap"
    /\ \/ /\ listing.sold = r.sold
          /\ listing' = [listing EXCEPT !.sold = @ - 1,
                                        !.status = IF r.flip THEN "listed" ELSE @]
          /\ HandBack(r.ord)
          /\ Done(x)
          /\ UNCHANGED kept
       \/ /\ listing.sold # r.sold /\ r.tries + 1 < MaxAttempts
          /\ release' = [release EXCEPT ![x].pc = "read", ![x].tries = @ + 1]
          /\ UNCHANGED <<listing, freed, twice, extra, kept>>
       \/ /\ listing.sold # r.sold /\ r.tries + 1 = MaxAttempts
          /\ kept' = kept \cup {r.ord}
          /\ Done(x)
          /\ UNCHANGED <<listing, freed, twice, extra>>
    /\ UNCHANGED <<orderVars, copyVars, call, seller, posts, refunds, edits, faults,
                   peak, claimed, pastVars>>

(* A rejected call is logged, and the release is over.                     *)
ReleaseFails(x) ==
    /\ Fail
    /\ release[x].pc \in {"read", "swap"}
    /\ kept' = kept \cup {release[x].ord}
    /\ Done(x)
    /\ UNCHANGED <<listing, orderVars, copyVars, call, seller, posts, refunds, edits,
                   peak, claimed, freed, twice, extra, pastVars>>

-----------------------------------------------------------------------------
(* The seller: load the listing, then write, with no guard on what was     *)
(* read.                                                                   *)

SellerLoads(pc, total) ==
    /\ seller.pc = "idle"
    /\ edits < MaxEdits
    /\ edits' = edits + 1
    /\ seller' = [pc |-> pc, total |-> total]
    /\ UNCHANGED <<listing, orderVars, copyVars, call, release, posts, refunds,
                   faults, unitVars, pastVars>>

(* resolveSupplyTotal: unlimited, single, or a limit that covers the units *)
(* sold so far; 'single' is not held against them.                         *)
LoadForPatch ==
    \E t \in {1, Unlimited} \cup {e \in Edits : e >= listing.sold} :
        SellerLoads("patch", t)

LoadForPublish ==
    listing.status \in {"draft", "pending_compliance", "delisted"}
    /\ SellerLoads("publish", Unlimited)

LoadForDelist == SellerLoads("delist", Unlimited)

SellerWrites ==
    /\ seller.pc # "idle"
    /\ seller' = IdleSeller
    /\ \/ /\ seller.pc = "patch"
          /\ listing' = [listing EXCEPT !.total = seller.total]
          /\ peak' = IF seller.total # Unlimited /\ seller.total > peak
                     THEN seller.total ELSE peak
       \/ /\ seller.pc = "publish"
          /\ listing' = [listing EXCEPT !.status = "listed"]
          /\ UNCHANGED peak
       \/ /\ seller.pc = "delist"
          /\ listing' = [listing EXCEPT !.status = "delisted"]
          /\ UNCHANGED peak
    /\ UNCHANGED <<orderVars, copyVars, call, release, posts, refunds, edits,
                   faults, claimed, freed, twice, extra, kept, pastVars>>

-----------------------------------------------------------------------------
(* The server process dies: requests, sweeps and releases in flight are    *)
(* gone.                                                                   *)
Crash ==
    /\ Fail
    /\ call' = [h \in Calls |-> IdleCall]
    /\ release' = [x \in Releasers |-> NoRelease]
    /\ held' = {}
    /\ seller' = IdleSeller
    /\ kept' = kept \cup {release[x].ord : x \in {y \in Releasers :
                                                     release[y].pc \in {"read", "swap"}}}
    /\ UNCHANGED <<listing, orderVars, copied, posts, refunds, edits, peak, claimed,
                   freed, twice, extra, pastVars>>

Checkout(h) ==
    \/ \E o \in Orders : ReadListing(h, o)
    \/ CreateOrder(h) \/ ReadSupply(h) \/ ClaimUnit(h) \/ FailOrphanOrder(h)
    \/ OpenIntent(h) \/ AwaitPayment(h)

OrderStep(o) ==
    Pay(o) \/ TakeForDelivery(o) \/ CloneCopy(o) \/ MarkDelivered(o) \/ ExpireStale(o)

Refund(r) ==
    (\E o \in Orders : ReadForRefund(r, o)) \/ MarkRefunding(r) \/ DeleteClones(r)

Release(x) == ReadForRelease(x) \/ ReleaseUnit(x)

Seller == LoadForPatch \/ LoadForPublish \/ LoadForDelist \/ SellerWrites

Failure ==
    \/ \E h \in Calls : CheckoutThrows(h)
    \/ \E o \in Orders : LeaveOrder(o)
    \/ \E r \in Refunders : RefundThrows(r)
    \/ \E x \in Releasers : ReleaseFails(x)
    \/ Crash

Next ==
    \/ \E h \in Calls : Checkout(h)
    \/ \E o \in Orders : OrderStep(o)
    \/ \E r \in Refunders : Refund(r)
    \/ \E x \in Releasers : Release(x)
    \/ Seller
    \/ Failure

Spec == Init /\ [][Next]_vars

-----------------------------------------------------------------------------
(* Types.                                                                  *)
TypeOK ==
    /\ listing \in [status : ListingStatus, total : Nat \cup {Unlimited}, sold : Nat]
    /\ status \in [Orders -> Status \cup {"none"}]
    /\ \A h \in Calls : call[h].tries < MaxAttempts \/ call[h].pc = "orphan"
    /\ \A x \in Releasers :
          /\ release[x].tries < MaxAttempts
          /\ release[x].pc # "idle" => release[x].ord \in Orders
    /\ twice \subseteq freed

(* supply_sold counts: it is the claims that were won less the units that  *)
(* were handed back, however claims, releases, retries and the seller's    *)
(* edits interleave.  And an order's unit is handed back once, by expiry   *)
(* or by refund, however often disputes are fired again and even when a    *)
(* refund lost its guarded update to a sweep; a second unit goes back only *)
(* for an order whose clones a sweep wrote again after a refund had        *)
(* deleted some (recloned).                                                *)
SoldIsConserved ==
    /\ Cardinality(claimed) = listing.sold + Cardinality(freed) + extra
    /\ twice \subseteq recloned
    /\ twice = {} => extra = 0

(* However stale the supply_total a claim was checked against, no more     *)
(* units are out than the largest supply the seller ever offered.          *)
SoldWithinPeak == listing.sold <= peak

(* A listing the seller published and has not touched since (one request)  *)
(* is buyable exactly while units are left: the counter and the status     *)
(* move together through every claim and every release.                    *)
BuyableIffUnitsLeft ==
    edits = 1 /\ listing.status \in {"listed", "sold_out"} =>
        (listing.status = "listed" <=> listing.sold < listing.total)

Live == {o \in Orders : status[o] \in {"paid", "delivering", "delivered"}}

(* What the over-sell guard does guarantee.  The live orders that have a   *)
(* unit of their own fit the supply, but for the units that went back on   *)
(* behalf of an order that had none to give (one that expired before its   *)
(* claim, or without one) or had given it already.  A live order without a *)
(* claim was inserted while the listing had no limit, or its PaymentIntent *)
(* was asked for by a repeated checkout; one whose unit went back had a    *)
(* refund that lost its guarded update.                                    *)
LiveFitsSupply ==
    /\ Cardinality(Live \cap (claimed \ freed))
          <= peak + Cardinality(freed \ claimed) + extra
    /\ Live \ claimed \subseteq uncounted \cup replayed
    /\ Live \cap freed \subseteq missed

(* Abandoned orders cannot keep a listing sold out: once the release of an *)
(* expired order's unit is over the unit is back, unless the process died, *)
(* or gave up, between expiring the order and freeing its unit (kept).     *)
ExpiredUnitsReturn ==
    \A o \in claimed \ kept :
        status[o] = "expired" /\ release[Expiry].ord # o => o \in freed

(* What the comments at claimSupplyUnit promise, and a repeated checkout   *)
(* breaks: a copy of a limited listing "must never be ordered + delivered  *)
(* past" its supply, here one the seller has not edited since publishing.  *)
NeverOversold == edits <= 1 => Cardinality(Live) <= peak
===============================================================================
