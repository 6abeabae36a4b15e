-------------------------- MODULE ListingSupplyProofs --------------------------
(***************************************************************************)
(* What TLAPS proves of ListingSupply, for any number of orders, requests  *)
(* and retries, every supply and every value of the bounds: no unit is     *)
(* lost, doubled or sold past the supply, whatever the compare-and-swaps   *)
(* of checkouts and releases, the expiry sweep, the seller and crashes do. *)
(***************************************************************************)
EXTENDS ListingSupply, FiniteSetTheorems, TLAPS

CallPc  == {"idle", "order", "supply", "claim", "orphan", "intent", "await"}
Totals  == Nat \cup {Unlimited}

CallRecord ==
    [pc : CallPc, ord : Orders \cup {NoOrder}, total : Totals,
     seen : Status \cup {"none"}, sold : Nat, tries : Nat]

ReleaseRecord ==
    [pc : {"idle", "guard", "purge", "read", "swap"}, ord : Orders \cup {NoOrder},
     seen : Status \cup {"none"}, sold : Nat, flip : BOOLEAN, tries : Nat]

(***************************************************************************)
(* The inductive invariant, in three named parts.                          *)
(***************************************************************************)
TableTypes ==
    /\ listing \in [status : ListingStatus, total : Totals, sold : Nat]
    /\ status \in [Orders -> Status \cup {"none"}]
    /\ seller \in [pc : {"idle", "patch", "publish", "delist"}, total : Totals]
    /\ peak \in Nat
    /\ intents \subseteq Orders /\ captured \subseteq intents
    /\ copied \subseteq Orders /\ held \subseteq Orders
    /\ claimed \subseteq Orders /\ freed \subseteq Orders /\ kept \subseteq Orders
    /\ extra \in Nat

CallTypes ==
    /\ call \in [Calls -> CallRecord]
    /\ \A h \in Calls : call[h].pc # "idle" => call[h].ord \in Orders
    /\ \A h \in Calls : call[h].tries < MaxAttempts \/ call[h].pc = "orphan"

ReleaseTypes ==
    /\ release \in [Releasers -> ReleaseRecord]
    /\ \A x \in Releasers :
          /\ release[x].tries < MaxAttempts
          /\ release[x].pc # "idle" => release[x].ord \in Orders
          /\ release[x].pc = "swap" => release[x].sold > 0
          /\ release[x].pc \in {"guard", "purge"} => x # Expiry
          /\ release[x].pc = "guard" => release[x].seen \in {"paid", "delivered", "settled"}

Types == TableTypes /\ CallTypes /\ ReleaseTypes

Claiming(h) == call[h].pc \in {"supply", "claim"}

(* Only the request that inserted an order claims its unit, once, against  *)
(* a finite supply that was on offer.                                      *)
ClaimsOnce ==
    /\ \A o \in claimed : status[o] # "none"
    /\ \A h \in Calls : Claiming(h) =>
          /\ status[call[h].ord] # "none" /\ call[h].ord \notin claimed
          /\ call[h].total # Unlimited
    /\ \A g, h \in Calls : Claiming(g) /\ Claiming(h) /\ call[g].ord = call[h].ord => g = h

Freeing(x, o) == release[x].pc \in {"read", "swap"} /\ release[x].ord = o

Gone(o) == o \in freed \cup kept

(* A unit goes back for an order that expired, or that a refund deleted    *)
(* clones of; an order that was ever in delivery does not expire.  Unless  *)
(* a sweep writes clones of the order again, its clones are found and      *)
(* deleted once, so there is one release on its behalf, which ends in      *)
(* freed or kept; and an expired order has a release, or had one.          *)
HandsBackOnce(o) ==
    /\ o \in held \cup copied \cup erased =>
          status[o] \in {"delivering", "delivered", "refunding"}
    /\ \A x \in Releasers : Freeing(x, o) =>
          IF x = Expiry THEN status[o] = "expired" ELSE o \in erased
    /\ Gone(o) => status[o] = "expired" \/ o \in erased
    /\ o \in erased \ recloned => o \notin copied
    /\ o \notin recloned =>
          \A x \in Releasers : Freeing(x, o) =>
              /\ ~Gone(o)
              /\ \A y \in Releasers : Freeing(y, o) => x = y
    /\ status[o] = "expired" => Freeing(Expiry, o) \/ Gone(o)
    /\ o \in twice => o \in freed \cap recloned

ReleasesOnce ==
    /\ \A o \in Orders : HandsBackOnce(o)
    /\ twice \subseteq Orders
    /\ twice = {} => extra = 0

SupplyInv == Types /\ ClaimsOnce /\ ReleasesOnce

LEMMA SupplyInit == Init => SupplyInv
<1>1. SUFFICES ASSUME Init PROVE SupplyInv
  OBVIOUS
<1> USE <1>1, SupplyAssumption
<1>2. Types
  BY DEF Init, Types, TableTypes, CallTypes, ReleaseTypes, IdleCall, NoRelease, IdleSeller, CallRecord, ReleaseRecord, CallPc,
         Totals, ListingStatus, Status
<1>3. ClaimsOnce /\ ReleasesOnce
  BY DEF Init, ClaimsOnce, ReleasesOnce, HandsBackOnce, Freeing, Gone, Claiming, IdleCall,
         NoRelease
<1> QED
  BY <1>2, <1>3 DEF SupplyInv

(***************************************************************************)
(* The steps keep the types.                                               *)
(***************************************************************************)
(* A request that takes a legal next position.                             *)
LEMMA CallMoves ==
    ASSUME CallTypes, NEW h \in Calls, NEW c \in CallRecord,
           call' = [call EXCEPT ![h] = c],
           c.pc # "idle" => c.ord \in Orders,
           c.tries < MaxAttempts \/ c.pc = "orphan"
    PROVE  CallTypes'
BY DEF CallTypes

(* A release that goes on, and one that ends.                              *)
LEMMA ReleaseMoves ==
    ASSUME ReleaseTypes, NEW x \in Releasers, NEW r \in ReleaseRecord,
           release' = [release EXCEPT ![x] = r], r.tries < MaxAttempts,
           r.pc # "idle" => r.ord \in Orders, r.pc = "swap" => r.sold > 0,
           r.pc \in {"guard", "purge"} => x # Expiry,
           r.pc = "guard" => r.seen \in {"paid", "delivered", "settled"}
    PROVE  ReleaseTypes'
BY DEF ReleaseTypes

LEMMA NoReleaseType ==
    NoRelease \in ReleaseRecord /\ NoRelease.tries < MaxAttempts /\ NoRelease.pc = "idle"
BY SupplyAssumption DEF NoRelease, ReleaseRecord

LEMMA ReleaseEnds ==
    ASSUME ReleaseTypes, NEW x \in Releasers, Done(x)
    PROVE  ReleaseTypes'
BY NoReleaseType, ReleaseMoves DEF Done

LEMMA TypesCheckout ==
    ASSUME Types, NEW h \in Calls, Checkout(h) \/ CheckoutThrows(h)
    PROVE  Types'
<1> USE DEF Types, orderVars, copyVars, unitVars, pastVars
<1> DEFINE c == call[h]
<1>1. ReleaseTypes'
  <2>1. UNCHANGED release
    BY DEF Checkout, CheckoutThrows, ReadListing, CreateOrder, ReadSupply, ClaimUnit,
           FailOrphanOrder, OpenIntent, AwaitPayment
  <2> QED
    BY <2>1 DEF ReleaseTypes
<1>2. c \in CallRecord /\ (c.pc # "idle" => c.ord \in Orders)
      /\ (c.tries < MaxAttempts \/ c.pc = "orphan")
  BY DEF CallTypes
<1>3. IdleCall \in CallRecord /\ IdleCall.pc = "idle" /\ IdleCall.tries < MaxAttempts
  BY SupplyAssumption DEF IdleCall, CallRecord, CallPc, Totals
<1>4. ASSUME NEW o \in Orders, ReadListing(h, o) PROVE Types'
  <2> DEFINE d == [IdleCall EXCEPT !.pc = "order", !.ord = o, !.total = listing.total]
  <2>1. d \in CallRecord /\ d.ord = o /\ d.tries < MaxAttempts
    <3>1. listing.total \in Totals
      BY DEF TableTypes
    <3>2. d \in CallRecord
      BY <1>3, <3>1 DEF CallRecord, CallPc
    <3>3. d.ord = o /\ d.tries = 0
      BY DEF IdleCall
    <3> QED
      BY <3>2, <3>3, SupplyAssumption
  <2>2. CallTypes'
    BY <1>4, <2>1, CallMoves DEF ReadListing
  <2> QED
    BY <1>1, <1>4, <2>2 DEF ReadListing, TableTypes
<1>5. CASE CreateOrder(h)
  <2> DEFINE new == status[c.ord] = "none"
             d == [c EXCEPT !.seen = IF new THEN "created" ELSE status[c.ord],
                            !.pc = IF new /\ c.total # Unlimited THEN "supply" ELSE "intent"]
  <2>1. c.ord \in Orders /\ c.tries < MaxAttempts
    BY <1>2, <1>5 DEF CreateOrder
  <2>2. d \in CallRecord /\ d.ord = c.ord /\ d.tries = c.tries
    BY <1>2, <2>1 DEF CallRecord, CallPc, TableTypes, Status
  <2>3. call' = [call EXCEPT ![h] = d]
    BY <1>5 DEF CreateOrder, CallTypes
  <2>4. CallTypes'
    BY <2>1, <2>2, <2>3, CallMoves
  <2> QED
    BY <1>1, <1>5, <2>4 DEF CreateOrder, TableTypes, Status
<1>6. CASE ReadSupply(h)
  <2> DEFINE d == [c EXCEPT !.sold = listing.sold,
                            !.pc = IF listing.sold >= c.total THEN "orphan" ELSE "claim"]
  <2>1. d \in CallRecord /\ d.ord = c.ord /\ d.tries = c.tries
    BY <1>2 DEF CallRecord, CallPc, TableTypes
  <2>2. call' = [call EXCEPT ![h] = d] /\ c.pc = "supply"
    BY <1>6 DEF ReadSupply, CallTypes
  <2>3. CallTypes'
    BY <1>2, <2>1, <2>2, CallMoves
  <2> QED
    BY <1>1, <1>6, <2>3 DEF ReadSupply, TableTypes
<1>7. CASE ClaimUnit(h)
  <2>1. c.pc = "claim" /\ c.ord \in Orders /\ c.tries < MaxAttempts /\ c.tries \in Nat
    BY <1>2, <1>7 DEF ClaimUnit, CallRecord
  <2>2. CASE listing.sold = c.sold
    <3> DEFINE d == [c EXCEPT !.pc = "intent"]
    <3>1. d \in CallRecord /\ d.ord = c.ord /\ d.tries = c.tries
      BY <1>2 DEF CallRecord, CallPc
    <3>2. call' = [call EXCEPT ![h] = d]
      BY <1>7, <2>2 DEF ClaimUnit, CallTypes
    <3>3. CallTypes'
      BY <2>1, <3>1, <3>2, CallMoves
    <3>4. PICK s \in ListingStatus, n \in Nat :
                  listing' = [listing EXCEPT !.sold = n, !.status = s]
      <4>1. listing.sold + 1 \in Nat /\ listing.status \in ListingStatus
        BY DEF TableTypes
      <4>2. listing' = [listing EXCEPT !.sold = listing.sold + 1,
                !.status = IF listing.sold + 1 >= c.total THEN "sold_out" ELSE listing.status]
        BY <1>7, <2>2 DEF ClaimUnit, Sold
      <4> QED
        BY <4>1, <4>2 DEF ListingStatus
    <3>5. listing' \in [status : ListingStatus, total : Totals, sold : Nat]
      BY <3>4 DEF TableTypes
    <3> QED
      BY <1>1, <1>7, <2>1, <2>2, <3>3, <3>5 DEF ClaimUnit, TableTypes
  <2>3. CASE listing.sold # c.sold
    <3>0. PICK t \in Nat : t = c.tries + 1
      BY <2>1
    <3> DEFINE d == [c EXCEPT !.tries = t,
                              !.pc = IF t = MaxAttempts THEN "orphan" ELSE "supply"]
    <3>1. d \in CallRecord /\ d.ord = c.ord /\ d.tries = t
          /\ d.pc = IF t = MaxAttempts THEN "orphan" ELSE "supply"
      BY <1>2 DEF CallRecord, CallPc
    <3>2. d.tries < MaxAttempts \/ d.pc = "orphan"
      BY <2>1, <3>0, <3>1, SupplyAssumption
    <3>3. call' = [call EXCEPT ![h] = d]
      BY <1>7, <2>3, <3>0 DEF ClaimUnit, CallTypes
    <3>4. CallTypes'
      BY <2>1, <3>1, <3>2, <3>3, CallMoves
    <3> QED
      BY <1>1, <1>7, <2>3, <3>4 DEF ClaimUnit, TableTypes
  <2> QED
    BY <2>2, <2>3
<1>8. CASE FailOrphanOrder(h) \/ AwaitPayment(h)
  <2>1. CallTypes'
    BY <1>3, <1>8, CallMoves DEF FailOrphanOrder, AwaitPayment
  <2> QED
    BY <1>1, <1>8, <2>1 DEF FailOrphanOrder, AwaitPayment, TableTypes, Status
<1>9. CASE OpenIntent(h)
  <2> DEFINE d == IF c.seen = "created" THEN [c EXCEPT !.pc = "await"] ELSE IdleCall
  <2>1. c.ord \in Orders /\ c.tries < MaxAttempts
    BY <1>2, <1>9 DEF OpenIntent
  <2>2. d \in CallRecord /\ (d.pc # "idle" => d.ord \in Orders) /\ d.tries < MaxAttempts
    BY <1>2, <1>3, <2>1 DEF CallRecord, CallPc
  <2>3. call' = [call EXCEPT ![h] = d]
    BY <1>9 DEF OpenIntent, CallTypes
  <2>4. CallTypes'
    BY <2>2, <2>3, CallMoves
  <2> QED
    BY <1>1, <1>9, <2>1, <2>4 DEF OpenIntent, TableTypes
<1>10. CASE CheckoutThrows(h)
  <2>1. CallTypes'
    BY <1>3, <1>10, CallMoves DEF CheckoutThrows
  <2> QED
    BY <1>1, <1>10, <2>1 DEF CheckoutThrows, TableTypes
<1> QED
  BY <1>4, <1>5, <1>6, <1>7, <1>8, <1>9, <1>10 DEF Checkout

LEMMA TypesOrder ==
    ASSUME Types, NEW o \in Orders, OrderStep(o) \/ LeaveOrder(o)
    PROVE  Types'
<1> USE DEF Types, orderVars, copyVars, unitVars, pastVars
<1>1. CallTypes'
  <2>1. call' = call
    BY DEF OrderStep, Pay, TakeForDelivery, CloneCopy, MarkDelivered, ExpireStale, LeaveOrder
  <2> QED
    BY <2>1 DEF CallTypes
<1>2. TableTypes'
  BY DEF OrderStep, Pay, TakeForDelivery, CloneCopy, MarkDelivered, ExpireStale, LeaveOrder,
         TableTypes, Status
<1>3. CASE ExpireStale(o)
  <2> DEFINE d == [release[Expiry] EXCEPT !.pc = "read", !.ord = o]
  <2>1. Expiry \in Releasers
    BY DEF Releasers
  <2>2. release[Expiry] \in ReleaseRecord /\ release[Expiry].tries < MaxAttempts
    BY <2>1 DEF ReleaseTypes
  <2>3. d \in ReleaseRecord /\ d.pc = "read" /\ d.ord = o /\ d.tries < MaxAttempts
    BY <2>2 DEF ReleaseRecord
  <2>4. release' = [release EXCEPT ![Expiry] = d]
    BY <1>3 DEF ExpireStale
  <2>5. ReleaseTypes'
    BY <2>1, <2>3, <2>4, ReleaseMoves
  <2> QED
    BY <1>1, <1>2, <2>5
<1>4. CASE ~ExpireStale(o)
  <2>1. release' = release
    BY <1>4 DEF OrderStep, Pay, TakeForDelivery, CloneCopy, MarkDelivered, LeaveOrder
  <2> QED
    BY <1>1, <1>2, <2>1 DEF ReleaseTypes
<1> QED
  BY <1>3, <1>4

LEMMA TypesRefund ==
    ASSUME Types, NEW x \in Refunders, Refund(x) \/ RefundThrows(x)
    PROVE  Types'
<1> USE DEF Types, orderVars, copyVars, unitVars, pastVars
<1> DEFINE r == release[x]
<1>1. CallTypes'
  <2>1. call' = call
    BY DEF Refund, ReadForRefund, MarkRefunding, DeleteClones, RefundThrows
  <2> QED
    BY <2>1 DEF CallTypes
<1>2. TableTypes'
  BY DEF Refund, ReadForRefund, MarkRefunding, DeleteClones, RefundThrows, TableTypes, Status
<1>3. x \in Releasers /\ x # Expiry /\ r \in ReleaseRecord /\ r.tries < MaxAttempts
  BY SupplyAssumption DEF Releasers, ReleaseTypes
<1>4. ASSUME NEW o \in Orders, ReadForRefund(x, o) PROVE ReleaseTypes'
  <2>1. PICK pc \in {"guard", "purge"} :
           release' = [release EXCEPT ![x] =
              [NoRelease EXCEPT !.pc = pc, !.ord = o, !.seen = status[o]]]
    BY <1>4 DEF ReadForRefund
  <2> DEFINE d == [NoRelease EXCEPT !.pc = pc, !.ord = o, !.seen = status[o]]
  <2>2. status[o] \in Status \cup {"none"}
    BY DEF TableTypes
  <2>3. d \in ReleaseRecord
    BY <2>2, NoReleaseType DEF ReleaseRecord
  <2>4. d.pc = pc /\ d.ord = o /\ d.tries = NoRelease.tries /\ d.seen = status[o]
    BY DEF NoRelease
  <2>5. pc = "guard" => status[o] \in {"paid", "delivered", "settled"}
    <3>1. pc = release'[x].pc
      BY <1>3, <2>1, <2>4 DEF ReleaseTypes
    <3>2. PICK q : /\ q = "guard" => CanTransition(status[o], "refunding")
                   /\ release' = [release EXCEPT ![x] =
                         [NoRelease EXCEPT !.pc = q, !.ord = o, !.seen = status[o]]]
      BY <1>4 DEF ReadForRefund
    <3>3. q = release'[x].pc
      BY <1>3, <3>2 DEF ReleaseTypes, NoRelease
    <3> QED
      BY <3>1, <3>2, <3>3 DEF CanTransition, Transitions
  <2> QED
    BY <1>3, <2>1, <2>3, <2>4, <2>5, NoReleaseType, ReleaseMoves
<1>5. CASE MarkRefunding(x) \/ (DeleteClones(x) /\ ~Done(x))
  <2>1. PICK pc \in {"purge", "read"} : release' = [release EXCEPT ![x] = [r EXCEPT !.pc = pc]]
    BY <1>3, <1>5 DEF MarkRefunding, DeleteClones, Done, ReleaseTypes
  <2> DEFINE d == [r EXCEPT !.pc = pc]
  <2>2. d \in ReleaseRecord /\ d.pc = pc /\ d.ord = r.ord /\ d.tries = r.tries
    BY <1>3 DEF ReleaseRecord
  <2>3. r.ord \in Orders
    BY <1>3, <1>5 DEF MarkRefunding, DeleteClones, ReleaseTypes
  <2> QED
    BY <1>1, <1>2, <1>3, <2>1, <2>2, <2>3, ReleaseMoves
<1>6. CASE RefundThrows(x) \/ Done(x)
  BY <1>1, <1>2, <1>3, <1>6, ReleaseEnds DEF RefundThrows, Done
<1> QED
  BY <1>1, <1>2, <1>4, <1>5, <1>6 DEF Refund

LEMMA TypesRelease ==
    ASSUME Types, NEW x \in Releasers, Release(x) \/ ReleaseFails(x)
    PROVE  Types'
<1> USE DEF Types, orderVars, copyVars, unitVars, pastVars
<1> DEFINE r == release[x]
<1>1. CallTypes'
  <2>1. call' = call
    BY DEF Release, ReadForRelease, ReleaseUnit, ReleaseFails
  <2> QED
    BY <2>1 DEF CallTypes
<1>2. r \in ReleaseRecord /\ r.tries < MaxAttempts /\ r.ord \in Orders
  BY DEF ReleaseTypes, Release, ReadForRelease, ReleaseUnit, ReleaseFails
<1>3. CASE ReadForRelease(x)
  <2> DEFINE d == [r EXCEPT !.pc = "swap", !.sold = listing.sold,
                            !.flip = listing.status = "sold_out"]
  <2>1. TableTypes'
    BY <1>2, <1>3 DEF ReadForRelease, TableTypes
  <2>2. CASE Done(x)
    BY <1>1, <2>1, <2>2, ReleaseEnds
  <2>3. CASE ~Done(x)
    <3>1. d \in ReleaseRecord /\ d.pc = "swap" /\ d.tries < MaxAttempts /\ d.ord \in Orders
          /\ d.sold = listing.sold
      BY <1>2 DEF ReleaseRecord, TableTypes
    <3>2. listing.sold > 0 /\ release' = [release EXCEPT ![x] = d]
      BY <1>3, <2>3 DEF ReadForRelease, ReleaseTypes
    <3> QED
      BY <1>1, <2>1, <3>1, <3>2, ReleaseMoves
  <2> QED
    BY <2>2, <2>3
<1>4. CASE ReleaseUnit(x)
  <2>1. r.pc = "swap" /\ r.sold > 0 /\ r.sold \in Nat /\ r.tries \in Nat
    BY <1>2, <1>4 DEF ReleaseUnit, ReleaseTypes, ReleaseRecord
  <2>2. CASE listing.sold = r.sold
    <3>1. PICK s \in ListingStatus, n \in Nat :
                  listing' = [listing EXCEPT !.sold = n, !.status = s]
      <4>1. listing.sold - 1 \in Nat /\ listing.status \in ListingStatus
        BY <2>1, <2>2 DEF TableTypes
      <4>2. listing' = [listing EXCEPT !.sold = listing.sold - 1,
                                       !.status = IF r.flip THEN "listed" ELSE listing.status]
        BY <1>4, <2>2 DEF ReleaseUnit
      <4> QED
        BY <4>1, <4>2 DEF ListingStatus
    <3>2. listing' \in [status : ListingStatus, total : Totals, sold : Nat]
      BY <3>1 DEF TableTypes
    <3>3. freed' \subseteq Orders /\ extra' \in Nat /\ kept' = kept
      BY <1>2, <1>4, <2>2 DEF ReleaseUnit, HandBack, TableTypes
    <3>4. Done(x)
      BY <1>4, <2>2 DEF ReleaseUnit
    <3> QED
      BY <1>1, <1>4, <3>2, <3>3, <3>4, ReleaseEnds DEF ReleaseUnit, TableTypes
  <2>3. CASE Done(x) /\ kept' = kept \cup {r.ord} /\ UNCHANGED <<listing, freed, extra>>
    BY <1>1, <1>2, <1>4, <2>3, ReleaseEnds DEF ReleaseUnit, TableTypes
  <2>4. CASE /\ r.tries + 1 < MaxAttempts
             /\ release' = [release EXCEPT ![x].pc = "read", ![x].tries = @ + 1]
             /\ UNCHANGED <<listing, freed, extra, kept>>
    <3>1. PICK t \in Nat : t = r.tries + 1
      BY <2>1
    <3> DEFINE d == [r EXCEPT !.pc = "read", !.tries = t]
    <3>2. d \in ReleaseRecord /\ d.pc = "read" /\ d.tries < MaxAttempts /\ d.ord \in Orders
      BY <1>2, <2>4, <3>1 DEF ReleaseRecord
    <3>3. release' = [release EXCEPT ![x] = d]
      BY <2>4, <3>1 DEF ReleaseTypes
    <3>4. ReleaseTypes'
      BY <3>2, <3>3, ReleaseMoves
    <3> QED
      BY <1>1, <1>4, <2>4, <3>4 DEF ReleaseUnit, TableTypes
  <2> QED
    BY <1>4, <2>2, <2>3, <2>4 DEF ReleaseUnit
<1>5. CASE ReleaseFails(x)
  BY <1>1, <1>2, <1>5, ReleaseEnds DEF ReleaseFails, TableTypes
<1> QED
  BY <1>3, <1>4, <1>5 DEF Release

LEMMA TypesRest ==
    ASSUME Types, Seller \/ Crash \/ UNCHANGED vars
    PROVE  Types'
<1> USE SupplyAssumption DEF Types, orderVars, copyVars, unitVars, pastVars
<1>1. CASE LoadForPatch \/ LoadForPublish \/ LoadForDelist
  <2>1. \E t \in Totals, pc \in {"patch", "publish", "delist"} :
           seller' = [pc |-> pc, total |-> t]
    BY <1>1 DEF LoadForPatch, LoadForPublish, LoadForDelist, SellerLoads, Totals
  <2>2. UNCHANGED <<listing, orderVars, copyVars, call, release, unitVars>>
    BY <1>1 DEF LoadForPatch, LoadForPublish, LoadForDelist, SellerLoads
  <2>3. CallTypes' /\ ReleaseTypes'
    BY <2>2 DEF CallTypes, ReleaseTypes
  <2>4. TableTypes'
    BY <2>1, <2>2 DEF TableTypes
  <2> QED
    BY <2>3, <2>4
<1>2. CASE SellerWrites
  <2>1. seller' \in [pc : {"idle", "patch", "publish", "delist"}, total : Totals]
    BY <1>2 DEF SellerWrites, IdleSeller, Totals
  <2>2. listing' \in [status : ListingStatus, total : Totals, sold : Nat] /\ peak' \in Nat
    BY <1>2 DEF SellerWrites, TableTypes, ListingStatus, Totals
  <2>3. CallTypes' /\ ReleaseTypes'
    BY <1>2 DEF SellerWrites, CallTypes, ReleaseTypes
  <2>4. TableTypes'
    BY <1>2, <2>1, <2>2 DEF SellerWrites, TableTypes
  <2> QED
    BY <2>3, <2>4
<1>3. CASE Crash
  <2>1. TableTypes'
    BY <1>3 DEF Crash, TableTypes, ReleaseTypes, IdleSeller, Totals
  <2>2. CallTypes'
    BY <1>3 DEF Crash, CallTypes, CallRecord, CallPc, Totals, IdleCall
  <2>3. ReleaseTypes'
    BY <1>3, NoReleaseType DEF Crash, ReleaseTypes
  <2> QED
    BY <2>1, <2>2, <2>3
<1>4. CASE UNCHANGED vars
  <2>1. CallTypes' /\ ReleaseTypes'
    BY <1>4 DEF vars, CallTypes, ReleaseTypes
  <2>2. TableTypes'
    BY <1>4 DEF vars, TableTypes
  <2> QED
    BY <2>1, <2>2
<1> QED
  BY <1>1, <1>2, <1>3, <1>4 DEF Seller

(***************************************************************************)
(* The steps keep the claims.  Only the insert of an order starts a claim  *)
(* and only the compare-and-swap ends one in a unit.                       *)
(***************************************************************************)
LEMMA ClaimsKept ==
    ASSUME ClaimsOnce, claimed' = claimed, Types,
           \A o \in Orders : status[o] # "none" => status'[o] # "none",
           \A h \in Calls : Claiming(h)' =>
               Claiming(h) /\ call'[h].ord = call[h].ord /\ call'[h].total = call[h].total
    PROVE  ClaimsOnce'
<1>1. \A h \in Calls : Claiming(h) => call[h].ord \in Orders
  BY DEF Claiming, Types, CallTypes
<1>2. claimed \subseteq Orders
  BY DEF Types, TableTypes
<1> QED
  BY <1>1, <1>2 DEF ClaimsOnce

LEMMA ClaimsCheckout ==
    ASSUME Types, ClaimsOnce, NEW h \in Calls, Checkout(h) \/ CheckoutThrows(h)
    PROVE  ClaimsOnce'
<1> USE DEF orderVars, copyVars, unitVars, pastVars
<1>1. call \in [Calls -> CallRecord] /\ status \in [Orders -> Status \cup {"none"}]
      /\ claimed \subseteq Orders
      /\ \A g \in Calls : call[g].pc # "idle" => call[g].ord \in Orders
  BY DEF Types, TableTypes, CallTypes
<1>2. ASSUME NEW o \in Orders, ReadListing(h, o) PROVE ClaimsOnce'
  BY <1>1, <1>2, ClaimsKept DEF ReadListing, Claiming, IdleCall
<1>3. CASE CreateOrder(h)
  <2> DEFINE o == call[h].ord
  <2>1. o \in Orders
    BY <1>1, <1>3 DEF CreateOrder
  <2>2. CASE status[o] = "none"
    <3>1. o \notin claimed /\ \A g \in Calls : Claiming(g) => call[g].ord # o
      BY <1>1, <2>2 DEF ClaimsOnce
    <3>2. /\ status' = [status EXCEPT ![o] = "created"] /\ claimed' = claimed
          /\ \A g \in Calls \ {h} : call'[g] = call[g]
          /\ call'[h].ord = o /\ call'[h].total = call[h].total
          /\ Claiming(h)' => call[h].total # Unlimited
      BY <1>1, <1>3, <2>2 DEF CreateOrder, Claiming, CallRecord
    <3>3. status'[o] = "created" /\ \A q \in Orders \ {o} : status'[q] = status[q]
      BY <1>1, <2>1, <3>2
    <3>4. \A g \in Calls \ {h} : Claiming(g)' = Claiming(g)
      BY <3>2 DEF Claiming
    <3>5. \A q \in claimed' : status'[q] # "none"
      BY <1>1, <3>1, <3>2, <3>3 DEF ClaimsOnce
    <3>6. ASSUME NEW g \in Calls, Claiming(g)'
          PROVE  /\ status'[call'[g].ord] # "none" /\ call'[g].ord \notin claimed'
                 /\ call'[g].total # Unlimited
      <4>1. CASE g = h
        BY <3>1, <3>2, <3>3, <3>6, <4>1
      <4>2. CASE g # h
        <5>1. Claiming(g) /\ call'[g] = call[g] /\ call[g].ord \in Orders
          BY <1>1, <3>2, <3>4, <3>6, <4>2 DEF Claiming
        <5> QED
          BY <3>2, <3>3, <5>1 DEF ClaimsOnce
      <4> QED
        BY <4>1, <4>2
    <3>7. ASSUME NEW f \in Calls, NEW g \in Calls, Claiming(f)', Claiming(g)',
                 call'[f].ord = call'[g].ord
          PROVE  f = g
      BY <3>1, <3>2, <3>4, <3>7 DEF ClaimsOnce
    <3> QED
      BY <3>5, <3>6, <3>7 DEF ClaimsOnce
  <2>3. CASE status[o] # "none"
    BY <1>1, <1>3, <2>3, ClaimsKept DEF CreateOrder, Claiming, CallRecord
  <2> QED
    BY <2>2, <2>3
<1>4. CASE ReadSupply(h)
  BY <1>1, <1>4, ClaimsKept DEF ReadSupply, Claiming
<1>5. CASE ClaimUnit(h)
  <2> DEFINE c == call[h]
  <2>1. Claiming(h) /\ c.ord \in Orders
    BY <1>1, <1>5 DEF ClaimUnit, Claiming
  <2>2. CASE listing.sold = c.sold
    <3>1. /\ status' = status /\ claimed' = claimed \cup {c.ord}
          /\ \A g \in Calls \ {h} : call'[g] = call[g]
          /\ ~Claiming(h)'
      BY <1>1, <1>5, <2>2 DEF ClaimUnit, Claiming, CallRecord
    <3>2. \A g \in Calls : Claiming(g)' => Claiming(g) /\ g # h /\ call'[g] = call[g]
      BY <3>1 DEF Claiming
    <3> QED
      BY <2>1, <3>1, <3>2 DEF ClaimsOnce
  <2>3. CASE listing.sold # c.sold
    BY <1>1, <1>5, <2>1, <2>3, ClaimsKept DEF ClaimUnit, Claiming, CallRecord
  <2> QED
    BY <2>2, <2>3
<1>6. CASE FailOrphanOrder(h) \/ AwaitPayment(h)
  BY <1>1, <1>6, ClaimsKept DEF FailOrphanOrder, AwaitPayment, Claiming, IdleCall
<1>7. CASE OpenIntent(h)
  BY <1>1, <1>7, ClaimsKept DEF OpenIntent, Claiming, IdleCall
<1>8. CASE CheckoutThrows(h)
  BY <1>1, <1>8, ClaimsKept DEF CheckoutThrows, Claiming, IdleCall
<1> QED
  BY <1>2, <1>3, <1>4, <1>5, <1>6, <1>7, <1>8 DEF Checkout

(* Everything that is not a step of a checkout.                            *)
Elsewhere ==
    \/ \E o \in Orders : OrderStep(o) \/ LeaveOrder(o)
    \/ \E x \in Refunders : Refund(x) \/ RefundThrows(x)
    \/ \E x \in Releasers : Release(x) \/ ReleaseFails(x)
    \/ Seller \/ Crash \/ UNCHANGED vars

LEMMA ElsewhereFacts ==
    ASSUME Types, Elsewhere
    PROVE  /\ UNCHANGED <<claimed, uncounted, replayed, intents>>
           /\ call' = call \/ call' = [h \in Calls |-> IdleCall]
           /\ \A o \in Orders : status[o] # "none" => status'[o] # "none"
<1> USE DEF orderVars, copyVars, unitVars, pastVars
<1>1. status \in [Orders -> Status \cup {"none"}]
  BY DEF Types, TableTypes
<1>2. ASSUME NEW o \in Orders, OrderStep(o) \/ LeaveOrder(o)
      PROVE  /\ UNCHANGED <<claimed, uncounted, replayed, intents, call>>
             /\ \A p \in Orders : status[p] # "none" => status'[p] # "none"
  BY <1>1, <1>2 DEF OrderStep, Pay, TakeForDelivery, CloneCopy, MarkDelivered, ExpireStale,
                    LeaveOrder
<1>3. ASSUME NEW x \in Refunders, Refund(x) \/ RefundThrows(x)
      PROVE  /\ UNCHANGED <<claimed, uncounted, replayed, intents, call>>
             /\ \A p \in Orders : status[p] # "none" => status'[p] # "none"
  BY <1>1, <1>3 DEF Refund, ReadForRefund, MarkRefunding, DeleteClones, RefundThrows
<1>4. ASSUME NEW x \in Releasers, Release(x) \/ ReleaseFails(x)
      PROVE  UNCHANGED <<claimed, uncounted, replayed, intents, call, status>>
  BY <1>4 DEF Release, ReadForRelease, ReleaseUnit, ReleaseFails
<1>5. CASE Seller \/ UNCHANGED vars
  BY <1>5 DEF Seller, LoadForPatch, LoadForPublish, LoadForDelist, SellerLoads, SellerWrites,
              vars
<1>6. CASE Crash
  BY <1>6 DEF Crash
<1> QED
  BY <1>2, <1>3, <1>4, <1>5, <1>6 DEF Elsewhere

LEMMA ClaimsElsewhere ==
    ASSUME Types, ClaimsOnce, Elsewhere
    PROVE  ClaimsOnce'
<1>1. \A h \in Calls : Claiming(h)' =>
          Claiming(h) /\ call'[h].ord = call[h].ord /\ call'[h].total = call[h].total
  BY ElsewhereFacts DEF Claiming, IdleCall
<1> QED
  BY <1>1, ElsewhereFacts, ClaimsKept

(***************************************************************************)
(* The steps keep the releases.                                            *)
(***************************************************************************)
LEMMA ReleasesKept ==
    ASSUME ReleasesOnce,
           UNCHANGED <<release, freed, kept, twice, extra, copied, held, erased, recloned>>,
           \A o \in Orders :
              \/ status'[o] = status[o]
              \/ /\ status[o] \notin {"expired", "delivering", "delivered", "refunding"}
                 /\ status'[o] # "expired"
    PROVE  ReleasesOnce'
BY DEF ReleasesOnce, HandsBackOnce, Freeing, Gone

LEMMA ReleasesElsewhere ==
    ASSUME Types, ReleasesOnce,
           \/ \E h \in Calls : Checkout(h) \/ CheckoutThrows(h)
           \/ \E o \in Orders : Pay(o)
           \/ Seller \/ UNCHANGED vars
    PROVE  ReleasesOnce'
<1> USE DEF orderVars, copyVars, unitVars, pastVars
<1>1. UNCHANGED <<release, freed, kept, twice, extra, copied, held, erased, recloned>>
  BY DEF Checkout, CheckoutThrows, ReadListing, CreateOrder, ReadSupply, ClaimUnit,
         FailOrphanOrder, OpenIntent, AwaitPayment, Pay, Seller,
         LoadForPatch, LoadForPublish, LoadForDelist, SellerLoads, SellerWrites, vars
<1>2. \/ status' = status
      \/ \E o \in Orders, s \in Status :
            /\ status' = [status EXCEPT ![o] = s]
            /\ status[o] \notin {"expired", "delivering", "delivered", "refunding"}
            /\ s # "expired"
  <2>1. ASSUME NEW h \in Calls, CreateOrder(h) \/ FailOrphanOrder(h) \/ AwaitPayment(h),
               status' # status
        PROVE  \E o \in Orders, s \in {"created", "failed", "awaiting_payment"} :
                  /\ status' = [status EXCEPT ![o] = s]
                  /\ status[o] \in {"none", "created"}
    <3>1. call[h].ord \in Orders
      BY <2>1 DEF CreateOrder, FailOrphanOrder, AwaitPayment, Types, CallTypes
    <3> QED
      BY <2>1, <3>1 DEF CreateOrder, FailOrphanOrder, AwaitPayment
  <2>2. ASSUME NEW o \in Orders, Pay(o), status' # status
        PROVE  status' = [status EXCEPT ![o] = "paid"] /\ status[o] \in PrePaidStates
    BY <2>2 DEF Pay
  <2>3. \/ status' = status
        \/ \E h \in Calls : CreateOrder(h) \/ FailOrphanOrder(h) \/ AwaitPayment(h)
        \/ \E o \in Orders : Pay(o)
    BY DEF Checkout, CheckoutThrows, ReadListing, ReadSupply, ClaimUnit, OpenIntent, Seller,
           LoadForPatch, LoadForPublish, LoadForDelist, SellerLoads, SellerWrites, vars
  <2> QED
    BY <2>1, <2>2, <2>3 DEF Status, PrePaidStates
<1> QED
  BY <1>1, <1>2, ReleasesKept DEF Types, TableTypes

(* A sweep writes, completes or leaves a delivery; a rewritten order is    *)
(* recloned.                                                               *)
LEMMA ReleasesDelivery ==
    ASSUME Types, ReleasesOnce, NEW o \in Orders,
           TakeForDelivery(o) \/ CloneCopy(o) \/ MarkDelivered(o) \/ LeaveOrder(o)
    PROVE  ReleasesOnce'
<1> USE DEF orderVars, copyVars, unitVars, pastVars
<1>1. UNCHANGED <<release, freed, kept, twice, extra, erased>>
  BY DEF TakeForDelivery, CloneCopy, MarkDelivered, LeaveOrder
<1>2. status \in [Orders -> Status \cup {"none"}]
  BY DEF Types, TableTypes
<1>3. ASSUME NEW p \in Orders \ {o}
      PROVE  /\ status'[p] = status[p]
             /\ p \in held' => p \in held
             /\ p \in copied' <=> p \in copied
             /\ p \in recloned' <=> p \in recloned
  BY <1>2 DEF TakeForDelivery, CloneCopy, MarkDelivered, LeaveOrder
<1>4. ASSUME NEW p \in Orders \ {o} PROVE HandsBackOnce(p)'
  BY <1>1, <1>3 DEF ReleasesOnce, HandsBackOnce, Freeing, Gone
<1>5. /\ status'[o] # status[o] => /\ status[o] \in {"paid", "delivering"}
                                   /\ status'[o] \in {"delivering", "delivered"}
      /\ o \in (held' \cup copied') => o \in held \cup copied \/ status'[o] = "delivering"
      /\ o \in copied' => o \in copied \/ o \notin erased \/ o \in recloned'
      /\ o \in recloned => o \in recloned'
  BY <1>2 DEF TakeForDelivery, CloneCopy, MarkDelivered, LeaveOrder
<1>6. HandsBackOnce(o)'
  BY <1>1, <1>5 DEF ReleasesOnce, HandsBackOnce, Freeing, Gone
<1> QED
  BY <1>1, <1>4, <1>6 DEF ReleasesOnce

(* The expiry of an order starts its only release.                         *)
LEMMA ReleasesExpiry ==
    ASSUME Types, ReleasesOnce, NEW o \in Orders, ExpireStale(o)
    PROVE  ReleasesOnce'
<1> USE DEF orderVars, copyVars, unitVars, pastVars
<1>1. /\ status \in [Orders -> Status \cup {"none"}] /\ release \in [Releasers -> ReleaseRecord]
      /\ Expiry \in Releasers
  BY DEF Types, TableTypes, ReleaseTypes, Releasers
<1>2. /\ UNCHANGED <<freed, kept, twice, extra, copied, held, erased, recloned>>
      /\ status[o] \in PrePaidStates /\ status' = [status EXCEPT ![o] = "expired"]
      /\ release[Expiry].pc = "idle"
      /\ \A x \in Releasers \ {Expiry} : release'[x] = release[x]
      /\ release'[Expiry].pc = "read" /\ release'[Expiry].ord = o
  BY <1>1 DEF ExpireStale, ReleaseRecord
<1>3. o \notin held \cup copied \cup erased /\ ~Gone(o)
      /\ \A x \in Releasers : ~Freeing(x, o)
  BY <1>2 DEF ReleasesOnce, HandsBackOnce, PrePaidStates, Freeing
<1>4. \A x \in Releasers : Freeing(x, o)' <=> x = Expiry
  BY <1>1, <1>2, <1>3 DEF Freeing
<1>5. HandsBackOnce(o)'
  BY <1>1, <1>2, <1>3, <1>4 DEF ReleasesOnce, HandsBackOnce, Gone
<1>6. ASSUME NEW p \in Orders \ {o} PROVE HandsBackOnce(p)'
  <2>1. \A x \in Releasers : Freeing(x, p)' <=> Freeing(x, p)
    BY <1>2, <1>6 DEF Freeing
  <2>2. status'[p] = status[p]
    BY <1>1, <1>2
  <2>3. Gone(p)' <=> Gone(p)
    BY <1>2 DEF Gone
  <2>4. HandsBackOnce(p)
    BY DEF ReleasesOnce
  <2> QED
    BY <1>1, <1>2, <2>1, <2>2, <2>3, <2>4 DEF HandsBackOnce
<1> QED
  BY <1>2, <1>5, <1>6 DEF ReleasesOnce

(* A refund: only its delete starts a release, and only when it found      *)
(* clones.                                                                 *)
LEMMA ReleasesRefund ==
    ASSUME Types, ReleasesOnce, NEW r \in Refunders, Refund(r) \/ RefundThrows(r)
    PROVE  ReleasesOnce'
<1> USE DEF orderVars, copyVars, unitVars, pastVars
<1>1. /\ status \in [Orders -> Status \cup {"none"}] /\ release \in [Releasers -> ReleaseRecord]
      /\ r \in Releasers /\ r # Expiry
  BY SupplyAssumption DEF Types, TableTypes, ReleaseTypes, Releasers
<1>2. UNCHANGED <<freed, kept, twice, extra, held, recloned>>
  BY DEF Refund, ReadForRefund, MarkRefunding, DeleteClones, RefundThrows
<1>3. \A x \in Releasers \ {r} : release'[x] = release[x]
  BY <1>1 DEF Refund, ReadForRefund, MarkRefunding, DeleteClones, RefundThrows
<1>4. \A p \in Orders : ~Freeing(r, p)
  BY DEF Freeing, Refund, ReadForRefund, MarkRefunding, DeleteClones, RefundThrows
<1>5. \A p \in Orders : Gone(p)' <=> Gone(p)
  BY <1>2 DEF Gone
<1>6. CASE DeleteClones(r) /\ release[r].ord \in copied
  <2>0. PICK o \in Orders : o = release[r].ord
    BY <1>1, <1>6 DEF DeleteClones, Types, ReleaseTypes
  <2>1. status' = status
    BY <1>6 DEF DeleteClones
  <2>2. /\ copied' = copied \ {o} /\ erased' = erased \cup {o}
        /\ release'[r].pc = "read" /\ release'[r].ord = o
    BY <1>1, <1>6, <2>0 DEF DeleteClones, ReleaseRecord
  <2>3. o \notin recloned => o \notin erased /\ ~Gone(o) /\ \A x \in Releasers : ~Freeing(x, o)
    BY <1>6, <2>0 DEF ReleasesOnce, HandsBackOnce
  <2>4. \A x \in Releasers : Freeing(x, o)' <=> Freeing(x, o) \/ x = r
    BY <1>3, <2>2 DEF Freeing
  <2>5. status[o] \in {"delivering", "delivered", "refunding"}
    BY <1>6, <2>0 DEF ReleasesOnce, HandsBackOnce
  <2>6. HandsBackOnce(o)'
    BY <1>1, <1>2, <1>5, <2>1, <2>2, <2>3, <2>4, <2>5 DEF ReleasesOnce, HandsBackOnce
  <2>7. ASSUME NEW p \in Orders \ {o} PROVE HandsBackOnce(p)'
    <3>1. \A x \in Releasers : Freeing(x, p)' <=> Freeing(x, p)
      BY <1>3, <1>4, <2>2, <2>7 DEF Freeing
    <3>2. HandsBackOnce(p) /\ (Gone(p)' <=> Gone(p))
      BY <1>5 DEF ReleasesOnce
    <3> QED
      BY <1>1, <1>2, <2>1, <2>2, <3>1, <3>2 DEF HandsBackOnce, Releasers
  <2> QED
    BY <1>2, <2>6, <2>7 DEF ReleasesOnce
<1>7. CASE ~(DeleteClones(r) /\ release[r].ord \in copied)
  <2>1. release'[r].pc \notin {"read", "swap"} /\ UNCHANGED erased /\ copied' = copied
    <3>1. ASSUME NEW o \in Orders, ReadForRefund(r, o)
          PROVE  release'[r].pc \notin {"read", "swap"} /\ UNCHANGED <<erased, copied>>
      BY <1>1, <3>1 DEF ReadForRefund, NoRelease
    <3>2. CASE MarkRefunding(r)
      BY <1>1, <3>2 DEF MarkRefunding, ReleaseRecord
    <3>3. CASE RefundThrows(r)
      BY <1>1, <3>3 DEF RefundThrows, NoRelease
    <3>4. CASE DeleteClones(r)
      <4>1. copied \ {release[r].ord} = copied
        BY <1>7, <3>4
      <4> QED
        BY <1>1, <1>7, <3>4, <4>1 DEF DeleteClones, NoRelease
    <3> QED
      BY <3>1, <3>2, <3>3, <3>4 DEF Refund
  <2>2. \A x \in Releasers, p \in Orders : Freeing(x, p)' <=> Freeing(x, p)
    BY <1>3, <1>4, <2>1 DEF Freeing
  <2>3. \A p \in Orders : status'[p] = status[p] \/
           (status[p] \in {"paid", "delivered", "settled"} /\ status'[p] = "refunding")
    <3>1. release[r].pc = "guard" => /\ release[r].ord \in Orders
                                     /\ release[r].seen \in {"paid", "delivered", "settled"}
      BY <1>1 DEF Types, ReleaseTypes
    <3> QED
      BY <1>1, <3>1 DEF Refund, ReadForRefund, MarkRefunding, DeleteClones, RefundThrows
  <2>4. ASSUME NEW p \in Orders PROVE HandsBackOnce(p)'
    <3>1. /\ UNCHANGED <<freed, held, copied, erased, recloned, twice>>
          /\ Gone(p)' <=> Gone(p)
          /\ \A x \in Releasers : Freeing(x, p)' <=> Freeing(x, p)
      BY <1>2, <1>5, <2>1, <2>2
    <3>2. HandsBackOnce(p) /\ Expiry \in Releasers
      BY DEF ReleasesOnce, Releasers
    <3> QED
      BY <2>3, <3>1, <3>2 DEF HandsBackOnce
  <2> QED
    BY <1>2, <2>4 DEF ReleasesOnce
<1> QED
  BY <1>6, <1>7

(* A release goes on, or ends with the unit handed back or given up.       *)
LEMMA ReleasesRelease ==
    ASSUME Types, ReleasesOnce, NEW x \in Releasers, Release(x) \/ ReleaseFails(x)
    PROVE  ReleasesOnce'
<1> USE DEF orderVars, copyVars, unitVars, pastVars
<1>0. PICK o \in Orders : o = release[x].ord
  BY DEF Types, ReleaseTypes, Release, ReadForRelease, ReleaseUnit, ReleaseFails
<1>1. release \in [Releasers -> ReleaseRecord]
  BY DEF Types, ReleaseTypes
<1>2. UNCHANGED <<status, copied, held, erased, recloned>>
  BY DEF Release, ReadForRelease, ReleaseUnit, ReleaseFails
<1>3. Freeing(x, o) /\ \A p \in Orders \ {o} : ~Freeing(x, p)
  BY <1>0 DEF Freeing, Release, ReadForRelease, ReleaseUnit, ReleaseFails
<1>4. \A y \in Releasers \ {x} : release'[y] = release[y]
  BY <1>1 DEF Release, ReadForRelease, ReleaseUnit, ReleaseFails, Done
<1>5. CASE /\ release'[x].pc \in {"read", "swap"} /\ release'[x].ord = o
           /\ UNCHANGED <<freed, kept, twice, extra>>
  <2>1. \A y \in Releasers, p \in Orders : Freeing(y, p)' <=> Freeing(y, p)
    BY <1>3, <1>4, <1>5 DEF Freeing
  <2>2. \A p \in Orders : Gone(p)' <=> Gone(p)
    BY <1>5 DEF Gone
  <2> QED
    BY <1>2, <1>5, <2>1, <2>2 DEF ReleasesOnce, HandsBackOnce, Releasers
<1>6. CASE /\ release'[x].pc = "idle"
           /\ \/ freed' = freed /\ kept' = kept \cup {o} /\ UNCHANGED <<twice, extra>>
              \/ kept' = kept /\ HandBack(o)
  <2>1. /\ \A y \in Releasers : Freeing(y, o)' <=> Freeing(y, o) /\ y # x
        /\ \A y \in Releasers, p \in Orders \ {o} : Freeing(y, p)' <=> Freeing(y, p)
    BY <1>3, <1>4, <1>6 DEF Freeing
  <2>2. /\ Gone(o)'
        /\ \A p \in Orders \ {o} : /\ Gone(p)' <=> Gone(p)
                                   /\ p \in freed' <=> p \in freed
                                   /\ p \in twice' <=> p \in twice
    BY <1>6 DEF Gone, HandBack
  <2>3. o \in twice' => o \in twice \/ (o \in freed /\ o \in freed')
    BY <1>6 DEF HandBack
  <2>4. HandsBackOnce(o)
    BY <1>1 DEF ReleasesOnce
  <2>5. o \in freed => o \in recloned
    BY <1>3, <2>4 DEF HandsBackOnce, Gone
  <2>6. freed \subseteq freed'
    BY <1>6 DEF HandBack
  <2>7. HandsBackOnce(o)'
    BY <1>2, <1>3, <2>1, <2>2, <2>3, <2>4, <2>5, <2>6 DEF HandsBackOnce
  <2>8. ASSUME NEW p \in Orders \ {o} PROVE HandsBackOnce(p)'
    <3>1. HandsBackOnce(p) /\ Expiry \in Releasers
      BY DEF ReleasesOnce, Releasers
    <3> QED
      BY <1>2, <2>1, <2>2, <3>1 DEF HandsBackOnce
  <2>9. twice' \subseteq Orders /\ (twice' = {} => extra' = 0)
    BY <1>1, <1>6 DEF HandBack, ReleasesOnce
  <2> QED
    BY <2>7, <2>8, <2>9 DEF ReleasesOnce
<1> QED
  BY <1>0, <1>1, <1>5, <1>6 DEF Release, ReadForRelease, ReleaseUnit, ReleaseFails, Done,
                                NoRelease, ReleaseRecord

LEMMA ReleasesCrash ==
    ASSUME Types, ReleasesOnce, Crash
    PROVE  ReleasesOnce'
<1>1. /\ UNCHANGED <<status, copied, freed, twice, extra, erased, recloned>> /\ held' = {}
      /\ \A x \in Releasers, o \in Orders : ~Freeing(x, o)'
      /\ \A o \in Orders : Gone(o)' <=> Gone(o) \/ \E x \in Releasers : Freeing(x, o)
  BY DEF Crash, Freeing, Gone, NoRelease, orderVars, copyVars, unitVars, pastVars
<1>2. Expiry \in Releasers
  BY DEF Releasers
<1> QED
  BY <1>1, <1>2 DEF ReleasesOnce, HandsBackOnce

LEMMA SupplyStep == SupplyInv /\ [Next]_vars => SupplyInv'
<1>1. SUFFICES ASSUME Types, ClaimsOnce, ReleasesOnce, [Next]_vars
               PROVE  Types' /\ ClaimsOnce' /\ ReleasesOnce'
  BY DEF SupplyInv
<1>2. CASE \E h \in Calls : Checkout(h) \/ CheckoutThrows(h)
  BY <1>1, <1>2, TypesCheckout, ClaimsCheckout, ReleasesElsewhere
<1>3. CASE \E o \in Orders : OrderStep(o) \/ LeaveOrder(o)
  <2>1. Types' /\ ClaimsOnce'
    BY <1>1, <1>3, TypesOrder, ClaimsElsewhere DEF Elsewhere
  <2>2. ReleasesOnce'
    BY <1>1, <1>3, ReleasesElsewhere, ReleasesDelivery, ReleasesExpiry DEF OrderStep
  <2> QED
    BY <2>1, <2>2
<1>4. CASE \E r \in Refunders : Refund(r) \/ RefundThrows(r)
  BY <1>1, <1>4, TypesRefund, ClaimsElsewhere, ReleasesRefund DEF Elsewhere
<1>5. CASE \E x \in Releasers : Release(x) \/ ReleaseFails(x)
  BY <1>1, <1>5, TypesRelease, ClaimsElsewhere, ReleasesRelease DEF Elsewhere
<1>6. CASE Seller \/ UNCHANGED vars
  BY <1>1, <1>6, TypesRest, ClaimsElsewhere, ReleasesElsewhere DEF Elsewhere
<1>7. CASE Crash
  BY <1>1, <1>7, TypesRest, ClaimsElsewhere, ReleasesCrash DEF Elsewhere
<1> QED
  BY <1>1, <1>2, <1>3, <1>4, <1>5, <1>6, <1>7 DEF Next, Failure

LEMMA SupplyInvariant == Spec => []SupplyInv
  BY SupplyInit, SupplyStep, PTL DEF Spec

(* Type correctness, and with it that no retry loop exceeds its limit, the *)
(* counter does not go below zero, and a unit goes back a second time only *)
(* for an order for which one went back before.                            *)
THEOREM SupplyTyping == Spec => []TypeOK
<1>1. SupplyInv => TypeOK
  BY DEF SupplyInv, Types, TableTypes, CallTypes, ReleaseTypes, ReleasesOnce, HandsBackOnce,
         Totals, TypeOK
<1> QED
  BY SupplyInvariant, <1>1, PTL

(* The unit of an abandoned order comes back: once the release of an       *)
(* expired order is over, its unit was freed, unless the release was lost  *)
(* to a crash, a rejected call or the retry limit.                         *)
THEOREM ExpiredReturn == Spec => []ExpiredUnitsReturn
<1>1. SupplyInv => ExpiredUnitsReturn
  BY DEF SupplyInv, Types, TableTypes, ReleasesOnce, HandsBackOnce, Freeing, Gone,
         ExpiredUnitsReturn
<1> QED
  BY SupplyInvariant, <1>1, PTL

(***************************************************************************)
(* Conservation.  UnitMoves is everything a step can do to the counter,    *)
(* whoever else is between a read and a write.                             *)
(***************************************************************************)
UnitClaimed ==
    \E h \in Calls :
        /\ ClaimUnit(h) /\ call[h].ord \notin claimed
        /\ claimed' = claimed \cup {call[h].ord} /\ freed' = freed
        /\ listing.sold = call[h].sold /\ listing'.sold = listing.sold + 1

UnitFreed ==
    \E o \in Orders :
        /\ HandBack(o) /\ claimed' = claimed
        /\ listing.sold > 0 /\ listing'.sold = listing.sold - 1

LEMMA UnitMoves ==
    ASSUME SupplyInv, [Next]_vars
    PROVE  \/ UnitClaimed /\ UNCHANGED <<freed, extra>>
           \/ UnitFreed
           \/ UNCHANGED <<claimed, freed, extra>> /\ listing'.sold = listing.sold
<1> USE DEF orderVars, copyVars, unitVars, pastVars
<1>1. listing \in [status : ListingStatus, total : Totals, sold : Nat]
  BY DEF SupplyInv, Types, TableTypes
<1>2. ASSUME NEW h \in Calls, ClaimUnit(h), listing.sold = call[h].sold
      PROVE  UnitClaimed /\ UNCHANGED <<freed, extra>>
  <2>1. call[h].ord \notin claimed
    BY <1>2 DEF SupplyInv, ClaimsOnce, Claiming, ClaimUnit
  <2>2. listing'.sold = listing.sold + 1 /\ claimed' = claimed \cup {call[h].ord}
        /\ UNCHANGED <<freed, extra>>
    BY <1>1, <1>2 DEF ClaimUnit, Sold
  <2> QED
    BY <1>2, <2>1, <2>2 DEF UnitClaimed
<1>3. ASSUME NEW x \in Releasers, ReleaseUnit(x), listing.sold = release[x].sold
      PROVE  UnitFreed
  <2>1. release[x].pc = "swap" /\ release[x].sold > 0 /\ release[x].ord \in Orders
    BY <1>3 DEF ReleaseUnit, SupplyInv, Types, ReleaseTypes
  <2>2. listing'.sold = listing.sold - 1 /\ HandBack(release[x].ord) /\ claimed' = claimed
    BY <1>1, <1>3 DEF ReleaseUnit
  <2> QED
    BY <1>3, <2>1, <2>2 DEF UnitFreed
<1>4. ASSUME NEW h \in Calls, Checkout(h) \/ CheckoutThrows(h),
             ~(ClaimUnit(h) /\ listing.sold = call[h].sold)
      PROVE  UNCHANGED <<claimed, freed, extra, listing>>
  BY <1>4 DEF Checkout, CheckoutThrows, ReadListing, CreateOrder, ReadSupply, ClaimUnit,
              FailOrphanOrder, OpenIntent, AwaitPayment
<1>5. ASSUME NEW o \in Orders, OrderStep(o) \/ LeaveOrder(o)
      PROVE  UNCHANGED <<claimed, freed, extra, listing>>
  BY <1>5 DEF OrderStep, Pay, TakeForDelivery, CloneCopy, MarkDelivered, ExpireStale, LeaveOrder
<1>6. ASSUME NEW r \in Refunders, Refund(r) \/ RefundThrows(r)
      PROVE  UNCHANGED <<claimed, freed, extra, listing>>
  BY <1>6 DEF Refund, ReadForRefund, MarkRefunding, DeleteClones, RefundThrows
<1>7. ASSUME NEW x \in Releasers, Release(x) \/ ReleaseFails(x),
             ~(ReleaseUnit(x) /\ listing.sold = release[x].sold)
      PROVE  UNCHANGED <<claimed, freed, extra, listing>>
  BY <1>7 DEF Release, ReadForRelease, ReleaseUnit, ReleaseFails
<1>8. CASE Seller \/ Crash \/ UNCHANGED vars
  BY <1>1, <1>8 DEF Seller, LoadForPatch, LoadForPublish, LoadForDelist, SellerLoads,
                    SellerWrites, Crash, vars
<1> QED
  BY <1>2, <1>3, <1>4, <1>5, <1>6, <1>7, <1>8 DEF Next, Failure

Conserved ==
    /\ IsFiniteSet(claimed) /\ IsFiniteSet(freed) /\ extra \in Nat
    /\ Cardinality(claimed) = listing.sold + Cardinality(freed) + extra

LEMMA ConservedInit == Init => Conserved
BY FS_EmptySet DEF Init, Conserved

LEMMA ConservedStep == SupplyInv /\ Conserved /\ [Next]_vars => Conserved'
<1>1. SUFFICES ASSUME SupplyInv, Conserved, [Next]_vars PROVE Conserved'
  OBVIOUS
<1>2. listing.sold \in Nat
  BY <1>1 DEF SupplyInv, Types, TableTypes
<1>3. Cardinality(claimed) \in Nat /\ Cardinality(freed) \in Nat
  BY <1>1, FS_CardinalityType DEF Conserved
<1>4. CASE UnitClaimed /\ UNCHANGED <<freed, extra>>
  <2>1. PICK o : /\ o \notin claimed /\ claimed' = claimed \cup {o}
                 /\ listing'.sold = listing.sold + 1
    BY <1>4 DEF UnitClaimed
  <2>2. IsFiniteSet(claimed') /\ Cardinality(claimed') = Cardinality(claimed) + 1
    BY <1>1, <2>1, FS_AddElement DEF Conserved
  <2> QED
    BY <1>1, <1>2, <1>3, <1>4, <2>1, <2>2 DEF Conserved
<1>5. CASE UnitFreed
  <2>1. PICK o : HandBack(o) /\ claimed' = claimed /\ listing'.sold = listing.sold - 1
    BY <1>5 DEF UnitFreed
  <2>2. CASE o \in freed
    <3>1. freed' = freed /\ extra' = extra + 1
      BY <2>1, <2>2 DEF HandBack
    <3> QED
      BY <1>1, <1>2, <1>3, <2>1, <3>1 DEF Conserved
  <2>3. CASE o \notin freed
    <3>1. freed' = freed \cup {o} /\ extra' = extra
      BY <2>1, <2>3 DEF HandBack
    <3>2. IsFiniteSet(freed') /\ Cardinality(freed') = Cardinality(freed) + 1
      BY <1>1, <2>3, <3>1, FS_AddElement DEF Conserved
    <3> QED
      BY <1>1, <1>2, <1>3, <2>1, <3>1, <3>2 DEF Conserved
  <2> QED
    BY <2>2, <2>3
<1>6. CASE UNCHANGED <<claimed, freed, extra>> /\ listing'.sold = listing.sold
  BY <1>1, <1>6 DEF Conserved
<1> QED
  BY <1>1, <1>4, <1>5, <1>6, UnitMoves

LEMMA Conservation == Spec => []Conserved
  BY SupplyInvariant, ConservedInit, ConservedStep, PTL DEF Spec

(* supply_sold is the claims won less the units that were handed back: no  *)
(* interleaving of claims, releases, their retries, the expiry, refunds,   *)
(* sweeps and the seller loses or doubles an update.  And no order's unit  *)
(* is handed back twice, not even by refunds that lost their guarded       *)
(* update and were run again, unless a sweep wrote the order's clones      *)
(* again after a refund had deleted them.                                  *)
THEOREM UnitsConserved == Spec => []SoldIsConserved
<1>1. SupplyInv /\ Conserved => SoldIsConserved
  BY DEF Conserved, SupplyInv, ReleasesOnce, HandsBackOnce, SoldIsConserved
<1> QED
  BY SupplyInvariant, Conservation, <1>1, PTL

(***************************************************************************)
(* No over-sell.  Every supply_total a request or the listing holds was on *)
(* offer, and a claim is only tried below the total it holds.              *)
(***************************************************************************)
OfferedTotals ==
    /\ listing.total # Unlimited => listing.total <= peak
    /\ \A h \in Calls :
          /\ call[h].total # Unlimited => call[h].total <= peak
          /\ call[h].pc = "claim" => call[h].sold < call[h].total
    /\ SoldWithinPeak

LEMMA OfferedInit == Init => OfferedTotals
<1>1. SUFFICES ASSUME Init PROVE OfferedTotals
  OBVIOUS
<1> QED
  BY <1>1, SupplyAssumption DEF Init, OfferedTotals, SoldWithinPeak, IdleCall

LEMMA OfferedCheckout ==
    ASSUME SupplyInv, OfferedTotals, NEW h \in Calls, Checkout(h) \/ CheckoutThrows(h)
    PROVE  OfferedTotals'
<1> USE DEF orderVars, copyVars, unitVars, pastVars
<1>1. /\ listing \in [status : ListingStatus, total : Totals, sold : Nat] /\ peak \in Nat
      /\ call \in [Calls -> CallRecord]
  BY DEF SupplyInv, Types, TableTypes, CallTypes
<1>2. peak' = peak /\ \A g \in Calls \ {h} : call'[g] = call[g]
  BY <1>1 DEF Checkout, CheckoutThrows, ReadListing, CreateOrder, ReadSupply, ClaimUnit,
              FailOrphanOrder, OpenIntent, AwaitPayment
<1>3. call'[h].total \in {call[h].total, listing.total, Unlimited}
  <2>1. CASE \E o \in Orders : ReadListing(h, o)
    BY <1>1, <2>1 DEF ReadListing, IdleCall, CallRecord
  <2>2. CASE CreateOrder(h) \/ ReadSupply(h) \/ ClaimUnit(h)
    BY <1>1, <2>2 DEF CreateOrder, ReadSupply, ClaimUnit, CallRecord
  <2>3. CASE OpenIntent(h)
    BY <1>1, <2>3 DEF OpenIntent, IdleCall, CallRecord
  <2>4. CASE FailOrphanOrder(h) \/ AwaitPayment(h) \/ CheckoutThrows(h)
    BY <1>1, <2>4 DEF FailOrphanOrder, AwaitPayment, CheckoutThrows, IdleCall
  <2> QED
    BY <2>1, <2>2, <2>3, <2>4 DEF Checkout
<1>4. call'[h].pc = "claim" => call'[h].sold < call'[h].total
  <2>1. CASE ReadSupply(h)
    <3>1. call[h].total \in Nat /\ listing.sold \in Nat
      BY <1>1, <2>1 DEF ReadSupply, SupplyInv, ClaimsOnce, Claiming, CallRecord, Totals
    <3>2. /\ call'[h].sold = listing.sold /\ call'[h].total = call[h].total
          /\ call'[h].pc = IF listing.sold >= call[h].total THEN "orphan" ELSE "claim"
      BY <1>1, <2>1 DEF ReadSupply, CallRecord
    <3> QED
      BY <3>1, <3>2
  <2>2. CASE \E o \in Orders : ReadListing(h, o)
    BY <1>1, <2>2 DEF ReadListing, IdleCall
  <2>3. CASE CreateOrder(h) \/ ClaimUnit(h)
    BY <1>1, <2>3 DEF CreateOrder, ClaimUnit, CallRecord
  <2>4. CASE OpenIntent(h)
    BY <1>1, <2>4 DEF OpenIntent, IdleCall, CallRecord
  <2>5. CASE FailOrphanOrder(h) \/ AwaitPayment(h) \/ CheckoutThrows(h)
    BY <1>1, <2>5 DEF FailOrphanOrder, AwaitPayment, CheckoutThrows, IdleCall
  <2> QED
    BY <2>1, <2>2, <2>3, <2>4, <2>5 DEF Checkout
<1>5. listing'.total = listing.total /\ listing'.sold <= peak
  <2>1. CASE ClaimUnit(h) /\ listing.sold = call[h].sold
    <3>1. call[h].pc = "claim" /\ call[h].total \in Nat
      BY <1>1, <2>1 DEF ClaimUnit, SupplyInv, ClaimsOnce, Claiming, CallRecord, Totals
    <3>2. listing.sold < call[h].total /\ call[h].total <= peak
      BY <2>1, <3>1, SupplyAssumption DEF OfferedTotals
    <3>3. listing'.total = listing.total /\ listing'.sold = listing.sold + 1
      BY <1>1, <2>1 DEF ClaimUnit, Sold
    <3>4. listing.sold \in Nat
      BY <1>1
    <3> QED
      BY <1>1, <3>1, <3>2, <3>3, <3>4
  <2>2. CASE listing' = listing
    BY <2>2 DEF OfferedTotals, SoldWithinPeak
  <2>3. CASE ~ClaimUnit(h)
    BY <2>2, <2>3 DEF Checkout, CheckoutThrows, ReadListing, CreateOrder, ReadSupply,
                      FailOrphanOrder, OpenIntent, AwaitPayment
  <2>4. CASE ClaimUnit(h) /\ listing.sold # call[h].sold
    BY <2>2, <2>4 DEF ClaimUnit
  <2> QED
    BY <2>1, <2>3, <2>4
<1> QED
  BY <1>2, <1>3, <1>4, <1>5 DEF OfferedTotals, SoldWithinPeak

LEMMA OfferedElsewhere ==
    ASSUME SupplyInv, OfferedTotals, Elsewhere
    PROVE  OfferedTotals'
<1> USE DEF orderVars, copyVars, unitVars, pastVars
<1>1. /\ listing \in [status : ListingStatus, total : Totals, sold : Nat] /\ peak \in Nat
      /\ seller \in [pc : {"idle", "patch", "publish", "delist"}, total : Totals]
      /\ call \in [Calls -> CallRecord]
  BY DEF SupplyInv, Types, TableTypes, CallTypes
<1>2. CASE SellerWrites
  <2>1. peak' \in Nat /\ peak <= peak'
        /\ (listing'.total # Unlimited => listing'.total <= peak')
        /\ listing'.sold = listing.sold
    BY <1>1, <1>2 DEF SellerWrites, OfferedTotals, Totals
  <2>2. \A h \in Calls : call[h].total # Unlimited => call[h].total \in Nat
    BY <1>1 DEF CallRecord, Totals
  <2> QED
    BY <1>1, <1>2, <2>1, <2>2 DEF SellerWrites, OfferedTotals, SoldWithinPeak
<1>3. ASSUME NEW x \in Releasers, ReleaseUnit(x) PROVE OfferedTotals'
  <2>1. listing'.total = listing.total /\ peak' = peak /\ call' = call
    BY <1>1, <1>3 DEF ReleaseUnit
  <2>2. listing'.sold = listing.sold \/ listing'.sold = listing.sold - 1
    BY <1>1, <1>3 DEF ReleaseUnit
  <2> QED
    BY <1>1, <2>1, <2>2 DEF OfferedTotals, SoldWithinPeak
<1>4. CASE Crash
  BY <1>4 DEF Crash, OfferedTotals, SoldWithinPeak, IdleCall
<1>5. CASE UNCHANGED <<listing, call, peak>>
  BY <1>5 DEF OfferedTotals, SoldWithinPeak
<1>6. \/ UNCHANGED <<listing, call, peak>> \/ SellerWrites \/ Crash
      \/ \E x \in Releasers : ReleaseUnit(x)
  BY DEF Elsewhere, OrderStep, Pay, TakeForDelivery, CloneCopy, MarkDelivered, ExpireStale,
         LeaveOrder, Refund, ReadForRefund, MarkRefunding, DeleteClones, RefundThrows,
         Release, ReadForRelease, ReleaseFails, Seller, LoadForPatch, LoadForPublish,
         LoadForDelist, SellerLoads, vars
<1> QED
  BY <1>2, <1>3, <1>4, <1>5, <1>6

LEMMA OfferedStep == SupplyInv /\ OfferedTotals /\ [Next]_vars => OfferedTotals'
  BY OfferedCheckout, OfferedElsewhere DEF Next, Failure, Elsewhere

LEMMA Offered == Spec => []OfferedTotals
  BY SupplyInvariant, OfferedInit, OfferedStep, PTL DEF Spec

(* However stale the supply_total a claim was checked against, however     *)
(* many requests raced and whatever the seller wrote meanwhile, no more    *)
(* units are out than the largest supply ever offered.                     *)
THEOREM NoUnitPastPeak == Spec => []SoldWithinPeak
<1>1. OfferedTotals => SoldWithinPeak
  BY DEF OfferedTotals
<1> QED
  BY Offered, <1>1, PTL

(***************************************************************************)
(* The orders that are live.  A live order was paid for through an intent, *)
(* an intent is asked for by the request that claimed a unit (or read no   *)
(* limit), or by a repeated one; and a refund leaves an order it deleted   *)
(* clones of 'refunding' for good, or lost its guarded update.             *)
(***************************************************************************)
Backed == claimed \cup uncounted \cup replayed

PaidFor ==
    /\ \A o \in Orders : status[o] \in PaidStates => o \in intents
    /\ intents \subseteq Backed
    /\ \A h \in Calls : call[h].pc = "intent" => call[h].ord \in Backed
    /\ \A x \in Releasers : release[x].pc = "purge" =>
          status[release[x].ord] \in AlreadyRefunding \/ release[x].ord \in missed
    /\ \A o \in Orders \cap erased : status[o] \in AlreadyRefunding \/ o \in missed

LEMMA PaidForInit == Init => PaidFor
BY DEF Init, PaidFor, IdleCall, NoRelease, PaidStates, AlreadyRefunding

LEMMA PaidForCheckout ==
    ASSUME SupplyInv, PaidFor, NEW h \in Calls, Checkout(h) \/ CheckoutThrows(h)
    PROVE  PaidFor'
<1> USE DEF orderVars, copyVars, unitVars, pastVars
<1>1. /\ status \in [Orders -> Status \cup {"none"}] /\ call \in [Calls -> CallRecord]
      /\ call[h].pc # "idle" => call[h].ord \in Orders
      /\ \A x \in Releasers : release[x].pc # "idle" => release[x].ord \in Orders
  BY DEF SupplyInv, Types, TableTypes, CallTypes, ReleaseTypes
<1>2. UNCHANGED <<release, missed, erased>> /\ \A g \in Calls \ {h} : call'[g] = call[g]
  BY <1>1 DEF Checkout, CheckoutThrows, ReadListing, CreateOrder, ReadSupply, ClaimUnit,
              FailOrphanOrder, OpenIntent, AwaitPayment
<1>3. \A o \in Orders : status'[o] = status[o] \/
         (status[o] \in {"none", "created"} /\ status'[o] \in {"created", "failed", "awaiting_payment"})
  BY <1>1 DEF Checkout, CheckoutThrows, ReadListing, CreateOrder, ReadSupply, ClaimUnit,
              FailOrphanOrder, OpenIntent, AwaitPayment
<1>4. Backed \subseteq Backed' /\ intents \subseteq intents'
  BY DEF Backed, Checkout, CheckoutThrows, ReadListing, CreateOrder, ReadSupply, ClaimUnit,
         FailOrphanOrder, OpenIntent, AwaitPayment
<1>5. intents' \subseteq Backed'
  <2>1. intents' = intents \/ (call[h].pc = "intent" /\ intents' = intents \cup {call[h].ord})
    BY DEF Checkout, CheckoutThrows, ReadListing, CreateOrder, ReadSupply, ClaimUnit,
           FailOrphanOrder, OpenIntent, AwaitPayment
  <2> QED
    BY <1>4, <2>1 DEF PaidFor
<1>6. call'[h].pc = "intent" => call'[h].ord \in Backed'
  <2>1. CASE CreateOrder(h)
    BY <1>1, <2>1 DEF CreateOrder, Backed, CallRecord
  <2>2. CASE ClaimUnit(h)
    BY <1>1, <2>2 DEF ClaimUnit, Backed, CallRecord
  <2>3. ASSUME NEW o \in Orders, ReadListing(h, o) PROVE call'[h].pc # "intent"
    BY <1>1, <2>3 DEF ReadListing, IdleCall
  <2>4. CASE ReadSupply(h)
    BY <1>1, <2>4 DEF ReadSupply, CallRecord
  <2>5. CASE OpenIntent(h)
    BY <1>1, <2>5 DEF OpenIntent, IdleCall, CallRecord
  <2>6. CASE FailOrphanOrder(h) \/ AwaitPayment(h) \/ CheckoutThrows(h)
    BY <1>1, <2>6 DEF FailOrphanOrder, AwaitPayment, CheckoutThrows, IdleCall
  <2> QED
    BY <2>1, <2>2, <2>3, <2>4, <2>5, <2>6 DEF Checkout
<1>7. \A o \in Orders : status'[o] \in PaidStates => o \in intents'
  BY <1>3, <1>4 DEF PaidFor, PaidStates, AlreadyRefunding
<1>8. \A o \in Orders : status[o] \in AlreadyRefunding => status'[o] = status[o]
  BY <1>3 DEF AlreadyRefunding
<1>9. \A g \in Calls : call'[g].pc = "intent" => call'[g].ord \in Backed'
  BY <1>2, <1>4, <1>6 DEF PaidFor
<1>10. /\ \A x \in Releasers : release'[x].pc = "purge" =>
             status'[release'[x].ord] \in AlreadyRefunding \/ release'[x].ord \in missed'
       /\ \A o \in Orders \cap erased' : status'[o] \in AlreadyRefunding \/ o \in missed'
  BY <1>1, <1>2, <1>8 DEF PaidFor
<1> QED
  BY <1>5, <1>7, <1>9, <1>10 DEF PaidFor

LEMMA PaidForOrder ==
    ASSUME SupplyInv, PaidFor, NEW o \in Orders, OrderStep(o) \/ LeaveOrder(o)
    PROVE  PaidFor'
<1> USE DEF orderVars, copyVars, unitVars, pastVars
<1>1. /\ status \in [Orders -> Status \cup {"none"}] /\ release \in [Releasers -> ReleaseRecord]
      /\ \A x \in Releasers : release[x].pc # "idle" => release[x].ord \in Orders
      /\ o \in held => status[o] \in {"delivering", "delivered", "refunding"}
  BY DEF SupplyInv, Types, TableTypes, ReleaseTypes, ReleasesOnce, HandsBackOnce
<1>2. UNCHANGED <<call, intents, claimed, uncounted, replayed, missed, erased>>
  BY DEF OrderStep, Pay, TakeForDelivery, CloneCopy, MarkDelivered, ExpireStale, LeaveOrder
<1>3. \A p \in Orders : status'[p] = status[p] \/
         (status[p] \notin AlreadyRefunding /\ (p \in intents \/ status'[p] = "expired"))
  <2>1. status[o] \in {"paid", "delivering"} => o \in intents
    BY DEF PaidFor, PaidStates
  <2> QED
    BY <1>1, <2>1 DEF OrderStep, Pay, TakeForDelivery, CloneCopy, MarkDelivered, ExpireStale,
                      LeaveOrder, PrePaidStates, AlreadyRefunding
<1>4. \A p \in Orders : status[p] \in AlreadyRefunding => status'[p] = status[p]
  BY <1>3
<1>5. \A x \in Releasers : release'[x].pc = "purge" => release'[x] = release[x]
  BY <1>1 DEF OrderStep, Pay, TakeForDelivery, CloneCopy, MarkDelivered, ExpireStale,
              LeaveOrder, ReleaseRecord
<1>6. /\ intents' \subseteq Backed' /\ \A h \in Calls : call'[h].pc = "intent" => call'[h].ord \in Backed'
  BY <1>2 DEF PaidFor, Backed
<1>7. \A p \in Orders : status'[p] \in PaidStates => p \in intents'
  BY <1>2, <1>3 DEF PaidFor, PaidStates, AlreadyRefunding
<1>8. /\ \A x \in Releasers : release'[x].pc = "purge" =>
            status'[release'[x].ord] \in AlreadyRefunding \/ release'[x].ord \in missed'
      /\ \A p \in Orders \cap erased' : status'[p] \in AlreadyRefunding \/ p \in missed'
  BY <1>1, <1>2, <1>4, <1>5 DEF PaidFor
<1> QED
  BY <1>6, <1>7, <1>8 DEF PaidFor

LEMMA PaidForRefund ==
    ASSUME SupplyInv, PaidFor, NEW r \in Refunders, Refund(r) \/ RefundThrows(r)
    PROVE  PaidFor'
<1> USE DEF orderVars, copyVars, unitVars, pastVars
<1> DEFINE o == release[r].ord
<1>1. /\ status \in [Orders -> Status \cup {"none"}] /\ release \in [Releasers -> ReleaseRecord]
      /\ \A x \in Releasers : release[x].pc # "idle" => release[x].ord \in Orders
      /\ r \in Releasers
      /\ release[r].pc = "guard" => release[r].seen \in {"paid", "delivered", "settled"}
      /\ captured \subseteq intents
  BY DEF SupplyInv, Types, TableTypes, ReleaseTypes, Releasers
<1>2. UNCHANGED <<call, intents, claimed, uncounted, replayed>> /\ missed \subseteq missed'
      /\ \A x \in Releasers \ {r} : release'[x] = release[x]
  BY <1>1 DEF Refund, ReadForRefund, MarkRefunding, DeleteClones, RefundThrows
<1>3. \A p \in Orders : status'[p] = status[p] \/
         (status[p] \in {"paid", "delivered", "settled"} /\ status'[p] = "refunding")
  BY <1>1 DEF Refund, ReadForRefund, MarkRefunding, DeleteClones, RefundThrows
<1>4. \A p \in Orders : status'[p] \in PaidStates => p \in intents'
  BY <1>2, <1>3 DEF PaidFor, PaidStates
<1>5. release'[r].pc = "purge" =>
         status'[release'[r].ord] \in AlreadyRefunding \/ release'[r].ord \in missed'
  <2>1. CASE MarkRefunding(r)
    <3>1. release'[r].ord = o /\ o \in Orders
      BY <1>1, <2>1 DEF MarkRefunding, ReleaseRecord
    <3> QED
      BY <1>1, <2>1, <3>1 DEF MarkRefunding, AlreadyRefunding
  <2>2. ASSUME NEW p \in Orders, ReadForRefund(r, p), release'[r].pc = "purge"
        PROVE  status'[release'[r].ord] \in AlreadyRefunding
    <3>1. PICK pc \in {"guard", "purge"} :
             /\ pc = "purge" => status[p] \in AlreadyRefunding
             /\ release' = [release EXCEPT ![r] =
                   [NoRelease EXCEPT !.pc = pc, !.ord = p, !.seen = status[p]]]
      BY <2>2 DEF ReadForRefund
    <3>2. release'[r].pc = pc /\ release'[r].ord = p /\ status' = status
      BY <1>1, <2>2, <3>1 DEF ReadForRefund, NoRelease
    <3> QED
      BY <2>2, <3>1, <3>2
  <2>3. CASE DeleteClones(r) \/ RefundThrows(r)
    BY <1>1, <2>3 DEF DeleteClones, RefundThrows, NoRelease, ReleaseRecord
  <2> QED
    BY <2>1, <2>2, <2>3 DEF Refund
<1>6. \A p \in Orders \cap erased' : p \in erased \/ (release[r].pc = "purge" /\ p = o)
  BY DEF Refund, ReadForRefund, MarkRefunding, DeleteClones, RefundThrows
<1>7. \A p \in Orders : status[p] \in AlreadyRefunding => status'[p] \in AlreadyRefunding
  BY <1>3 DEF AlreadyRefunding
<1>8. \A p \in Orders \cap erased' : status'[p] \in AlreadyRefunding \/ p \in missed'
  BY <1>1, <1>2, <1>6, <1>7 DEF PaidFor
<1>9. \A x \in Releasers : release'[x].pc = "purge" =>
         status'[release'[x].ord] \in AlreadyRefunding \/ release'[x].ord \in missed'
  <2>1. ASSUME NEW x \in Releasers \ {r}, release'[x].pc = "purge"
        PROVE  status'[release'[x].ord] \in AlreadyRefunding \/ release'[x].ord \in missed'
    <3>1. release'[x] = release[x] /\ release[x].ord \in Orders
      BY <1>1, <1>2, <2>1
    <3> QED
      BY <1>2, <1>7, <2>1, <3>1 DEF PaidFor
  <2> QED
    BY <1>5, <2>1
<1>10. /\ intents' \subseteq Backed' /\ \A h \in Calls : call'[h].pc = "intent" => call'[h].ord \in Backed'
  BY <1>2 DEF PaidFor, Backed
<1> QED
  BY <1>4, <1>8, <1>9, <1>10 DEF PaidFor

LEMMA PaidForRest ==
    ASSUME SupplyInv, PaidFor,
           \/ \E x \in Releasers : Release(x) \/ ReleaseFails(x)
           \/ Seller \/ Crash \/ UNCHANGED vars
    PROVE  PaidFor'
<1> USE DEF orderVars, copyVars, unitVars, pastVars
<1>1. UNCHANGED <<status, intents, claimed, uncounted, replayed, missed, erased>>
  BY DEF Release, ReadForRelease, ReleaseUnit, ReleaseFails, Seller, LoadForPatch,
         LoadForPublish, LoadForDelist, SellerLoads, SellerWrites, Crash, vars
<1>2. /\ call' = call \/ call' = [h \in Calls |-> IdleCall]
      /\ \A h \in Calls : call'[h].pc = "intent" => call'[h] = call[h]
  <2>1. call' = call \/ call' = [h \in Calls |-> IdleCall]
    BY DEF Release, ReadForRelease, ReleaseUnit, ReleaseFails, Seller, LoadForPatch,
           LoadForPublish, LoadForDelist, SellerLoads, SellerWrites, Crash, vars
  <2> QED
    BY <2>1 DEF IdleCall
<1>3. \A x \in Releasers : release'[x].pc = "purge" => release'[x] = release[x]
  <2>1. release \in [Releasers -> ReleaseRecord]
    BY DEF SupplyInv, Types, ReleaseTypes
  <2>2. ASSUME NEW x \in Releasers, Release(x) \/ ReleaseFails(x)
        PROVE  /\ release'[x].pc # "purge"
               /\ \A y \in Releasers \ {x} : release'[y] = release[y]
    <3>1. CASE ReadForRelease(x)
      BY <2>1, <3>1 DEF ReadForRelease, Done, NoRelease, ReleaseRecord
    <3>2. CASE ReleaseUnit(x)
      BY <2>1, <3>2 DEF ReleaseUnit, Done, NoRelease, ReleaseRecord
    <3>3. CASE ReleaseFails(x)
      BY <2>1, <3>3 DEF ReleaseFails, Done, NoRelease
    <3> QED
      BY <2>2, <3>1, <3>2, <3>3 DEF Release
  <2>3. CASE Seller \/ UNCHANGED vars
    BY <2>3 DEF Seller, LoadForPatch, LoadForPublish, LoadForDelist, SellerLoads,
                SellerWrites, vars
  <2>4. CASE Crash
    BY <2>4 DEF Crash, NoRelease
  <2> QED
    BY <2>2, <2>3, <2>4
<1> QED
  BY <1>1, <1>2, <1>3 DEF PaidFor, Backed

LEMMA PaidForStep == SupplyInv /\ PaidFor /\ [Next]_vars => PaidFor'
  BY PaidForCheckout, PaidForOrder, PaidForRefund, PaidForRest DEF Next, Failure

LEMMA PaymentsBacked == Spec => []PaidFor
  BY SupplyInvariant, PaidForInit, PaidForStep, PTL DEF Spec

(* What the guard against over-selling amounts to, sales that were never   *)
(* claimed or were refunded past a sweep included.  The live orders that   *)
(* hold a unit of their own are at most the units out, and those are       *)
(* bounded by the largest supply ever offered; what goes beyond it are     *)
(* units that went back for an order that had none to give, and live       *)
(* orders without a unit, each of which has one of three named causes.     *)
THEOREM LiveOrdersFitSupply == Spec => []LiveFitsSupply
<1>1. ASSUME SupplyInv, Conserved, OfferedTotals, PaidFor PROVE LiveFitsSupply
  <2> DEFINE own == Live \cap (claimed \ freed)
  <2>1. IsFiniteSet(claimed) /\ IsFiniteSet(freed)
    BY <1>1 DEF Conserved
  <2>2. /\ IsFiniteSet(claimed \ freed)
        /\ Cardinality(claimed \ freed) = Cardinality(claimed) - Cardinality(claimed \cap freed)
    BY <2>1, FS_Difference
  <2>3. /\ IsFiniteSet(freed \ claimed)
        /\ Cardinality(freed \ claimed) = Cardinality(freed) - Cardinality(freed \cap claimed)
    BY <2>1, FS_Difference
  <2>4. IsFiniteSet(own) /\ Cardinality(own) <= Cardinality(claimed \ freed)
    BY <2>2, FS_Subset
  <2>5. /\ IsFiniteSet(claimed \cap freed)
        /\ Cardinality(freed \cap claimed) = Cardinality(claimed \cap freed)
    <3>1. freed \cap claimed = claimed \cap freed
      OBVIOUS
    <3> QED
      BY <2>1, <3>1, FS_Intersection
  <2>6. /\ Cardinality(claimed) \in Nat /\ Cardinality(freed) \in Nat
        /\ Cardinality(own) \in Nat /\ Cardinality(claimed \cap freed) \in Nat
    BY <2>1, <2>4, <2>5, FS_CardinalityType
  <2>7. listing.sold \in Nat /\ peak \in Nat /\ extra \in Nat /\ listing.sold <= peak
    BY <1>1 DEF SupplyInv, Types, TableTypes, OfferedTotals, SoldWithinPeak
  <2>8. Cardinality(claimed) = listing.sold + Cardinality(freed) + extra
    BY <1>1 DEF Conserved
  <2>9. Cardinality(own) <= peak + Cardinality(freed \ claimed) + extra
    <3> HIDE DEF own
    <3> QED
      BY <2>2, <2>3, <2>4, <2>5, <2>6, <2>7, <2>8
  <2>10. Live \ claimed \subseteq uncounted \cup replayed
    BY <1>1 DEF PaidFor, Backed, Live, PaidStates
  <2>11. Live \cap freed \subseteq missed
    BY <1>1 DEF PaidFor, Live, AlreadyRefunding, SupplyInv, ReleasesOnce, HandsBackOnce, Gone
  <2> QED
    BY <2>9, <2>10, <2>11 DEF LiveFitsSupply
<1> QED
  BY SupplyInvariant, Conservation, Offered, PaymentsBacked, <1>1, PTL

(***************************************************************************)
(* Status and counter.  Up to the seller's second request the listing is   *)
(* either not published and untouched, or it is published, with the total  *)
(* it was created with, buyable exactly below that total; and what a       *)
(* release remembers of the status agrees with what it remembers of the    *)
(* counter, so a swap that succeeds writes the right status.               *)
(***************************************************************************)
Unpublished ==
    /\ listing.status \in {"draft", "delisted"} /\ listing.sold = 0
    /\ \A h \in Calls : call[h].pc = "idle"
    /\ \A o \in Orders : status[o] = "none"
    /\ intents = {} /\ \A x \in Releasers : release[x].pc = "idle"
    /\ edits = 0 => seller.pc = "idle"
    /\ edits = 0 \/ seller.pc = "publish" => listing.total = InitTotal

Published ==
    /\ listing.status \in {"listed", "sold_out"}
    /\ edits = 1 /\ seller.pc = "idle" /\ listing.total = InitTotal
    /\ listing.sold <= InitTotal
    /\ listing.status = "listed" <=> listing.sold < InitTotal
    /\ \A h \in Calls : call[h].pc # "idle" => call[h].total = InitTotal
    /\ \A x \in Releasers : release[x].pc = "swap" =>
          (release[x].flip <=> release[x].sold >= InitTotal)

StatusFollowsCount == edits \in Nat /\ (edits <= 1 => Unpublished \/ Published)

LEMMA StatusInit == Init => StatusFollowsCount
<1>1. SUFFICES ASSUME Init PROVE StatusFollowsCount
  OBVIOUS
<1>2. Unpublished
  BY <1>1 DEF Init, Unpublished, IdleCall, IdleSeller, NoRelease
<1> QED
  BY <1>1, <1>2 DEF Init, StatusFollowsCount

LEMMA StatusCheckout ==
    ASSUME SupplyInv, OfferedTotals, StatusFollowsCount, NEW h \in Calls,
           Checkout(h) \/ CheckoutThrows(h)
    PROVE  StatusFollowsCount'
<1> USE DEF orderVars, copyVars, unitVars, pastVars
<1>1. /\ listing \in [status : ListingStatus, total : Totals, sold : Nat]
      /\ call \in [Calls -> CallRecord]
  BY DEF SupplyInv, Types, TableTypes, CallTypes
<1>2. UNCHANGED <<edits, seller, release>> /\ \A g \in Calls \ {h} : call'[g] = call[g]
  BY <1>1 DEF Checkout, CheckoutThrows, ReadListing, CreateOrder, ReadSupply, ClaimUnit,
              FailOrphanOrder, OpenIntent, AwaitPayment
<1>3. SUFFICES ASSUME edits <= 1, Published PROVE Published'
  <2>1. call[h].pc # "idle" \/ listing.status = "listed"
    BY DEF Checkout, CheckoutThrows, ReadListing, CreateOrder, ReadSupply, ClaimUnit,
           FailOrphanOrder, OpenIntent, AwaitPayment
  <2>2. ~Unpublished
    BY <2>1 DEF Unpublished
  <2> QED
    BY <1>2, <2>2 DEF StatusFollowsCount
<1>4. call'[h].pc # "idle" => call'[h].total = InitTotal
  <2>1. CASE \E o \in Orders : ReadListing(h, o)
    BY <1>1, <1>3, <2>1 DEF ReadListing, IdleCall, CallRecord, Published
  <2>2. CASE CreateOrder(h) \/ ReadSupply(h) \/ ClaimUnit(h)
    BY <1>1, <1>3, <2>2 DEF CreateOrder, ReadSupply, ClaimUnit, CallRecord, Published
  <2>3. CASE OpenIntent(h)
    BY <1>1, <1>3, <2>3 DEF OpenIntent, IdleCall, CallRecord, Published
  <2>4. CASE FailOrphanOrder(h) \/ AwaitPayment(h) \/ CheckoutThrows(h)
    BY <1>1, <2>4 DEF FailOrphanOrder, AwaitPayment, CheckoutThrows, IdleCall
  <2> QED
    BY <2>1, <2>2, <2>3, <2>4 DEF Checkout
<1>5. \A g \in Calls : call'[g].pc # "idle" => call'[g].total = InitTotal
  BY <1>2, <1>3, <1>4 DEF Published
<1>6. CASE listing' = listing
  BY <1>2, <1>3, <1>5, <1>6 DEF Published
<1>7. CASE ClaimUnit(h) /\ listing.sold = call[h].sold
  <2>1. call[h].total = InitTotal /\ listing.sold < InitTotal
    BY <1>3, <1>7 DEF ClaimUnit, Published, OfferedTotals
  <2>2. /\ listing'.sold = listing.sold + 1 /\ listing'.total = listing.total
        /\ listing'.status = IF listing.sold + 1 >= InitTotal THEN "sold_out"
                             ELSE listing.status
    BY <1>1, <1>7, <2>1 DEF ClaimUnit, Sold
  <2>3. listing.status = "listed" /\ listing.sold \in Nat
    BY <1>1, <1>3, <2>1 DEF Published
  <2>4. /\ listing'.status \in {"listed", "sold_out"} /\ listing'.sold <= InitTotal
        /\ listing'.status = "listed" <=> listing'.sold < InitTotal
    BY <2>1, <2>2, <2>3, SupplyAssumption
  <2> QED
    BY <1>2, <1>3, <1>5, <2>2, <2>4 DEF Published
<1>8. CASE ClaimUnit(h) /\ listing.sold # call[h].sold
  BY <1>6, <1>8 DEF ClaimUnit
<1>9. CASE ~ClaimUnit(h)
  BY <1>6, <1>9 DEF Checkout, CheckoutThrows, ReadListing, CreateOrder, ReadSupply,
                    FailOrphanOrder, OpenIntent, AwaitPayment
<1> QED
  BY <1>7, <1>8, <1>9

LEMMA StatusOrder ==
    ASSUME SupplyInv, StatusFollowsCount,
           \/ \E o \in Orders : OrderStep(o) \/ LeaveOrder(o)
           \/ \E r \in Refunders : Refund(r) \/ RefundThrows(r)
    PROVE  StatusFollowsCount'
<1> USE DEF orderVars, copyVars, unitVars, pastVars
<1>1. /\ release \in [Releasers -> ReleaseRecord]
      /\ Refunders \subseteq Releasers /\ Expiry \in Releasers
      /\ captured \subseteq intents
  BY DEF SupplyInv, Types, TableTypes, ReleaseTypes, Releasers
<1>2. UNCHANGED <<edits, seller, call, listing, intents>>
  BY DEF OrderStep, Pay, TakeForDelivery, CloneCopy, MarkDelivered, ExpireStale, LeaveOrder,
         Refund, ReadForRefund, MarkRefunding, DeleteClones, RefundThrows
<1>3. \A x \in Releasers : release'[x].pc = "swap" => release'[x] = release[x]
  <2>1. ASSUME NEW o \in Orders, OrderStep(o) \/ LeaveOrder(o)
        PROVE  \A x \in Releasers : release'[x].pc = "swap" => release'[x] = release[x]
    BY <1>1, <2>1 DEF OrderStep, Pay, TakeForDelivery, CloneCopy, MarkDelivered, ExpireStale,
                      LeaveOrder, ReleaseRecord
  <2>2. ASSUME NEW r \in Refunders, Refund(r) \/ RefundThrows(r)
        PROVE  \A x \in Releasers : release'[x].pc = "swap" => release'[x] = release[x]
    <3>1. /\ \A x \in Releasers \ {r} : release'[x] = release[x]
          /\ release[r] \in ReleaseRecord
      BY <1>1, <2>2 DEF Refund, ReadForRefund, MarkRefunding, DeleteClones, RefundThrows
    <3>2. release'[r].pc # "swap"
      <4>1. CASE \E o \in Orders : ReadForRefund(r, o)
        BY <1>1, <4>1 DEF ReadForRefund, NoRelease
      <4>2. CASE MarkRefunding(r) \/ DeleteClones(r) \/ RefundThrows(r)
        BY <1>1, <3>1, <4>2 DEF MarkRefunding, DeleteClones, RefundThrows, NoRelease,
                                ReleaseRecord
      <4> QED
        BY <2>2, <4>1, <4>2 DEF Refund
    <3> QED
      BY <3>1, <3>2
  <2> QED
    BY <2>1, <2>2
<1>4. ASSUME Unpublished
      PROVE  UNCHANGED <<release, status>>
  <2>1. /\ captured = {} /\ \A o \in Orders : status[o] = "none" /\ o \notin held
        /\ \A r \in Refunders : release[r].pc = "idle"
    BY <1>1, <1>4 DEF Unpublished, SupplyInv, ReleasesOnce, HandsBackOnce
  <2>2. CASE \E o \in Orders : OrderStep(o) \/ LeaveOrder(o)
    BY <1>4, <2>1, <2>2 DEF Unpublished, OrderStep, Pay, TakeForDelivery, CloneCopy,
                            MarkDelivered, ExpireStale, LeaveOrder, PrePaidStates
  <2>3. CASE \E r \in Refunders : Refund(r) \/ RefundThrows(r)
    BY <2>1, <2>3 DEF Refund, ReadForRefund, MarkRefunding, DeleteClones, RefundThrows
  <2> QED
    BY <2>2, <2>3
<1>5. ASSUME Unpublished PROVE Unpublished'
  BY <1>2, <1>4, <1>5 DEF Unpublished
<1>6. ASSUME Published PROVE Published'
  BY <1>2, <1>3, <1>6 DEF Published
<1> QED
  BY <1>2, <1>5, <1>6 DEF StatusFollowsCount

LEMMA StatusRelease ==
    ASSUME SupplyInv, StatusFollowsCount, NEW x \in Releasers,
           Release(x) \/ ReleaseFails(x)
    PROVE  StatusFollowsCount'
<1> USE DEF orderVars, copyVars, unitVars, pastVars
<1>1. /\ listing \in [status : ListingStatus, total : Totals, sold : Nat]
      /\ release \in [Releasers -> ReleaseRecord]
  BY DEF SupplyInv, Types, TableTypes, ReleaseTypes
<1>2. UNCHANGED <<edits, seller, call>> /\ \A y \in Releasers \ {x} : release'[y] = release[y]
  BY <1>1 DEF Release, ReadForRelease, ReleaseUnit, ReleaseFails, Done
<1>3. SUFFICES ASSUME edits <= 1, Published PROVE Published'
  <2>1. ~Unpublished
    BY DEF Unpublished, Release, ReadForRelease, ReleaseUnit, ReleaseFails
  <2> QED
    BY <1>2, <2>1 DEF StatusFollowsCount
<1>4. CASE ReadForRelease(x)
  <2>1. release'[x].pc = "swap" =>
           (release'[x].flip <=> listing.status = "sold_out") /\ release'[x].sold = listing.sold
    BY <1>1, <1>4 DEF ReadForRelease, Done, NoRelease, ReleaseRecord
  <2>2. listing.status = "sold_out" <=> listing.sold >= InitTotal
    BY <1>1, <1>3, SupplyAssumption DEF Published
  <2>3. listing' = listing
    BY <1>4 DEF ReadForRelease
  <2> QED
    BY <1>2, <1>3, <2>1, <2>2, <2>3 DEF Published
<1>5. CASE ReleaseUnit(x) /\ listing.sold = release[x].sold
  <2>1. release[x].pc = "swap" /\ release[x].sold > 0
    BY <1>5 DEF ReleaseUnit, SupplyInv, Types, ReleaseTypes
  <2>2. release[x].flip <=> listing.sold >= InitTotal
    BY <1>3, <1>5, <2>1 DEF Published
  <2>3. /\ listing'.sold = listing.sold - 1 /\ listing'.total = listing.total
        /\ listing'.status = IF release[x].flip THEN "listed" ELSE listing.status
    BY <1>1, <1>5 DEF ReleaseUnit
  <2>4. listing.sold \in Nat /\ listing.sold > 0 /\ listing.sold <= InitTotal
        /\ (listing.status = "listed" <=> listing.sold < InitTotal)
    BY <1>1, <1>3, <1>5, <2>1 DEF Published
  <2>5. listing'.status = "listed" /\ listing'.sold < InitTotal
    BY <2>2, <2>3, <2>4, SupplyAssumption
  <2>6. release'[x].pc = "idle"
    BY <1>1, <1>5 DEF ReleaseUnit, Done, NoRelease
  <2> QED
    BY <1>2, <1>3, <2>3, <2>4, <2>5, <2>6, SupplyAssumption DEF Published
<1>6. CASE ~ReadForRelease(x) /\ ~(ReleaseUnit(x) /\ listing.sold = release[x].sold)
  <2>1. listing' = listing /\ release'[x].pc # "swap"
    BY <1>1, <1>6 DEF Release, ReleaseUnit, ReleaseFails, Done, NoRelease, ReleaseRecord
  <2> QED
    BY <1>2, <1>3, <2>1 DEF Published
<1> QED
  BY <1>4, <1>5, <1>6

LEMMA StatusRest ==
    ASSUME SupplyInv, StatusFollowsCount, Seller \/ Crash \/ UNCHANGED vars
    PROVE  StatusFollowsCount'
<1> USE DEF orderVars, copyVars, unitVars, pastVars
<1>1. listing \in [status : ListingStatus, total : Totals, sold : Nat] /\ edits \in Nat
  BY DEF SupplyInv, Types, TableTypes, StatusFollowsCount
<1>2. CASE LoadForPatch \/ LoadForPublish \/ LoadForDelist
  <2>1. /\ edits' = edits + 1 /\ UNCHANGED <<listing, status, call, release, intents>>
    BY <1>2 DEF LoadForPatch, LoadForPublish, LoadForDelist, SellerLoads
  <2>2. edits' <= 1 => edits = 0
    BY <1>1, <2>1
  <2>3. edits' <= 1 => Unpublished'
    BY <2>1, <2>2 DEF StatusFollowsCount, Unpublished, Published
  <2> QED
    BY <1>1, <2>1, <2>3 DEF StatusFollowsCount
<1>3. CASE SellerWrites
  <2>1. SUFFICES ASSUME edits <= 1 PROVE Unpublished' \/ Published'
    BY <1>1, <1>3 DEF SellerWrites, StatusFollowsCount
  <2>2. Unpublished /\ edits = 1
    BY <1>1, <1>3, <2>1 DEF SellerWrites, StatusFollowsCount, Unpublished, Published
  <2>3. UNCHANGED <<edits, call, release, status, intents>> /\ seller'.pc = "idle"
    BY <1>3 DEF SellerWrites, IdleSeller
  <2>4. CASE seller.pc = "publish"
    <3>1. listing' = [listing EXCEPT !.status = "listed"] /\ listing.total = InitTotal
      BY <1>3, <2>2, <2>4 DEF SellerWrites, Unpublished
    <3>2. \A x \in Releasers : release[x].pc = "idle"
      BY <2>2 DEF Unpublished
    <3> QED
      BY <1>1, <2>2, <2>3, <3>1, <3>2, SupplyAssumption DEF Unpublished, Published
  <2>5. CASE seller.pc # "publish"
    BY <1>1, <1>3, <2>2, <2>3, <2>5 DEF SellerWrites, Unpublished
  <2> QED
    BY <2>4, <2>5
<1>4. CASE Crash
  <2>1. /\ UNCHANGED <<listing, status, edits, intents>> /\ seller'.pc = "idle"
        /\ \A h \in Calls : call'[h].pc = "idle"
        /\ \A x \in Releasers : release'[x].pc = "idle"
    BY <1>4 DEF Crash, IdleCall, NoRelease, IdleSeller
  <2> QED
    BY <1>1, <2>1 DEF StatusFollowsCount, Unpublished, Published
<1>5. CASE UNCHANGED vars
  BY <1>5 DEF vars, StatusFollowsCount, Unpublished, Published
<1> QED
  BY <1>2, <1>3, <1>4, <1>5 DEF Seller

LEMMA StatusStep ==
    SupplyInv /\ OfferedTotals /\ StatusFollowsCount /\ [Next]_vars => StatusFollowsCount'
  BY StatusCheckout, StatusOrder, StatusRelease, StatusRest DEF Next, Failure

(* A listing the seller published and has not touched since is buyable     *)
(* exactly while units are left, although claims and releases write the    *)
(* status from values they read before their compare-and-swap.             *)
THEOREM BuyableWhileUnitsLeft == Spec => []BuyableIffUnitsLeft
<1>1. StatusFollowsCount => BuyableIffUnitsLeft
  BY DEF StatusFollowsCount, Unpublished, Published, BuyableIffUnitsLeft
<1> QED
  BY SupplyInvariant, Offered, StatusInit, StatusStep, <1>1, PTL DEF Spec
===============================================================================
