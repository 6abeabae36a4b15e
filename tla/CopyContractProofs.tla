-------------------------- MODULE CopyContractProofs --------------------------
(***************************************************************************)
(* The copy contract of CopyDelivery, proved for every value of the        *)
(* constants, any number of overlapping sweeps included: refunds take the  *)
(* copy back for good and free its unit once, and a delivered order gave   *)
(* its buyer the whole copy.  What the code cannot keep is excepted order  *)
(* by order, by the histories cut, unguarded, missed and chased, which are *)
(* part of the properties; nothing is assumed of the schedule.             *)
(***************************************************************************)
EXTENDS CopyDeliveryProofs

(* An order no sweep can have started to deliver.                          *)
Early(s) == s \notin PaidStates \/ s = "paid"

(* What a sweep holds, or read as 'delivering', is past 'paid'.            *)
StartedInv ==
    \A w \in Sweepers :
        /\ cur[w] \in Orders => ~Early(status[cur[w]])
        /\ \A o \in resume[w] : ~Early(status[o])

(* A second sweep at the same order is remembered, and so is one at an     *)
(* order that is being refunded.                                           *)
SoleInv  == \A o \in Orders \ unguarded : \A v, w \in HeldBy(o) : v = w
ClearInv == \A o \in Orders \ chased : status[o] \in AlreadyRefunding => HeldBy(o) = {}

HoldInv == StartedInv /\ SoleInv /\ ClearInv

(* How far the refunds of order o have come, answered ones included.       *)
Begun(o) == o \in acked \/ \E r \in Refunders :
                               rord[r] = o /\ rpc[r] \in {"revoke", "purge", "release"}
Revoked(o) == o \in acked \/ \E r \in Refunders : rord[r] = o /\ rpc[r] \in {"purge", "release"}
Purged(o) == o \in acked \/ \E r \in Refunders : rord[r] = o /\ rpc[r] = "release"

BegunInv == \A o \in Orders \ missed : Begun(o) => status[o] \in AlreadyRefunding

Access(o) == ent[BuyerOf[o]] = "active" /\ entOrder[BuyerOf[o]] = o
Bare(o)   == \A m \in Members : clones[o][m] = 0 /\ seals[o][m] = 0

TakenBackInv ==
    \A o \in Orders \ (missed \cup chased) :
        (Revoked(o) => ~Access(o)) /\ (Purged(o) => Bare(o))

Releasing(r, o) == rpc[r] = "release" /\ rord[r] = o

UnitInv ==
    /\ \A o \in Orders : releases[o] > 0 => o \in acked
    /\ \A o \in Orders \ (missed \cup chased) :
          /\ releases[o] <= 1
          /\ \A r \in Refunders : Releasing(r, o) => releases[o] = 0
          /\ \A r, s \in Refunders : Releasing(r, o) /\ Releasing(s, o) => r = s

(***************************************************************************)
(* Who writes what.                                                        *)
(***************************************************************************)
(* The actions that write the copy of an order.                            *)
LEMMA CloneWriters ==
    ASSUME [Next]_vars
    PROVE  \/ UNCHANGED <<clones, seals>>
           \/ \E w \in Sweepers : CloneMember(w) \/ SealClone(w)
           \/ \E r \in Refunders : DeleteClones(r)
<1> USE DEF dbVars
<1>1. CASE Outside \/ Webhook \/ Expiry \/ UNCHANGED vars
  BY <1>1 DEF Outside, AwaitPayment, Charge, AskRefund, Webhook, RecordEvent, AdvanceToPaid,
              Expiry, ExpireStale, vars
<1>2. CASE Failure
  BY <1>2 DEF Failure, DeliveryThrows, ProbeFails, ClaimThrows, SelectThrows,
              AdvanceThrows, RefundThrows, ReleaseFails, Crash
<1>3. CASE \E w \in Sweepers : Sweep(w)
  BY <1>3 DEF Sweep, GrantCopy, SelectPending, EndSweep, EndTick, ClaimForDelivery,
              ResumeDelivery, MarkDelivered, CheckEntitlement, ProbeClones,
              GrantEntitlement
<1>4. CASE \E r \in Refunders : Refund(r)
  BY <1>4 DEF Refund, ReadForRefund, MarkRefunding, RevokeEntitlement, ReleaseUnit
<1> QED
  BY <1>1, <1>2, <1>3, <1>4 DEF Next

(* The actions that write an entitlement.                                  *)
LEMMA AccessWriters ==
    ASSUME [Next]_vars
    PROVE  \/ UNCHANGED <<ent, entOrder>>
           \/ \E w \in Sweepers : GrantEntitlement(w)
           \/ \E r \in Refunders : RevokeEntitlement(r)
<1> USE DEF dbVars
<1>1. CASE Outside \/ Webhook \/ Expiry \/ UNCHANGED vars
  BY <1>1 DEF Outside, AwaitPayment, Charge, AskRefund, Webhook, RecordEvent, AdvanceToPaid,
              Expiry, ExpireStale, vars
<1>2. CASE Failure
  BY <1>2 DEF Failure, DeliveryThrows, ProbeFails, ClaimThrows, SelectThrows,
              AdvanceThrows, RefundThrows, ReleaseFails, Crash
<1>3. CASE \E w \in Sweepers : Sweep(w)
  BY <1>3 DEF Sweep, GrantCopy, SelectPending, EndSweep, EndTick, ClaimForDelivery,
              ResumeDelivery, MarkDelivered, CheckEntitlement, ProbeClones, CloneMember,
              SealClone
<1>4. CASE \E r \in Refunders : Refund(r)
  BY <1>4 DEF Refund, ReadForRefund, MarkRefunding, DeleteClones, ReleaseUnit
<1> QED
  BY <1>1, <1>2, <1>3, <1>4 DEF Next

(* The actions that move a refund on.                                      *)
LEMMA RefundWriters ==
    ASSUME [Next]_vars
    PROVE  \/ UNCHANGED <<rpc, rord, acked, missed, releases>>
           \/ Crash
           \/ \E r \in Refunders : Refund(r) \/ RefundThrows(r) \/ ReleaseFails(r)
<1> USE DEF dbVars, refundVars, pastVars
<1>1. CASE Outside \/ Webhook \/ Expiry \/ UNCHANGED vars
  BY <1>1 DEF Outside, AwaitPayment, Charge, AskRefund, Webhook, RecordEvent, AdvanceToPaid,
              Expiry, ExpireStale, vars
<1>2. CASE Failure
  BY <1>2 DEF Failure, DeliveryThrows, ProbeFails, ClaimThrows, SelectThrows,
              AdvanceThrows
<1>3. CASE \E w \in Sweepers : Sweep(w)
  BY <1>3 DEF Sweep, GrantCopy, SelectPending, EndSweep, EndTick, ClaimForDelivery,
              ResumeDelivery, MarkDelivered, CheckEntitlement, ProbeClones, CloneMember,
              SealClone, GrantEntitlement
<1> QED
  BY <1>1, <1>2, <1>3 DEF Next

(***************************************************************************)
(* What sweeps hold.                                                       *)
(***************************************************************************)
LEMMA PastGrows ==
    ASSUME [Next]_vars
    PROVE  /\ cut \subseteq cut' /\ unguarded \subseteq unguarded'
           /\ missed \subseteq missed' /\ chased \subseteq chased'
<1> USE DEF pastVars
<1>1. CASE Outside \/ Webhook \/ Expiry \/ UNCHANGED vars
  BY <1>1 DEF Outside, AwaitPayment, Charge, AskRefund, Webhook, RecordEvent, AdvanceToPaid,
              Expiry, ExpireStale, vars
<1>2. CASE Failure
  BY <1>2 DEF Failure, DeliveryThrows, ProbeFails, ClaimThrows, SelectThrows,
              AdvanceThrows, RefundThrows, ReleaseFails, Crash
<1>3. CASE \E w \in Sweepers : Sweep(w)
  BY <1>3 DEF Sweep, GrantCopy, SelectPending, EndSweep, EndTick, ClaimForDelivery,
              ResumeDelivery, MarkDelivered, CheckEntitlement, ProbeClones, CloneMember,
              SealClone, GrantEntitlement
<1>4. CASE \E r \in Refunders : Refund(r)
  BY <1>4 DEF Refund, ReadForRefund, MarkRefunding, RevokeEntitlement, DeleteClones,
              ReleaseUnit
<1> QED
  BY <1>1, <1>2, <1>3, <1>4 DEF Next

Takes(w, o) ==
    \/ ClaimForDelivery(w, o) /\ status[o] = "paid"
    \/ ResumeDelivery(w, o)

(* A sweep lets go of its order, keeps it, or takes one by a claim or a    *)
(* resume; its snapshot is only filled by the SELECT.                      *)
LEMMA HoldMoves ==
    ASSUME TypeOK, [Next]_vars, NEW w \in Sweepers
    PROVE  /\ \/ cur'[w] \in {cur[w], NoOrder}
              \/ \E o \in Orders : cur' = [cur EXCEPT ![w] = o] /\ Takes(w, o)
           /\ \/ resume'[w] \subseteq resume[w]
              \/ SelectPending(w) /\ resume'[w] = {o \in Window : status[o] = "delivering"}
<1> USE DEF sweepVars, Goto
<1>0. /\ cur \in [Sweepers -> Orders \cup {NoOrder}]
      /\ resume \in [Sweepers -> SUBSET Orders]
  BY DEF TypeOK, SweepTypes
<1>1. CASE Outside \/ Webhook \/ Expiry \/ UNCHANGED vars
  BY <1>1 DEF Outside, AwaitPayment, Charge, AskRefund, Webhook, RecordEvent, AdvanceToPaid,
              Expiry, ExpireStale, vars
<1>2. CASE Failure
  BY <1>0, <1>2 DEF Failure, DeliveryThrows, ProbeFails, ClaimThrows, SelectThrows,
                    AdvanceThrows, RefundThrows, ReleaseFails, Crash
<1>3. ASSUME NEW v \in Sweepers,
             \/ EndSweep(v) \/ EndTick(v) \/ GrantCopy(v) \/ MarkDelivered(v)
      PROVE  cur'[w] \in {cur[w], NoOrder} /\ resume' = resume
  BY <1>0, <1>3 DEF GrantCopy, EndSweep, EndTick, MarkDelivered, CheckEntitlement,
                    ProbeClones, CloneMember, SealClone, GrantEntitlement
<1>4. ASSUME NEW v \in Sweepers, SelectPending(v)
      PROVE  /\ cur' = cur
             /\ \/ resume'[w] \subseteq resume[w]
                \/ SelectPending(w) /\ resume'[w] = {o \in Window : status[o] = "delivering"}
  BY <1>0, <1>4 DEF SelectPending
<1>5. ASSUME NEW v \in Sweepers, NEW o \in Orders,
             ClaimForDelivery(v, o) \/ ResumeDelivery(v, o)
      PROVE  /\ \/ cur'[w] = cur[w]
                \/ v = w /\ cur' = [cur EXCEPT ![w] = o] /\ Takes(w, o)
             /\ resume'[w] \subseteq resume[w]
  BY <1>0, <1>5 DEF ClaimForDelivery, ResumeDelivery, Takes
<1>6. CASE \E v \in Sweepers : Sweep(v)
  BY <1>3, <1>4, <1>5, <1>6 DEF Sweep
<1>7. CASE \E r \in Refunders : Refund(r)
  BY <1>7 DEF Refund, ReadForRefund, MarkRefunding, RevokeEntitlement, DeleteClones,
              ReleaseUnit
<1> QED
  BY <1>1, <1>2, <1>6, <1>7 DEF Next

(* An order past 'paid' never comes back before it, a paid one stays paid, *)
(* a refunded one refunded.                                                *)
LEMMA StatusKept ==
    ASSUME TypeOK, GuardInv, [Next]_vars, NEW o \in Orders
    PROVE  /\ ~Early(status[o]) => ~Early(status'[o])
           /\ status[o] \in PaidStates => status'[o] \in PaidStates
           /\ status[o] \in AlreadyRefunding => status'[o] \in AlreadyRefunding
           /\ status'[o] = "settled" => status[o] = "settled"
BY StatusMoves
DEF Moved, Moves, Early, PaidStates, AlreadyRefunding, TypeOK, DbTypes

(* Only the guarded update of a refund makes an order 'refunding', only    *)
(* the completion of a sweep makes it 'delivered'.                         *)
LEMMA BecomesRefunding ==
    ASSUME TypeOK, GuardInv, [Next]_vars, NEW o \in Orders, status'[o] # status[o]
    PROVE  /\ status'[o] \in AlreadyRefunding =>
                 \E r \in Refunders : /\ MarkRefunding(r) /\ rord[r] = o
                                     /\ status[rord[r]] = rseen[r]
           /\ status'[o] = "delivered" => \E w \in Sweepers : MarkDelivered(w) /\ cur[w] = o
<1> USE DEF TypeOK, DbTypes, SetStatus, AlreadyRefunding
<1>1. ASSUME NEW p \in Orders,
             \/ AwaitPayment(p) \/ AdvanceToPaid(p)
             \/ \E w \in Sweepers : ExpireStale(w, p) \/ ClaimForDelivery(w, p)
      PROVE  status'[o] \in {"awaiting_payment", "paid", "expired", "delivering"}
  BY <1>1 DEF AwaitPayment, AdvanceToPaid, ExpireStale, ClaimForDelivery
<1>2. ASSUME NEW w \in Sweepers, MarkDelivered(w) PROVE cur[w] = o /\ status'[o] = "delivered"
  BY <1>2 DEF MarkDelivered
<1>3. ASSUME NEW r \in Refunders, MarkRefunding(r)
      PROVE  status'[o] = "refunding" /\ rord[r] = o /\ status[rord[r]] = rseen[r]
  BY <1>3 DEF MarkRefunding
<1> QED
  BY <1>1, <1>2, <1>3, StatusWriters

LEMMA StartedStep ==
    ASSUME TypeOK, GuardInv, StartedInv, [Next]_vars
    PROVE  StartedInv'
<1>1. SUFFICES ASSUME NEW w \in Sweepers
               PROVE  /\ cur'[w] \in Orders => ~Early(status'[cur'[w]])
                      /\ \A o \in resume'[w] : ~Early(status'[o])
  BY DEF StartedInv
<1>2. resume[w] \subseteq Orders /\ cur[w] \in Orders \cup {NoOrder}
  BY DEF TypeOK, SweepTypes
<1>3. cur'[w] \in Orders => ~Early(status'[cur'[w]])
  <2>1. CASE cur'[w] \in {cur[w], NoOrder}
    BY <1>2, <2>1, StatusKept, OrdersAssumption DEF StartedInv
  <2>2. ASSUME NEW o \in Orders, cur' = [cur EXCEPT ![w] = o],
               ClaimForDelivery(w, o), status[o] = "paid"
        PROVE  ~Early(status'[cur'[w]])
    BY <2>2 DEF ClaimForDelivery, SetStatus, Early, PaidStates, TypeOK, DbTypes, SweepTypes
  <2>3. ASSUME NEW o \in Orders, cur' = [cur EXCEPT ![w] = o], ResumeDelivery(w, o)
        PROVE  ~Early(status'[cur'[w]])
    <3>1. ~Early(status[o]) /\ cur'[w] = o
      BY <2>3 DEF ResumeDelivery, StartedInv, TypeOK, SweepTypes
    <3> QED
      BY <3>1, StatusKept
  <2> QED
    BY <2>1, <2>2, <2>3, HoldMoves DEF Takes
<1>4. ASSUME NEW o \in resume'[w] PROVE ~Early(status'[o])
  <2>1. CASE resume'[w] \subseteq resume[w]
    BY <1>2, <2>1, StatusKept DEF StartedInv
  <2>2. CASE resume'[w] = {p \in Window : status[p] = "delivering"}
    <3>1. o \in Orders /\ ~Early(status[o])
      BY <2>2 DEF Window, Deliverable, Early, PaidStates
    <3> QED
      BY <3>1, StatusKept
  <2> QED
    BY <2>1, <2>2, HoldMoves
<1> QED
  BY <1>3, <1>4

(* A sweep comes to hold an order that no other holds, or the overlap is   *)
(* remembered.                                                             *)
LEMMA SoleStep ==
    ASSUME TypeOK, StartedInv, SoleInv, [Next]_vars
    PROVE  SoleInv'
<1>1. SUFFICES ASSUME NEW o \in Orders, o \notin unguarded',
                      NEW v \in Sweepers, NEW w \in Sweepers,
                      cur'[v] = o, cur'[w] = o, v # w
               PROVE  FALSE
  BY DEF SoleInv, HeldBy
<1>2. o \notin unguarded /\ o # NoOrder
  BY <1>1, PastGrows, OrdersAssumption
<1>3. ASSUME NEW x \in Sweepers, NEW y \in Sweepers, x # y, cur'[x] = o, cur[y] = o
      PROVE  cur[x] = o
  <2>1. SUFFICES ASSUME cur[x] # o PROVE FALSE
    OBVIOUS
  <2>2. Takes(x, o)
    BY <1>2, <1>3, <2>1, HoldMoves DEF TypeOK, SweepTypes
  <2>3. ~Early(status[o]) /\ y \in HeldBy(o)
    BY <1>3 DEF StartedInv, HeldBy
  <2> QED
    BY <1>1, <2>2, <2>3 DEF Takes, ResumeDelivery, Early
<1>4. cur[v] = o \/ cur[w] = o
  <2>1. ASSUME cur[v] # o, cur[w] # o PROVE FALSE
    <3>1. cur' = [cur EXCEPT ![v] = o]
      BY <1>1, <1>2, <2>1, HoldMoves DEF TypeOK, SweepTypes
    <3> QED
      BY <1>1, <2>1, <3>1 DEF TypeOK, SweepTypes
  <2> QED
    BY <2>1
<1>5. cur[v] = o /\ cur[w] = o
  BY <1>1, <1>3, <1>4
<1> QED
  BY <1>1, <1>2, <1>5 DEF SoleInv, HeldBy

LEMMA ClearStep ==
    ASSUME TypeOK, GuardInv, ClearInv, [Next]_vars
    PROVE  ClearInv'
<1>1. SUFFICES ASSUME NEW o \in Orders, o \notin chased', status'[o] \in AlreadyRefunding,
                      NEW w \in Sweepers, cur'[w] = o
               PROVE  FALSE
  BY DEF ClearInv, HeldBy
<1>2. o \notin chased /\ o # NoOrder
  BY <1>1, PastGrows, OrdersAssumption
<1>3. CASE status[o] \in AlreadyRefunding
  <2>1. cur[w] # o
    BY <1>2, <1>3 DEF ClearInv, HeldBy
  <2>2. Takes(w, o)
    BY <1>1, <1>2, <2>1, HoldMoves DEF TypeOK, SweepTypes
  <2> QED
    BY <1>1, <1>3, <2>2 DEF Takes, ResumeDelivery, AlreadyRefunding
<1>4. CASE status[o] \notin AlreadyRefunding
  <2>1. PICK r \in Refunders : MarkRefunding(r) /\ rord[r] = o /\ status[rord[r]] = rseen[r]
    BY <1>1, <1>4, BecomesRefunding
  <2>2. cur' = cur /\ HeldBy(o) = {}
    BY <1>1, <2>1 DEF MarkRefunding, sweepVars
  <2> QED
    BY <1>1, <2>2 DEF HeldBy
<1> QED
  BY <1>3, <1>4

LEMMA HoldInit == Init => HoldInv
BY OrdersAssumption
DEF Init, HoldInv, StartedInv, SoleInv, ClearInv, HeldBy, AlreadyRefunding

LEMMA HoldStep == ASSUME TypeOK, GuardInv, HoldInv, [Next]_vars PROVE HoldInv'
BY StartedStep, SoleStep, ClearStep DEF HoldInv

(***************************************************************************)
(* Refunds.                                                                *)
(***************************************************************************)
LEMMA RefundOrder ==
    ASSUME NEW o
    PROVE  (Purged(o) => Revoked(o)) /\ (Revoked(o) => Begun(o))
BY DEF Purged, Revoked, Begun

(* A refund of order o goes one step at a time, and an update that matched *)
(* no row is remembered.                                                   *)
LEMMA RefundProgress ==
    ASSUME TypeOK, [Next]_vars, NEW o \in Orders
    PROVE  /\ missed \subseteq missed'
           /\ Begun(o)' => \/ Begun(o) \/ status[o] \in AlreadyRefunding
                           \/ \E r \in Refunders : MarkRefunding(r) /\ rord[r] = o
           /\ Revoked(o)' => \/ Revoked(o)
                             \/ \E r \in Refunders : RevokeEntitlement(r) /\ rord[r] = o
           /\ Purged(o)' => \/ Purged(o)
                            \/ \E r \in Refunders : DeleteClones(r) /\ rord[r] = o
<1> USE DEF refundVars, pastVars
<1>1. CASE UNCHANGED <<rpc, rord, acked, missed, releases>>
  BY <1>1 DEF Begun, Revoked, Purged
<1>2. CASE Crash
  BY <1>2 DEF Crash, Begun, Revoked, Purged
<1>3. ASSUME NEW r \in Refunders, NEW p \in Orders, ReadForRefund(r, p)
      PROVE  /\ missed' = missed
             /\ Begun(o)' => Begun(o) \/ status[o] \in AlreadyRefunding
             /\ Revoked(o)' => Revoked(o)
             /\ Purged(o)' => Purged(o)
  BY <1>3 DEF ReadForRefund, TypeOK, RefundTypes, Begun, Revoked, Purged
<1>4. ASSUME NEW r \in Refunders, NEW l \in RefundPc, rpc' = [rpc EXCEPT ![r] = l],
             rord' = rord, acked' = acked
      PROVE  /\ Begun(o)' => Begun(o) \/ (rord[r] = o /\ l \in {"revoke", "purge", "release"})
             /\ Revoked(o)' => Revoked(o) \/ (rord[r] = o /\ l \in {"purge", "release"})
             /\ Purged(o)' => Purged(o) \/ (rord[r] = o /\ l = "release")
  BY <1>4 DEF TypeOK, RefundTypes, Begun, Revoked, Purged
<1>5. ASSUME NEW r \in Refunders, MarkRefunding(r) \/ RevokeEntitlement(r)
      PROVE  /\ missed \subseteq missed'
             /\ Begun(o)' => Begun(o) \/ (MarkRefunding(r) /\ rord[r] = o)
             /\ Revoked(o)' => Revoked(o) \/ (RevokeEntitlement(r) /\ rord[r] = o)
             /\ Purged(o)' => Purged(o)
  <2>1. CASE MarkRefunding(r)
    BY <1>4, <2>1 DEF MarkRefunding, RefundPc
  <2>2. CASE RevokeEntitlement(r)
    <3>1. rord[r] = o => Begun(o)
      BY <2>2 DEF RevokeEntitlement, Begun
    <3> QED
      BY <1>4, <2>2, <3>1 DEF RevokeEntitlement, RefundPc
  <2> QED
    BY <1>5, <2>1, <2>2
<1>6. ASSUME NEW r \in Refunders, DeleteClones(r)
      PROVE  /\ missed' = missed
             /\ Begun(o)' => Begun(o)
             /\ Revoked(o)' => Revoked(o)
             /\ Purged(o)' => Purged(o) \/ rord[r] = o
  <2>1. rpc[r] = "purge" /\ missed' = missed
    BY <1>6 DEF DeleteClones
  <2>2. rord[r] = o => Revoked(o) /\ Begun(o)
    BY <2>1 DEF Revoked, Begun
  <2>3. CASE UNCHANGED <<rord, acked>> /\ rpc' = [rpc EXCEPT ![r] = "release"]
    BY <1>4, <2>1, <2>2, <2>3 DEF RefundPc
  <2>4. CASE Answered(r)
    BY <2>1, <2>2, <2>4 DEF Answered, Begun, Revoked, Purged, TypeOK, RefundTypes
  <2> QED
    BY <1>6, <2>3, <2>4 DEF DeleteClones
<1>7. ASSUME NEW r \in Refunders, ReleaseUnit(r) \/ ReleaseFails(r)
      PROVE  /\ missed' = missed
             /\ Begun(o)' => Begun(o)
             /\ Revoked(o)' => Revoked(o)
             /\ Purged(o)' => Purged(o)
  BY <1>7 DEF ReleaseUnit, ReleaseFails, Answered, Begun, Revoked, Purged, TypeOK, RefundTypes
<1>8. ASSUME NEW r \in Refunders, RefundThrows(r)
      PROVE  /\ missed' = missed
             /\ Begun(o)' => Begun(o)
             /\ Revoked(o)' => Revoked(o)
             /\ Purged(o)' => Purged(o)
  BY <1>8 DEF RefundThrows, Begun, Revoked, Purged, TypeOK, RefundTypes
<1>9. CASE \E r \in Refunders : Refund(r) \/ RefundThrows(r) \/ ReleaseFails(r)
  BY <1>3, <1>5, <1>6, <1>7, <1>8, <1>9 DEF Refund
<1> QED
  BY <1>1, <1>2, <1>9, RefundWriters

(* A refund that goes on to the clawback found its order, or put it, at    *)
(* 'refunding', and there it stays.                                        *)
LEMMA BegunStep == ASSUME TypeOK, GuardInv, BegunInv, [Next]_vars PROVE BegunInv'
<1>1. SUFFICES ASSUME NEW o \in Orders, o \notin missed', Begun(o)'
               PROVE  status'[o] \in AlreadyRefunding
  BY DEF BegunInv
<1>2. CASE Begun(o) \/ status[o] \in AlreadyRefunding
  <2>1. status[o] \in AlreadyRefunding
    BY <1>1, <1>2, RefundProgress DEF BegunInv
  <2> QED
    BY <2>1, StatusKept
<1>3. ASSUME NEW r \in Refunders, MarkRefunding(r), rord[r] = o
      PROVE  status'[o] \in AlreadyRefunding
  BY <1>1, <1>3 DEF MarkRefunding, SetStatus, AlreadyRefunding, TypeOK, DbTypes
<1> QED
  BY <1>1, <1>2, <1>3, RefundProgress

(* No sweep is at work on an order whose refund has begun.                 *)
LEMMA NotInHand ==
    ASSUME HoldInv, BegunInv, NEW o \in Orders \ (missed \cup chased), Begun(o),
           NEW w \in Sweepers
    PROVE  cur[w] # o
BY DEF HoldInv, ClearInv, HeldBy, BegunInv

(* What a refund took back stays taken back: only a sweep could write it   *)
(* again, and none holds the order.                                        *)
LEMMA TakenBackStep ==
    ASSUME TypeOK, GuardInv, HoldInv, BegunInv, TakenBackInv, [Next]_vars
    PROVE  TakenBackInv'
<1>1. SUFFICES ASSUME NEW o \in Orders, o \notin missed' \cup chased'
               PROVE  (Revoked(o)' => ~Access(o)') /\ (Purged(o)' => Bare(o)')
  BY DEF TakenBackInv
<1>2. o \in Orders \ (missed \cup chased)
  BY <1>1, PastGrows
<1>3. ASSUME Revoked(o)' PROVE ~Access(o)'
  <2>1. ASSUME NEW r \in Refunders, RevokeEntitlement(r), rord[r] = o PROVE ~Access(o)'
    BY <2>1, BuyersAssumption DEF RevokeEntitlement, Access, TypeOK, DbTypes
  <2>2. CASE Revoked(o)
    <3>1. ~Access(o) /\ Begun(o)
      BY <1>2, <2>2, RefundOrder DEF TakenBackInv
    <3>2. CASE UNCHANGED <<ent, entOrder>>
      BY <3>1, <3>2 DEF Access
    <3>3. ASSUME NEW w \in Sweepers, GrantEntitlement(w) PROVE ~Access(o)'
      <4>1. cur[w] # o
        BY <1>2, <3>1, NotInHand
      <4>2. cur[w] \in Orders
        BY <3>3 DEF GrantEntitlement, TypeOK, SweepTypes, DeliveryPc
      <4> QED
        BY <3>1, <3>3, <4>1, <4>2, BuyersAssumption DEF GrantEntitlement, Access, TypeOK, DbTypes
    <3>4. ASSUME NEW r \in Refunders, RevokeEntitlement(r) PROVE ~Access(o)'
      BY <3>1, <3>4, BuyersAssumption DEF RevokeEntitlement, Access, TypeOK, DbTypes
    <3> QED
      BY <3>2, <3>3, <3>4, AccessWriters
  <2> QED
    BY <1>3, <2>1, <2>2, RefundProgress
<1>4. ASSUME Purged(o)' PROVE Bare(o)'
  <2>1. ASSUME NEW r \in Refunders, DeleteClones(r), rord[r] = o PROVE Bare(o)'
    BY <2>1 DEF DeleteClones, EraseClones, Bare, TypeOK, DbTypes
  <2>2. CASE Purged(o)
    <3>1. Bare(o) /\ Begun(o)
      BY <1>2, <2>2, RefundOrder DEF TakenBackInv
    <3>2. CASE UNCHANGED <<clones, seals>>
      BY <3>1, <3>2 DEF Bare
    <3>3. ASSUME NEW w \in Sweepers, CloneMember(w) \/ SealClone(w) PROVE Bare(o)'
      <4>1. cur[w] # o
        BY <1>2, <3>1, NotInHand
      <4>2. clones'[o] = clones[o] /\ seals'[o] = seals[o]
        BY <3>3, <4>1 DEF CloneMember, SealClone, TypeOK, DbTypes
      <4> QED
        BY <3>1, <4>2 DEF Bare
    <3>4. ASSUME NEW r \in Refunders, DeleteClones(r) PROVE Bare(o)'
      BY <3>1, <3>4 DEF DeleteClones, EraseClones, Bare, TypeOK, DbTypes
    <3> QED
      BY <3>2, <3>3, <3>4, CloneWriters
  <2> QED
    BY <1>4, <2>1, <2>2, RefundProgress
<1> QED
  BY <1>3, <1>4

(* The unit of an order is freed by the one run that deleted clones: after *)
(* it there are none to delete.                                            *)
LEMMA UnitStep ==
    ASSUME TypeOK, TakenBackInv, UnitInv, [Next]_vars
    PROVE  UnitInv'
<1> USE DEF refundVars, pastVars, dbVars
<1> DEFINE Once(o) == /\ releases[o] <= 1
                      /\ \A r \in Refunders : Releasing(r, o) => releases[o] = 0
                      /\ \A r, s \in Refunders : Releasing(r, o) /\ Releasing(s, o) => r = s
<1>1. /\ \A o \in Orders : releases[o] \in Nat /\ (releases[o] > 0 => o \in acked)
      /\ \A o \in Orders \ (missed \cup chased) : Once(o)
  BY DEF TypeOK, DbTypes, UnitInv
<1>0. missed \subseteq missed' /\ chased \subseteq chased'
  BY PastGrows
<1>2. ASSUME releases' = releases, acked \subseteq acked',
             \A o \in Orders, r \in Refunders : Releasing(r, o)' => Releasing(r, o)
      PROVE  UnitInv'
  BY <1>0, <1>1, <1>2 DEF UnitInv
<1>3. CASE UNCHANGED <<rpc, rord, acked, missed, releases>>
  BY <1>2, <1>3 DEF Releasing
<1>4. CASE Crash
  BY <1>2, <1>4 DEF Crash, Releasing
<1>5. ASSUME NEW r \in Refunders,
             \/ \E p \in Orders : ReadForRefund(r, p)
             \/ MarkRefunding(r) \/ RevokeEntitlement(r)
             \/ RefundThrows(r) \/ ReleaseFails(r)
      PROVE  UnitInv'
  BY <1>2, <1>5 DEF ReadForRefund, MarkRefunding, RevokeEntitlement, RefundThrows,
                    ReleaseFails, Answered, Releasing, TypeOK, RefundTypes
<1>6. ASSUME NEW r \in Refunders, DeleteClones(r) PROVE UnitInv'
  <2>1. releases' = releases /\ missed' = missed /\ chased' = chased
    BY <1>6 DEF DeleteClones
  <2>2. CASE Answered(r)
    BY <1>2, <2>1, <2>2 DEF Answered, Releasing, TypeOK, RefundTypes
  <2>3. CASE /\ \E m \in Members : clones[rord[r]][m] > 0
             /\ rpc' = [rpc EXCEPT ![r] = "release"] /\ UNCHANGED <<rord, asked, acked>>
    <3>1. \A o \in Orders, q \in Refunders \ {r} : Releasing(q, o)' <=> Releasing(q, o)
      BY <2>3 DEF Releasing, TypeOK, RefundTypes
    <3>2. \A o \in Orders : Releasing(r, o)' <=> rord[r] = o
      BY <2>3 DEF Releasing, TypeOK, RefundTypes
    <3>3. ASSUME NEW o \in Orders \ (missed \cup chased), rord[r] = o
          PROVE  ~Purged(o)
      <4>1. ~Bare(o)
        BY <2>3, <3>3 DEF Bare, TypeOK, DbTypes
      <4> QED
        BY <3>3, <4>1 DEF TakenBackInv
    <3>4. ASSUME NEW o \in Orders \ (missed \cup chased), rord[r] = o
          PROVE  releases[o] = 0 /\ \A q \in Refunders : ~Releasing(q, o)
      BY <1>1, <3>3, <3>4 DEF Purged, Releasing
    <3>5. ASSUME NEW o \in Orders \ (missed \cup chased)
          PROVE  Once(o)'
      BY <1>1, <2>1, <3>1, <3>2, <3>4
    <3> QED
      BY <1>1, <2>1, <2>3, <3>5 DEF UnitInv
  <2> QED
    BY <1>6, <2>2, <2>3 DEF DeleteClones
<1>7. ASSUME NEW r \in Refunders, ReleaseUnit(r) PROVE UnitInv'
  <2>1. /\ missed' = missed /\ chased' = chased /\ acked' = acked \cup {rord[r]} /\ rpc[r] = "release"
        /\ releases' = [releases EXCEPT ![rord[r]] = @ + 1]
        /\ rpc' = [rpc EXCEPT ![r] = "idle"]
        /\ rord' = [rord EXCEPT ![r] = NoOrder]
    BY <1>7 DEF ReleaseUnit, Answered
  <2>2. rord[r] \in Orders /\ Releasing(r, rord[r])
    BY <2>1 DEF Releasing, TypeOK, RefundTypes
  <2>3. \A o \in Orders : o # rord[r] => releases'[o] = releases[o]
    BY <2>1 DEF TypeOK, DbTypes
  <2>4. releases'[rord[r]] = releases[rord[r]] + 1
    BY <2>1, <2>2 DEF TypeOK, DbTypes
  <2>5. \A o \in Orders, q \in Refunders : Releasing(q, o)' => q # r /\ Releasing(q, o)
    BY <2>1 DEF Releasing, TypeOK, RefundTypes
  <2>6. ASSUME NEW o \in Orders \ (missed \cup chased) PROVE Once(o)'
    <3>1. CASE o = rord[r]
      <4>1. releases[o] = 0
        BY <1>1, <2>2, <3>1
      <4>2. \A q \in Refunders : ~Releasing(q, o)'
        BY <1>1, <2>2, <2>5, <3>1
      <4> QED
        BY <2>4, <3>1, <4>1, <4>2
    <3>2. CASE o # rord[r]
      BY <1>1, <2>3, <2>5, <3>2
    <3> QED
      BY <3>1, <3>2
  <2>7. \A o \in Orders : releases'[o] > 0 => o \in acked'
    BY <1>1, <2>1, <2>3
  <2> QED
    BY <2>1, <2>6, <2>7 DEF UnitInv
<1>8. CASE \E r \in Refunders : Refund(r) \/ RefundThrows(r) \/ ReleaseFails(r)
  BY <1>5, <1>6, <1>7, <1>8 DEF Refund
<1> QED
  BY <1>3, <1>4, <1>8, RefundWriters

RefundInv == HoldInv /\ BegunInv /\ TakenBackInv /\ UnitInv

LEMMA RefundInit == Init => RefundInv
<1>1. SUFFICES ASSUME Init PROVE RefundInv
  OBVIOUS
<1>2. BegunInv /\ TakenBackInv
  BY <1>1 DEF Init, BegunInv, TakenBackInv, Begun, Revoked, Purged
<1>3. UnitInv
  BY <1>1 DEF Init, UnitInv, Releasing
<1> QED
  BY <1>1, <1>2, <1>3, HoldInit DEF RefundInv

LEMMA RefundAlways == Spec => [](TypeOK /\ GuardInv /\ RefundInv)
<1>1. Init => TypeOK /\ GuardInv /\ RefundInv
  BY TypeInit, GuardInit, RefundInit
<1>2. TypeOK /\ GuardInv /\ RefundInv /\ [Next]_vars => (TypeOK /\ GuardInv /\ RefundInv)'
  BY TypeStep, GuardStep, HoldStep, BegunStep, TakenBackStep, UnitStep DEF RefundInv
<1> QED
  BY <1>1, <1>2, PTL DEF Spec

(* A refund that was answered 200 took every memory, wrap and the access   *)
(* of its order back, for good, however many orders, buyers, overlapping   *)
(* sweeps, refunds, faults and crashes, unless its guarded update missed   *)
(* the row (missed) or a sweep was at the order once refunding (chased).   *)
THEOREM RefundIsFinal == Spec => []RefundTakesCopyBack
<1>1. TypeOK /\ GuardInv /\ RefundInv => RefundTakesCopyBack
  BY DEF RefundInv, TakenBackInv, Revoked, Purged, Bare, Access, RefundTakesCopyBack,
         TypeOK, OutsideTypes
<1> QED
  BY RefundAlways, <1>1, PTL

(* However often an order's refund is repeated, interrupted or run side by *)
(* side with another, its supply unit goes back at most once, with the     *)
(* same two exceptions.                                                    *)
THEOREM UnitFreedOnce == Spec => []UnitReturnedOnce
<1>1. TypeOK /\ GuardInv /\ RefundInv => UnitReturnedOnce
  BY DEF RefundInv, UnitInv, UnitReturnedOnce
<1> QED
  BY RefundAlways, <1>1, PTL

(***************************************************************************)
(* Deliveries, first part: whatever the overlap, what is delivered is      *)
(* there.  Nothing is written for an order, and no refund is at work on    *)
(* it, before it is paid.                                                  *)
(***************************************************************************)
Some(o) == \E m \in Members : clones[o][m] > 0

PaidInv ==
    /\ \A o \in Orders : Some(o) \/ Access(o) => status[o] \in PaidStates
    /\ \A b \in Buyers : ent[b] = "active" => /\ entOrder[b] \in Orders
                                             /\ BuyerOf[entOrder[b]] = b
    /\ \A r \in Refunders : rord[r] \in Orders => status[rord[r]] \in PaidStates

(* The first c - 1 members of order o are cloned and the first s - 1 of    *)
(* them sealed, once at least.                                             *)
Reached(o, c, s) ==
    \A m \in Members : /\ m < c => clones[o][m] >= 1
                       /\ Encrypted /\ m < s => seals[o][m] >= 1

(* Where the copy of order o is between two steps of a sweep w that is     *)
(* delivering it.                                                          *)
Hand(w, o) ==
    /\ w \notin gone
    /\ pc[w] = "clone" => Reached(o, at[w], at[w])
    /\ pc[w] = "seal"  => Encrypted /\ Reached(o, at[w] + 1, at[w])
    /\ pc[w] \in {"grant", "mark"} => Some(o)
    /\ pc[w] = "mark" => Access(o)

CopyOf(o) ==
    /\ Early(status[o]) => ~Some(o) /\ ~Access(o)
    /\ Some(o) => AtLeastWhole(o) \/ \E w \in HeldBy(o) : InLoop(w)
    /\ \A w \in HeldBy(o) : Hand(w, o)
    /\ Access(o) => Some(o)
    /\ status[o] \in {"delivered", "settled"} => Access(o)

(* The orders the contract of delivery is about.                           *)
Kept(o) == Alone(o) /\ status[o] \notin AlreadyRefunding

CopyInv == \A o \in Orders \ (cut \cup missed) : Kept(o) => CopyOf(o)

LEMMA HolderIsPaid ==
    ASSUME TypeOK, StartedInv, NEW w \in Sweepers, cur[w] \in Orders
    PROVE  status[cur[w]] \in PaidStates
BY DEF StartedInv, Early

LEMMA PaidInit == Init => PaidInv
<1>1. SUFFICES ASSUME Init PROVE PaidInv
  OBVIOUS
<1>2. \A o \in Orders : ~Some(o) /\ ~Access(o)
  BY <1>1, BuyersAssumption DEF Init, Some, Access
<1> QED
  BY <1>1, <1>2, OrdersAssumption DEF Init, PaidInv

LEMMA PaidStep ==
    ASSUME TypeOK, GuardInv, StartedInv, PaidInv, [Next]_vars
    PROVE  PaidInv'
<1>1. ASSUME NEW o \in Orders, Some(o)' PROVE Some(o) \/ status[o] \in PaidStates
  <2>1. CASE UNCHANGED <<clones, seals>>
    BY <1>1, <2>1 DEF Some
  <2>2. ASSUME NEW w \in Sweepers, CloneMember(w)
        PROVE  Some(o) \/ status[o] \in PaidStates
    <3>1. cur[w] \in Orders
      BY <2>2 DEF CloneMember, TypeOK, SweepTypes, DeliveryPc
    <3>2. CASE cur[w] = o
      BY <3>1, <3>2, HolderIsPaid
    <3>3. CASE cur[w] # o
      BY <1>1, <2>2, <3>1, <3>3 DEF CloneMember, Some, TypeOK, DbTypes
    <3> QED
      BY <3>2, <3>3
  <2>3. ASSUME NEW w \in Sweepers, SealClone(w) PROVE Some(o)
    BY <1>1, <2>3 DEF SealClone, Some
  <2>4. ASSUME NEW r \in Refunders, DeleteClones(r) PROVE Some(o)
    <3>1. clones'[o] = clones[o] \/ \A m \in Members : clones'[o][m] = 0
      BY <2>4 DEF DeleteClones, EraseClones, TypeOK, DbTypes
    <3> QED
      BY <1>1, <3>1 DEF Some
  <2> QED
    BY <2>1, <2>2, <2>3, <2>4, CloneWriters
<1>2. /\ \A b \in Buyers : ent'[b] = "active" => /\ entOrder'[b] \in Orders
                                               /\ BuyerOf[entOrder'[b]] = b
      /\ \A o \in Orders : Access(o)' => Access(o) \/ status[o] \in PaidStates
  <2>1. CASE UNCHANGED <<ent, entOrder>>
    BY <2>1 DEF PaidInv, Access
  <2>2. ASSUME NEW w \in Sweepers, GrantEntitlement(w)
        PROVE  <1>2!:
    <3>1. cur[w] \in Orders
      BY <2>2 DEF GrantEntitlement, TypeOK, SweepTypes, DeliveryPc
    <3>2. status[cur[w]] \in PaidStates
      BY <3>1, HolderIsPaid
    <3>3. /\ ent' = [ent EXCEPT ![BuyerOf[cur[w]]] = "active"]
          /\ entOrder' = [entOrder EXCEPT ![BuyerOf[cur[w]]] = cur[w]]
          /\ ent \in [Buyers -> {"none", "active", "refunded"}]
          /\ entOrder \in [Buyers -> Orders \cup {NoOrder}]
      BY <2>2 DEF GrantEntitlement, TypeOK, DbTypes
    <3>4. \A o \in Orders : Access(o)' => Access(o) \/ status[o] \in PaidStates
      BY <3>1, <3>2, <3>3, BuyersAssumption DEF Access
    <3> QED
      BY <3>1, <3>3, <3>4, BuyersAssumption DEF PaidInv
  <2>3. ASSUME NEW r \in Refunders, RevokeEntitlement(r)
        PROVE  <1>2!:
    BY <2>3, BuyersAssumption DEF RevokeEntitlement, PaidInv, Access, TypeOK, DbTypes
  <2> QED
    BY <2>1, <2>2, <2>3, AccessWriters
<1>3. ASSUME NEW r \in Refunders, rord'[r] \in Orders
      PROVE  status'[rord'[r]] \in PaidStates
  <2>1. CASE rord'[r] = rord[r]
    BY <1>3, <2>1, StatusKept DEF PaidInv
  <2>2. CASE rord'[r] # rord[r]
    <3>1. ReadForRefund(r, rord'[r])
      <4>1. ASSUME NEW q \in Refunders, Refund(q) \/ RefundThrows(q) \/ ReleaseFails(q)
            PROVE  ReadForRefund(r, rord'[r])
        BY <1>3, <2>2, <4>1, OrdersAssumption
        DEF Refund, RefundThrows, ReleaseFails, ReadForRefund, MarkRefunding,
            RevokeEntitlement, DeleteClones, ReleaseUnit, Answered, TypeOK, RefundTypes
      <4>2. CASE Crash
        BY <1>3, <4>2, OrdersAssumption DEF Crash
      <4> QED
        BY <2>2, <4>1, <4>2, RefundWriters
    <3>2. status[rord'[r]] \in PaidStates
      BY <3>1, RefundableIsPaid DEF ReadForRefund, PaidStates
    <3> QED
      BY <1>3, <3>2, StatusKept
  <2> QED
    BY <2>1, <2>2
<1> QED
  BY <1>1, <1>2, <1>3, StatusKept DEF PaidInv

(* Nobody else pays for the pack: no entitlement and no clone of the buyer *)
(* but this order's, no sweep and no refund at another order of theirs.    *)
LEMMA AloneKept ==
    ASSUME TypeOK, GuardInv, [Next]_vars, NEW o \in Orders, Alone(o)'
    PROVE  Alone(o)
BY StatusKept DEF Alone

LEMMA OwnAccess ==
    ASSUME PaidInv, NEW o \in Orders, Alone(o)
    PROVE  ent[BuyerOf[o]] = "active" => Access(o)
<1>1. SUFFICES ASSUME ent[BuyerOf[o]] = "active" PROVE Access(o)
  OBVIOUS
<1>2. PICK p \in Orders : p = entOrder[BuyerOf[o]] /\ BuyerOf[p] = BuyerOf[o]
  BY <1>1, BuyersAssumption DEF PaidInv
<1>3. status[p] \in PaidStates
  BY <1>1, <1>2 DEF PaidInv, Access
<1> QED
  BY <1>1, <1>2, <1>3 DEF Alone, Access

LEMMA OwnClones ==
    ASSUME PaidInv, NEW o \in Orders, Alone(o)
    PROVE  HasClones(BuyerOf[o]) <=> Some(o)
BY DEF PaidInv, HasClones, Some, Alone

LEMMA OnlyOwn ==
    ASSUME TypeOK, StartedInv, PaidInv, NEW o \in Orders, Alone(o)
    PROVE  /\ \A w \in Sweepers : cur[w] \in Orders /\ BuyerOf[cur[w]] = BuyerOf[o] => cur[w] = o
           /\ \A r \in Refunders : rord[r] \in Orders /\ BuyerOf[rord[r]] = BuyerOf[o] => rord[r] = o
BY HolderIsPaid DEF PaidInv, Alone

(* The place of a sweep at order o, after a step.                          *)
LEMMA PlaceMoves ==
    ASSUME TypeOK, [Next]_vars, NEW o \in Orders, NEW w \in Sweepers, cur'[w] = o
    PROVE  \/ cur[w] = o /\ pc'[w] = pc[w] /\ at'[w] = at[w]
           \/ cur[w] # o /\ Takes(w, o) /\ pc'[w] = "check"
           \/ cur[w] = o /\ (GrantCopy(w) \/ ProbeFails(w))
<1> USE DEF sweepVars, Goto
<1>0. /\ cur \in [Sweepers -> Orders \cup {NoOrder}] /\ o # NoOrder
      /\ pc \in [Sweepers -> SweepPc] /\ at \in [Sweepers -> Members]
      /\ \A v \in Sweepers : cur[v] \in Orders <=> pc[v] \in DeliveryPc
  BY OrdersAssumption DEF TypeOK, SweepTypes
<1>1. CASE Outside \/ Expiry \/ UNCHANGED vars \/ \E p \in Orders : RecordEvent(p)
  BY <1>1 DEF Outside, AwaitPayment, Charge, AskRefund, RecordEvent, Expiry, ExpireStale, vars
<1>2. ASSUME NEW p \in Orders, AdvanceToPaid(p)
      PROVE  cur[w] = o /\ pc'[w] = pc[w] /\ at'[w] = at[w]
  <2>1. cur' = cur /\ at' = at
    BY <1>2 DEF AdvanceToPaid
  <2>2. pc' = pc \/ \E n \in Nudges : pc[n] = "idle" /\ pc' = [pc EXCEPT ![n] = "start"]
    BY <1>2 DEF AdvanceToPaid, StartNudge
  <2> QED
    BY <1>0, <2>1, <2>2 DEF DeliveryPc
<1>3. CASE Crash
  BY <1>0, <1>3 DEF Crash
<1>4. CASE \/ \E p \in Orders : AdvanceThrows(p)
           \/ \E r \in Refunders : RefundThrows(r) \/ ReleaseFails(r)
  BY <1>4 DEF AdvanceThrows, RefundThrows, ReleaseFails
<1>5. ASSUME NEW v \in Sweepers, DeliveryThrows(v)
      PROVE  cur[w] = o /\ pc'[w] = pc[w] /\ at'[w] = at[w]
  BY <1>0, <1>5 DEF DeliveryThrows
<1>6. ASSUME NEW v \in Sweepers, ProbeFails(v)
      PROVE  \/ cur[w] = o /\ pc'[w] = pc[w] /\ at'[w] = at[w]
             \/ cur[w] = o /\ ProbeFails(w)
  BY <1>0, <1>6 DEF ProbeFails
<1>7. ASSUME NEW v \in Sweepers, SelectThrows(v) \/ \E p \in Orders : ClaimThrows(v, p)
      PROVE  cur[w] = o /\ pc'[w] = pc[w] /\ at'[w] = at[w]
  BY <1>0, <1>7 DEF SelectThrows, ClaimThrows, DeliveryPc
<1>8. ASSUME NEW v \in Sweepers, SelectPending(v) \/ EndSweep(v) \/ EndTick(v)
      PROVE  cur[w] = o /\ pc'[w] = pc[w] /\ at'[w] = at[w]
  BY <1>0, <1>8 DEF SelectPending, EndSweep, EndTick, DeliveryPc
<1>9. ASSUME NEW v \in Sweepers, MarkDelivered(v)
      PROVE  cur[w] = o /\ pc'[w] = pc[w] /\ at'[w] = at[w]
  BY <1>0, <1>9 DEF MarkDelivered
<1>10. ASSUME NEW v \in Sweepers, NEW p \in Orders, ClaimForDelivery(v, p)
       PROVE  \/ cur[w] = o /\ pc'[w] = pc[w] /\ at'[w] = at[w]
              \/ cur[w] # o /\ Takes(w, o) /\ pc'[w] = "check"
  BY <1>0, <1>10 DEF ClaimForDelivery, IsNext, Takes, DeliveryPc
<1>11. ASSUME NEW v \in Sweepers, NEW p \in Orders, ResumeDelivery(v, p)
       PROVE  \/ cur[w] = o /\ pc'[w] = pc[w] /\ at'[w] = at[w]
              \/ cur[w] # o /\ Takes(w, o) /\ pc'[w] = "check"
  BY <1>0, <1>11 DEF ResumeDelivery, IsNext, Takes, DeliveryPc
<1>12. ASSUME NEW v \in Sweepers, GrantCopy(v)
       PROVE  \/ cur[w] = o /\ pc'[w] = pc[w] /\ at'[w] = at[w]
              \/ cur[w] = o /\ GrantCopy(w)
  <2>1. CASE v = w
    BY <1>0, <1>12, <2>1 DEF GrantCopy, CheckEntitlement, ProbeClones, CloneMember,
                             SealClone, GrantEntitlement
  <2>2. CASE v # w
    BY <1>0, <1>12, <2>2 DEF GrantCopy, CheckEntitlement, ProbeClones, CloneMember,
                             NextMember, SealClone, GrantEntitlement
  <2> QED
    BY <2>1, <2>2
<1>13. CASE \E r \in Refunders : Refund(r)
  BY <1>13 DEF Refund, ReadForRefund, MarkRefunding, RevokeEntitlement, DeleteClones,
               ReleaseUnit
<1>14. CASE \E v \in Sweepers : Sweep(v)
  BY <1>8, <1>9, <1>10, <1>11, <1>12, <1>14 DEF Sweep
<1>15. CASE Failure
  BY <1>3, <1>4, <1>5, <1>6, <1>7, <1>15 DEF Failure, Sweepers
<1>16. CASE Webhook
  BY <1>1, <1>2, <1>16 DEF Webhook
<1> QED
  BY <1>1, <1>13, <1>14, <1>15, <1>16 DEF Next

(* Only a clawback leaves a sweep with a clone that is gone.               *)
LEMMA GoneWriters ==
    ASSUME [Next]_vars, NEW w \in Sweepers, w \in gone'
    PROVE  w \in gone \/ \E r \in Refunders : DeleteClones(r) /\ cur[w] = rord[r]
<1> USE DEF sweepVars
<1>1. CASE Outside \/ Webhook \/ Expiry \/ UNCHANGED vars
  BY <1>1 DEF Outside, AwaitPayment, Charge, AskRefund, Webhook, RecordEvent, AdvanceToPaid,
              Expiry, ExpireStale, vars
<1>2. CASE Failure
  BY <1>2 DEF Failure, DeliveryThrows, ProbeFails, ClaimThrows, SelectThrows,
              AdvanceThrows, RefundThrows, ReleaseFails, Crash
<1>3. CASE \E v \in Sweepers : Sweep(v)
  BY <1>3 DEF Sweep, GrantCopy, SelectPending, EndSweep, EndTick, ClaimForDelivery,
              ResumeDelivery, MarkDelivered, CheckEntitlement, ProbeClones, CloneMember,
              SealClone, GrantEntitlement
<1>4. CASE \E r \in Refunders : Refund(r)
  BY <1>4 DEF Refund, ReadForRefund, MarkRefunding, RevokeEntitlement, DeleteClones,
              ReleaseUnit, EraseClones, HeldBy
<1> QED
  BY <1>1, <1>2, <1>3, <1>4 DEF Next

(* While order o is kept, its copy only grows, by the sweeps that hold it. *)
LEMMA CopyGrows ==
    ASSUME TypeOK, GuardInv, HoldInv, BegunInv, PaidInv, [Next]_vars,
           NEW o \in Orders \ missed, Alone(o), status'[o] \notin AlreadyRefunding
    PROVE  /\ \A m \in Members : clones'[o][m] >= clones[o][m] /\ seals'[o][m] >= seals[o][m]
           /\ \/ clones'[o] = clones[o]
              \/ \E w \in Sweepers : CloneMember(w) /\ cur[w] = o
           /\ \/ seals'[o] = seals[o]
              \/ \E w \in Sweepers : SealClone(w) /\ cur[w] = o
           /\ Access(o) => Access(o)'
           /\ Access(o)' => \/ Access(o)
                            \/ \E w \in Sweepers : GrantEntitlement(w) /\ cur[w] = o
           /\ \A w \in Sweepers : cur[w] = o /\ w \in gone' => w \in gone
<1>1. status[o] \notin AlreadyRefunding /\ ~Begun(o)
  BY StatusKept DEF BegunInv
<1>2. ASSUME NEW r \in Refunders, DeleteClones(r) \/ RevokeEntitlement(r)
      PROVE  rord[r] \in Orders /\ rord[r] # o
  BY <1>1, <1>2 DEF DeleteClones, RevokeEntitlement, Begun, TypeOK, RefundTypes
<1>3. clones \in [Orders -> [Members -> Nat]] /\ seals \in [Orders -> [Members -> Nat]]
  BY DEF TypeOK, DbTypes
<1>4. /\ \A m \in Members : clones'[o][m] >= clones[o][m] /\ seals'[o][m] >= seals[o][m]
      /\ clones'[o] = clones[o] \/ \E w \in Sweepers : CloneMember(w) /\ cur[w] = o
      /\ seals'[o] = seals[o] \/ \E w \in Sweepers : SealClone(w) /\ cur[w] = o
  <2>0. \A n \in Nat : n >= n /\ n + 1 >= n
    OBVIOUS
  <2>1. CASE clones'[o] = clones[o] /\ seals'[o] = seals[o]
    BY <1>3, <2>0, <2>1
  <2>2. ASSUME NEW w \in Sweepers, CloneMember(w), cur[w] = o PROVE <1>4!:
    <3>1. seals' = seals /\ clones' = [clones EXCEPT ![o][at[w]] = @ + 1]
      BY <2>2 DEF CloneMember
    <3>2. \A m \in Members : clones'[o][m] = clones[o][m] \/ clones'[o][m] = clones[o][m] + 1
      BY <1>3, <3>1
    <3> QED
      BY <1>3, <2>0, <2>2, <3>1, <3>2
  <2>3. ASSUME NEW w \in Sweepers, SealClone(w), cur[w] = o PROVE <1>4!:
    <3>1. clones' = clones /\ (seals' = seals \/ seals' = [seals EXCEPT ![o][at[w]] = @ + 1])
      BY <2>3 DEF SealClone
    <3>2. \A m \in Members : seals'[o][m] = seals[o][m] \/ seals'[o][m] = seals[o][m] + 1
      BY <1>3, <3>1
    <3> QED
      BY <1>3, <2>0, <2>3, <3>1, <3>2
  <2>4. ASSUME NEW w \in Sweepers, CloneMember(w) \/ SealClone(w), cur[w] # o
        PROVE  clones'[o] = clones[o] /\ seals'[o] = seals[o]
    BY <1>3, <2>4 DEF CloneMember, SealClone
  <2>5. ASSUME NEW r \in Refunders, DeleteClones(r)
        PROVE  clones'[o] = clones[o] /\ seals'[o] = seals[o]
    BY <1>2, <1>3, <2>5 DEF DeleteClones, EraseClones
  <2> QED
    BY <2>1, <2>2, <2>3, <2>4, <2>5, CloneWriters
<1>5. /\ Access(o) => Access(o)'
      /\ Access(o)' => Access(o) \/ \E w \in Sweepers : GrantEntitlement(w) /\ cur[w] = o
  <2>1. CASE UNCHANGED <<ent, entOrder>>
    BY <2>1 DEF Access
  <2>2. ASSUME NEW w \in Sweepers, GrantEntitlement(w) PROVE <1>5!:
    <3>1. cur[w] \in Orders /\ BuyerOf[cur[w]] \in Buyers
      BY <2>2, BuyersAssumption DEF GrantEntitlement, TypeOK, SweepTypes, DeliveryPc
    <3>2. CASE cur[w] = o
      BY <2>2, <3>1, <3>2 DEF GrantEntitlement, Access, TypeOK, DbTypes
    <3>3. CASE cur[w] # o
      <4>1. BuyerOf[cur[w]] # BuyerOf[o]
        BY <3>1, <3>3, OnlyOwn DEF HoldInv
      <4> QED
        BY <2>2, <4>1 DEF GrantEntitlement, Access, TypeOK, DbTypes
    <3> QED
      BY <3>2, <3>3
  <2>3. ASSUME NEW r \in Refunders, RevokeEntitlement(r) PROVE <1>5!:
    <3>1. BuyerOf[rord[r]] # BuyerOf[o]
      BY <1>2, <2>3, OnlyOwn DEF HoldInv
    <3> QED
      BY <2>3, <3>1 DEF RevokeEntitlement, Access, TypeOK, DbTypes
  <2> QED
    BY <2>1, <2>2, <2>3, AccessWriters
<1>6. \A w \in Sweepers : cur[w] = o /\ w \in gone' => w \in gone
  BY <1>2, GoneWriters
<1> QED
  BY <1>4, <1>5, <1>6

(* In the clone loop a sweep only lets go of its order by an interruption. *)
LEMMA LetsGo ==
    ASSUME TypeOK, [Next]_vars, NEW o \in Orders, NEW w \in Sweepers,
           cur[w] = o, cur'[w] # o, pc[w] \in {"clone", "seal"}
    PROVE  DeliveryThrows(w) \/ SealClone(w) \/ Crash
<1> USE DEF sweepVars, Goto
<1>0. cur \in [Sweepers -> Orders \cup {NoOrder}]
  BY DEF TypeOK, SweepTypes
<1>1. CASE Outside \/ Webhook \/ Expiry \/ UNCHANGED vars
  BY <1>1 DEF Outside, AwaitPayment, Charge, AskRefund, Webhook, RecordEvent, AdvanceToPaid,
              Expiry, ExpireStale, vars
<1>2. CASE Failure
  BY <1>0, <1>2 DEF Failure, DeliveryThrows, ProbeFails, ClaimThrows, SelectThrows,
                    AdvanceThrows, RefundThrows, ReleaseFails
<1>3. ASSUME NEW v \in Sweepers, Sweep(v) PROVE SealClone(w)
  BY <1>0, <1>3 DEF Sweep, GrantCopy, SelectPending, EndSweep, EndTick, ClaimForDelivery,
              ResumeDelivery, IsNext, MarkDelivered, CheckEntitlement, ProbeClones,
              CloneMember, SealClone, GrantEntitlement
<1>4. CASE \E r \in Refunders : Refund(r)
  BY <1>4 DEF Refund, ReadForRefund, MarkRefunding, RevokeEntitlement, DeleteClones,
              ReleaseUnit
<1> QED
  BY <1>1, <1>2, <1>3, <1>4 DEF Next

(* The loop of a sweep goes on, or ends with every member there.           *)
LEMMA LoopGoesOn ==
    ASSUME TypeOK, [Next]_vars, NEW o \in Orders, o \notin cut',
           \A m \in Members : clones'[o][m] >= clones[o][m] /\ seals'[o][m] >= seals[o][m],
           NEW w \in Sweepers, cur[w] = o, Hand(w, o),
           InLoop(w) \/ CloneMember(w)
    PROVE  AtLeastWhole(o)' \/ (cur'[w] = o /\ InLoop(w)')
<1> USE DEF Goto
<1>0. /\ clones \in [Orders -> [Members -> Nat]] /\ seals \in [Orders -> [Members -> Nat]]
      /\ cur \in [Sweepers -> Orders \cup {NoOrder}] /\ o # NoOrder
      /\ pc \in [Sweepers -> SweepPc] /\ at \in [Sweepers -> Members] /\ w \notin gone
      /\ pc[w] \in {"clone", "seal"} /\ at[w] \in Members
      /\ clones' \in [Orders -> [Members -> Nat]] /\ seals' \in [Orders -> [Members -> Nat]]
  BY TypeStep, OrdersAssumption DEF TypeOK, DbTypes, SweepTypes, Hand, InLoop, CloneMember
<1>1. CASE cur'[w] = o
  <2>1. CASE pc'[w] = pc[w] /\ at'[w] = at[w] /\ ~CloneMember(w)
    BY <1>1, <2>1 DEF InLoop
  <2>2. CASE CloneMember(w)
    <3>1. PICK m \in Members : m = at[w]
      BY <1>0
    <3>2. /\ m \in Nat /\ m >= 1 /\ m <= PackSize /\ Reached(o, m, m)
          /\ clones'[o][m] >= 1
      BY <1>0, <2>2, <3>1, SizesAssumption DEF CloneMember, Hand, Members
    <3>3. CASE Encrypted
      BY <1>0, <1>1, <2>2, <3>3 DEF CloneMember, InLoop
    <3>4. CASE ~Encrypted /\ m < PackSize
      BY <1>0, <1>1, <2>2, <3>1, <3>2, <3>4 DEF CloneMember, NextMember, InLoop
    <3>5. CASE ~Encrypted /\ ~(m < PackSize)
      <4>1. \A k \in Members : k < m \/ k = m
        BY <3>2, <3>5, SizesAssumption DEF Members
      <4>2. \A k \in Members : clones'[o][k] >= 1
        BY <1>0, <3>2, <4>1 DEF Reached
      <4> QED
        BY <3>5, <4>2 DEF AtLeastWhole
    <3> QED
      BY <3>3, <3>4, <3>5
  <2>3. CASE SealClone(w)
    <3>1. PICK m \in Members : m = at[w]
      BY <1>0
    <3>2. /\ m \in Nat /\ m >= 1 /\ m <= PackSize /\ Encrypted /\ Reached(o, m + 1, m)
          /\ seals'[o][m] >= 1 /\ NextMember(w, m)
      BY <1>0, <2>3, <3>1, SizesAssumption DEF SealClone, Hand, Members
    <3>4. CASE m < PackSize
      BY <1>0, <1>1, <3>1, <3>2, <3>4 DEF NextMember, InLoop
    <3>5. CASE ~(m < PackSize)
      <4>1. \A k \in Members : k < m + 1 /\ (k < m \/ k = m)
        BY <3>2, <3>5, SizesAssumption DEF Members
      <4>2. \A k \in Members : clones'[o][k] >= 1 /\ seals'[o][k] >= 1
        BY <1>0, <3>2, <4>1 DEF Reached
      <4> QED
        BY <4>2 DEF AtLeastWhole
    <3> QED
      BY <3>4, <3>5
  <2>4. ~(CheckEntitlement(w) \/ ProbeClones(w) \/ ProbeFails(w) \/ GrantEntitlement(w))
    BY <1>0 DEF CheckEntitlement, ProbeClones, ProbeFails, GrantEntitlement
  <2> QED
    BY <1>1, <2>1, <2>2, <2>3, <2>4, PlaceMoves DEF GrantCopy
<1>2. CASE cur'[w] # o
  <2>1. ~CloneMember(w) /\ InLoop(w)
    BY <1>2 DEF CloneMember
  <2>2. cur' # cur
    BY <1>2
  <2>3. DeliveryThrows(w) \/ SealClone(w) \/ Crash
    BY <1>0, <1>2, <2>2, LetsGo
  <2> QED
    BY <1>0, <1>2, <2>1, <2>3 DEF DeliveryThrows, SealClone, Crash
<1> QED
  BY <1>1, <1>2

(* Growth keeps what has been reached.                                     *)
LEMMA ReachedKept ==
    ASSUME TypeOK, TypeOK', NEW o \in Orders,
           \A m \in Members : clones'[o][m] >= clones[o][m] /\ seals'[o][m] >= seals[o][m]
    PROVE  /\ Some(o) => Some(o)'
           /\ AtLeastWhole(o) => AtLeastWhole(o)'
           /\ \A c, s : Reached(o, c, s) => Reached(o, c, s)'
<1>1. /\ clones \in [Orders -> [Members -> Nat]] /\ seals \in [Orders -> [Members -> Nat]]
      /\ clones' \in [Orders -> [Members -> Nat]] /\ seals' \in [Orders -> [Members -> Nat]]
  BY DEF TypeOK, DbTypes
<1>2. /\ \A m \in Members : clones[o][m] > 0 => clones'[o][m] > 0
      /\ \A m \in Members : clones[o][m] >= 1 => clones'[o][m] >= 1
      /\ \A m \in Members : seals[o][m] >= 1 => seals'[o][m] >= 1
  BY <1>1
<1> QED
  BY <1>2 DEF Some, AtLeastWhole, Reached

(* One call of grantCopy for order o, or the probe that fails.             *)
LEMMA HandStep ==
    ASSUME TypeOK, TypeOK', PaidInv, NEW o \in Orders, Alone(o), CopyOf(o),
           \A m \in Members : clones'[o][m] >= clones[o][m] /\ seals'[o][m] >= seals[o][m],
           NEW w \in Sweepers, GrantCopy(w) \/ ProbeFails(w), cur[w] = o, cur'[w] = o
    PROVE  Hand(w, o)'
<1> USE DEF Goto
<1>0. /\ clones \in [Orders -> [Members -> Nat]] /\ seals \in [Orders -> [Members -> Nat]]
      /\ cur \in [Sweepers -> Orders \cup {NoOrder}] /\ o # NoOrder
      /\ pc \in [Sweepers -> SweepPc] /\ at \in [Sweepers -> Members]
      /\ at[w] \in Members /\ Hand(w, o) /\ w \notin gone
      /\ clones' \in [Orders -> [Members -> Nat]] /\ seals' \in [Orders -> [Members -> Nat]]
  BY OrdersAssumption DEF TypeOK, DbTypes, SweepTypes, CopyOf, HeldBy, Hand
<1>1. CASE CheckEntitlement(w)
  <2>1. CASE ent[BuyerOf[o]] = "active"
    <3>1. Access(o) /\ Some(o)
      BY <2>1, OwnAccess DEF CopyOf
    <3>2. Some(o)' /\ Access(o)' /\ pc'[w] = "mark" /\ gone' = gone
      BY <1>0, <1>1, <2>1, <3>1 DEF CheckEntitlement, dbVars, Some, Access
    <3> QED
      BY <1>0, <3>2 DEF Hand
  <2>2. CASE ent[BuyerOf[o]] # "active"
    BY <1>0, <1>1, <2>2 DEF CheckEntitlement, Hand
  <2> QED
    BY <2>1, <2>2
<1>2. CASE ProbeClones(w) \/ ProbeFails(w)
  <2>1. Reached(o, 1, 1)'
    BY DEF Reached, Members
  <2>2. /\ gone' = gone /\ at'[w] = 1
        /\ pc'[w] = "clone" \/ (pc'[w] = "grant" /\ HasClones(BuyerOf[o]))
        /\ clones' = clones
    BY <1>0, <1>2 DEF ProbeClones, ProbeFails, dbVars
  <2>3. HasClones(BuyerOf[o]) => Some(o)'
    BY <2>2, OwnClones DEF Some
  <2> QED
    BY <1>0, <2>1, <2>2, <2>3 DEF Hand
<1>3. CASE CloneMember(w)
  <2>1. PICK m \in Members : m = at[w]
    BY <1>0
  <2>2. /\ m \in Nat /\ Reached(o, m, m) /\ gone' = gone
        /\ clones'[o][m] >= 1 /\ clones'[o][m] > 0
    BY <1>0, <1>3, <2>1 DEF CloneMember, Hand, Members
  <2>7. Reached(o, m, m)' /\ \A k \in Members : k < m + 1 => k < m \/ k = m
    BY <2>2, ReachedKept DEF Members
  <2>3. Reached(o, m + 1, m)' /\ (~Encrypted => Reached(o, m + 1, m + 1)') /\ Some(o)'
    BY <2>1, <2>2, <2>7 DEF Reached, Some
  <2>4. CASE Encrypted
    BY <1>0, <1>3, <2>1, <2>2, <2>3, <2>4 DEF CloneMember, Hand
  <2>5. CASE ~Encrypted /\ m < PackSize
    BY <1>0, <1>3, <2>1, <2>2, <2>3, <2>5 DEF CloneMember, NextMember, Hand
  <2>6. CASE ~Encrypted /\ ~(m < PackSize)
    BY <1>0, <1>3, <2>1, <2>2, <2>3, <2>6 DEF CloneMember, NextMember, Hand
  <2> QED
    BY <2>4, <2>5, <2>6
<1>4. CASE SealClone(w)
  <2>1. PICK m \in Members : m = at[w]
    BY <1>0
  <2>2. /\ m \in Nat /\ Reached(o, m + 1, m) /\ gone' = gone
        /\ NextMember(w, m) /\ seals' = [seals EXCEPT ![o][m] = @ + 1]
    BY <1>0, <1>4, <2>1 DEF SealClone, Hand, Members
  <2>7. seals'[o][m] >= 1
    BY <1>0, <2>2
  <2>8. Reached(o, m + 1, m)' /\ \A k \in Members : k < m + 1 => k < m \/ k = m
    BY <2>2, ReachedKept DEF Members
  <2>3. clones[o][m] >= 1 /\ clones[o][m] > 0
    BY <1>0, <2>2 DEF Reached
  <2>4. Reached(o, m + 1, m + 1)' /\ Some(o)'
    BY <2>1, <2>3, <2>7, <2>8, ReachedKept DEF Reached, Some
  <2>5. CASE m < PackSize
    BY <1>0, <2>1, <2>2, <2>4, <2>5 DEF NextMember, Hand
  <2>6. CASE ~(m < PackSize)
    BY <1>0, <2>1, <2>2, <2>4, <2>6 DEF NextMember, Hand
  <2> QED
    BY <2>5, <2>6
<1>5. CASE GrantEntitlement(w)
  <2>1. Some(o)' /\ pc'[w] = "mark" /\ gone' = gone
    BY <1>0, <1>5 DEF GrantEntitlement, Hand, Some
  <2>2. Access(o)'
    BY <1>5, BuyersAssumption DEF GrantEntitlement, Access, TypeOK, DbTypes
  <2> QED
    BY <1>0, <2>1, <2>2 DEF Hand
<1> QED
  BY <1>1, <1>2, <1>3, <1>4, <1>5 DEF GrantCopy

(* A step keeps the copy of every order the contract is about.             *)
LEMMA CopyStepOf ==
    ASSUME TypeOK, TypeOK', GuardInv, HoldInv, BegunInv, PaidInv, [Next]_vars,
           NEW o \in Orders, o \notin cut' \cup missed', Kept(o)', CopyOf(o)
    PROVE  CopyOf(o)'
<1>1. /\ o \in Orders \ missed /\ Alone(o) /\ status'[o] \notin AlreadyRefunding
      /\ Kept(o)
  BY PastGrows, AloneKept, StatusKept DEF Kept
<1>2. /\ \A m \in Members : clones'[o][m] >= clones[o][m] /\ seals'[o][m] >= seals[o][m]
      /\ clones'[o] = clones[o] \/ \E w \in Sweepers : CloneMember(w) /\ cur[w] = o
      /\ Access(o) => Access(o)'
      /\ Access(o)' => Access(o) \/ \E w \in Sweepers : GrantEntitlement(w) /\ cur[w] = o
      /\ \A w \in Sweepers : cur[w] = o /\ w \in gone' => w \in gone
  BY <1>1, CopyGrows
<1>3. \A w \in Sweepers : cur[w] = o => Hand(w, o)
  BY DEF CopyOf, HeldBy
<1>4. /\ Some(o) => Some(o)'
      /\ AtLeastWhole(o) => AtLeastWhole(o)'
      /\ \A c, s : Reached(o, c, s) => Reached(o, c, s)'
  BY <1>2, ReachedKept
<1>5. Early(status'[o]) => ~Some(o)' /\ ~Access(o)'
  <2>1. SUFFICES ASSUME Early(status'[o]) PROVE ~Some(o)' /\ ~Access(o)'
    OBVIOUS
  <2>2. Early(status[o]) /\ ~Some(o) /\ ~Access(o)
    BY <2>1, StatusKept DEF CopyOf
  <2>3. \A w \in Sweepers : cur[w] # o
    BY <2>2 DEF HoldInv, StartedInv
  <2> QED
    BY <1>2, <2>2, <2>3 DEF Some
<1>6. Some(o)' => AtLeastWhole(o)' \/ \E w \in HeldBy(o)' : InLoop(w)'
  <2>1. ASSUME NEW w \in Sweepers, cur[w] = o, InLoop(w) \/ CloneMember(w)
        PROVE  AtLeastWhole(o)' \/ \E v \in HeldBy(o)' : InLoop(v)'
    BY <1>2, <1>3, <2>1, LoopGoesOn DEF HeldBy
  <2>2. CASE Some(o)
    BY <1>4, <2>1, <2>2 DEF CopyOf, HeldBy
  <2>3. ASSUME ~Some(o), Some(o)'
        PROVE  \E w \in Sweepers : CloneMember(w) /\ cur[w] = o
    BY <1>2, <2>3 DEF Some
  <2> QED
    BY <2>1, <2>2, <2>3
<1>7. ASSUME NEW w \in Sweepers, cur'[w] = o PROVE Hand(w, o)'
  <2>1. CASE cur[w] = o /\ pc'[w] = pc[w] /\ at'[w] = at[w]
    BY <1>2, <1>3, <1>4, <2>1 DEF Hand
  <2>2. CASE cur[w] # o /\ Takes(w, o) /\ pc'[w] = "check"
    <3>1. gone' = gone /\ pc[w] = "next"
      BY <2>2 DEF Takes, ClaimForDelivery, ResumeDelivery, IsNext
    <3>2. w \notin gone
      BY <3>1 DEF TypeOK, SweepTypes
    <3> QED
      BY <2>2, <3>1, <3>2 DEF Hand
  <2>3. CASE cur[w] = o /\ (GrantCopy(w) \/ ProbeFails(w))
    BY <1>1, <1>2, <1>7, <2>3, HandStep
  <2> QED
    BY <1>7, <2>1, <2>2, <2>3, PlaceMoves
<1>8. Access(o)' => Some(o)'
  <2>1. ASSUME NEW w \in Sweepers, GrantEntitlement(w), cur[w] = o PROVE Some(o)
    BY <1>3, <2>1 DEF GrantEntitlement, Hand
  <2> QED
    BY <1>2, <1>4, <2>1 DEF CopyOf
<1>9. status'[o] \in {"delivered", "settled"} => Access(o)'
  <2>1. ASSUME NEW w \in Sweepers, MarkDelivered(w), cur[w] = o PROVE Access(o)
    BY <1>3, <2>1 DEF MarkDelivered, Hand
  <2>2. status[o] \in {"delivered", "settled"} => Access(o)
    BY DEF CopyOf
  <2>3. status'[o] = "settled" => status[o] = "settled"
    BY StatusKept
  <2> QED
    BY <1>2, <2>1, <2>2, <2>3, BecomesRefunding
<1> QED
  BY <1>5, <1>6, <1>7, <1>8, <1>9 DEF CopyOf, HeldBy

(***************************************************************************)
(* Deliveries, second part: where the re-entry guard protects an order,    *)
(* its copy is made exactly once.                                          *)
(***************************************************************************)
(* The first c - 1 members of order o are cloned and the first s - 1 of    *)
(* them sealed, once each, and nothing else.                               *)
CopiedTo(o, c, s) ==
    \A m \in Members : /\ clones[o][m] = (IF m < c THEN 1 ELSE 0)
                       /\ seals[o][m] = (IF Encrypted /\ m < s THEN 1 ELSE 0)
Blank(o) == CopiedTo(o, 1, 1)
Whole(o) == CopiedTo(o, PackSize + 1, PackSize + 1)

InHand(w, o) ==
    /\ pc[w] \in {"check", "probe"} => Blank(o) \/ Whole(o)
    /\ pc[w] = "clone" => CopiedTo(o, at[w], at[w])
    /\ pc[w] = "seal"  => Encrypted /\ CopiedTo(o, at[w] + 1, at[w])
    /\ pc[w] \in {"grant", "mark"} => Whole(o)

ExactOf(o) ==
    /\ HeldBy(o) = {} => Blank(o) \/ Whole(o)
    /\ \A w \in HeldBy(o) : InHand(w, o)
    /\ Access(o) => Whole(o)

ExactInv == \A o \in Orders \ (cut \cup missed \cup unguarded) : Kept(o) => ExactOf(o)

(* A copy that is whole has clones, one that is blank has none, and one    *)
(* with a member to go is not whole.                                       *)
LEMMA WholeOrNot ==
    ASSUME NEW o \in Orders
    PROVE  /\ Whole(o) => Some(o)
           /\ Blank(o) => ~Some(o)
           /\ \A m \in Members : \A k :
                 CopiedTo(o, m, k) \/ (Encrypted /\ CopiedTo(o, k, m)) => ~Whole(o)
<1>1. 1 \in Members /\ \A m \in Members : 1 <= m /\ m < PackSize + 1 /\ m \in Nat
  BY SizesAssumption DEF Members
<1> QED
  BY <1>1 DEF Whole, Blank, CopiedTo, Some

(* A sweep that drops its order outside the clone loop leaves its copy     *)
(* blank or whole.                                                         *)
LEMMA DroppedCopy ==
    ASSUME TypeOK, NEW o \in Orders, NEW w \in Sweepers, cur[w] = o, InHand(w, o), ~InLoop(w)
    PROVE  Blank(o) \/ Whole(o)
<1>1. pc[w] \in {"check", "probe", "grant", "mark"} \/ (pc[w] = "clone" /\ at[w] = 1)
  BY DEF InLoop, TypeOK, SweepTypes, DeliveryPc, Members
<1> QED
  BY <1>1 DEF InHand, Blank

(* One call of grantCopy for an order its sweep goes on holding.           *)
LEMMA InHandStep ==
    ASSUME TypeOK, PaidInv, NEW o \in Orders, Alone(o), ExactOf(o), o \notin unguarded',
           NEW w \in Sweepers, GrantCopy(w) \/ ProbeFails(w), cur[w] = o, cur'[w] = o
    PROVE  InHand(w, o)'
<1> USE DEF Goto, dbVars
<1>0. /\ clones \in [Orders -> [Members -> Nat]] /\ seals \in [Orders -> [Members -> Nat]]
      /\ cur \in [Sweepers -> Orders \cup {NoOrder}] /\ o # NoOrder
      /\ pc \in [Sweepers -> SweepPc] /\ at \in [Sweepers -> Members]
      /\ at[w] \in Members /\ InHand(w, o) /\ w \in HeldBy(o)
      /\ \A k \in Members : k \in Nat
  BY OrdersAssumption DEF TypeOK, DbTypes, SweepTypes, ExactOf, HeldBy, Members
<1>1. CASE CheckEntitlement(w) \/ ProbeClones(w) \/ ProbeFails(w)
  <2>1. clones' = clones /\ seals' = seals /\ pc[w] \in {"check", "probe"}
    BY <1>1 DEF CheckEntitlement, ProbeClones, ProbeFails
  <2>2. (Blank(o) \/ Whole(o)) /\ (Blank(o)' <=> Blank(o)) /\ (Whole(o)' <=> Whole(o))
    BY <1>0, <2>1 DEF InHand, Blank, Whole, CopiedTo
  <2>3. CASE CheckEntitlement(w)
    <3>1. ent[BuyerOf[o]] = "active" => Whole(o)
      BY OwnAccess DEF ExactOf
    <3>2. pc'[w] = "probe" \/ (pc'[w] = "mark" /\ Whole(o))
      BY <1>0, <2>3, <3>1 DEF CheckEntitlement
    <3> QED
      BY <2>2, <3>2 DEF InHand
  <2>4. CASE ProbeClones(w)
    <3>1. (pc'[w] = "grant" /\ Whole(o)) \/ (pc'[w] = "clone" /\ Blank(o) /\ at'[w] = 1)
      BY <1>0, <2>2, <2>4, OwnClones, WholeOrNot DEF ProbeClones
    <3> QED
      BY <2>2, <3>1 DEF InHand, Blank
  <2>5. CASE ProbeFails(w)
    <3>1. pc'[w] = "clone" /\ Blank(o) /\ at'[w] = 1
      BY <1>0, <2>2, <2>5, OwnClones, WholeOrNot DEF ProbeFails
    <3> QED
      BY <2>2, <3>1 DEF InHand, Blank
  <2> QED
    BY <1>1, <2>3, <2>4, <2>5
<1>2. CASE CloneMember(w)
  <2>1. PICK m \in Members : m = at[w]
    BY <1>0
  <2>2. CopiedTo(o, m, m) /\ seals' = seals /\ clones' = [clones EXCEPT ![o][m] = @ + 1]
    BY <1>0, <1>2, <2>1 DEF CloneMember, InHand
  <2>3. \A k \in Members : clones'[o][k] = IF k = m THEN clones[o][k] + 1 ELSE clones[o][k]
    BY <1>0, <2>1, <2>2
  <2>9. \A k \in Members : (k < m + 1 <=> k < m \/ k = m) /\ ~(m < m)
    BY <2>1 DEF Members
  <2>4. /\ \A k \in Members : clones'[o][k] = (IF k < m + 1 THEN 1 ELSE 0)
        /\ \A k \in Members : seals'[o][k] = (IF Encrypted /\ k < m THEN 1 ELSE 0)
    <3>1. ASSUME NEW k \in Members PROVE clones'[o][k] = (IF k < m + 1 THEN 1 ELSE 0)
      <4>1. clones[o][k] = (IF k < m THEN 1 ELSE 0)
        BY <2>2 DEF CopiedTo
      <4> QED
        BY <2>1, <2>3, <2>9, <4>1
    <3> QED
      BY <2>2, <3>1 DEF CopiedTo
  <2>5. CopiedTo(o, m + 1, m)' /\ (~Encrypted => CopiedTo(o, m + 1, m + 1)')
    BY <2>1, <2>4 DEF CopiedTo
  <2>6. CASE Encrypted
    BY <1>0, <1>2, <2>1, <2>5, <2>6 DEF CloneMember, InHand
  <2>7. CASE ~Encrypted /\ m < PackSize
    BY <1>0, <1>2, <2>1, <2>5, <2>7 DEF CloneMember, NextMember, InHand
  <2>8. CASE ~Encrypted /\ ~(m < PackSize)
    <3>1. m = PackSize
      BY <2>1, <2>8, SizesAssumption DEF Members
    <3>2. Whole(o)'
      BY <2>5, <2>8, <3>1 DEF Whole
    <3> QED
      BY <1>0, <1>2, <2>1, <2>8, <3>2 DEF CloneMember, NextMember, InHand
  <2> QED
    BY <2>6, <2>7, <2>8
<1>3. CASE SealClone(w)
  <2>1. PICK m \in Members : m = at[w]
    BY <1>0
  <2>2. /\ Encrypted /\ CopiedTo(o, m + 1, m) /\ clones' = clones
        /\ seals' = [seals EXCEPT ![o][m] = @ + 1] /\ NextMember(w, m)
    BY <1>0, <1>3, <2>1 DEF SealClone, InHand
  <2>3. \A k \in Members : seals'[o][k] = IF k = m THEN seals[o][k] + 1 ELSE seals[o][k]
    BY <1>0, <2>1, <2>2
  <2>9. \A k \in Members : (k < m + 1 <=> k < m \/ k = m) /\ ~(m < m)
    BY <2>1 DEF Members
  <2>10. ASSUME NEW k \in Members PROVE seals'[o][k] = (IF Encrypted /\ k < m + 1 THEN 1 ELSE 0)
    <3>1. seals[o][k] = (IF Encrypted /\ k < m THEN 1 ELSE 0)
      BY <2>2 DEF CopiedTo
    <3> QED
      BY <2>1, <2>2, <2>3, <2>9, <3>1
  <2>4. CopiedTo(o, m + 1, m + 1)'
    BY <2>2, <2>10 DEF CopiedTo
  <2>5. CASE m < PackSize
    BY <1>0, <2>1, <2>2, <2>4, <2>5 DEF NextMember, InHand
  <2>6. CASE ~(m < PackSize)
    <3>1. m = PackSize
      BY <2>1, <2>6, SizesAssumption DEF Members
    <3>2. Whole(o)'
      BY <2>4, <3>1 DEF Whole
    <3> QED
      BY <1>0, <2>1, <2>2, <2>6, <3>2 DEF NextMember, InHand
  <2> QED
    BY <2>5, <2>6
<1>4. CASE GrantEntitlement(w)
  BY <1>0, <1>4 DEF GrantEntitlement, InHand, Whole, CopiedTo
<1> QED
  BY <1>1, <1>2, <1>3, <1>4 DEF GrantCopy

LEMMA ExactStepOf ==
    ASSUME TypeOK, TypeOK', GuardInv, HoldInv, BegunInv, PaidInv, [Next]_vars,
           NEW o \in Orders, o \notin cut' \cup missed' \cup unguarded', Kept(o)',
           CopyOf(o), ExactOf(o)
    PROVE  ExactOf(o)'
<1>1. /\ o \in Orders \ missed /\ o \notin unguarded /\ Alone(o)
      /\ status'[o] \notin AlreadyRefunding
  BY PastGrows, AloneKept DEF Kept
<1>2. /\ clones'[o] = clones[o] \/ \E w \in Sweepers : CloneMember(w) /\ cur[w] = o
      /\ seals'[o] = seals[o] \/ \E w \in Sweepers : SealClone(w) /\ cur[w] = o
      /\ Access(o)' => Access(o) \/ \E w \in Sweepers : GrantEntitlement(w) /\ cur[w] = o
  BY <1>1, CopyGrows
<1>3. /\ pc \in [Sweepers -> SweepPc] /\ at \in [Sweepers -> Members]
      /\ cur \in [Sweepers -> Orders \cup {NoOrder}]
  BY DEF TypeOK, SweepTypes
<1>4. \A w \in Sweepers : cur[w] = o =>
         InHand(w, o) /\ w \notin gone /\ \A v \in Sweepers : cur[v] = o => v = w
  BY <1>1 DEF ExactOf, CopyOf, Hand, HeldBy, HoldInv, SoleInv
<1>5. ASSUME clones'[o] = clones[o], seals'[o] = seals[o]
      PROVE  (Blank(o)' <=> Blank(o)) /\ (Whole(o)' <=> Whole(o))
             /\ \A c, s : CopiedTo(o, c, s)' <=> CopiedTo(o, c, s)
  BY <1>5 DEF Blank, Whole, CopiedTo
<1>6. ASSUME NEW w \in Sweepers, CloneMember(w) \/ SealClone(w), cur[w] = o
      PROVE  /\ ~Whole(o)
             /\ cur'[w] = o
             /\ ~(pc'[w] = pc[w] /\ at'[w] = at[w])
  <2>1. PICK m \in Members : m = at[w] /\ m + 1 # m
    BY <1>3 DEF Members
  <2>2. ~Whole(o)
    BY <1>4, <1>6, <2>1, WholeOrNot DEF CloneMember, SealClone, InHand
  <2>3. cur' = cur /\ ~(pc'[w] = pc[w] /\ at'[w] = at[w])
    BY <1>3, <1>4, <1>6, <2>1 DEF CloneMember, SealClone, NextMember, Goto
  <2> QED
    BY <1>6, <2>2, <2>3
<1>7. ASSUME NEW w \in Sweepers, cur[w] = o,
             cur'[w] # o \/ (pc'[w] = pc[w] /\ at'[w] = at[w])
      PROVE  clones'[o] = clones[o] /\ seals'[o] = seals[o]
  BY <1>2, <1>4, <1>6, <1>7
<1>8. Access(o)' => Whole(o)'
  <2>1. CASE Access(o)
    BY <1>2, <1>5, <1>6, <2>1 DEF ExactOf
  <2>2. ASSUME NEW w \in Sweepers, GrantEntitlement(w), cur[w] = o PROVE Whole(o)'
    <3>1. Whole(o) /\ clones' = clones /\ seals' = seals
      BY <1>4, <2>2 DEF GrantEntitlement, InHand
    <3> QED
      BY <1>5, <3>1
  <2> QED
    BY <1>2, <2>1, <2>2
<1>9. ASSUME HeldBy(o)' = {} PROVE Blank(o)' \/ Whole(o)'
  <2>1. CASE HeldBy(o) = {}
    BY <1>2, <1>5, <2>1 DEF ExactOf, HeldBy
  <2>2. ASSUME NEW w \in Sweepers, cur[w] = o PROVE Blank(o)' \/ Whole(o)'
    <3>1. cur'[w] # o /\ clones'[o] = clones[o] /\ seals'[o] = seals[o]
      BY <1>7, <1>9, <2>2 DEF HeldBy
    <3>2. ~InLoop(w)
      <4>1. SUFFICES ASSUME InLoop(w) PROVE FALSE
        OBVIOUS
      <4>2. DeliveryThrows(w) \/ SealClone(w) \/ Crash
        BY <2>2, <3>1, <4>1, LetsGo DEF InLoop
      <4>3. ~SealClone(w)
        BY <1>6, <2>2, <3>1
      <4> QED
        BY <2>2, <4>1, <4>2, <4>3 DEF DeliveryThrows, Crash
    <3> QED
      BY <1>4, <1>5, <2>2, <3>1, <3>2, DroppedCopy
  <2> QED
    BY <2>1, <2>2 DEF HeldBy
<1>10. ASSUME NEW w \in Sweepers, cur'[w] = o PROVE InHand(w, o)'
  <2>1. CASE cur[w] = o /\ pc'[w] = pc[w] /\ at'[w] = at[w]
    BY <1>4, <1>5, <1>7, <2>1 DEF InHand
  <2>2. CASE cur[w] # o /\ Takes(w, o) /\ pc'[w] = "check"
    <3>1. HeldBy(o) = {}
      <4>1. SUFFICES ASSUME NEW v \in Sweepers, cur[v] = o PROVE FALSE
        BY DEF HeldBy
      <4>2. ~Early(status[o]) /\ v \in HeldBy(o)
        BY <4>1 DEF HoldInv, StartedInv, HeldBy
      <4> QED
        BY <2>2, <4>2 DEF Takes, ResumeDelivery, Early
    <3>2. clones'[o] = clones[o] /\ seals'[o] = seals[o]
      BY <1>2, <3>1 DEF HeldBy
    <3> QED
      BY <1>5, <2>2, <3>1, <3>2 DEF ExactOf, InHand
  <2>3. CASE cur[w] = o /\ (GrantCopy(w) \/ ProbeFails(w))
    BY <1>1, <1>10, <2>3, InHandStep
  <2> QED
    BY <1>10, <2>1, <2>2, <2>3, PlaceMoves
<1> QED
  BY <1>8, <1>9, <1>10 DEF ExactOf, HeldBy

DeliveryInv == PaidInv /\ CopyInv /\ ExactInv

LEMMA DeliveryInit == Init => DeliveryInv
<1>1. SUFFICES ASSUME Init PROVE DeliveryInv
  OBVIOUS
<1>2. ASSUME NEW o \in Orders
      PROVE  /\ HeldBy(o) = {} /\ ~Some(o) /\ Blank(o) /\ ~Access(o)
             /\ status[o] = "created"
  <2>1. \A m \in Members : ~(m < 1)
    BY DEF Members
  <2> QED
    BY <1>1, <2>1, BuyersAssumption, OrdersAssumption
    DEF Init, HeldBy, Some, Blank, CopiedTo, Access
<1> QED
  BY <1>1, <1>2, PaidInit DEF DeliveryInv, CopyInv, ExactInv, CopyOf, ExactOf

LEMMA DeliveryStep ==
    ASSUME TypeOK, TypeOK', GuardInv, HoldInv, BegunInv, DeliveryInv, [Next]_vars
    PROVE  DeliveryInv'
<1>1. PaidInv'
  BY PaidStep DEF HoldInv, DeliveryInv
<1>2. ASSUME NEW o \in Orders, o \notin cut' \cup missed', Kept(o)'
      PROVE  CopyOf(o) /\ CopyOf(o)' /\ Kept(o)
  <2>1. o \notin cut \cup missed /\ Kept(o)
    BY <1>2, PastGrows, AloneKept, StatusKept DEF Kept
  <2>2. CopyOf(o)
    BY <2>1 DEF DeliveryInv, CopyInv
  <2> QED
    BY <1>2, <2>1, <2>2, CopyStepOf DEF DeliveryInv
<1>3. ASSUME NEW o \in Orders, o \notin cut' \cup missed' \cup unguarded', Kept(o)'
      PROVE  ExactOf(o)'
  <2>1. o \notin cut \cup missed \cup unguarded /\ Kept(o) /\ CopyOf(o)
    BY <1>2, <1>3, PastGrows
  <2>2. ExactOf(o)
    BY <2>1 DEF DeliveryInv, ExactInv
  <2> QED
    BY <1>3, <2>1, <2>2, ExactStepOf DEF DeliveryInv
<1> QED
  BY <1>1, <1>2, <1>3 DEF DeliveryInv, CopyInv, ExactInv

(* An order marked delivered gave its buyer an active entitlement for this *)
(* very order and every member, sealed where the pack is encrypted, or a   *)
(* sweep is still writing them; exactly once where the re-entry guard      *)
(* protects it; for every number of orders, buyers, members, sweeps and    *)
(* faults and without any assumption on their schedule.  Excepted are the  *)
(* orders the property names: an interrupted clone loop (cut), a refund    *)
(* that lost its guarded update (missed), a buyer who paid twice.          *)
THEOREM CopyIsWhole == Spec => []WholeCopyDelivered
<1> DEFINE Inv == TypeOK /\ GuardInv /\ RefundInv /\ DeliveryInv
<1>1. Init => Inv
  BY TypeInit, GuardInit, RefundInit, DeliveryInit
<1>2. Inv /\ [Next]_vars => Inv'
  <2>1. SUFFICES ASSUME Inv, [Next]_vars PROVE Inv'
    OBVIOUS
  <2>2. TypeOK' /\ GuardInv' /\ RefundInv'
    BY <2>1, TypeStep, GuardStep, HoldStep, BegunStep, TakenBackStep, UnitStep DEF RefundInv
  <2> QED
    BY <2>1, <2>2, DeliveryStep DEF RefundInv
<1>3. Inv => WholeCopyDelivered
  <2>1. SUFFICES ASSUME Inv, NEW o \in Orders \ (cut \cup missed),
                        status[o] = "delivered", Alone(o)
                 PROVE  /\ Access(o)
                        /\ AtLeastWhole(o) \/ \E w \in HeldBy(o) : InLoop(w)
                        /\ o \notin unguarded => ExactlyWhole(o)
    BY DEF WholeCopyDelivered, Access
  <2>2. Kept(o) /\ CopyOf(o) /\ Access(o)
    BY <2>1 DEF Kept, AlreadyRefunding, DeliveryInv, CopyInv, CopyOf
  <2>3. ASSUME o \notin unguarded PROVE ExactlyWhole(o)
    <3>1. Whole(o)
      BY <2>1, <2>2, <2>3 DEF DeliveryInv, ExactInv, ExactOf
    <3>2. \A m \in Members : m < PackSize + 1
      BY SizesAssumption DEF Members
    <3> QED
      BY <3>1, <3>2 DEF Whole, CopiedTo, ExactlyWhole
  <2> QED
    BY <2>2, <2>3 DEF CopyOf
<1> HIDE DEF Inv
<1> QED
  BY <1>1, <1>2, <1>3, PTL DEF Spec
===============================================================================
