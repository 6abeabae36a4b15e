-------------------------- MODULE CopyDeliveryProofs --------------------------
(***************************************************************************)
(* What TLAPS proves of CopyDelivery, for every value of its constants:    *)
(* its types, that nothing is handed over before a recorded payment, that  *)
(* every status write follows the life cycle of OrderDag, and that every   *)
(* step of the protocol is a step of the abstract sale or leaves it alone. *)
(***************************************************************************)
EXTENDS CopyDelivery, TLAPS

(* Every edge into 'refunding' starts from a paid status.                  *)
LEMMA RefundableIsPaid ==
    ASSUME NEW s, CanTransition(s, "refunding")
    PROVE  s \in PaidStates /\ s \notin AlreadyRefunding /\ s # "delivering"
BY DEF CanTransition, Transitions, PaidStates, AlreadyRefunding

(***************************************************************************)
(* Types.                                                                  *)
(***************************************************************************)
LEMMA TypeInit == Init => TypeOK
<1>1. SUFFICES ASSUME Init PROVE TypeOK
  OBVIOUS
<1>2. 1 \in Members /\ 0 \in 0..MaxRefunds /\ 0 \in 0..MaxFaults
  BY SizesAssumption DEF Members
<1> QED
  BY <1>1, <1>2, OrdersAssumption
  DEF Init, TypeOK, DbTypes, OutsideTypes, SweepTypes, RefundTypes, Status,
      SweepPc, DeliveryPc, RefundPc

(* The steps of the outside world and of the webhook keep the types.       *)
LEMMA TypeOutside ==
    ASSUME TypeOK, NEW o \in Orders,
           AwaitPayment(o) \/ Charge(o) \/ AskRefund(o) \/ RecordEvent(o)
    PROVE  TypeOK'
<1> USE DEF TypeOK, DbTypes, OutsideTypes, SweepTypes, RefundTypes, dbVars, sweepVars, refundVars, stripeVars, pastVars
<1>1. CASE AwaitPayment(o)
  BY <1>1 DEF AwaitPayment, SetStatus, Status
<1>2. CASE Charge(o)
  BY <1>2 DEF Charge
<1>3. CASE AskRefund(o)
  BY <1>3, SizesAssumption DEF AskRefund
<1>4. CASE RecordEvent(o)
  BY <1>4 DEF RecordEvent
<1> QED
  BY <1>1, <1>2, <1>3, <1>4

LEMMA TypeAdvance ==
    ASSUME TypeOK, NEW o \in Orders, AdvanceToPaid(o)
    PROVE  TypeOK'
<1>1. DbTypes' /\ OutsideTypes' /\ RefundTypes'
  BY DEF AdvanceToPaid, TypeOK, DbTypes, OutsideTypes, RefundTypes, SetStatus, Status,
         refundVars, stripeVars, pastVars
<1>2. pc' = pc \/ \E n \in Nudges : pc[n] = "idle" /\ pc' = [pc EXCEPT ![n] = "start"]
  BY DEF AdvanceToPaid, StartNudge
<1>3. SweepTypes'
  BY <1>2 DEF AdvanceToPaid, TypeOK, SweepTypes, SweepPc, DeliveryPc, Sweepers
<1> QED
  BY <1>1, <1>3 DEF TypeOK

(* A sweep that moves to another place holds an order exactly inside       *)
(* grantCopy and markDelivered.                                            *)
LEMMA SweepMoves ==
    ASSUME SweepTypes, NEW w \in Sweepers, NEW l \in SweepPc,
           pc' = [pc EXCEPT ![w] = l],
           \/ cur' = cur /\ (l \in DeliveryPc <=> pc[w] \in DeliveryPc)
           \/ cur' = [cur EXCEPT ![w] = NoOrder] /\ l \notin DeliveryPc
           \/ \E o \in Orders : cur' = [cur EXCEPT ![w] = o] /\ l \in DeliveryPc,
           fresh' \in [Sweepers -> SUBSET Orders],
           resume' \in [Sweepers -> SUBSET Orders],
           at' \in [Sweepers -> Members],
           gone' \subseteq gone, w \in gone' => l = "seal"
    PROVE  SweepTypes'
<1>1. pc' \in [Sweepers -> SweepPc] /\ cur' \in [Sweepers -> Orders \cup {NoOrder}]
  BY DEF SweepTypes
<1>2. ASSUME NEW v \in Sweepers PROVE cur'[v] \in Orders <=> pc'[v] \in DeliveryPc
  BY OrdersAssumption DEF SweepTypes
<1>3. gone' \subseteq {v \in Sweepers : pc'[v] = "seal"}
  BY DEF SweepTypes
<1> QED
  BY <1>1, <1>2, <1>3 DEF SweepTypes

(* A refund handler that is done, or was interrupted, holds no order.      *)
LEMMA RefundEnds ==
    ASSUME RefundTypes, NEW r \in Refunders, rseen' = rseen,
           rpc' = [rpc EXCEPT ![r] = "idle"], rord' = [rord EXCEPT ![r] = NoOrder]
    PROVE  RefundTypes'
BY OrdersAssumption DEF RefundTypes, RefundPc

(* One that goes on keeps it.                                              *)
LEMMA RefundGoesOn ==
    ASSUME RefundTypes, NEW r \in Refunders, NEW l \in RefundPc \ {"idle"},
           rpc[r] # "idle", UNCHANGED <<rord, rseen>>, rpc' = [rpc EXCEPT ![r] = l]
    PROVE  RefundTypes'
BY DEF RefundTypes

(* The sweep outside grantCopy.                                            *)
LEMMA TypeSweep ==
    ASSUME TypeOK, NEW w \in Sweepers,
           \/ SelectPending(w) \/ EndSweep(w) \/ EndTick(w) \/ MarkDelivered(w)
           \/ DeliveryThrows(w) \/ ProbeFails(w) \/ SelectThrows(w)
           \/ \E o \in Orders : \/ ClaimForDelivery(w, o) \/ ResumeDelivery(w, o)
                               \/ ExpireStale(w, o) \/ ClaimThrows(w, o)
    PROVE  TypeOK'
<1> USE DEF TypeOK, DbTypes, OutsideTypes, RefundTypes, dbVars, sweepVars, refundVars,
            stripeVars, pastVars, SweepPc, DeliveryPc
<1>1. CASE SelectPending(w)
  BY <1>1 DEF SelectPending, Window, Deliverable, SweepTypes
<1>2. CASE EndSweep(w)
  BY <1>2 DEF EndSweep, SweepTypes
<1>3. CASE EndTick(w)
  BY <1>3 DEF EndTick, SweepTypes
<1>4. CASE MarkDelivered(w)
  <2>1. DbTypes' /\ OutsideTypes' /\ RefundTypes'
    BY <1>4 DEF MarkDelivered, SetStatus, Status
  <2>2. SweepTypes'
    BY <1>4, SweepMoves DEF MarkDelivered, SweepTypes
  <2> QED
    BY <2>1, <2>2
<1>5. ASSUME NEW o \in Orders, ClaimForDelivery(w, o) PROVE TypeOK'
  <2>1. DbTypes' /\ OutsideTypes' /\ RefundTypes'
    BY <1>5 DEF ClaimForDelivery, SetStatus, Status
  <2>2. /\ fresh' \in [Sweepers -> SUBSET Orders] /\ UNCHANGED <<resume, at, gone>>
        /\ w \notin gone
    BY <1>5 DEF ClaimForDelivery, IsNext, SweepTypes
  <2>3. ASSUME status[o] = "paid" PROVE SweepTypes'
    <3>1. pc' = [pc EXCEPT ![w] = "check"] /\ cur' = [cur EXCEPT ![w] = o]
      BY <1>5, <2>3 DEF ClaimForDelivery
    <3>2. resume' \in [Sweepers -> SUBSET Orders] /\ at' \in [Sweepers -> Members]
      BY <2>2 DEF SweepTypes
    <3> QED
      BY <2>2, <3>1, <3>2, SweepMoves
  <2>4. ASSUME status[o] # "paid" PROVE SweepTypes'
    BY <1>5, <2>2, <2>4 DEF ClaimForDelivery, SweepTypes
  <2>5. SweepTypes'
    BY <2>3, <2>4
  <2> QED
    BY <2>1, <2>5
<1>6. ASSUME NEW o \in Orders, ResumeDelivery(w, o) PROVE TypeOK'
  <2>1. DbTypes' /\ OutsideTypes' /\ RefundTypes'
    BY <1>6 DEF ResumeDelivery
  <2>2. SweepTypes'
    BY <1>6, SweepMoves DEF ResumeDelivery, IsNext, SweepTypes
  <2> QED
    BY <2>1, <2>2
<1>7. ASSUME NEW o \in Orders, ExpireStale(w, o) PROVE TypeOK'
  BY <1>7 DEF ExpireStale, SetStatus, Status, SweepTypes
<1>8. ASSUME NEW o \in Orders, ClaimThrows(w, o) PROVE TypeOK'
  BY <1>8, SizesAssumption DEF ClaimThrows, IsNext, Fail, SweepTypes
<1>9. CASE DeliveryThrows(w)
  <2>1. cur[w] \in Orders
    BY <1>9 DEF DeliveryThrows, SweepTypes
  <2>2. DbTypes' /\ OutsideTypes' /\ RefundTypes'
    BY <1>9, <2>1, SizesAssumption DEF DeliveryThrows, Fail
  <2>3. SweepTypes'
    BY <1>9, SweepMoves DEF DeliveryThrows, Goto, SweepTypes
  <2> QED
    BY <2>2, <2>3
<1>10. CASE SelectThrows(w)
  BY <1>10, SizesAssumption DEF SelectThrows, Goto, Fail, SweepTypes
<1>11. CASE ProbeFails(w)
  <2>1. cur[w] \in Orders /\ at' \in [Sweepers -> Members]
    BY <1>11, SizesAssumption DEF ProbeFails, SweepTypes, Members
  <2>2. DbTypes' /\ OutsideTypes' /\ RefundTypes'
    BY <1>11, <2>1, SizesAssumption DEF ProbeFails, Fail
  <2>3. SweepTypes'
    BY <1>11, <2>1, SweepMoves DEF ProbeFails, Goto, SweepTypes
  <2> QED
    BY <2>2, <2>3
<1> QED
  BY <1>1, <1>2, <1>3, <1>4, <1>5, <1>6, <1>7, <1>8, <1>9, <1>10, <1>11

(* A member that is not the last has a next one.                           *)
LEMMA NextMemberExists ==
    ASSUME NEW m \in Members, m < PackSize
    PROVE  m + 1 \in Members
BY SizesAssumption DEF Members

(* grantCopy.                                                              *)
LEMMA TypeGrant ==
    ASSUME TypeOK, NEW w \in Sweepers, GrantCopy(w)
    PROVE  TypeOK'
<1> USE DEF TypeOK, DbTypes, OutsideTypes, RefundTypes, dbVars, refundVars, stripeVars,
            pastVars, SweepPc, DeliveryPc, Goto
<1>6. at \in [Sweepers -> Members]
  BY DEF SweepTypes
<1>1. CASE CheckEntitlement(w)
  <2>1. SweepTypes'
    BY <1>1, SweepMoves DEF CheckEntitlement, SweepTypes
  <2> QED
    BY <1>1, <2>1 DEF CheckEntitlement
<1>2. CASE ProbeClones(w)
  <2>1. at' \in [Sweepers -> Members]
    BY <1>2, SizesAssumption DEF ProbeClones, SweepTypes, Members
  <2>2. SweepTypes'
    BY <1>2, <2>1, SweepMoves DEF ProbeClones, SweepTypes
  <2> QED
    BY <1>2, <2>2 DEF ProbeClones
<1>3. CASE CloneMember(w)
  <2>1. cur[w] \in Orders /\ at[w] \in Members
    BY <1>3 DEF CloneMember, SweepTypes
  <2>2. clones' \in [Orders -> [Members -> Nat]]
    BY <1>3, <2>1 DEF CloneMember
  <2>3. at' \in [Sweepers -> Members]
    BY <1>3, <1>6, <2>1, NextMemberExists DEF CloneMember, NextMember
  <2>4. \E l \in {"seal", "clone", "grant"} : pc' = [pc EXCEPT ![w] = l]
    BY <1>3 DEF CloneMember, NextMember
  <2>6. w \notin gone /\ gone' = gone
    BY <1>3 DEF CloneMember, SweepTypes
  <2>5. SweepTypes'
    BY <1>3, <2>3, <2>4, <2>6, SweepMoves DEF CloneMember, SweepTypes
  <2> QED
    BY <1>3, <2>2, <2>5 DEF CloneMember
<1>4. CASE SealClone(w)
  <2>1. cur[w] \in Orders /\ at[w] \in Members
    BY <1>4 DEF SealClone, SweepTypes
  <2>2. CASE /\ w \notin gone
             /\ seals' = [seals EXCEPT ![cur[w]][at[w]] = @ + 1]
             /\ NextMember(w, at[w])
             /\ UNCHANGED <<cur, gone, cut>>
    <3>1. seals' \in [Orders -> [Members -> Nat]]
      BY <2>1, <2>2
    <3>2. at' \in [Sweepers -> Members]
      BY <1>6, <2>1, <2>2, NextMemberExists DEF NextMember
    <3>3. \E l \in {"clone", "grant"} : pc' = [pc EXCEPT ![w] = l]
      BY <2>2 DEF NextMember
    <3>4. SweepTypes'
      BY <1>4, <2>2, <3>2, <3>3, SweepMoves DEF SealClone, SweepTypes
    <3> QED
      BY <1>4, <2>2, <3>1, <3>4 DEF SealClone
  <2>3. CASE /\ Goto(w, "next")
             /\ gone' = gone \ {w}
             /\ cut' = cut \cup {cur[w]}
             /\ cur' = [cur EXCEPT ![w] = NoOrder]
             /\ UNCHANGED <<seals, at>>
    <3>1. SweepTypes'
      BY <1>4, <2>3, SweepMoves DEF SealClone, SweepTypes
    <3> QED
      BY <1>4, <2>1, <2>3, <3>1 DEF SealClone
  <2> QED
    BY <1>4, <2>2, <2>3 DEF SealClone
<1>5. CASE GrantEntitlement(w)
  <2>1. cur[w] \in Orders
    BY <1>5 DEF GrantEntitlement, SweepTypes
  <2>2. SweepTypes'
    BY <1>5, SweepMoves DEF GrantEntitlement, SweepTypes
  <2> QED
    BY <1>5, <2>1, <2>2, BuyersAssumption DEF GrantEntitlement
<1> QED
  BY <1>1, <1>2, <1>3, <1>4, <1>5 DEF GrantCopy

(* refundOrder and clawbackCopy.                                           *)
LEMMA TypeRefund ==
    ASSUME TypeOK, NEW r \in Refunders,
           \/ \E o \in Orders : ReadForRefund(r, o)
           \/ MarkRefunding(r) \/ RevokeEntitlement(r)
           \/ DeleteClones(r) \/ ReleaseUnit(r) \/ RefundThrows(r) \/ ReleaseFails(r)
    PROVE  TypeOK'
<1> USE DEF TypeOK, DbTypes, OutsideTypes, SweepTypes, dbVars, sweepVars, refundVars,
            stripeVars, pastVars, RefundPc
<1>1. ASSUME NEW o \in Orders, ReadForRefund(r, o) PROVE TypeOK'
  BY <1>1 DEF ReadForRefund, RefundTypes
<1>2. CASE MarkRefunding(r)
  <2>1. rord[r] \in Orders
    BY <1>2 DEF MarkRefunding, RefundTypes
  <2>2. RefundTypes'
    BY <1>2, RefundGoesOn DEF MarkRefunding
  <2>5. status' \in [Orders -> Status]
    BY <1>2 DEF MarkRefunding, SetStatus, Status
  <2>3. DbTypes'
    BY <1>2, <2>5 DEF MarkRefunding
  <2>4. missed' \subseteq Orders /\ chased' \subseteq Orders
    BY <1>2, <2>1 DEF MarkRefunding
  <2> QED
    BY <1>2, <2>2, <2>3, <2>4 DEF MarkRefunding
<1>3. CASE RevokeEntitlement(r)
  <2>1. RefundTypes'
    BY <1>3, RefundGoesOn DEF RevokeEntitlement
  <2> QED
    BY <1>3, <2>1, BuyersAssumption DEF RevokeEntitlement
<1>4. CASE DeleteClones(r)
  <2>1. rord[r] \in Orders
    BY <1>4 DEF DeleteClones, RefundTypes
  <2>4. DbTypes' /\ SweepTypes'
    BY <1>4, <2>1 DEF DeleteClones, EraseClones, HeldBy
  <2>2. CASE \E m \in Members : clones[rord[r]][m] > 0
    <3>1. RefundTypes'
      BY <1>4, <2>2, RefundGoesOn DEF DeleteClones
    <3> QED
      BY <1>4, <2>2, <2>4, <3>1 DEF DeleteClones
  <2>3. CASE ~\E m \in Members : clones[rord[r]][m] > 0
    <3>1. RefundTypes'
      BY <1>4, <2>3, RefundEnds DEF DeleteClones, Answered
    <3> QED
      BY <1>4, <2>1, <2>3, <2>4, <3>1 DEF DeleteClones, Answered
  <2> QED
    BY <2>2, <2>3
<1>5. CASE ReleaseUnit(r)
  <2>1. rord[r] \in Orders
    BY <1>5 DEF ReleaseUnit, RefundTypes
  <2>2. RefundTypes'
    BY <1>5, RefundEnds DEF ReleaseUnit, Answered
  <2> QED
    BY <1>5, <2>1, <2>2 DEF ReleaseUnit, Answered
<1>6. CASE RefundThrows(r)
  <2>1. RefundTypes'
    BY <1>6, RefundEnds DEF RefundThrows
  <2> QED
    BY <1>6, <2>1, SizesAssumption DEF RefundThrows, Fail
<1>7. CASE ReleaseFails(r)
  <2>1. rord[r] \in Orders
    BY <1>7 DEF ReleaseFails, RefundTypes
  <2>2. RefundTypes'
    BY <1>7, RefundEnds DEF ReleaseFails, Answered
  <2> QED
    BY <1>7, <2>1, <2>2, SizesAssumption DEF ReleaseFails, Answered, Fail
<1> QED
  BY <1>1, <1>2, <1>3, <1>4, <1>5, <1>6, <1>7

LEMMA TypeFailure ==
    ASSUME TypeOK, Crash \/ \E o \in Orders : AdvanceThrows(o)
    PROVE  TypeOK'
<1> USE DEF TypeOK, dbVars, sweepVars, refundVars, stripeVars, pastVars
<1>1. CASE Crash
  <2>1. \A w \in Sweepers : InLoop(w) => cur[w] \in Orders
    BY DEF InLoop, SweepTypes, DeliveryPc
  <2>2. DbTypes' /\ OutsideTypes'
    BY <1>1, <2>1, SizesAssumption DEF Crash, Fail, DbTypes, OutsideTypes
  <2>3. SweepTypes'
    BY <1>1, OrdersAssumption DEF Crash, SweepTypes, SweepPc, DeliveryPc
  <2>4. RefundTypes'
    BY <1>1, OrdersAssumption DEF Crash, RefundTypes, RefundPc
  <2> QED
    BY <2>2, <2>3, <2>4
<1>2. CASE \E o \in Orders : AdvanceThrows(o)
  BY <1>2, SizesAssumption
  DEF AdvanceThrows, Fail, DbTypes, OutsideTypes, SweepTypes, RefundTypes
<1> QED
  BY <1>1, <1>2

LEMMA TypeStep == TypeOK /\ [Next]_vars => TypeOK'
<1>1. SUFFICES ASSUME TypeOK, [Next]_vars PROVE TypeOK'
  OBVIOUS
<1>2. CASE Outside
  BY <1>1, <1>2, TypeOutside DEF Outside
<1>3. CASE Webhook
  BY <1>1, <1>3, TypeOutside, TypeAdvance DEF Webhook
<1>4. CASE Expiry
  BY <1>1, <1>4, TypeSweep DEF Expiry, Sweepers
<1>5. CASE Failure
  BY <1>1, <1>5, TypeFailure, TypeSweep, TypeRefund DEF Failure, Sweepers
<1>6. CASE \E w \in Sweepers : Sweep(w)
  BY <1>1, <1>6, TypeSweep, TypeGrant DEF Sweep
<1>7. CASE \E r \in Refunders : Refund(r)
  BY <1>1, <1>7, TypeRefund DEF Refund
<1>8. CASE UNCHANGED vars
  BY <1>1, <1>8
  DEF vars, dbVars, sweepVars, refundVars, stripeVars, pastVars,
      TypeOK, DbTypes, OutsideTypes, SweepTypes, RefundTypes
<1> QED
  BY <1>1, <1>2, <1>3, <1>4, <1>5, <1>6, <1>7, <1>8 DEF Next

(* Type correctness: whatever interleaving of webhooks, sweeps, refunds,   *)
(* failures and crashes, no sweep or refund handler loses track of its     *)
(* order and the clone loop stays within the pack.                         *)
THEOREM Typing == Spec => []TypeOK
  BY TypeInit, TypeStep, PTL DEF Spec

(***************************************************************************)
(* Payment comes first.  The invariant adds to NothingBeforeCapture what   *)
(* makes it inductive: a handler only advances orders whose event it has   *)
(* recorded.                                                               *)
(***************************************************************************)
CaptureInv == NothingBeforeCapture /\ advancing \subseteq events

LEMMA CaptureInit == Init => CaptureInv
<1>1. SUFFICES ASSUME Init PROVE CaptureInv
  OBVIOUS
<1>2. ASSUME NEW o \in Orders PROVE Untouched(o)
  BY <1>1, OrdersAssumption DEF Init, Untouched, PaidStates, AlreadyRefunding
<1> QED
  BY <1>1, <1>2 DEF Init, CaptureInv, NothingBeforeCapture

(* To preserve it, keep the ledger and the entitlements in order and leave *)
(* every order without a recorded payment alone.                           *)
LEMMA CaptureKept ==
    ASSUME CaptureInv, events' = events, charged \subseteq charged', advancing' \subseteq events',
           \A b \in Buyers : ent'[b] = "active" => entOrder'[b] \in Orders,
           \A o \in Orders \ events : Untouched(o) => Untouched(o)'
    PROVE  CaptureInv'
BY DEF CaptureInv, NothingBeforeCapture

(* The outside world and the webhook.                                      *)
LEMMA CaptureOutside ==
    ASSUME TypeOK, CaptureInv, NEW p \in Orders,
           \/ AwaitPayment(p) \/ Charge(p) \/ AskRefund(p) \/ RecordEvent(p)
           \/ AdvanceToPaid(p) \/ AdvanceThrows(p)
    PROVE  CaptureInv'
<1> USE DEF dbVars, sweepVars, refundVars, stripeVars, pastVars
<1>1. CASE AwaitPayment(p)
  <2>1. ASSUME NEW o \in Orders, Untouched(o) PROVE Untouched(o)'
    BY <1>1, <2>1 DEF AwaitPayment, SetStatus, Untouched, TypeOK, DbTypes,
                      PaidStates, AlreadyRefunding
  <2> QED
    BY <1>1, <2>1, CaptureKept DEF AwaitPayment, CaptureInv, NothingBeforeCapture
<1>2. CASE Charge(p) \/ AskRefund(p) \/ AdvanceThrows(p)
  <2>1. ASSUME NEW o \in Orders, Untouched(o) PROVE Untouched(o)'
    BY <1>2, <2>1 DEF Charge, AskRefund, AdvanceThrows, Untouched
  <2> QED
    BY <1>2, <2>1, CaptureKept
    DEF Charge, AskRefund, AdvanceThrows, CaptureInv, NothingBeforeCapture
<1>3. CASE RecordEvent(p)
  BY <1>3 DEF RecordEvent, CaptureInv, NothingBeforeCapture, Untouched
<1>4. CASE AdvanceToPaid(p)
  <2>1. p \in events
    BY <1>4 DEF AdvanceToPaid, CaptureInv
  <2>2. \A o \in Orders \ events : status'[o] = status[o]
    BY <1>4, <2>1 DEF AdvanceToPaid, SetStatus, TypeOK, DbTypes
  <2>3. ASSUME NEW o \in Orders \ events, Untouched(o) PROVE Untouched(o)'
    BY <1>4, <2>2, <2>3 DEF AdvanceToPaid, Untouched
  <2> QED
    BY <1>4, <2>3, CaptureKept DEF AdvanceToPaid, CaptureInv, NothingBeforeCapture
<1> QED
  BY <1>1, <1>2, <1>3, <1>4

(* A sweep only ever holds orders it read as paid.                         *)
LEMMA CaptureSweep ==
    ASSUME TypeOK, CaptureInv, NEW w \in Sweepers,
           \/ SelectPending(w) \/ EndSweep(w) \/ EndTick(w) \/ MarkDelivered(w)
           \/ DeliveryThrows(w) \/ ProbeFails(w) \/ SelectThrows(w)
           \/ \E p \in Orders : \/ ClaimForDelivery(w, p) \/ ResumeDelivery(w, p)
                               \/ ExpireStale(w, p) \/ ClaimThrows(w, p)
    PROVE  CaptureInv'
<1> USE DEF dbVars, sweepVars, refundVars, stripeVars, pastVars, Goto
<1>1. events' = events /\ charged' = charged /\ advancing' = advancing
      /\ ent' = ent /\ entOrder' = entOrder
  BY DEF SelectPending, EndSweep, EndTick, MarkDelivered, DeliveryThrows, ProbeFails,
         SelectThrows, ClaimForDelivery, ResumeDelivery, ExpireStale, ClaimThrows
<1>2. SUFFICES ASSUME NEW o \in Orders \ events, Untouched(o) PROVE Untouched(o)'
  BY <1>1, CaptureKept DEF CaptureInv, NothingBeforeCapture
<1>3. CASE SelectPending(w)
  <2>1. o \notin Deliverable
    BY <1>2 DEF Untouched, Deliverable, PaidStates
  <2> QED
    BY <1>2, <1>3, <2>1 DEF SelectPending, Window, Untouched, TypeOK, SweepTypes
<1>4. CASE EndSweep(w) \/ EndTick(w) \/ ProbeFails(w) \/ SelectThrows(w)
  BY <1>2, <1>4 DEF EndSweep, EndTick, ProbeFails, SelectThrows, Untouched
<1>5. CASE MarkDelivered(w)
  <2>1. cur[w] # o /\ o # NoOrder
    BY <1>2, OrdersAssumption DEF Untouched
  <2> QED
    BY <1>2, <1>5, <2>1 DEF MarkDelivered, SetStatus, Untouched, TypeOK, DbTypes, SweepTypes
<1>6. CASE DeliveryThrows(w)
  BY <1>2, <1>6, OrdersAssumption DEF DeliveryThrows, Untouched, TypeOK, SweepTypes
<1>7. ASSUME NEW p \in Orders, ClaimForDelivery(w, p) PROVE Untouched(o)'
  <2>1. p # o
    BY <1>2, <1>7 DEF ClaimForDelivery, Untouched
  <2> QED
    BY <1>2, <1>7, <2>1
    DEF ClaimForDelivery, SetStatus, Untouched, TypeOK, DbTypes, SweepTypes
<1>8. ASSUME NEW p \in Orders, ResumeDelivery(w, p) PROVE Untouched(o)'
  <2>1. p # o
    BY <1>2, <1>8 DEF ResumeDelivery, Untouched
  <2> QED
    BY <1>2, <1>8, <2>1 DEF ResumeDelivery, Untouched, TypeOK, SweepTypes
<1>9. ASSUME NEW p \in Orders, ExpireStale(w, p) PROVE Untouched(o)'
  BY <1>2, <1>9 DEF ExpireStale, SetStatus, Untouched, TypeOK, DbTypes, PaidStates,
                    AlreadyRefunding
<1>10. ASSUME NEW p \in Orders, ClaimThrows(w, p) PROVE Untouched(o)'
  BY <1>2, <1>10 DEF ClaimThrows, Untouched, TypeOK, SweepTypes
<1> QED
  BY <1>3, <1>4, <1>5, <1>6, <1>7, <1>8, <1>9, <1>10

(* grantCopy writes clones and the entitlement for the order its sweep     *)
(* holds, and for no other.                                                *)
LEMMA CaptureGrant ==
    ASSUME TypeOK, CaptureInv, NEW w \in Sweepers, GrantCopy(w)
    PROVE  CaptureInv'
<1> USE DEF dbVars, refundVars, stripeVars, pastVars, Goto
<1>1. cur[w] \in Orders
  BY DEF GrantCopy, CheckEntitlement, ProbeClones, CloneMember, SealClone,
         GrantEntitlement, TypeOK, SweepTypes, DeliveryPc
<1>2. events' = events /\ charged' = charged /\ advancing' = advancing
  BY DEF GrantCopy, CheckEntitlement, ProbeClones, CloneMember, SealClone, GrantEntitlement
<1>3. \A b \in Buyers : ent'[b] = "active" => entOrder'[b] \in Orders
  <2>1. CASE GrantEntitlement(w)
    BY <1>1, <2>1, BuyersAssumption
    DEF GrantEntitlement, CaptureInv, NothingBeforeCapture, TypeOK, DbTypes
  <2>2. CASE ~GrantEntitlement(w)
    BY <2>2 DEF GrantCopy, CheckEntitlement, ProbeClones, CloneMember, SealClone,
                CaptureInv, NothingBeforeCapture
  <2> QED
    BY <2>1, <2>2
<1>4. SUFFICES ASSUME NEW o \in Orders \ events, Untouched(o) PROVE Untouched(o)'
  BY <1>2, <1>3, CaptureKept DEF CaptureInv
<1>5. cur[w] # o /\ o # NoOrder
  BY <1>4, OrdersAssumption DEF Untouched
<1>6. CASE CheckEntitlement(w) \/ ProbeClones(w)
  BY <1>4, <1>5, <1>6 DEF CheckEntitlement, ProbeClones, Untouched, TypeOK, SweepTypes
<1>7. CASE CloneMember(w)
  <2>1. clones'[o] = clones[o]
    BY <1>5, <1>7 DEF CloneMember, TypeOK, DbTypes
  <2> QED
    BY <1>4, <1>7, <2>1 DEF CloneMember, Untouched
<1>8. CASE SealClone(w)
  BY <1>4, <1>5, <1>8 DEF SealClone, Untouched, TypeOK, SweepTypes
<1>9. CASE GrantEntitlement(w)
  BY <1>4, <1>5, <1>9 DEF GrantEntitlement, Untouched, TypeOK, DbTypes
<1> QED
  BY <1>6, <1>7, <1>8, <1>9 DEF GrantCopy

(* A refund handler only ever holds an order it read in a paid status.     *)
LEMMA CaptureRefund ==
    ASSUME TypeOK, CaptureInv, NEW r \in Refunders,
           \/ \E p \in Orders : ReadForRefund(r, p)
           \/ MarkRefunding(r) \/ RevokeEntitlement(r)
           \/ DeleteClones(r) \/ ReleaseUnit(r) \/ RefundThrows(r) \/ ReleaseFails(r)
    PROVE  CaptureInv'
<1> USE DEF dbVars, sweepVars, refundVars, stripeVars, pastVars, Answered
<1>1. events' = events /\ charged' = charged /\ advancing' = advancing
      /\ entOrder' = entOrder
  BY DEF ReadForRefund, MarkRefunding, RevokeEntitlement, DeleteClones, ReleaseUnit,
         RefundThrows, ReleaseFails
<1>2. \A b \in Buyers : ent'[b] = "active" => ent[b] = "active"
  <2>1. CASE RevokeEntitlement(r)
    BY <2>1 DEF RevokeEntitlement, TypeOK, DbTypes
  <2>2. CASE ~RevokeEntitlement(r)
    BY <2>2 DEF ReadForRefund, MarkRefunding, DeleteClones, ReleaseUnit, RefundThrows,
                ReleaseFails
  <2> QED
    BY <2>1, <2>2
<1>3. SUFFICES ASSUME NEW o \in Orders \ events, Untouched(o) PROVE Untouched(o)'
  BY <1>1, <1>2, CaptureKept DEF CaptureInv, NothingBeforeCapture
<1>4. rord[r] # o /\ o # NoOrder
  BY <1>3, OrdersAssumption DEF Untouched
<1>5. ASSUME NEW p \in Orders, ReadForRefund(r, p) PROVE Untouched(o)'
  <2>1. p # o
    BY <1>3, <1>5, RefundableIsPaid DEF ReadForRefund, Untouched, PaidStates
  <2> QED
    BY <1>3, <1>5, <2>1 DEF ReadForRefund, Untouched, TypeOK, RefundTypes
<1>6. CASE MarkRefunding(r)
  BY <1>3, <1>4, <1>6 DEF MarkRefunding, SetStatus, Untouched, TypeOK, DbTypes
<1>7. CASE RevokeEntitlement(r)
  BY <1>3, <1>7 DEF RevokeEntitlement, Untouched
<1>8. CASE DeleteClones(r)
  <2>1. clones'[o] = clones[o]
    BY <1>4, <1>8 DEF DeleteClones, EraseClones, TypeOK, DbTypes
  <2>2. rord'[r] # o
    BY <1>4, <1>8 DEF DeleteClones, TypeOK, RefundTypes
  <2>3. \A q \in Refunders : rord'[q] # o
    BY <1>3, <1>8, <2>2 DEF DeleteClones, Untouched, TypeOK, RefundTypes
  <2> QED
    BY <1>3, <1>8, <2>1, <2>3 DEF DeleteClones, Untouched
<1>9. CASE ReleaseUnit(r) \/ RefundThrows(r) \/ ReleaseFails(r)
  BY <1>3, <1>4, <1>9
  DEF ReleaseUnit, RefundThrows, ReleaseFails, Untouched, TypeOK, RefundTypes
<1> QED
  BY <1>5, <1>6, <1>7, <1>8, <1>9

LEMMA CaptureCrash == TypeOK /\ CaptureInv /\ Crash => CaptureInv'
<1>1. SUFFICES ASSUME TypeOK, CaptureInv, Crash PROVE CaptureInv'
  OBVIOUS
<1> USE <1>1 DEF dbVars, stripeVars
<1>2. ASSUME NEW o \in Orders, Untouched(o) PROVE Untouched(o)'
  BY <1>2, OrdersAssumption DEF Crash, Untouched
<1> QED
  BY <1>2, CaptureKept DEF Crash, CaptureInv, NothingBeforeCapture

LEMMA CaptureStep == TypeOK /\ CaptureInv /\ [Next]_vars => CaptureInv'
<1>1. SUFFICES ASSUME TypeOK, CaptureInv, [Next]_vars PROVE CaptureInv'
  OBVIOUS
<1>2. CASE Outside \/ Webhook
  BY <1>1, <1>2, CaptureOutside DEF Outside, Webhook
<1>3. CASE Expiry
  BY <1>1, <1>3, CaptureSweep DEF Expiry, Sweepers
<1>4. CASE Failure
  BY <1>1, <1>4, CaptureOutside, CaptureSweep, CaptureRefund, CaptureCrash
  DEF Failure, Sweepers
<1>5. CASE \E w \in Sweepers : Sweep(w)
  BY <1>1, <1>5, CaptureSweep, CaptureGrant DEF Sweep
<1>6. CASE \E r \in Refunders : Refund(r)
  BY <1>1, <1>6, CaptureRefund DEF Refund
<1>7. CASE UNCHANGED vars
  BY <1>1, <1>7
  DEF vars, dbVars, sweepVars, refundVars, stripeVars, CaptureInv, NothingBeforeCapture,
      Untouched
<1> QED
  BY <1>1, <1>2, <1>3, <1>4, <1>5, <1>6, <1>7 DEF Next

(* Nothing is handed over before a verified payment event of that order is *)
(* recorded, for any number of buyers, orders, overlapping sweeps, refunds *)
(* and crashes.                                                            *)
THEOREM CaptureFirst == Spec => []NothingBeforeCapture
<1>1. TypeOK /\ CaptureInv /\ [Next]_vars => CaptureInv'
  BY CaptureStep
<1>2. CaptureInv => NothingBeforeCapture
  BY DEF CaptureInv
<1> QED
  BY Typing, CaptureInit, <1>1, <1>2, PTL DEF Spec

(***************************************************************************)
(* Every status write.  Moves is what the code does write; a refund writes *)
(* the status it decided on earlier, so that decision is an invariant.     *)
(***************************************************************************)
Moves ==
    {<<"created", "awaiting_payment">>, <<"created", "paid">>, <<"created", "expired">>,
     <<"awaiting_payment", "paid">>, <<"awaiting_payment", "expired">>,
     <<"paid", "delivering">>, <<"delivering", "delivered">>,
     <<"paid", "refunding">>, <<"delivered", "refunding">>, <<"settled", "refunding">>}

(* A status write by one step: of no order, or of one, along Moves.        *)
Moved ==
    \/ status' = status
    \/ \E o \in Orders, s \in Status :
          <<status[o], s>> \in Moves /\ status' = [status EXCEPT ![o] = s]

GuardInv == \A r \in Refunders : rpc[r] = "guard" => CanTransition(rseen[r], "refunding")

LEMMA GuardInit == Init => GuardInv
BY DEF Init, GuardInv

LEMMA GuardStep == TypeOK /\ GuardInv /\ [Next]_vars => GuardInv'
<1>1. SUFFICES ASSUME TypeOK, GuardInv, [Next]_vars PROVE GuardInv'
  OBVIOUS
<1> USE DEF dbVars, sweepVars, refundVars, stripeVars, pastVars
<1>2. CASE UNCHANGED <<rpc, rseen>>
  BY <1>1, <1>2 DEF GuardInv
<1>3. ASSUME NEW r \in Refunders, Refund(r) \/ RefundThrows(r) \/ ReleaseFails(r)
      PROVE  GuardInv'
  <2>1. ASSUME NEW o \in Orders, ReadForRefund(r, o) PROVE GuardInv'
    BY <1>1, <2>1 DEF ReadForRefund, GuardInv, TypeOK, RefundTypes
  <2>2. ASSUME rseen' = rseen, NEW l \in RefundPc \ {"guard"}, rpc' = [rpc EXCEPT ![r] = l]
        PROVE  GuardInv'
    BY <1>1, <2>2 DEF GuardInv, TypeOK, RefundTypes
  <2>3. CASE MarkRefunding(r) \/ RevokeEntitlement(r) \/ DeleteClones(r) \/ ReleaseUnit(r)
             \/ RefundThrows(r) \/ ReleaseFails(r)
    <3>1. rseen' = rseen /\ \E l \in {"revoke", "purge", "release", "idle"} :
                               rpc' = [rpc EXCEPT ![r] = l]
      BY <2>3 DEF MarkRefunding, RevokeEntitlement, DeleteClones, ReleaseUnit, RefundThrows,
                  ReleaseFails, Answered
    <3> QED
      BY <2>2, <3>1 DEF RefundPc
  <2> QED
    BY <1>3, <2>1, <2>3 DEF Refund
<1>4. CASE Crash
  BY <1>4 DEF Crash, GuardInv
<1>5. CASE Outside \/ Webhook \/ Expiry \/ \E o \in Orders : AdvanceThrows(o)
  BY <1>2, <1>5 DEF Outside, AwaitPayment, Charge, AskRefund, Webhook, RecordEvent,
                    AdvanceToPaid, Expiry, ExpireStale, AdvanceThrows
<1>6. CASE \E w \in Sweepers : \/ Sweep(w) \/ DeliveryThrows(w) \/ ProbeFails(w)
                               \/ SelectThrows(w)
                               \/ \E o \in Orders : ClaimThrows(w, o)
  BY <1>2, <1>6 DEF Sweep, GrantCopy, SelectPending, EndSweep, EndTick, ClaimForDelivery,
                    ResumeDelivery, MarkDelivered, CheckEntitlement, ProbeClones,
                    CloneMember, SealClone, GrantEntitlement, DeliveryThrows,
                    ProbeFails, SelectThrows, ClaimThrows
<1>7. CASE UNCHANGED vars
  BY <1>2, <1>7 DEF vars
<1> QED
  BY <1>1, <1>3, <1>4, <1>5, <1>6, <1>7 DEF Next, Failure, Sweepers

(* The actions that write a status.                                        *)
LEMMA StatusWriters ==
    ASSUME [Next]_vars, status' # status
    PROVE  \/ \E o \in Orders : \/ AwaitPayment(o) \/ AdvanceToPaid(o)
                               \/ \E w \in Sweepers : ExpireStale(w, o) \/ ClaimForDelivery(w, o)
           \/ \E w \in Sweepers : MarkDelivered(w)
           \/ \E r \in Refunders : MarkRefunding(r)
<1> USE DEF dbVars
<1>1. CASE Outside \/ Webhook \/ Expiry \/ UNCHANGED vars
  BY <1>1 DEF Outside, Charge, AskRefund, Webhook, RecordEvent, Expiry, Sweepers, vars
<1>2. CASE Failure
  BY <1>2 DEF Failure, DeliveryThrows, ProbeFails, ClaimThrows, SelectThrows,
              AdvanceThrows, RefundThrows, ReleaseFails, Crash
<1>3. CASE \E w \in Sweepers : Sweep(w)
  BY <1>3 DEF Sweep, GrantCopy, SelectPending, EndSweep, EndTick, ResumeDelivery,
              CheckEntitlement, ProbeClones, CloneMember, SealClone, GrantEntitlement
<1>4. CASE \E r \in Refunders : Refund(r)
  BY <1>4 DEF Refund, ReadForRefund, RevokeEntitlement, DeleteClones, ReleaseUnit
<1> QED
  BY <1>1, <1>2, <1>3, <1>4 DEF Next

LEMMA StatusMoves == TypeOK /\ GuardInv /\ [Next]_vars => Moved
<1>1. SUFFICES ASSUME TypeOK, GuardInv, [Next]_vars, status' # status PROVE Moved
  BY DEF Moved
<1> USE <1>1 DEF dbVars, SetStatus, Moves, Status
<1>2. ASSUME NEW o \in Orders,
             \/ AwaitPayment(o) \/ AdvanceToPaid(o)
             \/ \E w \in Sweepers : ExpireStale(w, o) \/ ClaimForDelivery(w, o)
      PROVE  Moved
  BY <1>2 DEF AwaitPayment, AdvanceToPaid, ExpireStale, ClaimForDelivery, PrePaidStates,
              Moved
<1>3. ASSUME NEW w \in Sweepers, MarkDelivered(w) PROVE Moved
  <2>1. cur[w] \in Orders
    BY <1>3 DEF MarkDelivered, TypeOK, SweepTypes, DeliveryPc
  <2> QED
    BY <1>3, <2>1 DEF MarkDelivered, Moved
<1>4. ASSUME NEW r \in Refunders, MarkRefunding(r) PROVE Moved
  <2>1. rord[r] \in Orders /\ CanTransition(rseen[r], "refunding")
    BY <1>4 DEF MarkRefunding, TypeOK, RefundTypes, GuardInv
  <2>2. status[rord[r]] = rseen[r] /\ status' = [status EXCEPT ![rord[r]] = "refunding"]
    BY <1>4 DEF MarkRefunding
  <2>3. <<status[rord[r]], "refunding">> \in Moves
    BY <2>1, <2>2 DEF CanTransition, Transitions
  <2> QED
    BY <2>1, <2>2, <2>3 DEF Moved
<1> QED
  BY <1>2, <1>3, <1>4, StatusWriters

(* Every write of an order's status follows a sanctioned edge of the life  *)
(* cycle, the webhook's created -> paid apart: no stale read of a sweep, a *)
(* refund or the expiry ever moves an order along any other edge.          *)
THEOREM DagFollowed == Spec => StatusFollowsDag
<1>1. TypeOK /\ GuardInv /\ [Next]_vars =>
        [\A o \in Orders :
           status'[o] # status[o] =>
              \/ CanTransition(status[o], status'[o])
              \/ status[o] = "created" /\ status'[o] = "paid"]_vars
  BY StatusMoves DEF Moved, Moves, CanTransition, Transitions, TypeOK, DbTypes
<1>2. TypeOK /\ GuardInv /\ [Next]_vars => GuardInv'
  BY GuardStep
<1> QED
  BY Typing, GuardInit, <1>1, <1>2, PTL DEF Spec, StatusFollowsDag

(***************************************************************************)
(* The abstract sale.                                                      *)
(***************************************************************************)
LEMMA SaleInit == Init => Sale!Init
BY DEF Init, Sale!Init, SalePhase, PrePaidStates

LEMMA SaleStep ==
    ASSUME TypeOK, Moved
    PROVE  \/ Sale!Next
           \/ UNCHANGED [o \in Orders |-> SalePhase(status[o])]
<1>1. CASE status' = status
  BY <1>1
<1>2. ASSUME NEW o \in Orders, NEW s \in Status, <<status[o], s>> \in Moves,
             status' = [status EXCEPT ![o] = s]
      PROVE  \/ Sale!Next
             \/ UNCHANGED [p \in Orders |-> SalePhase(status[p])]
  <2> DEFINE sale == [p \in Orders |-> SalePhase(status[p])]
  <2>1. sale' = [sale EXCEPT ![o] = SalePhase(s)]
    BY <1>2 DEF TypeOK, DbTypes
  <2>2. \/ SalePhase(status[o]) = SalePhase(s)
        \/ <<SalePhase(status[o]), SalePhase(s)>> \in
              {<<"open", "closed">>, <<"open", "owed">>, <<"owed", "delivered">>,
               <<"owed", "unwound">>, <<"delivered", "unwound">>}
    BY <1>2 DEF Moves, SalePhase, PrePaidStates, AlreadyRefunding
  <2>3. CASE SalePhase(status[o]) = SalePhase(s)
    BY <2>1, <2>3
  <2>4. CASE SalePhase(status[o]) # SalePhase(s)
    BY <2>1, <2>2, <2>4
    DEF Sale!Next, Sale!Close, Sale!Capture, Sale!Deliver, Sale!Refund, Sale!Move
  <2> QED
    BY <2>3, <2>4
<1> QED
  BY <1>1, <1>2 DEF Moved

(* The protocol implements the safety of the abstract sale of CopySale:    *)
(* nothing is delivered that was not owed, nothing that is owed, delivered *)
(* or unwound ever goes back, and a closed order stays closed.             *)
THEOREM SaleSafety == Spec => Sale!SafeSpec
<1>1. TypeOK /\ GuardInv /\ [Next]_vars =>
        [Sale!Next]_[o \in Orders |-> SalePhase(status[o])]
  BY StatusMoves, SaleStep
<1>2. TypeOK /\ GuardInv /\ [Next]_vars => GuardInv'
  BY GuardStep
<1> QED
  BY Typing, GuardInit, SaleInit, <1>1, <1>2, PTL DEF Spec, Sale!SafeSpec
===============================================================================
