----------------------------- MODULE TitleSaleProofs -----------------------------
(***************************************************************************)
(* What TLAPS proves of TitleSale, on both rails, for any orders, buyers   *)
(* and requests in flight: its types, that the key and the title change    *)
(* hands without a gap, that a saga only goes forward, and the refund      *)
(* boundary.                                                               *)
(***************************************************************************)
EXTENDS TitleSale, TLAPS

DriverPc == {"idle", "load", "rewrap", "rewrapped", "confirm", "check", "transfer",
             "landed", "record", "mirror", "moved", "unwrap", "revoke", "grant", "granted"}
RunRecord    == [pc : DriverPc, o : Orders \cup {None}, call : {"none", "execute", "submit"}]
RefundRecord == [pc : {"idle", "saga", "audit", "abort", "order"}, o : Orders \cup {None},
                 read : {"none", "unpaid", "paid", "refunding"}]
ExportRecord == [pc : {"idle", "look", "owner", "mint", "mirror", "grant"},
                 who : Holders \cup {None}]

(* A request is at work exactly while it has an order.                     *)
DriverShape == /\ driver \in [Drivers -> RunRecord]
               /\ \A d \in Drivers : (driver[d].o = None) <=> (driver[d].pc = "idle")
RefundShape == /\ refund \in [Refunds -> RefundRecord]
               /\ \A r \in Refunds : (refund[r].o = None) <=> (refund[r].pc = "idle")
Causes == {"raced", "twin", "regressed", "cut", "ahead", "unread", "blind"}

Types ==
    /\ rail \in {"base", "solana"}
    /\ owner \in Holders \cup {None} /\ pending \subseteq Orders \cup {MintTx}
    /\ status \in [Orders -> {"unpaid", "paid", "refunding"}]
    /\ saga \in [Orders -> Step \cup {"none", "refunded"}]
    /\ wraps \subseteq Holders /\ owners \subseteq Holders /\ audit \subseteq Buyers
    /\ mirror \in [status : {"none", "minted", "transferred"}, owner : Holders \cup {None}]
    /\ cause \in [Orders -> SUBSET Causes]
    /\ DriverShape /\ RefundShape /\ export \in [Exports -> ExportRecord]

Marks == sold \in Orders \cup {None} /\ torn \subseteq Orders

(* The places of an order: the step of its saga and where its drivers are, *)
(* and the places at or past a write of the sale.                          *)
Places(o)   == {saga[o]} \cup {driver[d].pc : d \in DrivenBy(o)}

Granted    == {"granted", "revoked"}
Revoked    == {"grant"} \cup Granted
Unwrapped   == {"revoke"} \cup Revoked
Mirrored    == {"moved", "transferred", "unwrap"} \cup Unwrapped
Recorded    == {"mirror"} \cup Mirrored
Landed      == {"record"} \cup Recorded
Sealed      == {"rewrapped", "dek_rewrapped", "confirm", "paid", "check", "transfer",
                "landed"} \cup Landed

AheadOf(o) == rail = "base" /\ "ahead" \in cause[o]

(* What the sale has written by the time it is at a place.                 *)
Written(o, at) ==
    /\ at \in Sealed    => BuyerOf[o] \in wraps
    /\ at \in Landed    => (rail = "solana" => owner = BuyerOf[o])
    /\ at \in Recorded  => BuyerOf[o] \in audit
    /\ at \in Mirrored  => mirror.status # "minted" \/ stale
    /\ at \in Unwrapped => Seller \notin wraps /\ (owner = BuyerOf[o] \/ AheadOf(o))
    /\ at \in Revoked  => Seller \notin owners \/ stale
    /\ at \in Granted  => BuyerOf[o] \in owners

WrittenInv == \A o \in Orders : \A at \in Places(o) : Written(o, at)

(* Whoever the title is with, or on its way to, has a wrap of the key.     *)
KeyInv ==
    /\ \A o \in Orders : o \in pending => BuyerOf[o] \in wraps
    /\ owner \in Buyers => owner \in wraps
    /\ Seller \in wraps \/ owner \in Buyers \/ \E o \in Orders : AheadOf(o)

(* An order whose drivers and refunds never met; one that no refund misread *)
(* either is shut for its drivers once a refund is past the boundary.       *)
Unraced(o) ==
    /\ DrivenBy(o) = {} \/ RefundedBy(o) = {}
    /\ \A r \in RefundedBy(o) : refund[r].pc = "abort" => saga[o] \notin SOLANA_FINAL_STEPS

Shut(o) ==
    /\ \A r \in RefundedBy(o) :
          refund[r].pc \in {"audit", "order"} => saga[o] \in {"none", "refunded"}
    /\ status[o] = "refunding" =>
          /\ saga[o] \in {"none", "refunded"}
          /\ \A d \in DrivenBy(o) : driver[d].pc = "load" /\ driver[d].call = "submit"

Guarded(o) == Unraced(o) /\ ("unread" \notin cause[o] => Shut(o))

RaceInv == \A o \in Orders : "raced" \notin cause[o] => Guarded(o)

(* The step a lone driver has written before each of its own.              *)
StepAt(pc) ==
    CASE pc \in {"rewrap", "rewrapped"} -> "created"
      [] pc = "confirm"                 -> "dek_rewrapped"
      [] pc \in {"check", "transfer", "landed", "record", "mirror", "moved"} -> "paid"
      [] pc \in {"unwrap", "revoke", "grant", "granted"} -> "transferred"

LoneDriver(o) ==
    /\ \A d, e \in DrivenBy(o) : d = e
    /\ \A d \in DrivenBy(o) : driver[d].pc # "load" => saga[o] = StepAt(driver[d].pc)

LoneInv == \A o \in Orders : cause[o] \cap {"raced", "twin", "blind"} = {} => LoneDriver(o)

(* An order whose transfer is out, or has moved the title, is past the     *)
(* boundary, has a driver that is about to write so, or one that was cut   *)
(* off before it could.                                                    *)
Moved(o) == o \in pending \/ sold = o
Clean(o) == cause[o] \cap {"raced", "regressed", "cut", "unread"} = {}

MovedInv ==
    \A o \in Orders : Clean(o) /\ Moved(o) =>
        \/ saga[o] \in SOLANA_FINAL_STEPS \/ o \in torn
        \/ \E d \in DrivenBy(o) : Committing(d)

(* Whoever works on an order, or was cut off, has found or made its saga.  *)
Begun(o) == o \in torn \/ (\E d \in DrivenBy(o) : driver[d].pc # "load") => saga[o] # "none"
BegunInv == \A o \in Orders : Begun(o)

(* A refund of a cut-off order stops at the boundary.                      *)
Uncut(o) ==
    o \in torn => /\ status[o] # "refunding"
                  /\ \A r \in RefundedBy(o) : refund[r].pc = "saga"
TornInv == \A o \in Orders : Clean(o) => Uncut(o)

(***************************************************************************)
(* The steps of a saga.                                                    *)
(***************************************************************************)
LEMMA StepNames == Step = {"created", "dek_rewrapped", "paid", "transferred", "revoked"}
BY DEF Step, Steps

LEMMA StepRank == \A n \in 1..5 : Rank(Steps[n]) = n
<1>1. SUFFICES ASSUME NEW n \in 1..5 PROVE Rank(Steps[n]) = n
  OBVIOUS
<1>2. \A m \in 1..5 : Steps[m] = Steps[n] => m = n
  BY DEF Steps
<1> QED
  BY <1>2 DEF Rank, Step

LEMMA Ranks ==
    /\ Rank("none") = 0 /\ Rank("refunded") = 0
    /\ Rank("created") = 1 /\ Rank("dek_rewrapped") = 2 /\ Rank("paid") = 3
    /\ Rank("transferred") = 4 /\ Rank("revoked") = 5
<1>1. Rank("none") = 0 /\ Rank("refunded") = 0
  BY StepNames DEF Rank
<1>2. /\ Steps[1] = "created" /\ Steps[2] = "dek_rewrapped" /\ Steps[3] = "paid"
      /\ Steps[4] = "transferred" /\ Steps[5] = "revoked"
  BY DEF Steps
<1> QED
  BY <1>1, <1>2, StepRank

(***************************************************************************)
(* Types.                                                                  *)
(***************************************************************************)
LEMMA TypesAreTypes == Types /\ Marks => TypeOK
BY DEF Types, Marks, TypeOK, DriverShape, RefundShape, Causes

LEMMA TypesInit == Init => Types
BY TitleAssumption
DEF Init, Types, DriverShape, RefundShape, RunRecord, RefundRecord, ExportRecord, DriverPc, NoRun,
    NoRefund, NoExport, Holders, Causes

LEMMA ExportTypes == ASSUME Types, NEW e \in Exports, Export(e) PROVE Types'
<1> USE DEF Types, chain, access, requests, counts
<1>1. export \in [Exports -> ExportRecord] /\ owner \in Holders \cup {None}
  OBVIOUS
<1>2. CASE StartExport(e) \/ LookAtMirror(e)
  <2>1. export' \in [Exports -> ExportRecord]
    BY <1>1, <1>2 DEF StartExport, LookAtMirror, ExportAt, ExportRecord
  <2> QED
    BY <1>2, <2>1 DEF StartExport, LookAtMirror, DriverShape, RefundShape
<1>3. CASE LookAtChain(e)
  <2>1. export' \in [Exports -> ExportRecord]
    BY <1>1, <1>3 DEF LookAtChain, ExportRecord
  <2> QED
    BY <1>3, <2>1 DEF LookAtChain, DriverShape, RefundShape
<1>4. CASE Mint(e)
  <2>1. export' \in [Exports -> ExportRecord]
    BY <1>1, <1>4 DEF Mint, ExportRecord, NoExport, Holders
  <2> QED
    BY <1>4, <2>1 DEF Mint, DriverShape, RefundShape, Holders
<1>5. CASE WriteMirror(e)
  <2>1. export' \in [Exports -> ExportRecord]
    BY <1>1, <1>5 DEF WriteMirror, ExportAt, ExportRecord
  <2> QED
    BY <1>1, <1>5, <2>1 DEF WriteMirror, ExportRecord, DriverShape, RefundShape
<1>6. CASE GrantCreator(e)
  <2>1. export' \in [Exports -> ExportRecord]
    BY <1>1, <1>6 DEF GrantCreator, ExportRecord, NoExport
  <2> QED
    BY <1>6, <2>1 DEF GrantCreator, DriverShape, RefundShape, Holders
<1> QED
  BY <1>2, <1>3, <1>4, <1>5, <1>6 DEF Export

(* Where a driver goes from a request it is at work on.                    *)
LEMMA DriverMoves ==
    ASSUME DriverShape, NEW d \in Drivers, driver[d].pc # "idle", NEW pc \in DriverPc,
           (pc # "idle" /\ DriverAt(d, pc)) \/ DriverEnds(d) \/ TakeUp(d, pc)
    PROVE  DriverShape'
<1>1. CASE DriverEnds(d)
  BY <1>1 DEF DriverEnds, DriverShape, RunRecord, NoRun, DriverPc
<1>2. CASE pc # "idle" /\ DriverAt(d, pc)
  BY <1>2 DEF DriverAt, DriverShape, RunRecord
<1> QED
  BY <1>1, <1>2 DEF TakeUp

LEMMA AdvanceTypes ==
    ASSUME Types, NEW d \in Drivers, NEW from \in DriverPc \ {"idle"}, NEW step \in Step,
           NEW pc \in DriverPc, Advance(d, from, step, pc)
    PROVE  Types'
<1> USE DEF Types, chain, access, requests, counts
<1>1. DriverShape'
  BY DriverMoves DEF Advance
<1>2. driver[d].o \in Orders
  BY DEF Advance, DriverShape, RunRecord
<1>3. saga' \in [Orders -> Step \cup {"none", "refunded"}] /\ cause' \in [Orders -> SUBSET Causes]
  BY <1>2 DEF Advance, Blame, Causes
<1> QED
  BY <1>1, <1>3 DEF Advance, RefundShape

LEMMA DriverTypes == ASSUME Types, NEW d \in Drivers, Run(d) PROVE Types'
<1> USE DEF Types, chain, access, requests, counts
<1>1. driver[d].pc # "idle" => driver[d].o \in Orders /\ BuyerOf[driver[d].o] \in Buyers
  BY TitleAssumption DEF DriverShape, RunRecord
<1>2. ASSUME NEW o \in Orders, Execute(d, o) \/ Submit(d, o) PROVE Types'
  <2>1. \E call \in {"execute", "submit"} : StartRun(d, o, call)
    BY <1>2 DEF Execute, Submit
  <2>2. DriverShape' /\ cause' \in [Orders -> SUBSET Causes]
    BY <2>1, TitleAssumption DEF StartRun, Blame, DriverShape, RunRecord, DriverPc, Causes
  <2> QED
    BY <2>1, <2>2 DEF StartRun, RefundShape
<1>3. CASE Load(d)
  <2>1. \A call, step : ResumeAt(call, step) \in DriverPc
    BY DEF ResumeAt, DriverPc
  <2>2. DriverShape'
    BY <1>3, <2>1, DriverMoves DEF Load
  <2>3. saga' \in [Orders -> Step \cup {"none", "refunded"}]
    BY <1>1, <1>3, StepNames DEF Load
  <2> QED
    BY <1>3, <2>2, <2>3 DEF Load, RefundShape
<1>3a. CASE LoadUnread(d)
  <2>1. \A step : ResumeAt("execute", step) \in DriverPc
    BY DEF ResumeAt, DriverPc
  <2>2. DriverShape'
    BY <1>3a, <2>1, DriverMoves DEF LoadUnread
  <2>3. cause' \in [Orders -> SUBSET Causes]
    BY <1>1, <1>3a DEF LoadUnread, Blame, Causes
  <2> QED
    BY <1>3a, <2>2, <2>3 DEF LoadUnread, RefundShape
<1>4. CASE Rewrap(d) \/ CheckOwner(d) \/ Transfer(d) \/ Record(d) \/ MoveMirror(d)
           \/ MirrorFails(d) \/ RevokeOwner(d) \/ GrantBuyer(d)
  <2>1. DriverShape'
    BY <1>4, DriverMoves DEF Rewrap, CheckOwner, Transfer, Record, MoveMirror, MirrorFails,
                             RevokeOwner, GrantBuyer, DriverPc
  <2>2. /\ pending' \subseteq Orders \cup {MintTx}
        /\ wraps' \subseteq Holders /\ owners' \subseteq Holders /\ audit' \subseteq Buyers
    BY <1>1, <1>4 DEF Rewrap, CheckOwner, Transfer, Record, MoveMirror, MirrorFails,
                      RevokeOwner, GrantBuyer, Holders
  <2>3. mirror' \in [status : {"none", "minted", "transferred"}, owner : Holders \cup {None}]
    BY <1>1, <1>4 DEF Rewrap, CheckOwner, Transfer, Record, MoveMirror, MirrorFails,
                      RevokeOwner, GrantBuyer, Holders
  <2> QED
    BY <1>4, <2>1, <2>2, <2>3 DEF Rewrap, CheckOwner, Transfer, Record, MoveMirror,
        MirrorFails, RevokeOwner, GrantBuyer, RefundShape
<1>5. CASE CheckLanded(d) \/ RemoveWraps(d)
  <2>1. DriverShape'
    BY <1>5, DriverMoves DEF CheckLanded, RemoveWraps, DriverPc
  <2>2. cause' \in [Orders -> SUBSET Causes]
    BY <1>1, <1>5 DEF CheckLanded, RemoveWraps, Blame, Causes
  <2> QED
    BY <1>5, <2>1, <2>2 DEF CheckLanded, RemoveWraps, RefundShape
<1>6. ASSUME NEW from \in DriverPc \ {"idle"}, NEW step \in Step, NEW pc \in DriverPc,
             Advance(d, from, step, pc)
      PROVE  Types'
  BY <1>6, AdvanceTypes
<1>7. ResumeAt("execute", "paid") \in DriverPc
  BY DEF ResumeAt, DriverPc
<1> QED
  BY <1>2, <1>3, <1>3a, <1>4, <1>5, <1>6, <1>7, StepNames DEF Run, DriverPc

LEMMA OtherTypes ==
    ASSUME Types,
           \/ \E tx \in Orders \cup {MintTx} : Mine(tx) \/ Drop(tx)
           \/ \E o \in Orders : Pay(o)
           \/ \E d \in Drivers : DriverThrows(d)
           \/ \E r \in Refunds : Refund(r)
           \/ Crash
           \/ UNCHANGED vars
    PROVE  Types'
<1> USE DEF Types, chain, access, requests, counts
<1>1. ASSUME NEW tx \in Orders \cup {MintTx}, Mine(tx) \/ Drop(tx) PROVE Types'
  <2>1. tx # MintTx => BuyerOf[tx] \in Buyers
    BY TitleAssumption
  <2> QED
    BY <1>1, <2>1 DEF Mine, Drop, DriverShape, RefundShape, Holders
<1>2. ASSUME NEW o \in Orders, Pay(o) PROVE Types'
  BY <1>2 DEF Pay, DriverShape, RefundShape
<1>3. ASSUME NEW d \in Drivers, DriverThrows(d) PROVE Types'
  <2>1. DriverShape'
    BY <1>3, DriverMoves DEF DriverThrows, DriverPc
  <2> QED
    BY <1>3, <2>1 DEF DriverThrows, RefundShape
<1>4. ASSUME NEW r \in Refunds, Refund(r) PROVE Types'
  <2>1. refund[r].pc # "idle" => refund[r].o \in Orders
    BY DEF RefundShape, RefundRecord
  <2>2. ASSUME NEW o \in Orders, ReadOrder(r, o) PROVE Types'
    <3>1. RefundShape' /\ cause' \in [Orders -> SUBSET Causes]
      BY <2>2, TitleAssumption DEF ReadOrder, Blame, RefundShape, RefundRecord, Causes
    <3> QED
      BY <2>2, <3>1 DEF ReadOrder, DriverShape
  <2>3. CASE ReadSaga(r) \/ SagaUnread(r) \/ ReadTransfers(r) \/ TransfersUnread(r)
    <3>1. RefundShape'
      BY <2>3 DEF ReadSaga, SagaUnread, ReadTransfers, TransfersUnread, RefundAt, RefundEnds,
                  NoRefund, RefundShape, RefundRecord
    <3>2. cause' \in [Orders -> SUBSET Causes]
      BY <2>1, <2>3 DEF ReadSaga, SagaUnread, ReadTransfers, TransfersUnread, Blame, Causes
    <3> QED
      BY <2>3, <3>1, <3>2 DEF ReadSaga, SagaUnread, ReadTransfers, TransfersUnread, DriverShape
  <2>4. CASE AbortSaga(r) \/ MarkRefunding(r)
    <3>1. RefundShape'
      BY <2>4 DEF AbortSaga, MarkRefunding, RefundAt, RefundEnds, NoRefund, RefundShape,
                  RefundRecord
    <3>2. /\ saga' \in [Orders -> Step \cup {"none", "refunded"}]
          /\ status' \in [Orders -> {"unpaid", "paid", "refunding"}]
      BY <2>1, <2>4 DEF AbortSaga, MarkRefunding
    <3> QED
      BY <2>4, <3>1, <3>2 DEF AbortSaga, MarkRefunding, DriverShape
  <2> QED
    BY <1>4, <2>2, <2>3, <2>4 DEF Refund
<1>5. CASE Crash
  <2>1. DriverShape' /\ RefundShape' /\ export' \in [Exports -> ExportRecord]
    BY <1>5 DEF Crash, DriverShape, RefundShape, NoRun, NoRefund, NoExport, RunRecord,
                RefundRecord, ExportRecord, DriverPc
  <2> QED
    BY <1>5, <2>1 DEF Crash
<1>6. CASE UNCHANGED vars
  BY <1>6 DEF vars, DriverShape, RefundShape
<1> QED
  BY <1>1, <1>2, <1>3, <1>4, <1>5, <1>6

LEMMA TypesStep == Types /\ [Next]_vars => Types'
BY ExportTypes, DriverTypes, OtherTypes DEF Next

LEMMA MarksStep == ASSUME Types, Marks, [Next]_vars PROVE Marks'
<1> USE DEF Marks, chain, access, requests, counts
<1>1. \A d \in Drivers : driver[d].pc # "idle" => driver[d].o \in Orders
  BY DEF Types, DriverShape, RunRecord
<1>2. CASE \E tx \in Orders \cup {MintTx} : Mine(tx)
  BY <1>2 DEF Mine
<1>3. CASE \E d \in Drivers : CheckLanded(d) \/ DriverThrows(d)
  BY <1>1, <1>3 DEF CheckLanded, DriverThrows
<1>4. CASE Crash
  BY <1>1, <1>4 DEF Crash, Committing
<1>5. CASE sold' = sold /\ torn' \subseteq torn
  BY <1>5
<1> QED
  BY <1>2, <1>3, <1>4, <1>5 DEF Next, Drop, Pay, Export, StartExport, LookAtMirror, LookAtChain,
      Mint, WriteMirror, GrantCreator, Run, Execute, Submit, StartRun, Load, LoadUnread, Rewrap,
      Advance, CheckOwner, Transfer, Record, MoveMirror, MirrorFails, RemoveWraps, RevokeOwner,
      GrantBuyer, Refund, ReadOrder, ReadSaga, SagaUnread, ReadTransfers, TransfersUnread,
      AbortSaga, MarkRefunding, vars

(* Type correctness: wraps, entitlements and audit rows are only ever held *)
(* under wallets of the title, and a request is at work exactly while it   *)
(* has an order.                                                           *)
THEOREM TitleTyping == Spec => []TypeOK
<1>1. Init => Types /\ Marks
  BY TypesInit DEF Init, Marks
<1>2. Types /\ Marks /\ [Next]_vars => (Types /\ Marks)'
  BY TypesStep, MarksStep
<1> QED
  BY <1>1, <1>2, TypesAreTypes, PTL DEF Spec

(***************************************************************************)
(* What every step keeps.                                                  *)
(***************************************************************************)
(* A sale adds before it revokes: what buyers hold, the audit trail, a     *)
(* title that has left the seller, and the record of what went wrong stay. *)
SaleKeeps ==
    /\ rail' = rail
    /\ wraps \cap Buyers \subseteq wraps' /\ owners \cap Buyers \subseteq owners'
    /\ Seller \notin wraps => Seller \notin wraps'
    /\ audit \subseteq audit' /\ (stale => stale')
    /\ owner \in Buyers => owner' = owner
    /\ \A o \in Orders : cause[o] \subseteq cause'[o]
    /\ audit # {} /\ (Seller \notin owners \/ stale) => Seller \notin owners' \/ stale'
    /\ audit # {} /\ (mirror.status # "minted" \/ stale)
          => mirror'.status # "minted" \/ stale'

LEMMA OneWay == ASSUME Types, [Next]_vars PROVE SaleKeeps
<1> USE DEF Types, SaleKeeps, chain, access, requests, counts
<1>1. CASE \E tx \in Orders \cup {MintTx} : Mine(tx) \/ Drop(tx)
  BY <1>1, TitleAssumption DEF Mine, Drop
<1>2. CASE \E o \in Orders : Pay(o)
  BY <1>2 DEF Pay
<1>3. ASSUME NEW e \in Exports, Export(e)
      PROVE  SaleKeeps
  <2>1. CASE StartExport(e) \/ LookAtMirror(e) \/ LookAtChain(e)
    BY <2>1 DEF StartExport, LookAtMirror, LookAtChain
  <2>2. CASE Mint(e)
    BY <2>2, TitleAssumption DEF Mint
  <2>3. CASE WriteMirror(e)
    BY <2>3 DEF WriteMirror
  <2>4. CASE GrantCreator(e)
    BY <2>4 DEF GrantCreator
  <2> QED
    BY <1>3, <2>1, <2>2, <2>3, <2>4 DEF Export
<1>4. ASSUME NEW d \in Drivers, Run(d) \/ DriverThrows(d)
      PROVE  SaleKeeps
  <2>1. driver[d].pc # "idle" => BuyerOf[driver[d].o] \in Buyers
    BY TitleAssumption DEF DriverShape, RunRecord
  <2>2. \A o \in Orders : cause[o] \subseteq cause'[o]
    BY <1>4 DEF Run, Execute, Submit, StartRun, Load, LoadUnread, Rewrap, Advance, CheckOwner,
        Transfer, CheckLanded, Record, MoveMirror, MirrorFails, RemoveWraps, RevokeOwner,
        GrantBuyer, DriverThrows, Blame
  <2>3. CASE Rewrap(d) \/ RemoveWraps(d) \/ RevokeOwner(d) \/ GrantBuyer(d) \/ Record(d)
             \/ MoveMirror(d) \/ MirrorFails(d)
    BY <2>1, <2>2, <2>3, TitleAssumption DEF Rewrap, RemoveWraps, RevokeOwner, GrantBuyer,
        Record, MoveMirror, MirrorFails
  <2>4. CASE UNCHANGED <<rail, owner, access, stale>>
    BY <2>2, <2>4
  <2> QED
    BY <1>4, <2>3, <2>4 DEF Run, Execute, Submit, StartRun, Load, LoadUnread, Advance,
        CheckOwner, Transfer, CheckLanded, DriverThrows
<1>5. CASE (\E r \in Refunds : Refund(r)) \/ Crash \/ UNCHANGED vars
  <2>1. UNCHANGED <<rail, owner, access, stale>>
    BY <1>5 DEF Refund, ReadOrder, ReadSaga, SagaUnread, ReadTransfers, TransfersUnread,
        AbortSaga, MarkRefunding, Crash, vars
  <2>2. \A o \in Orders : cause[o] \subseteq cause'[o]
    BY <1>5 DEF Refund, ReadOrder, ReadSaga, SagaUnread, ReadTransfers, TransfersUnread,
        AbortSaga, MarkRefunding, Crash, vars, Blame
  <2> QED
    BY <2>1, <2>2
<1> QED
  BY <1>1, <1>2, <1>3, <1>4, <1>5 DEF Next

(* A step of a driver that is at work leaves other drivers and orders      *)
(* alone.                                                                  *)
LEMMA RunFrame ==
    ASSUME Types, NEW d \in Drivers, driver[d].pc # "idle", Run(d) \/ DriverThrows(d)
    PROVE  /\ UNCHANGED <<status, refund, rail>>
           /\ \A e \in Drivers \ {d} : driver'[e] = driver[e]
           /\ driver'[d].o \in {driver[d].o, None} /\ (driver'[d].o = None => driver'[d].pc = "idle")
           /\ driver[d].o \in Orders
           /\ \A o \in Orders \ {driver[d].o} : saga'[o] = saga[o] /\ cause'[o] = cause[o]
<1> USE DEF Types, chain, access, requests, counts
<1>1. driver[d] \in RunRecord /\ driver[d].o \in Orders
  BY DEF DriverShape, RunRecord
<1>2. ASSUME NEW pc, DriverAt(d, pc) \/ DriverEnds(d) \/ TakeUp(d, pc)
      PROVE  /\ \A e \in Drivers \ {d} : driver'[e] = driver[e]
             /\ driver'[d].o \in {driver[d].o, None}
             /\ driver'[d].o = None => driver'[d].pc = "idle"
  <2>1. CASE DriverEnds(d)
    BY <2>1 DEF DriverEnds, DriverShape, NoRun
  <2>2. CASE DriverAt(d, pc)
    BY <1>1, <2>2, TitleAssumption DEF DriverAt, DriverShape, RunRecord
  <2> QED
    BY <1>2, <2>1, <2>2 DEF TakeUp
<1>3. /\ \A e \in Drivers \ {d} : driver'[e] = driver[e]
      /\ driver'[d].o \in {driver[d].o, None}
      /\ driver'[d].o = None => driver'[d].pc = "idle"
  BY <1>2 DEF Run, Execute, Submit, StartRun, Load, LoadUnread, Rewrap, Advance, CheckOwner,
      Transfer, CheckLanded, Record, MoveMirror, MirrorFails, RemoveWraps, RevokeOwner,
      GrantBuyer, DriverThrows
<1>4. \A o \in Orders \ {driver[d].o} : saga'[o] = saga[o] /\ cause'[o] = cause[o]
  BY <1>1 DEF Run, Execute, Submit, StartRun, Load, LoadUnread, Rewrap, Advance, CheckOwner,
      Transfer, CheckLanded, Record, MoveMirror, MirrorFails, RemoveWraps, RevokeOwner,
      GrantBuyer, DriverThrows, Blame
<1>5. UNCHANGED <<status, refund, rail>>
  BY DEF Run, Execute, Submit, StartRun, Load, LoadUnread, Rewrap, Advance, CheckOwner, Transfer,
      CheckLanded, Record, MoveMirror, MirrorFails, RemoveWraps, RevokeOwner, GrantBuyer,
      DriverThrows
<1> QED
  BY <1>1, <1>3, <1>4, <1>5

(* A driver that is not at work takes up an order.                         *)
LEMMA RunStarts ==
    ASSUME Types, NEW d \in Drivers, driver[d].pc = "idle", Run(d)
    PROVE  \E o \in Orders, call \in {"execute", "submit"} :
              /\ StartRun(d, o, call)
              /\ status[o] # "unpaid" /\ (call = "execute" => status[o] = "paid")
BY DEF Run, Execute, Submit, Load, LoadUnread, Rewrap, Advance, CheckOwner, Transfer,
       CheckLanded, Record, MoveMirror, MirrorFails, RemoveWraps, RevokeOwner, GrantBuyer

(***************************************************************************)
(* The key and the title change hands.                                     *)
(***************************************************************************)
(* What a sale has written stays written.                                  *)
LEMMA WrittenStays ==
    ASSUME Types, [Next]_vars, NEW o \in Orders
    PROVE  \A at : Written(o, at) => Written(o, at)'
<1>1. BuyerOf[o] \in Buyers /\ audit \subseteq Buyers
  BY TitleAssumption DEF Types
<1>2. SUFFICES ASSUME NEW at, Written(o, at) PROVE Written(o, at)'
  OBVIOUS
<1>3. at \in Mirrored => audit # {}
  BY <1>2 DEF Written, Recorded
<1>4. at \in Revoked => at \in Mirrored
  BY DEF Mirrored, Unwrapped
<1> QED
  BY <1>1, <1>2, <1>3, <1>4, OneWay DEF Written, AheadOf, SaleKeeps

(* The places before the first write.                                      *)
Fresh == {"idle", "none", "created", "refunded", "load", "rewrap"}

LEMMA FreshIsWritten == \A o, at : at \in Fresh => Written(o, at)
BY DEF Fresh, Written, Sealed, Landed, Recorded, Mirrored, Unwrapped, Revoked, Granted

(* A step after which an order is nowhere new, or only before the writes.  *)
LEMMA WrittenKept ==
    ASSUME Types, [Next]_vars, NEW o \in Orders, \A at \in Places(o) : Written(o, at),
           Places(o)' \subseteq Places(o) \cup Fresh
    PROVE  \A at \in Places(o)' : Written(o, at)'
<1>1. SUFFICES ASSUME NEW at \in Places(o)' PROVE Written(o, at)'
  OBVIOUS
<1>2. Written(o, at)
  BY <1>1, FreshIsWritten
<1> QED
  BY <1>2, WrittenStays

(* A driver at work moves its order from where they are.                   *)
LEMMA PlacesOfRun ==
    ASSUME Types, NEW d \in Drivers, driver[d].pc # "idle", Run(d) \/ DriverThrows(d),
           NEW o \in Orders
    PROVE  IF o = driver[d].o
           THEN /\ driver[d].pc \in Places(o) /\ saga[o] \in Places(o)
                /\ Places(o)' \subseteq Places(o) \cup {driver'[d].pc, saga'[o]}
           ELSE Places(o)' \subseteq Places(o)
<1>1. /\ driver'[d].o \in {driver[d].o, None}
      /\ \A e \in Drivers \ {d} : driver'[e] = driver[e]
      /\ o # driver[d].o => saga'[o] = saga[o]
  BY RunFrame
<1>2. o # None
  BY TitleAssumption
<1> QED
  BY <1>1, <1>2 DEF Places, DrivenBy

LEMMA WrittenRun ==
    ASSUME Types, [Next]_vars, NEW d \in Drivers, driver[d].pc # "idle", Run(d),
           NEW o \in Orders, o = driver[d].o, \A at \in Places(o) : Written(o, at)
    PROVE  \A at \in Places(o)' : Written(o, at)'
<1> USE DEF chain, access, requests, counts
<1>1. /\ o = driver[d].o /\ driver'[d].o \in {o, None}
      /\ Places(o)' \subseteq Places(o) \cup {driver'[d].pc, saga'[o]}
  BY PlacesOfRun, RunFrame
<1>2. /\ driver \in [Drivers -> RunRecord] /\ saga \in [Orders -> Step \cup {"none", "refunded"}]
      /\ BuyerOf[o] \in Buyers /\ Seller \notin Buyers
  BY TitleAssumption DEF Types, DriverShape
<1>3. Written(o, driver[d].pc) /\ Written(o, saga[o])
  BY <1>1, PlacesOfRun
<1>4. PICK was \in DriverPc : was = driver[d].pc
  BY <1>2 DEF RunRecord
<1>5. \A at : Written(o, at) => Written(o, at)'
  BY WrittenStays
<1>6. SUFFICES ASSUME NEW at \in {driver'[d].pc, saga'[o]} \ Fresh, at \notin Places(o)
               PROVE  Written(o, at)'
  <2>1. ASSUME NEW at \in Places(o)' PROVE Written(o, at)'
    <3>1. CASE at \in Places(o)
      BY <1>1, <1>5, <3>1
    <3>2. CASE at \in Fresh
      BY <1>5, <3>2, FreshIsWritten
    <3>3. CASE at \notin Places(o) \cup Fresh
      BY <1>1, <1>6, <2>1, <3>3
    <3> QED
      BY <3>1, <3>2, <3>3
  <2> QED
    BY <1>1, <2>1
<1>7. at # saga[o] /\ at # driver[d].pc
  BY <1>1, <1>6, PlacesOfRun
<1> USE DEF Fresh, Sealed, Landed, Recorded, Mirrored, Unwrapped, Revoked, Granted
<1>8. ASSUME NEW pc, TakeUp(d, pc) \/ DriverAt(d, pc) \/ DriverEnds(d)
      PROVE  driver'[d].pc \in {pc, "idle"}
  BY <1>2, <1>8 DEF TakeUp, DriverAt, DriverEnds, RunRecord, NoRun
<1>9. CASE Load(d)
  <2> DEFINE create == saga[o] = "none" /\ driver[d].call = "execute"
             step == IF create THEN "created" ELSE saga[o]
             pc == ResumeAt(driver[d].call, step)
  <2>1. saga'[o] = step /\ driver'[d].pc \in {pc, "idle"}
    BY <1>1, <1>2, <1>8, <1>9 DEF Load
  <2>2. at = pc
    BY <1>6, <1>7, <2>1
  <2>3. \/ saga[o] = "dek_rewrapped" /\ pc = "confirm"
        \/ saga[o] = "paid" /\ pc = "check"
        \/ saga[o] = "transferred" /\ pc = "unwrap"
    BY <1>6, <2>2 DEF ResumeAt
  <2>4. Written(o, at)
    BY <1>3, <2>2, <2>3 DEF Written
  <2> QED
    BY <1>5, <2>4
<1>10. CASE Rewrap(d)
  BY <1>1, <1>2, <1>6, <1>7, <1>8, <1>10 DEF Rewrap, Written
<1>11. CASE CheckOwner(d)
  <2>1. UNCHANGED <<rail, owner, wraps>> /\ BuyerOf[o] \in wraps
    BY <1>3, <1>11 DEF CheckOwner, Written
  <2>2. at = "transfer" \/ (at = "record" /\ owner = BuyerOf[o])
    BY <1>1, <1>6, <1>7, <1>8, <1>11 DEF CheckOwner
  <2> QED
    BY <2>1, <2>2 DEF Written
<1>12. CASE Transfer(d)
  <2>1. UNCHANGED <<rail, wraps>> /\ BuyerOf[o] \in wraps
    BY <1>3, <1>12 DEF Transfer, Written
  <2>2. at = "landed" \/ (at = "record" /\ rail = "base")
    BY <1>1, <1>6, <1>7, <1>8, <1>12 DEF Transfer
  <2> QED
    BY <2>1, <2>2 DEF Written
<1>13. CASE CheckLanded(d)
  <2>1. UNCHANGED <<rail, owner, wraps>> /\ BuyerOf[o] \in wraps
    BY <1>3, <1>13 DEF CheckLanded, Written
  <2>2. at = "record" /\ owner = BuyerOf[o]
    BY <1>1, <1>6, <1>7, <1>8, <1>13 DEF CheckLanded
  <2> QED
    BY <2>1, <2>2 DEF Written
<1>14. CASE Record(d) \/ MoveMirror(d) \/ MirrorFails(d)
  <2>1. Written(o, was)'
    BY <1>3, <1>4, <1>5
  <2>2. CASE Record(d)
    <3>1. at = "mirror" /\ BuyerOf[o] \in audit' /\ was = "record"
      BY <1>1, <1>4, <1>6, <1>7, <1>8, <2>2 DEF Record
    <3> QED
      BY <2>1, <3>1 DEF Written
  <2>3. CASE MoveMirror(d) \/ MirrorFails(d)
    <3>1. /\ at = "moved" /\ was = "mirror"
          /\ mirror'.status # "minted" \/ stale'
      BY <1>1, <1>4, <1>6, <1>7, <1>8, <2>3 DEF MoveMirror, MirrorFails
    <3> QED
      BY <2>1, <3>1 DEF Written
  <2> QED
    BY <1>14, <2>2, <2>3
<1>15. CASE RemoveWraps(d)
  <2>1. at = "revoke" /\ driver[d].pc = "unwrap"
    BY <1>1, <1>6, <1>7, <1>8, <1>15 DEF RemoveWraps
  <2>2. Written(o, "unwrap")'
    BY <1>3, <1>5, <2>1
  <2>3. Seller \notin wraps' /\ UNCHANGED <<rail, owner>>
    BY <1>15 DEF RemoveWraps
  <2>4. owner = BuyerOf[o] \/ AheadOf(o)'
    <3>1. rail \in {"base", "solana"} /\ cause \in [Orders -> SUBSET Causes]
      BY DEF Types
    <3> QED
      BY <1>1, <1>3, <1>15, <2>1, <3>1 DEF RemoveWraps, Blame, AheadOf, Written
  <2> QED
    BY <2>1, <2>2, <2>3, <2>4 DEF Written
<1>16. CASE RevokeOwner(d) \/ GrantBuyer(d)
  <2>1. Written(o, was)'
    BY <1>3, <1>4, <1>5
  <2>2. \/ at = "grant" /\ was = "revoke" /\ Seller \notin owners'
        \/ at = "granted" /\ was = "grant" /\ BuyerOf[o] \in owners'
    BY <1>1, <1>4, <1>6, <1>7, <1>8, <1>16 DEF RevokeOwner, GrantBuyer
  <2> QED
    BY <2>1, <2>2 DEF Written
<1>17. ASSUME NEW from, NEW step, NEW pc, Advance(d, from, step, pc)
       PROVE  driver[d].pc = from /\ at \in {step, pc}
  BY <1>1, <1>2, <1>6, <1>7, <1>8, <1>17 DEF Advance
<1>18. CASE Advance(d, "rewrapped", "dek_rewrapped", "confirm")
            \/ Advance(d, "confirm", "paid", ResumeAt("execute", "paid"))
            \/ Advance(d, "moved", "transferred", "unwrap")
            \/ Advance(d, "granted", "revoked", "idle")
  <2>1. \/ driver[d].pc = "rewrapped" /\ at \in {"dek_rewrapped", "confirm"}
        \/ driver[d].pc = "confirm" /\ at \in {"paid", "check"}
        \/ driver[d].pc = "moved" /\ at \in {"transferred", "unwrap"}
        \/ driver[d].pc = "granted" /\ at = "revoked"
    BY <1>6, <1>17, <1>18 DEF ResumeAt
  <2>2. Written(o, at)
    BY <1>3, <2>1 DEF Written
  <2> QED
    BY <1>5, <2>2
<1>19. \A p, call : ~StartRun(d, p, call)
  BY DEF StartRun
<1>20. CASE LoadUnread(d)
  <2>1. driver'[d].pc \in {"rewrap", "idle"} /\ saga'[o] = saga[o]
    BY <1>8, <1>20 DEF LoadUnread, ResumeAt
  <2> QED
    BY <1>6, <1>7, <2>1
<1> QED
  BY <1>9, <1>10, <1>11, <1>12, <1>13, <1>14, <1>15, <1>16, <1>18, <1>19, <1>20
  DEF Run, Execute, Submit

LEMMA WrittenStep == ASSUME Types, WrittenInv, [Next]_vars PROVE WrittenInv'
<1> USE DEF chain, access, requests, counts
<1>1. SUFFICES ASSUME NEW o \in Orders PROVE \A at \in Places(o)' : Written(o, at)'
  BY DEF WrittenInv
<1>2. /\ \A at \in Places(o) : Written(o, at)
      /\ driver \in [Drivers -> RunRecord] /\ saga \in [Orders -> Step \cup {"none", "refunded"}]
      /\ o # None
  BY <1>1, TitleAssumption DEF WrittenInv, Types, DriverShape
<1>3. ASSUME NEW d \in Drivers, Run(d) \/ DriverThrows(d), driver[d].pc # "idle"
      PROVE  \A at \in Places(o)' : Written(o, at)'
  <2>1. CASE o # driver[d].o \/ DriverThrows(d)
    <3>1. DriverThrows(d) => driver'[d].pc = "idle" /\ saga' = saga
      BY <1>2 DEF DriverThrows, DriverEnds, NoRun
    <3>2. Places(o)' \subseteq Places(o) \cup Fresh
      <4>1. saga[o] \in Places(o)
        BY DEF Places
      <4> QED
        BY <1>2, <1>3, <2>1, <3>1, <4>1, PlacesOfRun DEF Fresh
    <3> QED
      BY <1>2, <3>2, WrittenKept
  <2>2. CASE o = driver[d].o /\ Run(d)
    BY <1>2, <1>3, <2>2, WrittenRun
  <2> QED
    BY <1>3, <2>1, <2>2
<1>4. ASSUME NEW d \in Drivers, Run(d), driver[d].pc = "idle"
      PROVE  \A at \in Places(o)' : Written(o, at)'
  <2>1. PICK p \in Orders, call \in {"execute", "submit"} : StartRun(d, p, call)
    BY <1>4, RunStarts
  <2>2. Places(o)' \subseteq Places(o) \cup Fresh
    BY <1>2, <1>4, <2>1 DEF StartRun, Places, DrivenBy, Fresh
  <2> QED
    BY <1>2, <2>2, WrittenKept
<1>5. CASE ~\E d \in Drivers : Run(d) \/ DriverThrows(d)
  <2>1. Places(o)' \subseteq Places(o) \cup Fresh
    <3>1. CASE \E r \in Refunds : AbortSaga(r)
      BY <1>2, <3>1 DEF AbortSaga, Places, DrivenBy, Fresh
    <3>2. CASE Crash
      BY <1>2, <3>2 DEF Crash, Places, DrivenBy, NoRun
    <3>3. CASE UNCHANGED <<saga, driver>>
      BY <3>3 DEF Places, DrivenBy
    <3> QED
      BY <1>5, <3>1, <3>2, <3>3 DEF Next, Mine, Drop, Pay, Export, StartExport, LookAtMirror,
          LookAtChain, Mint, WriteMirror, GrantCreator, Refund, ReadOrder, ReadSaga,
          SagaUnread, ReadTransfers, TransfersUnread, MarkRefunding, vars
  <2> QED
    BY <1>2, <2>1, WrittenKept
<1>6. \A d \in Drivers : DriverThrows(d) => driver[d].pc # "idle"
  BY DEF DriverThrows
<1> QED
  BY <1>1, <1>3, <1>4, <1>5, <1>6

LEMMA WrittenInit == Init => WrittenInv
BY TitleAssumption
DEF Init, WrittenInv, Places, DrivenBy, NoRun, Written, Sealed, Landed, Recorded, Mirrored,
    Unwrapped, Revoked, Granted

(* A driver that transfers the title or takes the seller's wrap has sealed *)
(* the key to the buyer before.                                            *)
LEMMA KeyStep == ASSUME Types, WrittenInv, KeyInv, [Next]_vars PROVE KeyInv'
<1> USE DEF chain, access, requests, counts
<1>1. /\ \A o \in Orders : BuyerOf[o] \in Buyers
      /\ Seller \notin Buyers /\ None \notin Buyers
      /\ driver \in [Drivers -> RunRecord] /\ rail \in {"base", "solana"}
      /\ cause \in [Orders -> SUBSET Causes]
  BY TitleAssumption DEF Types, DriverShape
<1>2. /\ wraps \cap Buyers \subseteq wraps' /\ (owner \in Buyers => owner' = owner)
      /\ \A o \in Orders : AheadOf(o) => AheadOf(o)'
  BY OneWay DEF SaleKeeps, AheadOf
<1>3. ASSUME NEW d \in Drivers, driver[d].pc # "idle"
      PROVE  driver[d].o \in Orders /\ Written(driver[d].o, driver[d].pc)
  BY <1>3 DEF WrittenInv, Places, DrivenBy, Types, DriverShape, RunRecord
<1>4. \A o \in Orders : o \in pending' => BuyerOf[o] \in wraps
  <2>1. ASSUME NEW d \in Drivers, Transfer(d)
        PROVE  BuyerOf[driver[d].o] \in wraps /\ pending' \subseteq pending \cup {driver[d].o}
    BY <1>3, <2>1 DEF Transfer, Written, Sealed
  <2>2. CASE \E d \in Drivers : Transfer(d)
    BY <2>1, <2>2 DEF KeyInv
  <2>3. CASE pending' \subseteq pending \cup {MintTx}
    BY <2>3, TitleAssumption DEF KeyInv, MintTx
  <2> QED
    BY <2>2, <2>3 DEF Next, Mine, Drop, Pay, Export, StartExport, LookAtMirror, LookAtChain,
        Mint, WriteMirror, GrantCreator, Run, Execute, Submit, StartRun, Load, LoadUnread,
        Rewrap, Advance, CheckOwner, CheckLanded, Record, MoveMirror, MirrorFails, RemoveWraps,
        RevokeOwner, GrantBuyer, DriverThrows, Refund, ReadOrder, ReadSaga, SagaUnread,
        ReadTransfers, TransfersUnread, AbortSaga, MarkRefunding, Crash, vars
<1>5. owner' \in Buyers => owner' \in wraps
  <2>1. CASE \E tx \in Orders \cup {MintTx} : Mine(tx)
    BY <1>1, <2>1 DEF Mine, KeyInv
  <2>2. CASE \E e \in Exports : Mint(e)
    BY <1>1, <2>2 DEF Mint, KeyInv
  <2>3. CASE owner' = owner
    BY <2>3 DEF KeyInv
  <2> QED
    BY <2>1, <2>2, <2>3 DEF Next, Drop, Pay, Export, StartExport, LookAtMirror, LookAtChain,
        WriteMirror, GrantCreator, Run, Execute, Submit, StartRun, Load, LoadUnread, Rewrap,
        Advance, CheckOwner, Transfer, CheckLanded, Record, MoveMirror, MirrorFails, RemoveWraps,
        RevokeOwner, GrantBuyer, DriverThrows, Refund, ReadOrder, ReadSaga, SagaUnread,
        ReadTransfers, TransfersUnread, AbortSaga, MarkRefunding, Crash, vars
<1>6. Seller \in wraps' \/ owner' \in Buyers \/ \E o \in Orders : AheadOf(o)'
  <2>1. ASSUME NEW d \in Drivers, RemoveWraps(d), owner \notin Buyers
        PROVE  \E o \in Orders : AheadOf(o)'
    <3>1. PICK o \in Orders : o = driver[d].o
      BY <1>3, <2>1 DEF RemoveWraps
    <3>2. owner # BuyerOf[o]
      BY <1>1, <2>1
    <3>3. rail = "base"
      BY <1>1, <1>3, <2>1, <3>1, <3>2 DEF RemoveWraps, Written, Landed, Recorded, Mirrored
    <3> QED
      BY <1>1, <2>1, <3>1, <3>2, <3>3 DEF RemoveWraps, Blame, AheadOf
  <2>2. CASE \E d \in Drivers : RemoveWraps(d)
    BY <1>2, <2>1, <2>2
  <2>3. CASE wraps \subseteq wraps'
    BY <1>2, <2>3 DEF KeyInv
  <2> QED
    BY <2>2, <2>3 DEF Next, Mine, Drop, Pay, Export, StartExport, LookAtMirror, LookAtChain,
        Mint, WriteMirror, GrantCreator, Run, Execute, Submit, StartRun, Load, LoadUnread,
        Rewrap, Advance, CheckOwner, Transfer, CheckLanded, Record, MoveMirror, MirrorFails,
        RevokeOwner, GrantBuyer, DriverThrows, Refund, ReadOrder, ReadSaga, SagaUnread,
        ReadTransfers, TransfersUnread, AbortSaga, MarkRefunding, Crash, vars
<1> QED
  BY <1>1, <1>2, <1>4, <1>5, <1>6 DEF KeyInv

(* There is never a gap: whoever the chain shows as the owner can open the *)
(* pack, and a sale that ran to its end has left the seller nothing, but   *)
(* for Base transfers that are not mined and exports that finish late.     *)
THEOREM TitleHandsOver == Spec => []HandOver
<1>1. Types /\ WrittenInv /\ KeyInv => HandOver
  <2>1. SUFFICES ASSUME Types, WrittenInv, KeyInv PROVE HandOver
    OBVIOUS
  <2>2. OwnerCanDecrypt
    BY <2>1 DEF Types, Holders, KeyInv, OwnerCanDecrypt, AheadOf
  <2>3. ASSUME NEW o \in Orders, saga[o] = "revoked" PROVE Written(o, "revoked")
    BY <2>1, <2>3 DEF WrittenInv, Places
  <2>4. SaleHandsOver
    BY <2>3 DEF SaleHandsOver, Written, Sealed, Landed, Recorded, Mirrored, Unwrapped, Revoked,
                Granted, AheadOf
  <2> QED
    BY <2>2, <2>4 DEF HandOver
<1>2. Init => Types /\ WrittenInv /\ KeyInv
  BY TypesInit, WrittenInit, TitleAssumption DEF Init, KeyInv
<1>3. Types /\ WrittenInv /\ KeyInv /\ [Next]_vars => (Types /\ WrittenInv /\ KeyInv)'
  BY TypesStep, WrittenStep, KeyStep
<1> QED
  BY <1>1, <1>2, <1>3, PTL DEF Spec

(***************************************************************************)
(* Drivers and refunds of one order.                                       *)
(***************************************************************************)
(* A step of neither a driver nor a refund starts none.                    *)
LEMMA OthersStart ==
    ASSUME Types, [Next]_vars, NEW o \in Orders,
           ~\E d \in Drivers : Run(d), ~\E r \in Refunds : Refund(r)
    PROVE  /\ saga' = saga /\ (status'[o] # "refunding" \/ status'[o] = status[o])
           /\ DrivenBy(o)' \subseteq DrivenBy(o) /\ RefundedBy(o)' \subseteq RefundedBy(o)
           /\ \A d \in DrivenBy(o)' : driver'[d] = driver[d]
           /\ \A r \in RefundedBy(o)' : refund'[r] = refund[r]
<1> USE DEF chain, access, requests, counts
<1>1. o # None /\ status \in [Orders -> {"unpaid", "paid", "refunding"}]
  BY TitleAssumption DEF Types
<1>2. CASE UNCHANGED <<saga, status, driver, refund>>
  BY <1>2 DEF DrivenBy, RefundedBy
<1>3. ASSUME NEW p \in Orders, Pay(p)
      PROVE  UNCHANGED <<saga, driver, refund>>
             /\ (status'[o] # "refunding" \/ status'[o] = status[o])
  BY <1>1, <1>3 DEF Pay
<1>4. ASSUME NEW d \in Drivers, DriverThrows(d)
      PROVE  /\ UNCHANGED <<saga, status, refund>>
             /\ DrivenBy(o)' \subseteq DrivenBy(o)
             /\ \A e \in DrivenBy(o)' : driver'[e] = driver[e]
  BY <1>1, <1>4 DEF DriverThrows, DriverEnds, NoRun, DrivenBy, Types, DriverShape
<1>5. CASE Crash
  BY <1>1, <1>5 DEF Crash, NoRun, NoRefund, DrivenBy, RefundedBy
<1> QED
  BY <1>2, <1>3, <1>4, <1>5 DEF Next, Mine, Drop, Pay, Export, StartExport, LookAtMirror,
      LookAtChain, Mint, WriteMirror, GrantCreator, vars, DrivenBy, RefundedBy

LEMMA RaceStep == ASSUME Types, RaceInv, [Next]_vars PROVE RaceInv'
<1> USE DEF chain, access, requests, counts
<1>1. SUFFICES ASSUME NEW o \in Orders, "raced" \notin cause'[o] PROVE Guarded(o)'
  BY DEF RaceInv
<1>2. /\ Guarded(o) /\ o # None /\ ("unread" \in cause[o] => "unread" \in cause'[o])
      /\ DriverShape /\ RefundShape /\ saga \in [Orders -> Step \cup {"none", "refunded"}]
      /\ status \in [Orders -> {"unpaid", "paid", "refunding"}]
      /\ cause \in [Orders -> SUBSET Causes]
  BY <1>1, OneWay, TitleAssumption DEF SaleKeeps, RaceInv, Types
<1>3. ASSUME NEW d \in Drivers, Run(d), driver[d].pc = "idle" PROVE Guarded(o)'
  <2>1. PICK p \in Orders, call \in {"execute", "submit"} :
           StartRun(d, p, call) /\ (call = "execute" => status[p] = "paid")
    BY <1>3, RunStarts
  <2>2. /\ UNCHANGED <<saga, status, refund>>
        /\ driver' = [driver EXCEPT ![d] = [pc |-> "load", o |-> p, call |-> call]]
        /\ p = o => RefundedBy(o) = {}
    BY <1>1, <1>2, <2>1 DEF StartRun, Blame
  <2>3. /\ d \notin DrivenBy(o) /\ RefundedBy(o)' = RefundedBy(o)
        /\ DrivenBy(o)' = IF p = o THEN DrivenBy(o) \cup {d} ELSE DrivenBy(o)
        /\ driver'[d] = [pc |-> "load", o |-> p, call |-> call]
        /\ \A e \in DrivenBy(o) : driver'[e] = driver[e]
    BY <1>2, <1>3, <2>2 DEF DrivenBy, RefundedBy, DriverShape
  <2> QED
    BY <1>2, <2>1, <2>2, <2>3 DEF Guarded, Shut, Unraced
<1>4. ASSUME NEW d \in Drivers, Run(d), driver[d].pc # "idle" PROVE Guarded(o)'
  <2>1. /\ UNCHANGED <<status, refund>>
        /\ \A e \in Drivers \ {d} : driver'[e] = driver[e]
        /\ driver'[d].o \in {driver[d].o, None}
        /\ o # driver[d].o => saga'[o] = saga[o]
    BY <1>4, RunFrame
  <2>2. CASE o # driver[d].o
    <3>1. DrivenBy(o)' = DrivenBy(o) /\ d \notin DrivenBy(o) /\ RefundedBy(o)' = RefundedBy(o)
      BY <1>2, <2>1, <2>2 DEF DrivenBy, RefundedBy
    <3> QED
      BY <1>2, <2>1, <2>2, <3>1 DEF Guarded, Shut, Unraced, DrivenBy
  <2>3. CASE o = driver[d].o
    <3>1. d \in DrivenBy(o) /\ RefundedBy(o)' = {}
      BY <1>2, <2>1, <2>3 DEF DrivenBy, RefundedBy, Guarded, Unraced
    <3>2. Unraced(o)'
      BY <3>1 DEF Unraced
    <3>3. ASSUME "unread" \notin cause'[o] PROVE Shut(o)'
      <4>1. Shut(o)
        BY <1>2, <3>3 DEF Guarded
      <4>2. CASE status[o] # "refunding"
        BY <2>1, <3>1, <4>2 DEF Shut
      <4>3. CASE status[o] = "refunding"
        <5>1. /\ driver[d].pc = "load" /\ driver[d].call = "submit"
              /\ saga[o] \in {"none", "refunded"}
          BY <3>1, <4>1, <4>3 DEF Shut
        <5>2. Load(d)
          BY <1>4, <5>1 DEF Run, Execute, Submit, StartRun, LoadUnread, Rewrap, Advance,
              CheckOwner, Transfer, CheckLanded, Record, MoveMirror, MirrorFails, RemoveWraps,
              RevokeOwner, GrantBuyer
        <5>3. saga'[o] = saga[o] /\ DriverEnds(d)
          BY <1>2, <2>3, <5>1, <5>2 DEF Load, TakeUp, ResumeAt
        <5>4. DrivenBy(o)' \subseteq DrivenBy(o) \ {d}
          BY <1>2, <2>1, <5>3 DEF DriverEnds, NoRun, DrivenBy, DriverShape
        <5>5. \A e \in DrivenBy(o)' : driver'[e] = driver[e] /\ e \in DrivenBy(o)
          BY <2>1, <5>4 DEF DrivenBy
        <5> QED
          BY <2>1, <3>1, <4>1, <4>3, <5>3, <5>5 DEF Shut
      <4> QED
        BY <4>2, <4>3
    <3> QED
      BY <3>2, <3>3 DEF Guarded
  <2> QED
    BY <2>2, <2>3
<1>5. ASSUME NEW r \in Refunds, Refund(r) PROVE Guarded(o)'
  <2>1. driver' = driver /\ DrivenBy(o)' = DrivenBy(o)
    BY <1>5 DEF Refund, ReadOrder, ReadSaga, SagaUnread, ReadTransfers, TransfersUnread,
        AbortSaga, MarkRefunding, DrivenBy
  <2>2. ASSUME NEW p \in Orders, ReadOrder(r, p) PROVE Guarded(o)'
    <3>1. /\ UNCHANGED <<saga, status>> /\ (p = o => DrivenBy(o) = {})
          /\ refund' = [refund EXCEPT ![r] = [pc |-> "saga", o |-> p, read |-> status[p]]]
      BY <1>1, <1>2, <2>2 DEF ReadOrder, Blame
    <3>2. \A s \in RefundedBy(o)' : \/ s = r /\ p = o /\ refund'[s].pc = "saga"
                                    \/ s \in RefundedBy(o) /\ refund'[s] = refund[s]
      BY <1>2, <3>1 DEF RefundedBy, RefundShape
    <3> QED
      BY <1>2, <2>1, <3>1, <3>2 DEF Guarded, Shut, Unraced
  <2>3. CASE ReadSaga(r) \/ SagaUnread(r) \/ ReadTransfers(r) \/ TransfersUnread(r)
    <3>1. /\ UNCHANGED <<saga, status>>
          /\ \A s \in Refunds \ {r} : refund'[s] = refund[s]
          /\ refund'[r].o = refund[r].o \/ refund'[r].o = None
      BY <1>2, <2>3 DEF ReadSaga, SagaUnread, ReadTransfers, TransfersUnread, RefundAt,
                        RefundEnds, NoRefund, RefundShape, RefundRecord
    <3>2. refund'[r].o = o =>
            /\ refund'[r].pc = "abort" => saga[o] \notin SOLANA_FINAL_STEPS
            /\ refund'[r].pc \in {"audit", "order"} =>
                  \/ saga[o] \in {"none", "refunded"} \/ "unread" \in cause'[o]
                  \/ refund[r].o = o /\ refund[r].pc = "audit"
      <4>1. CASE ReadSaga(r)
        BY <1>2, <2>3, <4>1 DEF ReadSaga, RefundAt, RefundEnds, NoRefund, TitleFinal,
                                RefundShape, RefundRecord
      <4>2. CASE SagaUnread(r)
        BY <1>2, <2>3, <4>2 DEF SagaUnread, RefundAt, Blame, RefundShape, RefundRecord
      <4>3. CASE ReadTransfers(r) \/ TransfersUnread(r)
        BY <1>2, <2>3, <4>3 DEF ReadTransfers, TransfersUnread, RefundAt, RefundEnds, NoRefund,
                                RefundShape, RefundRecord
      <4> QED
        BY <2>3, <4>1, <4>2, <4>3
    <3>3. RefundedBy(o)' \subseteq RefundedBy(o)
      BY <1>2, <3>1 DEF RefundedBy
    <3>4. Unraced(o)'
      <4>1. \A s \in RefundedBy(o)' :
               refund'[s].pc = "abort" => saga[o] \notin SOLANA_FINAL_STEPS
        BY <1>2, <3>1, <3>2, <3>3 DEF RefundedBy, Guarded, Unraced
      <4> QED
        BY <1>2, <2>1, <3>1, <3>3, <4>1 DEF Guarded, Unraced
    <3>5. ASSUME "unread" \notin cause'[o] PROVE Shut(o)'
      <4>1. Shut(o)
        BY <1>2, <3>5 DEF Guarded
      <4>2. \A s \in RefundedBy(o)' :
               refund'[s].pc \in {"audit", "order"} => saga[o] \in {"none", "refunded"}
        BY <3>1, <3>2, <3>3, <3>5, <4>1 DEF RefundedBy, Shut
      <4> QED
        BY <2>1, <3>1, <4>1, <4>2 DEF Shut
    <3> QED
      BY <3>4, <3>5 DEF Guarded
  <2>4. CASE AbortSaga(r)
    <3>1. /\ status' = status /\ saga' = [saga EXCEPT ![refund[r].o] = "refunded"]
          /\ refund' = [refund EXCEPT ![r].pc = "order"]
      BY <2>4 DEF AbortSaga, RefundAt
    <3>2. RefundedBy(o)' = RefundedBy(o)
      BY <1>2, <3>1 DEF RefundedBy, RefundShape, RefundRecord
    <3>3. CASE refund[r].o = o
      BY <1>2, <2>1, <3>1, <3>2, <3>3 DEF Guarded, Shut, Unraced, RefundedBy, SOLANA_FINAL_STEPS
    <3>4. CASE refund[r].o # o
      <4>1. saga'[o] = saga[o] /\ \A s \in RefundedBy(o) : refund'[s] = refund[s]
        BY <1>2, <3>1, <3>4 DEF RefundedBy, RefundShape
      <4> QED
        BY <1>2, <2>1, <3>1, <3>2, <4>1 DEF Guarded, Shut, Unraced
    <3> QED
      BY <3>3, <3>4
  <2>5. CASE MarkRefunding(r)
    <3>1. /\ saga' = saga /\ refund' = [refund EXCEPT ![r] = NoRefund]
          /\ status'[o] = status[o] \/ (r \in RefundedBy(o) /\ refund[r].pc = "order")
      BY <1>2, <2>5 DEF MarkRefunding, RefundEnds, RefundedBy
    <3>2. \A s \in RefundedBy(o)' : s \in RefundedBy(o) /\ refund'[s] = refund[s]
      BY <1>2, <3>1 DEF RefundedBy, RefundShape, NoRefund
    <3> QED
      BY <1>2, <2>1, <3>1, <3>2 DEF Guarded, Shut, Unraced
  <2> QED
    BY <1>5, <2>2, <2>3, <2>4, <2>5 DEF Refund
<1>6. CASE ~(\E d \in Drivers : Run(d)) /\ ~\E r \in Refunds : Refund(r)
  BY <1>2, <1>6, OthersStart DEF Guarded, Shut, Unraced
<1> QED
  BY <1>3, <1>4, <1>5, <1>6

LEMMA RaceInit == Init => RaceInv
BY TitleAssumption DEF Init, RaceInv, Guarded, Shut, Unraced, DrivenBy, RefundedBy, NoRun,
    NoRefund

(* A step of a refund takes a saga it may abort, or none at all.           *)
LEMMA RefundWrites ==
    ASSUME Types, RaceInv, NEW r \in Refunds, Refund(r), NEW o \in Orders,
           "raced" \notin cause[o], saga'[o] # saga[o]
    PROVE  saga'[o] = "refunded" /\ saga[o] \notin SOLANA_FINAL_STEPS /\ DrivenBy(o) = {}
<1>1. AbortSaga(r)
  BY DEF Refund, ReadOrder, ReadSaga, SagaUnread, ReadTransfers, TransfersUnread, MarkRefunding
<1>2. saga \in [Orders -> Step \cup {"none", "refunded"}] /\ Unraced(o)
  BY DEF Types, RaceInv, Guarded
<1>3. refund[r].o = o /\ saga'[o] = "refunded" /\ refund[r].pc = "abort"
  BY <1>1, <1>2 DEF AbortSaga
<1> QED
  BY <1>2, <1>3 DEF Unraced, RefundedBy

LEMMA LoneStep == ASSUME Types, RaceInv, LoneInv, [Next]_vars PROVE LoneInv'
<1> USE DEF chain, access, requests, counts
<1>1. SUFFICES ASSUME NEW o \in Orders, cause'[o] \cap {"raced", "twin", "blind"} = {}
               PROVE  LoneDriver(o)'
  BY DEF LoneInv
<1>2. /\ LoneDriver(o) /\ o # None /\ "raced" \notin cause[o]
      /\ DriverShape /\ saga \in [Orders -> Step \cup {"none", "refunded"}]
      /\ cause \in [Orders -> SUBSET Causes]
  BY <1>1, OneWay, TitleAssumption DEF SaleKeeps, LoneInv, Types
<1>3. ASSUME NEW d \in Drivers, Run(d), driver[d].pc = "idle" PROVE LoneDriver(o)'
  <2>1. PICK p \in Orders, call \in {"execute", "submit"} : StartRun(d, p, call)
    BY <1>3, RunStarts
  <2>2. /\ saga' = saga /\ (p = o => DrivenBy(o) = {})
        /\ driver' = [driver EXCEPT ![d] = [pc |-> "load", o |-> p, call |-> call]]
    BY <1>1, <1>2, <2>1 DEF StartRun, Blame
  <2>3. /\ d \notin DrivenBy(o)
        /\ DrivenBy(o)' = IF p = o THEN {d} ELSE DrivenBy(o)
        /\ driver'[d].pc = "load" /\ \A e \in DrivenBy(o) : driver'[e] = driver[e]
    BY <1>2, <1>3, <2>2 DEF DrivenBy, DriverShape
  <2> QED
    BY <1>2, <2>2, <2>3 DEF LoneDriver
<1>4. ASSUME NEW d \in Drivers, Run(d), driver[d].pc # "idle" PROVE LoneDriver(o)'
  <2>1. /\ \A e \in Drivers \ {d} : driver'[e] = driver[e]
        /\ driver'[d].o \in {driver[d].o, None}
        /\ o # driver[d].o => saga'[o] = saga[o]
        /\ driver[d] \in RunRecord
    BY <1>2, <1>4, RunFrame DEF DriverShape
  <2>2. CASE o # driver[d].o
    <3>1. DrivenBy(o)' = DrivenBy(o) /\ d \notin DrivenBy(o)
      BY <1>2, <2>1, <2>2 DEF DrivenBy
    <3> QED
      BY <1>2, <2>1, <2>2, <3>1 DEF LoneDriver, DrivenBy
  <2>3. CASE o = driver[d].o
    <3>1. DrivenBy(o) = {d} /\ DrivenBy(o)' \subseteq {d}
      BY <1>2, <2>1, <2>3 DEF DrivenBy, LoneDriver
    <3>2. driver[d].pc # "load" => saga[o] = StepAt(driver[d].pc)
      BY <1>2, <3>1 DEF LoneDriver
    <3>3. SUFFICES ASSUME driver'[d].o = o, driver'[d].pc # "load"
                   PROVE  saga'[o] = StepAt(driver'[d].pc)
      BY <3>1 DEF LoneDriver, DrivenBy
    <3>4. ASSUME NEW pc, TakeUp(d, pc) \/ DriverAt(d, pc) \/ DriverEnds(d)
          PROVE  driver'[d].pc = pc
      BY <1>2, <2>1, <3>3, <3>4 DEF TakeUp, DriverAt, DriverEnds, NoRun, DriverShape, RunRecord
    <3> USE DEF StepAt
    <3>5. CASE Load(d)
      BY <1>2, <2>3, <3>3, <3>4, <3>5, TitleAssumption
      DEF Load, TakeUp, DriverEnds, NoRun, ResumeAt, DriverShape
    <3>5a. CASE LoadUnread(d)
      BY <1>1, <1>2, <2>3, <3>5a DEF LoadUnread, Blame
    <3>6. CASE Rewrap(d) \/ CheckOwner(d) \/ Transfer(d) \/ CheckLanded(d)
      BY <3>2, <3>4, <3>6, <2>3 DEF Rewrap, CheckOwner, Transfer, CheckLanded
    <3>7. CASE Record(d) \/ MoveMirror(d) \/ MirrorFails(d)
      BY <3>2, <3>4, <3>7 DEF Record, MoveMirror, MirrorFails
    <3>8. CASE RemoveWraps(d) \/ RevokeOwner(d) \/ GrantBuyer(d)
      BY <3>2, <3>4, <3>8 DEF RemoveWraps, RevokeOwner, GrantBuyer
    <3>9. ASSUME NEW from, NEW step, NEW pc, Advance(d, from, step, pc)
          PROVE  driver'[d].pc = pc /\ saga'[o] = step
      BY <1>2, <2>3, <3>4, <3>9 DEF Advance
    <3>10. ASSUME NEW from, NEW step, Advance(d, from, step, "idle") PROVE FALSE
      BY <1>2, <2>1, <3>3, <3>10 DEF Advance, TakeUp, DriverEnds, NoRun, DriverShape
    <3>11. ~\E p, call : StartRun(d, p, call)
      BY <1>4 DEF StartRun
    <3>12. CASE Advance(d, "rewrapped", "dek_rewrapped", "confirm")
                \/ Advance(d, "moved", "transferred", "unwrap")
                \/ Advance(d, "granted", "revoked", "idle")
      BY <3>9, <3>10, <3>12
    <3>13. CASE Advance(d, "confirm", "paid", ResumeAt("execute", "paid"))
      BY <3>9, <3>10, <3>13 DEF ResumeAt
    <3> QED
      BY <1>4, <3>5, <3>5a, <3>6, <3>7, <3>8, <3>11, <3>12, <3>13 DEF Run, Execute, Submit
  <2> QED
    BY <2>2, <2>3
<1>5. ASSUME NEW r \in Refunds, Refund(r) PROVE LoneDriver(o)'
  <2>1. driver' = driver /\ DrivenBy(o)' = DrivenBy(o)
    BY <1>5 DEF Refund, ReadOrder, ReadSaga, SagaUnread, ReadTransfers, TransfersUnread,
        AbortSaga, MarkRefunding, DrivenBy
  <2>2. saga'[o] # saga[o] => DrivenBy(o) = {}
    BY <1>2, <1>5, RefundWrites
  <2> QED
    BY <1>2, <2>1, <2>2 DEF LoneDriver
<1>6. CASE ~(\E d \in Drivers : Run(d)) /\ ~\E r \in Refunds : Refund(r)
  BY <1>2, <1>6, OthersStart DEF LoneDriver
<1> QED
  BY <1>3, <1>4, <1>5, <1>6

LEMMA LoneInit == Init => LoneInv
BY TitleAssumption DEF Init, LoneInv, LoneDriver, DrivenBy, NoRun

(* The saga only goes forward, and 'refunded' is never left, unless two    *)
(* runs, or a run and a refund, worked on the order at the same time, or a *)
(* run began afresh a saga it could not read.                              *)
THEOREM SagaIsForwardOnly == Spec => StepsForward
<1>1. Types /\ RaceInv /\ LoneInv /\ [Next]_vars =>
        [\A o \in Orders :
           \/ saga'[o] = saga[o]
           \/ saga[o] # "refunded" /\ Rank(saga'[o]) > Rank(saga[o])
           \/ saga'[o] = "refunded" /\ saga[o] \notin SOLANA_FINAL_STEPS
           \/ cause[o] \cap {"raced", "twin", "blind"} # {}]_vars
  <2> USE DEF chain, access, requests, counts
  <2>1. SUFFICES ASSUME Types, RaceInv, LoneInv, [Next]_vars, NEW o \in Orders,
                        saga'[o] # saga[o], cause[o] \cap {"raced", "twin", "blind"} = {},
                        ~(saga'[o] = "refunded" /\ saga[o] \notin SOLANA_FINAL_STEPS)
                 PROVE  saga[o] # "refunded" /\ Rank(saga'[o]) > Rank(saga[o])
    OBVIOUS
  <2>2. /\ saga \in [Orders -> Step \cup {"none", "refunded"}] /\ LoneDriver(o)
        /\ "raced" \notin cause[o]
    BY <2>1 DEF Types, LoneInv
  <2>3. ~\E r \in Refunds : Refund(r)
    BY <2>1, <2>2, RefundWrites
  <2>4. PICK d \in Drivers : Run(d)
    BY <2>1, <2>3, OthersStart
  <2>5. driver[d].pc # "idle" /\ o = driver[d].o
    <3>1. driver[d].pc # "idle"
      BY <2>1, <2>4, RunStarts DEF StartRun
    <3> QED
      BY <2>1, <2>4, <3>1, RunFrame
  <2>6. driver[d].pc # "load" => saga[o] = StepAt(driver[d].pc)
    BY <2>2, <2>5 DEF LoneDriver, DrivenBy
  <2>7. CASE Load(d)
    <3>1. saga[o] = "none" /\ saga'[o] = "created"
      BY <2>1, <2>2, <2>5, <2>7 DEF Load
    <3> QED
      BY <3>1, Ranks
  <2>8. ASSUME NEW from, NEW step, NEW pc, Advance(d, from, step, pc)
        PROVE  driver[d].pc = from /\ saga'[o] = step
    BY <2>2, <2>5, <2>8 DEF Advance
  <2>9. CASE \/ Advance(d, "rewrapped", "dek_rewrapped", "confirm")
             \/ Advance(d, "confirm", "paid", ResumeAt("execute", "paid"))
             \/ Advance(d, "moved", "transferred", "unwrap")
             \/ Advance(d, "granted", "revoked", "idle")
    <3>1. \/ saga[o] = "created" /\ saga'[o] = "dek_rewrapped"
          \/ saga[o] = "dek_rewrapped" /\ saga'[o] = "paid"
          \/ saga[o] = "paid" /\ saga'[o] = "transferred"
          \/ saga[o] = "transferred" /\ saga'[o] = "revoked"
      BY <2>6, <2>8, <2>9 DEF StepAt
    <3> QED
      BY <3>1, Ranks
  <2> QED
    BY <2>1, <2>4, <2>7, <2>9 DEF Run, Execute, Submit, StartRun, LoadUnread, Rewrap,
        CheckOwner, Transfer, CheckLanded, Record, MoveMirror, MirrorFails, RemoveWraps,
        RevokeOwner, GrantBuyer
<1>2. Types /\ RaceInv /\ LoneInv /\ [Next]_vars => (Types /\ RaceInv /\ LoneInv)'
  BY TypesStep, RaceStep, LoneStep
<1>3. Init => Types /\ RaceInv /\ LoneInv
  BY TypesInit, RaceInit, LoneInit
<1> QED
  BY <1>1, <1>2, <1>3, PTL DEF Spec, StepsForward

(***************************************************************************)
(* The refund boundary.                                                    *)
(***************************************************************************)
(* A title is on its way for an order, or moved, by the order's own        *)
(* transfer only.                                                          *)
LEMMA OthersMove ==
    ASSUME Types, [Next]_vars, NEW o \in Orders, Moved(o)', ~Moved(o)
    PROVE  \E d \in Drivers : Transfer(d) /\ driver[d].o = o /\ owner = Seller
<1> USE DEF chain, access, requests, counts
<1>1. o # MintTx /\ o # None
  BY TitleAssumption DEF MintTx
<1>2. CASE \E tx \in Orders \cup {MintTx} : Mine(tx)
  BY <1>1, <1>2 DEF Mine, Moved
<1>3. CASE \E d \in Drivers : Transfer(d)
  BY <1>3 DEF Transfer, Moved
<1>4. CASE sold' = sold /\ pending' \subseteq pending \cup {MintTx}
  BY <1>1, <1>4 DEF Moved
<1> QED
  BY <1>2, <1>3, <1>4 DEF Next, Drop, Pay, Export, StartExport, LookAtMirror, LookAtChain,
      Mint, WriteMirror, GrantCreator, Run, Execute, Submit, StartRun, Load, LoadUnread, Rewrap,
      Advance, CheckOwner, CheckLanded, Record, MoveMirror, MirrorFails, RemoveWraps,
      RevokeOwner, GrantBuyer, DriverThrows, Refund, ReadOrder, ReadSaga, SagaUnread,
      ReadTransfers, TransfersUnread, AbortSaga, MarkRefunding, Crash, vars

(* An order is cut off by the end of a run of its own past the broadcast,  *)
(* and taken up again by a run that writes 'transferred'.                  *)
LEMMA TornSteps ==
    ASSUME Types, [Next]_vars, NEW o \in Orders
    PROVE  /\ o \in torn' /\ o \notin torn => /\ \E d \in DrivenBy(o) : Committing(d)
                                              /\ saga' = saga /\ status' = status
                                              /\ refund' = refund \/ Crash
           /\ o \in torn /\ o \notin torn' =>
                \E d \in Drivers : driver[d].o = o /\ Advance(d, "moved", "transferred", "unwrap")
<1> USE DEF chain, access, requests, counts
<1>1. CASE \E d \in Drivers : CheckLanded(d) \/ DriverThrows(d)
  BY <1>1 DEF CheckLanded, DriverThrows, DrivenBy, Committing
<1>2. CASE Crash
  BY <1>2 DEF Crash, DrivenBy
<1>3. ASSUME NEW d \in Drivers, Advance(d, "moved", "transferred", "unwrap")
      PROVE  torn' = torn \ {driver[d].o}
  BY <1>3 DEF Advance
<1>4. ASSUME NEW d \in Drivers, \/ Advance(d, "rewrapped", "dek_rewrapped", "confirm")
                                \/ Advance(d, "confirm", "paid", ResumeAt("execute", "paid"))
                                \/ Advance(d, "granted", "revoked", "idle")
      PROVE  torn' = torn
  BY <1>4 DEF Advance
<1>5. CASE torn' = torn
  BY <1>5
<1> QED
  BY <1>1, <1>2, <1>3, <1>4, <1>5 DEF Next, Mine, Drop, Pay, Export, StartExport, LookAtMirror,
      LookAtChain, Mint, WriteMirror, GrantCreator, Run, Execute, Submit, StartRun, Load,
      LoadUnread, Rewrap, CheckOwner, Transfer, Record, MoveMirror, MirrorFails, RemoveWraps,
      RevokeOwner, GrantBuyer, Refund, ReadOrder, ReadSaga, SagaUnread, ReadTransfers,
      TransfersUnread, AbortSaga, MarkRefunding, vars

LEMMA BegunStep == ASSUME Types, BegunInv, [Next]_vars PROVE BegunInv'
<1> USE DEF chain, access, requests, counts
<1>1. SUFFICES ASSUME NEW o \in Orders PROVE Begun(o)'
  BY DEF BegunInv
<1>2. /\ Begun(o) /\ o # None /\ DriverShape
      /\ saga \in [Orders -> Step \cup {"none", "refunded"}]
  BY TitleAssumption DEF BegunInv, Types
<1>3. saga[o] # "none" => saga'[o] # "none"
  BY <1>2, StepNames DEF Next, Mine, Drop, Pay, Export, StartExport, LookAtMirror, LookAtChain,
      Mint, WriteMirror, GrantCreator, Run, Execute, Submit, StartRun, Load, LoadUnread, Rewrap,
      Advance, CheckOwner, Transfer, CheckLanded, Record, MoveMirror, MirrorFails, RemoveWraps,
      RevokeOwner, GrantBuyer, DriverThrows, Refund, ReadOrder, ReadSaga, SagaUnread,
      ReadTransfers, TransfersUnread, AbortSaga, MarkRefunding, Crash, vars
<1>4. CASE o \in torn'
  BY <1>2, <1>3, <1>4, TornSteps DEF Begun, Committing
<1>5. ASSUME NEW d \in Drivers, Run(d), driver[d].pc = "idle" PROVE Begun(o)' \/ o \in torn'
  <2>1. PICK p \in Orders, call \in {"execute", "submit"} : StartRun(d, p, call)
    BY <1>5, RunStarts
  <2>2. driver' = [driver EXCEPT ![d] = [pc |-> "load", o |-> p, call |-> call]]
    BY <2>1 DEF StartRun
  <2>3. \A e \in DrivenBy(o)' : driver'[e].pc # "load" => e \in DrivenBy(o) /\ driver[e].pc # "load"
    BY <1>2, <2>2 DEF DrivenBy, DriverShape
  <2> QED
    BY <1>2, <1>3, <2>3 DEF Begun
<1>6. ASSUME NEW d \in Drivers, Run(d), driver[d].pc # "idle" PROVE Begun(o)' \/ o \in torn'
  <2>1. /\ \A e \in Drivers \ {d} : driver'[e] = driver[e]
        /\ driver'[d].o \in {driver[d].o, None}
        /\ driver[d] \in RunRecord
    BY <1>2, <1>6, RunFrame DEF DriverShape
  <2>2. SUFFICES ASSUME driver[d].o = o, driver'[d].o = o, driver'[d].pc # "load",
                        driver[d].pc = "load"
                 PROVE  saga'[o] # "none"
    BY <1>2, <1>3, <2>1 DEF Begun, DrivenBy
  <2>3. Load(d) \/ LoadUnread(d)
    BY <1>6, <2>2 DEF Run, Execute, Submit, StartRun, Rewrap, Advance, CheckOwner, Transfer,
        CheckLanded, Record, MoveMirror, MirrorFails, RemoveWraps, RevokeOwner, GrantBuyer
  <2>4. CASE LoadUnread(d)
    BY <1>2, <1>3, <2>2, <2>4 DEF LoadUnread
  <2>5. CASE Load(d)
    <3>1. saga[o] = "none" => driver[d].call = "execute"
      BY <1>2, <2>2, <2>5 DEF Load, TakeUp, ResumeAt, DriverEnds, NoRun, DriverShape
    <3> QED
      BY <1>2, <2>2, <2>5, <3>1 DEF Load
  <2> QED
    BY <2>3, <2>4, <2>5
<1>7. CASE ~\E d \in Drivers : Run(d)
  <2>1. \A e \in DrivenBy(o)' : e \in DrivenBy(o) /\ driver'[e] = driver[e]
    <3>1. CASE \E r \in Refunds : Refund(r)
      BY <3>1 DEF Refund, ReadOrder, ReadSaga, SagaUnread, ReadTransfers, TransfersUnread,
                  AbortSaga, MarkRefunding, DrivenBy
    <3>2. CASE ~\E r \in Refunds : Refund(r)
      BY <1>7, <3>2, OthersStart
    <3> QED
      BY <3>1, <3>2
  <2> QED
    BY <1>2, <1>3, <1>4, <2>1 DEF Begun
<1> QED
  BY <1>4, <1>5, <1>6, <1>7

LEMMA TornStep ==
    ASSUME Types, RaceInv, BegunInv, TornInv, [Next]_vars
    PROVE  TornInv'
<1> USE DEF chain, access, requests, counts
<1>1. SUFFICES ASSUME NEW o \in Orders, Clean(o)', o \in torn'
               PROVE  /\ status'[o] # "refunding"
                      /\ \A r \in RefundedBy(o)' : refund'[r].pc = "saga"
  BY DEF TornInv, Uncut
<1>2. /\ Uncut(o) /\ o # None /\ Unraced(o) /\ Shut(o) /\ Begun(o)
      /\ RefundShape /\ status \in [Orders -> {"unpaid", "paid", "refunding"}]
      /\ cause \in [Orders -> SUBSET Causes]
  BY <1>1, OneWay, TitleAssumption DEF SaleKeeps, Clean, RaceInv, Guarded, BegunInv, TornInv,
      Types
<1>3. CASE o \notin torn
  <2>1. PICK d \in DrivenBy(o) : Committing(d)
    BY <1>1, <1>3, TornSteps
  <2>2. RefundedBy(o) = {} /\ status[o] # "refunding"
    BY <1>2, <2>1 DEF Unraced, Shut, Committing
  <2>3. status' = status /\ RefundedBy(o)' = {}
    <3>1. Crash => RefundedBy(o)' = {}
      BY <1>2 DEF Crash, RefundedBy, NoRefund
    <3>2. refund' = refund => RefundedBy(o)' = RefundedBy(o)
      BY DEF RefundedBy
    <3> QED
      BY <1>1, <1>3, <2>2, <3>1, <3>2, TornSteps
  <2> QED
    BY <2>2, <2>3
<1>4. CASE o \in torn
  <2>1. /\ status[o] # "refunding" /\ saga[o] # "none"
        /\ \A r \in RefundedBy(o) : refund[r].pc = "saga"
    BY <1>2, <1>4 DEF Uncut, Begun
  <2>2. ASSUME NEW r \in Refunds, Refund(r)
        PROVE  /\ status'[o] # "refunding"
               /\ \A s \in RefundedBy(o)' : refund'[s].pc = "saga"
    <3>1. ASSUME NEW p \in Orders, ReadOrder(r, p)
          PROVE  status' = status /\ \A s \in RefundedBy(o)' : refund'[s].pc = "saga"
      BY <1>2, <2>1, <3>1 DEF ReadOrder, RefundedBy, RefundShape
    <3>2. CASE refund[r].o # o
      BY <1>2, <2>1, <2>2, <3>1, <3>2 DEF Refund, ReadSaga, SagaUnread, ReadTransfers,
          TransfersUnread, AbortSaga, MarkRefunding, RefundAt, RefundEnds, NoRefund, RefundedBy,
          RefundShape, RefundRecord
    <3>3. CASE refund[r].o = o /\ refund[r].pc # "idle"
      <4>1. refund[r].pc = "saga" /\ r \in RefundedBy(o)
        BY <2>1, <3>3 DEF RefundedBy
      <4>2. ReadSaga(r) \/ SagaUnread(r)
        BY <2>2, <4>1 DEF Refund, ReadOrder, ReadTransfers, TransfersUnread, AbortSaga,
            MarkRefunding
      <4>3. ~SagaUnread(r)
        BY <1>1, <1>2, <2>1, <3>3 DEF SagaUnread, Blame, Clean
      <4>4. status' = status /\ refund' = [refund EXCEPT ![r] = NoRefund]
        BY <1>1, <1>2, <1>4, <3>3, <4>2, <4>3 DEF ReadSaga, RefundEnds, Blame, Clean
      <4> QED
        BY <1>2, <2>1, <4>4 DEF RefundedBy, RefundShape, NoRefund
    <3> QED
      BY <1>2, <2>1, <2>2, <3>1, <3>2, <3>3 DEF RefundShape
  <2>3. CASE ~\E r \in Refunds : Refund(r)
    <3>1. /\ status'[o] # "refunding" \/ status'[o] = status[o]
          /\ \A r \in RefundedBy(o)' : r \in RefundedBy(o) /\ refund'[r] = refund[r]
      <4>1. ASSUME NEW d \in Drivers, Run(d) PROVE UNCHANGED <<status, refund>>
        BY <4>1 DEF Run, Execute, Submit, StartRun, Load, LoadUnread, Rewrap, Advance,
            CheckOwner, Transfer, CheckLanded, Record, MoveMirror, MirrorFails, RemoveWraps,
            RevokeOwner, GrantBuyer
      <4>2. CASE \E d \in Drivers : Run(d)
        BY <4>1, <4>2 DEF RefundedBy
      <4>3. CASE ~\E d \in Drivers : Run(d)
        BY <2>3, <4>3, OthersStart
      <4> QED
        BY <4>2, <4>3
    <3> QED
      BY <2>1, <3>1
  <2> QED
    BY <2>2, <2>3
<1> QED
  BY <1>3, <1>4

LEMMA MovedStep ==
    ASSUME Types, RaceInv, MovedInv, [Next]_vars
    PROVE  MovedInv'
<1> USE DEF chain, access, requests, counts
<1>1. SUFFICES ASSUME NEW o \in Orders, Clean(o)', Moved(o)', o \notin torn'
               PROVE  saga'[o] \in SOLANA_FINAL_STEPS \/ \E d \in DrivenBy(o)' : Committing(d)'
  BY DEF MovedInv
<1>2. /\ Clean(o) /\ o # None /\ Unraced(o) /\ "raced" \notin cause[o]
      /\ DriverShape /\ saga \in [Orders -> Step \cup {"none", "refunded"}]
      /\ cause \in [Orders -> SUBSET Causes] /\ rail \in {"base", "solana"}
  BY <1>1, OneWay, TitleAssumption DEF SaleKeeps, Clean, RaceInv, Guarded, Types
<1>3. CASE ~Moved(o)
  <2>1. PICK d \in Drivers : Transfer(d) /\ driver[d].o = o /\ owner = Seller
    BY <1>1, <1>3, OthersMove
  <2>2. d \in DrivenBy(o)' /\ Committing(d)'
    BY <1>2, <2>1 DEF Transfer, DriverAt, DrivenBy, Committing, DriverShape, RunRecord
  <2> QED
    BY <2>2
<1>4. CASE o \in torn
  <2>1. PICK d \in Drivers : driver[d].o = o /\ Advance(d, "moved", "transferred", "unwrap")
    BY <1>1, <1>4, TornSteps
  <2> QED
    BY <1>2, <2>1 DEF Advance, SOLANA_FINAL_STEPS
<1>5. CASE Moved(o) /\ o \notin torn
  <2>1. saga[o] \in SOLANA_FINAL_STEPS \/ \E d \in DrivenBy(o) : Committing(d)
    BY <1>2, <1>5 DEF MovedInv
  <2>2. ASSUME NEW d \in Drivers, Run(d), driver[d].pc = "idle"
        PROVE  saga'[o] \in SOLANA_FINAL_STEPS \/ \E e \in DrivenBy(o)' : Committing(e)'
    <3>1. PICK p \in Orders, call \in {"execute", "submit"} : StartRun(d, p, call)
      BY <2>2, RunStarts
    <3>2. saga' = saga /\ \A e \in Drivers \ {d} : driver'[e] = driver[e]
      BY <1>2, <3>1 DEF StartRun, DriverShape
    <3> QED
      BY <2>1, <2>2, <3>2 DEF DrivenBy, Committing
  <2>3. ASSUME NEW d \in Drivers, Run(d) \/ DriverThrows(d), driver[d].pc # "idle"
        PROVE  saga'[o] \in SOLANA_FINAL_STEPS \/ \E e \in DrivenBy(o)' : Committing(e)'
    <3>1. /\ \A e \in Drivers \ {d} : driver'[e] = driver[e]
          /\ driver[d] \in RunRecord /\ driver[d].o \in Orders
          /\ o # driver[d].o => saga'[o] = saga[o]
      BY <1>2, <2>3, RunFrame DEF DriverShape
    <3>2. CASE o # driver[d].o
      BY <2>1, <3>1, <3>2 DEF DrivenBy, Committing
    <3>3. CASE o = driver[d].o
      <4>1. saga[o] \in SOLANA_FINAL_STEPS => saga'[o] \in SOLANA_FINAL_STEPS
        <5>1. ASSUME NEW from, NEW step, NEW pc, Advance(d, from, step, pc)
              PROVE  saga'[o] = step /\ ~(Rank(saga[o]) > Rank(step))
          BY <1>1, <1>2, <3>3, <5>1 DEF Advance, Blame, Clean
        <5>2. CASE \/ Advance(d, "rewrapped", "dek_rewrapped", "confirm")
                   \/ Advance(d, "confirm", "paid", ResumeAt("execute", "paid"))
                   \/ Advance(d, "moved", "transferred", "unwrap")
                   \/ Advance(d, "granted", "revoked", "idle")
          BY <5>1, <5>2, Ranks DEF SOLANA_FINAL_STEPS
        <5>3. CASE Load(d)
          BY <1>2, <3>3, <5>3 DEF Load, SOLANA_FINAL_STEPS
        <5> QED
          BY <2>3, <5>2, <5>3 DEF Run, Execute, Submit, StartRun, LoadUnread, Rewrap, CheckOwner,
              Transfer, CheckLanded, Record, MoveMirror, MirrorFails, RemoveWraps, RevokeOwner,
              GrantBuyer, DriverThrows
      <4>2. Committing(d) => saga'[o] \in SOLANA_FINAL_STEPS
                             \/ (driver'[d].o = o /\ Committing(d)')
        <5>1. SUFFICES ASSUME Committing(d)
                       PROVE  saga'[o] \in SOLANA_FINAL_STEPS
                              \/ (driver'[d].o = o /\ driver'[d].pc \in {"record", "mirror", "moved"})
          BY DEF Committing
        <5>2. CASE CheckLanded(d) \/ DriverThrows(d)
          BY <1>1, <1>2, <3>1, <3>3, <5>1, <5>2 DEF CheckLanded, DriverThrows, DriverAt,
              DriverShape, RunRecord
        <5>3. CASE Record(d) \/ MoveMirror(d) \/ MirrorFails(d)
          BY <1>2, <3>1, <3>3, <5>3 DEF Record, MoveMirror, MirrorFails, DriverAt, DriverShape,
              RunRecord
        <5>4. CASE Advance(d, "moved", "transferred", "unwrap")
          BY <1>2, <3>3, <5>4 DEF Advance, SOLANA_FINAL_STEPS
        <5> QED
          BY <2>3, <5>1, <5>2, <5>3, <5>4 DEF Run, Execute, Submit, StartRun, Load, LoadUnread,
              Rewrap, Advance, CheckOwner, Transfer, RemoveWraps, RevokeOwner, GrantBuyer,
              Committing
      <4>3. \A e \in DrivenBy(o) \ {d} : Committing(e) => e \in DrivenBy(o)' /\ Committing(e)'
        BY <3>1 DEF DrivenBy, Committing
      <4>4. driver'[d].o = o => d \in DrivenBy(o)'
        BY DEF DrivenBy
      <4> QED
        BY <2>1, <4>1, <4>2, <4>3, <4>4
    <3> QED
      BY <3>2, <3>3
  <2>4. ASSUME NEW r \in Refunds, Refund(r)
        PROVE  saga'[o] \in SOLANA_FINAL_STEPS \/ \E e \in DrivenBy(o)' : Committing(e)'
    <3>1. driver' = driver
      BY <2>4 DEF Refund, ReadOrder, ReadSaga, SagaUnread, ReadTransfers, TransfersUnread,
          AbortSaga, MarkRefunding
    <3>2. saga'[o] = saga[o]
      BY <1>2, <2>1, <2>4, RefundWrites
    <3> QED
      BY <2>1, <3>1, <3>2 DEF DrivenBy, Committing
  <2>5. CASE Crash
    <3>1. saga' = saga /\ ~\E d \in DrivenBy(o) : Committing(d)
      BY <1>1, <2>5 DEF Crash, DrivenBy
    <3> QED
      BY <2>1, <3>1
  <2>6. CASE UNCHANGED <<saga, driver>>
    BY <2>1, <2>6 DEF DrivenBy, Committing
  <2>7. \A d \in Drivers : DriverThrows(d) => driver[d].pc # "idle"
    BY DEF DriverThrows
  <2> QED
    BY <2>2, <2>3, <2>4, <2>5, <2>6, <2>7 DEF Next, Mine, Drop, Pay, Export, StartExport,
        LookAtMirror, LookAtChain, Mint, WriteMirror, GrantCreator, vars
<1> QED
  BY <1>3, <1>4, <1>5

(* Nobody is paid back for the order that moved the title, unless a run    *)
(* and a refund of the order met, a run wrote an earlier step over a later *)
(* one, the refund came while a run that was cut off past its broadcast    *)
(* had not been resumed, or its read of the saga was rejected.             *)
THEOREM RefundBoundary == Spec => []NoDoubleLoss
<1>1. Types /\ RaceInv /\ TornInv /\ MovedInv => NoDoubleLoss
  <2>1. SUFFICES ASSUME RaceInv, TornInv, MovedInv, NEW o \in Orders, status[o] = "refunding",
                        Moved(o), Clean(o)
                 PROVE  FALSE
    BY DEF NoDoubleLoss, Moved, Clean
  <2>2. /\ saga[o] \in {"none", "refunded"}
        /\ \A d \in DrivenBy(o) : driver[d].pc = "load"
    BY <2>1 DEF RaceInv, Guarded, Shut, Clean
  <2>3. o \notin torn
    BY <2>1 DEF TornInv, Uncut
  <2> QED
    BY <2>1, <2>2, <2>3 DEF MovedInv, Committing, SOLANA_FINAL_STEPS
<1>2. Types /\ RaceInv /\ BegunInv /\ TornInv /\ MovedInv /\ [Next]_vars
        => (Types /\ RaceInv /\ BegunInv /\ TornInv /\ MovedInv)'
  BY TypesStep, RaceStep, BegunStep, TornStep, MovedStep
<1>3. Init => Types /\ RaceInv /\ BegunInv /\ TornInv /\ MovedInv
  BY TypesInit, RaceInit, TitleAssumption
  DEF Init, BegunInv, Begun, TornInv, Uncut, MovedInv, Moved, DrivenBy, NoRun
<1> QED
  BY <1>1, <1>2, <1>3, PTL DEF Spec
===============================================================================
