------------------------------- MODULE TitleSale -------------------------------
(***************************************************************************)
(* The sale of the 1-of-1 title of one pack, on either of its two rails.   *)
(* A title lives on a chain, which nobody can roll back; the saga of an    *)
(* order, the key wraps, the entitlements and the mirror of the owner live *)
(* in the database.                                                        *)
(*                                                                         *)
(*   - exports mint the title to the seller and mirror it;                 *)
(*   - drivers take the saga of an order forward: seal the key to the      *)
(*     buyer, transfer the title, take the seller's key away.  On Base one *)
(*     run does all of it (executeTitleSale); on Solana a first one stops  *)
(*     at 'paid' (executeSolanaTitleSale) and a second one submits what    *)
(*     the seller has signed (submitSolanaTitleTransfer);                  *)
(*   - refunds of the order, which the saga must refuse once the title has *)
(*     moved.                                                              *)
(*                                                                         *)
(* Every database call and every call to the chain is one step.  The pack  *)
(* is encrypted and its frozen snapshot, sealed to the seller, exists.     *)
(***************************************************************************)
EXTENDS Naturals, FiniteSets

CONSTANTS
    Orders,      \* orders for the title
    Buyers, Seller,
    BuyerOf,     \* [Orders -> Buyers]
    Drivers, Refunds, Exports,   \* requests of each kind in flight at most
    MaxCalls,    \* bound: requests
    MaxFaults,   \* bound: transactions dropped, calls rejected, crashes
    None         \* no owner, no order

ASSUME TitleAssumption ==
    /\ Seller \notin Buyers /\ BuyerOf \in [Orders -> Buyers]
    /\ None \notin Buyers \cup {Seller} \cup Orders
    /\ "mint" \notin Orders

VARIABLES
    rail,        \* "base" or "solana"
    \* the chain
    owner,       \* ownerOf the title
    pending,     \* transactions broadcast and not mined: orders, or "mint"
    sold,        \* the order whose transfer moved the title
    \* the database
    status,      \* marketplace_orders.status
    saga,        \* title_sale_sagas.step
    wraps,       \* holders of title_holder wraps
    owners,      \* wallets with an active title_owner entitlement
    audit,       \* buyers in title_transfers
    mirror,      \* pack_titles: status and current_owner
    \* requests
    driver, refund, export,
    \* bounds and history
    calls, faults,
    cause,       \* what went wrong with each order, by name
    stale,       \* a late export or a swallowed error left the mirror or the
                 \* seller's entitlement behind a sale
    torn         \* orders whose run ended past the broadcast of the transfer,
                 \* and none has written 'transferred' since

chain    == <<owner, pending, sold>>
access   == <<wraps, owners, audit, mirror>>
requests == <<driver, refund, export>>
counts   == <<calls, faults>>
vars     == <<rail, chain, status, saga, access, requests, counts, cause, stale,
              torn>>

Holders == Buyers \cup {Seller}
Steps   == <<"created", "dek_rewrapped", "paid", "transferred", "revoked">>
Step    == {Steps[n] : n \in 1..5}
Rank(s) == IF s \in Step THEN CHOOSE n \in 1..5 : Steps[n] = s ELSE 0

SOLANA_FINAL_STEPS == {"transferred", "revoked"}

NoRun    == [pc |-> "idle", o |-> None, call |-> "none"]
NoRefund == [pc |-> "idle", o |-> None, read |-> "none"]
NoExport == [pc |-> "idle", who |-> None]

Init ==
    /\ rail \in {"base", "solana"}
    /\ owner = None /\ pending = {} /\ sold = None
    /\ status = [o \in Orders |-> "unpaid"]
    /\ saga = [o \in Orders |-> "none"]
    /\ wraps = {Seller} /\ owners = {} /\ audit = {}
    /\ mirror = [status |-> "none", owner |-> None]
    /\ driver = [d \in Drivers |-> NoRun]
    /\ refund = [r \in Refunds |-> NoRefund]
    /\ export = [e \in Exports |-> NoExport]
    /\ calls = 0 /\ faults = 0
    /\ cause = [o \in Orders |-> {}] /\ stale = FALSE /\ torn = {}

DrivenBy(o)   == {d \in Drivers : driver[d].o = o}
RefundedBy(o) == {r \in Refunds : refund[r].o = o}
Blame(o, why) == cause' = [cause EXCEPT ![o] = @ \cup why]

-----------------------------------------------------------------------------
(* The chain, and the payment of an order for a title on record.           *)

MintTx == "mint"

(* A transaction is executed, or reverts because the title is elsewhere.   *)
Mine(tx) ==
    /\ tx \in pending
    /\ pending' = pending \ {tx}
    /\ owner' = IF tx = MintTx THEN (IF owner = None THEN Seller ELSE owner)
                ELSE IF owner = Seller THEN BuyerOf[tx] ELSE owner
    /\ sold' = IF tx # MintTx /\ owner = Seller THEN tx ELSE sold
    /\ UNCHANGED <<rail, status, saga, access, requests, counts, cause, stale,
                   torn>>

(* It is never mined: underpriced, replaced, or its blockhash expired.     *)
Drop(tx) ==
    /\ tx \in pending
    /\ faults < MaxFaults
    /\ faults' = faults + 1
    /\ pending' = pending \ {tx}
    /\ UNCHANGED <<rail, owner, sold, status, saga, access, requests, calls,
                   cause, stale, torn>>

Pay(o) ==
    /\ status[o] = "unpaid"
    /\ mirror.status # "none"
    /\ status' = [status EXCEPT ![o] = "paid"]
    /\ UNCHANGED <<rail, chain, saga, access, requests, counts, cause, stale,
                   torn>>

-----------------------------------------------------------------------------
(* Exports.                                                                *)

ExportAt(e, pc) == export' = [export EXCEPT ![e].pc = pc]

(* Base: the reconciler exports what has no title row, and may leave a run *)
(* behind that hangs.  Solana: the creator exports, and exports again.     *)
StartExport(e) ==
    /\ export[e].pc = "idle"
    /\ calls < MaxCalls
    /\ calls' = calls + 1
    /\ rail = "base" => mirror.status = "none"
    /\ ExportAt(e, IF rail = "base" THEN "look" ELSE "mint")
    /\ UNCHANGED <<rail, chain, status, saga, access, driver, refund, faults,
                   cause, stale, torn>>

LookAtMirror(e) ==
    /\ export[e].pc = "look"
    /\ ExportAt(e, IF mirror.status = "minted" THEN "grant" ELSE "owner")
    /\ UNCHANGED <<rail, chain, status, saga, access, driver, refund, counts,
                   cause, stale, torn>>

LookAtChain(e) ==
    /\ export[e].pc = "owner"
    /\ export' = [export EXCEPT ![e] =
           IF owner = None THEN [pc |-> "mint", who |-> None]
           ELSE [pc |-> "mirror", who |-> owner]]
    /\ UNCHANGED <<rail, chain, status, saga, access, driver, refund, counts,
                   cause, stale, torn>>

(* Base: a broadcast, whose receipt nobody waits for; the call throws if   *)
(* the title exists.  Solana: atomic at an address derived from the pack,  *)
(* and a no-op if the title exists.                                        *)
Mint(e) ==
    /\ export[e].pc = "mint"
    /\ \/ /\ rail = "base" /\ owner = None
          /\ pending' = pending \cup {MintTx}
          /\ export' = [export EXCEPT ![e] = [pc |-> "mirror", who |-> Seller]]
          /\ UNCHANGED <<owner, sold>>
       \/ /\ rail = "base" /\ owner # None
          /\ export' = [export EXCEPT ![e] = NoExport]
          /\ UNCHANGED chain
       \/ /\ rail = "solana"
          /\ owner' = IF owner = None THEN Seller ELSE owner
          /\ export' = [export EXCEPT ![e] = [pc |-> "mirror", who |-> Seller]]
          /\ UNCHANGED <<pending, sold>>
    /\ UNCHANGED <<rail, status, saga, access, driver, refund, counts, cause,
                   stale, torn>>

WriteMirror(e) ==
    /\ export[e].pc = "mirror"
    /\ mirror' = [status |-> "minted", owner |-> export[e].who]
    /\ stale' = (stale \/ audit # {})
    /\ ExportAt(e, "grant")
    /\ UNCHANGED <<rail, chain, status, saga, wraps, owners, audit, driver,
                   refund, counts, cause, torn>>

(* The creator is granted the entitlement, or granted it again.            *)
GrantCreator(e) ==
    /\ export[e].pc = "grant"
    /\ owners' = owners \cup {Seller}
    /\ stale' = (stale \/ audit # {})
    /\ export' = [export EXCEPT ![e] = NoExport]
    /\ UNCHANGED <<rail, chain, status, saga, wraps, audit, mirror, driver,
                   refund, counts, cause, torn>>

Export(e) ==
    \/ StartExport(e) \/ LookAtMirror(e) \/ LookAtChain(e) \/ Mint(e)
    \/ WriteMirror(e) \/ GrantCreator(e)

-----------------------------------------------------------------------------
(* Drivers.                                                                *)

DriverAt(d, pc) == driver' = [driver EXCEPT ![d].pc = pc]
DriverEnds(d)   == driver' = [driver EXCEPT ![d] = NoRun]

StartRun(d, o, call) ==
    /\ driver[d].pc = "idle"
    /\ calls < MaxCalls
    /\ calls' = calls + 1
    /\ driver' = [driver EXCEPT ![d] = [pc |-> "load", o |-> o, call |-> call]]
    /\ Blame(o, (IF DrivenBy(o) = {} THEN {} ELSE {"twin"})
                \cup (IF RefundedBy(o) = {} THEN {} ELSE {"raced"}))
    /\ UNCHANGED <<rail, chain, status, saga, access, refund, export, faults,
                   stale, torn>>

(* The payment gate; what a later step confirms again is this same read.   *)
Execute(d, o) == status[o] = "paid" /\ StartRun(d, o, "execute")

(* The seller has signed.  The submission does not look at the status.     *)
Submit(d, o) ==
    rail = "solana" /\ status[o] # "unpaid" /\ StartRun(d, o, "submit")

(* Where a run takes up a saga at a step.                                  *)
ResumeAt(call, step) ==
    IF call = "execute"
    THEN CASE step = "created"       -> "rewrap"
           [] step = "dek_rewrapped" -> "confirm"
           [] step = "paid"          -> IF rail = "base" THEN "check" ELSE "idle"
           [] step = "transferred"   -> IF rail = "base" THEN "unwrap" ELSE "idle"
           [] OTHER                  -> "idle"
    ELSE CASE step = "paid"          -> "check"
           [] step = "transferred"   -> "unwrap"
           [] OTHER                  -> "idle"

TakeUp(d, pc) == IF pc = "idle" THEN DriverEnds(d) ELSE DriverAt(d, pc)

(* Mutant: the row is written afresh, whatever is there.                   *)
LoadAfresh(d) ==
    LET o == driver[d].o
    IN /\ driver[d].pc = "load"
       /\ saga' = [saga EXCEPT ![o] = "created"]
       /\ TakeUp(d, ResumeAt(driver[d].call, "created"))
       /\ UNCHANGED <<rail, chain, status, access, refund, export, counts,
                      cause, stale, torn>>

(* The saga is loaded, or created by executeTitleSale.                     *)
Load(d) ==
    LET o == driver[d].o
        create == saga[o] = "none" /\ driver[d].call = "execute"
        step == IF create THEN "created" ELSE saga[o]
    IN /\ driver[d].pc = "load"
       /\ saga' = [saga EXCEPT ![o] = step]
       /\ TakeUp(d, ResumeAt(driver[d].call, step))
       /\ UNCHANGED <<rail, chain, status, access, refund, export, counts,
                      cause, stale, torn>>

(* The database is away for both reads of a saga that is there: the run    *)
(* goes on with the row it failed to insert, which says 'created'.         *)
LoadUnread(d) ==
    LET o == driver[d].o
    IN /\ driver[d].pc = "load" /\ driver[d].call = "execute"
       /\ saga[o] # "none"
       /\ faults < MaxFaults
       /\ faults' = faults + 1
       /\ Blame(o, {"blind"})
       /\ TakeUp(d, ResumeAt("execute", "created"))
       /\ UNCHANGED <<rail, chain, status, saga, access, refund, export, calls,
                      stale, torn>>

(* Mutant: sealed to a key of another identity space.                      *)
RewrapUnderOrder(d) ==
    /\ driver[d].pc = "rewrap"
    /\ wraps' = wraps \cup {driver[d].o}
    /\ DriverAt(d, "rewrapped")
    /\ UNCHANGED <<rail, chain, status, saga, owners, audit, mirror, refund,
                   export, counts, cause, stale, torn>>

(* The key is sealed to the buyer beside the seller's wrap.                *)
Rewrap(d) ==
    /\ driver[d].pc = "rewrap"
    /\ wraps' = wraps \cup {BuyerOf[driver[d].o]}
    /\ DriverAt(d, "rewrapped")
    /\ UNCHANGED <<rail, chain, status, saga, owners, audit, mirror, refund,
                   export, counts, cause, stale, torn>>

(* The step is written whatever the saga says by now.                      *)
Advance(d, from, step, pc) ==
    LET o == driver[d].o
    IN /\ driver[d].pc = from
       /\ saga' = [saga EXCEPT ![o] = step]
       /\ Blame(o, IF Rank(saga[o]) > Rank(step) THEN {"regressed"} ELSE {})
       /\ TakeUp(d, pc)
       /\ torn' = IF step = "transferred" THEN torn \ {o} ELSE torn
       /\ UNCHANGED <<rail, chain, status, access, refund, export, counts,
                      stale>>

(* The transfer is broadcast once: not if the chain shows the buyer.       *)
CheckOwner(d) ==
    /\ driver[d].pc = "check"
    /\ IF rail = "solana" /\ mirror.status = "none" THEN DriverEnds(d)
       ELSE DriverAt(d, IF owner = BuyerOf[driver[d].o] THEN "record"
                        ELSE "transfer")
    /\ UNCHANGED <<rail, chain, status, saga, access, refund, export, counts,
                   cause, stale, torn>>

(* Base goes on with the hash of what it has broadcast; Solana looks at    *)
(* the owner again.  The call throws if the seller does not hold it.       *)
Transfer(d) ==
    /\ driver[d].pc = "transfer"
    /\ IF owner = Seller
       THEN /\ pending' = pending \cup {driver[d].o}
            /\ DriverAt(d, IF rail = "base" THEN "record" ELSE "landed")
       ELSE /\ DriverEnds(d)
            /\ UNCHANGED pending
    /\ UNCHANGED <<rail, owner, sold, status, saga, access, refund, export,
                   counts, cause, stale, torn>>

(* Solana: the transfer has landed, or the run gives up on it.             *)
CheckLanded(d) ==
    LET o == driver[d].o
    IN /\ driver[d].pc = "landed"
       /\ IF owner = BuyerOf[o]
          THEN DriverAt(d, "record") /\ UNCHANGED torn
          ELSE DriverEnds(d) /\ torn' = torn \cup {o}
       /\ UNCHANGED <<rail, chain, status, saga, access, refund, export,
                      counts, cause, stale>>

Record(d) ==
    /\ driver[d].pc = "record"
    /\ audit' = audit \cup {BuyerOf[driver[d].o]}
    /\ DriverAt(d, "mirror")
    /\ UNCHANGED <<rail, chain, status, saga, wraps, owners, mirror, refund,
                   export, counts, cause, stale, torn>>

MoveMirror(d) ==
    /\ driver[d].pc = "mirror"
    /\ mirror' = IF mirror.status = "none" THEN mirror
                 ELSE [status |-> "transferred", owner |-> BuyerOf[driver[d].o]]
    /\ DriverAt(d, "moved")
    /\ UNCHANGED <<rail, chain, status, saga, wraps, owners, audit, refund,
                   export, counts, cause, stale, torn>>

(* Solana does not look at the outcome of that write.                      *)
MirrorFails(d) ==
    /\ driver[d].pc = "mirror" /\ rail = "solana"
    /\ faults < MaxFaults
    /\ faults' = faults + 1
    /\ stale' = TRUE
    /\ DriverAt(d, "moved")
    /\ UNCHANGED <<rail, chain, status, saga, access, refund, export, calls,
                   cause, torn>>

(* Mutant: the delete is not scoped to the seller.                         *)
RemoveAllWraps(d) ==
    /\ driver[d].pc = "unwrap"
    /\ wraps' = {}
    /\ Blame(driver[d].o,
             IF owner = BuyerOf[driver[d].o] THEN {} ELSE {"ahead"})
    /\ DriverAt(d, "revoke")
    /\ UNCHANGED <<rail, chain, status, saga, owners, audit, mirror, refund,
                   export, counts, stale, torn>>

(* revokeSeller: the seller's wrap, the seller's entitlement, the buyer's. *)
RemoveWraps(d) ==
    /\ driver[d].pc = "unwrap"
    /\ wraps' = wraps \ {Seller}
    /\ Blame(driver[d].o,
             IF owner = BuyerOf[driver[d].o] THEN {} ELSE {"ahead"})
    /\ DriverAt(d, "revoke")
    /\ UNCHANGED <<rail, chain, status, saga, owners, audit, mirror, refund,
                   export, counts, stale, torn>>

RevokeOwner(d) ==
    /\ driver[d].pc = "revoke"
    /\ owners' = owners \ {Seller}
    /\ DriverAt(d, "grant")
    /\ UNCHANGED <<rail, chain, status, saga, wraps, audit, mirror, refund,
                   export, counts, cause, stale, torn>>

GrantBuyer(d) ==
    /\ driver[d].pc = "grant"
    /\ owners' = owners \cup {BuyerOf[driver[d].o]}
    /\ DriverAt(d, "granted")
    /\ UNCHANGED <<rail, chain, status, saga, wraps, audit, mirror, refund,
                   export, counts, cause, stale, torn>>

Run(d) ==
    \/ \E o \in Orders : Execute(d, o) \/ Submit(d, o)
    \/ Load(d) \/ LoadUnread(d) \/ Rewrap(d)
    \/ Advance(d, "rewrapped", "dek_rewrapped", "confirm")
    \/ Advance(d, "confirm", "paid", ResumeAt("execute", "paid"))
    \/ CheckOwner(d) \/ Transfer(d) \/ CheckLanded(d)
    \/ Record(d) \/ MoveMirror(d) \/ MirrorFails(d)
    \/ Advance(d, "moved", "transferred", "unwrap")
    \/ RemoveWraps(d) \/ RevokeOwner(d) \/ GrantBuyer(d)
    \/ Advance(d, "granted", "revoked", "idle")

-----------------------------------------------------------------------------
(* Refunds.                                                                *)

RefundAt(r, pc) == refund' = [refund EXCEPT ![r].pc = pc]
RefundEnds(r)   == refund' = [refund EXCEPT ![r] = NoRefund]

ReadOrder(r, o) ==
    /\ refund[r].pc = "idle"
    /\ calls < MaxCalls
    /\ calls' = calls + 1
    /\ refund' = [refund EXCEPT ![r] = [pc |-> "saga", o |-> o, read |-> status[o]]]
    /\ Blame(o, IF DrivenBy(o) = {} THEN {} ELSE {"raced"})
    /\ UNCHANGED <<rail, chain, status, saga, access, driver, export, faults,
                   stale, torn>>

(* Mutant: 'transferred' is not yet final.                                 *)
BoundaryAfterRevoke(o) == saga[o] = "revoked"

(* The boundary: the saga is past the transfer.                            *)
TitleFinal(o) == saga[o] \in SOLANA_FINAL_STEPS

(* The refund of an order whose transfer is out, while its saga still says *)
(* 'paid', is not refused: a run was cut off in between.                   *)
ReadSaga(r) ==
    LET o == refund[r].o
    IN /\ refund[r].pc = "saga"
       /\ IF TitleFinal(o) THEN RefundEnds(r) /\ UNCHANGED cause
          ELSE /\ RefundAt(r, CASE saga[o] = "none"     -> "audit"
                                [] saga[o] = "refunded" -> "order"
                                [] OTHER                -> "abort")
               /\ Blame(o, IF o \in torn THEN {"cut"} ELSE {})
       /\ UNCHANGED <<rail, chain, status, saga, access, driver, export,
                      counts, stale, torn>>

(* The read is rejected, which looks like an order without a saga.         *)
SagaUnread(r) ==
    LET o == refund[r].o
    IN /\ refund[r].pc = "saga"
       /\ faults < MaxFaults
       /\ faults' = faults + 1
       /\ RefundAt(r, "audit")
       /\ Blame(o, IF saga[o] = "none" THEN {} ELSE {"unread"})
       /\ UNCHANGED <<rail, chain, status, saga, access, driver, export, calls,
                      stale, torn>>

(* Without a saga, a transfer on record to the buyer is final too.  It is  *)
(* looked for under the wallet of the order, which on Base is not the one  *)
(* that transfers are recorded under.                                      *)
ReadTransfers(r) ==
    /\ refund[r].pc = "audit"
    /\ IF rail = "solana" /\ BuyerOf[refund[r].o] \in audit THEN RefundEnds(r)
       ELSE RefundAt(r, "order")
    /\ UNCHANGED <<rail, chain, status, saga, access, driver, export, counts,
                   cause, stale, torn>>

(* That read is rejected, which looks like no transfer.                    *)
TransfersUnread(r) ==
    /\ refund[r].pc = "audit"
    /\ faults < MaxFaults
    /\ faults' = faults + 1
    /\ RefundAt(r, "order")
    /\ UNCHANGED <<rail, chain, status, saga, access, driver, export, calls,
                   cause, stale, torn>>

(* The saga is aborted, whatever its step is by now.                       *)
AbortSaga(r) ==
    /\ refund[r].pc = "abort"
    /\ saga' = [saga EXCEPT ![refund[r].o] = "refunded"]
    /\ RefundAt(r, "order")
    /\ UNCHANGED <<rail, chain, status, access, driver, export, counts, cause,
                   stale, torn>>

(* Only now is the order's own state looked at.                            *)
MarkRefunding(r) ==
    LET o == refund[r].o
    IN /\ refund[r].pc = "order"
       /\ status' = IF refund[r].read = "paid" /\ status[o] = "paid"
                    THEN [status EXCEPT ![o] = "refunding"] ELSE status
       /\ RefundEnds(r)
       /\ UNCHANGED <<rail, chain, saga, access, driver, export, counts, cause,
                      stale, torn>>

Refund(r) ==
    \/ \E o \in Orders : ReadOrder(r, o)
    \/ ReadSaga(r) \/ SagaUnread(r) \/ ReadTransfers(r) \/ TransfersUnread(r)
    \/ AbortSaga(r) \/ MarkRefunding(r)

-----------------------------------------------------------------------------
(* Failures.                                                               *)

(* Past the broadcast, and the saga still says 'paid'.                     *)
Committing(d) == driver[d].pc \in {"landed", "record", "mirror", "moved"}

(* A call of a run is rejected; the error is recorded in the saga.         *)
DriverThrows(d) ==
    /\ driver[d].pc # "idle"
    /\ faults < MaxFaults
    /\ faults' = faults + 1
    /\ torn' = IF Committing(d) THEN torn \cup {driver[d].o} ELSE torn
    /\ DriverEnds(d)
    /\ UNCHANGED <<rail, chain, status, saga, access, refund, export, calls,
                   cause, stale>>

(* The server dies, and every request with it.                             *)
Crash ==
    /\ faults < MaxFaults
    /\ faults' = faults + 1
    /\ driver' = [d \in Drivers |-> NoRun]
    /\ refund' = [r \in Refunds |-> NoRefund]
    /\ export' = [e \in Exports |-> NoExport]
    /\ torn' = torn \cup {driver[d].o : d \in {e \in Drivers : Committing(e)}}
    /\ UNCHANGED <<rail, chain, status, saga, access, calls, cause, stale>>

Next ==
    \/ \E tx \in Orders \cup {MintTx} : Mine(tx) \/ Drop(tx)
    \/ \E o \in Orders : Pay(o)
    \/ \E e \in Exports : Export(e)
    \/ \E d \in Drivers : Run(d) \/ DriverThrows(d)
    \/ \E r \in Refunds : Refund(r)
    \/ Crash

Spec == Init /\ [][Next]_vars

-----------------------------------------------------------------------------
(* Properties.                                                             *)

(* What the columns and the requests may hold; the wraps, entitlements and *)
(* audit rows are held under wallets of the title's own identity space     *)
(* (title_sale_sagas, memory_dek_wraps, pack_titles).                      *)
TypeOK ==
    /\ rail \in {"base", "solana"}
    /\ owner \in Holders \cup {None} /\ pending \subseteq Orders \cup {MintTx}
    /\ status \in [Orders -> {"unpaid", "paid", "refunding"}]
    /\ saga \in [Orders -> Step \cup {"none", "refunded"}]
    /\ wraps \subseteq Holders /\ owners \subseteq Holders /\ audit \subseteq Buyers
    /\ mirror \in [status : {"none", "minted", "transferred"},
                   owner : Holders \cup {None}]
    /\ \A d \in Drivers : (driver[d].o = None) <=> (driver[d].pc = "idle")
    /\ \A r \in Refunds : (refund[r].o = None) <=> (refund[r].pc = "idle")
    /\ cause \in [Orders -> SUBSET {"raced", "twin", "regressed", "cut", "ahead",
                                    "unread", "blind"}]
    /\ sold \in Orders \cup {None} /\ torn \subseteq Orders

(* The refund boundary: nobody is paid back for the order that moved the   *)
(* title, which would cost the seller both, before the refund or after it. *)
(* What keeps it from holding always: a refund beside a run of the same    *)
(* order, a run that wrote an earlier step over a later one, a refund that *)
(* came when a run was cut off past its broadcast and none had resumed it, *)
(* and a refund whose read of the saga was rejected                        *)
(* (refundSolanaTitleSale, refundOrder, submitSolanaTitleTransfer).        *)
NoDoubleLoss ==
    \A o \in Orders :
        status[o] = "refunding" /\ sold = o
            => cause[o] \cap {"raced", "regressed", "cut", "unread"} # {}

(* There is never a gap: whoever the chain shows as the owner holds a wrap *)
(* of the key (additive first, revoke last).  On Base a run goes on before *)
(* its transfer is mined, and takes the seller's wrap early.               *)
OwnerCanDecrypt ==
    owner # None /\ owner \notin wraps =>
        rail = "base" /\ \E o \in Orders : "ahead" \in cause[o]

(* A saga that ran to its end has handed everything over: the title, the   *)
(* key, the entitlement and the mirror, of all of which the seller keeps   *)
(* nothing, but for Base transfers that were never mined and for exports   *)
(* that finish after the sale (revokeSeller, transferTitleOnce).           *)
SaleHandsOver ==
    \A o \in Orders : saga[o] = "revoked" =>
        /\ owner = BuyerOf[o] \/ (rail = "base" /\ "ahead" \in cause[o])
        /\ BuyerOf[o] \in wraps \cap owners
        /\ Seller \notin wraps
        /\ Seller \in owners => stale
        /\ mirror.status = "minted" => stale

HandOver == OwnerCanDecrypt /\ SaleHandsOver

(* The saga is forward-only: a step is never taken back and 'refunded' is  *)
(* never left, unless a second run or a refund worked on the order at the  *)
(* same time, or a run could not read the saga and began it afresh         *)
(* (advance, loadOrCreateSaga, refundSolanaTitleSale).                     *)
StepsForward ==
    [][\A o \in Orders :
           \/ saga'[o] = saga[o]
           \/ saga[o] # "refunded" /\ Rank(saga'[o]) > Rank(saga[o])
           \/ saga'[o] = "refunded" /\ saga[o] \notin SOLANA_FINAL_STEPS
           \/ cause[o] \cap {"raced", "twin", "blind"} # {}]_vars
===============================================================================
