# Clude: specifications of what it keeps and what it owes

TLA+ modules, TLC configurations and TLAPS proofs for the parts of Clude whose
state is hard to get right: the marketplace that sells copies of memory packs
and their on-chain titles, the prepaid balance that pays for chat, the write
path of a memory from its store to its enrichment, and the executor of agent
tasks. All source paths below are relative to `src/`; in the sections on the
marketplace short file names are under `apps/server/src/lib/payments/`.

Contents: [what there is](#what-there-is), [the system](#the-system),
[CopyDelivery](#copydelivery), [ListingSupply](#listingsupply),
[TitleSale](#titlesale), [Topup](#topup), [MemoryWrites](#memorywrites),
[TaskExecutor](#taskexecutor), [what each run shows](#what-each-run-shows),
[proofs](#what-is-proved), [not modelled](#what-is-not-modelled),
[plan](#plan), [running it](#running-it).

## What there is

| Module | What it is |
|---|---|
| `OrderDag` | the order statuses and the sanctioned edges between them (`order-orchestrator.ts`); pure |
| `CopySale` | the abstract specification: what the marketplace promises about one sale |
| `CopyDelivery` | webhook, delivery sweeps, `grantCopy`, refund and clawback, one step per database call |
| `MCCopyDelivery` | instances of it for TLC |
| `CopyDeliveryProofs`, `CopyContractProofs` | theorems about `CopyDelivery` and their TLAPS proofs: types, payment first, the DAG and the refinement; then what a refund and a delivery promise |
| `ListingSupply` | checkout, the supply counter's compare-and-swaps, the sweeps and refunds whose clones decide on a release, expiry, the seller |
| `MCListingSupply` | instances of it for TLC |
| `TitleSale`, `MCTitleSale` | the sale of a 1-of-1 title on Base or Solana: exports, saga runs, refunds, a chain that cannot be rolled back |
| `Topup`, `MCTopup` | one wallet's prepaid balance: four confirmers of payments, the charge of chat replies, the promo credit |
| `MemoryWrites`, `MCMemoryWrites` | a memory's row, key wraps, outbox job and fragments; pollers, pipelines, revocation and re-delegation |
| `TaskExecutor`, `MCTaskExecutor` | agent tasks run by the worker's polls and by hand from the API server |
| `ListingSupplyProofs`, `TitleSaleProofs`, `TopupProofs`, `MemoryWritesProofs`, `TaskExecutorProofs` | the safety of the module each is named after, proved |

`CopyDelivery` and `ListingSupply` both extend `OrderDag`. `CopyDelivery`
instantiates `CopySale` under a refinement mapping (`SalePhase`). The other four
stand alone: they share no table with each other, and `TitleSale` sees of an
order only whether it is paid or refunding.

## The system

Clude is a memory service for agents: a server (Express, Supabase/Postgres),
workers, a memory engine, a pack format, on-chain anchors, several clients.
The parts, what each keeps and what is hard about it:

| Part | State it keeps | Operations | What is hard | Correct when |
|---|---|---|---|---|
| Order life cycle (`order-orchestrator.ts`) | `marketplace_orders` | createOrder, edges | repeats of a checkout | one order per idempotency key; only sanctioned edges |
| Copy delivery (`delivery-dispatcher.ts`, `marketplace-delivery-poller.ts`, `grant-copy.ts`) | order status, payment events, cloned memories, wraps, entitlements | payment webhook, sweep, grant | two writes per webhook; several inserts per delivery; overlapping sweeps; crashes | a paid order is delivered, whole, once, or unwound |
| Copy refund (`refund-clawback.ts`, `routes/marketplace-payments.routes.ts`) | the same, and the supply unit | refundOrder, clawback | disputes re-fire; refunds race deliveries | everything is taken back, the unit once |
| Limited supply (`routes/marketplace-payments.routes.ts`, `supply-expiry.ts`, `routes/pack-marketplace.routes.ts`) | `pack_listings.supply_sold`, `supply_total`, `status` | claim, release, expire, edit, publish, delist | compare-and-swap against stale reads, crashes between an order and its unit | no over-sell, no unit lost |
| Stripe rail (`stripe-rail.ts`) | none (Stripe's) | createIntent, parseEvent | at-least-once events, idempotency keys | one intent per order |
| Title sales (`title-saga.ts`, `solana-title-sale.ts`) | `title_sale_sagas`, `pack_titles`, wraps, entitlements, the chain | saga steps, resume, refund | irreversible transfer, resume after crash, refunds beside runs | never both refunded and transferred; the owner can always decrypt |
| Title reconciler (`reconcile-title-mints.ts`) | a cursor | mint what exports missed | abandoned mints landing late | one title per pack |
| Memory write outbox (`packages/brain/src/memory/outbox-worker.ts`) | `memory_write_jobs` | claim, run, done, failed | stale reclaim of live jobs | every memory enriched, attempts bounded |
| Memory store (`packages/brain/src/memory/`) | memories, wraps, fragments, links | store, recall, revoke, re-delegate | content written before its key wraps; pipelines that outlive their timeout | encrypted content stays readable, revoked content stays sealed |
| Top-up (`routes/topup.routes.ts`) | `chat_topups`, `chat_balances` | intent, confirm, status poll, webhook, charge | read-modify-write balances, four confirmers, a minute between check and write | each payment credited once; the balance is what was paid in less what was spent |
| OAuth server (`apps/server/src/oauth/core.ts`) | codes, refresh tokens | consume, rotate | two writes per rotation | a code or token is used once |
| Task executor (`packages/brain/src/agents/executor.ts`) | `dashboard_tasks`, a running set | poll, claim, finish | overlapping polls, dead claimers | bounded concurrency, no task lost |
| Dream and reflection, mentions bot | memories; a high-water mark | periodic model passes | outcome is a language model's | -- |
| Pack formats, tokenization, verification | none | serialise, hash, verify | pure functions over bytes | round trips |
| Compliance and entitlement gates | read only | decide | -- | -- |
| Clients (chat, dashboard, web, mobile) | -- | -- | presentation | -- |

How the marketplace's parts meet:

    buyer --checkout--> order 'created' --claim unit--> PaymentIntent --> 'awaiting_payment'
    Stripe --payment event--> webhook: insert event, then order -> 'paid', then a nudge
    poller (15 s) and nudges --sweep--> claim 'paid' -> 'delivering' -> grantCopy -> 'delivered'
    Stripe dispute / refund request --> refundOrder: -> 'refunding', clawbackCopy, release unit
    poller, after each sweep --> expire unpaid orders, release their units
    seller --> edit supply, publish, delist

Nothing holds a transaction across two database calls: every call is a point
where a crash, a rejection or another handler can come in. That is the subject
of every detailed module here, and each of their steps is one such call.

## CopyDelivery

**State.** The tables survive a crash: `status` (`marketplace_orders.status`),
`events` (`marketplace_payment_events`, by order), `ent`/`entOrder`
(`pack_entitlements`; the UNIQUE key makes it one row per buyer for the one
pack), `clones`/`seals` (memories with `imported_from_pack` provenance of an
order, and their owner DEK wraps), `releases` (how often an order's unit was
handed back). In memory are the webhook handlers between their two writes
(`advancing`), every sweep (`pc`, its snapshot split into rows read as `paid`,
`fresh`, and read as `delivering`, `resume`; the order and member it is at),
and every refund handler (`rpc`, `rord`, `rseen`: the status it read).
`charged` and `asked` are Stripe's. The rest is history: orders whose clone loop
was interrupted (`cut`), whose refund update matched no row (`missed`), which have
a refund that was answered 200 (`acked`), which the re-entry guard could not
protect, because two sweeps had them at once or the probe failed with clones
there (`unguarded`), and which a sweep was at, or came back to, once they were
being refunded (`chased`); and the sweeps whose last clone a clawback deleted
before they could seal it (`gone`).

**Steps.** One action per database call, named for the function it is in:

| Code | Actions |
|---|---|
| checkout's last update | `AwaitPayment` |
| `markOrderPaid` | `RecordEvent`, `AdvanceToPaid` (with the nudge), `AdvanceThrows` |
| `dispatchPendingDeliveries` | `SelectPending`, `ClaimForDelivery`, `ResumeDelivery`, `MarkDelivered`, `EndSweep`; `SelectThrows`, `ClaimThrows`, `DeliveryThrows` |
| `grantCopy` | `CheckEntitlement`, `ProbeClones`, `ProbeFails` (the error is ignored: clone again), `CloneMember`, `SealClone`, `GrantEntitlement` |
| `refundOrder`, `clawbackCopy` | `ReadForRefund`, `MarkRefunding`, `RevokeEntitlement`, `DeleteClones`, `ReleaseUnit`; `RefundThrows`, `ReleaseFails` |
| `expireStaleSupplyHolds`, end of a tick | `ExpireStale`, `EndTick` |
| outside | `Charge`, `AskRefund`, `Crash` |

**Abstractions.**
- One pack, every order with a buyer wallet, as checkout requires. Title orders
  are filtered out by the dispatcher's query and are not modelled; `settled`
  and `refunded` are in the DAG but nothing writes them.
- Loading the pack, the members' keys and the buyer's key is one step with the
  entitlement check, because nothing these reads depend on changes in the model;
  a keyless buyer of an encrypted pack makes them throw (`Undeliverable`).
- The entitlement insert and the update on a duplicate key are one step: rows
  are never deleted, so the update finds the row that the insert met.
- A payment event of an order that is already recorded is a stutter: the
  handler returns. A dispute that resolves to no order is answered 200 and
  changes nothing, so `AskRefund` is about charged orders. A refund of an order
  that is in no refundable state is refused and changes nothing; it stays in
  `asked` and may be read again.
- Time is not modelled: any pre-paid order may expire.

**Deep properties.** All hold with the poller's sweep and the sweeps of the webhooks
overlapping, and say by order what is excepted. `WholeCopyDelivered`: an order
marked delivered gave its buyer an active entitlement for this order and every
member, sealed when encrypted, or a sweep is still writing them; and each exactly
once unless the order is `unguarded`. Excepted are an interrupted clone loop
(`cut`), a refund that lost its update (`missed`), both violation runs below, and a
buyer who paid for the pack twice, whose second order finds the first one's
clones and entitlement (`Alone`). `UnitReturnedOnce`: the unit goes back at most
once however often refunds are repeated or run side by side. `RefundTakesCopyBack`:
an answered refund leaves nothing behind and no later sweep brings it back. These
two except `missed` and `chased`: of two overlapping sweeps one may mark the order
delivered, a refund take the copy back, and the other one go on writing clones,
which a repeated dispute finds, deletes and frees a unit for. `NothingBeforeCapture`
and `StatusFollowsDag` need no exception. `PaidIsServed` is the durability claim of
the poller.

**Refinement.** `SaleIsKept` maps statuses to the phases of `CopySale` (open,
closed, owed, delivered, unwound), and says that the whole protocol is such a
sale: captured before delivered, delivered or unwound from owed, never
re-opened, and what is owed to a servable buyer does not stay owed.

## ListingSupply

**State.** One listing (`status`, `total`, `sold`); the orders; open intents;
`copied`, the orders with a clone in the buyer's namespace; per checkout request
what it read (`supply_total`, the order's status, `supply_sold`) and how often it
tried; `held`, the orders a delivery sweep is at or has in its snapshot; per refund
handler, and for the expiry sweep, the release in progress; the seller's request.
History are the counts of units (`claimed`, `freed`, `twice`, `extra`, `kept`,
`peak`) and what happened to an order (`uncounted`, `replayed`, `missed`, `erased`,
`recloned`).

**Steps.** One per database call:

| Code | Actions |
|---|---|
| checkout, `claimSupplyUnit` | `ReadListing`, `CreateOrder`, `ReadSupply`, `ClaimUnit`, `FailOrphanOrder`, `OpenIntent`, `AwaitPayment`, `CheckoutThrows` |
| payment and delivery | `Pay`, `TakeForDelivery`, `CloneCopy`, `MarkDelivered`, `LeaveOrder` |
| `refundOrder`, `clawbackCopy` | `ReadForRefund`, `MarkRefunding`, `DeleteClones`, `RefundThrows` |
| `expireStaleSupplyHolds` | `ExpireStale` |
| `releaseSupplyUnit` | `ReadForRelease`, `ReleaseUnit`, `ReleaseFails` |
| seller: load, then a plain update | `LoadForPatch`, `LoadForPublish`, `LoadForDelist`, `SellerWrites` |

An order identity is a (buyer, client_token) pair, so a repeat of a checkout is a
second request with the same order. Of delivery and refund there is what decides on
a release: a refund frees a unit when its delete found a clone, also when its guarded
update matched no row because a sweep had claimed the order meanwhile. That sweep may
then write clones again, and a later refund find them. What else they do is
`CopyDelivery`'s subject; `CopyDelivery` in turn models the release as one step.

**Deep properties.** `SoldIsConserved`: `supply_sold` is claims won less units
handed back, through every interleaving of two compare-and-swap loops, refunds,
a crash and plain updates by the seller; a second unit goes back only for an order
whose clones a sweep wrote again after a refund had deleted them. `SoldWithinPeak`:
even with stale totals it stays under the largest supply ever offered (the comment
at `routes/pack-marketplace.routes.ts:107-108` speaks of the current one, which an
edit beside a claim can undercut). `BuyableIffUnitsLeft`: the status, written from
earlier reads, agrees with the counter (until the seller edits the listing).
`LiveFitsSupply`: the live orders that hold a unit of their own are no more than
the supply and what went back for orders that had none to give or gave twice;
every other live order has a cause, an intent asked for by a repeated checkout, a
listing that had no limit when it was ordered, or a refund that lost its update.
`listing_oversell` shows the first of these. `ExpiredUnitsReturn`: an expired
order's unit comes back unless the release was lost (`kept`).

## TitleSale

**State.** The chain: `owner` (ownerOf the title) and `pending` (transactions
broadcast and not mined). The database: the order's `status`, its saga's step,
the `wraps` of the pack key by holder, `owners` (active `title_owner`
entitlements), `audit` (`title_transfers`) and the `mirror` (`pack_titles`). In
memory: runs of a saga (`driver`), refunds and exports, lost in a crash. `rail`
is chosen at the start. `sold` is the order whose transfer moved the title, `torn`
are the orders a run was cut off at past its broadcast and none has resumed. These,
`cause` and `stale` are history: they name what interfered with an order, so that
each property can say exactly when it holds.

| Code | Actions |
|---|---|
| `mintTitleOnExport`, `mintTitleForPack`, `mintSolanaTitleForPack`, `reconcileTitleMintsOnce` | `StartExport`, `LookAtMirror`, `LookAtChain`, `Mint`, `WriteMirror`, `GrantCreator` |
| `executeTitleSale`, `executeSolanaTitleSale`, `submitSolanaTitleTransfer` | `Execute`, `Submit`, `Load`, `LoadUnread`, `Rewrap`, `CheckOwner`, `Transfer`, `CheckLanded`, `Record`, `MoveMirror`, `MirrorFails`, `RemoveWraps`, `RevokeOwner`, `GrantBuyer`, and `Advance` after each stage; `DriverThrows` |
| `refundOrder`, `refundSolanaTitleSale` | `ReadOrder`, `ReadSaga`, `SagaUnread`, `ReadTransfers`, `TransfersUnread`, `AbortSaga`, `MarkRefunding` |
| outside | `Mine`, `Drop`, `Pay`, `Crash` |

**Abstractions.** One pack, encrypted, whose frozen snapshot exists; orders are
paid only once the title is on record. A wallet stands for its custodial
identity on Base too. The seller signs exactly the asked transfer (anything else
is refused by `verifyTitleTransferTx` before it is sent) and does not move the
title elsewhere. `refundTitleSale` has no caller: `refundOrder` asks the Solana
boundary for both rails, and so does the model. No route of this tree calls the
entry points of a sale yet; they are modelled as the functions they are, with
safety only, since nothing in the tree repeats a run that failed. `loadSaga` and the
read of `title_transfers` drop their errors: a rejected read of the saga is "no saga"
(`SagaUnread`, and `LoadUnread` for a run that then begins afresh), and a rejected read of the
transfers is "no transfer" (`TransfersUnread`).

**Deep properties.** `NoDoubleLoss`: nobody is paid back for the order whose transfer
moved the title, whether the transfer comes before the refund or after it.
`HandOver`: whoever the chain shows as owner holds a wrap of the
key (additive first, revoke last), and a finished saga has handed over title,
key, entitlement and mirror. `StepsForward`: no step is taken back and 'refunded'
is never left. Each names its exceptions, and every one of them is needed: a
refund beside a run of the same order (`raced`), two runs (`twin`), an earlier
step written over a later one (`regressed`), a refund that came when a run was cut
off between its broadcast and the saga's 'transferred' and before any run had
resumed it (`cut`), a refund whose read of the saga was rejected (`unread`), a run
that began afresh a saga it could not read (`blind`), a Base wrap removed before
the transfer was mined (`ahead`), an export that finished after the sale (`stale`).

## Topup

**State.** `intent` and `direct` are the rows of `chat_topups`, `account` the row
of `chat_balances`, `landed` and `newest` the chain. `sess` are requests in
flight, each with the balance it read. History are the ledgers `credits`, `debits`,
`unpaid`, `promo`, and what went wrong on the way: payments two requests took to
one intent before either had marked it (`exposed`), payments put on another row
while the intent they refer to was pending (`astray`), payments whose credit was
cut short (`dropped`), and whether two requests overlapped on the balance (`clash`).

| Code | Actions |
|---|---|
| `routes/topup.routes.ts`: intent, webhook, confirm, status | `CreateIntent`, `Webhook`, `Confirm`, `ConfirmDirect`, `StatusPoll`, `VerificationFails`, `LookupLost`, `MarkIntent`, `WebhookMark`, `WebhookMarkLost` |
| `creditBalance`, `creditBalanceOnly` | `InsertTopup`, `ReadBalance`, `WriteCredit`, `BalanceWriteFails` |
| `routes/chat.routes.ts`: balance check and charge, registration | `StartReply`, `ReadForDeduction`, `WriteDeduction`, `Register` |
| outside | `Pay`, `Crash` |

A payment may carry the reference of an intent (`IntentOf`), and the webhook goes by
it. Nobody else does: `Confirm` compares neither the reference nor the sender with
the intent, so any payment confirms any pending intent, and `ConfirmDirect` takes
every payment whose signature is on no row yet. The webhook's read of the pending
intents drops its error and then takes the payment for a bare one (`LookupLost`).

**Abstractions.** One Solana wallet, whose payments are all large enough for its
intents; a payment, a charge and the promo credit are one unit each, so that a lost
or doubled update shows. The EVM branch of confirm takes the intent's amount and
looks at no chain: there is nothing to interleave with, and it is left out. So are
the merge of wallets in `agent-tier.ts` and the deletion of an account.

**Deep properties.** `CreditedOnce` over four confirmers that know nothing of
each other: a second credit needs a race for one intent (`exposed`), or a payment
that was confirmed directly or for another intent, after which the webhook still
finds its own intent pending, has its update refused by the UNIQUE signature,
ignores that and credits again (`astray`; no race and no fault is needed).
`RecordedIsCredited`: what the UNIQUE signature will refuse from now
on has been credited, is about to be, or is accounted for as lost;
`BalanceBacked`: lost updates may take money away and never make any up;
`BalanceExact`: without overlapping read-modify-writes the row is exact;
`SignatureKept`: the signature that blocks a second credit stays.

## MemoryWrites

**State.** `mem` is the row of a memory with its `memory_dek_wraps`, `job` its
row in `memory_write_jobs`, `fragments` the number of complete sets in
`memory_fragments`. `store` is where `storeMemory` is, `worker` the poller of each
process with its claimed batch, `pipe` the pipelines, which live on when the
worker stops waiting for them, `client` the requests of the owner.

| Code | Actions |
|---|---|
| `storeMemory` (`packages/brain/src/memory/memory.ts`) | `Insert`, `WriteWraps`, `Revert`, `Enqueue`, `StoreDies` |
| `claim_memory_write_jobs` (`packages/shared/src/core/database.ts`) | `Sweep` (`Due`, `Stale`, `Batches`, `Overtaken`) |
| `outbox-worker.ts` | `Rehydrate`, `TimesOut`, `RecordDone`, `RecordFailed`, `LoseOutcome`, `WorkerDies` |
| `runEnrichPipeline`, or the triad without outbox | `Embed`, `ClearFragments`, `InsertFragments`, `PipeEnds` |
| `memory-revoke.ts` and its two SQL functions | `ReadToRevoke`, `Revoke`, `ReadToRedelegate`, `Redelegate` |
| `deleteMemory` | `Delete` |

**Abstractions.** A summary is there, sealed or blank; text, tags, links,
entities, tokens and the on-chain commitment are left out, and so are
`updateMemory` and the reconciliation shadow, which never changes a row. Time is
left out: a failed job may be due at once (the back-off only delays), a claim can
become stale once its batch is longer than the lease covers (`Lease`: 15 minutes
over the 2-minute time-out, 7 jobs of the 20 in a batch).
`Revoke` is `revoke_memory` as the schema of this tree has it
(`packages/shared/src/core/database.ts:734`, `supabase-schema.sql:303-318`): it also
deletes the memory's fragments, which a re-delegation does not bring back
(`cleared`). The older definition in migration 024 leaves them; the migration that
replaced it (043) is not in the tree. The vertex embedding that exists with
`VERTEX_PROJECT` only is not modelled; revoke does not clear it.

**Deep properties.** `NothingLost`: content and summary survive every
interleaving of store, revoke and re-delegate. `RevokedStaysSealed`: a revoked memory
has no readable summary, no open embedding and no fragment, and gets none later,
unless a store or a pipeline held the plaintext when it was revoked (`raced`;
`UnderWay`: a store at its enqueue, or a pipeline that may still write an embedding
or fragments). `FragmentsReplaced`, `DoneIsEmbedded`, `AttemptsPaid` (the stale branch of the
claim does not look at the attempts, yet each claim beyond the limit was paid for
by one that died), `OutcomeFinal`, and the liveness of the queue, `JobsSettle`.
Their exceptions are in `cause`, by name.

## TaskExecutor

**State.** `status` of tasks, `agent` states, `used` budgets and `billed`
activity rows in the database; in each process its `running` map; poll cycles
(`poll`) which overlap when one takes longer than the timer, requests by hand
(`hand`), executions (`run`) including loops that a time-out orphaned, heartbeats
that report a cost (`beat`). History: what the owner did (`edited`, `byHand`), tasks
whose run died, threw in its set-up or lost its outcome or the answer to its claim
(`cut`), how often an agent was charged (`charges`) and whether two charges of it
overlapped or one lost a call (`skewed`).

| Code | Actions |
|---|---|
| `poll` (`packages/brain/src/agents/executor.ts`) | `StartPoll`, `ScanRow`, `ClaimTask`, `LaunchClaimed`, `PollCallLost` |
| `executeTask`, `failTask` | `SetupThrows`, `LoopEnds`, `OrphanEnds`, `MarkCompleted`, `LogAndReadBudget`, `ChargeBudget`, `ChargeLost`, `MarkFailed`, `OutcomeLost` |
| `executeTaskManually` | `ReadByHand`, `ClaimByHand`, `LaunchByHand`, `HandCallLost` |
| `routes/dashboard.routes.ts` | `CreateTask`, `EditTask`, `SetAgent`, `AskToRun`; the heartbeat `BeatRead`, `BeatWrite`, `BeatLost`, `BeatUncharged` |
| outside | `Crash` |

**Abstractions.** A task keeps its agent; what the tools do is left out. Money is in
millionths of a dollar, and `ToBudget` and `ToCost` round it as the columns do: the
budget is NUMERIC(10,2), the cost of an activity NUMERIC(10,4) (`database.ts:417-418,448`).
`priority` is a TEXT column, so the query's order is
alphabetical (critical, high, low, medium) whatever the comment at
`executor.ts:90` says; `Rank` is any order.

**Deep properties.** `OneLoopPerTask` although polls overlap, time-outs do not
stop a loop and a process may die; `SlotsBounded`; `StuckHasCause`: only named
causes leave a task `in_progress` for ever: a crash, a throw in the set-up of a run
(`executor.ts:186-187` are outside the try, and the caller only logs), an outcome or
the answer to a claim that was lost, the owner's own edit. `BudgetMatchesActivity`:
an agent's budget and the sum of its log rows differ by what the two columns round,
half a cent and half a hundredth of one per charge, over executions and heartbeats;
excepted are charges that overlapped or lost one of their calls, none of whose errors
is looked at (`skewed`), and deleted agents. `OutcomeStands`; `EligibleIsClaimed` with
the window that the query's limit really opens; `RunsSettle`.

## What each run shows

| Run | Instance | Shows |
|---|---|---|
| `copy_contract` | 1 order, encrypted pack of 2, poller and a nudge, 2 refund handlers, 2 refunds, 2 faults | `TypeOK`, `WholeCopyDelivered`, `UnitReturnedOnce` |
| `copy_races` | an order and its re-buy, pack of 1, poller and a nudge, 2 refunds, 1 fault | `NothingBeforeCapture`, `RefundTakesCopyBack`, `StatusFollowsDag` |
| `copy_progress` | an undeliverable order in front of a deliverable one, poller and a nudge, 1 refund, 1 fault, fairness | `PaidIsServed`, `SaleIsKept` |
| `listing_supply` | 2 orders, 2 requests in flight, 2 in all, supply 1 or 2, 2 refund handlers, 2 refunds, 2 edits, 1 fault | `TypeOK`, `SoldIsConserved`, `SoldWithinPeak`, `BuyableIffUnitsLeft`, `LiveFitsSupply`, `ExpiredUnitsReturn` |
| `title_sale` | either rail, 2 orders of 2 buyers, 2 runs, 1 refund, 2 exports, 4 requests in all, 1 fault, reads that fail unnoticed among them; from nothing, and from a finished export | `TypeOK`, `NoDoubleLoss`, `HandOver`, `StepsForward` |
| `topup_credits` | 2 intents, 2 payments with the reference of the first, 1 bare transfer, 2 requests in flight, 4 in all, 1 fault | `TypeOK`, `CreditedOnce`, `RecordedIsCredited`, `BalanceBacked`, `BalanceExact`, `SignatureKept` |
| `memory_writes` | an encrypted memory with 2 owner requests, or 2 jobs in one batch; 2 pollers, 2 pipelines, 1 fault; fairness | `TypeOK`, `AttemptsPaid`, `FragmentsReplaced`, `DoneIsEmbedded`, `NothingLost`, `RevokedStaysSealed`, `OutcomeFinal`, `JobsSettle` |
| `executor_runs` | 2 tasks of 2 agents, one offline at first, 1 slot, 2 overlapping polls, 1 request by hand, 2 executions, 1 heartbeat, 1 owner request, 1 fault; fairness | `TypeOK`, `OneLoopPerTask`, `SlotsBounded`, `StuckHasCause`, `BudgetMatchesActivity`, `OutcomeStands`, `EligibleIsClaimed`, `RunsSettle` |
| `copy_lost_payment` | 1 order, 1 fault, fairness of Stripe too | violation of `RetryAdvances` |
| `copy_refund_race` | 1 order, 1 refund, no fault | violation of `RefundedHasNoAccess` |
| `copy_half_delivery` | 1 order, 2 members, 1 fault | violation of `DeliveredIsWhole` |
| `listing_oversell` | 2 orders for 1 unit, no fault | violation of `NeverOversold` |

**Bounds.** `MaxFaults`, `MaxRefunds`, `MaxPosts`, `MaxEdits` bound what the
outside does; the number of nudges, handlers and requests bounds what runs at
once. Two orders are enough for a queue with one in front of the other, for a
re-buy, and for two buyers; two members for a loop that can be interrupted in
the middle; two refund handlers for two clawbacks of one order; one fault may
fall at any step, and `copy_contract` has two, a crash or rejection and then an
ignored probe on the retry (what more faults in one behaviour add is not checked by
TLC; the proofs cover any number of them). `MaxAttempts = 2` (5 in the code, both for
claims and releases) makes the retry and the giving up happen. Two orders for
one unit make a loser, and the same refund run twice, or two side by side, with a
sweep between them make the second release. In `TitleSale` and `Topup` a bound on requests
(`MaxCalls`) replaces a bound on each kind, so that every mix of four is
explored: two runs of a saga with a refund and a late export, three confirmers of
one payment with a charge, or a payment confirmed for the wrong intent and reported
by the webhook. `TitleSale` starts from nothing and from the state a
finished export leaves, which keeps all four requests for the sale. In
`MemoryWrites` the two starting states ask two questions apart: one memory
through every request of its owner, and two queued jobs that meet in one batch,
where the second one waits past the lease; `Limit = 2`, `Lease = 1` and
`MaxAttempts = 2` (20, 7 and 6 in the code) make the overtaking and the giving up
happen. In `TaskExecutor` one slot and a lookahead of one row (2 in the code)
make a full page of tasks that cannot run.

**Symmetry** is used on refund handlers, orders, runs, exports and requests of
safety runs only (in `title_sale` the two orders are swapped together with their
buyers); orders of `CopyDelivery` are numbered by `created_at` and never symmetric.

**Deadlock.** `ListingSupply` switches the deadlock check off, because with the
bounded numbers of requests, edits and faults it really stops, and so do the
four modules above; `CopyDelivery` never does (the poller ticks).

**Fairness.** `FairSpec` assumes weak fairness of the poller's sweep only: the
code starts it with `setInterval` every 15 s, skips a tick only while the
previous one runs, and swallows its errors. Nudges get none; nothing makes a
buyer pay, Stripe hurry, or a refund go on. `PaidIsServed` also needs the
undeliverable orders in front to be fewer than `SweepLimit` (100 in the code):
the query always takes the oldest, so that many orders which always fail stop
the queue. `StripeFairSpec`, used by `copy_lost_payment` alone, adds that
Stripe repeats an event until it is answered and that a webhook which does not
fail finishes; without it a counterexample would only say that Stripe stopped.
`MemoryWrites` assumes of each poller that it sweeps (`setInterval`, errors
swallowed) and goes on with the job in hand, of a pipeline that its calls end (the
fetches carry fetch's own default time-outs), and of a `storeMemory` that has begun that
it goes on; nothing of the owner's requests. `TaskExecutor` assumes that the poll
timer ticks, that a request that was made goes on and that a loop ends, by its
time-out or, once orphaned, by its bounded iterations; nothing of the owner.
`TitleSale` and `Topup` have no fairness: no timer of theirs drives them.

**Findings.** The four violation runs each contradict a sentence of the source;
`PROJECT.json` quotes it with its line. In short:

1. *A payment can be recorded and never acted on.* The event insert and the
   order update are two writes. If the second fails, the webhook answers 500,
   Stripe repeats the event, and the repeat is answered as a duplicate
   (`delivery-dispatcher.ts:136`). The order is not `paid`, so no sweep sees it.
2. *A refund can lose to a delivery and report success.* The guarded update's
   row count is not checked (`routes/marketplace-payments.routes.ts:299`); the
   clawback runs while the delivery it missed goes on.
3. *An interrupted delivery is completed without its missing members.* Any
   clone present skips the whole loop (`grant-copy.ts:228`).
4. *A repeated checkout opens an intent for an order without a unit*
   (`routes/marketplace-payments.routes.ts:443`).

**Disagreements without a run of their own.** The exceptions named in the passing
runs' properties are behaviours of the code as well; these contradict what a
comment promises, and the property with its exception removed is violated:

- `solana-title-sale.ts:206-207` says a refunded saga can never be driven forward
  into a transfer. A run that has loaded the saga writes its next step by order
  id, over 'refunded', and goes on to transfer (`raced` in `StepsForward`, `NoDoubleLoss`).
- `title-saga.ts:366-367` says removing the seller's wrap never leaves a gap. On
  Base nothing waits for the transfer's receipt (`lib/evm-title-client.ts:151-162`),
  so the owner may be without a wrap until it is mined, or for good (`ahead`).
- `solana-title-sale.ts:206-207`, "a refund is legal ONLY while the title has NOT yet
  moved", also fails in sequence. `loadSaga` drops its read's error
  (`solana-title-sale.ts:438-445`): a refund whose read is rejected finds no saga,
  answers refundable and leaves the saga at 'paid', from where the submission of the
  buyer's order transfers the title (`unread` in `NoDoubleLoss`). And a refund that
  comes after a crash between the broadcast and 'transferred', before any run has
  resumed the saga, sees a saga at 'paid' (`cut`).
- `routes/topup.routes.ts:674`: a confirm whose guarded update matched no row
  credits all the same; the payment the webhook recorded meanwhile is credited
  twice (`exposed` in `CreditedOnce`). Against "tx_hash UNIQUE prevents duplicates"
  (`:175`) it is credited twice in sequence as well, when it was confirmed directly
  or for another intent before the webhook reports it (`astray`).
- `grant-copy.ts:223`: the guard against cloning twice drops its read's error, so a
  rejected probe on a retried delivery clones every member again (`unguarded` in
  `WholeCopyDelivered`).
- `refund-clawback.ts:104-115`: the unit goes back "exactly once" because a second
  clawback finds no clone. When a sweep has written clones again behind the first
  one it finds some and frees a second unit (`chased` in `UnitReturnedOnce`,
  `recloned` in `SoldIsConserved`).
- "After this the server cannot read it" (`memory-revoke.ts:5`), "everything plaintext
  is sealed/cleared" (`docs/pmp/memory-encryption-design.md:36`). A pipeline
  that is under way when its memory is revoked goes on and writes its embedding and fragments in the open (`raced` in `RevokedStaysSealed`).
- `memory.ts:662-664` says the durable job exists because rate limits silently
  dropped enrichment. A refused embedding returns no vector and no error, so
  the job is done without one (`unembedded` in `DoneIsEmbedded`).
- `memory-revoke.ts:110-111`: a second re-delegation reads an unsealed row and
  writes an empty summary and embedding (`blanked` in `NothingLost`).
- `outbox-worker.ts:87`: the limit on attempts is not looked at by the stale
  branch of the claim, so a job that kills its worker is claimed for ever.
- `executor.ts:395-401`: a manual start beside the worker's run starts a second
  loop (`Untouched` in `OneLoopPerTask`).

## What is proved

Every safety invariant and every action property that a passing run checks is
also a theorem, for every number of orders, buyers, memories, tasks, requests and
processes and every value of the bounds; so is the safety half of the refinement.
The runs show the same formulas on small instances. All are proved from the named
assumption of their module (in its `ASSUME`), which says no more than that
identifiers differ, tables have the right domain and sizes are natural numbers,
at least one where the code has one. `TaskExecutor` also assumes that there are
finitely many poll cycles, and `TitleSale` that the mint transaction is no order.
Theorems are proved as hierarchical inductions: types first, then an invariant that
is assumed typed, action by action, then the property from the invariant.

**`CopyDeliveryProofs`.**
- `Typing`: `Spec => []TypeOK`. `TypeOK` is inductive as it stands, because it
  ties each program counter to its order (`cur[w] \in Orders <=> pc[w]` inside a
  delivery): without that conjunct no step that dereferences `cur[w]` is typed.
- `CaptureFirst`: `Spec => []NothingBeforeCapture`. The property is inductive once
  it is joined with `advancing \subseteq events` (`CaptureInv`): a webhook that
  may still advance an order has recorded its event.
- `DagFollowed`: `Spec => StatusFollowsDag`. The invariant needed (`GuardInv`) is
  that a refund handler at its guarded update holds a status from which
  `refunding` is a sanctioned edge. `StatusWriters` names the steps that write a
  status at all; the others leave it alone.
- `SaleSafety`: `Spec => Sale!SafeSpec`: initial states map to the initial state of
  `CopySale`, and every step to a step or a stutter. It is the safety half of
  `SaleIsKept`, which the run `copy_progress` checks with its liveness.

**`CopyContractProofs`**, with any number of overlapping sweeps and no hypothesis: the
exceptions are by order and in the properties. `HoldInv` underlies all three: what a
sweep holds or read as 'delivering' is past 'paid', two sweeps at one order make it
`unguarded`, and a sweep at an order that is being refunded makes it `chased`.
- `RefundIsFinal`: `RefundTakesCopyBack`. The induction (`BegunInv`, `TakenBackInv`)
  follows how far the refund of an order has come (`Begun`, `Revoked`, `Purged`): once
  begun and not in `missed`, the order's status is one no sweep delivers, and one that
  still writes a copy is at it (`chased`).
- `UnitFreedOnce`: `UnitReturnedOnce`. The unit is counted against the
  clones the clawback found (`UnitInv`): an order whose unit went back has none left.
- `CopyIsWhole`: `WholeCopyDelivered`, for packs of any size. `CopyInv` says where each
  of the sweeps at an order is in its loop (every member before that one is there, at
  least once, and sealed) and that a copy which is not whole has a sweep in the loop;
  `ExactInv` that a guarded order has one sweep, which writes each member once.
  Neither `Alone` nor the exceptions can be dropped: with a re-buy the entitlement of
  the other order is all the code looks for, and with two sweeps the second one
  resumes an order the first is delivering, clones again when it probed before the
  first one cloned, and marks the order delivered or not as it comes.

**`ListingSupplyProofs`.** `SupplyInv` has the types, `ClaimsOnce` (a request that may
still claim acts for an order that has not) and `ReleasesOnce` (a release that may
still free a unit acts for an order nothing was handed back for, or for one whose
clones a sweep wrote again): with them each successful compare-and-swap adds exactly
one order to `claimed` or `freed`, or one unit to `extra`. From it:
`SupplyTyping`, `ExpiredReturn` (`ExpiredUnitsReturn`), `UnitsConserved`
(`SoldIsConserved`, by cardinalities), `NoUnitPastPeak` (`SoldWithinPeak`: every total a request still holds was offered, `OfferedTotals`), `LiveOrdersFitSupply`
(`LiveFitsSupply`, by cardinalities from the two before it; `PaidFor`: a live order
was paid through an intent, an intent was asked for by the request that claimed or by
a repeated one, and a refund that deleted clones left its order refunding or lost its
update) and `BuyableWhileUnitsLeft` (`BuyableIffUnitsLeft`: a status is always written
with the count it was computed from).

**`TitleSaleProofs`**, on both rails. `TitleTyping`; `TitleHandsOver` (`HandOver`), from
`WrittenInv`, what each place of a saga and of a run has made permanent, and
`KeyInv`: whoever the title is with or on its way to has a wrap, and the seller
keeps his until then unless `ahead`; `SagaIsForwardOnly` (`StepsForward`), from
`RaceInv` (where a run and a refund of an unraced order can be) and `LoneInv` (a
lone run's program counter is the step the saga is at); `RefundBoundary`
(`NoDoubleLoss`), with no hypothesis on orders or buyers, from `MovedInv` (an order
whose transfer is out or moved the title is past the boundary, has a run about to
write so, or was cut off), `TornInv` (no refund of a cut-off order has got past its
read of the saga, or it is marked `cut`), `RaceInv` (an order that no refund misread is shut
for its runs once a refund is past the boundary) and `BegunInv` (whoever works on an
order found or made its saga).

**`TopupProofs`.** `TopupTyping`; `RecordedMeansCredited` (`RecordedIsCredited`);
`MoneyIsNeverMadeUp` (`BalanceBacked`: every balance a request has read is backed too,
because what was given only grows); `SumsAreExact` (`BalanceExact`: without a clash
at most one request holds a balance, and it is the current one); `SignatureStays`
(`SignatureKept`) and `PaymentsCreditedOnce` (`CreditedOnce`), whose invariant says
that two requests deciding about one intent have exposed its payments
(`MarkInv`), that a payment which has not gone astray is on no row while its own
intent is unconfirmed (`OwnInv`), and that a payment neither exposed nor astray is
credited by the one request that recorded it (`CreditInv`). What was given is counted as the cardinality of a set of
deposits, which the library's theorems on finite sets can reason about.

**`MemoryWritesProofs`**, for batches of any length. `MemoryTyping`;
`MemoriesAreNeverLost` (`NothingLost`: besides each row, each owner's request must
still hold what its row held, `Read`); `RevocationHolds` (`RevokedStaysSealed`, summary, embedding and fragments: from
`SealedInv`, nothing of a revoked memory is under way with the plaintext unless it
was when the memory was revoked); `DoneMeansEmbedded`
(`DoneIsEmbedded`); `OutcomesAreFinal` (`OutcomeFinal`) and `FragmentsAreWrittenOnce`
(`FragmentsReplaced`), both from `HeldInv`: a job that was not overtaken is in one
worker's batch at most, and runs; `ClaimsArePaidOnce` (`AttemptsPaid`): the attempts
a worker's claim carries differ from the row's by no more than the losses since.

**`TaskExecutorProofs`.** `ExecutorTyping`; `RunOnce` (`OneLoopPerTask`) and
`OutcomeIsFinal` (`OutcomeStands`), from `ClaimInv`: an untouched task has a launcher
or an execution only while it is in progress, or an orphaned loop once it is
settled; `StuckOnlyByFault` (`StuckHasCause`, from `StuckInv`: a task in progress has a
launcher, a request or an execution that will still settle it, or was cut off); `SlotsAreBounded` (`SlotsBounded`: a
cycle goes on to a claim only when the running map has a free slot, and every other
cycle is at work on one task at most);
`BudgetAccountsForActivity` (`BudgetMatchesActivity`, for any costs): from `BudgetInv`, an
agent that is not skewed has one charge at most between read and write, of a run or
of a heartbeat, on the budget as it is, and each charge moves budget and log apart by
its two roundings at most.

**Only model-checked**: the liveness properties `PaidIsServed`, `SaleIsKept` (its
fairness half), `EligibleIsClaimed`, `RunsSettle` and `JobsSettle`: fairness and
ENABLED are outside what the installed prover handles. What recursive functions
compute for every input would need induction over data, which is out of its reach
as well; no theorem here depends on one.

## What is not modelled

The components without a module are listed with their reason in
`PROJECT.json`: gates and formats that only read or compute, dream and reflection
cycles whose outcome is a language model's text, the mentions bot, the OAuth
server's single conditional updates, the clients, scripts and benchmarks. They
are the bulk of the tree's lines, and have little state that two actors share.

Within the modelled ones: prices, fees, licences, compliance status, what a memory
or a wrap contains, signature verification of webhooks, the admin views and all
logging. The conversion of Stripe's event types to payment and dispute is reduced
to which handler runs. Of the memory store: recall, scoring, decay, tags, links
and entities. What each module leaves out of its own component is in its section.

## Plan

Modelled and checked: the marketplace's copies, supply and titles, the balance,
the memory write path with its outbox, the task executor. What is left:

1. Abstract specifications for the balance (a ledger) and for the task executor
   (a task is claimed once and settled once), with the detailed modules shown to
   implement them as `CopyDelivery` implements `CopySale`.
2. Models: the title branch of a refund composed with `CopyDelivery`'s clawback,
   the cursor of the reconciler, the OAuth rotation.

## Running it

    tlc -workers 2 -config copy_contract.cfg MCCopyDelivery     # and the other copy_*.cfg
    tlc -workers 2 -config listing_supply.cfg MCListingSupply   # and listing_oversell.cfg
    tlc -workers 2 -config title_sale.cfg MCTitleSale
    tlc -workers 2 -config topup_credits.cfg MCTopup
    tlc -workers 2 -config memory_writes.cfg MCMemoryWrites
    tlc -workers 2 -config executor_runs.cfg MCTaskExecutor
    tlapm CopyDeliveryProofs.tla      # then CopyContractProofs, ListingSupplyProofs,
                                      # TitleSaleProofs, TopupProofs, MemoryWritesProofs,
                                      # TaskExecutorProofs

On two cores a run takes between half a minute and three minutes (`executor_runs`
the longest), the four violation runs a few seconds; the proofs take a few
minutes each, `MemoryWritesProofs` the longest.
