# AvaSettle in TLA+

AvaSettle is a settlement API for stablecoin pay-ins and payouts on Avalanche: a
NestJS service over PostgreSQL, three smart contracts, and a chain reached through
an RPC endpoint, with a hosted checkout page in front. This directory holds TLA+
models of it, the TLC configurations that check them, and proofs that TLAPS checks. Paths below are
relative to the repository; `payouts.service.ts` stands for
`src/payouts/payouts.service.ts`, and so on.

## The system

| Part | State it keeps | Operations | Interacts with |
|---|---|---|---|
| Payouts (`payouts/`) | `avasettle_payouts`: status, hash, dates | create, authorize, batch authorize, reconcile | rail, outbox, audit, reconciliation job |
| Pay-ins (`payins/`) | `avasettle_payins`: status, transfers, last scanned block, sweep columns; idempotency keys; derivation counter | create, reconcile, accept, sweep, top up | rail, outbox, audit, checkout, reconciliation job |
| Rail (`blockchain/`) | none; the chain is its state | balances, ERC-20 and vault sends, log scans, receipts, sweeps, commitments | RPC nodes, contracts |
| Reconciliation (`reconciliation/`) | a timer | visit broadcasted payouts and open pay-ins, retry sweeps | payouts, pay-ins |
| Webhooks (`webhooks/`) | outbox and delivery log | enqueue, dispatch, retry, recover | every service; the clients' endpoints |
| Settlements (`settlements/`) | claimed and recorded confidential settlements | record, reveal | registry contract |
| Clients (`clients/`, `auth/`) | client rows, a cache of API keys | register, rotate, suspend, authenticate | every request |
| Contracts (`contracts/src`) | paid invoices; executed payouts and batches; commitments | payInvoice, payout, payoutBatch, record, reveal, admin | the rail, payers |
| Checkout (`checkout/`, `avasettle-landing/src/scripts/checkout.ts`) | none on the server; a page's session, button and polling flag | create a session, pay, poll | pay-ins, wallet, `PaymentRouter` |
| Throttle (`common/throttle.middleware.ts`) | a window per key | count, refuse, prune | every request |
| ChainFlow, audit, database | none; audit log; pool and migrations | | |

What is hard about it:

* **Concurrency.** A handler gives up control at every `await`. HTTP requests,
  checkout polls and the reconciliation job work on one row at once, and several
  instances of the service may run. Only single SQL statements are atomic; there
  are no transactions around a handler.
* **Two stores that cannot be changed together.** A transaction can be on the
  chain while the row does not say so: the answer, the receipt or the UPDATE is
  lost, or the process dies.
* **Stale reads.** Both reconciliations read a row, make RPC calls, and write
  back without a guard.
* **The chain as seen through a pool of nodes** that lag, and whose last blocks
  may be replaced.

What makes the parts correct: a payout leaves the treasury at most once and its
status and events say what happened to it; a pay-in finds every payment, counts
it once, is confirmed exactly when the expected amount is deep enough, and says
so; an event that was enqueued reaches the client; a reference is paid once on
chain; a revoked key stops working. The hazards behind these are listed, with
their lines, in `PROJECT.json`.

## Modules

| Module | Models |
|---|---|
| `Payouts` | the payout lifecycle with the part of the rail it uses |
| `PayOnce` | what the payout rail promises, without handlers, table or chain |
| `MCPayouts` | instances of `Payouts` for TLC |
| `PayoutsProofs` | proofs about `Payouts` |
| `PayIns` | reconciliation and acceptance of a pay-in |
| `MCPayIns` | instances of `PayIns` for TLC |
| `PayInsProofs` | proofs about `PayIns` |
| `Outbox` | the webhook outbox and its dispatchers |
| `MCOutbox` | instances of `Outbox` for TLC |
| `OutboxProofs` | proofs about `Outbox` |
| `PayInCreate`, `MCPayInCreate`, `PayInCreateProofs` | creation of pay-ins: idempotency keys, derivation index, unique index |
| `PayInSweep`, `MCPayInSweep`, `PayInSweepProofs` | sweeps and gas top-ups of a deposit address, and their retries |
| `Settlements`, `MCSettlements`, `SettlementsProofs` | confidential settlements, and the registry contract under them |
| `Chain` | the token, the event log and the clock that the contracts share |
| `PaymentRouter`, `SettlementVault` | the two contracts that move money |
| `Contracts`, `MCContracts`, `ContractsProofs` | router and vault on one chain, with payers, operator, funder and owner |
| `Checkout`, `MCCheckout` | the checkout page in several tabs, over its API and `PaymentRouter`; its proofs are in `ContractsProofs` |
| `Access`, `MCAccess`, `AccessProofs` | API keys with their caches, the administration of clients, the throttle |

`Payouts` and `PayIns` end where they call `WebhookService.enqueue`; `Outbox` starts
there. `PayIns` ends where it asks for a sweep; `PayInSweep` starts there, and takes
from `PayIns` only that a pay-in gets confirmed. `Contracts` and `Checkout` are
compositions: both extend `PaymentRouter`, so the router that the page's transactions
reach is the one whose payments `Contracts` accounts for.

Operators whose name extends that of the next definition (`ClaimMatchesUnguarded`
before `ClaimMatches`) are variants of it with a plausible bug. They occur in no
specification; with one of them in the place of the original, TLC refutes the
property that `PROJECT.json` names.

### Payouts

`row` is the table, one record per payout with the columns the lifecycle reads or
writes; dates and texts are null or not null. `req` holds the local variables of
each running handler: `pc` names the await it is suspended at, `legs` the payouts
of the request, `todo` those still to do in a loop or `Promise.all`, `snap` the row
it read. `tx` is the chain with its mempool: state, legs and depth of each
transaction. `events` counts `payout.confirmed` rows put into the outbox.

| Code | Actions |
|---|---|
| `createPayout` | `CreatePayout` (with `executeImmediately` the handler goes on to authorize) |
| `authorizePayout` | `StartAuthorize`, `AuthorizeRead`, `AuthorizeClaim`, `AuthorizeBalance` |
| `authorizePayoutBatch` | `StartBatch`, `BatchRead`, `BatchBalance`, `BatchClaim`, `Rollback` |
| `sendErc20Transfer`, `vaultPayout`, `vaultPayoutBatch` | `SendFails`, `Broadcast`, `AwaitReceipt` |
| recording, webhook and catch block of both | `RecordLeg`, `StrayRecord`, `EnqueueConfirmed`, `CatchLeg` |
| `reconcilePayout`, `reconcileTransaction` | `StartReconcile`, `ReconcileQuery`, `ReconcileWrite` |

The treasury is spent and funded by parties outside the service, so a balance or
allowance check may go either way. An error (`Fault`) is an RPC or SQL call that
throws inside a `try`; a send that throws may or may not have reached the
mempool. `Crash` is a process that dies, or an error outside a `try` (such as the
audit insert after the claim). `StrayRecord` is a record write that goes on in
the background after its `Promise.all` was rejected. Reorganisations are not part
of this module: a receipt, once read, stays.

`PayOnce` is the abstract specification: payouts are sent in groups, once, settle
together, and are announced at most once and only after they were paid.
`ImplementsPayOnce` maps `Payouts` to it.

### PayIns

Rows of different pay-ins do not interact, so there is one. `chain` gives block
and log index of every transaction that pays the deposit address (or the invoice
of a PaymentRouter pay-in); `row` has status, transfers and last scanned block;
`calls` counts, up to `Many`, what the handlers ask of other services.

| Code | Actions and operators |
|---|---|
| `reconcilePayIn` | `ReconcileRead`, `ReconcileLatest`, `ReconcileScan`, `ReconcileWrite`, `EnqueueDetected`, `EnqueueConfirmed` |
| `scanFromBlock`, `findPayInTransfers`, `transferKey`, `mergeTransfers` | `ScanFromBlock`, `FindPayInTransfers`, `SameKey`, `MergeTransfers` |
| the decision | `Total`, `EnoughConfirmations`, `StatusOf`, `IsFirstDetection`, `IsNewConfirmation` |
| `acceptPayIn` | `AcceptPayIn`, `EnqueueAccepted` |
| the filter of `ReconciliationService.run` | `Candidate` |

A node of the RPC pool may be `MaxLag` blocks behind, and the height and the logs
may come from different nodes. `Reorg` replaces up to `ReorgDepth` of the last
blocks by as many others. Both are assumed to be within `RESCAN_OVERLAP_BLOCKS`
(`PayInAssumption`): the overlap is there for no other purpose. The start block
is positive, so the lookback for a start block of zero is not modelled.
`Abort` is any error that ends a handler. A transfer may be one of nothing: the status
follows the sum, so a pay-in that got only such transfers stays pending, or expires, with
transfers on its row.

### Outbox

`row` is the outbox table; of the times it keeps `due` (`next_attempt_at` is past)
and `old` (`updated_at` is older than the stuck timeout). `disp` holds the local
state of the dispatcher of each instance: the rows it claimed and has written no
outcome for, the current one, and the attempts as the claim returned them. `log` is
the delivery log. `posts`, `received` and `recoveries` count what happened to each
event.

| Code | Actions |
|---|---|
| `enqueue` | `Enqueue` |
| `tick`, `dispatchDueEvents` | `Recover`, `Claim`; `Abort` is a tick that ends in an error, or a dead process |
| `deliverOnce` | `Lookup`, `Post`, `SetDelivered`, `SetDeliveredFails`, `SetFailed`, `SetSkipped` |
| `reschedule`, `recordDelivery` | `Reschedule`, `RecordDelivery` |
| the clock | `BecomeDue`, `Age` |

`SetDeliveredFails` is there because the write of `delivered` is inside the `try`:
its error is taken for a failed attempt. `Lookup` may find the client with an
endpoint or without one, whatever it found before. `Age` of a row that is being
worked on is a slow delivery, which nothing in the code prevents: the POST has no
time limit, and the rows of a batch wait for each other.

### PayInCreate

`payins` and `keys` are the tables, `counter` the derivation counter, `req` the running
requests of all instances. One step per await: `FindKey`, `FindById`
(`findByIdempotencyKey`), `ClaimNextPayInIndex`, `CreateOrGetExisting`,
`FindByExternalId`, `StoreIdempotencyKey`. A deposit address is its index: the
derivation is injective. Requests may repeat an externalId or a key, or use one key
for two externalIds; an error or a dead process ends a request at any await. `asked`
and `answers` are what clients said and heard, for the properties. Clients of the
public checkout have neither key nor client id, and fresh externalIds; they are left
out here. The hash that turns an externalId into a router invoice is not modelled.

### PayInSweep

One pay-in, its deposit address, and handlers that do not exclude each other:
requests, automatic sweeps, and ticks of the job. `tx` holds sweep transactions, `gas`
the AVAX of the address in sweeps it pays for, `token` the two balances, `cool` whether
`updated_at` is older than the cool-down. `window` counts the retries that the job began
since `updated_at` was last set, which every UPDATE does (`Touch`), and how many of them
ended without one. Ticks may overlap, as those of two instances do; requests are bounded by
`MaxRequests`.

| Code | Actions |
|---|---|
| `sweepPayIn` | `StartSweep`, `SweepRead`, `WriteNotRequired`, `SweepRecord`, `MarkFailed` |
| `sweepDerivedPayIn` | `SweepGas`, `SweepBalance`, `SweepRefused`, `SweepSend`, `SweepReceipt`, `SweepTimeout` |
| `topUpPayIn`, `topUpAndSweep`, `sendNativeTransfer` | `StartTopUp`, `StartTopUpAndSweep`, `TopUp`, `TopUpLanded` |
| `retryPendingSweeps`, `listSweepRetryCandidates` | `RetryPendingSweeps`, `RetryCandidate` |

`Throws` is an error inside the `try` block of `sweepPayIn`, `Abort` one outside of it or
a dead process. A part of the amount may be swept by a request, and a pay-in may be
swept before it is confirmed: the code checks neither, although `docs/api.md:895`
has a 409 for it.

### Settlements

`rows` is the table and `records` the mapping of the contract, which knows a
settlement by its externalId alone. A nonce, and with it preimage and commitment, is
fresh in every request, so they are one value with the row's id. `txs` is the pool and
the chain in one: record transactions come from the registrar's account and reveals
from the auditor's, and each account's are mined in order. `WriteContract` estimates the
gas first and throws when the call would revert; a transaction may still revert when it
is mined. Its answer may be lost, its receipt may time out, and the owner may change
the roles in between. `abandoned` names rows whose request died.

| Code | Actions |
|---|---|
| `record` | `StartRecord`, `Claim`, `GetExisting`, `UpdateRecorded`, `AuditRecorded`, `RecordFails`, `Release` |
| `reveal` | `StartReveal`, `RequireRecord`, `UpdateRevealed` |
| `recordPrivateSettlement`, `revealPrivateSettlement` | `WriteContract`, `WriteContractReverts`, `WriteContractFails`, `Receipt`, `ReceiptFails` |
| `PrivateSettlementRegistry` | `Recordable`, `Revealable`, `Mine`, `SetRegistrar`, `SetAuditor` |

### Chain, PaymentRouter, SettlementVault, Contracts

A call is one step, and one that reverts is none. `Chain` is external: an ERC-20 that
moves what it is told to (tokens are whitelisted), a bag of events, a timestamp. An
invoice id is the record of what is hashed into it, and so is a payout id; the
reference of a leg is the pair of the batch's and the position. A batch is folded over
its legs from the state before the call (`ExecutedLegs`), and committed only if none
reverted. Every function that changes state is an action; the transfer of ownership
is OpenZeppelin's. `Contracts` lets everyone call in any order, with permits that are valid and
permits that are not, stray transfers to the router, and up to `MaxChanges` changes by
the owners.

### Checkout

A page is a record: where `pay()` is suspended, the session and the status it shows,
the button, the flag `polling` and the loop of `poll()`, which runs beside `pay()`. `txs`
are the payer's transactions in the order of their nonces, with nonce and deadline of the
permit they carry. Reloading a page forgets everything but the transactions. `Reconciled`
is the set of what `reconcilePayIn` may write and answer for a router invoice: what the
chain has, or what it had when a run began that writes late, over a confirmed row as well
(`payins.service.ts:231` has no guard). Confirmed takes a block on top of the payment even if
no confirmations are asked for (`Needed`).

`HandInPermit` is anyone who submits a permit that is in the pool. Around the checkout, time
passes, with one clock for the page and the chain, and permits expire (`PermitTTL`); the owner
pauses the router, changes the treasury, the support of the token or its minimum
(`OwnerChanges`); and the payer spends tokens elsewhere (`PayerSpends`), takes the allowance
back or uses the permit nonce (`PayerMeddles`), which `outside` keeps. The checks
for a wallet and a configured router come before the button is disabled and change
nothing; chain switching changes nothing here either. Invoices of the checkout do not
expire. The payer is neither the router nor a treasury. Definitions that `Contracts` has
too carry the prefix `Checkout`, so that one module can prove about both.

### Access

Several instances share the table `clients`; `cache` and `windows` are in the memory of
each. Times are kept as the time that is left, so neither the clock nor the number of
requests needs a bound. A lookup is answered by the database at one moment (`Lookup`)
and used at a later one (`Fill`), at most `MaxLag` later. An administrative call changes
the table, and then, unless its answer was lost, clears the cache of the instance it
ran on; any number of such calls may be between the two at once (`admin`). `age`, `gone`, `accepted` and `passed` record what the properties speak of.

## Runs

| Run | Checks | Bounds |
|---|---|---|
| `payouts_batch` | types, no double broadcast, claimable means unsent, confirmed means paid, exclusive claims, `PayOnce` | 2 payouts, 2 handlers, 3 hashes, 1 error, 1 crash, vault, receipts awaited |
| `payouts_live` | broadcasted payouts settle, claims end | 2 payouts, 2 handlers, 2 hashes, 1 error, no crash, no waiting for receipts |
| `payins_scan` | types, no payment missed | 2 handlers, a payment of 2 and one of nothing, 3 blocks, overlap 1, lag 1, one reorganisation of 1 block, 1 error, expiry |
| `payins_live` | confirmed means paid, confirmed for good, announced | 2 handlers, 2 payments that may be in two blocks, 5 blocks, 1 confirmation |
| `payin_create` | distinct addresses, answers of one's own, retries agree | 2 clients, 2 externalIds, 1 key, 2 requests at once, 3 in all, 1 error |
| `payin_sweep` | recorded sweeps are real, every retry within a cool-down runs or was cut short, tokens reach the treasury | 1 request and 2 ticks, 2 sweep transactions and gas for 2, a payment of 2 of which a request may sweep 1, both collection modes, 1 error, receipts awaited |
| `outbox` | types, claims, POSTs and receipts bounded, no stranded row, delivered means received, a final status is reached and kept | 1 event, 2 dispatchers, 2 attempts, 2 slow claims, 2 errors |
| `payouts_failed_paid` | a violation: failed means unpaid (see below) | 2 payouts, 1 handler, 1 error |
| `settlements` | exclusive claims, disclosure by the owner only, revealed means attested, claims end | 2 clients with one externalId, 2 requests at once, 2 records, 2 reveals, 1 error, 1 role change, with and without receipts |
| `contracts` | logs account for funds, everything once, atomic batches | 1 payer, 2 accounts that are treasury and funder in turn, amounts 0 to 2, batches of 0 to 3 legs with a limit of 2, deadlines 0 and 1, 2 grants, 2 changes by owners |
| `checkout` | charged once, confirmed is settled, reverts are explained, the button comes back | 1 session in 2 tabs, 2 page loads, 2 polls per loop, 1 mishap (an error, a call of the owner, or one of the payer elsewhere), 2 moments with permits good for one, 1 confirmation, minimums and spendings of 1 and 2, a price of 1 and funds for two payments |
| `access` | stale keys bounded, changed keys gone, bursts bounded | 2 instances, 1 client, 2 keys, TTL and window of 2, limit 2, lag 1 |

The bounds let the interesting cases happen. Two handlers are enough for every
race of two. One hash more than payouts leaves room for a second broadcast. A batch
of two has a leg that is recorded and one that is not. In `PayIns` the chain is
several times as high as the overlap, so the scan really leaves blocks behind; two
payments give the cases under, exact (in two parts or one, by `Expected`) and
over. Payouts, handlers and hashes are symmetric in `Payouts`, handlers in `PayIns`,
clients and externalIds in `PayInCreate`; liveness is checked without symmetry. In `Outbox` two attempts tell a retry from the last one, and two slow
claims let both dispatchers be late. `MCOutboxBatch.cfg` checks the safety invariants
with two events, where the second row of a batch waits while the first is delivered and
is left behind when the dispatcher stops; it is no run of its own because these
invariants are proved for any number of events. In `PayInCreate` three requests let a retry come after a race
of two. In `PayInSweep` a request and two ticks race, and the second hash leaves room for the
transaction that must not be recorded. In `Settlements` clients share nothing but the
externalId, so one is enough; two records of it may be one client's race or retry, or
two clients' collision. In `Contracts` the payer is also the beneficiary, and both
treasury accounts may fund the vault, so that money can go round. In `Checkout` the payer could
pay twice, and a permit can expire in the pool. In `Access` two keys are one rotation. Deadlock is checked for `Payouts`, `Outbox`
and `Access`; the others have nothing left to do when their bounded
requests, blocks or calls are used up, or all is swept.

### Disagreements between the code and its documentation

Each has a configuration with which TLC finds the statement violated (`tlc -config X.cfg`
with the module of the same prefix). The first is the run `payouts_failed_paid`; the
others are not among the runs.

| Configuration | Property | What the code does | What is said of it |
|---|---|---|---|
| `MCPayoutsFailedPaid` | `FailedBatchUnpaid` | marks a batch failed for any error, also one that follows the broadcast; the batch may be paid | `payouts.service.ts:449`: "on any failure nothing was paid" |
| `MCPayInsExpiry` | `PaymentNoticed` | never looks again for a payment that came in time but after the last scan before the expiry | `reconciliation.service.ts:27`: "no blockchain scan needed" |
| `MCPayInsCounted` | `CountedOnce` | counts a payment twice when a reorganisation moves it to another log index | `payins.service.ts:655`: "the dedupe in mergeTransfers makes the overlap harmless" |
| `MCPayInsAccepts` | `AcceptedIsConfirmed` | lets a reconciliation under way take an accepted pay-in back to underpaid or overpaid | `docs/api.md:265`: "Sets `status = confirmed`" |
| `MCOutboxTwice` | `DeliveredOnce` | delivers an event again, from another instance, when it takes longer than five minutes | `001_init.sql:169`: "multiple instances never deliver the same event twice" |
| `MCPayInCreateKey` | `KeyNamesOnePayIn` | makes two pay-ins for one key when two requests with different externalIds race | `docs/api.md:35`: the record of the key "is returned unchanged" |
| `MCPayInSweepRetries` | `OneRetryPerWindow` | retries a sweep twice within a cool-down, when two ticks overlap or when the first one's top-up throws, outside of the `try` that touches the row | `payin-ledger.service.ts:169`: "every attempt (success or failure) touches the row, so a persistently failing sweep is retried at most once per cool-down window" |
| `MCCheckoutSessions` | `NeverBlocked` | lets a payment revert when another session of the payer used up the nonce of its permit; the page does not fall back after the permit is signed | `checkout.ts:281`: "so this never blocks a payment" |
| `MCSettlementsPreimage` | `PreimageKept` | deletes the row, and with it the only copy of the nonce, when an error follows the broadcast | `settlements.controller.ts:46`: "the preimage stays in AvaSettle" |

Some more can be read off the models without a run. `Payouts.ReconcileWrite` leaves
`events` unchanged, so a payout that `reconcilePayout` confirms is not announced,
contrary to `docs/api.md:493`; and it writes back an old read, so it can take a
confirmed payout back to broadcasted until the job comes round again
(`EventuallySettled`). A sweep that reverts is recorded as
broadcasted and is never retried. In `Checkout.PaymentMined` the button goes after a
payment that reverted, too; the payer has to load the page again.

### Fairness

`FairSpec` assumes weak fairness of each handler's next step (an await of the
event loop returns, with a value or an error), of inclusion of transactions and
of new blocks, and strong fairness of the reconciliation job visiting a row that
is on its list. The job runs on a timer in the service and needs no free request
slot; `Req` is a bound of the model, so a slot may be taken again whenever it is
free, and weak fairness would let requests starve the job. Nothing is assumed of
requests that clients make. In `Outbox` each dispatcher ticks again and again (a
positive `webhook.dispatchIntervalSeconds`), its awaits return, and time passes for
rows that wait for their next attempt or were left behind; nothing forces a claim
to be slow. The claim takes rows in the order of their due time; the model has no
order, and no more events than a batch takes.

`PayInSweep` assumes that awaits return, that the chain includes what can be paid for,
that the job comes round while a pay-in is on its list, and that a row that nobody writes
to cools down. `PaidReachesTreasury` asks in addition that requests end, and that no sweep
of a part was sent, by a request that named an amount or came too early (`WholeSweeps`): the
code lets clients do both, and does not make up for it.
`Settlements` assumes that requests go on and that the pool is mined, `Checkout` the same
of `pay()` and the pool, and nothing of polls. Fairness of `Runs(t)` assumes in addition that wallet and payer
answer each prompt, by signing or by refusing: as long as a prompt is open, `pay()` waits and
the button stays disabled. Nothing makes a payer load or click, and nothing makes an owner
unpause. `Access`, `PayInCreate` and `Contracts` are checked for
safety only.

## Proofs

Eight modules hold proofs for all values of the constants: any number of payouts,
handlers, instances, transactions, accounts, keys, errors and crashes, and batches of any
length. Every safety property of the passing runs is proved. None of the invariants is inductive alone; each module states its `IInv`, and proves that it holds
initially and that every action keeps it.

What is assumed of the constants is in the modules that declare them
(`ConstantsAssumption`, `PayInAssumption`, `OutboxAssumption`, `CreateAssumption`,
`SweepAssumption`, `SettlementsAssumption`, `AccessAssumption`, `RouterAssumption`,
`VaultAssumption`, `ContractsAssumption`, `CheckoutAssumption`): limits are numbers,
accounts are accounts, router and vault are two contracts, the payer of the checkout is not
its treasury, the overlap of the scan covers lag and reorganisations. `NullAssumption` says
that null is none of the values a column may have. TLC evaluates them on the runs of their modules.

| Module | Proved | Property of a run |
|---|---|---|
| `PayoutsProofs` | types, one broadcast, claimable is unsent, confirmed is paid, exclusive claims; the refinement of `PayOnce` | `payouts_batch` |
| | `RowCoherent`, `EventsTruthful`, `HashWrittenOnce` | |
| `PayInsProofs` | types, `NoTransferMissed`; `ConfirmedIsPaid` under `MaxReorgs = 0` | `payins_scan`, `payins_live` |
| | `RowCoherent`; `ConfirmedEventIsPaid` under `MaxReorgs = 0` | |
| `OutboxProofs` | types, `ClaimsBounded`, `PostsBounded`, `ReceivedBounded`, `NoOrphans`, `DeliveredWasReceived` | `outbox` |
| `PayInCreateProofs` | `AddressesDistinct`, `AnsweredWithOwn`, `RetriesAgree` | `payin_create` |
| | types, `KeyIsStable` | |
| `PayInSweepProofs` | `RecordedSweepReal`, `RetriesAccounted` | `payin_sweep` |
| | types, `SweepRecordKept` | |
| `SettlementsProofs` | `ClaimExclusive`, `DisclosedByOwner`, `RevealedIsAttested` | `settlements` |
| | types, `CommitmentIsFinal` | |
| `ContractsProofs` | `LogsAccountForFunds`, `EachOnce`, `BatchAllOrNothing` | `contracts` |
| | types, `ExpiryHolds` | |
| | `ChargedOnce`, `ShownIsSettled`, `RevertsExplained` | `checkout` |
| | types of `Checkout` | |
| `AccessProofs` | `StaleBounded`, `GoneStaysOut`, `BurstBounded` | `access` |
| | types | |

What has no run beside it was found to hold by TLC, too, when added to the run of its
module; with the proof it needs none.

### Payouts

`IInv` says for each payout which transactions carry it, given its
status and the handlers that hold it (`PayoutOK`), and for each handler what it may
rely on at each await (`HandlerOK`): a handler between its claim and the write that
ends it is the only holder, its legs are authorized and, before the send, carried
by nothing; a hash that is held or recorded is one that carries the payout; a row
read for reconciliation has the hash the table has. That last part gives
`HashWrittenOnce`: what is written back is what is there.

`RailImplementsPayOnce` maps the fate of a payout to the state of the transaction that
carries it (`Fates`), its group to the legs of that transaction (`Groups`), and `events`
to what was announced. `Allowed` says in terms of `tx` and `events` what `PayOnce`
permits: a fresh transaction of payouts that none carries, the end of one, an
announcement of what was paid, or nothing to be seen. `AllowedIsPayOnce` leads from
there to `PayOnce`, and `StepAllowed` goes through the actions; one broadcast per payout
is what makes the fate a function.

### PayIns

`IInv` extends what is claimed of the row to
the copies that handlers hold (`RowIn`): transfers and last scanned block are
written together, so an old pair is as complete as a new one. `ScanIsComplete` is
the step that needs the overlap: what lies before the resume block was known, what
lies after it is read, up to the lag. `KnownStays` is where the depth of a
reorganisation matters. `PInv` adds that transfers are on the chain where they say.

For `ConfirmedEventIsPaid`, `EventInv` asks of a handler that is about to announce a
confirmation that there are transfers on the chain, exact and deep (`SettledIn`): the ones
it wrote, whatever the row has become since. On a chain that only grows they stay
(`SettledStays`), and a scan of all of it finds them (`RealIsFound`).

### Outbox

`ReceivedBounded` needs `ReceiptBudget`: a claim under which
the event may still be taken in is counted as if it had been, and so is a pending
row. `Respects` lists what a step of one dispatcher has to keep for every event;
`RespectfulStep` derives the invariant from it, with the change of the number of
holders (`CountChange`), so that each action is left with facts about its own
process.

`PostsBounded` needs a budget as well. `PostBudget` counts, beside the POSTs that were made,
those that a dispatcher may still make of an event it holds (`Owes`) and those that a
pending row leaves for later. The sum over the dispatchers is the size of a set of pairs
(`Owed`), which takes the place of a fold. A write of an old number of attempts lowers
the column, but only to what the budget of its writer had kept. `Affords` and
`OneAffords` do for this invariant what `Respects` does for the other.

### PayInCreate

The counter exceeds every index that was handed out, whether it is in a row or still in a
request (`IndexesBelow`), and two requests before their INSERT hold different ones. `Fits`
relates a row to a request that may be answered with it: it is the client's, and for the
externalId of the request or another one the client used the key for. It is kept for what
is under a key (`KeysOK`), in a request and in an answer; with the unique index
(`RowsUnique`) two answers for one externalId are one row.

### PayInSweep

A hash in the hands of a handler or on the row is that of a sweep of the amount beside it
(`SentWith`), and a success was read from the chain. The treasury has at least what each
successful sweep moved (`TreasuryOK`). `WindowOK` adds to `RetriesAccounted` that retries are
counted only as long as the row is cool and has a status that the job retries: whatever
brings a retry to its end either touches the row, which empties the window, or finds it
recorded by another, when there is nothing to count.

### Settlements

A request between its claim and its end has its row, under its own client and externalId,
and the ids of two such requests differ (`RequestOK`, `RequestsApart`); with the unique index
that is `ClaimExclusive`. A reveal in the pool was asked for, and because the gas estimate
has passed and commitments are final, what it reveals is on chain (`TxOK`): only the role of
the auditor can make it revert.

### Contracts

The loop over the legs of a batch goes through ledgers and logs that are in no state of the
chain. `MoneyOK` and `BatchOK` are therefore stated for any ledger and any bag of events, and
are carried from leg to leg by an induction over the position. A transfer together with its
event keeps `AccountOK`, self-payments and payments of zero included.
`OnceOK` says that an id is done just when there is an event for it, once.

Sums over events are folds of the community modules. `SumOf` is shown to be what it is
without one of its elements plus that element, whatever element the fold chooses first,
by an induction over the subsets of a finite set (`SubsetInduction`). It is stated for a
set of subsets, and so needs no induction principle with an operator parameter; it rests on
the well-foundedness of the naturals. `AccessProofs` begins with the same lemmas.

### Checkout

`CheckoutInv` says of a session that is confirmed that it is paid and deep (`SessionOK`), of
a page that shows confirmed that its session is so (`PageOK`), whatever an older
reconciliation has made of the row since, and of the balance what `ChargedOnce` says. The
router takes an invoice once, so each payment that is mined adds a session to those that are
paid.

`RevertsExplained` is about the two ways to pay. A payment is `Covered` when its permit was
signed for a nonce that is not ahead of the token's, or, without a permit, when the
router is allowed to take the price while things are `Undisturbed`: nothing is paid, and the
payer has not meddled with allowance or nonce elsewhere. A permit that someone else
hands in uses up its nonce but leaves the allowance (`nonce > 0` implies `Granted` as long as
things are undisturbed), and a failing permit does not stop the router. So a payment that is
covered and not `Refused` (paused, token or amount not taken, too few tokens, permit
expired, allowance or nonce used elsewhere) is the first to succeed
(`FirstPaymentSucceeds`). That holds until a payment takes the allowance.
It may be the payment of another session, because nonce and allowance belong to the
account and not to the session: this is the last disjunct of `RevertsExplained`, and what
`MCCheckoutSessions.cfg` shows.

### Access

The answer of a lookup is no older than the lookup has waited (`LookupsOK`), so the time since
a cached key was last valid and the time its entry has left add up to no more than
`TTL + MaxLag` (`CacheOK`). `GoneOK` adds to `GoneStaysOut` that nothing is on its way. For the throttle,
`Counted` follows the sums of what has passed in the last n moments: what passed in the
current window is what it counts, and in what is left of the span before it there is room
for one window only, without its first request. Hence fewer than twice the limit.

### Only model-checked

Liveness is beyond this prover: `EventuallySettled`, `EventuallyUnclaimed`,
`EventuallyConfirmed`, `ConfirmedIsAnnounced`, `EventuallyFinal`, `ClaimResolved`,
`PaidReachesTreasury`, `ButtonComesBack`. The statements that the code does not keep are
refuted by TLC, as listed above. `ConfirmedIsPaid` and `ConfirmedEventIsPaid` are proved for
a chain without reorganisations. They need that: with one reorganisation of one block TLC
refutes both (`MaxReorgs` and `ReorgDepth` set to 1 in `MCPayInsLive.cfg`). `MergeTransfers`
only adds, as `mergeTransfers` does, so a payment that was detected and then dropped from the
chain stays on the row, and is confirmed when it would have been deep enough, whatever
number of confirmations is asked for.

## What is left

A refinement between `PayInSweep` and an abstract specification like `PayOnce` would say of
sweeps what is proved of payouts. The races of the migration runner have no model.

## Not modelled

Reports, health, observability, configuration parsing, the static part of the landing
page, the SDK and the scripts keep no state that other parts depend on. The ChainFlow
facade renames the fields of payout requests. The migration runner works before the API
listens; its races are a hazard without a model. Signing, ABI encoding, decimal
formatting and the mnemonic are abstracted. The audit trail is written and
never read by a decision; an audit insert that throws is a crash of its handler.
Paging of logs is abstracted to the range it covers. The batches of ten and the
limit of a thousand rows in a reconciliation run are not modelled.
