# Verification of CodeGO V2

TLA+ models of the parts of CodeGO V2 that decide what a user pays and what a
user sees of it. On the server: the billing ledger, its database transactions,
the in-process wallet queue, the billing of one relay request from reservation
to settlement or refund, the recovery of abandoned holds, the outbox worker,
wallet transfers, orders for blind boxes and the gate on a user's concurrent
requests. In the web interface: the playground's chat and the pages for
transfers and blind boxes. TLC checks them on small instances; TLAPS proves
the main invariants of the queue, the ledger and its transactions, the billing
of requests and the recovery, the transfers, the blind-box orders and the gate
for every instance, and that the transactions implement the ledger.

Paths below are relative to `src/`; `billing/` stands for `internal/billing/`,
`web/` for `web/default/src/`.

## 1. Inventory

CodeGO V2 is a modular monolith in Go. `cmd/gateway-api` relays AI requests to
upstream providers, `cmd/control-api` serves the web interface,
`cmd/ledger-worker` and `cmd/workflow-worker` run background work. All share
one PostgreSQL database and Redis; several gateway processes run side by side.

| Component | State | Operations | What is hard | What makes it correct |
|---|---|---|---|---|
| **Relay wallet queue** `billing/app/ledger_relay_sequence.go` | map user → (one-slot channel, reference count), one mutex | wait, leave | entries replaced while operations come and go; cancellation together with the turn; a send under the global mutex | one operation per user, no blocked send, no lost turn, no leaked entry |
| **Billing ledger** `billing/domain` | balance snapshots, reservations, settlements, ledger entries, outbox events | credit, reserve, increase, release, settle, adjust, rebuild | idempotent replays, row locks, unique indexes, concurrent ends of one hold | balances equal the journal, funds conserved, each hold ends once, append-only |
| **Ledger worker** `billing/app/ledger_worker.go` | outbox status, attempts | verify, repair, publish, clean up | several workers, poisoned accounts, comparison without a lock | a repair never loses an update |
| **Relay wallet funding** `billing/app/ledger_relay_funding.go` | reservation of the request, `users.claude_quota` | PreConsume, ReserveAdditional, Settle, Refund | two transactions per operation with compensation; several servers | projection equals the ledger when nothing is in flight |
| **Billing session** `billing/app/session*.go` | hold, key quota taken, settled / refunded flags | start, Reserve, Settle, RefundSync | key and wallet charged in parallel, partial failure, disconnects, reruns | wallet, key and receipt agree; no hold left behind; charged at most once and at most the usage |
| **API key quota** `billing/app/token_store.go` | `tokens.remain_quota`, the key's own ledger account | adjust, exhaust | read in one transaction, taken in another | never negative, equals what sessions took |
| **Wallet store** `billing/app/wallet_store.go` | ledger account mirrored in user columns | credit, adjust, reconcile, transfer | reconciling against a projection that lags | both balances move together |
| **Stale reservation recovery** `billing/app/stale_reservation_recovery.go` | — | settle or release an expired hold from usage evidence | late settlement of the same request | evidence charged once |
| **Subscription and credit-pack funding** `billing/app/funding_source.go`, `commerce/app/subscription_*.go` | subscription amounts, periods, packs | pre-consume, settle, refund, reset | period reset during a request | usage counted in one period |
| **Marketplace settlement** `marketplace/settlement` | pending and released owner earnings | record, release, forfeit, reclaim | release racing reclaim | earnings paid once |
| **Payments, refunds, promotions** `commerce/app` | orders, top-ups, refunds, group buys, codes | provider callbacks, completion, refund | duplicated and late callbacks | an order is credited once |
| **Workflow worker** `workflow` | task rows, Temporal workflows | submit, poll, settle a task | retried activities | a task is billed once |
| **Background responses** `gateway/transport/http/responses_background_*.go` | job rows with leases | claim, heartbeat, cancel, finish | a job claimed again after a crash | one result per job |
| **Wallet transfers** `internal/commerce`, `web/features/wallet` | the tab's stored intent, POSTs in flight, every node's operations, completed rows | submit, poll, acknowledge, start or join an operation, restart | POSTs lost, late or refused; restarts; several nodes | money that moved is acknowledged or still pending; one unresolved request |
| **Blind-box cash orders** `commerce/app/blind_box_*.go`, `web/features/wallet` | order rows, minted boxes, the page's payment state and shared GETs | checkout, callback, return, cancel, sweep, poll | callbacks repeated or late, after a cancellation; stale shared reads | one batch per paid order, minted before the callback is acknowledged; announced boxes exist |
| **User concurrency gate** `internal/gateway/runtime/user_concurrency.go` | leases in a Redis sorted set | reserve, renew, release | commands that run after their sender gave up; dead processes; lost answers | never more than the limit; no slot lost for good |
| **Sign-in state** `web/lib`, `web/main.tsx` | cookie, `localStorage.uid`, `auth.user` | login, second factor, sign-out, identity reads | answers of an earlier session | the page shows the session's user |
| **Playground chat** `web/features/playground` | sessions, messages, controllers, saved copy | send, stop, edit, regenerate, change session, reload | chunks after Stop; several notions of "busy" | answers hold their own text; none is stuck |
| **Tiered pricing editor** `web/features/system-settings/models`, `web/features/pricing/lib` | two copies of a text, mode, tiers, rules | edit tiers and rules, type, presets, change mode, tab or model, save | React effects that copy both ways; conversions that do not round-trip | what is shown is what is stored; nobody's prices change by looking |
| **Gateway admission and routing** `gateway/runtime`, `gateway/routing` | concurrency slots, health, affinity, budgets | acquire, release, select | slots leaked on error paths | slots never exceed the limit |
| **Identity, marketplace administration, audit, platform, web** | CRUD tables, caches | — | cache invalidation | — |

Interaction: the request handler (`gateway/transport/http/relay_request.go`)
starts a session before each upstream attempt, asks it to grow for a dearer
retry, and settles or refunds at the end (`relay_runtime.go`). The session
charges the API key and, through `LedgerRelayFunding`, the wallet. Funding
passes the wallet queue, runs one ledger transaction, and updates
`users.claude_quota` in a second statement. Payouts, top-ups, recovery and the
ledger worker write the same accounts from other processes.

## 2. Modules

```
Sums ── Ledger ── LedgerTx                (LedgerTx implements Ledger)
  └──── RelayFunding ── BillingSession
RelayWalletQueue            OutboxWorker           UserConcurrency
                    BillingSession ── StaleRecovery
TransferServer ── WalletTransfer
BlindBoxOrder ── BlindBoxPayment
PlaygroundChat
```

| Module | Models |
|---|---|
| `RelayWalletQueue` | `waitRelayWallet`: one action per critical section and per branch of the select |
| `Sums` | `Total(f)`, the sum of a function, written without recursion so that it can be reasoned about |
| `Ledger` | every ledger operation as one atomic step: the abstract specification |
| `LedgerTx` | the same operations statement by statement under READ COMMITTED |
| `RelayFunding` | the four funding methods, database call by database call, every call able to fail |
| `BillingSession` | the session and its handler around `RelayFunding` |
| `StaleRecovery` | the ledger worker's recovery of expired holds, on top of the running sessions |
| `OutboxWorker` | the publication of outbox events by several workers that may die |
| `TransferServer`, `WalletTransfer` | a node's operations and the rows; the page around them |
| `BlindBoxOrder`, `BlindBoxPayment` | the order rows, callbacks and sweep; the page that polls them |
| `UserConcurrency` | leases and the gateways' goroutines, Redis command by Redis command, with time |
| `PlaygroundChat` | requests, their chunks, the conversation and its saved copy |
| `…Proofs` | theorems and lemmas about the module of that name; `StaleRecoveryProofs` holds those of `RelayFunding` and `BillingSession` too, `LedgerTxProofs` those of `OutboxWorker`, which is why that module's specification is called `WorkerSpec` and its accounts `AccountIDs` |
| `MC…` | instances for TLC |

Definitions whose comment begins with "Variant" are not part of any
specification. Each is one plausible bug, used to show that the
property it is aimed at notices it.

### Ledger and LedgerTx

A table is a function from idempotency keys to rows or `NoRow`. Every ledger
table has a unique index on the key, so the key also stands for the generated
row id; a ledger entry is written under the caller's key or under `"entry:"`
plus the key of its reservation or settlement, which is what `EntryKeys`
distinguishes. `balance_after`, reasons, operators and timestamps are left
out. A missing snapshot row is the zero row (`ensureBalanceSnapshot` creates
it). A refused or replayed operation changes nothing and is not a step. Points
worth knowing:

* `CreditAccount` is the only operation with an overflow check in the code;
  the bound in `RefundAvailable` is the model's.
* The status `expired` of the schema is never written by the code.
* A replay of `CreateReservation` after an increase is a conflict in the code,
  because the amounts differ: no step.
* Operations of different kinds under one key collide in the outbox while its
  event exists. Three days after publication the event is deleted
  (`CleanupOutbox`), and only the other indexes remember the key.
* `IncreaseReservation` saves the reservation and the snapshot whole, from the
  copies read under their locks.

`LedgerTx` follows the PostgreSQL path, including
`createReservationPostgresTx`, which looks the key up again once it has the
account's lock. A process carries its operation, the copies it read, the
locks and index keys it holds and the inserts it still has to make; `Write`
computes on the copies, `Insert` takes one unique index after the other and
waits for an uncommitted key, `Commit` makes everything visible. The database
may roll back any transaction before any statement. That row locks last until
the end of the transaction, that readers see committed rows only and that an
insert waits for an uncommitted duplicate is PostgreSQL's behaviour, taken
from how the code relies on it.

A transaction of `LedgerTx` runs **one** ledger operation. So do the relay's
reserve, increase, settle (with marketplace usage it takes one more outbox key,
last) and release, the exported functions of `billing/domain` and the
repair of a snapshot. Other callers compose several `…Tx` operations, some on
several accounts, in one transaction: a transfer between users
(`commerce/app/wallet_peer_transfer.go:355`), a debit as reservation plus
settlement and the forfeit of earnings (`billing/app/wallet_store.go:646`,
`:325`), marketplace settlement (`marketplace/settlement/service.go:189`,
`:915`), the recovery of several holds of a request, the consumers of an outbox
event (`billing/app/ledger_worker.go:207`) and the drift repair of a key
(`billing/app/token_store.go:100`). These are not split into statements here.
Their effect is still a sequence of `Ledger` steps that become visible at
once, but their locks are not those of the model: such a transaction keeps the
index keys of its first operation while it waits for the snapshot of the
next, so the order in which a single operation takes its locks does not hold
for it, and two of them can deadlock, or one with a single operation. The
repository knows this: the worker commits events one by one because a batch
"creates lock cycles with live settlement and income release"
(`ledger_worker.go:184`), PostgreSQL aborts one transaction of a cycle (40P01),
`runWalletTransferTransaction` retries it and
`wallet_transfer_retry_postgres_test.go` provokes it; the other callers report
the error. `SingleOperationNoLockCycle` is therefore a statement about the
operations of the domain layer, not about the program.

### RelayFunding and BillingSession

One user, one wallet account, one API key. The ledger is seen through the
available balance and the reservation of each request: its status, the
reserved amount, the increase keys used, and once it is settled the amount
charged and under whose key. A settlement leaves the reserved amount as it is;
a rerun compares its own estimate with that amount, never with the charge, and
`findSettlement` looks for the relay's key, so it does not see a settlement
that recovery made. The ledger's operations are those of `Ledger`, here with their
refusals and replays, because the callers branch on them. A session is one
run of a request. `op` is the funding method in progress, `turn` the wallet
queue of a process (its guarantees are those of `RelayWalletQueue`), `pc` the
place of the handler. A failed database call is a rollback; a commit whose
answer is lost is not modelled. `log` records what the code reports to its
caller or its log: `failed` when some call of the session failed,
`unrepaired` when a compensating step did. The properties use it to say
"unless a failure was reported".

`Exempt` sessions are playground requests and unlimited keys. The trusted-quota
branch of `Settle` is left out because `shouldTrust` returns false for every
funding source. The asynchronous `Refund` has no caller that holds a
`BillingSession` (`RefundRelayBillingSync` uses `RefundSync`). The marketplace
usage row is written in the settlement's transaction and is part of
`SettleHold`; the attribution of settled funds to lots
(`AllocateSettledFundingFIFO`) is not modelled.

Behaviour of the code that the model makes visible and that no property
forbids:

* A session whose estimate is 0 reserves nothing, and its settlement then
  fails with "ledger reservation is missing": its usage is not charged.
* When the projection of an increase fails during `Settle`, the whole hold is
  released. The usage is not charged, and what the session had projected
  before stays subtracted (`Stranded` in `ProjectionAligned`).
* A rerun of a background job takes the hold of the earlier run over, but
  takes its quota from the key again.
* A rerun that finds the hold released is admitted and cannot settle.
* A rerun with the same estimate takes over a hold that is already settled,
  also below its reserve, and sends the request upstream again. At its end it
  finds the settlement and reports success with its own amount, so receipts of
  different runs can differ while the wallet is charged once. When recovery
  made the settlement, the rerun's own is refused and it reports a failure.

### StaleRecovery

`StaleRecovery` runs beside the sessions of `BillingSession`. `Expire` lets a
hold become a day old at any moment, also while its request runs: the code
compares `expires_at` only, and nothing ends a stream after a day. `Recover`
is one transaction of the ledger worker: it locks the hold, settles it at the
usage the request logged or releases it, and copies the ledger's balance over
`users.claude_quota`. `LogUsage` is the consume log a handler writes after
`Settle`, whether or not that worked; it is the evidence recovery goes by.
`overlapped` remembers that a recovery ran beside a funding call, on a live
request, or beside a live request that still has a projection to take back
(`Overlaps`). In the first two cases the copy races the funding's own
projection as the payout's copy does. In the third, the growth of another
request's hold failed between ledger and projection and the whole hold was
released: the recovery's copy already shows the released money, and the
request's refund adds it to the projection once more. `RecoveryRealigns` is
about the other recoveries. Holds on a subscription account, and one usage spread
over several holds of a request, are left out.

### OutboxWorker

A worker reads the accounts with pending events, takes a batch of them in the
order of `Before`, reads the events of one account outside any transaction and
gives each event its own (`FirstRows` is the query's `ORDER BY … LIMIT`): lock the row if it is still pending, run the
consumers, mark it published. A failure adds one attempt to every pending
event of the account. `effects` counts the commits of an event's consumers.
Accounts are ordered by attempts, so a failing account goes behind fresh ones;
conversely, fresh accounts that never stop coming could keep an account with
one failed attempt waiting. The model has finitely many events, so
`EveryEventPublished` says nothing about that.

### TransferServer and WalletTransfer

The page writes the intent with its request id to the tab's session storage,
posts it, and keeps it until a receipt of the server says it is completed. A
node keeps the user's running operation and recent ones in memory; an
operation outlives the POST that started it, is forgotten after ten minutes
and lost in a restart. The transaction that moves the money is one step, as
both users' rows are locked from its first write; an attempt that PostgreSQL
aborts and `runWalletTransferTransaction` repeats leaves nothing behind and is
no step. The payment password, a
recipient that is gone and a full node are choices of the environment.
Visible in the model, forbidden by no property:

* "Rejected" may be shown for a transfer that has moved money, after a restart,
  after the operation was forgotten, or from another node. It is harmless: the
  page keeps the intent and asks for the receipt by its id.
* A rejected intent can be retried only in the tab that stores it.
* The page's check for `PAYMENT_PASSWORD_LOCKED` is never reached with that
  code, and an `Authorize` that fails with an unknown error blocks the request
  id on its node until it is forgotten.

### BlindBoxOrder and BlindBoxPayment

A checkout inserts a pending row before it asks the gateway for a payment page.
The row is ended by the gateway's callback, the browser's return, the buyer's
cancellation or the sweep, each in its own transaction and in any order; a
payment that arrives for an expired row is honoured. The gateway repeats a
notice until that notice is answered "success". There are two kinds:
"paid" (`TRADE_SUCCESS` of Epay, `OD` of Xunhu), answered after the order was
completed, and "unpaid", any other status: Epay's is answered "fail" and is no
step, Xunhu's is answered "success" with nothing done
(`blind_box_payments.go:168`), and may come before the payment or, delayed,
after it. `acked` records the answers with their kind, and `AckedBoxesMinted`
is about the paid ones. A gateway that took the answer to an unpaid notice for
the end of the order would never send the paid one; that is the gateway's
contract, outside the code. The gateway may charge any payment it has opened
(`payable`), also one whose opening was reported to the server as a failure or
whose page never reached the buyer's tab: the server's work on a checkout goes
on when the page has lost its answer. The page opens the gateway's page, polls the order every two
seconds and shares every GET that is out (`api.get`). The number of boxes in an
order is abstracted: a batch is minted or not. Visible in the model, forbidden
by no property:

* A second order ends the watch of the first.
* A poll that has seen the success goes on after two more awaits and then
  empties the payment state, which may by then belong to a newer order.
* The poll's reload may join a GET that was read before the boxes were minted:
  the page says the boxes have arrived and shows the old inventory.
* The page reaches neither the pending dialog with its cancel button nor the
  stage "timeout"; the cancellation in the model is the API's.
* The purchase limits are counted without a lock, before the row is inserted,
  and late payments are accepted: the limits can be exceeded. The model takes
  the refusal as a choice.

### UserConcurrency

The leases of one limited user in a Redis sorted set. Every command of a
gateway is a script that runs in one step, some time after it was sent, also
after its sender has given up on it (`wire`); its answer may be lost. Time is a
step of all clocks at once (`Tick`), bounded by the deadlines the code sets
(`Due`): an operation ends at its timeout, the renewal goroutine fires on its
interval. A request whose renewal fails or is refused is cancelled and releases
its lease; a process may die at any time. The clocks of Redis and of the
gateways pass at the same rate, and a cancelled request stops at once for the
purpose of the limit. The limit is a constant.

### PlaygroundChat

A request is its `AbortController`, with the phases of `sendStreamRequest`:
fetch, error text, reading, and the unwinding of an aborted one. A message
knows the request that created it (`owner`) and those that wrote into it
(`by`). The three things by which the page knows that it is busy (`busyRef`,
the controllers, the generation number) are separate variables. Sessions are
saved by a React effect at a later step than their change, and leaving the page
aborts what runs and loses what was not saved. `Apply` is every update of a
message by an answer: it looks for the last message of the request's session,
and does nothing when that is not an answer.

## 3. Runs

| Run | Instance | Checks |
|---|---|---|
| `wallet_queue` | 4 operations, 2 users, 3 wait objects | mutual exclusion, `SendNeverBlocks`, entries, every wait ends |
| `ledger` | 1 account, 3 keys, amounts ≤ 2, balances ≤ 3 | `SnapshotMatchesLedger`, `FundsConserved`, `OneEndPerHold`, `JournalAppendOnly` |
| `ledger_tx` | 2 processes, one operation per transaction, 2 keys, amount 1, balances ≤ 2, every kind of transaction but the refund, which runs the statements of a consumption | `CopiesCurrent`, `SingleOperationNoLockCycle`, `ImplementsLedger` |
| `session` | 2 requests, 1 server, balance 3, amounts ≤ 2, 2 faults, 1 top-up, 1 retry, one client may leave | `ProjectionAligned`, `TokenBalanced`, `NoHoldLeftBehind`, `ReceiptMatchesLedger`, `EverySessionEnds` |
| `session_rerun` | 2 runs of 1 request, 2 servers, 1 crash, 1 fault, 1 payout, 1 retry, one client may leave, recovery at any moment | `EndsAgree`, `ChargedAtMostUse` |
| `session_earnings` | 2 requests, 1 payout, no fault | `ProjectionAligned`, expected to fail |
| `recovery` | 2 requests, one exempt, 2 servers, 1 fault, 1 crash | `WalletConserved`, `RecoveryRealigns`, `LateEndsAgree`, `ChargedAtMostUse`, `EveryHoldEnds` |
| `outbox` | 2 workers, 2 accounts, 3 events, the oldest always failing, one account per tick, 1 fault or crash, attempts ≤ 3 | `EffectsOnce`, `EveryEventPublished` |
| `playground` | 2 sessions, 2 requests, conversations of 2 messages | `OwnAnswersOnly`, `BusyWhileLive`, `NoStuckAnswer`, `CancelledStays` |
| `transfer` | 2 nodes, 2 POSTs, 2 ids, a balance for two transfers | `AcknowledgedOrPending`, `OneUnresolved`, `RejectedNotCommitted`, `EveryTransferAcknowledged` |
| `blindbox` | 2 orders; states that differ only in the boxes shown count as one | `OneBatchPerPaidOrder`, `AnnouncedBoxesExist`, `AckedBoxesMinted` |
| `user_gate` | 2 requests, limit 1, lease 5, interval 2, timeout 1, 2 tries | `WithinLimit`, `SlotFreed` |

**Bounds.** Two processes are enough for every pairwise race on a row or an
index key, and three keys let a hold be created, increased and ended, or ended
twice. A balance of 3 with amounts up to 2 lets the first request fit and the
second be refused, be granted a part, or find the wallet emptied between two
calls. Two faults let a step fail and its compensation fail too. With one
account per tick the older, failing account of `outbox` competes with the
healthy one for every tick. Two POSTs are a transfer and its repetition, or
two transfers; two chat requests are a stopped one and its successor. The
lease of `user_gate` is the shortest its assumption admits. The names of the
bounds are the constants `MaxInt`, `MaxAmount`, `MaxFaults`, `MaxCredits`,
`MaxEarnings`, `MaxRetries`, `MaxCrashes`, `MaxAttempts`, `MaxRequests`,
`MaxMessages`, `MaxPosts` and `MaxIds`. Keys, processes, sessions of the chat
and orders are symmetric in the safety runs that declare it; no run with a
liveness property uses symmetry.

**Deadlock** is checked in every run. `Finished` in `BillingSession` is the
state in which no request is under way.

**Fairness.** `RelayWalletQueue`: goroutines run (weak fairness) and a Go
channel serves its receivers in order of arrival (strong fairness of
`Receive`). `BillingSession`: the servers stay up (`NextUp`; `Spec`, which the
theorems are about, and the recovery runs have crashes as well), a handler
whose next step can run runs it, and
the wallet queue serves whoever keeps waiting, which is what `EveryWaitEnds`
shows; faults, disconnects, crashes and credits are not fair. `StaleRecovery`:
a hold grows old and the worker scans every minute
(`StartLedgerWorker`); the requests themselves need not move. `OutboxWorker`:
a worker's next step runs, and a deployment restarts a worker that died;
recording an event, faults and crashes are not fair. `WalletTransfer`: the
reads of a poll, sent again and again, are answered again and again, and the
user follows the page when it offers to ask again or to load itself anew; the
POSTs are not fair and may be lost for ever. `UserConcurrency`: time passes,
calls end at their deadline and goroutines run; Redis need not run any command.

**The finding.** `CreditMarketplaceOwnerEarningsTx` ends by copying the
ledger's available balance over `users.claude_quota`, "so later wallet
operations do not try to reconcile this credit back out of the ledger". If it
runs after a reservation's ledger transaction and before its projection, the
copied balance already lacks the hold and the projection subtracts it a second
time; the projection stays below the ledger although nothing failed and
nothing is in flight. The comment on `CreditUnifiedWalletQuotaTx` names the
same window, and that function avoids it by adding its increment to both
balances. Run `session_earnings` shows the shortest such behaviour; the
`session` run, without payouts, shows that the funding methods by themselves
keep the projection in step.

## 4. Proofs

Checked by tlapm with its SMT, Zenon and LS4 back ends. Assumptions:
`QueueAssumption` (finitely many operations), `LedgerAssumption` (finitely
many keys, natural bounds), `NoRowAssumption`, `TxAssumption` (the same for the
transactions, and `Kinds` names operations of the ledger),
`FundingAssumption` (finitely many requests and runs, natural bounds, every run
belongs to a request), `SessionAssumption` (a natural key balance),
`TransferAssumption` and `IdsAssumption` (natural amounts and bounds),
`WorkerAssumption` (finitely many events, each of one account, and batches of
at least one row), `PlaygroundAssumption` (there is a session id) and
`GateAssumption`; TLC evaluates them in every run.

* `RelayWalletQueueProofs`: `QueueTypeOK`, `QueueExcludes`,
  `QueueSendNeverBlocks`, `QueueEntries`. Mutual exclusion is not inductive:
  a wait object may leave the map while somebody still points to it. The
  inductive invariant says that the reference count of an object is the number
  of operations on it, that every operation under way is on its user's current
  entry, that entries of different users differ, and that an object's channel
  holds at most one turn, and none while an operation on the object has it.
* `LedgerProofs`: `LedgerTypeOK`, `LedgerReconciles`, `LedgerConserves`,
  `LedgerAppendOnly`, `LedgerOneEndPerHold`. `SnapshotMatchesLedger` relates each balance column to a
  sum over whole tables; each operation inserts or updates one row per table,
  so `TotalUpdate` (changing one value of a function changes its total by the
  difference) gives the new sums and the columns follow. Two facts make it
  inductive: a settlement belongs to a reservation marked settled
  (`SettlementsRefer`; otherwise marking one would change the settled sums of
  its account) and a release entry belongs to one marked released
  (`ReleasesRefer`; otherwise the branch of `releaseReservationTx` that marks
  an open reservation without moving funds would break the reserved column).
  `OneEndPerHold` counts the hold entries, settlements and release entries of
  a reservation; it needs in addition that no hold entry names a reservation
  before it exists (`HoldsRefer`), as the new reservation would inherit it.
* `LedgerTxProofs`: `TxImplementsLedger`, `TxCopiesCurrent`,
  `TxSingleOperationNoLockCycle`, for transactions of one operation each,
  and any number of processes, keys and accounts. The inductive invariant
  `TxInv` says, statement by statement, which row locks and index keys a
  transaction holds (`RowLocks`, and the inserts done so far), that a lock has
  one holder, that a locked row is still the copy that was read (for a rebuild:
  the row with the sums read so far, for a transaction about to commit: the row
  as it will be saved), that an index key inserted is still free in the
  committed table, and that the ledger's own invariant holds. A commit is then
  the ledger's atomic operation, applied to rows nobody could have changed, and
  every other statement a stutter; that the result satisfies the ledger's
  invariant again is taken from `LedgerProofs` through the refinement, not
  proved a second time. That such transactions do not deadlock among
  themselves follows from an order of the locks
  (`Level`: reservation, snapshot, then the index keys of reservations or
  settlements, entries and outbox): one operation only waits for a lock above
  all it holds, so along a circle the level would have to grow for ever. This
  does not extend to composed transactions (see Ledger and LedgerTx). The
  refund, which the run leaves out, is included here.
  *The outbox worker*: `OutboxEffectsOnce`, for any number of workers, accounts
  and events, any batch sizes, failures and crashes. A worker locks an event of
  a list it read earlier, outside the transaction, so the inductive invariant
  `WorkerInv` adds to `EffectsOnce` what the lists hold at each line: a worker
  past its tick has an account, and the events it goes through are that
  account's (`ListsOfPc`). Nothing is assumed of the events' status, which is
  stale by then; the check under the lock makes up for it (`Locked`).
* `StaleRecoveryProofs`, for any number of requests, servers, faults, crashes,
  retries, top-ups and payouts.
  *Any number of runs of a request*: `SessionEndsAgree`,
  `SessionChargedAtMostUse`, `SessionTokenBalanced`, and with recovery
  `RecoveryInvariant` and `RecoveryWalletConserved`. None of them is inductive:
  a handler reads a result, decides, and acts several steps later, while
  another run may end the hold both share. The inductive invariant `Control`
  says for each line of the handler which funding call it is in, how much it
  asked for, what was taken from the key, and that a hold which the handler
  believes to have ended has. It survives other runs because a hold that has
  ended never changes (`EndsFinal`). Each action has a lemma that it is a
  `GoodStep` of its session: it keeps `Control`, touches nobody else's rows,
  and moves equal amounts on both sides of each balance, so that
  `TotalUpdate` carries the sums.
  *One run per request* (`OneRun`, a hypothesis of the theorems):
  `SessionTypeOK`, `SessionNoHoldLeftBehind`, `SessionReceiptMatchesLedger`,
  `RecoveryLateEndsAgree`. A second run takes over a hold whose amount the
  first one's funding object remembers differently, so these are false
  without it (see the list under `RelayFunding and BillingSession`). `Single`
  adds to `Control` that the funding object knows the hold's amount, what of
  it is reserved and what is projected, and why an open hold is still open.
  *The projection*: `SessionProjectionAligned` states `ProjectionAligned` for
  every state before the first payout and the first crash, as the run has
  them; the payout is the finding above, and a crash leaves the projection to
  recovery. It rests on `ProjectionSum`: the projection and the balance differ
  by exactly the gaps of the sessions in the middle of a call (`Behind`,
  `Ahead`). `RecoveryRealignsProjection` allows crashes and failed
  compensations, after which no such equation holds: `ProjectionBounds` keeps
  the difference between two sums (`AtMost`, `AtLeast`) as long as no hold is
  abandoned. While one is, nothing is claimed of the projection, and the
  recovery of the last one copies the balance and establishes the bounds anew;
  with every request over and no hold open they say what the property says.
* `WalletTransferProofs`: `NoMoneyMovesUnseen`, `AtMostOneUnresolved` and
  `RefusalsHonest`, for any number of nodes, POSTs and ids. A row comes from an
  operation and an operation from a POST, both possibly long after the page moved on, so the
  inductive invariant speaks of all three: the intent of every POST, operation
  and row is the stored one or acknowledged. `RefusalsHonest` proves the action
  property `RejectedNotCommitted` from what a node's memory says: the operation
  that made a row keeps its node's slot or its place among the recent ones until
  it is dropped (`RowsRemembered`), `admit` starts a request again only past
  known rollbacks, and an id stands for one intent (`IdsUsedOnce`); so an
  operation that is still to execute a request with a row is on another node, or
  late (`LateExcused`).
* `BlindBoxProofs`: `BlindBoxTypes`, `BoxesOnce`, `AnnouncementsTrue`,
  `AcksTrue`, for any set of orders. One batch per paid order needs `RowsNew`
  (a checkout before its insert has no row); what the page announces rests on
  answers read earlier, so `AnswersTrue` and `PollsTrue` say that an answer
  "success" under way, and a poll past it, are still true: a success is final.
  `AcksTrue` follows because a paid notice is acknowledged only with the
  completion and an unpaid one changes nothing but `acked`.
* `UserConcurrencyProofs`: `GateTypes` and `LimitKept`, for any number of
  requests, any limit and all durations with
  `TTL > RenewInterval + 2 * Timeout` (in the code 90 s, 20 s and a timeout of
  0.35 s that may be configured up to 10 s). The argument: the sorted set never
  holds more tokens than the limit (`SetBounded`), and a running
  request has an unexpired token (`Leased`), because its last successful
  renewal was sent recently enough (`OnTime`) and no release of it can have run
  (`ReleaseLate`).

* `PlaygroundChatProofs`: `PlaygroundOwnAnswers`, `PlaygroundBusy`,
  `PlaygroundNoStuckAnswer` and the action property `PlaygroundCancelledStays`,
  for any number of requests, session ids and messages. An update does not name
  a message, it goes to the last one of a session, so that each property rests
  on where the answer under way is. The inductive invariant `ChatInv` says that
  the request under way belongs to the session on display and its answer is the
  last message there, that no other message is unfinished (`AnswerInPlace`),
  that a stopped request which still unwinds is of an older generation
  (`Generations`; otherwise its `finally` would clear the flag of the next
  one), and that every answer has an owner of its own, in memory and in
  localStorage (`UniqueOwners`). `sanitizeMessagesOnLoad` repairs the first
  unfinished answer from the end of a conversation only; that this is enough
  is `OneUnfinished`, proved of whatever was saved at any moment.
  `CancelledStays` follows with `UniqueOwners`: a step changes the last message
  of the session of the request under way, and a cancelled answer belongs to
  another request.

With this every safety invariant and every action property of a passing run is
a theorem. Only model-checked: the liveness properties `EveryWaitEnds`,
`EverySessionEnds`, `EveryHoldEnds`, `EveryEventPublished`,
`EveryTransferAcknowledged` and `SlotFreed`, because liveness under fairness is
outside this prover. That `FirstRows` always finds a list (its order is total)
is part of `EveryEventPublished`; the theorem about the worker does not need it.

## 5. Not modelled

* Price computation (floating point and an expression language; the quota is an
  input), caches of quotas in Redis, notification, logging and statistics,
  provider adaptors, protocol translation and streaming, CRUD administration,
  and everything marked `not_modelled` in `PROJECT.json`.
* SQLite and MySQL paths of the ledger differ in the number of statements, not
  in the operations; only the PostgreSQL path is split in `LedgerTx`.
* The statements and locks of transactions that compose several ledger
  operations, and so their deadlocks and retries.
* Of the modelled parts: the clock of the daily reconciliation, the recovery of
  subscription accounts, a second browser tab, setting the payment password,
  the transfer overview, a blind-box page that unmounts, opening and gifting
  boxes, the gate of a channel (which falls back to a local count and lets a
  request run on when its lease is lost), and whether a page or a database
  transaction comes to an end.
* The sign-in state of the web interface. From reading: a 401 of a query resets
  the signed-in user whichever session the query was sent in
  (`web/main.tsx:84`), so an answer to a query of an expired session can sign
  out the user of the next one.
* The editor of tiered prices. From reading: it keeps copies of a price text in
  editor, panel and table and copies them both ways in React effects, and its
  conversions between text and tiers do not all round-trip.

## 6. Plan

Done since the first version: recovery of stale holds, the outbox worker,
wallet transfers, blind-box orders, the user's gate, the playground. Next:

1. `AuthSession`: identity reads, logins and sign-out across sessions.
2. `PricingEditor`: the conversions as operators against a reference, and the
   passes of effects between two events.
3. `KeyQuota`: `AdjustTokenQuota` with the key's own ledger account and its
   drift repair.
4. `SubscriptionFunding` with period resets, and the choice of funding source.
5. `MarketplaceSettlement`: pending, released, forfeited and reclaimed
   earnings.
6. Top-ups and refunds under duplicated and late provider callbacks.
7. Background jobs with leases; channel concurrency slots.
