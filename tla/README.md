# A formal model of NEXUS-HUB

NEXUS-HUB is a payment hub: clients top up a balance through Airtm, lock part
of it in an escrow whose contract lives on Stellar (through the Trustless Work
API), and release it to a freelancer or get it back; disputes are settled by an
admin. Users withdraw through Airtm, and marketplaces are told of all this by
webhooks. A NestJS API answers HTTP requests, BullMQ workers make every call to
a partner, and both write the same PostgreSQL tables. This directory holds TLA+
modules that model them, the TLC configurations that check the modules on small
instances, and proofs checked by TLAPS.

All paths are relative to the root of the repository.

## The system

| Component | State it keeps | Operations | Talks to |
|---|---|---|---|
| Escrow service, `apps/api/src/escrow` | none of its own | create, fund, release, refund, find | writes balances, transactions, escrows; adds jobs to the escrow queue |
| Escrow processor, `apps/worker/src/processors/escrow.processor.ts` | none of its own | fund, release and refund jobs | calls Trustless Work; writes balances, transactions, escrows; adds webhook jobs |
| Trustless Work client, `apps/worker/src/services/trustless-work.service.ts` | the contracts, outside the system | deploy, release, refund | HTTP with a 30 s timeout |
| Disputes service, `apps/api/src/disputes` | disputes | open, add evidence, review, resolve, find | writes disputes and the escrow's status; adds escrow and webhook jobs |
| Job queues (BullMQ on Redis) | one record per jobId: state, attempts, stalls | add, take, complete, fail, recover a stalled job | hands jobs to workers |
| Tables (PostgreSQL through Prisma) | balances with a version, transactions with a unique key, escrows, disputes | versioned updates, inserts | READ COMMITTED |
| Withdrawals, `apps/api/src/withdrawals` and its processor | none of its own | create, payout, restore | balances, transactions, Airtm |
| Top-ups, `apps/api/src/topups` and its processor | none of its own | initiate, Airtm callback, session and credit jobs | balances, transactions, Airtm |
| Webhooks, `apps/api/src/webhooks` and its processor | endpoints, deliveries | register, update, delete, rotate, deliver | HTTP to marketplaces |
| Authentication, `apps/api/src/auth` | users, refresh tokens | register, login, refresh, logout | JWT |
| Users, balance queries, health, configuration, filters | users' profiles | reads, profile updates | none |

What makes each of them correct:

- **balances**: no overdraft; what users hold plus the fees earned is what was
  topped up; money moves only in whole deals.
- **escrows**: one contract is paid out once, to one side, and booked once; a
  settled escrow stays settled; an open escrow is backed by reserved money.
- **disputes**: a decision is taken once and leads to its settlement.
- **jobs**: every job ends; a retried or redelivered job does not repeat what
  it has already done.
- **events**: a marketplace is only told what is in the books.
- **payments**: Airtm pays out only what was debited; money comes in only for a
  deposit Airtm has confirmed, or back from a debit; a payment that is said to
  be completed took place.
- **accounts**: one per email, each with a balance; a refresh token that was
  exchanged or logged out buys nothing more.
- **webhooks**: the delivery history is about endpoints that exist and does not
  claim what did not arrive; an owner's change holds for every later delivery.

What is hard about it: every handler is a sequence of awaits, and between two
of them other requests, other jobs and other processes act on the same rows;
the checks at the top of a handler are therefore stale when it writes. A job
may fail after any of its effects and is run again from its first line; a
worker may die and its job is run again without counting an attempt; an HTTP
call may take effect and time out; the API may die between the commit and the
`queue.add` that follows it. `PROJECT.json` lists these places, line by line,
under `hazards`.

## The modules

```
      Store       JobQueue       TrustlessWork    Airtm       tables, queue, partners
     /     \      /      \          |             |
 EscrowStore  ----------- PaymentStore ----------+           what each half shares
   /      \                 /         \
EscrowService             PaymentServices                    API requests
   EscrowProcessor             PaymentProcessors             worker jobs
   \      /                 \         /
    Escrow -- Wallet         Payments -- PaymentLedger       composition, refinement
   /   |   \                 /
Disputes    \               /
   |         NexusHub -----+                                 one balances table
Arbitration

Sessions                     Deliveries (over JobQueue)      accounts; webhooks
```

`Wallet` and `PaymentLedger` are abstract specifications, taken in with
`INSTANCE ... WITH`. `MCEscrow`, `MCArbitration`, `MCNexusHub`, `MCPayments`,
`MCSessions` and `MCDeliveries` are the instances for TLC. `StoreProofs`
(lemmas), `EscrowProofs`, `EscrowSafetyProofs`, `ArbitrationProofs`,
`PaymentProofs`, `NexusHubProofs`, `SessionsProofs` and `DeliveriesProofs` hold
the proofs.

| Module | Models | Correspondence |
|---|---|---|
| `Store` | `Balance` and `Transaction` of `schema.prisma` | `balance[u]` is a row (available, reserved, version); `txn` is the set of rows of transactions. `Moved` is the `data` of a versioned `updateMany`, `Current` its `WHERE`, `Used` the unique index on the idempotency key. |
| `JobQueue` | BullMQ, as `queue.add` configures it | `job[j]` is the record of a jobId. `Added` is a no-op when the record exists, in any state; `Failed` counts an attempt, `Stalled` counts a stall. External. |
| `TrustlessWork` | the partner's API | `chain` is the sequence of contracts. `Replay` says whether repeating a settlement returns the first answer or is refused. |
| `EscrowStore` | `Escrow` of `schema.prisma`, the fee, the rows written to transactions | `Fee`, `Total`, `LockRow`, `SettlementRow`, `LocksMarked`. |
| `EscrowService` | `escrow.service.ts` | `req[r]` is a request in progress. `Fund` is everything before the transaction, `LockRead` its read of the balance, `LockWrite` or `LockConflict` the rest of it, `Enqueue` the `queue.add`. |
| `EscrowProcessor` | `escrow.processor.ts` | `run[j]` is a job being run. The handlers are split at the awaits: `FundStart`, `FundDeploy`, `FundCommit`, the catch block `RollbackRead`, `RollbackWrite`, `MarkFailed`; and `SettleStart`, `SettleCall`, `SettleRead`, `ReleaseCommit` or `RefundCommit`, `Notify`, which release and refund share but for their commit. |
| `Escrow` | the two together | properties and the inductive invariant. |
| `Wallet` | the promise of the balances table | `Hold`, `Unhold`, `PayOut`; no versions, rows, jobs or contracts. |
| `Disputes` | `disputes.service.ts` | `dispute[e]` is the dispute of an escrow (the schema allows one), `dreq[r]` a dispute request in progress, split at its awaits. |
| `Arbitration` | disputes and escrows together | properties that need both. |
| `Airtm` | the payment partner | `payout[k]` counts the transfers made for a withdrawal, `deposit[k]` is the session of a top-up, which the user pays or abandons; `notified[k]` counts the callbacks. External. |
| `PaymentStore` | the rows of top-ups and withdrawals, the two payment queues, the payment events | `WithStatus` and `WithReference` are the two forms of `transaction.update`. No jobId is passed, so `PaymentJobs` has one job per `queue.add`: one credit job per confirmation. |
| `PaymentServices` | `withdrawals.service.ts`, `topups.service.ts` | `preq[r]` is a request in progress. `Withdraw` runs to the read of the balance, `DebitWrite` or `DebitConflict` is the rest of the transaction; `Topup`; `Callback` is `handleAirtmWebhook`; `AddJob` the `queue.add` that ends all three. |
| `PaymentProcessors` | `withdrawal.processor.ts`, `topup.processor.ts` | `prun[j]` is a job being run. Withdrawals: `Pay`, `MarkPaid`, the catch block (`PayThrows`) with `RestoreRead`, `RestoreWrite`; top-ups: `CreditRead`, `CreditWrite`, and `CreateSession`, `SaveSession`, `FailTopup`; `AttemptThrows` is every statement outside of the try blocks. |
| `Payments` | the two with Airtm | properties, the inductive invariant, fairness. |
| `PaymentLedger` | the promise of payments | `Debit`, `Announce`, `Confirm`, `Credit`, `Restore`. |
| `NexusHub` | escrows and payments | interleaves the two on the same `balance` and `txn`. |
| `Sessions` | `auth.service.ts`, `updateStatus` of `users.service.ts` | `token` is the refresh token table in the order of inserts; `from` remembers which token a token was exchanged for, which the table does not. `Refresh` ends at the check of the row, `Revoke` and `GenerateTokens` are the two writes. |
| `Deliveries` | `webhooks.service.ts`, `webhook.processor.ts` | `endpoint` and `delivery` are the tables. `part[<<h, ep>>]` is one of the parallel `deliver()` calls of a job: `CreateRow`, `Post`, `MarkDelivered`, `MarkFailed`. `AssertOwner` and `ApplyChange` are the two statements of update, delete and rotate. |

Definitions whose names say what they break (`CurrentAlways`, `UsedNever`,
`FailedOffByOne`, `PaidOutFeeless`, ...) stand before the definition they
vary; they are used only by the mutation entries of `PROJECT.json`, which show
that each property notices the mistake.

### What is abstracted, and why that is sound

- **Merged reads.** A read of what never changes (an escrow's client,
  freelancer, amount and fee) takes no step of its own. The lookup of the
  idempotency key at the top of `fund` is merged with the read of the escrow: a
  key that the insert finds unused was unused at the lookup, and a request
  that finds it used changes nothing.
- **Transactions.** At READ COMMITTED a transaction's reads are steps of their
  own and its writes take effect when it commits. A settlement updates the
  escrow row first and so holds that row's lock until it ends; `RowFree` is
  that lock. Its two balance reads are one step: the row updated first is
  locked from its update on, so at the time of the second read it still has
  the version found by the first. A deadlock between two settlements that lock
  two balance rows in opposite order is broken by PostgreSQL with an error, and
  so ends like the version conflict of the model.
- **Money** is an integer number of units of the columns' last decimal.
  `Fee` rounds half up, as the column's scale does. Overflow of
  `DECIMAL(18, 8)` is not modelled.
- **Transaction hashes.** The hash of the ledger transaction that settles a
  contract is a function of the contract and the side, so the key
  `release-<escrow>-<hash>` is `<<"release", escrow, contract>>`. This is an
  assumption on the partner: a repeated settlement that is accepted answers
  with the hash of the settlement that took place.
- **`ACTIVE` and `CANCELLED`** are escrow statuses no code writes.
- **Deliveries' job table** gives each announcement a job of its own, as the
  webhook queue does; `Announce` is any `webhookQueue.add`. An endpoint's secret
  is the number of its rotations. A deleted endpoint keeps its id, marked
  `Gone`, because ids are never used again.
- **Airtm** pays out on every call that reaches it. The code sends its
  transaction id as a reference and does not rely on a repeat being refused. Its
  callbacks report the end of a session that was opened for a top-up.
  `handleAirtmWebhook` checks neither the type of the transaction nor that the
  status is final, so what a callback of another kind would do is not modelled.
- **Withdrawals' lookups** of the key and the user are merged with the read of
  the balance, and `DebitWrite` looks at the key again, as the unique index
  does. The insert of a top-up is one statement.
- **Left out:** the audit log, logging, response shapes, ownership and role
  checks beyond the set `Clients` (they only refuse), signatures, passwords and
  access tokens, the times of backoffs, Prisma's transaction timeouts (they end
  like `dbFails`), and a worker that is merely slow, is taken for dead and runs
  on while its job is given to another.

### Faults

`Faults` is a CONSTANT, so each run names the failures it allows: a call that
fails (`callFails`) or whose answer is lost (`callLost`), a statement of a
worker that throws (`dbFails`), a queue that refuses (`queueFails`), the death
of a worker (`workerCrash`) or of the API (`apiCrash`). In `Sessions` the
constant `Crashing` names the requests whose process may die, or one of whose statements
may throw, between any two steps; the statements of the others do not fail.

## What the runs check

The escrow runs use one fee of 1 on an amount of 100 (`PLATFORM_FEE_BPS = 100`,
the default). `CHECK_DEADLOCK FALSE` everywhere: with finitely many keys,
escrows and tokens the system comes to rest when all of them are used. Keys and
requests are only compared for equality, so they are symmetric in the safety
runs.

| Run | Instance | Shows |
|---|---|---|
| `EscrowFaults` | 1 escrow, 2 keys, queues refuse, the worker dies, 1 worker, 2 attempts and a stall | `IInv`, the inductive invariant; `BooksBalance`; `ReserveIsExplained`: a lock is given back once for each failed run of its job at most; `PaidOncePerContract`; `EventsTruthful` |
| `EscrowCrossing` | 2 escrows in opposite directions, 4 keys, no faults | `OpenEscrowsAreBacked`; the refinement `BackedWallet`: only reserved money is spent or given back; `SettledIsFinal`: release racing refund leaves the status of the winner |
| `Arbitration` | 1 escrow, 1 escrow request, 2 dispute requests, the API may die | `DisputeTypeOK`, `SettledOneWay`, `UnsettledAreBacked` |
| `ArbitrationLive` | as above with 1 dispute request, calls fail or lose their answer, statements throw, 1 worker | the refinement `WalletSpec`; `DecisionIsCarriedOut`: a decision reaches the books, or its job uses up its attempts; `JobsEnd`, `LocksAreAnswered` |
| `HubRaces` | 1 escrow, 1 escrow request, 2 payment requests, 3 keys, money for one of them, the API may die | `HubInv`; `NoOverdraft`: a lock and a withdrawal that both read enough money do not both take it; `DebitTakesFreshKey`; `HubBooksBalance`, `Solvent`; the refinement `HubLedgerSpec` |
| `Payments` | 1 payment of 1 user, every fault, 2 attempts, 2 confirmations | `PaymentsInv`; `OncePerRun`: payouts, credits and returns against the runs of their jobs; the refinement `LedgerSpec`; `PaymentsAreAnswered` |
| `Sessions` | 1 email, 2 requests, one of which may die, 3 tokens | `SessionsInv`, `SingleUsePerRequest`, `RevokedBuysNothing`, `RefreshIsAnswered` |
| `Deliveries` | 1 endpoint, 2 events, 1 job, 2 owners' requests, 1 rotation, every fault | `DeliveriesInv`, `HistoryTruthful`, `ChangesTakeHold`, `HooksEnd` |

Why these bounds are enough to be interesting: two requests (or a request and
two jobs) is what every race in this code takes; two attempts are one retry, and
the first retry is where an effect is repeated; `maxStalledCount` is BullMQ's
default of one; two confirmations are one too many. The faults of the escrow jobs
are split: in `EscrowFaults` a queue refuses, which sends an attempt through its
catch block after all its effects, and the worker dies, which starts a run over
after any of them without the catch block; in `ArbitrationLive` calls fail or lose
their answer and statements throw. One worker is what the code has, because
no `@Processor` sets a concurrency and BullMQ's default is one; jobs run side by
side in `EscrowCrossing` and `Arbitration`. The partner repeats its
answer in all runs (`Replay = TRUE`); the theorems also hold of one that refuses. Two escrows in opposite
directions make two settlements write the same two rows in opposite order. In
`HubRaces` three keys are one for `create` and two for a lock, a withdrawal or a
top-up, and funds for one deal put the overdraft one step away. Three refresh
tokens are one and the two that racing refreshes get for it. One endpoint is
enough for the deliveries because the deliveries of one job to different
endpoints share nothing but the end of the job; two events let an endpoint be
switched away from the one that is being delivered. The theorems below lift the
safety part of all this to every value of the constants.

`HubBooksBalance` and `Solvent` are stated for runs in which no worker step
fails and Airtm confirms once, because otherwise they are false in this code;
the worker's own faults are the subject of `Payments`.

**Fairness.** The liveness runs assume weak fairness of every step of a request
in progress and of every job: Node's event loop resumes a handler whose await
has settled (every HTTP call has a timeout, so each one settles), and BullMQ
hands a waiting job to a worker that is free. Nothing is assumed of clients,
owners, admins, Airtm's users or crashes. `LocksAreAnswered` and
`DecisionIsCarriedOut` hold without `apiCrash` and `queueFails` only, and
`DecisionIsCarriedOut` leaves out a decision whose job had used up its attempts
before it was taken; `RefreshIsAnswered` leaves out the requests in `Crashing`;
see below.
`PaymentsAreAnswered` and `HooksEnd` hold under every fault, because BullMQ
bounds the attempts and the stalls of a job.

### Where the code differs from what is said of it

Four runs expect a violation; the trace of each is the shortest one.

- `FundRetry` (`NoDoubleRollback`). `README.md:368`: jobIds "prevent
  double-execution on retry". The catch block of `fundEscrow` gives the lock
  back on each attempt: after two failed attempts the client has twice the
  lock back and `reserved` is negative.
- `FundRedelivery` (`SettledIsFinal`). Same line. A fund job that had committed
  when its worker died is run again, deploys a second contract and marks the
  escrow FUNDED, released or not.
- `TwoAdmins` (`ResolutionIsFinal`). `disputes.service.ts:142` "Dispute is
  already resolved" is checked on a row read before the transaction: of two
  resolve requests that pass it, the second replaces the first one's decision by
  the opposite one.
- `DeadJob` (`ResolutionTriggers`). `README.md:228` "Resolve dispute, trigger
  release or refund": the jobId of a job that failed for good makes
  `queue.add` a no-op, so the dispute is resolved and nothing is settled.

The model contains other behaviour that a reader should know of, without a run
of its own: two funds of one escrow with different keys both lock while one job
runs; an API that dies between a commit and `queue.add` leaves a lock, or a
decision, that no retry picks up; when the partner refuses to repeat a
settlement (`Replay = FALSE`), one whose booking failed on the first attempt is
never booked; two `addEvidence` requests lose one document; a dispute opened
on a stale read hides that the escrow is RELEASED; `setUnderReview`
(`disputes.service.ts:126`) writes without looking again and puts a dispute under
review that was resolved meanwhile, so that it is decided again
(`ResolutionIsFinal` is about two decisions in a row only). `SettledOneWay` and
`UnsettledAreBacked` show that none of this pays an escrow twice. Of the
payments, accounts and webhooks:

- `restoreBalance` returns the amount on every failed attempt of a withdrawal,
  and a later attempt may still pay it out; an attempt whose call was lost
  returns what Airtm has paid. `OncePerRun` and `LedgerSpec` say what remains
  true.
- A confirmation that Airtm repeats, or a credit job that is run again after
  its commit, credits the top-up again: `OncePerRun` bounds how often.
- A debit whose request died before `queue.add` stays PENDING for good.
- `README.md:398` says `TOPUP_FAILED` is fired when a session "fails or is
  abandoned". The callback of an abandoned session marks the row FAILED and
  announces nothing.
- `README.md:412`: refresh tokens "are single-use". Refreshes that read a token
  before one of them has revoked it are all answered. `SingleUsePerRequest` and
  `RevokedBuysNothing` state how far this goes.
- `README.md:119` "HMAC-signed delivery with retry", `README.md:368` "All jobs
  use 3 retry attempts". A webhook job has one attempt, a failed POST does not
  fail it, `nextRetryAt` is written and never read, and the job `retry_webhook`
  is never added.
- A refresh does not look at the user's status, so a suspended user's session
  can be rotated on.
- An endpoint that has ever been delivered to cannot be deleted: the foreign
  key of `webhook_deliveries` does not cascade.

## What is proved

The theorems hold for every value of the constants that satisfies the named
assumptions of the modules (`StoreAssumption`, `QueueAssumption`,
`ReplayAssumption`, `EscrowAssumption`, `AirtmAssumption`, `PaymentAssumption`,
`SessionsAssumption`, `DeliveriesAssumption`): any users, escrows, keys,
amounts, fee, faults, number of attempts, workers and callbacks, any emails,
tokens, endpoints and events, and a partner that repeats settlements or refuses
to. TLC evaluates each assumption in the runs.

| Module | Theorem | Statement | Says |
|---|---|---|---|
| `EscrowProofs` | `TypeCorrect` | `Spec => []TypeOK` | tables, queue, contracts and processes stay in the states the schema and the code allow |
| `EscrowSafetyProofs` | `InvariantHolds` | `Spec => []IInv` | the inductive invariant below |
| | `NeverOverdrawn` | `Spec => []NoOverdraft` | no client spends more than is available |
| | `PaidOnce` | `Spec => []PaidOncePerContract` | a contract is booked once, for its escrow, on the side the chain settled |
| | `ChargedOncePerKey` | `Spec => DebitTakesFreshKey` | a debit needs an idempotency key no earlier step used |
| | `ImplementsWallet` | `Spec => WalletSpec` | balances move only in whole locks, rollbacks and payments |
| | `EventsAreTruthful` | `Spec => []EventsTruthful` | a marketplace is told only what the tables and contracts say |
| | `BooksAlwaysBalance` | `Spec => []BooksBalance` | what users hold and the fees add up to what was topped up, under every fault |
| | `ReserveAlwaysExplained` | `Spec => []ReserveIsExplained` | what is reserved is what was locked, less what was settled, less a lock for each failed run of a fund job at most |
| `ArbitrationProofs` | `SettledForGood` | `NoRefusal`: `Spec => SettledIsFinal` | a settled escrow stays settled |
| | `OpenIsBacked` | `NoWorkerFault`: `Spec => []OpenEscrowsAreBacked` | open escrows are covered by reserved money |
| | `ImplementsBackedWallet` | `NoWorkerFault`: `Spec => BackedWallet` | refunds and payments take reserved money only |
| | `DisputesInvariant` | `ArbitrationSpec => [](ArbitrationInv /\ DisputeTypeOK)` | disputes are about escrows that have a contract |
| | `SettlesOneWay` | `NoRefusal`: `ArbitrationSpec => []SettledOneWay` | an escrow is paid to one side only, disputed or not |
| | `UnsettledIsBacked` | `NoWorkerFault`: `ArbitrationSpec => []UnsettledAreBacked` | the money of a contract stays reserved until it is settled |
| | `ArbitrationImplementsWallet` | `ArbitrationSpec => WalletSpec` | disputes move no money of their own |
| `PaymentProofs` | `PaymentsInvariant` | `PaymentsSpec => []PaymentsInv` | the inductive invariant of payments |
| | `PaymentsAreTruthful` | `PaymentsSpec => []PaymentsTruthful` | what is completed or announced took place at Airtm |
| | `ImplementsLedger` | `PaymentsSpec => LedgerSpec` | payments implement the abstract ledger |
| | `RepeatsAreBounded` | `PaymentsSpec => []OncePerRun` | payouts, credits and returns are at most one for each run of their job, and a completed credit has been credited |
| `NexusHubProofs` | `HubInvariant` | `HubSpec => []HubInv` | the two halves keep each other's invariants |
| | `HubNeverOverdrawn`, `HubPaidOnce`, `HubChargedOncePerKey` | as above, of `HubSpec` | the escrow theorems survive the composition, and the first and last cover withdrawals too |
| | `HubImplementsLedger` | `HubSpec => HubLedgerSpec` | each step of the hub is one of the wallet or of the ledger |
| | `HubBooksAlwaysBalance` | `NoWorkerFault`: `HubSpec => []HubBooksBalance` | the books of the whole hub balance |
| | `HubIsSolvent` | `NoWorkerFault`, `MaxCallbacks = 1`: `HubSpec => []Solvent` | the hub never owes and has paid more than came in |
| `SessionsProofs` | `SessionsInvariant` | `Spec => []SessionsInv` | accounts are whole, rotated tokens revoked |
| | `RevokedStaysWorthless` | `Spec => RevokedBuysNothing` | a revoked token obtains nothing more |
| | `ExchangesAreBounded` | `Spec => []SingleUsePerRequest` | at most one exchange per request in progress |
| `DeliveriesProofs` | `DeliveriesInvariant` | `Spec => []DeliveriesInv` | the history is about existing endpoints, each run writes its own row |
| | `ChangesAreObeyed` | `Spec => ChangesTakeHold` | an owner's change holds for what starts after it |
| | `HistoryIsTruthful` | `Spec => []HistoryTruthful` | DELIVERED rows, POSTs received, rows and runs are in this order |

**Hypotheses on faults.** Seven theorems assume something of the failures,
because without it their statement is false in this code, which the runs that
expect a violation and the list above show.

- `NoRefusal` (`SettledForGood`, `SettlesOneWay`): no worker dies and no queue
  refuses. Calls may fail or lose their answer and statements may throw. A fund
  job that is run again after it has committed, because its worker died
  (`FundRedelivery`) or because `queue.add` of the event threw, deploys a second
  contract and writes FUNDED over whatever status there is.
- `NoWorkerFault` (`OpenIsBacked`, `ImplementsBackedWallet`,
  `UnsettledIsBacked`, `HubBooksAlwaysBalance`, `HubIsSolvent`): the API may die
  between any two steps; no step of a worker fails. Each failed attempt of a
  fund job, or of a withdrawal, gives the money back once more (`FundRetry`).
- `MaxCallbacks = 1` (`HubIsSolvent`): Airtm confirms a deposit once. A second
  confirmation is credited a second time.

What these theorems say is then what requests can do to each other and to the
jobs, and what the API's death can do: any number of them, interleaved in any
way. The runs that check the same properties are within the same hypotheses.

**The inductive invariant of escrows.** None of the properties is inductive by itself.
`IInv` adds what the code relies on between two awaits:

- `InUse`, `Running`: requests and jobs are about rows that exist, and a job is
  active exactly while a worker runs it. Needed for types.
- `SnapshotSound`: a request that still finds the version it read finds the
  amount it read. `NoOverdraft` needs it: `LockWrite` checks only the version,
  the amount was checked one await earlier. It is inductive because every write
  of a balance row advances the version.
- `TwoParties`: client and freelancer differ, so the two updates of a release
  are of two rows.
- `SettlesDeployed`: an escrow whose status lets it be settled has a contract,
  and so have the requests and jobs that will settle it. This is why the
  processor's "no contract" error never occurs.
- `ContractsOwned`: the contract a row or a job refers to was deployed for that
  escrow, and past the call it is settled on the side of the job.
- `Booked`: keys are unique, and a settlement's key is made of the escrow, the
  side and the contract it refers to. Two rows with one contract then have one
  escrow (`ContractsOwned`), one side (a contract is settled on one), one key,
  and so are one row: `PaidOncePerContract`.

**The argument.** `InitTyped` and `NextTyped` prove the typing part, one lemma
per action or group of actions. `NextEffects` then states, variable by
variable, what any step may do (`BalanceEffect`, `EscrowEffect`, `ChainEffect`,
...); `EscrowIsKept`, `ChainIsKept` and `BalanceIsKept` draw from it what no
step changes; and each other part of `IInv` follows from those facts without
looking at actions again. The refinement maps `LockWrite` to `Hold`, a rollback
or a refund to `Unhold` and a release to `PayOut`. The other proofs are built in
the same two layers, one lemma per action that states its effects and one per
part of the invariant that uses the effects only; what they share about the
tables and the queue is in `StoreProofs`.

**Payments.** `PaymentsInv` adds to truthfulness and no-overdraft: unique keys;
`RecordedFirst` (jobs, requests and Airtm's sessions are about transactions that
exist, so `Payment(k)` is defined wherever it is used); `PaymentsRunning` (a job
is active exactly while a worker runs it, at a step of its kind); `DebitSound`
(a withdrawal that still finds the version it read finds the amount it read);
and `BackedByAirtm` (what is credited was confirmed). The refinement maps
`DebitWrite` to `Debit`, `Topup` to `Announce`, the end of a paid session to
`Confirm`, `CreditWrite` to `Credit` and `RestoreWrite` to `Restore`.

**The hub.** Neither half reads the other's rows of `txn`: their types are
disjoint. A step of one half changes the other's view only in that balance rows
move, with their versions advanced, and that keys are used up. The escrow half
is shown to keep `PaymentsInv`, and the payment half `IInv`, from those two
facts; the refinement then needs nothing but the two refinements.

**Accounts and webhooks.** `SessionsInv` is inductive as it stands because
`RotationRevokes` also speaks of requests between the revocation and the new
token. `RevokedBuysNothing` follows by counting: a step adds to
the exchanges of a token only if it starts a refresh of it, which needs the row
unrevoked. `DeliveriesProofs` strengthens `DeliveriesInv` by the bounds on a
job's counters; the foreign key carries the case in which an owner deletes an
endpoint between the lookup and the row.

**Sums.** `BooksBalance`, `OpenEscrowsAreBacked`, `UnsettledAreBacked`,
`HubBooksBalance` and `Solvent` add amounts up over sets of users, rows,
escrows, jobs or keys, with `SumFunction`. `StoreProofs` has the theory: the sum
over a finite set is the sum without one element plus that element
(`SumFunction` unfolds to a recursion that removes some element, so this takes
an induction, which is done over the strict subsets of the set: they are
well-founded, and a set without the property would have a minimal subset
without it). From it follow what the proofs use: a sum in which one term changes
changes by as much, one element more adds its term, a subset of non-negative
terms adds up to no more, two terms may trade amounts. The tables are finite in
every reachable state (`IsFiniteSet(txn)` is part of the invariants), and
`StoreAssumption` says that there are finitely many users.

**The books of escrows.** `BooksBalance` needs, beside `IInv`, only that the
table is finite: a lock, a rollback and a refund move money within one row, and
a release moves the amount to the freelancer and inserts, under a new key, the
row whose fee is missing from the holdings.

**The reserve.** `ReserveIsExplained` is an invariant beside `IInv`, again with
finite tables. Each step moves one of its terms with the reserve: a lock adds a
row and reserves its total, `create` adds a row and an escrow, a settlement
inserts the row of what it takes, and a rollback moves the reserve in the step
that leads to `markFailed`, where the run counts as failed already. When the run
then ends, its attempt or stall takes over (`EndIsCounted`), so that the sum of
what was returned never falls. The products in that sum are of a count and an
amount, neither of which is a constant; `Products` has the three facts about
them that the proof uses.

**Repeats.** `OncePerRun` says the same of payments, by the same means.
`Worth` is what a user has and has withdrawn. A debit moves money between the
two parts of it; what else moves it is a run that pays in (`PaysIn`): the return of a
withdrawal, or a credit. Such a step takes the run past the point at which
`InAtMost` counts it, and only a credit adds to what a user has at least.
`BoundsKept` says what any step does to the counts of a job: they never fall, since a
run that has paid in ends as completed, failed or stalled, and each of those is
counted. A payout is bounded in the same way by `PaidAtMost`.

**Events.** `Reported` is the invariant: an event, or a job that is about to
send one, has its contract or its booked row. `IsSettlement` rows and contracts
never disappear, so the events stay true.

**Settled for good.** `CommitsOnce`: while no worker dies and no queue refuses,
a fund job that has committed goes on to notify and completes, so no second
transaction writes a contract and FUNDED; every settlement job, and every row of
a settlement, is about the contract the escrow has. `StatusSound`: an escrow is
RELEASED or REFUNDED only if its contract went to that side on the chain, and
every booked settlement has such a status. A settlement of the other side would
then need the chain to settle one contract twice. `SettledOneWay` uses
`CommitsOnce` in the same way, but rests on the booked rows and not on the
status, since a dispute that was opened on a stale read writes over it.

**Backing.** `LocksBacked` counts what stands on a client's reserved money: the
escrows for which a fund job, or a request that has locked and has yet to add
it, exists and no settlement is booked. Their total is at most what is reserved.
The set is larger than the open escrows of `OpenEscrowsAreBacked`, which is what
makes it inductive: the lock adds to both sides, the status changes later
without any move of money, and the settlement takes the escrow out of the set by
the row it inserts. That an escrow's lock is counted at most once follows because
two locks of one escrow reserve twice and are needed once.

**Disputes.** `DisputeEffect` is all a dispute step does to the tables of the
escrows: mark an escrow that has a contract, or add a job that settles it.
`IInv`, `CommitsOnce` and `LocksBacked` are shown to survive it, and the escrow
steps to keep `DisputesDeployed`; this gives the composition without going
through the escrow actions again. `StatusSound` does not survive, as said above,
and is not part of the invariant there.

**The books of the hub.** `NoneFailed` says that while no worker step fails, no
run is in a catch block and no withdrawal is FAILED. `Balanced` is the books as
a difference: what users hold, the fees and the withdrawals, less what was
credited, is what there was at first. Every step of either half is classified by what
it does to those sums (nothing, a debit with its row, a credit with its job), so
that the escrow half reuses the argument above. `PaidAtMostOnce` says that a
withdrawal is paid once, by a run that is past the call; with one confirmation
for each deposit, what was credited is at most what was paid in, and what Airtm
has paid out at most what was withdrawn: `Solvent`.

**The history.** `HistoryCounted` refines `HistoryTruthful` for the time between
two awaits: a POST that was accepted and is yet to be written down, a row whose
POST is yet to be sent, and a run that is yet to insert its row are counted with
the side they will end on. A run inserts one row for an endpoint at most, and
starts over only at the cost of a stall.

**What stays with TLC.** Every safety property, action property and refinement
that a passing run checks is stated by a theorem. Liveness
(`PaymentsAreAnswered`, `HooksEnd`, `RefreshIsAnswered`, `JobsEnd`,
`LocksAreAnswered`, `DecisionIsCarriedOut`) needs ENABLED under fairness and is
checked by TLC only, and so are the four violations, which are traces. No module
uses RECURSIVE.

## Not modelled

- *Balance queries, health, configuration, filters, interceptors, guards,
  start-up.* They read, format or refuse and keep no state.
- *Profile updates of users.* They change fields no other component's behaviour
  depends on, except the Airtm account, whose absence only refuses a withdrawal.
- *The queue `notification` and the job `retry_webhook`.* They are declared and
  no code uses them.
- *The time of anything*: backoffs, timeouts, token lifetimes. An event that
  time brings about may happen at any moment.

## Further work

Two workers that run one job at once after a stall that was declared too early;
the restores and credits of payments inside the books of the whole hub, with
worker faults, now that `OncePerRun` bounds them.
