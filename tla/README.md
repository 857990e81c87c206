# mpckit in TLA+

mpckit is a backend (`src/apps/backend`), a Move package
(`src/packages/mpckitcore_move`) and client SDKs that let an application sign
with Ika dWallets. A user pays in credits; the operator pre-buys *presigns*
(`UnverifiedPresignCap` objects on Sui) and keeps them in a pool; a sign request
claims one presign, is signed for by the client, and is submitted on chain by a
background worker. The valuable things are the user's credits, the operator's
presigns and the status a request reports, and they live in different places:
Postgres rows, pg-boss jobs, Redis keys and Sui objects. No transaction spans
two of them. That is what these modules are about.

Paths below are relative to `src/apps/backend/src` unless they start with
`packages`, `apps` or `scripts`.

## Inventory

| Component | State | Operations | Talks to | What is hard | What makes it correct |
|---|---|---|---|---|---|
| Sign requests (`features/sign`) | `sign_requests` rows | prepare, submit, `sign.process`, `sign.sweep-prepared` | ledger, pool, queue, executor | four writers of one row, each statement its own commit; crash and redelivery; stale snapshots | reported means signed; one presign per request; every charge ends in a signature or a refund; settled is final |
| Presign pool (`features/presigns`) | `presigns` rows, caps on chain | allocate, mark, roll back, refill, promote, sweep, discover | chain, queue | rows lag the chain; age-based recovery; empty pool | no two live requests hold one cap; ready means unspent; no leak |
| Reconcile script (`scripts/reconcile-unknown-signs.ts`) | none | re-check unknown signs, roll back | sign rows, pool, chain | acts on an old read | what the tables say of the chain stays true |
| Credit ledger (`features/billing/service.ts`) | accounts, charges, deposits | charge, refund, recordDeposit | Postgres | READ COMMITTED races, unique-index waits, several coins per deposit | no overdraft; refund within charge; balance equals journal; deposits whole |
| Transaction executor and lock (`shared/sui/tx-executor.ts`, `shared/redis/lock.ts`) | Redis token or in-process queue; OperatorCap version | execute under withLock | gas station, chain | token expiry inside the section, lost answers, dead holders | failure phases are honest; the lock excludes; calls return |
| Shared dWallets (`packages/mpckitcore_move`: account, auth, assertion, challenges, sign) | roster, threshold, nonce, partial caps | add, remove, set threshold, sign, future sign and its completion | ika coordinator | signatures circulate and may be submitted late, twice or after a roster change | some transaction can carry the roster's quorum; an approval authorises one operation, under the roster it was given under |
| Treasury, ACL, zero-trust and imported-key dWallets (Move) | two balances, OperatorCaps, stored caps | deposit, the `pay_` entry points, drain, mint and burn | coordinator, backend | several OperatorCaps, minted, handed back and burned | a burned cap pays for nothing; the backend's rows agree with what is stored |
| Onboarding, encryption keys, accounts (`features/dwallets`, `encryption-keys`, `accounts`) | rows mirroring chain objects | onboard, accept, register, NEK backfill | ledger, executor, Ika | chain first and row second; concurrent first onboardings; charge with refund around a lost answer | a row tells the truth about its object; fees match work |
| Network keys (`features/network`, `protocol-parameters`, `shared/cache`) | two caches | read through, revalidate | Ika | a reconfiguration between two awaits | parameters served are those of the latest key |
| SDKs (`packages/sdk-ts`, `sdk-react`, `sdk-rust`) | ceremony, session, parameter cache, crypto worker | onboard, accept again, sign, poll | HTTP API | timeouts of requests that go on, a worker replaced under a ceremony, reads without a deadline | a ceremony ends |
| Pricing (`features/pricing`) | price snapshot | warm, refresh, quote | CoinGecko, deposits | prices change between a check and its use | rates within bounds and age |
| Deposit sweep (`billing/sweep.ts`, `billing/jobs.ts`) | `sweep_status` of rows, coins at addresses | sweep, mark, sweep-retry | executor, chain, queue | several rows per digest, duplicate jobs, lost enqueues, a limit, one page per listing, a floor | swept means moved; every deposit reaches the treasury |
| Sign-in and bootstrap (`features/auth`, dashboard sign-in page) | users, bindings, sessions, nonces | nonce, verify, social and passkey sign-in, bootstrapAdmin | better-auth | two tabs or two pods at once, a crash between two inserts | a wallet is one user; pods come up |
| Gateway (`http/middleware`, key routes) | keys, a counter and a window per store | authenticate, limit, route, issue, expire, revoke | Redis | Redis goes and comes back and a pod restarts; header against key | routes act for their caller; the budget holds |
| Dashboard tab (`apps/dashboard`) | query cache, network in `localStorage`, session, keys and rows it shows | visit, switch network, poll, declare a deposit, create and revoke keys, sign in and out | HTTP API, TanStack Query, better-auth | answers that were read before a change and come after it; a cache shared by networks and users | a revoked key is not shown active; balance and history catch up |
| Job queue (`shared/queue`, pg-boss) | jobs, retry counts | enqueue, deliver, retry | all workers | duplicate delivery, retries after a throw | used by the sign and sweep models |

## Modules

| Module | Models | Reading the state |
|---|---|---|
| `BillingLedger` | `charge`, `refund`, `recordDeposit` | `credits`, `chargeRow`, `refundRow`, `deposit` are the tables; `rowLock` and `keyLock` are row locks and uncommitted index entries; each handler has a program counter between statements |
| `PresignPool` | `features/presigns/service.ts` over one bucket | `row`, `holder`, `stamp` are the columns of `presigns`, `chain` and `burner` the cap and who consumed it; sweepers keep the snapshot they work through |
| `SignLifecycle` (extends `PresignPool`) | the handlers of `features/sign/service.ts`, the queue, the two cron sweeps, the reconcile script | `status`, `presignOf`, `overdue` are columns of `sign_requests`; `charged`, `refunded`, `credits` the ledger seen from outside; `ppc`/`spc`/`wpc`/`sweepAt` are where each handler stands; `recon` is what the script has read of a request |
| `SignContract` | what the sign API promises, with no handlers | request state, payment, hold, pool |
| `TxExecutor` | `execute` under `withLock` | `key` is the Redis value, `held`/`waiters` the in-process fallback, `pc`/`outcome` a call, `tx` the truth about its transaction, `version` the OperatorCap |
| `AccountRoster` | shared dWallets: rosters, credentials, challenges, the three sign entry points | `creds`, `threshold`, `nonce` of each `StoredSharedDWallet`; `sigs` are signatures in circulation; `log` is the history of what was authorised |
| `MpckitCore` (extends `AccountRoster`) | the rest of the Move package and its next-state relation | `ika`, `sui` are the treasury, `capsOf`/`retired` the OperatorCaps, `vault` which account stores a cap |
| `Onboarding` | the handlers of dWallets, encryption keys and accounts | `chain`, `acctChain`, `ekChain` are objects, `rows`, `acctRows`, `ekRow` the tables; `fees`, `work`, `gifts`, `losses` the books of `chargeWithRefund` |
| `NetworkKeys` (extends `Onboarding`) | the two caches about the network's key | `latest` is the network, `netInfo` and `paramsOf` the caches |
| `SdkClient` (extends `NetworkKeys`) | the clients of these handlers, and the composition of the three | `cpc` is where a ceremony stands, `params` the instance's parameter cache, `bundle`/`dropped` the React provider's worker |
| `PriceFeed` | the price snapshot and `quoteSign` | `snapshot`, `clock`, `quote` |
| `DepositSweep` (extends `PriceFeed`) | declaring, crediting and sweeping deposits | `held` is what is still at an address, `row` the deposit rows with the rate applied, `job` the sweep jobs; `cut` remembers the listings that did not fit a page |
| `SignIn` | admin bootstrap, warm-up of wallet and chain clients, wallet sign-in; GitHub and passkey sign-in by the user and session they leave | `emailOf`, `accounts`, `sessions`, `bootKey` are tables, `tab` and `pod` where a sign-in and a boot stand |
| `Gateway` (extends `SignIn`) | a request's way through a pod; keys | `req`, `keys`, the limiter's counters and windows, one per store, `admitted`/`spans`/`forgot` what a span of one duration has seen, `act` the last action of a route |
| `Console` | one dashboard tab of several users, its query cache and the routes its pages read | `cache` are the entries of the query client, one per query key, with their data, stale mark and fetch under way; `visible` whether the tab is in sight; `muts` the mutations in flight, `told` the keys reported revoked, `rows` and `keys` the backend's tables |
| `BillingLedgerProofs`, `SignLifecycleProofs`, `TxExecutorProofs`, `MpckitCoreProofs`, `SdkClientProofs`, `DepositSweepProofs`, `GatewayProofs`, `ConsoleProofs` | proofs | the inductive invariant and its parts are at the end of each component's module |
| `MC...` | values for the constants, symmetry | |

`SignLifecycle` composes the parts: it runs on the pool of `PresignPool`, takes
`charge` and `refund` as atomic steps, which is what `BillingLedger` shows they
are to an observer of committed data, and splits `executeTx` into the outcomes
`TxExecutor` distinguishes (`WorkerExecuted`, `WorkerNotExecuted` for preflight
and reverted, `WorkerUnknown`, `WorkerNoLock`). `PhaseIsHonest` of `TxExecutor`
is the fact that lets `WorkerNotExecuted` leave the chain alone. `Onboarding`
uses the executor in the same way (landed, not landed, landed and the answer
lost). `SdkClient` sends its requests to the handlers of `Onboarding` and
`NetworkKeys`; signing is there by its outcomes only. `DepositSweep` credits by
the prices of `PriceFeed` while they move; the ledger's own races are in
`BillingLedger`. `Console` asks the backend for what its tables hold when the
request is served; the gateway's own checks are in `Gateway`.

Granularity: a statement that another process can observe is one step, and code
between two such statements belongs to the step before it. A Move entry point is
one step, as its transaction is atomic. Data is reduced to identity: a request,
a cap, a coin or a token is a model value, a price is a small number, a sign
costs one credit, a challenge is the tuple it is the hash of. Definitions called
`X_Something` are deliberate bugs: variants of `X` that show that a property
would notice.

## Runs

* **Ledger** (`MCBillingLedger`): two concurrent handlers, two accounts, two
  ops, two digests, two coins; every handler may die at any statement. One
  digest pays one account in two coins and both accounts are paid by the other
  digest, so suffixed keys, bare keys and competing claims all occur. Refunds
  are asked for up to 2 credits while prices are 1 and 2, so the clamp matters.
  `NoOverdraft`, `RefundWithinCharge`, `BalanceIsJournal`, `DepositIsAtomic`,
  and `CallsReturn`: nobody waits for ever for a row or an index entry.
* **SignRaces**: two requests and one presign, the TTL passes, all handlers
  crash, transactions land late, the reconcile script runs.
  `ConsumedPendingIsBurned`, `ReportedMeansSigned`, `UsedIsAccountedFor`,
  `ChargeIsTracked`: what the tables say of the chain and of the ledger survives
  every race.
* **SignDuplicates**: two prepare calls under one idempotency key, two
  submitters, two workers, no deduplication of jobs, crashes, lock timeouts:
  `SpendsOwnPresign`.
* **SignPrompt**: three requests, two caps (one minted by a refill during the
  run), two workers, nobody dies and no TTL expires. `ExclusiveHold`,
  `ReadyIsUnspent`, `CompletedIsPaid`, and `ImplementsContract`: the handlers
  refine `SignContract`, so settled requests never change. They need all of this
  setting, and "Known deviations" says what breaks them outside it.
* **SignSettle**: two requests, one presign, the TTL passes, no crash.
  `FailedIsRefunded`, `EveryChargeSettles`, `QueuedSettles`.
* **TxLock** (`TxExecutor`): three calls, with and without Redis, tokens
  expiring anywhere, pods dying, answers lost. `PhaseIsHonest`,
  `SectionExclusive`, `StaleMeansStray`, `EveryCallReturns`.
* **Move** (`MCMpckitCore`): one shared dWallet, a passkey and two addresses, two
  operations and two signatures in circulation, some of them made for another
  origin. `RosterUsable` (some one transaction can carry the quorum, unless two
  credentials are sender addresses, of which a transaction shows one), `NoReplay`, `FreshConsent` (an
  operation is authorised only by consents given under the roster and threshold
  it executes under), `FutureSignPaired`. In the same state space every operator,
  zero-trust and imported-key entry point runs with two deposits of each coin and
  two OperatorCaps. The roster's code does not read the treasury, so the
  constraint `OneSide` explores the two beside each other and not their product:
  once a shared dWallet is stored the search goes on only from states in which
  nobody has paid in.
* **Onboard** (`MCSdkClient`): one client, two handlers (the second one is
  reached when a request times out at the client and goes on in the backend),
  two dWallet ids, three network keys, two faults. `RowsTellTheChain`,
  `FeesMatchWork`, `LatestParamsRight`, `CeremonySettles`.
* **Sweep** (`MCDepositSweep`): two deposits to one address, the smaller one
  below the minimum and so only dust at the address, two sweep jobs, a page of one
  object, a floor that a fall of the price crosses, a polled and an unpolled
  coin, feed values in and out of bounds, a clock that reaches past the maximal
  age, one fault, the worker in the API's process (`PROCESS_TYPE=both`), so that a
  restart takes the running jobs with it. `RatesAreSound`, `SweptMeansMoved`,
  `DepositsReachTreasury`. The two coins of one digest are in FindRetryStarved
  and in the proofs.
* **Gateway** (`MCGateway`): two pods, two tabs, two keys of which one is the
  admin's, one request at a time, one pod fault and one outage of Redis. Three
  initial states share the run: an empty database on which two tabs of one wallet
  sign in, one on which a wallet and a GitHub user do, and a running service in
  which Redis may go and come back and a pod restart within a window.
  `SessionsAgree`, `ActsAreAuthorised`, `BudgetHolds`, `AdminProvisioned`.
* **Console** (`MCConsole`): one tab, two users, a deposit, a key and one mutation
  in flight at a time; the tab may be hidden, the session may end, reads fail and
  answers are lost or late. `RevokedStaysGone`: a list that is not marked stale
  never shows as active a key that the tab has reported revoked.
  `BalanceCatchesUp`: as long as it is in sight, the billing page comes to show
  its user's balance on its network, although the cache it starts from may hold
  another network's or another user's. Only the balance is polled
  (`billing/page.tsx:96`): `HistoryCatchesUp` says the same of the list of
  deposits for a user who keeps coming back to the tab after the stale time.
* **FindRetryStarved** (`MCDepositSweep`, expected to be violated): two users,
  with the retry job's limit of 50 scaled to 1. A row whose coins another job
  has moved is never settled, because the retry job carries no deposit id and
  finds an empty address. It fills the limit, and the second user's deposit,
  whose own job was lost, stays where it is: `DepositsReachTreasury` fails,
  against what `billing/jobs.ts` says of the job. In **Sweep** the limit covers
  all stuck rows and the property holds.

### Known deviations

What the code does against what its comments say, met while modelling. Each is
reproduced by changing the named constants of a cfg and checking the property,
the last three by checking it without the exception it makes.

| Property | Setting (from `SignPrompt.cfg` or `SignSettle.cfg`, one request, one cap unless said) | What happens |
|---|---|---|
| `ReadyIsUnspent` | `Crashes = TRUE` | a worker dies after its transaction landed; the retry's transaction reverts, and "reverted" (`sign/service.ts:438`) puts the burned cap back to `ready` |
| `ReadyIsUnspent` | `Reconciles = TRUE` | the reconcile script rolls back a cap it saw alive, "tx never landed"; the transaction lands later |
| `ExclusiveHold` | two requests, `TtlElapses = TRUE`, `Budget = 2` | `sweepExpired` re-readies by age alone (`presigns/service.ts:704`) the presign of a request that is queued but slow |
| `ExclusiveHold` | `Sweepers = {x1, x2}` | the slower of two overlapping `promotePending` sweeps sets `ready` on a row that has been promoted and allocated since its snapshot |
| `ImplementsContract` | `Submitters = {s1, s2}`, `Dedupes = TRUE` | two submits read `prepared`, the slower one re-queues a settled request, though "phase 2 is naturally idempotent" (`sign/routes.ts:9`) |
| a refused prepare costs nothing (`charged \subseteq refunded \cup` the requests with a row, once no prepare runs) | two requests, `KeyOf <- SharedKey`, `Budget = 2` | two prepares under one key both charge, one fails on the unique index and keeps the charge (`sign/routes.ts:8`) |
| `QueuedSettles` | `FairSpec`, `TtlElapses = TRUE`, `Crashes = TRUE` | the pod dies between the update to `queued` and the enqueue; nothing looks at `queued` rows again |
| `UsedIsAccountedFor` | `LockTimesOut = TRUE` | a worker that never got the lock throws a plain `Error`, which is taken for a transaction of unknown outcome; a good presign is retired |
| `CanAct(w)` for every stored `w` | `Move.cfg` | two sender addresses and threshold 2: `remove_credential` and `set_threshold` count both against the threshold, `auth.move:145-146` lets a transaction show one, and the wallet is locked for good; `RosterUsable` excepts such a roster |
| `SweptMeansMoved` without `cut` | `Sweep.cfg` | `listCoins` is asked for one page (`billing/sweep.ts:100-104`, where `presigns/service.ts:459-474` follows the cursor): an address with more objects of a type than a page is swept in part and the row says `swept`, after which nothing looks at it again |
| `DepositsReachTreasury` without the floor | `Sweep.cfg` | with prices warm in the process (`PROCESS_TYPE=both`) a credited deposit below the floor is skipped (`billing/sweep.ts:71-93`), also by the retry job, for as long as the address stays below it |

The models of this sort of behaviour also contain, without a property of their
own: a client whose `/v1/network` answer is up to an hour old computes a DKG for
a key the network has left, pays for it and sees it rejected (`SdkClient`,
`Finalise`); a ceremony whose crypto worker the provider terminated waits for
ever, and so does one whose answer stops after its headers, as `http.ts:80-84`
clears its timer before it reads the body (`CeremonySettles` excepts both by
name); a pod that dies between `createUser` and `createAccount` leaves a wallet
that can never sign in, since its email is taken (`SignIn`, `CreateUser`); a
request that timed out at the client leaves a dWallet nobody asked for
(`Onboarding`).

So does the model of the dashboard (`Console`): `switchTo` invalidates before
the page renders, so the old network's entries are fetched under the new
network's header, and a user who goes there and back sees the other network's
balance until the next poll, and its deposits and address, which nothing polls,
until they come back to the tab after the stale time; signing out keeps the
query cache, so the next user of the tab first sees the previous one's entries; of two overlapping key creations
the first plaintext, "shown exactly once", is replaced before it is read; an
invalidation during the very first fetch of a list is absorbed by that older
fetch, and an answer that arrives while nobody looks clears one.

### Bounds

`RetryLimit` (1) bounds redelivery of a job: one retry already puts a second
handler on every state the first can leave. `Budget` is 2 sign prices, so one of
three requests in SignPrompt meets an empty account. `Warm` is the part of
`Caps` that is ready at the start. `TtlElapses`, `Crashes`, `Dedupes`,
`LockTimesOut` and `Reconciles` switch a hazard on, so that a run can say which
one breaks what. `MaxRefund`, `NCoins` and `MinDeposit` bound the ledger. Two
parties competing for one thing is enough for every race found; SignPrompt has
three requests because a third is what exercises an exclusive hold after a
rollback, and TxLock three calls because deleting someone else's token hurts
only a third one.

`MaxNonce` (2) and `MaxSigs` (2) bound the operations on a roster and the
signatures in circulation: a replay needs one signature and two operations, a
stale consent a signature from before a change. `MaxDeposits`, `MaxCaps`,
`MaxPresigns` bound the treasury's run. `MaxFaults` counts crashes and lost
answers together, so that any two of them can meet in Onboard. `MaxTries` is the
number of ceremonies a client starts. `MaxEpoch` (3) gives two reconfigurations:
the first makes a cached key old, the second may fall between the two awaits of
the load that follows. `MaxTime` is past `MaxAge`, so prices do go stale.
`PageSize` (1) is less than the two objects the address of Sweep can hold, and
`MinSweep` (3) lies between what its coins are worth at the lowest and at the
highest price. `MaxNonces` gives each tab a nonce and `MaxLogins` the
other sign-ins; the initial states of `MCGateway` use up the bounds they are not
about. `MaxFaults` and `MaxOutages` are apart in Gateway, so that an outage, a
return and a restart meet in one window. `Points` (1) makes the second request
of a window the one too many. `MaxMutations` (1) bounds what the dashboard's
dialogs send; `followed` picks the query key a behaviour is about, as entries
bear on each other in no other way than through the session. How often a query retries (`retry: 1`) is left open: a fetch may fail at
any time.

Deadlock is checked in Ledger, where an idle handler may always call again; the
other models are of finitely many requests and calls, and stop when all are
settled. The `TypeOK` of each of the eight specifications is a theorem, and so no run
spends time on it; every inductive invariant was an invariant of its run before
it was proved, and is checked again by adding it to the cfg.

### Fairness

* Ledger: strong fairness of every started call. A waiter for a row or an index
  entry may see it taken again and again, but Postgres queues waiters in order
  of arrival, so it is served. Nobody has to start a call or to die.
* SignLifecycle: handlers that have started run on, pg-boss delivers waiting
  jobs, the cron jobs fire, time passes. Clients owe nothing; crashes, late
  landings, the reconcile script and the pool's own jobs owe nothing.
* TxExecutor: each await of a call ends (the gas station's requests are aborted
  after `SUI_GAS_STATION_TIMEOUT_MS`, the acquire loop has a deadline) and
  tokens expire. That `tx.build` ends rests on the RPC client, which sets no
  deadline of its own in this code. The chain owes nothing.
* SdkClient: a client's own awaits end where the code gives them a deadline (the
  HTTP client's `timeoutMs` until the headers are in, the deadlines of the polls)
  or a live worker answers. The read of a body and the load of the Ika client
  have none: they end, fail or hang (`Hang`), and a ceremony that hangs is
  excepted. The backend, the network and the provider owe nothing:
  `CeremonySettles` holds with a backend that never answers.
* DepositSweep: the retry cron fires and jobs run on, weakly; the enqueue after
  a commit strongly, as the model's queue has a bounded number of slots and the
  real one has not. Users, the feed and the clock owe nothing.
* Gateway: a pod that stopped is started again and takes its boot steps.
* Console: the balance's `refetchInterval` fires while the billing page is in
  sight, a read is served or fails and its answer arrives; reads that are asked
  for again and again are not failed for ever (strong fairness of `Serve`). Users
  owe nothing: that one keeps coming back is the premise of `HistoryCatchesUp`.

## Proofs

TLAPS proves the following for every value of the constants: any number of
accounts, ops, digests, coins, requests, caps, handlers, calls, clients, pods and
keys, any retry limit and any setting of the switches. Each module names what it
assumes of its parameters (`LedgerAssumption`, `JournalAssumption`, `PoolAssumption`,
`LifecycleAssumption`, `ExecutorAssumption`, `RosterAssumption`,
`CoreAssumption`, `OnboardingAssumption`, `SdkAssumption`, `PriceAssumption`,
`SweepAssumption`, `SignInAssumption`, `GatewayAssumption`,
`ConsoleAssumption`). They are types of the parameters, that `None` is no
member, and finiteness where something is counted; prices are positive, as
`pricing/price-feed.ts` skips others. Every theorem follows from an inductive
invariant, proved with one lemma per action or group of like actions; there is
one invariant per specification, three for `SignLifecycle`. A theorem that holds
only in a setting says so in its `ASSUME`.

* **`BillingLedgerProofs`**: `NeverOverdrawn`, `NeverOverRefunded`,
  `DepositsAreWhole`, `LocksSuffice`, `LedgerTypeCorrect`, from the inductive
  `LedgerInv`. `NoOverdraft` alone is not inductive: a handler past its balance
  check debits without looking again, so `LocksHeld` says what it still knows,
  which is that it holds the row's lock and the balance covers the price. A
  refund reads without a lock, and is safe because the charge row it read never
  changes and a second refund of the op cannot commit past the unique index;
  a deposit's keys belong to one digest, so an entry it has inserted keeps
  every other claim of that digest out until it ends.
  `BalanceAddsUp` (`BalanceIsJournal`) is inductive relative to `LedgerInv`: a
  charge and a refund change one row of the op's owner by what they move, and a
  deposit adds rows under keys that had none, whose credits add up to what it
  credits, whether it stores one bare row or one row per coin (`RowsAddUp`).
  It rests on the algebra of the library's `SumFunctionOnSet`, derived here from
  its definition: the recursive function exists on a finite set and is unique,
  any term can be taken out, a disjoint union adds up, zeros can be left out.
  The inductions take the *set* of subsets that have a property in place of the
  property (`FiniteInd`), and reduce to the least element of a set of naturals.
  That a deposit's sum is a natural number is a lemma of the same kind.
* **`SignLifecycleProofs`**: `OnePresignPerRequest`, `ReportedCorrect`,
  `ConsumedPendingCorrect`, `UsedCorrect`, `ChargeCorrect`, `HandlersAreRight`,
  `TypeCorrectness`, from the inductive `RaceInv`. Its core is `HandlersKnow`:
  the presign a worker carries is still the one its row names, because
  `presign_id` is written once, before the row can be queued; past execute the
  cap was taken by this very request; a worker about to retire a presign has
  seen it burned or has a transaction outstanding. The last is false of a
  worker that never got the executor's lock, so `UsedCorrect` assumes
  `~LockTimesOut`. One lemma per action.

  `SettleInv` adds to it what the place of a prepare call says about its row and
  its charge (`PreparesFit`). From it `FailuresAreRefunded` needs only that no
  process dies: TTLs, the script, lost answers and duplicate jobs may all happen.

  `PromptInv` is about the undisturbed service: `Undisturbed` (no TTL passes,
  nobody dies, the script does not run, no key is used twice) and `OneAtATime`
  (the client does not overlap two submits of one request, and one sweep
  promotes at a time). The second is a hypothesis on behaviours,
  `Spec /\ []OneAtATime => ...`, and both are needed: "Known deviations" has a
  counterexample for each part. Requests, caps, workers, retries, lock timeouts
  and lost answers are unrestricted. Its parts say that a presign has one holder,
  counted from the step that allocates it and not from the row that names it
  (`HoldsFit`, `LinksFit`); that a request is served by one handler at a time,
  which a job keeps across its retries (`OneHandler`, `Served`); what each
  worker knows (`WorkersFit`); and that a transaction of unknown outcome still
  stands for a presign no one can be given again (`UnknownFits`, `PoolFits`).
  `ReadyCorrect` and `CompletedCorrect` follow.

  `HandlersImplementContract` is the refinement of `SignContract` under the
  mapping `PaidOf`, `HoldOf`, `PoolOf`, with one lemma per action:

  | Handlers | Contract |
  |---|---|
  | `PrepareCharge`, `PrepareInsert` | `Charge`, `Accept` |
  | `PrepareAllocate`, `PrepareDrop` | `Reserve`, `Reject` |
  | `SubmitUpdate` | `Queue` |
  | `WorkerExecuted`, `LateLanding` | `Spend`, or `SpendLate` of a request given up |
  | `WorkerSubmitted`, `WorkerComplete`, `WorkerFail` | `Submit`, `Complete`, `Fail` |
  | rollback, retirement or giving up of a presign | `GiveUp` |
  | the refund of a dropped prepare or of a failed job | `Refund` |
  | lookups, enqueues, locks, refill, promotion | nothing |

  `OneOfEachImplementsContract` is the same with one submit handler and one
  sweeper, where `OneAtATime` holds by itself.
* **`TxExecutorProofs`**: `PhasesAreHonest`, `LockExcludes`,
  `LockKeepsCapFresh`, `ExecTypeCorrect`, from the inductive `ExecInv`. In
  Redis the token in the key is the only right to be in the section
  (`OwnsKey`); in the process the lock has one owner and the queue holds
  distinct waiting calls (`OwnsProcess`, `WaitersWait`), which is why handing
  over to its head is safe. `PinIsCurrent` needs both: until a call goes
  astray, whoever has read the cap's version is alone.

* **`MpckitCoreProofs`**: `RosterStaysUsable`, `ApprovalsAreUsedOnce`,
  `ConsentIsFresh`, `FutureSignsPair`, `CoreTypeCorrect`, from `CoreInv`. A
  roster can act because its threshold is within the number of its credentials
  (`RosterBounded`) and a roster with at most one sender address can show all of
  them in one transaction. Replay protection is not a property of the log alone: the proof
  needs that the nonce counts the grants, so that the challenge of the i-th
  grant carries nonce i - 1 (`NonceCountsGrants`). Freshness needs a dated
  reading of every signature in circulation (`SignaturesAreDated`): one over the
  present nonce was given under the present roster and threshold, one over a
  used nonce under those of the grant that used it. A roster change bumps the
  nonce, and that is what turns the first kind into the second.
* **`SdkClientProofs`**: `RowsAreTrue`, `FeesAreAccounted`, `ParamsAreLatest`,
  `SdkTypeCorrect`, from `SdkInv`, for the composition of clients, handlers and
  caches. `HandlerFits` says what a handler knows at each await (the account it
  is to record is the one on chain, the key it is to write is the dWallet's own);
  a row may be written late because what it copies never changes on chain.
  `ClientFits` says that a client has at most one request outstanding and that
  its handler is one the client's await waits for. The fees are counted by the
  cardinality of two sets of handlers, those that owe work and those that are
  about to give back a fee whose transaction landed (`Returning`); one step moves
  at most one handler in or out. `LatestParamsRight` needs `ParamsFit`: no key is
  cached before it is the network's, so a load overtaken by a reconfiguration
  can only write under an older id.
* **`DepositSweepProofs`**: `SweptRowsMoved`, `RatesStaySound`,
  `SweepTypeCorrect`, from `SweepInv`. A job marks its row only after
  `sweepUserAddress` returned, and `JobsFit` says why that is enough: as long as
  the coin it is to mark is at the address, it is among the types and the
  objects of the job, or a listing of its type was cut by a page. Balances below
  the floor end a job before it marks anything. `RequestsFit` carries the soundness of a rate from the
  check to the insert, across refreshes in between. The bound of a quote uses
  that integer division is monotone.
* **`GatewayProofs`**: `WalletsHaveOneUser`, `RoutesAreAuthorised`,
  `WindowsAreBounded`, `GatewayTypeCorrect`, from `GatewayInv`. The email of a
  wallet user is its address and is unique, so two tabs that race through their
  first sign-in cannot bind one user twice or two users to one wallet
  (`BindingsMatch`). A request keeps the user of its key through the middleware,
  and users of requests and keys have a session or are the admin
  (`RequestsMatch`, `KeysMatch`). Budgets are counted in points, store by store:
  what a span of one duration admitted is paid for by the points of the windows
  it began in or has seen begin, at most two per store, or by a window a restart
  forgot (`PointsAccounted`).
* **`ConsoleProofs`**: `RevokedKeysStayGone`, `ConsoleTypeCorrect`, from
  `ConsoleInv`. Reporting a revocation drops the fetch under way and marks the
  list stale, so no answer on its way still has the key (`ToldFit`). That needs
  that only keys that exist can be revoked and that a key is made by one call
  (`ListedWereMade`, `MutationsFit`).

Every invariant of the runs but one, and the refinement, is thus a theorem.
`ExclusiveHold` is model-checked in SignPrompt only: it holds where neither of
the two steps that threaten it is taken, and a theorem about that would say
little. Only model-checked is liveness too (`CallsReturn`, `EveryChargeSettles`, `QueuedSettles`,
`EveryCallReturns`, `CeremonySettles`, `DepositsReachTreasury`,
`AdminProvisioned`, `BalanceCatchesUp`, `HistoryCatchesUp`): it needs fairness and `ENABLED`, which
the prover does not handle.

## Not modelled

* Encoding of Move calls, BCS, signatures, HTTP validation, logging, metrics:
  no state, no order.
* More than one presign bucket: buckets share no row, and a request names one.
* Two accepted coin types with equal suffixes; a worker's death between
  `completed` and the enqueue of a refill. They are listed as hazards.
* A build that reads the OperatorCap from a lagging node: `TxExecutor` reads
  the current version.
* The breaker of `shared/sui/resilience.ts`: only that a read may fail. It has
  no effect on what a handler does after the failure.
* The L1 cache (`shared/cache/l1.ts`): no other file imports it.
* What better-auth does inside a GitHub or passkey sign-in (only the user and
  session it leaves are modelled), the `isAdmin` flag of an admin who exists
  already, key scopes, `POST /v1/admin/users`; the anonymous limiter, which has
  the shape of the other.
* The deposit address query of the billing page, which is read and kept like the
  history.
* That the treasury loses no coin around the inner call of a `pay_` entry point:
  it is one Move transaction, and what the coordinator takes is external.
* `ika_dwallet_2pc_mpc`, Sui, Postgres, Redis, pg-boss, better-auth: external,
  by the guarantees the code relies on.
* Environment parsing, the deploy, benchmark and end-to-end scripts, the
  dashboard's dWallet pages, profile name and audit feed, the documentation
  site.

## Plan

Done: ledger, pool, sign lifecycle with the reconcile script, contract, executor
and lock; the Move package; onboarding, network keys and the clients; pricing,
deposits and sweeps; sign-in and gateway; the dashboard tab. Each has an
inductive invariant that is proved, every invariant a run checks but
`ExclusiveHold` is a theorem, and so is the refinement of `SignContract`. What would come next:

1. A fix of the deviations listed above, with the assumption it removes dropped
   from `PromptInv` (a conditional `UPDATE ... WHERE status = 'pending'` in
   `promotePending` and `WHERE status = 'prepared'` in the submit handler would
   make `OneAtATime` unnecessary).
2. Liveness proofs, when the prover supports fairness.
