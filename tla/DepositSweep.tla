----------------------------- MODULE DepositSweep -----------------------------
(***************************************************************************)
(* From a deposit's arrival to the treasury: recordDeposit prices and      *)
(* stores it (billing/service.ts, billing/verifier.ts), billing.sweep      *)
(* drains the user's deposit address (billing/sweep.ts, billing/jobs.ts)   *)
(* and billing.sweep-retry picks up what was left.  Races of two           *)
(* declarations of one digest are in module BillingLedger; here one        *)
(* request per digest runs against price refreshes, process crashes and    *)
(* any number of sweep jobs.  With PROCESS_TYPE=both the sweep reads the   *)
(* API's price snapshot and skips an address below the USD floor; a worker *)
(* of its own never warms the feed, finds every coin unpriced and sweeps.  *)
(***************************************************************************)
EXTENDS PriceFeed, Folds

CONSTANTS
    Users, Digests,
    Paid,        \* digest -> [to: the user whose address it pays, amount]
    Jobs,        \* bound: billing.sweep jobs in the queue at once
    MinDeposit,  \* BILLING_MIN_DEPOSIT_MICRO
    MinSweep,    \* BILLING_SWEEP_MIN_MICRO
    PageSize,    \* coin objects the node returns to one listCoins call
    SharedProcess, \* PROCESS_TYPE is both, not worker
    RetryLimit,  \* limit(50) of billing.sweep-retry
    MaxTries,    \* pg-boss retryLimit
    MaxFaults,   \* bound: crashes, failed and unanswered transactions
    None

ASSUME SweepAssumption ==
    /\ Paid \in [Digests -> [to : Users, amount : [Coins -> Nat]]]
    /\ IsFiniteSet(Users) /\ IsFiniteSet(Digests) /\ IsFiniteSet(Coins)
    /\ MinSweep \in Nat /\ PageSize \in Nat \ {0} /\ SharedProcess \in BOOLEAN
    /\ MinDeposit \in Nat \ {0} /\ RetryLimit \in Nat \ {0}
    /\ MaxTries \in Nat /\ MaxFaults \in Nat
    /\ None \notin Users \cup Coins \cup (Digests \X Coins)

VARIABLES
    sent,    \* digests executed on chain
    held,    \* digest -> its coins still at the user's deposit address
    row,     \* billing_deposits, by digest and coin
    req,     \* digest -> the request declaring it
    job,     \* billing.sweep jobs
    cut,     \* history: addresses and coin types whose listing did not fit a page
    faults

sweepVars == <<sent, held, row, req, job, cut, faults>>
vars == <<priceVars, sweepVars>>

Rows == Digests \X Coins
\* rate: the price applied; age: of the last successful poll at that moment.
NoRow == [st |-> "none", rate |-> Unpriced, age |-> 0]
NoReq == [pc |-> "idle", staged |-> [c \in Coins |-> NoRow], last |-> None]
NoJob == [pc |-> "free", user |-> None, dep |-> None, types |-> {},
          objs |-> {}, tries |-> 0]

RowType == [st : {"none", "pending", "swept", "failed"}, rate : Nat, age : Nat]

\* Every variable stays in its type.
TypeOK ==
    /\ PriceTypeOK
    /\ sent \subseteq Digests
    /\ held \in [Digests -> SUBSET Coins]
    /\ row \in [Rows -> RowType]
    /\ req \in [Digests -> [pc : {"idle", "tx", "enqueue"},
                            staged : [Coins -> RowType],
                            last : Coins \cup {None}]]
    /\ job \in [Jobs -> [pc : {"free", "queued", "listed", "built", "moved", "failed"},
                         user : Users \cup {None}, dep : Rows \cup {None},
                         types : SUBSET Coins, objs : SUBSET Rows,
                         tries : 0 .. MaxTries]]
    /\ cut \subseteq Users \X Coins
    /\ faults \in 0 .. MaxFaults

Init ==
    /\ PriceInit
    /\ sent = {} /\ held = [d \in Digests |-> {}]
    /\ row = [r \in Rows |-> NoRow]
    /\ req = [d \in Digests |-> NoReq]
    /\ job = [j \in Jobs |-> NoJob]
    /\ cut = {} /\ faults = 0

Fault == faults < MaxFaults /\ faults' = faults + 1

-----------------------------------------------------------------------------
(***************************************************************************)
(* POST /v1/billing/deposit.                                               *)
(***************************************************************************)
\* The user's wallet pays the deposit address.
Send(d) ==
    /\ d \notin sent
    /\ sent' = sent \cup {d}
    /\ held' = [held EXCEPT ![d] = {c \in Coins : Paid[d].amount[c] > 0}]
    /\ UNCHANGED <<priceVars, row, req, job, cut, faults>>

verifyDeposit(d, u) ==
    {c \in Coins : d \in sent /\ Paid[d].to = u /\ Paid[d].amount[c] > 0}

\* creditsFor does not throw, and what it returns.
Creditable(c) == PricesFresh /\ snapshot.prices[c] # Unpriced

creditsFor(d, c) == microUsdFromAtomic(c, Paid[d].amount[c])

preTotal(d, u) ==
    FoldFunctionOnSet(LAMBDA x, y : x + y, 0, [c \in Coins |-> creditsFor(d, c)],
                      verifyDeposit(d, u))

\* No row yet (an earlier declaration returns the stored credit), verified,
\* priced and above the minimum.
Declare(d, u) ==
    /\ req[d].pc = "idle"
    /\ \A c \in Coins : row[<<d, c>>] = NoRow
    /\ verifyDeposit(d, u) # {}
    /\ \A c \in verifyDeposit(d, u) : Creditable(c)
    /\ preTotal(d, u) >= MinDeposit
    /\ req' = [req EXCEPT ![d].pc = "tx"]
    /\ UNCHANGED <<priceVars, sent, held, row, job, cut, faults>>

Unstaged(d) ==
    {c \in verifyDeposit(d, Paid[d].to) : req[d].staged[c] = NoRow}

\* One insert of the transaction, at the price of that moment.
InsertRow(d, c) ==
    /\ req[d].pc = "tx" /\ c \in Unstaged(d) /\ Creditable(c)
    /\ req' = [req EXCEPT
         ![d].staged[c] = [st |-> "pending", rate |-> snapshot.prices[c],
                           age |-> clock - snapshot.lastFeedSuccessAt],
         ![d].last = c]
    /\ UNCHANGED <<priceVars, sent, held, row, job, cut, faults>>

\* creditsFor throws: the transaction rolls back.
InsertFails(d) ==
    /\ req[d].pc = "tx"
    /\ \E c \in Unstaged(d) : ~Creditable(c)
    /\ req' = [req EXCEPT ![d] = NoReq]
    /\ UNCHANGED <<priceVars, sent, held, row, job, cut, faults>>

CommitRows(d) ==
    /\ req[d].pc = "tx" /\ Unstaged(d) = {}
    /\ row' = [r \in Rows |-> IF r[1] = d THEN req[d].staged[r[2]] ELSE row[r]]
    /\ req' = [req EXCEPT ![d] = [NoReq EXCEPT !.pc = "enqueue", !.last = req[d].last]]
    /\ UNCHANGED <<priceVars, sent, held, job, cut, faults>>

Free == {j \in Jobs : job[j].pc = "free"}

NewJob(u, dep) == [NoJob EXCEPT !.pc = "queued", !.user = u, !.dep = dep]

\* The job names the last row inserted, and no other.
EnqueueSweep(d) ==
    /\ req[d].pc = "enqueue"
    /\ \E j \in Free :
         job' = [job EXCEPT ![j] = NewJob(Paid[d].to, <<d, req[d].last>>)]
    /\ req' = [req EXCEPT ![d] = NoReq]
    /\ UNCHANGED <<priceVars, sent, held, row, cut, faults>>

\* A job that threw, or whose process died, is queued again until its tries are
\* used up.
Again(j) == IF job[j].tries < MaxTries
            THEN [NewJob(job[j].user, job[j].dep) EXCEPT !.tries = job[j].tries + 1]
            ELSE NoJob

Running(j) == job[j].pc \notin {"free", "queued"}

\* The API process restarts: its requests and its price snapshot are gone, and
\* with them the jobs it was running, if it runs any.
ApiRestart ==
    /\ Fault
    /\ req' = [d \in Digests |-> NoReq]
    /\ quote' = NoQuote
    /\ warmPriceFeed
    /\ job' = [j \in Jobs |-> IF SharedProcess /\ Running(j) THEN Again(j) ELSE job[j]]
    /\ UNCHANGED <<clock, sent, held, row, cut>>

-----------------------------------------------------------------------------
(***************************************************************************)
(* The billing.sweep handler.                                              *)
(***************************************************************************)
HeldBy(u) == {r \in Rows : Paid[r[1]].to = u /\ r[2] \in held[r[1]]}

CoinsOf(u, c) == {r \in HeldBy(u) : r[2] = c}

eligible(u) == {r[2] : r \in HeldBy(u)}

Balance(u, c) ==
    FoldFunctionOnSet(LAMBDA x, y : x + y, 0,
                      [r \in Rows |-> Paid[r[1]].amount[r[2]]], CoinsOf(u, c))

totalMicroUsd(u) ==
    FoldFunctionOnSet(LAMBDA x, y : x + y, 0,
                      [c \in Coins |-> microUsdFromAtomic(c, Balance(u, c))],
                      eligible(u))

\* Everything there has a price and is worth less than the floor, all together;
\* one unpriced coin forces the sweep.
BelowThreshold(u) ==
    /\ SharedProcess
    /\ \A c \in eligible(u) : snapshot.prices[c] # Unpriced
    /\ totalMicroUsd(u) < MinSweep

jobVars == <<priceVars, sent, req>>

\* listBalances: nothing there, or too little, ends the job and leaves its row as
\* it is; else the coin types found.
ListBalances(j) ==
    /\ job[j].pc = "queued"
    /\ job' = [job EXCEPT ![j] =
         IF eligible(job[j].user) = {} \/ BelowThreshold(job[j].user) THEN NoJob
         ELSE [job[j] EXCEPT !.pc = "listed", !.types = eligible(job[j].user)]]
    /\ UNCHANGED <<jobVars, held, row, cut, faults>>

\* What one call without a cursor may return of the objects S.
Page(S) == IF Cardinality(S) <= PageSize THEN {S}
           ELSE {P \in SUBSET S : Cardinality(P) = PageSize}

\* listCoins of one of those types; after the last the transaction is built.
ListCoins(j, c) ==
    LET all == CoinsOf(job[j].user, c)
    IN  /\ job[j].pc = "listed" /\ c \in job[j].types
        /\ \E page \in Page(all) :
             /\ job' = [job EXCEPT
                  ![j].pc = IF job[j].types = {c} THEN "built" ELSE "listed",
                  ![j].types = job[j].types \ {c},
                  ![j].objs = job[j].objs \cup page]
             /\ cut' = IF page = all THEN cut ELSE cut \cup {<<job[j].user, c>>}
        /\ UNCHANGED <<jobVars, held, row, faults>>

\* The objects named by the transaction are still there.
Spendable(j) == \A r \in job[j].objs : r[2] \in held[r[1]]

Drain(j) == held' = [d \in Digests |-> {c \in held[d] : <<d, c>> \notin job[j].objs}]

Ran(j, label) == job' = [job EXCEPT ![j].pc = label, ![j].types = {}, ![j].objs = {}]

SweepLands(j) ==
    /\ job[j].pc = "built" /\ Spendable(j)
    /\ Drain(j) /\ Ran(j, "moved")
    /\ UNCHANGED <<jobVars, row, cut, faults>>

\* The chain executed it and the answer did not arrive.
SweepUnanswered(j) ==
    /\ job[j].pc = "built" /\ Spendable(j) /\ Fault
    /\ Drain(j) /\ Ran(j, "failed")
    /\ UNCHANGED <<jobVars, row, cut>>

\* Mutant: the effects' status is not looked at.
SweepRejected_Unchecked(j) ==
    /\ job[j].pc = "built"
    /\ \/ ~Spendable(j) /\ UNCHANGED faults
       \/ Spendable(j) /\ Fault
    /\ Ran(j, "moved")
    /\ UNCHANGED <<jobVars, held, row, cut>>

\* sweepUserAddress throws: the coins it named were spent by another sweep, or
\* the network failed one of its calls.
SweepRejected(j) ==
    /\ \/ job[j].pc = "built" /\ ~Spendable(j) /\ UNCHANGED faults
       \/ job[j].pc \in {"queued", "listed", "built"} /\ Fault
    /\ Ran(j, "failed")
    /\ UNCHANGED <<jobVars, held, row, cut>>

\* A job without depositId marks nothing.
Mark(j, status) ==
    row' = [r \in Rows |-> IF r = job[j].dep THEN [row[r] EXCEPT !.st = status]
                           ELSE row[r]]

markDepositSwept(j) ==
    /\ job[j].pc = "moved"
    /\ Mark(j, "swept")
    /\ job' = [job EXCEPT ![j] = NoJob]
    /\ UNCHANGED <<jobVars, held, cut, faults>>

markDepositSweepFailed(j) ==
    /\ job[j].pc = "failed"
    /\ Mark(j, "failed")
    /\ job' = [job EXCEPT ![j] = Again(j)]
    /\ UNCHANGED <<jobVars, held, cut, faults>>

WorkerCrash(j) ==
    /\ Running(j) /\ Fault
    /\ job' = [job EXCEPT ![j] = Again(j)]
    /\ UNCHANGED <<jobVars, held, row, cut>>

SweepStep(j) ==
    \/ ListBalances(j) \/ SweepLands(j) \/ SweepRejected(j)
    \/ markDepositSwept(j) \/ markDepositSweepFailed(j)
    \/ \E c \in Coins : ListCoins(j, c)

-----------------------------------------------------------------------------
(***************************************************************************)
(* billing.sweep-retry: at most RetryLimit stuck rows, in no given order,  *)
(* one job per user among them, none of which names a row.  Every stuck    *)
(* row counts as past the ten-minute cutoff.                               *)
(***************************************************************************)
\* Mutant: a pending row is taken to have its job in the queue.
Stuck_FailedOnly == {r \in Rows : row[r].st = "failed"}

Stuck == {r \in Rows : row[r].st \in {"pending", "failed"}}

Picks == {S \in SUBSET Stuck :
            \/ S = Stuck /\ Cardinality(S) <= RetryLimit
            \/ Cardinality(S) = RetryLimit}

SweepRetry ==
    /\ UNCHANGED <<priceVars, sent, held, row, req, cut, faults>>
    /\ \E S \in Picks :
         LET who == {Paid[r[1]].to : r \in S}
         IN  /\ S # {}
             /\ \E f \in Injection(who, Free) :
                  job' = [j \in Jobs |->
                            IF \E u \in who : f[u] = j
                            THEN NewJob(CHOOSE u \in who : f[u] = j, None)
                            ELSE job[j]]

-----------------------------------------------------------------------------
Deposits ==
    \E d \in Digests :
        \/ Send(d) \/ InsertFails(d) \/ CommitRows(d) \/ EnqueueSweep(d)
        \/ \E u \in Users : Declare(d, u)
        \/ \E c \in Coins : InsertRow(d, c)

Sweeps == \E j \in Jobs : SweepStep(j) \/ SweepUnanswered(j) \/ WorkerCrash(j)

Prices ==
    /\ Tick \/ Refresh \/ QuoteStart \/ QuoteReply \/ QuoteFails
    /\ UNCHANGED sweepVars

Next == Deposits \/ Sweeps \/ Prices \/ SweepRetry \/ ApiRestart

Spec == Init /\ [][Next]_vars

\* The worker keeps polling its queue, pg-boss keeps its schedule, and a
\* request that has committed goes on to its enqueue unless its process dies
\* (strong: a queue without a bound has room whenever it asks).
FairSpec ==
    /\ Spec
    /\ WF_vars(SweepRetry)
    /\ \A j \in Jobs : WF_vars(SweepStep(j))
    /\ SF_vars(\E d \in Digests : EnqueueSweep(d))

-----------------------------------------------------------------------------
RowSound(c, r) == InBounds(c, r.rate) /\ (workList # {} => r.age <= MaxAge)

\* No deposit row holds a rate outside MaxDeviation of the static price, nor
\* one taken when the last successful poll was older than MaxAge, and the last
\* quote served lies within the bounds of its two legs: refreshes, restarts and
\* a feed that stops answering may come between the check of a request and
\* its inserts (creditsFor, refreshNow, assertPricesFresh).
RatesAreSound ==
    /\ \A r \in Rows : row[r] # NoRow => RowSound(r[2], row[r])
    /\ quote.micro <= (FeeSui * staticPrices[Sui] * MaxDeviation) \div Denom
                      + (FeeIka * staticPrices[Ika] * MaxDeviation) \div Denom

\* A row that says swept is the row of coins that have left the deposit address,
\* whatever jobs ran against each other, or one of a coin type of which the
\* address has held more objects than one listCoins call returns: then the
\* transaction leaves some behind and its job marks its row all the same
\* (sweepUserAddress, markDepositSwept).
SweptMeansMoved ==
    \A d \in Digests, c \in Coins :
        row[<<d, c>>].st = "swept" => c \notin held[d] \/ <<Paid[d].to, c>> \in cut

\* A credited coin is at its deposit address, no listing of its type was ever cut
\* and the address is worth sweeping.
Stranded(d, c) ==
    /\ row[<<d, c>>] # NoRow /\ c \in held[d]
    /\ <<Paid[d].to, c>> \notin cut /\ ~BelowThreshold(Paid[d].to)

\* No credited coin stays at the deposit address for ever, also when the enqueue
\* was lost, the worker died or a job used up its tries, unless a listing of its
\* type did not fit a page or the address falls below the floor again and
\* again (billing.sweep, billing.sweep-retry).
DepositsReachTreasury ==
    \A d \in Digests, c \in Coins : []<>~Stranded(d, c)

\* Every price of the snapshot is within its bounds, and no poll is of the future.
PricesAreSound ==
    /\ snapshot.lastFeedSuccessAt <= clock
    /\ \A c \in Coins : InBounds(c, snapshot.prices[c])

\* What a request has staged is sound and of a deposit on the chain; its rows are
\* stored all at once, and the last is the one its job will name.
RequestsFit ==
    \A d \in Digests :
        LET q == req[d]
        IN /\ q.pc = "idle" => q = NoReq
           /\ q.pc = "tx" =>
                /\ d \in sent /\ \E c \in Coins : Paid[d].amount[c] > 0
                /\ \A c \in Coins :
                     /\ row[<<d, c>>] = NoRow
                     /\ q.staged[c] # NoRow =>
                          q.staged[c].st = "pending" /\ RowSound(c, q.staged[c])
                /\ IF q.last = None THEN \A c \in Coins : q.staged[c] = NoRow
                   ELSE q.staged[q.last] # NoRow
           /\ q.pc = "enqueue" => d \in sent /\ q.last # None /\ row[<<d, q.last>>] # NoRow

\* While the coin a job is to mark is still at the address, and no listing of its
\* type was cut, the job has it on its list and is not yet done.
JobsFit ==
    \A j \in Jobs, d \in Digests, c \in Coins :
        job[j].dep = <<d, c>> =>
            /\ row[<<d, c>>] # NoRow /\ job[j].user = Paid[d].to
            /\ c \in held[d] /\ <<job[j].user, c>> \notin cut =>
                 /\ job[j].pc = "listed" => c \in job[j].types \/ <<d, c>> \in job[j].objs
                 /\ job[j].pc = "built" => <<d, c>> \in job[j].objs
                 /\ job[j].pc # "moved"

StoredWasSent == \A d \in Digests, c \in Coins : row[<<d, c>>] # NoRow => d \in sent

SweepInv ==
    /\ TypeOK /\ PricesAreSound /\ RatesAreSound
    /\ RequestsFit /\ JobsFit /\ StoredWasSent /\ SweptMeansMoved
=============================================================================
