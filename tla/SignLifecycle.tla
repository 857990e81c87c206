----------------------------- MODULE SignLifecycle -----------------------------
(***************************************************************************)
(* A sign request from prepare to settlement (features/sign/service.ts):   *)
(* the two API handlers, the sign.process worker, the sign.sweep-prepared  *)
(* job, and the presign pool and credit ledger they work on.  Each         *)
(* statement of a handler that another process can observe is one step;    *)
(* handlers run on several pods and stop anywhere.                         *)
(*                                                                         *)
(* charge and refund are atomic here: BillingLedger is their model.        *)
(***************************************************************************)
EXTENDS PresignPool

CONSTANTS
    Warm,       \* the caps whose rows start out ready
    KeyOf,      \* the idempotency key each prepare call carries
    Budget,     \* the user's credits, in sign prices
    Submitters, \* submit handlers that may run at the same time
    Workers,    \* sign.process handlers that may run at the same time
    RetryLimit, \* pg-boss retries per request
    Dedupes,    \* whether enqueue drops a job whose singletonKey is waiting
    LockTimesOut, \* whether a worker may fail to get the executor's lock
    Reconciles, \* whether the operator runs reconcile-unknown-signs --apply
    Crashes     \* whether a handler may stop half way: its pod dies, or a
                \* database or RPC call it makes throws

ASSUME LifecycleAssumption ==
    /\ Warm \subseteq Caps
    /\ DOMAIN KeyOf = Reqs
    /\ Budget \in Nat
    /\ RetryLimit \in Nat
    /\ Dedupes \in BOOLEAN
    /\ LockTimesOut \in BOOLEAN
    /\ Reconciles \in BOOLEAN
    /\ Crashes \in BOOLEAN

VARIABLES
    status,    \* sign_requests.status, "none" when there is no row
    presignOf, \* sign_requests.presign_id
    overdue,   \* prepared rows whose updated_at is older than the TTL
    charged,   \* ops with a charge row in the ledger
    refunded,  \* ops with a refund row in the ledger
    credits,   \* the user's balance
    jobs,      \* waiting sign.process jobs
    retries,   \* retries pg-boss has spent
    ppc,       \* where the prepare call that creates a request is
    pcap,      \* the presign it claimed
    spc,       \* where each submit handler is
    sreq,      \* the request it was called for
    wpc,       \* where each worker is
    wreq,      \* the request its job names
    wcap,      \* the presign the row named when the worker read it
    wthrow,    \* whether the handler will rethrow when it is done
    unknownTx, \* transactions submitted whose outcome never came back
    recon,     \* the presign the reconcile script has found recoverable
    sweepTodo, \* the prepared sweep's snapshot: <<request, presign>> pairs
    sweepAt,   \* where it is on the row it is rescuing
    sweepReq,  \* that row, as the snapshot has it
    sweepCap   \* and the presign the snapshot has for it

ledgerVars == <<charged, refunded, credits>>

queueVars == <<jobs, retries>>

requestVars == <<status, presignOf, overdue>>

prepareVars == <<ppc, pcap>>

submitVars == <<spc, sreq>>

workerVars == <<wpc, wreq, wcap, wthrow>>

unknownVars == <<unknownTx, recon>>

sweepVars == <<sweepTodo, sweepAt, sweepReq, sweepCap>>

vars == <<row, holder, stamp, chain, burner, promoTodo, promoCur,
          refillJob, minted, status, presignOf, overdue, charged, refunded, credits, jobs, retries, ppc,
          pcap, spc, sreq, wpc, wreq, wcap, wthrow, unknownTx, recon, sweepTodo,
          sweepAt, sweepReq, sweepCap>>

Statuses == {"none", "prepared", "queued", "submitted", "completed", "failed"}

PreparePcs == {"new", "charge", "insert", "alloc", "drop", "dropRefund",
               "link", "fetch", "returned", "dupFetch", "dupReturned",
               "error", "conflict", "crashed"}

WorkerPcs == {"idle", "execute", "rollback", "retire", "consumed",
              "submitted", "poll", "used", "complete", "fail", "refund"}

Pairs == Reqs \X (Caps \cup {None})

TypeOK ==
    /\ PoolTypeOK
    /\ status \in [Reqs -> Statuses]
    /\ presignOf \in [Reqs -> Caps \cup {None}]
    /\ overdue \subseteq Reqs
    /\ charged \subseteq Reqs
    /\ refunded \subseteq Reqs
    /\ credits \in Int
    /\ jobs \in [Reqs -> Nat]
    /\ retries \in [Reqs -> 0 .. RetryLimit]
    /\ ppc \in [Reqs -> PreparePcs]
    /\ pcap \in [Reqs -> Caps \cup {None}]
    /\ spc \in [Submitters -> {"idle", "update", "enqueue"}]
    /\ sreq \in [Submitters -> Reqs \cup {None}]
    /\ wpc \in [Workers -> WorkerPcs]
    /\ wreq \in [Workers -> Reqs \cup {None}]
    /\ wcap \in [Workers -> Caps \cup {None}]
    /\ wthrow \in [Workers -> BOOLEAN]
    /\ unknownTx \subseteq Reqs \X Caps
    /\ recon \in Caps \cup {None}
    /\ sweepTodo \subseteq Pairs
    /\ sweepAt \in {"idle", "fail", "refund"}
    /\ sweepReq \in Reqs \cup {None}
    /\ sweepCap \in Caps \cup {None}

Init ==
    /\ PoolInit(Warm)
    /\ status = [r \in Reqs |-> "none"]
    /\ presignOf = [r \in Reqs |-> None]
    /\ overdue = {} /\ charged = {} /\ refunded = {}
    /\ credits = Budget
    /\ jobs = [r \in Reqs |-> 0]
    /\ retries = [r \in Reqs |-> 0]
    /\ ppc = [r \in Reqs |-> "new"]
    /\ pcap = [r \in Reqs |-> None]
    /\ spc = [s \in Submitters |-> "idle"]
    /\ sreq = [s \in Submitters |-> None]
    /\ wpc = [w \in Workers |-> "idle"]
    /\ wreq = [w \in Workers |-> None]
    /\ wcap = [w \in Workers |-> None]
    /\ wthrow = [w \in Workers |-> FALSE]
    /\ unknownTx = {} /\ recon = None
    /\ sweepTodo = {}
    /\ sweepAt = "idle" /\ sweepReq = None /\ sweepCap = None

-----------------------------------------------------------------------------
(***************************************************************************)
(* What the handlers share.                                                *)
(***************************************************************************)
chargeCredits(r) ==
    /\ credits >= 1
    /\ charged' = charged \cup {r}
    /\ credits' = credits - 1
    /\ UNCHANGED refunded

\* Idempotent per request; a refund with no matching charge is refused.
refundCredits(r) ==
    /\ IF r \in charged \ refunded
       THEN /\ refunded' = refunded \cup {r}
            /\ credits' = credits + 1
       ELSE UNCHANGED <<refunded, credits>>
    /\ UNCHANGED charged

SetStatus(r, new) ==
    /\ status' = [status EXCEPT ![r] = IF @ = "none" THEN "none" ELSE new]
    /\ overdue' = overdue \ {r}
    /\ UNCHANGED presignOf

enqueueSignProcess(r) ==
    /\ jobs' = IF Dedupes /\ jobs[r] > 0 THEN jobs
               ELSE [jobs EXCEPT ![r] = @ + 1]
    /\ UNCHANGED retries

\* A handler that throws, or a pod that dies, gives its job back to pg-boss,
\* which drops it once the retries are spent.
requeue(r) ==
    IF retries[r] < RetryLimit
    THEN /\ retries' = [retries EXCEPT ![r] = @ + 1]
         /\ jobs' = [jobs EXCEPT ![r] = @ + 1]
    ELSE UNCHANGED queueVars

-----------------------------------------------------------------------------
(***************************************************************************)
(* POST /v1/sign/prepare: prepareSignRequest.                              *)
(***************************************************************************)
PrepareGoto(r, label) == ppc' = [ppc EXCEPT ![r] = label]

\* The row an earlier call with the same key left behind.
Existing(r) == {q \in Reqs : KeyOf[q] = KeyOf[r] /\ status[q] # "none"}

\* An earlier row that has its presign answers the call; one that never got
\* its presign does not, and the call goes on as a new one.
PrepareLookup(r) ==
    /\ ppc[r] = "new"
    /\ PrepareGoto(r, IF \E q \in Existing(r) : presignOf[q] # None
                      THEN "dupFetch" ELSE "charge")
    /\ UNCHANGED <<poolVars, requestVars, ledgerVars, queueVars, pcap,
                   submitVars, workerVars, unknownVars, sweepVars>>

\* fetchPresignBytes: the bytes are read off the cap.  A cap that is gone has
\* its row quarantined, and so has one whose read answers with an error.
FetchPresignBytes(r, c, done) ==
    \/ /\ chain[c] = "burned" \/ Crashes
       /\ PrepareGoto(r, "error") /\ quarantine(c)
    \/ /\ chain[c] # "burned"
       /\ PrepareGoto(r, done) /\ UNCHANGED rowVars

PrepareDupFetch(r) ==
    /\ ppc[r] = "dupFetch"
    /\ \E q \in Existing(r) : /\ presignOf[q] # None
                              /\ FetchPresignBytes(r, presignOf[q], "dupReturned")
    /\ UNCHANGED <<chainVars, sweeperVars, refillVars, requestVars, ledgerVars, queueVars,
                   pcap, submitVars, workerVars, unknownVars, sweepVars>>

\* Mutant: a charge that is refused does not stop the call.
PrepareCharge_Swallowed(r) ==
    /\ ppc[r] = "charge"
    /\ chargeCredits(r) \/ (credits < 1 /\ UNCHANGED ledgerVars)
    /\ PrepareGoto(r, "insert")
    /\ UNCHANGED <<poolVars, requestVars, queueVars, pcap, submitVars,
                   workerVars, unknownVars, sweepVars>>

PrepareCharge(r) ==
    /\ ppc[r] = "charge"
    /\ \/ chargeCredits(r) /\ PrepareGoto(r, "insert")
       \/ credits < 1 /\ PrepareGoto(r, "error") /\ UNCHANGED ledgerVars
    /\ UNCHANGED <<poolVars, requestVars, queueVars, pcap, submitVars,
                   workerVars, unknownVars, sweepVars>>

\* The unique index on (user, network, key) refuses the second row.  The
\* exception leaves the charge where it is.
PrepareInsert(r) ==
    /\ ppc[r] = "insert"
    /\ IF Existing(r) = {}
       THEN /\ status' = [status EXCEPT ![r] = "prepared"]
            /\ PrepareGoto(r, "alloc")
       ELSE PrepareGoto(r, "conflict") /\ UNCHANGED status
    /\ UNCHANGED <<poolVars, presignOf, overdue, ledgerVars, queueVars, pcap,
                   submitVars, workerVars, unknownVars, sweepVars>>

PrepareAllocate(r) ==
    /\ ppc[r] = "alloc"
    /\ \/ \E c \in Caps : /\ allocate(r, c)
                          /\ pcap' = [pcap EXCEPT ![r] = c]
                          /\ PrepareGoto(r, "link")
       \/ /\ \A c \in Caps : row[c] # "ready"
          /\ PrepareGoto(r, "drop")
          /\ UNCHANGED <<rowVars, pcap>>
    /\ UNCHANGED <<chainVars, sweeperVars, refillVars, requestVars, ledgerVars, queueVars,
                   submitVars, workerVars, unknownVars, sweepVars>>

\* Mutant: the row of a request that got no presign is kept.
PrepareDrop_KeepsRow(r) ==
    /\ ppc[r] = "drop"
    /\ PrepareGoto(r, "dropRefund")
    /\ UNCHANGED <<poolVars, requestVars, ledgerVars, queueVars, pcap,
                   submitVars, workerVars, unknownVars, sweepVars>>

\* Pool empty: delete the row, give the charge back, ask for a refill, throw.
PrepareDrop(r) ==
    /\ ppc[r] = "drop"
    /\ status' = [status EXCEPT ![r] = "none"]
    /\ overdue' = overdue \ {r}
    /\ PrepareGoto(r, "dropRefund")
    /\ UNCHANGED <<poolVars, presignOf, ledgerVars, queueVars, pcap,
                   submitVars, workerVars, unknownVars, sweepVars>>

\* Mutant: the charge is kept when the pool is empty.
PrepareDropRefund_NoRefund(r) ==
    /\ ppc[r] = "dropRefund"
    /\ enqueueRefill
    /\ PrepareGoto(r, "error")
    /\ UNCHANGED <<rowVars, chainVars, sweeperVars, requestVars, ledgerVars, queueVars,
                   pcap, submitVars, workerVars, unknownVars, sweepVars>>

PrepareDropRefund(r) ==
    /\ ppc[r] = "dropRefund"
    /\ refundCredits(r)
    /\ enqueueRefill
    /\ PrepareGoto(r, "error")
    /\ UNCHANGED <<rowVars, chainVars, sweeperVars, requestVars, queueVars, pcap, submitVars,
                   workerVars, unknownVars, sweepVars>>

\* The presign id is written whatever the row's status has become.
PrepareLink(r) ==
    /\ ppc[r] = "link"
    /\ presignOf' = [presignOf EXCEPT ![r] = pcap[r]]
    /\ overdue' = overdue \ {r}
    /\ PrepareGoto(r, "fetch")
    /\ UNCHANGED <<poolVars, status, ledgerVars, queueVars, pcap, submitVars,
                   workerVars, unknownVars, sweepVars>>

PrepareFetch(r) ==
    /\ ppc[r] = "fetch"
    /\ FetchPresignBytes(r, pcap[r], "returned")
    /\ UNCHANGED <<chainVars, sweeperVars, refillVars, requestVars, ledgerVars, queueVars,
                   pcap, submitVars, workerVars, unknownVars, sweepVars>>

PrepareEnded == {"new", "returned", "dupReturned", "error", "conflict",
                 "crashed"}

PrepareCrash(r) ==
    /\ Crashes
    /\ ppc[r] \notin PrepareEnded
    /\ PrepareGoto(r, "crashed")
    /\ UNCHANGED <<poolVars, requestVars, ledgerVars, queueVars, pcap,
                   submitVars, workerVars, unknownVars, sweepVars>>

Prepare(r) ==
    \/ PrepareDupFetch(r) \/ PrepareCharge(r) \/ PrepareInsert(r)
    \/ PrepareAllocate(r) \/ PrepareDrop(r) \/ PrepareDropRefund(r)
    \/ PrepareLink(r) \/ PrepareFetch(r)

-----------------------------------------------------------------------------
(***************************************************************************)
(* POST /v1/sign/submit: submitPreparedSign.  The client has the id from a *)
(* prepare response.  A call that finds the row past `prepared` returns it *)
(* and one that finds it failed throws: neither changes anything.          *)
(***************************************************************************)
KnownToClient(r) ==
    \/ ppc[r] = "returned"
    \/ \E q \in Reqs : KeyOf[q] = KeyOf[r] /\ ppc[q] = "dupReturned"

SubmitRead(s, r) ==
    /\ spc[s] = "idle"
    /\ KnownToClient(r)
    /\ status[r] = "prepared"
    /\ presignOf[r] # None
    /\ spc' = [spc EXCEPT ![s] = "update"]
    /\ sreq' = [sreq EXCEPT ![s] = r]
    /\ UNCHANGED <<poolVars, requestVars, ledgerVars, queueVars, prepareVars,
                   workerVars, unknownVars, sweepVars>>

\* Mutant: submit reports the request as submitted before any transaction.
SubmitUpdate_Submitted(s) ==
    /\ spc[s] = "update"
    /\ SetStatus(sreq[s], "submitted")
    /\ spc' = [spc EXCEPT ![s] = "enqueue"]
    /\ UNCHANGED <<poolVars, ledgerVars, queueVars, prepareVars, sreq,
                   workerVars, unknownVars, sweepVars>>

\* The status is overwritten, not compared: the WHERE clause has the id only.
SubmitUpdate(s) ==
    /\ spc[s] = "update"
    /\ SetStatus(sreq[s], "queued")
    /\ spc' = [spc EXCEPT ![s] = "enqueue"]
    /\ UNCHANGED <<poolVars, ledgerVars, queueVars, prepareVars, sreq,
                   workerVars, unknownVars, sweepVars>>

SubmitDone(s) ==
    /\ spc' = [spc EXCEPT ![s] = "idle"]
    /\ sreq' = [sreq EXCEPT ![s] = None]

\* Mutant: the job is never put on the queue.
SubmitEnqueue_Lost(s) ==
    /\ spc[s] = "enqueue"
    /\ SubmitDone(s)
    /\ UNCHANGED <<poolVars, requestVars, ledgerVars, queueVars, prepareVars,
                   workerVars, unknownVars, sweepVars>>

SubmitEnqueue(s) ==
    /\ spc[s] = "enqueue"
    /\ enqueueSignProcess(sreq[s])
    /\ SubmitDone(s)
    /\ UNCHANGED <<poolVars, requestVars, ledgerVars, prepareVars, workerVars,
                   unknownVars, sweepVars>>

SubmitCrash(s) ==
    /\ Crashes
    /\ spc[s] # "idle"
    /\ SubmitDone(s)
    /\ UNCHANGED <<poolVars, requestVars, ledgerVars, queueVars, prepareVars,
                   workerVars, unknownVars, sweepVars>>

Submit(s) == SubmitUpdate(s) \/ SubmitEnqueue(s)

-----------------------------------------------------------------------------
(***************************************************************************)
(* The sign.process job: processSignJob.                                   *)
(***************************************************************************)
WorkerGoto(w, label) ==
    /\ wpc' = [wpc EXCEPT ![w] = label]
    /\ UNCHANGED <<wreq, wcap, wthrow>>

WorkerThrows(w, label) ==
    /\ wpc' = [wpc EXCEPT ![w] = label]
    /\ wthrow' = [wthrow EXCEPT ![w] = TRUE]
    /\ UNCHANGED <<wreq, wcap>>

WorkerIdle(w) ==
    /\ wpc' = [wpc EXCEPT ![w] = "idle"]
    /\ wreq' = [wreq EXCEPT ![w] = None]
    /\ wcap' = [wcap EXCEPT ![w] = None]
    /\ wthrow' = [wthrow EXCEPT ![w] = FALSE]

WorkerFinish(w) ==
    /\ WorkerIdle(w)
    /\ IF wthrow[w] THEN requeue(wreq[w]) ELSE UNCHANGED queueVars

\* No row, a settled row or one that is not queued: the job is dropped.
WorkerDrop(w, r) ==
    /\ wpc[w] = "idle"
    /\ jobs[r] > 0
    /\ status[r] # "queued"
    /\ jobs' = [jobs EXCEPT ![r] = @ - 1]
    /\ UNCHANGED <<poolVars, requestVars, ledgerVars, retries, prepareVars,
                   submitVars, workerVars, unknownVars, sweepVars>>

\* Mutant: the worker takes a presign from the pool, not the row's own.
WorkerRead_FreshPresign(w, r) ==
    /\ wpc[w] = "idle"
    /\ jobs[r] > 0
    /\ status[r] = "queued"
    /\ jobs' = [jobs EXCEPT ![r] = @ - 1]
    /\ wpc' = [wpc EXCEPT ![w] = "execute"]
    /\ wreq' = [wreq EXCEPT ![w] = r]
    /\ \E c \in Caps : row[c] = "ready" /\ wcap' = [wcap EXCEPT ![w] = c]
    /\ UNCHANGED <<poolVars, requestVars, ledgerVars, retries, prepareVars,
                   submitVars, wthrow, unknownVars, sweepVars>>

WorkerRead(w, r) ==
    /\ wpc[w] = "idle"
    /\ jobs[r] > 0
    /\ status[r] = "queued"
    /\ jobs' = [jobs EXCEPT ![r] = @ - 1]
    /\ wpc' = [wpc EXCEPT ![w] = IF presignOf[r] = None THEN "fail"
                                                        ELSE "execute"]
    /\ wreq' = [wreq EXCEPT ![w] = r]
    /\ wcap' = [wcap EXCEPT ![w] = presignOf[r]]
    /\ UNCHANGED <<poolVars, requestVars, ledgerVars, retries, prepareVars,
                   submitVars, wthrow, unknownVars, sweepVars>>

\* MISSING_INPUTS, PRESIGN_GONE, DWALLET_GONE: failed before any transaction,
\* the presign left as it is.
WorkerAbandon(w) ==
    /\ wpc[w] = "execute"
    /\ WorkerGoto(w, "fail")
    /\ UNCHANGED <<poolVars, requestVars, ledgerVars, queueVars, prepareVars,
                   submitVars, unknownVars, sweepVars>>

\* The transaction lands and consumes the cap.
WorkerExecuted(w) ==
    /\ wpc[w] = "execute"
    /\ Burn(wreq[w], wcap[w])
    /\ WorkerGoto(w, "consumed")
    /\ UNCHANGED <<rowVars, sweeperVars, refillVars, requestVars, ledgerVars,
                   queueVars, prepareVars, submitVars, unknownVars, sweepVars>>

\* Mutant: a reverted transaction is taken for an executed one.
WorkerNotExecuted_Ignored(w) ==
    /\ wpc[w] = "execute"
    /\ WorkerGoto(w, "consumed")
    /\ UNCHANGED <<poolVars, requestVars, ledgerVars, queueVars, prepareVars,
                   submitVars, unknownVars, sweepVars>>

\* TxExecutorError with phase preflight or reverted: the chain is untouched.
WorkerNotExecuted(w) ==
    /\ wpc[w] = "execute"
    /\ WorkerThrows(w, "rollback")
    /\ UNCHANGED <<poolVars, requestVars, ledgerVars, queueVars, prepareVars,
                   submitVars, unknownVars, sweepVars>>

\* Phase unknown: the transaction was handed over and no answer came back.
WorkerUnknown(w) ==
    /\ wpc[w] = "execute"
    /\ unknownTx' = unknownTx \cup {<<wreq[w], wcap[w]>>}
    /\ WorkerThrows(w, "retire")
    /\ UNCHANGED <<poolVars, requestVars, ledgerVars, queueVars, prepareVars,
                   submitVars, recon, sweepVars>>

\* The executor's lock cannot be had: the error is not a TxExecutorError, so
\* it counts as phase unknown although nothing was sent.
WorkerNoLock(w) ==
    /\ LockTimesOut
    /\ wpc[w] = "execute"
    /\ WorkerThrows(w, "retire")
    /\ UNCHANGED <<poolVars, requestVars, ledgerVars, queueVars, prepareVars,
                   submitVars, unknownVars, sweepVars>>

\* A transaction nobody heard back from may still land, at any time.
LateLanding(r, c) ==
    /\ <<r, c>> \in unknownTx
    /\ Burn(r, c)
    /\ UNCHANGED <<rowVars, sweeperVars, refillVars, requestVars, ledgerVars,
                   queueVars, prepareVars, submitVars, workerVars, unknownVars,
                   sweepVars>>

\* Mutant: a transaction that never ran retires its presign.
WorkerRollback_Retires(w) ==
    /\ wpc[w] = "rollback"
    /\ markUsed(wcap[w])
    /\ WorkerGoto(w, "fail")
    /\ UNCHANGED <<chainVars, sweeperVars, refillVars, requestVars, ledgerVars,
                   queueVars, prepareVars, submitVars, unknownVars, sweepVars>>

WorkerRollback(w) ==
    /\ wpc[w] = "rollback"
    /\ rollbackToReady(wcap[w])
    /\ WorkerGoto(w, "fail")
    /\ UNCHANGED <<chainVars, sweeperVars, refillVars, requestVars, ledgerVars,
                   queueVars, prepareVars, submitVars, unknownVars, sweepVars>>

\* Mutant: a transaction with an unknown outcome gives its presign back.
WorkerRetire_Rollback(w) ==
    /\ wpc[w] = "retire"
    /\ rollbackToReady(wcap[w])
    /\ WorkerGoto(w, "fail")
    /\ UNCHANGED <<chainVars, sweeperVars, refillVars, requestVars, ledgerVars,
                   queueVars, prepareVars, submitVars, unknownVars, sweepVars>>

WorkerRetire(w) ==
    /\ wpc[w] = "retire"
    /\ markUsed(wcap[w])
    /\ WorkerGoto(w, "fail")
    /\ UNCHANGED <<chainVars, sweeperVars, refillVars, requestVars, ledgerVars,
                   queueVars, prepareVars, submitVars, unknownVars, sweepVars>>

WorkerConsumed(w) ==
    /\ wpc[w] = "consumed"
    /\ markConsumedPending(wcap[w])
    /\ WorkerGoto(w, "submitted")
    /\ UNCHANGED <<chainVars, sweeperVars, refillVars, requestVars, ledgerVars,
                   queueVars, prepareVars, submitVars, unknownVars, sweepVars>>

\* Without a SignRequested event the request fails here (NO_SIGN_ID).
WorkerSubmitted(w) ==
    /\ wpc[w] = "submitted"
    /\ SetStatus(wreq[w], "submitted")
    /\ WorkerGoto(w, "poll") \/ WorkerGoto(w, "retire")
    /\ UNCHANGED <<poolVars, ledgerVars, queueVars, prepareVars, submitVars,
                   unknownVars, sweepVars>>

\* The coordinator delivers the signature, or 120 seconds pass.
WorkerPoll(w) ==
    /\ wpc[w] = "poll"
    /\ WorkerGoto(w, "used") \/ WorkerThrows(w, "retire")
    /\ UNCHANGED <<poolVars, requestVars, ledgerVars, queueVars, prepareVars,
                   submitVars, unknownVars, sweepVars>>

WorkerUsed(w) ==
    /\ wpc[w] = "used"
    /\ markUsed(wcap[w])
    /\ WorkerGoto(w, "complete")
    /\ UNCHANGED <<chainVars, sweeperVars, refillVars, requestVars, ledgerVars,
                   queueVars, prepareVars, submitVars, unknownVars, sweepVars>>

WorkerComplete(w) ==
    /\ wpc[w] = "complete"
    /\ SetStatus(wreq[w], "completed")
    /\ enqueueRefill
    /\ WorkerFinish(w)
    /\ UNCHANGED <<rowVars, chainVars, sweeperVars, ledgerVars, prepareVars,
                   submitVars, unknownVars, sweepVars>>

\* Mutant: markFailed without the refund.
WorkerFail_NoRefund(w) ==
    /\ wpc[w] = "fail"
    /\ SetStatus(wreq[w], "failed")
    /\ WorkerFinish(w)
    /\ UNCHANGED <<poolVars, ledgerVars, prepareVars, submitVars, unknownVars,
                   sweepVars>>

\* markFailed: overwrite the status, then refund if the row was there.
WorkerFail(w) ==
    /\ wpc[w] = "fail"
    /\ SetStatus(wreq[w], "failed")
    /\ IF status[wreq[w]] = "none"
       THEN WorkerFinish(w)
       ELSE WorkerGoto(w, "refund") /\ UNCHANGED queueVars
    /\ UNCHANGED <<poolVars, ledgerVars, prepareVars, submitVars, unknownVars,
                   sweepVars>>

WorkerRefund(w) ==
    /\ wpc[w] = "refund"
    /\ refundCredits(wreq[w])
    /\ WorkerFinish(w)
    /\ UNCHANGED <<poolVars, requestVars, prepareVars, submitVars, unknownVars,
                   sweepVars>>

WorkerCrash(w) ==
    /\ Crashes
    /\ wpc[w] # "idle"
    /\ WorkerIdle(w)
    /\ requeue(wreq[w])
    /\ UNCHANGED <<poolVars, requestVars, ledgerVars, prepareVars, submitVars,
                   unknownVars, sweepVars>>

Work(w) ==
    \/ \E r \in Reqs : WorkerDrop(w, r) \/ WorkerRead(w, r)
    \/ WorkerAbandon(w) \/ WorkerExecuted(w) \/ WorkerNotExecuted(w)
    \/ WorkerUnknown(w) \/ WorkerNoLock(w) \/ WorkerRollback(w)
    \/ WorkerRetire(w) \/ WorkerConsumed(w) \/ WorkerSubmitted(w) \/ WorkerPoll(w)
    \/ WorkerUsed(w) \/ WorkerComplete(w) \/ WorkerFail(w) \/ WorkerRefund(w)

-----------------------------------------------------------------------------
(***************************************************************************)
(* The sign.sweep-prepared job: sweepStuckPrepared rescues every row of a  *)
(* snapshot, whatever has become of it since.                              *)
(***************************************************************************)
StuckPrepared == {r \in overdue : status[r] = "prepared"}

SweepSelect ==
    /\ sweepAt = "idle" /\ sweepTodo = {}
    /\ StuckPrepared # {}
    /\ sweepTodo' = {<<r, presignOf[r]>> : r \in StuckPrepared}
    /\ UNCHANGED <<poolVars, requestVars, ledgerVars, queueVars, prepareVars,
                   submitVars, workerVars, unknownVars, sweepAt, sweepReq,
                   sweepCap>>

SweepRollback(r, c) ==
    /\ sweepAt = "idle"
    /\ <<r, c>> \in sweepTodo
    /\ IF c = None THEN UNCHANGED rowVars ELSE rollbackToReady(c)
    /\ sweepTodo' = sweepTodo \ {<<r, c>>}
    /\ sweepAt' = "fail" /\ sweepReq' = r /\ sweepCap' = c
    /\ UNCHANGED <<chainVars, sweeperVars, refillVars, requestVars, ledgerVars,
                   queueVars, prepareVars, submitVars, workerVars, unknownVars>>

SweepNext == sweepAt' = "idle" /\ sweepReq' = None /\ sweepCap' = None

\* Mutant: the sweep fails the row without the refund.
SweepFail_NoRefund ==
    /\ sweepAt = "fail"
    /\ SetStatus(sweepReq, "failed")
    /\ SweepNext
    /\ UNCHANGED <<poolVars, ledgerVars, queueVars, prepareVars, submitVars,
                   workerVars, unknownVars, sweepTodo>>

SweepFail ==
    /\ sweepAt = "fail"
    /\ SetStatus(sweepReq, "failed")
    /\ IF status[sweepReq] = "none"
       THEN SweepNext
       ELSE sweepAt' = "refund" /\ UNCHANGED <<sweepReq, sweepCap>>
    /\ UNCHANGED <<poolVars, ledgerVars, queueVars, prepareVars, submitVars,
                   workerVars, unknownVars, sweepTodo>>

SweepRefund ==
    /\ sweepAt = "refund"
    /\ refundCredits(sweepReq)
    /\ SweepNext
    /\ UNCHANGED <<poolVars, requestVars, queueVars, prepareVars, submitVars,
                   workerVars, unknownVars, sweepTodo>>

SweepCrash ==
    /\ Crashes
    /\ sweepAt # "idle" \/ sweepTodo # {}
    /\ sweepTodo' = {}
    /\ SweepNext
    /\ UNCHANGED <<poolVars, requestVars, ledgerVars, queueVars, prepareVars,
                   submitVars, workerVars, unknownVars>>

Sweep ==
    \/ SweepSelect
    \/ \E pair \in Pairs : SweepRollback(pair[1], pair[2])
    \/ SweepFail \/ SweepRefund

-----------------------------------------------------------------------------
(***************************************************************************)
(* scripts/reconcile-unknown-signs.ts --apply, over the failed requests    *)
(* with the code SUBMIT_UNKNOWN, which WorkerNoLock gives as well.         *)
(***************************************************************************)
SubmitUnknown(r, c) ==
    /\ status[r] = "failed" /\ presignOf[r] = c
    /\ LockTimesOut \/ <<r, c>> \in unknownTx

\* classify: the row is out of the pool and the cap still exists.
ReconcileClassify(r, c) ==
    /\ Reconciles /\ recon = None
    /\ SubmitUnknown(r, c)
    /\ row[c] \in {"failed", "used"} /\ chain[c] # "burned"
    /\ recon' = c
    /\ UNCHANGED <<poolVars, requestVars, ledgerVars, queueVars, prepareVars,
                   submitVars, workerVars, unknownTx, sweepVars>>

\* apply, whatever has become of the row or the cap since.
ReconcileApply ==
    /\ recon # None
    /\ rollbackToReady(recon)
    /\ recon' = None
    /\ UNCHANGED <<chainVars, sweeperVars, refillVars, requestVars, ledgerVars,
                   queueVars, prepareVars, submitVars, workerVars, unknownTx,
                   sweepVars>>

-----------------------------------------------------------------------------
TtlPasses ==
    /\ StampsAge
    /\ overdue' = {r \in Reqs : status[r] = "prepared"}
    /\ UNCHANGED <<row, holder, chainVars, sweeperVars, refillVars, status,
                   presignOf, ledgerVars, queueVars, prepareVars, submitVars,
                   workerVars, unknownVars, sweepVars>>

PoolStep ==
    /\ \/ \E x \in Sweepers : sweepExpiredJob(x)
       \/ refillMint \/ refillInsert \/ (Crashes /\ refillCrash)
       \/ \E c \in Caps : discover(c) \/ CoordinatorCompletes(c)
    /\ UNCHANGED <<requestVars, ledgerVars, queueVars, prepareVars,
                   submitVars, workerVars, unknownVars, sweepVars>>

Next ==
    \/ \E r \in Reqs : PrepareLookup(r) \/ Prepare(r) \/ PrepareCrash(r)
    \/ \E s \in Submitters : \/ \E r \in Reqs : SubmitRead(s, r)
                             \/ Submit(s)
                             \/ SubmitCrash(s)
    \/ \E w \in Workers : Work(w) \/ WorkerCrash(w)
    \/ \E r \in Reqs, c \in Caps : LateLanding(r, c) \/ ReconcileClassify(r, c)
    \/ ReconcileApply
    \/ Sweep \/ SweepCrash
    \/ PoolStep
    \/ TtlPasses

Spec == Init /\ [][Next]_vars

\* Handlers that have started run on, pg-boss delivers waiting jobs, the two
\* cron jobs fire and time passes.  Clients owe nothing, and neither a crash
\* nor a late landing has to happen.
Fairness ==
    /\ \A r \in Reqs : WF_vars(Prepare(r))
    /\ \A s \in Submitters : WF_vars(Submit(s))
    /\ \A w \in Workers : WF_vars(Work(w))
    /\ WF_vars(Sweep)
    /\ WF_vars(TtlPasses)

FairSpec == Spec /\ Fairness

-----------------------------------------------------------------------------
(***************************************************************************)
(* What holds however handlers, sweeps and crashes interleave.             *)
(***************************************************************************)
\* A request the API reports as submitted or completed was really signed for:
\* a transaction of its own consumed a cap.
ReportedMeansSigned ==
    \A r \in Reqs : status[r] \in {"submitted", "completed"}
                        => \E c \in Caps : burner[c] = r

\* A transaction that names the cap is unaccounted for.
MayBeTaken(c) == \E r \in Reqs : <<r, c>> \in unknownTx

\* A row leaves the pool as used only when its cap is gone or when a
\* transaction that may have taken it is unaccounted for: the inventory does
\* not leak.
UsedIsAccountedFor ==
    \A c \in Caps : row[c] = "used" => chain[c] = "burned" \/ MayBeTaken(c)

\* Without the lock (LockTimesOut) a good cap is retired though nothing was sent.
UsedUnlessNoLock == LockTimesOut \/ UsedIsAccountedFor

\* No charge disappears: the request has a row, or its credit came back, or
\* its prepare call is on the way to one of the two, died on the way, or lost
\* the race for its idempotency key.
ChargeIsTracked ==
    \A r \in charged \ refunded :
        \/ status[r] # "none"
        \/ ppc[r] \in {"insert", "dropRefund", "conflict", "crashed"}

\* However often its job is delivered or retried, a request never consumes a
\* second presign: the only cap its transactions take is the one its row names.
SpendsOwnPresign ==
    \A c \in Caps : burner[c] # None => presignOf[burner[c]] = c

\* Past execute, a worker knows that its request's transaction took its cap.
PastExecute == {"consumed", "submitted", "poll", "used", "complete"}

\* Until it links the presign, the prepare call has left presign_id null.
BeforeLink == {"new", "charge", "insert", "alloc", "drop", "dropRefund",
               "link"}

\* What a handler has in hand at each step: the facts about the chain and the
\* row that its next statement relies on.
HandlersKnow ==
    /\ \A c \in Caps : chain[c] = "burned" <=> burner[c] # None
    /\ \A r \in Reqs : /\ ppc[r] \in {"link", "fetch"} => pcap[r] # None
                       /\ ppc[r] \in BeforeLink => presignOf[r] = None
    /\ \A s \in Submitters : spc[s] # "idle" => sreq[s] # None
    /\ \A w \in Workers :
          /\ wpc[w] # "idle" => wreq[w] # None
          /\ wpc[w] \notin {"idle", "fail", "refund"}
                => wcap[w] # None /\ wcap[w] = presignOf[wreq[w]]
          /\ wpc[w] \in PastExecute => burner[wcap[w]] = wreq[w]
          /\ wpc[w] = "retire" => \/ burner[wcap[w]] = wreq[w]
                                  \/ <<wreq[w], wcap[w]>> \in unknownTx
                                  \/ LockTimesOut
    /\ \A r \in Reqs, c \in Caps : <<r, c>> \in unknownTx => presignOf[r] = c
    /\ sweepAt # "idle" => sweepReq # None

\* The inductive invariant behind the properties of this section.
RaceInv ==
    /\ TypeOK
    /\ HandlersKnow
    /\ ConsumedPendingIsBurned
    /\ ReportedMeansSigned
    /\ UsedUnlessNoLock
    /\ ChargeIsTracked
    /\ SpendsOwnPresign

\* Between two statements of markFailed, the refund is on its way.
RefundUnderWay(r) ==
    \/ \E w \in Workers : wpc[w] = "refund" /\ wreq[w] = r
    \/ sweepAt = "refund" /\ sweepReq = r

\* A request that failed got its credit back, or the handler that failed it
\* is about to give it back.
FailedIsRefunded ==
    \A r \in Reqs : status[r] = "failed" => r \in refunded \/ RefundUnderWay(r)

-----------------------------------------------------------------------------
(***************************************************************************)
(* What holds when no handler is overtaken by a timeout, a crash or a      *)
(* second copy of itself.                                                  *)
(***************************************************************************)
Live(r) == status[r] \in {"prepared", "queued", "submitted"}

\* processSignJob gives the presign back before it fails the row.
GivingUp(r) == \E w \in Workers : wreq[w] = r /\ wpc[w] = "fail"

MaySign(r) == Live(r) /\ presignOf[r] # None /\ ~GivingUp(r)

\* Two requests that may still be signed never hold the same presign.
ExclusiveHold ==
    \A q, r \in Reqs : q # r /\ MaySign(q) /\ MaySign(r)
                          => presignOf[q] # presignOf[r]

\* What the pool offers can be used: the cap behind a ready row has completed
\* its session and is unspent.
ReadyIsUnspent == \A c \in Caps : row[c] = "ready" => chain[c] = "valid"

\* A completed request was paid for, and stays so.
CompletedIsPaid ==
    \A r \in Reqs : status[r] = "completed" => r \in charged \ refunded

-----------------------------------------------------------------------------
(***************************************************************************)
(* The tables, seen as the contract's state.                               *)
(***************************************************************************)
PaidOf(r) == IF r \in refunded THEN "refunded"
             ELSE IF r \in charged THEN "charged" ELSE "no"

HoldOf(r) == IF status[r] \in {"none", "failed"} \/ GivingUp(r) THEN None
             ELSE pcap[r]

PoolOf(c) == IF chain[c] = "burned" THEN "spent"
             ELSE IF row[c] = "allocated" THEN "held"
             ELSE IF row[c] = "used" THEN "retired" ELSE "free"

Contract == INSTANCE SignContract WITH
                state <- status,
                paid <- [r \in Reqs |-> PaidOf(r)],
                hold <- [r \in Reqs |-> HoldOf(r)],
                pool <- [c \in Caps |-> PoolOf(c)]

\* The handlers implement the contract of SignContract.
ImplementsContract == Contract!Spec

-----------------------------------------------------------------------------
(***************************************************************************)
(* Why FailedIsRefunded and CompletedIsPaid hold.                          *)
(***************************************************************************)
KeysDistinct == \A q, r \in Reqs : KeyOf[q] = KeyOf[r] => q = r

\* Where a prepare call stands tells whether its row is there and whether it
\* has charged.
PreparesFit ==
    /\ refunded \subseteq charged
    /\ \A r \in Reqs :
         /\ status[r] # "none" => r \in charged
         /\ ppc[r] \in {"new", "charge", "dupFetch", "dupReturned"} => r \notin charged
         /\ ppc[r] \in {"insert", "dropRefund", "conflict"} => status[r] = "none"
         /\ ppc[r] = "insert" => r \in charged
         /\ ppc[r] \in {"alloc", "drop", "link", "fetch", "returned"} => status[r] # "none"
         /\ ppc[r] = "error" => status[r] # "none" \/ r \notin charged \ refunded
         /\ ppc[r] \in {"conflict", "dupFetch", "dupReturned"} => ~KeysDistinct

SettleInv == RaceInv /\ PreparesFit /\ (Crashes \/ FailedIsRefunded)

-----------------------------------------------------------------------------
(***************************************************************************)
(* Why the other properties of the undisturbed setting hold.               *)
(***************************************************************************)
\* No TTL passes, nobody dies, no script runs, no key is used twice.
Undisturbed == ~TtlElapses /\ ~Crashes /\ ~Reconciles /\ KeysDistinct

Promoting(x) == promoTodo[x] # {} \/ promoCur[x] # None

\* A request is submitted once at a time, and one sweep promotes at a time.
OneAtATime ==
    /\ \A s, t \in Submitters : sreq[s] = sreq[t] /\ sreq[s] # None => s = t
    /\ \A x, y \in Sweepers : Promoting(x) /\ Promoting(y) => x = y

\* What is never seen in this setting.
NothingStale ==
    /\ overdue = {} /\ sweepTodo = {} /\ sweepAt = "idle" /\ recon = None
    /\ \A c \in Caps : stamp[c] # "old"
    /\ \A r \in Reqs : ppc[r] # "crashed"

\* A presign is claimed and then linked, and is still paid for.
LinksFit ==
    \A r \in Reqs :
        /\ pcap[r] # None <=> ppc[r] \in {"link", "fetch", "returned"}
        /\ presignOf[r] = IF ppc[r] \in {"fetch", "returned"} THEN pcap[r] ELSE None
        /\ ppc[r] \in {"alloc", "drop", "link", "fetch"} => status[r] = "prepared"
        /\ ppc[r] = "error" => status[r] = "none"
        /\ ppc[r] = "insert" => r \notin refunded
        /\ status[r] \in {"prepared", "queued", "submitted", "completed"} => r \notin refunded

\* The status a worker's request has at each of its steps.
StatusAt(label) ==
    CASE label \in {"execute", "rollback", "consumed", "submitted"} -> {"queued"}
      [] label \in {"poll", "used", "complete"} -> {"submitted"}
      [] label = "refund" -> {"failed"}
      [] OTHER -> {"queued", "submitted"}

\* A request is with its client, with one submit handler, in the queue or with
\* one worker.
OneHandler ==
    /\ \A s \in Submitters :
         /\ spc[s] = "idle" => sreq[s] = None
         /\ spc[s] # "idle" => ppc[sreq[s]] = "returned"
         /\ spc[s] = "update" => status[sreq[s]] = "prepared"
         /\ spc[s] = "enqueue" => status[sreq[s]] = "queued" /\ jobs[sreq[s]] = 0
    /\ \A w \in Workers :
         /\ wpc[w] = "idle" => wreq[w] = None
         /\ wpc[w] # "idle" =>
              /\ status[wreq[w]] \in StatusAt(wpc[w])
              /\ wpc[w] # "refund" => jobs[wreq[w]] = 0
              /\ \A v \in Workers : wreq[v] = wreq[w] => v = w
              /\ \A s \in Submitters : sreq[s] # wreq[w]
    /\ \A r \in Reqs : /\ status[r] \in {"none", "prepared"} => jobs[r] = 0
                       /\ status[r] = "queued" => jobs[r] <= 1

Served(r) == \E w \in Workers : wreq[w] = r

\* A presign a request may sign with is reserved in its name, and untouched
\* until a worker has the request.
HoldsFit ==
    \A r \in Reqs : HoldOf(r) # None =>
        LET c == pcap[r]
        IN /\ holder[c] = r
           /\ row[c] \in {"allocated", "consumed_pending", "used"}
           /\ status[r] \in {"prepared", "queued"} /\ ~Served(r) =>
                row[c] = "allocated" /\ chain[c] = "valid"

\* The presign row at each step of a worker.
WorkerFits(w) ==
    LET c == wcap[w]
    IN /\ wpc[w] \in {"execute", "rollback"} => row[c] = "allocated" /\ chain[c] = "valid"
       /\ wpc[w] = "consumed" => row[c] = "allocated"
       /\ wpc[w] \in {"submitted", "poll", "used"} => row[c] = "consumed_pending"
       /\ wpc[w] = "complete" => row[c] = "used"
       /\ wpc[w] = "retire" => \/ row[c] = "consumed_pending"
                               \/ row[c] = "allocated" /\ status[wreq[w]] = "queued"

WorkersFit == \A w \in Workers : WorkerFits(w)

\* A cap is claimed only after its row was promoted, by the one sweep that saw
\* it pending.
PoolFits ==
    /\ \A c \in Caps :
         /\ row[c] \in {"absent", "pending"} =>
              chain[c] # "burned" /\ \A r \in Reqs : pcap[r] # c
         /\ chain[c] \in {"unminted", "minting"} => row[c] \in {"absent", "pending"}
         /\ row[c] # "failed"
    /\ \A x \in Sweepers :
         /\ \A c \in promoTodo[x] : row[c] = "pending" /\ c # promoCur[x]
         /\ promoCur[x] # None => row[promoCur[x]] = "pending" /\ chain[promoCur[x]] = "valid"

\* A transaction nobody heard from is of a presign that is out of the pool or
\* about to be.
UnknownFits ==
    \A r \in Reqs, c \in Caps : <<r, c>> \in unknownTx =>
        \/ row[c] = "used"
        \/ /\ row[c] = "allocated"
           /\ \E w \in Workers : wpc[w] = "retire" /\ wreq[w] = r /\ wcap[w] = c

PromptInv ==
    /\ SettleInv /\ NothingStale /\ LinksFit /\ OneHandler
    /\ HoldsFit /\ WorkersFit /\ PoolFits /\ ReadyIsUnspent /\ UnknownFits

-----------------------------------------------------------------------------
\* Every request a client got accepted settles: processSignJob completes it
\* or fails it.
QueuedSettles ==
    \A r \in Reqs : status[r] = "queued" ~> status[r] \in {"completed", "failed"}

\* Every charge ends in a signature or a refund, also when the client walks
\* away after prepare or comes back too late.
EveryChargeSettles ==
    \A r \in Reqs : r \in charged ~> status[r] = "completed" \/ r \in refunded
=============================================================================
