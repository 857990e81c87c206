------------------------------ MODULE PresignPool ------------------------------
(***************************************************************************)
(* The presign pool of features/presigns/service.ts: the rows of the       *)
(* presigns table, the UnverifiedPresignCap objects they mirror on chain,  *)
(* the statements that move a row, and the presigns.sweep-expired job.     *)
(* One bucket (network, curve, algorithm, encryption key) is modelled;     *)
(* buckets share no row.  A row is named by its cap: sui_object_id is      *)
(* unique.                                                                 *)
(***************************************************************************)
EXTENDS Integers, FiniteSets

CONSTANTS
    Caps,       \* cap objects, and the rows that mirror them
    Reqs,       \* sign request ids
    Sweepers,   \* sweep-expired jobs that may run at the same time
    TtlElapses, \* whether PRESIGN_RESERVATION_TTL_SEC passes during a run
    None

ASSUME PoolAssumption ==
    /\ TtlElapses \in BOOLEAN
    /\ None \notin Caps \cup Reqs

VARIABLES
    chain,     \* the cap on chain
    burner,    \* the request whose transaction consumed the cap
    row,       \* presigns.status
    holder,    \* presigns.sign_request_id
    stamp,     \* presigns.allocated_at: null, fresh, or older than the TTL
    promoTodo, \* each sweeper's snapshot of pending rows, still to visit
    promoCur,  \* the row whose session it has just seen completed
    refillJob, \* whether a presigns.refill job is waiting
    minted     \* caps a refill handler has minted and not yet inserted

rowVars == <<row, holder, stamp>>

chainVars == <<chain, burner>>

sweeperVars == <<promoTodo, promoCur>>

refillVars == <<refillJob, minted>>

poolVars == <<row, holder, stamp, chain, burner, promoTodo, promoCur,
              refillJob, minted>>

ChainStates == {"unminted", "minting", "valid", "burned"}

RowStates == {"absent", "pending", "ready", "allocated", "consumed_pending",
              "used", "failed"}

PoolTypeOK ==
    /\ chain \in [Caps -> ChainStates]
    /\ burner \in [Caps -> Reqs \cup {None}]
    /\ row \in [Caps -> RowStates]
    /\ holder \in [Caps -> Reqs \cup {None}]
    /\ stamp \in [Caps -> {"null", "fresh", "old"}]
    /\ promoTodo \in [Sweepers -> SUBSET Caps]
    /\ promoCur \in [Sweepers -> Caps \cup {None}]
    /\ refillJob \in BOOLEAN
    /\ minted \subseteq Caps

\* The worker has booted: the rows in `warm` are ready, and warmupPresignPool
\* has asked for a refill.
PoolInit(warm) ==
    /\ chain = [c \in Caps |-> IF c \in warm THEN "valid" ELSE "unminted"]
    /\ burner = [c \in Caps |-> None]
    /\ row = [c \in Caps |-> IF c \in warm THEN "ready" ELSE "absent"]
    /\ holder = [c \in Caps |-> None]
    /\ stamp = [c \in Caps |-> "null"]
    /\ promoTodo = [x \in Sweepers |-> {}]
    /\ promoCur = [x \in Sweepers |-> None]
    /\ refillJob = TRUE
    /\ minted = {}

-----------------------------------------------------------------------------
(***************************************************************************)
(* The statements on a row.  Every one but allocate is unconditional: its  *)
(* WHERE clause names the row and nothing else.                            *)
(***************************************************************************)
\* Mutant: the subquery does not look at the status.
allocate_AnyStatus(r, c) ==
    /\ row[c] \in {"ready", "allocated"}
    /\ row' = [row EXCEPT ![c] = "allocated"]
    /\ holder' = [holder EXCEPT ![c] = r]
    /\ stamp' = [stamp EXCEPT ![c] = "fresh"]

\* UPDATE ... WHERE id = (SELECT ... status = 'ready' FOR UPDATE SKIP LOCKED).
\* A locked row is skipped, so any ready row may be the one claimed.
allocate(r, c) ==
    /\ row[c] = "ready"
    /\ row' = [row EXCEPT ![c] = "allocated"]
    /\ holder' = [holder EXCEPT ![c] = r]
    /\ stamp' = [stamp EXCEPT ![c] = "fresh"]

markConsumedPending(c) ==
    /\ row' = [row EXCEPT ![c] = "consumed_pending"]
    /\ UNCHANGED <<holder, stamp>>

markUsed(c) ==
    /\ row' = [row EXCEPT ![c] = "used"]
    /\ UNCHANGED <<holder, stamp>>

rollbackToReady(c) ==
    /\ row' = [row EXCEPT ![c] = "ready"]
    /\ holder' = [holder EXCEPT ![c] = None]
    /\ stamp' = [stamp EXCEPT ![c] = "null"]

\* A read that does not find the cap takes its row out of the pool.
quarantine(c) ==
    /\ row' = [row EXCEPT ![c] = "failed"]
    /\ UNCHANGED <<holder, stamp>>

-----------------------------------------------------------------------------
(***************************************************************************)
(* presigns.sweep-expired: the two statements of sweepExpired, then        *)
(* promotePending over a snapshot of the pending rows.  Any time may pass  *)
(* between the statements and a sweep may die between them, so each runs   *)
(* on its own; a sweeper that is promoting finishes its snapshot first.    *)
(***************************************************************************)
Expired(c) == stamp[c] = "old"

Rescued == {c \in Caps : row[c] = "allocated" /\ Expired(c)}

Parked == {c \in Caps : row[c] = "consumed_pending" /\ Expired(c)}

sweepRescue ==
    /\ row' = [c \in Caps |-> IF c \in Rescued THEN "ready" ELSE row[c]]
    /\ holder' = [c \in Caps |-> IF c \in Rescued THEN None ELSE holder[c]]
    /\ stamp' = [c \in Caps |-> IF c \in Rescued THEN "null" ELSE stamp[c]]
    /\ UNCHANGED <<chainVars, sweeperVars, refillVars>>

sweepPark ==
    /\ row' = [c \in Caps |-> IF c \in Parked THEN "failed" ELSE row[c]]
    /\ UNCHANGED <<holder, stamp, chainVars, sweeperVars, refillVars>>

promoteSelect(x) ==
    /\ promoTodo[x] = {} /\ promoCur[x] = None
    /\ promoTodo' = [promoTodo EXCEPT ![x] = {c \in Caps : row[c] = "pending"}]
    /\ UNCHANGED <<rowVars, promoCur, chainVars, refillVars>>

\* resolveSessionId and getPresignInParticularState: the cap is there and its
\* session is Completed, or the row is left for the next sweep, as it is when
\* the call to the chain fails.
promoteCheck(x, c) ==
    /\ promoCur[x] = None
    /\ c \in promoTodo[x]
    /\ promoTodo' = [promoTodo EXCEPT ![x] = @ \ {c}]
    /\ \/ chain[c] = "valid" /\ promoCur' = [promoCur EXCEPT ![x] = c]
       \/ UNCHANGED promoCur
    /\ UNCHANGED <<rowVars, chainVars, refillVars>>

promoteWrite(x) ==
    /\ promoCur[x] # None
    /\ row' = [row EXCEPT ![promoCur[x]] = "ready"]
    /\ promoCur' = [promoCur EXCEPT ![x] = None]
    /\ UNCHANGED <<holder, stamp, promoTodo, chainVars, refillVars>>

sweepExpiredJob(x) ==
    \/ sweepRescue
    \/ sweepPark
    \/ promoteSelect(x)
    \/ \E c \in Caps : promoteCheck(x, c)
    \/ promoteWrite(x)

-----------------------------------------------------------------------------
(***************************************************************************)
(* presigns.refill: one transaction mints a batch of caps, then one insert *)
(* records them as pending; the coordinator completes a session later.     *)
(* presigns.discover inserts whatever cap the wallet owns and no row       *)
(* names.                                                                  *)
(***************************************************************************)
enqueueRefill == refillJob' = TRUE /\ UNCHANGED minted

\* buildPresignBatch: one pay_presign per cap, all transferred to the operator.
Batches == (SUBSET {c \in Caps : chain[c] = "unminted"}) \ {{}}

refillMint ==
    /\ refillJob /\ minted = {}
    /\ \E batch \in Batches :
          /\ chain' = [c \in Caps |-> IF c \in batch THEN "minting" ELSE chain[c]]
          /\ minted' = batch
    /\ refillJob' = FALSE
    /\ UNCHANGED <<rowVars, burner, sweeperVars>>

\* sui_object_id is unique: when discover was first with one of the caps the
\* whole insert fails, the handler throws and the job is retried.
refillInsert ==
    /\ minted # {}
    /\ IF \A c \in minted : row[c] = "absent"
       THEN /\ row' = [c \in Caps |-> IF c \in minted THEN "pending" ELSE row[c]]
            /\ UNCHANGED refillJob
       ELSE refillJob' = TRUE /\ UNCHANGED row
    /\ minted' = {}
    /\ UNCHANGED <<holder, stamp, chainVars, sweeperVars>>

refillCrash ==
    /\ minted # {}
    /\ minted' = {} /\ refillJob' = TRUE
    /\ UNCHANGED <<rowVars, chainVars, sweeperVars>>

\* The scan: a cap of the operator's wallet that no row names.
Untracked(c) == row[c] = "absent" /\ chain[c] \in {"minting", "valid"}

\* Rows are never deleted and the insert does nothing on conflict, so the
\* delay between the scan and the insert cannot be seen.
discover(c) ==
    /\ Untracked(c)
    /\ row' = [row EXCEPT ![c] = "pending"]
    /\ UNCHANGED <<holder, stamp, chainVars, sweeperVars, refillVars>>

CoordinatorCompletes(c) ==
    /\ chain[c] = "minting"
    /\ chain' = [chain EXCEPT ![c] = "valid"]
    /\ UNCHANGED <<rowVars, burner, sweeperVars, refillVars>>

-----------------------------------------------------------------------------
\* The reservation TTL passes: every allocation made so far is overdue.
StampsAge ==
    /\ TtlElapses
    /\ stamp' = [c \in Caps |-> IF stamp[c] = "fresh" THEN "old" ELSE stamp[c]]

\* A transaction of request r that names cap c succeeds: the Move call takes
\* the cap by value, so it succeeds at most once.
Burn(r, c) ==
    /\ chain[c] = "valid"
    /\ chain' = [chain EXCEPT ![c] = "burned"]
    /\ burner' = [burner EXCEPT ![c] = r]

-----------------------------------------------------------------------------
\* A row that says its cap went on chain is right, whatever the sweeps and
\* the other workers did to it meanwhile.
ConsumedPendingIsBurned ==
    \A c \in Caps : row[c] = "consumed_pending" => chain[c] = "burned"
=============================================================================
