------------------------- MODULE SignLifecycleProofs -------------------------
(***************************************************************************)
(* What SignLifecycle guarantees for every number of requests, presigns,   *)
(* pods and retries, along three inductive invariants.  RaceInv holds      *)
(* under every interleaving of handlers, sweeps and crashes.  SettleInv    *)
(* follows a charge to its refund, and makes refunds certain when no       *)
(* process dies and prepares free of charge when keys are not shared.      *)
(* PromptInv describes the undisturbed service, where no presign is held   *)
(* twice; with it every step maps to a step of SignContract or to none.    *)
(* The lemma of each action shows that it preserves the invariant, with    *)
(* one step per conjunct the action can disturb and one for those it       *)
(* cannot.                                                                 *)
(***************************************************************************)
EXTENDS SignLifecycle, TLAPS

USE PoolAssumption, LifecycleAssumption
    DEF rowVars, chainVars, sweeperVars, refillVars, poolVars, ledgerVars,
        queueVars, requestVars, prepareVars, submitVars, workerVars,
        unknownVars, sweepVars,
        ChainStates, RowStates, Statuses, PreparePcs, WorkerPcs, Pairs,
        PastExecute, BeforeLink

\* A step of the pool's own jobs leaves the requests alone.
RequestsIdle ==
    UNCHANGED <<requestVars, ledgerVars, queueVars, prepareVars, submitVars,
                workerVars, unknownVars, sweepVars>>

\* The pool is warm, no request exists and every handler is idle.
LEMMA RaceInit == Init => RaceInv
  BY DEF Init, PoolInit, RaceInv, TypeOK, PoolTypeOK, HandlersKnow,
         ConsumedPendingIsBurned, ReportedMeansSigned,
         UsedUnlessNoLock, UsedIsAccountedFor,
         ChargeIsTracked, SpendsOwnPresign

\* Nothing answers for a transaction whose outcome is unknown.
LEMMA OutcomesStay ==
    ASSUME RaceInv, unknownTx \subseteq unknownTx'
    PROVE  \A c \in Caps : MayBeTaken(c) => MayBeTaken(c)'
  BY DEF MayBeTaken

\* A worker that is not idle serves a request.
LEMMA WorkerServes ==
    ASSUME RaceInv, NEW w \in Workers, wpc[w] # "idle"
    PROVE  wreq[w] \in Reqs
  <1>1. wreq[w] \in Reqs \cup {None}
    BY DEF RaceInv, TypeOK
  <1>2. wreq[w] # None
    BY DEF RaceInv, HandlersKnow
  <1>. QED BY <1>1, <1>2

\* Until it gives up it works with the presign the row names.
LEMMA WorkerHolds ==
    ASSUME RaceInv, NEW w \in Workers,
           wpc[w] \notin {"idle", "fail", "refund"}
    PROVE  /\ wcap[w] \in Caps
           /\ wcap[w] = presignOf[wreq[w]]
  <1>1. wcap[w] \in Caps \cup {None}
    BY DEF RaceInv, TypeOK
  <1>2. wcap[w] # None /\ wcap[w] = presignOf[wreq[w]]
    BY DEF RaceInv, HandlersKnow
  <1>. QED BY <1>1, <1>2

\* The idempotency lookup only reads.
LEMMA StepPrepareLookup ==
    ASSUME NEW r \in Reqs, RaceInv,
           PrepareLookup(r)
    PROVE  RaceInv'
  <1>. USE DEF RaceInv, PrepareLookup, PrepareGoto, Existing
  <1>1. TypeOK'
    BY DEF TypeOK, PoolTypeOK
  <1>2. HandlersKnow'
    BY DEF TypeOK, PoolTypeOK, HandlersKnow
  <1>3. ChargeIsTracked'
    BY DEF TypeOK, PoolTypeOK, HandlersKnow, ChargeIsTracked
  <1>4. /\ ConsumedPendingIsBurned'
        /\ ReportedMeansSigned'
        /\ UsedUnlessNoLock'
        /\ SpendsOwnPresign'
    BY DEF ConsumedPendingIsBurned, ReportedMeansSigned,
           UsedUnlessNoLock, UsedIsAccountedFor,
           MayBeTaken, SpendsOwnPresign
  <1>. QED BY <1>1, <1>2, <1>3, <1>4

\* A replayed prepare may quarantine the row, whatever its status was.
LEMMA StepPrepareDupFetch ==
    ASSUME NEW r \in Reqs, RaceInv,
           PrepareDupFetch(r)
    PROVE  RaceInv'
  <1>. USE DEF RaceInv, PrepareDupFetch, Existing, FetchPresignBytes,
               PrepareGoto, quarantine
  <1>1. TypeOK'
    BY DEF TypeOK, PoolTypeOK
  <1>2. HandlersKnow'
    BY DEF TypeOK, PoolTypeOK, HandlersKnow
  <1>3. ConsumedPendingIsBurned'
    BY DEF TypeOK, PoolTypeOK, HandlersKnow, ConsumedPendingIsBurned
  <1>4. UsedUnlessNoLock'
    BY OutcomesStay DEF TypeOK, PoolTypeOK, HandlersKnow,
        UsedUnlessNoLock, UsedIsAccountedFor
  <1>5. ChargeIsTracked'
    BY DEF TypeOK, PoolTypeOK, HandlersKnow, ChargeIsTracked
  <1>6. ReportedMeansSigned' /\ SpendsOwnPresign'
    BY DEF ReportedMeansSigned, SpendsOwnPresign
  <1>. QED BY <1>1, <1>2, <1>3, <1>4, <1>5, <1>6

\* The charge is tracked by the call that made it.
LEMMA StepPrepareCharge ==
    ASSUME NEW r \in Reqs, RaceInv,
           PrepareCharge(r)
    PROVE  RaceInv'
  <1>. USE DEF RaceInv, PrepareCharge, chargeCredits, PrepareGoto
  <1>1. TypeOK'
    BY DEF TypeOK, PoolTypeOK
  <1>2. HandlersKnow'
    BY DEF TypeOK, PoolTypeOK, HandlersKnow
  <1>3. ChargeIsTracked'
    BY DEF TypeOK, PoolTypeOK, HandlersKnow, ChargeIsTracked
  <1>4. /\ ConsumedPendingIsBurned'
        /\ ReportedMeansSigned'
        /\ UsedUnlessNoLock'
        /\ SpendsOwnPresign'
    BY DEF ConsumedPendingIsBurned, ReportedMeansSigned,
           UsedUnlessNoLock, UsedIsAccountedFor,
           MayBeTaken, SpendsOwnPresign
  <1>. QED BY <1>1, <1>2, <1>3, <1>4

\* The new row takes the charge over, or the call ends in a conflict.
LEMMA StepPrepareInsert ==
    ASSUME NEW r \in Reqs, RaceInv,
           PrepareInsert(r)
    PROVE  RaceInv'
  <1>. USE DEF RaceInv, PrepareInsert, Existing, PrepareGoto
  <1>1. TypeOK'
    BY DEF TypeOK, PoolTypeOK
  <1>2. HandlersKnow'
    BY DEF TypeOK, PoolTypeOK, HandlersKnow
  <1>3. ReportedMeansSigned'
    BY DEF TypeOK, PoolTypeOK, HandlersKnow, ReportedMeansSigned
  <1>4. ChargeIsTracked'
    BY DEF TypeOK, PoolTypeOK, HandlersKnow, ChargeIsTracked
  <1>5. /\ ConsumedPendingIsBurned'
        /\ UsedUnlessNoLock'
        /\ SpendsOwnPresign'
    BY DEF ConsumedPendingIsBurned,
           UsedUnlessNoLock, UsedIsAccountedFor, MayBeTaken,
           SpendsOwnPresign
  <1>. QED BY <1>1, <1>2, <1>3, <1>4, <1>5

\* Claiming a row spends nothing.
LEMMA StepPrepareAllocate ==
    ASSUME NEW r \in Reqs, RaceInv,
           PrepareAllocate(r)
    PROVE  RaceInv'
  <1>. USE DEF RaceInv, PrepareAllocate, allocate, PrepareGoto
  <1>1. TypeOK'
    <2>1. PoolTypeOK'
      BY DEF TypeOK, PoolTypeOK
    <2>2. ppc' \in [Reqs -> PreparePcs] /\ pcap' \in [Reqs -> Caps \cup {None}]
      BY DEF TypeOK
    <2>. QED BY <2>1, <2>2 DEF TypeOK
  <1>2. HandlersKnow'
    BY DEF TypeOK, PoolTypeOK, HandlersKnow
  <1>3. ConsumedPendingIsBurned'
    BY DEF TypeOK, PoolTypeOK, HandlersKnow, ConsumedPendingIsBurned
  <1>4. UsedUnlessNoLock'
    BY OutcomesStay DEF TypeOK, PoolTypeOK, HandlersKnow,
        UsedUnlessNoLock, UsedIsAccountedFor
  <1>5. ChargeIsTracked'
    BY DEF TypeOK, PoolTypeOK, HandlersKnow, ChargeIsTracked
  <1>6. ReportedMeansSigned' /\ SpendsOwnPresign'
    BY DEF ReportedMeansSigned, SpendsOwnPresign
  <1>. QED BY <1>1, <1>2, <1>3, <1>4, <1>5, <1>6

\* The dropped row leaves its charge to the refund that follows.
LEMMA StepPrepareDrop ==
    ASSUME NEW r \in Reqs, RaceInv, PrepareDrop(r)
    PROVE  RaceInv'
  <1>. USE DEF RaceInv, PrepareDrop, PrepareGoto
  <1>1. TypeOK'
    BY DEF TypeOK, PoolTypeOK
  <1>2. HandlersKnow'
    BY DEF TypeOK, PoolTypeOK, HandlersKnow
  <1>3. ReportedMeansSigned'
    BY DEF TypeOK, PoolTypeOK, HandlersKnow, ReportedMeansSigned
  <1>4. ChargeIsTracked'
    BY DEF TypeOK, PoolTypeOK, HandlersKnow, ChargeIsTracked
  <1>5. /\ ConsumedPendingIsBurned'
        /\ UsedUnlessNoLock'
        /\ SpendsOwnPresign'
    BY DEF ConsumedPendingIsBurned,
           UsedUnlessNoLock, UsedIsAccountedFor, MayBeTaken,
           SpendsOwnPresign
  <1>. QED BY <1>1, <1>2, <1>3, <1>4, <1>5

\* The charge of a dropped row is given back.
LEMMA StepPrepareDropRefund ==
    ASSUME NEW r \in Reqs, RaceInv,
           PrepareDropRefund(r)
    PROVE  RaceInv'
  <1>. USE DEF RaceInv, PrepareDropRefund, refundCredits, enqueueRefill,
               PrepareGoto
  <1>1. TypeOK'
    BY DEF TypeOK, PoolTypeOK
  <1>2. HandlersKnow'
    BY DEF TypeOK, PoolTypeOK, HandlersKnow
  <1>3. ChargeIsTracked'
    BY DEF TypeOK, PoolTypeOK, HandlersKnow, ChargeIsTracked
  <1>4. /\ ConsumedPendingIsBurned'
        /\ ReportedMeansSigned'
        /\ UsedUnlessNoLock'
        /\ SpendsOwnPresign'
    BY DEF ConsumedPendingIsBurned, ReportedMeansSigned,
           UsedUnlessNoLock, UsedIsAccountedFor,
           MayBeTaken, SpendsOwnPresign
  <1>. QED BY <1>1, <1>2, <1>3, <1>4

\* The link is written once, over a null.
LEMMA StepPrepareLink ==
    ASSUME NEW r \in Reqs, RaceInv, PrepareLink(r)
    PROVE  RaceInv'
  <1>. USE DEF RaceInv, PrepareLink, PrepareGoto
  <1>1. TypeOK'
    BY DEF TypeOK, PoolTypeOK
  <1>2. HandlersKnow'
    BY DEF TypeOK, PoolTypeOK, HandlersKnow
  <1>3. ChargeIsTracked'
    BY DEF TypeOK, PoolTypeOK, HandlersKnow, ChargeIsTracked
  <1>4. SpendsOwnPresign'
    BY DEF TypeOK, PoolTypeOK, HandlersKnow, SpendsOwnPresign
  <1>5. /\ ConsumedPendingIsBurned'
        /\ ReportedMeansSigned'
        /\ UsedUnlessNoLock'
    BY DEF ConsumedPendingIsBurned, ReportedMeansSigned,
           UsedUnlessNoLock, UsedIsAccountedFor,
           MayBeTaken
  <1>. QED BY <1>1, <1>2, <1>3, <1>4, <1>5

\* Reading the bytes may quarantine the row, whatever its status was.
LEMMA StepPrepareFetch ==
    ASSUME NEW r \in Reqs, RaceInv, PrepareFetch(r)
    PROVE  RaceInv'
  <1>. USE DEF RaceInv, PrepareFetch, FetchPresignBytes, PrepareGoto,
               quarantine
  <1>1. TypeOK'
    BY DEF TypeOK, PoolTypeOK
  <1>2. HandlersKnow'
    BY DEF TypeOK, PoolTypeOK, HandlersKnow
  <1>3. ConsumedPendingIsBurned'
    BY DEF TypeOK, PoolTypeOK, HandlersKnow, ConsumedPendingIsBurned
  <1>4. UsedUnlessNoLock'
    BY OutcomesStay DEF TypeOK, PoolTypeOK, HandlersKnow,
        UsedUnlessNoLock, UsedIsAccountedFor
  <1>5. ChargeIsTracked'
    BY DEF TypeOK, PoolTypeOK, HandlersKnow, ChargeIsTracked
  <1>6. ReportedMeansSigned' /\ SpendsOwnPresign'
    BY DEF ReportedMeansSigned, SpendsOwnPresign
  <1>. QED BY <1>1, <1>2, <1>3, <1>4, <1>5, <1>6

\* A prepare call that dies leaves its charge accounted to the crash.
LEMMA StepPrepareCrash ==
    ASSUME NEW r \in Reqs, RaceInv, PrepareCrash(r)
    PROVE  RaceInv'
  <1>. USE DEF RaceInv, PrepareCrash, PrepareEnded, PrepareGoto
  <1>1. TypeOK'
    BY DEF TypeOK, PoolTypeOK
  <1>2. HandlersKnow'
    BY DEF TypeOK, PoolTypeOK, HandlersKnow
  <1>3. ChargeIsTracked'
    BY DEF TypeOK, PoolTypeOK, HandlersKnow, ChargeIsTracked
  <1>4. /\ ConsumedPendingIsBurned'
        /\ ReportedMeansSigned'
        /\ UsedUnlessNoLock'
        /\ SpendsOwnPresign'
    BY DEF ConsumedPendingIsBurned, ReportedMeansSigned,
           UsedUnlessNoLock, UsedIsAccountedFor,
           MayBeTaken, SpendsOwnPresign
  <1>. QED BY <1>1, <1>2, <1>3, <1>4

\* Submit reads a row before it overwrites it.
LEMMA StepSubmitRead ==
    ASSUME NEW s \in Submitters, NEW r \in Reqs,
           RaceInv, SubmitRead(s, r)
    PROVE  RaceInv'
  <1>. USE DEF RaceInv, SubmitRead, KnownToClient
  <1>1. TypeOK'
    BY DEF TypeOK, PoolTypeOK
  <1>2. HandlersKnow'
    BY DEF TypeOK, PoolTypeOK, HandlersKnow
  <1>3. /\ ConsumedPendingIsBurned'
        /\ ReportedMeansSigned'
        /\ UsedUnlessNoLock'
        /\ ChargeIsTracked'
        /\ SpendsOwnPresign'
    BY DEF ConsumedPendingIsBurned, ReportedMeansSigned,
           UsedUnlessNoLock, UsedIsAccountedFor,
           MayBeTaken, ChargeIsTracked, SpendsOwnPresign
  <1>. QED BY <1>1, <1>2, <1>3

\* Queueing a row again takes back what was reported, never adds to it.
LEMMA StepSubmitUpdate ==
    ASSUME NEW s \in Submitters, RaceInv,
           SubmitUpdate(s)
    PROVE  RaceInv'
  <1>. USE DEF RaceInv, SubmitUpdate, SetStatus
  <1>1. TypeOK'
    BY DEF TypeOK, PoolTypeOK
  <1>2. HandlersKnow'
    BY DEF TypeOK, PoolTypeOK, HandlersKnow
  <1>3. ReportedMeansSigned'
    BY DEF TypeOK, PoolTypeOK, HandlersKnow, ReportedMeansSigned
  <1>4. ChargeIsTracked'
    BY DEF TypeOK, PoolTypeOK, HandlersKnow, ChargeIsTracked
  <1>5. /\ ConsumedPendingIsBurned'
        /\ UsedUnlessNoLock'
        /\ SpendsOwnPresign'
    BY DEF ConsumedPendingIsBurned,
           UsedUnlessNoLock, UsedIsAccountedFor, MayBeTaken,
           SpendsOwnPresign
  <1>. QED BY <1>1, <1>2, <1>3, <1>4, <1>5

\* A further job for a request disturbs none of the others.
LEMMA StepSubmitEnqueue ==
    ASSUME NEW s \in Submitters, RaceInv,
           SubmitEnqueue(s)
    PROVE  RaceInv'
  <1>. USE DEF RaceInv, SubmitEnqueue, enqueueSignProcess, SubmitDone
  <1>1. TypeOK'
    <2>1. sreq[s] \in Reqs
      BY DEF TypeOK, HandlersKnow
    <2>2. jobs' \in [Reqs -> Nat]
      BY <2>1 DEF TypeOK
    <2>. QED BY <2>2 DEF TypeOK, PoolTypeOK
  <1>2. HandlersKnow'
    BY DEF TypeOK, PoolTypeOK, HandlersKnow
  <1>3. /\ ConsumedPendingIsBurned'
        /\ ReportedMeansSigned'
        /\ UsedUnlessNoLock'
        /\ ChargeIsTracked'
        /\ SpendsOwnPresign'
    BY DEF ConsumedPendingIsBurned, ReportedMeansSigned,
           UsedUnlessNoLock, UsedIsAccountedFor,
           MayBeTaken, ChargeIsTracked, SpendsOwnPresign
  <1>. QED BY <1>1, <1>2, <1>3

\* A submit handler that dies leaves the row as it is.
LEMMA StepSubmitCrash ==
    ASSUME NEW s \in Submitters, RaceInv,
           SubmitCrash(s)
    PROVE  RaceInv'
  <1>. USE DEF RaceInv, SubmitCrash, SubmitDone
  <1>1. TypeOK'
    BY DEF TypeOK, PoolTypeOK
  <1>2. HandlersKnow'
    BY DEF TypeOK, PoolTypeOK, HandlersKnow
  <1>3. /\ ConsumedPendingIsBurned'
        /\ ReportedMeansSigned'
        /\ UsedUnlessNoLock'
        /\ ChargeIsTracked'
        /\ SpendsOwnPresign'
    BY DEF ConsumedPendingIsBurned, ReportedMeansSigned,
           UsedUnlessNoLock, UsedIsAccountedFor,
           MayBeTaken, ChargeIsTracked, SpendsOwnPresign
  <1>. QED BY <1>1, <1>2, <1>3

\* A job that finds its row not queued only leaves the queue.
LEMMA StepWorkerDrop ==
    ASSUME NEW w \in Workers, NEW r \in Reqs, RaceInv,
           WorkerDrop(w, r)
    PROVE  RaceInv'
  <1>. USE DEF RaceInv, WorkerDrop
  <1>1. TypeOK'
    BY DEF TypeOK, PoolTypeOK
  <1>2. /\ HandlersKnow'
        /\ ConsumedPendingIsBurned'
        /\ ReportedMeansSigned'
        /\ UsedUnlessNoLock'
        /\ ChargeIsTracked'
        /\ SpendsOwnPresign'
    BY DEF HandlersKnow, ConsumedPendingIsBurned, ReportedMeansSigned,
           UsedUnlessNoLock, UsedIsAccountedFor, MayBeTaken, ChargeIsTracked,
           SpendsOwnPresign
  <1>. QED BY <1>1, <1>2

\* The worker starts from what the row says.
LEMMA StepWorkerRead ==
    ASSUME NEW w \in Workers, NEW r \in Reqs, RaceInv,
           WorkerRead(w, r)
    PROVE  RaceInv'
  <1>. USE DEF RaceInv, WorkerRead
  <1>1. TypeOK'
    BY DEF TypeOK, PoolTypeOK
  <1>2. HandlersKnow'
    BY DEF TypeOK, PoolTypeOK, HandlersKnow
  <1>3. /\ ConsumedPendingIsBurned'
        /\ ReportedMeansSigned'
        /\ UsedUnlessNoLock'
        /\ ChargeIsTracked'
        /\ SpendsOwnPresign'
    BY DEF ConsumedPendingIsBurned, ReportedMeansSigned,
           UsedUnlessNoLock, UsedIsAccountedFor,
           MayBeTaken, ChargeIsTracked, SpendsOwnPresign
  <1>. QED BY <1>1, <1>2, <1>3

\* Giving up before execute touches nothing.
LEMMA StepWorkerAbandon ==
    ASSUME NEW w \in Workers, RaceInv,
           WorkerAbandon(w)
    PROVE  RaceInv'
  <1>. USE DEF RaceInv, WorkerAbandon, WorkerGoto
  <1>1. TypeOK'
    BY DEF TypeOK, PoolTypeOK
  <1>2. HandlersKnow'
    BY DEF TypeOK, PoolTypeOK, HandlersKnow
  <1>3. /\ ConsumedPendingIsBurned'
        /\ ReportedMeansSigned'
        /\ UsedUnlessNoLock'
        /\ ChargeIsTracked'
        /\ SpendsOwnPresign'
    BY DEF ConsumedPendingIsBurned, ReportedMeansSigned,
           UsedUnlessNoLock, UsedIsAccountedFor,
           MayBeTaken, ChargeIsTracked, SpendsOwnPresign
  <1>. QED BY <1>1, <1>2, <1>3

\* The transaction takes the request's own cap, which nobody had taken.
LEMMA StepWorkerExecuted ==
    ASSUME NEW w \in Workers, RaceInv,
           WorkerExecuted(w)
    PROVE  RaceInv'
  <1>. USE DEF RaceInv, WorkerExecuted, Burn, WorkerGoto
  <1>1. TypeOK'
    BY DEF TypeOK, PoolTypeOK
  <1>2. HandlersKnow'
    <2>1. /\ wreq[w] \in Reqs /\ wcap[w] \in Caps
          /\ burner[wcap[w]] = None
      BY WorkerServes, WorkerHolds DEF TypeOK, PoolTypeOK, HandlersKnow
    <2>2. ASSUME NEW v \in Workers, wpc'[v] \in PastExecute
          PROVE  burner'[wcap[v]] = wreq[v]
      <3>1. CASE v = w
        BY <2>1, <3>1 DEF TypeOK, PoolTypeOK
      <3>2. CASE v # w
        <4>1. wpc[v] = wpc'[v]
          BY <3>2 DEF TypeOK
        <4>2. burner[wcap[v]] = wreq[v] /\ wreq[v] # None
          BY <2>2, <4>1 DEF HandlersKnow
        <4>. QED BY <2>1, <4>2 DEF TypeOK, PoolTypeOK
      <3>. QED BY <3>1, <3>2
    <2>3. \A v \in Workers : wpc'[v] = "retire" =>
             \/ burner'[wcap[v]] = wreq[v]
             \/ <<wreq[v], wcap[v]>> \in unknownTx
             \/ LockTimesOut
      BY <2>1 DEF TypeOK, PoolTypeOK, HandlersKnow
    <2>4. \A c \in Caps : chain'[c] = "burned" <=> burner'[c] # None
      BY <2>1 DEF TypeOK, PoolTypeOK, HandlersKnow
    <2>5. ASSUME NEW v \in Workers
          PROVE  /\ wpc'[v] # "idle" => wreq[v] # None
                 /\ wpc'[v] \notin {"idle", "fail", "refund"}
                       => wcap[v] # None /\ wcap[v] = presignOf[wreq[v]]
      <3>1. CASE v = w
        BY <2>1, <3>1, WorkerHolds DEF TypeOK
      <3>2. CASE v # w
        <4>1. wpc[v] = wpc'[v]
          BY <3>2 DEF TypeOK
        <4>. QED BY <4>1 DEF HandlersKnow
      <3>. QED BY <3>1, <3>2
    <2>. QED BY <2>2, <2>3, <2>4, <2>5 DEF TypeOK, HandlersKnow
  <1>3. ConsumedPendingIsBurned'
    BY DEF TypeOK, PoolTypeOK, HandlersKnow, ConsumedPendingIsBurned
  <1>4. ReportedMeansSigned'
    BY DEF TypeOK, PoolTypeOK, HandlersKnow, ReportedMeansSigned
  <1>5. UsedUnlessNoLock'
    BY OutcomesStay DEF TypeOK, PoolTypeOK, HandlersKnow,
        UsedUnlessNoLock, UsedIsAccountedFor
  <1>6. SpendsOwnPresign'
    BY WorkerServes, WorkerHolds DEF TypeOK, PoolTypeOK, SpendsOwnPresign
  <1>7. ChargeIsTracked'
    BY DEF ChargeIsTracked
  <1>. QED BY <1>1, <1>2, <1>3, <1>4, <1>5, <1>6, <1>7

\* A transaction that did not run took nothing.
LEMMA StepWorkerNotExecuted ==
    ASSUME NEW w \in Workers, RaceInv,
           WorkerNotExecuted(w)
    PROVE  RaceInv'
  <1>. USE DEF RaceInv, WorkerNotExecuted, WorkerThrows
  <1>1. TypeOK'
    BY DEF TypeOK, PoolTypeOK
  <1>2. HandlersKnow'
    BY DEF TypeOK, PoolTypeOK, HandlersKnow
  <1>3. /\ ConsumedPendingIsBurned'
        /\ ReportedMeansSigned'
        /\ UsedUnlessNoLock'
        /\ ChargeIsTracked'
        /\ SpendsOwnPresign'
    BY DEF ConsumedPendingIsBurned, ReportedMeansSigned,
           UsedUnlessNoLock, UsedIsAccountedFor,
           MayBeTaken, ChargeIsTracked, SpendsOwnPresign
  <1>. QED BY <1>1, <1>2, <1>3

\* A transaction nobody heard back from is remembered.
LEMMA StepWorkerUnknown ==
    ASSUME NEW w \in Workers, RaceInv,
           WorkerUnknown(w)
    PROVE  RaceInv'
  <1>. USE DEF RaceInv, WorkerUnknown, WorkerThrows
  <1>1. TypeOK'
    <2>1. unknownTx' \subseteq Reqs \X Caps
      BY WorkerServes, WorkerHolds DEF TypeOK
    <2>. QED BY <2>1 DEF TypeOK, PoolTypeOK
  <1>2. HandlersKnow'
    <2>1. wreq[w] \in Reqs /\ wcap[w] \in Caps /\ presignOf[wreq[w]] = wcap[w]
      BY WorkerServes, WorkerHolds
    <2>2. \A r \in Reqs, c \in Caps :
             <<r, c>> \in unknownTx' => presignOf[r] = c
      BY <2>1 DEF HandlersKnow
    <2>3. \A v \in Workers : wpc'[v] = "retire" =>
             \/ burner[wcap[v]] = wreq[v]
             \/ <<wreq[v], wcap[v]>> \in unknownTx'
             \/ LockTimesOut
      BY <2>1 DEF TypeOK, HandlersKnow
    <2>4. ASSUME NEW v \in Workers
          PROVE  /\ wpc'[v] # "idle" => wreq[v] # None
                 /\ wpc'[v] \notin {"idle", "fail", "refund"}
                       => wcap[v] # None /\ wcap[v] = presignOf[wreq[v]]
                 /\ wpc'[v] \in PastExecute => burner[wcap[v]] = wreq[v]
      <3>1. CASE v = w
        BY <2>1, <3>1, WorkerHolds DEF TypeOK
      <3>2. CASE v # w
        <4>1. wpc[v] = wpc'[v]
          BY <3>2 DEF TypeOK
        <4>. QED BY <4>1 DEF HandlersKnow
      <3>. QED BY <3>1, <3>2
    <2>. QED BY <2>2, <2>3, <2>4 DEF TypeOK, HandlersKnow
  <1>3. UsedUnlessNoLock'
    BY OutcomesStay DEF TypeOK, PoolTypeOK, HandlersKnow,
        UsedUnlessNoLock, UsedIsAccountedFor
  <1>4. /\ ConsumedPendingIsBurned'
        /\ ReportedMeansSigned'
        /\ ChargeIsTracked'
        /\ SpendsOwnPresign'
    BY DEF ConsumedPendingIsBurned, ReportedMeansSigned, ChargeIsTracked,
           SpendsOwnPresign
  <1>. QED BY <1>1, <1>2, <1>3, <1>4

\* A worker that never got the lock sent nothing.
LEMMA StepWorkerNoLock ==
    ASSUME NEW w \in Workers, RaceInv,
           WorkerNoLock(w)
    PROVE  RaceInv'
  <1>. USE DEF RaceInv, WorkerNoLock, WorkerThrows
  <1>1. TypeOK'
    BY DEF TypeOK, PoolTypeOK
  <1>2. HandlersKnow'
    BY DEF TypeOK, PoolTypeOK, HandlersKnow
  <1>3. /\ ConsumedPendingIsBurned'
        /\ ReportedMeansSigned'
        /\ UsedUnlessNoLock'
        /\ ChargeIsTracked'
        /\ SpendsOwnPresign'
    BY DEF ConsumedPendingIsBurned, ReportedMeansSigned, UsedUnlessNoLock,
           ChargeIsTracked, SpendsOwnPresign
  <1>. QED BY <1>1, <1>2, <1>3

\* Re-readying a row reports nothing.
LEMMA StepWorkerRollback ==
    ASSUME NEW w \in Workers, RaceInv,
           WorkerRollback(w)
    PROVE  RaceInv'
  <1>. USE DEF RaceInv, WorkerRollback, rollbackToReady, WorkerGoto
  <1>1. TypeOK'
    BY DEF TypeOK, PoolTypeOK
  <1>2. HandlersKnow'
    BY DEF TypeOK, PoolTypeOK, HandlersKnow
  <1>3. ConsumedPendingIsBurned'
    BY DEF TypeOK, PoolTypeOK, HandlersKnow, ConsumedPendingIsBurned
  <1>4. UsedUnlessNoLock'
    BY OutcomesStay DEF TypeOK, PoolTypeOK, HandlersKnow,
        UsedUnlessNoLock, UsedIsAccountedFor
  <1>5. /\ ReportedMeansSigned'
        /\ ChargeIsTracked'
        /\ SpendsOwnPresign'
    BY DEF ReportedMeansSigned, ChargeIsTracked, SpendsOwnPresign
  <1>. QED BY <1>1, <1>2, <1>3, <1>4, <1>5

\* A row is retired when its cap is gone or may be.
LEMMA StepWorkerRetire ==
    ASSUME NEW w \in Workers, RaceInv,
           WorkerRetire(w)
    PROVE  RaceInv'
  <1>. USE DEF RaceInv, WorkerRetire, markUsed, WorkerGoto
  <1>1. TypeOK'
    BY DEF TypeOK, PoolTypeOK
  <1>2. HandlersKnow'
    BY DEF TypeOK, PoolTypeOK, HandlersKnow
  <1>3. ConsumedPendingIsBurned'
    BY DEF TypeOK, PoolTypeOK, HandlersKnow, ConsumedPendingIsBurned
  <1>4. UsedUnlessNoLock'
    <2>1. LockTimesOut \/ chain[wcap[w]] = "burned" \/ MayBeTaken(wcap[w])
      BY WorkerServes, WorkerHolds DEF TypeOK, HandlersKnow, MayBeTaken
    <2>. QED
      BY <2>1, OutcomesStay, WorkerHolds
      DEF TypeOK, PoolTypeOK, UsedUnlessNoLock, UsedIsAccountedFor
  <1>5. /\ ReportedMeansSigned'
        /\ ChargeIsTracked'
        /\ SpendsOwnPresign'
    BY DEF ReportedMeansSigned, ChargeIsTracked, SpendsOwnPresign
  <1>. QED BY <1>1, <1>2, <1>3, <1>4, <1>5

\* consumed_pending is written after the cap is gone.
LEMMA StepWorkerConsumed ==
    ASSUME NEW w \in Workers, RaceInv,
           WorkerConsumed(w)
    PROVE  RaceInv'
  <1>. USE DEF RaceInv, WorkerConsumed, markConsumedPending, WorkerGoto
  <1>1. TypeOK'
    BY DEF TypeOK, PoolTypeOK
  <1>2. HandlersKnow'
    BY DEF TypeOK, PoolTypeOK, HandlersKnow
  <1>3. ConsumedPendingIsBurned'
    <2>1. wcap[w] \in Caps /\ chain[wcap[w]] = "burned"
      BY WorkerServes, WorkerHolds DEF TypeOK, HandlersKnow
    <2>. QED
      BY <2>1 DEF TypeOK, PoolTypeOK, ConsumedPendingIsBurned
  <1>4. UsedUnlessNoLock'
    BY OutcomesStay DEF TypeOK, PoolTypeOK, HandlersKnow,
        UsedUnlessNoLock, UsedIsAccountedFor
  <1>5. /\ ReportedMeansSigned'
        /\ ChargeIsTracked'
        /\ SpendsOwnPresign'
    BY DEF ReportedMeansSigned, ChargeIsTracked, SpendsOwnPresign
  <1>. QED BY <1>1, <1>2, <1>3, <1>4, <1>5

\* submitted is written after the cap is gone.
LEMMA StepWorkerSubmitted ==
    ASSUME NEW w \in Workers, RaceInv,
           WorkerSubmitted(w)
    PROVE  RaceInv'
  <1>. USE DEF RaceInv, WorkerSubmitted, SetStatus, WorkerGoto
  <1>1. TypeOK'
    BY ZenonT(60) DEF TypeOK, PoolTypeOK
  <1>2. HandlersKnow'
    BY DEF TypeOK, PoolTypeOK, HandlersKnow
  <1>3. ReportedMeansSigned'
    <2>1. wreq[w] \in Reqs /\ wcap[w] \in Caps /\ burner[wcap[w]] = wreq[w]
      BY WorkerServes, WorkerHolds DEF TypeOK, HandlersKnow
    <2>. QED BY <2>1 DEF TypeOK, ReportedMeansSigned
  <1>4. ChargeIsTracked'
    BY DEF TypeOK, PoolTypeOK, HandlersKnow, ChargeIsTracked
  <1>5. /\ ConsumedPendingIsBurned'
        /\ UsedUnlessNoLock'
        /\ SpendsOwnPresign'
    BY DEF ConsumedPendingIsBurned,
           UsedUnlessNoLock, UsedIsAccountedFor, MayBeTaken,
           SpendsOwnPresign
  <1>. QED BY <1>1, <1>2, <1>3, <1>4, <1>5

\* Waiting for the coordinator touches nothing.
LEMMA StepWorkerPoll ==
    ASSUME NEW w \in Workers, RaceInv, WorkerPoll(w)
    PROVE  RaceInv'
  <1>. USE DEF RaceInv, WorkerPoll, WorkerGoto, WorkerThrows
  <1>1. TypeOK'
    BY ZenonT(60) DEF TypeOK, PoolTypeOK
  <1>2. HandlersKnow'
    BY DEF TypeOK, PoolTypeOK, HandlersKnow
  <1>3. /\ ConsumedPendingIsBurned'
        /\ ReportedMeansSigned'
        /\ UsedUnlessNoLock'
        /\ ChargeIsTracked'
        /\ SpendsOwnPresign'
    BY DEF ConsumedPendingIsBurned, ReportedMeansSigned,
           UsedUnlessNoLock, UsedIsAccountedFor,
           MayBeTaken, ChargeIsTracked, SpendsOwnPresign
  <1>. QED BY <1>1, <1>2, <1>3

\* A signed request's presign is retired after its cap is gone.
LEMMA StepWorkerUsed ==
    ASSUME NEW w \in Workers, RaceInv, WorkerUsed(w)
    PROVE  RaceInv'
  <1>. USE DEF RaceInv, WorkerUsed, markUsed, WorkerGoto
  <1>1. TypeOK'
    BY DEF TypeOK, PoolTypeOK
  <1>2. HandlersKnow'
    BY DEF TypeOK, PoolTypeOK, HandlersKnow
  <1>3. ConsumedPendingIsBurned'
    BY DEF TypeOK, PoolTypeOK, HandlersKnow, ConsumedPendingIsBurned
  <1>4. UsedUnlessNoLock'
    <2>1. wcap[w] \in Caps /\ chain[wcap[w]] = "burned"
      BY WorkerServes, WorkerHolds DEF TypeOK, HandlersKnow
    <2>. QED
      BY <2>1, OutcomesStay DEF TypeOK, PoolTypeOK,
           UsedUnlessNoLock, UsedIsAccountedFor
  <1>5. /\ ReportedMeansSigned'
        /\ ChargeIsTracked'
        /\ SpendsOwnPresign'
    BY DEF ReportedMeansSigned, ChargeIsTracked, SpendsOwnPresign
  <1>. QED BY <1>1, <1>2, <1>3, <1>4, <1>5

\* completed is written by a worker whose transaction landed.
LEMMA StepWorkerComplete ==
    ASSUME NEW w \in Workers, RaceInv,
           WorkerComplete(w)
    PROVE  RaceInv'
  <1>. USE DEF RaceInv, WorkerComplete, SetStatus, enqueueRefill,
               WorkerFinish, WorkerIdle, requeue
  <1>1. TypeOK'
    <2>1. wreq[w] \in Reqs
      BY WorkerServes
    <2>2. jobs' \in [Reqs -> Nat] /\ retries' \in [Reqs -> 0 .. RetryLimit]
      BY <2>1 DEF TypeOK
    <2>3. status' \in [Reqs -> Statuses] /\ overdue' \subseteq Reqs
      BY DEF TypeOK
    <2>4. /\ wpc' \in [Workers -> WorkerPcs]
          /\ wreq' \in [Workers -> Reqs \cup {None}]
          /\ wcap' \in [Workers -> Caps \cup {None}]
          /\ wthrow' \in [Workers -> BOOLEAN]
      BY DEF TypeOK
    <2>. QED BY <2>2, <2>3, <2>4 DEF TypeOK, PoolTypeOK
  <1>2. HandlersKnow'
    BY DEF TypeOK, PoolTypeOK, HandlersKnow
  <1>3. ReportedMeansSigned'
    <2>1. wreq[w] \in Reqs /\ wcap[w] \in Caps /\ burner[wcap[w]] = wreq[w]
      BY WorkerServes, WorkerHolds DEF TypeOK, HandlersKnow
    <2>. QED BY <2>1 DEF TypeOK, ReportedMeansSigned
  <1>4. ChargeIsTracked'
    BY DEF TypeOK, PoolTypeOK, HandlersKnow, ChargeIsTracked
  <1>5. /\ ConsumedPendingIsBurned'
        /\ UsedUnlessNoLock'
        /\ SpendsOwnPresign'
    BY DEF ConsumedPendingIsBurned,
           UsedUnlessNoLock, UsedIsAccountedFor, MayBeTaken,
           SpendsOwnPresign
  <1>. QED BY <1>1, <1>2, <1>3, <1>4, <1>5

\* Failing a row reports nothing as signed and keeps its charge tracked.
LEMMA StepWorkerFail ==
    ASSUME NEW w \in Workers, RaceInv, WorkerFail(w)
    PROVE  RaceInv'
  <1>. USE DEF RaceInv, WorkerFail, SetStatus, WorkerFinish, WorkerGoto,
               WorkerIdle, requeue
  <1>1. TypeOK'
    <2>1. wreq[w] \in Reqs
      BY WorkerServes
    <2>2. jobs' \in [Reqs -> Nat] /\ retries' \in [Reqs -> 0 .. RetryLimit]
      BY <2>1 DEF TypeOK
    <2>3. status' \in [Reqs -> Statuses] /\ overdue' \subseteq Reqs
      BY DEF TypeOK
    <2>4. /\ wpc' \in [Workers -> WorkerPcs]
          /\ wreq' \in [Workers -> Reqs \cup {None}]
          /\ wcap' \in [Workers -> Caps \cup {None}]
          /\ wthrow' \in [Workers -> BOOLEAN]
      <3>1. CASE status[wreq[w]] = "none"
        <4>1. WorkerIdle(w)
          BY <3>1
        <4>. QED BY <4>1 DEF TypeOK, WorkerPcs
      <3>2. CASE status[wreq[w]] # "none"
        <4>1. WorkerGoto(w, "refund")
          BY <3>2
        <4>. QED BY <4>1 DEF TypeOK, WorkerPcs
      <3>. QED BY <3>1, <3>2
    <2>. QED BY <2>2, <2>3, <2>4 DEF TypeOK, PoolTypeOK
  <1>2. HandlersKnow'
    BY DEF TypeOK, PoolTypeOK, HandlersKnow
  <1>3. ReportedMeansSigned'
    BY DEF TypeOK, PoolTypeOK, HandlersKnow, ReportedMeansSigned
  <1>4. ChargeIsTracked'
    BY DEF TypeOK, PoolTypeOK, HandlersKnow, ChargeIsTracked
  <1>5. /\ ConsumedPendingIsBurned'
        /\ UsedUnlessNoLock'
        /\ SpendsOwnPresign'
    BY DEF ConsumedPendingIsBurned,
           UsedUnlessNoLock, UsedIsAccountedFor, MayBeTaken,
           SpendsOwnPresign
  <1>. QED BY <1>1, <1>2, <1>3, <1>4, <1>5

\* The refund of a failed request closes its charge.
LEMMA StepWorkerRefund ==
    ASSUME NEW w \in Workers, RaceInv,
           WorkerRefund(w)
    PROVE  RaceInv'
  <1>. USE DEF RaceInv, WorkerRefund, refundCredits, WorkerFinish, WorkerIdle,
               requeue
  <1>1. TypeOK'
    BY DEF TypeOK, PoolTypeOK
  <1>2. HandlersKnow'
    BY DEF TypeOK, PoolTypeOK, HandlersKnow
  <1>3. ChargeIsTracked'
    BY DEF TypeOK, PoolTypeOK, HandlersKnow, ChargeIsTracked
  <1>4. /\ ConsumedPendingIsBurned'
        /\ ReportedMeansSigned'
        /\ UsedUnlessNoLock'
        /\ SpendsOwnPresign'
    BY DEF ConsumedPendingIsBurned, ReportedMeansSigned,
           UsedUnlessNoLock, UsedIsAccountedFor,
           MayBeTaken, SpendsOwnPresign
  <1>. QED BY <1>1, <1>2, <1>3, <1>4

\* A worker that dies leaves a job within the retry limit.
LEMMA StepWorkerCrash ==
    ASSUME NEW w \in Workers, RaceInv, WorkerCrash(w)
    PROVE  RaceInv'
  <1>. USE DEF RaceInv, WorkerCrash, WorkerIdle, requeue
  <1>1. TypeOK'
    BY DEF TypeOK, PoolTypeOK
  <1>2. HandlersKnow'
    BY DEF TypeOK, PoolTypeOK, HandlersKnow
  <1>3. /\ ConsumedPendingIsBurned'
        /\ ReportedMeansSigned'
        /\ UsedUnlessNoLock'
        /\ ChargeIsTracked'
        /\ SpendsOwnPresign'
    BY DEF ConsumedPendingIsBurned, ReportedMeansSigned,
           UsedUnlessNoLock, UsedIsAccountedFor,
           MayBeTaken, ChargeIsTracked, SpendsOwnPresign
  <1>. QED BY <1>1, <1>2, <1>3

\* A late transaction takes the cap its request named.
LEMMA StepLateLanding ==
    ASSUME NEW r \in Reqs, NEW c \in Caps, RaceInv,
           LateLanding(r, c)
    PROVE  RaceInv'
  <1>. USE DEF RaceInv, LateLanding, Burn
  <1>1. TypeOK'
    BY DEF TypeOK, PoolTypeOK
  <1>2. HandlersKnow'
    BY DEF TypeOK, PoolTypeOK, HandlersKnow
  <1>3. ConsumedPendingIsBurned'
    BY DEF TypeOK, PoolTypeOK, HandlersKnow, ConsumedPendingIsBurned
  <1>4. ReportedMeansSigned'
    BY DEF TypeOK, PoolTypeOK, HandlersKnow, ReportedMeansSigned
  <1>5. UsedUnlessNoLock'
    BY OutcomesStay DEF TypeOK, PoolTypeOK, HandlersKnow,
        UsedUnlessNoLock, UsedIsAccountedFor
  <1>6. SpendsOwnPresign'
    BY DEF TypeOK, PoolTypeOK, HandlersKnow, SpendsOwnPresign
  <1>7. ChargeIsTracked'
    BY DEF ChargeIsTracked
  <1>. QED BY <1>1, <1>2, <1>3, <1>4, <1>5, <1>6, <1>7

\* classify only reads.
LEMMA StepReconcileClassify ==
    ASSUME NEW r \in Reqs, NEW c \in Caps, RaceInv,
           ReconcileClassify(r, c)
    PROVE  RaceInv'
  <1>. USE DEF RaceInv, ReconcileClassify
  <1>1. TypeOK'
    BY DEF TypeOK, PoolTypeOK
  <1>2. HandlersKnow'
    BY DEF HandlersKnow
  <1>3. /\ ConsumedPendingIsBurned'
        /\ ReportedMeansSigned'
        /\ UsedUnlessNoLock'
        /\ ChargeIsTracked'
        /\ SpendsOwnPresign'
    BY DEF ConsumedPendingIsBurned, ReportedMeansSigned, UsedUnlessNoLock,
           UsedIsAccountedFor, MayBeTaken, ChargeIsTracked, SpendsOwnPresign
  <1>. QED BY <1>1, <1>2, <1>3

\* A reconciled row is ready, whoever holds its presign.
LEMMA StepReconcileApply ==
    ASSUME RaceInv, ReconcileApply
    PROVE  RaceInv'
  <1>. USE DEF RaceInv, ReconcileApply, rollbackToReady
  <1>1. recon \in Caps
    BY DEF TypeOK
  <1>2. TypeOK'
    BY <1>1 DEF TypeOK, PoolTypeOK
  <1>3. ConsumedPendingIsBurned'
    BY <1>1 DEF TypeOK, PoolTypeOK, ConsumedPendingIsBurned
  <1>4. UsedUnlessNoLock'
    BY <1>1, OutcomesStay DEF TypeOK, PoolTypeOK, UsedUnlessNoLock,
       UsedIsAccountedFor
  <1>5. /\ HandlersKnow'
        /\ ReportedMeansSigned'
        /\ ChargeIsTracked'
        /\ SpendsOwnPresign'
    BY DEF HandlersKnow, ReportedMeansSigned, ChargeIsTracked,
           SpendsOwnPresign
  <1>. QED BY <1>2, <1>3, <1>4, <1>5

\* The sweep's snapshot only reads.
LEMMA StepSweepSelect ==
    ASSUME RaceInv, SweepSelect
    PROVE  RaceInv'
  <1>. USE DEF RaceInv, SweepSelect, StuckPrepared
  <1>1. TypeOK'
    BY DEF TypeOK, PoolTypeOK
  <1>2. /\ HandlersKnow'
        /\ ConsumedPendingIsBurned'
        /\ ReportedMeansSigned'
        /\ UsedUnlessNoLock'
        /\ ChargeIsTracked'
        /\ SpendsOwnPresign'
    BY DEF HandlersKnow, ConsumedPendingIsBurned, ReportedMeansSigned,
           UsedUnlessNoLock, UsedIsAccountedFor, MayBeTaken, ChargeIsTracked,
           SpendsOwnPresign
  <1>. QED BY <1>1, <1>2

\* Re-readying a swept row reports nothing.
LEMMA StepSweepRollback ==
    ASSUME NEW r \in Reqs,
           NEW c \in Caps \cup {None}, RaceInv, SweepRollback(r, c)
    PROVE  RaceInv'
  <1>1. TypeOK'
    <2>. USE DEF SweepRollback
    <2>. TypeOK /\ PoolTypeOK
      BY DEF RaceInv, TypeOK
    <2>1. /\ row' \in [Caps -> RowStates] /\ holder' \in [Caps -> Reqs \cup {None}]
          /\ stamp' \in [Caps -> {"null", "fresh", "old"}]
      <3>1. CASE c = None
        BY <3>1 DEF PoolTypeOK
      <3>2. CASE c # None
        BY <3>2 DEF PoolTypeOK, rollbackToReady
      <3>. QED BY <3>1, <3>2
    <2>2. sweepTodo' \subseteq Pairs
      BY DEF TypeOK
    <2>. QED BY <2>1, <2>2 DEF TypeOK, PoolTypeOK
  <1>. USE DEF RaceInv, SweepRollback, rollbackToReady
  <1>2. HandlersKnow'
    BY DEF TypeOK, PoolTypeOK, HandlersKnow
  <1>3. ConsumedPendingIsBurned'
    BY DEF TypeOK, PoolTypeOK, HandlersKnow, ConsumedPendingIsBurned
  <1>4. UsedUnlessNoLock'
    BY OutcomesStay DEF TypeOK, PoolTypeOK, HandlersKnow,
        UsedUnlessNoLock, UsedIsAccountedFor
  <1>5. /\ ReportedMeansSigned'
        /\ ChargeIsTracked'
        /\ SpendsOwnPresign'
    BY DEF ReportedMeansSigned, ChargeIsTracked, SpendsOwnPresign
  <1>. QED BY <1>1, <1>2, <1>3, <1>4, <1>5

\* Failing a swept row reports nothing as signed.
LEMMA StepSweepFail ==
    ASSUME RaceInv, SweepFail
    PROVE  RaceInv'
  <1>. USE DEF RaceInv, SweepFail, SetStatus, SweepNext
  <1>1. TypeOK'
    BY DEF TypeOK, PoolTypeOK
  <1>2. HandlersKnow'
    BY DEF TypeOK, PoolTypeOK, HandlersKnow
  <1>3. ReportedMeansSigned'
    BY DEF TypeOK, PoolTypeOK, HandlersKnow, ReportedMeansSigned
  <1>4. ChargeIsTracked'
    BY DEF TypeOK, PoolTypeOK, HandlersKnow, ChargeIsTracked
  <1>5. /\ ConsumedPendingIsBurned'
        /\ UsedUnlessNoLock'
        /\ SpendsOwnPresign'
    BY DEF ConsumedPendingIsBurned,
           UsedUnlessNoLock, UsedIsAccountedFor, MayBeTaken,
           SpendsOwnPresign
  <1>. QED BY <1>1, <1>2, <1>3, <1>4, <1>5

\* The refund of a swept request closes its charge.
LEMMA StepSweepRefund ==
    ASSUME RaceInv, SweepRefund
    PROVE  RaceInv'
  <1>. USE DEF RaceInv, SweepRefund, refundCredits, SweepNext
  <1>1. TypeOK'
    BY DEF TypeOK, PoolTypeOK
  <1>2. HandlersKnow'
    BY DEF TypeOK, PoolTypeOK, HandlersKnow
  <1>3. ChargeIsTracked'
    BY DEF TypeOK, PoolTypeOK, HandlersKnow, ChargeIsTracked
  <1>4. /\ ConsumedPendingIsBurned'
        /\ ReportedMeansSigned'
        /\ UsedUnlessNoLock'
        /\ SpendsOwnPresign'
    BY DEF ConsumedPendingIsBurned, ReportedMeansSigned,
           UsedUnlessNoLock, UsedIsAccountedFor,
           MayBeTaken, SpendsOwnPresign
  <1>. QED BY <1>1, <1>2, <1>3, <1>4

\* A sweep that dies leaves the rows as they are.
LEMMA StepSweepCrash ==
    ASSUME RaceInv, SweepCrash
    PROVE  RaceInv'
  <1>. USE DEF RaceInv, SweepCrash, SweepNext
  <1>1. TypeOK'
    BY DEF TypeOK, PoolTypeOK
  <1>2. HandlersKnow'
    BY DEF TypeOK, PoolTypeOK, HandlersKnow
  <1>3. /\ ConsumedPendingIsBurned'
        /\ ReportedMeansSigned'
        /\ UsedUnlessNoLock'
        /\ ChargeIsTracked'
        /\ SpendsOwnPresign'
    BY DEF ConsumedPendingIsBurned, ReportedMeansSigned,
           UsedUnlessNoLock, UsedIsAccountedFor,
           MayBeTaken, ChargeIsTracked, SpendsOwnPresign
  <1>. QED BY <1>1, <1>2, <1>3

\* Time alone moves no row.
LEMMA StepTtlPasses ==
    ASSUME RaceInv, TtlPasses
    PROVE  RaceInv'
  <1>. USE DEF RaceInv, TtlPasses, StampsAge
  <1>1. TypeOK'
    BY DEF TypeOK, PoolTypeOK
  <1>2. /\ HandlersKnow'
        /\ ConsumedPendingIsBurned'
        /\ ReportedMeansSigned'
        /\ UsedUnlessNoLock'
        /\ ChargeIsTracked'
        /\ SpendsOwnPresign'
    BY DEF HandlersKnow, ConsumedPendingIsBurned, ReportedMeansSigned,
           UsedUnlessNoLock, UsedIsAccountedFor, MayBeTaken, ChargeIsTracked,
           SpendsOwnPresign
  <1>. QED BY <1>1, <1>2

\* Re-readying an expired row reports nothing.
LEMMA StepSweepRescue ==
    ASSUME RaceInv, sweepRescue, RequestsIdle
    PROVE  RaceInv'
  <1>. USE DEF RaceInv, sweepRescue, Rescued, Expired, RequestsIdle
  <1>1. TypeOK'
    BY DEF TypeOK, PoolTypeOK
  <1>2. ConsumedPendingIsBurned'
    BY DEF TypeOK, PoolTypeOK, HandlersKnow, ConsumedPendingIsBurned
  <1>3. UsedUnlessNoLock'
    BY OutcomesStay DEF TypeOK, PoolTypeOK, HandlersKnow,
        UsedUnlessNoLock, UsedIsAccountedFor
  <1>4. /\ HandlersKnow'
        /\ ReportedMeansSigned'
        /\ ChargeIsTracked'
        /\ SpendsOwnPresign'
    BY DEF HandlersKnow, ReportedMeansSigned, ChargeIsTracked,
           SpendsOwnPresign
  <1>. QED BY <1>1, <1>2, <1>3, <1>4

\* Parking a spent row reports nothing.
LEMMA StepSweepPark ==
    ASSUME RaceInv, sweepPark, RequestsIdle
    PROVE  RaceInv'
  <1>. USE DEF RaceInv, sweepPark, Parked, Expired, RequestsIdle
  <1>1. TypeOK'
    BY DEF TypeOK, PoolTypeOK
  <1>2. ConsumedPendingIsBurned'
    BY DEF TypeOK, PoolTypeOK, HandlersKnow, ConsumedPendingIsBurned
  <1>3. UsedUnlessNoLock'
    BY OutcomesStay DEF TypeOK, PoolTypeOK, HandlersKnow,
        UsedUnlessNoLock, UsedIsAccountedFor
  <1>4. /\ HandlersKnow'
        /\ ReportedMeansSigned'
        /\ ChargeIsTracked'
        /\ SpendsOwnPresign'
    BY DEF HandlersKnow, ReportedMeansSigned, ChargeIsTracked,
           SpendsOwnPresign
  <1>. QED BY <1>1, <1>2, <1>3, <1>4

\* The promotion's snapshot only reads.
LEMMA StepPromoteSelect ==
    ASSUME NEW x \in Sweepers, RaceInv,
           promoteSelect(x), RequestsIdle
    PROVE  RaceInv'
  <1>. USE DEF RaceInv, promoteSelect, RequestsIdle
  <1>1. TypeOK'
    BY DEF TypeOK, PoolTypeOK
  <1>2. /\ HandlersKnow'
        /\ ConsumedPendingIsBurned'
        /\ ReportedMeansSigned'
        /\ UsedUnlessNoLock'
        /\ ChargeIsTracked'
        /\ SpendsOwnPresign'
    BY DEF HandlersKnow, ConsumedPendingIsBurned, ReportedMeansSigned,
           UsedUnlessNoLock, UsedIsAccountedFor, MayBeTaken, ChargeIsTracked,
           SpendsOwnPresign
  <1>. QED BY <1>1, <1>2

\* Looking at a pending row only reads.
LEMMA StepPromoteCheck ==
    ASSUME NEW x \in Sweepers, NEW c \in Caps,
           RaceInv, promoteCheck(x, c), RequestsIdle
    PROVE  RaceInv'
  <1>. USE DEF RaceInv, promoteCheck, RequestsIdle
  <1>1. TypeOK'
    BY DEF TypeOK, PoolTypeOK
  <1>2. /\ HandlersKnow'
        /\ ConsumedPendingIsBurned'
        /\ ReportedMeansSigned'
        /\ UsedUnlessNoLock'
        /\ ChargeIsTracked'
        /\ SpendsOwnPresign'
    BY DEF HandlersKnow, ConsumedPendingIsBurned, ReportedMeansSigned,
           UsedUnlessNoLock, UsedIsAccountedFor, MayBeTaken, ChargeIsTracked,
           SpendsOwnPresign
  <1>. QED BY <1>1, <1>2

\* Promotion marks no row used or consumed_pending.
LEMMA StepPromoteWrite ==
    ASSUME NEW x \in Sweepers, RaceInv,
           promoteWrite(x), RequestsIdle
    PROVE  RaceInv'
  <1>. USE DEF RaceInv, promoteWrite, RequestsIdle
  <1>1. TypeOK'
    BY DEF TypeOK, PoolTypeOK
  <1>2. ConsumedPendingIsBurned'
    BY DEF TypeOK, PoolTypeOK, HandlersKnow, ConsumedPendingIsBurned
  <1>3. UsedUnlessNoLock'
    BY OutcomesStay DEF TypeOK, PoolTypeOK, HandlersKnow,
        UsedUnlessNoLock, UsedIsAccountedFor
  <1>4. /\ HandlersKnow'
        /\ ReportedMeansSigned'
        /\ ChargeIsTracked'
        /\ SpendsOwnPresign'
    BY DEF HandlersKnow, ReportedMeansSigned, ChargeIsTracked,
           SpendsOwnPresign
  <1>. QED BY <1>1, <1>2, <1>3, <1>4

\* A refill mints caps nobody has taken.
LEMMA StepRefillMint ==
    ASSUME RaceInv, refillMint, RequestsIdle
    PROVE  RaceInv'
  <1>. USE DEF RaceInv, refillMint, Batches, RequestsIdle
  <1>1. TypeOK'
    <2>1. chain' \in [Caps -> ChainStates] /\ minted' \subseteq Caps
      BY DEF TypeOK, PoolTypeOK
    <2>. QED BY <2>1 DEF TypeOK, PoolTypeOK
  <1>2. HandlersKnow'
    BY DEF TypeOK, PoolTypeOK, HandlersKnow
  <1>3. ConsumedPendingIsBurned'
    BY DEF TypeOK, PoolTypeOK, HandlersKnow, ConsumedPendingIsBurned
  <1>4. UsedUnlessNoLock'
    BY OutcomesStay DEF TypeOK, PoolTypeOK, HandlersKnow,
        UsedUnlessNoLock, UsedIsAccountedFor
  <1>5. /\ ReportedMeansSigned'
        /\ ChargeIsTracked'
        /\ SpendsOwnPresign'
    BY DEF ReportedMeansSigned, ChargeIsTracked, SpendsOwnPresign
  <1>. QED BY <1>1, <1>2, <1>3, <1>4, <1>5

\* New rows are pending.
LEMMA StepRefillInsert ==
    ASSUME RaceInv, refillInsert, RequestsIdle
    PROVE  RaceInv'
  <1>. USE DEF RaceInv, refillInsert, RequestsIdle
  <1>1. TypeOK'
    <2>1. row' \in [Caps -> RowStates]
      BY DEF TypeOK, PoolTypeOK
    <2>2. refillJob' \in BOOLEAN
      BY DEF TypeOK, PoolTypeOK
    <2>. QED BY <2>1, <2>2 DEF TypeOK, PoolTypeOK
  <1>2. ConsumedPendingIsBurned'
    BY DEF TypeOK, PoolTypeOK, HandlersKnow, ConsumedPendingIsBurned
  <1>3. UsedUnlessNoLock'
    BY OutcomesStay DEF TypeOK, PoolTypeOK, HandlersKnow,
        UsedUnlessNoLock, UsedIsAccountedFor
  <1>4. /\ HandlersKnow'
        /\ ReportedMeansSigned'
        /\ ChargeIsTracked'
        /\ SpendsOwnPresign'
    BY DEF HandlersKnow, ReportedMeansSigned, ChargeIsTracked,
           SpendsOwnPresign
  <1>. QED BY <1>1, <1>2, <1>3, <1>4

\* A refill that dies leaves its caps to discover.
LEMMA StepRefillCrash ==
    ASSUME RaceInv, refillCrash, RequestsIdle
    PROVE  RaceInv'
  <1>. USE DEF RaceInv, refillCrash, RequestsIdle
  <1>1. TypeOK'
    BY DEF TypeOK, PoolTypeOK
  <1>2. /\ HandlersKnow'
        /\ ConsumedPendingIsBurned'
        /\ ReportedMeansSigned'
        /\ UsedUnlessNoLock'
        /\ ChargeIsTracked'
        /\ SpendsOwnPresign'
    BY DEF HandlersKnow, ConsumedPendingIsBurned, ReportedMeansSigned,
           UsedUnlessNoLock, UsedIsAccountedFor, MayBeTaken, ChargeIsTracked,
           SpendsOwnPresign
  <1>. QED BY <1>1, <1>2

\* A discovered row is pending.
LEMMA StepDiscover ==
    ASSUME NEW c \in Caps, RaceInv, discover(c),
           RequestsIdle
    PROVE  RaceInv'
  <1>. USE DEF RaceInv, discover, Untracked, RequestsIdle
  <1>1. TypeOK'
    BY DEF TypeOK, PoolTypeOK
  <1>2. ConsumedPendingIsBurned'
    BY DEF TypeOK, PoolTypeOK, HandlersKnow, ConsumedPendingIsBurned
  <1>3. UsedUnlessNoLock'
    BY OutcomesStay DEF TypeOK, PoolTypeOK, HandlersKnow,
        UsedUnlessNoLock, UsedIsAccountedFor
  <1>4. /\ HandlersKnow'
        /\ ReportedMeansSigned'
        /\ ChargeIsTracked'
        /\ SpendsOwnPresign'
    BY DEF HandlersKnow, ReportedMeansSigned, ChargeIsTracked,
           SpendsOwnPresign
  <1>. QED BY <1>1, <1>2, <1>3, <1>4

\* Completing a session takes no cap.
LEMMA StepCoordinatorCompletes ==
    ASSUME NEW c \in Caps, RaceInv,
           CoordinatorCompletes(c), RequestsIdle
    PROVE  RaceInv'
  <1>. USE DEF RaceInv, CoordinatorCompletes, RequestsIdle
  <1>1. TypeOK'
    BY DEF TypeOK, PoolTypeOK
  <1>2. HandlersKnow'
    BY DEF TypeOK, PoolTypeOK, HandlersKnow
  <1>3. ConsumedPendingIsBurned'
    BY DEF TypeOK, PoolTypeOK, HandlersKnow, ConsumedPendingIsBurned
  <1>4. UsedUnlessNoLock'
    BY OutcomesStay DEF TypeOK, PoolTypeOK, HandlersKnow,
        UsedUnlessNoLock, UsedIsAccountedFor
  <1>5. /\ ReportedMeansSigned'
        /\ ChargeIsTracked'
        /\ SpendsOwnPresign'
    BY DEF ReportedMeansSigned, ChargeIsTracked, SpendsOwnPresign
  <1>. QED BY <1>1, <1>2, <1>3, <1>4, <1>5

\* Stuttering changes nothing.
LEMMA RaceStutter == RaceInv /\ UNCHANGED vars => RaceInv'
  <1>. SUFFICES ASSUME RaceInv, UNCHANGED vars PROVE RaceInv'
    OBVIOUS
  <1>. USE DEF RaceInv, vars
  <1>1. TypeOK'
    BY DEF TypeOK, PoolTypeOK
  <1>2. HandlersKnow'
    BY DEF HandlersKnow
  <1>3. /\ ConsumedPendingIsBurned'
        /\ ReportedMeansSigned'
        /\ UsedUnlessNoLock'
        /\ ChargeIsTracked'
        /\ SpendsOwnPresign'
    BY DEF ConsumedPendingIsBurned, ReportedMeansSigned, UsedUnlessNoLock,
           UsedIsAccountedFor, MayBeTaken, ChargeIsTracked, SpendsOwnPresign
  <1>. QED BY <1>1, <1>2, <1>3

\* Every step of every handler preserves the invariant.
LEMMA RaceNext == RaceInv /\ [Next]_vars => RaceInv'
  <1>. SUFFICES ASSUME RaceInv, [Next]_vars PROVE RaceInv'
    OBVIOUS
  <1>1. ASSUME NEW r \in Reqs,
               PrepareLookup(r) \/ Prepare(r) \/ PrepareCrash(r)
        PROVE  RaceInv'
    BY <1>1, StepPrepareLookup, StepPrepareDupFetch, StepPrepareCharge,
       StepPrepareInsert, StepPrepareAllocate, StepPrepareDrop,
       StepPrepareDropRefund, StepPrepareLink, StepPrepareFetch,
       StepPrepareCrash
    DEF Prepare
  <1>2. ASSUME NEW s \in Submitters,
               (\E r \in Reqs : SubmitRead(s, r)) \/ Submit(s) \/ SubmitCrash(s)
        PROVE  RaceInv'
    BY <1>2, StepSubmitRead, StepSubmitUpdate, StepSubmitEnqueue,
       StepSubmitCrash
    DEF Submit
  <1>3. ASSUME NEW w \in Workers, Work(w) \/ WorkerCrash(w)
        PROVE  RaceInv'
    BY <1>3, StepWorkerDrop, StepWorkerRead, StepWorkerAbandon,
       StepWorkerExecuted, StepWorkerNotExecuted, StepWorkerUnknown,
       StepWorkerNoLock, StepWorkerRollback, StepWorkerRetire, StepWorkerConsumed,
       StepWorkerSubmitted, StepWorkerPoll, StepWorkerUsed,
       StepWorkerComplete, StepWorkerFail, StepWorkerRefund, StepWorkerCrash
    DEF Work
  <1>4. ASSUME NEW r \in Reqs, NEW c \in Caps,
               LateLanding(r, c) \/ ReconcileClassify(r, c)
        PROVE  RaceInv'
    BY <1>4, StepLateLanding, StepReconcileClassify
  <1>5. CASE Sweep \/ SweepCrash
    <2>1. ASSUME NEW pair \in Pairs, SweepRollback(pair[1], pair[2])
          PROVE  RaceInv'
      BY <2>1, StepSweepRollback
    <2>. QED
      BY <1>5, <2>1, StepSweepSelect, StepSweepFail, StepSweepRefund,
         StepSweepCrash
      DEF Sweep
  <1>6. CASE PoolStep
    <2>1. RequestsIdle
      BY <1>6 DEF PoolStep, RequestsIdle
    <2>. QED
      BY <1>6, <2>1, StepSweepRescue, StepSweepPark, StepPromoteSelect,
         StepPromoteCheck, StepPromoteWrite, StepRefillMint,
         StepRefillInsert, StepRefillCrash, StepDiscover,
         StepCoordinatorCompletes
      DEF PoolStep, sweepExpiredJob
  <1>7. CASE TtlPasses
    BY <1>7, StepTtlPasses
  <1>8. CASE ReconcileApply
    BY <1>8, StepReconcileApply
  <1>9. CASE UNCHANGED vars
    BY <1>9, RaceStutter
  <1>. QED
    BY <1>1, <1>2, <1>3, <1>4, <1>5, <1>6, <1>7, <1>8, <1>9 DEF Next

\* The invariant holds in every behaviour of the handlers, jobs and sweeps.
THEOREM RaceInvariance == Spec => []RaceInv
  BY RaceInit, RaceNext, PTL DEF Spec

\* Every table column, queue and handler variable keeps its type: no row
\* leaves its status enum and no job is retried beyond the limit.
THEOREM TypeCorrectness == Spec => []TypeOK
  <1>1. RaceInv => TypeOK
    BY DEF RaceInv
  <1>. QED BY RaceInvariance, <1>1, PTL

\* At each statement of processSignJob, prepareSignRequest and the sweep the
\* handler's local values agree with the row and the chain, whoever else
\* wrote to them since they were read.
THEOREM HandlersAreRight == Spec => []HandlersKnow
  <1>1. RaceInv => HandlersKnow
    BY DEF RaceInv
  <1>. QED BY RaceInvariance, <1>1, PTL

\* A presign row in consumed_pending has a burned cap: markConsumedPending
\* runs only after the transaction that took it.
THEOREM ConsumedPendingCorrect == Spec => []ConsumedPendingIsBurned
  <1>1. RaceInv => ConsumedPendingIsBurned
    BY DEF RaceInv
  <1>. QED BY RaceInvariance, <1>1, PTL

\* No request is reported submitted or completed unless a transaction of its
\* own consumed a cap, under any crash, retry or duplicate delivery.
THEOREM ReportedCorrect == Spec => []ReportedMeansSigned
  <1>1. RaceInv => ReportedMeansSigned
    BY DEF RaceInv
  <1>. QED BY RaceInvariance, <1>1, PTL

\* As long as the executor's lock can be had, markUsed never retires a presign
\* that is still good.
THEOREM UsedCorrect ==
    ASSUME ~LockTimesOut
    PROVE  Spec => []UsedIsAccountedFor
  <1>1. RaceInv => UsedIsAccountedFor
    BY DEF RaceInv, UsedUnlessNoLock
  <1>. QED BY RaceInvariance, <1>1, PTL

\* A charge made by prepareSignRequest never loses both its row and its way
\* back to the user, except by a crash or a lost key race.
THEOREM ChargeCorrect == Spec => []ChargeIsTracked
  <1>1. RaceInv => ChargeIsTracked
    BY DEF RaceInv
  <1>. QED BY RaceInvariance, <1>1, PTL

\* No retry of sign.process makes a request consume a second presign.
THEOREM OnePresignPerRequest == Spec => []SpendsOwnPresign
  <1>1. RaceInv => SpendsOwnPresign
    BY DEF RaceInv
  <1>. QED BY RaceInvariance, <1>1, PTL

-----------------------------------------------------------------------------
(***************************************************************************)
(* FailedIsRefunded, and where a prepare stands: SettleInv is inductive.   *)
(***************************************************************************)
SettleParts == PreparesFit /\ (Crashes \/ FailedIsRefunded)

\* A step that neither moves a prepare call nor inserts or deletes a row.
LEMMA PreparesStand ==
    ASSUME PreparesFit, UNCHANGED <<ppc, charged>>,
           refunded \subseteq refunded', refunded' \subseteq charged,
           \A q \in Reqs : status'[q] = "none" <=> status[q] = "none"
    PROVE  PreparesFit'
  BY DEF PreparesFit, KeysDistinct

\* A step that fails no request and drops no refund.
LEMMA FailedStands ==
    ASSUME FailedIsRefunded, refunded \subseteq refunded',
           \A q \in Reqs : status'[q] = "failed" => status[q] = "failed",
           \A q \in Reqs : RefundUnderWay(q) => RefundUnderWay(q)' \/ q \in refunded'
    PROVE  FailedIsRefunded'
  BY DEF FailedIsRefunded

\* A worker's move between two steps that are not the refund.
LEMMA RefundsGoOn ==
    ASSUME TypeOK, NEW w \in Workers, UNCHANGED <<sweepAt, sweepReq>>,
           \A v \in Workers \ {w} : wpc'[v] = wpc[v] /\ wreq'[v] = wreq[v],
           wpc[w] # "refund", NEW q \in Reqs, RefundUnderWay(q)
    PROVE  RefundUnderWay(q)'
  BY DEF RefundUnderWay

LEMMA SettleStarts == Init => SettleInv
  <1>1. Init => PreparesFit /\ FailedIsRefunded
    BY DEF Init, PreparesFit, FailedIsRefunded
  <1>. QED BY <1>1, RaceInit DEF SettleInv

LEMMA SettlePrepare ==
    ASSUME NEW r \in Reqs, SettleInv, PrepareLookup(r) \/ Prepare(r) \/ PrepareCrash(r)
    PROVE  SettleParts'
  <1>1. TypeOK /\ PreparesFit /\ (Crashes \/ FailedIsRefunded)
    BY DEF SettleInv, RaceInv
  <1>2. UNCHANGED <<wpc, wreq, sweepAt, sweepReq>>
    BY DEF Prepare, PrepareLookup, PrepareDupFetch, PrepareCharge, PrepareInsert,
           PrepareAllocate, PrepareDrop, PrepareDropRefund, PrepareLink, PrepareFetch,
           PrepareCrash
  <1>3. \A q \in Reqs : RefundUnderWay(q) => RefundUnderWay(q)'
    BY <1>2 DEF RefundUnderWay
  <1>4. CASE PrepareLookup(r)
    <2>1. PreparesFit'
      BY <1>1, <1>4 DEF PrepareLookup, PrepareGoto, Existing, PreparesFit, TypeOK, KeysDistinct
    <2>2. FailedIsRefunded => FailedIsRefunded'
      BY <1>3, <1>4, FailedStands DEF PrepareLookup
    <2>. QED BY <1>1, <2>1, <2>2 DEF SettleParts
  <1>5. CASE PrepareDupFetch(r)
    <2>1. PreparesFit'
      BY <1>1, <1>5 DEF PrepareDupFetch, FetchPresignBytes, PrepareGoto, PreparesFit, TypeOK,
                        KeysDistinct
    <2>2. FailedIsRefunded => FailedIsRefunded'
      BY <1>3, <1>5, FailedStands DEF PrepareDupFetch
    <2>. QED BY <1>1, <2>1, <2>2 DEF SettleParts
  <1>6. CASE PrepareCharge(r)
    <2>1. PreparesFit'
      BY <1>1, <1>6 DEF PrepareCharge, chargeCredits, PrepareGoto, PreparesFit, TypeOK,
                        KeysDistinct
    <2>2. FailedIsRefunded => FailedIsRefunded'
      BY <1>3, <1>6, FailedStands DEF PrepareCharge, chargeCredits
    <2>. QED BY <1>1, <2>1, <2>2 DEF SettleParts
  <1>7. CASE PrepareInsert(r)
    <2>1. r \in charged
      BY <1>1, <1>7 DEF PrepareInsert, PreparesFit
    <2>2. PreparesFit'
      BY <1>1, <1>7, <2>1 DEF PrepareInsert, Existing, PrepareGoto, PreparesFit, TypeOK,
                              KeysDistinct
    <2>3. FailedIsRefunded => FailedIsRefunded'
      BY <1>1, <1>3, <1>7, FailedStands DEF PrepareInsert, TypeOK
    <2>. QED BY <1>1, <2>2, <2>3 DEF SettleParts
  <1>8. CASE PrepareAllocate(r)
    <2>1. PreparesFit'
      BY <1>1, <1>8 DEF PrepareAllocate, PrepareGoto, PreparesFit, TypeOK, KeysDistinct
    <2>2. FailedIsRefunded => FailedIsRefunded'
      BY <1>3, <1>8, FailedStands DEF PrepareAllocate
    <2>. QED BY <1>1, <2>1, <2>2 DEF SettleParts
  <1>9. CASE PrepareDrop(r)
    <2>1. PreparesFit'
      BY <1>1, <1>9 DEF PrepareDrop, PrepareGoto, PreparesFit, TypeOK, KeysDistinct
    <2>2. FailedIsRefunded => FailedIsRefunded'
      BY <1>1, <1>3, <1>9, FailedStands DEF PrepareDrop, TypeOK
    <2>. QED BY <1>1, <2>1, <2>2 DEF SettleParts
  <1>10. CASE PrepareDropRefund(r)
    <2>1. PreparesFit'
      BY <1>1, <1>10 DEF PrepareDropRefund, refundCredits, PrepareGoto, PreparesFit, TypeOK,
                         KeysDistinct
    <2>2. FailedIsRefunded => FailedIsRefunded'
      BY <1>3, <1>10, FailedStands DEF PrepareDropRefund, refundCredits
    <2>. QED BY <1>1, <2>1, <2>2 DEF SettleParts
  <1>11. CASE PrepareLink(r) \/ PrepareFetch(r) \/ PrepareCrash(r)
    <2>1. PreparesFit'
      BY <1>1, <1>11 DEF PrepareLink, PrepareFetch, FetchPresignBytes, PrepareCrash,
                         PrepareGoto, PreparesFit, TypeOK, KeysDistinct
    <2>2. FailedIsRefunded => FailedIsRefunded'
      BY <1>3, <1>11, FailedStands DEF PrepareLink, PrepareFetch, PrepareCrash
    <2>. QED BY <1>1, <2>1, <2>2 DEF SettleParts
  <1>. QED BY <1>4, <1>5, <1>6, <1>7, <1>8, <1>9, <1>10, <1>11 DEF Prepare

LEMMA SettleSubmit ==
    ASSUME NEW s \in Submitters, SettleInv,
           (\E r \in Reqs : SubmitRead(s, r)) \/ Submit(s) \/ SubmitCrash(s)
    PROVE  SettleParts'
  <1>1. TypeOK /\ PreparesFit /\ (Crashes \/ FailedIsRefunded)
    BY DEF SettleInv, RaceInv
  <1>2. UNCHANGED <<wpc, wreq, sweepAt, sweepReq, ppc, charged, refunded>>
    BY DEF Submit, SubmitRead, SubmitUpdate, SubmitEnqueue, SubmitCrash
  <1>3. \A q \in Reqs : RefundUnderWay(q) => RefundUnderWay(q)'
    BY <1>2 DEF RefundUnderWay
  <1>4. \A q \in Reqs : /\ status'[q] = "none" <=> status[q] = "none"
                        /\ status'[q] = "failed" => status[q] = "failed"
    BY <1>1 DEF Submit, SubmitRead, SubmitUpdate, SetStatus, SubmitEnqueue, SubmitCrash, TypeOK
  <1>5. refunded' \subseteq charged
    BY <1>1, <1>2 DEF PreparesFit
  <1>. QED BY <1>1, <1>2, <1>3, <1>4, <1>5, PreparesStand, FailedStands DEF SettleParts

\* A worker that fails its request is about to refund it, and one that refunds
\* it has the charge to give back.
LEMMA SettleWork ==
    ASSUME NEW w \in Workers, SettleInv, Work(w) \/ WorkerCrash(w)
    PROVE  SettleParts'
  <1>1. TypeOK /\ PreparesFit /\ (Crashes \/ FailedIsRefunded)
    BY DEF SettleInv, RaceInv
  <1>. USE DEF SettleParts
  <1>2. CASE WorkerFail(w)
    <2>1. wreq[w] \in Reqs
      BY <1>2, WorkerServes DEF WorkerFail, SettleInv
    <2>2. UNCHANGED <<ppc, charged, refunded, sweepAt, sweepReq>>
      BY <1>2 DEF WorkerFail
    <2>3. /\ \A q \in Reqs : status'[q] = "none" <=> status[q] = "none"
          /\ \A q \in Reqs : q # wreq[w] => status'[q] = status[q]
      BY <1>1, <1>2, <2>1 DEF WorkerFail, SetStatus, TypeOK
    <2>4. PreparesFit'
      BY <1>1, <2>2, <2>3, PreparesStand DEF PreparesFit
    <2>5. \A v \in Workers \ {w} : wpc'[v] = wpc[v] /\ wreq'[v] = wreq[v]
      BY <1>1, <1>2 DEF WorkerFail, WorkerFinish, WorkerIdle, WorkerGoto, TypeOK
    <2>6. ASSUME NEW q \in Reqs, RefundUnderWay(q)
          PROVE  RefundUnderWay(q)'
      BY <1>1, <1>2, <2>2, <2>5, <2>6, RefundsGoOn DEF WorkerFail
    <2>7. CASE status[wreq[w]] = "none"
      <3>1. status'[wreq[w]] = "none"
        BY <2>1, <2>3, <2>7
      <3>2. \A q \in Reqs : status'[q] = "failed" => status[q] = "failed"
        BY <2>3, <3>1
      <3>. QED BY <1>1, <2>2, <2>4, <2>6, <3>2, FailedStands
    <2>8. CASE status[wreq[w]] # "none"
      <3>1. wpc'[w] = "refund" /\ wreq'[w] = wreq[w]
        BY <1>1, <1>2, <2>8 DEF WorkerFail, WorkerGoto, TypeOK
      <3>2. ASSUME FailedIsRefunded, NEW q \in Reqs, status'[q] = "failed"
            PROVE  q \in refunded' \/ RefundUnderWay(q)'
        <4>1. CASE q = wreq[w]
          BY <3>1, <4>1 DEF RefundUnderWay
        <4>2. CASE q # wreq[w]
          <5>1. q \in refunded \/ RefundUnderWay(q)
            BY <2>3, <3>2, <4>2 DEF FailedIsRefunded
          <5>. QED BY <2>2, <2>6, <5>1
        <4>. QED BY <4>1, <4>2
      <3>3. FailedIsRefunded => FailedIsRefunded'
        BY <3>2 DEF FailedIsRefunded
      <3>. QED BY <1>1, <2>4, <3>3
    <2>. QED BY <2>7, <2>8
  <1>3. CASE WorkerRefund(w)
    <2>1. wreq[w] \in Reqs
      BY <1>3, WorkerServes DEF WorkerRefund, SettleInv
    <2>2. /\ UNCHANGED <<ppc, charged, status, sweepAt, sweepReq>>
          /\ refunded' = IF wreq[w] \in charged THEN refunded \cup {wreq[w]} ELSE refunded
      BY <1>1, <1>3 DEF WorkerRefund, refundCredits, TypeOK, PreparesFit
    <2>3. PreparesFit'
      BY <1>1, <2>2, PreparesStand DEF PreparesFit
    <2>4. \A v \in Workers \ {w} : wpc'[v] = wpc[v] /\ wreq'[v] = wreq[v]
      BY <1>1, <1>3 DEF WorkerRefund, WorkerFinish, WorkerIdle, TypeOK
    <2>5. ASSUME FailedIsRefunded, NEW q \in Reqs, status'[q] = "failed"
          PROVE  q \in refunded' \/ RefundUnderWay(q)'
      <3>1. q \in charged
        BY <1>1, <2>2, <2>5 DEF PreparesFit
      <3>2. CASE q = wreq[w]
        BY <2>2, <3>1, <3>2
      <3>3. CASE q # wreq[w]
        <4>1. q \in refunded \/ RefundUnderWay(q)
          BY <2>2, <2>5 DEF FailedIsRefunded
        <4>2. RefundUnderWay(q) => RefundUnderWay(q)'
          BY <2>2, <2>4, <3>3 DEF RefundUnderWay
        <4>. QED BY <2>2, <4>1, <4>2
      <3>. QED BY <3>2, <3>3
    <2>6. FailedIsRefunded => FailedIsRefunded'
      BY <2>5 DEF FailedIsRefunded
    <2>. QED BY <1>1, <2>3, <2>6
  <1>4. CASE WorkerCrash(w)
    <2>1. Crashes /\ UNCHANGED <<ppc, charged, refunded, status>>
      BY <1>4 DEF WorkerCrash
    <2>. QED BY <1>1, <2>1, PreparesStand DEF PreparesFit
  <1>5. CASE Work(w) /\ ~WorkerFail(w) /\ ~WorkerRefund(w)
    <2>1. UNCHANGED <<ppc, charged, refunded, sweepAt, sweepReq>> /\ wpc[w] # "refund"
      BY <1>5 DEF Work, WorkerDrop, WorkerRead, WorkerAbandon, WorkerExecuted,
                  WorkerNotExecuted, WorkerUnknown, WorkerNoLock, WorkerRollback, WorkerRetire,
                  WorkerConsumed, WorkerSubmitted, WorkerPoll, WorkerUsed, WorkerComplete
    <2>2. \A q \in Reqs : /\ status'[q] = "none" <=> status[q] = "none"
                          /\ status'[q] = "failed" => status[q] = "failed"
      BY <1>1, <1>5 DEF Work, WorkerDrop, WorkerRead, WorkerAbandon, WorkerExecuted,
                  WorkerNotExecuted, WorkerUnknown, WorkerNoLock, WorkerRollback, WorkerRetire,
                  WorkerConsumed, WorkerSubmitted, WorkerPoll, WorkerUsed, WorkerComplete,
                  SetStatus, TypeOK
    <2>3. \A v \in Workers \ {w} : wpc'[v] = wpc[v] /\ wreq'[v] = wreq[v]
      BY <1>1, <1>5 DEF Work, WorkerDrop, WorkerRead, WorkerAbandon, WorkerExecuted,
                  WorkerNotExecuted, WorkerUnknown, WorkerNoLock, WorkerRollback, WorkerRetire,
                  WorkerConsumed, WorkerSubmitted, WorkerPoll, WorkerUsed, WorkerComplete,
                  WorkerGoto, WorkerThrows, WorkerFinish, WorkerIdle, TypeOK
    <2>4. \A q \in Reqs : RefundUnderWay(q) => RefundUnderWay(q)'
      BY <1>1, <2>1, <2>3, RefundsGoOn
    <2>. QED BY <1>1, <2>1, <2>2, <2>4, PreparesStand, FailedStands DEF PreparesFit
  <1>. QED BY <1>2, <1>3, <1>4, <1>5

\* The prepared sweep refunds what it fails.
LEMMA SettleSweep ==
    ASSUME SettleInv, Sweep \/ SweepCrash
    PROVE  SettleParts'
  <1>1. TypeOK /\ HandlersKnow /\ PreparesFit /\ (Crashes \/ FailedIsRefunded)
    BY DEF SettleInv, RaceInv
  <1>2. UNCHANGED <<ppc, charged, wpc, wreq>>
    BY DEF Sweep, SweepSelect, SweepRollback, SweepFail, SweepRefund, refundCredits, SweepCrash
  <1>. USE DEF SettleParts
  <1>3. CASE SweepSelect \/ \E pair \in Pairs : SweepRollback(pair[1], pair[2])
    <2>1. UNCHANGED <<status, refunded>> /\ sweepAt # "refund"
      BY <1>3 DEF SweepSelect, SweepRollback
    <2>2. \A q \in Reqs : RefundUnderWay(q) => RefundUnderWay(q)'
      BY <1>2, <2>1 DEF RefundUnderWay
    <2>. QED BY <1>1, <1>2, <2>1, <2>2, PreparesStand, FailedStands DEF PreparesFit
  <1>4. CASE SweepFail
    <2>1. sweepReq \in Reqs /\ UNCHANGED refunded
      BY <1>1, <1>4 DEF SweepFail, TypeOK, HandlersKnow
    <2>2. /\ \A q \in Reqs : status'[q] = "none" <=> status[q] = "none"
          /\ \A q \in Reqs : q # sweepReq => status'[q] = status[q]
      BY <1>1, <1>4, <2>1 DEF SweepFail, SetStatus, TypeOK
    <2>3. PreparesFit'
      BY <1>1, <1>2, <2>1, <2>2, PreparesStand DEF PreparesFit
    <2>4. ASSUME NEW q \in Reqs, RefundUnderWay(q)
          PROVE  RefundUnderWay(q)'
      BY <1>2, <1>4, <2>4 DEF SweepFail, RefundUnderWay
    <2>5. ASSUME FailedIsRefunded, NEW q \in Reqs, status'[q] = "failed"
          PROVE  q \in refunded' \/ RefundUnderWay(q)'
      <3>1. CASE q = sweepReq
        <4>1. status[sweepReq] # "none"
          BY <2>2, <2>5, <3>1
        <4>. QED BY <1>4, <3>1, <4>1 DEF SweepFail, RefundUnderWay
      <3>2. CASE q # sweepReq
        <4>1. q \in refunded \/ RefundUnderWay(q)
          BY <2>2, <2>5, <3>2 DEF FailedIsRefunded
        <4>. QED BY <2>1, <2>4, <4>1
      <3>. QED BY <3>1, <3>2
    <2>6. FailedIsRefunded => FailedIsRefunded'
      BY <2>5 DEF FailedIsRefunded
    <2>. QED BY <1>1, <2>3, <2>6
  <1>5. CASE SweepRefund
    <2>1. sweepReq \in Reqs /\ UNCHANGED status
      BY <1>1, <1>5 DEF SweepRefund, TypeOK, HandlersKnow
    <2>2. refunded' = IF sweepReq \in charged THEN refunded \cup {sweepReq} ELSE refunded
      BY <1>1, <1>5 DEF SweepRefund, refundCredits, TypeOK
    <2>3. PreparesFit'
      BY <1>1, <1>2, <2>1, <2>2, PreparesStand DEF PreparesFit
    <2>4. ASSUME FailedIsRefunded, NEW q \in Reqs, status'[q] = "failed"
          PROVE  q \in refunded' \/ RefundUnderWay(q)'
      <3>1. q \in charged
        BY <1>1, <2>1, <2>4 DEF PreparesFit
      <3>2. CASE q = sweepReq
        BY <2>2, <3>1, <3>2
      <3>3. CASE q # sweepReq
        <4>1. q \in refunded \/ RefundUnderWay(q)
          BY <2>1, <2>4 DEF FailedIsRefunded
        <4>2. RefundUnderWay(q) => RefundUnderWay(q)'
          BY <1>2, <3>3 DEF RefundUnderWay
        <4>. QED BY <2>2, <4>1, <4>2
      <3>. QED BY <3>2, <3>3
    <2>5. FailedIsRefunded => FailedIsRefunded'
      BY <2>4 DEF FailedIsRefunded
    <2>. QED BY <1>1, <2>3, <2>5
  <1>6. CASE SweepCrash
    <2>1. Crashes /\ UNCHANGED <<refunded, status>>
      BY <1>6 DEF SweepCrash
    <2>. QED BY <1>1, <1>2, <2>1, PreparesStand DEF PreparesFit
  <1>. QED BY <1>3, <1>4, <1>5, <1>6 DEF Sweep

\* No other step touches a request, its charge or a refund under way.
LEMMA SettleElsewhere ==
    ASSUME SettleInv,
           UNCHANGED <<ppc, charged, refunded, status, wpc, wreq, sweepAt, sweepReq>>
    PROVE  SettleParts'
  <1>1. PreparesFit /\ (Crashes \/ FailedIsRefunded)
    BY DEF SettleInv
  <1>2. \A q \in Reqs : RefundUnderWay(q) => RefundUnderWay(q)'
    BY DEF RefundUnderWay
  <1>. QED BY <1>1, <1>2, PreparesStand, FailedStands DEF PreparesFit, SettleParts

\* Every step preserves SettleInv.
LEMMA SettleNext == SettleInv /\ [Next]_vars => SettleInv'
  <1>. SUFFICES ASSUME SettleInv, [Next]_vars PROVE SettleInv'
    OBVIOUS
  <1>1. RaceInv'
    BY RaceNext DEF SettleInv
  <1>2. ASSUME NEW r \in Reqs, PrepareLookup(r) \/ Prepare(r) \/ PrepareCrash(r)
        PROVE  SettleParts'
    BY <1>2, SettlePrepare
  <1>3. ASSUME NEW s \in Submitters,
               (\E r \in Reqs : SubmitRead(s, r)) \/ Submit(s) \/ SubmitCrash(s)
        PROVE  SettleParts'
    BY <1>3, SettleSubmit
  <1>4. ASSUME NEW w \in Workers, Work(w) \/ WorkerCrash(w)
        PROVE  SettleParts'
    BY <1>4, SettleWork
  <1>5. ASSUME NEW r \in Reqs, NEW c \in Caps, LateLanding(r, c) \/ ReconcileClassify(r, c)
        PROVE  SettleParts'
    BY <1>5, SettleElsewhere DEF LateLanding, ReconcileClassify
  <1>6. ASSUME Sweep \/ SweepCrash
        PROVE  SettleParts'
    BY <1>6, SettleSweep
  <1>7. ASSUME ReconcileApply \/ PoolStep \/ TtlPasses \/ UNCHANGED vars
        PROVE  SettleParts'
    BY <1>7, SettleElsewhere DEF ReconcileApply, PoolStep, TtlPasses, vars
  <1>8. SettleParts'
    BY <1>2, <1>3, <1>4, <1>5, <1>6, <1>7 DEF Next
  <1>. QED BY <1>1, <1>8 DEF SettleInv, SettleParts

\* Where a prepare call stands tells whether its row is there and whether it
\* has charged, in every behaviour.
THEOREM SettleInvariance == Spec => []SettleInv
  BY SettleStarts, SettleNext, PTL DEF Spec

\* When no handler dies half way, every failed request got its credit back or
\* the handler that failed it is about to give it back, whatever TTLs, retries,
\* reconciliations and duplicate keys do.
THEOREM FailuresAreRefunded ==
    ASSUME ~Crashes
    PROVE  Spec => []FailedIsRefunded
  <1>1. SettleInv => FailedIsRefunded
    BY DEF SettleInv
  <1>. QED BY SettleInvariance, <1>1, PTL

-----------------------------------------------------------------------------
(***************************************************************************)
(* ReadyIsUnspent and CompletedIsPaid: in a run that is not disturbed      *)
(* PromptInv is inductive.                                                 *)
(***************************************************************************)
PromptParts ==
    /\ NothingStale /\ LinksFit /\ OneHandler
    /\ HoldsFit /\ WorkersFit /\ PoolFits /\ ReadyIsUnspent /\ UnknownFits

\* What a step leaves alone stays as it was.
LEMMA PromptFrames ==
    /\ NothingStale /\ UNCHANGED <<overdue, sweepTodo, sweepAt, recon, stamp, ppc>>
          => NothingStale'
    /\ LinksFit /\ UNCHANGED <<pcap, ppc, presignOf, status, refunded>> => LinksFit'
    /\ OneHandler /\ UNCHANGED <<spc, sreq, ppc, status, jobs, wpc, wreq>> => OneHandler'
    /\ HoldsFit /\ UNCHANGED <<status, pcap, wreq, wpc, holder, row, chain>> => HoldsFit'
    /\ WorkersFit /\ UNCHANGED <<wcap, wpc, row, chain, status, wreq>> => WorkersFit'
    /\ PoolFits /\ UNCHANGED <<row, chain, pcap, promoTodo, promoCur>> => PoolFits'
    /\ ReadyIsUnspent /\ UNCHANGED <<row, chain>> => ReadyIsUnspent'
    /\ UnknownFits /\ UNCHANGED <<unknownTx, row, wpc, wreq, wcap>> => UnknownFits'
  <1>1. NothingStale /\ UNCHANGED <<overdue, sweepTodo, sweepAt, recon, stamp, ppc>>
           => NothingStale'
    BY DEF NothingStale
  <1>2. LinksFit /\ UNCHANGED <<pcap, ppc, presignOf, status, refunded>> => LinksFit'
    BY DEF LinksFit
  <1>3. OneHandler /\ UNCHANGED <<spc, sreq, ppc, status, jobs, wpc, wreq>> => OneHandler'
    BY DEF OneHandler, StatusAt
  <1>4. HoldsFit /\ UNCHANGED <<status, pcap, wreq, wpc, holder, row, chain>> => HoldsFit'
    BY DEF HoldsFit, HoldOf, GivingUp, Served
  <1>5. WorkersFit /\ UNCHANGED <<wcap, wpc, row, chain, status, wreq>> => WorkersFit'
    BY DEF WorkersFit, WorkerFits
  <1>6. PoolFits /\ UNCHANGED <<row, chain, pcap, promoTodo, promoCur>> => PoolFits'
    BY DEF PoolFits
  <1>7. ReadyIsUnspent /\ UNCHANGED <<row, chain>> => ReadyIsUnspent'
    BY DEF ReadyIsUnspent
  <1>8. UnknownFits /\ UNCHANGED <<unknownTx, row, wpc, wreq, wcap>> => UnknownFits'
    BY DEF UnknownFits
  <1>. QED BY <1>1, <1>2, <1>3, <1>4, <1>5, <1>6, <1>7, <1>8

\* A worker that has not given up is the only one on its request, and works
\* with the presign that is reserved for it.
LEMMA WorkerHasIt ==
    ASSUME PromptInv, NEW w \in Workers, wpc[w] \notin {"idle", "fail", "refund"}
    PROVE  /\ wreq[w] \in Reqs /\ wcap[w] \in Caps
           /\ wcap[w] = pcap[wreq[w]] /\ HoldOf(wreq[w]) = wcap[w]
           /\ holder[wcap[w]] = wreq[w]
           /\ ppc[wreq[w]] = "returned"
           /\ status[wreq[w]] \in {"queued", "submitted"}
  <1>1. wreq[w] \in Reqs /\ wcap[w] \in Caps /\ wcap[w] = presignOf[wreq[w]]
    BY WorkerServes, WorkerHolds DEF PromptInv, SettleInv
  <1>2. status[wreq[w]] \in {"queued", "submitted"}
    BY DEF PromptInv, OneHandler, StatusAt, SettleInv, RaceInv, TypeOK
  <1>3. wcap[w] = pcap[wreq[w]] /\ ppc[wreq[w]] = "returned"
    BY <1>1, <1>2 DEF PromptInv, LinksFit
  <1>4. ~GivingUp(wreq[w])
    BY DEF PromptInv, OneHandler, GivingUp
  <1>5. HoldOf(wreq[w]) = wcap[w]
    BY <1>2, <1>3, <1>4 DEF HoldOf
  <1>6. holder[wcap[w]] = wreq[w]
    BY <1>1, <1>3, <1>5 DEF PromptInv, HoldsFit
  <1>. QED BY <1>1, <1>2, <1>3, <1>5, <1>6

\* Two requests that have their presigns have different ones.
LEMMA HoldsApart ==
    ASSUME PromptInv, NEW q \in Reqs, NEW r \in Reqs, q # r,
           HoldOf(q) # None, HoldOf(r) # None
    PROVE  pcap[q] # pcap[r]
  BY DEF PromptInv, HoldsFit

\* So have two workers.
LEMMA WorkersApart ==
    ASSUME PromptInv, NEW v \in Workers, NEW w \in Workers, v # w,
           wpc[v] # "idle", wpc[w] # "idle"
    PROVE  /\ wreq[v] # wreq[w]
           /\ wpc[v] \notin {"fail", "refund"} /\ wpc[w] \notin {"fail", "refund"}
                => wcap[v] # wcap[w]
  <1>1. wreq[v] # wreq[w]
    BY DEF PromptInv, OneHandler
  <1>2. ASSUME wpc[v] \notin {"fail", "refund"}, wpc[w] \notin {"fail", "refund"}
        PROVE  wcap[v] # wcap[w]
    BY <1>1, <1>2, WorkerHasIt
  <1>. QED BY <1>1, <1>2

\* A step that takes no request on, and leaves the presigns of those that have
\* one as they are.
LEMMA HoldsStand ==
    ASSUME HoldsFit,
           \A q \in Reqs : HoldOf(q)' # None =>
               /\ HoldOf(q) # None /\ pcap'[q] = pcap[q]
               /\ row'[pcap[q]] = row[pcap[q]] /\ holder'[pcap[q]] = holder[pcap[q]]
               /\ chain'[pcap[q]] = chain[pcap[q]]
               /\ status'[q] \in {"prepared", "queued"} /\ ~Served(q)'
                    => status[q] \in {"prepared", "queued"} /\ ~Served(q)
    PROVE  HoldsFit'
  BY DEF HoldsFit

LEMMA PromptStarts == Init => PromptInv
  <1>. SUFFICES ASSUME Init PROVE PromptInv
    OBVIOUS
  <1>. USE DEF Init, PoolInit
  <1>1. SettleInv
    BY SettleStarts
  <1>2. NothingStale /\ LinksFit /\ OneHandler
    BY DEF NothingStale, LinksFit, OneHandler
  <1>3. HoldsFit /\ WorkersFit
    BY DEF HoldsFit, WorkersFit, WorkerFits, HoldOf
  <1>4. PoolFits /\ ReadyIsUnspent /\ UnknownFits
    BY DEF PoolFits, ReadyIsUnspent, UnknownFits
  <1>. QED BY <1>1, <1>2, <1>3, <1>4 DEF PromptInv

\* Until prepare has answered, nobody else works on the request.
LEMMA BeforeReturn ==
    ASSUME PromptInv, NEW r \in Reqs, ppc[r] # "returned"
    PROVE  /\ status[r] \in {"none", "prepared"} /\ jobs[r] = 0
           /\ \A w \in Workers : wreq[w] # r
           /\ \A s \in Submitters : sreq[s] # r
           /\ HoldOf(r) = IF status[r] = "none" THEN None ELSE pcap[r]
  <1>1. ppc[r] \in PreparePcs /\ status[r] \in Statuses
    BY DEF PromptInv, SettleInv, RaceInv, TypeOK
  <1>2. status[r] \in {"none", "prepared"}
    BY <1>1 DEF PromptInv, SettleInv, PreparesFit, NothingStale, LinksFit
  <1>3. jobs[r] = 0
    BY <1>2 DEF PromptInv, OneHandler
  <1>4. \A w \in Workers : wreq[w] # r
    BY <1>2 DEF PromptInv, OneHandler, StatusAt, SettleInv, RaceInv, TypeOK
  <1>5. \A s \in Submitters : sreq[s] # r
    BY DEF PromptInv, OneHandler
  <1>6. HoldOf(r) = IF status[r] = "none" THEN None ELSE pcap[r]
    BY <1>2, <1>4 DEF HoldOf, GivingUp
  <1>. QED BY <1>2, <1>3, <1>4, <1>5, <1>6

\* A step of prepare on a request that no handler has yet.
LEMMA PreparesAlone ==
    ASSUME PromptInv, NEW r \in Reqs, UNCHANGED <<spc, sreq, jobs, wpc, wreq>>,
           \A q \in Reqs : q # r => status'[q] = status[q] /\ ppc'[q] = ppc[q],
           jobs[r] = 0,
           \A w \in Workers : wreq[w] # r, \A s \in Submitters : sreq[s] # r
    PROVE  OneHandler'
  <1>1. ASSUME NEW w \in Workers, wpc[w] # "idle"
        PROVE  status'[wreq[w]] = status[wreq[w]]
    BY <1>1, WorkerServes DEF PromptInv, SettleInv
  <1>2. \A s \in Submitters : spc[s] # "idle" => /\ status'[sreq[s]] = status[sreq[s]]
                                                 /\ ppc'[sreq[s]] = ppc[sreq[s]]
    BY DEF PromptInv, SettleInv, RaceInv, TypeOK, HandlersKnow
  <1>. QED BY <1>1, <1>2 DEF PromptInv, OneHandler

\* prepareSignRequest up to the row: one key, one row, one charge.
LEMMA PromptAccept ==
    ASSUME NEW r \in Reqs, Undisturbed, PromptInv,
           PrepareLookup(r) \/ PrepareCharge(r) \/ PrepareInsert(r)
    PROVE  PromptParts'
  <1>1. PromptParts /\ TypeOK /\ PreparesFit /\ KeysDistinct
    BY DEF PromptInv, PromptParts, SettleInv, RaceInv, Undisturbed
  <1>2. ppc[r] \in {"new", "charge", "insert"}
    BY DEF PrepareLookup, PrepareCharge, PrepareInsert
  <1>3. /\ status[r] = "none" /\ jobs[r] = 0 /\ pcap[r] = None /\ r \notin refunded
        /\ \A w \in Workers : wreq[w] # r
        /\ \A s \in Submitters : sreq[s] # r
    BY <1>1, <1>2, BeforeReturn DEF PreparesFit, PromptParts, LinksFit
  <1>4. Existing(r) = {}
    BY <1>1, <1>3 DEF Existing, KeysDistinct
  <1>5. /\ ppc' = [ppc EXCEPT ![r] = ppc'[r]]
        /\ ppc'[r] \in {"charge", "insert", "alloc", "error"}
        /\ status' = [status EXCEPT ![r] = IF ppc'[r] = "alloc" THEN "prepared" ELSE "none"]
    BY <1>1, <1>3, <1>4 DEF PrepareLookup, PrepareCharge, PrepareInsert, PrepareGoto, TypeOK
  <1>6. UNCHANGED <<poolVars, presignOf, overdue, refunded, queueVars, pcap, submitVars,
                    workerVars, unknownVars, sweepVars>>
    BY DEF PrepareLookup, PrepareCharge, chargeCredits, PrepareInsert
  <1>7. NothingStale' /\ PoolFits' /\ ReadyIsUnspent' /\ UnknownFits'
    <2>1. NothingStale'
      BY <1>1, <1>5, <1>6 DEF PromptParts, NothingStale, TypeOK
    <2>. QED BY <1>1, <1>6, <2>1, PromptFrames DEF PromptParts
  <1>8. LinksFit'
    BY <1>1, <1>2, <1>3, <1>5, <1>6 DEF PromptParts, LinksFit, TypeOK
  <1>9. OneHandler'
    BY <1>1, <1>3, <1>5, <1>6, PreparesAlone DEF PromptParts, TypeOK
  <1>10. HoldsFit'
    <2>1. ASSUME NEW q \in Reqs, HoldOf(q)' # None
          PROVE  HoldOf(q) # None /\ status'[q] = status[q]
      <3>1. q # r
        BY <1>3, <1>6, <2>1 DEF HoldOf
      <3>2. status'[q] = status[q]
        BY <1>1, <1>5, <3>1 DEF TypeOK
      <3>. QED BY <1>6, <2>1, <3>2 DEF HoldOf, GivingUp
    <2>2. \A q \in Reqs : Served(q)' <=> Served(q)
      BY <1>6 DEF Served
    <2>. QED BY <1>1, <1>6, <2>1, <2>2, HoldsStand DEF PromptParts
  <1>11. WorkersFit'
    <2>1. \A w \in Workers : wpc[w] # "idle" => status'[wreq[w]] = status[wreq[w]]
      BY <1>1, <1>3, <1>5 DEF TypeOK, PromptInv, SettleInv, RaceInv, HandlersKnow
    <2>. QED BY <1>1, <1>6, <2>1 DEF PromptParts, WorkersFit, WorkerFits
  <1>. QED BY <1>7, <1>8, <1>9, <1>10, <1>11 DEF PromptParts

\* The claim of a ready row: nobody else has a claim on it.
LEMMA PromptAllocate ==
    ASSUME NEW r \in Reqs, Undisturbed, PromptInv, PrepareAllocate(r)
    PROVE  PromptParts'
  <1>1. PromptParts /\ TypeOK /\ PoolTypeOK /\ HandlersKnow
    BY DEF PromptInv, PromptParts, SettleInv, RaceInv, TypeOK
  <1>2. /\ status[r] = "prepared" /\ jobs[r] = 0 /\ pcap[r] = None
        /\ \A w \in Workers : wreq[w] # r
        /\ \A s \in Submitters : sreq[s] # r
    BY <1>1, BeforeReturn DEF PrepareAllocate, PromptParts, LinksFit
  <1>3. UNCHANGED <<chainVars, sweeperVars, refillVars, requestVars, ledgerVars, queueVars,
                    submitVars, workerVars, unknownVars, sweepVars>>
    BY DEF PrepareAllocate
  <1>4. /\ ppc' = [ppc EXCEPT ![r] = ppc'[r]]
        /\ ppc'[r] \in {"link", "drop"}
    BY <1>1 DEF PrepareAllocate, PrepareGoto, TypeOK
  <1>5. OneHandler'
    BY <1>1, <1>2, <1>3, <1>4, PreparesAlone DEF TypeOK
  <1>6. \A q \in Reqs : Served(q)' <=> Served(q)
    BY <1>3 DEF Served
  <1>7. CASE UNCHANGED <<rowVars, pcap>> /\ ppc'[r] = "drop"
    <2>1. NothingStale'
      BY <1>1, <1>3, <1>4, <1>7 DEF PromptParts, NothingStale, TypeOK
    <2>2. LinksFit'
      BY <1>1, <1>2, <1>3, <1>4, <1>7 DEF PromptParts, LinksFit, TypeOK
    <2>. QED BY <1>1, <1>3, <1>5, <1>7, <2>1, <2>2, PromptFrames DEF PromptParts
  <1>8. ASSUME NEW c \in Caps, allocate(r, c), pcap' = [pcap EXCEPT ![r] = c],
               ppc'[r] = "link"
        PROVE  PromptParts'
    <2>. USE <1>8
    <2>1. /\ row[c] = "ready" /\ row'[c] = "allocated" /\ holder'[c] = r
          /\ \A d \in Caps : d # c => row'[d] = row[d] /\ holder'[d] = holder[d]
      BY <1>1 DEF allocate, PoolTypeOK
    <2>2. NothingStale'
      BY <1>1, <1>3, <1>4 DEF PromptParts, NothingStale, TypeOK, allocate, PoolTypeOK
    <2>3. LinksFit'
      BY <1>1, <1>2, <1>3, <1>4 DEF PromptParts, LinksFit, TypeOK
    <2>4. HoldsFit'
      <3>1. ASSUME NEW q \in Reqs, HoldOf(q)' # None, q # r
            PROVE  HoldOf(q) # None /\ pcap'[q] = pcap[q] /\ pcap[q] # c /\ pcap[q] \in Caps
        <4>1. HoldOf(q) # None /\ pcap'[q] = pcap[q]
          BY <1>1, <1>3, <3>1 DEF HoldOf, GivingUp, TypeOK
        <4>2. pcap[q] \in Caps
          BY <1>1, <4>1 DEF HoldOf, TypeOK
        <4>. QED BY <1>1, <2>1, <4>1, <4>2 DEF PromptParts, HoldsFit
      <3>2. chain[c] = "valid"
        BY <1>1, <2>1 DEF PromptParts, ReadyIsUnspent
      <3>3. pcap'[r] = c
        BY <1>1 DEF TypeOK
      <3>. QED BY <1>1, <1>3, <1>6, <2>1, <3>1, <3>2, <3>3 DEF PromptParts, HoldsFit
    <2>5. WorkersFit'
      <3>1. ASSUME NEW w \in Workers, wpc[w] \notin {"idle", "fail", "refund"}
            PROVE  row'[wcap[w]] = row[wcap[w]]
        <4>1. wcap[w] \in Caps /\ row[wcap[w]] # "ready"
          BY <1>1, <3>1, WorkerHolds DEF PromptParts, WorkersFit, WorkerFits, TypeOK, PromptInv, SettleInv
        <4>. QED BY <2>1, <4>1
      <3>. QED BY <1>1, <1>3, <3>1 DEF PromptParts, WorkersFit, WorkerFits
    <2>6. PoolFits'
      BY <1>1, <1>3, <2>1 DEF PromptParts, PoolFits, PoolTypeOK, TypeOK, ReadyIsUnspent
    <2>7. ReadyIsUnspent'
      BY <1>1, <1>3, <2>1 DEF PromptParts, ReadyIsUnspent
    <2>8. UnknownFits'
      BY <1>1, <1>3, <2>1 DEF PromptParts, UnknownFits
    <2>. QED BY <1>5, <2>2, <2>3, <2>4, <2>5, <2>6, <2>7, <2>8 DEF PromptParts
  <1>. QED BY <1>1, <1>7, <1>8 DEF PrepareAllocate, PrepareGoto, TypeOK

\* An empty pool: the row goes, then the charge comes back.
LEMMA PromptWithdraw ==
    ASSUME NEW r \in Reqs, Undisturbed, PromptInv, PrepareDrop(r) \/ PrepareDropRefund(r)
    PROVE  PromptParts'
  <1>1. PromptParts /\ TypeOK /\ PreparesFit /\ HandlersKnow
    BY DEF PromptInv, PromptParts, SettleInv, RaceInv
  <1>2. /\ jobs[r] = 0 /\ pcap[r] = None /\ HoldOf(r) = None
        /\ \A w \in Workers : wreq[w] # r
        /\ \A s \in Submitters : sreq[s] # r
    BY <1>1, BeforeReturn DEF PrepareDrop, PrepareDropRefund, PromptParts, LinksFit
  <1>3. UNCHANGED <<row, holder, stamp, chain, burner, promoTodo, promoCur, presignOf,
                    queueVars, pcap, submitVars, workerVars, unknownVars, sweepVars>>
    BY DEF PrepareDrop, PrepareDropRefund
  <1>4. /\ ppc' = [ppc EXCEPT ![r] = ppc'[r]]
        /\ ppc'[r] \in {"dropRefund", "error"}
        /\ status' = [status EXCEPT ![r] = "none"]
        /\ overdue' = {}
        /\ refunded' \subseteq refunded \cup {r}
    BY <1>1 DEF PrepareDrop, PrepareDropRefund, refundCredits, PrepareGoto, TypeOK, PreparesFit,
                PromptParts, NothingStale
  <1>5. OneHandler'
    BY <1>1, <1>2, <1>3, <1>4, PreparesAlone DEF TypeOK
  <1>6. NothingStale'
    BY <1>1, <1>3, <1>4 DEF PromptParts, NothingStale, TypeOK
  <1>7. LinksFit'
    BY <1>1, <1>2, <1>3, <1>4 DEF PromptParts, LinksFit, TypeOK
  <1>8. HoldsFit'
    <2>1. ASSUME NEW q \in Reqs, HoldOf(q)' # None
          PROVE  HoldOf(q) # None /\ status'[q] = status[q]
      <3>1. q # r
        BY <1>1, <1>4, <2>1 DEF HoldOf, TypeOK
      <3>2. status'[q] = status[q]
        BY <1>1, <1>4, <3>1 DEF TypeOK
      <3>. QED BY <1>3, <2>1, <3>2 DEF HoldOf, GivingUp
    <2>2. \A q \in Reqs : Served(q)' <=> Served(q)
      BY <1>3 DEF Served
    <2>. QED BY <1>1, <1>3, <2>1, <2>2, HoldsStand DEF PromptParts
  <1>9. WorkersFit'
    <2>1. \A w \in Workers : wpc[w] # "idle" => status'[wreq[w]] = status[wreq[w]]
      BY <1>1, <1>2, <1>4 DEF TypeOK, HandlersKnow
    <2>. QED BY <1>1, <1>3, <2>1 DEF PromptParts, WorkersFit, WorkerFits
  <1>. QED BY <1>1, <1>3, <1>5, <1>6, <1>7, <1>8, <1>9, PromptFrames DEF PromptParts

\* The link, and the read of the bytes, which finds the cap there.
LEMMA PromptAnswer ==
    ASSUME NEW r \in Reqs, Undisturbed, PromptInv, PrepareLink(r) \/ PrepareFetch(r)
    PROVE  PromptParts'
  <1>1. PromptParts /\ TypeOK /\ HandlersKnow /\ ~Crashes
    BY DEF PromptInv, PromptParts, SettleInv, RaceInv, Undisturbed
  <1>2. ppc[r] \in {"link", "fetch"}
    BY DEF PrepareLink, PrepareFetch
  <1>3. /\ jobs[r] = 0 /\ status[r] = "prepared" /\ HoldOf(r) = pcap[r] /\ pcap[r] # None
        /\ \A w \in Workers : wreq[w] # r
        /\ \A s \in Submitters : sreq[s] # r
    BY <1>1, <1>2, BeforeReturn DEF PromptParts, LinksFit
  <1>4. row[pcap[r]] = "allocated" /\ chain[pcap[r]] = "valid"
    BY <1>1, <1>3 DEF PromptParts, HoldsFit, Served
  <1>5. /\ ppc' = [ppc EXCEPT ![r] = ppc'[r]]
        /\ ppc'[r] \in {"fetch", "returned"}
        /\ presignOf' = [presignOf EXCEPT ![r] = pcap[r]]
        /\ overdue' = {}
    BY <1>1, <1>2, <1>4 DEF PrepareLink, PrepareFetch, FetchPresignBytes, PrepareGoto, TypeOK,
                            PromptParts, NothingStale, LinksFit
  <1>6. UNCHANGED <<poolVars, status, ledgerVars, queueVars, pcap, submitVars, workerVars,
                    unknownVars, sweepVars>>
    BY <1>1, <1>4 DEF PrepareLink, PrepareFetch, FetchPresignBytes
  <1>7. OneHandler'
    BY <1>1, <1>3, <1>5, <1>6, PreparesAlone DEF TypeOK
  <1>8. NothingStale'
    BY <1>1, <1>5, <1>6 DEF PromptParts, NothingStale, TypeOK
  <1>9. LinksFit'
    BY <1>1, <1>2, <1>3, <1>5, <1>6 DEF PromptParts, LinksFit, TypeOK
  <1>. QED BY <1>1, <1>6, <1>7, <1>8, <1>9, PromptFrames DEF PromptParts

\* submitPreparedSign, one call per request at a time.
LEMMA PromptSubmit ==
    ASSUME NEW s \in Submitters, Undisturbed, OneAtATime, PromptInv,
           (\E r \in Reqs : SubmitRead(s, r)) \/ Submit(s)
    PROVE  PromptParts'
  <1>1. PromptParts /\ TypeOK /\ HandlersKnow /\ PreparesFit /\ KeysDistinct
    BY DEF PromptInv, PromptParts, SettleInv, RaceInv, Undisturbed
  <1>2. UNCHANGED <<poolVars, presignOf, ledgerVars, retries, prepareVars, workerVars,
                    unknownVars, sweepVars>>
    BY DEF Submit, SubmitRead, SubmitUpdate, SetStatus, SubmitEnqueue, enqueueSignProcess
  <1>3. ASSUME NEW r \in Reqs, SubmitRead(s, r)
        PROVE  PromptParts'
    <2>1. ppc[r] = "returned" /\ status[r] = "prepared" /\ spc[s] = "idle"
      BY <1>1, <1>3 DEF SubmitRead, KnownToClient, PreparesFit
    <2>2. /\ UNCHANGED <<requestVars, queueVars>>
          /\ spc' = [spc EXCEPT ![s] = "update"]
          /\ sreq' = [sreq EXCEPT ![s] = r]
      BY <1>3 DEF SubmitRead
    <2>3. \A w \in Workers : wpc[w] # "idle" => wreq[w] # r
      BY <1>1, <2>1 DEF PromptParts, OneHandler, StatusAt, TypeOK
    <2>4. OneHandler'
      BY <1>1, <1>2, <2>1, <2>2, <2>3 DEF PromptParts, OneHandler, TypeOK
    <2>. QED BY <1>1, <1>2, <2>2, <2>4, PromptFrames DEF PromptParts
  <1>4. CASE SubmitUpdate(s)
    <2>1. PICK r \in Reqs : r = sreq[s]
      BY <1>1, <1>4 DEF SubmitUpdate, TypeOK, HandlersKnow
    <2>2. /\ status[r] = "prepared" /\ jobs[r] = 0 /\ ppc[r] = "returned"
          /\ \A w \in Workers : wreq[w] # r
      <3>1. status[r] = "prepared" /\ jobs[r] = 0 /\ ppc[r] = "returned"
        BY <1>1, <1>4, <2>1 DEF SubmitUpdate, PromptParts, OneHandler
      <3>2. \A w \in Workers : wreq[w] # r
        BY <1>1, <2>1 DEF PromptParts, OneHandler
      <3>. QED BY <3>1, <3>2
    <2>3. /\ status'[r] = "queued" /\ \A q \in Reqs : q # r => status'[q] = status[q]
          /\ overdue' = {} /\ UNCHANGED <<jobs, sreq>>
          /\ spc' = [spc EXCEPT ![s] = "enqueue"]
      BY <1>1, <1>4, <2>1, <2>2 DEF SubmitUpdate, SetStatus, TypeOK, PromptParts, NothingStale
    <2>4. \A t \in Submitters : t # s => sreq[t] # r
      BY <2>1 DEF OneAtATime
    <2>5. ASSUME NEW w \in Workers, wpc[w] # "idle"
          PROVE  status'[wreq[w]] = status[wreq[w]]
      BY <2>2, <2>3, <2>5, WorkerServes DEF PromptInv, SettleInv
    <2>6. OneHandler'
      <3>1. \A t \in Submitters : t # s /\ spc[t] # "idle" => status'[sreq[t]] = status[sreq[t]]
        BY <1>1, <2>3, <2>4 DEF TypeOK, HandlersKnow
      <3>. QED BY <1>1, <1>2, <2>1, <2>2, <2>3, <2>5, <3>1 DEF PromptParts, OneHandler, TypeOK
    <2>7. NothingStale' /\ LinksFit'
      BY <1>1, <1>2, <2>2, <2>3 DEF PromptParts, NothingStale, LinksFit
    <2>8. HoldsFit'
      <3>1. ASSUME NEW q \in Reqs, HoldOf(q)' # None
            PROVE  /\ HoldOf(q) # None
                   /\ status'[q] \in {"prepared", "queued"} => status[q] \in {"prepared", "queued"}
        BY <1>2, <2>2, <2>3, <3>1 DEF HoldOf, GivingUp
      <3>2. \A q \in Reqs : Served(q)' <=> Served(q)
        BY <1>2 DEF Served
      <3>. QED BY <1>1, <1>2, <3>1, <3>2, HoldsStand DEF PromptParts
    <2>9. WorkersFit'
      BY <1>1, <1>2, <2>5 DEF PromptParts, WorkersFit, WorkerFits
    <2>. QED BY <1>1, <1>2, <2>6, <2>7, <2>8, <2>9, PromptFrames DEF PromptParts
  <1>5. CASE SubmitEnqueue(s)
    <2>1. PICK r \in Reqs : r = sreq[s]
      BY <1>1, <1>5 DEF SubmitEnqueue, TypeOK, HandlersKnow
    <2>2. /\ status[r] = "queued" /\ jobs[r] = 0 /\ spc[s] # "idle"
          /\ \A w \in Workers : wreq[w] # r
      <3>1. status[r] = "queued" /\ jobs[r] = 0 /\ spc[s] # "idle"
        BY <1>1, <1>5, <2>1 DEF SubmitEnqueue, PromptParts, OneHandler
      <3>2. \A w \in Workers : wreq[w] # r
        BY <1>1, <2>1 DEF PromptParts, OneHandler
      <3>. QED BY <3>1, <3>2
    <2>3. /\ jobs'[r] = 1 /\ \A q \in Reqs : q # r => jobs'[q] = jobs[q]
          /\ spc' = [spc EXCEPT ![s] = "idle"]
          /\ sreq' = [sreq EXCEPT ![s] = None]
          /\ UNCHANGED requestVars
      BY <1>1, <1>5, <2>1, <2>2 DEF SubmitEnqueue, SubmitDone, enqueueSignProcess, TypeOK
    <2>4. \A t \in Submitters : t # s => sreq[t] # r
      BY <2>1 DEF OneAtATime
    <2>5. ASSUME NEW w \in Workers, wpc[w] # "idle"
          PROVE  jobs'[wreq[w]] = jobs[wreq[w]]
      BY <2>2, <2>3, <2>5, WorkerServes DEF PromptInv, SettleInv
    <2>6. OneHandler'
      <3>1. \A t \in Submitters : t # s /\ spc[t] # "idle" => jobs'[sreq[t]] = jobs[sreq[t]]
        BY <1>1, <2>3, <2>4 DEF TypeOK, HandlersKnow
      <3>2. \A t \in Submitters : t # s => spc'[t] = spc[t] /\ sreq'[t] = sreq[t]
        BY <1>1, <2>3 DEF TypeOK
      <3>3. spc'[s] = "idle" /\ sreq'[s] = None
        BY <1>1, <2>3 DEF TypeOK
      <3>4. ASSUME NEW w \in Workers, wpc[w] # "idle", NEW t \in Submitters
            PROVE  sreq'[t] # wreq[w]
        <4>1. wreq[w] \in Reqs
          BY <3>4, WorkerServes DEF PromptInv, SettleInv
        <4>2. sreq[t] # wreq[w]
          BY <1>1, <3>4 DEF PromptParts, OneHandler
        <4>. QED BY <3>2, <3>3, <4>1, <4>2
      <3>. QED BY <1>1, <1>2, <2>2, <2>3, <2>5, <3>1, <3>2, <3>3, <3>4
           DEF PromptParts, OneHandler
    <2>. QED BY <1>1, <1>2, <2>3, <2>6, PromptFrames DEF PromptParts
  <1>. QED BY <1>3, <1>4, <1>5 DEF Submit

\* A worker goes on to another step of its job, and only its own request moves.
LEMMA WorkerGoesOn ==
    ASSUME PromptInv, NEW w \in Workers, wpc[w] \notin {"idle", "refund"},
           UNCHANGED <<spc, sreq, ppc, jobs, wreq>>, wpc'[w] # "idle",
           \A v \in Workers : v # w => wpc'[v] = wpc[v],
           \A q \in Reqs : q # wreq[w] => status'[q] = status[q],
           status'[wreq[w]] \in StatusAt(wpc'[w])
    PROVE  OneHandler'
  <1>1. wreq[w] \in Reqs /\ OneHandler /\ TypeOK /\ HandlersKnow
    BY WorkerServes DEF PromptInv, SettleInv, RaceInv
  <1>2. jobs[wreq[w]] = 0 /\ \A s \in Submitters : sreq[s] # wreq[w]
    BY <1>1 DEF OneHandler
  <1>3. ASSUME NEW v \in Workers, v # w, wpc[v] # "idle"
        PROVE  status'[wreq[v]] = status[wreq[v]]
    <2>1. wreq[v] \in Reqs /\ wreq[v] # wreq[w]
      BY <1>3, WorkersApart, WorkerServes DEF PromptInv, SettleInv
    <2>. QED BY <2>1
  <1>4. ASSUME NEW s \in Submitters, spc[s] # "idle"
        PROVE  status'[sreq[s]] = status[sreq[s]]
    BY <1>1, <1>2, <1>4 DEF TypeOK, HandlersKnow
  <1>5. /\ \A s \in Submitters :
             /\ spc'[s] = "idle" => sreq'[s] = None
             /\ spc'[s] # "idle" => ppc'[sreq'[s]] = "returned"
             /\ spc'[s] = "update" => status'[sreq'[s]] = "prepared"
             /\ spc'[s] = "enqueue" => status'[sreq'[s]] = "queued" /\ jobs'[sreq'[s]] = 0
    BY <1>1, <1>4 DEF OneHandler
  <1>6. ASSUME NEW v \in Workers
        PROVE  /\ wpc'[v] = "idle" => wreq'[v] = None
               /\ wpc'[v] # "idle" =>
                    /\ status'[wreq'[v]] \in StatusAt(wpc'[v])
                    /\ wpc'[v] # "refund" => jobs'[wreq'[v]] = 0
                    /\ \A u \in Workers : wreq'[u] = wreq'[v] => u = v
                    /\ \A s \in Submitters : sreq'[s] # wreq'[v]
    <2>1. CASE v = w
      BY <1>1, <1>2, <2>1 DEF OneHandler
    <2>2. CASE v # w
      BY <1>1, <1>3, <2>2 DEF OneHandler, StatusAt
    <2>. QED BY <2>1, <2>2
  <1>7. \A q \in Reqs : /\ status'[q] \in {"none", "prepared"} => jobs'[q] = 0
                        /\ status'[q] = "queued" => jobs'[q] <= 1
    BY <1>1, <1>2 DEF OneHandler
  <1>. QED BY <1>5, <1>6, <1>7 DEF OneHandler, StatusAt

\* A worker writes to its own presign and to nobody else's: what the other
\* requests hold is as it was.
LEMMA HoldsMove ==
    ASSUME PromptInv, NEW w \in Workers, wpc[w] \notin {"idle", "fail", "refund"},
           UNCHANGED <<pcap, wreq>>,
           \A v \in Workers : v # w => wpc'[v] = wpc[v],
           \A q \in Reqs : q # wreq[w] => status'[q] = status[q],
           \A d \in Caps : d # wcap[w] =>
               row'[d] = row[d] /\ holder'[d] = holder[d] /\ chain'[d] = chain[d],
           wpc'[w] = "fail" \/ /\ holder'[wcap[w]] = holder[wcap[w]]
                               /\ row'[wcap[w]] \in {"allocated", "consumed_pending", "used"}
    PROVE  HoldsFit'
  <1>1. /\ wreq[w] \in Reqs /\ wcap[w] \in Caps /\ wcap[w] = pcap[wreq[w]]
        /\ HoldOf(wreq[w]) = wcap[w] /\ holder[wcap[w]] = wreq[w]
    BY WorkerHasIt
  <1>2. HoldsFit /\ TypeOK
    BY DEF PromptInv, SettleInv, RaceInv
  <1>3. ASSUME NEW q \in Reqs, q # wreq[w], HoldOf(q)' # None
        PROVE  /\ HoldOf(q) # None /\ pcap[q] \in Caps /\ pcap[q] # wcap[w]
               /\ status'[q] = status[q] /\ (Served(q)' <=> Served(q))
    <2>1. GivingUp(q) => GivingUp(q)'
      BY <1>3 DEF GivingUp
    <2>2. HoldOf(q) # None
      BY <1>3, <2>1 DEF HoldOf
    <2>3. pcap[q] \in Caps
      BY <1>2, <2>2 DEF HoldOf, TypeOK
    <2>4. pcap[q] # wcap[w]
      BY <1>1, <1>3, <2>2, HoldsApart
    <2>5. Served(q)' <=> Served(q)
      BY DEF Served
    <2>. QED BY <1>3, <2>2, <2>3, <2>4, <2>5
  <1>4. ASSUME NEW q \in Reqs, q = wreq[w], HoldOf(q)' # None
        PROVE  /\ wpc'[w] # "fail" /\ Served(q)'
    BY <1>4 DEF HoldOf, GivingUp, Served
  <1>5. ASSUME NEW q \in Reqs, HoldOf(q)' # None
        PROVE  /\ holder'[pcap'[q]] = q
               /\ row'[pcap'[q]] \in {"allocated", "consumed_pending", "used"}
               /\ status'[q] \in {"prepared", "queued"} /\ ~Served(q)' =>
                    row'[pcap'[q]] = "allocated" /\ chain'[pcap'[q]] = "valid"
    <2>1. CASE q = wreq[w]
      BY <1>1, <1>4, <1>5, <2>1
    <2>2. CASE q # wreq[w]
      BY <1>2, <1>3, <1>5, <2>2 DEF HoldsFit
    <2>. QED BY <2>1, <2>2
  <1>. QED BY <1>5 DEF HoldsFit

\* And so is what the other workers have.
LEMMA WorkersMove ==
    ASSUME PromptInv, NEW w \in Workers, wpc[w] # "idle",
           \A v \in Workers : v # w => wpc'[v] = wpc[v] /\ wreq'[v] = wreq[v] /\ wcap'[v] = wcap[v],
           \A q \in Reqs : q # wreq[w] => status'[q] = status[q],
           \A d \in Caps : \/ row'[d] = row[d] /\ chain'[d] = chain[d]
                           \/ d = wcap[w] /\ wpc[w] \notin {"fail", "refund"},
           WorkerFits(w)'
    PROVE  WorkersFit'
  <1>1. ASSUME NEW v \in Workers, v # w
        PROVE  WorkerFits(v)'
    <2>1. CASE wpc[v] \in {"idle", "fail", "refund"}
      BY <1>1, <2>1 DEF WorkerFits
    <2>2. CASE wpc[v] \notin {"idle", "fail", "refund"}
      <3>1. wreq[v] \in Reqs /\ wcap[v] \in Caps
        BY <2>2, WorkerHasIt
      <3>2. /\ wreq[v] # wreq[w]
            /\ wpc[w] \notin {"fail", "refund"} => wcap[v] # wcap[w]
        BY <1>1, <2>2, WorkersApart
      <3>3. /\ row'[wcap[v]] = row[wcap[v]] /\ chain'[wcap[v]] = chain[wcap[v]]
            /\ status'[wreq[v]] = status[wreq[v]]
        BY <3>1, <3>2
      <3>4. WorkerFits(v)
        BY DEF PromptInv, WorkersFit
      <3>. QED BY <1>1, <3>3, <3>4 DEF WorkerFits
    <2>. QED BY <2>1, <2>2
  <1>. QED BY <1>1 DEF WorkersFit

\* A presign that is out of the pool moves on.
LEMMA PoolMoves ==
    ASSUME PromptInv, NEW c \in Caps,
           row[c] \notin {"absent", "pending"},
           row'[c] \in {"ready", "allocated", "consumed_pending", "used"},
           chain'[c] \in {chain[c], "burned"},
           \A d \in Caps : d # c => row'[d] = row[d] /\ chain'[d] = chain[d],
           UNCHANGED <<pcap, promoTodo, promoCur>>
    PROVE  PoolFits'
  <1>1. PoolFits /\ PoolTypeOK
    BY DEF PromptInv, SettleInv, RaceInv, TypeOK
  <1>2. chain[c] \notin {"unminted", "minting"}
    BY <1>1 DEF PoolFits
  <1>3. ASSUME NEW d \in Caps
        PROVE  /\ row'[d] \in {"absent", "pending"} =>
                    chain'[d] # "burned" /\ \A r \in Reqs : pcap'[r] # d
               /\ chain'[d] \in {"unminted", "minting"} => row'[d] \in {"absent", "pending"}
               /\ row'[d] # "failed"
    BY <1>1, <1>2 DEF PoolFits
  <1>4. ASSUME NEW x \in Sweepers
        PROVE  /\ \A d \in promoTodo'[x] : row'[d] = "pending" /\ d # promoCur'[x]
               /\ promoCur'[x] # None =>
                    row'[promoCur'[x]] = "pending" /\ chain'[promoCur'[x]] = "valid"
    BY <1>1 DEF PoolFits, PoolTypeOK
  <1>. QED BY <1>3, <1>4 DEF PoolFits

\* A worker that has not lost sight of its transaction has none out there.
LEMMA UnknownStands ==
    ASSUME PromptInv, NEW w \in Workers, wpc[w] # "retire", UNCHANGED unknownTx,
           \A v \in Workers : v # w => wpc'[v] = wpc[v] /\ wreq'[v] = wreq[v] /\ wcap'[v] = wcap[v],
           \A d \in Caps : \/ row'[d] = row[d]
                           \/ /\ d = wcap[w] /\ row[d] # "used"
                              /\ wpc[w] \notin {"idle", "fail", "refund"}
    PROVE  UnknownFits'
  <1>1. ASSUME NEW r \in Reqs, NEW c \in Caps, <<r, c>> \in unknownTx
        PROVE  \/ row'[c] = "used"
               \/ /\ row'[c] = "allocated"
                  /\ \E v \in Workers : wpc'[v] = "retire" /\ wreq'[v] = r /\ wcap'[v] = c
    <2>1. CASE row[c] = "used"
      BY <2>1
    <2>2. ASSUME row[c] = "allocated", NEW v \in Workers,
                 wpc[v] = "retire", wreq[v] = r, wcap[v] = c
          PROVE  row'[c] = "allocated" /\ v # w
      <3>1. v # w
        BY <2>2
      <3>2. wpc[w] \notin {"idle", "fail", "refund"} => c # wcap[w]
        BY <2>2, <3>1, WorkersApart
      <3>. QED BY <2>2, <3>1, <3>2
    <2>. QED BY <1>1, <2>1, <2>2 DEF PromptInv, UnknownFits
  <1>. QED BY <1>1 DEF UnknownFits

\* A job in the queue is of a request that no handler has, or of one that has
\* ended.
LEMMA JobWaits ==
    ASSUME PromptInv, NEW r \in Reqs, jobs[r] > 0
    PROVE  /\ status[r] \notin {"none", "prepared"}
           /\ \A s \in Submitters : spc[s] = "enqueue" => sreq[s] # r
           /\ \A w \in Workers : wpc[w] \notin {"idle", "refund"} => wreq[w] # r
           /\ status[r] = "queued" => /\ jobs[r] = 1
                                      /\ \A s \in Submitters : sreq[s] # r
                                      /\ \A w \in Workers : wreq[w] # r
  <1>1. OneHandler /\ TypeOK /\ HandlersKnow
    BY DEF PromptInv, SettleInv, RaceInv
  <1>2. jobs[r] \in Nat
    BY <1>1 DEF TypeOK
  <1>3. /\ status[r] \notin {"none", "prepared"}
        /\ \A s \in Submitters : spc[s] = "enqueue" => sreq[s] # r
        /\ \A w \in Workers : wpc[w] \notin {"idle", "refund"} => wreq[w] # r
    BY <1>1, <1>2 DEF OneHandler
  <1>4. ASSUME status[r] = "queued"
        PROVE  /\ jobs[r] = 1
               /\ \A s \in Submitters : sreq[s] # r
               /\ \A w \in Workers : wreq[w] # r
    <2>1. jobs[r] = 1
      BY <1>1, <1>2, <1>4 DEF OneHandler
    <2>2. \A s \in Submitters : sreq[s] # r
      BY <1>1, <1>3, <1>4 DEF OneHandler, TypeOK
    <2>3. \A w \in Workers : wreq[w] # r
      BY <1>1, <1>3, <1>4 DEF OneHandler, StatusAt, TypeOK
    <2>. QED BY <2>1, <2>2, <2>3
  <1>. QED BY <1>3, <1>4

\* The worker takes a job off the queue.
LEMMA PromptTake ==
    ASSUME NEW w \in Workers, NEW r \in Reqs, Undisturbed, PromptInv,
           WorkerDrop(w, r) \/ WorkerRead(w, r)
    PROVE  PromptParts'
  <1>1. PromptParts /\ TypeOK /\ HandlersKnow /\ PreparesFit
    BY DEF PromptInv, PromptParts, SettleInv, RaceInv
  <1>2. /\ wpc[w] = "idle" /\ jobs[r] > 0 /\ jobs' = [jobs EXCEPT ![r] = @ - 1]
        /\ UNCHANGED <<poolVars, requestVars, ledgerVars, retries, prepareVars, submitVars,
                       unknownVars, sweepVars>>
    BY DEF WorkerDrop, WorkerRead
  <1>3. /\ status[r] \notin {"none", "prepared"}
        /\ \A s \in Submitters : spc[s] = "enqueue" => sreq[s] # r
        /\ \A v \in Workers : wpc[v] \notin {"idle", "refund"} => wreq[v] # r
    BY <1>2, JobWaits
  <1>4. /\ \A q \in Reqs : q # r => jobs'[q] = jobs[q]
        /\ jobs[r] \in Nat /\ jobs'[r] = jobs[r] - 1
    BY <1>1, <1>2 DEF TypeOK
  <1>5. ASSUME NEW s \in Submitters, spc[s] = "enqueue"
        PROVE  jobs'[sreq[s]] = jobs[sreq[s]]
    BY <1>1, <1>3, <1>4, <1>5 DEF TypeOK, HandlersKnow
  <1>6. ASSUME NEW v \in Workers, wpc[v] \notin {"idle", "refund"}
        PROVE  jobs'[wreq[v]] = jobs[wreq[v]]
    BY <1>3, <1>4, <1>6, WorkerServes DEF PromptInv, SettleInv
  <1>7. \A q \in Reqs : /\ status[q] \in {"none", "prepared"} => jobs'[q] = 0
                        /\ status[q] = "queued" => jobs'[q] <= 1
    BY <1>1, <1>3, <1>4 DEF PromptParts, OneHandler
  <1>8. CASE WorkerDrop(w, r)
    <2>1. UNCHANGED workerVars
      BY <1>8 DEF WorkerDrop
    <2>2. OneHandler'
      BY <1>1, <1>2, <1>5, <1>6, <1>7, <2>1 DEF PromptParts, OneHandler, StatusAt
    <2>. QED BY <1>1, <1>2, <2>1, <2>2, PromptFrames DEF PromptParts
  <1>9. CASE WorkerRead(w, r)
    <2>1. /\ jobs[r] = 1 /\ status[r] = "queued"
          /\ \A s \in Submitters : sreq[s] # r
          /\ \A v \in Workers : wreq[v] # r
      BY <1>2, <1>9, JobWaits DEF WorkerRead
    <2>2. ppc[r] = "returned" /\ presignOf[r] = pcap[r] /\ pcap[r] # None
      BY <1>1, <2>1, BeforeReturn DEF PromptParts, LinksFit
    <2>3. /\ wpc'[w] = "execute" /\ wreq'[w] = r /\ wcap'[w] = pcap[r]
          /\ \A v \in Workers : v # w => /\ wpc'[v] = wpc[v] /\ wreq'[v] = wreq[v]
                                         /\ wcap'[v] = wcap[v]
      BY <1>1, <1>9, <2>2 DEF WorkerRead, TypeOK
    <2>4. OneHandler'
      <3>1. ASSUME NEW v \in Workers
            PROVE  /\ wpc'[v] = "idle" => wreq'[v] = None
                   /\ wpc'[v] # "idle" =>
                        /\ status'[wreq'[v]] \in StatusAt(wpc'[v])
                        /\ wpc'[v] # "refund" => jobs'[wreq'[v]] = 0
                        /\ \A u \in Workers : wreq'[u] = wreq'[v] => u = v
                        /\ \A s \in Submitters : sreq'[s] # wreq'[v]
        <4>1. CASE v = w
          BY <1>2, <1>4, <2>1, <2>3, <4>1 DEF StatusAt
        <4>2. CASE v # w
          BY <1>1, <1>2, <1>6, <2>1, <2>3, <4>2 DEF PromptParts, OneHandler, StatusAt
        <4>. QED BY <4>1, <4>2
      <3>2. /\ \A s \in Submitters :
             /\ spc'[s] = "idle" => sreq'[s] = None
             /\ spc'[s] # "idle" => ppc'[sreq'[s]] = "returned"
             /\ spc'[s] = "update" => status'[sreq'[s]] = "prepared"
             /\ spc'[s] = "enqueue" => status'[sreq'[s]] = "queued" /\ jobs'[sreq'[s]] = 0
        BY <1>1, <1>2, <1>5 DEF PromptParts, OneHandler
      <3>. QED BY <1>2, <1>7, <3>1, <3>2 DEF OneHandler, StatusAt
    <2>5. \A q \in Reqs : GivingUp(q)' <=> GivingUp(q)
      BY <1>2, <2>3 DEF GivingUp
    <2>6. \A q \in Reqs : Served(q) => Served(q)'
      BY <1>1, <1>2, <2>3 DEF Served, PromptParts, OneHandler
    <2>7. HoldsFit'
      BY <1>1, <1>2, <2>5, <2>6, HoldsStand DEF PromptParts, HoldOf
    <2>8. row[pcap[r]] = "allocated" /\ chain[pcap[r]] = "valid"
      <3>1. ~Served(r) /\ ~GivingUp(r)
        BY <2>1 DEF Served, GivingUp
      <3>. QED BY <1>1, <2>1, <2>2, <3>1 DEF PromptParts, HoldsFit, HoldOf
    <2>9. WorkersFit'
      BY <1>1, <1>2, <2>3, <2>8 DEF PromptParts, WorkersFit, WorkerFits
    <2>10. UnknownFits'
      BY <1>2, <2>3, UnknownStands
    <2>. QED BY <1>1, <1>2, <2>4, <2>7, <2>9, <2>10, PromptFrames DEF PromptParts
  <1>. QED BY <1>8, <1>9

\* The steps of processSignJob from execute to the presign's last write.
LEMMA PromptProcess ==
    ASSUME NEW w \in Workers, Undisturbed, PromptInv,
           \/ WorkerAbandon(w) \/ WorkerExecuted(w) \/ WorkerNotExecuted(w)
           \/ WorkerUnknown(w) \/ WorkerNoLock(w) \/ WorkerRollback(w)
           \/ WorkerRetire(w) \/ WorkerConsumed(w) \/ WorkerSubmitted(w) \/ WorkerPoll(w)
           \/ WorkerUsed(w)
    PROVE  PromptParts'
  <1>1. PromptParts /\ TypeOK /\ PoolTypeOK /\ HandlersKnow
    BY DEF PromptInv, PromptParts, SettleInv, RaceInv, TypeOK
  <1>. USE DEF WorkerAbandon, WorkerExecuted, WorkerNotExecuted, WorkerUnknown, WorkerNoLock,
               WorkerRollback, WorkerRetire, WorkerConsumed, WorkerSubmitted, WorkerPoll,
               WorkerUsed
  <1>2. /\ wpc[w] \in {"execute", "rollback", "retire", "consumed", "submitted", "poll", "used"}
        /\ UNCHANGED <<presignOf, ledgerVars, queueVars, prepareVars, submitVars, recon,
                       sweepVars, sweeperVars>>
    BY DEF SetStatus
  <1>3. DEFINE c == wcap[w]
               r == wreq[w]
  <1>4. /\ r \in Reqs /\ c \in Caps /\ c = pcap[r] /\ HoldOf(r) = c
        /\ holder[c] = r /\ ppc[r] = "returned" /\ WorkerFits(w)
        /\ status[r] \in StatusAt(wpc[w])
    BY <1>1, <1>2, WorkerHasIt DEF PromptParts, WorkersFit, OneHandler
  <1>5. /\ UNCHANGED <<wreq, wcap>>
        /\ \A v \in Workers : v # w => wpc'[v] = wpc[v]
    BY <1>1 DEF WorkerGoto, WorkerThrows, TypeOK
  <1>6. /\ wpc[w] = "execute" => wpc'[w] \in {"fail", "consumed", "rollback", "retire"}
        /\ wpc[w] \in {"rollback", "retire"} => wpc'[w] = "fail"
        /\ wpc[w] = "consumed" => wpc'[w] = "submitted"
        /\ wpc[w] = "submitted" => wpc'[w] \in {"poll", "retire"}
        /\ wpc[w] = "poll" => wpc'[w] \in {"used", "retire"}
        /\ wpc[w] = "used" => wpc'[w] = "complete"
    BY <1>1 DEF WorkerGoto, WorkerThrows, TypeOK
  <1>7. /\ \A q \in Reqs : q # r => status'[q] = status[q]
        /\ status'[r] = IF wpc[w] = "submitted" THEN "submitted" ELSE status[r]
        /\ overdue' = {}
    BY <1>1, <1>4 DEF SetStatus, StatusAt, TypeOK, PromptParts, NothingStale
  <1>8. /\ \A d \in Caps : d # c => row'[d] = row[d] /\ holder'[d] = holder[d]
                                    /\ chain'[d] = chain[d]
        /\ \A d \in Caps : stamp'[d] # "old"
        /\ chain'[c] = IF wpc'[w] = "consumed" THEN "burned" ELSE chain[c]
        /\ wpc[w] # "rollback" => holder'[c] = holder[c]
        /\ row'[c] = CASE wpc[w] = "rollback" -> "ready"
                       [] wpc[w] \in {"retire", "used"} -> "used"
                       [] wpc[w] = "consumed" -> "consumed_pending"
                       [] OTHER -> row[c]
    <2>1. \A d \in Caps : stamp[d] # "old"
      BY <1>1 DEF PromptParts, NothingStale
    <2>. QED BY <1>1, <1>4, <2>1 DEF PoolTypeOK, Burn, rollbackToReady, markUsed,
             markConsumedPending, WorkerGoto, WorkerThrows, TypeOK
  <1>. HIDE DEF WorkerAbandon, WorkerExecuted, WorkerNotExecuted, WorkerUnknown, WorkerNoLock,
                WorkerRollback, WorkerRetire, WorkerConsumed, WorkerSubmitted, WorkerPoll,
                WorkerUsed, c, r
  <1>9. OneHandler'
    <2>1. status'[r] \in StatusAt(wpc'[w]) /\ wpc'[w] # "idle"
      BY <1>2, <1>4, <1>6, <1>7 DEF StatusAt
    <2>. QED BY <1>2, <1>5, <1>7, <2>1, WorkerGoesOn DEF r
  <1>10. row'[c] \in {"ready", "allocated", "consumed_pending", "used"}
         /\ row[c] \in {"allocated", "consumed_pending"}
    BY <1>2, <1>4, <1>8 DEF WorkerFits, c
  <1>11. HoldsFit'
    <2>1. wpc'[w] = "fail" \/ /\ holder'[c] = holder[c]
                              /\ row'[c] \in {"allocated", "consumed_pending", "used"}
      BY <1>2, <1>6, <1>8, <1>10
    <2>. QED BY <1>2, <1>5, <1>7, <1>8, <2>1, HoldsMove DEF c, r
  <1>12. WorkersFit'
    <2>1. wcap'[w] = c /\ wreq'[w] = r
      BY <1>5 DEF c, r
    <2>2. WorkerFits(w)'
      BY <1>2, <1>4, <1>6, <1>7, <1>8, <2>1 DEF WorkerFits, StatusAt, c, r
    <2>. QED BY <1>2, <1>5, <1>7, <1>8, <2>2, WorkersMove DEF c, r
  <1>13. PoolFits'
    BY <1>2, <1>4, <1>8, <1>10, PoolMoves
  <1>14. ReadyIsUnspent'
    <2>1. wpc[w] = "rollback" => chain[c] = "valid" /\ wpc'[w] = "fail"
      BY <1>4, <1>6 DEF WorkerFits, c
    <2>2. row'[c] = "ready" => chain'[c] = "valid"
      BY <1>8, <1>10, <2>1
    <2>. QED BY <1>1, <1>8, <2>2 DEF PromptParts, ReadyIsUnspent
  <1>15. NothingStale' /\ LinksFit'
    <2>1. NothingStale'
      BY <1>1, <1>2, <1>7, <1>8 DEF PromptParts, NothingStale
    <2>2. status[r] \in {"queued", "submitted"} /\ status'[r] \in {"queued", "submitted"}
      BY <1>2, <1>4, <1>7 DEF StatusAt
    <2>3. LinksFit'
      BY <1>1, <1>2, <1>4, <1>7, <2>2 DEF PromptParts, LinksFit
    <2>. QED BY <2>1, <2>3
  <1>16. UnknownFits'
    <2>1. CASE wpc[w] # "retire" /\ UNCHANGED unknownTx
      <3>1. \A d \in Caps : row'[d] = row[d] \/ (d = c /\ row[d] # "used")
        BY <1>8, <1>10
      <3>. QED BY <1>2, <1>5, <2>1, <3>1, UnknownStands DEF c
    <2>2. CASE wpc[w] = "retire" /\ UNCHANGED unknownTx
      <3>1. ASSUME NEW q \in Reqs, NEW d \in Caps, <<q, d>> \in unknownTx'
            PROVE  \/ row'[d] = "used"
                   \/ /\ row'[d] = "allocated"
                      /\ \E v \in Workers : wpc'[v] = "retire" /\ wreq'[v] = q /\ wcap'[v] = d
        <4>1. CASE d = c
          BY <1>8, <2>2, <4>1
        <4>2. CASE d # c
          <5>1. \/ row[d] = "used"
                \/ /\ row[d] = "allocated"
                   /\ \E v \in Workers : wpc[v] = "retire" /\ wreq[v] = q /\ wcap[v] = d
            BY <1>1, <2>2, <3>1 DEF PromptParts, UnknownFits
          <5>. QED BY <1>5, <1>8, <4>2, <5>1 DEF c
        <4>. QED BY <4>1, <4>2
      <3>. QED BY <3>1 DEF UnknownFits
    <2>3. CASE WorkerUnknown(w)
      <3>1. /\ unknownTx' = unknownTx \cup {<<r, c>>}
            /\ wpc[w] = "execute" /\ wpc'[w] = "retire" /\ UNCHANGED row
        BY <1>1, <2>3 DEF WorkerUnknown, WorkerThrows, TypeOK, r, c
      <3>2. ASSUME NEW q \in Reqs, NEW d \in Caps, <<q, d>> \in unknownTx'
            PROVE  \/ row'[d] = "used"
                   \/ /\ row'[d] = "allocated"
                      /\ \E v \in Workers : wpc'[v] = "retire" /\ wreq'[v] = q /\ wcap'[v] = d
        <4>1. CASE <<q, d>> = <<r, c>>
          BY <1>4, <1>5, <3>1, <4>1 DEF WorkerFits, r, c
        <4>2. CASE <<q, d>> \in unknownTx
          <5>1. \/ row[d] = "used"
                \/ /\ row[d] = "allocated"
                   /\ \E v \in Workers : wpc[v] = "retire" /\ wreq[v] = q /\ wcap[v] = d
            BY <1>1, <4>2 DEF PromptParts, UnknownFits
          <5>. QED BY <1>5, <3>1, <5>1
        <4>. QED BY <3>1, <3>2, <4>1, <4>2
      <3>. QED BY <3>2 DEF UnknownFits
    <2>4. WorkerUnknown(w) \/ UNCHANGED unknownTx
      BY DEF WorkerAbandon, WorkerExecuted, WorkerNotExecuted, WorkerNoLock, WorkerRollback,
             WorkerRetire, WorkerConsumed, WorkerSubmitted, WorkerPoll, WorkerUsed
    <2>. QED BY <2>1, <2>2, <2>3, <2>4
  <1>. QED
    BY <1>9, <1>11, <1>12, <1>13, <1>14, <1>15, <1>16 DEF PromptParts

\* The job is done, or goes back to the queue, and the request has settled.
LEMMA WorkerEnds ==
    ASSUME PromptInv, NEW w \in Workers, wpc[w] # "idle",
           UNCHANGED <<spc, sreq, ppc>>, wpc'[w] = "idle", wreq'[w] = None,
           \A v \in Workers : v # w => wpc'[v] = wpc[v] /\ wreq'[v] = wreq[v],
           \A q \in Reqs : q # wreq[w] => status'[q] = status[q] /\ jobs'[q] = jobs[q],
           status'[wreq[w]] \notin {"none", "prepared", "queued"}
    PROVE  OneHandler'
  <1>1. wreq[w] \in Reqs /\ OneHandler /\ TypeOK /\ HandlersKnow
    BY WorkerServes DEF PromptInv, SettleInv, RaceInv
  <1>2. ASSUME NEW v \in Workers, v # w, wpc[v] # "idle"
        PROVE  /\ wreq[v] \in Reqs
               /\ status'[wreq[v]] = status[wreq[v]] /\ jobs'[wreq[v]] = jobs[wreq[v]]
    <2>1. wreq[v] \in Reqs /\ wreq[v] # wreq[w]
      BY <1>2, WorkersApart, WorkerServes DEF PromptInv, SettleInv
    <2>. QED BY <2>1
  <1>3. ASSUME NEW s \in Submitters, spc[s] # "idle"
        PROVE  status'[sreq[s]] = status[sreq[s]] /\ jobs'[sreq[s]] = jobs[sreq[s]]
    <2>1. sreq[s] \in Reqs /\ sreq[s] # wreq[w]
      BY <1>1, <1>3 DEF OneHandler, TypeOK, HandlersKnow
    <2>. QED BY <2>1
  <1>4. /\ \A s \in Submitters :
             /\ spc'[s] = "idle" => sreq'[s] = None
             /\ spc'[s] # "idle" => ppc'[sreq'[s]] = "returned"
             /\ spc'[s] = "update" => status'[sreq'[s]] = "prepared"
             /\ spc'[s] = "enqueue" => status'[sreq'[s]] = "queued" /\ jobs'[sreq'[s]] = 0
    BY <1>1, <1>3 DEF OneHandler
  <1>5. ASSUME NEW v \in Workers
        PROVE  /\ wpc'[v] = "idle" => wreq'[v] = None
               /\ wpc'[v] # "idle" =>
                    /\ status'[wreq'[v]] \in StatusAt(wpc'[v])
                    /\ wpc'[v] # "refund" => jobs'[wreq'[v]] = 0
                    /\ \A u \in Workers : wreq'[u] = wreq'[v] => u = v
                    /\ \A s \in Submitters : sreq'[s] # wreq'[v]
    <2>1. CASE v = w
      BY <2>1
    <2>2. CASE v # w
      BY <1>1, <1>2, <2>2 DEF OneHandler, StatusAt
    <2>. QED BY <2>1, <2>2
  <1>6. \A q \in Reqs : /\ status'[q] \in {"none", "prepared"} => jobs'[q] = 0
                        /\ status'[q] = "queued" => jobs'[q] <= 1
    BY <1>1 DEF OneHandler
  <1>. QED BY <1>4, <1>5, <1>6 DEF OneHandler, StatusAt

\* The status the request ends with, and the refund of one that failed.
LEMMA PromptSettle ==
    ASSUME NEW w \in Workers, Undisturbed, PromptInv,
           WorkerComplete(w) \/ WorkerFail(w) \/ WorkerRefund(w)
    PROVE  PromptParts'
  <1>1. PromptParts /\ TypeOK /\ HandlersKnow /\ PreparesFit
    BY DEF PromptInv, PromptParts, SettleInv, RaceInv
  <1>2. /\ wpc[w] \in {"complete", "fail", "refund"}
        /\ UNCHANGED <<rowVars, chainVars, sweeperVars, presignOf, charged, prepareVars,
                       submitVars, unknownVars, sweepVars>>
    BY DEF WorkerComplete, WorkerFail, WorkerRefund, SetStatus, refundCredits
  <1>3. DEFINE r == wreq[w]
  <1>4. r \in Reqs /\ status[r] \in StatusAt(wpc[w]) /\ ppc[r] = "returned"
    <2>1. r \in Reqs /\ status[r] \in StatusAt(wpc[w])
      BY <1>1, <1>2, WorkerServes DEF PromptParts, OneHandler, PromptInv, SettleInv
    <2>2. status[r] \notin {"none", "prepared"}
      BY <1>2, <2>1 DEF StatusAt
    <2>. QED BY <2>1, <2>2, BeforeReturn
  <1>5. /\ \A q \in Reqs : q # r => status'[q] = status[q]
        /\ status'[r] = IF wpc[w] = "complete" THEN "completed" ELSE "failed"
        /\ overdue' = {}
        /\ refunded' \subseteq refunded \cup {r}
        /\ wpc[w] # "refund" => UNCHANGED refunded
    BY <1>1, <1>4 DEF WorkerComplete, WorkerFail, WorkerRefund, SetStatus, refundCredits,
                      StatusAt, TypeOK, PromptParts, NothingStale
  <1>6. /\ \A v \in Workers : v # w => /\ wpc'[v] = wpc[v] /\ wreq'[v] = wreq[v]
                                       /\ wcap'[v] = wcap[v]
        /\ wpc'[w] = IF wpc[w] = "fail" THEN "refund" ELSE "idle"
        /\ wreq'[w] = IF wpc[w] = "fail" THEN r ELSE None
        /\ wpc[w] = "fail" => UNCHANGED <<jobs, wreq>>
        /\ \A q \in Reqs : q # r => jobs'[q] = jobs[q]
    BY <1>1, <1>2, <1>4 DEF WorkerComplete, WorkerFail, WorkerRefund, WorkerFinish, WorkerIdle,
                      WorkerGoto, requeue, StatusAt, TypeOK
  <1>. HIDE DEF r
  <1>7. OneHandler'
    <2>1. CASE wpc[w] = "fail"
      <3>1. status'[r] \in StatusAt(wpc'[w])
        BY <1>5, <1>6, <2>1 DEF StatusAt
      <3>. QED BY <1>2, <1>5, <1>6, <2>1, <3>1, WorkerGoesOn DEF r
    <2>2. CASE wpc[w] # "fail"
      BY <1>2, <1>5, <1>6, <2>2, WorkerEnds DEF r
    <2>. QED BY <2>1, <2>2
  <1>8. HoldsFit'
    <2>1. ASSUME NEW q \in Reqs, HoldOf(q)' # None
          PROVE  /\ HoldOf(q) # None
                 /\ status'[q] \in {"prepared", "queued"} /\ ~Served(q)'
                      => status[q] \in {"prepared", "queued"} /\ ~Served(q)
      <3>1. CASE q = r
        <4>1. wpc[w] = "complete" /\ status'[q] = "completed"
          BY <1>5, <2>1, <3>1 DEF HoldOf
        <4>2. HoldOf(r) = wcap[w] /\ wcap[w] \in Caps
          BY <4>1, WorkerHasIt DEF r
        <4>. QED BY <3>1, <4>1, <4>2
      <3>2. CASE q # r
        <4>1. status'[q] = status[q]
          BY <1>5, <3>2
        <4>2. GivingUp(q) => GivingUp(q)'
          BY <1>6, <3>2 DEF GivingUp, r
        <4>3. Served(q) => Served(q)'
          BY <1>6, <3>2 DEF Served, r
        <4>4. HoldOf(q) # None
          BY <1>2, <2>1, <4>1, <4>2 DEF HoldOf
        <4>. QED BY <4>1, <4>3, <4>4
      <3>. QED BY <3>1, <3>2
    <2>. QED BY <1>1, <1>2, <2>1, HoldsStand DEF PromptParts
  <1>9. WorkersFit'
    <2>1. WorkerFits(w)'
      BY <1>2, <1>6 DEF WorkerFits
    <2>. QED BY <1>2, <1>5, <1>6, <2>1, WorkersMove DEF r
  <1>10. UnknownFits'
    BY <1>2, <1>6, UnknownStands
  <1>11. NothingStale'
    BY <1>1, <1>2, <1>5 DEF PromptParts, NothingStale
  <1>12. LinksFit'
    <2>1. wpc[w] = "complete" => status[r] = "submitted"
      BY <1>4 DEF StatusAt
    <2>. QED BY <1>1, <1>2, <1>4, <1>5, <2>1 DEF PromptParts, LinksFit
  <1>. QED BY <1>1, <1>2, <1>7, <1>8, <1>9, <1>10, <1>11, <1>12, PromptFrames DEF PromptParts

\* A transaction nobody heard back from finds its presign out of the pool, or
\* about to be retired: no other request and no other worker has it.
LEMMA PromptLanding ==
    ASSUME NEW r \in Reqs, NEW c \in Caps, PromptInv, LateLanding(r, c)
    PROVE  PromptParts'
  <1>1. PromptParts /\ PoolTypeOK /\ TypeOK
    BY DEF PromptInv, PromptParts, SettleInv, RaceInv, TypeOK
  <1>2. /\ chain'[c] = "burned" /\ \A d \in Caps : d # c => chain'[d] = chain[d]
        /\ UNCHANGED <<rowVars, sweeperVars, refillVars, requestVars, ledgerVars, queueVars,
                       prepareVars, submitVars, workerVars, unknownVars, sweepVars>>
    BY <1>1 DEF LateLanding, Burn, PoolTypeOK
  <1>3. \/ row[c] = "used"
        \/ /\ row[c] = "allocated"
           /\ \E w \in Workers : wpc[w] = "retire" /\ wcap[w] = c
    BY <1>1 DEF LateLanding, PromptParts, UnknownFits
  <1>4. HoldsFit'
    <2>1. ASSUME NEW q \in Reqs, HoldOf(q) # None, ~Served(q), pcap[q] = c
          PROVE  row[c] # "allocated"
      <3>1. SUFFICES ASSUME NEW w \in Workers, wpc[w] = "retire", wcap[w] = c
                     PROVE  FALSE
        BY <1>3
      <3>2. wreq[w] \in Reqs /\ HoldOf(wreq[w]) # None /\ pcap[wreq[w]] = c
        BY <3>1, WorkerHasIt
      <3>3. wreq[w] # q
        BY <2>1 DEF Served
      <3>. QED BY <2>1, <3>2, <3>3, HoldsApart
    <2>2. \A q \in Reqs : HoldOf(q)' = HoldOf(q) /\ (Served(q)' <=> Served(q))
      BY <1>2 DEF HoldOf, GivingUp, Served
    <2>3. ASSUME NEW q \in Reqs, HoldOf(q) # None
          PROVE  /\ pcap[q] \in Caps
                 /\ holder[pcap[q]] = q
                 /\ row[pcap[q]] \in {"allocated", "consumed_pending", "used"}
                 /\ status[q] \in {"prepared", "queued"} /\ ~Served(q) =>
                      row[pcap[q]] = "allocated" /\ chain'[pcap[q]] = "valid"
      <3>1. pcap[q] \in Caps
        BY <1>1, <2>3 DEF HoldOf, TypeOK
      <3>. QED BY <1>1, <1>2, <2>1, <2>3, <3>1 DEF PromptParts, HoldsFit
    <2>. QED BY <1>2, <2>2, <2>3 DEF HoldsFit
  <1>5. WorkersFit'
    <2>1. ASSUME NEW w \in Workers, wpc[w] \in {"execute", "rollback"}
          PROVE  wcap[w] \in Caps /\ wcap[w] # c
      <3>1. wcap[w] \in Caps /\ row[wcap[w]] = "allocated"
        BY <1>1, <2>1, WorkerHasIt DEF PromptParts, WorkersFit, WorkerFits
      <3>2. \A v \in Workers : wpc[v] = "retire" => wcap[v] # wcap[w]
        BY <2>1, WorkersApart
      <3>. QED BY <1>3, <3>1, <3>2
    <2>. QED BY <1>1, <1>2, <2>1 DEF PromptParts, WorkersFit, WorkerFits
  <1>6. PoolFits'
    BY <1>2, <1>3, PoolMoves
  <1>7. ReadyIsUnspent'
    BY <1>1, <1>2, <1>3 DEF PromptParts, ReadyIsUnspent
  <1>. QED BY <1>1, <1>2, <1>4, <1>5, <1>6, <1>7, PromptFrames DEF PromptParts

\* The pool's jobs write to rows that no request has claimed yet.
LEMMA PoolElsewhere ==
    ASSUME PromptInv, RequestsIdle, UNCHANGED <<holder, stamp>>,
           \A d \in Caps : row[d] \notin {"absent", "pending"}
                              => row'[d] = row[d] /\ chain'[d] = chain[d],
           \A d \in Caps : row[d] \in {"absent", "pending"}
                              => \/ row'[d] \in {"absent", "pending"}
                                 \/ row'[d] = "ready" /\ chain'[d] = "valid",
           PoolFits'
    PROVE  PromptParts'
  <1>. USE DEF RequestsIdle
  <1>1. PromptParts /\ TypeOK
    BY DEF PromptInv, PromptParts, SettleInv, RaceInv
  <1>2. HoldsFit'
    <2>1. ASSUME NEW q \in Reqs, HoldOf(q)' # None
          PROVE  /\ HoldOf(q) # None
                 /\ row'[pcap[q]] = row[pcap[q]] /\ chain'[pcap[q]] = chain[pcap[q]]
      <3>1. HoldOf(q) # None
        BY <2>1 DEF HoldOf, GivingUp
      <3>2. pcap[q] \in Caps
        BY <1>1, <3>1 DEF HoldOf, TypeOK
      <3>. QED BY <1>1, <3>1, <3>2 DEF PromptParts, HoldsFit
    <2>2. \A q \in Reqs : Served(q)' <=> Served(q)
      BY DEF Served
    <2>. QED BY <1>1, <2>1, <2>2, HoldsStand DEF PromptParts
  <1>3. WorkersFit'
    <2>1. ASSUME NEW w \in Workers, wpc[w] \notin {"idle", "fail", "refund"}
          PROVE  row'[wcap[w]] = row[wcap[w]] /\ chain'[wcap[w]] = chain[wcap[w]]
      <3>1. wcap[w] \in Caps /\ row[wcap[w]] \notin {"absent", "pending"}
        BY <1>1, <2>1, WorkerHasIt DEF PromptParts, WorkersFit, WorkerFits, TypeOK
      <3>. QED BY <3>1
    <2>. QED BY <1>1, <2>1 DEF PromptParts, WorkersFit, WorkerFits
  <1>4. ReadyIsUnspent'
    BY <1>1 DEF PromptParts, ReadyIsUnspent
  <1>5. UnknownFits'
    BY <1>1 DEF PromptParts, UnknownFits
  <1>. QED BY <1>1, <1>2, <1>3, <1>4, <1>5, PromptFrames DEF PromptParts

\* presigns.refill and presigns.discover, and the network's part in them.
LEMMA PromptRefill ==
    ASSUME PromptInv, RequestsIdle,
           refillMint \/ refillInsert \/ \E c \in Caps : discover(c) \/ CoordinatorCompletes(c)
    PROVE  PromptParts'
  <1>1. PoolFits /\ PoolTypeOK /\ HandlersKnow
    BY DEF PromptInv, SettleInv, RaceInv, TypeOK
  <1>2. UNCHANGED <<holder, stamp, promoTodo, promoCur, pcap>>
    BY DEF RequestsIdle, refillMint, refillInsert, discover, CoordinatorCompletes
  <1> DEFINE OnlyFresh ==
            /\ \A d \in Caps : row[d] \notin {"absent", "pending"}
                                  => row'[d] = row[d] /\ chain'[d] = chain[d]
            /\ \A d \in Caps : row[d] \in {"absent", "pending"} => row'[d] \in {"absent", "pending"}
            /\ \A d \in Caps : row[d] = "pending" => row'[d] = "pending"
            /\ \A d \in Caps : chain'[d] = "burned" => chain[d] = "burned"
            /\ \A d \in Caps : chain[d] = "valid" => chain'[d] = "valid"
  <1>3. OnlyFresh
    <2>1. CASE refillMint
      BY <1>1, <2>1 DEF refillMint, Batches, PoolFits, PoolTypeOK
    <2>2. CASE refillInsert
      BY <1>1, <2>2 DEF refillInsert, PoolTypeOK
    <2>3. ASSUME NEW c \in Caps, discover(c) \/ CoordinatorCompletes(c)
          PROVE  OnlyFresh
      BY <1>1, <2>3 DEF discover, Untracked, CoordinatorCompletes, PoolFits, PoolTypeOK
    <2>. QED BY <2>1, <2>2, <2>3
  <1>4. PoolFits'
    <2>1. ASSUME NEW d \in Caps
          PROVE  /\ row'[d] \in {"absent", "pending"} =>
                      chain'[d] # "burned" /\ \A r \in Reqs : pcap'[r] # d
                 /\ chain'[d] \in {"unminted", "minting"} => row'[d] \in {"absent", "pending"}
                 /\ row'[d] # "failed"
      BY <1>1, <1>2, <1>3 DEF PoolFits, PoolTypeOK
    <2>2. ASSUME NEW x \in Sweepers
          PROVE  /\ \A d \in promoTodo'[x] : row'[d] = "pending" /\ d # promoCur'[x]
                 /\ promoCur'[x] # None =>
                      row'[promoCur'[x]] = "pending" /\ chain'[promoCur'[x]] = "valid"
      BY <1>1, <1>2, <1>3 DEF PoolFits, PoolTypeOK
    <2>. QED BY <2>1, <2>2 DEF PoolFits
  <1>. QED BY <1>2, <1>3, <1>4, PoolElsewhere

\* The rescue and parking of presigns.sweep-expired find nothing overdue, and
\* the one sweep that promotes writes to rows it alone has seen.
LEMMA PromptExpire ==
    ASSUME NEW x \in Sweepers, PromptInv, OneAtATime, RequestsIdle, sweepExpiredJob(x)
    PROVE  PromptParts'
  <1>1. PoolFits /\ PoolTypeOK /\ NothingStale /\ PromptParts
    BY DEF PromptInv, SettleInv, RaceInv, TypeOK, PromptParts
  <1>2. CASE sweepRescue \/ sweepPark
    <2>1. Rescued = {} /\ Parked = {}
      BY <1>1 DEF NothingStale, Rescued, Parked, Expired
    <2>2. UNCHANGED <<row, holder, stamp, chain, promoTodo, promoCur>>
      BY <1>1, <1>2, <2>1 DEF sweepRescue, sweepPark, PoolTypeOK
    <2>. QED BY <1>1, <2>2, PromptFrames DEF PromptParts, RequestsIdle
  <1>3. CASE promoteSelect(x)
    <2>1. UNCHANGED <<row, holder, stamp, chain, promoCur>>
      BY <1>3 DEF promoteSelect
    <2>2. PoolFits'
      BY <1>1, <1>3, <2>1 DEF promoteSelect, PoolFits, PoolTypeOK, RequestsIdle
    <2>. QED BY <1>1, <2>1, <2>2, PromptFrames DEF PromptParts, RequestsIdle
  <1>4. ASSUME NEW c \in Caps, promoteCheck(x, c)
        PROVE  PromptParts'
    <2>1. UNCHANGED <<row, holder, stamp, chain>>
      BY <1>4 DEF promoteCheck
    <2>2. PoolFits'
      BY <1>1, <1>4, <2>1 DEF promoteCheck, PoolFits, PoolTypeOK, RequestsIdle
    <2>. QED BY <1>1, <2>1, <2>2, PromptFrames DEF PromptParts, RequestsIdle
  <1>5. CASE promoteWrite(x)
    <2>1. PICK c \in Caps : c = promoCur[x]
      BY <1>1, <1>5 DEF promoteWrite, PoolTypeOK
    <2>2. /\ row[c] = "pending" /\ chain[c] = "valid" /\ row'[c] = "ready"
          /\ \A d \in Caps : d # c => row'[d] = row[d]
          /\ UNCHANGED <<holder, stamp, promoTodo, chain>>
          /\ promoCur'[x] = None /\ \A y \in Sweepers : y # x => promoCur'[y] = promoCur[y]
      BY <1>1, <1>5, <2>1 DEF promoteWrite, PoolFits, PoolTypeOK
    <2>3. \A y \in Sweepers : y # x => promoTodo[y] = {} /\ promoCur[y] = None
      BY <2>1 DEF OneAtATime, Promoting
    <2>4. PoolFits'
      <3>1. ASSUME NEW d \in Caps
            PROVE  /\ row'[d] \in {"absent", "pending"} =>
                        chain'[d] # "burned" /\ \A r \in Reqs : pcap'[r] # d
                   /\ chain'[d] \in {"unminted", "minting"} => row'[d] \in {"absent", "pending"}
                   /\ row'[d] # "failed"
        BY <1>1, <2>2 DEF PoolFits, RequestsIdle
      <3>2. ASSUME NEW y \in Sweepers
            PROVE  /\ \A d \in promoTodo'[y] : row'[d] = "pending" /\ d # promoCur'[y]
                   /\ promoCur'[y] # None =>
                        row'[promoCur'[y]] = "pending" /\ chain'[promoCur'[y]] = "valid"
        <4>1. CASE y = x
          BY <1>1, <2>1, <2>2, <4>1 DEF PoolFits, PoolTypeOK
        <4>2. CASE y # x
          BY <2>2, <2>3, <4>2
        <4>. QED BY <4>1, <4>2
      <3>. QED BY <3>1, <3>2 DEF PoolFits
    <2>. QED BY <2>2, <2>4, PoolElsewhere
  <1>. QED BY <1>2, <1>3, <1>4, <1>5 DEF sweepExpiredJob

\* The prepared sweep has nothing to rescue, and no script runs.
LEMMA NoSweepRuns ==
    ASSUME Undisturbed, PromptInv
    PROVE  ~ReconcileApply /\ ~Sweep /\ ~SweepCrash /\ ~TtlPasses
  <1>1. StuckPrepared = {} /\ sweepTodo = {} /\ sweepAt = "idle" /\ recon = None
    BY DEF PromptInv, NothingStale, StuckPrepared
  <1>. QED BY <1>1 DEF Undisturbed, ReconcileApply, Sweep, SweepSelect, SweepRollback,
           SweepFail, SweepRefund, SweepCrash, TtlPasses, StampsAge

\* Every step of an undisturbed run preserves PromptInv.
LEMMA PromptNext ==
    ASSUME Undisturbed
    PROVE  PromptInv /\ OneAtATime /\ [Next]_vars => PromptInv'
  <1>. SUFFICES ASSUME PromptInv, OneAtATime, [Next]_vars PROVE PromptInv'
    OBVIOUS
  <1>1. SettleInv'
    BY SettleNext DEF PromptInv
  <1>2. SUFFICES PromptParts'
    BY <1>1 DEF PromptInv, PromptParts
  <1>3. ASSUME NEW r \in Reqs, PrepareLookup(r) \/ Prepare(r) \/ PrepareCrash(r)
        PROVE  PromptParts'
    <2>1. ~PrepareDupFetch(r) /\ ~PrepareCrash(r)
      BY DEF Undisturbed, PrepareCrash, PrepareDupFetch, PromptInv, SettleInv, PreparesFit
    <2>. QED BY <1>3, <2>1, PromptAccept, PromptAllocate, PromptWithdraw, PromptAnswer
         DEF Prepare
  <1>4. ASSUME NEW s \in Submitters,
               (\E r \in Reqs : SubmitRead(s, r)) \/ Submit(s) \/ SubmitCrash(s)
        PROVE  PromptParts'
    BY <1>4, PromptSubmit DEF SubmitCrash, Undisturbed
  <1>5. ASSUME NEW w \in Workers, Work(w) \/ WorkerCrash(w)
        PROVE  PromptParts'
    BY <1>5, PromptTake, PromptProcess, PromptSettle DEF Work, WorkerCrash, Undisturbed
  <1>6. ASSUME NEW r \in Reqs, NEW c \in Caps, LateLanding(r, c) \/ ReconcileClassify(r, c)
        PROVE  PromptParts'
    BY <1>6, PromptLanding DEF ReconcileClassify, Undisturbed
  <1>7. CASE PoolStep
    <2>1. RequestsIdle
      BY <1>7 DEF PoolStep, RequestsIdle
    <2>. QED BY <1>7, <2>1, PromptExpire, PromptRefill DEF PoolStep, Undisturbed
  <1>8. ~ReconcileApply /\ ~Sweep /\ ~SweepCrash /\ ~TtlPasses
    BY NoSweepRuns
  <1>9. CASE UNCHANGED vars
    BY <1>9, PromptFrames DEF vars, PromptInv, PromptParts
  <1>. QED BY <1>3, <1>4, <1>5, <1>6, <1>7, <1>8, <1>9 DEF Next

\* A request is with one handler at a time, its presign is reserved in its
\* name, and the rest of PromptInv, in every behaviour without a TTL, a crash,
\* a reconciliation or a repeated key, as long as no two submits of a request
\* and no two promotions overlap.
THEOREM PromptInvariance ==
    ASSUME Undisturbed
    PROVE  Spec /\ []OneAtATime => []PromptInv
  BY PromptStarts, PromptNext, PTL DEF Spec

\* Every presign the pool offers has completed its session and is unspent.
THEOREM ReadyCorrect ==
    ASSUME Undisturbed
    PROVE  Spec /\ []OneAtATime => []ReadyIsUnspent
  <1>1. PromptInv => ReadyIsUnspent
    BY DEF PromptInv
  <1>. QED BY PromptInvariance, <1>1, PTL

\* A completed request was charged and never refunded: no handler fails it
\* behind the back of the worker that completed it.
THEOREM CompletedCorrect ==
    ASSUME Undisturbed
    PROVE  Spec /\ []OneAtATime => []CompletedIsPaid
  <1>1. PromptInv => CompletedIsPaid
    BY DEF PromptInv, SettleInv, PreparesFit, LinksFit, CompletedIsPaid
  <1>. QED BY PromptInvariance, <1>1, PTL

-----------------------------------------------------------------------------
(***************************************************************************)
(* In an undisturbed run the handlers implement the contract: every step   *)
(* is a step of SignContract or changes nothing the contract speaks of.    *)
(***************************************************************************)
paidMap == [r \in Reqs |-> PaidOf(r)]

holdMap == [r \in Reqs |-> HoldOf(r)]

poolMap == [c \in Caps |-> PoolOf(c)]

\* The contract's view of a step that leaves the variables behind it alone.
LEMMA ViewFrames ==
    /\ UNCHANGED <<charged, refunded>> => paidMap' = paidMap
    /\ UNCHANGED <<status, pcap, wpc, wreq>> => holdMap' = holdMap
    /\ (\A r \in Reqs : HoldOf(r)' = HoldOf(r)) => holdMap' = holdMap
    /\ UNCHANGED <<row, chain>> => poolMap' = poolMap
    /\ (\A c \in Caps : PoolOf(c)' = PoolOf(c)) => poolMap' = poolMap
  <1>1. UNCHANGED <<charged, refunded>> => paidMap' = paidMap
    BY DEF paidMap, PaidOf
  <1>2. (\A r \in Reqs : HoldOf(r)' = HoldOf(r)) => holdMap' = holdMap
    BY DEF holdMap
  <1>3. UNCHANGED <<status, pcap, wpc, wreq>> => \A r \in Reqs : HoldOf(r)' = HoldOf(r)
    BY DEF HoldOf, GivingUp
  <1>4. (\A c \in Caps : PoolOf(c)' = PoolOf(c)) => poolMap' = poolMap
    BY DEF poolMap
  <1>5. UNCHANGED <<row, chain>> => \A c \in Caps : PoolOf(c)' = PoolOf(c)
    BY DEF PoolOf
  <1>. QED BY <1>1, <1>2, <1>3, <1>4, <1>5

\* A step the contract does not see.
LEMMA Unseen ==
    ASSUME UNCHANGED <<status, paidMap, holdMap, poolMap>>
    PROVE  UNCHANGED Contract!contractVars
  BY DEF Contract!contractVars, paidMap, holdMap, poolMap

LEMMA ContractStarts == Init => Contract!Init
  BY DEF Init, PoolInit, Contract!Init, PaidOf, HoldOf, PoolOf

\* A refund of a request that has no row or has failed, unless it was made before.
LEMMA RefundServes ==
    ASSUME NEW r \in Reqs, status[r] \in {"none", "failed"}, refundCredits(r),
           UNCHANGED <<status, holdMap, poolMap>>
    PROVE  [Contract!Next]_(Contract!contractVars)
  <1>1. CASE r \in charged \ refunded
    <2>1. paidMap' = [paidMap EXCEPT ![r] = "refunded"]
      BY <1>1 DEF refundCredits, paidMap, PaidOf
    <2>2. Contract!Refund(r)
      BY <1>1, <2>1 DEF Contract!Refund, paidMap, holdMap, poolMap, PaidOf
    <2>. QED BY <2>2 DEF Contract!Next
  <1>2. CASE r \notin charged \ refunded
    BY <1>2, ViewFrames, Unseen DEF refundCredits
  <1>. QED BY <1>1, <1>2

\* prepareSignRequest: Charge, Accept, Reserve, or Reject and Refund.
LEMMA PrepareServes ==
    ASSUME NEW r \in Reqs, Undisturbed, PromptInv, PrepareLookup(r) \/ Prepare(r)
    PROVE  [Contract!Next]_(Contract!contractVars)
  <1>1. PromptParts /\ TypeOK /\ PreparesFit /\ HandlersKnow /\ KeysDistinct
    BY DEF PromptInv, PromptParts, SettleInv, RaceInv, Undisturbed
  <1>2. CASE PrepareLookup(r)
    BY <1>2, ViewFrames, Unseen DEF PrepareLookup
  <1>3. CASE PrepareCharge(r)
    <2>1. r \notin charged /\ r \notin refunded /\ status[r] = "none"
      BY <1>1, <1>3 DEF PrepareCharge, PreparesFit
    <2>2. UNCHANGED <<status, holdMap, poolMap>>
      BY <1>3, ViewFrames DEF PrepareCharge
    <2>3. CASE UNCHANGED ledgerVars
      BY <2>2, <2>3, ViewFrames, Unseen
    <2>4. CASE chargeCredits(r)
      <3>1. paidMap' = [paidMap EXCEPT ![r] = "charged"]
        BY <2>1, <2>4 DEF paidMap, PaidOf, chargeCredits
      <3>2. Contract!Charge(r)
        BY <2>1, <2>2, <3>1 DEF Contract!Charge, paidMap, holdMap, poolMap, PaidOf
      <3>. QED BY <3>2 DEF Contract!Next
    <2>. QED BY <1>3, <2>3, <2>4 DEF PrepareCharge
  <1>4. CASE PrepareInsert(r)
    <2>1. /\ r \in charged /\ r \notin refunded /\ status[r] = "none" /\ pcap[r] = None
          /\ \A w \in Workers : wreq[w] # r
      BY <1>1, <1>4, BeforeReturn DEF PrepareInsert, PreparesFit, PromptParts, LinksFit
    <2>2. Existing(r) = {}
      BY <1>1, <2>1 DEF Existing, KeysDistinct
    <2>3. /\ status' = [status EXCEPT ![r] = "prepared"]
          /\ UNCHANGED <<row, chain, charged, refunded, pcap, wpc, wreq>>
      BY <1>4, <2>2 DEF PrepareInsert
    <2>4. \A q \in Reqs : HoldOf(q)' = HoldOf(q)
      BY <1>1, <2>1, <2>3 DEF HoldOf, GivingUp, TypeOK
    <2>5. UNCHANGED <<paidMap, holdMap, poolMap>>
      BY <2>3, <2>4, ViewFrames
    <2>6. Contract!Accept(r)
      BY <2>1, <2>3, <2>5 DEF Contract!Accept, Contract!Move, paidMap, holdMap, poolMap, PaidOf
    <2>. QED BY <2>6 DEF Contract!Next
  <1>5. CASE PrepareAllocate(r)
    <2>1. /\ status[r] = "prepared" /\ pcap[r] = None /\ HoldOf(r) = None
          /\ \A w \in Workers : wreq[w] # r
      BY <1>1, <1>5, BeforeReturn DEF PrepareAllocate, PromptParts, LinksFit
    <2>2. UNCHANGED <<status, charged, refunded, chain, wpc, wreq>>
      BY <1>5 DEF PrepareAllocate
    <2>3. CASE UNCHANGED <<rowVars, pcap>>
      BY <2>2, <2>3, ViewFrames, Unseen
    <2>4. ASSUME NEW c \in Caps, allocate(r, c), pcap' = [pcap EXCEPT ![r] = c]
          PROVE  Contract!Reserve(r, c)
      <3>1. PoolOf(c) = "free"
        BY <1>1, <2>4 DEF PromptParts, ReadyIsUnspent, allocate, PoolOf
      <3>2. poolMap' = [poolMap EXCEPT ![c] = "held"]
        <4>1. chain[c] # "burned" /\ row' = [row EXCEPT ![c] = "allocated"]
          BY <1>1, <2>4 DEF PromptParts, ReadyIsUnspent, allocate
        <4>2. PoolOf(c)' = "held" /\ \A d \in Caps : d # c => PoolOf(d)' = PoolOf(d)
          BY <1>1, <2>2, <4>1 DEF PoolOf, TypeOK, PoolTypeOK
        <4>. QED BY <4>2 DEF poolMap
      <3>3. holdMap' = [holdMap EXCEPT ![r] = c]
        <4>1. HoldOf(r)' = c
          BY <1>1, <2>1, <2>2, <2>4 DEF HoldOf, GivingUp, TypeOK
        <4>2. \A q \in Reqs : q # r => HoldOf(q)' = HoldOf(q)
          BY <1>1, <2>2, <2>4 DEF HoldOf, GivingUp, TypeOK
        <4>. QED BY <4>1, <4>2 DEF holdMap
      <3>4. UNCHANGED paidMap
        BY <2>2, ViewFrames
      <3>. QED BY <2>1, <2>2, <3>1, <3>2, <3>3, <3>4
           DEF Contract!Reserve, paidMap, holdMap, poolMap
    <2>5. (\E c \in Caps : Contract!Reserve(r, c)) => Contract!Next
      BY DEF Contract!Next
    <2>. QED BY <1>5, <2>3, <2>4, <2>5 DEF PrepareAllocate
  <1>6. CASE PrepareDrop(r)
    <2>1. /\ status[r] = "prepared" /\ pcap[r] = None /\ HoldOf(r) = None
      BY <1>1, <1>6, BeforeReturn DEF PrepareDrop, PromptParts, LinksFit
    <2>2. /\ status' = [status EXCEPT ![r] = "none"]
          /\ UNCHANGED <<row, chain, charged, refunded, pcap, wpc, wreq>>
      BY <1>6 DEF PrepareDrop
    <2>3. \A q \in Reqs : HoldOf(q)' = HoldOf(q)
      BY <1>1, <2>1, <2>2 DEF HoldOf, GivingUp, TypeOK
    <2>4. UNCHANGED <<paidMap, holdMap, poolMap>>
      BY <2>2, <2>3, ViewFrames
    <2>5. Contract!Reject(r)
      BY <2>1, <2>2, <2>4 DEF Contract!Reject, Contract!Move, paidMap, holdMap, poolMap
    <2>. QED BY <2>5 DEF Contract!Next
  <1>7. CASE PrepareDropRefund(r)
    <2>1. status[r] = "none" /\ UNCHANGED <<status, row, chain, pcap, wpc, wreq>>
      BY <1>1, <1>7 DEF PrepareDropRefund, PreparesFit
    <2>. QED BY <1>7, <2>1, RefundServes, ViewFrames DEF PrepareDropRefund
  <1>8. CASE PrepareLink(r)
    BY <1>8, ViewFrames, Unseen DEF PrepareLink
  <1>9. CASE PrepareFetch(r)
    <2>1. status[r] = "prepared" /\ HoldOf(r) = pcap[r] /\ pcap[r] # None /\ ~Served(r)
      BY <1>1, <1>9, BeforeReturn DEF PrepareFetch, PromptParts, LinksFit, Served
    <2>2. chain[pcap[r]] = "valid" /\ ~Crashes
      BY <1>1, <2>1 DEF PromptParts, HoldsFit, Undisturbed
    <2>. QED BY <1>9, <2>2, ViewFrames, Unseen DEF PrepareFetch, FetchPresignBytes
  <1>10. ~PrepareDupFetch(r)
    BY <1>1 DEF PrepareDupFetch, PreparesFit
  <1>. QED BY <1>2, <1>3, <1>4, <1>5, <1>6, <1>7, <1>8, <1>9, <1>10 DEF Prepare

\* submitPreparedSign: Queue.
LEMMA SubmitServes ==
    ASSUME NEW s \in Submitters, PromptInv, (\E r \in Reqs : SubmitRead(s, r)) \/ Submit(s)
    PROVE  [Contract!Next]_(Contract!contractVars)
  <1>1. PromptParts /\ TypeOK /\ HandlersKnow
    BY DEF PromptInv, PromptParts, SettleInv, RaceInv
  <1>2. CASE (\E r \in Reqs : SubmitRead(s, r)) \/ SubmitEnqueue(s)
    BY <1>2, ViewFrames, Unseen DEF SubmitRead, SubmitEnqueue
  <1>3. CASE SubmitUpdate(s)
    <2>1. PICK r \in Reqs : r = sreq[s]
      BY <1>1, <1>3 DEF SubmitUpdate, TypeOK, HandlersKnow
    <2>2. status[r] = "prepared" /\ ppc[r] = "returned" /\ \A w \in Workers : wreq[w] # r
      BY <1>1, <1>3, <2>1 DEF SubmitUpdate, PromptParts, OneHandler
    <2>3. pcap[r] # None
      BY <1>1, <2>2 DEF PromptParts, LinksFit
    <2>4. /\ status' = [status EXCEPT ![r] = "queued"]
          /\ UNCHANGED <<row, chain, charged, refunded, pcap, wpc, wreq>>
      BY <1>1, <1>3, <2>1, <2>2 DEF SubmitUpdate, SetStatus, TypeOK
    <2>5. \A q \in Reqs : HoldOf(q)' = HoldOf(q)
      BY <1>1, <2>2, <2>4 DEF HoldOf, GivingUp, TypeOK
    <2>6. UNCHANGED <<paidMap, holdMap, poolMap>>
      BY <2>4, <2>5, ViewFrames
    <2>7. HoldOf(r) # None
      BY <2>2, <2>3 DEF HoldOf, GivingUp
    <2>8. Contract!Queue(r)
      BY <2>2, <2>4, <2>6, <2>7 DEF Contract!Queue, Contract!Move, paidMap, holdMap, poolMap
    <2>. QED BY <2>8 DEF Contract!Next
  <1>. QED BY <1>2, <1>3 DEF Submit

\* A worker that does not give up leaves every hold as it is; one that does
\* lets go of its own.
LEMMA WorkerKeeps ==
    ASSUME PromptInv, NEW w \in Workers, wpc[w] \notin {"idle", "fail", "refund"},
           UNCHANGED pcap, wreq'[w] \in {wreq[w], None},
           \A v \in Workers : v # w => wpc'[v] = wpc[v] /\ wreq'[v] = wreq[v],
           \A q \in Reqs : q # wreq[w] => status'[q] = status[q],
           status'[wreq[w]] \in {"queued", "submitted", "completed"}
    PROVE  /\ wpc'[w] # "fail" => UNCHANGED holdMap
           /\ wpc'[w] = "fail" /\ wreq'[w] = wreq[w]
                => holdMap' = [holdMap EXCEPT ![wreq[w]] = None]
  <1>1. /\ wreq[w] \in Reqs /\ HoldOf(wreq[w]) = pcap[wreq[w]]
        /\ \A v \in Workers : wreq[v] = wreq[w] => v = w
    BY WorkerHasIt DEF PromptInv, OneHandler
  <1>2. ASSUME NEW q \in Reqs, q # wreq[w]
        PROVE  HoldOf(q)' = HoldOf(q)
    <2>1. GivingUp(q)' <=> GivingUp(q)
      BY <1>2 DEF GivingUp
    <2>. QED BY <1>2, <2>1 DEF HoldOf
  <1>3. ASSUME NEW q \in Reqs, q = wreq[w], wpc'[w] # "fail"
        PROVE  HoldOf(q)' = HoldOf(q)
    <2>1. ~GivingUp(q)'
      BY <1>1, <1>3 DEF GivingUp
    <2>. QED BY <1>1, <1>3, <2>1 DEF HoldOf
  <1>4. ASSUME NEW q \in Reqs, q = wreq[w], wpc'[w] = "fail", wreq'[w] = wreq[w]
        PROVE  HoldOf(q)' = None
    BY <1>4 DEF HoldOf, GivingUp
  <1>5. wpc'[w] # "fail" => UNCHANGED holdMap
    BY <1>2, <1>3, ViewFrames
  <1>6. wpc'[w] = "fail" /\ wreq'[w] = wreq[w] => holdMap' = [holdMap EXCEPT ![wreq[w]] = None]
    BY <1>1, <1>2, <1>4 DEF holdMap
  <1>. QED BY <1>5, <1>6

\* Taking a job is no business of the contract's.
LEMMA TakeServes ==
    ASSUME NEW w \in Workers, NEW r \in Reqs, PromptInv, WorkerDrop(w, r) \/ WorkerRead(w, r)
    PROVE  UNCHANGED Contract!contractVars
  <1>1. PromptParts /\ TypeOK
    BY DEF PromptInv, PromptParts, SettleInv, RaceInv
  <1>2. CASE WorkerDrop(w, r)
    BY <1>2, ViewFrames, Unseen DEF WorkerDrop
  <1>3. CASE WorkerRead(w, r)
    <2>1. ppc[r] = "returned"
      BY <1>3, BeforeReturn DEF WorkerRead
    <2>2. presignOf[r] # None
      BY <1>1, <2>1 DEF PromptParts, LinksFit
    <2>3. /\ wpc[w] = "idle" /\ wpc'[w] = "execute"
          /\ \A v \in Workers : v # w => wpc'[v] = wpc[v] /\ wreq'[v] = wreq[v]
          /\ UNCHANGED <<status, row, chain, charged, refunded, pcap>>
      BY <1>1, <1>3, <2>2 DEF WorkerRead, TypeOK
    <2>4. \A q \in Reqs : GivingUp(q)' <=> GivingUp(q)
      BY <2>3 DEF GivingUp
    <2>5. \A q \in Reqs : HoldOf(q)' = HoldOf(q)
      BY <2>3, <2>4 DEF HoldOf
    <2>. QED BY <2>3, <2>5, ViewFrames, Unseen
  <1>. QED BY <1>2, <1>3

\* processSignJob up to the failure or the last step: Spend, Submit, GiveUp.
LEMMA ProcessServes ==
    ASSUME NEW w \in Workers, PromptInv,
           \/ WorkerAbandon(w) \/ WorkerExecuted(w) \/ WorkerNotExecuted(w)
           \/ WorkerUnknown(w) \/ WorkerNoLock(w) \/ WorkerRollback(w)
           \/ WorkerRetire(w) \/ WorkerConsumed(w) \/ WorkerSubmitted(w) \/ WorkerPoll(w)
           \/ WorkerUsed(w)
    PROVE  [Contract!Next]_(Contract!contractVars)
  <1>1. PromptParts /\ TypeOK /\ PoolTypeOK /\ HandlersKnow /\ ConsumedPendingIsBurned
    BY DEF PromptInv, PromptParts, SettleInv, RaceInv, TypeOK
  <1>2. PICK c \in Caps, r \in Reqs :
          /\ c = wcap[w] /\ r = wreq[w] /\ HoldOf(r) = c /\ WorkerFits(w)
          /\ status[r] \in StatusAt(wpc[w])
          /\ wpc[w] \notin {"idle", "fail", "refund", "complete"}
    BY <1>1, WorkerHasIt DEF PromptParts, WorkersFit, OneHandler, WorkerAbandon, WorkerExecuted,
       WorkerNotExecuted, WorkerUnknown, WorkerNoLock, WorkerRollback, WorkerRetire,
       WorkerConsumed, WorkerSubmitted, WorkerPoll, WorkerUsed
  <1>3. /\ UNCHANGED <<charged, refunded, pcap, wreq>>
        /\ \A v \in Workers : v # w => wpc'[v] = wpc[v]
    BY <1>1 DEF WorkerGoto, WorkerThrows, TypeOK, WorkerAbandon, WorkerExecuted,
       WorkerNotExecuted, WorkerUnknown, WorkerNoLock, WorkerRollback, WorkerRetire,
       WorkerConsumed, WorkerSubmitted, WorkerPoll, WorkerUsed
  <1>4. UNCHANGED paidMap
    BY <1>3, ViewFrames
  <1>5. status[r] \in {"queued", "submitted"}
    BY <1>1, <1>2 DEF StatusAt, TypeOK
  <1>6. ASSUME UNCHANGED status
        PROVE  /\ wpc'[w] # "fail" => UNCHANGED holdMap
               /\ wpc'[w] = "fail" => holdMap' = [holdMap EXCEPT ![r] = None]
    BY <1>2, <1>3, <1>5, <1>6, WorkerKeeps
  <1>7. wpc[w] \in PastExecute => chain[c] = "burned"
    <2>1. wpc[w] \in PastExecute => burner[c] = r
      BY <1>1, <1>2 DEF HandlersKnow
    <2>2. chain[c] = "burned" <=> burner[c] # None
      BY <1>1 DEF HandlersKnow
    <2>. QED BY <2>1, <2>2
  <1>8. ASSUME UNCHANGED status, wpc'[w] = "fail",
               \/ UNCHANGED poolMap
               \/ PoolOf(c) = "held" /\ \E to \in {"free", "retired"} :
                                            poolMap' = [poolMap EXCEPT ![c] = to]
        PROVE  Contract!Next
    <2>1. Contract!GiveUp(r)
      BY <1>2, <1>4, <1>5, <1>6, <1>8 DEF Contract!GiveUp, paidMap, holdMap, poolMap
    <2>. QED BY <2>1 DEF Contract!Next
  <1>9. CASE WorkerAbandon(w)
    <2>1. UNCHANGED <<status, row, chain>> /\ wpc'[w] = "fail"
      BY <1>1, <1>9 DEF WorkerAbandon, WorkerGoto, TypeOK
    <2>. QED BY <1>8, <2>1, ViewFrames
  <1>10. CASE WorkerExecuted(w)
    <2>1. /\ UNCHANGED <<status, row>> /\ wpc'[w] = "consumed" /\ wpc[w] = "execute"
          /\ chain' = [chain EXCEPT ![c] = "burned"]
      BY <1>1, <1>2, <1>10 DEF WorkerExecuted, Burn, WorkerGoto, TypeOK
    <2>2. status[r] = "queued" /\ PoolOf(c) = "held"
      BY <1>2, <2>1 DEF StatusAt, WorkerFits, PoolOf
    <2>3. poolMap' = [poolMap EXCEPT ![c] = "spent"]
      BY <1>1, <2>1 DEF poolMap, PoolOf, PoolTypeOK
    <2>4. Contract!Spend(r)
      BY <1>2, <1>4, <1>6, <2>1, <2>2, <2>3 DEF Contract!Spend, paidMap, holdMap, poolMap
    <2>. QED BY <2>4 DEF Contract!Next
  <1>11. CASE WorkerNotExecuted(w) \/ WorkerUnknown(w) \/ WorkerNoLock(w) \/ WorkerPoll(w)
    <2>1. UNCHANGED <<status, row, chain>> /\ wpc'[w] # "fail"
      BY <1>1, <1>11 DEF WorkerNotExecuted, WorkerUnknown, WorkerNoLock, WorkerPoll,
         WorkerGoto, WorkerThrows, TypeOK
    <2>. QED BY <1>4, <1>6, <2>1, ViewFrames, Unseen
  <1>12. CASE WorkerRollback(w)
    <2>1. /\ UNCHANGED <<status, chain>> /\ wpc'[w] = "fail"
          /\ row' = [row EXCEPT ![c] = "ready"]
          /\ row[c] = "allocated" /\ chain[c] = "valid"
      BY <1>1, <1>2, <1>12 DEF WorkerRollback, rollbackToReady, WorkerGoto, WorkerFits, TypeOK
    <2>2. PoolOf(c) = "held" /\ poolMap' = [poolMap EXCEPT ![c] = "free"]
      BY <1>1, <2>1 DEF poolMap, PoolOf, PoolTypeOK
    <2>. QED BY <1>8, <2>1, <2>2
  <1>13. CASE WorkerRetire(w)
    <2>1. /\ UNCHANGED <<status, chain>> /\ wpc'[w] = "fail"
          /\ row' = [row EXCEPT ![c] = "used"]
      BY <1>1, <1>2, <1>13 DEF WorkerRetire, markUsed, WorkerGoto, TypeOK
    <2>2. CASE chain[c] = "burned"
      <3>1. \A d \in Caps : PoolOf(d)' = PoolOf(d)
        BY <1>1, <2>1, <2>2 DEF PoolOf, PoolTypeOK
      <3>. QED BY <1>8, <2>1, <3>1, ViewFrames
    <2>3. CASE chain[c] # "burned"
      <3>1. row[c] = "allocated"
        BY <1>1, <1>2, <1>13, <2>3 DEF WorkerRetire, WorkerFits, ConsumedPendingIsBurned
      <3>2. PoolOf(c) = "held" /\ poolMap' = [poolMap EXCEPT ![c] = "retired"]
        BY <1>1, <2>1, <2>3, <3>1 DEF poolMap, PoolOf, PoolTypeOK
      <3>. QED BY <1>8, <2>1, <3>2
    <2>. QED BY <2>2, <2>3
  <1>14. CASE WorkerConsumed(w) \/ WorkerUsed(w)
    <2>1. /\ UNCHANGED <<status, chain>> /\ wpc'[w] # "fail" /\ wpc[w] \in PastExecute
          /\ \A d \in Caps : d # c => row'[d] = row[d]
      BY <1>1, <1>2, <1>14 DEF WorkerConsumed, WorkerUsed, markConsumedPending, markUsed,
         WorkerGoto, TypeOK, PoolTypeOK
    <2>2. \A d \in Caps : PoolOf(d)' = PoolOf(d)
      BY <1>7, <2>1 DEF PoolOf
    <2>. QED BY <1>4, <1>6, <2>1, <2>2, ViewFrames, Unseen
  <1>15. CASE WorkerSubmitted(w)
    <2>1. /\ wpc[w] = "submitted" /\ wpc'[w] # "fail" /\ UNCHANGED <<row, chain>>
          /\ status[r] = "queued"
          /\ status' = [status EXCEPT ![r] = "submitted"]
      BY <1>1, <1>2, <1>15 DEF WorkerSubmitted, SetStatus, WorkerGoto, StatusAt, TypeOK
    <2>2. PoolOf(c) = "spent" /\ UNCHANGED poolMap
      BY <1>7, <2>1, ViewFrames DEF PoolOf
    <2>3. UNCHANGED holdMap
      BY <1>1, <1>2, <1>3, <2>1, WorkerKeeps DEF TypeOK
    <2>4. Contract!Submit(r)
      BY <1>2, <1>4, <2>1, <2>2, <2>3
      DEF Contract!Submit, Contract!Move, paidMap, holdMap, poolMap
    <2>. QED BY <2>4 DEF Contract!Next
  <1>. QED BY <1>9, <1>10, <1>11, <1>12, <1>13, <1>14, <1>15

\* The end of the job: Complete, or Fail and Refund.
LEMMA SettleServes ==
    ASSUME NEW w \in Workers, PromptInv,
           WorkerComplete(w) \/ WorkerFail(w) \/ WorkerRefund(w)
    PROVE  [Contract!Next]_(Contract!contractVars)
  <1>1. PromptParts /\ TypeOK
    BY DEF PromptInv, PromptParts, SettleInv, RaceInv
  <1>2. PICK r \in Reqs : r = wreq[w] /\ status[r] \in StatusAt(wpc[w])
    BY <1>1, WorkerServes DEF PromptParts, OneHandler, PromptInv, SettleInv, WorkerComplete,
       WorkerFail, WorkerRefund
  <1>3. UNCHANGED <<row, chain, pcap>>
        /\ \A v \in Workers : v # w => wpc'[v] = wpc[v] /\ wreq'[v] = wreq[v]
    BY <1>1 DEF WorkerComplete, WorkerFail, WorkerRefund, WorkerFinish, WorkerIdle, WorkerGoto,
       TypeOK
  <1>4. UNCHANGED poolMap
    BY <1>3, ViewFrames
  <1>5. ASSUME NEW q \in Reqs, q # r, status'[q] = status[q]
        PROVE  HoldOf(q)' = HoldOf(q)
    <2>1. wreq'[w] \in {wreq[w], None}
      BY <1>1 DEF WorkerComplete, WorkerFail, WorkerRefund, WorkerFinish, WorkerIdle,
         WorkerGoto, TypeOK
    <2>2. GivingUp(q)' <=> GivingUp(q)
      BY <1>2, <1>3, <1>5, <2>1 DEF GivingUp
    <2>. QED BY <1>3, <1>5, <2>2 DEF HoldOf
  <1>6. CASE WorkerComplete(w)
    <2>1. /\ wpc[w] = "complete" /\ status[r] = "submitted" /\ wpc'[w] = "idle"
          /\ wreq'[w] = None /\ status' = [status EXCEPT ![r] = "completed"]
          /\ UNCHANGED <<charged, refunded>>
      BY <1>1, <1>2, <1>6 DEF WorkerComplete, SetStatus, WorkerFinish, WorkerIdle, StatusAt,
         TypeOK
    <2>2. UNCHANGED holdMap
      BY <1>1, <1>2, <1>3, <2>1, WorkerKeeps DEF TypeOK
    <2>3. HoldOf(r) # None /\ UNCHANGED paidMap
      BY <1>2, <2>1, WorkerHasIt, ViewFrames
    <2>4. Contract!Complete(r)
      BY <1>4, <2>1, <2>2, <2>3 DEF Contract!Complete, Contract!Move, paidMap, holdMap, poolMap
    <2>. QED BY <2>4 DEF Contract!Next
  <1>7. CASE WorkerFail(w)
    <2>1. /\ wpc[w] = "fail" /\ status[r] \in {"queued", "submitted"}
          /\ status' = [status EXCEPT ![r] = "failed"]
          /\ UNCHANGED <<charged, refunded>>
      BY <1>1, <1>2, <1>7 DEF WorkerFail, SetStatus, StatusAt, TypeOK
    <2>2. HoldOf(r) = None /\ HoldOf(r)' = None
      BY <1>1, <1>2, <2>1 DEF HoldOf, GivingUp, TypeOK
    <2>3. \A q \in Reqs : HoldOf(q)' = HoldOf(q)
      BY <1>1, <1>5, <2>1, <2>2 DEF TypeOK
    <2>4. UNCHANGED <<paidMap, holdMap>>
      BY <2>1, <2>3, ViewFrames
    <2>5. Contract!Fail(r)
      BY <1>4, <2>1, <2>2, <2>4 DEF Contract!Fail, Contract!Move, paidMap, holdMap, poolMap
    <2>. QED BY <2>5 DEF Contract!Next
  <1>8. CASE WorkerRefund(w)
    <2>1. UNCHANGED status /\ status[r] = "failed" /\ refundCredits(r)
      BY <1>2, <1>8 DEF WorkerRefund, StatusAt
    <2>2. HoldOf(r) = None /\ HoldOf(r)' = None
      BY <2>1 DEF HoldOf
    <2>3. UNCHANGED holdMap
      BY <1>5, <2>1, <2>2, ViewFrames
    <2>. QED BY <1>4, <2>1, <2>3, RefundServes
  <1>. QED BY <1>6, <1>7, <1>8

\* A late landing spends the presign of a request that is being given up, or
\* one that was retired.
LEMMA LandingServes ==
    ASSUME NEW r \in Reqs, NEW c \in Caps, PromptInv, LateLanding(r, c)
    PROVE  Contract!Next
  <1>1. PromptParts /\ PoolTypeOK
    BY DEF PromptInv, PromptParts, SettleInv, RaceInv, TypeOK
  <1>2. /\ chain[c] = "valid" /\ chain' = [chain EXCEPT ![c] = "burned"]
        /\ UNCHANGED <<status, row, charged, refunded, pcap, wpc, wreq>>
    BY DEF LateLanding, Burn
  <1>3. UNCHANGED <<paidMap, holdMap>>
    BY <1>2, ViewFrames
  <1>4. poolMap' = [poolMap EXCEPT ![c] = "spent"]
    BY <1>1, <1>2 DEF poolMap, PoolOf, PoolTypeOK
  <1>5. CASE row[c] = "used"
    <2>1. Contract!SpendLate(c)
      BY <1>2, <1>3, <1>4, <1>5 DEF Contract!SpendLate, paidMap, holdMap, poolMap, PoolOf
    <2>. QED BY <2>1 DEF Contract!Next
  <1>6. ASSUME row[c] = "allocated", NEW w \in Workers,
               wpc[w] = "retire", wreq[w] = r, wcap[w] = c
        PROVE  Contract!Next
    <2>1. status[r] = "queued" /\ HoldOf(r) = c
      BY <1>1, <1>6, WorkerHasIt DEF PromptParts, WorkersFit, WorkerFits
    <2>2. Contract!Spend(r)
      BY <1>2, <1>3, <1>4, <1>6, <2>1 DEF Contract!Spend, paidMap, holdMap, poolMap, PoolOf
    <2>. QED BY <2>2 DEF Contract!Next
  <1>. QED BY <1>1, <1>5, <1>6 DEF LateLanding, PromptParts, UnknownFits

\* To the contract a presign that is minted, recorded or promoted is free all
\* the time.
LEMMA PoolServes ==
    ASSUME Undisturbed, PromptInv, PoolStep
    PROVE  UNCHANGED Contract!contractVars
  <1>1. PoolFits /\ PoolTypeOK /\ NothingStale
    BY DEF PromptInv, SettleInv, RaceInv, TypeOK
  <1>2. UNCHANGED <<status, charged, refunded, pcap, wpc, wreq>>
    BY DEF PoolStep
  <1>3. SUFFICES \A c \in Caps : PoolOf(c)' = PoolOf(c)
    BY <1>2, ViewFrames, Unseen
  <1>4. CASE sweepRescue \/ sweepPark
    <2>1. Rescued = {} /\ Parked = {}
      BY <1>1 DEF NothingStale, Rescued, Parked, Expired
    <2>2. UNCHANGED <<row, chain>>
      BY <1>1, <1>4, <2>1 DEF sweepRescue, sweepPark, PoolTypeOK
    <2>. QED BY <2>2 DEF PoolOf
  <1>5. ASSUME NEW x \in Sweepers,
               promoteSelect(x) \/ (\E c \in Caps : promoteCheck(x, c)) \/ promoteWrite(x)
        PROVE  \A c \in Caps : PoolOf(c)' = PoolOf(c)
    BY <1>1, <1>5 DEF promoteSelect, promoteCheck, promoteWrite, PoolFits, PoolTypeOK, PoolOf
  <1>6. CASE refillMint
    BY <1>1, <1>6 DEF refillMint, Batches, PoolFits, PoolTypeOK, PoolOf
  <1>7. CASE refillInsert
    BY <1>1, <1>7 DEF refillInsert, PoolTypeOK, PoolOf
  <1>8. ASSUME NEW c \in Caps, discover(c) \/ CoordinatorCompletes(c)
        PROVE  \A d \in Caps : PoolOf(d)' = PoolOf(d)
    BY <1>1, <1>8 DEF discover, Untracked, CoordinatorCompletes, PoolFits, PoolTypeOK, PoolOf
  <1>. QED BY <1>4, <1>5, <1>6, <1>7, <1>8 DEF PoolStep, sweepExpiredJob, Undisturbed

\* Every step of an undisturbed run is a step of the contract or unseen by it.
LEMMA StepsServe ==
    ASSUME Undisturbed
    PROVE  PromptInv /\ [Next]_vars => [Contract!Next]_(Contract!contractVars)
  <1>. SUFFICES ASSUME PromptInv, [Next]_vars
                PROVE  [Contract!Next]_(Contract!contractVars)
    OBVIOUS
  <1>1. ASSUME NEW r \in Reqs, PrepareLookup(r) \/ Prepare(r) \/ PrepareCrash(r)
        PROVE  [Contract!Next]_(Contract!contractVars)
    BY <1>1, PrepareServes DEF PrepareCrash, Undisturbed
  <1>2. ASSUME NEW s \in Submitters,
               (\E r \in Reqs : SubmitRead(s, r)) \/ Submit(s) \/ SubmitCrash(s)
        PROVE  [Contract!Next]_(Contract!contractVars)
    BY <1>2, SubmitServes DEF SubmitCrash, Undisturbed
  <1>3. ASSUME NEW w \in Workers, Work(w) \/ WorkerCrash(w)
        PROVE  [Contract!Next]_(Contract!contractVars)
    BY <1>3, TakeServes, ProcessServes, SettleServes DEF Work, WorkerCrash, Undisturbed
  <1>4. ASSUME NEW r \in Reqs, NEW c \in Caps, LateLanding(r, c) \/ ReconcileClassify(r, c)
        PROVE  [Contract!Next]_(Contract!contractVars)
    BY <1>4, LandingServes DEF ReconcileClassify, Undisturbed
  <1>5. CASE PoolStep
    BY <1>5, PoolServes
  <1>6. ~ReconcileApply /\ ~Sweep /\ ~SweepCrash /\ ~TtlPasses
    BY NoSweepRuns
  <1>7. CASE UNCHANGED vars
    BY <1>7, ViewFrames, Unseen DEF vars
  <1>. QED BY <1>1, <1>2, <1>3, <1>4, <1>5, <1>6, <1>7 DEF Next

\* The handlers, jobs and tables implement the contract of SignContract: in a
\* run without a TTL, a crash, a reconciliation or a repeated key, as long as
\* no two submits of a request and no two promotions overlap, a request is
\* paid for, takes one presign, and completes or is refunded, with any number
\* of requests, presigns, pods, lock timeouts and lost answers.
THEOREM HandlersImplementContract ==
    ASSUME Undisturbed
    PROVE  Spec /\ []OneAtATime => ImplementsContract
  BY PromptInvariance, ContractStarts, StepsServe, PTL
  DEF Spec, ImplementsContract, Contract!Spec

\* With one submit handler and one sweeper there is nothing to assume of the
\* run: the handlers implement the contract.
THEOREM OneOfEachImplementsContract ==
    ASSUME Undisturbed, \A s, t \in Submitters : s = t, \A x, y \in Sweepers : x = y
    PROVE  Spec => ImplementsContract
  <1>1. OneAtATime
    BY DEF OneAtATime
  <1>. QED BY HandlersImplementContract, <1>1, PTL

=============================================================================
