--------------------------- MODULE TxExecutorProofs ---------------------------
(***************************************************************************)
(* ExecInv is inductive, for any number of calls on any number of pods.    *)
(***************************************************************************)
EXTENDS TxExecutor, TLAPS

USE ExecutorAssumption DEF Section, lockVars, chainVars

\* No call has started.
LEMMA ExecInit == Init => ExecInv
  <1>. SUFFICES ASSUME Init PROVE ExecInv
    OBVIOUS
  <1>. USE DEF Init
  <1>1. TypeOK
    <2>1. waiters \in Seq(Calls)
      OBVIOUS
    <2>2. redis \in BOOLEAN /\ held \in BOOLEAN
      BY Zenon
    <2>. QED BY <2>1, <2>2 DEF TypeOK
  <1>2. OwnsKey /\ OwnsProcess /\ WaitersWait
    BY DEF OwnsKey, OwnsProcess, WaitersWait
  <1>3. TxFollowsCall BY DEF TxFollowsCall
  <1>4. PhaseIsHonest BY DEF PhaseIsHonest
  <1>5. PinIsCurrent BY DEF PinIsCurrent
  <1>. QED BY <1>1, <1>2, <1>3, <1>4, <1>5 DEF ExecInv

\* Who is not waiting may move on: the queue stays right.
LEMMA WaitersStay ==
    ASSUME ExecInv, waiters' = waiters,
           \A c \in Calls : pc[c] = "waiting" => pc'[c] = "waiting"
    PROVE  WaitersWait'
  <1>1. \A i \in 1 .. Len(waiters) : waiters[i] \in Calls
    BY DEF ExecInv, TypeOK
  <1>. QED BY <1>1 DEF ExecInv, WaitersWait

\* A call that has gone astray stays so, and no step but Build, Send and those
\* of the chain touches a transaction.
LEMMA PinStays ==
    ASSUME ExecInv, UNCHANGED <<pin, tx, version>>, lapsed \subseteq lapsed',
           \A c \in Calls : /\ pc[c] = "dead" => pc'[c] = "dead"
                            /\ outcome[c] = "unknown" => outcome'[c] = "unknown"
                            /\ pc'[c] = "send" => pc[c] = "send"
    PROVE  PinIsCurrent'
  BY DEF ExecInv, PinIsCurrent, Astray

\* A call that stores its token finds none stored.
LEMMA StepAcquire ==
    ASSUME NEW c \in Calls, ExecInv, Acquire(c)
    PROVE  ExecInv'
  <1>. USE DEF ExecInv, Acquire, Goto
  <1>1. TypeOK'
    BY DEF TypeOK
  <1>2. OwnsKey'
    BY DEF TypeOK, OwnsKey
  <1>3. OwnsProcess'
    BY DEF TypeOK, OwnsProcess
  <1>4. WaitersWait'
    BY WaitersStay DEF TypeOK
  <1>5. TxFollowsCall'
    BY DEF TypeOK, TxFollowsCall, Astray
  <1>6. PhaseIsHonest'
    BY DEF TypeOK, PhaseIsHonest, TxFollowsCall
  <1>7. PinIsCurrent'
    BY PinStays DEF TypeOK, TxFollowsCall
  <1>. QED BY <1>1, <1>2, <1>3, <1>4, <1>5, <1>6, <1>7

\* A call without the lock sends nothing; a token it may have left is nobody's.
LEMMA StepAcquireFails ==
    ASSUME NEW c \in Calls, ExecInv, AcquireFails(c)
    PROVE  ExecInv'
  <1>. USE DEF ExecInv, AcquireFails, Goto
  <1>1. TypeOK'
    BY DEF TypeOK
  <1>2. OwnsKey'
    BY DEF TypeOK, OwnsKey
  <1>3. OwnsProcess'
    BY DEF TypeOK, OwnsProcess
  <1>4. WaitersWait'
    BY WaitersStay DEF TypeOK
  <1>5. TxFollowsCall'
    BY DEF TypeOK, TxFollowsCall, Astray
  <1>6. PhaseIsHonest'
    BY DEF TypeOK, PhaseIsHonest, TxFollowsCall
  <1>7. PinIsCurrent'
    BY PinStays DEF TypeOK, TxFollowsCall
  <1>. QED BY <1>1, <1>2, <1>3, <1>4, <1>5, <1>6, <1>7

\* The free lock is taken, or the call joins the queue at its end.
LEMMA StepAcquireInProcess ==
    ASSUME NEW c \in Calls, ExecInv, AcquireInProcess(c)
    PROVE  ExecInv'
  <1>. USE DEF ExecInv, AcquireInProcess, Goto
  <1>1. TypeOK'
    <2>1. waiters' \in Seq(Calls)
      <3>1. waiters \in Seq(Calls)
        BY DEF TypeOK
      <3>2. waiters' = Append(waiters, c) \/ waiters' = waiters
        OBVIOUS
      <3>. QED BY <3>1, <3>2
    <2>2. pc' \in [Calls -> Section \cup {"acquire", "waiting", "done", "dead"}]
      BY DEF TypeOK
    <2>. QED BY <2>1, <2>2 DEF TypeOK
  <1>2. OwnsKey'
    BY DEF TypeOK, OwnsKey
  <1>3. OwnsProcess'
    BY DEF TypeOK, OwnsProcess
  <1>4. WaitersWait'
    <2>1. CASE held
      <3>1. /\ waiters' = Append(waiters, c)
            /\ pc' = [pc EXCEPT ![c] = "waiting"]
        BY <2>1
      <3>2. /\ waiters \in Seq(Calls)
            /\ Len(waiters') = Len(waiters) + 1
            /\ waiters'[Len(waiters) + 1] = c
            /\ \A i \in 1 .. Len(waiters) : waiters'[i] = waiters[i]
        BY <3>1 DEF TypeOK
      <3>3. \A i \in 1 .. Len(waiters) : waiters[i] \in Calls /\ waiters[i] # c
        BY <3>2 DEF WaitersWait
      <3>. QED BY <3>1, <3>2, <3>3 DEF TypeOK, WaitersWait
    <2>2. CASE ~held
      BY <2>2, WaitersStay DEF TypeOK
    <2>. QED BY <2>1, <2>2
  <1>5. TxFollowsCall'
    BY DEF TypeOK, TxFollowsCall, Astray
  <1>6. PhaseIsHonest'
    BY DEF TypeOK, PhaseIsHonest, TxFollowsCall
  <1>7. PinIsCurrent'
    BY PinStays DEF TypeOK, TxFollowsCall
  <1>. QED BY <1>1, <1>2, <1>3, <1>4, <1>5, <1>6, <1>7

\* Reserving gas sends nothing.
LEMMA StepReserveGas ==
    ASSUME NEW c \in Calls, ExecInv, ReserveGas(c)
    PROVE  ExecInv'
  <1>. USE DEF ExecInv, ReserveGas, Goto, Settle
  <1>1. TypeOK'
    BY DEF TypeOK
  <1>2. OwnsKey'
    BY DEF TypeOK, OwnsKey
  <1>3. OwnsProcess'
    BY DEF TypeOK, OwnsProcess
  <1>4. WaitersWait'
    BY WaitersStay DEF TypeOK
  <1>5. TxFollowsCall'
    BY DEF TypeOK, TxFollowsCall, Astray
  <1>6. PhaseIsHonest'
    BY DEF TypeOK, PhaseIsHonest, TxFollowsCall
  <1>7. PinIsCurrent'
    BY PinStays DEF TypeOK, TxFollowsCall
  <1>. QED BY <1>1, <1>2, <1>3, <1>4, <1>5, <1>6, <1>7

\* The cap's version is read inside the section.
LEMMA StepBuild ==
    ASSUME NEW c \in Calls, ExecInv, Build(c)
    PROVE  ExecInv'
  <1>. USE DEF ExecInv, Build, Goto, Settle
  <1>1. TypeOK'
    BY ZenonT(60) DEF TypeOK
  <1>2. OwnsKey'
    BY DEF TypeOK, OwnsKey
  <1>3. OwnsProcess'
    BY DEF TypeOK, OwnsProcess
  <1>4. WaitersWait'
    BY WaitersStay DEF TypeOK
  <1>5. TxFollowsCall'
    BY DEF TypeOK, TxFollowsCall, Astray
  <1>6. PhaseIsHonest'
    BY DEF TypeOK, PhaseIsHonest, TxFollowsCall
  <1>7. PinIsCurrent'
    <2>1. CASE pin' = [pin EXCEPT ![c] = version] /\ UNCHANGED outcome
      BY <2>1 DEF TypeOK, PinIsCurrent, Astray
    <2>2. CASE Settle(c, "preflight") /\ UNCHANGED pin
      BY <2>2, PinStays DEF TypeOK, TxFollowsCall
    <2>. QED BY <2>1, <2>2
  <1>. QED BY <1>1, <1>2, <1>3, <1>4, <1>5, <1>6, <1>7

\* Only the call in the section sends.
LEMMA StepSend ==
    ASSUME NEW c \in Calls, ExecInv, Send(c)
    PROVE  ExecInv'
  <1>. USE DEF ExecInv, Send, Goto, Settle
  <1>1. TypeOK'
    BY DEF TypeOK
  <1>2. OwnsKey'
    BY DEF TypeOK, OwnsKey
  <1>3. OwnsProcess'
    BY DEF TypeOK, OwnsProcess
  <1>4. WaitersWait'
    BY WaitersStay DEF TypeOK
  <1>5. TxFollowsCall'
    BY SMTT(30) DEF TypeOK, TxFollowsCall, Astray
  <1>6. PhaseIsHonest'
    BY ZenonT(60) DEF TypeOK, PhaseIsHonest, TxFollowsCall
  <1>7. PinIsCurrent'
    BY DEF TypeOK, PinIsCurrent, TxFollowsCall, OwnsKey, OwnsProcess, Astray
  <1>. QED BY <1>1, <1>2, <1>3, <1>4, <1>5, <1>6, <1>7

\* The answer decides, or the call goes astray.
LEMMA StepAwait ==
    ASSUME NEW c \in Calls, ExecInv, Await(c)
    PROVE  ExecInv'
  <1>. USE DEF ExecInv, Await, Goto, Settle
  <1>1. TypeOK'
    BY DEF TypeOK
  <1>2. OwnsKey'
    BY DEF TypeOK, OwnsKey
  <1>3. OwnsProcess'
    BY DEF TypeOK, OwnsProcess
  <1>4. WaitersWait'
    BY WaitersStay DEF TypeOK
  <1>5. TxFollowsCall'
    BY DEF TypeOK, TxFollowsCall, Astray
  <1>6. PhaseIsHonest'
    BY DEF TypeOK, PhaseIsHonest, TxFollowsCall
  <1>7. PinIsCurrent'
    BY PinStays DEF TypeOK, TxFollowsCall
  <1>. QED BY <1>1, <1>2, <1>3, <1>4, <1>5, <1>6, <1>7

\* Only a call's own token is deleted.
LEMMA StepRelease ==
    ASSUME NEW c \in Calls, ExecInv, Release(c)
    PROVE  ExecInv'
  <1>. USE DEF ExecInv, Release, Goto
  <1>1. TypeOK'
    BY DEF TypeOK
  <1>2. OwnsKey'
    BY DEF TypeOK, OwnsKey
  <1>3. OwnsProcess'
    BY DEF TypeOK, OwnsProcess
  <1>4. WaitersWait'
    BY WaitersStay DEF TypeOK
  <1>5. TxFollowsCall'
    BY DEF TypeOK, TxFollowsCall, Astray
  <1>6. PhaseIsHonest'
    BY DEF TypeOK, PhaseIsHonest, TxFollowsCall
  <1>7. PinIsCurrent'
    BY PinStays DEF TypeOK, TxFollowsCall
  <1>. QED BY <1>1, <1>2, <1>3, <1>4, <1>5, <1>6, <1>7

\* The lock passes from its owner to the first waiter.
LEMMA StepReleaseInProcess ==
    ASSUME NEW c \in Calls, ExecInv, ReleaseInProcess(c)
    PROVE  ExecInv'
  <1>. USE DEF ExecInv, ReleaseInProcess, Goto
  <1>1. TypeOK'
    <2>1. waiters' \in Seq(Calls)
      <3>1. waiters \in Seq(Calls)
        BY DEF TypeOK
      <3>2. waiters' = waiters \/ (waiters # <<>> /\ waiters' = Tail(waiters))
        OBVIOUS
      <3>. QED BY <3>1, <3>2
    <2>2. pc' \in [Calls -> Section \cup {"acquire", "waiting", "done", "dead"}]
      BY DEF TypeOK
    <2>. QED BY <2>1, <2>2 DEF TypeOK
  <1>2. OwnsKey'
    BY DEF TypeOK, OwnsKey
  <1>3. OwnsProcess'
    BY ZenonT(60) DEF TypeOK, OwnsProcess
  <1>4. WaitersWait'
    <2>1. CASE waiters = <<>>
      BY <2>1, WaitersStay DEF TypeOK
    <2>2. CASE waiters # <<>>
      <3>1. /\ waiters' = Tail(waiters)
            /\ pc' = [pc EXCEPT ![c] = "done", ![Head(waiters)] = "reserve"]
        BY <2>2
      <3>2. /\ waiters \in Seq(Calls)
            /\ Len(waiters') = Len(waiters) - 1
            /\ \A i \in 1 .. Len(waiters') : waiters'[i] = waiters[i + 1]
        BY <2>2, <3>1 DEF TypeOK
      <3>3. \A i \in 1 .. Len(waiters') : /\ waiters[i + 1] \in Calls
                                          /\ waiters[i + 1] # c
                                          /\ waiters[i + 1] # waiters[1]
        BY <3>2 DEF WaitersWait
      <3>. QED BY <3>1, <3>2, <3>3 DEF TypeOK, WaitersWait
    <2>. QED BY <2>1, <2>2
  <1>5. TxFollowsCall'
    <2>1. CASE waiters = <<>>
      BY <2>1 DEF TypeOK, TxFollowsCall, Astray
    <2>2. CASE waiters # <<>>
      <3>1. Head(waiters) \in Calls /\ pc[Head(waiters)] = "waiting"
        BY <2>2 DEF TypeOK, WaitersWait
      <3>. QED BY <2>2, <3>1 DEF TypeOK, TxFollowsCall, Astray
    <2>. QED BY <2>1, <2>2
  <1>6. PhaseIsHonest'
    BY DEF TypeOK, PhaseIsHonest, TxFollowsCall
  <1>7. PinIsCurrent'
    <2>1. CASE waiters = <<>>
      BY <2>1, PinStays DEF TypeOK
    <2>2. CASE waiters # <<>>
      <3>1. Head(waiters) \in Calls /\ pc[Head(waiters)] = "waiting"
        BY <2>2 DEF TypeOK, WaitersWait
      <3>. QED BY <2>2, <3>1, PinStays DEF TypeOK
    <2>. QED BY <2>1, <2>2
  <1>. QED BY <1>1, <1>2, <1>3, <1>4, <1>5, <1>6, <1>7

\* A call that dies goes astray.
LEMMA StepPodDies ==
    ASSUME NEW c \in Calls, ExecInv, PodDies(c)
    PROVE  ExecInv'
  <1>. USE DEF ExecInv, PodDies, Goto
  <1>1. TypeOK'
    BY DEF TypeOK
  <1>2. OwnsKey'
    BY DEF TypeOK, OwnsKey
  <1>3. OwnsProcess'
    BY DEF TypeOK, OwnsProcess
  <1>4. WaitersWait'
    BY WaitersStay DEF TypeOK
  <1>5. TxFollowsCall'
    BY DEF TypeOK, TxFollowsCall, Astray
  <1>6. PhaseIsHonest'
    BY DEF TypeOK, PhaseIsHonest, TxFollowsCall
  <1>7. PinIsCurrent'
    BY PinStays DEF TypeOK, TxFollowsCall
  <1>. QED BY <1>1, <1>2, <1>3, <1>4, <1>5, <1>6, <1>7

\* Until a call goes astray the transaction the chain runs is the only one under
\* way.
LEMMA StepChainRuns ==
    ASSUME NEW c \in Calls, ExecInv, ChainRuns(c)
    PROVE  ExecInv'
  <1>. USE DEF ExecInv, ChainRuns
  <1>1. TypeOK'
    <2>1. version' \in Nat
      BY DEF TypeOK
    <2>2. tx' \in [Calls -> {"none", "sent", "landed", "reverted", "stale",
                             "dropped"}]
      BY DEF TypeOK
    <2>. QED BY <2>1, <2>2 DEF TypeOK
  <1>2. OwnsKey'
    BY DEF TypeOK, OwnsKey
  <1>3. OwnsProcess'
    BY DEF TypeOK, OwnsProcess
  <1>4. WaitersWait'
    BY WaitersStay DEF TypeOK
  <1>5. TxFollowsCall'
    BY DEF TypeOK, TxFollowsCall, Astray
  <1>6. PhaseIsHonest'
    BY DEF TypeOK, PhaseIsHonest, TxFollowsCall
  <1>7. PinIsCurrent'
    BY DEF TypeOK, PinIsCurrent, TxFollowsCall, OwnsKey, OwnsProcess, Astray
  <1>. QED BY <1>1, <1>2, <1>3, <1>4, <1>5, <1>6, <1>7

\* A call that loses its token goes astray.
LEMMA StepTokenExpires ==
    ASSUME ExecInv, TokenExpires
    PROVE  ExecInv'
  <1>. USE DEF ExecInv, TokenExpires
  <1>1. TypeOK'
    BY DEF TypeOK
  <1>2. OwnsKey'
    BY DEF TypeOK, OwnsKey
  <1>3. OwnsProcess'
    BY DEF TypeOK, OwnsProcess
  <1>4. WaitersWait'
    BY WaitersStay DEF TypeOK
  <1>5. TxFollowsCall'
    BY DEF TypeOK, TxFollowsCall, Astray
  <1>6. PhaseIsHonest'
    BY DEF TypeOK, PhaseIsHonest, TxFollowsCall
  <1>7. PinIsCurrent'
    BY PinStays DEF TypeOK, TxFollowsCall
  <1>. QED BY <1>1, <1>2, <1>3, <1>4, <1>5, <1>6, <1>7

\* Stuttering changes nothing.
LEMMA ExecStutter == ExecInv /\ UNCHANGED vars => ExecInv'
  BY DEF vars, ExecInv, TypeOK, OwnsKey, OwnsProcess, WaitersWait,
         TxFollowsCall, PhaseIsHonest, PinIsCurrent, Astray

\* Every step of a call, its pod, its token and the chain preserves the
\* invariant.
LEMMA ExecNext == ExecInv /\ [Next]_vars => ExecInv'
  <1>. SUFFICES ASSUME ExecInv, [Next]_vars PROVE ExecInv'
    OBVIOUS
  <1>1. ASSUME NEW c \in Calls, Execute(c) PROVE ExecInv'
    BY <1>1, StepAcquire, StepAcquireFails, StepAcquireInProcess,
       StepReserveGas, StepBuild, StepSend, StepAwait, StepRelease,
       StepReleaseInProcess
    DEF Execute
  <1>2. ASSUME NEW c \in Calls, PodDies(c) \/ ChainRuns(c) PROVE ExecInv'
    BY <1>2, StepPodDies, StepChainRuns
  <1>. QED BY <1>1, <1>2, StepTokenExpires, ExecStutter DEF Next

\* The invariant holds in every behaviour of execute.
THEOREM ExecInvariance == Spec => []ExecInv
  BY ExecInit, ExecNext, PTL DEF Spec

\* Type correctness of the executor and its lock.
THEOREM ExecTypeCorrect == Spec => []TypeOK
  <1>1. ExecInv => TypeOK
    BY DEF ExecInv
  <1>. QED BY ExecInvariance, <1>1, PTL

\* The phase of a TxExecutorError tells the truth about the transaction, for
\* ever after, whatever timed out, died or was answered late: what
\* processSignJob relies on when it re-readies a presign.
THEOREM PhasesAreHonest == Spec => []PhaseIsHonest
  <1>1. ExecInv => PhaseIsHonest
    BY DEF ExecInv
  <1>. QED BY ExecInvariance, <1>1, PTL

\* withLock excludes: of the calls whose token has not expired, at most one
\* is in the section, with Redis and without.
THEOREM LockExcludes == Spec => []SectionExclusive
  <1>1. ExecInv => SectionExclusive
    <2>1. ASSUME ExecInv, redis PROVE SectionExclusive
      BY <2>1 DEF ExecInv, OwnsKey, SectionExclusive
    <2>2. ASSUME ExecInv, ~redis PROVE SectionExclusive
      BY <2>2 DEF ExecInv, OwnsProcess, SectionExclusive
    <2>. QED BY <2>1, <2>2
  <1>. QED BY ExecInvariance, <1>1, PTL

\* No transaction is refused for an old OperatorCap version unless a call
\* outlived its token, died or gave up on its answer before.
THEOREM LockKeepsCapFresh == Spec => []StaleMeansStray
  <1>1. ExecInv => StaleMeansStray
    BY DEF ExecInv, PinIsCurrent, StaleMeansStray
  <1>. QED BY ExecInvariance, <1>1, PTL
=============================================================================
