------------------------------ MODULE TxExecutor ------------------------------
(***************************************************************************)
(* GasStationExecutor.execute (shared/sui/tx-executor.ts) under withLock   *)
(* (shared/redis/lock.ts): the transactions of one network are built and   *)
(* submitted one at a time, because each mutates the OperatorCap and pins  *)
(* its version.  Each call makes one transaction.  The gas station and the *)
(* chain are external; prices, bytes and events are left out.              *)
(***************************************************************************)
EXTENDS Naturals, Sequences

CONSTANTS
    Calls, \* calls of execute, each with its own lock token
    None   \* no token

ASSUME ExecutorAssumption == None \notin Calls

VARIABLES
    redis,   \* whether REDIS_URL is set
    key,     \* the token stored under the lock's key
    lapsed,  \* calls whose lock expired while it was theirs
    held,    \* the in-process fallback: the lock is taken
    waiters, \* and the calls waiting for it, in order
    pc,      \* the statement a call is at
    outcome, \* what it returns or throws: a TxFailurePhase, or "nolock" for
             \* the plain Error of withLock
    pin,     \* the OperatorCap version its transaction names
    tx,      \* what became of the transaction, whoever knows it
    version  \* the OperatorCap's version on chain

lockVars == <<redis, key, lapsed, held, waiters>>

chainVars == <<tx, version>>

vars == <<redis, key, lapsed, held, waiters, pc, outcome, pin, tx, version>>

Section == {"reserve", "build", "send", "await", "release"}

TypeOK ==
    /\ redis \in BOOLEAN
    /\ key \in Calls \cup {None}
    /\ lapsed \subseteq Calls
    /\ held \in BOOLEAN
    /\ waiters \in Seq(Calls)
    /\ pc \in [Calls -> Section \cup {"acquire", "waiting", "done", "dead"}]
    /\ outcome \in [Calls -> {"none", "ok", "preflight", "reverted", "unknown",
                              "nolock"}]
    /\ pin \in [Calls -> Nat]
    /\ tx \in [Calls -> {"none", "sent", "landed", "reverted", "stale",
                         "dropped"}]
    /\ version \in Nat

Init ==
    /\ redis \in BOOLEAN
    /\ key = None /\ lapsed = {}
    /\ held = FALSE /\ waiters = <<>>
    /\ pc = [c \in Calls |-> "acquire"]
    /\ outcome = [c \in Calls |-> "none"]
    /\ pin = [c \in Calls |-> 0]
    /\ tx = [c \in Calls |-> "none"]
    /\ version = 1

Goto(c, label) == pc' = [pc EXCEPT ![c] = label]

\* The call is over but for the release in withLock's finally.
Settle(c, result) ==
    /\ outcome' = [outcome EXCEPT ![c] = result]
    /\ Goto(c, "release")

-----------------------------------------------------------------------------
(***************************************************************************)
(* withLock: acquire.                                                      *)
(***************************************************************************)
\* Mutant: SET without NX.
Acquire_NoNX(c) ==
    /\ redis /\ pc[c] = "acquire"
    /\ key' = c
    /\ Goto(c, "reserve")
    /\ UNCHANGED <<redis, lapsed, held, waiters, outcome, pin, chainVars>>

\* SET key token PX ttl NX answers OK.
Acquire(c) ==
    /\ redis /\ pc[c] = "acquire"
    /\ key = None
    /\ key' = c
    /\ Goto(c, "reserve")
    /\ UNCHANGED <<redis, lapsed, held, waiters, outcome, pin, chainVars>>

\* The deadline passes between two polls, or redis.set throws, perhaps after
\* the server has stored the token.
AcquireFails(c) ==
    /\ redis /\ pc[c] = "acquire"
    /\ key' = key \/ (key = None /\ key' = c)
    /\ outcome' = [outcome EXCEPT ![c] = "nolock"]
    /\ Goto(c, "done")
    /\ UNCHANGED <<redis, lapsed, held, waiters, pin, chainVars>>

\* Without Redis: a FIFO queue in the one process there is, with no deadline.
AcquireInProcess(c) ==
    /\ ~redis /\ pc[c] = "acquire"
    /\ IF held THEN waiters' = Append(waiters, c) /\ Goto(c, "waiting")
               ELSE UNCHANGED waiters /\ Goto(c, "reserve")
    /\ held' = TRUE
    /\ UNCHANGED <<redis, key, lapsed, outcome, pin, chainVars>>

-----------------------------------------------------------------------------
(***************************************************************************)
(* executeUnlocked.                                                        *)
(***************************************************************************)
ReserveGas(c) ==
    /\ pc[c] = "reserve"
    /\ \/ Goto(c, "build") /\ UNCHANGED outcome
       \/ Settle(c, "preflight")
    /\ UNCHANGED <<lockVars, pin, chainVars>>

\* tx.build resolves the OperatorCap to its current version.
Build(c) ==
    /\ pc[c] = "build"
    /\ \/ /\ pin' = [pin EXCEPT ![c] = version]
          /\ Goto(c, "send")
          /\ UNCHANGED outcome
       \/ Settle(c, "preflight") /\ UNCHANGED pin
    /\ UNCHANGED <<lockVars, chainVars>>

\* The POST of execute_tx leaves, or fails without having reached the pool.
Send(c) ==
    /\ pc[c] = "send"
    /\ \/ /\ tx' = [tx EXCEPT ![c] = "sent"]
          /\ Goto(c, "await")
          /\ UNCHANGED outcome
       \/ Settle(c, "unknown") /\ UNCHANGED tx
    /\ UNCHANGED <<lockVars, pin, version>>

\* Mutant: a timeout counts as a failure before submission.
Await_TimeoutIsPreflight(c) ==
    /\ pc[c] = "await"
    /\ \/ tx[c] = "landed" /\ Settle(c, "ok")
       \/ tx[c] = "reverted" /\ Settle(c, "reverted")
       \/ Settle(c, "preflight")
    /\ UNCHANGED <<lockVars, pin, chainVars>>

\* A clean response tells success from a Move abort.  A timeout, an error
\* status, an error body or one without a digest says nothing.
Await(c) ==
    /\ pc[c] = "await"
    /\ \/ tx[c] = "landed" /\ Settle(c, "ok")
       \/ tx[c] = "reverted" /\ Settle(c, "reverted")
       \/ Settle(c, "unknown")
    /\ UNCHANGED <<lockVars, pin, chainVars>>

-----------------------------------------------------------------------------
(***************************************************************************)
(* withLock: release, on every way out of the section.                     *)
(***************************************************************************)
\* Mutant: DEL without comparing the token.
Release_AnyToken(c) ==
    /\ redis /\ pc[c] = "release"
    /\ key' \in {key, None}
    /\ Goto(c, "done")
    /\ UNCHANGED <<redis, lapsed, held, waiters, outcome, pin, chainVars>>

\* The script deletes the caller's own token only; when Redis cannot be
\* reached the error is logged and the token stays until it expires.
Release(c) ==
    /\ redis /\ pc[c] = "release"
    /\ key' = key \/ (key = c /\ key' = None)
    /\ Goto(c, "done")
    /\ UNCHANGED <<redis, lapsed, held, waiters, outcome, pin, chainVars>>

\* Mutant: the lock is freed and nobody is woken.
ReleaseInProcess_NoWake(c) ==
    /\ ~redis /\ pc[c] = "release"
    /\ held' = FALSE
    /\ Goto(c, "done")
    /\ UNCHANGED <<redis, key, lapsed, waiters, outcome, pin, chainVars>>

\* The lock passes to the first waiter, or is free when there is none.
ReleaseInProcess(c) ==
    /\ ~redis /\ pc[c] = "release"
    /\ IF waiters = <<>>
       THEN held' = FALSE /\ Goto(c, "done") /\ UNCHANGED waiters
       ELSE /\ waiters' = Tail(waiters)
            /\ pc' = [pc EXCEPT ![c] = "done", ![Head(waiters)] = "reserve"]
            /\ UNCHANGED held
    /\ UNCHANGED <<redis, key, lapsed, outcome, pin, chainVars>>

-----------------------------------------------------------------------------
(***************************************************************************)
(* What happens to a call: Redis drops its token after 30 seconds, while   *)
(* two requests to the gas station may take 20 seconds each; its pod dies. *)
(***************************************************************************)
TokenExpires ==
    /\ key # None
    /\ key' = None
    /\ lapsed' = lapsed \cup {key}
    /\ UNCHANGED <<redis, held, waiters, pc, outcome, pin, chainVars>>

PodDies(c) ==
    /\ redis
    /\ pc[c] \in Section \cup {"acquire"}
    /\ Goto(c, "dead")
    /\ UNCHANGED <<lockVars, outcome, pin, chainVars>>

\* The chain runs a transaction that names the current version: it succeeds
\* or aborts, and the version moves on.  One that names an old version is
\* refused; the gas station may also drop what it was given.
ChainRuns(c) ==
    /\ tx[c] = "sent"
    /\ \/ /\ pin[c] = version
          /\ version' = version + 1
          /\ \/ tx' = [tx EXCEPT ![c] = "landed"]
             \/ tx' = [tx EXCEPT ![c] = "reverted"]
       \/ /\ pin[c] # version
          /\ tx' = [tx EXCEPT ![c] = "stale"]
          /\ UNCHANGED version
       \/ tx' = [tx EXCEPT ![c] = "dropped"] /\ UNCHANGED version
    /\ UNCHANGED <<lockVars, pc, outcome, pin>>

Execute(c) ==
    \/ Acquire(c) \/ AcquireFails(c) \/ AcquireInProcess(c)
    \/ ReserveGas(c) \/ Build(c) \/ Send(c) \/ Await(c)
    \/ Release(c) \/ ReleaseInProcess(c)

Next ==
    \/ \E c \in Calls : Execute(c) \/ PodDies(c) \/ ChainRuns(c)
    \/ TokenExpires

Spec == Init /\ [][Next]_vars

\* Every await of a call ends: the gas station's answers are timed and the
\* acquire loop has a deadline.  A token expires.
FairSpec ==
    /\ Spec
    /\ \A c \in Calls : WF_vars(Execute(c))
    /\ WF_vars(TokenExpires)

-----------------------------------------------------------------------------
\* What execute reports is so, and stays so: after `preflight`, or without the
\* lock, the transaction was never sent; after `reverted` it changed nothing;
\* a returned digest is that of a transaction that landed.
PhaseIsHonest ==
    \A c \in Calls :
        /\ outcome[c] \in {"preflight", "nolock"} => tx[c] = "none"
        /\ outcome[c] = "reverted" => tx[c] = "reverted"
        /\ outcome[c] = "ok" => tx[c] = "landed"

\* At most one call whose lock has not expired is building or submitting,
\* whoever else has outlived its lock, released late or died.
SectionExclusive ==
    \A c, d \in Calls : /\ pc[c] \in Section /\ c \notin lapsed
                        /\ pc[d] \in Section /\ d \notin lapsed
                        => c = d

\* A call that may have left a transaction behind when the next one started:
\* it outlived its lock, died, or gave up waiting for the answer.
Astray(c) == c \in lapsed \/ pc[c] = "dead" \/ outcome[c] = "unknown"

\* The lock does what it is for: the chain refuses a transaction because its
\* OperatorCap version is old only after some call went astray.
StaleMeansStray ==
    (\E c \in Calls : tx[c] = "stale") => \E d \in Calls : Astray(d)

\* Every call returns or throws, whoever holds the lock and however it ends.
EveryCallReturns == <>(\A c \in Calls : pc[c] \in {"done", "dead"})

-----------------------------------------------------------------------------
\* In Redis the token in the key is the only right to be in the section.
OwnsKey ==
    redis => \A c \in Calls : pc[c] \in Section /\ c \notin lapsed => key = c

\* In the process, a taken lock has one owner.
OwnsProcess ==
    ~redis => /\ key = None
              /\ \A c \in Calls : pc[c] \in Section => held
              /\ \A c, d \in Calls :
                    pc[c] \in Section /\ pc[d] \in Section => c = d

\* Every waiter is waiting, and waits once.
WaitersWait ==
    /\ \A i \in 1 .. Len(waiters) : pc[waiters[i]] = "waiting"
    /\ \A i, j \in 1 .. Len(waiters) : waiters[i] = waiters[j] => i = j

\* Where a call is and what it has reported agree with its transaction.
TxFollowsCall ==
    \A c \in Calls :
        /\ pc[c] \in {"acquire", "waiting", "reserve", "build", "send"}
              => tx[c] = "none"
        /\ pc[c] \notin {"release", "done", "dead"} => outcome[c] = "none"
        /\ tx[c] = "sent" => pc[c] = "await" \/ Astray(c)

\* Until a call goes astray, a transaction under way names the current cap.
PinIsCurrent ==
    (\A d \in Calls : ~Astray(d)) => \A c \in Calls :
        /\ tx[c] # "stale"
        /\ pc[c] = "send" \/ tx[c] = "sent" => pin[c] = version

\* The inductive invariant behind the three safety properties.
ExecInv ==
    /\ TypeOK
    /\ OwnsKey
    /\ OwnsProcess
    /\ WaitersWait
    /\ TxFollowsCall
    /\ PhaseIsHonest
    /\ PinIsCurrent
=============================================================================
