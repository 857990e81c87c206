----------------------------- MODULE SignContract -----------------------------
(***************************************************************************)
(* What the sign API promises, with no handler, job or table in sight: a   *)
(* request is paid for, takes one presign, and moves                       *)
(*                                                                         *)
(*      prepared -> queued -> submitted -> completed                       *)
(*                                                                         *)
(* or to failed from any state before completed.  A failed or rejected     *)
(* request is refunded, a completed one never; a presign is held by one    *)
(* request at a time, spent at most once, and goes back unspent or not at  *)
(* all.                                                                    *)
(***************************************************************************)
CONSTANTS Reqs, Caps, None

VARIABLES
    state,  \* where the request is
    paid,   \* "no", "charged" or "refunded"
    hold,   \* the presign a request may still sign with
    pool    \* each presign: free, held, spent, or retired with its fate unknown

contractVars == <<state, paid, hold, pool>>

Init ==
    /\ state = [r \in Reqs |-> "none"]
    /\ paid = [r \in Reqs |-> "no"]
    /\ hold = [r \in Reqs |-> None]
    /\ pool = [c \in Caps |-> "free"]

Move(r, from, to) ==
    /\ state[r] \in from
    /\ state' = [state EXCEPT ![r] = to]

Charge(r) ==
    /\ state[r] = "none" /\ paid[r] = "no"
    /\ paid' = [paid EXCEPT ![r] = "charged"]
    /\ UNCHANGED <<state, hold, pool>>

Accept(r) ==
    /\ paid[r] = "charged"
    /\ Move(r, {"none"}, "prepared")
    /\ UNCHANGED <<paid, hold, pool>>

\* No presign to be had: the request is withdrawn.
Reject(r) ==
    /\ hold[r] = None
    /\ Move(r, {"prepared"}, "none")
    /\ UNCHANGED <<paid, hold, pool>>

Reserve(r, c) ==
    /\ state[r] = "prepared" /\ hold[r] = None
    /\ pool[c] = "free"
    /\ hold' = [hold EXCEPT ![r] = c]
    /\ pool' = [pool EXCEPT ![c] = "held"]
    /\ UNCHANGED <<state, paid>>

Queue(r) ==
    /\ hold[r] # None
    /\ Move(r, {"prepared"}, "queued")
    /\ UNCHANGED <<paid, hold, pool>>

Spend(r) ==
    /\ state[r] = "queued" /\ hold[r] # None
    /\ pool[hold[r]] = "held"
    /\ pool' = [pool EXCEPT ![hold[r]] = "spent"]
    /\ UNCHANGED <<state, paid, hold>>

Submit(r) ==
    /\ hold[r] # None /\ pool[hold[r]] = "spent"
    /\ Move(r, {"queued"}, "submitted")
    /\ UNCHANGED <<paid, hold, pool>>

Complete(r) ==
    /\ hold[r] # None
    /\ Move(r, {"submitted"}, "completed")
    /\ UNCHANGED <<paid, hold, pool>>

\* The request lets go of its presign: unspent it goes back to the pool, is
\* retired, or stays reserved for nobody.
GiveUp(r) ==
    /\ state[r] \in {"queued", "submitted"} /\ hold[r] # None
    /\ \/ UNCHANGED pool
       \/ /\ pool[hold[r]] = "held"
          /\ \E to \in {"free", "retired"} :
                pool' = [pool EXCEPT ![hold[r]] = to]
    /\ hold' = [hold EXCEPT ![r] = None]
    /\ UNCHANGED <<state, paid>>

Fail(r) ==
    /\ hold[r] = None
    /\ Move(r, {"queued", "submitted"}, "failed")
    /\ UNCHANGED <<paid, hold, pool>>

\* A transaction nobody heard back from lands after all.
SpendLate(c) ==
    /\ pool[c] = "retired"
    /\ pool' = [pool EXCEPT ![c] = "spent"]
    /\ UNCHANGED <<state, paid, hold>>

Refund(r) ==
    /\ paid[r] = "charged" /\ state[r] \in {"none", "failed"}
    /\ paid' = [paid EXCEPT ![r] = "refunded"]
    /\ UNCHANGED <<state, hold, pool>>

Next ==
    \/ \E r \in Reqs :
          \/ Charge(r) \/ Accept(r) \/ Reject(r) \/ Queue(r) \/ Spend(r)
          \/ Submit(r) \/ Complete(r) \/ GiveUp(r) \/ Fail(r) \/ Refund(r)
          \/ \E c \in Caps : Reserve(r, c)
    \/ \E c \in Caps : SpendLate(c)

Spec == Init /\ [][Next]_contractVars
=============================================================================
