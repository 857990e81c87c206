--------------------------- MODULE MCSignLifecycle ---------------------------
(***************************************************************************)
(* SignLifecycle on small instances.                                       *)
(***************************************************************************)
EXTENDS SignLifecycle, TLC

\* Every prepare call carries its own idempotency key.
DistinctKeys == [r \in Reqs |-> r]

\* Every prepare call is a retry under the same key.
SharedKey == [r \in Reqs |-> "key"]

\* Requests, handlers and caps that start out alike are interchangeable.
Symmetry == Permutations(Reqs) \cup Permutations(Warm)
                \cup Permutations(Caps \ Warm) \cup Permutations(Submitters)
                \cup Permutations(Workers)
=============================================================================
