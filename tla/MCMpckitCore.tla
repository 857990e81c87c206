---------------------------- MODULE MCMpckitCore ----------------------------
EXTENDS MpckitCore, TLC

\* Addresses differ in nothing but their name.
Symmetry == Permutations(Addrs)

\* The roster does not read the treasury: once a shared dWallet is stored, the
\* search goes on from the states in which nobody has paid in and at most one
\* presign is out.
OneSide ==
    stored # {} =>
        /\ \A o \in Operators : capsOf[o] = 0
        /\ \A d \in Solo \cup Imported : vault[d] = NoAccount
        /\ ika + sui = 0
        /\ retired.burned = 0 /\ presigns + sessions <= 1
=============================================================================
