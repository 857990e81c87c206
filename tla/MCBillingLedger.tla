--------------------------- MODULE MCBillingLedger ---------------------------
(***************************************************************************)
(* BillingLedger on small instances.                                       *)
(***************************************************************************)
EXTENDS BillingLedger

CONSTANTS a1, o1, d1

\* Both ops are a1's and can overdraw it; a2 competes for the deposits.
Owners == [o \in Ops |-> a1]

Prices == [o \in Ops |-> IF o = o1 THEN 1 ELSE 2]

\* d1 pays a1 in two coins (suffixed keys) and a2 in one (the bare key);
\* d2 pays both of them in the same coin, so only one can claim it.
Payments == [d \in Digests |-> [a \in Accounts |-> [k \in 1 .. NCoins |->
                IF k = 1 \/ (a = a1 /\ d = d1) THEN 1 ELSE 0]]]
=============================================================================
