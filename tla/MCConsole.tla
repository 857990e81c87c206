------------------------------ MODULE MCConsole ------------------------------
EXTENDS Console

OnMainnet == [d \in Deposits |-> "mainnet"]

PaysFirst == [d \in Deposits |-> "u1"]
=============================================================================
