---------------------------- MODULE MCDepositSweep ----------------------------
EXTENDS DepositSweep, TLC

CONSTANTS u1, u2, d1, d2, sui, ika

MCBuiltIn == sui :> 3 @@ ika :> 2
MCUsdPrices == sui :> 2
\* d1 pays u1 in both coins, d2 pays u2 in one.
MCPaid == [d \in Digests |->
             IF d = d1 THEN [to |-> u1, amount |-> sui :> 1 @@ ika :> 1]
                       ELSE [to |-> u2, amount |-> sui :> 1 @@ ika :> 0]]
\* Both pay u1; d2 is worth too little to be credited.
MCPaidDust == [d \in Digests |->
                 [to |-> u1, amount |-> ika :> 0 @@ sui :> IF d = d1 THEN 2 ELSE 1]]
=============================================================================
