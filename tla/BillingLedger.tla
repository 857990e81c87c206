---------------------------- MODULE BillingLedger ----------------------------
(***************************************************************************)
(* The credit ledger of features/billing/service.ts: charge, refund and    *)
(* recordDeposit as Postgres transactions run by many pods at READ         *)
(* COMMITTED.  A statement that another transaction can observe or be      *)
(* blocked by is a step of its own; what a transaction does between taking *)
(* its last lock and COMMIT is one step, for nobody can see inside it.     *)
(***************************************************************************)
EXTENDS Integers, FiniteSets, Functions

CONSTANTS
    Accounts,     \* billing_accounts rows, one per (user, network)
    Ops,          \* (network, opType, opId) triples that are ever charged
    Digests,      \* Sui transactions a user may claim as a deposit
    NCoins,       \* the priced coin types are 1 .. NCoins
    Procs,        \* concurrent request handlers and jobs, over all pods
    OwnerOf,      \* the account an op is charged to
    Price,        \* OP_PRICES, in micro-credits
    Paid,         \* Paid[d][a][k]: credits that digest d pays account a in coin k
    MinDeposit,   \* BILLING_MIN_DEPOSIT_MICRO
    MaxRefund,    \* bound on the amount a caller asks to refund
    None

Coins == 1 .. NCoins

\* What a digest is worth to an account, summed over the accepted coins.
preTotal(d, a) == SumFunction(Paid[d][a])

ASSUME LedgerAssumption ==
    /\ NCoins \in Nat
    /\ OwnerOf \in [Ops -> Accounts]
    /\ Price \in [Ops -> Nat \ {0}]
    /\ Paid \in [Digests -> [Accounts -> [Coins -> Nat]]]
    /\ MinDeposit \in Nat \ {0}
    /\ MaxRefund \in Nat
    /\ None \notin Procs \cup Accounts \cup Ops \cup Digests

\* The journal has finitely many rows; its sums need no more.
ASSUME JournalAssumption == IsFiniteSet(Ops) /\ IsFiniteSet(Digests)

VARIABLES
    opened,     \* accounts that have a billing_accounts row
    credits,    \* billing_accounts.credits_micro, committed
    rowLock,    \* the transaction holding the account row FOR UPDATE
    chargeRow,  \* billing_charges kind=charge: amount, 0 when absent
    refundRow,  \* billing_charges kind=refund: amount, 0 when absent
    deposit,    \* billing_deposits by tx_digest key: [to, credits]
    keyLock,    \* uncommitted entry of the tx_digest unique index
    sweepJobs,  \* deposits a billing.sweep job was enqueued for
    pc,         \* where each handler is
    op,         \* the op or digest it works on
    acct,       \* the account it works on
    amt         \* the amount it was asked to refund

vars == <<opened, credits, rowLock, chargeRow, refundRow, deposit, keyLock,
          sweepJobs, pc, op, acct, amt>>

(***************************************************************************)
(* Deposit keys.  A digest that pays an account in one coin is stored      *)
(* under the bare digest, in several coins under one suffixed key each.    *)
(***************************************************************************)
CoinsPaid(d, a) == {k \in Coins : Paid[d][a][k] > 0}

Bare == 0

DepositKeys == Digests \X (Coins \cup {Bare})

suffixForCoinType(d, a, k) ==
    IF Cardinality(CoinsPaid(d, a)) = 1 THEN <<d, Bare>> ELSE <<d, k>>

KeysOf(d, a) == {suffixForCoinType(d, a, k) : k \in CoinsPaid(d, a)}

NoDeposit == [to |-> None, credits |-> 0]

DepositRows == [to : Accounts \cup {None}, credits : Nat]

PCs == {"idle", "charge.lock", "charge.commit", "refund.check",
        "refund.commit", "deposit.verify", "deposit.insert",
        "deposit.commit", "deposit.enqueue"}

TypeOK ==
    /\ opened \subseteq Accounts
    /\ credits \in [Accounts -> Int]
    /\ rowLock \in [Accounts -> Procs \cup {None}]
    /\ chargeRow \in [Ops -> Nat]
    /\ refundRow \in [Ops -> Nat]
    /\ deposit \in [DepositKeys -> DepositRows]
    /\ keyLock \in [DepositKeys -> Procs \cup {None}]
    /\ sweepJobs \subseteq DepositKeys
    /\ pc \in [Procs -> PCs]
    /\ op \in [Procs -> Ops \cup Digests \cup {None}]
    /\ acct \in [Procs -> Accounts \cup {None}]
    /\ amt \in [Procs -> Nat]

Init ==
    /\ opened = {}
    /\ credits = [a \in Accounts |-> 0]
    /\ rowLock = [a \in Accounts |-> None]
    /\ chargeRow = [o \in Ops |-> 0]
    /\ refundRow = [o \in Ops |-> 0]
    /\ deposit = [k \in DepositKeys |-> NoDeposit]
    /\ keyLock = [k \in DepositKeys |-> None]
    /\ sweepJobs = {}
    /\ pc = [p \in Procs |-> "idle"]
    /\ op = [p \in Procs |-> None]
    /\ acct = [p \in Procs |-> None]
    /\ amt = [p \in Procs |-> 0]

-----------------------------------------------------------------------------
Goto(p, label) == pc' = [pc EXCEPT ![p] = label]

\* The handler returns or throws; its transaction is over.
Return(p) ==
    /\ Goto(p, "idle")
    /\ op' = [op EXCEPT ![p] = None]
    /\ acct' = [acct EXCEPT ![p] = None]
    /\ amt' = [amt EXCEPT ![p] = 0]

Call(p, label, o, a, n) ==
    /\ Goto(p, label)
    /\ op' = [op EXCEPT ![p] = o]
    /\ acct' = [acct EXCEPT ![p] = a]
    /\ amt' = [amt EXCEPT ![p] = n]

Unlock(p) == rowLock' = [a \in Accounts |->
                            IF rowLock[a] = p THEN None ELSE rowLock[a]]

UnlockKeys(p) == keyLock' = [k \in DepositKeys |->
                                IF keyLock[k] = p THEN None ELSE keyLock[k]]

getOrCreateAccount(a) == opened' = opened \cup {a}

-----------------------------------------------------------------------------
(***************************************************************************)
(* charge: look for the row of an earlier identical call, lock the account *)
(* and read its balance, then debit and insert.                            *)
(***************************************************************************)
ChargeBegin(p, o) ==
    /\ pc[p] = "idle"
    /\ getOrCreateAccount(OwnerOf[o])
    /\ IF chargeRow[o] # 0
       THEN UNCHANGED <<pc, op, acct, amt>>
       ELSE Call(p, "charge.lock", o, OwnerOf[o], Price[o])
    /\ UNCHANGED <<credits, rowLock, chargeRow, refundRow, deposit, keyLock,
                   sweepJobs>>

\* Mutant: the balance is read without FOR UPDATE.
ChargeLock_NoForUpdate(p) ==
    /\ pc[p] = "charge.lock"
    /\ rowLock[acct[p]] = None
    /\ IF acct[p] \in opened /\ credits[acct[p]] >= amt[p]
       THEN Goto(p, "charge.commit") /\ UNCHANGED <<op, acct, amt>>
       ELSE Return(p)
    /\ UNCHANGED <<opened, credits, rowLock, chargeRow, refundRow, deposit,
                   keyLock, sweepJobs>>

\* Mutant: the transaction is left open when the balance does not suffice.
ChargeLock_NoRollback(p) ==
    /\ pc[p] = "charge.lock"
    /\ rowLock[acct[p]] = None
    /\ rowLock' = [rowLock EXCEPT ![acct[p]] = p]
    /\ IF acct[p] \in opened /\ credits[acct[p]] >= amt[p]
       THEN Goto(p, "charge.commit") /\ UNCHANGED <<op, acct, amt>>
       ELSE Return(p)
    /\ UNCHANGED <<opened, credits, chargeRow, refundRow, deposit, keyLock,
                   sweepJobs>>

ChargeLock(p) ==
    /\ pc[p] = "charge.lock"
    /\ rowLock[acct[p]] = None
    /\ IF acct[p] \in opened /\ credits[acct[p]] >= amt[p]
       THEN /\ rowLock' = [rowLock EXCEPT ![acct[p]] = p]
            /\ Goto(p, "charge.commit")
            /\ UNCHANGED <<op, acct, amt>>
       ELSE Return(p) /\ UNCHANGED rowLock
    /\ UNCHANGED <<opened, credits, chargeRow, refundRow, deposit, keyLock,
                   sweepJobs>>

\* The insert hits the op-scoped unique index when a racing call committed
\* first: the debit is rolled back with it.
ChargeCommit(p) ==
    /\ pc[p] = "charge.commit"
    /\ IF chargeRow[op[p]] = 0
       THEN /\ credits' = [credits EXCEPT ![acct[p]] = @ - amt[p]]
            /\ chargeRow' = [chargeRow EXCEPT ![op[p]] = amt[p]]
       ELSE UNCHANGED <<credits, chargeRow>>
    /\ Unlock(p)
    /\ Return(p)
    /\ UNCHANGED <<opened, refundRow, deposit, keyLock, sweepJobs>>

-----------------------------------------------------------------------------
(***************************************************************************)
(* refund: look for an earlier refund, read what was charged and what was  *)
(* already refunded, then credit and insert.  Nothing is locked before the *)
(* UPDATE, so the amounts may be stale when it runs.                       *)
(***************************************************************************)
RefundBegin(p, o, n) ==
    /\ pc[p] = "idle"
    /\ getOrCreateAccount(OwnerOf[o])
    /\ IF refundRow[o] # 0
       THEN UNCHANGED <<pc, op, acct, amt>>
       ELSE Call(p, "refund.check", o, OwnerOf[o], n)
    /\ UNCHANGED <<credits, rowLock, chargeRow, refundRow, deposit, keyLock,
                   sweepJobs>>

maxRefundable(o) == chargeRow[o] - refundRow[o]

\* Mutant: the amount is not clamped to what was charged.
RefundCheck_NoClamp(p) ==
    /\ pc[p] = "refund.check"
    /\ IF chargeRow[op[p]] # 0
       THEN Goto(p, "refund.commit") /\ UNCHANGED <<op, acct, amt>>
       ELSE Return(p)
    /\ UNCHANGED <<opened, credits, rowLock, chargeRow, refundRow, deposit,
                   keyLock, sweepJobs>>

RefundCheck(p) ==
    /\ pc[p] = "refund.check"
    /\ IF chargeRow[op[p]] # 0 /\ amt[p] <= maxRefundable(op[p])
       THEN Goto(p, "refund.commit") /\ UNCHANGED <<op, acct, amt>>
       ELSE Return(p)
    /\ UNCHANGED <<opened, credits, rowLock, chargeRow, refundRow, deposit,
                   keyLock, sweepJobs>>

\* Mutant: no unique index; a racing second refund credits once more.
RefundCommit_NoIndex(p) ==
    /\ pc[p] = "refund.commit"
    /\ rowLock[acct[p]] = None
    /\ credits' = [credits EXCEPT ![acct[p]] = @ + amt[p]]
    /\ refundRow' = [refundRow EXCEPT ![op[p]] = amt[p]]
    /\ Return(p)
    /\ UNCHANGED <<opened, rowLock, chargeRow, deposit, keyLock, sweepJobs>>

RefundCommit(p) ==
    /\ pc[p] = "refund.commit"
    /\ rowLock[acct[p]] = None
    /\ IF refundRow[op[p]] = 0
       THEN /\ credits' = [credits EXCEPT ![acct[p]] = @ + amt[p]]
            /\ refundRow' = [refundRow EXCEPT ![op[p]] = amt[p]]
       ELSE UNCHANGED <<credits, refundRow>>
    /\ Return(p)
    /\ UNCHANGED <<opened, rowLock, chargeRow, deposit, keyLock, sweepJobs>>

-----------------------------------------------------------------------------
(***************************************************************************)
(* recordDeposit: look the bare digest up, verify the transaction on       *)
(* chain, insert one row per coin, credit the sum, then enqueue the sweep  *)
(* of the last row.                                                        *)
(***************************************************************************)
DepositBegin(p, d, a) ==
    /\ pc[p] = "idle"
    /\ deposit[<<d, Bare>>] = NoDeposit
    /\ getOrCreateAccount(a)
    /\ Call(p, "deposit.verify", d, a, 0)
    /\ UNCHANGED <<credits, rowLock, chargeRow, refundRow, deposit, keyLock,
                   sweepJobs>>

DepositVerify(p) ==
    /\ pc[p] = "deposit.verify"
    /\ IF preTotal(op[p], acct[p]) < MinDeposit
       THEN Return(p)
       ELSE Goto(p, "deposit.insert") /\ UNCHANGED <<op, acct, amt>>
    /\ UNCHANGED <<opened, credits, rowLock, chargeRow, refundRow, deposit,
                   keyLock, sweepJobs>>

\* Coins are inserted in the order of the transaction's balance changes.  An
\* insert waits for another transaction's uncommitted entry of the same key
\* and fails, rolling every row back, when that entry is committed.
DepositInsert(p) ==
    LET d == op[p]
        a == acct[p]
        Key(k) == suffixForCoinType(d, a, k)
        todo == {k \in CoinsPaid(d, a) : keyLock[Key(k)] # p}
    IN  /\ pc[p] = "deposit.insert"
        /\ \/ /\ todo = {}
              /\ Goto(p, "deposit.commit")
              /\ UNCHANGED <<keyLock, op, acct, amt>>
           \/ \E k \in todo :
                 /\ \A j \in todo : k <= j
                 /\ keyLock[Key(k)] = None
                 /\ IF deposit[Key(k)] = NoDeposit
                    THEN /\ keyLock' = [keyLock EXCEPT ![Key(k)] = p]
                         /\ UNCHANGED <<pc, op, acct, amt>>
                    ELSE UnlockKeys(p) /\ Return(p)
        /\ UNCHANGED <<opened, credits, rowLock, chargeRow, refundRow,
                       deposit, sweepJobs>>

RowFor(a, d, key) ==
    [to |-> a,
     credits |-> IF key[2] = Bare THEN preTotal(d, a) ELSE Paid[d][a][key[2]]]

DepositCommit(p) ==
    /\ pc[p] = "deposit.commit"
    /\ rowLock[acct[p]] = None
    /\ deposit' = [key \in DepositKeys |->
                      IF keyLock[key] = p THEN RowFor(acct[p], op[p], key)
                                          ELSE deposit[key]]
    /\ credits' = [credits EXCEPT ![acct[p]] = @ + preTotal(op[p], acct[p])]
    /\ UnlockKeys(p)
    /\ Goto(p, "deposit.enqueue")
    /\ UNCHANGED <<opened, rowLock, chargeRow, refundRow, sweepJobs, op,
                   acct, amt>>

DepositEnqueue(p) ==
    /\ pc[p] = "deposit.enqueue"
    /\ \E k \in CoinsPaid(op[p], acct[p]) :
          /\ \A j \in CoinsPaid(op[p], acct[p]) : j <= k
          /\ sweepJobs' = sweepJobs
                             \cup {suffixForCoinType(op[p], acct[p], k)}
    /\ Return(p)
    /\ UNCHANGED <<opened, credits, rowLock, chargeRow, refundRow, deposit,
                   keyLock>>

-----------------------------------------------------------------------------
\* Mutant: the inserts of recordDeposit run outside a transaction.
Crash_NoTransaction(p) ==
    /\ pc[p] # "idle"
    /\ deposit' = [key \in DepositKeys |->
                      IF keyLock[key] = p THEN RowFor(acct[p], op[p], key)
                                          ELSE deposit[key]]
    /\ Unlock(p)
    /\ UnlockKeys(p)
    /\ Return(p)
    /\ UNCHANGED <<opened, credits, chargeRow, refundRow, sweepJobs>>

\* A pod dies or a statement fails: Postgres rolls the open transaction back.
Crash(p) ==
    /\ pc[p] # "idle"
    /\ Unlock(p)
    /\ UnlockKeys(p)
    /\ Return(p)
    /\ UNCHANGED <<opened, credits, chargeRow, refundRow, deposit, sweepJobs>>

Begin(p) ==
    \/ \E o \in Ops : ChargeBegin(p, o)
    \/ \E o \in Ops, n \in 1 .. MaxRefund : RefundBegin(p, o, n)
    \/ \E d \in Digests, a \in Accounts : DepositBegin(p, d, a)

Continue(p) ==
    \/ ChargeLock(p) \/ ChargeCommit(p)
    \/ RefundCheck(p) \/ RefundCommit(p)
    \/ DepositVerify(p) \/ DepositInsert(p) \/ DepositCommit(p)
    \/ DepositEnqueue(p)

Next == \E p \in Procs : Begin(p) \/ Continue(p) \/ Crash(p)

Spec == Init /\ [][Next]_vars

\* Postgres runs every statement and grants row and index locks first come,
\* first served, so a waiting transaction is granted its lock in the end.
FairSpec == Spec /\ \A p \in Procs : SF_vars(Continue(p))

-----------------------------------------------------------------------------
\* No balance is ever negative, however many handlers charge it at once:
\* charge reads the balance under the lock it debits under.
NoOverdraft == \A a \in Accounts : credits[a] >= 0

\* An op is refunded at most what it was charged, and only if it was: neither
\* racing refunds of one op nor an inflated amount mint credits.
RefundWithinCharge == \A o \in Ops : refundRow[o] <= chargeRow[o]

OpsOf(a) == {o \in Ops : OwnerOf[o] = a}

\* The balance is the sum of the journal: every committed deposit, charge and
\* refund row of the account, each counted once.
BalanceIsJournal ==
    \A a \in Accounts :
        credits[a] = SumFunction([k \in {k \in DepositKeys : deposit[k].to = a}
                                     |-> deposit[k].credits])
                     - SumFunctionOnSet(chargeRow, OpsOf(a))
                     + SumFunctionOnSet(refundRow, OpsOf(a))

\* A deposit lands whole or not at all: when one coin of a digest is
\* recorded for an account, every coin that digest pays it is.
DepositIsAtomic ==
    \A d \in Digests, a \in Accounts :
        (\E key \in KeysOf(d, a) : deposit[key].to = a)
            => \A key \in KeysOf(d, a) : deposit[key].to = a

\* A charge or refund works on an op for the op's owner, a deposit on a digest
\* for the account that claims it.
CallsTyped ==
    \A p \in Procs :
        /\ pc[p] \in {"charge.lock", "charge.commit", "refund.check",
                     "refund.commit"}
              => /\ op[p] \in Ops /\ acct[p] \in Accounts
                 /\ acct[p] = OwnerOf[op[p]]
        /\ pc[p] \in {"deposit.verify", "deposit.insert", "deposit.commit",
                     "deposit.enqueue"}
              => op[p] \in Digests /\ acct[p] \in Accounts

\* A charge about to commit holds its account row, and the balance it read
\* still covers it.
ChargeCovered ==
    \A p \in Procs : pc[p] = "charge.commit"
        => rowLock[acct[p]] = p /\ credits[acct[p]] >= amt[p]

\* A refund about to commit is covered by its charge.
RefundCovered ==
    \A p \in Procs : pc[p] = "refund.commit"
        => chargeRow[op[p]] # 0 /\ amt[p] <= chargeRow[op[p]]

\* An index entry held open belongs to a deposit in progress whose row is not
\* there yet, and a deposit about to commit holds the entries of all its rows.
KeysHeld ==
    /\ \A p \in Procs : pc[p] = "deposit.commit"
          => \A key \in KeysOf(op[p], acct[p]) : keyLock[key] = p
    /\ \A key \in DepositKeys, p \in Procs : keyLock[key] = p =>
          /\ pc[p] \in {"deposit.insert", "deposit.commit"}
          /\ key \in KeysOf(op[p], acct[p])
          /\ deposit[key] = NoDeposit

\* What a handler relies on between two of its statements is still so when the
\* next one runs, whatever the other handlers did meanwhile.
LocksHeld == CallsTyped /\ ChargeCovered /\ RefundCovered /\ KeysHeld

\* The inductive invariant behind NoOverdraft, RefundWithinCharge and
\* DepositIsAtomic.
LedgerInv ==
    /\ TypeOK
    /\ LocksHeld
    /\ NoOverdraft
    /\ RefundWithinCharge
    /\ DepositIsAtomic

\* Every call ends: no handler waits forever for a row or an index entry.
CallsReturn == \A p \in Procs : pc[p] # "idle" ~> pc[p] = "idle"
=============================================================================
