------------------------------ MODULE Onboarding ------------------------------
(***************************************************************************)
(* The backend's onboarding handlers: registerEncryptionKey                *)
(* (encryption-keys/service.ts), onboardZeroTrust, acceptUserShare and     *)
(* ensureDwalletNek (dwallets/service.ts), with the account rows of        *)
(* accounts/service.ts and chargeWithRefund (billing/service.ts).  One     *)
(* user on one network and curve; a handler takes one step per await and   *)
(* may die between two.  The transaction executor is used by its outcomes  *)
(* (module TxExecutor): landed and answered, not landed, landed and the    *)
(* answer lost.                                                            *)
(***************************************************************************)
EXTENDS Naturals, FiniteSets

CONSTANTS
    Handlers,     \* request slots of the API pods
    Clients,      \* who sends the requests
    DWallets,     \* ids the coordinator may give out
    AccountObjs,  \* ids of Account objects
    EkObjs,       \* ids of EncryptionKey objects
    MaxEpoch,     \* bound: network encryption keys, numbered from 1
    None,
    MaxFaults     \* bound: crashes, lost answers, failed refunds and what
                  \* befalls the clients

NEKs == 1..MaxEpoch

ASSUME OnboardingAssumption ==
    /\ None \notin Clients \cup DWallets \cup AccountObjs \cup EkObjs \cup NEKs
    /\ MaxEpoch \in Nat \ {0} /\ MaxFaults \in Nat /\ IsFiniteSet(Handlers)

VARIABLES
    ekChain,   \* EncryptionKey objects on chain
    ekRow,     \* encryption_keys row: the object it names
    acctChain, \* Account objects on chain
    acctRows,  \* accounts rows: the objects they name
    chain,     \* each dWallet on chain
    rows,      \* dwallets rows
    fees,      \* charges kept
    work,      \* paid transactions that landed
    gifts,     \* those of them whose charge was refunded
    losses,    \* charges kept for nothing: a crash, or billingRefundFailed
    faults,    \* faults so far
    pc,        \* handler: its next step
    owner,     \* handler: the client waiting for it
    arg,       \* handler: its locals
    reply      \* client: the answer that has arrived

ledgerVars == <<fees, work, gifts, losses>>
chainVars == <<ekChain, acctChain, chain>>
rowVars == <<ekRow, acctRows, rows>>
backVars == <<chainVars, rowVars, ledgerVars, faults, pc, owner, arg, reply>>

\* dw: the dWallet acted on or made; acct: its account; nek, fit: the NEK named
\* by the client and whether its DKG was computed for that key.
NoArg == [dw |-> None, acct |-> None, isNew |-> FALSE, ek |-> None,
          nek |-> None, fit |-> TRUE]

\* An answer; nek and par are those of the two reads of module NetworkKeys.
NoReply == [res |-> "none", dw |-> None, nek |-> None, par |-> None]

NoDWallet == [st |-> "none", acct |-> None, nek |-> None, fit |-> TRUE]
NoRow == [st |-> "none", acct |-> None, nek |-> None]

PCs == {"idle", "ekFind", "ekCharge", "ekExecute", "ekRefund", "ekInsert",
        "find", "charge", "execute", "refund", "account", "insert",
        "acRead", "acExecute", "acNek", "acUpdate", "nekRead", "nekWrite",
        "netRead", "ppRead", "ppLoad"}

BackTypeOK ==
    /\ ekChain \subseteq EkObjs /\ ekRow \in EkObjs \cup {None}
    /\ acctChain \subseteq AccountObjs /\ acctRows \subseteq acctChain
    /\ chain \in [DWallets -> [st : {"none", "dkg", "awaiting", "rejected", "active"},
                               acct : AccountObjs \cup {None},
                               nek : NEKs \cup {None}, fit : BOOLEAN]]
    /\ rows \in [DWallets -> [st : {"none", "awaiting_user_share", "active"},
                              acct : AccountObjs \cup {None},
                              nek : NEKs \cup {None}]]
    /\ fees \in Nat /\ work \in Nat /\ gifts \in Nat /\ losses \in Nat
    /\ faults \in Nat
    /\ pc \in [Handlers -> PCs]
    /\ owner \in [Handlers -> Clients \cup {None}]
    /\ arg \in [Handlers -> [dw : DWallets \cup {None},
                             acct : AccountObjs \cup {None}, isNew : BOOLEAN,
                             ek : EkObjs \cup {None}, nek : NEKs \cup {None},
                             fit : BOOLEAN]]
    /\ reply \in [Clients -> [res : {"none", "ok", "error"},
                              dw : DWallets \cup {None},
                              nek : NEKs \cup {None}, par : NEKs \cup {None}]]

BackInit ==
    /\ ekChain = {} /\ ekRow = None
    /\ acctChain = {} /\ acctRows = {}
    /\ chain = [d \in DWallets |-> NoDWallet]
    /\ rows = [d \in DWallets |-> NoRow]
    /\ fees = 0 /\ work = 0 /\ gifts = 0 /\ losses = 0 /\ faults = 0
    /\ pc = [h \in Handlers |-> "idle"]
    /\ owner = [h \in Handlers |-> None]
    /\ arg = [h \in Handlers |-> NoArg]
    /\ reply = [c \in Clients |-> NoReply]

Goto(h, to) == pc' = [pc EXCEPT ![h] = to]

\* A request arrives; the routes only parse it.
Arrive(h, c, to, a) ==
    /\ pc[h] = "idle"
    /\ Goto(h, to)
    /\ owner' = [owner EXCEPT ![h] = c]
    /\ arg' = [arg EXCEPT ![h] = a]
    /\ UNCHANGED reply

\* The handler returns or throws; a client that has given up hears nothing.
Answer(h, ans) ==
    /\ Goto(h, "idle")
    /\ reply' = IF owner[h] = None THEN reply
                ELSE [reply EXCEPT ![owner[h]] = ans]
    /\ owner' = [owner EXCEPT ![h] = None]
    /\ arg' = [arg EXCEPT ![h] = NoArg]

Finish(h, res) == Answer(h, [NoReply EXCEPT !.res = res, !.dw = arg[h].dw])

\* The chain gives out new object ids; which one does not matter.
Fresh(ids) == CHOOSE i \in ids : TRUE

Fault == /\ faults < MaxFaults
         /\ faults' = faults + 1

-----------------------------------------------------------------------------
(***************************************************************************)
(* chargeWithRefund.                                                       *)
(***************************************************************************)
Charged(h, to) ==
    /\ fees' = fees + 1
    /\ Goto(h, to)
    /\ UNCHANGED <<chainVars, rowVars, work, gifts, losses, faults, owner, arg, reply>>

\* 402, or the charge is not possible: nothing was done.
ChargeFails(h) ==
    /\ pc[h] \in {"ekCharge", "charge"}
    /\ Finish(h, "error")
    /\ UNCHANGED <<chainVars, rowVars, ledgerVars, faults>>

\* execute throws and the transaction never landed.
NotLanded(h, to) ==
    /\ Goto(h, to)
    /\ UNCHANGED <<chainVars, rowVars, ledgerVars, faults, owner, arg, reply>>

\* The transaction is on chain, whatever execute reported.
Landed(h) == arg[h].ek # None \/ arg[h].dw # None

\* Charged, and nothing on chain to show for it.
Owed(h) == /\ pc[h] \in {"ekExecute", "execute", "ekRefund", "refund"}
           /\ ~Landed(h)

\* Mutant: only the registration of a key is refunded.
Refund_Skips(h) ==
    /\ pc[h] \in {"ekRefund", "refund"}
    /\ fees' = IF pc[h] = "refund" THEN fees ELSE fees - 1
    /\ gifts' = IF Landed(h) THEN gifts + 1 ELSE gifts
    /\ Finish(h, "error")
    /\ UNCHANGED <<chainVars, rowVars, work, losses, faults>>

\* Any error of the executor refunds; the caller sees that error.
Refund(h) ==
    /\ pc[h] \in {"ekRefund", "refund"}
    /\ fees' = fees - 1
    /\ gifts' = IF Landed(h) THEN gifts + 1 ELSE gifts
    /\ Finish(h, "error")
    /\ UNCHANGED <<chainVars, rowVars, work, losses, faults>>

\* The handler ends here without its refund: refund throws and the metric
\* billingRefundFailed is bumped, or the pod dies at this or any other step.
Crash(h) ==
    /\ pc[h] # "idle" /\ Fault
    /\ losses' = IF Owed(h) THEN losses + 1 ELSE losses
    /\ Finish(h, "error")
    /\ UNCHANGED <<chainVars, rowVars, fees, work, gifts>>

-----------------------------------------------------------------------------
(***************************************************************************)
(* registerEncryptionKey.                                                  *)
(***************************************************************************)
EkFind(h) ==
    /\ pc[h] = "ekFind" /\ ekRow = None
    /\ Goto(h, "ekCharge")
    /\ UNCHANGED <<chainVars, rowVars, ledgerVars, faults, owner, arg, reply>>

\* The row exists, before the transaction or by a racing insert: the select
\* returns it; the insert fails on the unique index.
EkFound(h) ==
    /\ pc[h] \in {"ekFind", "ekInsert"} /\ ekRow # None
    /\ Finish(h, IF pc[h] = "ekFind" THEN "ok" ELSE "error")
    /\ UNCHANGED <<chainVars, rowVars, ledgerVars, faults>>

EkCharge(h) == pc[h] = "ekCharge" /\ Charged(h, "ekExecute")

EkExecute(h) ==
    /\ pc[h] = "ekExecute" /\ EkObjs \ ekChain # {}
    /\ LET e == Fresh(EkObjs \ ekChain)
       IN /\ ekChain' = ekChain \cup {e}
          /\ arg' = [arg EXCEPT ![h].ek = e]
    /\ work' = work + 1
    /\ \/ Goto(h, "ekInsert") /\ UNCHANGED faults
       \/ Goto(h, "ekRefund") /\ Fault
    /\ UNCHANGED <<acctChain, chain, rowVars, fees, losses, gifts, owner, reply>>

EkFails(h) == pc[h] = "ekExecute" /\ NotLanded(h, "ekRefund")

EkInsert(h) ==
    /\ pc[h] = "ekInsert" /\ ekRow = None
    /\ ekRow' = arg[h].ek
    /\ Finish(h, "ok")
    /\ UNCHANGED <<chainVars, acctRows, rows, ledgerVars, faults>>

-----------------------------------------------------------------------------
(***************************************************************************)
(* onboardZeroTrust.                                                       *)
(***************************************************************************)
\* The key is one the client was given, so the 404 does not arise.
\* findAccountForUser: any of the rows; nothing keeps them to one.
Find(h) ==
    /\ pc[h] = "find"
    /\ \/ /\ acctRows = {}
          /\ arg' = [arg EXCEPT ![h].isNew = TRUE]
       \/ \E a \in acctRows : arg' = [arg EXCEPT ![h].acct = a]
    /\ Goto(h, "charge")
    /\ UNCHANGED <<chainVars, rowVars, ledgerVars, faults, owner, reply>>

ChargeDkg(h) == pc[h] = "charge" /\ Charged(h, "execute")

Unmade == {d \in DWallets : chain[d].st = "none"}

\* The transaction lands: a new dWallet whose cap account a holds.
DkgLands(h, a) ==
    /\ pc[h] = "execute" /\ Unmade # {}
    /\ acctChain' = acctChain \cup {a}
    /\ LET d == Fresh(Unmade)
       IN /\ chain' = [chain EXCEPT ![d] = [st |-> "dkg", acct |-> a,
                                            nek |-> arg[h].nek,
                                            fit |-> arg[h].fit]]
          /\ arg' = [arg EXCEPT ![h].dw = d, ![h].acct = a]
    /\ work' = work + 1
    /\ \/ Goto(h, "account") /\ UNCHANGED faults
       \/ Goto(h, "refund") /\ Fault
    /\ UNCHANGED <<ekChain, rowVars, fees, losses, gifts, owner, reply>>

\* pay_register_and_dkg_zero_trust makes the account.
OnboardZeroTrust(h) ==
    /\ arg[h].isNew /\ AccountObjs \ acctChain # {}
    /\ DkgLands(h, Fresh(AccountObjs \ acctChain))

\* pay_dkg_zero_trust uses the one found.
AddDwalletZeroTrust(h) == ~arg[h].isNew /\ DkgLands(h, arg[h].acct)

ExecuteFails(h) == pc[h] = "execute" /\ NotLanded(h, "refund")

\* Mutant: the account is looked up again once the transaction has landed.
RecordAccount_Rereads(h) ==
    /\ pc[h] = "account"
    /\ acctRows' = IF arg[h].isNew THEN acctRows \cup {arg[h].acct} ELSE acctRows
    /\ \E a \in acctRows' : arg' = [arg EXCEPT ![h].acct = a]
    /\ Goto(h, "insert")
    /\ UNCHANGED <<chainVars, ekRow, rows, ledgerVars, faults, owner, reply>>

\* recordAccount, with the Account this transaction created.
RecordAccount(h) ==
    /\ pc[h] = "account"
    /\ acctRows' = IF arg[h].isNew THEN acctRows \cup {arg[h].acct} ELSE acctRows
    /\ Goto(h, "insert")
    /\ UNCHANGED <<chainVars, ekRow, rows, ledgerVars, faults, owner, arg, reply>>

InsertDWallet(h) ==
    /\ pc[h] = "insert"
    /\ rows' = [rows EXCEPT ![arg[h].dw] =
                  [st |-> "awaiting_user_share", acct |-> arg[h].acct,
                   nek |-> None]]
    /\ Finish(h, "ok")
    /\ UNCHANGED <<chainVars, ekRow, acctRows, ledgerVars, faults>>

-----------------------------------------------------------------------------
(***************************************************************************)
(* acceptUserShare and ensureDwalletNek.                                   *)
(***************************************************************************)
\* An active row is returned as it is.
AcceptDone(h) ==
    /\ pc[h] = "acRead" /\ rows[arg[h].dw].st = "active"
    /\ Finish(h, "ok")
    /\ UNCHANGED <<chainVars, rowVars, ledgerVars, faults>>

AcceptRead(h) ==
    /\ pc[h] = "acRead" /\ rows[arg[h].dw].st = "awaiting_user_share"
    /\ arg' = [arg EXCEPT ![h].acct = rows[arg[h].dw].acct]
    /\ Goto(h, "acExecute")
    /\ UNCHANGED <<chainVars, rowVars, ledgerVars, faults, owner, reply>>

\* accept_user_share borrows the cap from the account and is free of charge.
AcceptExecute(h) ==
    /\ pc[h] = "acExecute"
    /\ chain[arg[h].dw].st = "awaiting" /\ chain[arg[h].dw].acct = arg[h].acct
    /\ chain' = [chain EXCEPT ![arg[h].dw].st = "active"]
    /\ UNCHANGED <<ekChain, acctChain, rowVars, ledgerVars>>
    /\ \/ Goto(h, "acNek") /\ UNCHANGED <<faults, owner, arg, reply>>
       \/ Fault /\ Finish(h, "error")

\* Not landed; also what a second accept gets.
AcceptFails(h) ==
    /\ pc[h] = "acExecute"
    /\ Finish(h, "error")
    /\ UNCHANGED <<chainVars, rowVars, ledgerVars, faults>>

\* A failed read is swallowed.
AcceptNek(h) ==
    /\ pc[h] = "acNek"
    /\ \E n \in {None, chain[arg[h].dw].nek} : arg' = [arg EXCEPT ![h].nek = n]
    /\ Goto(h, "acUpdate")
    /\ UNCHANGED <<chainVars, rowVars, ledgerVars, faults, owner, reply>>

AcceptUpdate(h) ==
    /\ pc[h] = "acUpdate"
    /\ rows' = [rows EXCEPT ![arg[h].dw].st = "active",
                            ![arg[h].dw].nek = IF arg[h].nek = None THEN @
                                               ELSE arg[h].nek]
    /\ Finish(h, "ok")
    /\ UNCHANGED <<chainVars, ekRow, acctRows, ledgerVars, faults>>

\* Called by prepareSignRequest.
NekRead(h) ==
    /\ pc[h] = "nekRead" /\ rows[arg[h].dw].nek = None
    /\ arg' = [arg EXCEPT ![h].nek = chain[arg[h].dw].nek]
    /\ Goto(h, "nekWrite")
    /\ UNCHANGED <<chainVars, rowVars, ledgerVars, faults, owner, reply>>

NekKnown(h) ==
    /\ pc[h] = "nekRead" /\ rows[arg[h].dw].nek # None
    /\ Finish(h, "ok")
    /\ UNCHANGED <<chainVars, rowVars, ledgerVars, faults>>

NekWrite(h) ==
    /\ pc[h] = "nekWrite"
    /\ rows' = [rows EXCEPT ![arg[h].dw].nek = arg[h].nek]
    /\ Finish(h, "ok")
    /\ UNCHANGED <<chainVars, ekRow, acctRows, ledgerVars, faults>>

-----------------------------------------------------------------------------
Step(h) ==
    \/ ChargeFails(h) \/ Refund(h)
    \/ EkFind(h) \/ EkFound(h) \/ EkCharge(h) \/ EkExecute(h) \/ EkFails(h)
    \/ EkInsert(h)
    \/ Find(h) \/ ChargeDkg(h) \/ OnboardZeroTrust(h) \/ AddDwalletZeroTrust(h)
    \/ ExecuteFails(h)
    \/ RecordAccount(h) \/ InsertDWallet(h)
    \/ AcceptDone(h) \/ AcceptRead(h) \/ AcceptExecute(h) \/ AcceptFails(h)
    \/ AcceptNek(h) \/ AcceptUpdate(h)
    \/ NekRead(h) \/ NekKnown(h) \/ NekWrite(h)
=============================================================================
