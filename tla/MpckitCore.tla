------------------------------ MODULE MpckitCore ------------------------------
(***************************************************************************)
(* The whole Move package: shared dWallets (AccountRoster), the operator   *)
(* capabilities (acl.move), the fee treasury (treasury.move), and the      *)
(* zero-trust and imported-key dWallets (dkg.move, sign.move,              *)
(* imported_key.move).  The coordinator is external: it takes its fee from *)
(* the coins it is lent and aborts when they do not cover it.              *)
(***************************************************************************)
EXTENDS AccountRoster

CONSTANTS
    Operators,   \* addresses an OperatorCap may be minted to
    Accounts,    \* Account objects
    Solo,        \* zero-trust dWallet ids
    Imported,    \* imported-key dWallet ids
    NoAccount,
    Fee,         \* the coordinator's fee, in IKA and in SUI
    MaxDeposits, \* bound: fees the treasury holds in each coin
    MaxCaps,     \* bound: OperatorCaps ever minted
    MaxPresigns  \* bound: presigns unspent and sign sessions

ASSUME CoreAssumption ==
    /\ NoAccount \notin Accounts
    /\ Fee \in Nat \ {0}
    /\ MaxDeposits \in Nat

VARIABLES
    capsOf,    \* OperatorCaps each operator holds
    retired,   \* OperatorCaps handed to the admin, and burned ones
    accounts,  \* Account objects that have been shared
    vault,     \* the account that stores a zero-trust or imported cap
    accepted,  \* zero-trust dWallets whose user share is accepted
    ika,       \* Treasury.ika
    sui        \* Treasury.sui

treasuryVars == <<ika, sui>>

storeVars == <<capsOf, retired, accounts, vault, accepted>>

vars == <<accountVars, storeVars, treasuryVars>>

TypeOK ==
    /\ stored \subseteq Wallets
    /\ creds \in [Wallets -> SUBSET Creds]
    /\ threshold \in [Wallets -> Nat]
    /\ nonce \in [Wallets -> Nat]
    /\ sigs \subseteq [key : Keys, chal : Challenges, clean : BOOLEAN,
                       roster : SUBSET Creds, quorum : Nat]
    /\ log \in [Wallets -> Seq([chal : Challenges, roster : SUBSET Creds,
                                quorum : Nat])]
    /\ presigns \in Nat /\ sessions \in Nat /\ events \in Nat
    /\ partials \in [Wallets -> [Msgs -> Nat]]
    /\ capsOf \in [Operators -> Nat] /\ retired \in [held : Nat, burned : Nat]
    /\ accounts \subseteq Accounts
    /\ vault \in [Solo \cup Imported -> Accounts \cup {NoAccount}]
    /\ accepted \subseteq Solo
    /\ ika \in Nat /\ sui \in Nat

\* acl::init and treasury::init: the deployer gets both caps, the treasury is
\* empty.
Init ==
    /\ stored = {}
    /\ creds = [w \in Wallets |-> {}]
    /\ threshold = [w \in Wallets |-> 0]
    /\ nonce = [w \in Wallets |-> 0]
    /\ sigs = {} /\ log = [w \in Wallets |-> <<>>]
    /\ presigns = 0 /\ sessions = 0 /\ events = 0
    /\ partials = [w \in Wallets |-> [m \in Msgs |-> 0]]
    /\ capsOf = [o \in Operators |-> 0]
    /\ retired = [held |-> 1, burned |-> 0]
    /\ accounts = {} /\ accepted = {}
    /\ vault = [d \in Solo \cup Imported |-> NoAccount]
    /\ ika = 0 /\ sui = 0

-----------------------------------------------------------------------------
(***************************************************************************)
(* acl.move                                                                *)
(***************************************************************************)
mint_operator(o) ==
    /\ capsOf[o] + retired.held + retired.burned < MaxCaps
    /\ capsOf' = [capsOf EXCEPT ![o] = @ + 1]
    /\ UNCHANGED <<accountVars, retired, accounts, vault, accepted, treasuryVars>>

\* OperatorCap has store: its owner may send it to the admin.
SurrenderCap(o) ==
    /\ capsOf[o] > 0
    /\ capsOf' = [capsOf EXCEPT ![o] = @ - 1]
    /\ retired' = [retired EXCEPT !.held = @ + 1]
    /\ UNCHANGED <<accountVars, accounts, vault, accepted, treasuryVars>>

\* Takes the cap by value, so the admin must own it.
burn_operator ==
    /\ retired.held > 0
    /\ retired' = [held |-> retired.held - 1, burned |-> retired.burned + 1]
    /\ UNCHANGED <<accountVars, capsOf, accounts, vault, accepted, treasuryVars>>

\* A transaction that borrows an OperatorCap.
AsOperator == (\E o \in Operators : capsOf[o] > 0) \/ retired.held > 0

-----------------------------------------------------------------------------
(***************************************************************************)
(* treasury.move                                                           *)
(***************************************************************************)
deposit_ika ==
    /\ ika < MaxDeposits * Fee
    /\ ika' = ika + Fee
    /\ UNCHANGED <<accountVars, storeVars, sui>>

deposit_sui ==
    /\ sui < MaxDeposits * Fee
    /\ sui' = sui + Fee
    /\ UNCHANGED <<accountVars, storeVars, ika>>

drain ==
    /\ ika' = 0 /\ sui' = 0
    /\ UNCHANGED <<accountVars, storeVars>>

\* Everything the treasury holds, as two coins; nothing stays in it.
take == [ika |-> ika, sui |-> sui]

\* The coordinator aborts unless the coins cover its fee, and keeps the fee.
Covers(coins) == coins.ika >= Fee /\ coins.sui >= Fee

Change(coins) == [ika |-> coins.ika - Fee, sui |-> coins.sui - Fee]

give_back(coins) == ika' = coins.ika /\ sui' = coins.sui

\* What every pay_ entry does around its inner call.
PayFromTreasury ==
    /\ AsOperator
    /\ Covers(take)
    /\ give_back(Change(take))

\* Anyone may buy a presign from the coordinator with coins of their own.
request_global_presign ==
    /\ presigns + sessions < MaxPresigns
    /\ presigns' = presigns + 1
    /\ UNCHANGED <<stored, rosterVars, sigs, log, partials, sessions, events,
                   storeVars, treasuryVars>>

pay_presign ==
    /\ presigns + sessions < MaxPresigns
    /\ PayFromTreasury
    /\ presigns' = presigns + 1
    /\ UNCHANGED <<stored, rosterVars, sigs, log, partials, sessions, events,
                   storeVars>>

-----------------------------------------------------------------------------
(***************************************************************************)
(* Accounts, zero-trust and imported-key dWallets.                         *)
(***************************************************************************)
\* register_account, then share_account at the end of the transaction.
register_account(a) ==
    /\ AsOperator /\ a \notin accounts
    /\ accounts' = accounts \cup {a}
    /\ UNCHANGED <<accountVars, capsOf, retired, vault, accepted, treasuryVars>>

\* The coordinator makes a new dwallet_id, so EDWalletAlreadyStored is about a
\* cap stored twice.
store_dwallet_cap(d, a) ==
    /\ vault[d] = NoAccount
    /\ vault' = [vault EXCEPT ![d] = a]

pay_register_and_dkg_zero_trust(a, d) ==
    /\ a \notin accounts
    /\ accounts' = accounts \cup {a}
    /\ store_dwallet_cap(d, a)
    /\ PayFromTreasury
    /\ UNCHANGED <<accountVars, capsOf, retired, accepted>>

pay_dkg_zero_trust(a, d) ==
    /\ a \in accounts
    /\ store_dwallet_cap(d, a)
    /\ PayFromTreasury
    /\ UNCHANGED <<accountVars, capsOf, retired, accounts, accepted>>

\* The caller's own coins pay.
request_dkg_zero_trust(a, d) ==
    /\ AsOperator /\ a \in accounts
    /\ store_dwallet_cap(d, a)
    /\ UNCHANGED <<accountVars, capsOf, retired, accounts, accepted, treasuryVars>>

request_dkg_shared(a, w, initial, t) ==
    /\ AsOperator /\ a \in accounts
    /\ store_shared_dwallet_cap(w, initial, t)
    /\ UNCHANGED <<sigs, log, presigns, partials, sessions, events, storeVars,
                   treasuryVars>>

request_imported_key_dwallet_verification(a, d) ==
    /\ AsOperator /\ a \in accounts
    /\ store_dwallet_cap(d, a)
    /\ UNCHANGED <<accountVars, capsOf, retired, accounts, accepted, treasuryVars>>

\* The coordinator accepts a share once.
accept_user_share(a, d) ==
    /\ vault[d] = a /\ d \notin accepted
    /\ accepted' = accepted \cup {d}
    /\ UNCHANGED <<accountVars, capsOf, retired, accounts, vault, treasuryVars>>

\* Spends the presign, opens the session and emits the event.
request_sign_zero_trust(a, d) ==
    /\ vault[d] = a /\ d \in accepted
    /\ SpendPresign
    /\ sessions' = sessions + 1
    /\ events' = events + 1
    /\ UNCHANGED <<stored, rosterVars, sigs, log, partials, storeVars>>

pay_sign_zero_trust(a, d) ==
    /\ PayFromTreasury
    /\ request_sign_zero_trust(a, d)

\* No event.
request_imported_key_sign(a, d) ==
    /\ vault[d] = a
    /\ SpendPresign
    /\ sessions' = sessions + 1
    /\ UNCHANGED <<stored, rosterVars, sigs, log, partials, events, storeVars,
                   treasuryVars>>

-----------------------------------------------------------------------------
Admin ==
    \/ \E o \in Operators : mint_operator(o) \/ SurrenderCap(o)
    \/ burn_operator \/ drain \/ deposit_ika \/ deposit_sui
    \/ pay_presign \/ request_global_presign

Zero(a, d) ==
    \/ pay_register_and_dkg_zero_trust(a, d)
    \/ pay_dkg_zero_trust(a, d)
    \/ request_dkg_zero_trust(a, d)
    \/ accept_user_share(a, d)
    \/ pay_sign_zero_trust(a, d)
    \/ request_sign_zero_trust(a, d) /\ UNCHANGED treasuryVars

Shared ==
    /\ \E w \in Wallets :
         \/ \E signers \in SUBSET Creds, sender \in Addrs \cup {Sponsor} :
              SharedOp(w, signers, sender)
         \/ \E k \in Keys, chal \in Signable(w), clean \in BOOLEAN :
              SignChallenge(k, w, chal, clean)
    /\ UNCHANGED <<storeVars, treasuryVars>>

Next ==
    \/ Admin
    \/ Shared
    \/ \E a \in Accounts :
         \/ register_account(a)
         \/ \E d \in Solo : Zero(a, d)
         \/ \E d \in Imported : \/ request_imported_key_dwallet_verification(a, d)
                                \/ request_imported_key_sign(a, d)
         \/ \E w \in Wallets, initial \in SUBSET Creds,
               t \in 1..MAX_CREDENTIALS : request_dkg_shared(a, w, initial, t)

Spec == Init /\ [][Next]_vars

-----------------------------------------------------------------------------
(***************************************************************************)
(* Properties.                                                             *)
(***************************************************************************)
\* Some transaction can carry the wallet's quorum, once the holders of its keys
\* have signed: a sender address counts only for the sender itself.
CanAct(w) ==
    \E signers \in SUBSET creds[w], sender \in Addrs \cup {Sponsor} :
        /\ Cardinality(signers) >= threshold[w]
        /\ \A c \in signers \cap Addrs : c = sender

\* No sequence of roster operations leaves a wallet open to anyone, or with a
\* threshold its credentials cannot reach, except one with two sender addresses:
\* these are counted against the threshold when a credential is removed or the
\* threshold set, and no transaction can show both (account.move,
\* remove_credential and set_threshold; auth.move, SenderAddress).
RosterUsable ==
    \A w \in stored :
        /\ 1 <= threshold[w]
        /\ CanAct(w) \/ \E a, b \in creds[w] \cap Addrs : a # b

\* An approval authorises one operation: no challenge is granted twice
\* (challenges.move: the nonce "prevents replay").
NoReplay ==
    \A w \in Wallets : \A i, j \in DOMAIN log[w] :
        log[w][i].chal = log[w][j].chal => i = j

\* An operation is authorised by consents given under the roster and threshold
\* it executes under: none was collected before an intervening change, even if
\* the credential was removed and added again in between.
FreshConsent ==
    \A w \in Wallets : \A i \in DOMAIN log[w] :
        LET e == log[w][i]
        IN \A s \in sigs : s.chal = e.chal =>
             s.roster = e.roster /\ s.quorum = e.quorum

\* The grants of an operation on a message.
Granted(l, tag, m) == {i \in DOMAIN l : l[i].chal[1] = tag /\ m \in l[i].chal[4]}

\* Two-phase signing: a wallet's completions and its outstanding partial caps
\* are together its approved future signs, message by message.
FutureSignPaired ==
    \A w \in Wallets, m \in Msgs :
        partials[w][m] + Cardinality(Granted(log[w], "complete_future_sign", m))
          = Cardinality(Granted(log[w], "request_future_sign", m))

\* What the code checks: the threshold against the number of credentials.
RosterBounded ==
    \A w \in stored : /\ 1 <= threshold[w]
                      /\ threshold[w] <= Cardinality(creds[w])
                      /\ Cardinality(creds[w]) <= MAX_CREDENTIALS

\* The nonce counts the grants, and a grant's challenge carries the nonce of its
\* time.
NonceCountsGrants ==
    \A w \in Wallets :
        /\ nonce[w] = Len(log[w])
        /\ \A i \in DOMAIN log[w] : log[w][i].chal[2] = w /\ log[w][i].chal[3] = i - 1
        /\ w \notin stored => log[w] = <<>>

\* A signature is of a nonce that was or is the wallet's, and was given under the
\* roster its nonce stands for: the one of the grant that used the nonce up, or
\* the present one.
SignaturesAreDated ==
    \A s \in sigs :
        LET w == s.chal[2]
            n == s.chal[3]
        IN /\ w \in stored /\ n <= nonce[w]
           /\ n = nonce[w] => s.roster = creds[w] /\ s.quorum = threshold[w]
           /\ n < nonce[w] => s.roster = log[w][n + 1].roster
                                /\ s.quorum = log[w][n + 1].quorum

RosterInv == RosterBounded /\ NonceCountsGrants /\ SignaturesAreDated /\ FutureSignPaired

CoreInv == TypeOK /\ RosterInv
=============================================================================
