-------------------------------- MODULE SignIn --------------------------------
(***************************************************************************)
(* Who the gateway's users are: the admin that every API pod provisions    *)
(* before it listens (auth/bootstrap.ts, api.ts) and the users that sign   *)
(* in, with a Sui wallet (auth/siws-plugin.ts, driven by the dashboard's   *)
(* sign-in page), with GitHub or with a passkey (better-auth.ts).  A       *)
(* request takes one step per await.  Better-Auth's adapter is used by     *)
(* what it writes: unique indexes on users.email and on auth_accounts      *)
(* (provider, account), the latest verification of an identifier, deletion *)
(* of all of them.                                                         *)
(***************************************************************************)
EXTENDS Naturals, FiniteSets

CONSTANTS
    Addresses,   \* Sui wallets
    Githubs,     \* GitHub accounts
    Browsers,    \* dashboard tabs, each a request at a time
    Pods,        \* API processes
    UserIds,     \* ids users may get
    MaxNonces,   \* bound: nonces ever issued
    MaxLogins,   \* bound: sign-ins by GitHub or passkey
    MaxFaults,   \* bound: crashes of a pod or of what serves a tab
    Admin, None

ASSUME SignInAssumption ==
    /\ Admin \notin Addresses \cup Githubs /\ Addresses \cap Githubs = {}
    /\ None \notin Addresses \cup UserIds \cup Githubs
    /\ MaxNonces \in Nat /\ MaxLogins \in Nat /\ MaxFaults \in Nat

VARIABLES
    emailOf,   \* users rows: id -> email; a wallet's email is its address
    accounts,  \* auth_accounts rows of provider siws: address -> user
    latest,    \* auth_verifications: the last nonce stored for an address
    nonces,    \* nonces issued so far
    logins,    \* sign-ins by GitHub or passkey so far
    sessions,  \* auth_sessions rows written: [user, addr], addr None but for a wallet
    tab,       \* browser -> its sign-in
    pod,       \* API process -> where its boot stands
    bootKey,   \* api_keys row of ADMIN_API_KEY: its user
    faults

signInVars == <<emailOf, accounts, latest, nonces, logins, sessions, tab, pod,
                bootKey, faults>>

Emails == Addresses \cup Githubs \cup {Admin}
NoTab == [pc |-> "out", addr |-> None, nonce |-> 0, user |-> None]

SignInTypeOK ==
    /\ emailOf \in [UserIds -> Emails \cup {None}]
    /\ accounts \in [Addresses -> UserIds \cup {None}]
    /\ latest \in [Addresses -> 0 .. MaxNonces]
    /\ nonces \in 0 .. MaxNonces /\ logins \in Nat
    /\ sessions \subseteq [user : UserIds, addr : Addresses \cup {None}]
    /\ tab \in [Browsers -> [pc : {"out", "sign", "verify", "delete", "find",
                                   "create", "bind", "session", "in"},
                             addr : Addresses \cup {None}, nonce : 0 .. MaxNonces,
                             user : UserIds \cup {None}]]
    /\ pod \in [Pods -> [pc : {"boot", "select", "insert", "key", "wallet",
                               "networks", "up"},
                         admin : UserIds \cup {None}]]
    /\ bootKey \in UserIds \cup {None}
    /\ faults \in 0 .. MaxFaults

NoBoot == [pc |-> "boot", admin |-> None]

EmptyDb ==
    /\ emailOf = [u \in UserIds |-> None]
    /\ accounts = [a \in Addresses |-> None]
    /\ latest = [a \in Addresses |-> 0]
    /\ sessions = {} /\ tab = [b \in Browsers |-> NoTab]
    /\ pod = [p \in Pods |-> NoBoot] /\ bootKey = None
    /\ faults = 0

SignInInit == EmptyDb /\ nonces = 0 /\ logins = 0

Fault == faults < MaxFaults /\ faults' = faults + 1

UserWith(email) == {u \in UserIds : emailOf[u] = email}
NewUsers == {u \in UserIds : emailOf[u] = None}

\* The id a new row gets: any that is free will do.
NewId == CHOOSE u \in NewUsers : TRUE

-----------------------------------------------------------------------------
(***************************************************************************)
(* bootstrapAdmin: look for the key, find or insert the admin user, insert *)
(* the key; then the wallet and the chain clients are made ready.          *)
(* Whatever throws ends the process, which is started again.               *)
(***************************************************************************)
bootVars == <<accounts, latest, nonces, logins, sessions, tab>>

Died(p) == pod' = [pod EXCEPT ![p] = NoBoot]

BootRead(p) ==
    /\ pod[p].pc = "boot"
    /\ pod' = [pod EXCEPT ![p].pc = IF bootKey # None THEN "wallet" ELSE "select"]
    /\ UNCHANGED <<bootVars, emailOf, bootKey, faults>>

\* Mutant: the admin user is not looked for.
BootSelect_Inserts(p) ==
    /\ pod[p].pc = "select"
    /\ pod' = [pod EXCEPT ![p].pc = "insert"]
    /\ UNCHANGED <<bootVars, emailOf, bootKey, faults>>

\* (A row without is_admin is given it; the flag is left out.)
BootSelect(p) ==
    /\ pod[p].pc = "select"
    /\ IF UserWith(Admin) = {} THEN pod' = [pod EXCEPT ![p].pc = "insert"]
       ELSE \E u \in UserWith(Admin) :
               pod' = [pod EXCEPT ![p] = [pc |-> "key", admin |-> u]]
    /\ UNCHANGED <<bootVars, emailOf, bootKey, faults>>

\* The email is unique: the later of two inserts throws.
BootInsert(p) ==
    /\ pod[p].pc = "insert"
    /\ IF UserWith(Admin) # {} THEN Died(p) /\ UNCHANGED emailOf
       ELSE /\ NewUsers # {}
            /\ emailOf' = [emailOf EXCEPT ![NewId] = Admin]
            /\ pod' = [pod EXCEPT ![p] = [pc |-> "key", admin |-> NewId]]
    /\ UNCHANGED <<bootVars, bootKey, faults>>

\* So is the key's hash.
BootKey(p) ==
    /\ pod[p].pc = "key"
    /\ IF bootKey # None THEN Died(p) /\ UNCHANGED bootKey
       ELSE /\ bootKey' = pod[p].admin
            /\ pod' = [pod EXCEPT ![p] = [NoBoot EXCEPT !.pc = "wallet"]]
    /\ UNCHANGED <<bootVars, emailOf, faults>>

\* A wallet seed that cannot be had, or a client that does not initialise, ends
\* the process.  Both are kept as the promise they began as, so that only a new
\* process tries again.
Warms(p, from, to) ==
    /\ pod[p].pc = from
    /\ \/ pod' = [pod EXCEPT ![p].pc = to] /\ UNCHANGED faults
       \/ Fault /\ Died(p)
    /\ UNCHANGED <<bootVars, emailOf, bootKey>>

warmHotWallet(p) == Warms(p, "wallet", "networks")

warmupNetworks(p) == Warms(p, "networks", "up")

PodCrash(p) ==
    /\ pod[p] # NoBoot /\ Fault /\ Died(p)
    /\ UNCHANGED <<bootVars, emailOf, bootKey>>

Boot(p) ==
    \/ BootRead(p) \/ BootSelect(p) \/ BootInsert(p) \/ BootKey(p)
    \/ warmHotWallet(p) \/ warmupNetworks(p)

Serving == \E p \in Pods : pod[p].pc = "up"

-----------------------------------------------------------------------------
(***************************************************************************)
(* continueWithSui: ask for a nonce, have the wallet sign it, verify.      *)
(***************************************************************************)
tabVars == <<pod, bootKey, logins>>

Turn(b, label) == tab' = [tab EXCEPT ![b].pc = label]
SignedOut(b) == tab' = [tab EXCEPT ![b] = NoTab]
SignedIn(u) == [pc |-> "in", addr |-> None, nonce |-> 0, user |-> u]

getSiwsNonce(b, a) ==
    /\ tab[b].pc = "out" /\ Serving /\ nonces < MaxNonces
    /\ nonces' = nonces + 1
    /\ latest' = [latest EXCEPT ![a] = nonces + 1]
    /\ tab' = [tab EXCEPT ![b] = [NoTab EXCEPT !.pc = "sign", !.addr = a,
                                               !.nonce = nonces + 1]]
    /\ UNCHANGED <<tabVars, emailOf, accounts, sessions, faults>>

\* The wallet signs, or its owner declines.
signPersonalMessage(b) ==
    /\ tab[b].pc = "sign"
    /\ Turn(b, "verify") \/ SignedOut(b)
    /\ UNCHANGED <<tabVars, emailOf, accounts, latest, nonces, sessions, faults>>

\* Ten minutes pass.
ExpireNonce(a) ==
    /\ latest[a] # 0
    /\ latest' = [latest EXCEPT ![a] = 0]
    /\ UNCHANGED <<tabVars, emailOf, accounts, nonces, sessions, tab, faults>>

\* The message carries the latest nonce of the address, unexpired; the
\* signature of the wallet is valid.  Otherwise the sign-in fails.
VerifyNonce(b) ==
    /\ tab[b].pc = "verify"
    /\ IF latest[tab[b].addr] = tab[b].nonce THEN Turn(b, "delete") ELSE SignedOut(b)
    /\ UNCHANGED <<tabVars, emailOf, accounts, latest, nonces, sessions, faults>>

\* Every verification of the address goes, a newer one too.
DeleteNonce(b) ==
    /\ tab[b].pc = "delete"
    /\ latest' = [latest EXCEPT ![tab[b].addr] = 0]
    /\ tab' = [tab EXCEPT ![b].pc = "find", ![b].nonce = 0]
    /\ UNCHANGED <<tabVars, emailOf, accounts, nonces, sessions, faults>>

FindAccount(b) ==
    /\ tab[b].pc = "find"
    /\ LET u == accounts[tab[b].addr]
       IN  tab' = [tab EXCEPT ![b].user = u,
                              ![b].pc = IF u = None THEN "create" ELSE "session"]
    /\ UNCHANGED <<tabVars, emailOf, accounts, latest, nonces, sessions, faults>>

\* Mutant: the binding is written without waiting for it.
CreateUser_NotAwaited(b) ==
    /\ tab[b].pc = "create"
    /\ IF UserWith(tab[b].addr) # {} THEN SignedOut(b) /\ UNCHANGED emailOf
       ELSE /\ NewUsers # {}
            /\ emailOf' = [emailOf EXCEPT ![NewId] = tab[b].addr]
            /\ tab' = [tab EXCEPT ![b].user = NewId, ![b].pc = "session"]
    /\ UNCHANGED <<tabVars, accounts, latest, nonces, sessions, faults>>

\* The synthetic email of the address is unique.
CreateUser(b) ==
    /\ tab[b].pc = "create"
    /\ IF UserWith(tab[b].addr) # {} THEN SignedOut(b) /\ UNCHANGED emailOf
       ELSE /\ NewUsers # {}
            /\ emailOf' = [emailOf EXCEPT ![NewId] = tab[b].addr]
            /\ tab' = [tab EXCEPT ![b].user = NewId, ![b].pc = "bind"]
    /\ UNCHANGED <<tabVars, accounts, latest, nonces, sessions, faults>>

CreateAccount(b) ==
    /\ tab[b].pc = "bind" /\ accounts[tab[b].addr] = None
    /\ accounts' = [accounts EXCEPT ![tab[b].addr] = tab[b].user]
    /\ Turn(b, "session")
    /\ UNCHANGED <<tabVars, emailOf, latest, nonces, sessions, faults>>

CreateSession(b) ==
    /\ tab[b].pc = "session"
    /\ sessions' = sessions \cup {[user |-> tab[b].user, addr |-> tab[b].addr]}
    /\ tab' = [tab EXCEPT ![b] = SignedIn(tab[b].user)]
    /\ UNCHANGED <<tabVars, emailOf, accounts, latest, nonces, faults>>

-----------------------------------------------------------------------------
(***************************************************************************)
(* Better-Auth's own ways in, which bind no wallet.                        *)
(***************************************************************************)
LoggedIn(b, u) ==
    /\ tab[b].pc = "out" /\ Serving
    /\ logins < MaxLogins /\ logins' = logins + 1
    /\ sessions' = sessions \cup {[user |-> u, addr |-> None]}
    /\ tab' = [tab EXCEPT ![b] = SignedIn(u)]

\* The user of the GitHub account, made at its first sign-in.
GithubSignIn(b, g) ==
    /\ \/ \E u \in UserWith(g) : LoggedIn(b, u) /\ UNCHANGED emailOf
       \/ /\ UserWith(g) = {} /\ NewUsers # {}
          /\ LoggedIn(b, NewId) /\ emailOf' = [emailOf EXCEPT ![NewId] = g]
    /\ UNCHANGED <<pod, bootKey, accounts, latest, nonces, faults>>

\* A passkey is registered by a user who is signed in, and signs that user in.
PasskeySignIn(b, u) ==
    /\ \E s \in sessions : s.user = u
    /\ LoggedIn(b, u)
    /\ UNCHANGED <<pod, bootKey, emailOf, accounts, latest, nonces, faults>>

\* The process serving the tab dies, or the session ends.
TabLost(b) ==
    /\ tab[b].pc # "out" /\ Fault /\ SignedOut(b)
    /\ UNCHANGED <<tabVars, emailOf, accounts, latest, nonces, sessions>>

SignInStep(b) ==
    \/ signPersonalMessage(b) \/ VerifyNonce(b) \/ DeleteNonce(b)
    \/ FindAccount(b) \/ CreateUser(b) \/ CreateAccount(b) \/ CreateSession(b)

SignInNext ==
    \/ \E p \in Pods : Boot(p)
    \/ \E b \in Browsers : SignInStep(b) \/ TabLost(b)
    \/ \E b \in Browsers, a \in Addresses : getSiwsNonce(b, a)
    \/ \E b \in Browsers, g \in Githubs : GithubSignIn(b, g)
    \/ \E b \in Browsers, u \in UserIds : PasskeySignIn(b, u)
    \/ \E a \in Addresses : ExpireNonce(a)

-----------------------------------------------------------------------------
\* A wallet's sessions are all of one user, the one bound to its address, and
\* no user is bound to two wallets, also when two tabs sign in for the first
\* time at once (verifySiwsSignature).
SessionsAgree ==
    /\ \A s \in sessions : s.addr # None => accounts[s.addr] = s.user
    /\ \A a1, a2 \in Addresses :
         accounts[a1] = accounts[a2] /\ accounts[a1] # None => a1 = a2

\* Whatever pods boot at once and die half way, the key of ADMIN_API_KEY is
\* provisioned and every pod comes up in the end (bootstrapAdmin).
AdminProvisioned == <>[](bootKey # None /\ \A p \in Pods : pod[p].pc = "up")

\* The user bound to an address carries the address in its email, and so does
\* the user a tab is about to bind.  A tab past the binding has the bound user,
\* and one that is signed in a session.
BindingsMatch ==
    /\ \A a \in Addresses : accounts[a] # None => emailOf[accounts[a]] = a
    /\ \A b \in Browsers :
         LET t == tab[b]
         IN /\ t.pc \notin {"out", "in"} => t.addr \in Addresses
            /\ t.pc = "bind" => t.user \in UserIds /\ emailOf[t.user] = t.addr
            /\ t.pc = "session" => t.user \in UserIds /\ accounts[t.addr] = t.user
            /\ t.pc = "in" => \E s \in sessions : s.user = t.user
=============================================================================
