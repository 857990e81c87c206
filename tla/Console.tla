------------------------------- MODULE Console -------------------------------
(***************************************************************************)
(* A tab of the dashboard (apps/dashboard).  What it shows comes from a    *)
(* cache of query results kept per network, while a request's network is   *)
(* read off a module variable when the request is sent.  Pages observe     *)
(* entries, mutations invalidate them, and answers arrive when they do.    *)
(* The cache is TanStack Query, external, by the rules of its client.  An  *)
(* answer is the set of the user's rows it holds: amounts, names and       *)
(* layout are left out.                                                    *)
(***************************************************************************)
EXTENDS Naturals

CONSTANTS
    None,
    Users,
    Deposits,     \* transaction digests
    NetOf,        \* the network a deposit was made on
    PayeeOf,      \* the user whose address it pays
    KeyIds,
    MaxMutations  \* bound: declarations and revocations sent

Networks == {"testnet", "mainnet"}

\* lib/query-keys.ts: the balance and the history are kept per network, the key
\* list once.
Balance(n) == <<"balance", n>>
History(n) == <<"history", n>>
ApiKeys == <<"api-keys">>

Billing == {Balance(n) : n \in Networks} \cup {History(n) : n \in Networks}

QueryKeys == Billing \cup {ApiKeys}

Pages == {"sign-in", "overview", "billing", "api-keys", "settings"}

Answers == SUBSET (Deposits \cup KeyIds)

ASSUME ConsoleAssumption ==
    /\ NetOf \in [Deposits -> Networks]
    /\ PayeeOf \in [Deposits -> Users]
    /\ None \notin Users \cup [ans : Answers] /\ \A a \in Answers : a # None
    /\ Users \cap {"none", "revoked"} = {}
    /\ Deposits \cap KeyIds = {}
    /\ MaxMutations \in Nat

VARIABLES
    page,      \* the page the tab is on
    network,   \* lib/network.ts, current: also what localStorage holds
    user,      \* whose session the cookie names
    live,      \* the session has not ended
    cache,     \* the QueryClient
    muts,      \* the mutations under way
    told,      \* history: keys reported revoked while the keys were shown
    passkeys,  \* users with a passkey on this device
    visible,   \* the tab is in sight
    credited,  \* deposits credited
    keys,      \* the user a key is active for, or "none" or "revoked"
    sent,      \* declarations and revocations sent
    followed   \* the query this behaviour follows: no other entry bears on it

sessionVars == <<page, user, live>>

rows == <<credited, keys>>

device == <<passkeys, visible>>

bounds == <<sent, followed>>

vars == <<sessionVars, network, cache, muts, told, device, rows, bounds>>

\* A request on its way, by a session that is gone if it names none.
Asked == [net : Networks, by : Users \cup {None}]

Fetches == {None} \cup Asked \cup [ans : Answers]

Entries == [data : {None} \cup Answers, stale : BOOLEAN, fetch : Fetches]

Mutations ==
    LET status == {"sent", "ok", "refused"}
    IN [op : {"declare"}, id : Deposits, net : Networks, by : Users \cup {None}, st : status]
         \cup [op : {"create", "revoke"}, id : KeyIds, by : Users \cup {None}, st : status]

TypeOK ==
    /\ page \in Pages /\ network \in Networks
    /\ user \in Users \cup {None} /\ live \in BOOLEAN /\ (live => user # None)
    /\ cache \in [QueryKeys -> Entries]
    /\ muts \subseteq Mutations /\ told \subseteq KeyIds
    /\ passkeys \subseteq Users /\ visible \in BOOLEAN
    /\ credited \subseteq Deposits
    /\ keys \in [KeyIds -> Users \cup {"none", "revoked"}]
    /\ sent \in 0..MaxMutations /\ followed \in QueryKeys

Empty == [k \in QueryKeys |-> [data |-> None, stale |-> FALSE, fetch |-> None]]

Init ==
    /\ page = "sign-in" /\ network = "testnet" /\ user = None /\ live = FALSE
    /\ cache = Empty /\ muts = {} /\ told = {} /\ passkeys = {} /\ visible = TRUE
    /\ credited = {} /\ keys = [k \in KeyIds |-> "none"]
    /\ sent = 0 /\ followed \in QueryKeys

-----------------------------------------------------------------------------
(***************************************************************************)
(* The cache.                                                              *)
(***************************************************************************)
\* The queries a page has hooks for.
Observed(p, n) ==
    {followed} \cap CASE p = "overview" -> {Balance(n), ApiKeys}
                      [] p = "billing"  -> {Balance(n), History(n)}
                      [] p = "api-keys" -> {ApiKeys}
                      [] OTHER          -> {}

Shown == Observed(page, network)

\* lib/api.ts, request: the header is the network at the time of the call, the
\* cookie the browser's.
Request(n, u) == [net |-> n, by |-> u]

Session == IF live THEN user ELSE None

\* A hook that starts to observe an entry joins a fetch under way, or starts
\* one unless the data is fresh: not invalidated, and not past its staleTime.
Observe(e, f, aged) ==
    IF e.fetch = None /\ (e.data = None \/ e.stale \/ aged)
    THEN [e EXCEPT !.fetch = f] ELSE e

\* A refetch replaces the fetch under way if there is data to show meanwhile.
Refetch(e, f) ==
    IF e.fetch # None /\ e.data = None THEN e ELSE [e EXCEPT !.fetch = f]

Mounted(c, obs, f, aged) ==
    [k \in QueryKeys |-> IF k \in obs THEN Observe(c[k], f, aged) ELSE c[k]]

\* invalidateQueries: the matching entries turn stale, the observed ones among
\* them are fetched again.
Invalidated(c, match, obs, f) ==
    [k \in QueryKeys |->
        LET e == [c[k] EXCEPT !.stale = c[k].data # None]
        IN IF k \notin match THEN c[k]
           ELSE IF k \in obs THEN Refetch(e, f) ELSE e]

\* The hooks of the page p mount.
Visit(p) ==
    /\ visible /\ page # "sign-in" /\ p \in Pages \ {"sign-in"}
    /\ page' = p
    /\ \E aged \in BOOLEAN :
         cache' = Mounted(cache, Observed(p, network),
                          Request(network, Session), aged)
    /\ UNCHANGED <<user, live, network, muts, told, device, rows, bounds>>

\* setNetwork and invalidateQueries run in the click's handler, before React
\* renders: the entries fetched again are the old network's, under the new
\* header.  Then the hooks move to the new network's entries.
switchTo(n) ==
    LET f == Request(n, Session)
    IN /\ visible /\ page # "sign-in" /\ n # network
       /\ network' = n
       /\ cache' = Mounted(Invalidated(cache, QueryKeys, Shown, f),
                           Observed(page, n), f, FALSE)
       /\ UNCHANGED <<sessionVars, muts, told, device, rows, bounds>>

\* Mutant: the timer leaves data that is not stale alone.
Poll_OnlyStale ==
    LET k == Balance(network)
    IN /\ visible /\ page = "billing" /\ k \in Shown /\ cache[k].fetch = None /\ cache[k].stale
       /\ cache' = [cache EXCEPT ![k].fetch = Request(network, Session)]
       /\ UNCHANGED <<sessionVars, network, muts, told, device, rows, bounds>>

\* refetchInterval, of the balance alone and on the billing page alone, in a tab
\* in sight.
Poll ==
    LET k == Balance(network)
    IN /\ visible /\ page = "billing" /\ k \in Shown /\ cache[k].fetch = None
       /\ cache' = [cache EXCEPT ![k].fetch = Request(network, Session)]
       /\ UNCHANGED <<sessionVars, network, muts, told, device, rows, bounds>>

Hide ==
    /\ visible /\ visible' = FALSE
    /\ UNCHANGED <<sessionVars, network, cache, muts, told, passkeys, rows, bounds>>

\* Mutant: coming back fetches only what has been invalidated.
Focus_OnlyStale(aged) ==
    /\ ~visible /\ visible' = TRUE
    /\ cache' = Mounted(cache, Shown, Request(network, Session), FALSE)
    /\ UNCHANGED <<sessionVars, network, muts, told, passkeys, rows, bounds>>

\* refetchOnWindowFocus, within or after the staleTime.
Focus(aged) ==
    /\ ~visible /\ visible' = TRUE
    /\ cache' = Mounted(cache, Shown, Request(network, Session), aged)
    /\ UNCHANGED <<sessionVars, network, muts, told, passkeys, rows, bounds>>

\* The backend answers from the rows of the session's user: the balance and the
\* history for the network of the header, the keys of every network.
Read(k, u, n) ==
    IF k = ApiKeys THEN {i \in KeyIds : keys[i] = u}
    ELSE {d \in credited : PayeeOf[d] = u /\ NetOf[d] = n}

Serve(k) ==
    LET f == cache[k].fetch
    IN /\ f \in Asked /\ f.by # None
       /\ cache' = [cache EXCEPT ![k].fetch = [ans |-> Read(k, f.by, f.net)]]
       /\ UNCHANGED <<sessionVars, network, muts, told, device, rows, bounds>>

Reply(k) ==
    LET f == cache[k].fetch
    IN /\ f \in [ans : Answers]
       /\ cache' = [cache EXCEPT ![k] =
                      [data |-> f.ans, stale |-> FALSE, fetch |-> None]]
       /\ UNCHANGED <<sessionVars, network, muts, told, device, rows, bounds>>

\* A read is refused for want of a session, or lost on the way: it is sent once
\* more, which waits until the tab is in sight, or was sent again already
\* (retry: 1; the count is left out).
Fails(k) ==
    LET f == cache[k].fetch
    IN /\ f \in Asked
       /\ \E next \in {None} \cup IF visible THEN {Request(network, Session)} ELSE {} :
            cache' = [cache EXCEPT ![k].fetch = next]
       /\ UNCHANGED <<sessionVars, network, muts, told, device, rows, bounds>>

-----------------------------------------------------------------------------
(***************************************************************************)
(* Mutations.                                                              *)
(***************************************************************************)
Mutate(m) ==
    /\ visible /\ muts' = muts \cup {m}
    /\ UNCHANGED <<sessionVars, network, cache, told, device, rows, followed>>

\* DeclareDepositDialog: the button is off while a declaration is under way.
Declare(d) ==
    /\ page = "billing" /\ followed \in Billing /\ \A m \in muts : m.op # "declare"
    /\ sent < MaxMutations /\ sent' = sent + 1
    /\ Mutate([op |-> "declare", id |-> d, net |-> network, by |-> Session, st |-> "sent"])

\* CreateKeyDialog: the backend makes a new key.
CreateKey(k) ==
    /\ page = "api-keys" /\ followed = ApiKeys
    /\ keys[k] = "none" /\ \A m \in muts : m.id # k
    /\ Mutate([op |-> "create", id |-> k, by |-> Session, st |-> "sent"])
    /\ UNCHANGED sent

\* RowActions of an active row.
Revoke(k) ==
    /\ page = "api-keys" /\ cache[ApiKeys].data # None /\ k \in cache[ApiKeys].data
    /\ sent < MaxMutations /\ sent' = sent + 1
    /\ Mutate([op |-> "revoke", id |-> k, by |-> Session, st |-> "sent"])

Refused(m) ==
    \/ m.by = None
    \/ m.op = "declare" /\ (NetOf[m.id] # m.net \/ PayeeOf[m.id] # m.by)
    \/ m.op = "revoke" /\ keys[m.id] # m.by

Settled(m, st) == muts' = (muts \ {m}) \cup {[m EXCEPT !.st = st]}

\* The handlers of POST /v1/billing/deposit and of the key routes.
ServeMutation(m) ==
    /\ m.st = "sent"
    /\ \/ Refused(m) /\ Settled(m, "refused") /\ UNCHANGED rows
       \/ /\ ~Refused(m) /\ Settled(m, "ok")
          /\ credited' = IF m.op = "declare" THEN credited \cup {m.id} ELSE credited
          /\ keys' = CASE m.op = "create" -> [keys EXCEPT ![m.id] = m.by]
                       [] m.op = "revoke" -> [keys EXCEPT ![m.id] = "revoked"]
                       [] OTHER -> keys
    /\ UNCHANGED <<sessionVars, network, cache, told, device, bounds>>

Match(m) == IF m.op = "declare" THEN Billing ELSE {ApiKeys}

Told(m) == told' = IF m.op = "revoke" /\ ApiKeys \in Shown THEN told \cup {m.id} ELSE told

\* Mutant: the list is left to the next refetch.
onSuccess_NoInvalidate(m) ==
    /\ m.st = "ok"
    /\ muts' = muts \ {m} /\ Told(m)
    /\ UNCHANGED <<sessionVars, network, cache, device, rows, bounds>>

\* The answer invalidates what the mutation touched.
onSuccess(m) ==
    /\ m.st = "ok"
    /\ muts' = muts \ {m} /\ Told(m)
    /\ cache' = Invalidated(cache, Match(m), Shown, Request(network, Session))
    /\ UNCHANGED <<sessionVars, network, device, rows, bounds>>

\* onError, of a refusal or of an answer that never came: a toast.
onError(m) ==
    /\ m.st \in {"refused", "ok"}
    /\ muts' = muts \ {m}
    /\ UNCHANGED <<sessionVars, network, cache, told, device, rows, bounds>>

-----------------------------------------------------------------------------
(***************************************************************************)
(* Sessions.                                                               *)
(***************************************************************************)
\* The requests still on their way when their session ends are refused.
CutFetches(c) ==
    [k \in QueryKeys |-> IF c[k].fetch \in Asked THEN [c[k] EXCEPT !.fetch.by = None]
                         ELSE c[k]]

CutMutations == {IF m.st = "sent" THEN [m EXCEPT !.by = None] ELSE m : m \in muts}

Enter(c, u) ==
    /\ visible /\ page = "sign-in"
    /\ page' = "overview" /\ user' = u /\ live' = TRUE
    /\ cache' = Mounted(c, Observed("overview", network),
                        Request(network, u), FALSE)
    /\ UNCHANGED <<network, device, rows, bounds>>

\* Wallet and GitHub sign-in end in a full load, which drops the tab's memory;
\* the network is in localStorage.
SignIn(u) == Enter(Empty, u) /\ muts' = {} /\ told' = {}

\* continueWithPasskey ends in router.replace: the tab's memory stays.
PasskeySignIn(u) == u \in passkeys /\ Enter(cache, u) /\ UNCHANGED <<muts, told>>

\* AddPasskeyBanner and PasskeysCard.
AddPasskey ==
    /\ visible /\ page \in {"overview", "settings"} /\ live /\ user \notin passkeys
    /\ passkeys' = passkeys \cup {user}
    /\ UNCHANGED <<visible, sessionVars, network, cache, muts, told, rows, bounds>>

DeletePasskey ==
    /\ visible /\ page = "settings" /\ live /\ user \in passkeys
    /\ passkeys' = passkeys \ {user}
    /\ UNCHANGED <<visible, sessionVars, network, cache, muts, told, rows, bounds>>

Leave == page' = "sign-in" /\ user' = None /\ live' = FALSE

\* UserMenu: signOut, then router.replace.
SignOut ==
    /\ visible /\ page # "sign-in" /\ Leave
    /\ cache' = CutFetches(cache) /\ muts' = CutMutations
    /\ UNCHANGED <<network, told, device, rows, bounds>>

\* The session expires, or another device revokes it.
Expire ==
    /\ live /\ live' = FALSE
    /\ cache' = CutFetches(cache) /\ muts' = CutMutations
    /\ UNCHANGED <<page, user, network, told, device, rows, bounds>>

\* Shell: a session found gone sends the tab to the sign-in page.
Redirect ==
    /\ page # "sign-in" /\ ~live /\ Leave
    /\ UNCHANGED <<network, cache, muts, told, device, rows, bounds>>

\* SessionsCard of this device and DangerZone: the tab is loaded anew.
RevokeSessions ==
    /\ visible /\ page = "settings" /\ live /\ Leave
    /\ cache' = Empty /\ muts' = {} /\ told' = {}
    /\ UNCHANGED <<network, device, rows, bounds>>

-----------------------------------------------------------------------------
Access ==
    \/ \E u \in Users : SignIn(u) \/ PasskeySignIn(u)
    \/ AddPasskey \/ DeletePasskey
    \/ SignOut \/ Expire \/ Redirect \/ RevokeSessions

Next ==
    \/ \E p \in Pages : Visit(p)
    \/ \E n \in Networks : switchTo(n)
    \/ Poll \/ Hide \/ \E aged \in BOOLEAN : Focus(aged)
    \/ \E k \in QueryKeys : Serve(k) \/ Reply(k) \/ Fails(k)
    \/ \E d \in Deposits : Declare(d)
    \/ \E k \in KeyIds : CreateKey(k) \/ Revoke(k)
    \/ \E m \in muts : ServeMutation(m) \/ onSuccess(m) \/ onError(m)
    \/ Access

\* The polling timer fires, a read is answered or fails, and a read that is sent
\* again and again is not lost every time.  Users owe nothing.
Fairness ==
    /\ WF_vars(Poll)
    /\ \A k \in Billing : /\ WF_vars(Serve(k) \/ Fails(k)) /\ SF_vars(Serve(k))
                          /\ WF_vars(Reply(k))

Spec == Init /\ [][Next]_vars /\ Fairness

-----------------------------------------------------------------------------
\* A list of keys that is not marked stale never shows as active a key this tab
\* has reported revoked: no answer that was read before the revocation survives
\* its report (api-keys/page.tsx, KeyTable).
RevokedStaysGone ==
    LET e == cache[ApiKeys]
    IN e.data # None /\ ~e.stale => e.data \cap told = {}

Billed(k) == page = "billing" /\ live /\ k = followed

UpToDate(k) == cache[k].data = Read(k, user, network)

\* While it is in sight, the billing page comes to show the balance of its user
\* on its network, whatever the tab held before: another network's under this
\* one's key, another user's, an answer from before the deposit
\* (billing/page.tsx).
BalanceCatchesUp ==
    LET k == Balance(network)
    IN Billed(k) /\ visible ~> (~(Billed(k) /\ visible) \/ UpToDate(k))

\* The history, which nothing polls, does so if its user keeps coming back to
\* the tab after its data has aged.
HistoryCatchesUp ==
    LET k == History(network)
    IN []<><<Focus(TRUE)>>_vars => (Billed(k) ~> (~Billed(k) \/ UpToDate(k)))

-----------------------------------------------------------------------------
(***************************************************************************)
(* Why RevokedStaysGone holds.                                             *)
(***************************************************************************)
\* The keys an entry shows, or is about to show.
Pending(e) == IF e.fetch \in [ans : Answers] THEN e.fetch.ans ELSE {}

Holds(e) == Pending(e) \cup IF e.data = None THEN {} ELSE e.data

\* Only keys that were made are listed.
ListedWereMade == \A k \in KeyIds \cap Holds(cache[ApiKeys]) : keys[k] # "none"

\* A key is made by one call; a call to revoke comes from a list the tab has,
\* and one that succeeded has revoked.
MutationsFit ==
    \A m \in muts :
        /\ m.op = "create" /\ m.st = "sent" =>
             /\ keys[m.id] = "none"
             /\ \A n \in muts : n.op # "declare" /\ n.id = m.id => n = m
        /\ m.op = "revoke" =>
             /\ cache[ApiKeys].data # None /\ keys[m.id] # "none"
             /\ m.st = "ok" => keys[m.id] = "revoked"

\* A key reported revoked is revoked, in no answer on its way, and in a list
\* the tab still has only if that is marked stale.
ToldFit ==
    \A k \in told :
        /\ keys[k] = "revoked" /\ cache[ApiKeys].data # None
        /\ k \notin Pending(cache[ApiKeys])
        /\ ~cache[ApiKeys].stale => k \notin cache[ApiKeys].data

ConsoleInv == TypeOK /\ ListedWereMade /\ MutationsFit /\ ToldFit
=============================================================================
