------------------------------- MODULE Gateway -------------------------------
(***************************************************************************)
(* A request's way through an API pod (http/elysia.ts): authMiddleware     *)
(* resolves a principal from a bearer key or a session, the rate limiter   *)
(* takes a point from its bucket, the route runs under the network         *)
(* requestNetwork picks; and the routes that issue and revoke keys         *)
(* (auth/routes.ts).  The dashboard's requests carry the network chosen in *)
(* its switcher (lib/network.ts).                                          *)
(*                                                                         *)
(* Buckets are independent, and the points of one of them are followed:    *)
(* Redis counts them, or the pod's memory while Redis does not answer.     *)
(* Each store starts a window at the first point it gives and ends it a    *)
(* duration later.  An observer counts over a span of one duration, begun  *)
(* at any moment: a window older than the span may end within it, one      *)
(* begun within it may not.                                                *)
(***************************************************************************)
EXTENDS SignIn

CONSTANTS
    KeyIds,     \* ids api_keys rows may get
    Reqs,       \* requests under way at once
    Networks,   \* testnet, mainnet
    Enabled,    \* those this backend serves
    Default,    \* defaultNetwork()
    AdminKey,   \* the id of ADMIN_API_KEY's row
    AdminNet,   \* the network in its prefix
    Points,     \* AUTHED_POINTS
    Redis,
    Watched,    \* the bucket that is followed: a key id or a user id
    MaxOutages  \* bound: outages of Redis

Stores == Pods \cup {Redis}

ASSUME GatewayAssumption ==
    /\ Enabled \subseteq Networks /\ Default \in Enabled /\ None \notin Networks
    /\ AdminKey \in KeyIds /\ AdminNet \in Networks
    /\ None \notin KeyIds /\ Points \in Nat \ {0} /\ IsFiniteSet(Pods)
    /\ MaxOutages \in Nat

VARIABLES
    keys,      \* api_keys rows
    req,       \* requests
    act,       \* what the last route did, and for whom
    redisUp,
    outages,   \* outages of Redis so far
    hits,      \* points each store has given in its current window
    old,       \* stores whose current window is older than the span
    admitted,  \* requests let through in the span
    forgot     \* windows a restart has forgotten in the span

limitVars == <<redisUp, outages, hits, old, admitted, forgot>>
gateVars == <<keys, req, act, limitVars>>
vars == <<signInVars, gateVars>>

NoKey == [user |-> None, network |-> None, st |-> "live"]
NoReq == [pc |-> "idle", pod |-> None, key |-> None, user |-> None, header |-> None]

\* Every variable stays in its type.
TypeOK ==
    /\ SignInTypeOK
    /\ keys \in [KeyIds -> [user : UserIds \cup {None}, network : Networks \cup {None},
                            st : {"live", "expired", "revoked"}]]
    /\ req \in [Reqs -> [pc : {"idle", "limit", "route"}, pod : Pods \cup {None},
                         key : KeyIds \cup {None}, user : UserIds \cup {None},
                         header : Networks \cup {None}]]
    /\ act \subseteq [key : KeyIds \cup {None}, user : UserIds, net : Networks]
    /\ redisUp \in BOOLEAN /\ outages \in Nat
    /\ hits \in [Stores -> 0 .. Points] /\ old \subseteq Stores
    /\ admitted \in Nat /\ forgot \in Nat

NoRequests ==
    /\ req = [r \in Reqs |-> NoReq] /\ act = {}
    /\ redisUp = TRUE
    /\ hits = [s \in Stores |-> 0] /\ old = {} /\ admitted = 0 /\ forgot = 0

GateInit == keys = [k \in KeyIds |-> NoKey] /\ NoRequests

Init == SignInInit /\ GateInit /\ outages = 0

\* The api_keys row that BootKey inserts.
Provision ==
    keys' = IF bootKey' = bootKey THEN keys
            ELSE [keys EXCEPT ![AdminKey] = [user |-> bootKey', network |-> AdminNet,
                                             st |-> "live"]]

-----------------------------------------------------------------------------
Admit(r, p, k, u, header) ==
    /\ req[r].pc = "idle" /\ pod[p].pc = "up"
    /\ req' = [req EXCEPT ![r] = [pc |-> "limit", pod |-> p, key |-> k, user |-> u,
                                  header |-> header]]
    /\ act' = {}
    /\ UNCHANGED <<signInVars, keys, limitVars>>

\* A bearer key that exists and is neither revoked nor expired.
resolveApiKey(r, p, k, header) ==
    /\ keys[k].user # None /\ keys[k].st = "live"
    /\ Admit(r, p, k, keys[k].user, header)

\* expires_at passes.  No route sets it.
KeyExpires(k) ==
    /\ keys[k].user # None /\ keys[k].st = "live"
    /\ keys' = [keys EXCEPT ![k].st = "expired"]
    /\ UNCHANGED <<signInVars, req, act, limitVars>>

\* No bearer: the cookie of a signed-in tab, however it signed in, under the
\* network its switcher shows when the request is made, or without the header.
resolveSession(r, p, b, header) ==
    /\ tab[b].pc = "in"
    /\ Admit(r, p, None, tab[b].user, header)

-----------------------------------------------------------------------------
BucketOf(r) == IF req[r].key # None THEN req[r].key ELSE req[r].user

Answer(r) == req' = [req EXCEPT ![r] = NoReq]

\* Redis, or the pod's own memory when Redis is down.
StoreOf(r) == IF redisUp THEN Redis ELSE req[r].pod

\* Mutant: without an insurance limiter a failing store lets everyone in.
Consume_FailsOpen(r) ==
    LET s == StoreOf(r) IN
    /\ req[r].pc = "limit"
    /\ \/ BucketOf(r) # Watched /\ UNCHANGED <<hits, admitted>>
       \/ /\ BucketOf(r) = Watched /\ (hits[s] < Points \/ ~redisUp)
          /\ hits' = IF redisUp THEN [hits EXCEPT ![s] = @ + 1] ELSE hits
          /\ admitted' = admitted + 1
    /\ req' = [req EXCEPT ![r].pc = "route"]
    /\ UNCHANGED <<signInVars, keys, act, redisUp, outages, old, forgot>>

\* limiter.consume: a point of the store's current window, or the first of a new
\* one.
Consume(r) ==
    LET s == StoreOf(r) IN
    /\ req[r].pc = "limit"
    /\ \/ BucketOf(r) # Watched /\ UNCHANGED <<hits, admitted>>
       \/ /\ BucketOf(r) = Watched /\ hits[s] < Points
          /\ hits' = [hits EXCEPT ![s] = @ + 1]
          /\ admitted' = admitted + 1
    /\ req' = [req EXCEPT ![r].pc = "route"]
    /\ UNCHANGED <<signInVars, keys, act, redisUp, outages, old, forgot>>

TooMany(r) ==
    /\ req[r].pc = "limit"
    /\ BucketOf(r) = Watched => hits[StoreOf(r)] = Points
    /\ Answer(r)
    /\ UNCHANGED <<signInVars, keys, act, limitVars>>

\* The window of a store ends by itself, whether or not Redis answers.
WindowEnds(s) ==
    /\ s \in old /\ hits[s] > 0
    /\ hits' = [hits EXCEPT ![s] = 0] /\ old' = old \ {s}
    /\ UNCHANGED <<signInVars, keys, req, act, redisUp, outages, admitted, forgot>>

\* A store loses its window to a restart.
Forget(s) ==
    /\ hits' = [hits EXCEPT ![s] = 0] /\ old' = old \ {s}
    /\ forgot' = IF hits[s] = 0 THEN forgot ELSE forgot + 1

RedisGoes ==
    /\ redisUp /\ outages < MaxOutages
    /\ redisUp' = FALSE /\ outages' = outages + 1
    /\ UNCHANGED <<signInVars, keys, req, act, hits, old, admitted, forgot>>

\* With its counters or, restarted, without.
RedisReturns ==
    /\ ~redisUp /\ redisUp' = TRUE
    /\ Forget(Redis) \/ UNCHANGED <<hits, old, forgot>>
    /\ UNCHANGED <<signInVars, keys, req, act, outages, admitted>>

\* The observer starts to count.
NewSpan ==
    /\ admitted' = 0 /\ forgot' = 0
    /\ old' = {s \in Stores : hits[s] > 0}
    /\ UNCHANGED <<signInVars, keys, req, act, redisUp, outages, hits>>

-----------------------------------------------------------------------------
\* Mutant: the header, when there is one, decides.
requestNetwork_Header(r) ==
    IF req[r].header # None THEN {req[r].header} \cap Enabled
    ELSE IF req[r].key # None THEN {keys[req[r].key].network} \cap Enabled
    ELSE {Default}

\* The network the route may act on; empty where requestNetwork throws.
requestNetwork(r) ==
    LET q == req[r]
        net == IF q.key # None THEN keys[q.key].network
               ELSE IF q.header # None THEN q.header ELSE Default
    IN  IF q.header \in {None, net} THEN {net} \cap Enabled ELSE {}

\* Any of the routes that work for a user on a network.
Route(r) ==
    /\ req[r].pc = "route"
    /\ act' = {[key |-> req[r].key, user |-> req[r].user, net |-> n] :
                   n \in requestNetwork(r)}
    /\ Answer(r)
    /\ UNCHANGED <<signInVars, keys, limitVars>>

IssueKey(r, k, n) ==
    /\ req[r].pc = "route" /\ keys[k] = NoKey /\ k # AdminKey
    /\ keys' = [keys EXCEPT ![k] = [user |-> req[r].user, network |-> n,
                                    st |-> "live"]]
    /\ Answer(r)
    /\ UNCHANGED <<signInVars, act, limitVars>>

\* Only a key of the same user, once.
RevokeKey(r, k) ==
    /\ req[r].pc = "route" /\ keys[k].user = req[r].user /\ keys[k].st # "revoked"
    /\ keys' = [keys EXCEPT ![k].st = "revoked"]
    /\ Answer(r)
    /\ UNCHANGED <<signInVars, act, limitVars>>

-----------------------------------------------------------------------------
Requests ==
    \E r \in Reqs :
        \/ Consume(r) \/ TooMany(r) \/ Route(r)
        \/ \E k \in KeyIds, n \in Networks : IssueKey(r, k, n)
        \/ \E k \in KeyIds : RevokeKey(r, k)
        \/ \E p \in Pods, b \in Browsers, h \in Networks \cup {None} :
              resolveSession(r, p, b, h)
        \/ \E p \in Pods, k \in KeyIds, h \in Networks \cup {None} :
              resolveApiKey(r, p, k, h)

\* A pod dies with its requests and its limiter's memory.
PodDies(p) ==
    /\ PodCrash(p)
    /\ req' = [r \in Reqs |-> IF req[r].pod = p THEN NoReq ELSE req[r]]
    /\ Forget(p)
    /\ UNCHANGED <<keys, act, redisUp, outages, admitted>>

Next ==
    \/ SignInNext /\ Provision /\ UNCHANGED <<req, act, limitVars>>
    \/ Requests \/ RedisGoes \/ RedisReturns \/ NewSpan
    \/ \E k \in KeyIds : KeyExpires(k)
    \/ \E s \in Stores : WindowEnds(s)
    \/ \E p \in Pods : PodDies(p)

\* A pod that stopped is started again and boots.
Fairness == \A p \in Pods : WF_vars(Boot(p) /\ Provision /\ UNCHANGED <<req, act, limitVars>>)

Spec == Init /\ [][Next]_vars /\ Fairness

-----------------------------------------------------------------------------
\* Users who have signed in, by wallet, GitHub or passkey, and the admin.
Members == ({s.user : s \in sessions} \cup {bootKey}) \ {None}

\* Routes act only for those users, with a key too, since somebody admitted has
\* issued it; with a key only for its user and on its network, whatever header
\* came with it; and only on networks this backend serves (authMiddleware,
\* requestNetwork).
ActsAreAuthorised ==
    \A w \in act :
        /\ w.net \in Enabled /\ w.user \in Members
        /\ w.key # None => keys[w.key].user = w.user /\ keys[w.key].network = w.net

\* Over a span of one duration, begun at any moment, a bucket gets two budgets
\* of every store, one of the window that ends in it and one of the next, and
\* one more for every restart that forgets a window, however often Redis comes
\* and goes (buildLimiters).
BudgetHolds == admitted <= Points * (2 * Cardinality(Stores) + forgot)

\* A request past authentication is of the user of its key; users of requests
\* and of keys are members; the admin's row comes with its key.
RequestsMatch ==
    \A r \in Reqs :
        LET q == req[r]
        IN q.pc # "idle" =>
             /\ q.pod \in Pods /\ q.user \in UserIds
             /\ q.key # None => keys[q.key].user = q.user
             /\ q.user \in Members

AdminRow == bootKey = None => keys[AdminKey].user = None

KeysMatch ==
    AdminRow /\ \A k \in KeyIds : keys[k].user # None => keys[k].user \in Members

\* The points a store may have given in the span: those of its window, and those
\* of the one before when that may have ended within the span.
Given ==
    {g \in Stores \X (1 .. 2 * Points) :
        g[2] <= hits[g[1]] + (IF g[1] \in old THEN 0 ELSE Points)}

\* Every request let through took one of those points, or one forgotten.
PointsAccounted == admitted <= Points * forgot + Cardinality(Given)

GatewayInv ==
    /\ TypeOK /\ SessionsAgree /\ BindingsMatch
    /\ RequestsMatch /\ KeysMatch /\ ActsAreAuthorised /\ PointsAccounted
=============================================================================
