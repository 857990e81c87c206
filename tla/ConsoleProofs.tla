---------------------------- MODULE ConsoleProofs ----------------------------
(***************************************************************************)
(* A list of keys that is not marked stale shows no key this tab reported  *)
(* revoked, for any number of users, keys and calls.  The tab's cache is   *)
(* changed in three ways: a fetch is started, dropped or marked (Keeps),   *)
(* the backend answers one, or an answer is stored; only the last two can  *)
(* bring a key back.                                                       *)
(***************************************************************************)
EXTENDS Console, TLAPS

\* The entry g shows and expects no more than e, and is stale if e was.
Keeps(e, g) ==
    /\ g \in Entries /\ g.data = e.data
    /\ e.data # None /\ e.stale => g.stale
    /\ g.fetch = e.fetch \/ g.fetch \in {None} \cup Asked

CacheKeeps(c, d) == d \in [QueryKeys -> Entries] /\ \A k \in QueryKeys : Keeps(c[k], d[k])

LEMMA KeyFacts ==
  /\ ApiKeys \in QueryKeys
  /\ \A n \in Networks : Balance(n) \in QueryKeys
  BY DEF QueryKeys, Billing

\* A request is not an answer.
LEMMA AskedFacts ==
  /\ \A f \in {None} \cup Asked : f \notin [ans : Answers]
  /\ None \notin [ans : Answers]
  <1>1. \A f \in Asked : f \notin [ans : Answers]
    <2>1. ASSUME NEW f \in Asked, f \in [ans : Answers]
          PROVE  FALSE
      <3>1. DOMAIN f = {"net", "by"} /\ DOMAIN f = {"ans"}
        BY <2>1 DEF Asked
      <3>. QED BY <3>1
    <2>. QED BY <2>1
  <1>. QED BY <1>1, ConsoleAssumption

LEMMA KeepsSame ==
  ASSUME NEW e \in Entries
  PROVE  Keeps(e, e)
  BY DEF Keeps

LEMMA KeepsTwice ==
  ASSUME NEW e, NEW g, NEW h, Keeps(e, g), Keeps(g, h)
  PROVE  Keeps(e, h)
  BY DEF Keeps

\* What an entry holds never grows in a step that keeps it.
LEMMA KeepsHolds ==
  ASSUME NEW e, NEW g, Keeps(e, g)
  PROVE  Pending(g) \subseteq Pending(e) /\ Holds(g) \subseteq Holds(e)
  <1>1. Pending(g) \subseteq Pending(e)
    BY AskedFacts DEF Keeps, Pending
  <1>. QED BY <1>1 DEF Keeps, Holds

LEMMA AskKeeps ==
  ASSUME NEW e \in Entries, NEW f \in {None} \cup Asked
  PROVE  Keeps(e, [e EXCEPT !.fetch = f])
  BY DEF Keeps, Entries, Fetches

LEMMA ObserveKeeps ==
  ASSUME NEW e \in Entries, NEW f \in Asked, NEW aged \in BOOLEAN
  PROVE  Keeps(e, Observe(e, f, aged))
  BY KeepsSame, AskKeeps DEF Observe

LEMMA RefetchKeeps ==
  ASSUME NEW e \in Entries, NEW f \in Asked
  PROVE  Keeps(e, Refetch(e, f))
  BY KeepsSame, AskKeeps DEF Refetch

LEMMA MountedKeeps ==
  ASSUME NEW c \in [QueryKeys -> Entries], NEW f \in Asked, NEW obs, NEW aged \in BOOLEAN
  PROVE  CacheKeeps(c, Mounted(c, obs, f, aged))
  <1>1. ASSUME NEW k \in QueryKeys
        PROVE  Keeps(c[k], Mounted(c, obs, f, aged)[k])
    <2>1. Mounted(c, obs, f, aged)[k] \in {c[k], Observe(c[k], f, aged)}
      BY DEF Mounted
    <2>2. c[k] \in Entries
      OBVIOUS
    <2>. QED BY <2>1, <2>2, KeepsSame, ObserveKeeps
  <1>2. \A k \in QueryKeys : Mounted(c, obs, f, aged)[k] \in Entries
    BY <1>1 DEF Keeps
  <1>3. Mounted(c, obs, f, aged) = [k \in QueryKeys |-> Mounted(c, obs, f, aged)[k]]
    BY DEF Mounted
  <1>. QED BY <1>1, <1>2, <1>3 DEF CacheKeeps

LEMMA StaleKeeps ==
  ASSUME NEW e \in Entries
  PROVE  Keeps(e, [e EXCEPT !.stale = e.data # None])
  BY DEF Keeps, Entries

LEMMA InvalidatedKeeps ==
  ASSUME NEW c \in [QueryKeys -> Entries], NEW f \in Asked, NEW match, NEW obs
  PROVE  CacheKeeps(c, Invalidated(c, match, obs, f))
  <1>. DEFINE I == Invalidated(c, match, obs, f)
  <1>1. ASSUME NEW k \in QueryKeys
        PROVE  Keeps(c[k], I[k])
    <2>. DEFINE g == [c[k] EXCEPT !.stale = c[k].data # None]
    <2>1. I[k] \in {c[k], g, Refetch(g, f)}
      BY DEF Invalidated
    <2>2. Keeps(c[k], g)
      BY StaleKeeps
    <2>3. g \in Entries /\ c[k] \in Entries
      BY <2>2 DEF Keeps
    <2>. HIDE DEF g, I
    <2>4. Keeps(g, Refetch(g, f)) /\ Keeps(c[k], c[k])
      BY <2>3, RefetchKeeps, KeepsSame
    <2>5. Keeps(c[k], Refetch(g, f))
      BY <2>2, <2>4, KeepsTwice
    <2>. QED BY <2>1, <2>2, <2>4, <2>5
  <1>2. I = [k \in QueryKeys |-> I[k]]
    BY DEF Invalidated
  <1>. HIDE DEF I
  <1>3. \A k \in QueryKeys : I[k] \in Entries
    BY <1>1 DEF Keeps
  <1>4. CacheKeeps(c, I)
    BY <1>1, <1>2, <1>3 DEF CacheKeeps
  <1>. QED BY <1>4 DEF I

LEMMA CacheKeepsTwice ==
  ASSUME NEW a, NEW b, NEW c, CacheKeeps(a, b), CacheKeeps(b, c)
  PROVE  CacheKeeps(a, c)
  BY KeepsTwice DEF CacheKeeps

LEMMA CutKeeps ==
  ASSUME NEW c \in [QueryKeys -> Entries]
  PROVE  CacheKeeps(c, CutFetches(c))
  <1>1. ASSUME NEW k \in QueryKeys
        PROVE  Keeps(c[k], CutFetches(c)[k])
    <2>1. c[k] \in Entries
      OBVIOUS
    <2>2. CASE c[k].fetch \in Asked
      <3>. DEFINE f == [c[k].fetch EXCEPT !.by = None]
      <3>1. f \in Asked
        BY <2>2 DEF Asked
      <3>2. CutFetches(c)[k] = [c[k] EXCEPT !.fetch = f]
        BY <2>1, <2>2 DEF CutFetches, Entries
      <3>. HIDE DEF f
      <3>. QED BY <2>1, <3>1, <3>2, AskKeeps
    <2>3. CASE c[k].fetch \notin Asked
      BY <2>1, <2>3, KeepsSame DEF CutFetches
    <2>. QED BY <2>2, <2>3
  <1>2. CutFetches(c) = [k \in QueryKeys |-> CutFetches(c)[k]]
    BY DEF CutFetches
  <1>3. \A k \in QueryKeys : CutFetches(c)[k] \in Entries
    BY <1>1 DEF Keeps
  <1>. QED BY <1>1, <1>2, <1>3 DEF CacheKeeps

LEMMA OneKeeps ==
  ASSUME NEW c \in [QueryKeys -> Entries], NEW k \in QueryKeys, NEW f \in {None} \cup Asked
  PROVE  CacheKeeps(c, [c EXCEPT ![k].fetch = f])
  <1>. DEFINE d == [c EXCEPT ![k].fetch = f]
  <1>1. \A q \in QueryKeys : c[q] \in Entries /\ Keeps(c[q], c[q])
    BY KeepsSame
  <1>2. d[k] = [c[k] EXCEPT !.fetch = f] /\ \A q \in QueryKeys \ {k} : d[q] = c[q]
    OBVIOUS
  <1>3. Keeps(c[k], d[k])
    BY <1>1, <1>2, AskKeeps
  <1>4. d = [q \in QueryKeys |-> d[q]]
    OBVIOUS
  <1>. HIDE DEF d
  <1>5. \A q \in QueryKeys : Keeps(c[q], d[q])
    BY <1>1, <1>2, <1>3
  <1>6. \A q \in QueryKeys : d[q] \in Entries
    BY <1>5 DEF Keeps
  <1>7. CacheKeeps(c, d)
    BY <1>4, <1>5, <1>6 DEF CacheKeeps
  <1>. QED BY <1>7 DEF d

LEMMA SameKeeps ==
  ASSUME NEW c \in [QueryKeys -> Entries]
  PROVE  CacheKeeps(c, c)
  BY KeepsSame DEF CacheKeeps

LEMMA SessionAsks ==
  ASSUME TypeOK
  PROVE  /\ \A n \in Networks : Request(n, Session) \in Asked
         /\ \A n \in Networks, u \in Users : Request(n, u) \in Asked
  BY DEF TypeOK, Request, Session, Asked

-----------------------------------------------------------------------------
(***************************************************************************)
(* The parts of the invariant under a step.                                *)
(***************************************************************************)
\* A key made stays made, a key revoked stays revoked.
KeysLast ==
    \A k \in KeyIds : /\ keys[k] # "none" => keys'[k] # "none"
                      /\ keys[k] = "revoked" => keys'[k] = "revoked"

LEMMA SameKeysLast ==
  ASSUME UNCHANGED keys
  PROVE  KeysLast
  BY DEF KeysLast

LEMMA EntryKept ==
  ASSUME CacheKeeps(cache, cache')
  PROVE  Keeps(cache[ApiKeys], cache'[ApiKeys])
  BY KeyFacts DEF CacheKeeps

LEMMA ListedKept ==
  ASSUME ListedWereMade, CacheKeeps(cache, cache'), KeysLast
  PROVE  ListedWereMade'
  <1>1. Holds(cache'[ApiKeys]) \subseteq Holds(cache[ApiKeys])
    BY EntryKept, KeepsHolds
  <1>2. ASSUME NEW k \in KeyIds, k \in Holds(cache'[ApiKeys])
        PROVE  keys'[k] # "none"
    BY <1>1, <1>2 DEF ListedWereMade, KeysLast
  <1>. QED BY <1>2 DEF ListedWereMade

LEMMA ToldKept ==
  ASSUME TypeOK, ToldFit, CacheKeeps(cache, cache'), KeysLast, UNCHANGED told
  PROVE  ToldFit'
  <1>1. /\ Keeps(cache[ApiKeys], cache'[ApiKeys])
        /\ Pending(cache'[ApiKeys]) \subseteq Pending(cache[ApiKeys])
    BY EntryKept, KeepsHolds
  <1>2. cache[ApiKeys].data = cache'[ApiKeys].data
    BY <1>1 DEF Keeps
  <1>3. cache[ApiKeys].data # None /\ cache[ApiKeys].stale => cache'[ApiKeys].stale
    BY <1>1 DEF Keeps
  <1>4. told \subseteq KeyIds
    BY DEF TypeOK
  <1>. HIDE DEF TypeOK
  <1>5. ASSUME NEW k \in told
        PROVE  /\ keys'[k] = "revoked" /\ cache'[ApiKeys].data # None
               /\ k \notin Pending(cache'[ApiKeys])
               /\ ~cache'[ApiKeys].stale => k \notin cache'[ApiKeys].data
    BY <1>1, <1>2, <1>3, <1>4, <1>5 DEF ToldFit, KeysLast
  <1>. QED BY <1>5 DEF ToldFit

\* What MutationsFit says of one mutation.
MutationFits(m, ms, ks, listed) ==
    /\ m.op = "create" /\ m.st = "sent" =>
         /\ ks[m.id] = "none"
         /\ \A n \in ms : n.op # "declare" /\ n.id = m.id => n = m
    /\ m.op = "revoke" => /\ listed /\ ks[m.id] # "none"
                          /\ m.st = "ok" => ks[m.id] = "revoked"

LEMMA MutationsAreLocal ==
  /\ MutationsFit <=> \A m \in muts : MutationFits(m, muts, keys, cache[ApiKeys].data # None)
  /\ MutationsFit' <=> \A m \in muts' : MutationFits(m, muts', keys', cache'[ApiKeys].data # None)
  BY Zenon DEF MutationsFit, MutationFits

\* Fewer mutations under way, the same rows.
LEMMA MutationsKept ==
  ASSUME MutationsFit, muts' \subseteq muts, UNCHANGED keys, CacheKeeps(cache, cache')
  PROVE  MutationsFit'
  <1>1. cache[ApiKeys].data = cache'[ApiKeys].data
    BY EntryKept DEF Keeps
  <1>2. ASSUME NEW m \in muts'
        PROVE  MutationFits(m, muts', keys', cache'[ApiKeys].data # None)
    <2>1. MutationFits(m, muts, keys, cache[ApiKeys].data # None)
      BY <1>2, MutationsAreLocal
    <2>. QED BY <1>1, <2>1 DEF MutationFits
  <1>. QED BY <1>2, MutationsAreLocal

\* A step that leaves the rows, the mutations and the reports alone.
LEMMA QuietKeeps ==
  ASSUME ConsoleInv, TypeOK', CacheKeeps(cache, cache'), UNCHANGED <<keys, muts, told>>
  PROVE  ConsoleInv'
  <1>1. ListedWereMade' /\ ToldFit' /\ MutationsFit'
    BY ListedKept, ToldKept, MutationsKept, SameKeysLast DEF ConsoleInv
  <1>. QED BY <1>1 DEF ConsoleInv

\* A step that empties the tab's memory.
LEMMA EmptyKeeps ==
  ASSUME TypeOK', cache'[ApiKeys].data = None, cache'[ApiKeys].fetch \in {None} \cup Asked,
         muts' = {}, told' = {}
  PROVE  ConsoleInv'
  <1>1. Holds(cache'[ApiKeys]) = {}
    BY AskedFacts DEF Holds, Pending
  <1>2. ListedWereMade' /\ ToldFit' /\ MutationsFit'
    BY <1>1 DEF ListedWereMade, ToldFit, MutationsFit
  <1>. QED BY <1>2 DEF ConsoleInv

-----------------------------------------------------------------------------
(***************************************************************************)
(* The steps of the cache.                                                 *)
(***************************************************************************)
LEMMA VisitKeeps ==
  ASSUME ConsoleInv, NEW p \in Pages, Visit(p)
  PROVE  ConsoleInv'
  <1>1. TypeOK /\ network \in Networks /\ cache \in [QueryKeys -> Entries]
    BY DEF ConsoleInv, TypeOK
  <1>2. CacheKeeps(cache, cache')
    BY <1>1, SessionAsks, MountedKeeps DEF Visit
  <1>3. TypeOK'
    BY <1>1, <1>2 DEF Visit, TypeOK, CacheKeeps, rows, bounds, device
  <1>. QED BY <1>2, <1>3, QuietKeeps DEF Visit, rows

LEMMA SwitchKeeps ==
  ASSUME ConsoleInv, NEW n \in Networks, switchTo(n)
  PROVE  ConsoleInv'
  <1>1. TypeOK /\ cache \in [QueryKeys -> Entries]
    BY DEF ConsoleInv, TypeOK
  <1>2. CacheKeeps(cache, cache')
    <2>. DEFINE f == Request(n, Session)
                c == Invalidated(cache, QueryKeys, Shown, f)
                d == Mounted(c, Observed(page, n), f, FALSE)
    <2>1. f \in Asked
      BY <1>1, SessionAsks
    <2>2. CacheKeeps(cache, c)
      BY <1>1, <2>1, InvalidatedKeeps
    <2>3. c \in [QueryKeys -> Entries]
      BY <2>2 DEF CacheKeeps
    <2>4. cache' = d
      BY DEF switchTo
    <2>. HIDE DEF c, f
    <2>5. CacheKeeps(c, d)
      BY <2>1, <2>3, MountedKeeps
    <2>. HIDE DEF d
    <2>. QED BY <2>2, <2>4, <2>5, CacheKeepsTwice
  <1>3. TypeOK'
    BY <1>1, <1>2 DEF switchTo, TypeOK, CacheKeeps, rows, bounds, device, sessionVars
  <1>. QED BY <1>2, <1>3, QuietKeeps DEF switchTo, rows

LEMMA FetchKeeps ==
  ASSUME ConsoleInv,
         \/ Poll \/ Hide \/ \E aged \in BOOLEAN : Focus(aged)
         \/ \E k \in QueryKeys : Fails(k)
  PROVE  ConsoleInv'
  <1>1. TypeOK /\ network \in Networks /\ cache \in [QueryKeys -> Entries]
    BY DEF ConsoleInv, TypeOK
  <1>2. Request(network, Session) \in Asked
    BY <1>1, SessionAsks
  <1>3. CacheKeeps(cache, cache')
    <2>1. CASE Poll
      BY <1>1, <1>2, <2>1, OneKeeps, KeyFacts DEF Poll
    <2>2. CASE \E aged \in BOOLEAN : Focus(aged)
      BY <1>1, <1>2, <2>2, MountedKeeps DEF Focus
    <2>4. CASE Hide
      BY <1>1, <2>4, SameKeeps DEF Hide
    <2>3. ASSUME NEW k \in QueryKeys, Fails(k)
          PROVE  CacheKeeps(cache, cache')
      <3>1. PICK next \in {None} \cup IF visible THEN {Request(network, Session)} ELSE {} :
              cache' = [cache EXCEPT ![k].fetch = next]
        BY <2>3 DEF Fails
      <3>2. next \in {None} \cup Asked
        BY <1>2
      <3>. QED BY <1>1, <2>3, <3>1, <3>2, OneKeeps
    <2>. QED BY <2>1, <2>2, <2>3, <2>4
  <1>4. /\ UNCHANGED <<sessionVars, network, muts, told, passkeys, rows, bounds>>
        /\ visible' \in BOOLEAN
    <2>1. UNCHANGED <<sessionVars, network, muts, told, passkeys, rows, bounds>>
      BY DEF Poll, Hide, Focus, Fails, device
    <2>2. visible' = TRUE \/ visible' = FALSE \/ visible' = visible
      BY Zenon DEF Poll, Hide, Focus, Fails, device
    <2>3. visible \in BOOLEAN
      BY <1>1 DEF TypeOK
    <2>4. visible' \in BOOLEAN
      BY <2>2, <2>3, Zenon
    <2>. QED BY <2>1, <2>4
  <1>5. TypeOK'
    BY <1>1, <1>3, <1>4 DEF TypeOK, CacheKeeps, rows, bounds, sessionVars
  <1>. QED BY <1>3, <1>4, <1>5, QuietKeeps DEF rows

\* An answer of the backend lists keys that are active.
LEMMA ServeKeeps ==
  ASSUME ConsoleInv, NEW k \in QueryKeys, Serve(k)
  PROVE  ConsoleInv'
  <1>. DEFINE f == cache[k].fetch
              a == Read(k, f.by, f.net)
              g == [ans |-> a]
  <1>1. TypeOK /\ cache \in [QueryKeys -> Entries] /\ f \in Asked /\ f.by # None
    BY DEF ConsoleInv, TypeOK, Serve
  <1>2. /\ cache' = [cache EXCEPT ![k].fetch = g]
        /\ UNCHANGED <<sessionVars, network, muts, told, device, rows, bounds>>
    BY DEF Serve
  <1>3. a \in Answers
    BY <1>1 DEF Read, Answers, TypeOK
  <1>4. f.by \in Users
    BY <1>1 DEF Asked
  <1>5. k = ApiKeys => \A i \in a : i \in KeyIds /\ keys[i] \in Users
    BY <1>4 DEF Read
  <1>6. \A u \in Users : u # "none" /\ u # "revoked"
    BY ConsoleAssumption
  <1>. HIDE DEF a, f
  <1>7. cache' \in [QueryKeys -> Entries] /\ g \in [ans : Answers] /\ g.ans = a
    <2>1. g \in [ans : Answers] /\ g.ans = a
      BY <1>3
    <2>. HIDE DEF g
    <2>2. g \in Fetches
      BY <2>1 DEF Fetches
    <2>. QED BY <1>1, <1>2, <2>1, <2>2 DEF Entries
  <1>. HIDE DEF g
  <1>8. TypeOK'
    BY <1>1, <1>2, <1>7 DEF TypeOK, rows, bounds, device, sessionVars
  <1>9. CASE k # ApiKeys
    <2>1. cache'[ApiKeys] = cache[ApiKeys]
      BY <1>1, <1>2, <1>9, KeyFacts
    <2>. QED BY <1>2, <1>8, <2>1 DEF ConsoleInv, ListedWereMade, ToldFit, MutationsFit, rows
  <1>10. CASE k = ApiKeys
    <2>1. /\ cache'[ApiKeys].data = cache[ApiKeys].data
          /\ cache'[ApiKeys].stale = cache[ApiKeys].stale
          /\ cache'[ApiKeys].fetch = g
      BY <1>1, <1>2, <1>10, KeyFacts DEF Entries
    <2>2. Pending(cache'[ApiKeys]) = a
      BY <1>7, <2>1 DEF Pending
    <2>3. UNCHANGED <<keys, muts, told>>
      BY <1>2 DEF rows
    <2>4. Holds(cache'[ApiKeys]) \subseteq a \cup Holds(cache[ApiKeys])
      BY <2>1, <2>2 DEF Holds
    <2>5. \A i \in a : keys[i] # "none" /\ keys[i] # "revoked"
      BY <1>5, <1>6, <1>10
    <2>6. ListedWereMade'
      BY <2>3, <2>4, <2>5 DEF ConsoleInv, ListedWereMade
    <2>7. MutationsFit'
      BY <2>1, <2>3 DEF ConsoleInv, MutationsFit
    <2>8. ToldFit'
      BY <2>1, <2>2, <2>3, <2>5 DEF ConsoleInv, ToldFit
    <2>. QED BY <1>8, <2>6, <2>7, <2>8 DEF ConsoleInv
  <1>. QED BY <1>9, <1>10

\* What was on its way is what is shown.
LEMMA ReplyKeeps ==
  ASSUME ConsoleInv, NEW k \in QueryKeys, Reply(k)
  PROVE  ConsoleInv'
  <1>. DEFINE f == cache[k].fetch
              g == [data |-> f.ans, stale |-> FALSE, fetch |-> None]
  <1>1. TypeOK /\ cache \in [QueryKeys -> Entries] /\ f \in [ans : Answers]
    BY DEF ConsoleInv, TypeOK, Reply
  <1>2. /\ cache' = [cache EXCEPT ![k] = g]
        /\ UNCHANGED <<sessionVars, network, muts, told, device, rows, bounds>>
    BY DEF Reply
  <1>3. f.ans \in Answers /\ f.ans # None
    BY <1>1, ConsoleAssumption
  <1>4. g \in Entries /\ g.data = f.ans /\ g.fetch = None
    BY <1>3 DEF Entries, Fetches
  <1>. HIDE DEF g
  <1>5. TypeOK'
    BY <1>1, <1>2, <1>4 DEF TypeOK, rows, bounds, device, sessionVars
  <1>6. CASE k # ApiKeys
    <2>1. cache'[ApiKeys] = cache[ApiKeys]
      BY <1>1, <1>2, <1>6, KeyFacts
    <2>. QED BY <1>2, <1>5, <2>1 DEF ConsoleInv, ListedWereMade, ToldFit, MutationsFit, rows
  <1>7. CASE k = ApiKeys
    <2>1. cache'[ApiKeys] = g
      BY <1>1, <1>2, <1>7, KeyFacts
    <2>2. Pending(cache[ApiKeys]) = f.ans /\ Pending(g) = {}
      BY <1>1, <1>4, <1>7, AskedFacts DEF Pending
    <2>3. Holds(g) = f.ans /\ f.ans \subseteq Holds(cache[ApiKeys])
      BY <1>3, <1>4, <2>2 DEF Holds
    <2>4. UNCHANGED <<keys, muts, told>>
      BY <1>2 DEF rows
    <2>. HIDE DEF f
    <2>5. ListedWereMade'
      BY <2>1, <2>3, <2>4 DEF ConsoleInv, ListedWereMade
    <2>6. MutationsFit'
      BY <1>3, <1>4, <2>1, <2>4 DEF ConsoleInv, MutationsFit
    <2>7. ToldFit'
      BY <1>3, <1>4, <2>1, <2>2, <2>4 DEF ConsoleInv, ToldFit
    <2>. QED BY <1>5, <2>5, <2>6, <2>7 DEF ConsoleInv
  <1>. QED BY <1>6, <1>7

-----------------------------------------------------------------------------
(***************************************************************************)
(* Mutations.                                                              *)
(***************************************************************************)
LEMMA MutationTypes ==
  ASSUME NEW m \in Mutations
  PROVE  /\ m.op \in {"declare", "create", "revoke"}
         /\ m.op = "declare" => m.id \in Deposits
         /\ m.op # "declare" => m.id \in KeyIds
         /\ m.by \in Users \cup {None} /\ m.st \in {"sent", "ok", "refused"}
         /\ LET n == [m EXCEPT !.by = None]
            IN n \in Mutations /\ n.op = m.op /\ n.id = m.id /\ n.st = m.st
  <1>. DEFINE status == {"sent", "ok", "refused"}
              D == [op : {"declare"}, id : Deposits, net : Networks, by : Users \cup {None},
                    st : status]
              K == [op : {"create", "revoke"}, id : KeyIds, by : Users \cup {None}, st : status]
  <1>1. Mutations = D \cup K
    BY DEF Mutations
  <1>2. CASE m \in D
    BY <1>1, <1>2
  <1>3. CASE m \in K
    BY <1>1, <1>3
  <1>. QED BY <1>1, <1>2, <1>3

LEMMA SettledTypes ==
  ASSUME NEW m \in Mutations, NEW st \in {"sent", "ok", "refused"}
  PROVE  LET n == [m EXCEPT !.st = st]
         IN n \in Mutations /\ n.op = m.op /\ n.id = m.id /\ n.st = st
  <1>. DEFINE status == {"sent", "ok", "refused"}
              D == [op : {"declare"}, id : Deposits, net : Networks, by : Users \cup {None},
                    st : status]
              K == [op : {"create", "revoke"}, id : KeyIds, by : Users \cup {None}, st : status]
  <1>1. Mutations = D \cup K
    BY DEF Mutations
  <1>2. CASE m \in D
    BY <1>1, <1>2
  <1>3. CASE m \in K
    BY <1>1, <1>3
  <1>. QED BY <1>1, <1>2, <1>3

\* A new mutation m that fits, and none is about its key if it makes one.
LEMMA MutationAdded ==
  ASSUME ConsoleInv, NEW m \in Mutations, muts' = muts \cup {m},
         MutationFits(m, muts', keys, cache[ApiKeys].data # None),
         \A n \in muts : n.op = "create" /\ n.st = "sent" /\ m.op # "declare" => n.id # m.id,
         UNCHANGED <<sessionVars, network, cache, told, device, rows, followed>>,
         sent' \in 0 .. MaxMutations
  PROVE  ConsoleInv'
  <1>1. TypeOK'
    BY DEF ConsoleInv, TypeOK, rows, device, sessionVars
  <1>2. UNCHANGED <<cache, keys, told>>
    BY DEF rows
  <1>3. ListedWereMade' /\ ToldFit'
    BY <1>2 DEF ConsoleInv, ListedWereMade, ToldFit
  <1>4. ASSUME NEW n \in muts'
        PROVE  MutationFits(n, muts', keys', cache'[ApiKeys].data # None)
    <2>1. CASE n = m
      BY <1>2, <2>1
    <2>2. CASE n \in muts
      <3>1. MutationFits(n, muts, keys, cache[ApiKeys].data # None)
        BY <2>2, MutationsAreLocal DEF ConsoleInv
      <3>. QED BY <1>2, <2>2, <3>1 DEF MutationFits
    <2>. QED BY <1>4, <2>1, <2>2
  <1>. QED BY <1>1, <1>3, <1>4, MutationsAreLocal DEF ConsoleInv

LEMMA DeclareKeeps ==
  ASSUME ConsoleInv, NEW d \in Deposits, Declare(d)
  PROVE  ConsoleInv'
  <1>. DEFINE m == [op |-> "declare", id |-> d, net |-> network, by |-> Session, st |-> "sent"]
  <1>1. Session \in Users \cup {None} /\ network \in Networks /\ sent \in 0 .. MaxMutations
    BY DEF ConsoleInv, TypeOK, Session
  <1>2. m \in Mutations /\ m.op = "declare"
    BY <1>1 DEF Mutations
  <1>3. /\ muts' = muts \cup {m}
        /\ UNCHANGED <<sessionVars, network, cache, told, device, rows, followed>>
    BY DEF Declare, Mutate
  <1>4. sent' \in 0 .. MaxMutations
    BY <1>1, ConsoleAssumption DEF Declare
  <1>. HIDE DEF m
  <1>5. MutationFits(m, muts', keys, cache[ApiKeys].data # None)
    BY <1>2 DEF MutationFits
  <1>. QED BY <1>2, <1>3, <1>4, <1>5, MutationAdded

LEMMA CreateKeeps ==
  ASSUME ConsoleInv, NEW k \in KeyIds, CreateKey(k)
  PROVE  ConsoleInv'
  <1>. DEFINE m == [op |-> "create", id |-> k, by |-> Session, st |-> "sent"]
  <1>1. Session \in Users \cup {None} /\ sent \in 0 .. MaxMutations
    BY DEF ConsoleInv, TypeOK, Session
  <1>2. m \in Mutations /\ m.op = "create" /\ m.id = k
    BY <1>1 DEF Mutations
  <1>3. /\ muts' = muts \cup {m} /\ keys[k] = "none" /\ \A n \in muts : n.id # k
        /\ UNCHANGED <<sessionVars, network, cache, told, device, rows, followed>>
        /\ UNCHANGED sent
    BY DEF CreateKey, Mutate
  <1>. HIDE DEF m
  <1>4. MutationFits(m, muts', keys, cache[ApiKeys].data # None)
    BY <1>2, <1>3 DEF MutationFits
  <1>5. sent' \in 0 .. MaxMutations
    BY <1>1, <1>3
  <1>. QED BY <1>2, <1>3, <1>4, <1>5, MutationAdded

\* The key was on a list, and so made.
LEMMA RevokeKeeps ==
  ASSUME ConsoleInv, NEW k \in KeyIds, Revoke(k)
  PROVE  ConsoleInv'
  <1>. DEFINE m == [op |-> "revoke", id |-> k, by |-> Session, st |-> "sent"]
  <1>1. Session \in Users \cup {None} /\ sent \in 0 .. MaxMutations
    BY DEF ConsoleInv, TypeOK, Session
  <1>2. m \in Mutations /\ m.op = "revoke" /\ m.id = k /\ m.st = "sent"
    BY <1>1 DEF Mutations
  <1>3. /\ muts' = muts \cup {m} /\ cache[ApiKeys].data # None /\ k \in cache[ApiKeys].data
        /\ UNCHANGED <<sessionVars, network, cache, told, device, rows, followed>>
    BY DEF Revoke, Mutate
  <1>4. sent' \in 0 .. MaxMutations
    BY <1>1, ConsoleAssumption DEF Revoke
  <1>. HIDE DEF m
  <1>5. keys[k] # "none"
    BY <1>3 DEF ConsoleInv, ListedWereMade, Holds
  <1>6. MutationFits(m, muts', keys, cache[ApiKeys].data # None)
    BY <1>2, <1>3, <1>5 DEF MutationFits
  <1>7. \A n \in muts : n.op = "create" /\ n.st = "sent" => n.id # k
    BY <1>5, MutationsAreLocal DEF ConsoleInv, MutationFits
  <1>. QED BY <1>2, <1>3, <1>4, <1>6, <1>7, MutationAdded

\* The backend makes a key at most once and never revives one.
LEMMA ServeMutationKeeps ==
  ASSUME ConsoleInv, NEW m \in muts, ServeMutation(m)
  PROVE  ConsoleInv'
  <1>1. /\ m \in Mutations /\ muts \subseteq Mutations /\ keys \in [KeyIds -> Users \cup {"none", "revoked"}]
        /\ m.st = "sent"
    BY DEF ConsoleInv, TypeOK, ServeMutation
  <1>2. MutationFits(m, muts, keys, cache[ApiKeys].data # None)
    BY MutationsAreLocal DEF ConsoleInv
  <1>3. UNCHANGED <<sessionVars, network, cache, told, device, bounds>>
    BY DEF ServeMutation
  <1>4. \A u \in Users : u # "none" /\ u # "revoked"
    BY ConsoleAssumption
  <1>5. PICK st \in {"ok", "refused"} :
          /\ Settled(m, st)
          /\ st = "refused" => UNCHANGED rows
          /\ st = "ok" =>
               /\ ~Refused(m)
               /\ credited' = IF m.op = "declare" THEN credited \cup {m.id} ELSE credited
               /\ keys' = CASE m.op = "create" -> [keys EXCEPT ![m.id] = m.by]
                            [] m.op = "revoke" -> [keys EXCEPT ![m.id] = "revoked"]
                            [] OTHER -> keys
    BY Zenon DEF ServeMutation
  <1>. DEFINE n == [m EXCEPT !.st = st]
  <1>6. n \in Mutations /\ n.op = m.op /\ n.id = m.id /\ n.st = st
    BY <1>1, <1>5, SettledTypes, ZenonT(60)
  <1>7. muts' = (muts \ {m}) \cup {n}
    BY <1>5 DEF Settled
  <1>. HIDE DEF n
  <1>8. /\ \/ UNCHANGED keys
           \/ st = "ok" /\ m.op = "create" /\ m.by \in Users /\ keys' = [keys EXCEPT ![m.id] = m.by]
           \/ st = "ok" /\ m.op = "revoke" /\ keys' = [keys EXCEPT ![m.id] = "revoked"]
        /\ st = "ok" /\ m.op = "revoke" => keys' = [keys EXCEPT ![m.id] = "revoked"]
    <2>1. st = "ok" => m.by \in Users
      BY <1>1, <1>5, MutationTypes DEF Refused
    <2>. QED BY <1>5, <2>1 DEF rows
  <1>9. /\ keys' \in [KeyIds -> Users \cup {"none", "revoked"}]
        /\ credited' \subseteq Deposits
    <2>1. credited \subseteq Deposits /\ (m.op = "declare" => m.id \in Deposits)
      BY <1>1, MutationTypes DEF ConsoleInv, TypeOK
    <2>2. credited' \subseteq Deposits
      BY <1>5, <2>1 DEF rows
    <2>. QED BY <1>1, <1>8, <2>2
  <1>10. TypeOK'
    BY <1>3, <1>6, <1>7, <1>9 DEF ConsoleInv, TypeOK, sessionVars, bounds, device
  <1>11. KeysLast
    <2>1. m.op = "create" => keys[m.id] = "none"
      BY <1>1, <1>2 DEF MutationFits
    <2>2. m.op \in {"create", "revoke"} => m.id \in KeyIds
      BY <1>1, MutationTypes
    <2>. QED BY <1>1, <1>4, <1>8, <2>1, <2>2 DEF KeysLast
  <1>12. ListedWereMade' /\ ToldFit'
    <2>1. CacheKeeps(cache, cache')
      BY <1>3, SameKeeps DEF ConsoleInv, TypeOK
    <2>. QED BY <1>3, <1>11, <2>1, ListedKept, ToldKept DEF ConsoleInv
  <1>13. ASSUME NEW q \in muts'
         PROVE  MutationFits(q, muts', keys', cache'[ApiKeys].data # None)
    <2>1. CASE q = n
      <3>1. m.op = "revoke" => m.id \in KeyIds /\ keys[m.id] # "none" /\ cache[ApiKeys].data # None
        BY <1>1, <1>2, MutationTypes DEF MutationFits
      <3>2. m.op = "revoke" => keys'[m.id] # "none" /\ (st = "ok" => keys'[m.id] = "revoked")
        BY <1>1, <1>8, <1>11, <3>1 DEF KeysLast
      <3>. QED BY <1>3, <1>5, <1>6, <2>1, <3>1, <3>2 DEF MutationFits
    <2>2. CASE q \in muts /\ q # m
      <3>1. MutationFits(q, muts, keys, cache[ApiKeys].data # None)
        BY <2>2, MutationsAreLocal DEF ConsoleInv
      <3>2. q \in Mutations
        BY <1>1, <2>2
      <3>3. q.op \in {"create", "revoke"} => q.id \in KeyIds
        BY <3>2, MutationTypes
      <3>4. q.op = "create" /\ q.st = "sent" =>
              keys'[q.id] = "none" /\ \A x \in muts' : x.op # "declare" /\ x.id = q.id => x = q
        <4>1. SUFFICES ASSUME q.op = "create", q.st = "sent"
                       PROVE  /\ keys'[q.id] = "none"
                              /\ \A x \in muts' : x.op # "declare" /\ x.id = q.id => x = q
          OBVIOUS
        <4>2. m.op = "declare" \/ m.id # q.id
          BY <2>2, <3>1, <4>1 DEF MutationFits
        <4>3. keys'[q.id] = keys[q.id]
          BY <1>1, <1>8, <3>3, <4>1, <4>2
        <4>. QED BY <1>6, <1>7, <3>1, <4>1, <4>2, <4>3 DEF MutationFits
      <3>5. q.op = "revoke" => /\ cache'[ApiKeys].data # None /\ keys'[q.id] # "none"
                               /\ q.st = "ok" => keys'[q.id] = "revoked"
        BY <1>3, <1>11, <3>1, <3>3 DEF KeysLast, MutationFits
      <3>. QED BY <3>4, <3>5 DEF MutationFits
    <2>. QED BY <1>7, <1>13, <2>1, <2>2
  <1>. QED BY <1>10, <1>12, <1>13, MutationsAreLocal DEF ConsoleInv

\* A report of a revocation marks the list the tab shows, and drops its fetch.
LEMMA SuccessKeeps ==
  ASSUME ConsoleInv, NEW m \in muts, onSuccess(m)
  PROVE  ConsoleInv'
  <1>. DEFINE f == Request(network, Session)
              I == Invalidated(cache, Match(m), Shown, f)
  <1>1. /\ TypeOK /\ network \in Networks /\ cache \in [QueryKeys -> Entries]
        /\ muts \subseteq Mutations /\ told \subseteq KeyIds
    BY DEF ConsoleInv, TypeOK
  <1>2. f \in Asked
    BY <1>1, SessionAsks
  <1>3. /\ cache' = I /\ muts' = muts \ {m} /\ m.st = "ok" /\ Told(m)
        /\ UNCHANGED <<sessionVars, network, device, rows, bounds>>
    BY DEF onSuccess
  <1>4. CacheKeeps(cache, cache')
    BY <1>1, <1>2, <1>3, InvalidatedKeeps
  <1>5. m.op = "revoke" => m.id \in KeyIds
    BY <1>1, MutationTypes
  <1>6. TypeOK'
    <2>1. told' \subseteq KeyIds
      BY <1>1, <1>3, <1>5 DEF Told
    <2>. QED BY <1>1, <1>3, <1>4, <2>1 DEF TypeOK, CacheKeeps, rows, bounds, device, sessionVars
  <1>7. KeysLast /\ UNCHANGED keys
    BY <1>3, SameKeysLast DEF rows
  <1>8. ListedWereMade' /\ MutationsFit'
    BY <1>3, <1>4, <1>7, ListedKept, MutationsKept DEF ConsoleInv
  <1>9. ToldFit'
    <2>1. CASE UNCHANGED told
      BY <1>1, <1>4, <1>7, <2>1, ToldKept DEF ConsoleInv
    <2>2. CASE m.op = "revoke" /\ ApiKeys \in Shown /\ told' = told \cup {m.id}
      <3>. DEFINE e == [cache[ApiKeys] EXCEPT !.stale = cache[ApiKeys].data # None]
      <3>1. MutationFits(m, muts, keys, cache[ApiKeys].data # None)
        BY MutationsAreLocal DEF ConsoleInv
      <3>2. cache[ApiKeys].data # None /\ keys[m.id] = "revoked"
        BY <1>3, <2>2, <3>1 DEF MutationFits
      <3>3. ApiKeys \in Match(m)
        BY <2>2 DEF Match
      <3>4. cache'[ApiKeys] = Refetch(e, f)
        BY <1>3, <2>2, <3>3, KeyFacts DEF Invalidated
      <3>5. cache[ApiKeys] \in Entries
        BY <1>1, KeyFacts
      <3>6. cache'[ApiKeys] = [e EXCEPT !.fetch = f]
        BY <3>2, <3>4, <3>5 DEF Refetch, Entries
      <3>7. /\ cache'[ApiKeys].data = cache[ApiKeys].data /\ cache'[ApiKeys].stale
            /\ cache'[ApiKeys].fetch = f
        BY <3>2, <3>5, <3>6 DEF Entries
      <3>8. Pending(cache'[ApiKeys]) = {}
        BY <1>2, <3>7, AskedFacts DEF Pending
      <3>9. \A k \in told : keys[k] = "revoked"
        BY DEF ConsoleInv, ToldFit
      <3>. HIDE DEF e, f
      <3>. QED BY <1>7, <2>2, <3>2, <3>7, <3>8, <3>9 DEF ToldFit
    <2>. QED BY <1>3, <2>1, <2>2 DEF Told
  <1>. QED BY <1>6, <1>8, <1>9 DEF ConsoleInv

LEMMA ErrorKeeps ==
  ASSUME ConsoleInv, NEW m \in muts, onError(m)
  PROVE  ConsoleInv'
  <1>1. /\ muts' \subseteq muts
        /\ UNCHANGED <<sessionVars, network, cache, told, device, rows, bounds>>
    BY DEF onError
  <1>2. CacheKeeps(cache, cache')
    BY <1>1, SameKeeps DEF ConsoleInv, TypeOK
  <1>3. ListedWereMade' /\ ToldFit' /\ MutationsFit'
    BY <1>1, <1>2, ListedKept, ToldKept, MutationsKept, SameKeysLast DEF ConsoleInv, rows
  <1>4. TypeOK'
    BY <1>1 DEF ConsoleInv, TypeOK, rows, bounds, device, sessionVars
  <1>. QED BY <1>3, <1>4 DEF ConsoleInv

-----------------------------------------------------------------------------
(***************************************************************************)
(* Sessions.                                                               *)
(***************************************************************************)
LEMMA EmptyFacts ==
  /\ Empty \in [QueryKeys -> Entries]
  /\ Empty[ApiKeys].data = None /\ Empty[ApiKeys].fetch = None
  BY KeyFacts DEF Empty, Entries, Fetches

LEMMA SignInKeeps ==
  ASSUME ConsoleInv, NEW u \in Users, SignIn(u)
  PROVE  ConsoleInv'
  <1>1. /\ TypeOK /\ network \in Networks
    BY DEF ConsoleInv, TypeOK
  <1>2. /\ cache' = Mounted(Empty, Observed("overview", network), Request(network, u), FALSE)
        /\ muts' = {} /\ told' = {} /\ page' = "overview" /\ user' = u /\ live' = TRUE
        /\ UNCHANGED <<network, device, rows, bounds>>
    BY DEF SignIn, Enter
  <1>3. CacheKeeps(Empty, cache')
    BY <1>1, <1>2, SessionAsks, EmptyFacts, MountedKeeps
  <1>4. TypeOK'
    BY <1>1, <1>2, <1>3, ConsoleAssumption DEF TypeOK, CacheKeeps, rows, bounds, device, Pages
  <1>5. Keeps(Empty[ApiKeys], cache'[ApiKeys])
    BY <1>3, KeyFacts DEF CacheKeeps
  <1>6. cache'[ApiKeys].data = None /\ cache'[ApiKeys].fetch \in {None} \cup Asked
    BY <1>5, EmptyFacts DEF Keeps
  <1>. QED BY <1>2, <1>4, <1>6, EmptyKeeps

LEMMA RevokeSessionsKeeps ==
  ASSUME ConsoleInv, RevokeSessions
  PROVE  ConsoleInv'
  <1>1. TypeOK'
    BY EmptyFacts DEF ConsoleInv, TypeOK, RevokeSessions, Leave, rows, bounds, device, Pages
  <1>. QED BY <1>1, EmptyFacts, EmptyKeeps DEF RevokeSessions

LEMMA PasskeySignInKeeps ==
  ASSUME ConsoleInv, NEW u \in Users, PasskeySignIn(u)
  PROVE  ConsoleInv'
  <1>1. /\ TypeOK /\ network \in Networks /\ cache \in [QueryKeys -> Entries]
    BY DEF ConsoleInv, TypeOK
  <1>2. /\ cache' = Mounted(cache, Observed("overview", network), Request(network, u), FALSE)
        /\ page' = "overview" /\ user' = u /\ live' = TRUE
        /\ UNCHANGED <<network, device, rows, bounds, muts, told>>
    BY DEF PasskeySignIn, Enter
  <1>3. CacheKeeps(cache, cache')
    BY <1>1, <1>2, SessionAsks, MountedKeeps
  <1>4. TypeOK'
    BY <1>1, <1>2, <1>3, ConsoleAssumption DEF TypeOK, CacheKeeps, rows, bounds, device, Pages
  <1>. QED BY <1>2, <1>3, <1>4, QuietKeeps DEF rows

LEMMA PlainKeeps ==
  ASSUME ConsoleInv, AddPasskey \/ DeletePasskey \/ Redirect
  PROVE  ConsoleInv'
  <1>1. UNCHANGED <<network, cache, muts, told, rows, bounds>>
    BY DEF AddPasskey, DeletePasskey, Redirect
  <1>2. /\ page' \in Pages /\ user' \in Users \cup {None} /\ live' \in BOOLEAN
        /\ (live' => user' # None) /\ passkeys' \subseteq Users /\ visible' = visible
    <2>1. CASE AddPasskey
      <3>1. passkeys' \subseteq Users
        <4>1. user # None
          BY <2>1 DEF ConsoleInv, TypeOK, AddPasskey
        <4>. QED BY <2>1, <4>1 DEF AddPasskey, ConsoleInv, TypeOK
      <3>. QED BY <2>1, <3>1 DEF AddPasskey, ConsoleInv, TypeOK, sessionVars, device
    <2>2. CASE DeletePasskey
      BY <2>2 DEF DeletePasskey, ConsoleInv, TypeOK, sessionVars, device
    <2>3. CASE Redirect
      BY <2>3 DEF Redirect, ConsoleInv, TypeOK, Leave, Pages, device
    <2>. QED BY <2>1, <2>2, <2>3
  <1>3. TypeOK'
    BY <1>1, <1>2 DEF ConsoleInv, TypeOK, rows, bounds, device
  <1>4. CacheKeeps(cache, cache')
    BY <1>1, SameKeeps DEF ConsoleInv, TypeOK
  <1>. QED BY <1>1, <1>3, <1>4, QuietKeeps DEF rows

\* What is cut off keeps its key, its kind and its state.
LEMMA CutMutationFacts ==
  ASSUME TypeOK
  PROVE  /\ CutMutations \subseteq Mutations
         /\ \A m \in CutMutations :
              \E n \in muts : /\ m = IF n.st = "sent" THEN [n EXCEPT !.by = None] ELSE n
                              /\ n.op = m.op /\ n.id = m.id /\ n.st = m.st
  <1>1. ASSUME NEW n \in muts
        PROVE  LET m == IF n.st = "sent" THEN [n EXCEPT !.by = None] ELSE n
               IN m \in Mutations /\ n.op = m.op /\ n.id = m.id /\ n.st = m.st
    BY <1>1, MutationTypes DEF TypeOK
  <1>. QED BY <1>1 DEF CutMutations

LEMMA CutOffKeeps ==
  ASSUME ConsoleInv, SignOut \/ Expire
  PROVE  ConsoleInv'
  <1>1. TypeOK /\ cache \in [QueryKeys -> Entries]
    BY DEF ConsoleInv, TypeOK
  <1>2. /\ cache' = CutFetches(cache) /\ muts' = CutMutations
        /\ UNCHANGED <<network, told, device, rows, bounds>>
    BY DEF SignOut, Expire
  <1>3. CacheKeeps(cache, cache')
    BY <1>1, <1>2, CutKeeps
  <1>4. page' \in Pages /\ user' \in Users \cup {None} /\ live' \in BOOLEAN /\ (live' => user' # None)
    BY <1>1 DEF SignOut, Expire, Leave, TypeOK, Pages
  <1>5. TypeOK'
    BY <1>1, <1>2, <1>3, <1>4, CutMutationFacts DEF TypeOK, CacheKeeps, rows, bounds, device
  <1>6. ListedWereMade' /\ ToldFit'
    BY <1>2, <1>3, ListedKept, ToldKept, SameKeysLast DEF ConsoleInv, rows
  <1>7. UNCHANGED keys /\ cache'[ApiKeys].data = cache[ApiKeys].data
    BY <1>2, <1>3, EntryKept DEF Keeps, rows
  <1>8. ASSUME NEW m \in muts'
        PROVE  MutationFits(m, muts', keys', cache'[ApiKeys].data # None)
    <2>1. PICK n \in muts : /\ m = IF n.st = "sent" THEN [n EXCEPT !.by = None] ELSE n
                            /\ n.op = m.op /\ n.id = m.id /\ n.st = m.st
      BY <1>1, <1>2, <1>8, CutMutationFacts
    <2>2. MutationFits(n, muts, keys, cache[ApiKeys].data # None)
      BY <2>1, MutationsAreLocal DEF ConsoleInv
    <2>3. m.op = "create" /\ m.st = "sent" =>
            \A x \in muts' : x.op # "declare" /\ x.id = m.id => x = m
      <3>1. SUFFICES ASSUME m.op = "create", m.st = "sent",
                            NEW x \in muts', x.op # "declare", x.id = m.id
                     PROVE  x = m
        OBVIOUS
      <3>2. PICK y \in muts : /\ x = IF y.st = "sent" THEN [y EXCEPT !.by = None] ELSE y
                              /\ y.op = x.op /\ y.id = x.id /\ y.st = x.st
        BY <1>1, <1>2, <3>1, CutMutationFacts
      <3>3. y = n
        BY <2>1, <2>2, <3>1, <3>2 DEF MutationFits
      <3>. QED BY <2>1, <3>2, <3>3
    <2>4. m.op = "create" /\ m.st = "sent" => keys'[m.id] = "none"
      BY <1>7, <2>1, <2>2 DEF MutationFits
    <2>5. m.op = "revoke" => /\ cache'[ApiKeys].data # None /\ keys'[m.id] # "none"
                             /\ m.st = "ok" => keys'[m.id] = "revoked"
      BY <1>7, <2>1, <2>2 DEF MutationFits
    <2>. QED BY <2>3, <2>4, <2>5 DEF MutationFits
  <1>. QED BY <1>5, <1>6, <1>8, MutationsAreLocal DEF ConsoleInv

-----------------------------------------------------------------------------
(***************************************************************************)
(* The inductive invariant and the theorems.                               *)
(***************************************************************************)
LEMMA ConsoleStarts ==
  ASSUME Init
  PROVE  ConsoleInv
  <1>1. TypeOK
    <2>1. sent \in 0 .. MaxMutations
      BY ConsoleAssumption DEF Init
    <2>2. keys \in [KeyIds -> Users \cup {"none", "revoked"}]
      BY DEF Init
    <2>. QED BY <2>1, <2>2, EmptyFacts DEF Init, TypeOK, Pages, Networks
  <1>2. Holds(cache[ApiKeys]) = {}
    BY EmptyFacts, AskedFacts DEF Init, Holds, Pending
  <1>. QED BY <1>1, <1>2 DEF ConsoleInv, Init, ListedWereMade, MutationsFit, ToldFit

LEMMA ConsoleSteps ==
  ASSUME ConsoleInv, [Next]_vars
  PROVE  ConsoleInv'
  <1>1. CASE Access
    BY <1>1, SignInKeeps, PasskeySignInKeeps, PlainKeeps, CutOffKeeps, RevokeSessionsKeeps
       DEF Access
  <1>2. CASE UNCHANGED vars
    <2>1. TypeOK' /\ CacheKeeps(cache, cache') /\ UNCHANGED <<keys, muts, told>>
      BY <1>2, SameKeeps DEF ConsoleInv, TypeOK, vars, rows, bounds, device, sessionVars
    <2>. QED BY <2>1, QuietKeeps
  <1>3. CASE Next /\ ~Access
    BY <1>3, VisitKeeps, SwitchKeeps, FetchKeeps, ServeKeeps, ReplyKeeps, DeclareKeeps,
       CreateKeeps, RevokeKeeps, ServeMutationKeeps, SuccessKeeps, ErrorKeeps, Zenon DEF Next
  <1>. QED BY <1>1, <1>2, <1>3

LEMMA ConsoleInvariant == Spec => []ConsoleInv
  BY ConsoleStarts, ConsoleSteps, PTL DEF Spec

\* Every variable of the tab keeps its type.
THEOREM ConsoleTypeCorrect == Spec => []TypeOK
  <1>1. ConsoleInv => TypeOK
    BY DEF ConsoleInv
  <1>. QED BY <1>1, ConsoleInvariant, PTL

\* A key the tab reported revoked is not shown active by a list that is not
\* marked stale, however late the answers of earlier reads come.
THEOREM RevokedKeysStayGone == Spec => []RevokedStaysGone
  <1>1. ConsoleInv => RevokedStaysGone
    <2>1. SUFFICES ASSUME ConsoleInv, cache[ApiKeys].data # None, ~cache[ApiKeys].stale
                   PROVE  cache[ApiKeys].data \cap told = {}
      BY DEF RevokedStaysGone
    <2>. QED BY <2>1 DEF ConsoleInv, ToldFit
  <1>. QED BY <1>1, ConsoleInvariant, PTL
=============================================================================
