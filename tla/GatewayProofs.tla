----------------------------- MODULE GatewayProofs -----------------------------
(***************************************************************************)
(* Proofs about the gateway, for any sets of wallets, tabs, pods, users,   *)
(* keys, requests and networks, any budget and any number of faults.       *)
(***************************************************************************)
EXTENDS Gateway, FiniteSetTheorems, TLAPS

-----------------------------------------------------------------------------
(***************************************************************************)
(* Signing in.                                                             *)
(***************************************************************************)
SignInInv == SignInTypeOK /\ SessionsAgree /\ BindingsMatch

Tabs == [pc : {"out", "sign", "verify", "delete", "find", "create", "bind",
               "session", "in"},
         addr : Addresses \cup {None}, nonce : 0 .. MaxNonces,
         user : UserIds \cup {None}]

\* BindingsMatch, of one tab.
TabRight(t, email, bound, ss) ==
    /\ t.pc \notin {"out", "in"} => t.addr \in Addresses
    /\ t.pc = "bind" => t.user \in UserIds /\ email[t.user] = t.addr
    /\ t.pc = "session" => t.user \in UserIds /\ bound[t.addr] = t.user
    /\ t.pc = "in" => \E s \in ss : s.user = t.user

\* An email, a binding, a session and the admin's key, once there, stay.
Persist ==
    /\ \A u \in UserIds : emailOf[u] # None => emailOf'[u] = emailOf[u]
    /\ \A a \in Addresses : accounts[a] # None => accounts'[a] = accounts[a]
    /\ sessions \subseteq sessions'
    /\ bootKey # None => bootKey' = bootKey

LEMMA BindingsAreLocal ==
  /\ BindingsMatch <=>
       /\ \A a \in Addresses : accounts[a] # None => emailOf[accounts[a]] = a
       /\ \A b \in Browsers : TabRight(tab[b], emailOf, accounts, sessions)
  /\ BindingsMatch' <=>
       /\ \A a \in Addresses : accounts'[a] # None => emailOf'[accounts'[a]] = a
       /\ \A b \in Browsers : TabRight(tab'[b], emailOf', accounts', sessions')
  BY Zenon DEF BindingsMatch, TabRight

LEMMA TabPersists ==
  ASSUME Persist, NEW t, TabRight(t, emailOf, accounts, sessions)
  PROVE  TabRight(t, emailOf', accounts', sessions')
  BY SignInAssumption DEF Persist, TabRight

\* A tab's step that leaves it right leaves all of them right.
LEMMA TabMoves ==
  ASSUME SignInInv, Persist, NEW b \in Browsers, NEW t \in Tabs,
         tab' = [tab EXCEPT ![b] = t], TabRight(t, emailOf', accounts', sessions')
  PROVE  /\ tab' \in [Browsers -> Tabs]
         /\ \A v \in Browsers : TabRight(tab'[v], emailOf', accounts', sessions')
  <1>1. tab \in [Browsers -> Tabs]
    BY DEF SignInInv, SignInTypeOK, Tabs
  <1>2. ASSUME NEW v \in Browsers
        PROVE  TabRight(tab'[v], emailOf', accounts', sessions')
    <2>1. CASE v = b
      BY <1>1, <2>1
    <2>2. CASE v # b
      <3>1. TabRight(tab[v], emailOf, accounts, sessions)
        BY BindingsAreLocal, Zenon DEF SignInInv
      <3>. QED BY <1>1, <2>2, <3>1, TabPersists
    <2>. QED BY <2>1, <2>2
  <1>. QED BY <1>1, <1>2

\* The rows that a step leaves alone still agree.
LEMMA RowsPersist ==
  ASSUME SignInInv, Persist, UNCHANGED <<accounts, sessions>>
  PROVE  /\ SessionsAgree'
         /\ \A a \in Addresses : accounts'[a] # None => emailOf'[accounts'[a]] = a
  <1>1. SessionsAgree'
    BY DEF SignInInv, SessionsAgree
  <1>2. ASSUME NEW a \in Addresses, accounts'[a] # None
        PROVE  emailOf'[accounts'[a]] = a
    <2>1. accounts[a] \in UserIds /\ emailOf[accounts[a]] = a
      BY <1>2 DEF SignInInv, SignInTypeOK, BindingsMatch
    <2>. QED BY <2>1, SignInAssumption DEF Persist
  <1>. QED BY <1>1, <1>2

LEMMA NewIdFree ==
  ASSUME NewUsers # {}
  PROVE  NewId \in UserIds /\ emailOf[NewId] = None
  <1>1. NewId \in NewUsers
    BY DEF NewId
  <1>. QED BY <1>1 DEF NewUsers

\* Booting touches the users, and none that a wallet is bound to.
LEMMA BootKeeps ==
  ASSUME SignInInv, NEW p \in Pods, Boot(p) \/ PodCrash(p)
  PROVE  SignInInv' /\ Persist
  <1>1. UNCHANGED <<accounts, latest, nonces, logins, sessions, tab>>
    BY DEF Boot, PodCrash, BootRead, BootSelect, BootInsert, BootKey, warmHotWallet,
           warmupNetworks, Warms, bootVars
  <1>2. /\ emailOf' \in [UserIds -> Emails \cup {None}]
        /\ \A u \in UserIds : emailOf[u] # None => emailOf'[u] = emailOf[u]
    <2>1. emailOf \in [UserIds -> Emails \cup {None}] /\ Admin \in Emails
      BY DEF SignInInv, SignInTypeOK, Emails
    <2>2. emailOf' = emailOf \/ (NewUsers # {} /\ emailOf' = [emailOf EXCEPT ![NewId] = Admin])
      BY DEF Boot, PodCrash, BootRead, BootSelect, BootInsert, BootKey, warmHotWallet,
             warmupNetworks, Warms
    <2>. QED BY <2>1, <2>2, NewIdFree
  <1>3. Persist
    <2>1. bootKey # None => bootKey' = bootKey
      BY DEF Boot, PodCrash, BootRead, BootSelect, BootInsert, BootKey, warmHotWallet,
             warmupNetworks, Warms
    <2>. QED BY <1>1, <1>2, <2>1 DEF Persist
  <1>. DEFINE PodType == [pc : {"boot", "select", "insert", "key", "wallet",
                               "networks", "up"},
                         admin : UserIds \cup {None}]
  <1>4. pod' \in [Pods -> PodType] /\ bootKey' \in UserIds \cup {None}
    <2>1. pod \in [Pods -> PodType] /\ bootKey \in UserIds \cup {None}
      BY DEF SignInInv, SignInTypeOK
    <2>2. NoBoot \in PodType /\ \A u \in UserIds : [pc |-> "key", admin |-> u] \in PodType
      BY DEF NoBoot
    <2>3. CASE BootRead(p)
      BY <2>1, <2>3 DEF BootRead
    <2>4. CASE BootSelect(p)
      BY <2>1, <2>4 DEF BootSelect, UserWith
    <2>5. CASE BootInsert(p)
      BY <2>1, <2>2, <2>5, NewIdFree DEF BootInsert, Died
    <2>6. CASE BootKey(p)
      BY <2>1, <2>2, <2>6 DEF BootKey, Died, NoBoot
    <2>7. CASE warmHotWallet(p) \/ warmupNetworks(p)
      BY <2>1, <2>2, <2>7 DEF warmHotWallet, warmupNetworks, Warms, Died
    <2>8. CASE PodCrash(p)
      BY <2>1, <2>2, <2>8 DEF PodCrash, Died
    <2>. QED BY <2>3, <2>4, <2>5, <2>6, <2>7, <2>8 DEF Boot
  <1>5. faults' \in 0 .. MaxFaults
    BY SignInAssumption
    DEF Boot, PodCrash, BootRead, BootSelect, BootInsert, BootKey, warmHotWallet,
        warmupNetworks, Warms, Fault, SignInInv, SignInTypeOK
  <1>6. SignInTypeOK'
    BY <1>1, <1>2, <1>4, <1>5 DEF SignInInv, SignInTypeOK
  <1>7. BindingsMatch' /\ SessionsAgree'
    <2>1. ASSUME NEW b \in Browsers
          PROVE  TabRight(tab'[b], emailOf', accounts', sessions')
      <3>1. TabRight(tab[b], emailOf, accounts, sessions)
        BY BindingsAreLocal, Zenon DEF SignInInv
      <3>. QED BY <1>1, <1>3, <3>1, TabPersists
    <2>. QED BY <1>1, <1>3, <2>1, RowsPersist, BindingsAreLocal
  <1>. QED BY <1>3, <1>6, <1>7 DEF SignInInv

LEMMA TabTypes ==
  ASSUME SignInInv
  PROVE  /\ tab \in [Browsers -> Tabs] /\ NoTab \in Tabs
         /\ \A b \in Browsers : TabRight(tab[b], emailOf, accounts, sessions)
         /\ emailOf \in [UserIds -> Emails \cup {None}]
         /\ accounts \in [Addresses -> UserIds \cup {None}]
         /\ latest \in [Addresses -> 0 .. MaxNonces] /\ nonces \in 0 .. MaxNonces
         /\ faults \in 0 .. MaxFaults
  <1>1. \A b \in Browsers : TabRight(tab[b], emailOf, accounts, sessions)
    BY BindingsAreLocal, Zenon DEF SignInInv
  <1>. QED BY <1>1, SignInAssumption DEF SignInInv, SignInTypeOK, Tabs, NoTab

\* The steps that write no user, binding or session.
LEMMA QuietKeeps ==
  ASSUME SignInInv, NEW b \in Browsers,
         \/ signPersonalMessage(b) \/ VerifyNonce(b) \/ DeleteNonce(b) \/ FindAccount(b)
         \/ TabLost(b) \/ \E a \in Addresses : getSiwsNonce(b, a)
  PROVE  SignInInv' /\ Persist
  <1>1. UNCHANGED <<emailOf, accounts, sessions, pod, bootKey, logins>>
    BY DEF signPersonalMessage, VerifyNonce, DeleteNonce, FindAccount, TabLost,
           getSiwsNonce, tabVars
  <1>2. Persist
    BY <1>1 DEF Persist
  <1>3. /\ latest' \in [Addresses -> 0 .. MaxNonces] /\ nonces' \in 0 .. MaxNonces
        /\ faults' \in 0 .. MaxFaults
    <2>. DEFINE N == 0 .. MaxNonces
    <2>0. latest \in [Addresses -> N] /\ nonces \in N /\ 0 \in N /\ faults \in 0 .. MaxFaults
      BY TabTypes, SignInAssumption
    <2>1. CASE signPersonalMessage(b) \/ VerifyNonce(b) \/ FindAccount(b) \/ TabLost(b)
      BY <2>1, TabTypes, SignInAssumption
      DEF signPersonalMessage, VerifyNonce, FindAccount, TabLost, Fault
    <2>2. CASE DeleteNonce(b)
      <3>. HIDE DEF N
      <3>1. latest' \in [Addresses -> N] /\ UNCHANGED <<nonces, faults>>
        BY <2>0, <2>2 DEF DeleteNonce
      <3>. QED BY <2>0, <3>1 DEF N
    <2>3. CASE \E a \in Addresses : getSiwsNonce(b, a)
      <3>0. nonces < MaxNonces
        BY <2>3, Zenon DEF getSiwsNonce
      <3>1. nonces + 1 \in N
        BY <2>0, <3>0, SignInAssumption
      <3>. HIDE DEF N
      <3>2. latest' \in [Addresses -> N] /\ nonces' \in N /\ UNCHANGED faults
        BY <2>0, <2>3, <3>1 DEF getSiwsNonce
      <3>. QED BY <2>0, <3>2 DEF N
    <2>. QED BY <2>1, <2>2, <2>3
  <1>4. PICK t \in Tabs : tab' = [tab EXCEPT ![b] = t] /\ TabRight(t, emailOf, accounts, sessions)
    <2>1. tab[b] \in Tabs /\ TabRight(tab[b], emailOf, accounts, sessions) /\ NoTab \in Tabs
      BY TabTypes
    <2>2. TabRight(NoTab, emailOf, accounts, sessions)
      BY DEF NoTab, TabRight
    <2>3. CASE \/ TabLost(b)
               \/ signPersonalMessage(b) /\ SignedOut(b)
               \/ VerifyNonce(b) /\ SignedOut(b)
      BY <2>1, <2>2, <2>3 DEF SignedOut, TabLost
    <2>4. ASSUME NEW l \in {"verify", "delete"}, tab[b].pc \in {"sign", "verify"}, Turn(b, l)
          PROVE  \E t \in Tabs : tab' = [tab EXCEPT ![b] = t] /\ TabRight(t, emailOf, accounts, sessions)
      <3>. DEFINE t == [tab[b] EXCEPT !.pc = l]
      <3>1. t \in Tabs
        BY <2>1 DEF Tabs
      <3>2. TabRight(t, emailOf, accounts, sessions)
        BY <2>1, <2>4 DEF TabRight, Tabs
      <3>3. tab' = [tab EXCEPT ![b] = t]
        BY <2>4 DEF Turn
      <3>. QED BY <3>1, <3>2, <3>3
    <2>7. CASE DeleteNonce(b)
      <3>. DEFINE t == [tab[b] EXCEPT !.pc = "find", !.nonce = 0]
      <3>1. t \in Tabs
        <4>1. [tab[b] EXCEPT !.pc = "find"] \in Tabs /\ 0 \in 0 .. MaxNonces
          BY <2>1, SignInAssumption DEF Tabs
        <4>. QED BY <4>1 DEF Tabs
      <3>2. TabRight(t, emailOf, accounts, sessions)
        BY <2>1, <2>7 DEF TabRight, Tabs, DeleteNonce
      <3>3. tab' = [tab EXCEPT ![b] = t]
        BY <2>7, TabTypes DEF DeleteNonce
      <3>. QED BY <3>1, <3>2, <3>3
    <2>5. CASE FindAccount(b)
      <3>. DEFINE u == accounts[tab[b].addr]
                  t == [tab[b] EXCEPT !.user = u,
                                      !.pc = IF u = None THEN "create" ELSE "session"]
      <3>1. tab[b].addr \in Addresses /\ u \in UserIds \cup {None}
        BY <2>1, <2>5, TabTypes DEF FindAccount, TabRight
      <3>2. t \in Tabs
        BY <2>1, <3>1 DEF Tabs
      <3>3. TabRight(t, emailOf, accounts, sessions)
        BY <2>1, <3>1 DEF TabRight, Tabs
      <3>4. tab' = [tab EXCEPT ![b] = t]
        BY <2>5, TabTypes DEF FindAccount
      <3>. QED BY <3>2, <3>3, <3>4
    <2>6. CASE \E a \in Addresses : getSiwsNonce(b, a)
      <3>1. PICK a \in Addresses : getSiwsNonce(b, a)
        BY <2>6
      <3>. DEFINE t == [NoTab EXCEPT !.pc = "sign", !.addr = a, !.nonce = nonces + 1]
      <3>2. t \in Tabs
        <4>1. nonces < MaxNonces
          BY <3>1, Zenon DEF getSiwsNonce
        <4>2. nonces \in 0 .. MaxNonces
          BY TabTypes
        <4>3. nonces + 1 \in 0 .. MaxNonces
          BY <4>1, <4>2, SignInAssumption
        <4>. QED BY <4>3 DEF Tabs, NoTab
      <3>3. TabRight(t, emailOf, accounts, sessions)
        BY DEF TabRight, NoTab
      <3>. QED BY <3>1, <3>2, <3>3 DEF getSiwsNonce
    <2>. QED BY <2>3, <2>4, <2>5, <2>6, <2>7 DEF signPersonalMessage, VerifyNonce
  <1>5. /\ tab' \in [Browsers -> Tabs]
        /\ \A v \in Browsers : TabRight(tab'[v], emailOf', accounts', sessions')
    <2>1. TabRight(t, emailOf', accounts', sessions')
      BY <1>1, <1>4
    <2>. QED BY <1>2, <1>4, <2>1, TabMoves
  <1>6. SignInTypeOK'
    BY <1>1, <1>3, <1>5 DEF SignInInv, SignInTypeOK, Tabs
  <1>7. BindingsMatch' /\ SessionsAgree'
    BY <1>1, <1>2, <1>5, RowsPersist, BindingsAreLocal
  <1>. QED BY <1>2, <1>6, <1>7 DEF SignInInv

LEMMA CreateUserKeeps ==
  ASSUME SignInInv, NEW b \in Browsers, CreateUser(b)
  PROVE  SignInInv' /\ Persist
  <1>1. UNCHANGED <<accounts, latest, nonces, logins, sessions, pod, bootKey, faults>>
    BY DEF CreateUser, tabVars
  <1>2. /\ tab[b] \in Tabs /\ TabRight(tab[b], emailOf, accounts, sessions) /\ NoTab \in Tabs
        /\ tab[b].pc = "create" /\ tab[b].addr \in Addresses
        /\ emailOf \in [UserIds -> Emails \cup {None}]
    BY TabTypes DEF CreateUser, TabRight
  <1>3. /\ emailOf' \in [UserIds -> Emails \cup {None}]
        /\ \A u \in UserIds : emailOf[u] # None => emailOf'[u] = emailOf[u]
    <2>1. \/ emailOf' = emailOf
          \/ NewUsers # {} /\ emailOf' = [emailOf EXCEPT ![NewId] = tab[b].addr]
      BY DEF CreateUser
    <2>. QED BY <1>2, <2>1, NewIdFree DEF Emails
  <1>4. Persist
    BY <1>1, <1>3 DEF Persist
  <1>5. PICK t \in Tabs : tab' = [tab EXCEPT ![b] = t] /\ TabRight(t, emailOf', accounts', sessions')
    <2>1. CASE SignedOut(b)
      BY <1>2, <2>1 DEF SignedOut, NoTab, TabRight
    <2>2. ASSUME NEW u \in UserIds, emailOf' = [emailOf EXCEPT ![u] = tab[b].addr],
                 tab' = [tab EXCEPT ![b].user = u, ![b].pc = "bind"]
          PROVE  \E t \in Tabs : tab' = [tab EXCEPT ![b] = t] /\ TabRight(t, emailOf', accounts', sessions')
      <3>. DEFINE t == [tab[b] EXCEPT !.user = u, !.pc = "bind"]
      <3>1. t \in Tabs
        BY <1>2 DEF Tabs
      <3>2. TabRight(t, emailOf', accounts', sessions')
        BY <1>2, <2>2 DEF TabRight, Tabs
      <3>3. tab' = [tab EXCEPT ![b] = t]
        BY <2>2, TabTypes
      <3>. QED BY <3>1, <3>2, <3>3
    <2>. QED BY <2>1, <2>2, NewIdFree DEF CreateUser
  <1>6. /\ tab' \in [Browsers -> Tabs]
        /\ \A v \in Browsers : TabRight(tab'[v], emailOf', accounts', sessions')
    BY <1>4, <1>5, TabMoves
  <1>7. SignInTypeOK'
    BY <1>1, <1>3, <1>6 DEF SignInInv, SignInTypeOK, Tabs
  <1>8. BindingsMatch' /\ SessionsAgree'
    BY <1>1, <1>4, <1>6, RowsPersist, BindingsAreLocal
  <1>. QED BY <1>4, <1>7, <1>8 DEF SignInInv

\* The binding is new, so that no session of the address is there yet.
LEMMA CreateAccountKeeps ==
  ASSUME SignInInv, NEW b \in Browsers, CreateAccount(b)
  PROVE  SignInInv' /\ Persist
  <1>. DEFINE x == tab[b].addr
              w == tab[b].user
              t == [tab[b] EXCEPT !.pc = "session"]
  <1>1. UNCHANGED <<emailOf, latest, nonces, logins, sessions, pod, bootKey, faults>>
    BY DEF CreateAccount, tabVars
  <1>2. /\ tab[b] \in Tabs /\ TabRight(tab[b], emailOf, accounts, sessions)
        /\ x \in Addresses /\ w \in UserIds /\ emailOf[w] = x /\ accounts[x] = None
        /\ accounts \in [Addresses -> UserIds \cup {None}]
    BY TabTypes DEF CreateAccount, TabRight
  <1>3. /\ accounts' \in [Addresses -> UserIds \cup {None}]
        /\ accounts'[x] = w /\ \A a \in Addresses \ {x} : accounts'[a] = accounts[a]
    BY <1>2 DEF CreateAccount
  <1>4. Persist
    BY <1>1, <1>2, <1>3 DEF Persist
  <1>5. t \in Tabs /\ tab' = [tab EXCEPT ![b] = t]
    BY <1>2, TabTypes DEF CreateAccount, Turn, Tabs
  <1>6. TabRight(t, emailOf', accounts', sessions')
    BY <1>2, <1>3 DEF TabRight, Tabs
  <1>. HIDE DEF t, x, w
  <1>7. /\ tab' \in [Browsers -> Tabs]
        /\ \A v \in Browsers : TabRight(tab'[v], emailOf', accounts', sessions')
    BY <1>4, <1>5, <1>6, TabMoves
  <1>8. SignInTypeOK'
    BY <1>1, <1>3, <1>7 DEF SignInInv, SignInTypeOK, Tabs
  <1>9. \A a \in Addresses : accounts'[a] # None => emailOf'[accounts'[a]] = a
    BY <1>1, <1>2, <1>3 DEF SignInInv, BindingsMatch
  <1>10. SessionsAgree'
    <2>1. ASSUME NEW s \in sessions'
          PROVE  s.addr # None => accounts'[s.addr] = s.user
      <3>1. /\ s.addr \in Addresses \cup {None} /\ s.user \in UserIds
            /\ s.addr # None => accounts[s.addr] = s.user
        BY <1>1 DEF SignInInv, SignInTypeOK, SessionsAgree
      <3>. QED BY <1>2, <1>3, <3>1, SignInAssumption
    <2>2. ASSUME NEW a1 \in Addresses, NEW a2 \in Addresses,
                 accounts'[a1] = accounts'[a2], accounts'[a1] # None
          PROVE  a1 = a2
      BY <1>9, <2>2
    <2>. QED BY <2>1, <2>2 DEF SessionsAgree
  <1>11. BindingsMatch'
    BY <1>7, <1>9, BindingsAreLocal
  <1>. QED BY <1>4, <1>8, <1>10, <1>11 DEF SignInInv

\* A tab gets a session of a user who is bound to the wallet, if it names one.
LEMMA SessionKeeps ==
  ASSUME SignInInv, NEW b \in Browsers, NEW u \in UserIds, NEW a \in Addresses \cup {None},
         a # None => accounts[a] = u,
         sessions' = sessions \cup {[user |-> u, addr |-> a]},
         tab' = [tab EXCEPT ![b] = SignedIn(u)],
         emailOf' \in [UserIds -> Emails \cup {None}],
         \A v \in UserIds : emailOf[v] # None => emailOf'[v] = emailOf[v],
         logins' \in Nat, UNCHANGED <<accounts, latest, nonces, pod, bootKey, faults>>
  PROVE  SignInInv' /\ Persist
  <1>. DEFINE s == [user |-> u, addr |-> a]
              t == SignedIn(u)
  <1>1. Persist
    BY DEF Persist
  <1>2. t \in Tabs /\ t.pc = "in" /\ t.user = u
    BY SignInAssumption DEF SignedIn, Tabs
  <1>3. s \in [user : UserIds, addr : Addresses \cup {None}] /\ s.user = u /\ s.addr = a
    OBVIOUS
  <1>. HIDE DEF t, s
  <1>4. sessions' = sessions \cup {s} /\ tab' = [tab EXCEPT ![b] = t]
    BY DEF s, t
  <1>5. TabRight(t, emailOf', accounts', sessions')
    BY <1>2, <1>3, <1>4 DEF TabRight
  <1>6. /\ tab' \in [Browsers -> Tabs]
        /\ \A v \in Browsers : TabRight(tab'[v], emailOf', accounts', sessions')
    BY <1>1, <1>2, <1>4, <1>5, TabMoves
  <1>7. SignInTypeOK'
    BY <1>3, <1>4, <1>6 DEF SignInInv, SignInTypeOK, Tabs
  <1>8. SessionsAgree'
    BY <1>3, <1>4 DEF SignInInv, SessionsAgree
  <1>9. BindingsMatch'
    <2>1. ASSUME NEW c \in Addresses, accounts'[c] # None
          PROVE  emailOf'[accounts'[c]] = c
      <3>1. accounts[c] \in UserIds /\ emailOf[accounts[c]] = c
        BY <2>1 DEF SignInInv, SignInTypeOK, BindingsMatch
      <3>. QED BY <3>1, SignInAssumption
    <2>. QED BY <1>6, <2>1, BindingsAreLocal
  <1>. QED BY <1>1, <1>7, <1>8, <1>9 DEF SignInInv

LEMMA CreateSessionKeeps ==
  ASSUME SignInInv, NEW b \in Browsers, CreateSession(b)
  PROVE  SignInInv' /\ Persist
  <1>1. /\ UNCHANGED <<emailOf, accounts, latest, nonces, logins, pod, bootKey, faults>>
        /\ sessions' = sessions \cup {[user |-> tab[b].user, addr |-> tab[b].addr]}
        /\ tab' = [tab EXCEPT ![b] = SignedIn(tab[b].user)]
    BY DEF CreateSession, tabVars
  <1>2. /\ tab[b].addr \in Addresses /\ tab[b].user \in UserIds
        /\ accounts[tab[b].addr] = tab[b].user
        /\ emailOf \in [UserIds -> Emails \cup {None}] /\ logins \in Nat
    BY TabTypes DEF CreateSession, TabRight, SignInInv, SignInTypeOK
  <1>. QED BY <1>1, <1>2, SessionKeeps

\* GitHub and passkeys bind no wallet.
LEMMA LoginKeeps ==
  ASSUME SignInInv, NEW b \in Browsers,
         (\E g \in Githubs : GithubSignIn(b, g)) \/ \E u \in UserIds : PasskeySignIn(b, u)
  PROVE  SignInInv' /\ Persist
  <1>1. /\ emailOf \in [UserIds -> Emails \cup {None}] /\ logins \in Nat
    BY DEF SignInInv, SignInTypeOK
  <1>2. UNCHANGED <<accounts, latest, nonces, pod, bootKey, faults>> /\ logins' = logins + 1
    BY DEF GithubSignIn, PasskeySignIn, LoggedIn
  <1>3. /\ emailOf' \in [UserIds -> Emails \cup {None}]
        /\ \A v \in UserIds : emailOf[v] # None => emailOf'[v] = emailOf[v]
    <2>1. \/ emailOf' = emailOf
          \/ \E g \in Githubs : NewUsers # {} /\ emailOf' = [emailOf EXCEPT ![NewId] = g]
      BY DEF GithubSignIn, PasskeySignIn
    <2>. QED BY <1>1, <2>1, NewIdFree DEF Emails
  <1>4. PICK u \in UserIds : LoggedIn(b, u)
    BY NewIdFree DEF GithubSignIn, PasskeySignIn, UserWith
  <1>5. /\ sessions' = sessions \cup {[user |-> u, addr |-> None]}
        /\ tab' = [tab EXCEPT ![b] = SignedIn(u)]
    BY <1>4 DEF LoggedIn
  <1>6. logins' \in Nat
    BY <1>1, <1>2
  <1>. QED BY <1>2, <1>3, <1>5, <1>6, SessionKeeps

LEMMA ExpireKeeps ==
  ASSUME SignInInv, NEW a \in Addresses, ExpireNonce(a)
  PROVE  SignInInv' /\ Persist
  <1>1. UNCHANGED <<emailOf, accounts, nonces, logins, sessions, tab, pod, bootKey, faults>>
    BY DEF ExpireNonce, tabVars
  <1>2. latest' \in [Addresses -> 0 .. MaxNonces]
    BY TabTypes, SignInAssumption DEF ExpireNonce
  <1>3. SignInTypeOK' /\ SessionsAgree' /\ BindingsMatch'
    BY <1>1, <1>2 DEF SignInInv, SignInTypeOK, SessionsAgree, BindingsMatch
  <1>. QED BY <1>1, <1>3 DEF SignInInv, Persist

LEMMA SignInKeeps ==
  ASSUME SignInInv, SignInNext
  PROVE  SignInInv' /\ Persist
  <1>1. CASE \E p \in Pods : Boot(p)
    BY <1>1, BootKeeps
  <1>2. ASSUME NEW b \in Browsers,
               \/ signPersonalMessage(b) \/ VerifyNonce(b) \/ DeleteNonce(b) \/ FindAccount(b)
               \/ TabLost(b) \/ \E a \in Addresses : getSiwsNonce(b, a)
        PROVE  SignInInv' /\ Persist
    BY <1>2, QuietKeeps, Zenon
  <1>3. CASE \E b \in Browsers : CreateUser(b)
    BY <1>3, CreateUserKeeps
  <1>4. CASE \E b \in Browsers : CreateAccount(b)
    BY <1>4, CreateAccountKeeps
  <1>5. CASE \E b \in Browsers : CreateSession(b)
    BY <1>5, CreateSessionKeeps
  <1>6. CASE \E a \in Addresses : ExpireNonce(a)
    BY <1>6, ExpireKeeps
  <1>7. ASSUME NEW b \in Browsers,
               (\E g \in Githubs : GithubSignIn(b, g)) \/ \E u \in UserIds : PasskeySignIn(b, u)
        PROVE  SignInInv' /\ Persist
    BY <1>7, LoginKeeps
  <1>. QED BY <1>1, <1>2, <1>3, <1>4, <1>5, <1>6, <1>7, Zenon DEF SignInNext, SignInStep

-----------------------------------------------------------------------------
(***************************************************************************)
(* The rate limiter.                                                       *)
(***************************************************************************)
LimitTypes ==
    /\ redisUp \in BOOLEAN /\ outages \in Nat
    /\ hits \in [Stores -> 0 .. Points] /\ old \subseteq Stores
    /\ admitted \in Nat /\ forgot \in Nat

AllPoints == Stores \X (1 .. 2 * Points)

\* What store s has given at most: Given, of one store.
Spent(s, h, o) == h[s] + (IF s \in o THEN 0 ELSE Points)

LEMMA GivenIs ==
  /\ Given = {g \in AllPoints : g[2] <= Spent(g[1], hits, old)}
  /\ Given' = {g \in AllPoints : g[2] <= Spent(g[1], hits', old')}
  BY DEF Given, AllPoints, Spent

\* The stores' points are finitely many: two budgets for each.
LEMMA PointsFinite ==
  ASSUME NEW L \in SUBSET AllPoints
  PROVE  /\ IsFiniteSet(L) /\ Cardinality(L) \in Nat
         /\ Cardinality(Stores) \in Nat
         /\ Cardinality(L) <= Cardinality(Stores) * (2 * Points)
  <1>1. 2 * Points \in Nat
    BY GatewayAssumption
  <1>2. IsFiniteSet(1 .. 2 * Points) /\ Cardinality(1 .. 2 * Points) = 2 * Points
    <2>1. 1 \in Int /\ 2 * Points \in Int
      BY <1>1
    <2>2. IF 1 > 2 * Points THEN 0 = 2 * Points ELSE 2 * Points - 1 + 1 = 2 * Points
      BY <1>1
    <2>. QED BY <2>1, <2>2, FS_Interval
  <1>3. IsFiniteSet(Stores)
    BY GatewayAssumption, FS_AddElement DEF Stores
  <1>4. /\ IsFiniteSet(AllPoints)
        /\ Cardinality(AllPoints) = Cardinality(Stores) * (2 * Points)
    BY <1>2, <1>3, FS_Product DEF AllPoints
  <1>. QED BY <1>3, <1>4, FS_Subset, FS_CardinalityType

\* A store that is restarted forgets one budget at most.
LEMMA PointsForgotten ==
  ASSUME NEW L \in SUBSET AllPoints, NEW s
  PROVE  /\ Cardinality(L \ ({s} \X (Points + 1 .. 2 * Points))) \in Nat
         /\ Cardinality(L) <= Cardinality(L \ ({s} \X (Points + 1 .. 2 * Points))) + Points
  <1>. DEFINE I == Points + 1 .. 2 * Points
              B == {s} \X I
  <1>0. Points \in Nat
    BY GatewayAssumption
  <1>1. IsFiniteSet(I) /\ Cardinality(I) = Points
    <2>1. Points + 1 \in Int /\ 2 * Points \in Int
      BY <1>0
    <2>2. IF Points + 1 > 2 * Points THEN 0 = Points
          ELSE 2 * Points - (Points + 1) + 1 = Points
      BY <1>0
    <2>. QED BY <2>1, <2>2, FS_Interval
  <1>2. IsFiniteSet({s}) /\ Cardinality({s}) = 1
    BY FS_Singleton
  <1>. HIDE DEF I
  <1>3. IsFiniteSet(B) /\ Cardinality(B) = 1 * Points
    BY ONLY <1>1, <1>2, FS_Product, ZenonT(60)
  <1>. HIDE DEF B
  <1>4. IsFiniteSet(L) /\ Cardinality(L) \in Nat
    BY PointsFinite
  <1>5. /\ IsFiniteSet(L \ B)
        /\ Cardinality(L \ B) = Cardinality(L) - Cardinality(L \cap B)
    BY <1>4, FS_Difference
  <1>6. Cardinality(L \cap B) <= Cardinality(B)
    <2>1. L \cap B \in SUBSET B
      OBVIOUS
    <2>. QED BY <1>3, <2>1, FS_Subset
  <1>7. Cardinality(L \cap B) \in Nat /\ Cardinality(L \ B) \in Nat
    <2>1. L \cap B \in SUBSET L
      OBVIOUS
    <2>. QED BY <1>4, <1>5, <2>1, FS_Subset, FS_CardinalityType
  <1>8. Cardinality(L) <= Cardinality(L \ B) + Points
    BY <1>0, <1>3, <1>4, <1>5, <1>6, <1>7
  <1>. QED BY <1>7, <1>8 DEF B, I

\* One more restart covers one more budget.
LEMMA RestartCovers ==
  ASSUME NEW f \in Nat
  PROVE  /\ Points \in Nat /\ Points * f \in Nat
         /\ Points * (f + 1) = Points * f + Points
  <1>1. Points \in Nat
    BY GatewayAssumption
  <1>. QED BY <1>1

LEMMA LimitStutter ==
  ASSUME LimitTypes, PointsAccounted, UNCHANGED <<hits, old, admitted, forgot>>,
         redisUp' \in BOOLEAN, outages' \in Nat
  PROVE  LimitTypes' /\ PointsAccounted'
  BY DEF LimitTypes, PointsAccounted, Given

\* What the stores may have given only grows.
LEMMA GivenGrows ==
  ASSUME LimitTypes, PointsAccounted, Given \subseteq Given', UNCHANGED <<admitted, forgot>>
  PROVE  PointsAccounted'
  <1>1. Given \in SUBSET AllPoints /\ Given' \in SUBSET AllPoints
    BY GivenIs
  <1>2. /\ Cardinality(Given) \in Nat /\ Cardinality(Given') \in Nat
        /\ Cardinality(Given) <= Cardinality(Given')
    BY <1>1, PointsFinite, FS_Subset
  <1>3. admitted \in Nat /\ Points * forgot \in Nat
    BY RestartCovers DEF LimitTypes
  <1>4. Points * forgot' = Points * forgot
    OBVIOUS
  <1>5. admitted <= Points * forgot + Cardinality(Given)
    BY DEF PointsAccounted
  <1>. HIDE DEF Given
  <1>6. admitted' <= Points * forgot' + Cardinality(Given')
    BY <1>2, <1>3, <1>4, <1>5
  <1>. QED BY <1>6 DEF PointsAccounted, Given

\* A window that is older than the span makes room for a new one.
LEMMA WindowKeeps ==
  ASSUME LimitTypes, PointsAccounted, NEW s \in Stores, WindowEnds(s)
  PROVE  LimitTypes' /\ PointsAccounted'
  <1>1. /\ hits' = [hits EXCEPT ![s] = 0] /\ old' = old \ {s} /\ s \in old
        /\ UNCHANGED <<redisUp, outages, admitted, forgot>>
        /\ hits \in [Stores -> 0 .. Points] /\ Points \in Nat
    BY GatewayAssumption DEF WindowEnds, LimitTypes
  <1>2. LimitTypes'
    BY <1>1 DEF LimitTypes
  <1>3. ASSUME NEW v \in Stores, NEW i \in 1 .. 2 * Points, i <= Spent(v, hits, old)
        PROVE  i <= Spent(v, hits', old')
    BY <1>1, <1>3 DEF Spent
  <1>4. Given \subseteq Given'
    BY <1>3, GivenIs DEF AllPoints
  <1>. QED BY <1>1, <1>2, <1>4, GivenGrows

LEMMA ForgetKeeps ==
  ASSUME LimitTypes, PointsAccounted, NEW s \in Stores, Forget(s), UNCHANGED admitted,
         redisUp' \in BOOLEAN, outages' \in Nat
  PROVE  LimitTypes' /\ PointsAccounted'
  <1>1. /\ hits' = [hits EXCEPT ![s] = 0] /\ old' = old \ {s}
        /\ forgot' = IF hits[s] = 0 THEN forgot ELSE forgot + 1
        /\ hits \in [Stores -> 0 .. Points] /\ Points \in Nat /\ old \subseteq Stores
        /\ admitted \in Nat /\ forgot \in Nat
    BY GatewayAssumption DEF Forget, LimitTypes
  <1>2. LimitTypes'
    <2>1. forgot' \in Nat
      BY <1>1
    <2>. QED BY <1>1, <2>1 DEF LimitTypes
  <1>3. CASE hits[s] = 0
    <2>1. ASSUME NEW v \in Stores, NEW i \in 1 .. 2 * Points, i <= Spent(v, hits, old)
          PROVE  i <= Spent(v, hits', old')
      BY <1>1, <1>3, <2>1 DEF Spent
    <2>2. Given \subseteq Given'
      BY <2>1, GivenIs DEF AllPoints
    <2>. QED BY <1>1, <1>2, <1>3, <2>2, GivenGrows
  <1>4. CASE hits[s] # 0
    <2>. DEFINE M == Given \ ({s} \X (Points + 1 .. 2 * Points))
    <2>1. Given \in SUBSET AllPoints /\ Given' \in SUBSET AllPoints
      BY GivenIs
    <2>2. M \in SUBSET Given'
      <3>1. ASSUME NEW v \in Stores, NEW i \in 1 .. 2 * Points, i <= Spent(v, hits, old),
                   ~(v = s /\ i \in Points + 1 .. 2 * Points)
            PROVE  i <= Spent(v, hits', old')
        <4>1. CASE v = s
          <5>1. i <= Points
            BY <1>1, <3>1, <4>1
          <5>. QED BY <1>1, <4>1, <5>1 DEF Spent
        <4>2. CASE v # s
          BY <1>1, <3>1, <4>2 DEF Spent
        <4>. QED BY <4>1, <4>2
      <3>2. ASSUME NEW g \in M
            PROVE  g \in Given'
        <4>1. /\ g[1] \in Stores /\ g[2] \in 1 .. 2 * Points /\ g = <<g[1], g[2]>>
              /\ g[2] <= Spent(g[1], hits, old) /\ g \in AllPoints
          BY GivenIs DEF AllPoints
        <4>2. ~(g[1] = s /\ g[2] \in Points + 1 .. 2 * Points)
          BY <4>1
        <4>. QED BY <3>1, <4>1, <4>2, GivenIs
      <3>. QED BY <3>2
    <2>3. /\ Cardinality(M) \in Nat /\ Cardinality(Given) <= Cardinality(M) + Points
      BY <2>1, PointsForgotten
    <2>4. /\ Cardinality(Given) \in Nat /\ Cardinality(Given') \in Nat
          /\ Cardinality(M) <= Cardinality(Given')
      BY <2>1, <2>2, PointsFinite, FS_Subset
    <2>5. admitted <= Points * forgot + Cardinality(Given)
      BY DEF PointsAccounted
    <2>6. Points * forgot \in Nat /\ Points * forgot' = Points * forgot + Points
      BY <1>1, <1>4, RestartCovers
    <2>. HIDE DEF M, Given
    <2>7. admitted' <= Points * forgot' + Cardinality(Given')
      BY <1>1, <2>3, <2>4, <2>5, <2>6
    <2>. QED BY <1>2, <2>7 DEF PointsAccounted, Given
  <1>. QED BY <1>3, <1>4

LEMMA SpanKeeps ==
  ASSUME LimitTypes, NewSpan
  PROVE  LimitTypes' /\ PointsAccounted'
  <1>1. LimitTypes'
    BY DEF LimitTypes, NewSpan
  <1>2. Given' \in SUBSET AllPoints
    BY GivenIs
  <1>3. Cardinality(Given') \in Nat
    BY <1>2, PointsFinite
  <1>4. admitted' = 0 /\ forgot' = 0
    BY DEF NewSpan
  <1>5. Points * forgot' \in Nat
    BY <1>4, RestartCovers
  <1>. HIDE DEF Given
  <1>6. admitted' <= Points * forgot' + Cardinality(Given')
    BY <1>3, <1>4, <1>5
  <1>. QED BY <1>1, <1>6 DEF PointsAccounted, Given

LEMMA ConsumeKeeps ==
  ASSUME LimitTypes, PointsAccounted, NEW r, req[r].pod \in Pods, Consume(r)
  PROVE  LimitTypes' /\ PointsAccounted'
  <1>. DEFINE s == StoreOf(r)
  <1>1. /\ s \in Stores /\ Points \in Nat /\ hits \in [Stores -> 0 .. Points]
        /\ admitted \in Nat /\ forgot \in Nat /\ UNCHANGED <<redisUp, outages, old, forgot>>
    BY GatewayAssumption DEF LimitTypes, StoreOf, Stores, Consume
  <1>2. CASE UNCHANGED <<hits, admitted>>
    BY <1>1, <1>2, LimitStutter DEF LimitTypes
  <1>3. CASE /\ hits[s] < Points /\ hits' = [hits EXCEPT ![s] = @ + 1]
             /\ admitted' = admitted + 1
    <2>. HIDE DEF s
    <2>1. hits[s] + 1 \in 0 .. Points
      BY <1>1, <1>3
    <2>2. LimitTypes'
      BY <1>1, <1>3, <2>1 DEF LimitTypes
    <2>. DEFINE n == Spent(s, hits, old) + 1
    <2>3. n \in 1 .. 2 * Points /\ Spent(s, hits', old') = n /\ Spent(s, hits, old) = n - 1
      BY <1>1, <1>3, <2>1 DEF Spent
    <2>4. \A v \in Stores \ {s} : Spent(v, hits', old') = Spent(v, hits, old)
      BY <1>1, <1>3 DEF Spent
    <2>5. \A v \in Stores : Spent(v, hits, old) \in Int
      BY <1>1 DEF Spent
    <2>. HIDE DEF n
    <2>6. Given' = Given \cup {<<s, n>>} /\ <<s, n>> \notin Given
      <3>1. ASSUME NEW v \in Stores, NEW i \in 1 .. 2 * Points
            PROVE  i <= Spent(v, hits', old') <=> i <= Spent(v, hits, old) \/ (v = s /\ i = n)
        BY <1>1, <2>3, <2>4, <2>5
      <3>2. <<s, n>> \in AllPoints /\ ~(n <= n - 1)
        BY <1>1, <2>3 DEF AllPoints
      <3>3. ASSUME NEW g \in AllPoints
            PROVE  g[2] <= Spent(g[1], hits', old')
                     <=> g[2] <= Spent(g[1], hits, old) \/ g = <<s, n>>
        <4>1. g[1] \in Stores /\ g[2] \in 1 .. 2 * Points /\ g = <<g[1], g[2]>>
          BY DEF AllPoints
        <4>. QED BY <3>1, <4>1
      <3>. QED BY <2>3, <3>2, <3>3, GivenIs
    <2>7. Given \in SUBSET AllPoints
      BY GivenIs
    <2>8. IsFiniteSet(Given) /\ Cardinality(Given) \in Nat
      BY <2>7, PointsFinite
    <2>9. Cardinality(Given') = Cardinality(Given) + 1
      BY <2>6, <2>8, FS_AddElement
    <2>10. admitted <= Points * forgot + Cardinality(Given) /\ Points * forgot \in Nat
      BY <1>1, RestartCovers DEF PointsAccounted
    <2>11. Points * forgot' = Points * forgot
      BY <1>1
    <2>. HIDE DEF Given
    <2>12. admitted' <= Points * forgot' + Cardinality(Given')
      BY <1>1, <1>3, <2>8, <2>9, <2>10, <2>11
    <2>. QED BY <2>2, <2>12 DEF PointsAccounted, Given
  <1>. QED BY <1>2, <1>3 DEF Consume

-----------------------------------------------------------------------------
(***************************************************************************)
(* Requests and keys.                                                      *)
(***************************************************************************)
KeyRows == [user : UserIds \cup {None}, network : Networks \cup {None},
            st : {"live", "expired", "revoked"}]

Requested == [pc : {"idle", "limit", "route"}, pod : Pods \cup {None},
              key : KeyIds \cup {None}, user : UserIds \cup {None},
              header : Networks \cup {None}]

RouteTypes ==
    /\ keys \in [KeyIds -> KeyRows]
    /\ req \in [Reqs -> Requested]
    /\ act \subseteq [key : KeyIds \cup {None}, user : UserIds, net : Networks]

RouteInv == RouteTypes /\ RequestsMatch /\ KeysMatch /\ ActsAreAuthorised

LEMMA TypeParts ==
  /\ TypeOK <=> SignInTypeOK /\ RouteTypes /\ LimitTypes
  /\ TypeOK' <=> SignInTypeOK' /\ RouteTypes' /\ LimitTypes'
  <1>1. TypeOK <=> SignInTypeOK /\ RouteTypes /\ LimitTypes
    BY Zenon DEF TypeOK, RouteTypes, LimitTypes, KeyRows, Requested
  <1>2. TypeOK' <=> SignInTypeOK' /\ RouteTypes' /\ LimitTypes'
    BY Zenon DEF TypeOK, RouteTypes, LimitTypes, KeyRows, Requested
  <1>. QED BY <1>1, <1>2

Known(u, ms) == u \in ms

\* Whom a key or a session speaks for: RequestsMatch of one request.
SpeaksFor(k, u, ks, ms) ==
    u \in UserIds /\ (k # None => ks[k].user = u) /\ Known(u, ms)

ReqRight(q, ks, ms) ==
    q.pc # "idle" => q.pod \in Pods /\ SpeaksFor(q.key, q.user, ks, ms)

LEMMA RequestsAreLocal ==
  /\ RequestsMatch <=> \A r \in Reqs : ReqRight(req[r], keys, Members)
  /\ RequestsMatch' <=> \A r \in Reqs : ReqRight(req'[r], keys', Members')
  BY DEF RequestsMatch, ReqRight, SpeaksFor, Known

LEMMA KeysAreLocal ==
  /\ KeysMatch <=>
       AdminRow /\ \A k \in KeyIds : keys[k].user # None => Known(keys[k].user, Members)
  /\ KeysMatch' <=>
       AdminRow' /\ \A k \in KeyIds : keys'[k].user # None => Known(keys'[k].user, Members')
  BY DEF KeysMatch, Known

\* What a route did: ActsAreAuthorised of one act.
ActRight(w, ks, ms) ==
    /\ w.net \in Enabled /\ Known(w.user, ms)
    /\ w.key # None => ks[w.key].user = w.user /\ ks[w.key].network = w.net

LEMMA ActsAreLocal ==
  /\ ActsAreAuthorised <=> \A w \in act : ActRight(w, keys, Members)
  /\ ActsAreAuthorised' <=> \A w \in act' : ActRight(w, keys', Members')
  BY DEF ActsAreAuthorised, ActRight, Known

\* Members and the users and networks of keys, once there, stay.
Lasting ==
    /\ Members \subseteq Members'
    /\ \A k \in KeyIds : keys[k].user # None =>
         keys'[k].user = keys[k].user /\ keys'[k].network = keys[k].network

LEMMA MembersStay ==
  ASSUME UNCHANGED <<sessions, bootKey>>
  PROVE  Members' = Members
  BY DEF Members

LEMMA AdminRowStays ==
  ASSUME RouteInv, UNCHANGED bootKey, keys'[AdminKey].user = keys[AdminKey].user
  PROVE  AdminRow'
  BY DEF RouteInv, KeysMatch, AdminRow

LEMMA KnownLasts ==
  ASSUME Lasting, NEW u, Known(u, Members)
  PROVE  Known(u, Members')
  BY DEF Lasting, Known

LEMMA SpeaksLasts ==
  ASSUME Lasting, NEW k \in KeyIds \cup {None}, NEW u, SpeaksFor(k, u, keys, Members)
  PROVE  SpeaksFor(k, u, keys', Members')
  BY SignInAssumption, KnownLasts DEF Lasting, SpeaksFor

LEMMA ActLasts ==
  ASSUME Lasting, NEW w \in [key : KeyIds \cup {None}, user : UserIds, net : Networks],
         ActRight(w, keys, Members)
  PROVE  ActRight(w, keys', Members')
  <1>1. Known(w.user, Members')
    BY KnownLasts DEF ActRight
  <1>. QED BY <1>1, SignInAssumption DEF Lasting, ActRight

\* A step under which what is there lasts keeps the requests it leaves alone, the
\* keys and the acts right.
LEMMA RouteLasts ==
  ASSUME RouteInv, Lasting, AdminRow', keys' \in [KeyIds -> KeyRows],
         req' \in [Reqs -> Requested], act' \subseteq act,
         \A k \in KeyIds : keys'[k].user = keys[k].user \/ Known(keys'[k].user, Members'),
         \A r \in Reqs : \/ req'[r] \in {req[r], NoReq}
                         \/ ReqRight(req'[r], keys', Members')
  PROVE  RouteInv'
  <1>1. req \in [Reqs -> Requested]
    BY DEF RouteInv, RouteTypes
  <1>2. ASSUME NEW r \in Reqs
        PROVE  ReqRight(req'[r], keys', Members')
    <2>1. CASE req'[r] = req[r]
      <3>1. ReqRight(req[r], keys, Members)
        BY RequestsAreLocal DEF RouteInv
      <3>2. req[r].key \in KeyIds \cup {None}
        BY <1>1 DEF Requested
      <3>. QED BY <2>1, <3>1, <3>2, SpeaksLasts DEF ReqRight
    <2>2. CASE req'[r] = NoReq
      BY <2>2 DEF NoReq, ReqRight
    <2>. QED BY <2>1, <2>2
  <1>3. RequestsMatch'
    BY <1>2, RequestsAreLocal
  <1>4. ActsAreAuthorised'
    <2>1. ASSUME NEW w \in act'
          PROVE  ActRight(w, keys', Members')
      <3>1. w \in [key : KeyIds \cup {None}, user : UserIds, net : Networks]
        BY DEF RouteInv, RouteTypes
      <3>2. ActRight(w, keys, Members)
        BY ActsAreLocal DEF RouteInv
      <3>. QED BY <3>1, <3>2, ActLasts
    <2>. QED BY <2>1, ActsAreLocal
  <1>5. RouteTypes'
    BY DEF RouteInv, RouteTypes
  <1>6. KeysMatch'
    <2>1. ASSUME NEW k \in KeyIds, keys'[k].user # None
          PROVE  Known(keys'[k].user, Members')
      <3>1. CASE keys'[k].user = keys[k].user
        <4>1. Known(keys[k].user, Members)
          BY <2>1, <3>1, KeysAreLocal DEF RouteInv
        <4>. QED BY <3>1, <4>1, KnownLasts
      <3>. QED BY <3>1
    <2>. QED BY <2>1, KeysAreLocal
  <1>. QED BY <1>3, <1>4, <1>5, <1>6 DEF RouteInv

LEMMA NoReqType == NoReq \in Requested
  BY DEF NoReq, Requested

\* A request is admitted as the key or the session says.
LEMMA AdmitKeeps ==
  ASSUME RouteInv, NEW r \in Reqs, NEW p \in Pods, NEW k \in KeyIds \cup {None},
         NEW u, NEW h \in Networks \cup {None}, Admit(r, p, k, u, h),
         SpeaksFor(k, u, keys, Members)
  PROVE  RouteInv'
  <1>. DEFINE q == [pc |-> "limit", pod |-> p, key |-> k, user |-> u, header |-> h]
  <1>1. /\ req' = [req EXCEPT ![r] = q] /\ act' = {}
        /\ UNCHANGED <<sessions, bootKey, keys>>
    BY DEF Admit, signInVars
  <1>2. q \in Requested /\ ReqRight(q, keys, Members)
    BY DEF Requested, ReqRight, SpeaksFor
  <1>. HIDE DEF q
  <1>3. req \in [Reqs -> Requested] /\ keys \in [KeyIds -> KeyRows]
    BY DEF RouteInv, RouteTypes
  <1>4. req' \in [Reqs -> Requested]
        /\ \A v \in Reqs : req'[v] = req[v] \/ ReqRight(req'[v], keys', Members')
    BY <1>1, <1>2, <1>3, MembersStay
  <1>5. Lasting /\ AdminRow'
    BY <1>1, MembersStay, AdminRowStays DEF Lasting
  <1>. QED BY <1>1, <1>3, <1>4, <1>5, RouteLasts

LEMMA ResolveKeeps ==
  ASSUME RouteInv, SignInInv, NEW r \in Reqs, NEW p \in Pods, NEW h \in Networks \cup {None},
         \/ \E b \in Browsers : resolveSession(r, p, b, h)
         \/ \E k \in KeyIds : resolveApiKey(r, p, k, h)
  PROVE  RouteInv'
  <1>1. ASSUME NEW b \in Browsers, resolveSession(r, p, b, h)
        PROVE  RouteInv'
    <2>1. PICK s \in sessions : s.user = tab[b].user
      BY <1>1 DEF resolveSession, SignInInv, BindingsMatch
    <2>2. s.user \in UserIds
      BY DEF SignInInv, SignInTypeOK
    <2>3. SpeaksFor(None, tab[b].user, keys, Members)
      BY <2>1, <2>2, SignInAssumption DEF SpeaksFor, Known, Members
    <2>4. Admit(r, p, None, tab[b].user, h)
      BY <1>1 DEF resolveSession
    <2>. QED BY <2>3, <2>4, AdmitKeeps
  <1>2. ASSUME NEW k \in KeyIds, resolveApiKey(r, p, k, h)
        PROVE  RouteInv'
    <2>1. keys[k].user \in UserIds /\ keys[k].user # None
      BY <1>2, GatewayAssumption DEF resolveApiKey, RouteInv, RouteTypes, KeyRows
    <2>2. Known(keys[k].user, Members)
      BY <2>1, KeysAreLocal DEF RouteInv
    <2>3. SpeaksFor(k, keys[k].user, keys, Members)
      BY <2>1, <2>2 DEF SpeaksFor
    <2>4. Admit(r, p, k, keys[k].user, h)
      BY <1>2 DEF resolveApiKey
    <2>. QED BY <2>3, <2>4, AdmitKeeps
  <1>. QED BY <1>1, <1>2

\* A route acts on the network of the key, or of the header where there is none,
\* or on the default.
LEMMA RouteKeeps ==
  ASSUME RouteInv, NEW r \in Reqs, Route(r)
  PROVE  RouteInv'
  <1>. DEFINE q == req[r]
  <1>1. /\ req' = [req EXCEPT ![r] = NoReq] /\ UNCHANGED <<sessions, bootKey, keys>>
        /\ act' = {[key |-> q.key, user |-> q.user, net |-> n] : n \in requestNetwork(r)}
        /\ q.pc = "route"
    BY DEF Route, Answer, signInVars
  <1>2. /\ req \in [Reqs -> Requested] /\ keys \in [KeyIds -> KeyRows] /\ q \in Requested
    BY DEF RouteInv, RouteTypes
  <1>3. /\ q.key \in KeyIds \cup {None} /\ q.user \in UserIds
        /\ SpeaksFor(q.key, q.user, keys, Members)
    <2>1. ReqRight(q, keys, Members)
      BY RequestsAreLocal DEF RouteInv
    <2>. QED BY <1>1, <1>2, <2>1 DEF ReqRight, SpeaksFor, Requested
  <1>4. ASSUME NEW n \in requestNetwork(r)
        PROVE  n \in Enabled /\ n \in Networks /\ (q.key # None => keys[q.key].network = n)
    BY GatewayAssumption DEF requestNetwork
  <1>. HIDE DEF q
  <1>5. ASSUME NEW w \in act'
        PROVE  /\ w \in [key : KeyIds \cup {None}, user : UserIds, net : Networks]
               /\ ActRight(w, keys', Members')
    <2>1. PICK n \in requestNetwork(r) : w = [key |-> q.key, user |-> q.user, net |-> n]
      BY <1>1
    <2>2. n \in Enabled /\ n \in Networks /\ (q.key # None => keys[q.key].network = n)
      BY <1>4 DEF q
    <2>. QED BY <1>1, <1>3, <2>1, <2>2, MembersStay DEF ActRight, SpeaksFor
  <1>6. req' \in [Reqs -> Requested]
    BY <1>1, <1>2, NoReqType
  <1>7. RouteTypes'
    BY <1>1, <1>2, <1>5, <1>6 DEF RouteTypes
  <1>8. ActsAreAuthorised' /\ KeysMatch'
    BY <1>1, <1>5, ActsAreLocal, KeysAreLocal, MembersStay, AdminRowStays DEF RouteInv
  <1>9. ASSUME NEW v \in Reqs
        PROVE  ReqRight(req'[v], keys', Members')
    <2>1. ReqRight(req[v], keys, Members) /\ ReqRight(NoReq, keys, Members)
      BY RequestsAreLocal DEF RouteInv, ReqRight, NoReq
    <2>. QED BY <1>1, <1>2, <2>1, MembersStay
  <1>10. RequestsMatch'
    BY <1>9, RequestsAreLocal
  <1>. QED BY <1>7, <1>8, <1>10 DEF RouteInv

LEMMA KeysKeep ==
  ASSUME RouteInv, NEW r \in Reqs, NEW k \in KeyIds,
         RevokeKey(r, k) \/ \E n \in Networks : IssueKey(r, k, n)
  PROVE  RouteInv'
  <1>1. req' = [req EXCEPT ![r] = NoReq] /\ UNCHANGED <<sessions, bootKey, act>>
    BY DEF RevokeKey, IssueKey, Answer, signInVars
  <1>2. req \in [Reqs -> Requested] /\ keys \in [KeyIds -> KeyRows]
    BY DEF RouteInv, RouteTypes
  <1>3. req' \in [Reqs -> Requested] /\ \A v \in Reqs : req'[v] \in {req[v], NoReq}
    BY <1>1, <1>2, NoReqType
  <1>4. /\ keys' \in [KeyIds -> KeyRows] /\ Lasting
        /\ keys'[AdminKey].user = keys[AdminKey].user
        /\ \A i \in KeyIds : keys'[i].user = keys[i].user \/ Known(keys'[i].user, Members')
    <2>1. CASE RevokeKey(r, k)
      BY <1>1, <1>2, <2>1, MembersStay, GatewayAssumption DEF RevokeKey, KeyRows, Lasting
    <2>2. CASE \E n \in Networks : IssueKey(r, k, n)
      <3>1. PICK n \in Networks : IssueKey(r, k, n)
        BY <2>2
      <3>2. req[r].user \in UserIds \cup {None} /\ Known(req[r].user, Members')
        <4>1. ReqRight(req[r], keys, Members) /\ req[r].pc = "route"
          BY <3>1, RequestsAreLocal DEF RouteInv, IssueKey
        <4>. QED BY <1>1, <1>2, <4>1, MembersStay DEF Requested, ReqRight, SpeaksFor
      <3>3. /\ keys[k].user = None /\ k # AdminKey
            /\ keys' = [keys EXCEPT ![k] = [user |-> req[r].user, network |-> n, st |-> "live"]]
        BY <3>1 DEF IssueKey, NoKey
      <3>. QED BY <1>1, <1>2, <3>2, <3>3, MembersStay, GatewayAssumption DEF KeyRows, Lasting
    <2>. QED BY <2>1, <2>2
  <1>. QED BY <1>1, <1>3, <1>4, AdminRowStays, RouteLasts

-----------------------------------------------------------------------------
(***************************************************************************)
(* The inductive invariant.                                                *)
(***************************************************************************)
LEMMA InvParts ==
  /\ GatewayInv <=> SignInInv /\ RouteInv /\ LimitTypes /\ PointsAccounted
  /\ GatewayInv' <=> SignInInv' /\ RouteInv' /\ LimitTypes' /\ PointsAccounted'
  BY TypeParts DEF GatewayInv, SignInInv, RouteInv

LEMMA GatewayInit ==
  ASSUME Init
  PROVE  GatewayInv
  <1>0. EmptyDb /\ nonces = 0 /\ logins = 0 /\ GateInit /\ outages = 0
    BY DEF Init, SignInInit
  <1>1. SignInTypeOK
    BY <1>0, SignInAssumption DEF EmptyDb, SignInTypeOK, NoTab, NoBoot
  <1>2. SessionsAgree
    BY <1>0 DEF EmptyDb, SessionsAgree
  <1>3. BindingsMatch
    BY <1>0 DEF EmptyDb, BindingsMatch, NoTab
  <1>4. RouteTypes /\ LimitTypes
    BY <1>0, GatewayAssumption, NoReqType DEF GateInit, NoRequests, RouteTypes, LimitTypes, KeyRows, NoKey
  <1>5. RequestsMatch /\ KeysMatch /\ ActsAreAuthorised
    BY <1>0, GatewayAssumption
    DEF GateInit, NoRequests, RequestsMatch, KeysMatch, AdminRow, ActsAreAuthorised, NoReq, NoKey
  <1>6. PointsAccounted
    <2>1. Given \in SUBSET AllPoints
      BY GivenIs
    <2>2. Cardinality(Given) \in Nat /\ admitted = 0 /\ forgot = 0
      BY <1>0, <2>1, PointsFinite DEF GateInit, NoRequests
    <2>3. Points * forgot \in Nat
      BY <2>2, RestartCovers
    <2>. HIDE DEF Given
    <2>. QED BY <2>2, <2>3 DEF PointsAccounted
  <1>. QED BY <1>1, <1>2, <1>3, <1>4, <1>5, <1>6, TypeParts DEF GatewayInv

\* A step of users and pods leaves the requests alone, and the keys but for the
\* admin's.
LEMMA PeopleKeep ==
  ASSUME GatewayInv, SignInNext, Provision, UNCHANGED <<req, act, limitVars>>
  PROVE  GatewayInv'
  <1>1. SignInInv /\ RouteInv /\ LimitTypes /\ PointsAccounted
    BY InvParts
  <1>2. SignInInv' /\ Persist
    BY <1>1, SignInKeeps
  <1>3. UNCHANGED <<req, act, redisUp, outages, hits, old, admitted, forgot>>
    BY DEF limitVars
  <1>4. Members \subseteq Members'
    BY <1>2 DEF Persist, Members
  <1>5. RouteInv'
    <2>1. keys \in [KeyIds -> KeyRows] /\ AdminRow
      BY <1>1 DEF RouteInv, RouteTypes, KeysMatch
    <2>2. CASE bootKey' = bootKey
      <3>1. keys' = keys
        BY <2>2 DEF Provision
      <3>2. Lasting /\ AdminRow'
        BY <1>1, <1>4, <2>2, <3>1, AdminRowStays DEF Lasting
      <3>. QED BY <1>1, <1>3, <2>1, <3>1, <3>2, RouteLasts DEF RouteInv, RouteTypes
    <2>3. CASE bootKey' # bootKey
      <3>1. bootKey = None /\ bootKey' # None /\ bootKey' \in UserIds
        BY <1>2, <2>3 DEF Persist, SignInInv, SignInTypeOK
      <3>2. keys' = [keys EXCEPT ![AdminKey] = [user |-> bootKey', network |-> AdminNet,
                                                st |-> "live"]]
        BY <2>3 DEF Provision
      <3>3. keys[AdminKey].user = None /\ Known(bootKey', Members')
        BY <2>1, <3>1 DEF AdminRow, Known, Members
      <3>4. /\ keys' \in [KeyIds -> KeyRows] /\ Lasting /\ AdminRow'
            /\ \A k \in KeyIds : keys'[k].user = keys[k].user \/ Known(keys'[k].user, Members')
        BY <1>4, <2>1, <3>1, <3>2, <3>3, GatewayAssumption DEF KeyRows, Lasting, AdminRow
      <3>. QED BY <1>1, <1>3, <3>4, RouteLasts DEF RouteInv, RouteTypes
    <2>. QED BY <2>2, <2>3
  <1>6. LimitTypes' /\ PointsAccounted'
    BY <1>1, <1>3, LimitStutter DEF LimitTypes
  <1>. QED BY <1>2, <1>5, <1>6, InvParts

\* The other way round: a step of requests leaves users and pods alone.
LEMMA PeopleStutter ==
  ASSUME SignInInv, UNCHANGED signInVars
  PROVE  SignInInv'
  BY DEF SignInInv, SignInTypeOK, SessionsAgree, BindingsMatch, signInVars

LEMMA RouteStutter ==
  ASSUME RouteInv, UNCHANGED <<signInVars, keys, req, act>>
  PROVE  RouteInv'
  <1>1. UNCHANGED <<sessions, bootKey, keys, req, act>>
    BY DEF signInVars
  <1>2. Members' = Members
    BY <1>1, MembersStay
  <1>. QED BY <1>1, <1>2 DEF RouteInv, RouteTypes, RequestsMatch, KeysMatch, AdminRow,
                             ActsAreAuthorised

LEMMA RequestsKeep ==
  ASSUME GatewayInv, Requests
  PROVE  GatewayInv'
  <1>1. SignInInv /\ RouteInv /\ LimitTypes /\ PointsAccounted
    BY InvParts
  <1>3. UNCHANGED signInVars
    BY DEF Requests, Consume, TooMany, Route, IssueKey, RevokeKey, resolveSession,
           resolveApiKey, Admit
  <1>4. SignInInv'
    BY <1>1, <1>3, PeopleStutter
  <1>5. PICK r \in Reqs :
          \/ Consume(r) \/ TooMany(r) \/ Route(r)
          \/ \E k \in KeyIds, n \in Networks : IssueKey(r, k, n)
          \/ \E k \in KeyIds : RevokeKey(r, k)
          \/ \E p \in Pods, b \in Browsers, h \in Networks \cup {None} :
                resolveSession(r, p, b, h)
          \/ \E p \in Pods, k \in KeyIds, h \in Networks \cup {None} :
                resolveApiKey(r, p, k, h)
    BY Zenon DEF Requests
  <1>6. CASE Consume(r)
    <2>1. /\ req' = [req EXCEPT ![r].pc = "route"] /\ UNCHANGED <<keys, act, sessions, bootKey>>
          /\ req[r].pc = "limit"
      BY <1>6 DEF Consume, signInVars
    <2>2. /\ req \in [Reqs -> Requested] /\ keys \in [KeyIds -> KeyRows]
          /\ ReqRight(req[r], keys, Members)
      BY <1>1, RequestsAreLocal DEF RouteInv, RouteTypes
    <2>3. req[r].pod \in Pods
      BY <2>1, <2>2 DEF ReqRight
    <2>4. LimitTypes' /\ PointsAccounted'
      BY <1>1, <1>6, <2>3, ConsumeKeeps
    <2>5. /\ req' \in [Reqs -> Requested]
          /\ \A v \in Reqs : req'[v] = req[v] \/ ReqRight(req'[v], keys', Members')
      <3>. DEFINE q == [req[r] EXCEPT !.pc = "route"]
      <3>1. q \in Requested /\ ReqRight(q, keys, Members)
        BY <2>1, <2>2 DEF Requested, ReqRight
      <3>2. req' = [req EXCEPT ![r] = q]
        BY <2>1, <2>2
      <3>. HIDE DEF q
      <3>. QED BY <2>1, <2>2, <3>1, <3>2, MembersStay
    <2>6. Lasting /\ AdminRow'
      BY <1>1, <2>1, MembersStay, AdminRowStays DEF Lasting
    <2>7. RouteInv'
      BY <1>1, <2>1, <2>2, <2>5, <2>6, RouteLasts
    <2>. QED BY <1>4, <2>4, <2>7, InvParts
  <1>7. CASE ~Consume(r)
    <2>1. UNCHANGED limitVars
      BY <1>5, <1>7 DEF TooMany, Route, IssueKey, RevokeKey, resolveSession, resolveApiKey, Admit
    <2>2. LimitTypes' /\ PointsAccounted'
      BY <1>1, <2>1, LimitStutter DEF limitVars, LimitTypes
    <2>3. RouteInv'
      <3>1. CASE TooMany(r)
        <4>1. req' = [req EXCEPT ![r] = NoReq] /\ UNCHANGED <<keys, act, sessions, bootKey>>
          BY <3>1 DEF TooMany, Answer, signInVars
        <4>2. req \in [Reqs -> Requested] /\ keys \in [KeyIds -> KeyRows]
          BY <1>1 DEF RouteInv, RouteTypes
        <4>3. req' \in [Reqs -> Requested] /\ \A v \in Reqs : req'[v] \in {req[v], NoReq}
          BY <4>1, <4>2, NoReqType
        <4>4. Lasting /\ AdminRow'
          BY <1>1, <4>1, MembersStay, AdminRowStays DEF Lasting
        <4>. QED BY <1>1, <4>1, <4>2, <4>3, <4>4, RouteLasts
      <3>2. CASE Route(r)
        BY <1>1, <3>2, RouteKeeps
      <3>3. CASE \E k \in KeyIds, n \in Networks : IssueKey(r, k, n)
        BY <1>1, <3>3, KeysKeep
      <3>4. CASE \E k \in KeyIds : RevokeKey(r, k)
        BY <1>1, <3>4, KeysKeep
      <3>5. CASE \E p \in Pods, b \in Browsers, h \in Networks \cup {None} :
                   resolveSession(r, p, b, h)
        BY <1>1, <3>5, ResolveKeeps
      <3>6. CASE \E p \in Pods, k \in KeyIds, h \in Networks \cup {None} :
                   resolveApiKey(r, p, k, h)
        BY <1>1, <3>6, ResolveKeeps
      <3>. QED BY <1>5, <1>7, <3>1, <3>2, <3>3, <3>4, <3>5, <3>6, Zenon
    <2>. QED BY <1>4, <2>2, <2>3, InvParts
  <1>. QED BY <1>6, <1>7

LEMMA ExpiryKeeps ==
  ASSUME GatewayInv, NEW k \in KeyIds, KeyExpires(k)
  PROVE  GatewayInv'
  <1>1. SignInInv /\ RouteInv /\ LimitTypes /\ PointsAccounted
    BY InvParts
  <1>2. /\ keys' = [keys EXCEPT ![k].st = "expired"]
        /\ UNCHANGED <<signInVars, req, act, limitVars>>
    BY DEF KeyExpires
  <1>3. keys \in [KeyIds -> KeyRows] /\ req \in [Reqs -> Requested]
    BY <1>1 DEF RouteInv, RouteTypes
  <1>4. /\ keys' \in [KeyIds -> KeyRows]
        /\ \A i \in KeyIds : keys'[i].user = keys[i].user /\ keys'[i].network = keys[i].network
    BY <1>2, <1>3 DEF KeyRows
  <1>5. UNCHANGED <<req, act, sessions, bootKey>>
    BY <1>2 DEF signInVars
  <1>8. Lasting /\ AdminRow'
    BY <1>1, <1>4, <1>5, MembersStay, AdminRowStays, GatewayAssumption DEF Lasting
  <1>6. RouteInv'
    BY <1>1, <1>3, <1>4, <1>5, <1>8, RouteLasts
  <1>7. LimitTypes' /\ PointsAccounted'
    BY <1>1, <1>2, LimitStutter DEF limitVars, LimitTypes
  <1>. QED BY <1>1, <1>2, <1>6, <1>7, PeopleStutter, InvParts

\* Redis and the clock leave users, requests and keys alone.
LEMMA LimiterKeeps ==
  ASSUME GatewayInv, UNCHANGED <<signInVars, keys, req, act>>,
         RedisGoes \/ RedisReturns \/ NewSpan \/ \E s \in Stores : WindowEnds(s)
  PROVE  GatewayInv'
  <1>1. SignInInv /\ RouteInv /\ LimitTypes /\ PointsAccounted
    BY InvParts
  <1>2. outages \in Nat /\ redisUp \in BOOLEAN /\ Redis \in Stores
    BY <1>1 DEF LimitTypes, Stores
  <1>3. LimitTypes' /\ PointsAccounted'
    <2>1. CASE RedisGoes
      <3>1. /\ redisUp' \in BOOLEAN /\ outages' \in Nat
            /\ UNCHANGED <<hits, old, admitted, forgot>>
        <4>1. redisUp' = FALSE /\ outages' = outages + 1 /\ UNCHANGED <<hits, old, admitted, forgot>>
          BY <2>1, Zenon DEF RedisGoes
        <4>2. redisUp' \in BOOLEAN
          BY <4>1, Zenon
        <4>3. outages' \in Nat
          BY <1>2, <4>1
        <4>. QED BY <4>1, <4>2, <4>3, Zenon
      <3>. QED BY <1>1, <3>1, LimitStutter
    <2>2. CASE RedisReturns
      <3>1. redisUp' = TRUE /\ UNCHANGED <<outages, admitted>>
        BY <2>2 DEF RedisReturns
      <3>2. CASE Forget(Redis)
        BY <1>1, <1>2, <3>1, <3>2, ForgetKeeps
      <3>3. CASE UNCHANGED <<hits, old, forgot>>
        BY <1>1, <1>2, <3>1, <3>3, LimitStutter
      <3>. QED BY <2>2, <3>2, <3>3 DEF RedisReturns
    <2>3. CASE NewSpan
      BY <1>1, <2>3, SpanKeeps
    <2>4. CASE \E s \in Stores : WindowEnds(s)
      BY <1>1, <2>4, WindowKeeps
    <2>. QED BY <2>1, <2>2, <2>3, <2>4
  <1>. QED BY <1>1, <1>3, PeopleStutter, RouteStutter, InvParts

LEMMA GatewayStep ==
  ASSUME GatewayInv, [Next]_vars
  PROVE  GatewayInv'
  <1>1. SignInInv /\ RouteInv /\ LimitTypes /\ PointsAccounted
    BY InvParts
  <1>3. CASE SignInNext /\ Provision /\ UNCHANGED <<req, act, limitVars>>
    BY <1>3, PeopleKeep
  <1>4. CASE Requests
    BY <1>4, RequestsKeep
  <1>5. CASE RedisGoes \/ RedisReturns \/ NewSpan \/ \E s \in Stores : WindowEnds(s)
    <2>1. UNCHANGED <<signInVars, keys, req, act>>
      BY <1>5 DEF RedisGoes, RedisReturns, NewSpan, WindowEnds
    <2>. QED BY <1>5, <2>1, LimiterKeeps
  <1>6. CASE \E k \in KeyIds : KeyExpires(k)
    BY <1>6, ExpiryKeeps
  <1>7. ASSUME NEW p \in Pods, PodDies(p)
        PROVE  GatewayInv'
    <2>1. SignInInv' /\ Persist
      BY <1>1, <1>7, BootKeeps DEF PodDies
    <2>2. LimitTypes' /\ PointsAccounted'
      <3>1. /\ p \in Stores /\ Forget(p) /\ UNCHANGED <<redisUp, outages, admitted>>
            /\ redisUp \in BOOLEAN /\ outages \in Nat
        BY <1>1, <1>7 DEF PodDies, Stores, LimitTypes
      <3>. QED BY <1>1, <3>1, ForgetKeeps
    <2>3. /\ UNCHANGED <<keys, act>>
          /\ req' = [r \in Reqs |-> IF req[r].pod = p THEN NoReq ELSE req[r]]
      BY <1>7 DEF PodDies
    <2>4. req \in [Reqs -> Requested] /\ keys \in [KeyIds -> KeyRows]
      BY <1>1 DEF RouteInv, RouteTypes
    <2>5. req' \in [Reqs -> Requested] /\ \A r \in Reqs : req'[r] \in {req[r], NoReq}
      BY <2>3, <2>4, NoReqType
    <2>6. Lasting /\ AdminRow'
      <3>1. UNCHANGED <<sessions, bootKey>>
        BY <1>7 DEF PodDies, PodCrash, bootVars
      <3>. QED BY <1>1, <2>3, <3>1, MembersStay, AdminRowStays DEF Lasting
    <2>7. RouteInv'
      BY <1>1, <2>3, <2>4, <2>5, <2>6, RouteLasts
    <2>. QED BY <2>1, <2>2, <2>7, InvParts
  <1>8. CASE UNCHANGED vars
    <2>1. UNCHANGED <<signInVars, keys, req, act, limitVars>>
      BY <1>8 DEF vars, gateVars
    <2>2. LimitTypes' /\ PointsAccounted'
      BY <1>1, <2>1, LimitStutter DEF limitVars, LimitTypes
    <2>. QED BY <1>1, <2>1, <2>2, PeopleStutter, RouteStutter, InvParts
  <1>. QED BY <1>3, <1>4, <1>5, <1>6, <1>7, <1>8, Zenon DEF Next

LEMMA GatewayInvariant == Spec => []GatewayInv
  BY GatewayInit, GatewayStep, PTL DEF Spec

-----------------------------------------------------------------------------
(***************************************************************************)
(* Theorems.                                                               *)
(***************************************************************************)
\* Every variable of the gateway keeps its type.
THEOREM GatewayTypeCorrect == Spec => []TypeOK
  <1>1. GatewayInv => TypeOK
    BY DEF GatewayInv
  <1>. QED BY <1>1, GatewayInvariant, PTL

\* The sessions of a wallet are of the one user bound to it, however many tabs
\* sign in at once and wherever they fail.
THEOREM WalletsHaveOneUser == Spec => []SessionsAgree
  <1>1. GatewayInv => SessionsAgree
    BY DEF GatewayInv
  <1>. QED BY <1>1, GatewayInvariant, PTL

\* Routes act for users who signed in, by wallet, GitHub or passkey, and for the
\* admin, and with a key for its user and on its network, whatever the header
\* says.
THEOREM RoutesAreAuthorised == Spec => []ActsAreAuthorised
  <1>1. GatewayInv => ActsAreAuthorised
    BY DEF GatewayInv
  <1>. QED BY <1>1, GatewayInvariant, PTL

\* A span of one duration admits two budgets of every store and one for each
\* window a restart forgets in it, whatever the outages of Redis.
THEOREM WindowsAreBounded == Spec => []BudgetHolds
  <1>1. GatewayInv => BudgetHolds
    <2>. SUFFICES ASSUME GatewayInv
                  PROVE  admitted <= Points * (2 * Cardinality(Stores) + forgot)
      BY DEF BudgetHolds
    <2>1. LimitTypes
      BY InvParts
    <2>2. Given \in SUBSET AllPoints
      BY GivenIs
    <2>3. /\ Cardinality(Given) \in Nat /\ Cardinality(Stores) \in Nat
          /\ Cardinality(Given) <= Cardinality(Stores) * (2 * Points)
      BY <2>2, PointsFinite
    <2>4. admitted \in Nat /\ forgot \in Nat /\ Points \in Nat
      BY <2>1, GatewayAssumption DEF LimitTypes
    <2>5. admitted <= Points * forgot + Cardinality(Given)
      BY DEF GatewayInv, PointsAccounted
    <2>6. ASSUME NEW n \in Nat, NEW c \in Nat, NEW f \in Nat
          PROVE  n * (2 * c + f) = n * f + c * (2 * n)
      OBVIOUS
    <2>7. Points * (2 * Cardinality(Stores) + forgot)
            = Points * forgot + Cardinality(Stores) * (2 * Points)
      BY <2>3, <2>4, <2>6
    <2>8. Points * forgot \in Nat /\ Cardinality(Stores) * (2 * Points) \in Nat
      BY <2>3, <2>4
    <2>. HIDE DEF Given
    <2>. QED BY <2>3, <2>4, <2>5, <2>7, <2>8
  <1>. QED BY <1>1, GatewayInvariant, PTL
=============================================================================
