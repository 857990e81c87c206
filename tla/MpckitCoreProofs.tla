--------------------------- MODULE MpckitCoreProofs ---------------------------
(***************************************************************************)
(* Proofs about the Move package, for any sets of wallets, credentials,    *)
(* messages, operators and accounts and any fee and roster size.           *)
(***************************************************************************)
EXTENDS MpckitCore, FiniteSetTheorems, TLAPS

\* Rosters are finite, and change size by one.
LEMMA RosterSize ==
  ASSUME NEW R \in SUBSET Creds, NEW c
  PROVE  /\ IsFiniteSet(R) /\ Cardinality(R) \in Nat
         /\ c \notin R => Cardinality(R \cup {c}) = Cardinality(R) + 1
         /\ c \in R => Cardinality(R \ {c}) = Cardinality(R) - 1
  <1>1. IsFiniteSet(Creds)
    BY RosterAssumption, FS_Union DEF Creds
  <1>2. IsFiniteSet(R)
    BY <1>1, FS_Subset
  <1>. QED BY <1>2, FS_CardinalityType, FS_AddElement, FS_RemoveElement

\* A challenge of a wallet as it stands has its parts where they belong.
LEMMA DeriveParts ==
  ASSUME TypeOK, NEW tag \in Tags, NEW w \in Wallets, NEW p \in Payloads
  PROVE  LET c == derive(tag, w, p)
         IN /\ c \in Challenges
            /\ c[1] = tag /\ c[2] = w /\ c[3] = nonce[w] /\ c[4] = p
  BY DEF derive, Challenges, TypeOK

\* The arguments of the operations are payloads.
LEMMA PayloadTypes ==
  /\ \A c \in Creds : {c} \in Payloads
  /\ \A t \in Nat : {t} \in Payloads
  /\ \A m \in Msgs : {m} \in Payloads
  /\ \A a \in Algs, m \in Msgs : sign_payload_digest(a, m) \in Payloads
  BY DEF Payloads, sign_payload_digest

\* What is signed for a wallet carries its nonce.
LEMMA SignableParts ==
  ASSUME TypeOK, NEW w \in Wallets, NEW chal \in Signable(w)
  PROVE  chal \in Challenges /\ chal[2] = w /\ chal[3] = nonce[w]
  <1>1. Cardinality(creds[w]) \in Nat /\ creds[w] \subseteq Creds
    BY RosterSize DEF TypeOK
  <1>2. ASSUME NEW t \in 1..Cardinality(creds[w])
        PROVE  t \in Nat
    BY <1>1
  <1>. DEFINE Adds == {derive("add_credential", w, {c}) : c \in Creds \ creds[w]}
              Removes == {derive("remove_credential", w, {c}) : c \in creds[w]}
              Quorums == {derive("set_threshold", w, {t}) : t \in 1..Cardinality(creds[w])}
              Futures == {derive("request_future_sign", w, {m}) : m \in Msgs}
              Signs == {derive(tag, w, sign_payload_digest(a, m)) :
                          tag \in {"request_sign", "complete_future_sign"},
                          a \in Algs, m \in Msgs}
  <1>3. chal \in Adds \/ chal \in Removes \/ chal \in Quorums \/ chal \in Futures \/ chal \in Signs
    <2>1. Signable(w) = Adds \cup Removes \cup Quorums \cup Futures \cup Signs
      BY DEF Signable
    <2>. HIDE DEF Adds, Removes, Quorums, Futures, Signs
    <2>. QED BY <2>1
  <1>4. PICK tag \in Tags, p \in Payloads : chal = derive(tag, w, p)
    <2>1. CASE chal \in Adds
      <3>1. PICK c \in Creds : chal = derive("add_credential", w, {c})
        BY <2>1, Zenon
      <3>. QED BY <3>1, PayloadTypes, Zenon DEF Tags
    <2>2. CASE chal \in Removes
      <3>1. PICK c \in Creds : chal = derive("remove_credential", w, {c})
        BY <1>1, <2>2, Zenon
      <3>. QED BY <3>1, PayloadTypes, Zenon DEF Tags
    <2>3. CASE chal \in Quorums
      <3>1. PICK t \in 1..Cardinality(creds[w]) : chal = derive("set_threshold", w, {t})
        BY <2>3, Zenon
      <3>2. t \in Nat
        BY <1>2
      <3>. QED BY <3>1, <3>2, PayloadTypes, Zenon DEF Tags
    <2>4. CASE chal \in Futures
      <3>1. PICK m \in Msgs : chal = derive("request_future_sign", w, {m})
        BY <2>4, Zenon
      <3>. QED BY <3>1, PayloadTypes, Zenon DEF Tags
    <2>5. CASE chal \in Signs
      <3>1. PICK g \in {"request_sign", "complete_future_sign"}, a \in Algs, m \in Msgs :
                   chal = derive(g, w, sign_payload_digest(a, m))
        BY <2>5
      <3>2. g \in Tags /\ sign_payload_digest(a, m) \in Payloads
        BY PayloadTypes DEF Tags
      <3>. QED BY <3>1, <3>2
    <2>. HIDE DEF Adds, Removes, Quorums, Futures, Signs
    <2>. QED BY <1>3, <2>1, <2>2, <2>3, <2>4, <2>5, Zenon
  <1>. QED BY <1>4, DeriveParts

Entries == [chal : Challenges, roster : SUBSET Creds, quorum : Nat]

\* Appending a grant that is not of the operation and message leaves their
\* grants alone, appending one that is adds its index.
LEMMA GrantedAppend ==
  ASSUME NEW l \in Seq(Entries), NEW e \in Entries, NEW tag, NEW m
  PROVE  LET hit == e.chal[1] = tag /\ m \in e.chal[4]
             G == Granted(l, tag, m)
             H == Granted(Append(l, e), tag, m)
         IN /\ Cardinality(G) \in Nat
            /\ hit => Cardinality(H) = Cardinality(G) + 1
            /\ ~hit => H = G
  <1>. DEFINE hit == e.chal[1] = tag /\ m \in e.chal[4]
              G == Granted(l, tag, m)
              H == Granted(Append(l, e), tag, m)
  <1>1. /\ Len(l) \in Nat /\ DOMAIN l = 1..Len(l)
        /\ DOMAIN Append(l, e) = 1..(Len(l) + 1)
        /\ Append(l, e)[Len(l) + 1] = e
        /\ \A i \in 1..Len(l) : Append(l, e)[i] = l[i]
    OBVIOUS
  <1>2. G \subseteq 1..Len(l) /\ Len(l) + 1 \notin G
    BY <1>1 DEF Granted
  <1>3. IsFiniteSet(G)
    <2>1. IsFiniteSet(1..Len(l))
      BY <1>1, FS_Interval
    <2>. QED BY <1>2, <2>1, FS_Subset
  <1>4. hit => H = G \cup {Len(l) + 1}
    BY <1>1 DEF Granted
  <1>5. ~hit => H = G
    BY <1>1 DEF Granted
  <1>. QED BY <1>2, <1>3, <1>4, <1>5, FS_CardinalityType, FS_AddElement

-----------------------------------------------------------------------------
(***************************************************************************)
(* A grant: what the six roster-gated operations have in common.           *)
(***************************************************************************)
\* The entry a grant appends, and the log after it.
LEMMA GrantEntry ==
  ASSUME TypeOK, NEW w \in Wallets, NEW tag \in Tags, NEW p \in Payloads,
         NEW signers, NEW sender,
         Authorized(w, derive(tag, w, p), signers, sender)
  PROVE  LET e == [chal |-> derive(tag, w, p), roster |-> creds[w], quorum |-> threshold[w]]
         IN /\ e \in Entries
            /\ log' = [log EXCEPT ![w] = Append(@, e)]
            /\ log' \in [Wallets -> Seq(Entries)]
            /\ log'[w] = Append(log[w], e)
            /\ \A v \in Wallets \ {w} : log'[v] = log[v]
  <1>. DEFINE e == [chal |-> derive(tag, w, p), roster |-> creds[w], quorum |-> threshold[w]]
  <1>1. derive(tag, w, p) \in Challenges
    BY DeriveParts
  <1>2. e \in Entries
    BY <1>1 DEF TypeOK, Entries
  <1>3. log \in [Wallets -> Seq(Entries)]
    BY DEF TypeOK, Entries
  <1>4. log' = [log EXCEPT ![w] = Append(@, e)]
    BY DEF Authorized
  <1>5. Append(log[w], e) \in Seq(Entries)
    BY <1>2, <1>3
  <1>. HIDE DEF e
  <1>. QED BY <1>2, <1>3, <1>4, <1>5 DEF e

\* A wallet's log, read with its nonce: the part of NonceCountsGrants that is
\* about one wallet.
CountsRight(w, there, n, l) ==
    /\ n = Len(l)
    /\ \A i \in DOMAIN l : l[i].chal[2] = w /\ l[i].chal[3] = i - 1
    /\ ~there => l = <<>>

\* A signature's nonce k and roster, read with the log, nonce and roster of its
\* wallet: the part of SignaturesAreDated that is about one signature.
DatedRight(s, k, n, R, q, l) ==
    /\ k <= n
    /\ k = n => s.roster = R /\ s.quorum = q
    /\ k < n => s.roster = l[k + 1].roster /\ s.quorum = l[k + 1].quorum

LEMMA CountsAreLocal ==
  /\ NonceCountsGrants <=>
       \A w \in Wallets : CountsRight(w, w \in stored, nonce[w], log[w])
  /\ NonceCountsGrants' <=>
       \A w \in Wallets : CountsRight(w, w \in stored', nonce'[w], log'[w])
  BY Zenon DEF NonceCountsGrants, CountsRight

LEMMA DatesAreLocal ==
  /\ SignaturesAreDated <=>
       \A s \in sigs : /\ s.chal[2] \in stored
                       /\ DatedRight(s, s.chal[3], nonce[s.chal[2]], creds[s.chal[2]],
                                     threshold[s.chal[2]], log[s.chal[2]])
  /\ SignaturesAreDated' <=>
       \A s \in sigs' : /\ s.chal[2] \in stored'
                        /\ DatedRight(s, s.chal[3], nonce'[s.chal[2]], creds'[s.chal[2]],
                                      threshold'[s.chal[2]], log'[s.chal[2]])
  BY Zenon DEF SignaturesAreDated, DatedRight

LEMMA CountsAppend ==
  ASSUME NEW w, NEW n, NEW l \in Seq(Entries), NEW e \in Entries,
         CountsRight(w, TRUE, n, l), e.chal[2] = w, e.chal[3] = n
  PROVE  CountsRight(w, TRUE, n + 1, Append(l, e))
  <1>1. /\ Len(l) \in Nat /\ n = Len(l) /\ DOMAIN l = 1..Len(l)
        /\ DOMAIN Append(l, e) = 1..(Len(l) + 1) /\ Len(Append(l, e)) = Len(l) + 1
        /\ Append(l, e)[Len(l) + 1] = e
        /\ \A i \in 1..Len(l) : Append(l, e)[i] = l[i]
    BY DEF CountsRight
  <1>2. ASSUME NEW i \in 1..(Len(l) + 1)
        PROVE  Append(l, e)[i].chal[2] = w /\ Append(l, e)[i].chal[3] = i - 1
    <2>1. CASE i = Len(l) + 1
      <3>1. Append(l, e)[i] = e
        BY <1>1, <2>1
      <3>2. i - 1 = n
        BY <1>1, <2>1
      <3>. QED BY <3>1, <3>2
    <2>2. CASE i \in 1..Len(l)
      <3>1. Append(l, e)[i] = l[i]
        BY <1>1, <2>2
      <3>2. l[i].chal[2] = w /\ l[i].chal[3] = i - 1
        BY <1>1, <2>2 DEF CountsRight
      <3>. QED BY <3>1, <3>2
    <2>. QED BY <1>1, <2>1, <2>2
  <1>. QED BY <1>1, <1>2 DEF CountsRight

\* A grant freezes the roster it was made under in the log; what it makes of the
\* roster does not matter.
LEMMA DatedAppend ==
  ASSUME NEW s, NEW k \in Nat, NEW R, NEW q, NEW l \in Seq(Entries), NEW e \in Entries,
         DatedRight(s, k, Len(l), R, q, l), e.roster = R, e.quorum = q,
         NEW R2, NEW q2
  PROVE  DatedRight(s, k, Len(l) + 1, R2, q2, Append(l, e))
  <1>1. /\ Len(l) \in Nat /\ Append(l, e)[Len(l) + 1] = e
        /\ \A i \in 1..Len(l) : Append(l, e)[i] = l[i]
    OBVIOUS
  <1>2. k <= Len(l)
    BY DEF DatedRight
  <1>3. CASE k = Len(l)
    <2>1. s.roster = R /\ s.quorum = q
      BY <1>3 DEF DatedRight
    <2>2. Append(l, e)[k + 1] = e
      BY <1>1, <1>3
    <2>3. k <= Len(l) + 1 /\ k # Len(l) + 1
      BY <1>1, <1>3
    <2>. QED BY <2>1, <2>2, <2>3 DEF DatedRight
  <1>4. CASE k < Len(l)
    <2>1. s.roster = l[k + 1].roster /\ s.quorum = l[k + 1].quorum
      BY <1>4 DEF DatedRight
    <2>2. k + 1 \in 1..Len(l)
      BY <1>1, <1>4
    <2>3. Append(l, e)[k + 1] = l[k + 1]
      BY <1>1, <2>2
    <2>4. k <= Len(l) + 1 /\ k # Len(l) + 1
      BY <1>1, <1>4
    <2>. QED BY <2>1, <2>3, <2>4 DEF DatedRight
  <1>. QED BY <1>1, <1>2, <1>3, <1>4

\* The nonce moves with the log, and no signature is left undated.
LEMMA GrantDates ==
  ASSUME TypeOK, NonceCountsGrants, SignaturesAreDated,
         NEW w \in Wallets, NEW tag \in Tags, NEW p \in Payloads,
         NEW signers, NEW sender,
         Authorized(w, derive(tag, w, p), signers, sender),
         BumpNonce(w), UNCHANGED <<stored, sigs>>,
         \A v \in Wallets \ {w} : creds'[v] = creds[v] /\ threshold'[v] = threshold[v]
  PROVE  /\ nonce' \in [Wallets -> Nat]
         /\ NonceCountsGrants' /\ SignaturesAreDated'
  <1>. DEFINE e == [chal |-> derive(tag, w, p), roster |-> creds[w], quorum |-> threshold[w]]
  <1>1. /\ e \in Entries /\ log'[w] = Append(log[w], e)
        /\ \A v \in Wallets \ {w} : log'[v] = log[v]
    BY GrantEntry, ZenonT(60)
  <1>2. e.chal[2] = w /\ e.chal[3] = nonce[w] /\ e.roster = creds[w] /\ e.quorum = threshold[w]
    BY DeriveParts
  <1>3. /\ log[w] \in Seq(Entries) /\ w \in stored
    BY DEF TypeOK, Entries, Authorized
  <1>. HIDE DEF e
  <1>4. /\ nonce' \in [Wallets -> Nat] /\ nonce'[w] = nonce[w] + 1 /\ nonce[w] \in Nat
        /\ \A v \in Wallets \ {w} : nonce'[v] = nonce[v]
    BY DEF TypeOK, BumpNonce
  <1>5. \A v \in Wallets : CountsRight(v, v \in stored, nonce[v], log[v])
    BY CountsAreLocal, Zenon
  <1>6. ASSUME NEW v \in Wallets
        PROVE  CountsRight(v, v \in stored', nonce'[v], log'[v])
    <2>1. CASE v # w
      BY <1>1, <1>4, <1>5, <2>1
    <2>2. CASE v = w
      <3>1. CountsRight(w, TRUE, nonce[w], log[w])
        BY <1>3, <1>5 DEF CountsRight
      <3>2. CountsRight(w, TRUE, nonce[w] + 1, Append(log[w], e))
        BY <1>1, <1>2, <1>3, <3>1, CountsAppend, Zenon
      <3>. QED BY <1>1, <1>3, <1>4, <2>2, <3>2 DEF CountsRight
    <2>. QED BY <2>1, <2>2
  <1>7. ASSUME NEW s \in sigs
        PROVE  /\ s.chal[2] \in stored
               /\ DatedRight(s, s.chal[3], nonce'[s.chal[2]], creds'[s.chal[2]],
                             threshold'[s.chal[2]], log'[s.chal[2]])
    <2>1. s.chal[2] \in Wallets /\ s.chal[3] \in Nat
      BY DEF TypeOK, Challenges
    <2>. DEFINE v == s.chal[2]
                k == s.chal[3]
    <2>2. v \in stored /\ DatedRight(s, k, nonce[v], creds[v], threshold[v], log[v])
      BY DatesAreLocal, Zenon
    <2>3. v \in Wallets /\ k \in Nat
      BY <2>1
    <2>. HIDE DEF v, k
    <2>4. DatedRight(s, k, nonce'[v], creds'[v], threshold'[v], log'[v])
      <3>1. CASE v # w
        BY <1>1, <1>4, <2>2, <2>3, <3>1
      <3>2. CASE v = w
        <4>1. nonce[w] = Len(log[w])
          BY <1>5 DEF CountsRight
        <4>2. DatedRight(s, k, Len(log[w]), creds[w], threshold[w], log[w])
          BY <2>2, <3>2, <4>1
        <4>3. DatedRight(s, k, Len(log[w]) + 1, creds'[w], threshold'[w], Append(log[w], e))
          BY <1>1, <1>2, <1>3, <2>3, <4>2, DatedAppend, Zenon
        <4>. QED BY <1>1, <1>4, <3>2, <4>1, <4>3
      <3>. QED BY <3>1, <3>2
    <2>. QED BY <2>2, <2>4 DEF v, k
  <1>8. NonceCountsGrants'
    BY <1>6, CountsAreLocal, Zenon
  <1>9. SignaturesAreDated'
    BY <1>7, DatesAreLocal
  <1>. QED BY <1>4, <1>8, <1>9

\* How the grants of an operation on a message change.
LEMMA GrantCounts ==
  ASSUME TypeOK, NEW w \in Wallets, NEW tag \in Tags, NEW p \in Payloads,
         NEW signers, NEW sender,
         Authorized(w, derive(tag, w, p), signers, sender)
  PROVE  \A v \in Wallets : \A g, m :
           /\ Cardinality(Granted(log[v], g, m)) \in Nat
           /\ v = w /\ g = tag /\ m \in p
                => Cardinality(Granted(log'[v], g, m)) = Cardinality(Granted(log[v], g, m)) + 1
           /\ ~(v = w /\ g = tag /\ m \in p)
                => Granted(log'[v], g, m) = Granted(log[v], g, m)
  <1>. DEFINE e == [chal |-> derive(tag, w, p), roster |-> creds[w], quorum |-> threshold[w]]
  <1>1. /\ e \in Entries /\ log'[w] = Append(log[w], e)
        /\ \A v \in Wallets \ {w} : log'[v] = log[v]
    BY GrantEntry, Zenon
  <1>. TAKE v \in Wallets
  <1>. TAKE g, m
  <1>2. log[v] \in Seq(Entries)
    BY DEF TypeOK, Entries
  <1>3. e.chal[1] = tag /\ e.chal[4] = p
    BY DeriveParts
  <1>. HIDE DEF e
  <1>4. Cardinality(Granted(log[v], g, m)) \in Nat
    BY <1>1, <1>2, GrantedAppend, Zenon
  <1>5. CASE v # w
    BY <1>1, <1>4, <1>5
  <1>6. CASE v = w
    <2>1. /\ e.chal[1] = g /\ m \in e.chal[4] =>
               Cardinality(Granted(Append(log[v], e), g, m)) = Cardinality(Granted(log[v], g, m)) + 1
          /\ ~(e.chal[1] = g /\ m \in e.chal[4]) =>
               Granted(Append(log[v], e), g, m) = Granted(log[v], g, m)
      BY <1>1, <1>2, GrantedAppend
    <2>. QED BY <1>1, <1>3, <1>4, <1>6, <2>1, Zenon
  <1>. QED BY <1>5, <1>6

-----------------------------------------------------------------------------
(***************************************************************************)
(* The steps of the roster.                                                *)
(***************************************************************************)
RosterTypes ==
    /\ stored \subseteq Wallets
    /\ creds \in [Wallets -> SUBSET Creds]
    /\ threshold \in [Wallets -> Nat]
    /\ nonce \in [Wallets -> Nat]
    /\ sigs \subseteq [key : Keys, chal : Challenges, clean : BOOLEAN,
                       roster : SUBSET Creds, quorum : Nat]
    /\ log \in [Wallets -> Seq(Entries)]
    /\ presigns \in Nat /\ sessions \in Nat /\ events \in Nat
    /\ partials \in [Wallets -> [Msgs -> Nat]]

StoreTypes ==
    /\ capsOf \in [Operators -> Nat] /\ retired \in [held : Nat, burned : Nat]
    /\ accounts \subseteq Accounts
    /\ vault \in [Solo \cup Imported -> Accounts \cup {NoAccount}]
    /\ accepted \subseteq Solo
    /\ ika \in Nat /\ sui \in Nat

LEMMA TypeSplit ==
  /\ TypeOK <=> RosterTypes /\ StoreTypes
  /\ TypeOK' <=> RosterTypes' /\ StoreTypes'
  <1>1. TypeOK <=> RosterTypes /\ StoreTypes
    BY Zenon DEF TypeOK, RosterTypes, StoreTypes, Entries
  <1>2. TypeOK' <=> RosterTypes' /\ StoreTypes'
    BY Zenon DEF TypeOK, RosterTypes, StoreTypes, Entries
  <1>. QED BY <1>1, <1>2

\* An operation that is no part of two-phase signing keeps the pairing.
LEMMA PairedGrant ==
  ASSUME TypeOK, FutureSignPaired, NEW w \in Wallets, NEW p \in Payloads,
         NEW tag \in Tags \ {"request_future_sign", "complete_future_sign"},
         NEW signers, NEW sender,
         Authorized(w, derive(tag, w, p), signers, sender), UNCHANGED partials
  PROVE  FutureSignPaired'
  <1>1. \A v \in Wallets : \A g, m : g # tag => Granted(log'[v], g, m) = Granted(log[v], g, m)
    BY GrantCounts
  <1>2. "request_future_sign" # tag /\ "complete_future_sign" # tag
    OBVIOUS
  <1>3. ASSUME NEW v \in Wallets, NEW m \in Msgs
        PROVE  /\ Granted(log'[v], "request_future_sign", m) =
                    Granted(log[v], "request_future_sign", m)
               /\ Granted(log'[v], "complete_future_sign", m) =
                    Granted(log[v], "complete_future_sign", m)
    BY <1>1, <1>2
  <1>. QED BY <1>3 DEF FutureSignPaired

\* What any roster-gated operation keeps, whatever it makes of the roster it was
\* approved under.
LEMMA GrantKeeps ==
  ASSUME TypeOK, RosterInv,
         NEW w \in Wallets, NEW tag \in Tags, NEW p \in Payloads,
         NEW signers, NEW sender,
         Authorized(w, derive(tag, w, p), signers, sender),
         BumpNonce(w), UNCHANGED <<stored, sigs>>,
         creds' \in [Wallets -> SUBSET Creds], threshold' \in [Wallets -> Nat],
         \A v \in Wallets \ {w} : creds'[v] = creds[v] /\ threshold'[v] = threshold[v],
         /\ 1 <= threshold'[w] /\ threshold'[w] <= Cardinality(creds'[w])
         /\ Cardinality(creds'[w]) <= MAX_CREDENTIALS,
         partials' \in [Wallets -> [Msgs -> Nat]], FutureSignPaired',
         presigns' \in Nat, sessions' \in Nat, events' \in Nat
  PROVE  RosterTypes' /\ RosterInv'
  <1>1. nonce' \in [Wallets -> Nat] /\ NonceCountsGrants' /\ SignaturesAreDated'
    BY GrantDates DEF RosterInv
  <1>2. log' \in [Wallets -> Seq(Entries)]
    BY GrantEntry
  <1>3. RosterBounded'
    BY DEF RosterBounded, RosterInv, TypeOK
  <1>4. RosterTypes'
    BY <1>1, <1>2 DEF RosterTypes, TypeOK
  <1>. QED BY <1>1, <1>3, <1>4 DEF RosterInv

LEMMA AddKeeps ==
  ASSUME TypeOK, RosterInv, NEW w \in Wallets, NEW c \in Creds, NEW signers, NEW sender,
         add_credential(w, c, signers, sender)
  PROVE  RosterTypes' /\ RosterInv'
  <1>1. {c} \in Payloads /\ "add_credential" \in Tags
    BY PayloadTypes DEF Tags
  <1>2. /\ Authorized(w, derive("add_credential", w, {c}), signers, sender)
        /\ BumpNonce(w) /\ UNCHANGED <<stored, sigs, presigns, partials, sessions, events>>
    BY DEF add_credential, RosterOp
  <1>3. /\ creds' \in [Wallets -> SUBSET Creds] /\ threshold' \in [Wallets -> Nat]
        /\ \A v \in Wallets \ {w} : creds'[v] = creds[v] /\ threshold'[v] = threshold[v]
        /\ creds'[w] = creds[w] \cup {c} /\ threshold'[w] = threshold[w]
    BY DEF add_credential, TypeOK
  <1>4. /\ 1 <= threshold'[w] /\ threshold'[w] <= Cardinality(creds'[w])
        /\ Cardinality(creds'[w]) <= MAX_CREDENTIALS
    <2>1. /\ Cardinality(creds[w]) \in Nat
          /\ Cardinality(creds[w] \cup {c}) = Cardinality(creds[w]) + 1
      BY RosterSize DEF TypeOK, add_credential
    <2>2. /\ 1 <= threshold[w] /\ threshold[w] <= Cardinality(creds[w])
          /\ Cardinality(creds[w]) < MAX_CREDENTIALS
      BY <1>2 DEF RosterInv, RosterBounded, Authorized, add_credential
    <2>3. threshold[w] \in Nat /\ MAX_CREDENTIALS \in Nat
      BY RosterAssumption DEF TypeOK
    <2>. QED BY <1>3, <2>1, <2>2, <2>3
  <1>5. FutureSignPaired'
    BY <1>1, <1>2, PairedGrant DEF RosterInv
  <1>6. /\ partials' \in [Wallets -> [Msgs -> Nat]]
        /\ presigns' \in Nat /\ sessions' \in Nat /\ events' \in Nat
    BY <1>2 DEF TypeOK
  <1>. QED BY <1>1, <1>2, <1>3, <1>4, <1>5, <1>6, GrantKeeps

LEMMA RemoveKeeps ==
  ASSUME TypeOK, RosterInv, NEW w \in Wallets, NEW c \in Creds, NEW signers, NEW sender,
         remove_credential(w, c, signers, sender)
  PROVE  RosterTypes' /\ RosterInv'
  <1>1. {c} \in Payloads /\ "remove_credential" \in Tags
    BY PayloadTypes DEF Tags
  <1>2. /\ Authorized(w, derive("remove_credential", w, {c}), signers, sender)
        /\ BumpNonce(w) /\ UNCHANGED <<stored, sigs, presigns, partials, sessions, events>>
    BY DEF remove_credential, RosterOp
  <1>3. /\ creds' \in [Wallets -> SUBSET Creds] /\ threshold' \in [Wallets -> Nat]
        /\ \A v \in Wallets \ {w} : creds'[v] = creds[v] /\ threshold'[v] = threshold[v]
        /\ creds'[w] = creds[w] \ {c} /\ threshold'[w] = threshold[w]
    BY DEF remove_credential, TypeOK
  <1>4. /\ 1 <= threshold'[w] /\ threshold'[w] <= Cardinality(creds'[w])
        /\ Cardinality(creds'[w]) <= MAX_CREDENTIALS
    <2>1. /\ Cardinality(creds[w]) \in Nat
          /\ Cardinality(creds[w] \ {c}) = Cardinality(creds[w]) - 1
      BY RosterSize DEF TypeOK, remove_credential
    <2>2. /\ 1 <= threshold[w] /\ threshold[w] < Cardinality(creds[w])
          /\ Cardinality(creds[w]) <= MAX_CREDENTIALS
      BY <1>2 DEF RosterInv, RosterBounded, Authorized, remove_credential
    <2>3. threshold[w] \in Nat /\ MAX_CREDENTIALS \in Nat
      BY RosterAssumption DEF TypeOK
    <2>. QED BY <1>3, <2>1, <2>2, <2>3
  <1>5. FutureSignPaired'
    BY <1>1, <1>2, PairedGrant DEF RosterInv
  <1>6. /\ partials' \in [Wallets -> [Msgs -> Nat]]
        /\ presigns' \in Nat /\ sessions' \in Nat /\ events' \in Nat
    BY <1>2 DEF TypeOK
  <1>. QED BY <1>1, <1>2, <1>3, <1>4, <1>5, <1>6, GrantKeeps

LEMMA SetThresholdKeeps ==
  ASSUME TypeOK, RosterInv, NEW w \in Wallets, NEW t \in 1..MAX_CREDENTIALS,
         NEW signers, NEW sender, set_threshold(w, t, signers, sender)
  PROVE  RosterTypes' /\ RosterInv'
  <1>1. t \in Nat /\ {t} \in Payloads /\ "set_threshold" \in Tags
    BY RosterAssumption, PayloadTypes DEF Tags
  <1>2. /\ Authorized(w, derive("set_threshold", w, {t}), signers, sender)
        /\ BumpNonce(w) /\ UNCHANGED <<stored, sigs, presigns, partials, sessions, events>>
    BY DEF set_threshold, RosterOp
  <1>3. /\ creds' \in [Wallets -> SUBSET Creds] /\ threshold' \in [Wallets -> Nat]
        /\ \A v \in Wallets \ {w} : creds'[v] = creds[v] /\ threshold'[v] = threshold[v]
        /\ creds'[w] = creds[w] /\ threshold'[w] = t
    BY <1>1 DEF set_threshold, TypeOK
  <1>4. /\ 1 <= threshold'[w] /\ threshold'[w] <= Cardinality(creds'[w])
        /\ Cardinality(creds'[w]) <= MAX_CREDENTIALS
    BY <1>2, <1>3 DEF RosterInv, RosterBounded, Authorized, set_threshold
  <1>5. FutureSignPaired'
    BY <1>1, <1>2, PairedGrant DEF RosterInv
  <1>6. /\ partials' \in [Wallets -> [Msgs -> Nat]]
        /\ presigns' \in Nat /\ sessions' \in Nat /\ events' \in Nat
    BY <1>2 DEF TypeOK
  <1>. QED BY <1>1, <1>2, <1>3, <1>4, <1>5, <1>6, GrantKeeps

\* The sign operations leave the roster as it was.
LEMMA SignedRoster ==
  ASSUME TypeOK, RosterInv, NEW w \in Wallets, NEW chal, NEW signers, NEW sender,
         authorize_shared_and_bump_nonce(w, chal, signers, sender)
  PROVE  /\ Authorized(w, chal, signers, sender) /\ BumpNonce(w)
         /\ creds' \in [Wallets -> SUBSET Creds] /\ threshold' \in [Wallets -> Nat]
         /\ \A v \in Wallets \ {w} : creds'[v] = creds[v] /\ threshold'[v] = threshold[v]
         /\ 1 <= threshold'[w] /\ threshold'[w] <= Cardinality(creds'[w])
         /\ Cardinality(creds'[w]) <= MAX_CREDENTIALS
  BY DEF authorize_shared_and_bump_nonce, Authorized, RosterInv, RosterBounded, TypeOK

LEMMA SpentPresign ==
  ASSUME TypeOK, SpendPresign
  PROVE  presigns' \in Nat
  BY DEF TypeOK, SpendPresign

LEMMA SignKeeps ==
  ASSUME TypeOK, RosterInv, NEW w \in Wallets, NEW a \in Algs, NEW m \in Msgs,
         NEW signers, NEW sender, request_sign_shared(w, a, m, signers, sender)
  PROVE  RosterTypes' /\ RosterInv'
  <1>. DEFINE p == sign_payload_digest(a, m)
  <1>1. p \in Payloads /\ "request_sign" \in Tags
    BY PayloadTypes DEF Tags
  <1>2. /\ authorize_shared_and_bump_nonce(w, derive("request_sign", w, p), signers, sender)
        /\ SpendPresign /\ sessions' = sessions + 1
        /\ UNCHANGED <<stored, sigs, partials, events>>
    BY DEF request_sign_shared
  <1>. HIDE DEF p
  <1>3. Authorized(w, derive("request_sign", w, p), signers, sender)
    BY <1>2, SignedRoster
  <1>4. FutureSignPaired'
    BY <1>1, <1>2, <1>3, PairedGrant DEF RosterInv
  <1>5. presigns' \in Nat /\ sessions' \in Nat /\ events' \in Nat
    <2>1. sessions \in Nat /\ events \in Nat
      BY DEF TypeOK
    <2>. QED BY <1>2, <2>1, SpentPresign
  <1>6. partials' \in [Wallets -> [Msgs -> Nat]]
    BY <1>2 DEF TypeOK
  <1>. QED BY <1>1, <1>2, <1>4, <1>5, <1>6, SignedRoster, GrantKeeps

LEMMA FutureKeeps ==
  ASSUME TypeOK, RosterInv, NEW w \in Wallets, NEW m \in Msgs,
         NEW signers, NEW sender, request_future_sign(w, m, signers, sender)
  PROVE  RosterTypes' /\ RosterInv'
  <1>1. {m} \in Payloads /\ "request_future_sign" \in Tags
    BY PayloadTypes DEF Tags
  <1>2. /\ authorize_shared_and_bump_nonce(w, derive("request_future_sign", w, {m}),
                                           signers, sender)
        /\ SpendPresign /\ UNCHANGED <<stored, sigs, sessions, events>>
        /\ partials' = [partials EXCEPT ![w][m] = @ + 1]
    BY DEF request_future_sign
  <1>3. Authorized(w, derive("request_future_sign", w, {m}), signers, sender)
    BY <1>2, SignedRoster
  <1>4. /\ partials \in [Wallets -> [Msgs -> Nat]] /\ partials' \in [Wallets -> [Msgs -> Nat]]
        /\ partials'[w][m] = partials[w][m] + 1
        /\ \A v \in Wallets, x \in Msgs : ~(v = w /\ x = m) => partials'[v][x] = partials[v][x]
    BY <1>2 DEF TypeOK
  <1>5. FutureSignPaired'
    <2>1. \A v \in Wallets : \A g, x :
            /\ Cardinality(Granted(log[v], g, x)) \in Nat
            /\ v = w /\ g = "request_future_sign" /\ x = m
                 => Cardinality(Granted(log'[v], g, x)) = Cardinality(Granted(log[v], g, x)) + 1
            /\ ~(v = w /\ g = "request_future_sign" /\ x = m)
                 => Granted(log'[v], g, x) = Granted(log[v], g, x)
      BY <1>1, <1>3, GrantCounts
    <2>2. ASSUME NEW v \in Wallets, NEW x \in Msgs
          PROVE  partials'[v][x] + Cardinality(Granted(log'[v], "complete_future_sign", x))
                   = Cardinality(Granted(log'[v], "request_future_sign", x))
      <3>1. /\ Cardinality(Granted(log[v], "complete_future_sign", x)) \in Nat
            /\ Cardinality(Granted(log[v], "request_future_sign", x)) \in Nat
            /\ Granted(log'[v], "complete_future_sign", x) =
                 Granted(log[v], "complete_future_sign", x)
        BY <2>1
      <3>2. partials[v][x] + Cardinality(Granted(log[v], "complete_future_sign", x))
              = Cardinality(Granted(log[v], "request_future_sign", x))
        BY DEF RosterInv, FutureSignPaired
      <3>3. CASE v = w /\ x = m
        <4>1. Cardinality(Granted(log'[v], "request_future_sign", x))
                = Cardinality(Granted(log[v], "request_future_sign", x)) + 1
          BY <2>1, <3>3
        <4>2. partials'[v][x] = partials[v][x] + 1 /\ partials[v][x] \in Nat
          BY <1>4, <3>3
        <4>. QED BY <3>1, <3>2, <4>1, <4>2
      <3>4. CASE ~(v = w /\ x = m)
        <4>1. Granted(log'[v], "request_future_sign", x) =
                Granted(log[v], "request_future_sign", x)
          BY <2>1, <3>4
        <4>. QED BY <1>4, <3>1, <3>2, <3>4, <4>1
      <3>. QED BY <3>3, <3>4
    <2>. QED BY <2>2 DEF FutureSignPaired
  <1>6. presigns' \in Nat /\ sessions' \in Nat /\ events' \in Nat
    BY <1>2, SpentPresign DEF TypeOK
  <1>. QED BY <1>1, <1>2, <1>4, <1>5, <1>6, SignedRoster, GrantKeeps

LEMMA CompleteKeeps ==
  ASSUME TypeOK, RosterInv, NEW w \in Wallets, NEW a \in Algs, NEW m \in Msgs,
         NEW signers, NEW sender, complete_future_sign(w, a, m, signers, sender)
  PROVE  RosterTypes' /\ RosterInv'
  <1>. DEFINE p == sign_payload_digest(a, m)
              tag == "complete_future_sign"
  <1>1. /\ p \in Payloads /\ tag \in Tags
        /\ \A x \in Msgs : x \in p <=> x = m
    BY PayloadTypes, RosterAssumption DEF Tags, sign_payload_digest
  <1>2. /\ authorize_shared_and_bump_nonce(w, derive(tag, w, p), signers, sender)
        /\ UNCHANGED <<stored, sigs, presigns, events>> /\ sessions' = sessions + 1
        /\ partials[w][m] > 0 /\ partials' = [partials EXCEPT ![w][m] = @ - 1]
    BY DEF complete_future_sign
  <1>. HIDE DEF p
  <1>3. Authorized(w, derive(tag, w, p), signers, sender)
    BY <1>2, SignedRoster
  <1>4. /\ partials \in [Wallets -> [Msgs -> Nat]] /\ partials' \in [Wallets -> [Msgs -> Nat]]
        /\ partials'[w][m] = partials[w][m] - 1
        /\ \A v \in Wallets, x \in Msgs : ~(v = w /\ x = m) => partials'[v][x] = partials[v][x]
    BY <1>2 DEF TypeOK
  <1>5. FutureSignPaired'
    <2>1. \A v \in Wallets : \A g, x :
            /\ Cardinality(Granted(log[v], g, x)) \in Nat
            /\ v = w /\ g = tag /\ x \in p
                 => Cardinality(Granted(log'[v], g, x)) = Cardinality(Granted(log[v], g, x)) + 1
            /\ ~(v = w /\ g = tag /\ x \in p)
                 => Granted(log'[v], g, x) = Granted(log[v], g, x)
      BY <1>1, <1>3, GrantCounts
    <2>2. ASSUME NEW v \in Wallets, NEW x \in Msgs
          PROVE  partials'[v][x] + Cardinality(Granted(log'[v], "complete_future_sign", x))
                   = Cardinality(Granted(log'[v], "request_future_sign", x))
      <3>1. /\ Cardinality(Granted(log[v], "complete_future_sign", x)) \in Nat
            /\ Cardinality(Granted(log[v], "request_future_sign", x)) \in Nat
            /\ Granted(log'[v], "request_future_sign", x) =
                 Granted(log[v], "request_future_sign", x)
        BY <2>1
      <3>2. partials[v][x] + Cardinality(Granted(log[v], "complete_future_sign", x))
              = Cardinality(Granted(log[v], "request_future_sign", x))
        BY DEF RosterInv, FutureSignPaired
      <3>3. CASE v = w /\ x = m
        <4>1. Cardinality(Granted(log'[v], "complete_future_sign", x))
                = Cardinality(Granted(log[v], "complete_future_sign", x)) + 1
          BY <1>1, <2>1, <3>3
        <4>2. partials'[v][x] = partials[v][x] - 1 /\ partials[v][x] \in Nat
          BY <1>4, <3>3
        <4>. QED BY <3>1, <3>2, <4>1, <4>2
      <3>4. CASE ~(v = w /\ x = m)
        <4>1. Granted(log'[v], "complete_future_sign", x) =
                Granted(log[v], "complete_future_sign", x)
          BY <1>1, <2>1, <3>4
        <4>. QED BY <1>4, <3>1, <3>2, <3>4, <4>1
      <3>. QED BY <3>3, <3>4
    <2>. QED BY <2>2 DEF FutureSignPaired
  <1>6. presigns' \in Nat /\ sessions' \in Nat /\ events' \in Nat
    BY <1>2 DEF TypeOK
  <1>. QED BY <1>1, <1>2, <1>4, <1>5, <1>6, SignedRoster, GrantKeeps

\* A new signature is of the present nonce and roster.
LEMMA ChallengeKeeps ==
  ASSUME TypeOK, RosterInv, NEW k \in Keys, NEW w \in Wallets, NEW chal \in Signable(w),
         NEW clean \in BOOLEAN, SignChallenge(k, w, chal, clean)
  PROVE  RosterTypes' /\ RosterInv'
  <1>. DEFINE s == [key |-> k, chal |-> chal, clean |-> clean,
                    roster |-> creds[w], quorum |-> threshold[w]]
  <1>1. /\ sigs' = sigs \cup {s} /\ w \in stored
        /\ UNCHANGED <<stored, creds, threshold, nonce, log, presigns, partials, sessions, events>>
    BY DEF SignChallenge, rosterVars
  <1>2. chal \in Challenges /\ chal[2] = w /\ chal[3] = nonce[w]
    BY SignableParts
  <1>3. s \in [key : Keys, chal : Challenges, clean : BOOLEAN, roster : SUBSET Creds, quorum : Nat]
    BY <1>2 DEF TypeOK
  <1>4. s.chal[2] = w /\ s.chal[3] = nonce[w] /\ s.roster = creds[w] /\ s.quorum = threshold[w]
    BY <1>2
  <1>. HIDE DEF s
  <1>5. RosterTypes'
    BY <1>1, <1>3, TypeSplit DEF RosterTypes
  <1>6. RosterBounded' /\ NonceCountsGrants' /\ FutureSignPaired'
    BY <1>1 DEF RosterInv, RosterBounded, NonceCountsGrants, FutureSignPaired
  <1>7. SignaturesAreDated'
    <2>1. DatedRight(s, s.chal[3], nonce[s.chal[2]], creds[s.chal[2]],
                     threshold[s.chal[2]], log[s.chal[2]])
      <3>1. nonce[w] \in Nat
        BY DEF TypeOK
      <3>. QED BY <1>4, <3>1 DEF DatedRight
    <2>2. \A z \in sigs : /\ z.chal[2] \in stored
                          /\ DatedRight(z, z.chal[3], nonce[z.chal[2]], creds[z.chal[2]],
                                        threshold[z.chal[2]], log[z.chal[2]])
      BY DatesAreLocal, Zenon DEF RosterInv
    <2>. QED BY <1>1, <1>4, <2>1, <2>2, DatesAreLocal, Zenon
  <1>. QED BY <1>5, <1>6, <1>7 DEF RosterInv

\* A wallet that is not yet stored has no grants and no signatures.
LEMMA DkgKeeps ==
  ASSUME TypeOK, RosterInv, NEW a, NEW w \in Wallets, NEW initial \in SUBSET Creds,
         NEW t \in 1..MAX_CREDENTIALS, request_dkg_shared(a, w, initial, t)
  PROVE  RosterTypes' /\ RosterInv'
  <1>1. /\ w \notin stored /\ stored' = stored \cup {w}
        /\ 1 <= t /\ t <= Cardinality(initial) /\ Cardinality(initial) <= MAX_CREDENTIALS
        /\ creds' = [creds EXCEPT ![w] = initial]
        /\ threshold' = [threshold EXCEPT ![w] = t]
        /\ nonce' = [nonce EXCEPT ![w] = 0]
        /\ UNCHANGED <<sigs, log, presigns, partials, sessions, events>>
    BY DEF request_dkg_shared, store_shared_dwallet_cap, build_initial_roster
  <1>2. t \in Nat
    BY RosterAssumption
  <1>3. /\ creds' \in [Wallets -> SUBSET Creds] /\ threshold' \in [Wallets -> Nat]
        /\ nonce' \in [Wallets -> Nat]
        /\ creds'[w] = initial /\ threshold'[w] = t /\ nonce'[w] = 0
        /\ \A v \in Wallets \ {w} : /\ creds'[v] = creds[v] /\ threshold'[v] = threshold[v]
                                    /\ nonce'[v] = nonce[v]
    BY <1>1, <1>2 DEF TypeOK
  <1>4. RosterTypes'
    BY <1>1, <1>3, TypeSplit DEF RosterTypes
  <1>5. RosterBounded'
    BY <1>1, <1>3 DEF RosterBounded, RosterInv, TypeOK
  <1>6. \A v \in Wallets : CountsRight(v, v \in stored, nonce[v], log[v])
    BY CountsAreLocal, Zenon DEF RosterInv
  <1>7. ASSUME NEW v \in Wallets
        PROVE  CountsRight(v, v \in stored', nonce'[v], log'[v])
    <2>1. CASE v # w
      BY <1>1, <1>3, <1>6, <2>1 DEF CountsRight
    <2>2. CASE v = w
      <3>1. log[w] = <<>>
        BY <1>1, <1>6 DEF CountsRight
      <3>. QED BY <1>1, <1>3, <2>2, <3>1 DEF CountsRight
    <2>. QED BY <2>1, <2>2
  <1>8. ASSUME NEW s \in sigs
        PROVE  /\ s.chal[2] \in stored'
               /\ DatedRight(s, s.chal[3], nonce'[s.chal[2]], creds'[s.chal[2]],
                             threshold'[s.chal[2]], log'[s.chal[2]])
    <2>. DEFINE v == s.chal[2]
    <2>1. v \in stored /\ DatedRight(s, s.chal[3], nonce[v], creds[v], threshold[v], log[v])
      BY DatesAreLocal, Zenon DEF RosterInv
    <2>. HIDE DEF v
    <2>2. v \in Wallets /\ v # w
      BY <1>1, <2>1 DEF TypeOK
    <2>3. v \in stored' /\ DatedRight(s, s.chal[3], nonce'[v], creds'[v], threshold'[v], log'[v])
      BY <1>1, <1>3, <2>1, <2>2
    <2>. QED BY <2>3 DEF v
  <1>9. NonceCountsGrants' /\ SignaturesAreDated'
    <2>1. NonceCountsGrants'
      BY <1>7, CountsAreLocal, Zenon
    <2>2. SignaturesAreDated'
      BY <1>1, <1>8, DatesAreLocal
    <2>. QED BY <2>1, <2>2
  <1>10. FutureSignPaired'
    BY <1>1 DEF RosterInv, FutureSignPaired
  <1>. QED BY <1>4, <1>5, <1>9, <1>10 DEF RosterInv

\* Everything else leaves the rosters, the signatures and the grants alone.
LEMMA OtherKeeps ==
  ASSUME TypeOK, RosterInv,
         UNCHANGED <<stored, creds, threshold, nonce, sigs, log, partials>>,
         presigns' \in Nat, sessions' \in Nat, events' \in Nat
  PROVE  RosterTypes' /\ RosterInv'
  <1>1. RosterTypes'
    BY TypeSplit DEF RosterTypes
  <1>2. RosterBounded' /\ NonceCountsGrants' /\ SignaturesAreDated' /\ FutureSignPaired'
    BY DEF RosterInv, RosterBounded, NonceCountsGrants, SignaturesAreDated, FutureSignPaired
  <1>. QED BY <1>1, <1>2 DEF RosterInv

-----------------------------------------------------------------------------
(***************************************************************************)
(* The steps of the treasury and the stores.                               *)
(***************************************************************************)
\* A fee leaves the treasury for the coordinator.
LEMMA PayKeeps ==
  ASSUME StoreTypes, PayFromTreasury
  PROVE  ika' \in Nat /\ sui' \in Nat
  <1>1. /\ ika \in Nat /\ sui \in Nat /\ Fee \in Nat /\ ika >= Fee /\ sui >= Fee
        /\ ika' = ika - Fee /\ sui' = sui - Fee
    BY CoreAssumption DEF StoreTypes, PayFromTreasury, Covers, Change, take, give_back
  <1>. QED BY <1>1

LEMMA DepositKeeps ==
  ASSUME StoreTypes, deposit_ika \/ deposit_sui \/ drain
  PROVE  StoreTypes'
  <1>1. ika \in Nat /\ sui \in Nat /\ Fee \in Nat
    BY CoreAssumption DEF StoreTypes
  <1>2. UNCHANGED <<capsOf, retired, accounts, vault, accepted>>
    BY DEF deposit_ika, deposit_sui, drain, storeVars
  <1>3. ika' \in Nat /\ sui' \in Nat
    BY <1>1 DEF deposit_ika, deposit_sui, drain
  <1>. QED BY <1>2, <1>3 DEF StoreTypes

LEMMA CapsKeep ==
  ASSUME StoreTypes, NEW o \in Operators,
         mint_operator(o) \/ SurrenderCap(o)
  PROVE  StoreTypes'
  <1>1. /\ UNCHANGED <<accounts, vault, accepted, ika, sui>>
    BY DEF mint_operator, SurrenderCap, treasuryVars
  <1>2. capsOf' \in [Operators -> Nat] /\ retired' \in [held : Nat, burned : Nat]
    BY DEF mint_operator, SurrenderCap, StoreTypes
  <1>. QED BY <1>1, <1>2 DEF StoreTypes

LEMMA BurnKeeps ==
  ASSUME StoreTypes, burn_operator
  PROVE  StoreTypes'
  BY DEF burn_operator, treasuryVars, StoreTypes

LEMMA VaultKeeps ==
  ASSUME StoreTypes, NEW d \in Solo \cup Imported, NEW a \in Accounts, store_dwallet_cap(d, a)
  PROVE  vault' \in [Solo \cup Imported -> Accounts \cup {NoAccount}]
  BY DEF StoreTypes, store_dwallet_cap

LEMMA StoreStutters ==
  ASSUME StoreTypes, UNCHANGED <<storeVars, treasuryVars>>
  PROVE  StoreTypes'
  BY DEF StoreTypes, storeVars, treasuryVars

-----------------------------------------------------------------------------
(***************************************************************************)
(* The inductive invariant.                                                *)
(***************************************************************************)
LEMMA CoreInit ==
  ASSUME Init
  PROVE  CoreInv
  <1>1. RosterTypes
    BY DEF Init, RosterTypes, Entries
  <1>2. StoreTypes
    BY DEF Init, StoreTypes
  <1>3. RosterBounded /\ NonceCountsGrants /\ SignaturesAreDated
    BY DEF Init, RosterBounded, NonceCountsGrants, SignaturesAreDated
  <1>4. FutureSignPaired
    <2>1. ASSUME NEW w \in Wallets, NEW m \in Msgs, NEW tag
          PROVE  Granted(log[w], tag, m) = {}
      BY DEF Init, Granted
    <2>2. Cardinality({}) = 0
      BY FS_EmptySet
    <2>3. ASSUME NEW w \in Wallets, NEW m \in Msgs
          PROVE  partials[w][m] = 0
      BY DEF Init
    <2>4. 0 + 0 = 0
      OBVIOUS
    <2>. QED BY <2>1, <2>2, <2>3, <2>4 DEF FutureSignPaired
  <1>. QED BY <1>1, <1>2, <1>3, <1>4, TypeSplit DEF CoreInv, RosterInv

LEMMA AdminKeeps ==
  ASSUME CoreInv, Admin
  PROVE  CoreInv'
  <1>1. TypeOK /\ RosterInv /\ StoreTypes
    BY TypeSplit DEF CoreInv
  <1>2. presigns \in Nat /\ sessions \in Nat /\ events \in Nat
    BY <1>1 DEF TypeOK
  <1>3. RosterTypes' /\ RosterInv'
    <2>1. /\ UNCHANGED <<stored, creds, threshold, nonce, sigs, log, partials>>
          /\ presigns' \in Nat /\ sessions' \in Nat /\ events' \in Nat
      BY <1>2 DEF Admin, mint_operator, SurrenderCap, burn_operator, drain, deposit_ika,
                  deposit_sui, pay_presign, request_global_presign, accountVars, rosterVars
    <2>. QED BY <1>1, <2>1, OtherKeeps
  <1>4. StoreTypes'
    <2>1. CASE \E o \in Operators : mint_operator(o) \/ SurrenderCap(o)
      BY <1>1, <2>1, CapsKeep
    <2>2. CASE burn_operator
      BY <1>1, <2>2, BurnKeeps
    <2>3. CASE deposit_ika \/ deposit_sui \/ drain
      BY <1>1, <2>3, DepositKeeps
    <2>4. CASE pay_presign
      <3>1. PayFromTreasury /\ UNCHANGED <<capsOf, retired, accounts, vault, accepted>>
        BY <2>4 DEF pay_presign, storeVars
      <3>. QED BY <1>1, <3>1, PayKeeps DEF StoreTypes
    <2>5. CASE request_global_presign
      BY <1>1, <2>5, StoreStutters DEF request_global_presign
    <2>. QED BY <2>1, <2>2, <2>3, <2>4, <2>5 DEF Admin
  <1>. QED BY <1>3, <1>4, TypeSplit DEF CoreInv

LEMMA SharedKeeps ==
  ASSUME CoreInv, Shared
  PROVE  CoreInv'
  <1>1. TypeOK /\ RosterInv /\ StoreTypes
    BY TypeSplit DEF CoreInv
  <1>2. StoreTypes'
    BY <1>1, StoreStutters DEF Shared
  <1>3. RosterTypes' /\ RosterInv'
    <2>1. PICK w \in Wallets :
            \/ \E signers \in SUBSET Creds, sender \in Addrs \cup {Sponsor} :
                 SharedOp(w, signers, sender)
            \/ \E k \in Keys, chal \in Signable(w), clean \in BOOLEAN :
                 SignChallenge(k, w, chal, clean)
      BY Zenon DEF Shared
    <2>2. ASSUME NEW signers, NEW sender, SharedOp(w, signers, sender)
          PROVE  RosterTypes' /\ RosterInv'
      <3>1. CASE \E c \in Creds : add_credential(w, c, signers, sender)
        BY <1>1, <3>1, AddKeeps
      <3>2. CASE \E c \in Creds : remove_credential(w, c, signers, sender)
        BY <1>1, <3>2, RemoveKeeps
      <3>3. CASE \E t \in 1..MAX_CREDENTIALS : set_threshold(w, t, signers, sender)
        BY <1>1, <3>3, SetThresholdKeeps
      <3>4. CASE \E m \in Msgs : request_future_sign(w, m, signers, sender)
        BY <1>1, <3>4, FutureKeeps
      <3>5. CASE \E m \in Msgs, a \in Algs : request_sign_shared(w, a, m, signers, sender)
        BY <1>1, <3>5, SignKeeps
      <3>6. CASE \E m \in Msgs, a \in Algs : complete_future_sign(w, a, m, signers, sender)
        BY <1>1, <3>6, CompleteKeeps
      <3>. QED BY <2>2, <3>1, <3>2, <3>3, <3>4, <3>5, <3>6, Zenon DEF SharedOp
    <2>3. ASSUME NEW k \in Keys, NEW chal \in Signable(w), NEW clean \in BOOLEAN,
                 SignChallenge(k, w, chal, clean)
          PROVE  RosterTypes' /\ RosterInv'
      BY <1>1, <2>3, ChallengeKeeps
    <2>. QED BY <2>1, <2>2, <2>3, Zenon
  <1>. QED BY <1>2, <1>3, TypeSplit DEF CoreInv

LEMMA ZeroKeeps ==
  ASSUME CoreInv, NEW a \in Accounts, NEW d \in Solo, Zero(a, d)
  PROVE  CoreInv'
  <1>1. TypeOK /\ RosterInv /\ StoreTypes
    BY TypeSplit DEF CoreInv
  <1>2. presigns \in Nat /\ sessions \in Nat /\ events \in Nat
    BY <1>1 DEF TypeOK
  <1>3. RosterTypes' /\ RosterInv'
    <2>1. /\ UNCHANGED <<stored, creds, threshold, nonce, sigs, log, partials>>
          /\ presigns' \in Nat /\ sessions' \in Nat /\ events' \in Nat
      BY <1>2 DEF Zero, pay_register_and_dkg_zero_trust, pay_dkg_zero_trust,
                  request_dkg_zero_trust, accept_user_share, pay_sign_zero_trust,
                  request_sign_zero_trust, SpendPresign, accountVars, rosterVars
    <2>. QED BY <1>1, <2>1, OtherKeeps
  <1>4. StoreTypes'
    <2>1. CASE pay_register_and_dkg_zero_trust(a, d)
      <3>1. /\ PayFromTreasury /\ store_dwallet_cap(d, a) /\ accounts' \subseteq Accounts
            /\ UNCHANGED <<capsOf, retired, accepted>>
        BY <1>1, <2>1 DEF pay_register_and_dkg_zero_trust, StoreTypes
      <3>. QED BY <1>1, <3>1, PayKeeps, VaultKeeps DEF StoreTypes
    <2>2. CASE pay_dkg_zero_trust(a, d)
      <3>1. /\ PayFromTreasury /\ store_dwallet_cap(d, a)
            /\ UNCHANGED <<capsOf, retired, accounts, accepted>>
        BY <2>2 DEF pay_dkg_zero_trust
      <3>. QED BY <1>1, <3>1, PayKeeps, VaultKeeps DEF StoreTypes
    <2>3. CASE request_dkg_zero_trust(a, d)
      <3>1. /\ store_dwallet_cap(d, a)
            /\ UNCHANGED <<capsOf, retired, accounts, accepted, ika, sui>>
        BY <2>3 DEF request_dkg_zero_trust, treasuryVars
      <3>. QED BY <1>1, <3>1, VaultKeeps DEF StoreTypes
    <2>4. CASE accept_user_share(a, d)
      BY <1>1, <2>4 DEF accept_user_share, treasuryVars, StoreTypes
    <2>5. CASE pay_sign_zero_trust(a, d)
      <3>1. PayFromTreasury /\ UNCHANGED <<capsOf, retired, accounts, vault, accepted>>
        BY <2>5 DEF pay_sign_zero_trust, request_sign_zero_trust, storeVars
      <3>. QED BY <1>1, <3>1, PayKeeps DEF StoreTypes
    <2>6. CASE request_sign_zero_trust(a, d) /\ UNCHANGED treasuryVars
      BY <1>1, <2>6, StoreStutters DEF request_sign_zero_trust
    <2>. QED BY <2>1, <2>2, <2>3, <2>4, <2>5, <2>6 DEF Zero
  <1>. QED BY <1>3, <1>4, TypeSplit DEF CoreInv

LEMMA ImportedKeeps ==
  ASSUME CoreInv, NEW a \in Accounts, NEW d \in Imported,
         \/ request_imported_key_dwallet_verification(a, d)
         \/ request_imported_key_sign(a, d)
  PROVE  CoreInv'
  <1>1. TypeOK /\ RosterInv /\ StoreTypes
    BY TypeSplit DEF CoreInv
  <1>2. presigns \in Nat /\ sessions \in Nat /\ events \in Nat
    BY <1>1 DEF TypeOK
  <1>3. RosterTypes' /\ RosterInv'
    <2>1. /\ UNCHANGED <<stored, creds, threshold, nonce, sigs, log, partials>>
          /\ presigns' \in Nat /\ sessions' \in Nat /\ events' \in Nat
      BY <1>2 DEF request_imported_key_dwallet_verification, request_imported_key_sign,
                  SpendPresign, accountVars, rosterVars
    <2>. QED BY <1>1, <2>1, OtherKeeps
  <1>4. StoreTypes'
    <2>1. CASE request_imported_key_dwallet_verification(a, d)
      <3>1. /\ store_dwallet_cap(d, a)
            /\ UNCHANGED <<capsOf, retired, accounts, accepted, ika, sui>>
        BY <2>1 DEF request_imported_key_dwallet_verification, treasuryVars
      <3>. QED BY <1>1, <3>1, VaultKeeps DEF StoreTypes
    <2>2. CASE request_imported_key_sign(a, d)
      BY <1>1, <2>2, StoreStutters DEF request_imported_key_sign
    <2>. QED BY <2>1, <2>2
  <1>. QED BY <1>3, <1>4, TypeSplit DEF CoreInv

LEMMA RegisterKeeps ==
  ASSUME CoreInv, NEW a \in Accounts, register_account(a)
  PROVE  CoreInv'
  <1>1. TypeOK /\ RosterInv /\ StoreTypes
    BY TypeSplit DEF CoreInv
  <1>2. RosterTypes' /\ RosterInv'
    <2>1. /\ UNCHANGED <<stored, creds, threshold, nonce, sigs, log, partials>>
          /\ presigns' \in Nat /\ sessions' \in Nat /\ events' \in Nat
      BY <1>1 DEF register_account, accountVars, TypeOK
    <2>. QED BY <1>1, <2>1, OtherKeeps
  <1>3. StoreTypes'
    BY <1>1 DEF register_account, treasuryVars, StoreTypes
  <1>. QED BY <1>2, <1>3, TypeSplit DEF CoreInv

LEMMA CoreStep ==
  ASSUME CoreInv, [Next]_vars
  PROVE  CoreInv'
  <1>1. CASE Admin
    BY <1>1, AdminKeeps
  <1>2. CASE Shared
    BY <1>2, SharedKeeps
  <1>3. ASSUME NEW a \in Accounts, register_account(a)
        PROVE  CoreInv'
    BY <1>3, RegisterKeeps
  <1>4. ASSUME NEW a \in Accounts, NEW d \in Solo, Zero(a, d)
        PROVE  CoreInv'
    BY <1>4, ZeroKeeps
  <1>5. ASSUME NEW a \in Accounts, NEW d \in Imported,
               \/ request_imported_key_dwallet_verification(a, d)
               \/ request_imported_key_sign(a, d)
        PROVE  CoreInv'
    BY <1>5, ImportedKeeps
  <1>6. ASSUME NEW a \in Accounts, NEW w \in Wallets, NEW initial \in SUBSET Creds,
               NEW t \in 1..MAX_CREDENTIALS, request_dkg_shared(a, w, initial, t)
        PROVE  CoreInv'
    <2>1. TypeOK /\ RosterInv /\ StoreTypes
      BY TypeSplit DEF CoreInv
    <2>2. RosterTypes' /\ RosterInv'
      BY <1>6, <2>1, DkgKeeps
    <2>3. StoreTypes'
      BY <1>6, <2>1, StoreStutters DEF request_dkg_shared
    <2>. QED BY <2>2, <2>3, TypeSplit DEF CoreInv
  <1>7. CASE UNCHANGED vars
    <2>1. TypeOK /\ RosterInv /\ StoreTypes
      BY TypeSplit DEF CoreInv
    <2>2. RosterTypes' /\ RosterInv'
      BY <1>7, <2>1, OtherKeeps DEF vars, accountVars, TypeOK
    <2>3. StoreTypes'
      BY <1>7, <2>1, StoreStutters DEF vars
    <2>. QED BY <2>2, <2>3, TypeSplit DEF CoreInv
  <1>. QED BY <1>1, <1>2, <1>3, <1>4, <1>5, <1>6, <1>7, Zenon DEF Next

LEMMA CoreInvariant == Spec => []CoreInv
  BY CoreInit, CoreStep, PTL DEF Spec

-----------------------------------------------------------------------------
(***************************************************************************)
(* Theorems.                                                               *)
(***************************************************************************)
\* Every variable of the package keeps its type.
THEOREM CoreTypeCorrect == Spec => []TypeOK
  <1>1. CoreInv => TypeOK
    BY DEF CoreInv
  <1>. QED BY <1>1, CoreInvariant, PTL

\* No roster is left open to anyone, or with a threshold it cannot reach unless two
\* of its credentials are sender addresses, of which a transaction shows one.
THEOREM RosterStaysUsable == Spec => []RosterUsable
  <1>1. CoreInv => RosterUsable
    <2>. SUFFICES ASSUME CoreInv, NEW w \in stored
                  PROVE  1 <= threshold[w] /\ (CanAct(w) \/ \E a, b \in creds[w] \cap Addrs : a # b)
      BY DEF RosterUsable
    <2>1. 1 <= threshold[w] /\ Cardinality(creds[w]) >= threshold[w]
      BY DEF CoreInv, RosterInv, RosterBounded, TypeOK
    <2>2. ASSUME ~\E a, b \in creds[w] \cap Addrs : a # b
          PROVE  CanAct(w)
      <3>1. PICK sender \in Addrs \cup {Sponsor} : \A c \in creds[w] \cap Addrs : c = sender
        <4>1. CASE creds[w] \cap Addrs = {}
          BY <4>1
        <4>2. CASE creds[w] \cap Addrs # {}
          BY <2>2, <4>2
        <4>. QED BY <4>1, <4>2
      <3>2. creds[w] \in SUBSET creds[w]
        OBVIOUS
      <3>. QED BY <2>1, <3>1, <3>2 DEF CanAct
    <2>. QED BY <2>1, <2>2
  <1>. QED BY <1>1, CoreInvariant, PTL

\* No challenge is granted twice on a wallet: a grant carries its index in the
\* wallet's history as its nonce.
THEOREM ApprovalsAreUsedOnce == Spec => []NoReplay
  <1>1. CoreInv => NoReplay
    <2>. SUFFICES ASSUME CoreInv, NEW w \in Wallets,
                         NEW i \in DOMAIN log[w], NEW j \in DOMAIN log[w],
                         log[w][i].chal = log[w][j].chal
                  PROVE  i = j
      BY DEF NoReplay
    <2>1. log[w][i].chal[3] = i - 1 /\ log[w][j].chal[3] = j - 1
      BY DEF CoreInv, RosterInv, NonceCountsGrants
    <2>2. i \in Nat /\ j \in Nat
      BY DEF CoreInv, TypeOK
    <2>. QED BY <2>1, <2>2
  <1>. QED BY <1>1, CoreInvariant, PTL

\* No operation runs on a consent given under another roster or threshold.
THEOREM ConsentIsFresh == Spec => []FreshConsent
  <1>1. CoreInv => FreshConsent
    <2>. SUFFICES ASSUME CoreInv, NEW w \in Wallets, NEW i \in DOMAIN log[w],
                         NEW s \in sigs, s.chal = log[w][i].chal
                  PROVE  s.roster = log[w][i].roster /\ s.quorum = log[w][i].quorum
      BY DEF FreshConsent
    <2>1. /\ nonce[w] = Len(log[w])
          /\ log[w][i].chal[2] = w /\ log[w][i].chal[3] = i - 1
      BY DEF CoreInv, RosterInv, NonceCountsGrants
    <2>2. Len(log[w]) \in Nat /\ i \in 1..Len(log[w])
      BY DEF CoreInv, TypeOK
    <2>3. s.chal[2] = w /\ s.chal[3] = i - 1
      BY <2>1
    <2>4. DatedRight(s, s.chal[3], nonce[s.chal[2]], creds[s.chal[2]],
                     threshold[s.chal[2]], log[s.chal[2]])
      BY DatesAreLocal, Zenon DEF CoreInv, RosterInv
    <2>5. DatedRight(s, i - 1, Len(log[w]), creds[w], threshold[w], log[w])
      BY <2>1, <2>3, <2>4
    <2>6. i - 1 < Len(log[w]) /\ (i - 1) + 1 = i
      BY <2>2
    <2>. QED BY <2>5, <2>6 DEF DatedRight
  <1>. QED BY <1>1, CoreInvariant, PTL

\* A wallet's completions and outstanding partial caps are its approved future
\* signs.
THEOREM FutureSignsPair == Spec => []FutureSignPaired
  <1>1. CoreInv => FutureSignPaired
    BY DEF CoreInv, RosterInv
  <1>. QED BY <1>1, CoreInvariant, PTL
=============================================================================
