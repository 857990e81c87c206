------------------------- MODULE BillingLedgerProofs -------------------------
(***************************************************************************)
(* The credit ledger never overdraws an account, never refunds more than   *)
(* it charged, never records half a deposit and never lets a balance drift *)
(* from its journal, for any number of accounts, ops, coins, prices and    *)
(* concurrent handlers.  LedgerInv is inductive: its LocksHeld part says   *)
(* what the row lock, the append-only charge row and the unique index      *)
(* guarantee to a handler between two of its statements.  BalanceIsJournal *)
(* is inductive relative to it and needs the algebra of finite sums, which *)
(* comes first.                                                            *)
(***************************************************************************)
EXTENDS BillingLedger, FiniteSetTheorems, WellFoundedInduction, TLAPS

USE DEF PCs

-----------------------------------------------------------------------------
(***************************************************************************)
(* Sums over finite sets.  The fold of the library is a CHOOSE of a        *)
(* recursive function on subsets; these lemmas show that the function      *)
(* exists and derive the algebra of sums from its equation.                *)
(***************************************************************************)
\* A nonempty set of natural numbers has a least element.
LEMMA Least ==
    ASSUME NEW T, T \subseteq Nat, T # {}
    PROVE  \E n \in T : \A m \in T : n <= m
  <1> DEFINE R == {ss \in Nat \X Nat : ss[1] < ss[2]}
  <1>1. IsWellFoundedOn(R, Nat)
    BY NatLessThanWellFounded, Zenon DEF OpToRel
  <1>2. PICK n \in T : \A m \in T : ~(<<m, n>> \in R)
    <2>. HIDE DEF R
    <2>. QED BY <1>1, WFMin
  <1>3. ASSUME NEW m \in T PROVE n <= m
    <2>1. m \in Nat /\ n \in Nat
      OBVIOUS
    <2>2. m < n => <<m, n>> \in R
      BY <2>1
    <2>. HIDE DEF R
    <2>. QED BY <1>2, <2>1, <2>2
  <1>. QED BY <1>3

\* Induction over a finite set, with the set of subsets that have the
\* property in place of the property.
LEMMA FiniteInd ==
    ASSUME NEW S, IsFiniteSet(S), NEW T, {} \in T,
           \A s \in SUBSET S : s # {} /\ (\A k \in s : s \ {k} \in T) => s \in T
    PROVE  S \in T
  <1>. DEFINE Bad == {n \in Nat : \E s \in SUBSET S :
                          s \notin T /\ Cardinality(s) = n}
  <1>0. \A s \in SUBSET S : IsFiniteSet(s) /\ Cardinality(s) \in Nat
    BY FS_Subset, FS_CardinalityType
  <1>1. SUFFICES ASSUME S \notin T PROVE FALSE
    OBVIOUS
  <1>2. Bad # {}
    BY <1>0, <1>1
  <1>3. PICK n \in Bad : \A m \in Bad : n <= m
    <2>1. Bad \subseteq Nat
      OBVIOUS
    <2>. HIDE DEF Bad
    <2>. QED BY <1>2, <2>1, Least
  <1>4. PICK s \in SUBSET S : s \notin T /\ Cardinality(s) = n
    OBVIOUS
  <1>5. ASSUME NEW k \in s PROVE s \ {k} \in T
    <2>1. Cardinality(s \ {k}) = n - 1
      BY <1>0, <1>4, FS_RemoveElement
    <2>2. s \ {k} \notin T => n - 1 \in Bad
      BY <1>0, <2>1
    <2>. QED BY <1>3, <2>2
  <1>. QED BY <1>4, <1>5

\* The term the fold takes next.
Pick(s) == CHOOSE x \in s : TRUE

\* it sums f over every subset of S.
SumEq(it, f, S) ==
  it = [s \in SUBSET S |-> IF s = {} THEN 0 ELSE f[Pick(s)] + it[s \ {Pick(s)}]]

\* SumFunctionOnSet is the recursive function of the library's fold.
LEMMA SumDef ==
    ASSUME NEW f, NEW S
    PROVE  SumFunctionOnSet(f, S) = (CHOOSE it : SumEq(it, f, S))[S]
  BY DEF SumFunctionOnSet, FoldFunctionOnSet, MapThenFoldSet, SumEq, Pick

\* The fold takes an element of the set.
LEMMA Picked == ASSUME NEW s, s # {} PROVE Pick(s) \in s
  BY DEF Pick

\* One unfolding of the fold.
LEMMA SumAt ==
    ASSUME NEW S, NEW f, NEW i, SumEq(i, f, S), NEW s \in SUBSET S
    PROVE  i[s] = IF s = {} THEN 0 ELSE f[Pick(s)] + i[s \ {Pick(s)}]
  BY DEF SumEq

\* Two folds agree on a set on which their functions agree.
LEMMA SumFrame ==
    ASSUME NEW U, NEW V, NEW f, NEW g, NEW i, NEW j,
           SumEq(i, f, U), SumEq(j, g, V), NEW W, IsFiniteSet(W),
           W \subseteq U, W \subseteq V, \A x \in W : f[x] = g[x]
    PROVE  i[W] = j[W]
  <1>. DEFINE T == {s \in SUBSET W : i[s] = j[s]}
  <1>1. {} \in T
    BY SumAt
  <1>2. ASSUME NEW s \in SUBSET W, s # {}, \A k \in s : s \ {k} \in T
        PROVE  s \in T
    <2>1. Pick(s) \in s
      BY <1>2, Picked
    <2>2. s \in SUBSET U /\ s \in SUBSET V
      OBVIOUS
    <2>3. /\ i[s] = f[Pick(s)] + i[s \ {Pick(s)}]
          /\ j[s] = g[Pick(s)] + j[s \ {Pick(s)}]
      BY <1>2, <2>2, SumAt
    <2>4. i[s \ {Pick(s)}] = j[s \ {Pick(s)}]
      BY <1>2, <2>1
    <2>5. f[Pick(s)] = g[Pick(s)]
      BY <2>1
    <2>6. i[s] = j[s]
      BY <2>3, <2>4, <2>5
    <2>. QED BY <2>6
  <1>. HIDE DEF T
  <1>3. W \in T
    BY <1>1, <1>2, FiniteInd
  <1>. QED BY <1>3 DEF T

\* The solution the fold chooses.
It(f, S) == CHOOSE it : SumEq(it, f, S)

\* The recursive equation of the fold has a solution on a finite set.
LEMMA SumExists ==
    ASSUME NEW f, NEW S, IsFiniteSet(S)
    PROVE  SumEq(It(f, S), f, S)
  <1>. DEFINE T == {s \in SUBSET S : \A u \in SUBSET s : \E it : SumEq(it, f, u)}
  <1>0. ASSUME NEW s PROVE (\E it : SumEq(it, f, s)) <=> SumEq(It(f, s), f, s)
    BY DEF It
  <1>1. {} \in T
    <2>1. SumEq([s \in SUBSET {} |-> 0], f, {})
      <3>1. SUBSET {} = {{}}
        OBVIOUS
      <3>. QED BY <3>1 DEF SumEq
    <2>. QED BY <2>1
  <1>2. ASSUME NEW s \in SUBSET S, s # {}, \A k \in s : s \ {k} \in T
        PROVE  s \in T
    <2>. DEFINE G(u) == IF u = {} THEN 0
                        ELSE f[Pick(u)] + It(f, u \ {Pick(u)})[u \ {Pick(u)}]
                it == [u \in SUBSET s |-> G(u)]
    <2>1. ASSUME NEW u \in SUBSET s, u # s PROVE SumEq(It(f, u), f, u)
      <3>1. PICK k \in s : u \subseteq s \ {k}
        BY <2>1
      <3>. QED BY <1>0, <1>2, <3>1
    <2>2. ASSUME NEW u \in SUBSET s, u # s PROVE It(f, u)[u] = G(u)
      <3>1. CASE u = {}
        BY <2>1, <2>2, <3>1, SumAt
      <3>2. CASE u # {}
        <4>. DEFINE w == u \ {Pick(u)}
        <4>0. Pick(u) \in u
          BY <3>2, Picked
        <4>1. w \in SUBSET s /\ w # s /\ w \subseteq u /\ IsFiniteSet(w)
          BY <4>0, FS_Subset
        <4>. HIDE DEF w
        <4>2. SumEq(It(f, w), f, w) /\ SumEq(It(f, u), f, u)
          BY <2>1, <2>2, <4>1
        <4>3. It(f, u)[w] = It(f, w)[w]
          BY <4>1, <4>2, SumFrame
        <4>4. It(f, u)[u] = f[Pick(u)] + It(f, u)[w]
          <5>1. u \in SUBSET u
            OBVIOUS
          <5>2. It(f, u)[u] = IF u = {} THEN 0
                              ELSE f[Pick(u)] + It(f, u)[u \ {Pick(u)}]
            BY <4>2, <5>1, SumAt
          <5>. QED BY <3>2, <5>2 DEF w
        <4>. QED BY <3>2, <4>3, <4>4 DEF w
      <3>. QED BY <3>1, <3>2
    <2>3. ASSUME NEW u \in SUBSET s
          PROVE  it[u] = IF u = {} THEN 0 ELSE f[Pick(u)] + it[u \ {Pick(u)}]
      <3>1. CASE u = {}
        BY <3>1
      <3>2. CASE u # {}
        <4>. DEFINE w == u \ {Pick(u)}
        <4>0. Pick(u) \in u
          BY <3>2, Picked
        <4>1. w \in SUBSET s /\ w # s
          BY <4>0
        <4>2. it[u] = f[Pick(u)] + It(f, w)[w]
          BY <3>2
        <4>3. it[w] = G(w)
          BY <4>1
        <4>. HIDE DEF w, it, G
        <4>4. it[w] = It(f, w)[w]
          BY <2>2, <4>1, <4>3
        <4>. QED BY <3>2, <4>2, <4>4 DEF w
      <3>. QED BY <3>1, <3>2
    <2>4. SumEq(it, f, s)
      <3>1. it = [u \in SUBSET s |-> it[u]]
        OBVIOUS
      <3>. HIDE DEF it
      <3>. QED BY <2>3, <3>1 DEF SumEq
    <2>5. ASSUME NEW u \in SUBSET s PROVE \E i : SumEq(i, f, u)
      <3>. HIDE DEF it
      <3>. QED BY <2>1, <2>4
    <2>. QED BY <2>5
  <1>3. S \in T
    <2>. HIDE DEF T
    <2>. QED BY <1>1, <1>2, FiniteInd
  <1>. QED BY <1>0, <1>3

\* The sum of nothing is zero.
LEMMA SumEmpty == ASSUME NEW f PROVE SumFunctionOnSet(f, {}) = 0
  <1>1. SumEq(It(f, {}), f, {})
    BY SumExists, FS_EmptySet
  <1>2. It(f, {})[{}] = 0
    BY <1>1, SumAt
  <1>. QED BY <1>2, SumDef DEF It

\* A sum is its picked term and the sum of the rest.
LEMMA SumPicked ==
    ASSUME NEW f, NEW S, IsFiniteSet(S), S # {}
    PROVE  SumFunctionOnSet(f, S)
             = f[Pick(S)] + SumFunctionOnSet(f, S \ {Pick(S)})
  <1>. DEFINE w == S \ {Pick(S)}
  <1>1. IsFiniteSet(w) /\ w \subseteq S
    BY FS_Subset
  <1>. HIDE DEF w
  <1>2. SumEq(It(f, S), f, S) /\ SumEq(It(f, w), f, w)
    BY <1>1, SumExists
  <1>3. It(f, S)[w] = It(f, w)[w]
    BY <1>1, <1>2, SumFrame
  <1>4. It(f, S)[S] = f[Pick(S)] + It(f, S)[w]
    <2>1. S \in SUBSET S
      OBVIOUS
    <2>2. It(f, S)[S] = IF S = {} THEN 0 ELSE f[Pick(S)] + It(f, S)[S \ {Pick(S)}]
      BY <1>2, <2>1, SumAt
    <2>. QED BY <2>2 DEF w
  <1>5. /\ SumFunctionOnSet(f, S) = It(f, S)[S]
        /\ SumFunctionOnSet(f, w) = It(f, w)[w]
    BY SumDef DEF It
  <1>. QED BY <1>3, <1>4, <1>5 DEF w

\* Functions that agree on a finite set have the same sum over it.
LEMMA SumAgree ==
    ASSUME NEW f, NEW g, NEW S, IsFiniteSet(S), \A x \in S : f[x] = g[x]
    PROVE  SumFunctionOnSet(f, S) = SumFunctionOnSet(g, S)
  <1>1. SumEq(It(f, S), f, S) /\ SumEq(It(g, S), g, S)
    BY SumExists
  <1>2. It(f, S)[S] = It(g, S)[S]
    BY <1>1, SumFrame
  <1>. QED BY <1>2, SumDef DEF It

\* Integers sum to an integer, naturals to a natural.
LEMMA SumIsIn ==
    ASSUME NEW f, NEW S, IsFiniteSet(S), NEW D \in {Int, Nat},
           \A x \in S : f[x] \in D
    PROVE  SumFunctionOnSet(f, S) \in D
  <1>. DEFINE T == {s \in SUBSET S : SumFunctionOnSet(f, s) \in D}
  <1>1. {} \in T
    BY SumEmpty
  <1>2. ASSUME NEW s \in SUBSET S, s # {}, \A k \in s : s \ {k} \in T
        PROVE  s \in T
    <2>1. IsFiniteSet(s) /\ Pick(s) \in s
      BY <1>2, Picked, FS_Subset
    <2>2. SumFunctionOnSet(f, s) = f[Pick(s)] + SumFunctionOnSet(f, s \ {Pick(s)})
      BY <1>2, <2>1, SumPicked
    <2>. QED BY <1>2, <2>1, <2>2
  <1>3. S \in T
    <2>. HIDE DEF T
    <2>. QED BY <1>1, <1>2, FiniteInd
  <1>. QED BY <1>3

\* Any term can be taken out of a sum.
LEMMA SumRemove ==
    ASSUME NEW f, NEW S, IsFiniteSet(S), \A x \in S : f[x] \in Int, NEW k \in S
    PROVE  SumFunctionOnSet(f, S) = f[k] + SumFunctionOnSet(f, S \ {k})
  <1>. DEFINE T == {s \in SUBSET S : \A x \in s :
                      SumFunctionOnSet(f, s) = f[x] + SumFunctionOnSet(f, s \ {x})}
  <1>0. \A s \in SUBSET S : IsFiniteSet(s) /\ SumFunctionOnSet(f, s) \in Int
    BY FS_Subset, SumIsIn
  <1>1. {} \in T
    OBVIOUS
  <1>2. ASSUME NEW s \in SUBSET S, s # {}, \A x \in s : s \ {x} \in T
        PROVE  s \in T
    <2>. DEFINE c == Pick(s)
    <2>1. c \in s
      BY <1>2, Picked
    <2>2. SumFunctionOnSet(f, s) = f[c] + SumFunctionOnSet(f, s \ {c})
      BY <1>0, <1>2, SumPicked
    <2>. HIDE DEF c
    <2>3. ASSUME NEW x \in s, x # c
          PROVE  SumFunctionOnSet(f, s) = f[x] + SumFunctionOnSet(f, s \ {x})
      <3>. DEFINE v == s \ {x, c}
      <3>1. (s \ {c}) \ {x} = v /\ (s \ {x}) \ {c} = v
        OBVIOUS
      <3>2. SumFunctionOnSet(f, s \ {c})
              = f[x] + SumFunctionOnSet(f, (s \ {c}) \ {x})
        BY <1>2, <2>1, <2>3
      <3>3. SumFunctionOnSet(f, s \ {x})
              = f[c] + SumFunctionOnSet(f, (s \ {x}) \ {c})
        BY <1>2, <2>1, <2>3
      <3>4. SumFunctionOnSet(f, v) \in Int /\ f[x] \in Int /\ f[c] \in Int
        BY <1>0, <2>1
      <3>. HIDE DEF v
      <3>. QED BY <2>2, <3>1, <3>2, <3>3, <3>4
    <2>. QED BY <2>2, <2>3
  <1>3. S \in T
    <2>. HIDE DEF T
    <2>. QED BY <1>1, <1>2, FiniteInd
  <1>. QED BY <1>3

\* Changing one term changes the sum by the difference.
LEMMA SumUpdate ==
    ASSUME NEW f, NEW g, NEW S, IsFiniteSet(S), \A x \in S : f[x] \in Int,
           \A x \in S : g[x] \in Int, NEW k \in S,
           \A x \in S \ {k} : g[x] = f[x]
    PROVE  SumFunctionOnSet(g, S) = SumFunctionOnSet(f, S) - f[k] + g[k]
  <1>. DEFINE w == S \ {k}
  <1>1. IsFiniteSet(w) /\ w \subseteq S
    BY FS_Subset
  <1>2. SumFunctionOnSet(f, S) = f[k] + SumFunctionOnSet(f, w)
    BY SumRemove
  <1>3. SumFunctionOnSet(g, S) = g[k] + SumFunctionOnSet(g, w)
    BY SumRemove
  <1>4. SumFunctionOnSet(f, w) \in Int
    BY <1>1, SumIsIn
  <1>5. SumFunctionOnSet(f, w) = SumFunctionOnSet(g, w)
    BY <1>1, SumAgree
  <1>. HIDE DEF w
  <1>. QED BY <1>2, <1>3, <1>4, <1>5

\* The sum over a disjoint union is the sum of the sums.
LEMMA SumUnion ==
    ASSUME NEW f, NEW U, NEW V, IsFiniteSet(U), IsFiniteSet(V), U \cap V = {},
           \A x \in U \cup V : f[x] \in Int
    PROVE  SumFunctionOnSet(f, U \cup V)
             = SumFunctionOnSet(f, U) + SumFunctionOnSet(f, V)
  <1>. DEFINE T == {s \in SUBSET V : SumFunctionOnSet(f, U \cup s)
                       = SumFunctionOnSet(f, U) + SumFunctionOnSet(f, s)}
  <1>0. \A s \in SUBSET V :
           /\ IsFiniteSet(s) /\ IsFiniteSet(U \cup s)
           /\ SumFunctionOnSet(f, s) \in Int
           /\ SumFunctionOnSet(f, U \cup s) \in Int
    <2>1. \A s \in SUBSET V : IsFiniteSet(s) /\ IsFiniteSet(U \cup s)
      BY FS_Subset, FS_Union
    <2>. QED BY <2>1, SumIsIn
  <1>1. {} \in T
    <2>1. SumFunctionOnSet(f, {}) = 0 /\ U \cup {} = U
      BY SumEmpty
    <2>2. SumFunctionOnSet(f, U) \in Int
      BY SumIsIn
    <2>. QED BY <2>1, <2>2
  <1>2. ASSUME NEW s \in SUBSET V, s # {}, \A x \in s : s \ {x} \in T
        PROVE  s \in T
    <2>1. PICK x \in s : TRUE
      BY <1>2
    <2>2. (U \cup s) \ {x} = U \cup (s \ {x})
      OBVIOUS
    <2>3. SumFunctionOnSet(f, s) = f[x] + SumFunctionOnSet(f, s \ {x})
      <3>1. IsFiniteSet(s) /\ \A y \in s : f[y] \in Int
        BY <1>0
      <3>. QED BY <3>1, SumRemove
    <2>4. SumFunctionOnSet(f, U \cup s)
            = f[x] + SumFunctionOnSet(f, U \cup (s \ {x}))
      <3>1. /\ IsFiniteSet(U \cup s) /\ x \in U \cup s
            /\ \A y \in U \cup s : f[y] \in Int
        BY <1>0
      <3>2. SumFunctionOnSet(f, U \cup s)
              = f[x] + SumFunctionOnSet(f, (U \cup s) \ {x})
        BY <3>1, SumRemove
      <3>. QED BY <2>2, <3>2
    <2>5. SumFunctionOnSet(f, U \cup (s \ {x}))
            = SumFunctionOnSet(f, U) + SumFunctionOnSet(f, s \ {x})
      BY <1>2
    <2>6. /\ SumFunctionOnSet(f, U) \in Int /\ f[x] \in Int
          /\ SumFunctionOnSet(f, s \ {x}) \in Int
      BY <1>0, SumIsIn
    <2>7. SumFunctionOnSet(f, U \cup s)
            = SumFunctionOnSet(f, U) + SumFunctionOnSet(f, s)
      BY <2>3, <2>4, <2>5, <2>6
    <2>. QED BY <2>7
  <1>3. V \in T
    <2>. HIDE DEF T
    <2>. QED BY <1>1, <1>2, FiniteInd
  <1>. QED BY <1>3

\* Zeros sum to zero.
LEMMA SumZero ==
    ASSUME NEW f, NEW S, IsFiniteSet(S), \A x \in S : f[x] = 0
    PROVE  SumFunctionOnSet(f, S) = 0
  <1>. DEFINE T == {s \in SUBSET S : SumFunctionOnSet(f, s) = 0}
  <1>1. {} \in T
    BY SumEmpty
  <1>2. ASSUME NEW s \in SUBSET S, s # {}, \A k \in s : s \ {k} \in T
        PROVE  s \in T
    <2>1. IsFiniteSet(s) /\ Pick(s) \in s
      BY <1>2, Picked, FS_Subset
    <2>2. SumFunctionOnSet(f, s) = f[Pick(s)] + SumFunctionOnSet(f, s \ {Pick(s)})
      BY <1>2, <2>1, SumPicked
    <2>. QED BY <1>2, <2>1, <2>2
  <1>3. S \in T
    <2>. HIDE DEF T
    <2>. QED BY <1>1, <1>2, FiniteInd
  <1>. QED BY <1>3

\* The indices of S under the tag d.
Tagged(d, S) == {<<d, x>> : x \in S}

\* Summing over tagged indices is summing over the indices.
LEMMA SumTagged ==
    ASSUME NEW f, NEW g, NEW d, NEW S, IsFiniteSet(S),
           \A x \in S : f[x] \in Int /\ g[<<d, x>>] = f[x]
    PROVE  SumFunctionOnSet(g, Tagged(d, S)) = SumFunctionOnSet(f, S)
  <1>. DEFINE T == {s \in SUBSET S :
                      SumFunctionOnSet(g, Tagged(d, s)) = SumFunctionOnSet(f, s)}
  <1>0. \A s \in SUBSET S : IsFiniteSet(s) /\ IsFiniteSet(Tagged(d, s))
    <2>1. ASSUME NEW s \in SUBSET S
          PROVE  IsFiniteSet(s) /\ IsFiniteSet(Tagged(d, s))
      <3>1. IsFiniteSet(s) /\ IsFiniteSet({d})
        BY FS_Subset, FS_Singleton
      <3>2. IsFiniteSet({d} \X s)
        BY <3>1, FS_Product
      <3>3. {d} \X s = Tagged(d, s)
        BY DEF Tagged
      <3>. QED BY <3>1, <3>2, <3>3
    <2>. QED BY <2>1
  <1>1. {} \in T
    <2>1. Tagged(d, {}) = {}
      BY DEF Tagged
    <2>. QED BY <2>1, SumEmpty
  <1>2. ASSUME NEW s \in SUBSET S, s # {}, \A x \in s : s \ {x} \in T
        PROVE  s \in T
    <2>1. PICK x \in s : TRUE
      BY <1>2
    <2>2. Tagged(d, s) \ {<<d, x>>} = Tagged(d, s \ {x})
      BY DEF Tagged
    <2>3. SumFunctionOnSet(f, s) = f[x] + SumFunctionOnSet(f, s \ {x})
      <3>1. IsFiniteSet(s) /\ \A y \in s : f[y] \in Int
        BY <1>0
      <3>. HIDE DEF T
      <3>. QED BY <3>1, SumRemove
    <2>4. SumFunctionOnSet(g, Tagged(d, s))
            = g[<<d, x>>] + SumFunctionOnSet(g, Tagged(d, s \ {x}))
      <3>1. <<d, x>> \in Tagged(d, s) /\ \A y \in Tagged(d, s) : g[y] \in Int
        BY DEF Tagged
      <3>2. SumFunctionOnSet(g, Tagged(d, s))
              = g[<<d, x>>] + SumFunctionOnSet(g, Tagged(d, s) \ {<<d, x>>})
        <4>. DEFINE W == Tagged(d, s)
                    y == <<d, x>>
        <4>1. IsFiniteSet(W) /\ y \in W /\ \A z \in W : g[z] \in Int
          BY <1>0, <3>1
        <4>. HIDE DEF W, y
        <4>2. SumFunctionOnSet(g, W) = g[y] + SumFunctionOnSet(g, W \ {y})
          BY <4>1, SumRemove
        <4>. QED BY <4>2 DEF W, y
      <3>. QED BY <2>2, <3>2
    <2>. QED BY <1>2, <2>3, <2>4
  <1>3. S \in T
    <2>. HIDE DEF T
    <2>. QED BY <1>1, <1>2, FiniteInd
  <1>. QED BY <1>3

\* The zero terms of a sum can be left out.
LEMMA SumPositive ==
    ASSUME NEW f, NEW S, IsFiniteSet(S), \A x \in S : f[x] \in Nat
    PROVE  SumFunctionOnSet(f, S) = SumFunctionOnSet(f, {x \in S : f[x] > 0})
  <1>. DEFINE U == {x \in S : f[x] > 0}
              V == {x \in S : f[x] = 0}
  <1>1. /\ S = U \cup V /\ U \cap V = {} /\ IsFiniteSet(U) /\ IsFiniteSet(V)
        /\ \A x \in V : f[x] = 0
        /\ \A x \in U \cup V : f[x] \in Int
    BY FS_Subset
  <1>. HIDE DEF U, V
  <1>2. SumFunctionOnSet(f, S) = SumFunctionOnSet(f, U) + SumFunctionOnSet(f, V)
    BY <1>1, SumUnion
  <1>3. SumFunctionOnSet(f, V) = 0 /\ SumFunctionOnSet(f, U) \in Int
    BY <1>1, SumZero, SumIsIn
  <1>4. SumFunctionOnSet(f, S) = SumFunctionOnSet(f, U)
    BY <1>2, <1>3
  <1>. QED BY <1>4 DEF U

\* SumFunction sums over the domain.
LEMMA SumWhole ==
    ASSUME NEW f
    PROVE  SumFunction(f) = SumFunctionOnSet(f, DOMAIN f)
  BY DEF SumFunction, SumFunctionOnSet, FoldFunction

-----------------------------------------------------------------------------
\* The accepted coin types are finitely many.
LEMMA CoinsFinite == IsFiniteSet(Coins)
  <1>1. NCoins \in Int
    BY LedgerAssumption
  <1>2. IsFiniteSet(1 .. NCoins)
    BY <1>1, FS_Interval
  <1>. QED BY <1>2 DEF Coins

\* What the proofs need of the constants.
LEMMA LedgerFacts ==
    /\ None \notin Procs /\ None \notin Accounts
    /\ OwnerOf \in [Ops -> Accounts]
    /\ Price \in [Ops -> Nat \ {0}]
    /\ MaxRefund \in Nat
    /\ \A d \in Digests, a \in Accounts : preTotal(d, a) \in Nat
  <1>1. ASSUME NEW d \in Digests, NEW a \in Accounts
        PROVE  preTotal(d, a) \in Nat
    <2>1. Paid[d][a] \in [Coins -> Nat] /\ IsFiniteSet(Coins)
      BY LedgerAssumption, CoinsFinite
    <2>2. SumFunctionOnSet(Paid[d][a], Coins) \in Nat
      BY <2>1, SumIsIn
    <2>. QED BY <2>1, <2>2, SumWhole DEF preTotal
  <1>. QED BY <1>1, LedgerAssumption

\* The keys of a deposit are index keys, one for each coin it pays in.
LEMMA KeysAreKeys ==
    ASSUME NEW d \in Digests, NEW a \in Accounts
    PROVE  /\ KeysOf(d, a) \subseteq DepositKeys
           /\ \A k \in CoinsPaid(d, a) :
                 /\ suffixForCoinType(d, a, k) \in DepositKeys
                 /\ suffixForCoinType(d, a, k) \in KeysOf(d, a)
  <1>1. ASSUME NEW k \in CoinsPaid(d, a)
        PROVE  suffixForCoinType(d, a, k) \in DepositKeys
    BY DEF DepositKeys, suffixForCoinType, CoinsPaid
  <1>2. \A k \in CoinsPaid(d, a) : suffixForCoinType(d, a, k) \in KeysOf(d, a)
    BY DEF KeysOf
  <1>. QED BY <1>1, <1>2 DEF KeysOf

\* Digests do not share keys.
LEMMA KeysShareDigest ==
    ASSUME NEW d \in Digests, NEW a \in Accounts, NEW e \in Digests,
           NEW b \in Accounts, NEW key \in KeysOf(d, a), key \in KeysOf(e, b)
    PROVE  d = e
  BY DEF KeysOf, suffixForCoinType

\* The row recordDeposit writes under a key is credited to its account.
LEMMA RowsAreRows ==
    ASSUME NEW d \in Digests, NEW a \in Accounts, NEW key \in DepositKeys
    PROVE  RowFor(a, d, key) \in DepositRows /\ RowFor(a, d, key).to = a
  <1>1. preTotal(d, a) \in Nat
    BY LedgerFacts
  <1>2. ASSUME key[2] # Bare PROVE Paid[d][a][key[2]] \in Nat
    <2>1. key[2] \in Coins
      BY <1>2 DEF DepositKeys
    <2>2. Paid[d][a] \in [Coins -> Nat]
      BY LedgerAssumption
    <2>. QED BY <2>1, <2>2
  <1>. QED BY <1>1, <1>2 DEF RowFor, DepositRows

\* A handler whose transaction ends lets go of its index entries and of no
\* other, and leaves no row under an entry another handler holds.
LEMMA KeysReleased ==
    ASSUME NEW p \in Procs, LedgerInv, UnlockKeys(p),
           pc'[p] # "deposit.commit",
           \A q \in Procs \ {p} :
              pc'[q] = pc[q] /\ op'[q] = op[q] /\ acct'[q] = acct[q],
           \A key \in DepositKeys :
              keyLock[key] # p => deposit'[key] = deposit[key]
    PROVE  KeysHeld'
  <1>. USE DEF LedgerInv, LocksHeld
  <1>1. \A key \in DepositKeys, q \in Procs :
           keyLock'[key] = q <=> keyLock[key] = q /\ q # p
    BY LedgerFacts DEF UnlockKeys, TypeOK
  <1>2. ASSUME NEW q \in Procs, pc'[q] = "deposit.commit",
               NEW key \in KeysOf(op'[q], acct'[q])
        PROVE  keyLock'[key] = q
    <2>1. q # p /\ pc[q] = "deposit.commit" /\ key \in KeysOf(op[q], acct[q])
      BY <1>2
    <2>2. key \in DepositKeys
      BY <2>1, KeysAreKeys DEF CallsTyped
    <2>. QED BY <1>1, <2>1, <2>2 DEF KeysHeld
  <1>3. ASSUME NEW key \in DepositKeys, NEW q \in Procs, keyLock'[key] = q
        PROVE  /\ pc'[q] \in {"deposit.insert", "deposit.commit"}
               /\ key \in KeysOf(op'[q], acct'[q])
               /\ deposit'[key] = NoDeposit
    BY <1>1, <1>3 DEF KeysHeld
  <1>. QED BY <1>2, <1>3 DEF KeysHeld

\* No account has a row, no handler runs and nothing is locked.
LEMMA LedgerInit == Init => LedgerInv
  <1>. SUFFICES ASSUME Init PROVE LedgerInv
    OBVIOUS
  <1>. USE LedgerFacts DEF Init
  <1>1. TypeOK
    BY DEF TypeOK, NoDeposit, DepositRows
  <1>2. LocksHeld
    BY DEF LocksHeld, CallsTyped, ChargeCovered, RefundCovered, KeysHeld
  <1>3. NoOverdraft /\ RefundWithinCharge
    BY DEF NoOverdraft, RefundWithinCharge
  <1>4. DepositIsAtomic
    <2>1. ASSUME NEW d \in Digests, NEW a \in Accounts,
                 NEW key \in KeysOf(d, a)
          PROVE  deposit[key].to # a
      BY KeysAreKeys DEF NoDeposit
    <2>. QED BY <2>1 DEF DepositIsAtomic
  <1>. QED BY <1>1, <1>2, <1>3, <1>4 DEF LedgerInv

\* A charge that starts holds nothing.
LEMMA StepChargeBegin ==
    ASSUME NEW p \in Procs, NEW o \in Ops, LedgerInv, ChargeBegin(p, o)
    PROVE  LedgerInv'
  <1>. USE LedgerFacts DEF LedgerInv, LocksHeld, ChargeBegin,
               getOrCreateAccount, Call, Goto
  <1>1. TypeOK'
    BY DEF TypeOK, CallsTyped
  <1>2. CallsTyped'
    BY DEF TypeOK, CallsTyped
  <1>3. ChargeCovered'
    BY DEF TypeOK, CallsTyped, ChargeCovered
  <1>4. RefundCovered'
    BY DEF TypeOK, CallsTyped, RefundCovered
  <1>5. KeysHeld'
    BY DEF TypeOK, CallsTyped, KeysHeld
  <1>6. /\ NoOverdraft'
        /\ RefundWithinCharge'
        /\ DepositIsAtomic'
    BY DEF NoOverdraft, RefundWithinCharge, DepositIsAtomic
  <1>. QED BY <1>1, <1>2, <1>3, <1>4, <1>5, <1>6

\* The balance is read under the row lock, so it covers the charge.
LEMMA StepChargeLock ==
    ASSUME NEW p \in Procs, LedgerInv, ChargeLock(p)
    PROVE  LedgerInv'
  <1>. USE LedgerFacts DEF LedgerInv, LocksHeld, ChargeLock, Goto, Return
  <1>1. TypeOK'
    BY DEF TypeOK, CallsTyped
  <1>2. CallsTyped'
    BY DEF TypeOK, CallsTyped
  <1>3. ChargeCovered'
    BY DEF TypeOK, CallsTyped, ChargeCovered
  <1>4. RefundCovered'
    BY DEF TypeOK, CallsTyped, RefundCovered
  <1>5. KeysHeld'
    <2>1. \A q \in Procs : q # p =>
             pc'[q] = pc[q] /\ op'[q] = op[q] /\ acct'[q] = acct[q]
      BY DEF TypeOK
    <2>2. pc'[p] # "deposit.commit" /\ \A key \in DepositKeys : keyLock[key] # p
      BY DEF TypeOK, KeysHeld
    <2>. QED BY <2>1, <2>2 DEF KeysHeld
  <1>6. /\ NoOverdraft'
        /\ RefundWithinCharge'
        /\ DepositIsAtomic'
    BY DEF NoOverdraft, RefundWithinCharge, DepositIsAtomic
  <1>. QED BY <1>1, <1>2, <1>3, <1>4, <1>5, <1>6

\* Only the holder of the row lock debits the account.
LEMMA StepChargeCommit ==
    ASSUME NEW p \in Procs, LedgerInv, ChargeCommit(p)
    PROVE  LedgerInv'
  <1>. USE LedgerFacts DEF LedgerInv, LocksHeld, ChargeCommit, Unlock, Return,
               Goto
  <1>1. TypeOK'
    BY DEF TypeOK, CallsTyped
  <1>2. CallsTyped'
    BY DEF TypeOK, CallsTyped
  <1>3. ChargeCovered'
    BY DEF TypeOK, CallsTyped, ChargeCovered
  <1>4. RefundCovered'
    BY DEF TypeOK, CallsTyped, RefundCovered
  <1>5. KeysHeld'
    BY DEF TypeOK, CallsTyped, KeysHeld
  <1>6. NoOverdraft'
    BY DEF TypeOK, CallsTyped, ChargeCovered, NoOverdraft
  <1>7. RefundWithinCharge'
    BY DEF TypeOK, CallsTyped, RefundCovered, RefundWithinCharge
  <1>8. DepositIsAtomic'
    BY DEF DepositIsAtomic
  <1>. QED BY <1>1, <1>2, <1>3, <1>4, <1>5, <1>6, <1>7, <1>8

\* A refund that starts holds nothing.
LEMMA StepRefundBegin ==
    ASSUME NEW p \in Procs, NEW o \in Ops, NEW n \in 1 .. MaxRefund,
           LedgerInv, RefundBegin(p, o, n)
    PROVE  LedgerInv'
  <1>. USE LedgerFacts DEF LedgerInv, LocksHeld, RefundBegin,
               getOrCreateAccount, Call, Goto
  <1>1. TypeOK'
    BY DEF TypeOK, CallsTyped
  <1>2. CallsTyped'
    BY DEF TypeOK, CallsTyped
  <1>3. ChargeCovered'
    BY DEF TypeOK, CallsTyped, ChargeCovered
  <1>4. RefundCovered'
    BY DEF TypeOK, CallsTyped, RefundCovered
  <1>5. KeysHeld'
    BY DEF TypeOK, CallsTyped, KeysHeld
  <1>6. /\ NoOverdraft'
        /\ RefundWithinCharge'
        /\ DepositIsAtomic'
    BY DEF NoOverdraft, RefundWithinCharge, DepositIsAtomic
  <1>. QED BY <1>1, <1>2, <1>3, <1>4, <1>5, <1>6

\* The clamp reads a charge row that never changes again.
LEMMA StepRefundCheck ==
    ASSUME NEW p \in Procs, LedgerInv, RefundCheck(p)
    PROVE  LedgerInv'
  <1>. USE LedgerFacts DEF LedgerInv, LocksHeld, RefundCheck, maxRefundable,
               Goto, Return
  <1>1. TypeOK'
    BY DEF TypeOK, CallsTyped
  <1>2. CallsTyped'
    BY DEF TypeOK, CallsTyped
  <1>3. ChargeCovered'
    BY DEF TypeOK, CallsTyped, ChargeCovered
  <1>4. RefundCovered'
    BY DEF TypeOK, CallsTyped, RefundCovered
  <1>5. KeysHeld'
    BY DEF TypeOK, CallsTyped, KeysHeld
  <1>6. /\ NoOverdraft'
        /\ RefundWithinCharge'
        /\ DepositIsAtomic'
    BY DEF NoOverdraft, RefundWithinCharge, DepositIsAtomic
  <1>. QED BY <1>1, <1>2, <1>3, <1>4, <1>5, <1>6

\* A refund credits what its charge covers, once.
LEMMA StepRefundCommit ==
    ASSUME NEW p \in Procs, LedgerInv, RefundCommit(p)
    PROVE  LedgerInv'
  <1>. USE LedgerFacts DEF LedgerInv, LocksHeld, RefundCommit, Return, Goto
  <1>1. TypeOK'
    BY DEF TypeOK, CallsTyped
  <1>2. CallsTyped'
    BY DEF TypeOK, CallsTyped
  <1>3. ChargeCovered'
    BY DEF TypeOK, CallsTyped, ChargeCovered
  <1>4. RefundCovered'
    BY DEF TypeOK, CallsTyped, RefundCovered
  <1>5. KeysHeld'
    BY DEF TypeOK, CallsTyped, KeysHeld
  <1>6. NoOverdraft'
    BY DEF TypeOK, CallsTyped, ChargeCovered, NoOverdraft
  <1>7. RefundWithinCharge'
    BY DEF TypeOK, CallsTyped, RefundCovered, RefundWithinCharge
  <1>8. DepositIsAtomic'
    BY DEF DepositIsAtomic
  <1>. QED BY <1>1, <1>2, <1>3, <1>4, <1>5, <1>6, <1>7, <1>8

\* A deposit that starts holds nothing.
LEMMA StepDepositBegin ==
    ASSUME NEW p \in Procs, NEW d \in Digests, NEW a \in Accounts, LedgerInv,
           DepositBegin(p, d, a)
    PROVE  LedgerInv'
  <1>. USE LedgerFacts DEF LedgerInv, LocksHeld, DepositBegin,
               getOrCreateAccount, Call, Goto
  <1>1. TypeOK'
    BY DEF TypeOK, CallsTyped
  <1>2. CallsTyped'
    BY DEF TypeOK, CallsTyped
  <1>3. ChargeCovered'
    BY DEF TypeOK, CallsTyped, ChargeCovered
  <1>4. RefundCovered'
    BY DEF TypeOK, CallsTyped, RefundCovered
  <1>5. KeysHeld'
    BY DEF TypeOK, CallsTyped, KeysHeld
  <1>6. /\ NoOverdraft'
        /\ RefundWithinCharge'
        /\ DepositIsAtomic'
    BY DEF NoOverdraft, RefundWithinCharge, DepositIsAtomic
  <1>. QED BY <1>1, <1>2, <1>3, <1>4, <1>5, <1>6

\* Verification only reads.
LEMMA StepDepositVerify ==
    ASSUME NEW p \in Procs, LedgerInv, DepositVerify(p)
    PROVE  LedgerInv'
  <1>. USE LedgerFacts DEF LedgerInv, LocksHeld, DepositVerify, Return, Goto
  <1>1. TypeOK'
    BY DEF TypeOK, CallsTyped
  <1>2. CallsTyped'
    BY DEF TypeOK, CallsTyped
  <1>3. ChargeCovered'
    BY DEF TypeOK, CallsTyped, ChargeCovered
  <1>4. RefundCovered'
    BY DEF TypeOK, CallsTyped, RefundCovered
  <1>5. KeysHeld'
    BY DEF TypeOK, CallsTyped, KeysHeld
  <1>6. /\ NoOverdraft'
        /\ RefundWithinCharge'
        /\ DepositIsAtomic'
    BY DEF NoOverdraft, RefundWithinCharge, DepositIsAtomic
  <1>. QED BY <1>1, <1>2, <1>3, <1>4, <1>5, <1>6

\* A deposit collects the index entries of all its rows, or none.
LEMMA StepDepositInsert ==
    ASSUME NEW p \in Procs, LedgerInv, DepositInsert(p)
    PROVE  LedgerInv'
  <1>. USE LedgerFacts DEF LedgerInv, LocksHeld, DepositInsert, Goto,
               UnlockKeys, Return
  <1>1. TypeOK'
    BY DEF TypeOK, CallsTyped
  <1>2. CallsTyped'
    BY DEF TypeOK, CallsTyped
  <1>3. ChargeCovered'
    BY DEF TypeOK, CallsTyped, ChargeCovered
  <1>4. RefundCovered'
    BY DEF TypeOK, CallsTyped, RefundCovered
  <1>5. KeysHeld'
    <2>. DEFINE Key(k) == suffixForCoinType(op[p], acct[p], k)
                todo == {k \in CoinsPaid(op[p], acct[p]) : keyLock[Key(k)] # p}
    <2>0. op[p] \in Digests /\ acct[p] \in Accounts
      BY DEF CallsTyped
    <2>1. CASE /\ todo = {}
               /\ Goto(p, "deposit.commit")
               /\ UNCHANGED <<keyLock, op, acct, amt>>
      <3>1. \A key \in KeysOf(op[p], acct[p]) : keyLock[key] = p
        BY <2>1 DEF KeysOf
      <3>. QED BY <2>1, <3>1 DEF TypeOK, KeysHeld
    <2>2. ASSUME NEW k \in todo,
                 deposit[Key(k)] = NoDeposit, keyLock[Key(k)] = None,
                 keyLock' = [keyLock EXCEPT ![Key(k)] = p],
                 UNCHANGED <<pc, op, acct, amt>>
          PROVE  KeysHeld'
      <3>1. Key(k) \in DepositKeys /\ Key(k) \in KeysOf(op[p], acct[p])
        BY <2>0, KeysAreKeys
      <3>. HIDE DEF Key, todo
      <3>. QED BY <2>2, <3>1 DEF TypeOK, KeysHeld
    <2>3. CASE UnlockKeys(p) /\ Return(p)
      BY <2>3, KeysReleased DEF TypeOK
    <2>. QED BY <2>1, <2>2, <2>3
  <1>6. /\ NoOverdraft'
        /\ RefundWithinCharge'
        /\ DepositIsAtomic'
    BY DEF NoOverdraft, RefundWithinCharge, DepositIsAtomic
  <1>. QED BY <1>1, <1>2, <1>3, <1>4, <1>5, <1>6

\* A deposit's rows appear together.
LEMMA StepDepositCommit ==
    ASSUME NEW p \in Procs, LedgerInv, DepositCommit(p)
    PROVE  LedgerInv'
  <1>. USE LedgerFacts DEF LedgerInv, LocksHeld, DepositCommit, UnlockKeys,
               Goto
  <1>1. TypeOK'
    <2>1. op[p] \in Digests /\ acct[p] \in Accounts
      BY DEF CallsTyped
    <2>2. deposit' \in [DepositKeys -> DepositRows]
      BY <2>1, RowsAreRows DEF TypeOK
    <2>3. credits' \in [Accounts -> Int]
      BY <2>1 DEF TypeOK
    <2>. QED BY <2>2, <2>3 DEF TypeOK
  <1>2. CallsTyped'
    BY DEF TypeOK, CallsTyped
  <1>3. ChargeCovered'
    BY DEF TypeOK, CallsTyped, ChargeCovered
  <1>4. RefundCovered'
    BY DEF TypeOK, CallsTyped, RefundCovered
  <1>5. KeysHeld'
    BY KeysReleased DEF TypeOK
  <1>6. NoOverdraft'
    BY DEF TypeOK, CallsTyped, ChargeCovered, NoOverdraft
  <1>7. DepositIsAtomic'
    <2>1. op[p] \in Digests /\ acct[p] \in Accounts
      BY DEF CallsTyped
    <2>2. \A key \in DepositKeys :
             keyLock[key] # p => deposit'[key] = deposit[key]
      OBVIOUS
    <2>3. \A key \in DepositKeys : keyLock[key] = p =>
             /\ key \in KeysOf(op[p], acct[p])
             /\ deposit[key].to = None
             /\ deposit'[key].to = acct[p]
      BY <2>1, RowsAreRows DEF KeysHeld, NoDeposit
    <2>4. ASSUME NEW d \in Digests, NEW a \in Accounts,
                 NEW one \in KeysOf(d, a), deposit'[one].to = a,
                 NEW key \in KeysOf(d, a)
          PROVE  deposit'[key].to = a
      <3>1. one \in DepositKeys /\ key \in DepositKeys
        BY KeysAreKeys
      <3>2. CASE keyLock[one] # p
        <4>1. deposit[one].to = a
          BY <2>2, <2>4, <3>1, <3>2
        <4>2. deposit[key].to = a
          BY <4>1 DEF DepositIsAtomic
        <4>. QED BY <2>2, <2>3, <3>1, <4>2
      <3>3. CASE keyLock[one] = p
        <4>1. a = acct[p]
          BY <2>3, <2>4, <3>1, <3>3
        <4>2. d = op[p]
          BY <2>1, <2>3, <3>1, <3>3, KeysShareDigest
        <4>3. keyLock[key] = p
          BY <4>1, <4>2 DEF KeysHeld
        <4>. QED BY <2>3, <3>1, <4>1, <4>3
      <3>. QED BY <3>2, <3>3
    <2>. QED BY <2>4 DEF DepositIsAtomic
  <1>8. RefundWithinCharge'
    BY DEF RefundWithinCharge
  <1>. QED BY <1>1, <1>2, <1>3, <1>4, <1>5, <1>6, <1>7, <1>8

\* Enqueueing the sweep touches no balance.
LEMMA StepDepositEnqueue ==
    ASSUME NEW p \in Procs, LedgerInv, DepositEnqueue(p)
    PROVE  LedgerInv'
  <1>. USE LedgerFacts DEF LedgerInv, LocksHeld, DepositEnqueue, Return, Goto
  <1>1. TypeOK'
    <2>1. sweepJobs' \subseteq DepositKeys
      BY KeysAreKeys DEF TypeOK, CallsTyped
    <2>. QED BY <2>1 DEF TypeOK
  <1>2. CallsTyped'
    BY DEF TypeOK, CallsTyped
  <1>3. ChargeCovered'
    BY DEF TypeOK, CallsTyped, ChargeCovered
  <1>4. RefundCovered'
    BY DEF TypeOK, CallsTyped, RefundCovered
  <1>5. KeysHeld'
    BY DEF TypeOK, CallsTyped, KeysHeld
  <1>6. /\ NoOverdraft'
        /\ RefundWithinCharge'
        /\ DepositIsAtomic'
    BY DEF NoOverdraft, RefundWithinCharge, DepositIsAtomic
  <1>. QED BY <1>1, <1>2, <1>3, <1>4, <1>5, <1>6

\* A rollback releases everything and writes nothing.
LEMMA StepCrash ==
    ASSUME NEW p \in Procs, LedgerInv, Crash(p)
    PROVE  LedgerInv'
  <1>. USE LedgerFacts DEF LedgerInv, LocksHeld, Crash, Unlock, UnlockKeys,
               Return, Goto
  <1>1. TypeOK'
    BY DEF TypeOK, CallsTyped
  <1>2. CallsTyped'
    BY DEF TypeOK, CallsTyped
  <1>3. ChargeCovered'
    BY DEF TypeOK, CallsTyped, ChargeCovered
  <1>4. RefundCovered'
    BY DEF TypeOK, CallsTyped, RefundCovered
  <1>5. KeysHeld'
    BY KeysReleased DEF TypeOK
  <1>6. /\ NoOverdraft'
        /\ RefundWithinCharge'
        /\ DepositIsAtomic'
    BY DEF NoOverdraft, RefundWithinCharge, DepositIsAtomic
  <1>. QED BY <1>1, <1>2, <1>3, <1>4, <1>5, <1>6

\* Every statement of every handler preserves the invariant.
LEMMA LedgerNext == LedgerInv /\ [Next]_vars => LedgerInv'
  <1>. SUFFICES ASSUME LedgerInv, [Next]_vars PROVE LedgerInv'
    OBVIOUS
  <1>1. ASSUME NEW p \in Procs, Begin(p)
        PROVE  LedgerInv'
    BY <1>1, StepChargeBegin, StepRefundBegin, StepDepositBegin DEF Begin
  <1>2. ASSUME NEW p \in Procs, Continue(p)
        PROVE  LedgerInv'
    BY <1>2, StepChargeLock, StepChargeCommit, StepRefundCheck,
       StepRefundCommit, StepDepositVerify, StepDepositInsert,
       StepDepositCommit, StepDepositEnqueue
    DEF Continue
  <1>3. ASSUME NEW p \in Procs, Crash(p)
        PROVE  LedgerInv'
    BY <1>3, StepCrash
  <1>4. CASE UNCHANGED vars
    BY <1>4 DEF vars, LedgerInv, TypeOK, LocksHeld, CallsTyped, ChargeCovered,
                RefundCovered, KeysHeld, NoOverdraft, RefundWithinCharge,
                DepositIsAtomic
  <1>. QED BY <1>1, <1>2, <1>3, <1>4 DEF Next

\* The invariant holds however handlers interleave, crash and retry.
THEOREM LedgerInvariance == Spec => []LedgerInv
  BY LedgerInit, LedgerNext, PTL DEF Spec

\* Every row, lock and handler variable of the ledger keeps its type.
THEOREM LedgerTypeCorrect == Spec => []TypeOK
  <1>1. LedgerInv => TypeOK
    BY DEF LedgerInv
  <1>. QED BY LedgerInvariance, <1>1, PTL

\* What a handler relies on between two statements is still so at the next.
THEOREM LocksSuffice == Spec => []LocksHeld
  <1>1. LedgerInv => LocksHeld
    BY DEF LedgerInv
  <1>. QED BY LedgerInvariance, <1>1, PTL

\* charge never takes a balance below zero, whatever runs beside it.
THEOREM NeverOverdrawn == Spec => []NoOverdraft
  <1>1. LedgerInv => NoOverdraft
    BY DEF LedgerInv
  <1>. QED BY LedgerInvariance, <1>1, PTL

\* refund never gives back more than charge took, though it locks nothing
\* between reading the charge and crediting the account.
THEOREM NeverOverRefunded == Spec => []RefundWithinCharge
  <1>1. LedgerInv => RefundWithinCharge
    BY DEF LedgerInv
  <1>. QED BY LedgerInvariance, <1>1, PTL

\* recordDeposit records every coin a digest pays an account, or none.
THEOREM DepositsAreWhole == Spec => []DepositIsAtomic
  <1>1. LedgerInv => DepositIsAtomic
    BY DEF LedgerInv
  <1>. QED BY LedgerInvariance, <1>1, PTL

-----------------------------------------------------------------------------
(***************************************************************************)
(* The balance is the journal.                                             *)
(***************************************************************************)
RowsOf(a) == {k \in DepositKeys : deposit[k].to = a}

CreditsOf(a) == [k \in RowsOf(a) |-> deposit[k].credits]

\* The three sums of the journal of an account.
Deposited(a) == SumFunctionOnSet(CreditsOf(a), RowsOf(a))
Charged(a) == SumFunctionOnSet(chargeRow, OpsOf(a))
Refunded(a) == SumFunctionOnSet(refundRow, OpsOf(a))

\* The balance of one account is its deposits less its charges plus its
\* refunds.
Balances(a) == credits[a] = Deposited(a) - Charged(a) + Refunded(a)

\* BalanceIsJournal in terms of the three sums.
LEMMA JournalSums == BalanceIsJournal <=> \A a \in Accounts : Balances(a)
  <1>1. ASSUME NEW a \in Accounts
        PROVE  SumFunction([k \in {k \in DepositKeys : deposit[k].to = a}
                               |-> deposit[k].credits]) = Deposited(a)
    <2>1. DOMAIN CreditsOf(a) = RowsOf(a)
      BY DEF CreditsOf
    <2>2. SumFunction(CreditsOf(a)) = Deposited(a)
      BY <2>1, SumWhole DEF Deposited
    <2>. QED BY <2>2 DEF CreditsOf, RowsOf
  <1>. QED BY <1>1 DEF BalanceIsJournal, Balances, Charged, Refunded

\* There are finitely many index keys.
LEMMA KeysFinite == IsFiniteSet(DepositKeys)
  <1>1. IsFiniteSet(Coins \cup {Bare})
    BY CoinsFinite, FS_AddElement
  <1>. QED BY <1>1, JournalAssumption, FS_Product DEF DepositKeys

\* The sums of the journal have finitely many integer terms.
LEMMA JournalFinite ==
    ASSUME TypeOK, NEW a \in Accounts
    PROVE  /\ IsFiniteSet(RowsOf(a)) /\ IsFiniteSet(OpsOf(a))
           /\ \A k \in RowsOf(a) : CreditsOf(a)[k] \in Int
           /\ \A o \in OpsOf(a) : chargeRow[o] \in Int /\ refundRow[o] \in Int
           /\ Deposited(a) \in Int /\ Charged(a) \in Int /\ Refunded(a) \in Int
  <1>1. IsFiniteSet(RowsOf(a)) /\ IsFiniteSet(OpsOf(a))
    BY KeysFinite, JournalAssumption, FS_Subset DEF RowsOf, OpsOf
  <1>2. /\ \A k \in RowsOf(a) : CreditsOf(a)[k] \in Int
        /\ \A o \in OpsOf(a) : chargeRow[o] \in Int /\ refundRow[o] \in Int
    BY DEF RowsOf, CreditsOf, OpsOf, TypeOK, DepositRows
  <1>3. Deposited(a) \in Int
    BY <1>1, <1>2, SumIsIn DEF Deposited
  <1>4. Charged(a) \in Int /\ Refunded(a) \in Int
    BY <1>1, <1>2, SumIsIn DEF Charged, Refunded
  <1>. QED BY <1>1, <1>2, <1>3, <1>4

\* The rows a deposit writes add up to what it credits: one bare row with the
\* sum, or a row for each coin paid.
LEMMA RowsAddUp ==
    ASSUME NEW d \in Digests, NEW a \in Accounts, NEW g,
           \A key \in KeysOf(d, a) : g[key] = RowFor(a, d, key).credits
    PROVE  SumFunctionOnSet(g, KeysOf(d, a)) = preTotal(d, a)
  <1>. DEFINE f == Paid[d][a]
  <1>1. f \in [Coins -> Nat] /\ IsFiniteSet(Coins) /\ Bare \notin Coins
    BY CoinsFinite, LedgerAssumption DEF Coins, Bare
  <1>2. preTotal(d, a) = SumFunctionOnSet(f, Coins)
    BY <1>1, SumWhole DEF preTotal
  <1>3. CoinsPaid(d, a) = {k \in Coins : f[k] > 0}
    BY DEF CoinsPaid
  <1>. HIDE DEF f
  <1>4. preTotal(d, a) = SumFunctionOnSet(f, CoinsPaid(d, a))
    BY <1>1, <1>2, <1>3, SumPositive
  <1>5. IsFiniteSet(CoinsPaid(d, a)) /\ CoinsPaid(d, a) \subseteq Coins
    BY <1>1, <1>3, FS_Subset
  <1>6. CASE Cardinality(CoinsPaid(d, a)) = 1
    <2>. DEFINE key == <<d, Bare>>
    <2>1. CoinsPaid(d, a) # {}
      BY <1>5, <1>6, FS_EmptySet
    <2>2. KeysOf(d, a) = {key}
      BY <1>6, <2>1 DEF KeysOf, suffixForCoinType
    <2>3. g[key] = preTotal(d, a)
      BY <2>2 DEF RowFor
    <2>4. preTotal(d, a) \in Int
      BY LedgerFacts
    <2>5. {key} \ {key} = {} /\ IsFiniteSet({key})
      BY FS_Singleton
    <2>. HIDE DEF key
    <2>6. SumFunctionOnSet(g, {key}) = g[key] + SumFunctionOnSet(g, {})
      <3>1. key \in {key} /\ \A x \in {key} : g[x] \in Int
        BY <2>3, <2>4
      <3>2. SumFunctionOnSet(g, {key})
              = g[key] + SumFunctionOnSet(g, {key} \ {key})
        BY <2>5, <3>1, SumRemove
      <3>. QED BY <2>5, <3>2
    <2>. QED BY <2>2, <2>3, <2>4, <2>6, SumEmpty
  <1>7. CASE Cardinality(CoinsPaid(d, a)) # 1
    <2>1. KeysOf(d, a) = Tagged(d, CoinsPaid(d, a))
      BY <1>7 DEF KeysOf, suffixForCoinType, Tagged
    <2>2. \A k \in CoinsPaid(d, a) : f[k] \in Int /\ g[<<d, k>>] = f[k]
      <3>1. ASSUME NEW k \in CoinsPaid(d, a)
            PROVE  f[k] \in Int /\ g[<<d, k>>] = f[k]
        <4>1. k \in Coins /\ k # Bare
          BY <1>1, <1>5
        <4>2. RowFor(a, d, <<d, k>>).credits = f[k]
          BY <4>1 DEF RowFor, f
        <4>. QED BY <1>1, <2>1, <4>1, <4>2 DEF Tagged
      <3>. QED BY <3>1
    <2>3. SumFunctionOnSet(g, Tagged(d, CoinsPaid(d, a)))
            = SumFunctionOnSet(f, CoinsPaid(d, a))
      BY <1>5, <2>2, SumTagged
    <2>. QED BY <1>4, <2>1, <2>3
  <1>. QED BY <1>6, <1>7

\* Nothing is journalled and every balance is zero.
LEMMA JournalInit == Init => BalanceIsJournal
  <1>. SUFFICES ASSUME Init, NEW a \in Accounts PROVE Balances(a)
    BY JournalSums
  <1>1. TypeOK
    BY LedgerInit DEF LedgerInv
  <1>2. RowsOf(a) = {}
    BY LedgerFacts DEF Init, RowsOf, NoDeposit
  <1>3. Deposited(a) = 0
    BY <1>2, SumEmpty DEF Deposited
  <1>4. Charged(a) = 0 /\ Refunded(a) = 0
    <2>1. \A o \in OpsOf(a) : chargeRow[o] = 0 /\ refundRow[o] = 0
      BY DEF Init, OpsOf
    <2>. QED BY <1>1, <2>1, JournalFinite, SumZero DEF Charged, Refunded
  <1>. QED BY <1>3, <1>4 DEF Init, Balances

\* A step that writes no row and no balance keeps them equal.
LEMMA JournalFrame ==
    ASSUME BalanceIsJournal, UNCHANGED <<credits, chargeRow, refundRow, deposit>>
    PROVE  BalanceIsJournal'
  BY DEF BalanceIsJournal

\* A charge debits its owner by the row it inserts.
LEMMA JournalCharge ==
    ASSUME NEW p \in Procs, LedgerInv, LedgerInv', BalanceIsJournal,
           ChargeCommit(p)
    PROVE  BalanceIsJournal'
  <1>1. CASE chargeRow[op[p]] # 0
    BY <1>1, JournalFrame DEF ChargeCommit
  <1>2. CASE chargeRow[op[p]] = 0
    <2>. DEFINE o == op[p]
    <2>0. TypeOK /\ TypeOK'
      BY DEF LedgerInv
    <2>1. /\ o \in Ops /\ acct[p] = OwnerOf[o]
          /\ acct[p] \in Accounts /\ amt[p] \in Nat
      BY DEF LedgerInv, LocksHeld, CallsTyped, ChargeCommit, TypeOK
    <2>2. /\ credits' = [credits EXCEPT ![acct[p]] = @ - amt[p]]
          /\ chargeRow' = [chargeRow EXCEPT ![o] = amt[p]]
          /\ deposit' = deposit /\ refundRow' = refundRow
      BY <1>2 DEF ChargeCommit
    <2>. HIDE DEF o
    <2>3. ASSUME NEW a \in Accounts PROVE Balances(a)'
      <3>1. Balances(a)
        BY JournalSums
      <3>2. Deposited(a)' = Deposited(a) /\ Refunded(a)' = Refunded(a)
        BY <2>2 DEF Deposited, Refunded, RowsOf, CreditsOf
      <3>3. /\ IsFiniteSet(OpsOf(a))
            /\ \A x \in OpsOf(a) : chargeRow[x] \in Int /\ chargeRow'[x] \in Int
            /\ Deposited(a) \in Int /\ Charged(a) \in Int /\ Refunded(a) \in Int
        <4>1. \A x \in OpsOf(a) : chargeRow'[x] \in Int
          BY <2>0 DEF OpsOf, TypeOK
        <4>. QED BY <2>0, <4>1, JournalFinite
      <3>4. CASE a = acct[p]
        <4>1. o \in OpsOf(a)
          BY <2>1, <3>4 DEF OpsOf
        <4>2. /\ chargeRow[o] = 0 /\ chargeRow'[o] = amt[p]
              /\ \A x \in OpsOf(a) \ {o} : chargeRow'[x] = chargeRow[x]
          BY <1>2, <2>0, <2>1, <2>2 DEF OpsOf, TypeOK, o
        <4>3. SumFunctionOnSet(chargeRow', OpsOf(a))
                = SumFunctionOnSet(chargeRow, OpsOf(a)) - chargeRow[o]
                  + chargeRow'[o]
          BY <3>3, <4>1, <4>2, SumUpdate
        <4>4. Charged(a)' = Charged(a) + amt[p]
          BY <2>1, <3>3, <4>2, <4>3 DEF Charged, OpsOf
        <4>5. credits'[a] = credits[a] - amt[p] /\ credits[a] \in Int
          BY <2>0, <2>1, <2>2, <3>4 DEF TypeOK
        <4>. QED BY <2>1, <3>1, <3>2, <3>3, <4>4, <4>5 DEF Balances
      <3>5. CASE a # acct[p]
        <4>1. \A x \in OpsOf(a) : chargeRow[x] = chargeRow'[x]
          BY <2>0, <2>1, <2>2, <3>5 DEF OpsOf, TypeOK
        <4>2. SumFunctionOnSet(chargeRow, OpsOf(a))
                = SumFunctionOnSet(chargeRow', OpsOf(a))
          BY <3>3, <4>1, SumAgree
        <4>3. Charged(a)' = Charged(a)
          BY <4>2 DEF Charged, OpsOf
        <4>4. credits'[a] = credits[a]
          BY <2>0, <2>2, <3>5 DEF TypeOK
        <4>. QED BY <3>1, <3>2, <4>3, <4>4 DEF Balances
      <3>. QED BY <3>4, <3>5
    <2>4. (\A a \in Accounts : Balances(a))'
      BY <2>3
    <2>. QED BY <2>4, JournalSums, PTL
  <1>. QED BY <1>1, <1>2

\* A refund credits its owner by the row it inserts.
LEMMA JournalRefund ==
    ASSUME NEW p \in Procs, LedgerInv, LedgerInv', BalanceIsJournal,
           RefundCommit(p)
    PROVE  BalanceIsJournal'
  <1>1. CASE refundRow[op[p]] # 0
    BY <1>1, JournalFrame DEF RefundCommit
  <1>2. CASE refundRow[op[p]] = 0
    <2>. DEFINE o == op[p]
    <2>0. TypeOK /\ TypeOK'
      BY DEF LedgerInv
    <2>1. /\ o \in Ops /\ acct[p] = OwnerOf[o]
          /\ acct[p] \in Accounts /\ amt[p] \in Nat
      BY DEF LedgerInv, LocksHeld, CallsTyped, RefundCommit, TypeOK
    <2>2. /\ credits' = [credits EXCEPT ![acct[p]] = @ + amt[p]]
          /\ refundRow' = [refundRow EXCEPT ![o] = amt[p]]
          /\ deposit' = deposit /\ chargeRow' = chargeRow
      BY <1>2 DEF RefundCommit
    <2>. HIDE DEF o
    <2>3. ASSUME NEW a \in Accounts PROVE Balances(a)'
      <3>1. Balances(a)
        BY JournalSums
      <3>2. Deposited(a)' = Deposited(a) /\ Charged(a)' = Charged(a)
        BY <2>2 DEF Deposited, Charged, RowsOf, CreditsOf
      <3>3. /\ IsFiniteSet(OpsOf(a))
            /\ \A x \in OpsOf(a) : refundRow[x] \in Int /\ refundRow'[x] \in Int
            /\ Deposited(a) \in Int /\ Charged(a) \in Int /\ Refunded(a) \in Int
        <4>1. \A x \in OpsOf(a) : refundRow'[x] \in Int
          BY <2>0 DEF OpsOf, TypeOK
        <4>. QED BY <2>0, <4>1, JournalFinite
      <3>4. CASE a = acct[p]
        <4>1. o \in OpsOf(a)
          BY <2>1, <3>4 DEF OpsOf
        <4>2. /\ refundRow[o] = 0 /\ refundRow'[o] = amt[p]
              /\ \A x \in OpsOf(a) \ {o} : refundRow'[x] = refundRow[x]
          BY <1>2, <2>0, <2>1, <2>2 DEF OpsOf, TypeOK, o
        <4>3. SumFunctionOnSet(refundRow', OpsOf(a))
                = SumFunctionOnSet(refundRow, OpsOf(a)) - refundRow[o]
                  + refundRow'[o]
          BY <3>3, <4>1, <4>2, SumUpdate
        <4>4. Refunded(a)' = Refunded(a) + amt[p]
          BY <2>1, <3>3, <4>2, <4>3 DEF Refunded, OpsOf
        <4>5. credits'[a] = credits[a] + amt[p] /\ credits[a] \in Int
          BY <2>0, <2>1, <2>2, <3>4 DEF TypeOK
        <4>. QED BY <2>1, <3>1, <3>2, <3>3, <4>4, <4>5 DEF Balances
      <3>5. CASE a # acct[p]
        <4>1. \A x \in OpsOf(a) : refundRow[x] = refundRow'[x]
          BY <2>0, <2>1, <2>2, <3>5 DEF OpsOf, TypeOK
        <4>2. SumFunctionOnSet(refundRow, OpsOf(a))
                = SumFunctionOnSet(refundRow', OpsOf(a))
          BY <3>3, <4>1, SumAgree
        <4>3. Refunded(a)' = Refunded(a)
          BY <4>2 DEF Refunded, OpsOf
        <4>4. credits'[a] = credits[a]
          BY <2>0, <2>2, <3>5 DEF TypeOK
        <4>. QED BY <3>1, <3>2, <4>3, <4>4 DEF Balances
      <3>. QED BY <3>4, <3>5
    <2>4. (\A a \in Accounts : Balances(a))'
      BY <2>3
    <2>. QED BY <2>4, JournalSums, PTL
  <1>. QED BY <1>1, <1>2

\* A deposit credits its account by the sum of the rows it inserts, and takes
\* no row from another account: the keys it holds had no row.
LEMMA JournalDeposit ==
    ASSUME NEW p \in Procs, LedgerInv, LedgerInv', BalanceIsJournal,
           DepositCommit(p)
    PROVE  BalanceIsJournal'
  <1>. DEFINE d == op[p]
              b == acct[p]
              K == KeysOf(d, b)
  <1>0. TypeOK /\ TypeOK'
    BY DEF LedgerInv
  <1>1. d \in Digests /\ b \in Accounts
    BY DEF LedgerInv, LocksHeld, CallsTyped, DepositCommit
  <1>2. K \subseteq DepositKeys
    BY <1>1, KeysAreKeys
  <1>3. \A key \in DepositKeys : keyLock[key] = p <=> key \in K
    BY <1>2 DEF LedgerInv, LocksHeld, KeysHeld, DepositCommit
  <1>4. \A key \in K : deposit[key].to = None
    BY <1>2, <1>3 DEF LedgerInv, LocksHeld, KeysHeld, NoDeposit
  <1>5. /\ \A key \in K : deposit'[key] = RowFor(b, d, key)
        /\ \A key \in DepositKeys \ K : deposit'[key] = deposit[key]
    BY <1>2, <1>3 DEF DepositCommit
  <1>6. /\ credits' = [credits EXCEPT ![b] = @ + preTotal(d, b)]
        /\ chargeRow' = chargeRow /\ refundRow' = refundRow
    BY DEF DepositCommit
  <1>7. \A key \in K : RowFor(b, d, key).to = b
    BY <1>1, <1>2, RowsAreRows
  <1>8. preTotal(d, b) \in Nat
    BY <1>1, LedgerFacts
  <1>. HIDE DEF b, d, K
  <1>9. ASSUME NEW a \in Accounts PROVE Balances(a)'
    <2>1. Balances(a)
      BY JournalSums
    <2>2. Charged(a)' = Charged(a) /\ Refunded(a)' = Refunded(a)
      BY <1>6 DEF Charged, Refunded
    <2>3. /\ IsFiniteSet(RowsOf(a))
          /\ \A k \in RowsOf(a) : CreditsOf(a)[k] \in Int
          /\ Deposited(a) \in Int /\ Charged(a) \in Int /\ Refunded(a) \in Int
      BY <1>0, JournalFinite
    <2>4. RowsOf(a) \cap K = {}
      BY <1>4, LedgerFacts DEF RowsOf
    <2>5. \A k \in RowsOf(a) :
             k \in RowsOf(a)' /\ CreditsOf(a)[k] = CreditsOf(a)'[k]
      BY <1>5, <2>4 DEF RowsOf, CreditsOf
    <2>6. SumFunctionOnSet(CreditsOf(a), RowsOf(a))
            = SumFunctionOnSet(CreditsOf(a)', RowsOf(a))
      BY <2>3, <2>5, SumAgree
    <2>7. CASE a # b
      <3>1. RowsOf(a)' = RowsOf(a)
        BY <1>2, <1>4, <1>5, <1>7, <2>7, LedgerFacts DEF RowsOf
      <3>2. Deposited(a)' = Deposited(a)
        BY <2>6, <3>1 DEF Deposited
      <3>3. credits'[a] = credits[a]
        BY <1>0, <1>6, <2>7 DEF TypeOK
      <3>. QED BY <2>1, <2>2, <3>2, <3>3 DEF Balances
    <2>8. CASE a = b
      <3>1. RowsOf(a)' = RowsOf(a) \cup K
        BY <1>2, <1>5, <1>7, <2>8 DEF RowsOf
      <3>2. \A key \in K : CreditsOf(a)'[key] = RowFor(b, d, key).credits
        BY <1>5, <3>1 DEF CreditsOf
      <3>3. SumFunctionOnSet(CreditsOf(a)', K) = preTotal(d, b)
        BY <1>1, <3>2, RowsAddUp DEF K
      <3>4. IsFiniteSet(K) /\ \A k \in RowsOf(a)' : CreditsOf(a)'[k] \in Int
        <4>1. IsFiniteSet(K)
          BY <1>2, KeysFinite, FS_Subset
        <4>2. \A k \in RowsOf(a)' : CreditsOf(a)'[k] \in Int
          BY <1>0 DEF RowsOf, CreditsOf, TypeOK, DepositRows
        <4>. QED BY <4>1, <4>2
      <3>5. SumFunctionOnSet(CreditsOf(a)', RowsOf(a) \cup K)
              = SumFunctionOnSet(CreditsOf(a)', RowsOf(a))
                + SumFunctionOnSet(CreditsOf(a)', K)
        BY <2>3, <2>4, <3>1, <3>4, SumUnion
      <3>6. Deposited(a)' = Deposited(a) + preTotal(d, b)
        BY <2>6, <3>1, <3>3, <3>5 DEF Deposited
      <3>7. credits'[a] = credits[a] + preTotal(d, b) /\ credits[a] \in Int
        BY <1>0, <1>6, <2>8 DEF TypeOK
      <3>. QED BY <1>8, <2>1, <2>2, <2>3, <3>6, <3>7 DEF Balances
    <2>. QED BY <2>7, <2>8
  <1>10. (\A a \in Accounts : Balances(a))'
    BY <1>9
  <1>. QED BY <1>10, JournalSums, PTL

\* Every statement of every handler keeps the balances equal to the journal.
LEMMA JournalNext ==
    LedgerInv /\ LedgerInv' /\ BalanceIsJournal /\ [Next]_vars
        => BalanceIsJournal'
  <1>. SUFFICES ASSUME LedgerInv, LedgerInv', BalanceIsJournal, [Next]_vars
                PROVE  BalanceIsJournal'
    OBVIOUS
  <1>1. ASSUME NEW p \in Procs, Begin(p)
        PROVE  BalanceIsJournal'
    BY <1>1, JournalFrame DEF Begin, ChargeBegin, RefundBegin, DepositBegin
  <1>2. ASSUME NEW p \in Procs, Continue(p)
        PROVE  BalanceIsJournal'
    BY <1>2, JournalFrame, JournalCharge, JournalRefund, JournalDeposit
    DEF Continue, ChargeLock, RefundCheck, DepositVerify, DepositInsert,
        DepositEnqueue
  <1>3. ASSUME NEW p \in Procs, Crash(p)
        PROVE  BalanceIsJournal'
    BY <1>3, JournalFrame DEF Crash
  <1>4. CASE UNCHANGED vars
    BY <1>4, JournalFrame DEF vars
  <1>. QED BY <1>1, <1>2, <1>3, <1>4 DEF Next

\* Every balance is the sum of its account's committed deposits less its
\* charges plus its refunds, each row counted once, for any number of accounts,
\* ops, digests, coins and handlers that race or crash.
THEOREM BalanceAddsUp == Spec => []BalanceIsJournal
  BY JournalInit, JournalNext, LedgerInvariance, PTL DEF Spec
=============================================================================
