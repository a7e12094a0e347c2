----------------------------- MODULE FiniteSums -----------------------------
(***************************************************************************)
(* Sums over finite sets.  MapThenSumSet takes the elements one after the  *)
(* other in an order of CHOOSE's; what is proved here is that the sum      *)
(* exists, that the order does not matter, and how it moves when a weight  *)
(* changes or an element joins.  The induction is over sets of sets and    *)
(* over a set of numbers, from the well-foundedness of < on Nat.           *)
(***************************************************************************)
EXTENDS Integers, FiniteSets, FiniteSetsExt, FiniteSetTheorems, WellFoundedInduction, TLAPS

(* The sum of the weights w of the elements of U.                          *)
Total(w, U) == MapThenSumSet(LAMBDA a : w[a], U)

(* Induction over a set of natural numbers.                                *)
LEMMA NatSets ==
    ASSUME NEW T, 0 \in T, \A n \in Nat : n \in T => n + 1 \in T
    PROVE  Nat \subseteq T
<1> SUFFICES ASSUME Nat \ T # {} PROVE FALSE
  OBVIOUS
<1>1. PICK m \in Nat \ T : \A n \in Nat \ T : <<n, m>> \notin OpToRel(<, Nat)
  BY NatLessThanWellFounded, WFMin
<1>2. m - 1 \in Nat /\ m - 1 < m
  OBVIOUS
<1>3. <<m - 1, m>> \in OpToRel(<, Nat)
  BY <1>2 DEF OpToRel
<1>4. m - 1 \in T
  BY <1>1, <1>2, <1>3
<1> QED BY <1>2, <1>4

(* The running sum F over the subsets of U, and the element it takes last. *)
LastOf(s) == CHOOSE x \in s : TRUE
SumAt(w, F, s) == IF s = {} THEN 0 ELSE w[LastOf(s)] + F[s \ {LastOf(s)}]
Sums(w, U, F) == F = [s \in SUBSET U |-> SumAt(w, F, s)]
Small(U, n) == {s \in SUBSET U : Cardinality(s) <= n}

(* Taking the last element away leaves a smaller set.                      *)
LEMMA Smaller ==
    ASSUME NEW U, IsFiniteSet(U), NEW s \in SUBSET U, s # {}
    PROVE  /\ LastOf(s) \in s
           /\ Cardinality(s) \in Nat /\ Cardinality(s \ {LastOf(s)}) = Cardinality(s) - 1
<1>1. IsFiniteSet(s) /\ LastOf(s) \in s
  BY FS_Subset DEF LastOf
<1> QED BY <1>1, FS_CardinalityType, FS_RemoveElement

LEMMA SmallestOnes == ASSUME NEW U, IsFiniteSet(U) PROVE Small(U, 0) = {{}}
<1>1. ASSUME NEW s \in SUBSET U, Cardinality(s) <= 0 PROVE s = {}
  BY <1>1, Smaller, FS_Subset, FS_CardinalityType, FS_EmptySet
<1> QED BY <1>1, FS_EmptySet DEF Small

(* The running sum exists: it exists for the sets of any given size.       *)
LEMMA SumsExist ==
    ASSUME NEW U, IsFiniteSet(U), NEW w
    PROVE  \E F : Sums(w, U, F)
<1> DEFINE Part(n, F) == F = [s \in Small(U, n) |-> SumAt(w, F, s)]
           T == {n \in Nat : \E F : Part(n, F)}
<1>1. 0 \in T
  <2>1. Small(U, 0) = {{}}
    BY SmallestOnes
  <2> DEFINE F == [s \in Small(U, 0) |-> 0]
  <2>2. Part(0, F)
    BY <2>1 DEF SumAt
  <2> QED BY <2>2
<1>2. ASSUME NEW n \in Nat, n \in T PROVE n + 1 \in T
  <2>1. PICK F : Part(n, F)
    BY <1>2
  <2> DEFINE G == [s \in Small(U, n + 1) |-> SumAt(w, F, s)]
  <2>2. ASSUME NEW s \in Small(U, n + 1), s # {}
        PROVE  G[s \ {LastOf(s)}] = F[s \ {LastOf(s)}]
    <3>1. s \ {LastOf(s)} \in Small(U, n) /\ s \ {LastOf(s)} \in Small(U, n + 1)
      BY <2>2, Smaller DEF Small
    <3> QED BY <2>1, <3>1
  <2>3. \A s \in Small(U, n + 1) : SumAt(w, F, s) = SumAt(w, G, s)
    BY <2>2 DEF SumAt
  <2>4. Part(n + 1, G)
    BY <2>3
  <2> HIDE DEF G
  <2>5. \E H : Part(n + 1, H)
    BY <2>4
  <2> HIDE DEF Part
  <2> QED BY <2>5
<1>3. Cardinality(U) \in T
  <2> HIDE DEF T
  <2> QED BY <1>1, <1>2, NatSets, FS_CardinalityType
<1>4. Small(U, Cardinality(U)) = SUBSET U
  BY FS_Subset DEF Small
<1> QED BY <1>3, <1>4 DEF Sums

(* The sum is the running sum at the whole set.                            *)
LEMMA TotalUnfolds ==
    ASSUME NEW U, IsFiniteSet(U), NEW w
    PROVE  \E F : Sums(w, U, F) /\ Total(w, U) = F[U]
<1> DEFINE Iter == CHOOSE F : F = [s \in SUBSET U |->
                      IF s = {} THEN 0 ELSE w[CHOOSE x \in s : TRUE] + F[s \ {CHOOSE x \in s : TRUE}]]
<1>1. Total(w, U) = Iter[U]
  BY DEF Total, MapThenSumSet, MapThenFoldSet
<1>2. Sums(w, U, Iter)
  <2>1. \E F : F = [s \in SUBSET U |->
              IF s = {} THEN 0 ELSE w[CHOOSE x \in s : TRUE] + F[s \ {CHOOSE x \in s : TRUE}]]
    <3>1. PICK F : Sums(w, U, F)
      BY SumsExist
    <3>2. F = [s \in SUBSET U |->
              IF s = {} THEN 0 ELSE w[CHOOSE x \in s : TRUE] + F[s \ {CHOOSE x \in s : TRUE}]]
      BY <3>1, Zenon DEF Sums, SumAt, LastOf
    <3> QED BY <3>2, Zenon
  <2>2. Iter = [s \in SUBSET U |->
              IF s = {} THEN 0 ELSE w[CHOOSE x \in s : TRUE] + Iter[s \ {CHOOSE x \in s : TRUE}]]
    BY <2>1, Zenon
  <2> HIDE DEF Iter
  <2> QED BY <2>2, Zenon DEF Sums, SumAt, LastOf
<1> QED BY <1>1, <1>2

(* Induction over the subsets of a finite set.                             *)
LEMMA SetInduction ==
    ASSUME NEW U, IsFiniteSet(U), NEW T,
           \A s \in SUBSET U : (\A r \in SUBSET s : r # s => r \in T) => s \in T
    PROVE  \A s \in SUBSET U : s \in T
<1> DEFINE N == {n \in Nat : \A s \in SUBSET U : Cardinality(s) <= n => s \in T}
<1>0. ASSUME NEW s \in SUBSET U, NEW r \in SUBSET s, r # s
      PROVE  Cardinality(s) \in Nat /\ Cardinality(r) \in Nat /\ Cardinality(r) < Cardinality(s)
  <2>1. IsFiniteSet(s) /\ IsFiniteSet(r)
    BY FS_Subset
  <2>2. Cardinality(s) \in Nat /\ Cardinality(r) \in Nat
    BY <2>1, FS_CardinalityType
  <2> QED BY <1>0, <2>1, <2>2, FS_Subset
<1>1. 0 \in N
  <2>1. ASSUME NEW s \in SUBSET U, Cardinality(s) <= 0 PROVE s \in T
    BY <1>0, <2>1
  <2> QED BY <2>1
<1>2. ASSUME NEW n \in Nat, n \in N PROVE n + 1 \in N
  <2>1. ASSUME NEW s \in SUBSET U, Cardinality(s) <= n + 1 PROVE s \in T
    <3>1. ASSUME NEW r \in SUBSET s, r # s PROVE r \in T
      <4>1. Cardinality(r) <= n
        BY <1>0, <2>1, <3>1
      <4> QED BY <1>2, <4>1
    <3> QED BY <3>1
  <2> QED BY <2>1
<1>3. Nat \subseteq N
  <2> HIDE DEF N
  <2> QED BY <1>1, <1>2, NatSets
<1>4. ASSUME NEW s \in SUBSET U PROVE s \in T
  <2>1. Cardinality(s) \in Nat
    BY FS_Subset, FS_CardinalityType
  <2> QED BY <1>3, <2>1
<1> QED BY <1>4

(* One weight changes by d: so does the sum.                               *)
LEMMA SumsMove ==
    ASSUME NEW U, IsFiniteSet(U), NEW w, NEW v, NEW a \in U, NEW d \in Int,
           \A x \in U : w[x] \in Int,
           v[a] = w[a] + d, \A x \in U \ {a} : v[x] = w[x]
    PROVE  Total(v, U) = Total(w, U) + d
<1>1. PICK F : Sums(w, U, F) /\ Total(w, U) = F[U]
  BY TotalUnfolds
<1>2. PICK G : Sums(v, U, G) /\ Total(v, U) = G[U]
  BY TotalUnfolds
<1> DEFINE T == {s \in SUBSET U : F[s] \in Int /\ G[s] = IF a \in s THEN F[s] + d ELSE F[s]}
<1>3. {} \in T
  BY <1>1, <1>2 DEF Sums, SumAt
<1>4. ASSUME NEW s \in SUBSET U, s # {}, s \ {LastOf(s)} \in T PROVE s \in T
  <2> DEFINE x == LastOf(s)
             r == s \ {x}
  <2>1. x \in s
    BY <1>4, Smaller
  <2>2. F[s] = w[x] + F[r] /\ G[s] = v[x] + G[r]
    BY <1>1, <1>2, <1>4 DEF Sums, SumAt
  <2>3. F[r] \in Int /\ G[r] = IF a \in r THEN F[r] + d ELSE F[r]
    BY <1>4
  <2>4. x \in U /\ w[x] \in Int /\ (x = a => v[x] = w[x] + d) /\ (x # a => v[x] = w[x])
    BY <2>1
  <2>5. a \in r <=> a \in s /\ a # x
    BY <2>1
  <2> HIDE DEF x, r
  <2>6. F[s] \in Int /\ G[s] = IF a \in s THEN F[s] + d ELSE F[s]
    <3>1. CASE x = a
      BY <2>1, <2>2, <2>3, <2>4, <2>5, <3>1
    <3>2. CASE x # a
      BY <2>2, <2>3, <2>4, <2>5, <3>2
    <3> QED BY <3>1, <3>2
  <2> QED BY <2>6
<1>5. ASSUME NEW s \in SUBSET U, \A r \in SUBSET s : r # s => r \in T PROVE s \in T
  <2>1. CASE s = {}
    BY <1>3, <2>1
  <2>2. CASE s # {}
    <3>1. LastOf(s) \in s
      BY <2>2, Smaller
    <3>2. s \ {LastOf(s)} \in T
      BY <1>5, <3>1
    <3> QED BY <1>4, <2>2, <3>2
  <2> QED BY <2>1, <2>2
<1>6. U \in T
  <2> HIDE DEF T
  <2> QED BY <1>5, SetInduction
<1> QED BY <1>1, <1>2, <1>6

(* Nothing adds up to nothing.                                             *)
LEMMA SumsOfNothing ==
    ASSUME NEW U, IsFiniteSet(U), NEW w, \A x \in U : w[x] = 0
    PROVE  Total(w, U) = 0
<1>1. PICK F : Sums(w, U, F) /\ Total(w, U) = F[U]
  BY TotalUnfolds
<1> DEFINE T == {s \in SUBSET U : F[s] = 0}
<1>2. ASSUME NEW s \in SUBSET U, \A r \in SUBSET s : r # s => r \in T PROVE s \in T
  <2>1. CASE s = {}
    BY <1>1, <2>1 DEF Sums, SumAt
  <2>2. CASE s # {}
    <3>1. LastOf(s) \in s
      BY <2>2, Smaller
    <3>2. F[s] = w[LastOf(s)] + F[s \ {LastOf(s)}]
      BY <1>1, <2>2 DEF Sums, SumAt
    <3>3. F[s \ {LastOf(s)}] = 0
      BY <1>2, <3>1
    <3> QED BY <3>1, <3>2, <3>3
  <2> QED BY <2>1, <2>2
<1>3. U \in T
  <2> HIDE DEF T
  <2> QED BY <1>2, SetInduction
<1> QED BY <1>1, <1>3

(* Any element may be taken away first.                                    *)
LEMMA SumsInAnyOrder ==
    ASSUME NEW U, IsFiniteSet(U), NEW w, \A x \in U : w[x] \in Int,
           NEW F, Sums(w, U, F)
    PROVE  \A s \in SUBSET U : F[s] \in Int /\ \A x \in s : F[s] = w[x] + F[s \ {x}]
<1> DEFINE T == {s \in SUBSET U : F[s] \in Int /\ \A x \in s : F[s] = w[x] + F[s \ {x}]}
<1>1. ASSUME NEW s \in SUBSET U, \A r \in SUBSET s : r # s => r \in T PROVE s \in T
  <2>1. CASE s = {}
    BY <2>1 DEF Sums, SumAt
  <2>2. CASE s # {}
    <3> DEFINE l == LastOf(s)
    <3>1. l \in s /\ F[s] = w[l] + F[s \ {l}]
      BY <2>2, Smaller DEF Sums, SumAt
    <3>2. s \ {l} \in T
      BY <1>1, <3>1
    <3>3. F[s] \in Int
      BY <3>1, <3>2
    <3>4. ASSUME NEW x \in s, x # l PROVE F[s] = w[x] + F[s \ {x}]
      <4> DEFINE rest == F[(s \ {l}) \ {x}]
      <4>1. F[s \ {l}] = w[x] + F[(s \ {l}) \ {x}] /\ (s \ {l}) \ {x} \in T
        <5>1. (s \ {l}) \ {x} # s /\ x \in s \ {l}
          BY <3>1, <3>4
        <5> QED BY <1>1, <3>2, <5>1
      <4>2. F[s \ {x}] = w[l] + F[(s \ {x}) \ {l}]
        <5>1. s \ {x} \in T /\ l \in s \ {x}
          BY <1>1, <3>1, <3>4
        <5> QED BY <5>1
      <4>3. (s \ {x}) \ {l} = (s \ {l}) \ {x}
        OBVIOUS
      <4>4. w[x] \in Int /\ w[l] \in Int /\ rest \in Int
        BY <3>1, <4>1
      <4>5. F[s] = w[l] + (w[x] + rest) /\ F[s \ {x}] = w[l] + rest
        BY <3>1, <4>1, <4>2, <4>3
      <4> HIDE DEF rest
      <4> QED BY <4>4, <4>5
    <3> QED BY <3>1, <3>3, <3>4
  <2> QED BY <2>1, <2>2
<1>2. \A s \in SUBSET U : s \in T
  <2> HIDE DEF T
  <2> QED BY <1>1, SetInduction
<1> QED BY <1>2

(* The sum over a subset depends on the weights of its elements only.      *)
LEMMA SumsAgree ==
    ASSUME NEW U, IsFiniteSet(U), NEW V \in SUBSET U, NEW w, NEW v,
           \A x \in V : v[x] = w[x],
           NEW F, Sums(w, U, F), NEW G, Sums(v, V, G)
    PROVE  G[V] = F[V]
<1> DEFINE T == {s \in SUBSET V : G[s] = F[s]}
<1>1. ASSUME NEW s \in SUBSET V, \A r \in SUBSET s : r # s => r \in T PROVE s \in T
  <2>1. CASE s = {}
    BY <2>1 DEF Sums, SumAt
  <2>2. CASE s # {}
    <3>1. LastOf(s) \in s
      BY <2>2, Smaller
    <3>2. F[s] = w[LastOf(s)] + F[s \ {LastOf(s)}] /\ G[s] = v[LastOf(s)] + G[s \ {LastOf(s)}]
      BY <2>2 DEF Sums, SumAt
    <3>3. F[s \ {LastOf(s)}] = G[s \ {LastOf(s)}]
      BY <1>1, <3>1
    <3> QED BY <3>1, <3>2, <3>3
  <2> QED BY <2>1, <2>2
<1>2. IsFiniteSet(V)
  BY FS_Subset
<1>3. V \in T
  <2> HIDE DEF T
  <2> QED BY <1>1, <1>2, SetInduction
<1> QED BY <1>3

(* An element joins: its weight is added.                                  *)
LEMMA SumsAdd ==
    ASSUME NEW S, IsFiniteSet(S), NEW x, x \notin S, NEW w,
           \A y \in S \cup {x} : w[y] \in Int
    PROVE  Total(w, S \cup {x}) = Total(w, S) + w[x] /\ Total(w, S) \in Int
<1> DEFINE U == S \cup {x}
<1>1. IsFiniteSet(U)
  BY FS_AddElement
<1>2. PICK F : Sums(w, U, F) /\ Total(w, U) = F[U]
  BY <1>1, TotalUnfolds
<1>3. PICK G : Sums(w, S, G) /\ Total(w, S) = G[S]
  BY TotalUnfolds
<1>4. G[S] = F[S]
  BY <1>1, <1>2, <1>3, SumsAgree
<1>5. F[S] \in Int /\ F[U] = w[x] + F[U \ {x}]
  BY <1>1, <1>2, SumsInAnyOrder
<1>6. U \ {x} = S
  OBVIOUS
<1>7. F[U] = w[x] + F[S] /\ w[x] \in Int
  BY <1>5, <1>6
<1> QED BY <1>2, <1>3, <1>4, <1>5, <1>7

-----------------------------------------------------------------------------
(* Folds that take the elements in any given order.  The step g of a fold  *)
(* and its order are functions here: g of an element and what the fold of  *)
(* the rest has come to, `pick` of a set the element it takes last.        *)

IsFold(U, b, g, pick, F) ==
  F = [s \in SUBSET U |-> IF s = {} THEN b ELSE g[<<pick[s], F[s \ {pick[s]}]>>]]

(* A fold whose steps stay in R exists, and stays in R.                    *)
LEMMA FoldsExist ==
    ASSUME NEW U, IsFiniteSet(U), NEW R, NEW b \in R, NEW g \in [U \X R -> R],
           NEW pick, \A s \in SUBSET U : s # {} => pick[s] \in s
    PROVE  \E F \in [SUBSET U -> R] : IsFold(U, b, g, pick, F)
<1> DEFINE Next(F, s) == IF s = {} THEN b ELSE g[<<pick[s], F[s \ {pick[s]}]>>]
           Part(n, F) == F \in [Small(U, n) -> R] /\ \A s \in Small(U, n) : F[s] = Next(F, s)
           T == {n \in Nat : \E F : Part(n, F)}
<1>0. ASSUME NEW n \in Nat, NEW s \in Small(U, n + 1), s # {}
      PROVE  s \ {pick[s]} \in Small(U, n) /\ pick[s] \in U
  <2>1. s \in SUBSET U /\ pick[s] \in s /\ Cardinality(s) <= n + 1
    BY <1>0 DEF Small
  <2>2. IsFiniteSet(s)
    BY <2>1, FS_Subset
  <2>3. Cardinality(s) \in Nat /\ Cardinality(s \ {pick[s]}) = Cardinality(s) - 1
    BY <2>1, <2>2, FS_CardinalityType, FS_RemoveElement
  <2> QED BY <2>1, <2>3 DEF Small
<1>1. 0 \in T
  <2>1. Small(U, 0) = {{}}
    BY SmallestOnes
  <2> DEFINE F == [s \in Small(U, 0) |-> b]
  <2>2. Part(0, F)
    BY <2>1
  <2> QED BY <2>2
<1>2. ASSUME NEW n \in Nat, n \in T PROVE n + 1 \in T
  <2>1. PICK F : Part(n, F)
    BY <1>2
  <2> DEFINE G == [s \in Small(U, n + 1) |-> Next(F, s)]
  <2>2. ASSUME NEW s \in Small(U, n + 1)
        PROVE  Next(F, s) \in R
    <3>1. CASE s = {}
      BY <3>1
    <3>2. CASE s # {}
      <4>1. s \ {pick[s]} \in Small(U, n) /\ pick[s] \in U
        BY <1>0, <3>2
      <4>2. F[s \ {pick[s]}] \in R
        BY <2>1, <4>1
      <4> QED BY <3>2, <4>1, <4>2
    <3> QED BY <3>1, <3>2
  <2>3. ASSUME NEW s \in Small(U, n), s \in Small(U, n + 1) PROVE G[s] = F[s]
    BY <2>1, <2>3
  <2>4. Small(U, n) \subseteq Small(U, n + 1)
    BY FS_CardinalityType, FS_Subset DEF Small
  <2>5. ASSUME NEW s \in Small(U, n + 1) PROVE Next(F, s) = Next(G, s)
    <3>1. CASE s = {}
      BY <3>1
    <3>2. CASE s # {}
      <4>1. G[s \ {pick[s]}] = F[s \ {pick[s]}]
        BY <1>0, <2>3, <2>4, <3>2
      <4> HIDE DEF G
      <4> QED BY <3>2, <4>1
    <3> QED BY <3>1, <3>2
  <2>6. G \in [Small(U, n + 1) -> R] /\ \A s \in Small(U, n + 1) : G[s] = Next(F, s)
    BY <2>2
  <2> HIDE DEF G, Next
  <2>7. Part(n + 1, G)
    BY <2>5, <2>6
  <2>8. \E H : Part(n + 1, H)
    BY <2>7
  <2> HIDE DEF Part
  <2> QED BY <2>8
<1>3. Cardinality(U) \in T
  <2> HIDE DEF T
  <2> QED BY <1>1, <1>2, NatSets, FS_CardinalityType
<1>4. Small(U, Cardinality(U)) = SUBSET U
  BY FS_Subset DEF Small
<1>5. PICK F : F \in [SUBSET U -> R] /\ \A s \in SUBSET U : F[s] = Next(F, s)
  BY <1>3, <1>4
<1>6. IsFold(U, b, g, pick, F)
  BY <1>5 DEF IsFold
<1> QED BY <1>5, <1>6
=============================================================================
