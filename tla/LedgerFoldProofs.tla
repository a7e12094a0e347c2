-------------------------- MODULE LedgerFoldProofs --------------------------
(***************************************************************************)
(* What replaying a ledger computes, for every ledger and every set of     *)
(* pauses.  The folds of LedgerFold.tla are unfolded one row and one pause *)
(* at a time: a lot expires when its clock has run out, and what a replay  *)
(* leaves of each lot is a function of its row.  What a writer may then    *)
(* add to a history that replays is what LedgerProofs.tla needs to know.   *)
(***************************************************************************)
EXTENDS LotExpiry, FiniteSums

-----------------------------------------------------------------------------
(***************************************************************************)
(* Finite orders have a last element; and pauses are merged in the order   *)
(* they started.                                                           *)
(***************************************************************************)

(* A finite set has a last element in any order that is total on it.       *)
LEMMA LastExists ==
    ASSUME NEW U, IsFiniteSet(U), NEW O,
           \A a, b \in U : a # b => <<a, b>> \in O \/ <<b, a>> \in O,
           \A a, b, c \in U : <<a, b>> \in O /\ <<b, c>> \in O => <<a, c>> \in O
    PROVE  \A s \in SUBSET U : s # {} => \E m \in s : \A q \in s \ {m} : <<q, m>> \in O
<1> DEFINE T == {s \in SUBSET U : s # {} => \E m \in s : \A q \in s \ {m} : <<q, m>> \in O}
<1>1. ASSUME NEW s \in SUBSET U, \A r \in SUBSET s : r # s => r \in T PROVE s \in T
  <2>1. SUFFICES ASSUME s # {} PROVE \E m \in s : \A q \in s \ {m} : <<q, m>> \in O
    OBVIOUS
  <2>2. PICK x \in s : TRUE
    BY <2>1
  <2>3. CASE s \ {x} = {}
    BY <2>2, <2>3
  <2>4. CASE s \ {x} # {}
    <3>1. PICK m \in s \ {x} : \A q \in (s \ {x}) \ {m} : <<q, m>> \in O
      <4>1. s \ {x} \in SUBSET s /\ s \ {x} # s
        BY <2>2
      <4>2. s \ {x} \in T
        BY <1>1, <4>1
      <4> QED BY <2>4, <4>2
    <3>2. CASE <<x, m>> \in O
      BY <3>1, <3>2
    <3>3. CASE <<m, x>> \in O
      <4>1. ASSUME NEW q \in s \ {x} PROVE <<q, x>> \in O
        <5>1. CASE q = m
          BY <3>3, <5>1
        <5>2. CASE q # m
          BY <2>2, <3>1, <3>3, <5>2
        <5> QED BY <5>1, <5>2
      <4> QED BY <2>2, <4>1
    <3> QED BY <2>2, <3>1, <3>2, <3>3
  <2> QED BY <2>3, <2>4
<1>2. \A s \in SUBSET U : s \in T
  <2> HIDE DEF T
  <2> QED BY <1>1, SetInduction
<1> QED BY <1>2

(* A row of pause_periods.                                                 *)
Period == [started : Nat, ended : Nat \cup {Null}]

(* Pauses as the writers leave them: of some length, never two at once.    *)
InOrder(P) ==
  /\ IsFiniteSet(P) /\ P \subseteq Period
  /\ \A p \in P : p.ended # Null => p.started < p.ended
  /\ \A p, q \in P : p # q => \/ p.ended # Null /\ p.ended <= q.started
                              \/ q.ended # Null /\ q.ended <= p.started

(* Ended by the time t.                                                    *)
EndedBy(P, t) == \A p \in P : p.ended # Null /\ p.ended <= t

(* The latest period of a set that has one.                                *)
LEMMA LatestIs ==
    ASSUME NEW M, M \subseteq Period, NEW p \in M, \A q \in M \ {p} : q.started < p.started
    PROVE  LatestStarted(M) = p
<1>1. \A q \in M : q.started \in Nat
  BY DEF Period
<1>2. \A q \in M : q.started <= p.started
  BY <1>1
<1>3. \A q \in M : (\A r \in M : r.started <= q.started) => q = p
  BY <1>1
<1> QED BY <1>2, <1>3 DEF LatestStarted

(* A finite set of periods has one that started last.                      *)
LEMMA LatestOf ==
    ASSUME NEW M, M \subseteq Period, IsFiniteSet(M), M # {}
    PROVE  LatestStarted(M) \in M /\ \A q \in M : q.started <= LatestStarted(M).started
<1> DEFINE O == {z \in M \X M : z[1].started <= z[2].started}
<1>1. \A q \in M : q.started \in Nat
  BY DEF Period
<1>2. \A a, b \in M : <<a, b>> \in O <=> a.started <= b.started
  OBVIOUS
<1> HIDE DEF O
<1>3. \A a, b \in M : a # b => <<a, b>> \in O \/ <<b, a>> \in O
  BY <1>1, <1>2
<1>4. \A a, b, c \in M : <<a, b>> \in O /\ <<b, c>> \in O => <<a, c>> \in O
  BY <1>1, <1>2
<1>5. \A s \in SUBSET M : s # {} => \E m \in s : \A q \in s \ {m} : <<q, m>> \in O
  BY <1>3, <1>4, LastExists
<1>6. PICK m \in M : \A q \in M \ {m} : <<q, m>> \in O
  BY <1>5
<1>7. ASSUME NEW q \in M PROVE q.started <= m.started
  <2>1. q.started \in Nat
    BY <1>1
  <2>2. CASE q = m
    BY <2>1, <2>2
  <2>3. CASE q # m
    BY <1>2, <1>6, <2>3
  <2> QED BY <2>2, <2>3
<1> QED BY <1>7 DEF LatestStarted

(* Merging the pauses is a fold ...                                        *)
MergesOf(U, F) ==
  F = [s \in SUBSET U |-> IF s = {} THEN {} ELSE Absorb(LatestStarted(s), F[s \ {LatestStarted(s)}])]

(* Every set of the periods has one that started last.                     *)
Earliest(U) == \A s \in SUBSET U : s # {} => LatestStarted(s) \in s

(* Merging, period after period, is defined on every set of them.          *)
LEMMA MergesExist ==
    ASSUME NEW U, IsFiniteSet(U), Earliest(U)
    PROVE  \E F : MergesOf(U, F)
<1> DEFINE NextMerge(F, s) == IF s = {} THEN {}
                              ELSE Absorb(LatestStarted(s), F[s \ {LatestStarted(s)}])
           Part(n, F) == F = [s \in Small(U, n) |-> NextMerge(F, s)]
           T == {n \in Nat : \E F : Part(n, F)}
<1>0. ASSUME NEW n \in Nat, NEW s \in Small(U, n + 1), s # {}
      PROVE  s \ {LatestStarted(s)} \in Small(U, n)
  <2>1. s \in SUBSET U /\ LatestStarted(s) \in s /\ Cardinality(s) <= n + 1
    BY <1>0 DEF Small, Earliest
  <2>2. IsFiniteSet(s)
    BY <2>1, FS_Subset
  <2>3. Cardinality(s) \in Nat /\ Cardinality(s \ {LatestStarted(s)}) = Cardinality(s) - 1
    BY <2>1, <2>2, FS_CardinalityType, FS_RemoveElement
  <2> QED BY <2>1, <2>3 DEF Small
<1>1. 0 \in T
  <2>1. Small(U, 0) = {{}}
    BY SmallestOnes
  <2> DEFINE F == [s \in Small(U, 0) |-> {}]
  <2>2. Part(0, F)
    BY <2>1
  <2> QED BY <2>2
<1>2. ASSUME NEW n \in Nat, n \in T PROVE n + 1 \in T
  <2>1. PICK F : Part(n, F)
    BY <1>2
  <2> DEFINE G == [s \in Small(U, n + 1) |-> NextMerge(F, s)]
  <2>2. ASSUME NEW s \in Small(U, n + 1) PROVE NextMerge(F, s) = NextMerge(G, s)
    <3>1. CASE s = {}
      BY <3>1
    <3>2. CASE s # {}
      <4>1. s \ {LatestStarted(s)} \in Small(U, n)
        BY <1>0, <3>2
      <4>2. Small(U, n) \subseteq Small(U, n + 1)
        BY FS_CardinalityType, FS_Subset DEF Small
      <4>3. F[s \ {LatestStarted(s)}] = NextMerge(F, s \ {LatestStarted(s)})
        BY <2>1, <4>1
      <4>4. G[s \ {LatestStarted(s)}] = NextMerge(F, s \ {LatestStarted(s)})
        BY <4>1, <4>2
      <4> HIDE DEF G
      <4> QED BY <3>2, <4>3, <4>4
    <3> QED BY <3>1, <3>2
  <2>3. Part(n + 1, G)
    BY <2>2
  <2> HIDE DEF G
  <2>4. \E H : Part(n + 1, H)
    BY <2>3
  <2> HIDE DEF Part
  <2> QED BY <2>4
<1>3. Cardinality(U) \in T
  <2> HIDE DEF T
  <2> QED BY <1>1, <1>2, NatSets, FS_CardinalityType
<1>4. Small(U, Cardinality(U)) = SUBSET U
  BY FS_Subset DEF Small
<1> QED BY <1>3, <1>4 DEF MergesOf

(* ... and what it gives for a set does not depend on the rest.            *)
LEMMA MergesAgree ==
    ASSUME NEW U, IsFiniteSet(U), Earliest(U), NEW V \in SUBSET U,
           NEW F, MergesOf(U, F), NEW G, MergesOf(V, G)
    PROVE  \A s \in SUBSET V : G[s] = F[s]
<1> DEFINE T == {s \in SUBSET V : G[s] = F[s]}
<1>1. ASSUME NEW s \in SUBSET V, \A r \in SUBSET s : r # s => r \in T PROVE s \in T
  <2>1. CASE s = {}
    BY <2>1 DEF MergesOf
  <2>2. CASE s # {}
    <3>1. LatestStarted(s) \in s
      BY <2>2 DEF Earliest
    <3>2. F[s \ {LatestStarted(s)}] = G[s \ {LatestStarted(s)}]
      BY <1>1, <3>1
    <3>3. F[s] = Absorb(LatestStarted(s), F[s \ {LatestStarted(s)}])
      BY <2>2 DEF MergesOf
    <3>4. G[s] = Absorb(LatestStarted(s), G[s \ {LatestStarted(s)}])
      BY <2>2 DEF MergesOf
    <3> QED BY <3>2, <3>3, <3>4
  <2> QED BY <2>1, <2>2
<1>2. IsFiniteSet(V)
  BY FS_Subset
<1>3. \A s \in SUBSET V : s \in T
  <2> HIDE DEF T
  <2> QED BY <1>1, <1>2, SetInduction
<1> QED BY <1>3

(* mergePauses is that fold.                                               *)
LEMMA MergeIsFold ==
    ASSUME NEW V, IsFiniteSet(V), Earliest(V)
    PROVE  \E F : MergesOf(V, F) /\ MergePauses(V) = F[V]
<1> DEFINE Iter == CHOOSE F : F = [s \in SUBSET V |->
             IF s = {} THEN {} ELSE Absorb(LatestStarted(s), F[s \ {LatestStarted(s)}])]
<1>1. MergePauses(V) = Iter[V]
  BY DEF MergePauses, MapThenFoldSet
<1>2. \E F : F = [s \in SUBSET V |->
             IF s = {} THEN {} ELSE Absorb(LatestStarted(s), F[s \ {LatestStarted(s)}])]
  BY MergesExist, Zenon DEF MergesOf
<1>3. Iter = [s \in SUBSET V |->
             IF s = {} THEN {} ELSE Absorb(LatestStarted(s), Iter[s \ {LatestStarted(s)}])]
  BY <1>2, Zenon
<1> HIDE DEF Iter
<1>4. MergesOf(V, Iter)
  BY <1>3, Zenon DEF MergesOf
<1> QED BY <1>1, <1>4

(* ... in which the latest pause is absorbed last.                         *)
LEMMA MergeAppends ==
    ASSUME NEW P, IsFiniteSet(P), NEW p, P \cup {p} \subseteq Period,
           p \notin P, \A q \in P : q.started < p.started
    PROVE  MergePauses(P \cup {p}) = Absorb(p, MergePauses(P))
<1> DEFINE U == P \cup {p}
<1>1. IsFiniteSet(U)
  BY FS_AddElement
<1>2. \A s \in SUBSET U : IsFiniteSet(s) /\ s \subseteq Period
  BY <1>1, FS_Subset
<1>3. Earliest(U) /\ Earliest(P)
  BY <1>2, LatestOf DEF Earliest
<1>4. PICK F : MergesOf(U, F) /\ MergePauses(U) = F[U]
  BY <1>1, <1>3, MergeIsFold
<1>5. PICK G : MergesOf(P, G) /\ MergePauses(P) = G[P]
  BY <1>3, MergeIsFold
<1>6. G[P] = F[P]
  BY <1>1, <1>3, <1>4, <1>5, MergesAgree
<1>7. LatestStarted(U) = p
  BY LatestIs
<1>8. U # {} /\ U \ {p} = P
  OBVIOUS
<1>9. F[U] = Absorb(p, F[P])
  <2> HIDE DEF U
  <2> QED BY <1>4, <1>7, <1>8 DEF MergesOf
<1> QED BY <1>4, <1>5, <1>6, <1>9

(* No pauses, nothing merged.                                              *)
LEMMA NothingToMerge == MergePauses({}) = {}
<1>1. Earliest({}) /\ IsFiniteSet({})
  BY FS_EmptySet DEF Earliest
<1>2. PICK F : MergesOf({}, F) /\ MergePauses({}) = F[{}]
  BY <1>1, MergeIsFold
<1> QED BY <1>2 DEF MergesOf

-----------------------------------------------------------------------------
(***************************************************************************)
(* Shifting an expiry by the merged pauses, one after the other.           *)
(***************************************************************************)

(* The larger of two.                                                      *)
LEMMA MaxOf2 ==
    ASSUME NEW a \in Int, NEW b \in Int
    PROVE  Max({a, b}) = IF a >= b THEN a ELSE b
<1> DEFINE m == IF a >= b THEN a ELSE b
<1>1. m \in {a, b} /\ \A y \in {a, b} : m >= y
  OBVIOUS
<1>2. \A x \in {a, b} : (\A y \in {a, b} : x >= y) => x = m
  OBVIOUS
<1> HIDE DEF m
<1>3. Max({a, b}) = m
  BY <1>1, <1>2 DEF Max
<1> QED BY <1>3 DEF m

(* Expiries as they move: an instant, or frozen.                           *)
Expiries == [at : Int, frozen : BOOLEAN]

(* Where a pause begins to hold a lot.                                     *)
Start(p, born) == IF p.started >= born THEN p.started ELSE born

(* What one merged pause does to an expiry, case by case.                  *)
LEMMA ShiftIs ==
    ASSUME NEW p \in Period, NEW born \in Nat, NEW e \in Expiries
    PROVE  /\ ShiftBy(p, born, e) \in Expiries
           /\ e.frozen \/ Start(p, born) >= e.at => ShiftBy(p, born, e) = e
           /\ ~e.frozen /\ Start(p, born) < e.at =>
                /\ p.ended = Null => ShiftBy(p, born, e) = [at |-> Null, frozen |-> TRUE]
                /\ p.ended # Null /\ p.ended <= born => ShiftBy(p, born, e) = e
                /\ p.ended # Null /\ p.ended > born =>
                     ShiftBy(p, born, e) = [at |-> e.at + (p.ended - Start(p, born)), frozen |-> FALSE]
<1>1. Max({p.started, born}) = Start(p, born) /\ Start(p, born) \in Nat
  BY MaxOf2 DEF Start, Period
<1>2. p.ended \in Int /\ Null \in Int
  BY DEF Period, Null
<1>3. e.at \in Int /\ e.frozen \in BOOLEAN /\ e = [at |-> e.at, frozen |-> e.frozen]
  BY DEF Expiries
<1>4. CASE e.frozen \/ Start(p, born) >= e.at
  <2>1. ShiftBy(p, born, e) = e
    BY <1>1, <1>4 DEF ShiftBy
  <2> QED BY <1>1, <1>3, <1>4, <2>1
<1>5. CASE ~e.frozen /\ Start(p, born) < e.at
  <2>0. ~(e.frozen \/ Start(p, born) >= e.at)
    BY <1>1, <1>3, <1>5
  <2>1. CASE p.ended = Null
    <3>1. ShiftBy(p, born, e) = [at |-> Null, frozen |-> TRUE]
      BY <1>1, <2>0, <2>1 DEF ShiftBy
    <3>2. [at |-> Null, frozen |-> TRUE] \in Expiries
      BY <1>2 DEF Expiries
    <3> QED BY <2>0, <2>1, <3>1, <3>2
  <2>2. CASE p.ended # Null /\ p.ended <= born
    <3>1. ShiftBy(p, born, e) = e
      BY <1>1, <2>0, <2>2 DEF ShiftBy
    <3> QED BY <1>2, <2>0, <2>2, <3>1
  <2>3. CASE p.ended # Null /\ p.ended > born
    <3>1. ShiftBy(p, born, e) = [e EXCEPT !.at = @ + (p.ended - Start(p, born))]
      BY <1>1, <1>2, <2>0, <2>3 DEF ShiftBy
    <3>2. e.frozen = FALSE
      BY <1>3, <1>5
    <3>3. ShiftBy(p, born, e) = [at |-> e.at + (p.ended - Start(p, born)), frozen |-> FALSE]
      BY <1>3, <3>1, <3>2
    <3>4. e.at + (p.ended - Start(p, born)) \in Int
      BY <1>1, <1>2, <1>3
    <3>5. ShiftBy(p, born, e) \in Expiries
      BY <3>3, <3>4 DEF Expiries
    <3> QED BY <1>2, <2>0, <2>3, <3>3, <3>5
  <2> QED BY <1>2, <2>1, <2>2, <2>3
<1> QED BY <1>1, <1>3, <1>4, <1>5

(* Moving an expiry by one pause after the other, the latest last.         *)
Shifted(exp, M, born) ==
  MapThenFoldSet(LAMBDA p, eff : ShiftBy(p, born, eff), [at |-> exp, frozen |-> FALSE],
                 LAMBDA p : p, LatestStarted, M)

(* ... is a fold.                                                          *)
ShiftsOf(U, exp, born, F) ==
  F = [s \in SUBSET U |-> IF s = {} THEN [at |-> exp, frozen |-> FALSE]
                          ELSE ShiftBy(LatestStarted(s), born, F[s \ {LatestStarted(s)}])]

(* effectiveExpiry is a fold over the merged periods.                      *)
LEMMA ShiftIsFold ==
    ASSUME NEW U, IsFiniteSet(U), U \subseteq Period, NEW exp \in Nat, NEW born \in Nat
    PROVE  \E F : ShiftsOf(U, exp, born, F) /\ Shifted(exp, U, born) = F[U]
<1> DEFINE Iter == CHOOSE F : F = [s \in SUBSET U |->
             IF s = {} THEN [at |-> exp, frozen |-> FALSE]
             ELSE ShiftBy(LatestStarted(s), born, F[s \ {LatestStarted(s)}])]
           g == [z \in U \X Expiries |-> ShiftBy(z[1], born, z[2])]
           pick == [s \in SUBSET U |-> LatestStarted(s)]
           base == [at |-> exp, frozen |-> FALSE]
<1>1. Shifted(exp, U, born) = Iter[U]
  BY DEF Shifted, MapThenFoldSet
<1>2. \E F : F = [s \in SUBSET U |->
             IF s = {} THEN [at |-> exp, frozen |-> FALSE]
             ELSE ShiftBy(LatestStarted(s), born, F[s \ {LatestStarted(s)}])]
  <2>1. base \in Expiries
    BY DEF Expiries
  <2>2. \A s \in SUBSET U : s # {} => pick[s] \in s /\ pick[s] = LatestStarted(s)
    BY LatestOf, FS_Subset
  <2>3. g \in [U \X Expiries -> Expiries]
    BY ShiftIs
  <2>4. \A s \in SUBSET U : s # {} => pick[s] \in s
    BY <2>2
  <2>5. \A x \in U, e \in Expiries : g[<<x, e>>] = ShiftBy(x, born, e)
    OBVIOUS
  <2> HIDE DEF g, pick, base
  <2>6. PICK F \in [SUBSET U -> Expiries] : IsFold(U, base, g, pick, F)
    BY <2>1, <2>3, <2>4, FoldsExist
  <2>7. ASSUME NEW s \in SUBSET U, s # {}
        PROVE  g[<<pick[s], F[s \ {pick[s]}]>>] = ShiftBy(LatestStarted(s), born, F[s \ {LatestStarted(s)}])
    <3>1. pick[s] = LatestStarted(s) /\ pick[s] \in U /\ F[s \ {pick[s]}] \in Expiries
      BY <2>2, <2>6, <2>7
    <3> QED BY <2>5, <3>1
  <2>8. F = [s \in SUBSET U |-> IF s = {} THEN base
                                ELSE ShiftBy(LatestStarted(s), born, F[s \ {LatestStarted(s)}])]
    BY <2>6, <2>7 DEF IsFold
  <2>9. \E H : H = [s \in SUBSET U |-> IF s = {} THEN base
                                ELSE ShiftBy(LatestStarted(s), born, H[s \ {LatestStarted(s)}])]
    BY <2>8
  <2> QED BY <2>9, Zenon DEF base
<1>3. Iter = [s \in SUBSET U |->
             IF s = {} THEN [at |-> exp, frozen |-> FALSE]
             ELSE ShiftBy(LatestStarted(s), born, Iter[s \ {LatestStarted(s)}])]
  BY <1>2, Zenon
<1> HIDE DEF Iter
<1>4. ShiftsOf(U, exp, born, Iter)
  BY <1>3, Zenon DEF ShiftsOf
<1> QED BY <1>1, <1>4

(* What shifting by some of the periods gives does not depend on the rest. *)
LEMMA ShiftsAgree ==
    ASSUME NEW U, IsFiniteSet(U), U \subseteq Period, NEW V \in SUBSET U, NEW exp, NEW born,
           NEW F, ShiftsOf(U, exp, born, F), NEW G, ShiftsOf(V, exp, born, G)
    PROVE  G[V] = F[V]
<1> DEFINE T == {s \in SUBSET V : G[s] = F[s]}
<1>1. ASSUME NEW s \in SUBSET V, \A r \in SUBSET s : r # s => r \in T PROVE s \in T
  <2>1. CASE s = {}
    BY <2>1 DEF ShiftsOf
  <2>2. CASE s # {}
    <3>1. LatestStarted(s) \in s
      BY <2>2, LatestOf, FS_Subset
    <3>2. F[s \ {LatestStarted(s)}] = G[s \ {LatestStarted(s)}]
      BY <1>1, <3>1
    <3>3. F[s] = ShiftBy(LatestStarted(s), born, F[s \ {LatestStarted(s)}])
      BY <2>2 DEF ShiftsOf
    <3>4. G[s] = ShiftBy(LatestStarted(s), born, G[s \ {LatestStarted(s)}])
      BY <2>2 DEF ShiftsOf
    <3> QED BY <3>2, <3>3, <3>4
  <2> QED BY <2>1, <2>2
<1>2. IsFiniteSet(V)
  BY FS_Subset
<1>3. V \in T
  <2> HIDE DEF T
  <2> QED BY <1>1, <1>2, SetInduction
<1> QED BY <1>3

(* The pause that started last is shifted by last.                         *)
LEMMA ShiftAppends ==
    ASSUME NEW P, IsFiniteSet(P), NEW p, P \cup {p} \subseteq Period,
           p \notin P, \A q \in P : q.started < p.started, NEW exp \in Nat, NEW born \in Nat
    PROVE  Shifted(exp, P \cup {p}, born) = ShiftBy(p, born, Shifted(exp, P, born))
<1> DEFINE U == P \cup {p}
<1>1. IsFiniteSet(U)
  BY FS_AddElement
<1>4. PICK F : ShiftsOf(U, exp, born, F) /\ Shifted(exp, U, born) = F[U]
  BY <1>1, ShiftIsFold
<1>5. PICK G : ShiftsOf(P, exp, born, G) /\ Shifted(exp, P, born) = G[P]
  BY ShiftIsFold
<1>6. G[P] = F[P]
  BY <1>1, <1>4, <1>5, ShiftsAgree
<1>7. LatestStarted(U) = p
  BY LatestIs
<1>8. U # {} /\ U \ {p} = P
  OBVIOUS
<1>9. F[U] = ShiftBy(p, born, F[P])
  <2> HIDE DEF U
  <2> QED BY <1>4, <1>7, <1>8 DEF ShiftsOf
<1> QED BY <1>4, <1>5, <1>6, <1>9

(* Without a pause a lot expires when it says.                             *)
LEMMA NothingShifts ==
    ASSUME NEW exp \in Nat, NEW born \in Nat
    PROVE  Shifted(exp, {}, born) = [at |-> exp, frozen |-> FALSE]
<1>1. PICK F : ShiftsOf({}, exp, born, F) /\ Shifted(exp, {}, born) = F[{}]
  BY FS_EmptySet, ShiftIsFold
<1> QED BY <1>1 DEF ShiftsOf

-----------------------------------------------------------------------------
(***************************************************************************)
(* Pauses that have ended merge into periods apart, so a pause that begins *)
(* or ends now comes last in both folds.                                   *)
(***************************************************************************)

(* Shifting gives an expiry.                                               *)
LEMMA ShiftedIsExpiry ==
    ASSUME NEW U, IsFiniteSet(U), U \subseteq Period, NEW exp \in Nat, NEW born \in Nat
    PROVE  Shifted(exp, U, born) \in Expiries
<1>1. PICK F : ShiftsOf(U, exp, born, F) /\ Shifted(exp, U, born) = F[U]
  BY ShiftIsFold
<1> DEFINE T == {s \in SUBSET U : F[s] \in Expiries}
<1>2. ASSUME NEW s \in SUBSET U, \A r \in SUBSET s : r # s => r \in T PROVE s \in T
  <2>1. CASE s = {}
    BY <1>1, <2>1 DEF ShiftsOf, Expiries
  <2>2. CASE s # {}
    <3>1. LatestStarted(s) \in s /\ LatestStarted(s) \in Period
      BY <2>2, LatestOf, FS_Subset
    <3>2. F[s \ {LatestStarted(s)}] \in Expiries
      BY <1>2, <3>1
    <3>3. F[s] = ShiftBy(LatestStarted(s), born, F[s \ {LatestStarted(s)}])
      BY <1>1, <2>2 DEF ShiftsOf
    <3> QED BY <3>1, <3>2, <3>3, ShiftIs
  <2> QED BY <2>1, <2>2
<1>3. U \in T
  <2> HIDE DEF T
  <2> QED BY <1>2, SetInduction
<1> QED BY <1>1, <1>3

(* Merged pauses that have all ended lie apart from each other.            *)
Merged(M, t) ==
  /\ IsFiniteSet(M) /\ M \subseteq Period
  /\ \A m \in M : m.ended # Null /\ m.started < m.ended /\ m.ended <= t
  /\ \A m, n \in M : m # n => m.ended < n.started \/ n.ended < m.started

(* A pause after the others joins the one it touches, or stands alone.     *)
LEMMA AbsorbIs ==
    ASSUME NEW M, NEW p \in Period, Merged(M, p.started), p.ended # Null => p.started < p.ended
    PROVE  \/ Absorb(p, M) = M \cup {p} /\ \A m \in M : m.ended < p.started
           \/ \E m \in M : /\ m.ended = p.started
                           /\ Absorb(p, M) = (M \ {m}) \cup {[started |-> m.started, ended |-> p.ended]}
                           /\ \A n \in M \ {m} : n.ended < m.started
<1> DEFINE touching == {m \in M : m.ended = Null \/ m.ended >= p.started}
<1>0. /\ \A m \in M : m.started \in Nat /\ m.ended \in Nat
                      /\ m = [started |-> m.started, ended |-> m.ended]
      /\ p.started \in Nat /\ p.ended \in Nat \cup {Null}
  BY DEF Merged, Period
<1>1. touching = {m \in M : m.ended = p.started}
  BY <1>0 DEF Merged
<1>2. CASE touching = {}
  <2>1. Absorb(p, M) = M \cup {p}
    BY <1>2 DEF Absorb
  <2>2. \A m \in M : m.ended < p.started
    BY <1>0, <1>1, <1>2 DEF Merged
  <2> QED BY <2>1, <2>2
<1>3. CASE touching # {}
  <2> DEFINE m == CHOOSE m \in touching : TRUE
             end == IF m.ended = Null \/ p.ended = Null THEN Null ELSE Max({m.ended, p.ended})
  <2>1. m \in touching
    BY <1>3
  <2>2. Absorb(p, M) = (M \ {m}) \cup {[m EXCEPT !.ended = end]}
    BY <1>3 DEF Absorb
  <2>3. m \in M /\ m.ended = p.started
    BY <1>1, <2>1
  <2>4. end = p.ended
    <3>1. CASE p.ended = Null
      BY <3>1
    <3>2. CASE p.ended # Null
      <4>1. Max({m.ended, p.ended}) = p.ended
        <5>1. m.ended \in Int /\ p.ended \in Int /\ p.ended > m.ended
          BY <1>0, <2>3, <3>2
        <5> QED BY <5>1, MaxOf2
      <4> QED BY <1>0, <2>3, <3>2, <4>1 DEF Null
    <3> QED BY <3>1, <3>2
  <2> HIDE DEF m, end
  <2>5. [m EXCEPT !.ended = end] = [started |-> m.started, ended |-> p.ended]
    <3>1. m = [started |-> m.started, ended |-> m.ended]
      BY <1>0, <2>3
    <3> QED BY <2>4, <3>1
  <2>6. ASSUME NEW n \in M \ {m} PROVE n.ended < m.started
    <3>1. n.ended < m.started \/ m.ended < n.started
      BY <2>3, <2>6 DEF Merged
    <3>2. n.started < n.ended /\ n.ended <= m.ended
      BY <2>3, <2>6 DEF Merged
    <3> QED BY <1>0, <2>3, <2>6, <3>1, <3>2
  <2> QED BY <2>2, <2>3, <2>5, <2>6
<1> QED BY <1>2, <1>3

(* Merged periods stay apart when an ended pause is absorbed.              *)
LEMMA AbsorbKeepsApart ==
    ASSUME NEW M, NEW p \in Period, Merged(M, p.started), p.ended # Null, p.started < p.ended,
           NEW t \in Nat, p.ended <= t
    PROVE  Merged(Absorb(p, M), t)
<1>0. /\ \A m \in M : m.started \in Nat /\ m.ended \in Nat
      /\ p.started \in Nat /\ p.ended \in Nat
  BY DEF Merged, Period
<1>1. CASE Absorb(p, M) = M \cup {p} /\ \A m \in M : m.ended < p.started
  <2>1. IsFiniteSet(M \cup {p})
    BY FS_AddElement DEF Merged
  <2>2. \A m \in M \cup {p} : m.ended # Null /\ m.started < m.ended /\ m.ended <= t
    BY <1>0 DEF Merged
  <2>3. \A m, n \in M \cup {p} : m # n => m.ended < n.started \/ n.ended < m.started
    BY <1>0, <1>1 DEF Merged
  <2> QED BY <1>1, <2>1, <2>2, <2>3 DEF Merged
<1>2. CASE \E m \in M : /\ m.ended = p.started
                        /\ Absorb(p, M) = (M \ {m}) \cup {[started |-> m.started, ended |-> p.ended]}
                        /\ \A n \in M \ {m} : n.ended < m.started
  <2>1. PICK m \in M : /\ m.ended = p.started
                       /\ Absorb(p, M) = (M \ {m}) \cup {[started |-> m.started, ended |-> p.ended]}
                       /\ \A n \in M \ {m} : n.ended < m.started
    BY <1>2
  <2> DEFINE j == [started |-> m.started, ended |-> p.ended]
             N == M \ {m}
  <2>2. j.started = m.started /\ j.ended = p.ended /\ j \in Period
    BY <1>0 DEF Period
  <2>3. IsFiniteSet(N) /\ N \subseteq M
    <3>1. IsFiniteSet(M)
      BY DEF Merged
    <3>2. N \in SUBSET M
      OBVIOUS
    <3> HIDE DEF N
    <3> QED BY <3>1, <3>2, FS_Subset
  <2>4. IsFiniteSet(N \cup {j})
    <3> HIDE DEF N, j
    <3> QED BY <2>3, FS_AddElement
  <2>5. \A n \in N : n.ended < m.started
    BY <2>1
  <2>6. m.started < p.ended
    BY <1>0, <2>1 DEF Merged
  <2>7. Absorb(p, M) = N \cup {j}
    BY <2>1
  <2> HIDE DEF j, N
  <2>8. \A n \in N \cup {j} : n.ended # Null /\ n.started < n.ended /\ n.ended <= t
    BY <1>0, <2>2, <2>3, <2>6 DEF Merged
  <2>9. \A k, n \in N \cup {j} : k # n => k.ended < n.started \/ n.ended < k.started
    BY <1>0, <2>2, <2>3, <2>5 DEF Merged
  <2>10. N \cup {j} \subseteq Period
    BY <2>2, <2>3 DEF Merged
  <2> QED BY <2>4, <2>7, <2>8, <2>9, <2>10 DEF Merged
<1> QED BY <1>1, <1>2, AbsorbIs

(* Before the latest pause of a history every other has ended.             *)
LEMMA OthersEnded ==
    ASSUME NEW P, InOrder(P), NEW s \in SUBSET P, s # {}
    PROVE  LET p == LatestStarted(s)
           IN  p \in s /\ p \in P /\ IsFiniteSet(s) /\ InOrder(s \ {p}) /\ EndedBy(s \ {p}, p.started)
<1> DEFINE p == LatestStarted(s)
<1>1. IsFiniteSet(s) /\ s \subseteq Period
  BY FS_Subset DEF InOrder
<1>2. p \in s /\ \A q \in s : q.started <= p.started
  BY <1>1, LatestOf
<1> HIDE DEF p
<1>3. \A q \in s : q.started \in Nat /\ q.ended \in Nat \cup {Null}
  BY <1>1 DEF Period
<1>4. ASSUME NEW q \in s \ {p} PROVE q.ended # Null /\ q.ended <= p.started
  <2>1. \/ q.ended # Null /\ q.ended <= p.started
        \/ p.ended # Null /\ p.ended <= q.started
    BY <1>2, <1>4 DEF InOrder
  <2>2. p.ended # Null => p.started < p.ended
    BY <1>2 DEF InOrder
  <2> QED BY <1>2, <1>3, <1>4, <2>1, <2>2
<1>5. InOrder(s \ {p})
  <2>1. IsFiniteSet(s \ {p})
    BY <1>1, FS_Subset
  <2> QED BY <1>1, <2>1 DEF InOrder
<1> QED BY <1>1, <1>2, <1>4, <1>5 DEF p, EndedBy

(* Pauses that have ended merge into periods that lie apart.               *)
LEMMA MergesLieApart ==
    ASSUME NEW P, InOrder(P), NEW t \in Nat, EndedBy(P, t)
    PROVE  Merged(MergePauses(P), t)
<1> DEFINE T == {s \in SUBSET P : \A u \in Nat : EndedBy(s, u) => Merged(MergePauses(s), u)}
<1>1. ASSUME NEW s \in SUBSET P, \A r \in SUBSET s : r # s => r \in T PROVE s \in T
  <2>1. CASE s = {}
    BY <2>1, NothingToMerge, FS_EmptySet DEF Merged
  <2>2. CASE s # {}
    <3> DEFINE p == LatestStarted(s)
               r == s \ {p}
    <3>1. p \in s /\ p \in P /\ IsFiniteSet(s) /\ InOrder(r) /\ EndedBy(r, p.started)
      BY <2>2, OthersEnded
    <3>2. r \in T
      BY <1>1, <3>1
    <3>3. p \in Period /\ p.started \in Nat /\ r \subseteq Period /\ IsFiniteSet(r)
      BY <3>1, FS_Subset DEF InOrder, Period
    <3>4. \A q \in r : q.started \in Nat /\ q.ended \in Nat \cup {Null} /\ q.started < p.started
      <4>1. \A q \in r : q.started \in Nat /\ q.ended \in Nat \cup {Null}
        BY <3>3 DEF Period
      <4>2. \A q \in r : q.ended # Null /\ q.ended <= p.started /\ q.started < q.ended
        BY <3>1 DEF InOrder, EndedBy
      <4> HIDE DEF p, r
      <4> QED BY <3>3, <4>1, <4>2
    <3>5. Merged(MergePauses(r), p.started)
      BY <3>1, <3>2, <3>3
    <3>6. r \cup {p} = s /\ p \notin r
      BY <3>1
    <3> HIDE DEF r, p
    <3>7. MergePauses(s) = Absorb(p, MergePauses(r))
      BY <3>3, <3>4, <3>6, MergeAppends
    <3>8. ASSUME NEW u \in Nat, EndedBy(s, u) PROVE Merged(MergePauses(s), u)
      <4>1. p.ended # Null /\ p.ended <= u /\ p.started < p.ended
        BY <3>1, <3>8 DEF EndedBy, InOrder
      <4> QED BY <3>3, <3>5, <3>7, <4>1, AbsorbKeepsApart
    <3> QED BY <3>8
  <2> QED BY <2>1, <2>2
<1>2. P \in T
  <2> HIDE DEF T
  <2> QED BY <1>1, SetInduction DEF InOrder
<1> QED BY <1>2

(* Two pauses of which one begins where the other ends are one pause.      *)
LEMMA ShiftsJoin ==
    ASSUME NEW m \in Period, NEW p \in Period, m.ended # Null, m.started < m.ended,
           m.ended = p.started, p.ended # Null => p.started < p.ended,
           NEW born \in Nat, NEW e \in Expiries
    PROVE  ShiftBy([started |-> m.started, ended |-> p.ended], born, e)
             = ShiftBy(p, born, ShiftBy(m, born, e))
<1> DEFINE j == [started |-> m.started, ended |-> p.ended]
           f == ShiftBy(m, born, e)
<1>1. /\ m.started \in Nat /\ m.ended \in Nat /\ p.started \in Nat /\ p.ended \in Nat \cup {Null}
      /\ j.started = m.started /\ j.ended = p.ended /\ j \in Period
      /\ Null = -1 /\ e.at \in Int /\ e.frozen \in BOOLEAN
  BY DEF Period, Null, Expiries
<1>2. f \in Expiries /\ f.at \in Int /\ f.frozen \in BOOLEAN
  BY ShiftIs DEF Expiries
<1> HIDE DEF j
<1>3. Start(j, born) = Start(m, born) /\ Start(p, born) \in Nat /\ Start(m, born) \in Nat
      /\ Start(m, born) <= Start(p, born)
  BY <1>1 DEF Start
<1>4. CASE e.frozen \/ Start(m, born) >= e.at
  <2>1. f = e /\ ShiftBy(j, born, e) = e
    BY <1>1, <1>3, <1>4, ShiftIs
  <2>2. e.frozen \/ Start(p, born) >= e.at
    BY <1>1, <1>3, <1>4
  <2>3. ShiftBy(p, born, e) = e
    BY <2>2, ShiftIs
  <2> QED BY <2>1, <2>3 DEF j
<1>5. CASE ~e.frozen /\ Start(m, born) < e.at
  <2>1. CASE m.ended <= born
    <3>1. f = e
      BY <1>1, <1>5, <2>1, ShiftIs
    <3>2. Start(p, born) = born /\ Start(m, born) = born
      BY <1>1, <2>1 DEF Start
    <3>3. CASE p.ended = Null
      <4>1. ShiftBy(j, born, e) = [at |-> Null, frozen |-> TRUE]
        BY <1>1, <1>3, <1>5, <3>3, ShiftIs
      <4>2. ShiftBy(p, born, e) = [at |-> Null, frozen |-> TRUE]
        BY <1>1, <1>5, <3>2, <3>3, ShiftIs
      <4> QED BY <3>1, <4>1, <4>2 DEF j
    <3>4. CASE p.ended # Null /\ p.ended <= born
      <4>1. ShiftBy(j, born, e) = e
        BY <1>1, <1>3, <1>5, <3>4, ShiftIs
      <4>2. ShiftBy(p, born, e) = e
        BY <1>1, <1>5, <3>2, <3>4, ShiftIs
      <4> QED BY <3>1, <4>1, <4>2 DEF j
    <3>5. CASE p.ended # Null /\ p.ended > born
      <4>1. ShiftBy(j, born, e) = [at |-> e.at + (p.ended - born), frozen |-> FALSE]
        BY <1>1, <1>3, <1>5, <3>2, <3>5, ShiftIs
      <4>2. ShiftBy(p, born, e) = [at |-> e.at + (p.ended - born), frozen |-> FALSE]
        BY <1>1, <1>5, <3>2, <3>5, ShiftIs
      <4> QED BY <3>1, <4>1, <4>2 DEF j
    <3> QED BY <1>1, <3>3, <3>4, <3>5
  <2>2. CASE m.ended > born
    <3>1. f = [at |-> e.at + (m.ended - Start(m, born)), frozen |-> FALSE]
      BY <1>1, <1>5, <2>2, ShiftIs
    <3>2. f.at = e.at + (m.ended - Start(m, born)) /\ ~f.frozen
      BY <3>1
    <3>3. Start(p, born) = m.ended /\ Start(p, born) < f.at
      BY <1>1, <1>3, <1>5, <2>2, <3>2 DEF Start
    <3> HIDE DEF f
    <3>4. CASE p.ended = Null
      <4>1. ShiftBy(j, born, e) = [at |-> Null, frozen |-> TRUE]
        BY <1>1, <1>3, <1>5, <3>4, ShiftIs
      <4>2. ShiftBy(p, born, f) = [at |-> Null, frozen |-> TRUE]
        BY <1>2, <3>2, <3>3, <3>4, ShiftIs
      <4> QED BY <4>1, <4>2 DEF j, f
    <3>5. CASE p.ended # Null
      <4>0. p.ended > born
        BY <1>1, <2>2, <3>5
      <4>1. ShiftBy(j, born, e) = [at |-> e.at + (p.ended - Start(m, born)), frozen |-> FALSE]
        BY <1>1, <1>3, <1>5, <3>5, <4>0, ShiftIs
      <4>2. ShiftBy(p, born, f) = [at |-> f.at + (p.ended - m.ended), frozen |-> FALSE]
        BY <1>2, <3>2, <3>3, <3>5, <4>0, ShiftIs
      <4>3. f.at + (p.ended - m.ended) = e.at + (p.ended - Start(m, born))
        BY <1>1, <1>3, <3>2, <3>5
      <4> QED BY <4>1, <4>2, <4>3 DEF j, f
    <3> QED BY <3>4, <3>5
  <2> QED BY <1>1, <2>1, <2>2
<1> QED BY <1>1, <1>3, <1>4, <1>5

(* A dated lot expires where the merged pauses shift it to.                *)
LEMMA ExpiryIsShifted ==
    ASSUME NEW exp \in Nat, NEW born
    PROVE  \A Q : EffectiveExpiry(exp, Q, born) = Shifted(exp, MergePauses(Q), born)
<1>1. exp # Null
  BY DEF Null
<1> QED BY <1>1, Zenon DEF EffectiveExpiry, Shifted

(* The latest pause moves an expiry last.                                  *)
LEMMA ExpiryAppends ==
    ASSUME NEW P, InOrder(P), NEW p \in Period, EndedBy(P, p.started),
           p.ended # Null => p.started < p.ended, NEW exp \in Nat, NEW born \in Nat
    PROVE  /\ EffectiveExpiry(exp, P, born) \in Expiries
           /\ EffectiveExpiry(exp, P \cup {p}, born)
                = ShiftBy(p, born, EffectiveExpiry(exp, P, born))
<1> DEFINE M == MergePauses(P)
<1>1. p.started \in Nat /\ Merged(M, p.started)
  <2>1. p.started \in Nat
    BY DEF Period
  <2> QED BY <2>1, MergesLieApart
<1>2. \A Q : EffectiveExpiry(exp, Q, born) = Shifted(exp, MergePauses(Q), born)
  BY ExpiryIsShifted
<1>3. MergePauses(P \cup {p}) = Absorb(p, M)
  <2>1. \A q \in P : q.started \in Nat /\ q.ended \in Nat /\ q.started < q.ended /\ q.ended <= p.started
    BY DEF InOrder, EndedBy, Period
  <2>2. \A q \in P : q.started < p.started
    BY <1>1, <2>1
  <2>3. p \notin P
    BY <1>1, <2>2
  <2> QED BY <2>2, <2>3, MergeAppends DEF InOrder
<1> HIDE DEF M
<1>4. IsFiniteSet(M) /\ M \subseteq Period
      /\ \A m \in M : m.started \in Nat /\ m.ended \in Nat /\ m.started < m.ended /\ m.ended # Null
  BY <1>1 DEF Merged, Period
<1>5. Shifted(exp, M, born) \in Expiries
  BY <1>4, ShiftedIsExpiry
<1>6. Shifted(exp, Absorb(p, M), born) = ShiftBy(p, born, Shifted(exp, M, born))
  <2>1. CASE Absorb(p, M) = M \cup {p} /\ \A m \in M : m.ended < p.started
    <3>1. \A m \in M : m.started < p.started
      BY <1>1, <1>4, <2>1
    <3>2. p \notin M
      BY <1>1, <3>1
    <3> QED BY <1>4, <2>1, <3>1, <3>2, ShiftAppends
  <2>2. CASE \E m \in M : /\ m.ended = p.started
                          /\ Absorb(p, M) = (M \ {m}) \cup {[started |-> m.started, ended |-> p.ended]}
                          /\ \A n \in M \ {m} : n.ended < m.started
    <3>1. PICK m \in M : /\ m.ended = p.started
                         /\ Absorb(p, M) = (M \ {m}) \cup {[started |-> m.started, ended |-> p.ended]}
                         /\ \A n \in M \ {m} : n.ended < m.started
      BY <2>2
    <3> DEFINE j == [started |-> m.started, ended |-> p.ended]
               N == M \ {m}
    <3>2. j.started = m.started /\ j.ended = p.ended /\ j \in Period
      BY <1>4 DEF Period
    <3>3. IsFiniteSet(N) /\ N \subseteq Period /\ N \cup {m} = M /\ m \notin N
      BY <1>4, FS_Subset
    <3>4. \A n \in N : n.started < m.started
      BY <1>4, <3>1
    <3>5. Absorb(p, M) = N \cup {j}
      BY <3>1
    <3> HIDE DEF N
    <3>6. Shifted(exp, M, born) = ShiftBy(m, born, Shifted(exp, N, born))
      BY <1>4, <3>3, <3>4, ShiftAppends
    <3>7. Shifted(exp, N \cup {j}, born) = ShiftBy(j, born, Shifted(exp, N, born))
      <4> HIDE DEF j
      <4>1. j \notin N /\ \A n \in N : n.started < j.started
        BY <1>4, <3>2, <3>3, <3>4
      <4> QED BY <3>2, <3>3, <4>1, ShiftAppends
    <3>8. Shifted(exp, N, born) \in Expiries
      BY <3>3, ShiftedIsExpiry
    <3>9. ShiftBy(j, born, Shifted(exp, N, born)) = ShiftBy(p, born, ShiftBy(m, born, Shifted(exp, N, born)))
      BY <1>4, <3>1, <3>8, ShiftsJoin
    <3> QED BY <3>5, <3>6, <3>7, <3>9
  <2> QED BY <1>1, <2>1, <2>2, AbsorbIs
<1> QED BY <1>2, <1>3, <1>5, <1>6 DEF M

(* Without an open pause no lot's clock stands still.                      *)
LEMMA ExpiryOfEnded ==
    ASSUME NEW P, InOrder(P), NEW t \in Nat, EndedBy(P, t), NEW exp \in Nat, NEW born \in Nat
    PROVE  /\ EffectiveExpiry(exp, P, born) \in Expiries
           /\ EffectiveExpiry(exp, P, born).at \in Nat /\ ~EffectiveExpiry(exp, P, born).frozen
<1> DEFINE Dated(e) == e \in Expiries /\ e.at \in Nat /\ ~e.frozen
           T == {s \in SUBSET P : Dated(EffectiveExpiry(exp, s, born))}
<1>1. ASSUME NEW s \in SUBSET P, \A r \in SUBSET s : r # s => r \in T PROVE s \in T
  <2>1. CASE s = {}
    <3>1. EffectiveExpiry(exp, {}, born) = Shifted(exp, MergePauses({}), born)
      BY ExpiryIsShifted
    <3>2. EffectiveExpiry(exp, {}, born) = [at |-> exp, frozen |-> FALSE]
      BY <3>1, NothingToMerge, NothingShifts
    <3>3. Dated([at |-> exp, frozen |-> FALSE])
      BY DEF Expiries
    <3> HIDE DEF Dated
    <3> QED BY <2>1, <3>2, <3>3
  <2>2. CASE s # {}
    <3> DEFINE p == LatestStarted(s)
               r == s \ {p}
               e == EffectiveExpiry(exp, r, born)
    <3>1. p \in s /\ p \in P /\ InOrder(r) /\ EndedBy(r, p.started)
      BY <2>2, OthersEnded
    <3>2. r \in T /\ r \cup {p} = s
      BY <1>1, <3>1
    <3>3. p \in Period /\ p.started \in Nat /\ p.ended \in Nat /\ p.ended # Null /\ p.started < p.ended
      BY <3>1 DEF InOrder, EndedBy, Period
    <3>4. e \in Expiries /\ e.at \in Nat /\ ~e.frozen
      BY <3>2
    <3> HIDE DEF r, p
    <3>5. EffectiveExpiry(exp, s, born) = ShiftBy(p, born, e)
      <4>1. EffectiveExpiry(exp, r \cup {p}, born) = ShiftBy(p, born, EffectiveExpiry(exp, r, born))
        BY <3>1, <3>3, ExpiryAppends
      <4> QED BY <3>2, <4>1
    <3> HIDE DEF e
    <3>6. Dated(ShiftBy(p, born, e))
      <4> DEFINE f == ShiftBy(p, born, e)
      <4>1. f \in Expiries
        BY <3>3, <3>4, ShiftIs
      <4>2. f = e \/ f = [at |-> e.at + (p.ended - Start(p, born)), frozen |-> FALSE]
        <5>1. Start(p, born) \in Nat
          BY <3>3 DEF Start
        <5> QED BY <3>3, <3>4, <5>1, ShiftIs
      <4>3. CASE f = e
        BY <3>4, <4>3
      <4>4. CASE f # e
        <5>1. f.at = e.at + (p.ended - Start(p, born)) /\ ~f.frozen
          BY <4>2, <4>4
        <5>2. p.ended > born
          <6>1. Start(p, born) \in Nat
            BY <3>3 DEF Start
          <6>2. Start(p, born) < e.at
            BY <3>3, <3>4, <4>4, <6>1, ShiftIs
          <6>3. p.ended <= born => f = e
            BY <3>3, <3>4, <6>2, ShiftIs
          <6> QED BY <3>3, <4>4, <6>3
        <5>3. p.ended >= Start(p, born) /\ Start(p, born) \in Nat
          BY <3>3, <5>2 DEF Start
        <5>4. f.at \in Nat
          BY <3>3, <3>4, <5>1, <5>3
        <5> QED BY <4>1, <5>1, <5>4
      <4> QED BY <4>3, <4>4
    <3> QED BY <3>5, <3>6
  <2> QED BY <2>1, <2>2
<1>2. P \in T
  <2> HIDE DEF T
  <2> QED BY <1>1, SetInduction DEF InOrder
<1> QED BY <1>2

-----------------------------------------------------------------------------
(***************************************************************************)
(* A pause that begins or ends now changes no expiry that has passed.      *)
(***************************************************************************)

(* What expires_at holds.                                                  *)
Instants == Nat \cup {Null}

(* An expiry is an instant or none; a frozen one is none.                  *)
LEMMA ExpiryType ==
    ASSUME NEW P, InOrder(P), NEW exp \in Instants, NEW born \in Nat
    PROVE  /\ EffectiveExpiry(exp, P, born) \in Expiries /\ EffectiveExpiry(exp, P, born).at \in Instants
           /\ EffectiveExpiry(exp, P, born).frozen => EffectiveExpiry(exp, P, born).at = Null
<1>0. Null = -1 /\ Null \notin Nat
  BY DEF Null
<1>1. CASE exp = Null
  <2>1. EffectiveExpiry(exp, P, born) = [at |-> Null, frozen |-> FALSE]
    BY <1>1 DEF EffectiveExpiry
  <2> QED BY <1>0, <2>1 DEF Expiries, Instants
<1>2. CASE exp \in Nat /\ P = {}
  <2>1. EndedBy(P, 0)
    BY <1>2 DEF EndedBy
  <2> QED BY <1>2, <2>1, ExpiryOfEnded DEF Instants
<1>3. CASE exp \in Nat /\ P # {}
  <2> DEFINE p == LatestStarted(P)
             r == P \ {p}
             e == EffectiveExpiry(exp, r, born)
  <2>1. p \in P /\ InOrder(r) /\ EndedBy(r, p.started)
    BY <1>3, OthersEnded
  <2>2. p \in Period /\ p.started \in Nat /\ p.ended \in Nat \cup {Null}
        /\ (p.ended # Null => p.started < p.ended)
    BY <2>1 DEF InOrder, Period
  <2>3. r \cup {p} = P
    BY <2>1
  <2> HIDE DEF r, p
  <2>4. e \in Expiries /\ e.at \in Nat /\ ~e.frozen
    BY <1>3, <2>1, <2>2, ExpiryOfEnded
  <2>5. EffectiveExpiry(exp, P, born) = ShiftBy(p, born, e)
    BY <1>3, <2>1, <2>2, <2>3, ExpiryAppends
  <2> HIDE DEF e
  <2>6. /\ ShiftBy(p, born, e) \in Expiries /\ ShiftBy(p, born, e).at \in Instants
        /\ ShiftBy(p, born, e).frozen => ShiftBy(p, born, e).at = Null
    <3> DEFINE f == ShiftBy(p, born, e)
    <3>1. f \in Expiries /\ Start(p, born) \in Nat
      BY <2>2, <2>4, ShiftIs DEF Start
    <3>2. CASE f = e
      BY <2>4, <3>1, <3>2 DEF Instants
    <3>3. CASE f # e
      <4>1. Start(p, born) < e.at
        BY <2>2, <2>4, <3>1, <3>3, ShiftIs
      <4>2. CASE p.ended = Null
        <5>1. f = [at |-> Null, frozen |-> TRUE]
          BY <2>2, <2>4, <4>1, <4>2, ShiftIs
        <5> QED BY <3>1, <5>1 DEF Instants
      <4>3. CASE p.ended # Null
        <5>1. p.ended \in Nat /\ p.ended > born
          <6>1. p.ended <= born => f = e
            BY <2>2, <2>4, <4>1, <4>3, ShiftIs
          <6> QED BY <2>2, <3>3, <4>3, <6>1
        <5>2. f = [at |-> e.at + (p.ended - Start(p, born)), frozen |-> FALSE]
          BY <2>2, <2>4, <4>1, <4>3, <5>1, ShiftIs
        <5>3. p.ended >= Start(p, born)
          BY <2>2, <4>3, <5>1 DEF Start
        <5>4. e.at + (p.ended - Start(p, born)) \in Nat
          BY <2>4, <3>1, <5>1, <5>3
        <5> QED BY <3>1, <5>2, <5>4 DEF Instants
      <4> QED BY <4>2, <4>3
    <3> QED BY <3>2, <3>3
  <2> QED BY <2>5, <2>6
<1> QED BY <1>1, <1>2, <1>3 DEF Instants

(* A lot whose effective expiry has come.                                  *)
Over(e, t) == e.at # Null /\ e.at <= t

(* Two pause histories that agree on every lot that was over by t, and on  *)
(* which those are.                                                        *)
AgreeUntil(P, Q, t) ==
  \A exp \in Instants, born \in 0..t :
    LET e == EffectiveExpiry(exp, P, born)
        f == EffectiveExpiry(exp, Q, born)
    IN  (Over(e, t) => f = e) /\ (Over(f, t) => Over(e, t))

(* A pause that begins now touches no lot that is over.                    *)
LEMMA PauseBegins ==
    ASSUME NEW P, InOrder(P), NEW t \in Nat, EndedBy(P, t)
    PROVE  LET Q == P \cup {[started |-> t, ended |-> Null]}
           IN  InOrder(Q) /\ AgreeUntil(P, Q, t)
<1> DEFINE p == [started |-> t, ended |-> Null]
           Q == P \cup {p}
<1>0. p.started = t /\ p.ended = Null /\ p \in Period /\ Null = -1
  BY DEF Period, Null
<1>1. InOrder(Q)
  <2>1. IsFiniteSet(Q)
    BY FS_AddElement DEF InOrder
  <2> HIDE DEF p
  <2>2. Q \subseteq Period
    BY <1>0 DEF InOrder
  <2>3. \A q \in Q : q.ended # Null => q.started < q.ended
    BY <1>0 DEF InOrder
  <2>4. ASSUME NEW q \in Q, NEW r \in Q, q # r
        PROVE  \/ q.ended # Null /\ q.ended <= r.started
               \/ r.ended # Null /\ r.ended <= q.started
    <3>1. CASE q \in P /\ r \in P
      BY <2>4, <3>1 DEF InOrder
    <3>2. CASE q = p
      BY <1>0, <2>4, <3>2 DEF EndedBy
    <3>3. CASE r = p
      BY <1>0, <2>4, <3>3 DEF EndedBy
    <3> QED BY <3>1, <3>2, <3>3
  <2> QED BY <2>1, <2>2, <2>3, <2>4 DEF InOrder
<1>2. ASSUME NEW exp \in Instants, NEW born \in 0..t
      PROVE  LET e == EffectiveExpiry(exp, P, born)
                 f == EffectiveExpiry(exp, Q, born)
             IN  (Over(e, t) => f = e) /\ (Over(f, t) => Over(e, t))
  <2> DEFINE e == EffectiveExpiry(exp, P, born)
             f == EffectiveExpiry(exp, Q, born)
  <2>1. CASE exp = Null
    <3>1. e = f
      BY <2>1 DEF EffectiveExpiry
    <3> QED BY <3>1
  <2>2. CASE exp \in Nat
    <3>0. born \in Nat
      OBVIOUS
    <3>1. e \in Expiries /\ e.at \in Nat /\ ~e.frozen
      BY <2>2, <3>0, ExpiryOfEnded
    <3>2. f = ShiftBy(p, born, e)
      <4> HIDE DEF p
      <4> QED BY <1>0, <2>2, <3>0, ExpiryAppends
    <3>3. Start(p, born) = t
      BY <1>0, <3>0 DEF Start
    <3> HIDE DEF e, f, p
    <3>4. CASE t >= e.at
      <4>1. f = e
        BY <1>0, <3>0, <3>1, <3>2, <3>3, <3>4, ShiftIs
      <4> QED BY <4>1 DEF e, f
    <3>5. CASE t < e.at
      <4>1. f = [at |-> Null, frozen |-> TRUE]
        BY <1>0, <3>0, <3>1, <3>2, <3>3, <3>5, ShiftIs
      <4>2. ~Over(e, t) /\ ~Over(f, t)
        BY <3>1, <3>5, <4>1 DEF Over
      <4> QED BY <4>2 DEF e, f
    <3> QED BY <3>1, <3>4, <3>5
  <2> QED BY <2>1, <2>2 DEF Instants
<1> QED BY <1>1, <1>2 DEF AgreeUntil

(* Nor does one that ends now.                                             *)
LEMMA PauseEnds ==
    ASSUME NEW P, NEW s \in Nat, NEW t \in Nat, s < t,
           InOrder(P), EndedBy(P, s)
    PROVE  LET O == P \cup {[started |-> s, ended |-> Null]}
               Q == P \cup {[started |-> s, ended |-> t]}
           IN  InOrder(Q) /\ AgreeUntil(O, Q, t)
<1> DEFINE p == [started |-> s, ended |-> Null]
           o == [started |-> s, ended |-> t]
           O == P \cup {p}
           Q == P \cup {o}
<1>0. /\ p.started = s /\ p.ended = Null /\ p \in Period /\ Null = -1
      /\ o.started = s /\ o.ended = t /\ o \in Period /\ t # Null
  BY DEF Period, Null
<1>1. InOrder(Q)
  <2>1. IsFiniteSet(Q)
    BY FS_AddElement DEF InOrder
  <2> HIDE DEF o
  <2>2. Q \subseteq Period
    BY <1>0 DEF InOrder
  <2>3. \A q \in Q : q.ended # Null => q.started < q.ended
    BY <1>0 DEF InOrder
  <2>4. ASSUME NEW q \in Q, NEW r \in Q, q # r
        PROVE  \/ q.ended # Null /\ q.ended <= r.started
               \/ r.ended # Null /\ r.ended <= q.started
    <3>1. CASE q \in P /\ r \in P
      BY <2>4, <3>1 DEF InOrder
    <3>2. CASE q = o
      BY <1>0, <2>4, <3>2 DEF EndedBy
    <3>3. CASE r = o
      BY <1>0, <2>4, <3>3 DEF EndedBy
    <3> QED BY <3>1, <3>2, <3>3
  <2> QED BY <2>1, <2>2, <2>3, <2>4 DEF InOrder
<1>2. ASSUME NEW exp \in Instants, NEW born \in 0..t
      PROVE  LET e == EffectiveExpiry(exp, O, born)
                 f == EffectiveExpiry(exp, Q, born)
             IN  (Over(e, t) => f = e) /\ (Over(f, t) => Over(e, t))
  <2> DEFINE e == EffectiveExpiry(exp, O, born)
             f == EffectiveExpiry(exp, Q, born)
             g == EffectiveExpiry(exp, P, born)
  <2>1. CASE exp = Null
    <3>1. e = f
      BY <2>1 DEF EffectiveExpiry
    <3> QED BY <3>1
  <2>2. CASE exp \in Nat
    <3>0. born \in Nat /\ born <= t
      OBVIOUS
    <3>1. g \in Expiries /\ g.at \in Nat /\ ~g.frozen
      BY <2>2, <3>0, ExpiryOfEnded
    <3>2. e = ShiftBy(p, born, g) /\ f = ShiftBy(o, born, g)
      <4> HIDE DEF p, o
      <4> QED BY <1>0, <2>2, <3>0, ExpiryAppends
    <3>3. Start(p, born) = Start(o, born) /\ Start(p, born) \in Nat
          /\ Start(p, born) >= born /\ Start(p, born) <= t
      BY <1>0, <3>0 DEF Start
    <3> HIDE DEF e, f, g, p, o
    <3>4. CASE Start(p, born) >= g.at
      <4>1. f = g /\ e = g
        BY <1>0, <3>0, <3>1, <3>2, <3>3, <3>4, ShiftIs
      <4> QED BY <4>1 DEF e, f
    <3>5. CASE Start(p, born) < g.at
      <4>1. e = [at |-> Null, frozen |-> TRUE]
        BY <1>0, <3>0, <3>1, <3>2, <3>5, ShiftIs
      <4>2. ~Over(e, t)
        BY <4>1 DEF Over
      <4>3. ~Over(f, t)
        <5>1. CASE t <= born
          <6>1. f = g
            BY <1>0, <3>0, <3>1, <3>2, <3>3, <3>5, <5>1, ShiftIs
          <6>2. g.at > t
            BY <3>0, <3>1, <3>3, <3>5, <5>1
          <6> QED BY <3>1, <6>1, <6>2 DEF Over
        <5>2. CASE t > born
          <6>1. f = [at |-> g.at + (t - Start(o, born)), frozen |-> FALSE]
            BY <1>0, <3>0, <3>1, <3>2, <3>3, <3>5, <5>2, ShiftIs
          <6>2. f.at > t
            BY <3>0, <3>1, <3>3, <3>5, <6>1
          <6> QED BY <6>1, <6>2, <3>1, <3>3 DEF Over
        <5> QED BY <3>0, <5>1, <5>2
      <4> QED BY <4>2, <4>3 DEF e, f
    <3> QED BY <3>1, <3>3, <3>4, <3>5
  <2> QED BY <2>1, <2>2 DEF Instants
<1> QED BY <1>1, <1>2 DEF AgreeUntil

-----------------------------------------------------------------------------
(***************************************************************************)
(* When a lot expires, for any pauses of it: overlapping and touching ones *)
(* included.  They merge into periods that lie apart and hold the same     *)
(* instants, and each of those moves the expiry by what it holds up.       *)
(***************************************************************************)

(* Pauses of some length, in any order.                                    *)
Lasting(P) ==
  IsFiniteSet(P) /\ P \subseteq Period /\ \A p \in P : p.ended # Null => p.started < p.ended

(* Periods that lie apart: between two of them a lot's clock runs.         *)
Apart(M) ==
  /\ Lasting(M)
  /\ \A m, n \in M : m # n => \/ m.ended # Null /\ m.ended < n.started
                              \/ n.ended # Null /\ n.ended < m.started

(* What a period is.                                                       *)
LEMMA PeriodIs ==
    ASSUME NEW p \in Period
    PROVE  /\ p.started \in Nat /\ p.ended \in Nat \cup {Null} /\ Null = -1
           /\ p = [started |-> p.started, ended |-> p.ended]
BY DEF Period, Null

(* Fewer periods of a set that lie apart.                                  *)
LEMMA SomeApart == ASSUME NEW M, Apart(M), NEW s \in SUBSET M PROVE Apart(s)
BY FS_Subset DEF Apart, Lasting

(* One period next to others holds what it holds and what they hold.       *)
LEMMA CoveredByEither ==
    ASSUME NEW N, NEW q, NEW u
    PROVE  Covered(N \cup {q}, u) <=> Covered(N, u) \/ Covered({q}, u)
BY DEF Covered

(* Periods that lie apart stay so when a later pause is absorbed, and hold *)
(* what they held and what the pause holds.                                *)
LEMMA AbsorbCovers ==
    ASSUME NEW M, Apart(M), NEW p \in Period, p.ended # Null => p.started < p.ended,
           \A m \in M : m.started <= p.started
    PROVE  /\ Apart(Absorb(p, M))
           /\ \A u \in Nat : Covered(Absorb(p, M), u) <=> Covered(M, u) \/ Covered({p}, u)
           /\ \A m \in Absorb(p, M) : m.started <= p.started
<1> DEFINE touching == {m \in M : m.ended = Null \/ m.ended >= p.started}
<1>0. /\ \A m \in M : m.started \in Nat /\ m.ended \in Nat \cup {Null}
      /\ p.started \in Nat /\ p.ended \in Nat \cup {Null} /\ Null = -1
      /\ IsFiniteSet(M) /\ M \subseteq Period /\ \A m \in M : m.ended # Null => m.started < m.ended
  BY PeriodIs DEF Apart, Lasting
<1>1. CASE touching = {}
  <2>1. Absorb(p, M) = M \cup {p}
    BY <1>1 DEF Absorb
  <2>2. \A m \in M : m.ended # Null /\ m.ended < p.started
    BY <1>0, <1>1
  <2>3. IsFiniteSet(M \cup {p})
    BY <1>0, FS_AddElement
  <2>4. Lasting(M \cup {p})
    BY <1>0, <2>3 DEF Lasting
  <2>5. Apart(M \cup {p})
    BY <2>2, <2>4 DEF Apart
  <2>6. \A u \in Nat : Covered(M \cup {p}, u) <=> Covered(M, u) \/ Covered({p}, u)
    BY CoveredByEither
  <2>7. \A m \in M \cup {p} : m.started <= p.started
    BY <1>0
  <2> QED BY <2>1, <2>5, <2>6, <2>7
<1>2. CASE touching # {}
  <2> DEFINE m == CHOOSE m \in touching : TRUE
             end == IF m.ended = Null \/ p.ended = Null THEN Null ELSE Max({m.ended, p.ended})
             j == [m EXCEPT !.ended = end]
             N == M \ {m}
  <2>1. m \in M /\ (m.ended = Null \/ m.ended >= p.started)
    BY <1>2
  <2>2. Absorb(p, M) = N \cup {j}
    BY <1>2 DEF Absorb
  <2>3. /\ end \in Nat \cup {Null}
        /\ end = Null <=> m.ended = Null \/ p.ended = Null
        /\ end # Null => end = IF m.ended >= p.ended THEN m.ended ELSE p.ended
    <3>1. CASE m.ended = Null \/ p.ended = Null
      BY <3>1
    <3>2. CASE ~(m.ended = Null \/ p.ended = Null)
      <4>1. m.ended \in Nat /\ p.ended \in Nat
        BY <1>0, <2>1, <3>2
      <4>2. Max({m.ended, p.ended}) = IF m.ended >= p.ended THEN m.ended ELSE p.ended
        BY <4>1, MaxOf2
      <4> QED BY <1>0, <3>2, <4>1, <4>2
    <3> QED BY <3>1, <3>2
  <2>4. j = [started |-> m.started, ended |-> end]
    <3>1. m = [started |-> m.started, ended |-> m.ended]
      BY <1>0, <2>1, PeriodIs
    <3> HIDE DEF m, end
    <3> QED BY <3>1
  <2>5. j \in Period /\ j.started = m.started /\ j.ended = end
    <3> HIDE DEF m, end, j
    <3> QED BY <1>0, <2>1, <2>3, <2>4 DEF Period
  <2>6. IsFiniteSet(N) /\ N \in SUBSET M /\ M = N \cup {m}
    <3>1. N \in SUBSET M
      OBVIOUS
    <3> QED BY <1>0, <2>1, <3>1, FS_Subset
  <2>7. ASSUME NEW n \in N PROVE n \in M /\ n # m /\ n.ended # Null /\ n.ended < m.started
    <3>1. n \in M /\ n # m
      BY <2>7
    <3> HIDE DEF m, N
    <3>2. \/ n.ended # Null /\ n.ended < m.started
          \/ m.ended # Null /\ m.ended < n.started
      BY <2>1, <3>1 DEF Apart
    <3> QED BY <1>0, <2>1, <3>1, <3>2
  <2> HIDE DEF m, end, j, N
  <2>8. m.started \in Nat /\ m.ended \in Nat \cup {Null} /\ m.started <= p.started
    BY <1>0, <2>1
  <2>9. j.ended # Null => j.started < j.ended
    BY <1>0, <2>1, <2>3, <2>5, <2>8
  <2>10. Apart(N \cup {j})
    <3>1. IsFiniteSet(N \cup {j})
      BY <2>6, FS_AddElement
    <3>2. Lasting(N \cup {j})
      BY <1>0, <2>5, <2>7, <2>9, <3>1 DEF Lasting
    <3>3. \A k, n \in N \cup {j} : k # n => \/ k.ended # Null /\ k.ended < n.started
                                            \/ n.ended # Null /\ n.ended < k.started
      BY <2>5, <2>7 DEF Apart
    <3> QED BY <3>2, <3>3 DEF Apart
  <2>11. ASSUME NEW u \in Nat PROVE Covered({j}, u) <=> Covered({m}, u) \/ Covered({p}, u)
    BY <1>0, <2>1, <2>3, <2>5, <2>8 DEF Covered
  <2>12. ASSUME NEW u \in Nat PROVE Covered(N \cup {j}, u) <=> Covered(M, u) \/ Covered({p}, u)
    BY <2>6, <2>11, CoveredByEither
  <2>13. \A n \in N \cup {j} : n.started <= p.started
    BY <2>5, <2>7, <2>8
  <2> QED BY <2>2, <2>10, <2>12, <2>13
<1> QED BY <1>1, <1>2

(* mergePauses: the merged periods lie apart and hold what the pauses hold.*)
LEMMA MergesCover ==
    ASSUME NEW P, Lasting(P)
    PROVE  /\ Apart(MergePauses(P))
           /\ \A u \in Nat : Covered(MergePauses(P), u) <=> Covered(P, u)
<1>1. IsFiniteSet(P) /\ P \subseteq Period /\ \A p \in P : p.ended # Null => p.started < p.ended
  BY DEF Lasting
<1>2. \A s \in SUBSET P : IsFiniteSet(s) /\ s \subseteq Period
  BY <1>1, FS_Subset
<1>3. \A s \in SUBSET P : s # {} =>
        LatestStarted(s) \in s /\ \A q \in s : q.started <= LatestStarted(s).started
  BY <1>2, LatestOf
<1>4. Earliest(P)
  BY <1>3 DEF Earliest
<1>5. PICK F : MergesOf(P, F) /\ MergePauses(P) = F[P]
  BY <1>1, <1>4, MergeIsFold
<1> DEFINE T == {s \in SUBSET P : /\ Apart(F[s])
                                  /\ \A u \in Nat : Covered(F[s], u) <=> Covered(s, u)
                                  /\ \A m \in F[s] : \E q \in s : m.started <= q.started}
<1>6. ASSUME NEW s \in SUBSET P, \A r \in SUBSET s : r # s => r \in T PROVE s \in T
  <2>1. CASE s = {}
    <3>1. F[s] = {}
      BY <1>5, <2>1 DEF MergesOf
    <3>2. Apart({})
      BY FS_EmptySet DEF Apart, Lasting
    <3> QED BY <2>1, <3>1, <3>2
  <2>2. CASE s # {}
    <3> DEFINE p == LatestStarted(s)
               r == s \ {p}
    <3>1. p \in s /\ \A q \in s : q.started <= p.started
      BY <1>3, <2>2
    <3>2. r \in T /\ s = r \cup {p}
      BY <1>6, <3>1
    <3>3. F[s] = Absorb(p, F[r])
      BY <1>5, <2>2 DEF MergesOf
    <3>4. p \in Period /\ p.started \in Nat /\ (p.ended # Null => p.started < p.ended)
      BY <1>1, <3>1, PeriodIs
    <3> HIDE DEF p, r
    <3>5. Apart(F[r]) /\ (\A u \in Nat : Covered(F[r], u) <=> Covered(r, u))
          /\ \A m \in F[r] : \E q \in r : m.started <= q.started
      BY <3>2
    <3>6. \A m \in F[r] : m.started <= p.started
      <4>1. ASSUME NEW m \in F[r] PROVE m.started <= p.started
        <5>1. PICK q \in r : m.started <= q.started
          BY <3>5
        <5>2. m \in Period /\ q \in s /\ q \in Period
          BY <1>1, <3>2, <3>5 DEF Apart, Lasting
        <5>3. m.started \in Nat /\ q.started \in Nat /\ q.started <= p.started
          BY <3>1, <5>2, PeriodIs
        <5> QED BY <3>4, <5>1, <5>3
      <4> QED BY <4>1
    <3>7. /\ Apart(F[s])
          /\ \A u \in Nat : Covered(F[s], u) <=> Covered(F[r], u) \/ Covered({p}, u)
          /\ \A m \in F[s] : m.started <= p.started
      BY <3>3, <3>4, <3>5, <3>6, AbsorbCovers
    <3>8. \A u \in Nat : Covered(F[s], u) <=> Covered(s, u)
      BY <3>2, <3>5, <3>7, CoveredByEither
    <3> QED BY <3>1, <3>7, <3>8
  <2> QED BY <2>1, <2>2
<1>7. P \in T
  <2> HIDE DEF T
  <2> QED BY <1>1, <1>6, SetInduction
<1> QED BY <1>5, <1>7

(* The instants at which a lot's clock runs are finitely many.             *)
LEMMA RunsAreFinite ==
    ASSUME NEW M, NEW a \in Int, NEW t \in Int
    PROVE  /\ IsFiniteSet(RunsIn(M, a, t)) /\ Cardinality(RunsIn(M, a, t)) \in Nat
           /\ \A S \in SUBSET RunsIn(M, a, t) :
                Cardinality(S) \in Nat /\ Cardinality(S) <= Cardinality(RunsIn(M, a, t))
<1>1. IsFiniteSet(a..(t - 1))
  BY FS_Interval
<1>2. RunsIn(M, a, t) \in SUBSET (a..(t - 1))
  BY DEF RunsIn
<1>3. IsFiniteSet(RunsIn(M, a, t))
  BY <1>1, <1>2, FS_Subset
<1> QED BY <1>3, FS_Subset, FS_CardinalityType

(* How many instants there are from a up to t.                             *)
LEMMA InstantsBetween ==
    ASSUME NEW a \in Int, NEW t \in Int, a <= t
    PROVE  IsFiniteSet(a..(t - 1)) /\ Cardinality(a..(t - 1)) = t - a
<1>1. t - 1 \in Int /\ (a > t - 1 => t - a = 0) /\ (t - 1) - a + 1 = t - a
  OBVIOUS
<1> QED BY <1>1, FS_Interval

(* Which they are.                                                         *)
LEMMA InRuns ==
    ASSUME NEW M, NEW a \in Nat, NEW t \in Nat, NEW u
    PROVE  u \in RunsIn(M, a, t) <=> u \in Nat /\ a <= u /\ u < t /\ ~Covered(M, u)
<1>1. u \in a..(t - 1) <=> u \in Nat /\ a <= u /\ u < t
  OBVIOUS
<1> QED BY <1>1 DEF RunsIn

(* Of a lot sold for exp - born instants: by its expiry its clock has run  *)
(* that long, at the last instant before it too; a frozen one never gets   *)
(* there.                                                                  *)
RunsFor(e, M, exp, born) ==
  /\ e.frozen => /\ \E m \in M : m.ended = Null
                 /\ \A t \in Nat : t >= born => Cardinality(RunsIn(M, born, t)) < exp - born
  /\ ~e.frozen => /\ e.at \in Nat /\ e.at > born /\ ~Covered(M, e.at - 1)
                  /\ Cardinality(RunsIn(M, born, e.at)) = exp - born

(* Before its last instant a lot has not run as long.                      *)
LEMMA RunsLess ==
    ASSUME NEW M, NEW born \in Nat, NEW at \in Nat, at > born, ~Covered(M, at - 1),
           NEW S, S \subseteq RunsIn(M, born, at) \ {at - 1}
    PROVE  Cardinality(S) \in Nat /\ Cardinality(S) < Cardinality(RunsIn(M, born, at))
<1> DEFINE R == RunsIn(M, born, at)
<1>1. IsFiniteSet(R) /\ Cardinality(R) \in Nat
  BY RunsAreFinite
<1>2. at - 1 \in R
  BY DEF RunsIn
<1>3. Cardinality(R \ {at - 1}) = Cardinality(R) - 1 /\ IsFiniteSet(R \ {at - 1})
  <2> HIDE DEF R
  <2> QED BY <1>1, <1>2, FS_RemoveElement
<1>4. Cardinality(S) \in Nat /\ Cardinality(S) <= Cardinality(R \ {at - 1})
  <2>1. S \in SUBSET (R \ {at - 1})
    OBVIOUS
  <2> HIDE DEF R
  <2>2. IsFiniteSet(S) /\ Cardinality(S) <= Cardinality(R \ {at - 1})
    BY <1>3, <2>1, FS_Subset
  <2> QED BY <2>2, FS_CardinalityType
<1> QED BY <1>1, <1>3, <1>4

(* A pause in the lifetime moves the expiry by what it holds up.           *)
LEMMA RunsAround ==
    ASSUME NEW r, NEW p \in Period, NEW born \in Nat, NEW at \in Nat, NEW n \in Int,
           p.ended # Null, p.started < p.ended, p.ended > born, Start(p, born) < at,
           \A m \in r : m.started \in Nat /\ m.ended \in Nat /\ m.ended # Null /\ m.ended < p.started,
           Cardinality(RunsIn(r, born, at)) = n
    PROVE  LET to == at + (p.ended - Start(p, born))
           IN  /\ to \in Nat /\ to > born /\ ~Covered(r \cup {p}, to - 1)
               /\ Cardinality(RunsIn(r \cup {p}, born, to)) = n
<1> DEFINE from == Start(p, born)
           to == at + (p.ended - from)
           before == RunsIn(r, born, from)
<1>1. p.started \in Nat /\ p.ended \in Nat /\ Null = -1
  BY PeriodIs
<1>2. from \in Nat /\ from >= born /\ from >= p.started /\ from < p.ended /\ from \in {born, p.started}
  BY <1>1 DEF Start
<1>3. to \in Nat /\ to > p.ended /\ to > born
  BY <1>1, <1>2
<1>4. ASSUME NEW u \in Nat, u >= p.started PROVE ~Covered(r, u)
  BY <1>1, <1>4 DEF Covered
<1>5. ASSUME NEW u \in Nat PROVE Covered(r \cup {p}, u) <=> Covered(r, u) \/ (p.started <= u /\ u < p.ended)
  BY <1>1 DEF Covered
<1> HIDE DEF from, to
<1>6. ~Covered(r \cup {p}, to - 1)
  <2>1. to - 1 \in Nat /\ to - 1 >= p.ended /\ to - 1 >= p.started
    BY <1>1, <1>2, <1>3
  <2> QED BY <1>1, <1>4, <1>5, <2>1
<1>7. RunsIn(r, born, at) = before \cup from..(at - 1)
  BY <1>1, <1>2, <1>4 DEF RunsIn, from
<1>8. RunsIn(r \cup {p}, born, to) = before \cup p.ended..(to - 1)
  <2>1. ASSUME NEW u \in RunsIn(r \cup {p}, born, to) PROVE u \in before \cup p.ended..(to - 1)
    <3>0. u \in Nat /\ born <= u /\ u < to /\ ~Covered(r \cup {p}, u)
      BY <1>3, <2>1, InRuns
    <3>1. u \in Nat /\ born <= u /\ u <= to - 1 /\ ~Covered(r, u) /\ ~(p.started <= u /\ u < p.ended)
      BY <1>3, <1>5, <3>0
    <3>2. u < from => u \in before
      BY <1>1, <1>2, <3>1 DEF RunsIn
    <3>3. u >= from => u \in p.ended..(to - 1)
      BY <1>1, <1>2, <1>3, <3>1
    <3> HIDE DEF before
    <3> QED BY <1>2, <3>1, <3>2, <3>3
  <2>2. ASSUME NEW u \in before PROVE u \in RunsIn(r \cup {p}, born, to)
    <3>1. u \in Nat /\ born <= u /\ u <= from - 1 /\ ~Covered(r, u)
      BY <1>2, <2>2 DEF RunsIn
    <3>2. u < p.started /\ u <= to - 1
      BY <1>1, <1>2, <1>3, <3>1
    <3>3. ~Covered(r \cup {p}, u) /\ u < to
      BY <1>1, <1>3, <1>5, <3>1, <3>2
    <3> QED BY <1>3, <3>1, <3>3, InRuns
  <2>3. ASSUME NEW u \in p.ended..(to - 1) PROVE u \in RunsIn(r \cup {p}, born, to)
    <3>1. u \in Nat /\ u >= p.ended /\ u >= p.started /\ u >= born /\ u <= to - 1
      BY <1>1, <1>2, <1>3, <2>3
    <3>2. ~Covered(r \cup {p}, u) /\ u < to
      BY <1>1, <1>3, <1>4, <1>5, <3>1
    <3> QED BY <1>3, <3>1, <3>2, InRuns
  <2> HIDE DEF before
  <2> QED BY <2>1, <2>2, <2>3
<1>9. IsFiniteSet(before) /\ Cardinality(before) \in Nat
  BY <1>2, RunsAreFinite
<1>10. before \cap from..(at - 1) = {} /\ before \cap p.ended..(to - 1) = {}
  BY <1>1, <1>2 DEF RunsIn
<1> HIDE DEF before
<1>11. /\ IsFiniteSet(from..(at - 1)) /\ Cardinality(from..(at - 1)) = at - from
       /\ IsFiniteSet(p.ended..(to - 1)) /\ Cardinality(p.ended..(to - 1)) = to - p.ended
  <2>1. from <= at
    BY <1>2 DEF from
  <2>2. p.ended <= to
    BY <1>1, <1>3
  <2>3. IsFiniteSet(from..(at - 1)) /\ Cardinality(from..(at - 1)) = at - from
    <3>1. from \in Int /\ at \in Int
      BY <1>2
    <3> HIDE <1>2
    <3> QED BY <2>1, <3>1, InstantsBetween
  <2>4. IsFiniteSet(p.ended..(to - 1)) /\ Cardinality(p.ended..(to - 1)) = to - p.ended
    BY <1>1, <1>3, <2>2, InstantsBetween
  <2> QED BY <2>3, <2>4
<1>12. /\ Cardinality(RunsIn(r, born, at)) = Cardinality(before) + (at - from)
       /\ Cardinality(RunsIn(r \cup {p}, born, to)) = Cardinality(before) + (to - p.ended)
  <2>1. ASSUME NEW T, IsFiniteSet(T), before \cap T = {}
        PROVE  Cardinality(before \cup T) = Cardinality(before) + Cardinality(T)
    <3>1. Cardinality(before \cup T) = Cardinality(before) + Cardinality(T) - Cardinality(before \cap T)
      BY <1>9, <2>1, FS_Union
    <3>2. Cardinality(before \cap T) = 0
      BY <2>1, FS_EmptySet
    <3>3. Cardinality(T) \in Nat
      BY <2>1, FS_CardinalityType
    <3> QED BY <1>9, <3>1, <3>2, <3>3
  <2>2. Cardinality(before \cup from..(at - 1)) = Cardinality(before) + Cardinality(from..(at - 1))
    BY <1>10, <1>11, <2>1
  <2>3. Cardinality(before \cup p.ended..(to - 1)) = Cardinality(before) + Cardinality(p.ended..(to - 1))
    BY <1>10, <1>11, <2>1
  <2> QED BY <1>7, <1>8, <1>11, <2>2, <2>3
<1>13. to - p.ended = at - from
  BY <1>1, <1>2 DEF to
<1> QED BY <1>3, <1>6, <1>12, <1>13 DEF to, from

(* One more merged period, behind the others.                              *)
LEMMA ShiftRuns ==
    ASSUME NEW r, IsFiniteSet(r), NEW p \in Period, NEW exp \in Nat, NEW born \in Nat, born < exp,
           NEW e \in Expiries, p.ended # Null => p.started < p.ended,
           \A m \in r : m.started \in Nat /\ m.ended \in Nat /\ m.ended # Null /\ m.ended < p.started,
           RunsFor(e, r, exp, born)
    PROVE  RunsFor(ShiftBy(p, born, e), r \cup {p}, exp, born)
<1> DEFINE f == ShiftBy(p, born, e)
           s == r \cup {p}
<1>1. p.started \in Nat /\ p.ended \in Nat \cup {Null} /\ Null = -1 /\ Start(p, born) \in Nat
      /\ Start(p, born) >= p.started /\ Start(p, born) >= born /\ Start(p, born) \in {born, p.started}
  BY PeriodIs DEF Start
<1>2. ~e.frozen /\ e.at \in Nat /\ e.at > born /\ ~Covered(r, e.at - 1)
      /\ Cardinality(RunsIn(r, born, e.at)) = exp - born
  BY DEF RunsFor
<1>3. \A u \in Nat : Covered(s, u) <=> Covered(r, u) \/ (p.started <= u /\ (p.ended = Null \/ u < p.ended))
  BY DEF Covered
<1>4. ASSUME f = e,
             \A u \in Nat : born <= u /\ u < e.at => (Covered(s, u) <=> Covered(r, u))
      PROVE  RunsFor(f, s, exp, born)
  <2>1. RunsIn(s, born, e.at) = RunsIn(r, born, e.at)
    <3> HIDE DEF s, f
    <3>1. ASSUME NEW u PROVE u \in RunsIn(s, born, e.at) <=> u \in RunsIn(r, born, e.at)
      BY <1>2, <1>4, InRuns
    <3> QED BY <3>1 DEF RunsIn
  <2>2. e.at - 1 \in Nat /\ born <= e.at - 1 /\ e.at - 1 < e.at
    BY <1>2
  <2>3. ~Covered(s, e.at - 1)
    BY <1>2, <1>4, <2>2
  <2> HIDE DEF f, s
  <2> QED BY <1>2, <1>4, <2>1, <2>3 DEF RunsFor
<1>5. CASE Start(p, born) >= e.at
  <2>1. f = e
    BY <1>5, ShiftIs
  <2>2. \A u \in Nat : u < e.at => u < p.started
    BY <1>1, <1>2, <1>5
  <2>3. \A u \in Nat : u < e.at => (Covered(s, u) <=> Covered(r, u))
    BY <1>1, <1>3, <2>2
  <2> QED BY <1>4, <2>1, <2>3
<1>6. CASE Start(p, born) < e.at /\ p.ended = Null
  <2>1. f = [at |-> Null, frozen |-> TRUE]
    BY <1>2, <1>6, ShiftIs
  <2>2. ASSUME NEW t \in Nat, t >= born PROVE Cardinality(RunsIn(s, born, t)) < exp - born
    <3>1. RunsIn(s, born, t) \subseteq RunsIn(r, born, e.at) \ {e.at - 1}
      <4>1. ASSUME NEW u \in RunsIn(s, born, t) PROVE u \in RunsIn(r, born, e.at) \ {e.at - 1}
        <5>1. u \in Nat /\ born <= u /\ ~Covered(r, u) /\ u < p.started
          BY <1>1, <1>3, <1>6, <2>2, <4>1 DEF RunsIn
        <5>2. u <= e.at - 1 /\ u # e.at - 1
          BY <1>1, <1>2, <1>6, <5>1
        <5> QED BY <1>2, <5>1, <5>2 DEF RunsIn
      <4> QED BY <4>1
    <3>2. Cardinality(RunsIn(s, born, t)) < Cardinality(RunsIn(r, born, e.at))
      <4> HIDE DEF s
      <4> QED BY <1>2, <3>1, RunsLess
    <3> QED BY <1>2, <3>2
  <2>3. \E m \in s : m.ended = Null
    BY <1>6
  <2> HIDE DEF s, f
  <2>4. f.frozen = TRUE
    BY <2>1
  <2>5. RunsFor(f, s, exp, born)
    BY <2>2, <2>3, <2>4 DEF RunsFor
  <2> QED BY <2>5 DEF f, s
<1>7. CASE Start(p, born) < e.at /\ p.ended # Null /\ p.ended <= born
  <2>1. f = e
    BY <1>2, <1>7, ShiftIs
  <2>2. \A u \in Nat : born <= u => (Covered(s, u) <=> Covered(r, u))
    BY <1>1, <1>3, <1>7
  <2> QED BY <1>4, <2>1, <2>2
<1>8. CASE Start(p, born) < e.at /\ p.ended # Null /\ p.ended > born
  <2> DEFINE to == e.at + (p.ended - Start(p, born))
  <2>1. f = [at |-> to, frozen |-> FALSE]
    BY <1>2, <1>8, ShiftIs
  <2>2. exp - born \in Int
    OBVIOUS
  <2>3. to \in Nat /\ to > born /\ ~Covered(s, to - 1) /\ Cardinality(RunsIn(s, born, to)) = exp - born
    BY <1>2, <1>8, <2>2, RunsAround
  <2> HIDE DEF s, f, to
  <2>4. f.at = to /\ f.frozen = FALSE
    BY <2>1
  <2>5. RunsFor(f, s, exp, born)
    BY <2>3, <2>4 DEF RunsFor
  <2> QED BY <2>5 DEF f, s
<1> QED BY <1>1, <1>2, <1>5, <1>6, <1>7, <1>8

(* A lot that is alive when it is born.                                    *)
LEMMA ShiftedRuns ==
    ASSUME NEW M, Apart(M), NEW exp \in Nat, NEW born \in Nat, born < exp
    PROVE  RunsFor(Shifted(exp, M, born), M, exp, born) /\ Shifted(exp, M, born) \in Expiries
<1>1. IsFiniteSet(M) /\ M \subseteq Period /\ \A m \in M : m.ended # Null => m.started < m.ended
  BY DEF Apart, Lasting
<1>2. PICK F : ShiftsOf(M, exp, born, F) /\ Shifted(exp, M, born) = F[M]
  BY <1>1, ShiftIsFold
<1> DEFINE T == {s \in SUBSET M : F[s] \in Expiries /\ RunsFor(F[s], s, exp, born)}
<1>3. ASSUME NEW s \in SUBSET M, \A r \in SUBSET s : r # s => r \in T PROVE s \in T
  <2>1. CASE s = {}
    <3>1. F[s] = [at |-> exp, frozen |-> FALSE]
      BY <1>2, <2>1 DEF ShiftsOf
    <3>2. RunsIn({}, born, exp) = born..(exp - 1) /\ ~Covered({}, exp - 1)
      BY DEF RunsIn, Covered
    <3>3. Cardinality(born..(exp - 1)) = exp - born
      BY InstantsBetween
    <3>4. RunsFor([at |-> exp, frozen |-> FALSE], {}, exp, born)
      BY <3>2, <3>3 DEF RunsFor
    <3>5. [at |-> exp, frozen |-> FALSE] \in Expiries
      BY DEF Expiries
    <3> QED BY <2>1, <3>1, <3>4, <3>5
  <2>2. CASE s # {}
    <3> DEFINE p == LatestStarted(s)
               r == s \ {p}
    <3>0. IsFiniteSet(s) /\ s \subseteq Period
      BY <1>1, FS_Subset
    <3>1. p \in s /\ \A q \in s : q.started <= p.started
      BY <2>2, <3>0, LatestOf
    <3>2. r \in T /\ s = r \cup {p} /\ IsFiniteSet(r)
      BY <1>3, <3>0, <3>1, FS_Subset
    <3>3. F[s] = ShiftBy(p, born, F[r])
      BY <1>2, <2>2 DEF ShiftsOf
    <3>4. p \in Period /\ (p.ended # Null => p.started < p.ended)
      BY <1>1, <3>1
    <3>5. ASSUME NEW m \in r
          PROVE  m.started \in Nat /\ m.ended \in Nat /\ m.ended # Null /\ m.ended < p.started
      <4>1. m \in M /\ p \in M /\ m # p /\ m \in s
        BY <3>1, <3>5
      <4> HIDE DEF p, r
      <4>2. \/ m.ended # Null /\ m.ended < p.started
            \/ p.ended # Null /\ p.ended < m.started
        BY <4>1 DEF Apart
      <4>3. /\ m.started \in Nat /\ m.ended \in Nat \cup {Null} /\ m.started <= p.started
            /\ p.started \in Nat /\ p.ended \in Nat \cup {Null} /\ Null = -1
        BY <1>1, <3>1, <4>1, PeriodIs
      <4> QED BY <3>4, <4>2, <4>3
    <3> HIDE DEF p, r
    <3>6. F[r] \in Expiries /\ RunsFor(F[r], r, exp, born)
      BY <3>2
    <3>7. RunsFor(F[s], r \cup {p}, exp, born)
      BY <3>2, <3>3, <3>4, <3>5, <3>6, ShiftRuns
    <3>8. F[s] \in Expiries
      BY <3>3, <3>4, <3>6, ShiftIs
    <3> QED BY <3>2, <3>7, <3>8
  <2> QED BY <2>1, <2>2
<1>4. M \in T
  <2> HIDE DEF T
  <2> QED BY <1>1, <1>3, SetInduction
<1> QED BY <1>2, <1>4

(* A lot that is born expired stays so.                                    *)
LEMMA BornExpired ==
    ASSUME NEW M, IsFiniteSet(M), M \subseteq Period, NEW exp \in Nat, NEW born \in Nat, exp <= born
    PROVE  Shifted(exp, M, born) = [at |-> exp, frozen |-> FALSE]
<1>1. PICK F : ShiftsOf(M, exp, born, F) /\ Shifted(exp, M, born) = F[M]
  BY ShiftIsFold
<1> DEFINE e == [at |-> exp, frozen |-> FALSE]
           T == {s \in SUBSET M : F[s] = e}
<1>2. e \in Expiries /\ e.at = exp
  BY DEF Expiries
<1>3. ASSUME NEW s \in SUBSET M, \A r \in SUBSET s : r # s => r \in T PROVE s \in T
  <2>1. CASE s = {}
    BY <1>1, <2>1 DEF ShiftsOf
  <2>2. CASE s # {}
    <3> DEFINE p == LatestStarted(s)
    <3>1. p \in s /\ p \in Period
      BY <2>2, LatestOf, FS_Subset
    <3>2. F[s \ {p}] = e
      BY <1>3, <3>1
    <3>3. F[s] = ShiftBy(p, born, F[s \ {p}])
      BY <1>1, <2>2 DEF ShiftsOf
    <3> HIDE DEF p, e
    <3>4. Start(p, born) >= e.at
      BY <1>2, <3>1, PeriodIs DEF Start
    <3>5. ShiftBy(p, born, e) = e
      BY <1>2, <3>1, <3>4, ShiftIs
    <3> QED BY <3>2, <3>3, <3>5
  <2> QED BY <2>1, <2>2
<1>4. M \in T
  <2> HIDE DEF T
  <2> QED BY <1>3, SetInduction
<1> QED BY <1>1, <1>4

(* The lots and pauses there are.                                          *)
LotTypeOK ==
  /\ lotBorn \in 0..Horizon /\ lotExp \in 0..Horizon
  /\ IsFiniteSet(lotPauses) /\ lotPauses \subseteq PauseHistory

(* A lot whose clock runs at its last instant has ended within LatestEnd.  *)
LEMMA EndsInTime ==
    ASSUME LotTypeOK, lotBorn < lotExp, NEW at \in Nat, at > lotBorn, ~Covered(lotPauses, at - 1),
           Cardinality(RunsIn(lotPauses, lotBorn, at)) = lotExp - lotBorn
    PROVE  at <= LatestEnd
<1>1. /\ Horizon \in Nat /\ lotBorn \in Nat /\ lotExp \in Nat /\ lotExp <= Horizon
      /\ LatestEnd = 2 * Horizon
  BY HorizonAssumption DEF LotTypeOK, LatestEnd
<1>2. SUFFICES ASSUME at > Horizon PROVE at <= LatestEnd
  BY <1>1
<1>3. ASSUME NEW u \in Nat, u >= Horizon PROVE ~Covered(lotPauses, u)
  <2>1. ASSUME NEW p \in lotPauses PROVE p.ended \in 0..Horizon
    <3>1. p.started \in 0..Horizon /\ p.ended \in 0..Horizon \cup {Null}
      BY <2>1 DEF LotTypeOK, PauseHistory
    <3>2. p.ended # Null
      BY <1>1, <1>2, <2>1, <3>1 DEF Covered
    <3> QED BY <3>1, <3>2
  <2> QED BY <1>1, <1>3, <2>1 DEF Covered, Null
<1>4. Horizon..(at - 1) \in SUBSET RunsIn(lotPauses, lotBorn, at)
  <2>1. ASSUME NEW u \in Horizon..(at - 1) PROVE u \in RunsIn(lotPauses, lotBorn, at)
    <3>1. u \in Nat /\ u >= Horizon /\ lotBorn <= u /\ u < at
      BY <1>1, <2>1
    <3> QED BY <1>1, <1>3, <3>1, InRuns
  <2> QED BY <2>1
<1>5. Cardinality(Horizon..(at - 1)) = at - Horizon
  BY <1>1, <1>2, InstantsBetween
<1>6. Cardinality(Horizon..(at - 1)) <= Cardinality(RunsIn(lotPauses, lotBorn, at))
  <2>1. lotBorn \in Int /\ at \in Int
    BY <1>1
  <2> QED BY <1>4, <2>1, RunsAreFinite
<1> QED BY <1>1, <1>5, <1>6

(* The clock that runs is the fold's.                                      *)
LEMMA ClockRuns ==
    ASSUME LotTypeOK
    PROVE  LET M == MergePauses(lotPauses)
           IN  /\ Apart(M) /\ EffectiveExpiry(lotExp, lotPauses, lotBorn) = Shifted(lotExp, M, lotBorn)
               /\ \A u \in Nat : Covered(M, u) <=> Covered(lotPauses, u)
               /\ \A t : RunsIn(M, lotBorn, t) = RunsIn(lotPauses, lotBorn, t)
<1> DEFINE M == MergePauses(lotPauses)
<1>1. lotBorn \in Nat /\ lotExp \in Nat
  BY HorizonAssumption DEF LotTypeOK
<1>2. Lasting(lotPauses)
  <2>1. ASSUME NEW p \in lotPauses PROVE p \in Period /\ (p.ended # Null => p.started < p.ended)
    BY HorizonAssumption DEF LotTypeOK, PauseHistory, Period
  <2> QED BY <2>1 DEF LotTypeOK, Lasting
<1>3. Apart(M) /\ \A u \in Nat : Covered(M, u) <=> Covered(lotPauses, u)
  BY <1>2, MergesCover
<1>4. EffectiveExpiry(lotExp, lotPauses, lotBorn) = Shifted(lotExp, M, lotBorn)
  BY <1>1, ExpiryIsShifted
<1> HIDE DEF M
<1>5. ASSUME NEW t PROVE RunsIn(M, lotBorn, t) = RunsIn(lotPauses, lotBorn, t)
  <2>1. \A u \in lotBorn..(t - 1) : Covered(M, u) <=> Covered(lotPauses, u)
    <3>1. \A u \in lotBorn..(t - 1) : u \in Nat
      BY <1>1
    <3> QED BY <1>3, <3>1
  <2> QED BY <2>1 DEF RunsIn
<1> QED BY <1>3, <1>4, <1>5 DEF M

(* What effectiveExpiry computes for one lot and its pauses.               *)
LEMMA ExpiryRuns ==
    ASSUME LotTypeOK
    PROVE  ExpiryIsRunningTime
<1> DEFINE eff == EffectiveExpiry(lotExp, lotPauses, lotBorn)
           M == MergePauses(lotPauses)
<1>1. lotBorn \in Nat /\ lotExp \in Nat
  BY HorizonAssumption DEF LotTypeOK
<1>2. Apart(M) /\ eff = Shifted(lotExp, M, lotBorn)
      /\ (\A u \in Nat : Covered(M, u) <=> Covered(lotPauses, u))
      /\ \A t : RunsIn(M, lotBorn, t) = RunsIn(lotPauses, lotBorn, t)
  BY ClockRuns
<1> HIDE DEF eff, M
<1>3. CASE lotExp <= lotBorn
  <2>1. eff = [at |-> lotExp, frozen |-> FALSE]
    BY <1>1, <1>2, <1>3, BornExpired DEF Apart, Lasting
  <2> QED BY <1>3, <2>1 DEF ExpiryIsRunningTime, eff
<1>4. CASE ~(lotExp <= lotBorn)
  <2>1. lotBorn < lotExp
    BY <1>1, <1>4
  <2>2. RunsFor(eff, M, lotExp, lotBorn) /\ eff \in Expiries
    BY <1>1, <1>2, <2>1, ShiftedRuns
  <2>3. eff.at \in Int /\ eff.frozen \in BOOLEAN /\ eff = [at |-> eff.at, frozen |-> eff.frozen]
    BY <2>2 DEF Expiries
  <2>4. CASE eff.frozen
    <3>1. \A t \in Nat : t >= lotBorn => Cardinality(RunsIn(lotPauses, lotBorn, t)) < lotExp - lotBorn
      BY <1>2, <2>2, <2>4 DEF RunsFor
    <3>2. ASSUME NEW t \in lotBorn..LatestEnd PROVE ~HasRun(t)
      <4>1. t \in Nat /\ t >= lotBorn
        BY <1>1, <3>2
      <4>2. Cardinality(RunsIn(lotPauses, lotBorn, t)) \in Nat
        BY <1>1, <4>1, RunsAreFinite
      <4> QED BY <1>1, <3>1, <4>1, <4>2 DEF HasRun
    <3> QED BY <1>4, <2>4, <3>2 DEF ExpiryIsRunningTime, eff
  <2>5. CASE ~eff.frozen
    <3> DEFINE at == eff.at
               Ends(t) == HasRun(t) /\ \A u \in lotBorn..(t - 1) : ~HasRun(u)
    <3>1. /\ at \in Nat /\ at > lotBorn /\ ~Covered(lotPauses, at - 1)
          /\ Cardinality(RunsIn(lotPauses, lotBorn, at)) = lotExp - lotBorn
      <4>1. /\ at \in Nat /\ at > lotBorn /\ ~Covered(M, at - 1)
            /\ Cardinality(RunsIn(M, lotBorn, at)) = lotExp - lotBorn
        BY <2>2, <2>5 DEF RunsFor
      <4>2. at - 1 \in Nat
        BY <1>1, <4>1
      <4> QED BY <1>2, <4>1, <4>2
    <3> HIDE DEF at
    <3>2. HasRun(at)
      BY <1>1, <3>1 DEF HasRun
    <3>3. ASSUME NEW u \in lotBorn..(at - 1) PROVE ~HasRun(u)
      <4>1. RunsIn(lotPauses, lotBorn, u) \subseteq RunsIn(lotPauses, lotBorn, at) \ {at - 1}
        BY <1>1, <3>1, <3>3 DEF RunsIn
      <4>2. /\ Cardinality(RunsIn(lotPauses, lotBorn, u)) \in Nat
            /\ Cardinality(RunsIn(lotPauses, lotBorn, u)) < Cardinality(RunsIn(lotPauses, lotBorn, at))
        BY <1>1, <3>1, <4>1, RunsLess
      <4> QED BY <1>1, <3>1, <4>2 DEF HasRun
    <3>4. at \in lotBorn..LatestEnd
      <4>1. at <= LatestEnd
        BY <2>1, <3>1, EndsInTime
      <4>2. LatestEnd \in Nat
        BY HorizonAssumption DEF LatestEnd
      <4> QED BY <1>1, <3>1, <4>1, <4>2
    <3>5. Ends(at)
      BY <3>2, <3>3
    <3>6. ASSUME NEW t \in lotBorn..LatestEnd, Ends(t) PROVE t = at
      <4>1. t \in Nat /\ t >= lotBorn
        BY <1>1, <3>6
      <4>2. t < at => t \in lotBorn..(at - 1)
        BY <1>1, <3>1, <4>1
      <4>3. at < t => at \in lotBorn..(t - 1)
        BY <1>1, <3>1, <4>1
      <4> QED BY <3>1, <3>2, <3>3, <3>6, <4>1, <4>2, <4>3
    <3>7. (CHOOSE t \in lotBorn..LatestEnd : Ends(t)) = at
      <4> HIDE DEF Ends
      <4> QED BY <3>4, <3>5, <3>6
    <3>8. eff = [at |-> at, frozen |-> FALSE]
      BY <2>3, <2>5 DEF at
    <3>9. eff = [at |-> CHOOSE t \in lotBorn..LatestEnd :
                          HasRun(t) /\ \A u \in lotBorn..(t - 1) : ~HasRun(u),
                 frozen |-> FALSE]
      BY <3>7, <3>8
    <3>10. \E t \in lotBorn..LatestEnd : HasRun(t)
      BY <3>2, <3>4
    <3> QED BY <1>4, <3>9, <3>10 DEF ExpiryIsRunningTime, eff
  <2> QED BY <2>3, <2>4, <2>5
<1> QED BY <1>3, <1>4

(* A lot expires at the first instant by which its clock has run for as    *)
(* long as it was sold for, and never while a pause stops the clock before *)
(* that, for any pauses, in any order, overlapping or touching (fold.ts,   *)
(* mergePauses and effectiveExpiry).                                       *)
THEOREM LotExpiryIsRunningTime == LotSpec => []ExpiryIsRunningTime
<1>1. LotInit => LotTypeOK
  BY FS_EmptySet DEF LotInit, LotTypeOK
<1>2. LotTypeOK /\ [LotNext]_lotVars => LotTypeOK'
  <2>1. LotTypeOK /\ AddPause => LotTypeOK'
    <3> SUFFICES ASSUME LotTypeOK, NEW p \in PauseHistory, lotPauses' = lotPauses \cup {p},
                        UNCHANGED <<lotBorn, lotExp>>
                 PROVE  LotTypeOK'
      BY DEF AddPause
    <3>1. IsFiniteSet(lotPauses \cup {p})
      BY FS_AddElement DEF LotTypeOK
    <3> QED BY <3>1 DEF LotTypeOK, PauseHistory
  <2>2. LotTypeOK /\ ClearPauses => LotTypeOK'
    BY FS_EmptySet DEF ClearPauses, LotTypeOK
  <2>3. LotTypeOK /\ UNCHANGED lotVars => LotTypeOK'
    BY DEF LotTypeOK, lotVars, PauseHistory
  <2> QED BY <2>1, <2>2, <2>3 DEF LotNext
<1> QED BY <1>1, <1>2, ExpiryRuns, PTL DEF LotSpec

-----------------------------------------------------------------------------
(***************************************************************************)
(* The replay is a fold over well formed rows in a total order: the last   *)
(* row is replayed after the replay of the others.                         *)
(***************************************************************************)

(* Rows as the writers leave them.                                         *)
RowsOK(R) ==
  /\ IsFiniteSet(R)
  /\ \A r \in R :
       /\ r.kind \in RowKinds /\ r.id \in Nat /\ r.at \in Nat /\ r.delta \in Int
       /\ r.exp \in Instants
       /\ ~IsLotRow(r) => r.delta < 0
       /\ r.kind = "expiry" => r.id = r.ref
  /\ \A q, r \in R : ReplayRank(q) = ReplayRank(r) /\ q.id = r.id => q = r

(* Ranks are numbers.                                                      *)
LEMMA RanksAre == \A r : ReplayRank(r) \in Nat
BY DEF ReplayRank

(* Some of well formed rows are well formed.                               *)
LEMMA SomeRowsOK == ASSUME NEW R, RowsOK(R), NEW s \in SUBSET R PROVE RowsOK(s)
BY FS_Subset DEF RowsOK

(* The replay has an order, and goes by it.                                *)
LEMMA ReplayOrder ==
    ASSUME NEW R, RowsOK(R)
    PROVE  /\ \A a, b \in R : a # b => ReplaysBefore(a, b) \/ ReplaysBefore(b, a)
           /\ \A a, b, c \in R : ReplaysBefore(a, b) /\ ReplaysBefore(b, c) => ReplaysBefore(a, c)
           /\ \A a, b \in R : ~(ReplaysBefore(a, b) /\ ReplaysBefore(b, a))
<1>1. \A r \in R : r.at \in Nat /\ r.id \in Nat /\ ReplayRank(r) \in Nat
  BY RanksAre DEF RowsOK
<1>2. \A q, r \in R : ReplayRank(q) = ReplayRank(r) /\ q.id = r.id => q = r
  BY DEF RowsOK
<1> QED BY <1>1, <1>2 DEF ReplaysBefore

(* The row that all others replay before is the last one.                  *)
LEMMA LastIs ==
    ASSUME NEW R, RowsOK(R), NEW x \in R, \A q \in R \ {x} : ReplaysBefore(q, x)
    PROVE  LastReplayed(R) = x
<1>1. \A r \in R : (\A q \in R \ {r} : ReplaysBefore(q, r)) => r = x
  BY ReplayOrder
<1> QED BY <1>1 DEF LastReplayed

(* ... and there is one.                                                   *)
LEMMA LastOfRows ==
    ASSUME NEW R, RowsOK(R), R # {}
    PROVE  /\ LastReplayed(R) \in R
           /\ \A q \in R \ {LastReplayed(R)} : ReplaysBefore(q, LastReplayed(R))
<1> DEFINE O == {z \in R \X R : ReplaysBefore(z[1], z[2])}
<1>1. \A a, b \in R : <<a, b>> \in O <=> ReplaysBefore(a, b)
  OBVIOUS
<1> HIDE DEF O
<1>2. /\ \A a, b \in R : a # b => <<a, b>> \in O \/ <<b, a>> \in O
      /\ \A a, b, c \in R : <<a, b>> \in O /\ <<b, c>> \in O => <<a, c>> \in O
  BY <1>1, ReplayOrder
<1>3. \A s \in SUBSET R : s # {} => \E m \in s : \A q \in s \ {m} : <<q, m>> \in O
  BY <1>2, LastExists DEF RowsOK
<1>4. PICK m \in R : \A q \in R \ {m} : ReplaysBefore(q, m)
  BY <1>1, <1>3
<1> QED BY <1>4 DEF LastReplayed

(* The replay is a fold.                                                   *)
ReplaysOf(U, P, F) ==
  F = [s \in SUBSET U |-> IF s = {} THEN EmptyReplay
                                ELSE Replay(LastReplayed(s), F[s \ {LastReplayed(s)}], P)]

(* Replaying, row after row, is defined on every set of rows.              *)
LEMMA ReplaysExist ==
    ASSUME NEW U, RowsOK(U), NEW P
    PROVE  \E F : ReplaysOf(U, P, F)
<1> DEFINE NextReplay(F, s) == IF s = {} THEN EmptyReplay
                               ELSE Replay(LastReplayed(s), F[s \ {LastReplayed(s)}], P)
           Part(n, F) == F = [s \in Small(U, n) |-> NextReplay(F, s)]
           T == {n \in Nat : \E F : Part(n, F)}
<1> IsFiniteSet(U)
  BY DEF RowsOK
<1>0. ASSUME NEW n \in Nat, NEW s \in Small(U, n + 1), s # {}
      PROVE  s \ {LastReplayed(s)} \in Small(U, n)
  <2>1. s \in SUBSET U /\ LastReplayed(s) \in s /\ Cardinality(s) <= n + 1
    BY <1>0, LastOfRows, SomeRowsOK DEF Small
  <2>2. IsFiniteSet(s)
    BY <2>1, FS_Subset
  <2>3. Cardinality(s) \in Nat /\ Cardinality(s \ {LastReplayed(s)}) = Cardinality(s) - 1
    BY <2>1, <2>2, FS_CardinalityType, FS_RemoveElement
  <2> QED BY <2>1, <2>3 DEF Small
<1>1. 0 \in T
  <2>1. Small(U, 0) = {{}}
    BY SmallestOnes
  <2> DEFINE F == [s \in Small(U, 0) |-> EmptyReplay]
  <2>2. Part(0, F)
    BY <2>1
  <2> QED BY <2>2
<1>2. ASSUME NEW n \in Nat, n \in T PROVE n + 1 \in T
  <2>1. PICK F : Part(n, F)
    BY <1>2
  <2> DEFINE G == [s \in Small(U, n + 1) |-> NextReplay(F, s)]
  <2>2. ASSUME NEW s \in Small(U, n + 1) PROVE NextReplay(F, s) = NextReplay(G, s)
    <3>1. CASE s = {}
      BY <3>1
    <3>2. CASE s # {}
      <4>1. s \ {LastReplayed(s)} \in Small(U, n)
        BY <1>0, <3>2
      <4>2. Small(U, n) \subseteq Small(U, n + 1)
        BY FS_CardinalityType, FS_Subset DEF Small
      <4>3. F[s \ {LastReplayed(s)}] = NextReplay(F, s \ {LastReplayed(s)})
        BY <2>1, <4>1
      <4>4. G[s \ {LastReplayed(s)}] = NextReplay(F, s \ {LastReplayed(s)})
        BY <4>1, <4>2
      <4> HIDE DEF G
      <4> QED BY <3>2, <4>3, <4>4
    <3> QED BY <3>1, <3>2
  <2>3. Part(n + 1, G)
    BY <2>2
  <2> HIDE DEF G
  <2>4. \E H : Part(n + 1, H)
    BY <2>3
  <2> HIDE DEF Part
  <2> QED BY <2>4
<1>3. Cardinality(U) \in T
  <2> HIDE DEF T
  <2> QED BY <1>1, <1>2, NatSets, FS_CardinalityType
<1>4. Small(U, Cardinality(U)) = SUBSET U
  BY FS_Subset DEF Small
<1> QED BY <1>3, <1>4 DEF ReplaysOf

(* ... and what it gives for a set does not depend on the rest.            *)
LEMMA ReplaysAgree ==
    ASSUME NEW U, RowsOK(U), NEW V \in SUBSET U, NEW P,
           NEW F, ReplaysOf(U, P, F), NEW G, ReplaysOf(V, P, G)
    PROVE  G[V] = F[V]
<1> DEFINE T == {s \in SUBSET V : G[s] = F[s]}
<1>1. ASSUME NEW s \in SUBSET V, \A r \in SUBSET s : r # s => r \in T PROVE s \in T
  <2>1. CASE s = {}
    BY <2>1 DEF ReplaysOf
  <2>2. CASE s # {}
    <3>1. LastReplayed(s) \in s
      BY <2>2, LastOfRows, SomeRowsOK
    <3>2. F[s \ {LastReplayed(s)}] = G[s \ {LastReplayed(s)}]
      BY <1>1, <3>1
    <3>3. F[s] = Replay(LastReplayed(s), F[s \ {LastReplayed(s)}], P)
      BY <2>2 DEF ReplaysOf
    <3>4. G[s] = Replay(LastReplayed(s), G[s \ {LastReplayed(s)}], P)
      BY <2>2 DEF ReplaysOf
    <3> QED BY <3>2, <3>3, <3>4
  <2> QED BY <2>1, <2>2
<1>2. IsFiniteSet(V)
  BY FS_Subset DEF RowsOK
<1>3. V \in T
  <2> HIDE DEF T
  <2> QED BY <1>1, <1>2, SetInduction
<1> QED BY <1>3

(* foldLedger is that fold.                                                *)
LEMMA ReplayIsFold ==
    ASSUME NEW U, RowsOK(U), NEW P
    PROVE  \E F : ReplaysOf(U, P, F) /\ ReplayAll(U, P) = F[U]
<1> DEFINE Iter == CHOOSE F : F = [s \in SUBSET U |->
             IF s = {} THEN EmptyReplay
             ELSE Replay(LastReplayed(s), F[s \ {LastReplayed(s)}], P)]
<1>1. ReplayAll(U, P) = Iter[U]
  BY DEF ReplayAll, MapThenFoldSet
<1>2. \E F : F = [s \in SUBSET U |->
             IF s = {} THEN EmptyReplay
             ELSE Replay(LastReplayed(s), F[s \ {LastReplayed(s)}], P)]
  <2>1. \E F : ReplaysOf(U, P, F)
    BY ReplaysExist
  <2> QED BY <2>1, Zenon DEF ReplaysOf
<1>3. Iter = [s \in SUBSET U |->
             IF s = {} THEN EmptyReplay
             ELSE Replay(LastReplayed(s), Iter[s \ {LastReplayed(s)}], P)]
  BY <1>2, Zenon
<1> HIDE DEF Iter
<1>4. ReplaysOf(U, P, Iter)
  BY <1>3, Zenon DEF ReplaysOf
<1> QED BY <1>1, <1>4

(* A replay is its last row replayed after the replay of the others.       *)
LEMMA ReplayUnfolds ==
    ASSUME NEW R, RowsOK(R), NEW P
    PROVE  /\ R = {} => ReplayAll(R, P) = EmptyReplay
           /\ R # {} => ReplayAll(R, P) = Replay(LastReplayed(R), ReplayAll(R \ {LastReplayed(R)}, P), P)
<1>1. PICK F : ReplaysOf(R, P, F) /\ ReplayAll(R, P) = F[R]
  BY ReplayIsFold
<1>2. CASE R = {}
  BY <1>1, <1>2 DEF ReplaysOf
<1>3. CASE R # {}
  <2> DEFINE Q == R \ {LastReplayed(R)}
  <2>1. Q \in SUBSET R /\ RowsOK(Q)
    BY SomeRowsOK
  <2> HIDE DEF Q
  <2>2. PICK G : ReplaysOf(Q, P, G) /\ ReplayAll(Q, P) = G[Q]
    BY <2>1, ReplayIsFold
  <2>3. G[Q] = F[Q]
    BY <1>1, <2>1, <2>2, ReplaysAgree
  <2>4. F[R] = Replay(LastReplayed(R), F[Q], P)
    BY <1>1, <1>3 DEF ReplaysOf, Q
  <2> QED BY <1>1, <1>3, <2>2, <2>3, <2>4 DEF Q
<1> QED BY <1>2, <1>3

(* The order lots are spent in.                                            *)
DateRank(l) == IF l.eff.at = Null THEN 1 ELSE 0
Date(l) == IF l.eff.at = Null THEN 0 ELSE l.eff.at

(* The five keys of the allocation order, spelled out.                     *)
LEMMA SpentBeforeIs ==
    ASSUME NEW a, NEW b
    PROVE  SpentBefore(a, b) <=>
             \/ DateRank(a) < DateRank(b)
             \/ DateRank(a) = DateRank(b) /\ Date(a) < Date(b)
             \/ DateRank(a) = DateRank(b) /\ Date(a) = Date(b) /\ a.at < b.at
             \/ /\ DateRank(a) = DateRank(b) /\ Date(a) = Date(b) /\ a.at = b.at
                /\ KindRank(a.kind) < KindRank(b.kind)
             \/ /\ DateRank(a) = DateRank(b) /\ Date(a) = Date(b) /\ a.at = b.at
                /\ KindRank(a.kind) = KindRank(b.kind) /\ a.id < b.id
<1> DEFINE key(l) == << IF l.eff.at = Null THEN 1 ELSE 0,
                        IF l.eff.at = Null THEN 0 ELSE l.eff.at,
                        l.at, KindRank(l.kind), l.id >>
<1>1. \A l : /\ key(l)[1] = DateRank(l) /\ key(l)[2] = Date(l) /\ key(l)[3] = l.at
             /\ key(l)[4] = KindRank(l.kind) /\ key(l)[5] = l.id
  BY DEF DateRank, Date
<1>2. SpentBefore(a, b) <=>
        \E i \in 1..5 : key(a)[i] < key(b)[i] /\ \A j \in 1..(i - 1) : key(a)[j] = key(b)[j]
  BY DEF SpentBefore
<1> HIDE DEF key
<1>3. 1..(1-1) = {} /\ 1..(2-1) = {1} /\ 1..(3-1) = {1,2} /\ 1..(4-1) = {1,2,3} /\ 1..(5-1) = {1,2,3,4} /\ 1..5 = {1,2,3,4,5}
  OBVIOUS
<1>4. SpentBefore(a, b) <=>
       \/ key(a)[1] < key(b)[1]
       \/ key(a)[2] < key(b)[2] /\ key(a)[1] = key(b)[1]
       \/ key(a)[3] < key(b)[3] /\ key(a)[1] = key(b)[1] /\ key(a)[2] = key(b)[2]
       \/ /\ key(a)[4] < key(b)[4] /\ key(a)[1] = key(b)[1] /\ key(a)[2] = key(b)[2]
          /\ key(a)[3] = key(b)[3]
       \/ /\ key(a)[5] < key(b)[5] /\ key(a)[1] = key(b)[1] /\ key(a)[2] = key(b)[2]
          /\ key(a)[3] = key(b)[3] /\ key(a)[4] = key(b)[4]
  <2> DEFINE Ahead(i) == key(a)[i] < key(b)[i] /\ \A j \in 1..(i - 1) : key(a)[j] = key(b)[j]
  <2>1. SpentBefore(a, b) <=> Ahead(1) \/ Ahead(2) \/ Ahead(3) \/ Ahead(4) \/ Ahead(5)
    BY <1>2, <1>3
  <2>2. Ahead(1) <=> key(a)[1] < key(b)[1]
    BY <1>3
  <2>3. Ahead(2) <=> key(a)[2] < key(b)[2] /\ key(a)[1] = key(b)[1]
    BY <1>3
  <2>4. Ahead(3) <=> key(a)[3] < key(b)[3] /\ key(a)[1] = key(b)[1] /\ key(a)[2] = key(b)[2]
    BY <1>3
  <2>5. Ahead(4) <=> key(a)[4] < key(b)[4] /\ key(a)[1] = key(b)[1] /\ key(a)[2] = key(b)[2] /\ key(a)[3] = key(b)[3]
    BY <1>3
  <2>6. Ahead(5) <=> key(a)[5] < key(b)[5] /\ key(a)[1] = key(b)[1] /\ key(a)[2] = key(b)[2] /\ key(a)[3] = key(b)[3] /\ key(a)[4] = key(b)[4]
    BY <1>3
  <2> HIDE DEF Ahead
  <2> QED BY <2>1, <2>2, <2>3, <2>4, <2>5, <2>6
<1> QED BY <1>1, <1>4

-----------------------------------------------------------------------------
(***************************************************************************)
(* Totals.                                                                 *)
(***************************************************************************)

(* Induction over a finite set, one element joining after the other.       *)
LEMMA AddInduction ==
    ASSUME NEW U, IsFiniteSet(U), NEW T, {} \in T,
           \A s \in SUBSET U, x \in U : s \in T /\ x \notin s => s \cup {x} \in T
    PROVE  U \in T
<1>1. ASSUME NEW s \in SUBSET U, \A r \in SUBSET s : r # s => r \in T PROVE s \in T
  <2>1. CASE s # {}
    <3>1. PICK x \in s : TRUE
      BY <2>1
    <3>2. s \ {x} \in T
      BY <1>1, <3>1
    <3>3. (s \ {x}) \cup {x} \in T
      BY <3>1, <3>2
    <3>4. (s \ {x}) \cup {x} = s
      BY <3>1
    <3> QED BY <3>3, <3>4
  <2> QED BY <2>1
<1> QED BY <1>1, SetInduction

(* Nothing adds up to nothing.                                             *)
LEMMA TotalEmpty == ASSUME NEW w PROVE Total(w, {}) = 0
BY FS_EmptySet, SumsOfNothing

(* An element that joins adds its weight.                                  *)
LEMMA TotalAdds ==
    ASSUME NEW U, IsFiniteSet(U), NEW w, \A y \in U : w[y] \in Int,
           NEW s \in SUBSET U, NEW x \in U, x \notin s
    PROVE  /\ Total(w, s \cup {x}) = Total(w, s) + w[x] /\ Total(w, s) \in Int
           /\ IsFiniteSet(s) /\ w[x] \in Int
<1>1. IsFiniteSet(s)
  BY FS_Subset
<1>2. \A y \in s \cup {x} : w[y] \in Int
  OBVIOUS
<1> QED BY <1>1, <1>2, SumsAdd

(* Whole weights add up to a whole number.                                 *)
LEMMA TotalInt ==
    ASSUME NEW U, IsFiniteSet(U), NEW w, \A y \in U : w[y] \in Int
    PROVE  Total(w, U) \in Int
<1> DEFINE T == {s \in SUBSET U : Total(w, s) \in Int}
<1>1. {} \in T
  BY TotalEmpty
<1>2. ASSUME NEW s \in SUBSET U, NEW x \in U, s \in T, x \notin s PROVE s \cup {x} \in T
  BY <1>2, TotalAdds
<1>3. U \in T
  <2> HIDE DEF T
  <2> QED BY <1>1, <1>2, AddInduction
<1> QED BY <1>3

(* ... and natural ones to a natural number.                               *)
LEMMA TotalNat ==
    ASSUME NEW U, IsFiniteSet(U), NEW w, \A y \in U : w[y] \in Nat
    PROVE  Total(w, U) \in Nat
<1> DEFINE T == {s \in SUBSET U : Total(w, s) \in Nat}
<1>1. {} \in T
  BY TotalEmpty
<1>2. ASSUME NEW s \in SUBSET U, NEW x \in U, s \in T, x \notin s PROVE s \cup {x} \in T
  BY <1>2, TotalAdds
<1>3. U \in T
  <2> HIDE DEF T
  <2> QED BY <1>1, <1>2, AddInduction
<1> QED BY <1>3

(* Weights that agree on a set add up to the same on it.                   *)
LEMMA TotalSame ==
    ASSUME NEW U, IsFiniteSet(U), NEW w, NEW v, \A y \in U : v[y] = w[y]
    PROVE  Total(v, U) = Total(w, U)
<1>1. PICK F : Sums(w, U, F) /\ Total(w, U) = F[U]
  BY TotalUnfolds
<1>2. PICK G : Sums(v, U, G) /\ Total(v, U) = G[U]
  BY TotalUnfolds
<1> QED BY <1>1, <1>2, SumsAgree

(* A total is the total of a part and that of the rest.                    *)
LEMMA TotalSplit ==
    ASSUME NEW U, IsFiniteSet(U), NEW V \in SUBSET U, NEW w, \A y \in U : w[y] \in Int
    PROVE  /\ Total(w, U) = Total(w, V) + Total(w, U \ V)
           /\ Total(w, U) \in Int /\ Total(w, V) \in Int /\ Total(w, U \ V) \in Int
<1> DEFINE W == U \ V
           T == {s \in SUBSET W : Total(w, V \cup s) = Total(w, V) + Total(w, s)}
<1>0. /\ IsFiniteSet(V) /\ IsFiniteSet(W) /\ W \subseteq U
      /\ \A s \in SUBSET W : IsFiniteSet(s)
  BY FS_Subset
<1>1. /\ Total(w, V) \in Int /\ Total(w, U) \in Int /\ Total(w, W) \in Int
      /\ \A s \in SUBSET W : Total(w, s) \in Int
  <2>1. (\A y \in V : w[y] \in Int) /\ (\A y \in W : w[y] \in Int)
    OBVIOUS
  <2> HIDE DEF W
  <2> QED BY <1>0, <2>1, TotalInt
<1>2. {} \in T
  BY <1>1, TotalEmpty
<1>3. ASSUME NEW s \in SUBSET W, NEW x \in W, s \in T, x \notin s PROVE s \cup {x} \in T
  <2>1. Total(w, s \cup {x}) = Total(w, s) + w[x] /\ w[x] \in Int
    BY <1>3, TotalAdds
  <2>2. Total(w, (V \cup s) \cup {x}) = Total(w, V \cup s) + w[x]
    <3> DEFINE q == V \cup s
    <3>1. q \in SUBSET U /\ x \in U /\ x \notin q
      BY <1>3
    <3> HIDE DEF W, T, q
    <3>2. Total(w, q \cup {x}) = Total(w, q) + w[x]
      BY <3>1, TotalAdds
    <3> QED BY <3>2 DEF q
  <2>3. (V \cup s) \cup {x} = V \cup (s \cup {x})
    OBVIOUS
  <2>4. Total(w, V \cup s) = Total(w, V) + Total(w, s)
    BY <1>3
  <2>5. Total(w, V \cup (s \cup {x})) = Total(w, V) + Total(w, s \cup {x})
    <3>1. Total(w, s) \in Int /\ Total(w, V) \in Int
      BY <1>1
    <3>2. Total(w, V \cup (s \cup {x})) = Total(w, V \cup s) + w[x]
      BY <2>2, <2>3
    <3> QED BY <2>1, <2>4, <3>1, <3>2
  <2> QED BY <1>3, <2>5
<1>4. W \in T
  <2> HIDE DEF T, W
  <2> QED BY <1>0, <1>2, <1>3, AddInduction
<1>5. V \cup W = U
  OBVIOUS
<1> QED BY <1>1, <1>4, <1>5

(* What weighs nothing may be left out.                                    *)
LEMMA TotalOfSome ==
    ASSUME NEW U, IsFiniteSet(U), NEW V \in SUBSET U, NEW w, \A y \in U : w[y] \in Int,
           \A y \in U \ V : w[y] = 0
    PROVE  Total(w, U) = Total(w, V)
<1>1. IsFiniteSet(U \ V)
  BY FS_Subset
<1>2. Total(w, U \ V) = 0
  BY <1>1, SumsOfNothing
<1>3. Total(w, U) = Total(w, V) + Total(w, U \ V) /\ Total(w, V) \in Int
  BY TotalSplit
<1> QED BY <1>2, <1>3

(* Differences add up to the difference.                                   *)
LEMMA TotalMinus ==
    ASSUME NEW U, IsFiniteSet(U), NEW w, NEW v, NEW u,
           \A y \in U : w[y] \in Int /\ v[y] \in Int /\ u[y] = w[y] - v[y]
    PROVE  Total(u, U) = Total(w, U) - Total(v, U)
<1> DEFINE T == {s \in SUBSET U : Total(u, s) = Total(w, s) - Total(v, s)}
<1>1. {} \in T
  BY TotalEmpty
<1>2. ASSUME NEW s \in SUBSET U, NEW x \in U, s \in T, x \notin s PROVE s \cup {x} \in T
  <2>0. \A y \in U : u[y] \in Int
    OBVIOUS
  <2>1. Total(u, s \cup {x}) = Total(u, s) + u[x]
    BY <1>2, <2>0, TotalAdds
  <2>2. Total(w, s \cup {x}) = Total(w, s) + w[x] /\ Total(w, s) \in Int
    BY <1>2, TotalAdds
  <2>3. Total(v, s \cup {x}) = Total(v, s) + v[x] /\ Total(v, s) \in Int
    BY <1>2, TotalAdds
  <2>4. Total(u, s) = Total(w, s) - Total(v, s)
    BY <1>2
  <2>5. w[x] \in Int /\ v[x] \in Int /\ u[x] = w[x] - v[x]
    OBVIOUS
  <2>6. Total(u, s \cup {x}) = Total(w, s \cup {x}) - Total(v, s \cup {x})
    BY <2>1, <2>2, <2>3, <2>4, <2>5
  <2> QED BY <1>2, <2>6
<1>3. U \in T
  <2> HIDE DEF T
  <2> QED BY <1>1, <1>2, AddInduction
<1> QED BY <1>3

(* The image of a finite set is finite.                                    *)
LEMMA ImageFinite ==
    ASSUME NEW U, IsFiniteSet(U), NEW h
    PROVE  IsFiniteSet({h[x] : x \in U})
<1> DEFINE im(s) == {h[x] : x \in s}
           S == {s \in SUBSET U : IsFiniteSet(im(s))}
<1>1. {} \in S
  <2>1. im({}) = {}
    OBVIOUS
  <2> QED BY <2>1, FS_EmptySet
<1>2. ASSUME NEW s \in SUBSET U, NEW x \in U, s \in S, x \notin s PROVE s \cup {x} \in S
  <2>1. im(s \cup {x}) = im(s) \cup {h[x]}
    OBVIOUS
  <2>2. IsFiniteSet(im(s))
    BY <1>2
  <2> HIDE DEF im
  <2>3. IsFiniteSet(im(s) \cup {h[x]})
    BY <2>2, FS_AddElement
  <2> QED BY <1>2, <2>1, <2>3
<1>3. U \in S
  <2> HIDE DEF S
  <2> QED BY <1>1, <1>2, AddInduction
<1> QED BY <1>3

(* The elements may be counted under other names.                          *)
LEMMA TotalRenamed ==
    ASSUME NEW U, IsFiniteSet(U), NEW h, \A x, y \in U : h[x] = h[y] => x = y,
           NEW w, NEW v, \A x \in U : v[x] \in Int /\ w[h[x]] = v[x]
    PROVE  Total(w, {h[x] : x \in U}) = Total(v, U)
<1> DEFINE im(s) == {h[x] : x \in s}
           T == {s \in SUBSET U : Total(w, im(s)) = Total(v, s)}
<1>0. IsFiniteSet(im(U))
  BY ImageFinite
<1>1. {} \in T
  <2>1. im({}) = {}
    OBVIOUS
  <2> QED BY <2>1, TotalEmpty
<1>2. ASSUME NEW s \in SUBSET U, NEW x \in U, s \in T, x \notin s PROVE s \cup {x} \in T
  <2>1. Total(v, s \cup {x}) = Total(v, s) + v[x]
    BY <1>2, TotalAdds
  <2>2. im(s \cup {x}) = im(s) \cup {h[x]}
    OBVIOUS
  <2>3. h[x] \in im(U) /\ h[x] \notin im(s) /\ im(s) \in SUBSET im(U)
    BY <1>2
  <2>4. \A y \in im(U) : w[y] \in Int
    OBVIOUS
  <2>5. w[h[x]] = v[x]
    OBVIOUS
  <2>6. Total(w, im(s)) = Total(v, s)
    BY <1>2
  <2> HIDE DEF im
  <2>7. Total(w, im(s) \cup {h[x]}) = Total(w, im(s)) + w[h[x]]
    BY <1>0, <2>3, <2>4, TotalAdds
  <2>8. Total(w, im(s \cup {x})) = Total(v, s \cup {x})
    BY <2>1, <2>2, <2>5, <2>6, <2>7
  <2> QED BY <1>2, <2>8
<1>3. U \in T
  <2> HIDE DEF T
  <2> QED BY <1>1, <1>2, AddInduction
<1> QED BY <1>3

-----------------------------------------------------------------------------
(***************************************************************************)
(* Lots seen through their rows: when each is over, in which order a spend *)
(* takes from them, and how much.                                          *)
(***************************************************************************)

(* Lots by the rows that made them.                                        *)
LotRows(R) == {r \in R : IsLotRow(r)}
Eff(r, P)  == EffectiveExpiry(r.exp, P, r.at)

(* The lot a row makes, with n left, closed or not.                        *)
LotAs(r, P, n, c) ==
  [id |-> r.id, kind |-> r.kind, at |-> r.at, remaining |-> n, closed |-> c, eff |-> Eff(r, P)]

(* The lots whose time has not come at t, and the order they are spent in. *)
Alive(R, P, t) == {r \in LotRows(R) : ~Over(Eff(r, P), t)}
SpentFirst(a, b, P) == SpentBefore(LotAs(a, P, 0, FALSE), LotAs(b, P, 0, FALSE))

(* A row's expiry is one.                                                  *)
LEMMA EffType ==
    ASSUME NEW R, RowsOK(R), NEW P, InOrder(P), NEW r \in R
    PROVE  /\ Eff(r, P) \in Expiries /\ Eff(r, P).at \in Instants /\ Eff(r, P).at \in Int
           /\ Eff(r, P).frozen => Eff(r, P).at = Null
<1>1. r.exp \in Instants /\ r.at \in Nat
  BY DEF RowsOK
<1>2. /\ Eff(r, P) \in Expiries /\ Eff(r, P).at \in Instants
      /\ Eff(r, P).frozen => Eff(r, P).at = Null
  BY <1>1, ExpiryType DEF Eff
<1> QED BY <1>2 DEF Instants, Null

(* A lot has a rank by its kind.                                           *)
LEMMA KindRanks == \A r : IsLotRow(r) => KindRank(r.kind) \in Nat
BY DEF IsLotRow, LotKinds, KindRank

(* The allocation order of two lots does not depend on what they hold.     *)
LEMMA SpentFirstIs ==
    ASSUME NEW a, NEW b, NEW P, NEW n, NEW m, NEW c, NEW d
    PROVE  /\ SpentFirst(a, b, P) <=>
                LET x == LotAs(a, P, 0, FALSE)
                    y == LotAs(b, P, 0, FALSE)
                IN  \/ DateRank(x) < DateRank(y)
                    \/ DateRank(x) = DateRank(y) /\ Date(x) < Date(y)
                    \/ DateRank(x) = DateRank(y) /\ Date(x) = Date(y) /\ a.at < b.at
                    \/ /\ DateRank(x) = DateRank(y) /\ Date(x) = Date(y) /\ a.at = b.at
                       /\ KindRank(a.kind) < KindRank(b.kind)
                    \/ /\ DateRank(x) = DateRank(y) /\ Date(x) = Date(y) /\ a.at = b.at
                       /\ KindRank(a.kind) = KindRank(b.kind) /\ a.id < b.id
           /\ SpentBefore(LotAs(a, P, n, c), LotAs(b, P, m, d)) <=> SpentFirst(a, b, P)
<1> DEFINE x == LotAs(a, P, 0, FALSE)
           y == LotAs(b, P, 0, FALSE)
           u == LotAs(a, P, n, c)
           v == LotAs(b, P, m, d)
<1>1. /\ x.at = a.at /\ x.kind = a.kind /\ x.id = a.id /\ x.eff = Eff(a, P)
      /\ u.at = a.at /\ u.kind = a.kind /\ u.id = a.id /\ u.eff = Eff(a, P)
  BY DEF LotAs
<1>2. /\ y.at = b.at /\ y.kind = b.kind /\ y.id = b.id /\ y.eff = Eff(b, P)
      /\ v.at = b.at /\ v.kind = b.kind /\ v.id = b.id /\ v.eff = Eff(b, P)
  BY DEF LotAs
<1> HIDE DEF x, y, u, v
<1>3. /\ DateRank(u) = DateRank(x) /\ Date(u) = Date(x)
      /\ DateRank(v) = DateRank(y) /\ Date(v) = Date(y)
  BY <1>1, <1>2 DEF DateRank, Date
<1>4. SpentFirst(a, b, P) <=> SpentBefore(x, y)
  BY DEF SpentFirst, x, y
<1>5. SpentBefore(x, y) <=>
                    \/ DateRank(x) < DateRank(y)
                    \/ DateRank(x) = DateRank(y) /\ Date(x) < Date(y)
                    \/ DateRank(x) = DateRank(y) /\ Date(x) = Date(y) /\ a.at < b.at
                    \/ /\ DateRank(x) = DateRank(y) /\ Date(x) = Date(y) /\ a.at = b.at
                       /\ KindRank(a.kind) < KindRank(b.kind)
                    \/ /\ DateRank(x) = DateRank(y) /\ Date(x) = Date(y) /\ a.at = b.at
                       /\ KindRank(a.kind) = KindRank(b.kind) /\ a.id < b.id
  BY <1>1, <1>2, SpentBeforeIs
<1>6. SpentBefore(u, v) <=> SpentBefore(x, y)
  BY <1>1, <1>2, <1>3, SpentBeforeIs
<1> QED BY <1>4, <1>5, <1>6 DEF x, y, u, v

(* The allocation order is total on the lots of well formed rows.          *)
LEMMA SpendOrder ==
    ASSUME NEW R, RowsOK(R), NEW P, InOrder(P)
    PROVE  /\ \A a, b \in LotRows(R) : a # b => SpentFirst(a, b, P) \/ SpentFirst(b, a, P)
           /\ \A a, b, c \in LotRows(R) : SpentFirst(a, b, P) /\ SpentFirst(b, c, P) => SpentFirst(a, c, P)
           /\ \A a, b \in LotRows(R) : ~(SpentFirst(a, b, P) /\ SpentFirst(b, a, P))
<1> DEFINE x(r) == LotAs(r, P, 0, FALSE)
<1>1. ASSUME NEW r \in LotRows(R)
      PROVE  DateRank(x(r)) \in Nat /\ Date(x(r)) \in Int /\ r.at \in Nat /\ KindRank(r.kind) \in Nat /\ r.id \in Nat
  <2>1. r \in R /\ IsLotRow(r)
    BY DEF LotRows
  <2>2. r.at \in Nat /\ r.id \in Nat /\ KindRank(r.kind) \in Nat
    BY <2>1, KindRanks DEF RowsOK
  <2>3. x(r).eff = Eff(r, P)
    BY DEF LotAs
  <2>4. Eff(r, P).at \in Int
    BY <2>1, EffType
  <2>5. x(r).eff.at \in Int
    BY <2>3, <2>4
  <2> HIDE DEF x
  <2>6. DateRank(x(r)) \in Nat /\ Date(x(r)) \in Int
    BY <2>5 DEF DateRank, Date
  <2> QED BY <2>2, <2>6
<1>2. ASSUME NEW a \in LotRows(R), NEW b \in LotRows(R), a.id = b.id PROVE a = b
  <2>1. a \in R /\ b \in R /\ ReplayRank(a) = 0 /\ ReplayRank(b) = 0
    BY DEF LotRows, ReplayRank
  <2> QED BY <1>2, <2>1 DEF RowsOK
<1> DEFINE dr == [r \in LotRows(R) |-> DateRank(x(r))]
           dt == [r \in LotRows(R) |-> Date(x(r))]
           kr == [r \in LotRows(R) |-> KindRank(r.kind)]
<1>3. ASSUME NEW a \in LotRows(R), NEW b \in LotRows(R)
      PROVE  SpentFirst(a, b, P) <=>
                    \/ dr[a] < dr[b]
                    \/ dr[a] = dr[b] /\ dt[a] < dt[b]
                    \/ dr[a] = dr[b] /\ dt[a] = dt[b] /\ a.at < b.at
                    \/ /\ dr[a] = dr[b] /\ dt[a] = dt[b] /\ a.at = b.at
                       /\ kr[a] < kr[b]
                    \/ /\ dr[a] = dr[b] /\ dt[a] = dt[b] /\ a.at = b.at
                       /\ kr[a] = kr[b] /\ a.id < b.id
  <2>1. dr[a] = DateRank(x(a)) /\ dr[b] = DateRank(x(b)) /\ dt[a] = Date(x(a)) /\ dt[b] = Date(x(b))
        /\ kr[a] = KindRank(a.kind) /\ kr[b] = KindRank(b.kind)
    OBVIOUS
  <2> HIDE DEF dr, dt, kr
  <2> QED BY <2>1, SpentFirstIs
<1>4. \A r \in LotRows(R) : dr[r] \in Nat /\ dt[r] \in Int /\ r.at \in Nat /\ kr[r] \in Nat /\ r.id \in Nat
  BY <1>1
<1> HIDE DEF dr, dt, kr, x
<1>5. \A a, b \in LotRows(R) : a # b => SpentFirst(a, b, P) \/ SpentFirst(b, a, P)
  BY <1>2, <1>3, <1>4
<1>6. \A a, b \in LotRows(R) : ~(SpentFirst(a, b, P) /\ SpentFirst(b, a, P))
  BY <1>3, <1>4
<1>7. ASSUME NEW a \in LotRows(R), NEW b \in LotRows(R), NEW c \in LotRows(R),
             SpentFirst(a, b, P), SpentFirst(b, c, P)
      PROVE  SpentFirst(a, c, P)
  BY <1>3, <1>4, <1>7
<1> QED BY <1>5, <1>6, <1>7

(* What there is of n in the first x.                                      *)
Clip(n, x) == IF x <= 0 THEN 0 ELSE IF x < n THEN x ELSE n

(* What the lots spent before q hold.                                      *)
AheadOf(q, R, P, left, t) == Total(left, {r \in Alive(R, P, t) : SpentFirst(r, q, P)})

(* What a spend of a at t takes from each lot: they are emptied one after  *)
(* the other.                                                              *)
Taken(R, P, left, a, t) ==
  [q \in LotRows(R) |-> IF q \in Alive(R, P, t) THEN Clip(left[q], a - AheadOf(q, R, P, left, t)) ELSE 0]

(* The smaller of two.                                                     *)
AtMost(a, b) == IF a < b THEN a ELSE b

(* Whoever is spent before one of V is one of V.                           *)
SpentTogether(V, R, P, t) ==
  /\ V \subseteq Alive(R, P, t)
  /\ \A r \in V, q \in Alive(R, P, t) : SpentFirst(q, r, P) => q \in V

(* The lots of well formed rows are finitely many.                         *)
LEMMA LotRowsFinite ==
    ASSUME NEW R, RowsOK(R)
    PROVE  \A V \in SUBSET LotRows(R) : IsFiniteSet(V)
<1>1. LotRows(R) \subseteq R /\ IsFiniteSet(R)
  BY DEF LotRows, RowsOK
<1> QED BY <1>1, FS_Subset

(* A spend takes from a lot what it holds at most.                         *)
LEMMA TakenWithin ==
    ASSUME NEW R, RowsOK(R), NEW P, NEW left \in [LotRows(R) -> Nat], NEW a \in Nat, NEW t
    PROVE  \A q \in LotRows(R) : /\ Taken(R, P, left, a, t)[q] \in Nat
                                 /\ Taken(R, P, left, a, t)[q] <= left[q]
                                 /\ AheadOf(q, R, P, left, t) \in Nat
<1> SUFFICES ASSUME NEW q \in LotRows(R)
             PROVE  /\ Taken(R, P, left, a, t)[q] \in Nat
                    /\ Taken(R, P, left, a, t)[q] <= left[q]
                    /\ AheadOf(q, R, P, left, t) \in Nat
  OBVIOUS
<1>1. AheadOf(q, R, P, left, t) \in Nat
  <2> DEFINE V == {r \in Alive(R, P, t) : SpentFirst(r, q, P)}
  <2>1. V \in SUBSET LotRows(R)
    BY DEF Alive
  <2>2. IsFiniteSet(V) /\ \A r \in V : left[r] \in Nat
    BY <2>1, LotRowsFinite
  <2> HIDE DEF V
  <2>3. Total(left, V) \in Nat
    BY <2>2, TotalNat
  <2> QED BY <2>3 DEF AheadOf, V
<1>2. Taken(R, P, left, a, t)[q] = IF q \in Alive(R, P, t) THEN Clip(left[q], a - AheadOf(q, R, P, left, t)) ELSE 0
  BY DEF Taken
<1>3. left[q] \in Nat
  OBVIOUS
<1> QED BY <1>1, <1>2, <1>3 DEF Clip

(* The lots spent together give what is asked of them, or all they have.   *)
LEMMA TakenTotals ==
    ASSUME NEW R, RowsOK(R), NEW P, InOrder(P), NEW left \in [LotRows(R) -> Nat],
           NEW a \in Nat, NEW t, NEW W, SpentTogether(W, R, P, t)
    PROVE  /\ Total(Taken(R, P, left, a, t), W) = AtMost(a, Total(left, W))
           /\ Total(left, W) \in Nat
<1> DEFINE A == Alive(R, P, t)
           take == Taken(R, P, left, a, t)
           O == {z \in LotRows(R) \X LotRows(R) : SpentFirst(z[1], z[2], P)}
           T == {V \in SUBSET A : SpentTogether(V, R, P, t) => Total(take, V) = AtMost(a, Total(left, V))}
<1>0. A \subseteq LotRows(R) /\ \A V \in SUBSET A : IsFiniteSet(V)
  BY LotRowsFinite DEF Alive
<1>1. \A q \in LotRows(R) : take[q] \in Nat /\ take[q] \in Int /\ left[q] \in Nat /\ left[q] \in Int
  BY TakenWithin
<1>2. \A V \in SUBSET A : Total(left, V) \in Nat /\ Total(take, V) \in Nat
  <2> HIDE DEF A, take
  <2> QED BY <1>0, <1>1, TotalNat
<1>3. \A V \in SUBSET LotRows(R) : V # {} => \E m \in V : \A q \in V \ {m} : SpentFirst(q, m, P)
  <2>1. \A x, y \in LotRows(R) : <<x, y>> \in O <=> SpentFirst(x, y, P)
    OBVIOUS
  <2> HIDE DEF O
  <2>2. /\ \A x, y \in LotRows(R) : x # y => <<x, y>> \in O \/ <<y, x>> \in O
        /\ \A x, y, z \in LotRows(R) : <<x, y>> \in O /\ <<y, z>> \in O => <<x, z>> \in O
    BY <2>1, SpendOrder
  <2>3. IsFiniteSet(LotRows(R))
    BY LotRowsFinite
  <2>4. \A V \in SUBSET LotRows(R) : V # {} => \E m \in V : \A q \in V \ {m} : <<q, m>> \in O
    BY <2>2, <2>3, LastExists
  <2> QED BY <2>1, <2>4
<1>4. ASSUME NEW V \in SUBSET A, \A r \in SUBSET V : r # V => r \in T PROVE V \in T
  <2>0. SUFFICES ASSUME SpentTogether(V, R, P, t) PROVE Total(take, V) = AtMost(a, Total(left, V))
    OBVIOUS
  <2>1. CASE V = {}
    <3>1. Total(take, {}) = 0 /\ Total(left, {}) = 0
      BY TotalEmpty
    <3> QED BY <2>1, <3>1 DEF AtMost
  <2>2. CASE V # {}
    <3>1. PICK m \in V : \A q \in V \ {m} : SpentFirst(q, m, P)
      BY <1>0, <1>3, <2>2
    <3> DEFINE U == V \ {m}
    <3>2. U \in SUBSET A /\ U \cup {m} = V /\ m \notin U /\ m \in A /\ m \in LotRows(R)
      BY <1>0, <3>1
    <3>3. {r \in A : SpentFirst(r, m, P)} = U
      <4>1. ASSUME NEW r \in A, SpentFirst(r, m, P) PROVE r \in V /\ r # m
        BY <1>0, <2>0, <3>2, <4>1, SpendOrder DEF SpentTogether
      <4> QED BY <3>1, <4>1
    <3>4. SpentTogether(U, R, P, t)
      <4>1. ASSUME NEW r \in U, NEW q \in A, SpentFirst(q, r, P) PROVE q \in U
        <5>1. q \in V
          BY <2>0, <4>1 DEF SpentTogether
        <5>2. q # m
          BY <1>0, <3>1, <3>2, <4>1, SpendOrder
        <5> QED BY <5>1, <5>2
      <4> QED BY <3>2, <4>1 DEF SpentTogether
    <3>5. U \in T
      BY <1>4, <3>1
    <3>6. Total(take, U) = AtMost(a, Total(left, U))
      BY <3>4, <3>5
    <3>7. take[m] = Clip(left[m], a - Total(left, U))
      BY <3>2, <3>3 DEF Taken, AheadOf
    <3> HIDE DEF U, take, A
    <3>8. Total(take, V) = Total(take, U) + take[m] /\ Total(left, V) = Total(left, U) + left[m]
      <4>1. IsFiniteSet(A) /\ \A q \in A : take[q] \in Int /\ left[q] \in Int
        BY <1>0, <1>1
      <4>2. Total(take, U \cup {m}) = Total(take, U) + take[m]
        BY <3>2, <4>1, TotalAdds
      <4>3. Total(left, U \cup {m}) = Total(left, U) + left[m]
        BY <3>2, <4>1, TotalAdds
      <4> QED BY <3>2, <4>2, <4>3
    <3>9. Total(left, U) \in Nat /\ left[m] \in Nat
      BY <1>1, <1>2, <3>2
    <3> QED BY <3>6, <3>7, <3>8, <3>9 DEF AtMost, Clip
  <2> QED BY <2>1, <2>2
<1>5. W \in T
  <2>1. \A V \in SUBSET A : V \in T
    <3> HIDE DEF T
    <3> QED BY <1>0, <1>4, SetInduction
  <2>2. W \in SUBSET A
    BY DEF SpentTogether
  <2> QED BY <2>1, <2>2
<1> QED BY <1>2, <1>5 DEF SpentTogether

-----------------------------------------------------------------------------
(***************************************************************************)
(* The lots of a replay: one for each lot row, told apart by its id.       *)
(***************************************************************************)

(* The lots of a replay, lot by lot: what is left of each, and which are   *)
(* closed.                                                                 *)
LotsAre(lots, R, P, left, shut) ==
  /\ left \in [LotRows(R) -> Nat] /\ shut \in [LotRows(R) -> BOOLEAN]
  /\ \A r \in LotRows(R) : shut[r] => left[r] = 0
  /\ lots = {LotAs(r, P, left[r], shut[r]) : r \in LotRows(R)}

(* A lot row has its id to itself among the lots.                          *)
LEMMA LotsNamed ==
    ASSUME NEW R, RowsOK(R)
    PROVE  \A q, r \in LotRows(R) : q.id = r.id => q = r
<1>1. \A r \in LotRows(R) : r \in R /\ ReplayRank(r) = 0
  BY DEF LotRows, ReplayRank
<1> QED BY <1>1 DEF RowsOK

(* Sums of what lots have left.                                            *)
Remaining(S) == SumOf(LAMBDA m : m.remaining, S)

(* What some lots hold is a total.                                         *)
LEMMA RemainingIsTotal ==
  ASSUME NEW S, IsFiniteSet(S), NEW w, \A r \in S : w[r] = r.remaining
  PROVE  Remaining(S) = Total(w, S)
<1> DEFINE Iter == CHOOSE F : F = [s \in SUBSET S |->
               IF s = {} THEN 0
               ELSE (CHOOSE x \in s : TRUE).remaining + F[s \ {CHOOSE x \in s : TRUE}]]
           v == [r \in S |-> r.remaining]
<1>1. Remaining(S) = Iter[S]
  BY DEF Remaining, SumOf, MapThenSumSet, MapThenFoldSet
<1>2. PICK F : Sums(v, S, F)
  BY SumsExist
<1>3. \A s \in SUBSET S : s # {} => v[LastOf(s)] = LastOf(s).remaining
  BY Smaller
<1>4. F = [s \in SUBSET S |->
               IF s = {} THEN 0
               ELSE (CHOOSE x \in s : TRUE).remaining + F[s \ {CHOOSE x \in s : TRUE}]]
  <2>1. F = [s \in SUBSET S |-> IF s = {} THEN 0 ELSE LastOf(s).remaining + F[s \ {LastOf(s)}]]
    <3> HIDE DEF v
    <3> QED BY <1>2, <1>3 DEF Sums, SumAt
  <2> QED BY <2>1, Zenon DEF LastOf
<1>5. Iter = [s \in SUBSET S |->
               IF s = {} THEN 0
               ELSE (CHOOSE x \in s : TRUE).remaining + Iter[s \ {CHOOSE x \in s : TRUE}]]
  BY <1>4, Zenon
<1>6. Sums(v, S, Iter)
  <2>1. Iter = [s \in SUBSET S |-> IF s = {} THEN 0 ELSE LastOf(s).remaining + Iter[s \ {LastOf(s)}]]
    <3> HIDE DEF Iter
    <3> QED BY <1>5, Zenon DEF LastOf
  <2> HIDE DEF Iter, v
  <2> QED BY <1>3, <2>1 DEF Sums, SumAt
<1>7. PICK G : Sums(w, S, G) /\ Total(w, S) = G[S]
  BY TotalUnfolds
<1>8. \A x \in S : v[x] = w[x]
  OBVIOUS
<1> HIDE DEF Iter, v
<1>9. G[S] = Iter[S]
  BY <1>6, <1>7, <1>8, SumsAgree
<1> QED BY <1>1, <1>7, <1>9

(* Sums of what an allocation takes.                                       *)
TakenFrom(take, l) == IF l \in DOMAIN take THEN take[l] ELSE 0
AllTaken(take, S) == SumOf(LAMBDA l : TakenFrom(take, l), S)

(* What a spend takes is a total.                                          *)
LEMMA AllTakenIsTotal ==
  ASSUME NEW S, IsFiniteSet(S), NEW take, NEW w, \A l \in S : w[l] = TakenFrom(take, l)
  PROVE  AllTaken(take, S) = Total(w, S)
<1> DEFINE Iter == CHOOSE F : F = [s \in SUBSET S |->
               IF s = {} THEN 0
               ELSE TakenFrom(take, CHOOSE x \in s : TRUE) + F[s \ {CHOOSE x \in s : TRUE}]]
           v == [r \in S |-> TakenFrom(take, r)]
<1>1. AllTaken(take, S) = Iter[S]
  BY DEF AllTaken, SumOf, MapThenSumSet, MapThenFoldSet
<1>2. PICK F : Sums(v, S, F)
  BY SumsExist
<1>3. \A s \in SUBSET S : s # {} => v[LastOf(s)] = TakenFrom(take, LastOf(s))
  BY Smaller
<1>4. F = [s \in SUBSET S |->
               IF s = {} THEN 0
               ELSE TakenFrom(take, CHOOSE x \in s : TRUE) + F[s \ {CHOOSE x \in s : TRUE}]]
  <2>1. F = [s \in SUBSET S |-> IF s = {} THEN 0 ELSE TakenFrom(take, LastOf(s)) + F[s \ {LastOf(s)}]]
    <3> HIDE DEF v
    <3> QED BY <1>2, <1>3 DEF Sums, SumAt
  <2> QED BY <2>1, Zenon DEF LastOf
<1>5. Iter = [s \in SUBSET S |->
               IF s = {} THEN 0
               ELSE TakenFrom(take, CHOOSE x \in s : TRUE) + Iter[s \ {CHOOSE x \in s : TRUE}]]
  BY <1>4, Zenon
<1>6. Sums(v, S, Iter)
  <2>1. Iter = [s \in SUBSET S |-> IF s = {} THEN 0 ELSE TakenFrom(take, LastOf(s)) + Iter[s \ {LastOf(s)}]]
    <3> HIDE DEF Iter
    <3> QED BY <1>5, Zenon DEF LastOf
  <2> HIDE DEF Iter, v
  <2> QED BY <1>3, <2>1 DEF Sums, SumAt
<1>7. PICK G : Sums(w, S, G) /\ Total(w, S) = G[S]
  BY TotalUnfolds
<1>8. \A x \in S : v[x] = w[x]
  OBVIOUS
<1> HIDE DEF Iter, v
<1>9. G[S] = Iter[S]
  BY <1>6, <1>7, <1>8, SumsAgree
<1> QED BY <1>1, <1>7, <1>9

(* A sum over lots is a sum over the rows that made them.                  *)
LEMMA RemainingByRow ==
    ASSUME NEW R, RowsOK(R), NEW left \in [LotRows(R) -> Nat], NEW V \in SUBSET LotRows(R),
           NEW h, \A r \in V : h[r].remaining = left[r] /\ h[r].id = r.id
    PROVE  Remaining({h[r] : r \in V}) = Total(left, V)
<1> DEFINE S == {h[r] : r \in V}
           w == [l \in S |-> l.remaining]
<1>2. \A r \in V : h[r].remaining = left[r] /\ h[r].id = r.id /\ left[r] \in Nat
  OBVIOUS
<1>3. \A q, r \in V : h[q] = h[r] => q = r
  BY <1>2, LotsNamed
<1>4. IsFiniteSet(V)
  BY LotRowsFinite
<1>5. \A r \in V : left[r] \in Int /\ w[h[r]] = left[r]
  BY <1>2
<1>6. IsFiniteSet(S)
  BY <1>4, ImageFinite
<1>7. \A l \in S : w[l] = l.remaining
  OBVIOUS
<1> HIDE DEF w
<1>8. Remaining(S) = Total(w, S)
  BY <1>6, <1>7, RemainingIsTotal
<1>9. Total(w, S) = Total(left, V)
  BY <1>3, <1>4, <1>5, TotalRenamed
<1> QED BY <1>8, <1>9

-----------------------------------------------------------------------------
(***************************************************************************)
(* An allocation, seen through the rows.                                   *)
(***************************************************************************)

(* An allocation is cut to what is there and what is asked.                *)
LEMMA ClipIs ==
    ASSUME NEW n \in Nat, NEW x \in Int
    PROVE  Max({0, Min({n, x})}) = Clip(n, x)
<1> DEFINE m == IF n <= x THEN n ELSE x
<1>1. m \in {n, x} /\ (\A y \in {n, x} : m <= y) /\ m \in Int
  OBVIOUS
<1>2. \A z \in {n, x} : (\A y \in {n, x} : z <= y) => z = m
  OBVIOUS
<1> HIDE DEF m
<1>3. Min({n, x}) = m
  BY <1>1, <1>2 DEF Min
<1>4. Max({0, m}) = IF 0 >= m THEN 0 ELSE m
  BY <1>1, MaxOf2
<1> QED BY <1>3, <1>4 DEF m, Clip

(* What the allocation of a spend takes, lot by lot.                       *)
LEMMA AllocationIs ==
    ASSUME NEW R, RowsOK(R), NEW P, InOrder(P), NEW lots, NEW left, NEW shut,
           LotsAre(lots, R, P, left, shut), NEW a \in Nat, NEW t \in Nat, NEW q \in LotRows(R)
    PROVE  TakenFrom(Allocation(lots, a, t), LotAs(q, P, left[q], shut[q]))
             = Taken(R, P, left, a, t)[q]
<1> DEFINE h == [r \in LotRows(R) |-> LotAs(r, P, left[r], shut[r])]
           take == Allocation(lots, a, t)
           live == {l \in lots : IsLive(l, t)}
           V == {r \in Alive(R, P, t) : left[r] > 0}
<1>0. /\ left \in [LotRows(R) -> Nat] /\ shut \in [LotRows(R) -> BOOLEAN]
      /\ \A r \in LotRows(R) : shut[r] => left[r] = 0
      /\ lots = {h[r] : r \in LotRows(R)}
  BY DEF LotsAre
<1>1. \A r \in LotRows(R) : /\ h[r].remaining = left[r] /\ h[r].id = r.id /\ h[r].eff = Eff(r, P)
                            /\ (h[r].closed <=> shut[r]) /\ left[r] \in Nat
                            /\ h[r] \in lots
  <2> SUFFICES ASSUME NEW r \in LotRows(R)
               PROVE  /\ h[r].remaining = left[r] /\ h[r].id = r.id /\ h[r].eff = Eff(r, P)
                      /\ (h[r].closed <=> shut[r]) /\ left[r] \in Nat
                      /\ h[r] \in lots
    OBVIOUS
  <2>1. h[r] = LotAs(r, P, left[r], shut[r])
    OBVIOUS
  <2>2. h[r] \in lots /\ left[r] \in Nat
    BY <1>0
  <2>3. h[r].remaining = left[r] /\ h[r].id = r.id /\ h[r].eff = Eff(r, P)
    BY <2>1 DEF LotAs
  <2>4. h[r].closed <=> shut[r]
    BY <2>1 DEF LotAs
  <2> QED BY <2>2, <2>3, <2>4
<1>2. \A q1, r \in LotRows(R) : h[q1] = h[r] => q1 = r
  <2> HIDE DEF h
  <2> QED BY <1>1, LotsNamed
<1>3. \A r \in LotRows(R) : IsLive(h[r], t) <=> r \in V
  <2> SUFFICES ASSUME NEW r \in LotRows(R) PROVE IsLive(h[r], t) <=> r \in V
    OBVIOUS
  <2>1. Eff(r, P).at \in Int
    BY EffType DEF LotRows
  <2>2. r \in V <=> left[r] > 0 /\ ~Over(Eff(r, P), t)
    BY DEF Alive
  <2>3. ~Over(Eff(r, P), t) <=> (Eff(r, P).at = Null \/ Eff(r, P).at > t)
    BY <2>1 DEF Over
  <2>4. left[r] > 0 => ~shut[r]
    BY <1>0, <1>1
  <2>5. IsLive(h[r], t) <=> h[r].remaining > 0 /\ ~h[r].closed /\ (h[r].eff.at = Null \/ h[r].eff.at > t)
    BY Zenon DEF IsLive
  <2> HIDE DEF h, V
  <2> QED BY <1>1, <2>2, <2>3, <2>4, <2>5
<1>4. live = {h[r] : r \in V}
  <2>1. V \subseteq LotRows(R)
    BY DEF Alive
  <2> HIDE DEF h, V
  <2> QED BY <1>0, <1>3, <2>1
<1>5. \A r \in LotRows(R) : h[r] \in live <=> r \in V
  <2> HIDE DEF h, V
  <2> QED BY <1>1, <1>3
<1>6. DOMAIN take = live
  BY DEF Allocation
<1>7. CASE q \notin V
  <2>1. h[q] \notin DOMAIN take
    <3> HIDE DEF h, live, take, V
    <3> QED BY <1>5, <1>6, <1>7
  <2>2. TakenFrom(take, h[q]) = 0
    <3> HIDE DEF h, take
    <3> QED BY <2>1 DEF TakenFrom
  <2>3. Taken(R, P, left, a, t)[q] = 0
    <3>1. CASE q \notin Alive(R, P, t)
      BY <3>1 DEF Taken
    <3>2. CASE q \in Alive(R, P, t)
      <4>1. left[q] = 0
        BY <1>1, <1>7, <3>2
      <4>2. Taken(R, P, left, a, t)[q] \in Nat /\ Taken(R, P, left, a, t)[q] <= left[q]
        BY <1>0, TakenWithin
      <4> QED BY <4>1, <4>2
    <3> QED BY <3>1, <3>2
  <2> QED BY <2>2, <2>3
<1>8. CASE q \in V
  <2> DEFINE W == {r \in V : SpentFirst(r, q, P)}
  <2>1. h[q] \in live
    <3> HIDE DEF h, live, V
    <3> QED BY <1>5, <1>8
  <2>2. take[h[q]] = Max({0, Min({h[q].remaining, a - Remaining({m \in live : SpentBefore(m, h[q])})})})
    <3> HIDE DEF h
    <3> QED BY <2>1 DEF Allocation, Remaining
  <2>3. \A r \in V : SpentBefore(h[r], h[q]) <=> SpentFirst(r, q, P)
    <3>1. V \subseteq LotRows(R)
      BY DEF Alive
    <3>2. ASSUME NEW r \in LotRows(R)
          PROVE  SpentBefore(LotAs(r, P, left[r], shut[r]), LotAs(q, P, left[q], shut[q])) <=> SpentFirst(r, q, P)
      BY SpentFirstIs
    <3> HIDE DEF V
    <3> QED BY <3>1, <3>2
  <2>4. {m \in live : SpentBefore(m, h[q])} = {h[r] : r \in W}
    <3> HIDE DEF h, V, live
    <3> QED BY <1>4, <2>3
  <2>5. W \in SUBSET LotRows(R) /\ W \subseteq V
    BY DEF Alive
  <2>7. Remaining({m \in live : SpentBefore(m, h[q])}) = Total(left, W)
    <3>1. \A r \in W : h[r].remaining = left[r] /\ h[r].id = r.id
      BY <1>1, <2>5
    <3>2. left \in [LotRows(R) -> Nat]
      BY <1>0
    <3> HIDE DEF W, h, live, V, take
    <3>3. Remaining({h[r] : r \in W}) = Total(left, W)
      BY <2>5, <3>1, <3>2, RemainingByRow
    <3> QED BY <2>4, <3>3
  <2>8. Total(left, W) = AheadOf(q, R, P, left, t)
    <3> DEFINE U == {r \in Alive(R, P, t) : SpentFirst(r, q, P)}
    <3>1. U \in SUBSET LotRows(R) /\ W \in SUBSET U
      BY DEF Alive
    <3>2. IsFiniteSet(U) /\ \A r \in U : left[r] \in Int
      BY <1>1, <3>1, LotRowsFinite
    <3>3. \A r \in U \ W : left[r] = 0
      BY <1>1, <3>1
    <3> HIDE DEF U, W
    <3>4. Total(left, U) = Total(left, W)
      BY <3>1, <3>2, <3>3, TotalOfSome
    <3> QED BY <3>4 DEF AheadOf, U
  <2>9. q \in Alive(R, P, t) /\ left[q] \in Nat /\ AheadOf(q, R, P, left, t) \in Nat
    BY <1>0, <1>8, TakenWithin
  <2>10. take[h[q]] = Clip(left[q], a - AheadOf(q, R, P, left, t))
    <3>1. h[q].remaining = left[q]
      BY <1>1
    <3>2. a - AheadOf(q, R, P, left, t) \in Int
      BY <2>9
    <3> HIDE DEF h, take, live, W
    <3> QED BY <2>2, <2>7, <2>8, <2>9, <3>1, <3>2, ClipIs
  <2>11. TakenFrom(take, h[q]) = take[h[q]]
    <3> HIDE DEF h, take, live
    <3> QED BY <1>6, <2>1 DEF TakenFrom
  <2>12. Taken(R, P, left, a, t)[q] = Clip(left[q], a - AheadOf(q, R, P, left, t))
    BY <2>9 DEF Taken
  <2> HIDE DEF h, take
  <2> QED BY <2>10, <2>11, <2>12 DEF h, take
<1> QED BY <1>7, <1>8

-----------------------------------------------------------------------------
(***************************************************************************)
(* What one row does to what is left of the lots, and when it throws.      *)
(***************************************************************************)

(* What replaying x after the rows Q does to what is left ...              *)
NextLeft(x, Q, P, left) ==
  IF IsLotRow(x) THEN [r \in LotRows(Q) \cup {x} |-> IF r = x THEN x.delta ELSE left[r]]
  ELSE IF x.kind = "expiry" THEN [r \in LotRows(Q) |-> IF r.id = x.ref THEN 0 ELSE left[r]]
  ELSE [r \in LotRows(Q) |-> left[r] - Taken(Q, P, left, -x.delta, x.at)[r]]

(* ... and whether it throws nothing.                                      *)
Replays(x, Q, P, left) ==
  IF IsLotRow(x) THEN TRUE
  ELSE IF x.kind = "expiry" THEN \E r \in LotRows(Q) : r.id = x.ref /\ left[r] = -x.delta
  ELSE Total(Taken(Q, P, left, -x.delta, x.at), LotRows(Q)) = -x.delta

(* A state of the replay.                                                  *)
Replayed(s) == s.sound \in BOOLEAN /\ s = [lots |-> s.lots, trace |-> s.trace, sound |-> s.sound]

(* A lot row adds a lot; no other row does.                                *)
LEMMA RowsGrow ==
    ASSUME NEW Q, NEW x
    PROVE  /\ IsLotRow(x) => LotRows(Q \cup {x}) = LotRows(Q) \cup {x}
           /\ ~IsLotRow(x) => LotRows(Q \cup {x}) = LotRows(Q)
BY DEF LotRows

(* Replaying a lot row.                                                    *)
LEMMA LotReplays ==
    ASSUME NEW Q, NEW x, x \notin Q, RowsOK(Q \cup {x}), IsLotRow(x), NEW P,
           NEW s, Replayed(s), NEW left, NEW shut, LotsAre(s.lots, Q, P, left, shut)
    PROVE  /\ Replayed(Replay(x, s, P)) /\ (Replay(x, s, P).sound <=> s.sound)
           /\ Replay(x, s, P).trace = s.trace
           /\ \E c : LotsAre(Replay(x, s, P).lots, Q \cup {x}, P, NextLeft(x, Q, P, left), c)
<1> DEFINE z == Replay(x, s, P)
           m == NextLeft(x, Q, P, left)
           c == [r \in LotRows(Q) \cup {x} |-> IF r = x THEN FALSE ELSE shut[r]]
<1>1. z = [lots |-> s.lots \cup {NewLot(x, P)}, trace |-> s.trace, sound |-> s.sound]
  <2>1. z = [s EXCEPT !.lots = @ \cup {NewLot(x, P)}]
    <3>1. x.kind # "expiry"
      BY DEF IsLotRow, LotKinds
    <3> QED BY <3>1 DEF Replay
  <2>2. s = [lots |-> s.lots, trace |-> s.trace, sound |-> s.sound]
    BY DEF Replayed
  <2> HIDE DEF z
  <2> QED BY <2>1, <2>2
<1>2. z.lots = s.lots \cup {NewLot(x, P)} /\ z.trace = s.trace /\ z.sound = s.sound
  <2> HIDE DEF z
  <2> QED BY <1>1
<1>3. NewLot(x, P) = LotAs(x, P, x.delta, FALSE)
  BY DEF NewLot, LotAs, Eff
<1>4. m = [r \in LotRows(Q) \cup {x} |-> IF r = x THEN x.delta ELSE left[r]]
  BY DEF NextLeft
<1>5. x.delta \in Nat /\ x \notin LotRows(Q)
  BY DEF RowsOK, IsLotRow, LotRows
<1>6. left \in [LotRows(Q) -> Nat] /\ shut \in [LotRows(Q) -> BOOLEAN]
      /\ (\A r \in LotRows(Q) : shut[r] => left[r] = 0)
      /\ s.lots = {LotAs(r, P, left[r], shut[r]) : r \in LotRows(Q)}
  BY DEF LotsAre
<1>7. m \in [LotRows(Q) \cup {x} -> Nat] /\ c \in [LotRows(Q) \cup {x} -> BOOLEAN]
      /\ \A r \in LotRows(Q) \cup {x} : c[r] => m[r] = 0
  <2> HIDE DEF m
  <2> QED BY <1>4, <1>5, <1>6
<1>8. z.lots = {LotAs(r, P, m[r], c[r]) : r \in LotRows(Q) \cup {x}}
  <2>1. \A r \in LotRows(Q) : m[r] = left[r] /\ c[r] = shut[r]
    <3> HIDE DEF m
    <3> QED BY <1>4, <1>5
  <2>2. m[x] = x.delta /\ c[x] = FALSE
    <3> HIDE DEF m
    <3> QED BY <1>4
  <2>3. LotAs(x, P, m[x], c[x]) = LotAs(x, P, x.delta, FALSE)
    <3> HIDE DEF m, c
    <3> QED BY <2>2, Zenon
  <2>4. {LotAs(r, P, m[r], c[r]) : r \in LotRows(Q) \cup {x}}
          = {LotAs(r, P, m[r], c[r]) : r \in LotRows(Q)} \cup {LotAs(x, P, m[x], c[x])}
    <3> HIDE DEF m, c
    <3> QED OBVIOUS
  <2>5. {LotAs(r, P, m[r], c[r]) : r \in LotRows(Q)} = {LotAs(r, P, left[r], shut[r]) : r \in LotRows(Q)}
    <3> HIDE DEF m, c
    <3> QED BY <2>1
  <2> HIDE DEF z, m, c
  <2> QED BY <1>2, <1>3, <1>6, <2>3, <2>4, <2>5, Zenon
<1>9. LotsAre(z.lots, Q \cup {x}, P, m, c)
  <2>1. LotRows(Q \cup {x}) = LotRows(Q) \cup {x}
    BY RowsGrow
  <2> HIDE DEF z, m, c
  <2> QED BY <1>7, <1>8, <2>1 DEF LotsAre
<1>10. Replayed(z)
  <2> HIDE DEF z
  <2>1. z = [lots |-> z.lots, trace |-> z.trace, sound |-> z.sound]
    BY <1>1
  <2>2. z.sound \in BOOLEAN
    BY <1>2 DEF Replayed
  <2> QED BY <2>1, <2>2 DEF Replayed
<1> HIDE DEF z, m, c
<1>11. /\ Replayed(z) /\ (z.sound <=> s.sound) /\ z.trace = s.trace
       /\ \E d : LotsAre(z.lots, Q \cup {x}, P, m, d)
  BY <1>2, <1>9, <1>10
<1> QED BY <1>11 DEF z, m

(* A lot closed.                                                           *)
LEMMA LotCloses ==
    ASSUME NEW r, NEW P, NEW n, NEW c
    PROVE  [LotAs(r, P, n, c) EXCEPT !.remaining = 0, !.closed = TRUE] = LotAs(r, P, 0, TRUE)
<1> DEFINE l == LotAs(r, P, n, c)
<1>1. [l EXCEPT !.remaining = 0, !.closed = TRUE] = [[l EXCEPT !.remaining = 0] EXCEPT !.closed = TRUE]
  BY DEF LotAs
<1>2. [l EXCEPT !.remaining = 0] = LotAs(r, P, 0, c)
  BY DEF LotAs
<1>3. \A d : [LotAs(r, P, 0, c) EXCEPT !.closed = d] = LotAs(r, P, 0, d)
  BY DEF LotAs
<1>4. [LotAs(r, P, 0, c) EXCEPT !.closed = TRUE] = LotAs(r, P, 0, TRUE)
  BY <1>3, Zenon
<1> HIDE DEF l
<1>5. [l EXCEPT !.remaining = 0, !.closed = TRUE] = LotAs(r, P, 0, TRUE)
  BY <1>1, <1>2, <1>4, Zenon
<1> QED BY <1>5 DEF l

(* Replaying an expiry row.                                                *)
LEMMA ExpiryReplays ==
    ASSUME NEW Q, NEW x, x \notin Q, RowsOK(Q \cup {x}), ~IsLotRow(x), x.kind = "expiry", NEW P,
           NEW s, Replayed(s), NEW left, NEW shut, LotsAre(s.lots, Q, P, left, shut)
    PROVE  /\ Replayed(Replay(x, s, P))
           /\ Replay(x, s, P).sound <=> s.sound /\ Replays(x, Q, P, left)
           /\ Replay(x, s, P).trace = s.trace
           /\ \E c : LotsAre(Replay(x, s, P).lots, Q \cup {x}, P, NextLeft(x, Q, P, left), c)
<1> DEFINE z == Replay(x, s, P)
           m == NextLeft(x, Q, P, left)
           c == [r \in LotRows(Q) |-> IF r.id = x.ref THEN TRUE ELSE shut[r]]
           named == {l \in s.lots : l.id = x.ref}
           ok == s.sound /\ \E l \in named : l.remaining = -x.delta
           after == {IF l \in named THEN [l EXCEPT !.remaining = 0, !.closed = TRUE] ELSE l : l \in s.lots}
<1>1. z = [lots |-> after, trace |-> s.trace, sound |-> ok]
  <2>1. z = [s EXCEPT !.sound = ok, !.lots = after]
    BY DEF Replay, ReplayExpiry
  <2>2. s = [lots |-> s.lots, trace |-> s.trace, sound |-> s.sound]
    BY DEF Replayed
  <2> HIDE DEF z, ok, after, named
  <2>3. [s EXCEPT !.sound = ok] = [lots |-> s.lots, trace |-> s.trace, sound |-> ok]
    <3>1. \A y : [s EXCEPT !.sound = y] = [lots |-> s.lots, trace |-> s.trace, sound |-> y]
      BY <2>2
    <3> QED BY <3>1, Zenon
  <2>4. [s EXCEPT !.sound = ok, !.lots = after] = [[s EXCEPT !.sound = ok] EXCEPT !.lots = after]
    <3>1. \A y : [s EXCEPT !.sound = y, !.lots = after] = [[s EXCEPT !.sound = y] EXCEPT !.lots = after]
      BY <2>2
    <3> QED BY <3>1, Zenon
  <2>5. [[lots |-> s.lots, trace |-> s.trace, sound |-> ok] EXCEPT !.lots = after]
          = [lots |-> after, trace |-> s.trace, sound |-> ok]
    <3>1. \A y : [[lots |-> s.lots, trace |-> s.trace, sound |-> y] EXCEPT !.lots = after]
                   = [lots |-> after, trace |-> s.trace, sound |-> y]
      OBVIOUS
    <3> QED BY <3>1, Zenon
  <2> QED BY <2>1, <2>3, <2>4, <2>5, Zenon
<1>2. z.lots = after /\ z.trace = s.trace /\ (z.sound <=> ok)
  <2> HIDE DEF z, ok, after
  <2> QED BY <1>1
<1>3. z.sound \in BOOLEAN
  <2> HIDE DEF z, ok, after
  <2>1. z.sound = ok
    BY <1>1, Zenon
  <2>2. ok \in BOOLEAN
    BY DEF ok
  <2> QED BY <2>1, <2>2, Zenon
<1>4. m = [r \in LotRows(Q) |-> IF r.id = x.ref THEN 0 ELSE left[r]]
  BY DEF NextLeft
<1>6. left \in [LotRows(Q) -> Nat] /\ shut \in [LotRows(Q) -> BOOLEAN]
      /\ (\A r \in LotRows(Q) : shut[r] => left[r] = 0)
      /\ s.lots = {LotAs(r, P, left[r], shut[r]) : r \in LotRows(Q)}
  BY DEF LotsAre
<1>7. m \in [LotRows(Q) -> Nat] /\ c \in [LotRows(Q) -> BOOLEAN]
      /\ \A r \in LotRows(Q) : c[r] => m[r] = 0
  <2> HIDE DEF m
  <2> QED BY <1>4, <1>6
<1> DEFINE h(r) == LotAs(r, P, left[r], shut[r])
<1>8. \A r \in LotRows(Q) : h(r).id = r.id /\ h(r).remaining = left[r] /\ h(r) \in s.lots
  <2> SUFFICES ASSUME NEW r \in LotRows(Q) PROVE h(r).id = r.id /\ h(r).remaining = left[r] /\ h(r) \in s.lots
    OBVIOUS
  <2>1. h(r) \in s.lots
    BY <1>6
  <2>2. h(r).id = r.id /\ h(r).remaining = left[r]
    BY DEF LotAs
  <2> QED BY <2>1, <2>2
<1>9. \A r \in LotRows(Q) : h(r) \in named <=> r.id = x.ref
  <2> HIDE DEF h
  <2> QED BY <1>8
<1>10. \A r \in LotRows(Q) : (IF h(r) \in named THEN [h(r) EXCEPT !.remaining = 0, !.closed = TRUE] ELSE h(r))
                               = LotAs(r, P, m[r], c[r])
  <2> SUFFICES ASSUME NEW r \in LotRows(Q)
               PROVE (IF h(r) \in named THEN [h(r) EXCEPT !.remaining = 0, !.closed = TRUE] ELSE h(r))
                               = LotAs(r, P, m[r], c[r])
    OBVIOUS
  <2>1. CASE r.id = x.ref
    <3>1. [h(r) EXCEPT !.remaining = 0, !.closed = TRUE] = LotAs(r, P, 0, TRUE)
      BY LotCloses, Zenon
    <3>2. m[r] = 0 /\ c[r] = TRUE
      <4> HIDE DEF m
      <4> QED BY <1>4, <2>1
    <3>3. h(r) \in named
      <4> HIDE DEF h, named
      <4> QED BY <1>9, <2>1
    <3> HIDE DEF m, c, h, named
    <3> QED BY <3>1, <3>2, <3>3, Zenon
  <2>2. CASE r.id # x.ref
    <3>2. m[r] = left[r] /\ c[r] = shut[r]
      <4> HIDE DEF m
      <4> QED BY <1>4, <2>2
    <3>3. h(r) \notin named
      <4> HIDE DEF h, named
      <4> QED BY <1>9, <2>2
    <3> HIDE DEF m, c, named
    <3> QED BY <3>2, <3>3, Zenon
  <2> QED BY <2>1, <2>2
<1>11. after = {LotAs(r, P, m[r], c[r]) : r \in LotRows(Q)}
  <2>1. s.lots = {h(r) : r \in LotRows(Q)}
    BY <1>6
  <2>2. after = {IF h(r) \in named THEN [h(r) EXCEPT !.remaining = 0, !.closed = TRUE] ELSE h(r) : r \in LotRows(Q)}
    <3> HIDE DEF h, named
    <3> QED BY <2>1
  <2> HIDE DEF h, named, after, m, c
  <2> QED BY <1>10, <2>2
<1>12. (\E l \in named : l.remaining = -x.delta) <=> Replays(x, Q, P, left)
  <2>1. Replays(x, Q, P, left) <=> \E r \in LotRows(Q) : r.id = x.ref /\ left[r] = -x.delta
    BY DEF Replays
  <2>2. s.lots = {h(r) : r \in LotRows(Q)}
    BY <1>6
  <2> HIDE DEF h
  <2> QED BY <1>8, <2>1, <2>2
<1>13. LotsAre(z.lots, Q \cup {x}, P, m, c)
  <2>1. LotRows(Q \cup {x}) = LotRows(Q)
    BY RowsGrow
  <2> HIDE DEF z, m, c, after
  <2> QED BY <1>2, <1>7, <1>11, <2>1 DEF LotsAre
<1>14. Replayed(z)
  <2> HIDE DEF z, ok, after
  <2>1. z = [lots |-> z.lots, trace |-> z.trace, sound |-> z.sound]
    <3>1. \A y : z = [lots |-> after, trace |-> s.trace, sound |-> y]
            => z = [lots |-> z.lots, trace |-> z.trace, sound |-> z.sound]
      OBVIOUS
    <3> QED BY <1>1, <3>1, Zenon
  <2> QED BY <1>3, <2>1 DEF Replayed
<1>15. z.sound <=> s.sound /\ Replays(x, Q, P, left)
  BY <1>2, <1>12
<1> HIDE DEF z, m, c, after, ok
<1>16. \E d : LotsAre(z.lots, Q \cup {x}, P, m, d)
  BY <1>13
<1> QED BY <1>2, <1>14, <1>15, <1>16 DEF z, m

(* A replay with its three fields set.                                     *)
LEMMA ThreeFields ==
    ASSUME NEW s, Replayed(s)
    PROVE  \A a, b, y : [s EXCEPT !.sound = y, !.lots = a, !.trace = b]
                           = [lots |-> a, trace |-> b, sound |-> y]
<1> TAKE a, b, y
<1>0. s = [lots |-> s.lots, trace |-> s.trace, sound |-> s.sound]
  BY DEF Replayed
<1>1. [s EXCEPT !.sound = y, !.lots = a, !.trace = b]
        = [[[s EXCEPT !.sound = y] EXCEPT !.lots = a] EXCEPT !.trace = b]
  BY <1>0
<1>2. [s EXCEPT !.sound = y] = [lots |-> s.lots, trace |-> s.trace, sound |-> y]
  BY <1>0
<1>3. [[lots |-> s.lots, trace |-> s.trace, sound |-> y] EXCEPT !.lots = a]
        = [lots |-> a, trace |-> s.trace, sound |-> y]
  OBVIOUS
<1>4. [[lots |-> a, trace |-> s.trace, sound |-> y] EXCEPT !.trace = b]
        = [lots |-> a, trace |-> b, sound |-> y]
  OBVIOUS
<1> QED BY <1>1, <1>2, <1>3, <1>4, Zenon

(* A lot with another remainder.                                           *)
LEMMA LotLeft ==
    ASSUME NEW r, NEW P, NEW n, NEW c, NEW m
    PROVE  [LotAs(r, P, n, c) EXCEPT !.remaining = m] = LotAs(r, P, m, c)
BY DEF LotAs

(* Replaying a spend.                                                      *)
LEMMA SpendReplays ==
    ASSUME NEW Q, NEW x, x \notin Q, RowsOK(Q \cup {x}), ~IsLotRow(x), x.kind # "expiry",
           NEW P, InOrder(P),
           NEW s, Replayed(s), NEW left, NEW shut, LotsAre(s.lots, Q, P, left, shut)
    PROVE  /\ Replayed(Replay(x, s, P))
           /\ Replay(x, s, P).sound <=> s.sound /\ Replays(x, Q, P, left)
           /\ \E c : LotsAre(Replay(x, s, P).lots, Q \cup {x}, P, NextLeft(x, Q, P, left), c)
<1> DEFINE z == Replay(x, s, P)
           m == NextLeft(x, Q, P, left)
           take == Allocation(s.lots, -x.delta, x.at)
           tk == Taken(Q, P, left, -x.delta, x.at)
           all == AllTaken(take, s.lots)
           ok == s.sound /\ all = -x.delta
           after == {[l EXCEPT !.remaining = @ - TakenFrom(take, l)] : l \in s.lots}
           track == s.trace \cup {[debit |-> x.id, lot |-> l.id, amount |-> TakenFrom(take, l)]
                                    : l \in {k \in s.lots : TakenFrom(take, k) > 0}}
<1>0. s = [lots |-> s.lots, trace |-> s.trace, sound |-> s.sound] /\ s.sound \in BOOLEAN
  BY DEF Replayed
<1>1. z = [lots |-> after, trace |-> track, sound |-> ok]
  <2>1. z = [s EXCEPT !.sound = ok, !.lots = after, !.trace = track]
    <3>1. z = ReplaySpend(x, s)
      BY DEF Replay
    <3>2. ReplaySpend(x, s) = [s EXCEPT !.sound = ok, !.lots = after, !.trace = track]
      BY Zenon DEF ReplaySpend, TakenFrom, AllTaken
    <3> HIDE DEF z, ok, after, track
    <3> QED BY <3>1, <3>2
  <2> HIDE DEF z, ok, after, track
  <2>2. \A a, b, y : [s EXCEPT !.sound = y, !.lots = a, !.trace = b]
                        = [lots |-> a, trace |-> b, sound |-> y]
    BY ThreeFields, Zenon
  <2> QED BY <2>1, <2>2, Zenon
<1>2. z.lots = after /\ z.trace = track /\ (z.sound <=> ok)
  <2> HIDE DEF z, ok, after, track
  <2> QED BY <1>1
<1>3. Replayed(z)
  <2>1. ok \in BOOLEAN
    OBVIOUS
  <2> HIDE DEF z, ok, after, track
  <2>2. \A y \in BOOLEAN : z = [lots |-> after, trace |-> track, sound |-> y]
            => z.sound \in BOOLEAN /\ z = [lots |-> z.lots, trace |-> z.trace, sound |-> z.sound]
    OBVIOUS
  <2>3. z.sound \in BOOLEAN /\ z = [lots |-> z.lots, trace |-> z.trace, sound |-> z.sound]
    BY <1>1, <2>1, <2>2, Zenon
  <2> QED BY <2>3 DEF Replayed
<1>4. /\ left \in [LotRows(Q) -> Nat] /\ shut \in [LotRows(Q) -> BOOLEAN]
      /\ (\A r \in LotRows(Q) : shut[r] => left[r] = 0)
      /\ s.lots = {LotAs(r, P, left[r], shut[r]) : r \in LotRows(Q)}
  BY DEF LotsAre
<1>5. /\ RowsOK(Q) /\ -x.delta \in Nat /\ x.at \in Nat /\ LotRows(Q \cup {x}) = LotRows(Q)
  <2>1. RowsOK(Q)
    BY SomeRowsOK
  <2>2. -x.delta \in Nat /\ x.at \in Nat
    BY DEF RowsOK
  <2> QED BY <2>1, <2>2, RowsGrow
<1>6. \A r \in LotRows(Q) : tk[r] \in Nat /\ tk[r] <= left[r] /\ left[r] \in Nat
  <2>1. \A r \in LotRows(Q) : tk[r] \in Nat /\ tk[r] <= left[r]
    BY <1>4, <1>5, TakenWithin
  <2> HIDE DEF tk
  <2> QED BY <1>4, <2>1
<1>7. \A r \in LotRows(Q) : TakenFrom(take, LotAs(r, P, left[r], shut[r])) = tk[r]
  BY <1>5, AllocationIs
<1> DEFINE h == [r \in LotRows(Q) |-> LotAs(r, P, left[r], shut[r])]
<1>8. \A r \in LotRows(Q) : /\ h[r].id = r.id /\ TakenFrom(take, h[r]) = tk[r]
                             /\ h[r] = LotAs(r, P, left[r], shut[r])
  <2> SUFFICES ASSUME NEW r \in LotRows(Q)
               PROVE  /\ h[r].id = r.id /\ TakenFrom(take, h[r]) = tk[r]
                      /\ h[r] = LotAs(r, P, left[r], shut[r])
    OBVIOUS
  <2>1. h[r] = LotAs(r, P, left[r], shut[r])
    OBVIOUS
  <2>2. h[r].id = r.id
    <3> HIDE DEF h
    <3> QED BY <2>1 DEF LotAs
  <2> HIDE DEF h, take, tk
  <2> QED BY <1>7, <2>1, <2>2
<1>9. s.lots = {h[r] : r \in LotRows(Q)}
  BY <1>4
<1>10. all = Total(tk, LotRows(Q))
  <2> DEFINE w == [l \in s.lots |-> TakenFrom(take, l)]
  <2>1. IsFiniteSet(LotRows(Q))
    BY <1>5, LotRowsFinite
  <2>2. IsFiniteSet(s.lots)
    <3> HIDE DEF h
    <3> QED BY <1>9, <2>1, ImageFinite
  <2>3. \A l \in s.lots : w[l] = TakenFrom(take, l)
    OBVIOUS
  <2>4. \A q, r \in LotRows(Q) : h[q] = h[r] => q = r
    <3> HIDE DEF h
    <3> QED BY <1>5, <1>8, LotsNamed
  <2>5. \A r \in LotRows(Q) : tk[r] \in Int /\ w[h[r]] = tk[r]
    <3> HIDE DEF h, tk, take
    <3> QED BY <1>6, <1>8, <1>9
  <2> HIDE DEF w, h, tk, take
  <2>6. AllTaken(take, s.lots) = Total(w, s.lots)
    BY <2>2, <2>3, AllTakenIsTotal
  <2>7. Total(w, {h[r] : r \in LotRows(Q)}) = Total(tk, LotRows(Q))
    BY <2>1, <2>4, <2>5, TotalRenamed
  <2> QED BY <1>9, <2>6, <2>7
<1>11. m = [r \in LotRows(Q) |-> left[r] - tk[r]]
  BY DEF NextLeft, IsLotRow
<1>12. m \in [LotRows(Q) -> Nat] /\ \A r \in LotRows(Q) : shut[r] => m[r] = 0
  <2> HIDE DEF m, tk
  <2>1. \A r \in LotRows(Q) : m[r] = left[r] - tk[r] /\ left[r] - tk[r] \in Nat
    BY <1>6, <1>11
  <2>2. \A r \in LotRows(Q) : shut[r] => m[r] = 0
    BY <1>4, <1>6, <2>1
  <2> QED BY <1>11, <2>1, <2>2
<1>13. after = {LotAs(r, P, m[r], shut[r]) : r \in LotRows(Q)}
  <2>1. after = {[h[r] EXCEPT !.remaining = @ - TakenFrom(take, h[r])] : r \in LotRows(Q)}
    <3> HIDE DEF h, take
    <3> QED BY <1>9
  <2>2. \A r \in LotRows(Q) : [h[r] EXCEPT !.remaining = @ - TakenFrom(take, h[r])] = LotAs(r, P, m[r], shut[r])
    <3> SUFFICES ASSUME NEW r \in LotRows(Q)
                 PROVE  [h[r] EXCEPT !.remaining = @ - TakenFrom(take, h[r])] = LotAs(r, P, m[r], shut[r])
      OBVIOUS
    <3>1. h[r] = LotAs(r, P, left[r], shut[r]) /\ h[r].remaining = left[r]
      <4> HIDE DEF h
      <4> QED BY <1>8 DEF LotAs
    <3>2. m[r] = left[r] - tk[r] /\ TakenFrom(take, h[r]) = tk[r]
      <4> HIDE DEF h, take, tk, m
      <4> QED BY <1>8, <1>11
    <3>3. [LotAs(r, P, left[r], shut[r]) EXCEPT !.remaining = m[r]] = LotAs(r, P, m[r], shut[r])
      <4> HIDE DEF m
      <4>1. \A n, c, k : [LotAs(r, P, n, c) EXCEPT !.remaining = k] = LotAs(r, P, k, c)
        BY LotLeft
      <4> QED BY <4>1, Zenon
    <3>4. [h[r] EXCEPT !.remaining = @ - TakenFrom(take, h[r])] = [h[r] EXCEPT !.remaining = m[r]]
      <4> HIDE DEF h, take, tk, m
      <4>1. h[r].remaining - TakenFrom(take, h[r]) = m[r]
        BY <3>1, <3>2
      <4> QED BY <4>1
    <3> HIDE DEF h, take, tk, m
    <3> QED BY <3>1, <3>3, <3>4
  <2> HIDE DEF h, take, tk, m, after
  <2> QED BY <2>1, <2>2
<1>14. LotsAre(z.lots, Q \cup {x}, P, m, shut)
  <2> HIDE DEF z, m, after, tk, take
  <2> QED BY <1>2, <1>4, <1>5, <1>12, <1>13 DEF LotsAre
<1>15. Replays(x, Q, P, left) <=> Total(tk, LotRows(Q)) = -x.delta
  BY DEF Replays
<1>16. z.sound <=> s.sound /\ Replays(x, Q, P, left)
  <2> HIDE DEF z, tk, all
  <2> QED BY <1>2, <1>10, <1>15
<1>17. \E c : LotsAre(z.lots, Q \cup {x}, P, m, c)
  <2> HIDE DEF z, m
  <2> QED BY <1>14
<1> QED BY <1>3, <1>16, <1>17 DEF z, m

-----------------------------------------------------------------------------
(***************************************************************************)
(* What is left, row after row.                                            *)
(***************************************************************************)

(* Replaying any row.                                                      *)
LEMMA RowReplays ==
    ASSUME NEW Q, NEW x, x \notin Q, RowsOK(Q \cup {x}), NEW P, InOrder(P),
           NEW s, Replayed(s), NEW left, NEW shut, LotsAre(s.lots, Q, P, left, shut)
    PROVE  /\ Replayed(Replay(x, s, P))
           /\ Replay(x, s, P).sound <=> s.sound /\ Replays(x, Q, P, left)
           /\ \E c : LotsAre(Replay(x, s, P).lots, Q \cup {x}, P, NextLeft(x, Q, P, left), c)
<1>1. CASE IsLotRow(x)
  <2>1. Replays(x, Q, P, left)
    BY <1>1 DEF Replays
  <2> QED BY <1>1, <2>1, LotReplays
<1>2. CASE ~IsLotRow(x) /\ x.kind = "expiry"
  BY <1>2, ExpiryReplays
<1>3. CASE ~IsLotRow(x) /\ x.kind # "expiry"
  BY <1>3, SpendReplays
<1> QED BY <1>1, <1>2, <1>3

(* What the lots of a replay hold is determined by it.                     *)
LEMMA LotsOnce ==
    ASSUME NEW R, RowsOK(R), NEW P, NEW lots, NEW left, NEW shut, LotsAre(lots, R, P, left, shut),
           NEW l2, NEW s2, LotsAre(lots, R, P, l2, s2)
    PROVE  left = l2
<1>1. ASSUME NEW r \in LotRows(R) PROVE left[r] = l2[r]
  <2>1. LotAs(r, P, left[r], shut[r]) \in lots
    BY DEF LotsAre
  <2>2. PICK q \in LotRows(R) : LotAs(r, P, left[r], shut[r]) = LotAs(q, P, l2[q], s2[q])
    BY <2>1 DEF LotsAre
  <2>3. r.id = q.id /\ left[r] = l2[q]
    BY <2>2 DEF LotAs
  <2> QED BY <2>3, LotsNamed
<1>2. left \in [LotRows(R) -> Nat] /\ l2 \in [LotRows(R) -> Nat]
  BY DEF LotsAre
<1> QED BY <1>1, <1>2

(* What a replay leaves of the lot of each row, and whether it throws.     *)
Left(R, P)  == CHOOSE left : \E shut : LotsAre(ReplayAll(R, P).lots, R, P, left, shut)
Sound(R, P) == ReplayAll(R, P).sound

(* Every replay has a lot for each lot row, and no other.                  *)
LEMMA ReplayHasLots ==
    ASSUME NEW R, RowsOK(R), NEW P, InOrder(P)
    PROVE  Replayed(ReplayAll(R, P)) /\ \E left, shut : LotsAre(ReplayAll(R, P).lots, R, P, left, shut)
<1> DEFINE T == {Q \in SUBSET R : /\ Replayed(ReplayAll(Q, P))
                                  /\ \E left, shut : LotsAre(ReplayAll(Q, P).lots, Q, P, left, shut)}
<1>1. ASSUME NEW U \in SUBSET R, \A r \in SUBSET U : r # U => r \in T PROVE U \in T
  <2>0. RowsOK(U)
    BY SomeRowsOK
  <2>1. CASE U = {}
    <3>1. ReplayAll(U, P) = EmptyReplay
      BY <2>0, <2>1, ReplayUnfolds
    <3>2. Replayed(EmptyReplay)
      BY DEF EmptyReplay, Replayed
    <3>3. LotRows(U) = {}
      BY <2>1 DEF LotRows
    <3>4. LotsAre({}, U, P, [r \in {} |-> 0], [r \in {} |-> FALSE])
      BY <3>3 DEF LotsAre
    <3>5. \E left, shut : LotsAre(EmptyReplay.lots, U, P, left, shut)
      BY <3>4 DEF EmptyReplay
    <3> QED BY <3>1, <3>2, <3>5
  <2>2. CASE U # {}
    <3> DEFINE x == LastReplayed(U)
               Q == U \ {x}
    <3>1. x \in U
      BY <2>0, <2>2, LastOfRows
    <3> HIDE DEF x
    <3>2. Q \cup {x} = U /\ x \notin Q /\ Q \in T
      BY <1>1, <3>1
    <3>3. PICK left, shut : LotsAre(ReplayAll(Q, P).lots, Q, P, left, shut)
      BY <3>2
    <3>4. Replayed(ReplayAll(Q, P))
      BY <3>2
    <3>5. ReplayAll(U, P) = Replay(x, ReplayAll(Q, P), P)
      BY <2>0, <2>2, ReplayUnfolds DEF x
    <3> HIDE DEF Q
    <3>6. /\ Replayed(Replay(x, ReplayAll(Q, P), P))
          /\ \E c : LotsAre(Replay(x, ReplayAll(Q, P), P).lots, Q \cup {x}, P, NextLeft(x, Q, P, left), c)
      BY <2>0, <3>2, <3>3, <3>4, RowReplays
    <3>7. \E l, c : LotsAre(ReplayAll(U, P).lots, U, P, l, c)
      BY <3>2, <3>5, <3>6
    <3> QED BY <3>5, <3>6, <3>7
  <2> QED BY <2>1, <2>2
<1>2. R \in T
  <2>1. IsFiniteSet(R)
    BY DEF RowsOK
  <2> HIDE DEF T
  <2> QED BY <1>1, <2>1, SetInduction
<1> QED BY <1>2

(* What is left of each lot is a natural number.                           *)
LEMMA LeftIs ==
    ASSUME NEW R, RowsOK(R), NEW P, InOrder(P)
    PROVE  /\ Left(R, P) \in [LotRows(R) -> Nat]
           /\ \E shut : LotsAre(ReplayAll(R, P).lots, R, P, Left(R, P), shut)
           /\ Replayed(ReplayAll(R, P))
<1>1. Replayed(ReplayAll(R, P)) /\ \E left, shut : LotsAre(ReplayAll(R, P).lots, R, P, left, shut)
  BY ReplayHasLots
<1>2. \E shut : LotsAre(ReplayAll(R, P).lots, R, P, Left(R, P), shut)
  <2>1. \E left : \E shut : LotsAre(ReplayAll(R, P).lots, R, P, left, shut)
    BY <1>1
  <2> QED BY <2>1, Zenon DEF Left
<1> QED BY <1>1, <1>2 DEF LotsAre

(* What the last row does to what is left, and whether it throws.          *)
LEMMA LeftUnfolds ==
    ASSUME NEW R, RowsOK(R), NEW P, InOrder(P), NEW x \in R, \A q \in R \ {x} : ReplaysBefore(q, x)
    PROVE  LET Q == R \ {x}
           IN  /\ RowsOK(Q)
               /\ Left(R, P) = NextLeft(x, Q, P, Left(Q, P))
               /\ Sound(R, P) <=> Sound(Q, P) /\ Replays(x, Q, P, Left(Q, P))
<1> DEFINE Q == R \ {x}
<1>1. RowsOK(Q) /\ x \notin Q /\ Q \cup {x} = R
  BY SomeRowsOK
<1>2. ReplayAll(R, P) = Replay(x, ReplayAll(Q, P), P)
  <2>1. LastReplayed(R) = x
    BY LastIs
  <2>2. R # {}
    OBVIOUS
  <2> QED BY <2>1, <2>2, ReplayUnfolds
<1> HIDE DEF Q
<1>3. PICK shut : LotsAre(ReplayAll(Q, P).lots, Q, P, Left(Q, P), shut)
  BY <1>1, LeftIs
<1>4. Replayed(ReplayAll(Q, P))
  BY <1>1, LeftIs
<1>5. RowsOK(Q \cup {x})
  BY <1>1
<1>6. /\ Replay(x, ReplayAll(Q, P), P).sound <=> ReplayAll(Q, P).sound /\ Replays(x, Q, P, Left(Q, P))
      /\ \E c : LotsAre(Replay(x, ReplayAll(Q, P), P).lots, Q \cup {x}, P, NextLeft(x, Q, P, Left(Q, P)), c)
  BY <1>1, <1>3, <1>4, <1>5, RowReplays
<1>7. Sound(R, P) <=> Sound(Q, P) /\ Replays(x, Q, P, Left(Q, P))
  BY <1>2, <1>6 DEF Sound
<1>8. Left(R, P) = NextLeft(x, Q, P, Left(Q, P))
  <2>1. PICK c : LotsAre(ReplayAll(R, P).lots, R, P, NextLeft(x, Q, P, Left(Q, P)), c)
    BY <1>1, <1>2, <1>6
  <2>2. PICK d : LotsAre(ReplayAll(R, P).lots, R, P, Left(R, P), d)
    BY LeftIs
  <2> QED BY <2>1, <2>2, LotsOnce
<1>9. RowsOK(Q) /\ Left(R, P) = NextLeft(x, Q, P, Left(Q, P)) /\ (Sound(R, P) <=> Sound(Q, P) /\ Replays(x, Q, P, Left(Q, P)))
  BY <1>1, <1>7, <1>8
<1> QED BY <1>9 DEF Q

(* An empty ledger replays.                                                *)
LEMMA NothingReplays ==
    ASSUME NEW P
    PROVE  Sound({}, P)
<1>1. RowsOK({})
  BY FS_EmptySet DEF RowsOK
<1>2. ReplayAll({}, P) = EmptyReplay
  BY <1>1, ReplayUnfolds
<1> QED BY <1>2 DEF Sound, EmptyReplay

-----------------------------------------------------------------------------
(***************************************************************************)
(* The balance and the lots to close, in terms of what is left.            *)
(***************************************************************************)

(* The lots of a replay, row by row.                                       *)
LEMMA LotsOfRows ==
    ASSUME NEW R, RowsOK(R), NEW P, InOrder(P), NEW lots, NEW left, NEW shut,
           LotsAre(lots, R, P, left, shut), NEW h, h = [r \in LotRows(R) |-> LotAs(r, P, left[r], shut[r])]
    PROVE  /\ lots = {h[r] : r \in LotRows(R)}
           /\ \A r \in LotRows(R) :
                /\ h[r].remaining = left[r] /\ h[r].id = r.id /\ h[r].eff = Eff(r, P)
                /\ (h[r].closed => left[r] = 0) /\ left[r] \in Nat /\ h[r] \in lots
<1>0. /\ left \in [LotRows(R) -> Nat] /\ shut \in [LotRows(R) -> BOOLEAN]
      /\ \A r \in LotRows(R) : shut[r] => left[r] = 0
      /\ lots = {h[r] : r \in LotRows(R)}
  BY DEF LotsAre
<1>1. ASSUME NEW r \in LotRows(R)
      PROVE  /\ h[r].remaining = left[r] /\ h[r].id = r.id /\ h[r].eff = Eff(r, P)
             /\ (h[r].closed => left[r] = 0) /\ left[r] \in Nat /\ h[r] \in lots
  <2>1. h[r] = LotAs(r, P, left[r], shut[r])
    OBVIOUS
  <2>2. h[r] \in lots /\ left[r] \in Nat
    BY <1>0
  <2>3. h[r].remaining = left[r] /\ h[r].id = r.id /\ h[r].eff = Eff(r, P)
    BY <2>1 DEF LotAs
  <2>4. h[r].closed <=> shut[r]
    BY <2>1 DEF LotAs
  <2> QED BY <1>0, <2>2, <2>3, <2>4
<1> QED BY <1>0, <1>1

(* The balance of a replay is what is left of the lots still alive.        *)
LEMMA BalanceIs ==
    ASSUME NEW R, RowsOK(R), NEW P, InOrder(P), NEW t \in Nat
    PROVE  Balance(ReplayAll(R, P), t) = Total(Left(R, P), Alive(R, P, t))
<1> DEFINE left == Left(R, P)
           lots == ReplayAll(R, P).lots
           V == {r \in Alive(R, P, t) : left[r] > 0}
           live == {l \in lots : IsLive(l, t)}
<1>1. PICK shut : LotsAre(lots, R, P, left, shut)
  BY LeftIs
<1>2. left \in [LotRows(R) -> Nat]
  BY LeftIs
<1> DEFINE h == [r \in LotRows(R) |-> LotAs(r, P, left[r], shut[r])]
<1>3. /\ lots = {h[r] : r \in LotRows(R)}
      /\ \A r \in LotRows(R) :
           /\ h[r].remaining = left[r] /\ h[r].id = r.id /\ h[r].eff = Eff(r, P)
           /\ (h[r].closed => left[r] = 0) /\ left[r] \in Nat /\ h[r] \in lots
  <2>1. h = [r \in LotRows(R) |-> LotAs(r, P, left[r], shut[r])]
    OBVIOUS
  <2> HIDE DEF lots, left, h
  <2> QED BY <1>1, <2>1, LotsOfRows
<1>4. \A r \in LotRows(R) : Eff(r, P).at \in Int
  BY EffType DEF LotRows
<1> HIDE DEF h, left, lots
<1>5. \A r \in LotRows(R) : IsLive(h[r], t) <=> r \in V
  <2> SUFFICES ASSUME NEW r \in LotRows(R) PROVE IsLive(h[r], t) <=> r \in V
    OBVIOUS
  <2>1. IsLive(h[r], t) <=> h[r].remaining > 0 /\ ~h[r].closed /\ (h[r].eff.at = Null \/ h[r].eff.at > t)
    BY Zenon DEF IsLive
  <2>2. ~Over(Eff(r, P), t) <=> (Eff(r, P).at = Null \/ Eff(r, P).at > t)
    BY <1>4 DEF Over
  <2>3. r \in V <=> left[r] > 0 /\ ~Over(Eff(r, P), t)
    BY DEF Alive
  <2> HIDE DEF V
  <2> QED BY <1>3, <2>1, <2>2, <2>3
<1>6. V \in SUBSET LotRows(R) /\ V \in SUBSET Alive(R, P, t) /\ Alive(R, P, t) \in SUBSET LotRows(R)
  BY DEF Alive
<1>7. live = {h[r] : r \in V}
  <2> HIDE DEF V
  <2> QED BY <1>3, <1>5, <1>6
<1>8. Remaining({h[r] : r \in V}) = Total(left, V)
  <2>1. \A r \in V : h[r].remaining = left[r] /\ h[r].id = r.id
    BY <1>3, <1>6
  <2> HIDE DEF V
  <2> QED BY <1>2, <1>6, <2>1, RemainingByRow
<1>9. Total(left, Alive(R, P, t)) = Total(left, V)
  <2>1. IsFiniteSet(Alive(R, P, t)) /\ \A r \in Alive(R, P, t) : left[r] \in Int
    BY <1>3, <1>6, LotRowsFinite
  <2>2. \A r \in Alive(R, P, t) \ V : left[r] = 0
    BY <1>3, <1>6
  <2> HIDE DEF V
  <2> QED BY <1>6, <2>1, <2>2, TotalOfSome
<1>10. Balance(ReplayAll(R, P), t) = Remaining(live)
  BY DEF Balance, Remaining, lots
<1> QED BY <1>7, <1>8, <1>9, <1>10 DEF left

(* The lots to close are those that are over with something left.          *)
ToClose(R, P, t) == {r \in LotRows(R) : Left(R, P)[r] > 0 /\ Over(Eff(r, P), t)}

(* The lots that a sweep closes are those that are over with something     *)
(* left.                                                                   *)
LEMMA CandidatesAre ==
    ASSUME NEW R, RowsOK(R), NEW P, InOrder(P), NEW t \in Nat
    PROVE  \E h : /\ \A r \in ToClose(R, P, t) : h[r].id = r.id /\ h[r].remaining = Left(R, P)[r]
                  /\ ExpiryCandidates(ReplayAll(R, P), t) = {h[r] : r \in ToClose(R, P, t)}
<1> DEFINE left == Left(R, P)
           lots == ReplayAll(R, P).lots
           V == ToClose(R, P, t)
<1>1. PICK shut : LotsAre(lots, R, P, left, shut)
  BY LeftIs
<1> DEFINE h == [r \in LotRows(R) |-> LotAs(r, P, left[r], shut[r])]
<1>3. /\ lots = {h[r] : r \in LotRows(R)}
      /\ \A r \in LotRows(R) :
           /\ h[r].remaining = left[r] /\ h[r].id = r.id /\ h[r].eff = Eff(r, P)
           /\ (h[r].closed => left[r] = 0) /\ left[r] \in Nat /\ h[r] \in lots
  <2>1. h = [r \in LotRows(R) |-> LotAs(r, P, left[r], shut[r])]
    OBVIOUS
  <2> HIDE DEF lots, left, h
  <2> QED BY <1>1, <2>1, LotsOfRows
<1>4. \A r \in LotRows(R) : Eff(r, P).at \in Int /\ (Eff(r, P).frozen => Eff(r, P).at = Null)
  BY EffType DEF LotRows
<1> DEFINE C(l) == l.remaining > 0 /\ ~l.closed /\ ~l.eff.frozen /\ l.eff.at # Null /\ l.eff.at <= t
<1>5. ExpiryCandidates(ReplayAll(R, P), t) = {l \in lots : C(l)}
  BY DEF ExpiryCandidates
<1> HIDE DEF h, lots
<1>6. \A r \in LotRows(R) : C(h[r]) <=> r \in V
  <2> SUFFICES ASSUME NEW r \in LotRows(R) PROVE C(h[r]) <=> r \in V
    OBVIOUS
  <2>1. r \in V <=> left[r] > 0 /\ Over(Eff(r, P), t)
    BY DEF ToClose
  <2>2. Over(Eff(r, P), t) <=> Eff(r, P).at # Null /\ Eff(r, P).at <= t
    BY DEF Over
  <2> HIDE DEF V, left
  <2> QED BY <1>3, <1>4, <2>1, <2>2
<1>7. V \subseteq LotRows(R)
  BY DEF ToClose
<1>8. {l \in lots : C(l)} = {h[r] : r \in V}
  <2> HIDE DEF V, C
  <2> QED BY <1>3, <1>6, <1>7
<1>9. \A r \in V : h[r].id = r.id /\ h[r].remaining = left[r]
  BY <1>3, <1>7
<1> HIDE DEF V, left
<1>10. \E g : /\ \A r \in V : g[r].id = r.id /\ g[r].remaining = left[r]
              /\ ExpiryCandidates(ReplayAll(R, P), t) = {g[r] : r \in V}
  BY <1>5, <1>8, <1>9
<1> QED BY <1>10 DEF V, left

-----------------------------------------------------------------------------
(***************************************************************************)
(* Induction over a history; the plain sum is what is left.                *)
(***************************************************************************)

(* Induction along a replay.                                               *)
LEMMA ReplayInduction ==
    ASSUME NEW R, RowsOK(R), NEW T, {} \in T,
           \A U \in SUBSET R : \A x \in U :
             (\A q \in U \ {x} : ReplaysBefore(q, x)) /\ U \ {x} \in T => U \in T
    PROVE  \A U \in SUBSET R : U \in T
<1>1. IsFiniteSet(R)
  BY DEF RowsOK
<1>2. ASSUME NEW U \in SUBSET R, \A r \in SUBSET U : r # U => r \in T PROVE U \in T
  <2>1. CASE U = {}
    BY <2>1
  <2>2. CASE U # {}
    <3> DEFINE x == LastReplayed(U)
    <3>1. x \in U /\ \A q \in U \ {x} : ReplaysBefore(q, x)
      BY <2>2, SomeRowsOK, LastOfRows
    <3> HIDE DEF x
    <3>2. U \ {x} \in T
      BY <1>2, <3>1
    <3> QED BY <3>1, <3>2
  <2> QED BY <2>1, <2>2
<1> QED BY <1>1, <1>2, SetInduction

(* What a row adds is what is left changes by.                             *)
LEMMA NextLeftAdds ==
    ASSUME NEW Q, NEW x, x \notin Q, RowsOK(Q \cup {x}), NEW P, InOrder(P),
           NEW left \in [LotRows(Q) -> Nat], Replays(x, Q, P, left)
    PROVE  /\ Total(NextLeft(x, Q, P, left), LotRows(Q \cup {x})) = Total(left, LotRows(Q)) + x.delta
           /\ Total(left, LotRows(Q)) \in Nat
<1> DEFINE m == NextLeft(x, Q, P, left)
<1>1. RowsOK(Q)
  BY SomeRowsOK
<1>2. x.delta \in Int /\ x.at \in Nat /\ (~IsLotRow(x) => -x.delta \in Nat) /\ (IsLotRow(x) => x.delta \in Nat)
  BY DEF RowsOK, IsLotRow
<1>3. IsFiniteSet(LotRows(Q)) /\ \A r \in LotRows(Q) : left[r] \in Nat /\ left[r] \in Int
  BY <1>1, LotRowsFinite
<1>4. Total(left, LotRows(Q)) \in Nat
  BY <1>3, TotalNat
<1>5. CASE IsLotRow(x)
  <2>1. m = [r \in LotRows(Q) \cup {x} |-> IF r = x THEN x.delta ELSE left[r]]
    BY <1>5 DEF NextLeft
  <2> HIDE DEF m
  <2>2. LotRows(Q \cup {x}) = LotRows(Q) \cup {x} /\ x \notin LotRows(Q)
    BY <1>5, RowsGrow DEF LotRows
  <2>3. (\A r \in LotRows(Q) : m[r] = left[r]) /\ m[x] = x.delta
    BY <2>1, <2>2
  <2> DEFINE U == LotRows(Q) \cup {x}
  <2>4. IsFiniteSet(U) /\ LotRows(Q) \in SUBSET U /\ x \in U
    BY <1>3, FS_AddElement
  <2>5. \A r \in U : m[r] \in Int
    BY <1>2, <1>3, <2>3
  <2> HIDE DEF U
  <2>6. Total(m, LotRows(Q) \cup {x}) = Total(m, LotRows(Q)) + m[x]
    BY <2>2, <2>4, <2>5, TotalAdds
  <2>7. Total(m, LotRows(Q)) = Total(left, LotRows(Q))
    BY <1>3, <2>3, TotalSame
  <2> QED BY <1>4, <2>2, <2>3, <2>6, <2>7 DEF m
<1>6. CASE ~IsLotRow(x) /\ x.kind = "expiry"
  <2>1. m = [r \in LotRows(Q) |-> IF r.id = x.ref THEN 0 ELSE left[r]]
    BY <1>6 DEF NextLeft
  <2>2. PICK r \in LotRows(Q) : r.id = x.ref /\ left[r] = -x.delta
    BY <1>6 DEF Replays
  <2>3. LotRows(Q \cup {x}) = LotRows(Q)
    BY <1>6, RowsGrow
  <2> HIDE DEF m
  <2>4. m[r] = left[r] + x.delta
    BY <1>2, <2>1, <2>2
  <2>5. \A q \in LotRows(Q) \ {r} : m[q] = left[q]
    BY <1>1, <2>1, <2>2, LotsNamed
  <2>6. Total(m, LotRows(Q)) = Total(left, LotRows(Q)) + x.delta
    BY <1>2, <1>3, <2>4, <2>5, SumsMove
  <2> QED BY <1>4, <2>3, <2>6 DEF m
<1>7. CASE ~IsLotRow(x) /\ x.kind # "expiry"
  <2> DEFINE tk == Taken(Q, P, left, -x.delta, x.at)
  <2>1. m = [r \in LotRows(Q) |-> left[r] - tk[r]]
    BY <1>7 DEF NextLeft
  <2>2. Total(tk, LotRows(Q)) = -x.delta
    BY <1>7 DEF Replays
  <2>3. LotRows(Q \cup {x}) = LotRows(Q)
    BY <1>7, RowsGrow
  <2>4. \A r \in LotRows(Q) : tk[r] \in Nat
    BY <1>1, <1>2, <1>7, TakenWithin
  <2> HIDE DEF m, tk
  <2>5. \A r \in LotRows(Q) : left[r] \in Int /\ tk[r] \in Int /\ m[r] = left[r] - tk[r]
    BY <1>3, <2>1, <2>4
  <2>6. Total(m, LotRows(Q)) = Total(left, LotRows(Q)) - Total(tk, LotRows(Q))
    BY <1>3, <2>5, TotalMinus
  <2> QED BY <1>2, <1>4, <2>2, <2>3, <2>6 DEF m
<1> QED BY <1>5, <1>6, <1>7

(* While nothing is thrown the rows add up to what is left.                *)
LEMMA LeftAddsUp ==
    ASSUME NEW R, RowsOK(R), NEW P, InOrder(P), Sound(R, P), NEW w, \A r \in R : w[r] = r.delta
    PROVE  Total(w, R) = Total(Left(R, P), LotRows(R))
<1> DEFINE T == {U \in SUBSET R : Sound(U, P) => Total(w, U) = Total(Left(U, P), LotRows(U))}
<1>1. {} \in T
  <2>1. Total(w, {}) = 0 /\ Total(Left({}, P), {}) = 0
    BY TotalEmpty
  <2>2. LotRows({}) = {}
    BY DEF LotRows
  <2> QED BY <2>1, <2>2
<1>2. ASSUME NEW U \in SUBSET R, NEW x \in U, \A q \in U \ {x} : ReplaysBefore(q, x), U \ {x} \in T
      PROVE  U \in T
  <2> DEFINE Q == U \ {x}
  <2>0. SUFFICES ASSUME Sound(U, P) PROVE Total(w, U) = Total(Left(U, P), LotRows(U))
    OBVIOUS
  <2>1. RowsOK(U)
    BY SomeRowsOK
  <2>2. /\ RowsOK(Q) /\ Left(U, P) = NextLeft(x, Q, P, Left(Q, P))
        /\ Sound(Q, P) /\ Replays(x, Q, P, Left(Q, P))
    BY <1>2, <2>0, <2>1, LeftUnfolds
  <2>3. Q \cup {x} = U /\ x \notin Q /\ Q \in SUBSET U
    OBVIOUS
  <2>4. Total(w, Q) = Total(Left(Q, P), LotRows(Q))
    BY <1>2, <2>2
  <2> HIDE DEF Q
  <2>5. Left(Q, P) \in [LotRows(Q) -> Nat]
    BY <2>2, LeftIs
  <2>6. Total(Left(U, P), LotRows(U)) = Total(Left(Q, P), LotRows(Q)) + x.delta
    BY <2>1, <2>2, <2>3, <2>5, NextLeftAdds
  <2>7. IsFiniteSet(U) /\ \A y \in U : w[y] \in Int
    BY <2>1 DEF RowsOK
  <2>8. Total(w, U) = Total(w, Q) + x.delta
    <3>1. w[x] = x.delta
      OBVIOUS
    <3>2. Total(w, Q \cup {x}) = Total(w, Q) + w[x]
      BY <2>3, <2>7, TotalAdds
    <3> QED BY <2>3, <3>1, <3>2
  <2> QED BY <2>4, <2>6, <2>8
<1>3. R \in T
  <2> HIDE DEF T
  <2>1. \A U \in SUBSET R : \A x \in U :
             (\A q \in U \ {x} : ReplaysBefore(q, x)) /\ U \ {x} \in T => U \in T
    BY <1>2
  <2>2. \A U \in SUBSET R : U \in T
    BY <1>1, <2>1, ReplayInduction
  <2> QED BY <2>2
<1> QED BY <1>3

-----------------------------------------------------------------------------
(***************************************************************************)
(* An expiry row empties its lot for good.                                 *)
(***************************************************************************)

(* Every expiry closed a lot, and what is closed stays empty.              *)
AllClosed(U, P) ==
  \A e \in U : e.kind = "expiry" =>
    \E r \in LotRows(U) : r.id = e.ref /\ Left(U, P)[r] = 0

(* In a history that replays a closed lot is empty.                        *)
LEMMA ClosedIsEmpty ==
    ASSUME NEW R, RowsOK(R), NEW P, InOrder(P), Sound(R, P)
    PROVE  AllClosed(R, P)
<1> DEFINE T == {U \in SUBSET R : Sound(U, P) => AllClosed(U, P)}
<1>1. {} \in T
  BY DEF AllClosed
<1>2. ASSUME NEW U \in SUBSET R, NEW x \in U, \A q \in U \ {x} : ReplaysBefore(q, x), U \ {x} \in T
      PROVE  U \in T
  <2> DEFINE Q == U \ {x}
             left == Left(Q, P)
             m == Left(U, P)
  <2>0. SUFFICES ASSUME Sound(U, P) PROVE AllClosed(U, P)
    OBVIOUS
  <2>1. RowsOK(U)
    BY SomeRowsOK
  <2>2. RowsOK(Q) /\ m = NextLeft(x, Q, P, left) /\ Sound(Q, P) /\ Replays(x, Q, P, left)
    BY <1>2, <2>0, <2>1, LeftUnfolds
  <2>3. AllClosed(Q, P)
    BY <1>2, <2>2
  <2>4. Q \cup {x} = U /\ x \notin Q /\ Q \in SUBSET U
    OBVIOUS
  <2> HIDE DEF Q, m
  <2>5. left \in [LotRows(Q) -> Nat]
    BY <2>2, LeftIs
  <2> HIDE DEF left
  <2>6. CASE IsLotRow(x)
    <3>1. m = [r \in LotRows(Q) \cup {x} |-> IF r = x THEN x.delta ELSE left[r]]
      BY <2>2, <2>6 DEF NextLeft
    <3>2. LotRows(U) = LotRows(Q) \cup {x} /\ x \notin LotRows(Q)
      BY <2>4, <2>6, RowsGrow DEF LotRows
    <3>3. \A r \in LotRows(Q) : m[r] = left[r]
      BY <3>1, <3>2
    <3>4. x.kind # "expiry"
      BY <2>6 DEF IsLotRow, LotKinds
    <3> QED BY <2>3, <2>4, <3>2, <3>3, <3>4 DEF AllClosed, left, m
  <2>7. CASE ~IsLotRow(x) /\ x.kind = "expiry"
    <3>1. m = [r \in LotRows(Q) |-> IF r.id = x.ref THEN 0 ELSE left[r]]
      BY <2>2, <2>7 DEF NextLeft
    <3>2. PICK r \in LotRows(Q) : r.id = x.ref /\ left[r] = -x.delta
      BY <2>2, <2>7 DEF Replays
    <3>3. LotRows(U) = LotRows(Q)
      BY <2>4, <2>7, RowsGrow
    <3>4. m[r] = 0 /\ \A q \in LotRows(Q) : left[q] = 0 => m[q] = 0
      BY <3>1, <3>2
    <3> QED BY <2>3, <2>4, <3>2, <3>3, <3>4 DEF AllClosed, left, m
  <2>8. CASE ~IsLotRow(x) /\ x.kind # "expiry"
    <3> DEFINE tk == Taken(Q, P, left, -x.delta, x.at)
    <3>1. m = [r \in LotRows(Q) |-> left[r] - tk[r]]
      BY <2>2, <2>8 DEF NextLeft
    <3>2. -x.delta \in Nat
      BY <2>1, <2>8 DEF RowsOK
    <3>3. LotRows(U) = LotRows(Q)
      BY <2>4, <2>8, RowsGrow
    <3>4. \A r \in LotRows(Q) : tk[r] \in Nat /\ tk[r] <= left[r]
      BY <2>2, <2>5, <3>2, TakenWithin
    <3> HIDE DEF tk
    <3>5. \A r \in LotRows(Q) : left[r] = 0 => m[r] = 0
      BY <3>1, <3>4
    <3> QED BY <2>3, <2>4, <2>8, <3>3, <3>5 DEF AllClosed, left, m
  <2> QED BY <2>6, <2>7, <2>8
<1>3. R \in T
  <2> HIDE DEF T
  <2>1. \A U \in SUBSET R : \A x \in U :
             (\A q \in U \ {x} : ReplaysBefore(q, x)) /\ U \ {x} \in T => U \in T
    BY <1>2
  <2>2. \A U \in SUBSET R : U \in T
    BY <1>1, <2>1, ReplayInduction
  <2> QED BY <2>2
<1> QED BY <1>3

-----------------------------------------------------------------------------
(***************************************************************************)
(* Two pause histories that agree on what is over by t: spends by t take   *)
(* the same from the lots that are over, and the same from the living      *)
(* together.                                                               *)
(***************************************************************************)

(* Lots that are over by t are spent before the others.                    *)
LEMMA EarlierFirst ==
    ASSUME NEW a, NEW b, NEW P, NEW t \in Nat, Eff(a, P).at \in Int, Eff(b, P).at \in Int,
           Over(Eff(b, P), t), SpentFirst(a, b, P)
    PROVE  Over(Eff(a, P), t)
<1> DEFINE x == LotAs(a, P, 0, FALSE)
           y == LotAs(b, P, 0, FALSE)
<1>1. x.eff = Eff(a, P) /\ y.eff = Eff(b, P)
  BY DEF LotAs
<1>2. \/ DateRank(x) < DateRank(y)
      \/ DateRank(x) = DateRank(y) /\ Date(x) <= Date(y)
  <2>1. DateRank(x) \in Int /\ DateRank(y) \in Int /\ Date(x) \in Int /\ Date(y) \in Int
    <3> HIDE DEF x, y
    <3> QED BY <1>1 DEF DateRank, Date
  <2>2. \/ DateRank(x) < DateRank(y)
        \/ DateRank(x) = DateRank(y) /\ Date(x) < Date(y)
        \/ DateRank(x) = DateRank(y) /\ Date(x) = Date(y)
    BY SpentFirstIs
  <2> HIDE DEF x, y
  <2> QED BY <2>1, <2>2
<1> HIDE DEF x, y
<1> QED BY <1>1, <1>2 DEF DateRank, Date, Over

(* The same lots over by t, with the same left, under two histories.       *)
SameOver(Q, P, O, t) ==
  \A r \in LotRows(Q) :
    /\ Over(Eff(r, P), t) => Eff(r, O) = Eff(r, P)
    /\ Over(Eff(r, O), t) => Over(Eff(r, P), t)

(* The lots alive at u that are over by t.                                 *)
Ending(Q, P, u, t) == {r \in Alive(Q, P, u) : Over(Eff(r, P), t)}

(* The lots alive at u are those that end by t and those alive at t; the   *)
(* first are spent first.                                                  *)
LEMMA AliveSplits ==
    ASSUME NEW Q, RowsOK(Q), NEW P, InOrder(P), NEW t \in Nat, NEW u \in Nat, u <= t
    PROVE  /\ Alive(Q, P, u) = Ending(Q, P, u, t) \cup Alive(Q, P, t)
           /\ Ending(Q, P, u, t) \cap Alive(Q, P, t) = {}
           /\ Alive(Q, P, u) \subseteq LotRows(Q)
           /\ SpentTogether(Ending(Q, P, u, t), Q, P, u) /\ SpentTogether(Alive(Q, P, u), Q, P, u)
           /\ \A q \in Ending(Q, P, u, t) :
                {r \in Alive(Q, P, u) : SpentFirst(r, q, P)} = {r \in Ending(Q, P, u, t) : SpentFirst(r, q, P)}
<1> DEFINE E == Ending(Q, P, u, t)
<1>0. E = {r \in Alive(Q, P, u) : Over(Eff(r, P), t)}
  BY DEF Ending
<1> HIDE DEF E
<1>1. \A r \in LotRows(Q) : Eff(r, P).at \in Int
  BY EffType DEF LotRows
<1>2. \A r \in LotRows(Q) : Over(Eff(r, P), u) => Over(Eff(r, P), t)
  BY <1>1 DEF Over
<1>3. Alive(Q, P, u) \subseteq LotRows(Q)
  BY DEF Alive
<1>4. ASSUME NEW q \in E, NEW r \in Alive(Q, P, u), SpentFirst(r, q, P) PROVE r \in E
  <2>1. Over(Eff(q, P), t) /\ q \in LotRows(Q) /\ r \in LotRows(Q)
    BY <1>0, <1>3
  <2>2. Over(Eff(r, P), t)
    BY <1>1, <1>4, <2>1, EarlierFirst
  <2> QED BY <1>0, <2>2
<1>5. Alive(Q, P, u) = E \cup Alive(Q, P, t) /\ E \cap Alive(Q, P, t) = {}
  BY <1>0, <1>2 DEF Alive
<1>6. SpentTogether(E, Q, P, u) /\ SpentTogether(Alive(Q, P, u), Q, P, u)
  BY <1>0, <1>4 DEF SpentTogether
<1>7. \A q \in E : {r \in Alive(Q, P, u) : SpentFirst(r, q, P)} = {r \in E : SpentFirst(r, q, P)}
  BY <1>0, <1>4
<1> QED BY <1>3, <1>5, <1>6, <1>7 DEF E

(* What a spend takes from the lots that are over by t, and from the rest. *)
LEMMA TakenSplits ==
    ASSUME NEW Q, RowsOK(Q), NEW P, InOrder(P), NEW t \in Nat, NEW u \in Nat, u <= t,
           NEW E, E = Ending(Q, P, u, t),
           NEW left \in [LotRows(Q) -> Nat], NEW a \in Nat, NEW tk, tk = Taken(Q, P, left, a, u)
    PROVE  /\ Total(left, E) \in Nat /\ Total(left, Alive(Q, P, t)) \in Nat
           /\ Total(tk, E) \in Nat /\ Total(tk, Alive(Q, P, t)) \in Nat
           /\ Total(tk, E) = AtMost(a, Total(left, E))
           /\ Total(tk, E) + Total(tk, Alive(Q, P, t)) = AtMost(a, Total(left, E) + Total(left, Alive(Q, P, t)))
           /\ Total(tk, LotRows(Q)) = Total(tk, E) + Total(tk, Alive(Q, P, t))
<1> DEFINE A == Alive(Q, P, u)
           L == Alive(Q, P, t)
<1>1. /\ A = E \cup L /\ E \cap L = {} /\ A \subseteq LotRows(Q)
      /\ SpentTogether(E, Q, P, u) /\ SpentTogether(A, Q, P, u)
  BY AliveSplits
<1>2. \A r \in LotRows(Q) : tk[r] \in Nat /\ tk[r] \in Int /\ left[r] \in Nat /\ left[r] \in Int
  BY TakenWithin
<1>3. Total(tk, E) = AtMost(a, Total(left, E)) /\ Total(tk, A) = AtMost(a, Total(left, A))
  BY <1>1, TakenTotals
<1>4. \A r \in LotRows(Q) \ A : tk[r] = 0
  BY DEF Taken
<1> HIDE DEF A, L
<1>5. A \in SUBSET LotRows(Q) /\ E \in SUBSET A /\ L = A \ E /\ L \in SUBSET LotRows(Q) /\ E \in SUBSET LotRows(Q)
  BY <1>1
<1>6. IsFiniteSet(A) /\ IsFiniteSet(E) /\ IsFiniteSet(L) /\ IsFiniteSet(LotRows(Q))
  BY <1>5, LotRowsFinite
<1>7. Total(left, A) = Total(left, E) + Total(left, L) /\ Total(tk, A) = Total(tk, E) + Total(tk, L)
  <2>1. \A y \in A : left[y] \in Int /\ tk[y] \in Int
    BY <1>2, <1>5
  <2> QED BY <1>5, <1>6, <2>1, TotalSplit
<1>8. Total(tk, LotRows(Q)) = Total(tk, A)
  BY <1>2, <1>4, <1>5, <1>6, TotalOfSome
<1>9. /\ Total(left, E) \in Nat /\ Total(left, L) \in Nat /\ Total(tk, E) \in Nat /\ Total(tk, L) \in Nat
  <2>1. \A y \in E : left[y] \in Nat /\ tk[y] \in Nat
    BY <1>2, <1>5
  <2>2. \A y \in L : left[y] \in Nat /\ tk[y] \in Nat
    BY <1>2, <1>5
  <2> QED BY <1>6, <2>1, <2>2, TotalNat
<1> QED BY <1>3, <1>7, <1>8, <1>9 DEF L

(* A spend takes the same under both: of each lot that is over, and of the *)
(* living together.                                                        *)
LEMMA TakenMatches ==
    ASSUME NEW Q, RowsOK(Q), NEW P, InOrder(P), NEW O, InOrder(O), NEW t \in Nat, NEW u \in Nat, u <= t,
           SameOver(Q, P, O, t), NEW a \in Nat,
           NEW left \in [LotRows(Q) -> Nat], NEW lefto \in [LotRows(Q) -> Nat],
           \A r \in LotRows(Q) : Over(Eff(r, P), t) => left[r] = lefto[r],
           Total(left, Alive(Q, P, t)) = Total(lefto, Alive(Q, O, t))
    PROVE  /\ \A r \in LotRows(Q) : Over(Eff(r, P), t) =>
                Taken(Q, P, left, a, u)[r] = Taken(Q, O, lefto, a, u)[r]
           /\ Total(Taken(Q, P, left, a, u), Alive(Q, P, t)) = Total(Taken(Q, O, lefto, a, u), Alive(Q, O, t))
           /\ Total(Taken(Q, P, left, a, u), LotRows(Q)) = Total(Taken(Q, O, lefto, a, u), LotRows(Q))
<1> DEFINE tk == Taken(Q, P, left, a, u)
           tko == Taken(Q, O, lefto, a, u)
           E == Ending(Q, P, u, t)
           F == Ending(Q, O, u, t)
<1>1. E = F /\ \A r \in E : r \in LotRows(Q) /\ Over(Eff(r, P), t) /\ Eff(r, O) = Eff(r, P)
  BY DEF SameOver, Alive, Ending
<1>2. \A r \in LotRows(Q) : Over(Eff(r, P), t) => (r \in Alive(Q, P, u) <=> r \in E) /\ (r \in Alive(Q, O, u) <=> r \in E)
  BY DEF SameOver, Alive, Ending
<1>3. /\ \A q \in E : {r \in Alive(Q, P, u) : SpentFirst(r, q, P)} = {r \in E : SpentFirst(r, q, P)}
      /\ \A q \in F : {r \in Alive(Q, O, u) : SpentFirst(r, q, O)} = {r \in F : SpentFirst(r, q, O)}
  <2>2. \A q \in E : {r \in Alive(Q, P, u) : SpentFirst(r, q, P)} = {r \in E : SpentFirst(r, q, P)}
    BY AliveSplits
  <2>3. \A q \in F : {r \in Alive(Q, O, u) : SpentFirst(r, q, O)} = {r \in F : SpentFirst(r, q, O)}
    BY AliveSplits
  <2> QED BY <2>2, <2>3
<1>4. ASSUME NEW q \in E, NEW r \in E PROVE SpentFirst(r, q, P) <=> SpentFirst(r, q, O)
  <2>1. LotAs(r, P, 0, FALSE) = LotAs(r, O, 0, FALSE) /\ LotAs(q, P, 0, FALSE) = LotAs(q, O, 0, FALSE)
    BY <1>1, Zenon DEF LotAs
  <2> QED BY <2>1, Zenon DEF SpentFirst
<1>5. /\ Total(left, E) \in Nat /\ Total(left, Alive(Q, P, t)) \in Nat
      /\ Total(tk, E) \in Nat /\ Total(tk, Alive(Q, P, t)) \in Nat
      /\ Total(tk, E) = AtMost(a, Total(left, E))
      /\ Total(tk, E) + Total(tk, Alive(Q, P, t)) = AtMost(a, Total(left, E) + Total(left, Alive(Q, P, t)))
      /\ Total(tk, LotRows(Q)) = Total(tk, E) + Total(tk, Alive(Q, P, t))
  <2>1. tk = Taken(Q, P, left, a, u) /\ E = Ending(Q, P, u, t)
    OBVIOUS
  <2> HIDE DEF tk, E
  <2> QED BY <2>1, TakenSplits
<1>6. /\ Total(lefto, F) \in Nat /\ Total(lefto, Alive(Q, O, t)) \in Nat
      /\ Total(tko, F) \in Nat /\ Total(tko, Alive(Q, O, t)) \in Nat
      /\ Total(tko, F) = AtMost(a, Total(lefto, F))
      /\ Total(tko, F) + Total(tko, Alive(Q, O, t)) = AtMost(a, Total(lefto, F) + Total(lefto, Alive(Q, O, t)))
      /\ Total(tko, LotRows(Q)) = Total(tko, F) + Total(tko, Alive(Q, O, t))
  <2>1. tko = Taken(Q, O, lefto, a, u) /\ F = Ending(Q, O, u, t)
    OBVIOUS
  <2> HIDE DEF tko, F, tk, E
  <2>2. /\ RowsOK(Q) /\ InOrder(O) /\ t \in Nat /\ u \in Nat /\ u <= t
        /\ lefto \in [LotRows(Q) -> Nat] /\ a \in Nat
    OBVIOUS
  <2> QED BY ONLY <2>1, <2>2, TakenSplits
<1>7. ASSUME NEW V \in SUBSET E PROVE Total(left, V) = Total(lefto, V)
  <2>1. IsFiniteSet(V)
    <3>1. V \in SUBSET LotRows(Q)
      BY <1>1
    <3> QED BY <3>1, LotRowsFinite
  <2>2. \A r \in V : left[r] = lefto[r]
    BY <1>1
  <2> QED BY <2>1, <2>2, TotalSame
<1>8. ASSUME NEW q \in E PROVE AheadOf(q, Q, P, left, u) = AheadOf(q, Q, O, lefto, u)
  <2> DEFINE V == {r \in E : SpentFirst(r, q, P)}
  <2>1. {r \in Alive(Q, P, u) : SpentFirst(r, q, P)} = V
    <3> HIDE DEF E
    <3> QED BY <1>3
  <2>2. {r \in Alive(Q, O, u) : SpentFirst(r, q, O)} = V
    <3> HIDE DEF E, F
    <3> QED BY <1>1, <1>3, <1>4
  <2>3. V \in SUBSET E
    <3> HIDE DEF E
    <3> QED OBVIOUS
  <2>4. Total(left, V) = Total(lefto, V)
    <3> HIDE DEF E, V
    <3> QED BY <1>7, <2>3
  <2> QED BY <2>1, <2>2, <2>4, Zenon DEF AheadOf
<1>9. ASSUME NEW r \in LotRows(Q), Over(Eff(r, P), t) PROVE tk[r] = tko[r]
  <2>1. tk[r] = IF r \in Alive(Q, P, u) THEN Clip(left[r], a - AheadOf(r, Q, P, left, u)) ELSE 0
    BY DEF Taken
  <2>2. tko[r] = IF r \in Alive(Q, O, u) THEN Clip(lefto[r], a - AheadOf(r, Q, O, lefto, u)) ELSE 0
    BY DEF Taken
  <2>3. left[r] = lefto[r]
    BY <1>9
  <2> HIDE DEF tk, tko, E
  <2> QED BY <1>2, <1>8, <1>9, <2>1, <2>2, <2>3
<1>10. Total(left, E) = Total(lefto, E)
  <2> HIDE DEF E
  <2> QED BY <1>7
<1> HIDE DEF E, F, tk, tko
<1>11. Total(tk, Alive(Q, P, t)) = Total(tko, Alive(Q, O, t)) /\ Total(tk, LotRows(Q)) = Total(tko, LotRows(Q))
  BY <1>1, <1>5, <1>6, <1>10 DEF AtMost
<1> QED BY <1>9, <1>11 DEF tk, tko

-----------------------------------------------------------------------------
(***************************************************************************)
(* ... so the two replay a history up to t alike.                          *)
(***************************************************************************)

(* Two histories that replay alike as far as t.                            *)
Alike(Q, P, O, t) ==
  /\ Sound(Q, P) <=> Sound(Q, O)
  /\ \A r \in LotRows(Q) : Over(Eff(r, P), t) => Left(Q, P)[r] = Left(Q, O)[r]
  /\ Total(Left(Q, P), Alive(Q, P, t)) = Total(Left(Q, O), Alive(Q, O, t))

(* A row that joins, among the living.                                     *)
LEMMA AliveGrows ==
    ASSUME NEW Q, NEW x, NEW P, NEW t
    PROVE  /\ IsLotRow(x) /\ ~Over(Eff(x, P), t) => Alive(Q \cup {x}, P, t) = Alive(Q, P, t) \cup {x}
           /\ IsLotRow(x) /\ Over(Eff(x, P), t) => Alive(Q \cup {x}, P, t) = Alive(Q, P, t)
           /\ ~IsLotRow(x) => Alive(Q \cup {x}, P, t) = Alive(Q, P, t)
BY DEF Alive, LotRows

(* The same lots live under both.                                          *)
LEMMA SameAlive ==
    ASSUME NEW Q, NEW P, NEW O, NEW t, SameOver(Q, P, O, t)
    PROVE  Alive(Q, O, t) = Alive(Q, P, t)
BY DEF SameOver, Alive

(* What a lot row adds to what is left.                                    *)
LEMMA LotAddsTo ==
    ASSUME NEW Q, NEW x, x \notin Q, RowsOK(Q \cup {x}), IsLotRow(x), NEW P,
           NEW left \in [LotRows(Q) -> Nat]
    PROVE  /\ NextLeft(x, Q, P, left)[x] = x.delta /\ x.delta \in Nat
           /\ \A r \in LotRows(Q) : NextLeft(x, Q, P, left)[r] = left[r]
           /\ \A V \in SUBSET LotRows(Q) :
                /\ Total(NextLeft(x, Q, P, left), V \cup {x}) = Total(left, V) + x.delta
                /\ Total(NextLeft(x, Q, P, left), V) = Total(left, V)
                /\ Total(left, V) \in Nat
<1> DEFINE m == NextLeft(x, Q, P, left)
<1>1. m = [r \in LotRows(Q) \cup {x} |-> IF r = x THEN x.delta ELSE left[r]]
  BY DEF NextLeft
<1> HIDE DEF m
<1>2. x \notin LotRows(Q) /\ RowsOK(Q) /\ x.delta \in Nat
  BY SomeRowsOK DEF LotRows, RowsOK, IsLotRow
<1>3. m[x] = x.delta /\ \A r \in LotRows(Q) : m[r] = left[r] /\ left[r] \in Nat /\ left[r] \in Int
  BY <1>1, <1>2
<1>4. ASSUME NEW V \in SUBSET LotRows(Q)
      PROVE  Total(m, V \cup {x}) = Total(left, V) + x.delta /\ Total(m, V) = Total(left, V) /\ Total(left, V) \in Nat
  <2>1. IsFiniteSet(V) /\ x \notin V
    BY <1>2, LotRowsFinite
  <2>2. Total(left, V) \in Nat
    BY <1>3, <2>1, TotalNat
  <2>3. Total(m, V) = Total(left, V)
    BY <1>3, <2>1, TotalSame
  <2>4. Total(m, V \cup {x}) = Total(m, V) + m[x]
    <3> DEFINE U == V \cup {x}
    <3>1. IsFiniteSet(U) /\ V \in SUBSET U /\ x \in U
      BY <2>1, FS_AddElement
    <3>2. \A y \in U : m[y] \in Int
      BY <1>2, <1>3
    <3> HIDE DEF U
    <3> QED BY <2>1, <3>1, <3>2, TotalAdds
  <2> QED BY <1>3, <2>2, <2>3, <2>4
<1> QED BY <1>2, <1>3, <1>4 DEF m

(* Pauses that agree on what is over replay a history alike.               *)
LEMMA ReplaysAlike ==
    ASSUME NEW R, RowsOK(R), NEW t \in Nat, \A r \in R : r.at <= t,
           NEW P, InOrder(P), NEW O, InOrder(O), SameOver(R, P, O, t),
           \A e \in R : e.kind = "expiry" => \A r \in LotRows(R) : r.id = e.ref => Over(Eff(r, P), t)
    PROVE  Alike(R, P, O, t)
<1> DEFINE T == {U \in SUBSET R : Alike(U, P, O, t)}
<1>1. {} \in T
  <2>1. Alive({}, P, t) = {} /\ Alive({}, O, t) = {} /\ LotRows({}) = {}
    BY DEF Alive, LotRows
  <2>2. Total(Left({}, P), {}) = 0 /\ Total(Left({}, O), {}) = 0
    BY TotalEmpty
  <2>3. Sound({}, P) /\ Sound({}, O)
    BY NothingReplays
  <2> QED BY <2>1, <2>2, <2>3 DEF Alike
<1>2. ASSUME NEW U \in SUBSET R, NEW x \in U, \A q \in U \ {x} : ReplaysBefore(q, x), U \ {x} \in T
      PROVE  U \in T
  <2> DEFINE Q == U \ {x}
             left == Left(Q, P)
             lefto == Left(Q, O)
             m == Left(U, P)
             mo == Left(U, O)
  <2>1. RowsOK(U) /\ RowsOK(Q)
    BY SomeRowsOK
  <2>2. /\ m = NextLeft(x, Q, P, left) /\ (Sound(U, P) <=> Sound(Q, P) /\ Replays(x, Q, P, left))
        /\ mo = NextLeft(x, Q, O, lefto) /\ (Sound(U, O) <=> Sound(Q, O) /\ Replays(x, Q, O, lefto))
    BY <1>2, <2>1, LeftUnfolds
  <2>3. left \in [LotRows(Q) -> Nat] /\ lefto \in [LotRows(Q) -> Nat]
    BY <2>1, LeftIs
  <2>4. Alike(Q, P, O, t)
    BY <1>2
  <2>5. Q \cup {x} = U /\ x \notin Q /\ Q \in SUBSET U /\ x \in R
    OBVIOUS
  <2>6. /\ Sound(Q, P) <=> Sound(Q, O)
        /\ \A r \in LotRows(Q) : Over(Eff(r, P), t) => left[r] = lefto[r]
        /\ Total(left, Alive(Q, P, t)) = Total(lefto, Alive(Q, O, t))
    BY <2>4 DEF Alike
  <2> HIDE DEF Q, left, lefto, m, mo
  <2>7. RowsOK(Q \cup {x}) /\ LotRows(Q) \subseteq LotRows(U) /\ LotRows(U) \subseteq LotRows(R)
    BY <2>1, <2>5 DEF LotRows
  <2>8. SameOver(Q, P, O, t) /\ SameOver(U, P, O, t)
    BY <2>7 DEF SameOver
  <2>9. /\ Alive(Q, O, t) = Alive(Q, P, t) /\ Alive(U, O, t) = Alive(U, P, t)
        /\ Alive(Q, P, t) \in SUBSET LotRows(Q)
    BY <2>8, SameAlive DEF Alive
  <2>14. /\ IsLotRow(x) /\ ~Over(Eff(x, P), t) => Alive(U, P, t) = Alive(Q, P, t) \cup {x}
         /\ IsLotRow(x) /\ Over(Eff(x, P), t) => Alive(U, P, t) = Alive(Q, P, t)
         /\ ~IsLotRow(x) => Alive(U, P, t) = Alive(Q, P, t)
    <3>1. /\ IsLotRow(x) /\ ~Over(Eff(x, P), t) => Alive(Q \cup {x}, P, t) = Alive(Q, P, t) \cup {x}
          /\ IsLotRow(x) /\ Over(Eff(x, P), t) => Alive(Q \cup {x}, P, t) = Alive(Q, P, t)
          /\ ~IsLotRow(x) => Alive(Q \cup {x}, P, t) = Alive(Q, P, t)
      BY DEF Alive, LotRows
    <3> QED BY <2>5, <3>1
  <2>15. mo = NextLeft(x, Q, O, lefto) /\ lefto \in [LotRows(Q) -> Nat] /\ Alive(Q, P, t) \in SUBSET LotRows(Q)
    BY <2>2, <2>3, <2>9
  <2>10. SUFFICES /\ Sound(U, P) <=> Sound(U, O)
                  /\ \A r \in LotRows(U) : Over(Eff(r, P), t) => m[r] = mo[r]
                  /\ Total(m, Alive(U, P, t)) = Total(mo, Alive(U, P, t))
    BY <2>9 DEF Alike, m, mo
  <2>11. CASE IsLotRow(x)
    <3>1. Replays(x, Q, P, left) /\ Replays(x, Q, O, lefto)
      BY <2>11 DEF Replays
    <3>2. /\ Total(m, Alive(Q, P, t) \cup {x}) = Total(left, Alive(Q, P, t)) + x.delta
          /\ Total(m, Alive(Q, P, t)) = Total(left, Alive(Q, P, t))
          /\ m[x] = x.delta /\ \A r \in LotRows(Q) : m[r] = left[r]
      BY <2>2, <2>3, <2>5, <2>7, <2>9, <2>11, LotAddsTo
    <3>3. /\ Total(mo, Alive(Q, P, t) \cup {x}) = Total(lefto, Alive(Q, P, t)) + x.delta
          /\ Total(mo, Alive(Q, P, t)) = Total(lefto, Alive(Q, P, t))
          /\ mo[x] = x.delta /\ \A r \in LotRows(Q) : mo[r] = lefto[r]
      BY ONLY <2>5, <2>7, <2>11, <2>15, LotAddsTo
    <3>4. LotRows(U) = LotRows(Q) \cup {x}
      BY <2>5, <2>11, RowsGrow
    <3>5. Total(m, Alive(U, P, t)) = Total(mo, Alive(U, P, t))
      <4>1. CASE Over(Eff(x, P), t)
        <5>1. Alive(U, P, t) = Alive(Q, P, t)
          BY <2>11, <2>14, <4>1
        <5> QED BY <2>6, <2>9, <3>2, <3>3, <5>1
      <4>2. CASE ~Over(Eff(x, P), t)
        <5>1. Alive(U, P, t) = Alive(Q, P, t) \cup {x}
          BY <2>11, <2>14, <4>2
        <5> QED BY <2>6, <2>9, <3>2, <3>3, <5>1
      <4> QED BY <4>1, <4>2
    <3> QED BY <2>2, <2>6, <3>1, <3>2, <3>3, <3>4, <3>5
  <2>12. CASE ~IsLotRow(x) /\ x.kind = "expiry"
    <3>1. /\ m = [r \in LotRows(Q) |-> IF r.id = x.ref THEN 0 ELSE left[r]]
          /\ mo = [r \in LotRows(Q) |-> IF r.id = x.ref THEN 0 ELSE lefto[r]]
      BY <2>2, <2>12 DEF NextLeft
    <3>2. LotRows(U) = LotRows(Q) /\ Alive(U, P, t) = Alive(Q, P, t)
      BY <2>5, <2>12, <2>14, RowsGrow
    <3>3. \A r \in LotRows(Q) : r.id = x.ref => Over(Eff(r, P), t)
      BY <2>5, <2>7, <2>12
    <3>4. Replays(x, Q, P, left) <=> Replays(x, Q, O, lefto)
      BY <2>6, <2>12, <3>3 DEF Replays
    <3>5. \A r \in Alive(Q, P, t) : m[r] = left[r] /\ mo[r] = lefto[r]
      BY <3>1, <3>3 DEF Alive
    <3>6. IsFiniteSet(Alive(Q, P, t))
      BY <2>1, <2>9, LotRowsFinite
    <3>7. /\ Total(m, Alive(Q, P, t)) = Total(left, Alive(Q, P, t))
          /\ Total(mo, Alive(Q, P, t)) = Total(lefto, Alive(Q, P, t))
      BY <3>5, <3>6, TotalSame
    <3>8. \A r \in LotRows(Q) : Over(Eff(r, P), t) => m[r] = mo[r]
      BY <2>6, <3>1
    <3> QED BY <2>2, <2>6, <2>9, <3>2, <3>4, <3>7, <3>8
  <2>13. CASE ~IsLotRow(x) /\ x.kind # "expiry"
    <3> DEFINE a == -x.delta
               u == x.at
               tk == Taken(Q, P, left, a, u)
               tko == Taken(Q, O, lefto, a, u)
    <3>1. /\ m = [r \in LotRows(Q) |-> left[r] - tk[r]]
          /\ mo = [r \in LotRows(Q) |-> lefto[r] - tko[r]]
      BY <2>2, <2>13 DEF NextLeft
    <3>2. a \in Nat /\ u \in Nat /\ u <= t
      BY <2>1, <2>5, <2>13 DEF RowsOK
    <3>3. LotRows(U) = LotRows(Q) /\ Alive(U, P, t) = Alive(Q, P, t)
      BY <2>5, <2>13, <2>14, RowsGrow
    <3>4. /\ Replays(x, Q, P, left) <=> Total(tk, LotRows(Q)) = a
          /\ Replays(x, Q, O, lefto) <=> Total(tko, LotRows(Q)) = a
      BY <2>13 DEF Replays
    <3> HIDE DEF a, u
    <3>5. \A r \in LotRows(Q) : tk[r] \in Nat /\ tko[r] \in Nat
      BY <2>1, <2>3, <3>2, TakenWithin
    <3>6. /\ \A r \in LotRows(Q) : Over(Eff(r, P), t) => tk[r] = tko[r]
          /\ Total(tk, Alive(Q, P, t)) = Total(tko, Alive(Q, O, t))
          /\ Total(tk, LotRows(Q)) = Total(tko, LotRows(Q))
      BY <2>1, <2>3, <2>6, <2>8, <3>2, TakenMatches
    <3> HIDE DEF tk, tko
    <3>7. \A r \in LotRows(Q) : /\ left[r] \in Int /\ tk[r] \in Int /\ m[r] = left[r] - tk[r]
                                /\ lefto[r] \in Int /\ tko[r] \in Int /\ mo[r] = lefto[r] - tko[r]
      BY <2>3, <3>1, <3>5
    <3>8. IsFiniteSet(Alive(Q, P, t))
      BY <2>1, <2>9, LotRowsFinite
    <3>9. /\ Total(m, Alive(Q, P, t)) = Total(left, Alive(Q, P, t)) - Total(tk, Alive(Q, P, t))
          /\ Total(mo, Alive(Q, P, t)) = Total(lefto, Alive(Q, P, t)) - Total(tko, Alive(Q, P, t))
      <4>1. \A r \in Alive(Q, P, t) : /\ left[r] \in Int /\ tk[r] \in Int /\ m[r] = left[r] - tk[r]
                                      /\ lefto[r] \in Int /\ tko[r] \in Int /\ mo[r] = lefto[r] - tko[r]
        BY <2>9, <3>7
      <4> QED BY <3>8, <4>1, TotalMinus
    <3>10. Total(m, Alive(U, P, t)) = Total(mo, Alive(U, P, t))
      BY <2>6, <2>9, <3>3, <3>6, <3>9
    <3>11. \A r \in LotRows(U) : Over(Eff(r, P), t) => m[r] = mo[r]
      BY <2>6, <3>3, <3>6, <3>7
    <3>12. Sound(U, P) <=> Sound(U, O)
      BY <2>2, <2>6, <3>4, <3>6
    <3> QED BY <3>10, <3>11, <3>12
  <2> QED BY <2>11, <2>12, <2>13
<1>3. R \in T
  <2> HIDE DEF T
  <2>1. \A U \in SUBSET R : \A x \in U :
             (\A q \in U \ {x} : ReplaysBefore(q, x)) /\ U \ {x} \in T => U \in T
    BY <1>2
  <2>2. \A U \in SUBSET R : U \in T
    BY <1>1, <2>1, ReplayInduction
  <2> QED BY <2>2
<1> QED BY <1>3

-----------------------------------------------------------------------------
(***************************************************************************)
(* One instant. Its lots come first, its expiries next, its spends last:   *)
(* the instant replays when the history before it does, each expiry closes *)
(* what its lot opened with, and the spends ask no more than the living    *)
(* lots opened with together. In which order the rows were written does    *)
(* not matter.                                                             *)
(***************************************************************************)

(* The rows of the last instant t, and what the lots had when it opened.   *)
Closings(U, t)  == {e \in U : e.at = t /\ ~IsLotRow(e) /\ e.kind = "expiry"}
Outgoings(U, t) == {x \in U : x.at = t /\ ~IsLotRow(x) /\ x.kind # "expiry"}

(* What each lot holds before the spends and expiries of the instant.      *)
Opening(U, P, t) ==
  [r \in LotRows(U) |-> IF r.at = t THEN r.delta ELSE Left(RowsUpTo(U, t - 1), P)[r]]

(* The spends of an instant share what was alive in it.                    *)
Settles(U, P, t, w) ==
  /\ Sound(RowsUpTo(U, t - 1), P)
  /\ \A e \in Closings(U, t) : \E r \in LotRows(U) : r.id = e.ref /\ Opening(U, P, t)[r] = -e.delta
  /\ Total(w, Outgoings(U, t)) <= Total(Opening(U, P, t), Alive(U, P, t))

(* ... and leave the rest: of a lot that is over, all or nothing.          *)
Leaves(U, P, t, w) ==
  /\ \A r \in LotRows(U) : Over(Eff(r, P), t) =>
       Left(U, P)[r] = IF \E e \in Closings(U, t) : e.ref = r.id THEN 0 ELSE Opening(U, P, t)[r]
  /\ Total(Left(U, P), Alive(U, P, t))
       = Total(Opening(U, P, t), Alive(U, P, t)) - Total(w, Outgoings(U, t))

(* An instant replays just if it settles.                                  *)
Settled(U, P, t, w) ==
  /\ Sound(U, P) <=> Settles(U, P, t, w)
  /\ Sound(U, P) => Leaves(U, P, t, w)

(* Rows whose expiries only close lots that are over.                      *)
RowsBy(R, P, t) ==
  /\ RowsOK(R) /\ \A r \in R : r.at <= t
  /\ \A e \in R : e.kind = "expiry" => \A r \in LotRows(R) : r.id = e.ref => Over(Eff(r, P), t)

(* Some of the rows up to t are rows up to t.                              *)
LEMMA SomeRowsBy ==
    ASSUME NEW R, NEW P, NEW t, RowsBy(R, P, t), NEW U \in SUBSET R
    PROVE  RowsBy(U, P, t)
<1>1. RowsOK(R) /\ LotRows(U) \subseteq LotRows(R)
  BY DEF RowsBy, LotRows
<1>2. RowsOK(U)
  BY <1>1, SomeRowsOK
<1> QED BY <1>1, <1>2 DEF RowsBy

(* What the lots open an instant with.                                     *)
LEMMA OpeningType ==
    ASSUME NEW U, RowsOK(U), NEW P, InOrder(P), NEW t \in Nat, \A r \in U : r.at <= t
    PROVE  /\ Opening(U, P, t) \in [LotRows(U) -> Nat]
           /\ Alive(U, P, t) \in SUBSET LotRows(U)
           /\ Total(Opening(U, P, t), Alive(U, P, t)) \in Nat
<1> DEFINE B == RowsUpTo(U, t - 1)
<1>1. RowsOK(B)
  BY SomeRowsOK DEF RowsUpTo
<1>2. Left(B, P) \in [LotRows(B) -> Nat]
  <2> HIDE DEF B
  <2> QED BY <1>1, LeftIs
<1>3. ASSUME NEW r \in LotRows(U) PROVE r.delta \in Nat /\ (r.at # t => r \in LotRows(B))
  <2>1. r \in U /\ r.at \in Nat /\ r.delta \in Int /\ r.delta > 0 /\ r.at <= t
    BY DEF LotRows, IsLotRow, RowsOK
  <2> QED BY <2>1 DEF LotRows, RowsUpTo
<1>4. Opening(U, P, t) \in [LotRows(U) -> Nat]
  <2>1. Opening(U, P, t) = [r \in LotRows(U) |-> IF r.at = t THEN r.delta ELSE Left(B, P)[r]]
    BY DEF Opening
  <2> HIDE DEF B
  <2> QED BY <1>2, <1>3, <2>1
<1>5. Alive(U, P, t) \in SUBSET LotRows(U)
  BY DEF Alive
<1>6. IsFiniteSet(Alive(U, P, t))
  BY <1>5, LotRowsFinite
<1>7. \A r \in Alive(U, P, t) : Opening(U, P, t)[r] \in Nat
  BY <1>4, <1>5
<1> QED BY <1>4, <1>5, <1>6, <1>7, TotalNat

(* Before anything happens in the instant.                                 *)
LEMMA SettledBefore ==
    ASSUME NEW U, RowsOK(U), NEW P, InOrder(P), NEW t \in Nat, \A r \in U : r.at < t, NEW w
    PROVE  Settled(U, P, t, w)
<1>1. \A r \in U : r.at \in Nat
  BY DEF RowsOK
<1>2. RowsUpTo(U, t - 1) = U /\ Closings(U, t) = {} /\ Outgoings(U, t) = {}
  BY <1>1 DEF RowsUpTo, Closings, Outgoings
<1>3. Left(U, P) \in [LotRows(U) -> Nat]
  BY LeftIs
<1>4. Opening(U, P, t) = Left(U, P)
  <2>1. \A r \in LotRows(U) : r.at # t
    BY <1>1 DEF LotRows
  <2> QED BY <1>2, <1>3, <2>1 DEF Opening
<1>5. Total(w, {}) = 0
  BY TotalEmpty
<1>6. Total(Left(U, P), Alive(U, P, t)) \in Nat
  <2>1. IsFiniteSet(Alive(U, P, t)) /\ Alive(U, P, t) \in SUBSET LotRows(U)
    BY LotRowsFinite DEF Alive
  <2> QED BY <1>3, <2>1, TotalNat
<1> QED BY <1>2, <1>4, <1>5, <1>6 DEF Settled, Settles, Leaves

(* One row of the instant more.                                            *)
LEMMA EarlierRows ==
    ASSUME NEW Q, NEW x, NEW t \in Nat, x.at = t
    PROVE  /\ RowsUpTo(Q \cup {x}, t - 1) = RowsUpTo(Q, t - 1)
           /\ IsLotRow(x) => Closings(Q \cup {x}, t) = Closings(Q, t) /\ Outgoings(Q \cup {x}, t) = Outgoings(Q, t)
           /\ ~IsLotRow(x) /\ x.kind = "expiry" =>
                Closings(Q \cup {x}, t) = Closings(Q, t) \cup {x} /\ Outgoings(Q \cup {x}, t) = Outgoings(Q, t)
           /\ ~IsLotRow(x) /\ x.kind # "expiry" =>
                Closings(Q \cup {x}, t) = Closings(Q, t) /\ Outgoings(Q \cup {x}, t) = Outgoings(Q, t) \cup {x}
BY DEF RowsUpTo, Closings, Outgoings

(* A row that joins the instant, in what the lots open with.               *)
LEMMA OpeningGrows ==
    ASSUME NEW Q, NEW x, x \notin Q, NEW P, NEW t \in Nat, x.at = t
    PROVE  /\ IsLotRow(x) => Opening(Q \cup {x}, P, t) = NextLeft(x, Q, P, Opening(Q, P, t))
           /\ ~IsLotRow(x) => Opening(Q \cup {x}, P, t) = Opening(Q, P, t)
<1>1. RowsUpTo(Q \cup {x}, t - 1) = RowsUpTo(Q, t - 1)
  BY EarlierRows
<1>2. CASE IsLotRow(x)
  <2>1. LotRows(Q \cup {x}) = LotRows(Q) \cup {x} /\ x \notin LotRows(Q)
    BY <1>2, RowsGrow DEF LotRows
  <2> QED BY <1>1, <1>2, <2>1 DEF Opening, NextLeft
<1>3. CASE ~IsLotRow(x)
  <2>1. LotRows(Q \cup {x}) = LotRows(Q)
    BY <1>3, RowsGrow
  <2> QED BY <1>1, <1>3, <2>1 DEF Opening
<1> QED BY <1>2, <1>3

(* A lot row of the instant.                                               *)
LEMMA LotSettles ==
    ASSUME NEW Q, NEW x, x \notin Q, RowsOK(Q \cup {x}), NEW P, InOrder(P),
           NEW t \in Nat, x.at = t, \A q \in Q : ReplaysBefore(q, x), RowsBy(Q, P, t),
           NEW w, Settled(Q, P, t, w), IsLotRow(x)
    PROVE  Settled(Q \cup {x}, P, t, w)
<1> DEFINE U == Q \cup {x}
           o == Opening(Q, P, t)
           n == Opening(U, P, t)
           left == Left(Q, P)
           m == Left(U, P)
           A == Alive(Q, P, t)
<1>1. RowsOK(Q) /\ (\A r \in Q : r.at <= t) /\ (\A r \in Q : r.at \in Nat /\ r.at <= t)
  BY DEF RowsBy, RowsOK
<1>2. Closings(Q, t) = {} /\ Outgoings(Q, t) = {}
  <2>1. ASSUME NEW q \in Q, q.at = t PROVE IsLotRow(q)
    <3>1. ReplayRank(q) <= ReplayRank(x) /\ ReplayRank(q) \in Nat
      BY <2>1, RanksAre DEF ReplaysBefore
    <3>2. ReplayRank(x) = 0
      BY DEF ReplayRank
    <3> QED BY <3>1, <3>2 DEF ReplayRank
  <2> QED BY <2>1 DEF Closings, Outgoings
<1>3. Closings(U, t) = {} /\ Outgoings(U, t) = {} /\ RowsUpTo(U, t - 1) = RowsUpTo(Q, t - 1)
  <2>1. Closings(U, t) = {} /\ Outgoings(U, t) = {}
    BY <1>2 DEF Closings, Outgoings
  <2>2. RowsUpTo(U, t - 1) = RowsUpTo(Q, t - 1)
    BY EarlierRows
  <2> QED BY <2>1, <2>2
<1>4. n = NextLeft(x, Q, P, o)
  BY OpeningGrows
<1>5. m = NextLeft(x, Q, P, left) /\ (Sound(U, P) <=> Sound(Q, P) /\ Replays(x, Q, P, left))
  <2>1. U \ {x} = Q /\ x \in U
    OBVIOUS
  <2>2. \A q \in U \ {x} : ReplaysBefore(q, x)
    OBVIOUS
  <2> HIDE DEF U
  <2> QED BY <2>1, <2>2, LeftUnfolds DEF U
<1>6. Replays(x, Q, P, left)
  BY DEF Replays
<1>7. o \in [LotRows(Q) -> Nat] /\ A \in SUBSET LotRows(Q) /\ left \in [LotRows(Q) -> Nat]
  BY <1>1, OpeningType, LeftIs
<1> HIDE DEF o, n, left, m
<1>8. /\ Total(n, A \cup {x}) = Total(o, A) + x.delta /\ Total(n, A) = Total(o, A)
      /\ Total(o, A) \in Nat /\ x.delta \in Nat
      /\ n[x] = x.delta /\ \A r \in LotRows(Q) : n[r] = o[r]
  <2>1. x \notin Q /\ RowsOK(Q \cup {x}) /\ IsLotRow(x)
    OBVIOUS
  <2> QED BY <1>4, <1>7, <2>1, LotAddsTo
<1>9. /\ Total(m, A \cup {x}) = Total(left, A) + x.delta /\ Total(m, A) = Total(left, A)
      /\ m[x] = x.delta /\ \A r \in LotRows(Q) : m[r] = left[r]
  <2>1. x \notin Q /\ RowsOK(Q \cup {x}) /\ IsLotRow(x)
    OBVIOUS
  <2> QED BY <1>5, <1>7, <2>1, LotAddsTo
<1>10. Total(w, {}) = 0
  BY TotalEmpty
<1>11. LotRows(U) = LotRows(Q) \cup {x}
  BY RowsGrow
<1>12. (Over(Eff(x, P), t) => Alive(U, P, t) = A) /\ (~Over(Eff(x, P), t) => Alive(U, P, t) = A \cup {x})
  BY AliveGrows
<1>13. Sound(Q, P) => (\A r \in LotRows(Q) : Over(Eff(r, P), t) => left[r] = o[r]) /\ Total(left, A) = Total(o, A)
  BY <1>2, <1>8, <1>10 DEF Settled, Leaves, left, o
<1>14. Sound(Q, P) <=> Sound(RowsUpTo(Q, t - 1), P)
  BY <1>2, <1>8, <1>10 DEF Settled, Settles, o
<1>15. Total(n, Alive(U, P, t)) \in Nat
  <2> HIDE DEF U, A
  <2>1. CASE Over(Eff(x, P), t)
    BY <1>8, <1>12, <2>1
  <2>2. CASE ~Over(Eff(x, P), t)
    <3>1. Total(n, Alive(U, P, t)) = Total(o, A) + x.delta
      BY <1>8, <1>12, <2>2, Zenon
    <3> QED BY <1>8, <3>1
  <2> QED BY <2>1, <2>2
<1> HIDE DEF U, A
<1>16. Sound(U, P) <=> Settles(U, P, t, w)
  BY <1>3, <1>5, <1>6, <1>10, <1>14, <1>15 DEF Settles, n
<1>17. ASSUME Sound(U, P) PROVE Leaves(U, P, t, w)
  <2>1. (\A r \in LotRows(Q) : Over(Eff(r, P), t) => left[r] = o[r]) /\ Total(left, A) = Total(o, A)
    BY <1>5, <1>13, <1>17
  <2>2. \A r \in LotRows(U) : Over(Eff(r, P), t) => m[r] = n[r]
    BY <1>8, <1>9, <1>11, <2>1
  <2>3. Total(m, Alive(U, P, t)) = Total(n, Alive(U, P, t)) - 0
    <3>1. CASE Over(Eff(x, P), t)
      BY <1>8, <1>9, <1>12, <2>1, <3>1
    <3>2. CASE ~Over(Eff(x, P), t)
      <4>1. Total(n, Alive(U, P, t)) = Total(o, A) + x.delta
        BY <1>8, <1>12, <3>2, Zenon
      <4>2. Total(m, Alive(U, P, t)) = Total(left, A) + x.delta
        BY <1>9, <1>12, <3>2, Zenon
      <4> QED BY <1>8, <2>1, <4>1, <4>2
    <3> QED BY <3>1, <3>2
  <2> QED BY <1>3, <1>10, <2>2, <2>3 DEF Leaves, m, n
<1> QED BY <1>16, <1>17 DEF Settled, U

(* An expiry row of the instant.                                           *)
LEMMA ExpirySettles ==
    ASSUME NEW Q, NEW x, x \notin Q, RowsOK(Q \cup {x}), NEW P, InOrder(P),
           NEW t \in Nat, x.at = t, \A q \in Q : ReplaysBefore(q, x), RowsBy(Q \cup {x}, P, t),
           NEW w, Settled(Q, P, t, w), ~IsLotRow(x), x.kind = "expiry"
    PROVE  Settled(Q \cup {x}, P, t, w)
<1> DEFINE U == Q \cup {x}
           o == Opening(Q, P, t)
           left == Left(Q, P)
           m == Left(U, P)
           A == Alive(Q, P, t)
<1>1. /\ RowsOK(Q) /\ (\A r \in Q : r.at <= t) /\ (\A r \in Q : r.at \in Nat /\ r.at <= t)
      /\ \A r \in LotRows(Q) : r.id = x.ref => Over(Eff(r, P), t)
  BY SomeRowsOK DEF RowsBy, RowsOK, LotRows
<1>2. Outgoings(Q, t) = {}
  <2>1. ASSUME NEW q \in Q, q.at = t PROVE IsLotRow(q) \/ q.kind = "expiry"
    <3>1. ReplayRank(q) <= ReplayRank(x) /\ ReplayRank(q) \in Nat
      BY <2>1, RanksAre DEF ReplaysBefore
    <3>2. ReplayRank(x) = 1
      BY DEF ReplayRank
    <3> QED BY <3>1, <3>2 DEF ReplayRank
  <2> QED BY <2>1 DEF Outgoings
<1>3. /\ Closings(U, t) = Closings(Q, t) \cup {x} /\ Outgoings(U, t) = {}
      /\ RowsUpTo(U, t - 1) = RowsUpTo(Q, t - 1) /\ Opening(U, P, t) = o
  <2>1. Closings(U, t) = Closings(Q, t) \cup {x} /\ Outgoings(U, t) = {}
    BY <1>2 DEF Closings, Outgoings
  <2>2. RowsUpTo(U, t - 1) = RowsUpTo(Q, t - 1)
    BY EarlierRows
  <2>3. Opening(U, P, t) = o
    BY OpeningGrows
  <2> QED BY <2>1, <2>2, <2>3
<1>4. \A e \in Closings(Q, t) : e.ref # x.ref
  <2>1. \A e \in Closings(Q, t) : /\ e \in Q \cup {x} /\ ReplayRank(e) = 1 /\ e.kind = "expiry"
                                  /\ e # x
    BY DEF Closings, ReplayRank
  <2>2. ReplayRank(x) = 1
    BY DEF ReplayRank
  <2> QED BY <2>1, <2>2 DEF RowsOK
<1>5. m = NextLeft(x, Q, P, left) /\ (Sound(U, P) <=> Sound(Q, P) /\ Replays(x, Q, P, left))
  <2>1. U \ {x} = Q /\ x \in U
    OBVIOUS
  <2>2. \A q \in U \ {x} : ReplaysBefore(q, x)
    OBVIOUS
  <2> HIDE DEF U
  <2> QED BY <2>1, <2>2, LeftUnfolds DEF U
<1>6. Replays(x, Q, P, left) <=> \E r \in LotRows(Q) : r.id = x.ref /\ left[r] = -x.delta
  BY DEF Replays
<1>7. o \in [LotRows(Q) -> Nat] /\ A \in SUBSET LotRows(Q) /\ left \in [LotRows(Q) -> Nat]
  BY <1>1, OpeningType, LeftIs
<1>8. m = [r \in LotRows(Q) |-> IF r.id = x.ref THEN 0 ELSE left[r]]
  BY <1>5 DEF NextLeft
<1> HIDE DEF o, left, m
<1>9. Total(o, A) \in Nat /\ Total(w, {}) = 0
  BY <1>1, OpeningType, TotalEmpty DEF o
<1>10. LotRows(U) = LotRows(Q) /\ Alive(U, P, t) = A
  BY RowsGrow, AliveGrows
<1>11. Sound(Q, P) => /\ \A r \in LotRows(Q) : Over(Eff(r, P), t) =>
                          left[r] = IF \E e \in Closings(Q, t) : e.ref = r.id THEN 0 ELSE o[r]
                      /\ Total(left, A) = Total(o, A) - 0
  BY <1>2, <1>9 DEF Settled, Leaves, left, o
<1>12. Sound(Q, P) <=> /\ Sound(RowsUpTo(Q, t - 1), P)
                       /\ \A e \in Closings(Q, t) : \E r \in LotRows(Q) : r.id = e.ref /\ o[r] = -e.delta
  BY <1>2, <1>9 DEF Settled, Settles, o
<1>13. Sound(Q, P) => \A r \in LotRows(Q) : r.id = x.ref => left[r] = o[r]
  BY <1>1, <1>4, <1>11
<1> HIDE DEF U, A
<1>14. Settles(U, P, t, w) <=> /\ Sound(RowsUpTo(Q, t - 1), P)
                               /\ \A e \in Closings(Q, t) \cup {x} : \E r \in LotRows(Q) : r.id = e.ref /\ o[r] = -e.delta
  BY <1>3, <1>9, <1>10 DEF Settles
<1>16. Sound(U, P) <=> Settles(U, P, t, w)
  BY <1>5, <1>6, <1>12, <1>13, <1>14
<1>17. ASSUME Sound(U, P) PROVE Leaves(U, P, t, w)
  <2>1. /\ \A r \in LotRows(Q) : Over(Eff(r, P), t) =>
             left[r] = IF \E e \in Closings(Q, t) : e.ref = r.id THEN 0 ELSE o[r]
        /\ Total(left, A) = Total(o, A)
    BY <1>5, <1>7, <1>9, <1>11, <1>17
  <2>2. ASSUME NEW r \in LotRows(U), Over(Eff(r, P), t)
        PROVE  m[r] = IF \E e \in Closings(U, t) : e.ref = r.id THEN 0 ELSE o[r]
    BY <1>3, <1>8, <1>10, <2>1, <2>2
  <2>3. Total(m, A) = Total(left, A)
    <3>1. IsFiniteSet(A)
      BY <1>1, <1>7, LotRowsFinite
    <3>2. \A r \in A : m[r] = left[r]
      BY <1>1, <1>7, <1>8 DEF A, Alive
    <3> QED BY <3>1, <3>2, TotalSame
  <2>4. Total(m, A) = Total(o, A) - 0
    BY <1>9, <2>1, <2>3
  <2> QED BY <1>3, <1>9, <1>10, <2>2, <2>4 DEF Leaves, m
<1> QED BY <1>16, <1>17 DEF Settled, U

(* A spend is met when what is alive covers it, and then takes just that.  *)
LEMMA SpendIsMet ==
    ASSUME NEW Q, RowsOK(Q), NEW P, InOrder(P), NEW t \in Nat,
           NEW left \in [LotRows(Q) -> Nat], NEW a \in Nat
    PROVE  /\ Total(left, Alive(Q, P, t)) \in Nat
           /\ Total(Taken(Q, P, left, a, t), LotRows(Q)) = AtMost(a, Total(left, Alive(Q, P, t)))
           /\ Total(Taken(Q, P, left, a, t), Alive(Q, P, t)) = AtMost(a, Total(left, Alive(Q, P, t)))
           /\ \A r \in LotRows(Q) : Over(Eff(r, P), t) => Taken(Q, P, left, a, t)[r] = 0
<1> DEFINE A == Alive(Q, P, t)
           tk == Taken(Q, P, left, a, t)
<1>1. SpentTogether(A, Q, P, t)
  BY DEF SpentTogether
<1>2. Total(tk, A) = AtMost(a, Total(left, A)) /\ Total(left, A) \in Nat
  BY <1>1, TakenTotals
<1>3. \A r \in LotRows(Q) : tk[r] \in Nat
  BY TakenWithin
<1>4. A \in SUBSET LotRows(Q) /\ \A r \in LotRows(Q) \ A : tk[r] = 0
  BY DEF Alive, Taken
<1>5. \A r \in LotRows(Q) : Over(Eff(r, P), t) => r \notin A
  BY DEF Alive
<1>6. IsFiniteSet(LotRows(Q))
  BY LotRowsFinite
<1> HIDE DEF A, tk
<1>7. Total(tk, LotRows(Q)) = Total(tk, A)
  <2>1. \A r \in LotRows(Q) : tk[r] \in Int
    BY <1>3
  <2> QED BY <1>4, <1>6, <2>1, TotalOfSome
<1> QED BY <1>2, <1>4, <1>5, <1>7 DEF A, tk

(* A spend of the instant.                                                 *)
LEMMA SpendSettles ==
    ASSUME NEW Q, NEW x, x \notin Q, RowsOK(Q \cup {x}), NEW P, InOrder(P),
           NEW t \in Nat, x.at = t, \A q \in Q : ReplaysBefore(q, x), RowsBy(Q, P, t),
           NEW w, \A q \in Q \cup {x} : w[q] = -q.delta,
           Settled(Q, P, t, w), ~IsLotRow(x), x.kind # "expiry"
    PROVE  Settled(Q \cup {x}, P, t, w)
<1> DEFINE U == Q \cup {x}
           o == Opening(Q, P, t)
           left == Left(Q, P)
           m == Left(U, P)
           A == Alive(Q, P, t)
           a == -x.delta
           tk == Taken(Q, P, left, a, t)
           out == Outgoings(Q, t)
           all == Total(o, A)
           spent == Total(w, out)
<1>1. RowsOK(Q) /\ (\A r \in Q : r.at <= t) /\ a \in Nat
  BY DEF RowsBy, RowsOK
<1>2. /\ Closings(U, t) = Closings(Q, t) /\ Outgoings(U, t) = out \cup {x} /\ x \notin out
      /\ RowsUpTo(U, t - 1) = RowsUpTo(Q, t - 1) /\ Opening(U, P, t) = o
  <2>1. Closings(U, t) = Closings(Q, t) /\ Outgoings(U, t) = out \cup {x} /\ x \notin out
    BY DEF Closings, Outgoings
  <2>2. RowsUpTo(U, t - 1) = RowsUpTo(Q, t - 1)
    BY EarlierRows
  <2>3. Opening(U, P, t) = o
    <3>1. LotRows(U) = LotRows(Q)
      BY RowsGrow
    <3> QED BY <2>2, <3>1 DEF Opening
  <2> QED BY <2>1, <2>2, <2>3
<1>3. m = NextLeft(x, Q, P, left) /\ (Sound(U, P) <=> Sound(Q, P) /\ Replays(x, Q, P, left))
  <2>1. U \ {x} = Q /\ x \in U
    OBVIOUS
  <2>2. \A q \in U \ {x} : ReplaysBefore(q, x)
    OBVIOUS
  <2> HIDE DEF U
  <2> QED BY <2>1, <2>2, LeftUnfolds DEF U
<1>4. /\ Replays(x, Q, P, left) <=> Total(tk, LotRows(Q)) = a
      /\ m = [r \in LotRows(Q) |-> left[r] - tk[r]]
  BY <1>3 DEF Replays, NextLeft
<1>5. o \in [LotRows(Q) -> Nat] /\ A \in SUBSET LotRows(Q) /\ left \in [LotRows(Q) -> Nat] /\ all \in Nat
  BY <1>1, OpeningType, LeftIs
<1>6. IsFiniteSet(A) /\ IsFiniteSet(out) /\ \A q \in out : w[q] \in Nat
  <2>1. out \subseteq Q /\ IsFiniteSet(Q)
    BY <1>1 DEF Outgoings, RowsOK
  <2>2. \A q \in out : w[q] \in Nat
    BY <2>1 DEF Outgoings, RowsOK
  <2>3. IsFiniteSet(A)
    BY <1>1, <1>5, LotRowsFinite
  <2> QED BY <2>1, <2>2, <2>3, FS_Subset
<1>7. spent \in Nat /\ Total(w, Outgoings(U, t)) = spent + a
  <2> DEFINE V == out \cup {x}
  <2>1. IsFiniteSet(V) /\ out \in SUBSET V /\ x \in V
    BY <1>6, FS_AddElement
  <2>2. w[x] = a /\ \A q \in V : w[q] \in Int
    BY <1>1, <1>6
  <2>3. spent \in Nat
    BY <1>6, TotalNat
  <2> HIDE DEF V, out, a
  <2>4. Total(w, out \cup {x}) = Total(w, out) + w[x]
    BY <1>2, <2>1, <2>2, TotalAdds
  <2> QED BY <1>2, <2>2, <2>3, <2>4
<1>8. /\ Total(left, A) \in Nat
      /\ Total(tk, LotRows(Q)) = AtMost(a, Total(left, A)) /\ Total(tk, A) = AtMost(a, Total(left, A))
      /\ \A r \in LotRows(Q) : Over(Eff(r, P), t) => tk[r] = 0
  BY <1>1, <1>5, SpendIsMet
<1>9. LotRows(U) = LotRows(Q) /\ Alive(U, P, t) = A
  <2>1. LotRows(Q \cup {x}) = LotRows(Q)
    BY RowsGrow
  <2>2. Alive(Q \cup {x}, P, t) = Alive(Q, P, t)
    BY <2>1 DEF Alive
  <2> QED BY <2>1, <2>2
<1>10. Sound(Q, P) => /\ \A r \in LotRows(Q) : Over(Eff(r, P), t) =>
                          left[r] = IF \E e \in Closings(Q, t) : e.ref = r.id THEN 0 ELSE o[r]
                      /\ Total(left, A) = all - spent
  BY DEF Settled, Leaves
<1>11. Sound(Q, P) <=> /\ Sound(RowsUpTo(Q, t - 1), P)
                       /\ \A e \in Closings(Q, t) : \E r \in LotRows(Q) : r.id = e.ref /\ o[r] = -e.delta
                       /\ spent <= all
  BY DEF Settled, Settles
<1>12. a > 0
  BY DEF RowsOK
<1>13. \A r \in LotRows(Q) : tk[r] \in Nat
  BY <1>1, <1>5, TakenWithin
<1> HIDE DEF U, o, left, m, A, a, tk, out, all, spent
<1>14. Settles(U, P, t, w) <=> /\ Sound(RowsUpTo(Q, t - 1), P)
                               /\ \A e \in Closings(Q, t) : \E r \in LotRows(Q) : r.id = e.ref /\ o[r] = -e.delta
                               /\ spent + a <= all
  <2>1. Total(Opening(U, P, t), Alive(U, P, t)) = all
    BY <1>2, <1>9 DEF all
  <2> QED BY <1>2, <1>7, <1>9, <2>1 DEF Settles
<1>15. Sound(U, P) <=> Settles(U, P, t, w)
  <2>1. Sound(Q, P) => (Total(tk, LotRows(Q)) = a <=> spent + a <= all)
    BY <1>1, <1>5, <1>7, <1>8, <1>10, <1>12 DEF AtMost
  <2>2. spent + a <= all => spent <= all
    BY <1>5, <1>7, <1>12, <1>1
  <2> QED BY <1>3, <1>4, <1>11, <1>14, <2>1, <2>2
<1>16. ASSUME Sound(U, P) PROVE Leaves(U, P, t, w)
  <2>1. /\ \A r \in LotRows(Q) : Over(Eff(r, P), t) =>
             left[r] = IF \E e \in Closings(Q, t) : e.ref = r.id THEN 0 ELSE o[r]
        /\ Total(left, A) = all - spent /\ Total(tk, LotRows(Q)) = a
    BY <1>3, <1>4, <1>10, <1>16
  <2>2. \A r \in LotRows(Q) : left[r] \in Int /\ tk[r] \in Int /\ m[r] = left[r] - tk[r] /\ left[r] - 0 = left[r]
    BY <1>4, <1>5, <1>13
  <2>3. ASSUME NEW r \in LotRows(U), Over(Eff(r, P), t)
        PROVE  m[r] = IF \E e \in Closings(U, t) : e.ref = r.id THEN 0 ELSE o[r]
    <3>1. m[r] = left[r]
      BY <1>8, <1>9, <2>2, <2>3
    <3> QED BY <1>2, <1>9, <2>1, <2>3, <3>1
  <2>4. Total(m, A) = Total(left, A) - Total(tk, A)
    <3>1. \A r \in A : left[r] \in Int /\ tk[r] \in Int /\ m[r] = left[r] - tk[r]
      BY <1>5, <2>2
    <3> QED BY <1>6, <3>1, TotalMinus
  <2>5. Total(m, A) = all - (spent + a)
    BY <1>1, <1>5, <1>7, <1>8, <2>1, <2>4
  <2>6. Total(Opening(U, P, t), Alive(U, P, t)) = all
    BY <1>2, <1>9 DEF all
  <2> QED BY <1>2, <1>7, <1>9, <2>3, <2>5, <2>6 DEF Leaves, m
<1> QED BY <1>15, <1>16 DEF Settled, U

(* What an instant leaves, and when it can be replayed at all.             *)
LEMMA InstantSettles ==
    ASSUME NEW R, NEW P, InOrder(P), NEW t \in Nat, RowsBy(R, P, t),
           NEW w, \A r \in R : w[r] = -r.delta
    PROVE  Settled(R, P, t, w)
<1> DEFINE T == {U \in SUBSET R : Settled(U, P, t, w)}
<1>0. RowsOK(R)
  BY DEF RowsBy
<1>1. {} \in T
  <2>1. RowsOK({})
    BY <1>0, SomeRowsOK
  <2> QED BY <2>1, SettledBefore
<1>2. ASSUME NEW U \in SUBSET R, NEW x \in U, \A q \in U \ {x} : ReplaysBefore(q, x), U \ {x} \in T
      PROVE  U \in T
  <2> DEFINE Q == U \ {x}
  <2>1. /\ Q \cup {x} = U /\ x \notin Q /\ RowsBy(U, P, t) /\ RowsBy(Q, P, t) /\ RowsOK(U)
        /\ Settled(Q, P, t, w) /\ (\A q \in Q : ReplaysBefore(q, x)) /\ \A q \in U : w[q] = -q.delta
    BY <1>2, SomeRowsBy DEF RowsBy
  <2>2. x.at \in Nat /\ x.at <= t /\ \A q \in Q : q.at \in Nat /\ q.at <= x.at
    BY <2>1 DEF RowsBy, RowsOK, ReplaysBefore
  <2> HIDE DEF Q
  <2>3. CASE x.at < t
    <3>1. \A q \in U : q.at < t
      BY <2>1, <2>2, <2>3
    <3> QED BY <2>1, <3>1, SettledBefore
  <2>4. CASE x.at = t
    <3>1. /\ RowsOK(Q \cup {x}) /\ RowsBy(Q \cup {x}, P, t) /\ \A q \in Q \cup {x} : w[q] = -q.delta
      BY <2>1
    <3>2. CASE IsLotRow(x)
      <4>1. Settled(Q \cup {x}, P, t, w)
        BY <2>1, <2>4, <3>1, <3>2, LotSettles
      <4> QED BY <2>1, <4>1
    <3>3. CASE ~IsLotRow(x) /\ x.kind = "expiry"
      <4>1. Settled(Q \cup {x}, P, t, w)
        BY <2>1, <2>4, <3>1, <3>3, ExpirySettles
      <4> QED BY <2>1, <4>1
    <3>4. CASE ~IsLotRow(x) /\ x.kind # "expiry"
      <4>1. Settled(Q \cup {x}, P, t, w)
        BY <2>1, <2>4, <3>1, <3>4, SpendSettles
      <4> QED BY <2>1, <4>1
    <3> QED BY <3>2, <3>3, <3>4
  <2> QED BY <2>2, <2>3, <2>4
<1>3. R \in T
  <2> HIDE DEF T
  <2>1. \A U \in SUBSET R : \A x \in U :
             (\A q \in U \ {x} : ReplaysBefore(q, x)) /\ U \ {x} \in T => U \in T
    BY <1>2
  <2>2. \A U \in SUBSET R : U \in T
    BY <1>0, <1>1, <2>1, ReplayInduction
  <2> QED BY <2>2
<1> QED BY <1>3

-----------------------------------------------------------------------------
(***************************************************************************)
(* What a writer may add now to a history that replays: any lot, what      *)
(* closes the lots that are over, and a spend that the balance covers.     *)
(***************************************************************************)

(* No lot that is over has anything left.                                  *)
Clean(R, P, t) == \A r \in LotRows(R) : Over(Eff(r, P), t) => Left(R, P)[r] = 0

(* History up to t, as the writers leave it.                               *)
Holds(R, P, t) == RowsBy(R, P, t) /\ Sound(R, P)

(* A lot written now.                                                      *)
LEMMA LotHolds ==
    ASSUME NEW R, NEW P, InOrder(P), NEW t \in Nat, Holds(R, P, t),
           NEW x, x \notin R, IsLotRow(x), x.at = t, RowsOK(R \cup {x})
    PROVE  Holds(R \cup {x}, P, t)
<1> DEFINE U == R \cup {x}
           w == [r \in U |-> -r.delta]
           o == Opening(R, P, t)
           n == Opening(U, P, t)
           A == Alive(R, P, t)
<1>1. RowsOK(R) /\ RowsBy(R, P, t) /\ Sound(R, P) /\ \A r \in R : r.at <= t
  BY DEF Holds, RowsBy
<1>2. LotRows(U) = LotRows(R) \cup {x}
  BY RowsGrow
<1>3. RowsBy(U, P, t)
  <2>1. ASSUME NEW e \in R, e.kind = "expiry" PROVE x.id # e.ref
    <3>1. AllClosed(R, P)
      BY <1>1, ClosedIsEmpty
    <3>2. PICK r \in LotRows(R) : r.id = e.ref
      BY <2>1, <3>1 DEF AllClosed
    <3>3. \A q, r2 \in LotRows(U) : q.id = r2.id => q = r2
      BY LotsNamed
    <3>4. r # x /\ r \in LotRows(U) /\ x \in LotRows(U)
      BY <1>2, <3>2 DEF LotRows
    <3> QED BY <3>2, <3>3, <3>4
  <2>2. x.kind # "expiry"
    BY DEF IsLotRow, LotKinds
  <2> HIDE DEF U
  <2>3. \A e \in U : e.kind = "expiry" => \A r \in LotRows(U) : r.id = e.ref => Over(Eff(r, P), t)
    BY <1>1, <1>2, <2>1, <2>2 DEF RowsBy, U
  <2>4. RowsOK(U) /\ \A r \in U : r.at <= t
    BY <1>1 DEF U
  <2> QED BY <2>3, <2>4 DEF RowsBy
<1>4. Settled(R, P, t, w) /\ Settled(U, P, t, w)
  <2>1. (\A r \in U : w[r] = -r.delta) /\ \A r \in R : w[r] = -r.delta
    OBVIOUS
  <2> HIDE DEF w, U
  <2> QED BY <1>1, <1>3, <2>1, InstantSettles
<1>5. Settles(R, P, t, w)
  BY <1>1, <1>4 DEF Settled
<1>6. Closings(U, t) = Closings(R, t) /\ Outgoings(U, t) = Outgoings(R, t)
  BY DEF Closings, Outgoings
<1>7. RowsUpTo(U, t - 1) = RowsUpTo(R, t - 1)
  BY EarlierRows
<1>8. n = NextLeft(x, R, P, o)
  BY OpeningGrows
<1>9. o \in [LotRows(R) -> Nat] /\ A \in SUBSET LotRows(R)
  BY <1>1, OpeningType
<1> HIDE DEF o, n, w
<1>10. /\ Total(n, A \cup {x}) = Total(o, A) + x.delta /\ Total(n, A) = Total(o, A)
       /\ Total(o, A) \in Nat /\ x.delta \in Nat
       /\ n[x] = x.delta /\ \A r \in LotRows(R) : n[r] = o[r]
  <2>1. /\ NextLeft(x, R, P, o)[x] = x.delta /\ x.delta \in Nat
        /\ \A r \in LotRows(R) : NextLeft(x, R, P, o)[r] = o[r]
        /\ \A V \in SUBSET LotRows(R) :
             /\ Total(NextLeft(x, R, P, o), V \cup {x}) = Total(o, V) + x.delta
             /\ Total(NextLeft(x, R, P, o), V) = Total(o, V)
             /\ Total(o, V) \in Nat
    <3> HIDE DEF A, U
    <3>1. IsLotRow(x) /\ x \notin R /\ RowsOK(R \cup {x}) /\ o \in [LotRows(R) -> Nat]
      BY <1>9
    <3> QED BY <3>1, LotAddsTo
  <2> HIDE DEF A
  <2> QED BY <1>8, <1>9, <2>1
<1> HIDE DEF A
<1>11. Total(o, A) <= Total(n, Alive(U, P, t))
  <2>1. (Over(Eff(x, P), t) => Alive(U, P, t) = A) /\ (~Over(Eff(x, P), t) => Alive(U, P, t) = A \cup {x})
    BY AliveGrows DEF A
  <2> HIDE DEF U
  <2>2. Total(n, Alive(U, P, t)) = Total(o, A) + x.delta \/ Total(n, Alive(U, P, t)) = Total(o, A)
    BY <1>10, <2>1, Zenon
  <2> QED BY <1>10, <2>2
<1>12. Settles(U, P, t, w)
  <2>1. /\ Sound(RowsUpTo(U, t - 1), P)
        /\ Total(w, Outgoings(U, t)) = Total(w, Outgoings(R, t))
        /\ Total(w, Outgoings(R, t)) <= Total(o, A)
    BY <1>5, <1>6, <1>7 DEF Settles, o, A
  <2>2. ASSUME NEW e \in Closings(U, t) PROVE \E r \in LotRows(U) : r.id = e.ref /\ n[r] = -e.delta
    <3>1. PICK r \in LotRows(R) : r.id = e.ref /\ o[r] = -e.delta
      BY <1>5, <1>6 DEF Settles, o
    <3> QED BY <1>2, <1>10, <3>1
  <2>3. Total(w, Outgoings(U, t)) <= Total(n, Alive(U, P, t))
    <3>1. Total(w, Outgoings(R, t)) \in Int
      <4>1. Outgoings(R, t) \subseteq R /\ IsFiniteSet(R) /\ \A r \in R : r.delta \in Int /\ w[r] = -r.delta
        BY <1>1 DEF Outgoings, RowsOK, w
      <4>2. IsFiniteSet(Outgoings(R, t)) /\ \A r \in Outgoings(R, t) : w[r] \in Int
        BY <4>1, FS_Subset
      <4> QED BY <4>2, TotalInt
    <3>2. Total(n, Alive(U, P, t)) \in Int
      <4>1. RowsOK(U) /\ \A r \in U : r.at <= t
        BY <1>3 DEF RowsBy
      <4> HIDE DEF U
      <4> QED BY <4>1, OpeningType DEF n
    <3> QED BY <1>10, <1>11, <2>1, <3>1, <3>2
  <2> HIDE DEF U
  <2> QED BY <2>1, <2>2, <2>3 DEF Settles, n
<1> QED BY <1>3, <1>4, <1>12 DEF Settled, Holds

(* The lots that are over are closed now.                                  *)
LEMMA ClosingHolds ==
    ASSUME NEW R, NEW P, InOrder(P), NEW t \in Nat, Holds(R, P, t),
           NEW X, RowsOK(R \cup X),
           \A e \in X : /\ e.kind = "expiry" /\ e.at = t
                        /\ \E r \in ToClose(R, P, t) : e.ref = r.id /\ e.delta = -Left(R, P)[r],
           \A r \in ToClose(R, P, t) : \E e \in X : e.ref = r.id
    PROVE  Holds(R \cup X, P, t) /\ Clean(R \cup X, P, t)
<1> DEFINE U == R \cup X
           w == [r \in U |-> -r.delta]
           o == Opening(R, P, t)
           A == Alive(R, P, t)
           left == Left(R, P)
<1>1. RowsOK(R) /\ RowsBy(R, P, t) /\ Sound(R, P) /\ \A r \in R : r.at <= t
  BY DEF Holds, RowsBy
<1>2. \A e \in X : ~IsLotRow(e) /\ e.at = t
  BY DEF IsLotRow, LotKinds
<1>3. LotRows(U) = LotRows(R) /\ RowsUpTo(U, t - 1) = RowsUpTo(R, t - 1) /\ Opening(U, P, t) = o /\ Alive(U, P, t) = A
  <2>1. LotRows(U) = LotRows(R)
    BY <1>2 DEF LotRows
  <2>2. RowsUpTo(U, t - 1) = RowsUpTo(R, t - 1)
    BY <1>2 DEF RowsUpTo
  <2> HIDE DEF U
  <2> QED BY <2>1, <2>2 DEF Opening, Alive
<1>4. RowsBy(U, P, t)
  <2>1. ASSUME NEW e \in X, NEW r \in LotRows(R), r.id = e.ref PROVE Over(Eff(r, P), t)
    <3>1. PICK q \in ToClose(R, P, t) : e.ref = q.id
      OBVIOUS
    <3>2. q = r
      BY <1>1, <2>1, <3>1, LotsNamed DEF ToClose
    <3> QED BY <3>1, <3>2 DEF ToClose
  <2>2. \A r \in U : r.at <= t
    BY <1>1
  <2>3. \A e \in U : e.kind = "expiry" => \A r \in LotRows(U) : r.id = e.ref => Over(Eff(r, P), t)
    BY <1>1, <1>3, <2>1 DEF RowsBy
  <2> QED BY <2>2, <2>3 DEF RowsBy
<1>5. Settled(R, P, t, w) /\ Settled(U, P, t, w)
  <2>1. (\A r \in U : w[r] = -r.delta) /\ \A r \in R : w[r] = -r.delta
    OBVIOUS
  <2> HIDE DEF w, U
  <2> QED BY <1>1, <1>4, <2>1, InstantSettles
<1>6. Settles(R, P, t, w) /\ Leaves(R, P, t, w)
  BY <1>1, <1>5 DEF Settled
<1>7. Closings(U, t) = Closings(R, t) \cup X /\ Outgoings(U, t) = Outgoings(R, t)
  BY <1>2 DEF Closings, Outgoings
<1> HIDE DEF o, w, A, left
<1>8. \A r \in LotRows(R) : Over(Eff(r, P), t) =>
        left[r] = IF \E e \in Closings(R, t) : e.ref = r.id THEN 0 ELSE o[r]
  BY <1>6 DEF Leaves, left, o
<1>9. \A e \in X : \E r \in LotRows(R) : r.id = e.ref /\ o[r] = -e.delta
  <2> SUFFICES ASSUME NEW e \in X PROVE \E r \in LotRows(R) : r.id = e.ref /\ o[r] = -e.delta
    OBVIOUS
  <2>1. PICK r \in ToClose(R, P, t) : e.ref = r.id /\ e.delta = -left[r]
    BY DEF left
  <2>2. r \in LotRows(R) /\ left[r] > 0 /\ Over(Eff(r, P), t)
    BY DEF ToClose, left
  <2>3. left \in [LotRows(R) -> Nat]
    BY <1>1, LeftIs DEF left
  <2>4. left[r] = o[r]
    BY <1>8, <2>2
  <2>5. -e.delta = left[r]
    BY <2>1, <2>2, <2>3
  <2> QED BY <2>1, <2>2, <2>4, <2>5
<1>10. Settles(U, P, t, w)
  <2>1. /\ Sound(RowsUpTo(R, t - 1), P)
        /\ \A e \in Closings(R, t) : \E r \in LotRows(R) : r.id = e.ref /\ o[r] = -e.delta
        /\ Total(w, Outgoings(R, t)) <= Total(o, A)
    BY <1>6 DEF Settles, o, A
  <2> HIDE DEF U
  <2>2. \A e \in Closings(U, t) : \E r \in LotRows(U) : r.id = e.ref /\ o[r] = -e.delta
    BY <1>3, <1>7, <1>9, <2>1
  <2> QED BY <1>3, <1>7, <2>1, <2>2 DEF Settles
<1>11. Holds(U, P, t)
  BY <1>4, <1>5, <1>10 DEF Settled, Holds
<1>12. Leaves(U, P, t, w)
  BY <1>5, <1>10 DEF Settled
<1>13. Clean(U, P, t)
  <2> SUFFICES ASSUME NEW r \in LotRows(U), Over(Eff(r, P), t) PROVE Left(U, P)[r] = 0
    BY DEF Clean
  <2>1. Left(U, P)[r] = IF \E e \in Closings(U, t) : e.ref = r.id THEN 0 ELSE o[r]
    BY <1>3, <1>12 DEF Leaves
  <2>2. CASE \E e \in Closings(U, t) : e.ref = r.id
    BY <2>1, <2>2
  <2>3. CASE ~\E e \in Closings(U, t) : e.ref = r.id
    <3>1. r \in LotRows(R) /\ r \notin ToClose(R, P, t) /\ ~\E e \in Closings(R, t) : e.ref = r.id
      BY <1>3, <1>7, <2>3
    <3>2. left \in [LotRows(R) -> Nat]
      BY <1>1, LeftIs DEF left
    <3>3. left[r] = 0
      BY <3>1, <3>2 DEF ToClose, left
    <3> QED BY <1>8, <2>1, <2>3, <3>1, <3>3
  <2> QED BY <2>2, <2>3
<1> QED BY <1>11, <1>13

(* A spend that the balance covers.                                        *)
LEMMA SpendHolds ==
    ASSUME NEW R, NEW P, InOrder(P), NEW t \in Nat, Holds(R, P, t), Clean(R, P, t),
           NEW x, x \notin R, ~IsLotRow(x), x.kind # "expiry", x.at = t, RowsOK(R \cup {x}),
           -x.delta <= Total(Left(R, P), Alive(R, P, t))
    PROVE  Holds(R \cup {x}, P, t) /\ Clean(R \cup {x}, P, t)
<1> DEFINE U == R \cup {x}
           w == [r \in U |-> -r.delta]
           o == Opening(R, P, t)
           A == Alive(R, P, t)
           left == Left(R, P)
           out == Outgoings(R, t)
<1>1. RowsOK(R) /\ RowsBy(R, P, t) /\ Sound(R, P) /\ \A r \in R : r.at <= t
  BY DEF Holds, RowsBy
<1>3. LotRows(U) = LotRows(R) /\ RowsUpTo(U, t - 1) = RowsUpTo(R, t - 1) /\ Opening(U, P, t) = o /\ Alive(U, P, t) = A
  <2>1. LotRows(U) = LotRows(R)
    BY DEF LotRows
  <2>2. RowsUpTo(U, t - 1) = RowsUpTo(R, t - 1)
    BY DEF RowsUpTo
  <2> HIDE DEF U
  <2> QED BY <2>1, <2>2 DEF Opening, Alive
<1>4. RowsBy(U, P, t)
  <2>2. \A r \in U : r.at <= t
    BY <1>1
  <2>3. \A e \in U : e.kind = "expiry" => \A r \in LotRows(U) : r.id = e.ref => Over(Eff(r, P), t)
    BY <1>1, <1>3 DEF RowsBy
  <2> QED BY <2>2, <2>3 DEF RowsBy
<1>5. Settled(R, P, t, w) /\ Settled(U, P, t, w)
  <2>1. (\A r \in U : w[r] = -r.delta) /\ \A r \in R : w[r] = -r.delta
    OBVIOUS
  <2> HIDE DEF w, U
  <2> QED BY <1>1, <1>4, <2>1, InstantSettles
<1>6. Settles(R, P, t, w) /\ Leaves(R, P, t, w)
  BY <1>1, <1>5 DEF Settled
<1>7. Closings(U, t) = Closings(R, t) /\ Outgoings(U, t) = out \cup {x} /\ x \notin out
  BY DEF Closings, Outgoings
<1>8. w[x] = -x.delta /\ (\A r \in R : w[r] = -r.delta) /\ x.delta \in Int
  BY DEF RowsOK
<1>9. Total(w, out \cup {x}) = Total(w, out) - x.delta /\ Total(w, out) \in Int
  <2> DEFINE V == out \cup {x}
  <2>1. out \subseteq R /\ IsFiniteSet(R) /\ \A r \in R : r.delta \in Int
    BY <1>1 DEF Outgoings, RowsOK
  <2>2. IsFiniteSet(out)
    BY <2>1, FS_Subset
  <2> HIDE DEF out, w
  <2>3. IsFiniteSet(V) /\ out \in SUBSET V /\ x \in V
    BY <2>2, FS_AddElement
  <2>4. \A q \in V : w[q] \in Int
    BY <1>8, <2>1
  <2>5. \A q \in out : w[q] \in Int
    BY <2>4
  <2>6. Total(w, out) \in Int
    BY <2>2, <2>5, TotalInt
  <2> HIDE DEF V
  <2>7. Total(w, out \cup {x}) = Total(w, out) + w[x]
    BY <1>7, <2>3, <2>4, TotalAdds
  <2> QED BY <1>8, <2>6, <2>7
<1>10. Total(o, A) \in Nat
  BY <1>1, OpeningType
<1>11. Total(left, A) = Total(o, A) - Total(w, out) /\ -x.delta <= Total(left, A)
  BY <1>6 DEF Leaves
<1> HIDE DEF o, w, A, left, out, U
<1>12. Total(w, out \cup {x}) <= Total(o, A)
  BY <1>8, <1>9, <1>10, <1>11
<1>13. Settles(U, P, t, w)
  BY <1>3, <1>6, <1>7, <1>12 DEF Settles, o, A
<1>14. Holds(U, P, t) /\ Leaves(U, P, t, w)
  BY <1>4, <1>5, <1>13 DEF Settled, Holds
<1>15. Clean(U, P, t)
  <2> SUFFICES ASSUME NEW r \in LotRows(U), Over(Eff(r, P), t) PROVE Left(U, P)[r] = 0
    BY DEF Clean
  <2>1. Left(U, P)[r] = Left(R, P)[r]
    BY <1>3, <1>6, <1>7, <1>14 DEF Leaves, o
  <2> QED BY <1>3, <2>1 DEF Clean
<1> QED BY <1>14, <1>15 DEF U
=============================================================================
