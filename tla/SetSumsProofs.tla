---------------------------- MODULE SetSumsProofs ----------------------------
(***************************************************************************)
(* Lemmas about sums over finite sets, for the columns that are kept in    *)
(* step with SUM(...) over rows: used_storage, reserved_storage and        *)
(* ref_count.  A fold is a CHOOSE of a function that satisfies a recursive *)
(* equation; that such a function exists, and is unique, is proved here by *)
(* the least-number principle.                                             *)
(***************************************************************************)
EXTENDS SetSums, FiniteSetTheorems, WellFoundedInduction, TLAPS

\* The least-number principle for a set of natural numbers.
LEMMA LeastNumber ==
    ASSUME NEW T \in SUBSET Nat, T # {}
    PROVE  \E n \in T : \A m \in T : n <= m
<1> DEFINE R == OpToRel(<, Nat)
<1>1. IsWellFoundedOn(R, Nat)
  BY NatLessThanWellFounded
<1>2. \A m, n \in Nat : m < n => <<m, n>> \in R
  BY DEF OpToRel
<1> HIDE DEF R
<1>3. PICK n \in T : \A m \in T : ~(<<m, n>> \in R)
  BY <1>1, WFMin, Zenon
<1>4. \A m \in T : ~(m < n)
  BY <1>2, <1>3, Zenon
<1>5. \A m \in T : n <= m
  BY <1>4
<1> QED
  BY <1>5

\* The element a fold takes first.
Pick(S) == CHOOSE x \in S : TRUE

\* g satisfies the equation of the fold on the subsets of S.
IsSum(g, W, S) == g = [s \in SUBSET S |-> IF s = {} THEN 0 ELSE W[Pick(s)] + g[s \ {Pick(s)}]]

\* A sum is the value at S of a function that satisfies the equation.
LEMMA TotalDef ==
    ASSUME NEW W, NEW S
    PROVE  Total(W, S) = (CHOOSE g : IsSum(g, W, S))[S]
BY DEF Total, MapThenSumSet, MapThenFoldSet, IsSum, Pick

\* The element taken first is a member.
LEMMA PickIn ==
    ASSUME NEW S, S # {}
    PROVE  Pick(S) \in S
BY DEF Pick

\* Removing the picked element makes a finite set smaller by one.
LEMMA PickCard ==
    ASSUME NEW S, IsFiniteSet(S), S # {}
    PROVE  /\ IsFiniteSet(S \ {Pick(S)}) /\ S \ {Pick(S)} \subseteq S
           /\ Cardinality(S \ {Pick(S)}) = Cardinality(S) - 1
           /\ Cardinality(S) \in Nat /\ Cardinality(S) >= 1
<1>1. Pick(S) \in S
  BY PickIn
<1>2. IsFiniteSet(S \ {Pick(S)}) /\ Cardinality(S \ {Pick(S)}) = Cardinality(S) - 1
  BY <1>1, FS_RemoveElement
<1>3. Cardinality(S) \in Nat /\ Cardinality(S \ {Pick(S)}) \in Nat
  BY <1>2, FS_CardinalityType
<1> QED
  BY <1>2, <1>3

\* There is a function that satisfies the equation of the fold.
LEMMA SumExists ==
    ASSUME NEW D, NEW W \in [D -> Nat], NEW S \in SUBSET D, IsFiniteSet(S)
    PROVE  \E g \in [SUBSET S -> Nat] : IsSum(g, W, S)
<1> DEFINE Good(g, n) == \A s \in SUBSET S :
              Cardinality(s) <= n => g[s] = IF s = {} THEN 0 ELSE W[Pick(s)] + g[s \ {Pick(s)}]
           Upto(n) == \E g \in [SUBSET S -> Nat] : Good(g, n)
           Bad == {n \in Nat : ~Upto(n)}
<1>0. \A s \in SUBSET S : IsFiniteSet(s) /\ Cardinality(s) \in Nat
  BY FS_Subset, FS_CardinalityType
<1>1. Upto(0)
  <2> DEFINE g == [s \in SUBSET S |-> 0]
  <2>1. \A s \in SUBSET S : Cardinality(s) <= 0 => s = {}
    BY <1>0, FS_EmptySet
  <2>2. g \in [SUBSET S -> Nat]
    OBVIOUS
  <2>3. Good(g, 0)
    BY <2>1
  <2> QED
    BY <2>2, <2>3
<1>2. ASSUME NEW n \in Nat, Upto(n)
      PROVE  Upto(n + 1)
  <2>1. PICK g \in [SUBSET S -> Nat] : Good(g, n)
    BY <1>2
  <2> DEFINE h == [s \in SUBSET S |-> IF s = {} THEN 0 ELSE W[Pick(s)] + g[s \ {Pick(s)}]]
  <2>2. \A s \in SUBSET S : s # {} => Pick(s) \in D /\ s \ {Pick(s)} \in SUBSET S
    BY PickIn
  <2>3. h \in [SUBSET S -> Nat]
    BY <2>2
  <2>4. \A s \in SUBSET S : Cardinality(s) <= n => h[s] = g[s]
    BY <2>1
  <2>5. Good(h, n + 1)
    <3> SUFFICES ASSUME NEW s \in SUBSET S, Cardinality(s) <= n + 1, s # {}
                 PROVE  h[s] = W[Pick(s)] + h[s \ {Pick(s)}]
      OBVIOUS
    <3>1. Cardinality(s \ {Pick(s)}) <= n
      BY <1>0, PickCard
    <3>2. h[s \ {Pick(s)}] = g[s \ {Pick(s)}]
      BY <2>2, <2>4, <3>1
    <3> QED
      BY <3>2
  <2> QED
    BY <2>3, <2>5
<1> HIDE DEF Upto
<1>3. \A n \in Nat : Upto(n)
  <2> SUFFICES ASSUME Bad # {} PROVE FALSE
    OBVIOUS
  <2>1. PICK n \in Bad : \A m \in Bad : n <= m
    BY LeastNumber
  <2>2. n # 0
    BY <1>1
  <2>3. n - 1 \in Nat /\ ~(n <= n - 1)
    BY <2>2
  <2>4. Upto(n - 1)
    BY <2>1, <2>3
  <2>5. Upto((n - 1) + 1)
    BY <1>2, <2>3, <2>4
  <2> QED
    BY <2>5
<1>4. Upto(Cardinality(S))
  BY <1>0, <1>3
<1>5. PICK g \in [SUBSET S -> Nat] : Good(g, Cardinality(S))
  BY <1>4 DEF Upto
<1>6. \A s \in SUBSET S : Cardinality(s) <= Cardinality(S)
  BY FS_Subset
<1>7. \A s \in SUBSET S : g[s] = IF s = {} THEN 0 ELSE W[Pick(s)] + g[s \ {Pick(s)}]
  BY <1>5, <1>6
<1> QED
  BY <1>7 DEF IsSum

\* Induction over the subsets of a finite set, for a set P of subsets.
LEMMA SubsetInduction ==
    ASSUME NEW S, IsFiniteSet(S), NEW P, {} \in P,
           \A T \in SUBSET S, x \in S : T \in P /\ x \notin T => T \cup {x} \in P
    PROVE  \A T \in SUBSET S : T \in P
<1> DEFINE Bad == {n \in Nat : \E T \in SUBSET S : T \notin P /\ Cardinality(T) = n}
<1>0. \A T \in SUBSET S : IsFiniteSet(T) /\ Cardinality(T) \in Nat
  BY FS_Subset, FS_CardinalityType
<1> SUFFICES ASSUME NEW T \in SUBSET S, T \notin P PROVE FALSE
  OBVIOUS
<1>1. Bad # {} /\ Bad \in SUBSET Nat
  BY <1>0
<1>2. PICK n \in Bad : \A m \in Bad : n <= m
  BY <1>1, LeastNumber
<1>3. PICK U \in SUBSET S : U \notin P /\ Cardinality(U) = n
  BY <1>2
<1>4. U # {}
  BY <1>3
<1>5. PICK x \in U : TRUE
  BY <1>4
<1>6. Cardinality(U \ {x}) = n - 1
  BY <1>0, <1>3, FS_RemoveElement
<1>7. U \ {x} \in SUBSET S /\ n - 1 \in Nat
  BY <1>0, <1>6
<1>8. U \ {x} \in P
  BY <1>2, <1>6, <1>7
<1>9. (U \ {x}) \cup {x} = U
  OBVIOUS
<1> QED
  BY <1>3, <1>7, <1>8, <1>9

\* Two functions that satisfy the equation agree where both are defined.
LEMMA SumUnique ==
    ASSUME NEW W, NEW U, NEW S \in SUBSET U, IsFiniteSet(S),
           NEW g, NEW h, IsSum(g, W, U), IsSum(h, W, S)
    PROVE  g[S] = h[S]
<1> DEFINE Bad == {n \in Nat : \E s \in SUBSET S : g[s] # h[s] /\ Cardinality(s) = n}
<1>0. \A T \in SUBSET S : IsFiniteSet(T) /\ Cardinality(T) \in Nat
  BY FS_Subset, FS_CardinalityType
<1> SUFFICES ASSUME g[S] # h[S] PROVE FALSE
  OBVIOUS
<1>1. Bad # {} /\ Bad \in SUBSET Nat
  BY <1>0
<1>2. PICK n \in Bad : \A m \in Bad : n <= m
  BY <1>1, LeastNumber
<1>3. PICK T \in SUBSET S : g[T] # h[T] /\ Cardinality(T) = n
  BY <1>2
<1>4. T \in SUBSET U /\ T \in SUBSET S
  OBVIOUS
<1>5. g[T] = IF T = {} THEN 0 ELSE W[Pick(T)] + g[T \ {Pick(T)}]
  BY <1>4 DEF IsSum
<1>6. h[T] = IF T = {} THEN 0 ELSE W[Pick(T)] + h[T \ {Pick(T)}]
  BY <1>4 DEF IsSum
<1>7. T # {}
  BY <1>3, <1>5, <1>6
<1>8. Cardinality(T \ {Pick(T)}) = n - 1 /\ n - 1 \in Nat /\ T \ {Pick(T)} \in SUBSET S
  <2>1. IsFiniteSet(T)
    BY <1>0
  <2>2. /\ Cardinality(T \ {Pick(T)}) = Cardinality(T) - 1
        /\ Cardinality(T) \in Nat /\ Cardinality(T) >= 1
    BY <1>7, <2>1, PickCard
  <2> QED
    BY <1>3, <2>2
<1>9. g[T \ {Pick(T)}] = h[T \ {Pick(T)}]
  BY <1>2, <1>8
<1> QED
  BY <1>3, <1>5, <1>6, <1>7, <1>9

\* Total is the value of any solution of the equation.
LEMMA TotalIs ==
    ASSUME NEW D, NEW W \in [D -> Nat], NEW U \in SUBSET D, IsFiniteSet(U),
           NEW g, IsSum(g, W, U), NEW S \in SUBSET U
    PROVE  Total(W, S) = g[S]
<1>1. IsFiniteSet(S) /\ S \in SUBSET D
  BY FS_Subset
<1>2. \E k : IsSum(k, W, S)
  BY <1>1, SumExists, Zenon
<1>3. PICK h : h = CHOOSE k : IsSum(k, W, S)
  OBVIOUS
<1>4. IsSum(h, W, S)
  BY <1>2, <1>3, Zenon
<1>5. Total(W, S) = h[S]
  BY <1>3, TotalDef
<1>6. g[S] = h[S]
  BY <1>1, <1>4, SumUnique
<1> QED
  BY <1>5, <1>6

\* A sum of natural numbers is one; the empty sum is 0; the picked element
\* comes first.
LEMMA TotalStep ==
    ASSUME NEW D, NEW W \in [D -> Nat], NEW S \in SUBSET D, IsFiniteSet(S)
    PROVE  /\ Total(W, S) \in Nat
           /\ Total(W, {}) = 0
           /\ S # {} => Total(W, S) = W[Pick(S)] + Total(W, S \ {Pick(S)})
<1>1. PICK g \in [SUBSET S -> Nat] : IsSum(g, W, S)
  BY SumExists
<1>2. \A T \in SUBSET S : Total(W, T) = g[T]
  BY <1>1, TotalIs
<1>3. {} \in SUBSET S /\ S \in SUBSET S /\ S \ {Pick(S)} \in SUBSET S
  OBVIOUS
<1>4. \A s \in SUBSET S : g[s] = IF s = {} THEN 0 ELSE W[Pick(s)] + g[s \ {Pick(s)}]
  BY <1>1 DEF IsSum
<1>5. Total(W, S) = g[S] /\ Total(W, {}) = g[{}] /\ Total(W, S \ {Pick(S)}) = g[S \ {Pick(S)}]
  BY <1>2, <1>3
<1>6. g[S] \in Nat
  OBVIOUS
<1>7. g[{}] = 0
  BY <1>3, <1>4
<1>8. S # {} => g[S] = W[Pick(S)] + g[S \ {Pick(S)}]
  BY <1>3, <1>4
<1> QED
  BY <1>5, <1>6, <1>7, <1>8

\* The empty sum.
LEMMA TotalEmpty ==
    ASSUME NEW D, NEW W \in [D -> Nat]
    PROVE  Total(W, {}) = 0
BY TotalStep, FS_EmptySet

\* A sum of natural numbers is one.
LEMMA TotalNat ==
    ASSUME NEW D, NEW W \in [D -> Nat], NEW S \in SUBSET D, IsFiniteSet(S)
    PROVE  Total(W, S) \in Nat
BY TotalStep

\* Any element may come first.
LEMMA TotalRemove ==
    ASSUME NEW D, NEW W \in [D -> Nat], NEW S \in SUBSET D, IsFiniteSet(S), NEW x \in S
    PROVE  Total(W, S) = W[x] + Total(W, S \ {x})
<1> DEFINE Holds(T) == \A y \in T : Total(W, T) = W[y] + Total(W, T \ {y})
           Bad == {n \in Nat : \E T \in SUBSET S : ~Holds(T) /\ Cardinality(T) = n}
<1>0. \A T \in SUBSET S : IsFiniteSet(T) /\ Cardinality(T) \in Nat /\ Total(W, T) \in Nat
  BY FS_Subset, FS_CardinalityType, TotalStep
<1> SUFFICES ASSUME ~Holds(S) PROVE FALSE
  OBVIOUS
<1>1. Bad # {} /\ Bad \in SUBSET Nat
  BY <1>0
<1>2. PICK n \in Bad : \A m \in Bad : n <= m
  BY <1>1, LeastNumber
<1>3. PICK T \in SUBSET S : ~Holds(T) /\ Cardinality(T) = n
  BY <1>2
<1>4. PICK y \in T : Total(W, T) # W[y] + Total(W, T \ {y})
  BY <1>3
<1> DEFINE p == Pick(T)
<1>5. p \in T /\ IsFiniteSet(T)
  BY <1>0, PickIn
<1>6. Total(W, T) = W[p] + Total(W, T \ {p})
  BY <1>5, TotalStep
<1> HIDE DEF p
<1>7. p # y
  BY <1>4, <1>6
<1>8. Cardinality(T \ {p}) = n - 1 /\ Cardinality(T \ {y}) = n - 1
  BY <1>3, <1>5, FS_RemoveElement
<1>9. T \ {p} \in SUBSET S /\ T \ {y} \in SUBSET S /\ n - 1 \in Nat
  BY <1>0, <1>8
<1>10. Holds(T \ {p}) /\ Holds(T \ {y})
  BY <1>2, <1>8, <1>9
<1>11. Total(W, T \ {p}) = W[y] + Total(W, (T \ {p}) \ {y})
  BY <1>7, <1>10
<1>12. Total(W, T \ {y}) = W[p] + Total(W, (T \ {y}) \ {p})
  BY <1>5, <1>7, <1>10
<1>13. (T \ {p}) \ {y} = (T \ {y}) \ {p}
  OBVIOUS
<1>14. W[p] \in Nat /\ W[y] \in Nat /\ Total(W, (T \ {y}) \ {p}) \in Nat
  BY <1>0, <1>5
<1>15. Total(W, T) = W[p] + (W[y] + Total(W, (T \ {y}) \ {p}))
  BY <1>6, <1>11, <1>13, Zenon
<1>16. Total(W, T) = W[y] + Total(W, T \ {y})
  BY <1>12, <1>14, <1>15
<1> QED
  BY <1>4, <1>16

\* One more element.
LEMMA TotalAdd ==
    ASSUME NEW D, NEW W \in [D -> Nat], NEW S \in SUBSET D, IsFiniteSet(S), NEW x \in D, x \notin S
    PROVE  Total(W, S \cup {x}) = W[x] + Total(W, S)
<1>1. IsFiniteSet(S \cup {x}) /\ S \cup {x} \in SUBSET D /\ x \in S \cup {x}
  BY FS_AddElement
<1>2. (S \cup {x}) \ {x} = S
  OBVIOUS
<1> QED
  BY <1>1, <1>2, TotalRemove

\* A part and the rest.
LEMMA TotalSplit ==
    ASSUME NEW D, NEW W \in [D -> Nat], NEW S \in SUBSET D, IsFiniteSet(S), NEW T \in SUBSET S
    PROVE  Total(W, S) = Total(W, T) + Total(W, S \ T)
<1> DEFINE P == {U \in SUBSET S : Total(W, S) = Total(W, U) + Total(W, S \ U)}
<1>0. \A U \in SUBSET S : IsFiniteSet(U) /\ U \in SUBSET D /\ Total(W, U) \in Nat
  BY FS_Subset, TotalStep
<1>1. {} \in P
  <2>1. S \ {} = S
    OBVIOUS
  <2> QED
    BY <1>0, <2>1, TotalEmpty
<1>2. ASSUME NEW U \in SUBSET S, NEW x \in S, U \in P, x \notin U
      PROVE  U \cup {x} \in P
  <2>1. Total(W, U \cup {x}) = W[x] + Total(W, U)
    BY <1>0, <1>2, TotalAdd
  <2>2. Total(W, S \ U) = W[x] + Total(W, (S \ U) \ {x})
    BY <1>0, <1>2, TotalRemove
  <2>3. (S \ U) \ {x} = S \ (U \cup {x})
    OBVIOUS
  <2>4. /\ W[x] \in Nat /\ Total(W, U) \in Nat /\ Total(W, S \ (U \cup {x})) \in Nat
        /\ U \cup {x} \in SUBSET S
    BY <1>0
  <2>5. Total(W, S) = Total(W, U) + (W[x] + Total(W, S \ (U \cup {x})))
    BY <1>2, <2>2, <2>3, Zenon
  <2>6. Total(W, S) = Total(W, U \cup {x}) + Total(W, S \ (U \cup {x}))
    BY <2>1, <2>4, <2>5
  <2> QED
    BY <2>4, <2>6
<1> HIDE DEF P
<1>3. T \in P
  BY <1>1, <1>2, SubsetInduction
<1> QED
  BY <1>3 DEF P

\* Only the weights of the members count.
LEMMA TotalSame ==
    ASSUME NEW D, NEW W \in [D -> Nat], NEW V \in [D -> Nat], NEW S \in SUBSET D, IsFiniteSet(S),
           \A x \in S : V[x] = W[x]
    PROVE  Total(V, S) = Total(W, S)
<1> DEFINE P == {U \in SUBSET S : Total(V, U) = Total(W, U)}
<1>0. \A U \in SUBSET S : IsFiniteSet(U) /\ U \in SUBSET D
  BY FS_Subset
<1>1. {} \in P
  BY TotalEmpty
<1>2. ASSUME NEW U \in SUBSET S, NEW x \in S, U \in P, x \notin U
      PROVE  U \cup {x} \in P
  <2>1. Total(W, U \cup {x}) = W[x] + Total(W, U)
    BY <1>0, <1>2, TotalAdd
  <2>2. Total(V, U \cup {x}) = V[x] + Total(V, U)
    BY <1>0, <1>2, TotalAdd
  <2> QED
    BY <1>2, <2>1, <2>2
<1> HIDE DEF P
<1>3. S \in SUBSET S
  OBVIOUS
<1>4. S \in P
  BY <1>1, <1>2, <1>3, SubsetInduction
<1> QED
  BY <1>4 DEF P
=============================================================================
