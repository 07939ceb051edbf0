------------------------------- MODULE SetSums -------------------------------
(***************************************************************************)
(* The laws of sums over finite sets, which the models take from the       *)
(* community modules (SumFunctionOnSet, a fold that removes one element    *)
(* after the other).                                                       *)
(*                                                                         *)
(* The fold is a recursive function on the subsets of the set.  Instead of *)
(* an induction, each proof looks at a smallest subset for which the claim *)
(* fails (SmallestSubset).                                                 *)
(***************************************************************************)
EXTENDS Functions, FiniteSetTheorems, WellFoundedInduction, TLAPS

Sum(f, S) == SumFunctionOnSet(f, S)

-----------------------------------------------------------------------------
(* The fold.                                                                 *)

Pick(s) == CHOOSE x \in s : TRUE

\* One unfolding of the recursive function that sums f over the subsets of S.
Unfolded(f, S, g) ==
  [s \in SUBSET S |-> IF s = {} THEN 0 ELSE f[Pick(s)] + g[s \ {Pick(s)}]]

Sums(f, S) == CHOOSE g : g = Unfolded(f, S, g)

\* Of some subsets of a finite set one has none of the others inside.
LEMMA SmallestSubset ==
  ASSUME NEW S, IsFiniteSet(S), NEW F, F \subseteq SUBSET S, F # {}
  PROVE  \E T \in F : IsFiniteSet(T) /\ \A U \in SUBSET T : U # T => U \notin F
<1>1. IsWellFoundedOn(StrictSubsetOrdering(S), SUBSET S)
  BY FS_StrictSubsetOrderingWellFounded, FS_FiniteSubsetsOfFinite
<1>2. PICK T \in F : \A U \in F : <<U, T>> \notin StrictSubsetOrdering(S)
  BY <1>1, WFMin
<1>3. \A U \in SUBSET T : U # T => U \notin F
  <2> SUFFICES ASSUME NEW U \in SUBSET T, U # T, U \in F PROVE FALSE
    OBVIOUS
  <2>1. <<U, T>> \in StrictSubsetOrdering(S)
    BY DEF StrictSubsetOrdering
  <2> QED
    BY <1>2, <2>1
<1>4. IsFiniteSet(T)
  BY FS_Subset
<1> QED
  BY <1>3, <1>4

\* The community's sum is that recursive function.
LEMMA SumIsFold == \A f, S : Sum(f, S) = Sums(f, S)[S]
BY DEF Sum, SumFunctionOnSet, FoldFunctionOnSet, MapThenFoldSet, Sums, Unfolded, Pick

\* Two such functions agree where both are defined.
LEMMA FoldsAgree ==
  ASSUME NEW S, IsFiniteSet(S), NEW R, NEW f, NEW g, NEW h,
         g = Unfolded(f, S, g), h = Unfolded(f, R, h), NEW T \in SUBSET S, T \in SUBSET R
  PROVE  g[T] = h[T]
<1> DEFINE F == {s \in SUBSET S : s \in SUBSET R /\ g[s] # h[s]}
<1> SUFFICES ASSUME g[T] # h[T] PROVE FALSE
  OBVIOUS
<1>0. T \in F
  OBVIOUS
<1>1. PICK s \in F : \A U \in SUBSET s : U # s => U \notin F
  <2> HIDE DEF F
  <2>1. F \subseteq SUBSET S
    BY DEF F
  <2> QED
    BY <1>0, <2>1, SmallestSubset
<1>2. /\ g[s] = IF s = {} THEN 0 ELSE f[Pick(s)] + g[s \ {Pick(s)}]
      /\ h[s] = IF s = {} THEN 0 ELSE f[Pick(s)] + h[s \ {Pick(s)}]
  <2>1. /\ Unfolded(f, S, g)[s] = IF s = {} THEN 0 ELSE f[Pick(s)] + g[s \ {Pick(s)}]
        /\ Unfolded(f, R, h)[s] = IF s = {} THEN 0 ELSE f[Pick(s)] + h[s \ {Pick(s)}]
    BY <1>1 DEF Unfolded
  <2> QED
    BY <2>1
<1>3. s # {}
  BY <1>1, <1>2
<1>4. Pick(s) \in s
  BY <1>3 DEF Pick
<1>5. g[s \ {Pick(s)}] = h[s \ {Pick(s)}]
  BY <1>1, <1>4
<1> QED
  BY <1>1, <1>2, <1>5

\* There is one.
LEMMA FoldExists ==
  ASSUME NEW S, IsFiniteSet(S), NEW f
  PROVE  Sums(f, S) = Unfolded(f, S, Sums(f, S))
<1> DEFINE F == {T \in SUBSET S : Sums(f, T) # Unfolded(f, T, Sums(f, T))}
<1> SUFFICES ASSUME F # {} PROVE FALSE
  OBVIOUS
<1>1. PICK T \in F : IsFiniteSet(T) /\ \A U \in SUBSET T : U # T => U \notin F
  <2> HIDE DEF F
  <2>1. F \subseteq SUBSET S
    BY DEF F
  <2> QED
    BY <2>1, SmallestSubset
<1>2. ASSUME NEW U \in SUBSET T, U # T
      PROVE  IsFiniteSet(U) /\ Sums(f, U) = Unfolded(f, U, Sums(f, U))
  BY <1>1, <1>2, FS_Subset
<1> DEFINE below(s) == Sums(f, s \ {Pick(s)})[s \ {Pick(s)}]
           g == [s \in SUBSET T |-> IF s = {} THEN 0 ELSE f[Pick(s)] + below(s)]
<1>3. ASSUME NEW s \in SUBSET T, s # {} PROVE g[s \ {Pick(s)}] = below(s)
  <2> DEFINE u == s \ {Pick(s)}
  <2>1. Pick(s) \in s
    BY <1>3 DEF Pick
  <2>2. u \in SUBSET T /\ u # T
    BY <2>1
  <2>3. g[u] = IF u = {} THEN 0 ELSE f[Pick(u)] + Sums(f, u \ {Pick(u)})[u \ {Pick(u)}]
    BY <2>2
  <2> HIDE DEF u
  <2>4. IsFiniteSet(u) /\ Sums(f, u) = Unfolded(f, u, Sums(f, u))
    BY <1>2, <2>2
  <2>5. Sums(f, u)[u] = IF u = {} THEN 0 ELSE f[Pick(u)] + Sums(f, u)[u \ {Pick(u)}]
    BY <2>4 DEF Unfolded
  <2>6. ASSUME u # {} PROVE Sums(f, u)[u \ {Pick(u)}] = Sums(f, u \ {Pick(u)})[u \ {Pick(u)}]
    <3> DEFINE v == u \ {Pick(u)}
    <3>1. v \in SUBSET u /\ v \in SUBSET T /\ v # T
      BY <2>1, <2>2 DEF u
    <3>2. IsFiniteSet(v) /\ Sums(f, v) = Unfolded(f, v, Sums(f, v))
      BY <1>2, <3>1
    <3> QED
      BY <2>4, <3>1, <3>2, FoldsAgree
  <2> QED
    BY <2>3, <2>5, <2>6 DEF u
<1>4. g = Unfolded(f, T, g)
  BY <1>3 DEF Unfolded
<1>5. Sums(f, T) = Unfolded(f, T, Sums(f, T))
  BY <1>4 DEF Sums
<1> QED
  BY <1>1, <1>5

-----------------------------------------------------------------------------
(* The laws.                                                                 *)

\* The sum takes the picked element, then the rest.
LEMMA SumUnfolds ==
  ASSUME NEW S, IsFiniteSet(S), NEW f
  PROVE  Sum(f, S) = IF S = {} THEN 0 ELSE f[Pick(S)] + Sum(f, S \ {Pick(S)})
<1> DEFINE g == Sums(f, S)
           R == S \ {Pick(S)}
           h == Sums(f, R)
<1>1. g = Unfolded(f, S, g)
  BY FoldExists
<1>2. h = Unfolded(f, R, h)
  BY FS_Subset, FoldExists
<1>3. Unfolded(f, S, g)[S] = IF S = {} THEN 0 ELSE f[Pick(S)] + g[R]
  BY DEF Unfolded
<1> HIDE DEF g, h
<1>4. g[R] = h[R]
  BY <1>1, <1>2, FoldsAgree
<1>5. Sum(f, S) = g[S] /\ Sum(f, R) = h[R]
  BY SumIsFold DEF g, h
<1>6. g[S] = IF S = {} THEN 0 ELSE f[Pick(S)] + g[R]
  BY <1>1, <1>3
<1> QED
  BY <1>4, <1>5, <1>6

\* The sum over nothing.
LEMMA SumEmpty == \A f : Sum(f, {}) = 0
BY SumUnfolds, FS_EmptySet

\* The picked element is one of the set, and the rest is a smaller set.
LEMMA PickIsMember ==
  ASSUME NEW S, S # {}
  PROVE  Pick(S) \in S /\ S \ {Pick(S)} \in SUBSET S /\ S \ {Pick(S)} # S
<1>1. Pick(S) \in S
  BY DEF Pick
<1> QED
  BY <1>1

\* A sum of integers is an integer.
LEMMA SumIsInt ==
  ASSUME NEW S, IsFiniteSet(S), NEW f, \A x \in S : f[x] \in Int
  PROVE  Sum(f, S) \in Int
<1> DEFINE F == {T \in SUBSET S : Sum(f, T) \notin Int}
<1> SUFFICES ASSUME S \in F PROVE FALSE
  OBVIOUS
<1>1. PICK T \in F : IsFiniteSet(T) /\ \A U \in SUBSET T : U # T => U \notin F
  <2> HIDE DEF F
  <2>1. F \subseteq SUBSET S
    BY DEF F
  <2> QED
    BY <2>1, SmallestSubset
<1>2. Sum(f, T) = IF T = {} THEN 0 ELSE f[Pick(T)] + Sum(f, T \ {Pick(T)})
  BY <1>1, SumUnfolds
<1>3. T # {}
  BY <1>1, <1>2
<1>4. Pick(T) \in S /\ Sum(f, T \ {Pick(T)}) \in Int
  BY <1>1, <1>3, PickIsMember
<1> QED
  BY <1>1, <1>2, <1>4

\* A sum of natural numbers is one.
LEMMA SumIsNat ==
  ASSUME NEW S, IsFiniteSet(S), NEW f, \A x \in S : f[x] \in Nat
  PROVE  Sum(f, S) \in Nat
<1> DEFINE F == {T \in SUBSET S : Sum(f, T) \notin Nat}
<1> SUFFICES ASSUME S \in F PROVE FALSE
  OBVIOUS
<1>1. PICK T \in F : IsFiniteSet(T) /\ \A U \in SUBSET T : U # T => U \notin F
  <2> HIDE DEF F
  <2>1. F \subseteq SUBSET S
    BY DEF F
  <2> QED
    BY <2>1, SmallestSubset
<1>2. Sum(f, T) = IF T = {} THEN 0 ELSE f[Pick(T)] + Sum(f, T \ {Pick(T)})
  BY <1>1, SumUnfolds
<1>3. T # {}
  BY <1>1, <1>2
<1>4. Pick(T) \in S /\ Sum(f, T \ {Pick(T)}) \in Nat
  BY <1>1, <1>3, PickIsMember
<1> QED
  BY <1>1, <1>2, <1>4

\* Any element may be taken first.
LEMMA SumTakes ==
  ASSUME NEW S, IsFiniteSet(S), NEW f, \A x \in S : f[x] \in Int, NEW x \in S
  PROVE  Sum(f, S) = f[x] + Sum(f, S \ {x})
<1> DEFINE Fails(T) == \E y \in T : Sum(f, T) # f[y] + Sum(f, T \ {y})
           F == {T \in SUBSET S : Fails(T)}
<1> SUFFICES ASSUME S \in F PROVE FALSE
  OBVIOUS
<1>1. PICK T \in F : IsFiniteSet(T) /\ \A U \in SUBSET T : U # T => U \notin F
  <2> HIDE DEF F
  <2>1. F \subseteq SUBSET S
    BY DEF F
  <2> QED
    BY <2>1, SmallestSubset
<1>2. PICK y \in T : Sum(f, T) # f[y] + Sum(f, T \ {y})
  OBVIOUS
<1> DEFINE p == Pick(T)
<1>3. p \in T
  BY <1>2, PickIsMember
<1>4. Sum(f, T) = f[p] + Sum(f, T \ {p})
  BY <1>1, <1>2, SumUnfolds
<1>5. p # y
  BY <1>2, <1>4
<1> HIDE DEF p
<1>6. Sum(f, T \ {p}) = f[y] + Sum(f, T \ {p, y})
  <2>1. y \in T \ {p} /\ T \ {p} # T /\ T \ {p} \in SUBSET T /\ T \ {p} \in SUBSET S
    BY <1>3, <1>5
  <2>2. (T \ {p}) \ {y} = T \ {p, y}
    OBVIOUS
  <2>3. ~ Fails(T \ {p})
    BY <1>1, <2>1
  <2> QED
    BY <2>1, <2>2, <2>3
<1>7. Sum(f, T \ {y}) = f[p] + Sum(f, T \ {p, y})
  <2>1. p \in T \ {y} /\ T \ {y} # T /\ T \ {y} \in SUBSET T /\ T \ {y} \in SUBSET S
    BY <1>3, <1>5
  <2>2. (T \ {y}) \ {p} = T \ {p, y}
    OBVIOUS
  <2>3. ~ Fails(T \ {y})
    BY <1>1, <2>1
  <2> QED
    BY <2>1, <2>2, <2>3
<1>8. Sum(f, T \ {p, y}) \in Int
  <2>1. IsFiniteSet(T \ {p, y}) /\ \A z \in T \ {p, y} : f[z] \in Int
    BY <1>1, FS_Subset
  <2> QED
    BY <2>1, SumIsInt
<1> QED
  BY <1>2, <1>3, <1>4, <1>6, <1>7, <1>8

\* The sum is of the values in the set.
LEMMA SumsAgree ==
  ASSUME NEW S, IsFiniteSet(S), NEW f, NEW g, \A x \in S : f[x] = g[x]
  PROVE  Sum(f, S) = Sum(g, S)
<1> DEFINE F == {T \in SUBSET S : Sum(f, T) # Sum(g, T)}
<1> SUFFICES ASSUME S \in F PROVE FALSE
  OBVIOUS
<1>1. PICK T \in F : IsFiniteSet(T) /\ \A U \in SUBSET T : U # T => U \notin F
  <2> HIDE DEF F
  <2>1. F \subseteq SUBSET S
    BY DEF F
  <2> QED
    BY <2>1, SmallestSubset
<1>2. /\ Sum(f, T) = IF T = {} THEN 0 ELSE f[Pick(T)] + Sum(f, T \ {Pick(T)})
      /\ Sum(g, T) = IF T = {} THEN 0 ELSE g[Pick(T)] + Sum(g, T \ {Pick(T)})
  BY <1>1, SumUnfolds
<1>3. T # {}
  BY <1>1, <1>2
<1>4. f[Pick(T)] = g[Pick(T)] /\ Sum(f, T \ {Pick(T)}) = Sum(g, T \ {Pick(T)})
  BY <1>1, <1>3, PickIsMember
<1> QED
  BY <1>1, <1>2, <1>4

\* The sum of sums.
LEMMA SumOfSums ==
  ASSUME NEW S, IsFiniteSet(S), NEW f, NEW g, NEW h,
         \A x \in S : f[x] \in Int /\ g[x] \in Int /\ h[x] = f[x] + g[x]
  PROVE  Sum(h, S) = Sum(f, S) + Sum(g, S)
<1> DEFINE F == {T \in SUBSET S : Sum(h, T) # Sum(f, T) + Sum(g, T)}
<1> SUFFICES ASSUME S \in F PROVE FALSE
  OBVIOUS
<1>1. PICK T \in F : IsFiniteSet(T) /\ \A U \in SUBSET T : U # T => U \notin F
  <2> HIDE DEF F
  <2>1. F \subseteq SUBSET S
    BY DEF F
  <2> QED
    BY <2>1, SmallestSubset
<1> DEFINE R == T \ {Pick(T)}
<1>2. /\ Sum(f, T) = IF T = {} THEN 0 ELSE f[Pick(T)] + Sum(f, R)
      /\ Sum(g, T) = IF T = {} THEN 0 ELSE g[Pick(T)] + Sum(g, R)
      /\ Sum(h, T) = IF T = {} THEN 0 ELSE h[Pick(T)] + Sum(h, R)
  BY <1>1, SumUnfolds
<1>3. T # {}
  BY <1>1, <1>2
<1>4. Pick(T) \in S /\ Sum(h, R) = Sum(f, R) + Sum(g, R)
  BY <1>1, <1>3, PickIsMember
<1>5. Sum(f, R) \in Int /\ Sum(g, R) \in Int
  <2>1. IsFiniteSet(R) /\ \A x \in R : f[x] \in Int /\ g[x] \in Int
    BY <1>1, FS_Subset
  <2> QED
    BY <2>1, SumIsInt
<1> QED
  BY <1>1, <1>2, <1>3, <1>4, <1>5

\* Larger values, larger sum.
LEMMA SumsOrder ==
  ASSUME NEW S, IsFiniteSet(S), NEW f, NEW g,
         \A x \in S : f[x] \in Int /\ g[x] \in Int /\ f[x] <= g[x]
  PROVE  Sum(f, S) <= Sum(g, S)
<1> DEFINE d == [x \in S |-> g[x] - f[x]]
<1>1. \A x \in S : d[x] \in Nat /\ g[x] = f[x] + d[x]
  OBVIOUS
<1>2. Sum(d, S) \in Nat /\ Sum(f, S) \in Int
  BY <1>1, SumIsNat, SumIsInt
<1>3. Sum(g, S) = Sum(f, S) + Sum(d, S)
  <2> HIDE DEF d
  <2> QED
    BY <1>1, SumOfSums
<1> QED
  BY <1>2, <1>3

\* A change of one value changes the sum by as much.
LEMMA SumChanges ==
  ASSUME NEW S, IsFiniteSet(S), NEW f, NEW g, NEW y \in S,
         \A x \in S : f[x] \in Int /\ g[x] \in Int /\ (x # y => g[x] = f[x])
  PROVE  Sum(g, S) = Sum(f, S) - f[y] + g[y]
<1>1. Sum(f, S) = f[y] + Sum(f, S \ {y}) /\ Sum(g, S) = g[y] + Sum(g, S \ {y})
  BY SumTakes
<1>2. IsFiniteSet(S \ {y})
  BY FS_Subset
<1>3. Sum(f, S \ {y}) = Sum(g, S \ {y}) /\ Sum(f, S \ {y}) \in Int
  BY <1>2, SumsAgree, SumIsInt
<1>4. f[y] \in Int /\ g[y] \in Int
  OBVIOUS
<1> QED
  BY <1>1, <1>3, <1>4

\* A sum of zeros.
LEMMA SumOfZeros ==
  ASSUME NEW S, IsFiniteSet(S), NEW f, \A x \in S : f[x] = 0
  PROVE  Sum(f, S) = 0
<1>1. Sum(f, S) = Sum(f, S) + Sum(f, S)
  BY SumOfSums
<1>2. Sum(f, S) \in Int
  BY SumIsInt
<1> QED
  BY <1>1, <1>2

\* A set in two parts.
LEMMA SumOfParts ==
  ASSUME NEW S, IsFiniteSet(S), NEW R \in SUBSET S, NEW f, \A x \in S : f[x] \in Int
  PROVE  Sum(f, S) = Sum(f, R) + Sum(f, S \ R)
<1> DEFINE F == {T \in SUBSET R : Sum(f, (S \ R) \cup T) # Sum(f, T) + Sum(f, S \ R)}
<1>0. IsFiniteSet(R) /\ (S \ R) \cup R = S
  BY FS_Subset
<1> SUFFICES ASSUME R \in F PROVE FALSE
  BY <1>0
<1>1. PICK T \in F : IsFiniteSet(T) /\ \A U \in SUBSET T : U # T => U \notin F
  <2> HIDE DEF F
  <2>1. F \subseteq SUBSET R
    BY DEF F
  <2> QED
    BY <1>0, <2>1, SmallestSubset
<1>2. Sum(f, S \ R) \in Int
  BY FS_Subset, SumIsInt
<1>3. T # {}
  <2> SUFFICES ASSUME T = {} PROVE FALSE
    OBVIOUS
  <2>1. (S \ R) \cup T = S \ R /\ Sum(f, T) = 0
    BY SumEmpty
  <2> QED
    BY <1>1, <1>2, <2>1
<1> DEFINE p == Pick(T)
<1>4. p \in T /\ T \ {p} \in SUBSET T /\ T \ {p} # T
  BY <1>3, PickIsMember
<1> HIDE DEF p
<1>5. Sum(f, (S \ R) \cup (T \ {p})) = Sum(f, T \ {p}) + Sum(f, S \ R)
  BY <1>1, <1>4
<1>6. Sum(f, T) = f[p] + Sum(f, T \ {p})
  BY <1>1, <1>4, SumTakes
<1>7. Sum(f, (S \ R) \cup T) = f[p] + Sum(f, (S \ R) \cup (T \ {p}))
  <2>1. IsFiniteSet((S \ R) \cup T) /\ (S \ R) \cup T \in SUBSET S
    BY <1>1, FS_Subset
  <2>2. ((S \ R) \cup T) \ {p} = (S \ R) \cup (T \ {p})
    BY <1>1, <1>4
  <2> QED
    BY <1>4, <2>1, <2>2, SumTakes
<1>8. Sum(f, T \ {p}) \in Int
  BY <1>1, FS_Subset, SumIsInt
<1>9. f[p] \in Int
  BY <1>1, <1>4
<1>10. Sum(f, (S \ R) \cup T) = Sum(f, T) + Sum(f, S \ R)
  <2> HIDE DEF F
  <2> QED
    BY <1>2, <1>5, <1>6, <1>7, <1>8, <1>9
<1> QED
  BY <1>1, <1>10

\* What adds nothing may be left out.
LEMMA SumOfSupport ==
  ASSUME NEW S, IsFiniteSet(S), NEW R \in SUBSET S, NEW f, \A x \in S : f[x] \in Int,
         \A x \in S \ R : f[x] = 0
  PROVE  Sum(f, S) = Sum(f, R)
<1>1. Sum(f, S) = Sum(f, R) + Sum(f, S \ R)
  BY SumOfParts
<1>2. Sum(f, S \ R) = 0
  BY FS_Subset, SumOfZeros
<1>3. Sum(f, R) \in Int
  BY FS_Subset, SumIsInt
<1> QED
  BY <1>1, <1>2, <1>3

\* A part is at most the whole.
LEMMA SumOfSubset ==
  ASSUME NEW S, IsFiniteSet(S), NEW R \in SUBSET S, NEW f, \A x \in S : f[x] \in Nat
  PROVE  Sum(f, R) \in Nat /\ Sum(f, R) <= Sum(f, S)
<1>1. Sum(f, S) = Sum(f, R) + Sum(f, S \ R)
  BY SumOfParts
<1>2. Sum(f, S \ R) \in Nat /\ Sum(f, R) \in Nat
  BY FS_Subset, SumIsNat
<1> QED
  BY <1>1, <1>2

\* One value is at most the sum, which is zero only if all of them are.
LEMMA SumBounds ==
  ASSUME NEW S, IsFiniteSet(S), NEW f, \A x \in S : f[x] \in Nat
  PROVE  /\ Sum(f, S) \in Nat
         /\ \A x \in S : f[x] <= Sum(f, S)
         /\ Sum(f, S) > 0 <=> \E x \in S : f[x] > 0
<1>1. Sum(f, S) \in Nat
  BY SumIsNat
<1>2. ASSUME NEW x \in S
      PROVE  f[x] <= Sum(f, S)
  <2>1. Sum(f, S) = f[x] + Sum(f, S \ {x})
    BY SumTakes
  <2>2. Sum(f, S \ {x}) \in Nat
    BY FS_Subset, SumIsNat
  <2> QED
    BY <2>1, <2>2
<1>3. ASSUME ~ \E x \in S : f[x] > 0
      PROVE  Sum(f, S) = 0
  <2>1. \A x \in S : f[x] = 0
    BY <1>3
  <2> QED
    BY <2>1, SumOfZeros
<1> QED
  BY <1>1, <1>2, <1>3

\* The same value everywhere.
LEMMA SumOfSame ==
  ASSUME NEW S, IsFiniteSet(S), NEW f, NEW k \in Int, \A x \in S : f[x] = k
  PROVE  Sum(f, S) = k * Cardinality(S)
<1> DEFINE F == {T \in SUBSET S : Sum(f, T) # k * Cardinality(T)}
<1> SUFFICES ASSUME S \in F PROVE FALSE
  OBVIOUS
<1>1. PICK T \in F : IsFiniteSet(T) /\ \A U \in SUBSET T : U # T => U \notin F
  <2> HIDE DEF F
  <2>1. F \subseteq SUBSET S
    BY DEF F
  <2> QED
    BY <2>1, SmallestSubset
<1> DEFINE R == T \ {Pick(T)}
<1>2. Sum(f, T) = IF T = {} THEN 0 ELSE f[Pick(T)] + Sum(f, R)
  BY <1>1, SumUnfolds
<1>3. T # {}
  <2>1. k * 0 = 0 /\ Cardinality({}) = 0
    BY FS_EmptySet
  <2> QED
    BY <1>1, <1>2, <2>1
<1>4. Pick(T) \in T /\ f[Pick(T)] = k /\ Sum(f, R) = k * Cardinality(R)
  BY <1>1, <1>3, PickIsMember
<1>5. Cardinality(R) \in Nat /\ Cardinality(T) = Cardinality(R) + 1
  BY <1>1, <1>4, FS_RemoveElement, FS_CardinalityType, FS_Subset
<1>6. \A n \in Nat : k * (n + 1) = k + k * n
  OBVIOUS
<1>7. Sum(f, T) = k + k * Cardinality(R)
  BY <1>2, <1>3, <1>4
<1>8. Sum(f, T) = k * Cardinality(T)
  BY <1>5, <1>6, <1>7
<1> QED
  BY <1>1, <1>8

\* Row by row (the rows f, their sums g) is column by column (t, h).
LEMMA SumExchange ==
  ASSUME NEW S, IsFiniteSet(S), NEW R, IsFiniteSet(R), NEW f, NEW t, NEW g, NEW h,
         \A x \in S, y \in R : f[x][y] \in Int /\ t[y][x] = f[x][y],
         \A x \in S : g[x] = Sum(f[x], R),
         \A y \in R : h[y] = Sum(t[y], S)
  PROVE  Sum(g, S) = Sum(h, R)
<1> DEFINE cols(T) == [y \in R |-> Sum(t[y], T)]
           F == {T \in SUBSET S : Sum(g, T) # Sum(cols(T), R)}
<1>0. Sum(h, R) = Sum(cols(S), R)
  <2>1. \A y \in R : h[y] = cols(S)[y]
    OBVIOUS
  <2> HIDE DEF cols
  <2> QED BY <2>1, SumsAgree
<1> SUFFICES ASSUME S \in F PROVE FALSE
  BY <1>0
<1>1. PICK T \in F : IsFiniteSet(T) /\ \A U \in SUBSET T : U # T => U \notin F
  <2> HIDE DEF F
  <2>1. F \subseteq SUBSET S
    BY DEF F
  <2> QED
    BY <2>1, SmallestSubset
<1>2. T # {}
  <2> SUFFICES ASSUME T = {} PROVE FALSE
    OBVIOUS
  <2>1. Sum(g, T) = 0 /\ \A y \in R : cols(T)[y] = 0
    BY SumEmpty
  <2>2. Sum(cols(T), R) = 0
    <3> HIDE DEF cols
    <3> QED BY <2>1, SumOfZeros
  <2> QED
    BY <1>1, <2>1, <2>2
<1> DEFINE p == Pick(T)
           U == T \ {p}
<1>3. p \in T /\ p \in S /\ U \in SUBSET T /\ U # T /\ T \in SUBSET S
  BY <1>1, <1>2, PickIsMember
<1> HIDE DEF p
<1>4. Sum(g, U) = Sum(cols(U), R)
  BY <1>1, <1>3
<1>5. Sum(g, T) = Sum(f[p], R) + Sum(g, U)
  <2>1. \A x \in S : g[x] \in Int
    BY SumIsInt
  <2>2. \A x \in T : g[x] \in Int
    BY <1>3, <2>1
  <2> HIDE DEF F
  <2>3. Sum(g, T) = g[p] + Sum(g, U)
    BY <1>1, <1>3, <2>2, SumTakes
  <2> QED BY <1>3, <2>3
<1>6. \A y \in R : /\ cols(U)[y] \in Int /\ f[p][y] \in Int
                   /\ cols(T)[y] = f[p][y] + cols(U)[y]
  <2> TAKE y \in R
  <2> DEFINE k == t[y]
  <2>1. /\ \A x \in T : k[x] \in Int
        /\ k[p] = f[p][y] /\ f[p][y] \in Int
    BY <1>3
  <2>2. IsFiniteSet(U) /\ \A x \in U : k[x] \in Int
    BY <1>1, <1>3, <2>1, FS_Subset
  <2>3. cols(T)[y] = Sum(k, T) /\ cols(U)[y] = Sum(k, U)
    OBVIOUS
  <2> HIDE DEF k, F, cols
  <2>4. Sum(k, T) = k[p] + Sum(k, T \ {p})
    BY <1>1, <1>3, <2>1, SumTakes
  <2>5. Sum(k, U) \in Int
    <3> HIDE DEF U
    <3> QED BY <2>2, SumIsInt
  <2> QED BY <2>1, <2>3, <2>4, <2>5
<1>7. Sum(cols(T), R) = Sum(f[p], R) + Sum(cols(U), R)
  <2> HIDE DEF cols, U
  <2> QED BY <1>6, SumOfSums
<1> QED
  BY <1>1, <1>4, <1>5, <1>7

\* A sum over the fibres of a map.
LEMMA SumOfFibres ==
  ASSUME NEW D, IsFiniteSet(D), NEW P, IsFiniteSet(P), NEW r, NEW f,
         \A d \in D : r[d] \in P /\ f[d] \in Int
  PROVE  Sum([c \in P |-> Sum(f, {d \in D : r[d] = c})], P) = Sum(f, D)
<1> DEFINE fibre(c, T) == {d \in T : r[d] = c}
           parts(T) == [c \in P |-> Sum(f, fibre(c, T))]
           F == {T \in SUBSET D : Sum(parts(T), P) # Sum(f, T)}
<1> SUFFICES ASSUME D \in F PROVE FALSE
  OBVIOUS
<1>1. PICK T \in F : IsFiniteSet(T) /\ \A U \in SUBSET T : U # T => U \notin F
  <2> HIDE DEF F
  <2>1. F \subseteq SUBSET D
    BY DEF F
  <2> QED
    BY <2>1, SmallestSubset
<1>2. T # {}
  <2> SUFFICES ASSUME T = {} PROVE FALSE
    OBVIOUS
  <2>1. Sum(f, T) = 0 /\ \A c \in P : fibre(c, T) = {}
    BY SumEmpty
  <2>2. \A c \in P : parts(T)[c] = 0
    BY <2>1, SumEmpty
  <2>3. Sum(parts(T), P) = 0
    <3> HIDE DEF parts
    <3> QED BY <2>2, SumOfZeros
  <2> QED
    BY <1>1, <2>1, <2>3
<1> DEFINE p == Pick(T)
           U == T \ {p}
<1>3. p \in T /\ p \in D /\ U \in SUBSET T /\ U # T /\ T \in SUBSET D
  BY <1>1, <1>2, PickIsMember
<1> HIDE DEF p
<1>4. Sum(parts(U), P) = Sum(f, U)
  BY <1>1, <1>3
<1>5. Sum(f, T) = f[p] + Sum(f, U)
  <2>1. \A d \in T : f[d] \in Int
    BY <1>3
  <2> HIDE DEF F
  <2> QED BY <1>1, <1>3, <2>1, SumTakes
<1>6. r[p] \in P /\ f[p] \in Int
  BY <1>3
<1>7. ASSUME NEW c \in P
      PROVE  /\ parts(U)[c] \in Int /\ parts(T)[c] \in Int
             /\ c # r[p] => parts(T)[c] = parts(U)[c]
             /\ c = r[p] => parts(T)[c] = f[p] + parts(U)[c]
  <2>1. /\ IsFiniteSet(fibre(c, U)) /\ IsFiniteSet(fibre(c, T))
        /\ \A d \in fibre(c, T) : f[d] \in Int
        /\ fibre(c, U) \in SUBSET fibre(c, T)
    <3>1. fibre(c, U) \in SUBSET T /\ fibre(c, T) \in SUBSET T
      BY <1>3
    <3>2. IsFiniteSet(T)
      BY <1>1
    <3>3. IsFiniteSet(fibre(c, U)) /\ IsFiniteSet(fibre(c, T))
      <4> HIDE DEF fibre
      <4> QED BY <3>1, <3>2, FS_Subset
    <3> QED BY <1>3, <3>3
  <2>2. parts(T)[c] = Sum(f, fibre(c, T)) /\ parts(U)[c] = Sum(f, fibre(c, U))
    OBVIOUS
  <2>3. c # r[p] => fibre(c, T) = fibre(c, U)
    BY <1>3
  <2>4. c = r[p] => p \in fibre(c, T) /\ fibre(c, T) \ {p} = fibre(c, U)
    BY <1>3
  <2> HIDE DEF fibre, parts
  <2>5. Sum(f, fibre(c, T)) \in Int /\ Sum(f, fibre(c, U)) \in Int
    BY <2>1, SumIsInt
  <2>6. ASSUME c = r[p] PROVE Sum(f, fibre(c, T)) = f[p] + Sum(f, fibre(c, U))
    <3> DEFINE A == fibre(c, T)
    <3>1. IsFiniteSet(A) /\ p \in A /\ \A d \in A : f[d] \in Int
      BY <2>1, <2>4, <2>6
    <3> HIDE DEF A
    <3>2. Sum(f, A) = f[p] + Sum(f, A \ {p})
      BY <3>1, SumTakes
    <3> QED BY <2>4, <2>6, <3>2 DEF A
  <2> QED BY <2>2, <2>3, <2>5, <2>6
<1>8. Sum(parts(T), P) = Sum(parts(U), P) - parts(U)[r[p]] + parts(T)[r[p]]
  <2> DEFINE old == parts(U)
             new == parts(T)
             y == r[p]
  <2>1. \A c \in P : old[c] \in Int /\ new[c] \in Int /\ (c # y => new[c] = old[c])
    <3> HIDE DEF parts, U, F
    <3> QED BY <1>7
  <2>2. y \in P
    BY <1>6
  <2> HIDE DEF old, new, y
  <2>3. Sum(new, P) = Sum(old, P) - old[y] + new[y]
    BY <2>1, <2>2, SumChanges
  <2> QED BY <2>3 DEF old, new, y
<1>9. Sum(f, U) \in Int
  <2>1. IsFiniteSet(U) /\ \A d \in U : f[d] \in Int
    BY <1>1, <1>3, FS_Subset
  <2> HIDE DEF U
  <2> QED BY <2>1, SumIsInt
<1>10. parts(U)[r[p]] \in Int /\ parts(T)[r[p]] = f[p] + parts(U)[r[p]]
  <2> HIDE DEF parts, U, F
  <2> QED BY <1>6, <1>7
<1>11. Sum(parts(T), P) = Sum(f, T)
  <2> HIDE DEF parts, U, F
  <2> QED BY <1>4, <1>5, <1>6, <1>8, <1>9, <1>10
<1> QED
  BY <1>1, <1>11
=============================================================================
