-------------------------- MODULE FrameGrid_proofs --------------------------
(***************************************************************************)
(* Where the dots of the frame's pages are and how many, for mosaics of any*)
(* size: the special cases of _compute_frame_grid leave one dot for each   *)
(* corner, each free edge and each seam of the border, and no other.       *)
(*                                                                         *)
(* Each set of dots is a union of two products, those on the upper and     *)
(* lower side and those on the left and right side; products are counted   *)
(* with FS_Product, and the two do not meet.                               *)
(***************************************************************************)
EXTENDS FrameGrid, FiniteSetTheorems, TLAPS

Odds(n)     == {2 * i + 1 : i \in 0 .. n - 1}
Evens(n)    == {2 * i : i \in 1 .. n - 1}
Quarters(n) == {4 * i + 1 : i \in 0 .. n - 1} \cup {4 * i + 3 : i \in 0 .. n - 1}

-----------------------------------------------------------------------------
(* Counting a side.                                                          *)

\* As many odd numbers as blocks: the middles of the edges of a side.
LEMMA OddsCount ==
  ASSUME NEW n \in Nat
  PROVE  IsFiniteSet(Odds(n)) /\ Cardinality(Odds(n)) = n
<1> DEFINE f == [i \in 0 .. n - 1 |-> 2 * i + 1]
<1>1. f \in [0 .. n - 1 -> Odds(n)]
  BY DEF Odds
<1>2. ASSUME NEW i \in 0 .. n - 1, NEW j \in 0 .. n - 1, f[i] = f[j]
      PROVE  i = j
  BY <1>2
<1>3. \A t \in Odds(n) : \E i \in 0 .. n - 1 : f[i] = t
  BY DEF Odds
<1>4. f \in Bijection(0 .. n - 1, Odds(n))
  BY <1>1, <1>2, <1>3 DEF Bijection, Injection, Surjection, IsInjective
<1>5. IsFiniteSet(0 .. n - 1) /\ Cardinality(0 .. n - 1) = n
  BY FS_Interval
<1> QED
  BY <1>4, <1>5, FS_Bijection DEF ExistsBijection

\* One even number less: the seams of a side.
LEMMA EvensCount ==
  ASSUME NEW n \in Nat \ {0}
  PROVE  IsFiniteSet(Evens(n)) /\ Cardinality(Evens(n)) = n - 1
<1> DEFINE f == [i \in 1 .. n - 1 |-> 2 * i]
<1>1. f \in [1 .. n - 1 -> Evens(n)]
  BY DEF Evens
<1>2. ASSUME NEW i \in 1 .. n - 1, NEW j \in 1 .. n - 1, f[i] = f[j]
      PROVE  i = j
  BY <1>2
<1>3. \A t \in Evens(n) : \E i \in 1 .. n - 1 : f[i] = t
  BY DEF Evens
<1>4. f \in Bijection(1 .. n - 1, Evens(n))
  BY <1>1, <1>2, <1>3 DEF Bijection, Injection, Surjection, IsInjective
<1>5. IsFiniteSet(1 .. n - 1) /\ Cardinality(1 .. n - 1) = n - 1
  BY FS_Interval
<1> QED
  BY <1>4, <1>5, FS_Bijection DEF ExistsBijection

\* Two pins for each edge of a side.
LEMMA QuartersCount ==
  ASSUME NEW n \in Nat
  PROVE  IsFiniteSet(Quarters(n)) /\ Cardinality(Quarters(n)) = 2 * n
<1> DEFINE f == [i \in 0 .. 2 * n - 1 |-> 2 * i + 1]
<1>1. f \in [0 .. 2 * n - 1 -> Quarters(n)]
  <2>1. ASSUME NEW i \in 0 .. 2 * n - 1 PROVE 2 * i + 1 \in Quarters(n)
    <3>1. PICK k \in 0 .. n - 1 : i = 2 * k \/ i = 2 * k + 1
      <4>1. i \div 2 \in 0 .. n - 1 /\ (i = 2 * (i \div 2) \/ i = 2 * (i \div 2) + 1)
        OBVIOUS
      <4> QED BY <4>1
    <3>2. 2 * i + 1 = 4 * k + 1 \/ 2 * i + 1 = 4 * k + 3
      BY <3>1
    <3> QED BY <3>2 DEF Quarters
  <2> QED BY <2>1
<1>2. ASSUME NEW i \in 0 .. 2 * n - 1, NEW j \in 0 .. 2 * n - 1, f[i] = f[j]
      PROVE  i = j
  BY <1>2
<1>3. ASSUME NEW t \in Quarters(n) PROVE \E i \in 0 .. 2 * n - 1 : f[i] = t
  <2>1. PICK k \in 0 .. n - 1 : t = 4 * k + 1 \/ t = 4 * k + 3
    BY DEF Quarters
  <2>2. /\ 2 * k \in 0 .. 2 * n - 1 /\ f[2 * k] = 4 * k + 1
        /\ 2 * k + 1 \in 0 .. 2 * n - 1 /\ f[2 * k + 1] = 4 * k + 3
    OBVIOUS
  <2> QED BY <2>1, <2>2
<1>4. f \in Bijection(0 .. 2 * n - 1, Quarters(n))
  BY <1>1, <1>2, <1>3 DEF Bijection, Injection, Surjection, IsInjective
<1>5. IsFiniteSet(0 .. 2 * n - 1) /\ Cardinality(0 .. 2 * n - 1) = 2 * n
  BY FS_Interval
<1> QED
  BY <1>4, <1>5, FS_Bijection DEF ExistsBijection

\* Two different things are two.
LEMMA PairCount ==
  ASSUME NEW a, NEW b, a # b
  PROVE  IsFiniteSet({a, b}) /\ Cardinality({a, b}) = 2
<1>1. IsFiniteSet({a}) /\ Cardinality({a}) = 1
  BY FS_Singleton
<1>2. {a, b} = {a} \cup {b} /\ b \notin {a}
  OBVIOUS
<1> QED
  BY <1>1, <1>2, FS_AddElement

\* Marks on the upper and lower side and marks on the left and right side, no
\* mark being on both: the two sides count twice each.
LEMMA AroundCount ==
  ASSUME NEW A, IsFiniteSet(A), NEW B, IsFiniteSet(B),
         NEW x \in Nat \ {0}, NEW y \in Nat \ {0}, 0 \notin A, x \notin A
  PROVE  Cardinality((A \X {0, y}) \cup ({0, x} \X B)) = 2 * Cardinality(A) + 2 * Cardinality(B)
<1>1. /\ IsFiniteSet({0, y}) /\ Cardinality({0, y}) = 2
      /\ IsFiniteSet({0, x}) /\ Cardinality({0, x}) = 2
  BY PairCount
<1>2. /\ IsFiniteSet(A \X {0, y}) /\ Cardinality(A \X {0, y}) = Cardinality(A) * 2
      /\ IsFiniteSet({0, x} \X B) /\ Cardinality({0, x} \X B) = 2 * Cardinality(B)
  BY <1>1, FS_Product
<1>3. (A \X {0, y}) \cap ({0, x} \X B) = {}
  OBVIOUS
<1>4. Cardinality(A) \in Nat /\ Cardinality(B) \in Nat
  BY FS_CardinalityType
<1>5. /\ IsFiniteSet((A \X {0, y}) \cup ({0, x} \X B))
      /\ Cardinality((A \X {0, y}) \cup ({0, x} \X B))
           = Cardinality(A \X {0, y}) + Cardinality({0, x} \X B) - Cardinality({})
  BY <1>2, <1>3, FS_Union
<1>6. Cardinality({}) = 0
  BY FS_EmptySet
<1> QED
  BY <1>2, <1>4, <1>5, <1>6

-----------------------------------------------------------------------------
(* Which dots there are.                                                     *)

\* The baseplates at the four corners give the four corners of the border.
LEMMA CornerDotsAre ==
  ASSUME NEW w \in Nat \ {0}, NEW h \in Nat \ {0}
  PROVE  CornerDots(w, h) = {0, 2 * w} \X {0, 2 * h}
<1>1. ASSUME NEW d \in CornerDots(w, h)
      PROVE  d \in {0, 2 * w} \X {0, 2 * h}
  <2>1. PICK i \in 0 .. w - 1, j \in 0 .. h - 1 :
          IsCorner(i, j, w, h) /\ d \in CornersOf(i, j, w, h)
    BY DEF CornerDots, Blocks
  <2> QED
    BY <2>1 DEF IsCorner, CornersOf, OuterX, OuterY
<1>2. ASSUME NEW x \in {0, 2 * w}, NEW y \in {0, 2 * h}
      PROVE  <<x, y>> \in CornerDots(w, h)
  <2>1. PICK i \in {0, w - 1}, j \in {0, h - 1} :
          /\ x = 2 * i + (IF x = 0 THEN 0 ELSE 2)
          /\ y = 2 * j + (IF y = 0 THEN 0 ELSE 2)
    <3>1. \E i \in {0, w - 1} : x = 2 * i + (IF x = 0 THEN 0 ELSE 2)
      OBVIOUS
    <3>2. \E j \in {0, h - 1} : y = 2 * j + (IF y = 0 THEN 0 ELSE 2)
      OBVIOUS
    <3> QED BY <3>1, <3>2
  <2>2. i \in 0 .. w - 1 /\ j \in 0 .. h - 1 /\ IsCorner(i, j, w, h)
    BY DEF IsCorner
  <2>3. <<x, y>> \in CornersOf(i, j, w, h)
    BY <2>1 DEF CornersOf, OuterX, OuterY
  <2>4. <<i, j>> \in Blocks(w, h)
    BY <2>2 DEF Blocks
  <2> QED
    BY <2>2, <2>3, <2>4 DEF CornerDots
<1> QED
  BY <1>1, <1>2

\* The baseplates of the border give the middle of each free edge, one dot each.
LEMMA EdgeDotsAre ==
  ASSUME NEW w \in Nat \ {0}, NEW h \in Nat \ {0}
  PROVE  EdgeDots(w, h) = (Odds(w) \X {0, 2 * h}) \cup ({0, 2 * w} \X Odds(h))
<1>1. ASSUME NEW d \in EdgeDots(w, h)
      PROVE  d \in (Odds(w) \X {0, 2 * h}) \cup ({0, 2 * w} \X Odds(h))
  <2>1. PICK i \in 0 .. w - 1, j \in 0 .. h - 1 :
          \/ IsCorner(i, j, w, h) /\ d \in CornerEdges(i, j, w, h)
          \/ IsSide(i, j, w, h) /\ d \in SideEdges(i, j, w, h)
    BY DEF EdgeDots, Blocks
  <2>2. 2 * i + 1 \in Odds(w) /\ 2 * j + 1 \in Odds(h)
    BY DEF Odds
  <2>3. CASE IsCorner(i, j, w, h) /\ d \in CornerEdges(i, j, w, h)
    BY <2>2, <2>3 DEF CornerEdges
  <2>4. CASE IsSide(i, j, w, h) /\ d \in SideEdges(i, j, w, h)
    BY <2>2, <2>4 DEF IsSide, SideEdges, SideX, SideY, OuterX, OuterY
  <2> QED
    BY <2>1, <2>3, <2>4
<1>2. ASSUME NEW i \in 0 .. w - 1, NEW j \in {0, h - 1},
             NEW y, y = 2 * j \/ y = 2 * j + 2, y \in {0, 2 * h}
      PROVE  <<2 * i + 1, y>> \in EdgeDots(w, h)
  <2>1. <<i, j>> \in Blocks(w, h)
    BY DEF Blocks
  <2>2. CASE i \in {0, w - 1}
    <3>1. IsCorner(i, j, w, h) /\ <<2 * i + 1, y>> \in CornerEdges(i, j, w, h)
      BY <1>2, <2>2 DEF IsCorner, CornerEdges
    <3> QED BY <2>1, <3>1 DEF EdgeDots
  <2>3. CASE i \notin {0, w - 1}
    <3>1. IsSide(i, j, w, h) /\ <<2 * i + 1, y>> \in SideEdges(i, j, w, h)
      BY <1>2, <2>3 DEF IsSide, SideEdges, SideX, SideY, OuterX, OuterY
    <3> QED BY <2>1, <3>1 DEF EdgeDots
  <2> QED BY <2>2, <2>3
<1>3. ASSUME NEW j \in 0 .. h - 1, NEW i \in {0, w - 1},
             NEW x, x = 2 * i \/ x = 2 * i + 2, x \in {0, 2 * w}
      PROVE  <<x, 2 * j + 1>> \in EdgeDots(w, h)
  <2>1. <<i, j>> \in Blocks(w, h)
    BY DEF Blocks
  <2>2. CASE j \in {0, h - 1}
    <3>1. IsCorner(i, j, w, h) /\ <<x, 2 * j + 1>> \in CornerEdges(i, j, w, h)
      BY <1>3, <2>2 DEF IsCorner, CornerEdges
    <3> QED BY <2>1, <3>1 DEF EdgeDots
  <2>3. CASE j \notin {0, h - 1}
    <3>1. IsSide(i, j, w, h) /\ <<x, 2 * j + 1>> \in SideEdges(i, j, w, h)
      BY <1>3, <2>3 DEF IsSide, SideEdges, SideX, SideY, OuterX, OuterY
    <3> QED BY <2>1, <3>1 DEF EdgeDots
  <2> QED BY <2>2, <2>3
<1>4. ASSUME NEW i \in 0 .. w - 1, NEW y \in {0, 2 * h}
      PROVE  <<2 * i + 1, y>> \in EdgeDots(w, h)
  <2>1. CASE y = 0
    <3>1. 0 \in {0, h - 1} /\ y = 2 * 0
      BY <2>1
    <3> QED BY <1>2, <3>1
  <2>2. CASE y = 2 * h
    <3>1. h - 1 \in {0, h - 1} /\ y = 2 * (h - 1) + 2
      BY <2>2
    <3> QED BY <1>2, <3>1
  <2> QED BY <2>1, <2>2
<1>5. ASSUME NEW x \in {0, 2 * w}, NEW j \in 0 .. h - 1
      PROVE  <<x, 2 * j + 1>> \in EdgeDots(w, h)
  <2>1. CASE x = 0
    <3>1. 0 \in {0, w - 1} /\ x = 2 * 0
      BY <2>1
    <3> QED BY <1>3, <3>1
  <2>2. CASE x = 2 * w
    <3>1. w - 1 \in {0, w - 1} /\ x = 2 * (w - 1) + 2
      BY <2>2
    <3> QED BY <1>3, <3>1
  <2> QED BY <2>1, <2>2
<1>6. \A a \in Odds(w), y \in {0, 2 * h} : <<a, y>> \in EdgeDots(w, h)
  BY <1>4 DEF Odds
<1>7. \A x \in {0, 2 * w}, b \in Odds(h) : <<x, b>> \in EdgeDots(w, h)
  BY <1>5 DEF Odds
<1>8. ASSUME NEW d \in Odds(w) \X {0, 2 * h} PROVE d \in EdgeDots(w, h)
  <2>1. PICK a \in Odds(w), y \in {0, 2 * h} : d = <<a, y>>
    OBVIOUS
  <2> QED BY <1>6, <2>1
<1>9. {0, 2 * w} \X Odds(h) \subseteq EdgeDots(w, h)
  BY <1>7
<1> QED
  BY <1>1, <1>8, <1>9

\* The lattice points between the corners.
LEMMA SeamDotsAre ==
  ASSUME NEW w \in Nat \ {0}, NEW h \in Nat \ {0}
  PROVE  SeamDots(w, h) = (Evens(w) \X {0, 2 * h}) \cup ({0, 2 * w} \X Evens(h))
<1> DEFINE border == {q \in (0 .. w) \X (0 .. h) :
                        /\ q[1] \in {0, w} \/ q[2] \in {0, h}
                        /\ ~ (q[1] \in {0, w} /\ q[2] \in {0, h})}
<1>1. \A d : d \in SeamDots(w, h) <=> \E q \in border : d = <<2 * q[1], 2 * q[2]>>
  BY DEF SeamDots
<1>2. ASSUME NEW d \in SeamDots(w, h)
      PROVE  d \in (Evens(w) \X {0, 2 * h}) \cup ({0, 2 * w} \X Evens(h))
  <2>1. PICK i \in 0 .. w, j \in 0 .. h :
          /\ d = <<2 * i, 2 * j>>
          /\ i \in {0, w} \/ j \in {0, h}
          /\ ~ (i \in {0, w} /\ j \in {0, h})
    BY <1>1
  <2>2. CASE i \in {0, w}
    BY <2>1, <2>2 DEF Evens
  <2>3. CASE j \in {0, h}
    BY <2>1, <2>3 DEF Evens
  <2> QED BY <2>1, <2>2, <2>3
<1>3. ASSUME NEW i \in 1 .. w - 1, NEW y \in {0, 2 * h}
      PROVE  <<2 * i, y>> \in SeamDots(w, h)
  <2>1. PICK j \in {0, h} : y = 2 * j
    OBVIOUS
  <2>2. <<i, j>> \in border
    OBVIOUS
  <2> QED BY <1>1, <2>1, <2>2
<1>4. ASSUME NEW x \in {0, 2 * w}, NEW j \in 1 .. h - 1
      PROVE  <<x, 2 * j>> \in SeamDots(w, h)
  <2>1. PICK i \in {0, w} : x = 2 * i
    OBVIOUS
  <2>2. <<i, j>> \in border
    OBVIOUS
  <2> QED BY <1>1, <2>1, <2>2
<1>5. \A a \in Evens(w), y \in {0, 2 * h} : <<a, y>> \in SeamDots(w, h)
  BY <1>3 DEF Evens
<1>6. \A x \in {0, 2 * w}, b \in Evens(h) : <<x, b>> \in SeamDots(w, h)
  BY <1>4 DEF Evens
<1>7. ASSUME NEW d \in Evens(w) \X {0, 2 * h} PROVE d \in SeamDots(w, h)
  <2>1. PICK a \in Evens(w), y \in {0, 2 * h} : d = <<a, y>>
    OBVIOUS
  <2> QED BY <1>5, <2>1
<1>8. {0, 2 * w} \X Evens(h) \subseteq SeamDots(w, h)
  BY <1>6
<1> QED
  BY <1>2, <1>7, <1>8

\* Two arrows for each free edge.
LEMMA PinMapIs ==
  ASSUME NEW w \in Nat \ {0}, NEW h \in Nat \ {0}
  PROVE  PinMap(w, h) = (Quarters(w) \X {0, 4 * h}) \cup ({0, 4 * w} \X Quarters(h))
<1>1. PinMap(w, h) \subseteq (Quarters(w) \X {0, 4 * h}) \cup ({0, 4 * w} \X Quarters(h))
  BY DEF PinMap, Quarters
<1>2. ASSUME NEW i \in 0 .. w - 1, NEW q \in {1, 3}, NEW y \in {0, 4 * h}
      PROVE  <<4 * i + q, y>> \in PinMap(w, h)
  BY DEF PinMap
<1>3. ASSUME NEW x \in {0, 4 * w}, NEW j \in 0 .. h - 1, NEW q \in {1, 3}
      PROVE  <<x, 4 * j + q>> \in PinMap(w, h)
  BY DEF PinMap
<1>4. \A a \in Quarters(w), y \in {0, 4 * h} : <<a, y>> \in PinMap(w, h)
  BY <1>2 DEF Quarters
<1>5. \A x \in {0, 4 * w}, b \in Quarters(h) : <<x, b>> \in PinMap(w, h)
  BY <1>3 DEF Quarters
<1>6. ASSUME NEW d \in Quarters(w) \X {0, 4 * h} PROVE d \in PinMap(w, h)
  <2>1. PICK a \in Quarters(w), y \in {0, 4 * h} : d = <<a, y>>
    OBVIOUS
  <2> QED BY <1>4, <2>1
<1>7. {0, 4 * w} \X Quarters(h) \subseteq PinMap(w, h)
  BY <1>5
<1> QED
  BY <1>1, <1>6, <1>7

-----------------------------------------------------------------------------
(* How many dots, and what they are together.                                *)

\* There are as many dots as the pages say units: 4 corners, one long edge for
\* each edge of the perimeter, a seam for all but four of them; and twice as many
\* pins as edges.
THEOREM DotCounts ==
  ASSUME NEW w \in Nat \ {0}, NEW h \in Nat \ {0}
  PROVE  /\ Cardinality(CornerDots(w, h)) = 4
         /\ Cardinality(EdgeDots(w, h)) = 2 * w + 2 * h
         /\ Cardinality(SeamDots(w, h)) = 2 * w + 2 * h - 4
         /\ Cardinality(PinMap(w, h)) = 4 * w + 4 * h
<1>1. Cardinality(CornerDots(w, h)) = 4
  <2>1. 0 # 2 * w /\ 0 # 2 * h
    OBVIOUS
  <2>2. /\ IsFiniteSet({0, 2 * w}) /\ Cardinality({0, 2 * w}) = 2
        /\ IsFiniteSet({0, 2 * h}) /\ Cardinality({0, 2 * h}) = 2
    BY <2>1, PairCount, Zenon
  <2>3. Cardinality({0, 2 * w} \X {0, 2 * h}) = 2 * 2
    BY <2>2, FS_Product
  <2>4. CornerDots(w, h) = {0, 2 * w} \X {0, 2 * h}
    BY CornerDotsAre
  <2> QED
    BY <2>3, <2>4
<1>2. Cardinality(EdgeDots(w, h)) = 2 * w + 2 * h
  <2>1. 0 \notin Odds(w) /\ 2 * w \notin Odds(w)
    BY DEF Odds
  <2>2. /\ IsFiniteSet(Odds(w)) /\ Cardinality(Odds(w)) = w
        /\ IsFiniteSet(Odds(h)) /\ Cardinality(Odds(h)) = h
    BY OddsCount
  <2>3. 2 * w \in Nat \ {0} /\ 2 * h \in Nat \ {0}
    OBVIOUS
  <2>4. Cardinality((Odds(w) \X {0, 2 * h}) \cup ({0, 2 * w} \X Odds(h)))
          = 2 * Cardinality(Odds(w)) + 2 * Cardinality(Odds(h))
    BY <2>1, <2>2, <2>3, AroundCount
  <2>5. EdgeDots(w, h) = (Odds(w) \X {0, 2 * h}) \cup ({0, 2 * w} \X Odds(h))
    BY EdgeDotsAre
  <2> QED
    BY <2>2, <2>4, <2>5
<1>3. Cardinality(SeamDots(w, h)) = 2 * w + 2 * h - 4
  <2>1. 0 \notin Evens(w) /\ 2 * w \notin Evens(w)
    BY DEF Evens
  <2>2. /\ IsFiniteSet(Evens(w)) /\ Cardinality(Evens(w)) = w - 1
        /\ IsFiniteSet(Evens(h)) /\ Cardinality(Evens(h)) = h - 1
    BY EvensCount
  <2>3. 2 * w \in Nat \ {0} /\ 2 * h \in Nat \ {0}
    OBVIOUS
  <2>4. Cardinality((Evens(w) \X {0, 2 * h}) \cup ({0, 2 * w} \X Evens(h)))
          = 2 * Cardinality(Evens(w)) + 2 * Cardinality(Evens(h))
    BY <2>1, <2>2, <2>3, AroundCount
  <2>5. SeamDots(w, h) = (Evens(w) \X {0, 2 * h}) \cup ({0, 2 * w} \X Evens(h))
    BY SeamDotsAre
  <2> QED
    BY <2>2, <2>4, <2>5
<1>4. Cardinality(PinMap(w, h)) = 4 * w + 4 * h
  <2>1. 0 \notin Quarters(w) /\ 4 * w \notin Quarters(w)
    BY DEF Quarters
  <2>2. /\ IsFiniteSet(Quarters(w)) /\ Cardinality(Quarters(w)) = 2 * w
        /\ IsFiniteSet(Quarters(h)) /\ Cardinality(Quarters(h)) = 2 * h
    BY QuartersCount
  <2>3. 4 * w \in Nat \ {0} /\ 4 * h \in Nat \ {0}
    OBVIOUS
  <2>4. Cardinality((Quarters(w) \X {0, 4 * h}) \cup ({0, 4 * w} \X Quarters(h)))
          = 2 * Cardinality(Quarters(w)) + 2 * Cardinality(Quarters(h))
    BY <2>1, <2>2, <2>3, AroundCount
  <2>5. PinMap(w, h) = (Quarters(w) \X {0, 4 * h}) \cup ({0, 4 * w} \X Quarters(h))
    BY PinMapIs
  <2> QED
    BY <2>2, <2>4, <2>5
<1> QED
  BY <1>1, <1>2, <1>3, <1>4

\* No place of the border has two units, and none has none.
THEOREM DotsCoverBorder ==
  ASSUME NEW w \in Nat \ {0}, NEW h \in Nat \ {0}
  PROVE  /\ CornerDots(w, h) \cap EdgeDots(w, h) = {}
         /\ CornerDots(w, h) \cap SeamDots(w, h) = {}
         /\ EdgeDots(w, h) \cap SeamDots(w, h) = {}
         /\ CornerDots(w, h) \cup EdgeDots(w, h) \cup SeamDots(w, h) = BorderDots(w, h)
<1>1. /\ CornerDots(w, h) = {0, 2 * w} \X {0, 2 * h}
      /\ EdgeDots(w, h) = (Odds(w) \X {0, 2 * h}) \cup ({0, 2 * w} \X Odds(h))
      /\ SeamDots(w, h) = (Evens(w) \X {0, 2 * h}) \cup ({0, 2 * w} \X Evens(h))
  BY CornerDotsAre, EdgeDotsAre, SeamDotsAre
<1>2. \A n \in Nat \ {0} :
        /\ Odds(n) \cap Evens(n) = {}
        /\ 0 \notin Odds(n) /\ 2 * n \notin Odds(n)
        /\ 0 \notin Evens(n) /\ 2 * n \notin Evens(n)
  BY DEF Odds, Evens
<1>3. ASSUME NEW n \in Nat \ {0}, NEW x \in 0 .. 2 * n
      PROVE  x \in {0, 2 * n} \cup Odds(n) \cup Evens(n)
  <2>1. PICK k \in 0 .. n : x = 2 * k \/ x = 2 * k + 1
    <3>1. x \div 2 \in 0 .. n /\ (x = 2 * (x \div 2) \/ x = 2 * (x \div 2) + 1)
      OBVIOUS
    <3> QED BY <3>1
  <2>2. CASE x = 2 * k
    BY <2>2 DEF Evens
  <2>3. CASE x = 2 * k + 1
    BY <2>3 DEF Odds
  <2> QED BY <2>1, <2>2, <2>3
<1>4. \A n \in Nat \ {0} : {0, 2 * n} \cup Odds(n) \cup Evens(n) \subseteq 0 .. 2 * n
  BY DEF Odds, Evens
<1>5. \A x \in 0 .. 2 * w : x \in {0, 2 * w} \cup Odds(w) \cup Evens(w)
  BY <1>3
<1>6. \A y \in 0 .. 2 * h : y \in {0, 2 * h} \cup Odds(h) \cup Evens(h)
  BY <1>3
<1>7. CornerDots(w, h) \cup EdgeDots(w, h) \cup SeamDots(w, h) \subseteq BorderDots(w, h)
  BY <1>1, <1>4 DEF BorderDots
<1>8. BorderDots(w, h) \subseteq CornerDots(w, h) \cup EdgeDots(w, h) \cup SeamDots(w, h)
  BY <1>1, <1>5, <1>6 DEF BorderDots
<1>9. /\ CornerDots(w, h) \cap EdgeDots(w, h) = {}
      /\ CornerDots(w, h) \cap SeamDots(w, h) = {}
      /\ EdgeDots(w, h) \cap SeamDots(w, h) = {}
  BY <1>1, <1>2
<1> QED
  BY <1>7, <1>8, <1>9

\* The placement pages have room for a grid of nine baseplates across and seven down,
\* and for no larger one (VisualMaker.py:2310-2313).
THEOREM PageLimits ==
  ASSUME NEW w \in Nat \ {0}, NEW h \in Nat \ {0}
  PROVE  GridFitsPage(w, h) <=> w <= 9 /\ h <= 7
<1> USE DEF OnPage, LENGTH, CIRCLE_RADIUS, Y_OFFSET, PAGE_WIDTH, PAGE_HEIGHT
<1>1. ASSUME GridFitsPage(w, h) PROVE w <= 9 /\ h <= 7
  <2>1. <<0, 0>> \in BorderDots(w, h) /\ <<2 * w, 2 * h>> \in BorderDots(w, h)
    BY DEF BorderDots
  <2>2. OnPage(<<0, 0>>, w) /\ OnPage(<<2 * w, 2 * h>>, w)
    BY <1>1, <2>1 DEF GridFitsPage, OnPaper
  <2>3. 15 <= 306 - 30 * w + 30 * 0 /\ 350 + 30 * (2 * h) + 15 < 792
    BY <2>2
  <2> QED BY <2>3
<1>2. ASSUME w <= 9, h <= 7, NEW d \in BorderDots(w, h) PROVE OnPage(d, w)
  <2>1. d[1] \in 0 .. 2 * w /\ d[2] \in 0 .. 2 * h
    BY DEF BorderDots
  <2>2. /\ 15 <= 306 - 30 * w + 30 * d[1]
        /\ 306 - 30 * w + 30 * d[1] + 15 < 612
        /\ 350 + 30 * d[2] + 15 < 792
    BY <1>2, <2>1
  <2> QED BY <2>2
<1> QED
  BY <1>1, <1>2 DEF GridFitsPage, OnPaper

\* Of the dots of each kind the paper shows no more than there are, and all of them
\* if the grid fits on it.
LEMMA OnPaperCounts ==
  ASSUME NEW w \in Nat \ {0}, NEW h \in Nat \ {0},
         NEW dots \in {CornerDots(w, h), EdgeDots(w, h), SeamDots(w, h)}
  PROVE  /\ Cardinality(OnPaper(dots, w)) \in Nat
         /\ Cardinality(OnPaper(dots, w)) <= Cardinality(dots)
         /\ GridFitsPage(w, h) => OnPaper(dots, w) = dots
<1>1. dots \subseteq BorderDots(w, h)
  BY DotsCoverBorder
<1>2. IsFiniteSet((0 .. 2 * w) \X (0 .. 2 * h))
  <2>1. IsFiniteSet(0 .. 2 * w) /\ IsFiniteSet(0 .. 2 * h)
    BY FS_Interval
  <2> QED BY <2>1, FS_Product
<1>3. dots \subseteq (0 .. 2 * w) \X (0 .. 2 * h)
  BY <1>1 DEF BorderDots
<1>4. IsFiniteSet(dots)
  BY <1>2, <1>3, FS_Subset
<1>5. OnPaper(dots, w) \subseteq dots
  BY DEF OnPaper
<1>6. IsFiniteSet(OnPaper(dots, w)) /\ Cardinality(OnPaper(dots, w)) <= Cardinality(dots)
  BY <1>4, <1>5, FS_Subset
<1>7. Cardinality(OnPaper(dots, w)) \in Nat
  BY <1>6, FS_CardinalityType
<1>8. GridFitsPage(w, h) => OnPaper(dots, w) = dots
  BY <1>1 DEF GridFitsPage, OnPaper
<1> QED
  BY <1>6, <1>7, <1>8

\* A hook has one spot.
LEMMA HookSpotsCount ==
  ASSUME NEW w \in Nat \ {0}, NEW n \in {1, 2}
  PROVE  Cardinality(HookSpots(w, n)) = n
<1>1. CASE n = 1
  BY <1>1, FS_Singleton DEF HookSpots
<1>2. CASE n = 2 /\ w = 1
  <2>1. 3 # 7
    OBVIOUS
  <2>2. Cardinality({3, 7}) = 2
    BY <2>1, PairCount, Zenon
  <2> QED BY <1>2, <2>2 DEF HookSpots
<1>3. CASE n = 2 /\ w # 1
  <2>1. 5 # 10 * w - 5
    BY <1>3
  <2>2. Cardinality({5, 10 * w - 5}) = 2
    BY <2>1, PairCount, Zenon
  <2> QED BY <1>3, <2>2 DEF HookSpots
<1> QED
  BY <1>1, <1>2, <1>3
=============================================================================
