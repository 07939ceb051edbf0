------------------------------ MODULE FrameGrid ------------------------------
(***************************************************************************)
(* Where the booklet puts a mark: the dots of the frame's placement pages  *)
(* (_compute_frame_grid), the arrows of the axle pins (draw_axle_pin_map)  *)
(* and the hooks (draw_backhook_instruction), all in VisualMaker.py.       *)
(*                                                                         *)
(* The program collects circles in lists and a circle drawn twice is one   *)
(* dot, so the lists are sets here.  A baseplate's edge is 2 long: corners *)
(* and seams have even coordinates, the middles of edges one odd one.      *)
(***************************************************************************)
EXTENDS Integers

Blocks(w, h) == (0 .. w - 1) \X (0 .. h - 1)

\* The corner of a baseplate a dot goes to: right if it is the last column,
\* bottom if it is the last row.
OuterX(i, w) == 2 * i + (IF i = w - 1 THEN 2 ELSE 0)
OuterY(j, h) == 2 * j + (IF j = h - 1 THEN 2 ELSE 0)

IsCorner(i, j, w, h) == i \in {0, w - 1} /\ j \in {0, h - 1}

\* Mutant: no special case for one-wide and one-high mosaics.
CornersOfPlain(i, j, w, h) == {<<OuterX(i, w), OuterY(j, h)>>}
\* One corner baseplate's dots; of a one-wide or one-high mosaic it has more than one.
CornersOf(i, j, w, h) ==
  {<<OuterX(i, w), OuterY(j, h)>>}
  \cup (IF w = 1 /\ j = 0     THEN {<<2 * i, 2 * j>>, <<2 * i + 2, 2 * j>>} ELSE {})
  \cup (IF w = 1 /\ j = h - 1 THEN {<<2 * i, 2 * j + 2>>, <<2 * i + 2, 2 * j + 2>>} ELSE {})
  \cup (IF h = 1 /\ i = 0     THEN {<<2 * i, 2 * j>>} ELSE {})
  \cup (IF h = 1 /\ i = w - 1 THEN {<<2 * i + 2, 2 * j>>} ELSE {})

CornerDots(w, h) ==
  UNION {CornersOf(b[1], b[2], w, h) : b \in {c \in Blocks(w, h) : IsCorner(c[1], c[2], w, h)}}

\* The two free edges of each corner baseplate.
CornerEdges(i, j, w, h) ==
  (IF i = 0 /\ j = 0
   THEN {<<2 * i + 1, 2 * j>>, <<2 * i, 2 * j + 1>>} ELSE {})
  \cup (IF i = w - 1 /\ j = 0
        THEN {<<2 * i + 1, 2 * j>>, <<2 * i + 2, 2 * j + 1>>} ELSE {})
  \cup (IF i = 0 /\ j = h - 1
        THEN {<<2 * i + 1, 2 * j + 2>>, <<2 * i, 2 * j + 1>>} ELSE {})
  \cup (IF i = w - 1 /\ j = h - 1
        THEN {<<2 * i + 1, 2 * j + 2>>, <<2 * i + 2, 2 * j + 1>>} ELSE {})

\* On the border and no corner: the free edge, and the opposite one of a
\* one-wide or one-high mosaic.
IsSide(i, j, w, h) == \/ i \in {0, w - 1} /\ j \notin {0, h - 1}
                      \/ j \in {0, h - 1} /\ i \notin {0, w - 1}

SideX(i, w) == OuterX(i, w) + (IF i \notin {0, w - 1} THEN 1 ELSE 0)
SideY(j, h) == OuterY(j, h) + (IF j \notin {0, h - 1} THEN 1 ELSE 0)

SideEdges(i, j, w, h) ==
  {<<SideX(i, w), SideY(j, h)>>}
  \cup (IF w = 1 THEN {<<SideX(i, w) - 2, SideY(j, h)>>} ELSE {})
  \cup (IF h = 1 THEN {<<SideX(i, w), SideY(j, h) - 2>>} ELSE {})

EdgeDots(w, h) ==
  UNION ({CornerEdges(b[1], b[2], w, h) :
            b \in {c \in Blocks(w, h) : IsCorner(c[1], c[2], w, h)}}
         \cup {SideEdges(b[1], b[2], w, h) :
                 b \in {c \in Blocks(w, h) : IsSide(c[1], c[2], w, h)}})

\* Lattice points of the border that are not its corners.
SeamDots(w, h) ==
  {<<2 * p[1], 2 * p[2]>> : p \in
     {q \in (0 .. w) \X (0 .. h) : /\ q[1] \in {0, w} \/ q[2] \in {0, h}
                                   /\ ~ (q[1] \in {0, w} /\ q[2] \in {0, h})}}

\* The paper, in pixels; cells and dots of the placement pages have a fixed size.
PAGE_WIDTH  == 612
PAGE_HEIGHT == 792
LENGTH        == 60
CIRCLE_RADIUS == LENGTH \div 4
Y_OFFSET      == 350

\* Whether a dot is on the paper as a whole; the grid is centred and starts in the
\* middle, whatever its size.
OnPage(d, w) ==
  LET x == PAGE_WIDTH \div 2 - (LENGTH \div 2) * w + (LENGTH \div 2) * d[1]
      y == Y_OFFSET + (LENGTH \div 2) * d[2]
  IN /\ CIRCLE_RADIUS <= x /\ x + CIRCLE_RADIUS < PAGE_WIDTH
     /\ y + CIRCLE_RADIUS < PAGE_HEIGHT

\* What a reader sees of dots that are drawn.
OnPaper(dots, w) == {d \in dots : OnPage(d, w)}

\* Not in the program, what the dots are for: the corners, the middles of the
\* edges and the seams of the mosaic's border.
BorderDots(w, h) ==
  {d \in (0 .. 2 * w) \X (0 .. 2 * h) : d[1] \in {0, 2 * w} \/ d[2] \in {0, 2 * h}}

\* No more than nine baseplates across and seven down: see PageLimits.
GridFitsPage(w, h) == OnPaper(BorderDots(w, h), w) = BorderDots(w, h)

\* draw_axle_pin_map: two arrows for each free edge, in quarters of an edge.
PinMap(w, h) ==
  {<<4 * i + q, y>> : i \in 0 .. w - 1, q \in {1, 3}, y \in {0, 4 * h}}
  \cup {<<x, 4 * j + q>> : x \in {0, 4 * w}, j \in 0 .. h - 1, q \in {1, 3}}

\* draw_backhook_instruction: the middles of the hooks, in tenths of an edge.
HookSpots(w, hooks) ==
  IF hooks = 1 THEN {10 * (w \div 2) + 5}
  ELSE IF w = 1 THEN {3, 7}
  ELSE {5, 10 * w - 5}
=============================================================================
