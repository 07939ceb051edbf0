------------------------------- MODULE KitList -------------------------------
(***************************************************************************)
(* The pieces of a mosaic's kit that do not depend on the picture, counted *)
(* twice as the program counts them twice: for the order list              *)
(* (scripts/MosiacToOrder.py) and page by page for the instruction booklet *)
(* (scripts/VisualMaker.py).  Sizes are in baseplates, w to the right and  *)
(* h down.  Nothing here is recursive.                                     *)
(***************************************************************************)
EXTENDS Integers

STUDS_PER_BLOCK == 16

BoardPieces == {"baseplate", "hook", "hook_pin", "green_conn", "red_conn",
                "green_plate", "red_plate", "plate_2x2"}
FramePieces == {"corner_brick", "corner_plate", "brick_1x1", "axle_brick", "axle_peg",
                "brick_8x1", "brick_4x1", "plate_10x2", "plate_6x2", "brick_16x1",
                "thin_corner", "flat_1x4"}
Pieces == BoardPieces \cup FramePieces

NoPieces   == [p \in Pieces |-> 0]
Plus(f, g)  == [p \in Pieces |-> f[p] + g[p]]
Fits(f, g) == \A p \in Pieces : f[p] <= g[p]

\* A bag of pieces of which only some are named: the others are none.
Bag(some) == [p \in Pieces |-> IF p \in DOMAIN some THEN some[p] ELSE 0]

-----------------------------------------------------------------------------
(* MosiacToOrder.py *)

NailHooks(w, h) == IF w * h < 2 THEN w * h ELSE 2

\* Mutant: the connectors of the green seams counted with the width.
GetBaseplatesForSizeSwapped(w, h) ==
  [baseplate   |-> w * h,
   hook        |-> NailHooks(w, h),
   hook_pin    |-> 2 * NailHooks(w, h),
   green_conn  |-> (2 * (w - 1)) * w,
   red_conn    |-> (2 * (h - 1)) * w,
   green_plate |-> (w - 1) * h,
   red_plate   |-> (h - 1) * w,
   plate_2x2   |-> (w * h) * 5]
GetBaseplatesForSize(w, h) ==
  [baseplate   |-> w * h,
   hook        |-> NailHooks(w, h),
   hook_pin    |-> 2 * NailHooks(w, h),
   green_conn  |-> (2 * (w - 1)) * h,
   red_conn    |-> (2 * (h - 1)) * w,
   green_plate |-> (w - 1) * h,
   red_plate   |-> (h - 1) * w,
   plate_2x2   |-> (w * h) * 5]

\* The frame's flat plates, the one count of it that is not obvious.
FlatPlates(w, h) == 8 * (w + h) - 4

GetFrameForSize(w, h) ==
  LET axles == 4 * w + 4 * h
      seams == 2 * (w - 1) + 2 * (h - 1)
  IN [corner_brick |-> 4,
      corner_plate |-> 4,
      brick_1x1    |-> 4 * 2 + 4,
      axle_brick   |-> axles,
      axle_peg     |-> axles,
      brick_8x1    |-> axles \div 2,
      brick_4x1    |-> seams,
      plate_10x2   |-> axles \div 2,
      plate_6x2    |-> seams,
      brick_16x1   |-> 2 * w + 2 * h,
      thin_corner  |-> 4,
      flat_1x4     |-> FlatPlates(w, h)]

\* GenerateOrderList, but for the studs of the picture.
KitFor(w, h, want_frame) ==
  LET boards == GetBaseplatesForSize(w, h)
      frame  == GetFrameForSize(w, h)
  IN [p \in Pieces |-> IF p \in BoardPieces THEN boards[p]
                       ELSE IF want_frame THEN frame[p] ELSE 0]

-----------------------------------------------------------------------------
(* VisualMaker.py: the legends of the pages, for one piece of work *)

\* GenerateBasePlateInstructions: which neighbours a baseplate has.
\* 0 right and below, 1 below only, 2 right only, 3 none.
CaseOf(row, rows, col, cols) ==
  IF rows - 1 = row /\ cols - 1 = col THEN 3
  ELSE IF cols - 1 = col THEN 1
  ELSE IF rows - 1 = row THEN 2
  ELSE 0

StepAParts == [baseplate |-> 1]

\* _baseplate_step_b_parts
StepBParts(case) ==
  [plate_2x2   |-> 5,
   green_conn  |-> IF case \in {0, 2} THEN 2 ELSE 0,
   green_plate |-> IF case \in {0, 2} THEN 1 ELSE 0,
   red_conn    |-> IF case \in {0, 1} THEN 2 ELSE 0,
   red_plate   |-> IF case \in {0, 1} THEN 1 ELSE 0]

SetupParts(case) == Plus(Bag(StepAParts), Bag(StepBParts(case)))

\* draw_baseplate_bottom: what the picture of the same page shows.  A connector
\* sits in each hole of its colour, so the holes are counted.
GreenHoles == {<<-13, 39>>, <<-13, 129>>}     \* in tenths of a stud
RedHoles   == {<<21, 163>>, <<111, 163>>}
TwoByTwos  == {<<0, 0>>, <<14, 0>>, <<14, 14>>, <<0, 14>>, <<7, 7>>}
BottomArt(case) ==
  [two_by_twos   |-> TwoByTwos,
   green_plates  |-> IF case \in {0, 2} THEN {<<-1, 6>>} ELSE {},
   green_sockets |-> IF case \in {0, 2} THEN GreenHoles ELSE {},
   red_plates    |-> IF case \in {0, 1} THEN {<<6, 15>>} ELSE {},
   red_sockets   |-> IF case \in {0, 1} THEN RedHoles ELSE {}]

\* Legends of one unit of the frame: what _assemble_* shows before its "xN".
LongEdgeParts == [plate_10x2 |-> 1, brick_8x1 |-> 1, axle_brick |-> 2]
CornerParts   == [corner_plate |-> 1, corner_brick |-> 1, brick_1x1 |-> 3]
SeamParts     == [plate_6x2 |-> 1, brick_4x1 |-> 1]
\* draw_hook_assembly_instruction: one bracket, two pins.
HookParts     == [hook |-> 1, hook_pin |-> 2]

Times(n, some) == [p \in Pieces |-> n * Bag(some)[p]]
=============================================================================
