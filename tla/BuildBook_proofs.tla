-------------------------- MODULE BuildBook_proofs --------------------------
(***************************************************************************)
(* Proofs about BuildBook: for mosaics of any size, with any picture, with *)
(* and without a frame, and wherever the worker fails, no legend or dot of *)
(* the booklet asks for a piece the kit lacks, the finished booklet uses up*)
(* the kit, as far as the paper goes, shows every column of studs, numbers *)
(* its pages without a gap and builds a frame that goes all around; and    *)
(* preview, order list, stats and booklet have the same studs of each      *)
(* colour.                                                                 *)
(*                                                                         *)
(* The pages are drawn in two loops and a tail.  The invariant, RunInv,    *)
(* says of every point of them which pieces the pages so far have used     *)
(* (CountInv: a closed form in the loops' two counters), which columns they*)
(* have shown (ShownInv), which units of the frame are built and placed    *)
(* (UnitInv) and which numbers are on disk (PageInv).  From the closed     *)
(* forms at a point the properties follow by arithmetic; a failed job keeps*)
(* what it had told.                                                       *)
(*                                                                         *)
(* PictureInv says of each result how many studs of a colour it has, as a  *)
(* sum over the columns: of all of them for preview, order list and stats, *)
(* of those shown for the plates laid.                                     *)
(***************************************************************************)
EXTENDS BuildBook, FrameGrid_proofs, SetSums

Early   == {"simplify", "preview", "order", "stats", "title"}
Loops   == {"setup", "background", "foreground"}
Framing == {"long_edge", "place_long_edge", "corner", "place_corner",
            "seam", "place_seam", "finish"}
Ending  == {"hooks", "backhook", "final", "pdf", "done"}

Framed == pc \in Ending /\ job.frame

JobInv ==
  /\ job.w \in Nat \ {0} /\ job.h \in Nat \ {0}
  /\ job.frame \in BOOLEAN /\ job.threeD \in BOOLEAN
  /\ picture \in Pictures /\ picture.w = job.w /\ picture.h = job.h
  /\ picture.threeD = job.threeD
  /\ pc \in Stages

\* Where the loops are.
AtInv ==
  /\ pc \in Early => at = [w |-> 0, h |-> 0, col |-> 0]
  /\ pc \in Loops => at \in [w : 0 .. job.w - 1, h : 0 .. job.h - 1,
                             col : 0 .. STUDS_PER_BLOCK - 1]
  /\ pc = "setup" => at.col = 0
  /\ pc \notin Early \cup Loops => at = [w |-> job.w, h |-> 0, col |-> 0]
  /\ pc \in Framing => job.frame

OrderInv ==
  /\ pc \notin {"simplify", "preview", "order"} => order = KitFor(job.w, job.h, job.frame)
  /\ pc \in {"simplify", "preview", "order"} => order = NoPieces

\* A block's setup pages come before its columns.
SetUp == IF pc \in {"background", "foreground"} THEN 1 ELSE 0
BlocksSetUp == at.w * job.h + at.h + SetUp
GreenSeams  == IF at.w < job.w - 1 THEN BlocksSetUp ELSE (job.w - 1) * job.h
RedSeams    == at.w * (job.h - 1) + (IF at.h < job.h - 1 THEN at.h + SetUp ELSE job.h - 1)

\* The pieces used so far: of the boards by the blocks set up, of the frame by
\* its units built.
BoardCountInv ==
  /\ used["baseplate"] = BlocksSetUp /\ used["plate_2x2"] = 5 * BlocksSetUp
  /\ used["green_conn"] = 2 * GreenSeams /\ used["green_plate"] = GreenSeams
  /\ used["red_conn"] = 2 * RedSeams /\ used["red_plate"] = RedSeams

Hooks == IF pc \in {"backhook", "final", "pdf", "done"} THEN NailHooks(job.w, job.h) ELSE 0

FrameCountInv ==
  /\ used["hook"] = Hooks /\ used["hook_pin"] = 2 * Hooks
  /\ used["plate_10x2"] = built["long_edge"] /\ used["brick_8x1"] = built["long_edge"]
  /\ used["axle_brick"] = 2 * built["long_edge"]
  /\ used["corner_brick"] = built["corner"] /\ used["corner_plate"] = built["corner"]
  /\ used["brick_1x1"] = 3 * built["corner"]
  /\ used["plate_6x2"] = built["seam"] /\ used["brick_4x1"] = built["seam"]
  /\ used["axle_peg"] = IF Framed THEN 4 * job.w + 4 * job.h ELSE 0
  /\ used["brick_16x1"] =
       IF Framed THEN Cardinality(OnPaper(EdgeDots(job.w, job.h), job.w)) ELSE 0
  /\ used["thin_corner"] = IF Framed THEN 4 ELSE 0
  /\ used["flat_1x4"] = IF Framed THEN FlatPlates(job.w, job.h) ELSE 0

CountInv == used \in [Pieces -> Nat] /\ BoardCountInv /\ FrameCountInv

\* The units of the frame built and placed so far, and the connectors told of.
UnitInv ==
  /\ built = [u \in FrameUnits |->
       IF u = "long_edge"
         THEN IF pc \in Framing \ {"long_edge"} \/ Framed THEN Perimeter ELSE 0
       ELSE IF u = "corner"
         THEN IF pc \in {"place_corner", "seam", "place_seam", "finish"} \/ Framed THEN 4 ELSE 0
       ELSE IF pc \in {"place_seam", "finish"} \/ Framed THEN Perimeter - 4 ELSE 0]
  /\ placed = [u \in FrameUnits |->
       IF u = "long_edge"
         THEN IF pc \in Framing \ {"long_edge", "place_long_edge"} \/ Framed
              THEN OnPaper(EdgeDots(job.w, job.h), job.w) ELSE {}
       ELSE IF u = "corner"
         THEN IF pc \in {"seam", "place_seam", "finish"} \/ Framed
              THEN OnPaper(CornerDots(job.w, job.h), job.w) ELSE {}
       ELSE IF pc = "finish" \/ Framed
            THEN OnPaper(SeamDots(job.w, job.h), job.w) ELSE {}]
  /\ joined = IF pc \in Framing \cup Ending THEN {"red", "green"} ELSE {}
  /\ hung = IF pc \in {"final", "pdf", "done"}
            THEN HookSpots(job.w, NailHooks(job.w, job.h)) ELSE {}
  /\ pc \in {"seam", "place_seam"} => Perimeter - 4 # 0

\* Columns in blocks the loops have left behind.
Behind(x) == x[1] < 16 * at.w \/ (x[1] < 16 * at.w + 16 /\ x[2] < at.h)

BgShown(x) == \/ Behind(x)
              \/ pc = "background" /\ x[2] = at.h /\ x[1] < 16 * at.w + at.col
              \/ pc = "foreground" /\ x[2] = at.h /\ x[1] < 16 * at.w + 16
FgShown(x) == /\ \/ Behind(x)
                 \/ pc = "foreground" /\ x[2] = at.h /\ x[1] < 16 * at.w + at.col
              /\ ~ IsEmpty(picture.fg[x])

ShownInv ==
  shown = {<<"bg", x>> : x \in {y \in Columns(job.w, job.h) : BgShown(y)}}
            \cup {<<"fg", x>> : x \in {y \in Columns(job.w, job.h) : FgShown(y)}}

\* The pages on disk are numbered from the title's 0.
PageInv ==
  /\ step \in Nat /\ why = ""
  /\ pc \notin Early => step > 0
  /\ pc # "done" => pngs = 0 .. step - 1 /\ pdf = {}
  /\ pc = "done" => pngs = {} /\ pdf = 0 .. step - 1

RunInv == AtInv /\ OrderInv /\ CountInv /\ UnitInv /\ ShownInv /\ PageInv

IInv == /\ JobInv /\ (pc # "failed" => RunInv)
        /\ KitFitsBook /\ FrameFits /\ BookIsWhole

-----------------------------------------------------------------------------
(* The pieces of the pages.                                                  *)

\* What a baseplate's pages ask for: its neighbours decide.
LEMMA SetupPartsAre ==
  ASSUME NEW case \in 0 .. 3
  PROVE  /\ SetupParts(case) \in [Pieces -> Nat]
         /\ SetupParts(case)["baseplate"] = 1 /\ SetupParts(case)["plate_2x2"] = 5
         /\ SetupParts(case)["green_conn"] = (IF case \in {0, 2} THEN 2 ELSE 0)
         /\ SetupParts(case)["green_plate"] = (IF case \in {0, 2} THEN 1 ELSE 0)
         /\ SetupParts(case)["red_conn"] = (IF case \in {0, 1} THEN 2 ELSE 0)
         /\ SetupParts(case)["red_plate"] = (IF case \in {0, 1} THEN 1 ELSE 0)
         /\ \A p \in FramePieces \cup {"hook", "hook_pin"} : SetupParts(case)[p] = 0
  BY DEF SetupParts, Plus, Bag, StepAParts, StepBParts, Pieces, BoardPieces, FramePieces

\* What n units of the frame, or n hooks, ask for.
LEMMA UnitPartsAre ==
  ASSUME NEW n \in Nat
  PROVE  /\ Times(n, LongEdgeParts) \in [Pieces -> Nat]
         /\ Times(n, LongEdgeParts)["plate_10x2"] = n
         /\ Times(n, LongEdgeParts)["brick_8x1"] = n
         /\ Times(n, LongEdgeParts)["axle_brick"] = 2 * n
         /\ \A p \in Pieces \ {"plate_10x2", "brick_8x1", "axle_brick"} :
              Times(n, LongEdgeParts)[p] = 0
         /\ Times(n, CornerParts) \in [Pieces -> Nat]
         /\ Times(n, CornerParts)["corner_plate"] = n
         /\ Times(n, CornerParts)["corner_brick"] = n
         /\ Times(n, CornerParts)["brick_1x1"] = 3 * n
         /\ \A p \in Pieces \ {"corner_plate", "corner_brick", "brick_1x1"} :
              Times(n, CornerParts)[p] = 0
         /\ Times(n, SeamParts) \in [Pieces -> Nat]
         /\ Times(n, SeamParts)["plate_6x2"] = n
         /\ Times(n, SeamParts)["brick_4x1"] = n
         /\ \A p \in Pieces \ {"plate_6x2", "brick_4x1"} : Times(n, SeamParts)[p] = 0
         /\ Times(n, HookParts) \in [Pieces -> Nat]
         /\ Times(n, HookParts)["hook"] = n
         /\ Times(n, HookParts)["hook_pin"] = 2 * n
         /\ \A p \in Pieces \ {"hook", "hook_pin"} : Times(n, HookParts)[p] = 0
<1> USE DEF Times, Bag, Pieces, BoardPieces, FramePieces
<1>1. /\ Times(n, LongEdgeParts) \in [Pieces -> Nat]
      /\ Times(n, LongEdgeParts)["plate_10x2"] = n
      /\ Times(n, LongEdgeParts)["brick_8x1"] = n
      /\ Times(n, LongEdgeParts)["axle_brick"] = 2 * n
      /\ \A p \in Pieces \ {"plate_10x2", "brick_8x1", "axle_brick"} :
           Times(n, LongEdgeParts)[p] = 0
  BY DEF LongEdgeParts
<1>2. /\ Times(n, CornerParts) \in [Pieces -> Nat]
      /\ Times(n, CornerParts)["corner_plate"] = n
      /\ Times(n, CornerParts)["corner_brick"] = n
      /\ Times(n, CornerParts)["brick_1x1"] = 3 * n
      /\ \A p \in Pieces \ {"corner_plate", "corner_brick", "brick_1x1"} :
           Times(n, CornerParts)[p] = 0
  BY DEF CornerParts
<1>3. /\ Times(n, SeamParts) \in [Pieces -> Nat]
      /\ Times(n, SeamParts)["plate_6x2"] = n
      /\ Times(n, SeamParts)["brick_4x1"] = n
      /\ \A p \in Pieces \ {"plate_6x2", "brick_4x1"} : Times(n, SeamParts)[p] = 0
  BY DEF SeamParts
<1>4. /\ Times(n, HookParts) \in [Pieces -> Nat]
      /\ Times(n, HookParts)["hook"] = n
      /\ Times(n, HookParts)["hook_pin"] = 2 * n
      /\ \A p \in Pieces \ {"hook", "hook_pin"} : Times(n, HookParts)[p] = 0
  BY DEF HookParts
<1> QED
  BY <1>1, <1>2, <1>3, <1>4

LEMMA UnitsTakeNoBoard ==
  ASSUME NEW n \in Nat, NEW p \in BoardPieces \ {"hook", "hook_pin"}
  PROVE  /\ Times(n, LongEdgeParts)[p] = 0 /\ Times(n, CornerParts)[p] = 0
         /\ Times(n, SeamParts)[p] = 0 /\ Times(n, HookParts)[p] = 0
<1>1. p \in Pieces
  BY DEF Pieces
<1>2. p \notin FramePieces \cup {"hook", "hook_pin"}
  BY DEF BoardPieces, FramePieces
<1> QED
  BY <1>1, <1>2 DEF Times, Bag, LongEdgeParts, CornerParts, SeamParts, HookParts, FramePieces

\* What the closing pages ask for: the arrows and dots on the paper, the corners and
\* all of the kit's flat plates.
LEMMA ClosingPartsAre ==
  ASSUME NEW w \in Nat \ {0}, NEW h \in Nat \ {0}, NEW kit \in [Pieces -> Nat]
  PROVE  /\ Bag(ClosingParts(w, h, kit)) \in [Pieces -> Nat]
         /\ Bag(ClosingParts(w, h, kit))["axle_peg"] = 4 * w + 4 * h
         /\ Bag(ClosingParts(w, h, kit))["brick_16x1"]
              = Cardinality(OnPaper(EdgeDots(w, h), w))
         /\ Bag(ClosingParts(w, h, kit))["thin_corner"] = 4
         /\ Bag(ClosingParts(w, h, kit))["flat_1x4"] = kit["flat_1x4"]
         /\ \A p \in Pieces \ {"axle_peg", "brick_16x1", "thin_corner", "flat_1x4"} :
              Bag(ClosingParts(w, h, kit))[p] = 0
<1> DEFINE dots == Cardinality(OnPaper(EdgeDots(w, h), w))
<1>1. Cardinality(PinMap(w, h)) = 4 * w + 4 * h /\ Cardinality(CornerDots(w, h)) = 4
  BY DotCounts
<1>2. dots \in Nat
  BY OnPaperCounts
<1>3. ClosingParts(w, h, kit) = [axle_peg |-> 4 * w + 4 * h, brick_16x1 |-> dots,
                                 thin_corner |-> 4, flat_1x4 |-> kit["flat_1x4"]]
  BY <1>1 DEF ClosingParts
<1>4. kit["flat_1x4"] \in Nat
  BY DEF Pieces, FramePieces
<1> HIDE DEF dots
<1>5. /\ Bag(ClosingParts(w, h, kit)) \in [Pieces -> Nat]
      /\ Bag(ClosingParts(w, h, kit))["axle_peg"] = 4 * w + 4 * h
      /\ Bag(ClosingParts(w, h, kit))["brick_16x1"] = dots
      /\ Bag(ClosingParts(w, h, kit))["thin_corner"] = 4
      /\ Bag(ClosingParts(w, h, kit))["flat_1x4"] = kit["flat_1x4"]
      /\ \A p \in Pieces \ {"axle_peg", "brick_16x1", "thin_corner", "flat_1x4"} :
           Bag(ClosingParts(w, h, kit))[p] = 0
  BY <1>2, <1>3, <1>4 DEF Bag, Pieces, BoardPieces, FramePieces
<1> QED
  BY <1>5 DEF dots

\* A page adds its pieces to those used.
LEMMA PlusIs ==
  ASSUME NEW f \in [Pieces -> Nat], NEW g \in [Pieces -> Nat]
  PROVE  /\ Plus(f, g) \in [Pieces -> Nat]
         /\ \A p \in Pieces : Plus(f, g)[p] = f[p] + g[p]
  BY DEF Plus

\* What the order list counts.
KitCounts(kit, w, h, frame) ==
  /\ kit \in [Pieces -> Nat]
  /\ kit["baseplate"] = w * h /\ kit["plate_2x2"] = 5 * (w * h)
  /\ kit["green_conn"] = 2 * ((w - 1) * h) /\ kit["green_plate"] = (w - 1) * h
  /\ kit["red_conn"] = 2 * (w * (h - 1)) /\ kit["red_plate"] = w * (h - 1)
  /\ kit["hook"] = NailHooks(w, h) /\ kit["hook_pin"] = 2 * NailHooks(w, h)
  /\ frame => /\ kit["corner_brick"] = 4 /\ kit["corner_plate"] = 4
              /\ kit["brick_1x1"] = 12
              /\ kit["axle_brick"] = 4 * w + 4 * h /\ kit["axle_peg"] = 4 * w + 4 * h
              /\ kit["brick_8x1"] = 2 * w + 2 * h /\ kit["plate_10x2"] = 2 * w + 2 * h
              /\ kit["brick_4x1"] = 2 * w + 2 * h - 4
              /\ kit["plate_6x2"] = 2 * w + 2 * h - 4
              /\ kit["brick_16x1"] = 2 * w + 2 * h
              /\ kit["thin_corner"] = 4 /\ kit["flat_1x4"] = FlatPlates(w, h)
  /\ ~ frame => \A p \in FramePieces : kit[p] = 0

LEMMA KitIs ==
  ASSUME NEW w \in Nat \ {0}, NEW h \in Nat \ {0}, NEW frame \in BOOLEAN
  PROVE  KitCounts(KitFor(w, h, frame), w, h, frame)
<1> DEFINE boards == GetBaseplatesForSize(w, h)
           frameKit == GetFrameForSize(w, h)
<1>1. w * h \in Nat /\ (w - 1) * h \in Nat /\ w * (h - 1) \in Nat
  OBVIOUS
<1>2. NailHooks(w, h) \in Nat
  BY <1>1 DEF NailHooks
<1>3. (4 * w + 4 * h) \div 2 = 2 * w + 2 * h
  OBVIOUS
<1>4. FlatPlates(w, h) \in Nat
  BY DEF FlatPlates
<1>5. boards = [baseplate |-> w * h, hook |-> NailHooks(w, h), hook_pin |-> 2 * NailHooks(w, h),
                green_conn |-> 2 * ((w - 1) * h), red_conn |-> 2 * (w * (h - 1)),
                green_plate |-> (w - 1) * h, red_plate |-> w * (h - 1),
                plate_2x2 |-> 5 * (w * h)]
  BY DEF GetBaseplatesForSize
<1>6. frameKit = [corner_brick |-> 4, corner_plate |-> 4, brick_1x1 |-> 12,
                  axle_brick |-> 4 * w + 4 * h, axle_peg |-> 4 * w + 4 * h,
                  brick_8x1 |-> 2 * w + 2 * h, brick_4x1 |-> 2 * w + 2 * h - 4,
                  plate_10x2 |-> 2 * w + 2 * h, plate_6x2 |-> 2 * w + 2 * h - 4,
                  brick_16x1 |-> 2 * w + 2 * h, thin_corner |-> 4,
                  flat_1x4 |-> FlatPlates(w, h)]
  BY <1>3 DEF GetFrameForSize
<1>7. KitFor(w, h, frame) =
        [p \in Pieces |-> IF p \in BoardPieces THEN boards[p]
                          ELSE IF frame THEN frameKit[p] ELSE 0]
  BY DEF KitFor
<1> HIDE DEF boards, frameKit
<1> QED
  BY <1>1, <1>2, <1>4, <1>5, <1>6, <1>7 DEF KitCounts, Pieces, BoardPieces, FramePieces

-----------------------------------------------------------------------------
(* Where the loops are and what the job is.                                  *)

USE DEF Early, Loops, Framing, Ending

LEMMA JobStep ==
  ASSUME JobInv, [Next]_vars
  PROVE  JobInv' /\ job' = job /\ picture' = picture
<1> USE DEF JobInv, Stages, input
<1>1. CASE UNCHANGED vars
  BY <1>1 DEF vars
<1>2. CASE \E r \in {"no background", "misnumbered", "disk"} : Fail(r)
  BY <1>2 DEF Fail
<1>3. CASE SimplifyBackground
  BY <1>3 DEF SimplifyBackground
<1>4. CASE WritePreview \/ GenerateOrderList \/ WriteStats
  BY <1>4 DEF WritePreview, GenerateOrderList, WriteStats
<1>5. CASE TitlePage \/ BaseplateSetup \/ GridSetup
  BY <1>5 DEF TitlePage, BaseplateSetup, GridSetup, Draw
<1>6. CASE BackgroundColumn
  BY <1>6 DEF BackgroundColumn, ShowColumn, Draw, NextColumn, NextBlock
<1>7. CASE ForegroundColumn
  BY <1>7 DEF ForegroundColumn, ShowColumn, SkipColumn, Draw, NextColumn, NextBlock
<1>8. CASE AssembleLongEdge \/ AssembleCorner \/ AssembleSeam
  BY <1>8 DEF AssembleLongEdge, AssembleCorner, AssembleSeam, Assemble, Draw
<1>9. CASE PlaceLongEdge \/ PlaceCorner \/ PlaceSeam
  BY <1>9 DEF PlaceLongEdge, PlaceCorner, PlaceSeam, Place, Draw
<1>10. CASE FinishFrame \/ HookAssembly \/ BackHook \/ FinalView
  BY <1>10 DEF FinishFrame, HookAssembly, BackHook, FinalView, Draw
<1>11. CASE MakePdf /\ ~ Fail("misnumbered")
  BY <1>11 DEF MakePdf
<1> QED
  BY <1>1, <1>2, <1>3, <1>4, <1>5, <1>6, <1>7, <1>8, <1>9, <1>10, <1>11
     DEF Next, NoBackground, DiskFull

LEMMA AtStep ==
  ASSUME JobInv, AtInv, Next, pc # "failed", pc' # "failed", job' = job
  PROVE  AtInv'
<1> USE DEF JobInv, AtInv, STUDS_PER_BLOCK, told
<1>1. CASE SimplifyBackground \/ WritePreview \/ GenerateOrderList \/ WriteStats
  BY <1>1 DEF SimplifyBackground, WritePreview, GenerateOrderList, WriteStats
<1>2. CASE TitlePage
  BY <1>2 DEF TitlePage
<1>3. CASE BaseplateSetup
  BY <1>3 DEF BaseplateSetup
<1>4. ASSUME pc \in {"background", "foreground"}, NextColumn
      PROVE  AtInv'
  BY <1>4 DEF NextColumn, LastColumn
<1>5. ASSUME pc \in {"background", "foreground"}, NextBlock
      PROVE  AtInv'
  BY <1>5 DEF NextBlock, LastColumn
<1>6. CASE BackgroundColumn
  <2>1. CASE at' = [at EXCEPT !.col = 0] /\ pc' = "foreground"
    BY <1>6, <2>1 DEF BackgroundColumn
  <2> QED BY <1>4, <1>5, <1>6, <2>1 DEF BackgroundColumn
<1>7. CASE ForegroundColumn
  BY <1>4, <1>5, <1>7 DEF ForegroundColumn
<1>8. CASE GridSetup
  BY <1>8 DEF GridSetup
<1>9. CASE AssembleLongEdge \/ AssembleCorner \/ AssembleSeam
  BY <1>9 DEF AssembleLongEdge, AssembleCorner, AssembleSeam, Assemble
<1>10. CASE PlaceLongEdge \/ PlaceCorner \/ PlaceSeam
  BY <1>10 DEF PlaceLongEdge, PlaceCorner, PlaceSeam, Place
<1>11. CASE FinishFrame \/ HookAssembly \/ BackHook \/ FinalView
  BY <1>11 DEF FinishFrame, HookAssembly, BackHook, FinalView
<1>12. CASE MakePdf
  BY <1>12 DEF MakePdf, Fail
<1> QED
  BY <1>1, <1>2, <1>3, <1>6, <1>7, <1>8, <1>9, <1>10, <1>11, <1>12
     DEF Next, NoBackground, DiskFull, Fail

LEMMA OrderStep ==
  ASSUME JobInv, OrderInv, Next, pc # "failed", pc' # "failed", job' = job
  PROVE  OrderInv'
<1> USE DEF JobInv, OrderInv, results
<1>1. CASE SimplifyBackground \/ WritePreview \/ GenerateOrderList \/ WriteStats
  BY <1>1 DEF SimplifyBackground, WritePreview, GenerateOrderList, WriteStats
<1>2. CASE TitlePage \/ BaseplateSetup \/ GridSetup
  BY <1>2 DEF TitlePage, BaseplateSetup, GridSetup, Draw
<1>3. CASE BackgroundColumn
  BY <1>3 DEF BackgroundColumn, ShowColumn, Draw, NextColumn, NextBlock
<1>4. CASE ForegroundColumn
  BY <1>4 DEF ForegroundColumn, ShowColumn, SkipColumn, Draw, NextColumn, NextBlock
<1>5. CASE AssembleLongEdge \/ AssembleCorner \/ AssembleSeam
  BY <1>5 DEF AssembleLongEdge, AssembleCorner, AssembleSeam, Assemble, Draw
<1>6. CASE PlaceLongEdge \/ PlaceCorner \/ PlaceSeam
  BY <1>6 DEF PlaceLongEdge, PlaceCorner, PlaceSeam, Place, Draw
<1>7. CASE FinishFrame \/ HookAssembly \/ BackHook \/ FinalView
  BY <1>7 DEF FinishFrame, HookAssembly, BackHook, FinalView, Draw
<1>8. CASE MakePdf
  BY <1>8 DEF MakePdf, Fail
<1> QED
  BY <1>1, <1>2, <1>3, <1>4, <1>5, <1>6, <1>7, <1>8 DEF Next, NoBackground, DiskFull, Fail

LEMMA UnitStep ==
  ASSUME JobInv, AtInv, UnitInv, Next, pc # "failed", pc' # "failed", job' = job
  PROVE  UnitInv'
<1> USE DEF JobInv, AtInv, UnitInv, told, Framed, Perimeter
<1>1. CASE SimplifyBackground \/ WritePreview \/ GenerateOrderList \/ WriteStats
  BY <1>1 DEF SimplifyBackground, WritePreview, GenerateOrderList, WriteStats
<1>2. CASE TitlePage \/ BaseplateSetup
  BY <1>2 DEF TitlePage, BaseplateSetup
<1>13. CASE GridSetup
  <2>1. joined' = {"red", "green"}
    BY <1>13 DEF GridSetup, PAGE_HEIGHT, PAGE_WIDTH, STUDS_PER_BLOCK
  <2> QED BY <1>13, <2>1 DEF GridSetup
<1>3. CASE BackgroundColumn
  BY <1>3 DEF BackgroundColumn, NextColumn, NextBlock
<1>4. CASE ForegroundColumn
  BY <1>4 DEF ForegroundColumn, NextColumn, NextBlock
<1>5. CASE AssembleLongEdge
  BY <1>5 DEF AssembleLongEdge, Assemble, FrameUnits
<1>6. CASE AssembleCorner
  BY <1>6 DEF AssembleCorner, Assemble, FrameUnits
<1>7. CASE AssembleSeam
  BY <1>7 DEF AssembleSeam, Assemble, FrameUnits
<1>8. CASE PlaceLongEdge
  BY <1>8 DEF PlaceLongEdge, Place, FrameUnits
<1>9. CASE PlaceCorner
  \* one baseplate alone has no seam: its units of that kind are built and placed
  <2>1. CASE Perimeter - 4 # 0
    BY <1>9, <2>1 DEF PlaceCorner, Place, FrameUnits
  <2>2. CASE Perimeter - 4 = 0
    <3>1. job.w = 1 /\ job.h = 1
      BY <2>2
    <3>2. OnPaper(SeamDots(1, 1), 1) = {}
      BY DEF SeamDots, OnPaper
    <3> QED BY <1>9, <2>2, <3>1, <3>2 DEF PlaceCorner, Place, FrameUnits
  <2> QED BY <2>1, <2>2
<1>10. CASE PlaceSeam
  BY <1>10 DEF PlaceSeam, Place, FrameUnits
<1>11. CASE FinishFrame \/ HookAssembly \/ BackHook \/ FinalView
  BY <1>11 DEF FinishFrame, HookAssembly, BackHook, FinalView
<1>12. CASE MakePdf
  BY <1>12 DEF MakePdf, Fail
<1> QED
  BY <1>1, <1>2, <1>3, <1>4, <1>5, <1>6, <1>7, <1>8, <1>9, <1>10, <1>11, <1>12, <1>13
     DEF Next, NoBackground, DiskFull, Fail

\* Pages that follow on from those there are.
LEMMA PagesFollow ==
  ASSUME NEW s \in Nat, NEW n \in Nat
  PROVE  (0 .. s - 1) \cup (s .. s + n - 1) = 0 .. s + n - 1
<1>1. ASSUME NEW x \in 0 .. s + n - 1 PROVE x \in (0 .. s - 1) \cup (s .. s + n - 1)
  <2>1. x \in Int /\ (x <= s - 1 \/ s <= x)
    OBVIOUS
  <2> QED BY <2>1
<1>2. 0 .. s - 1 \subseteq 0 .. s + n - 1
  OBVIOUS
<1>3. s .. s + n - 1 \subseteq 0 .. s + n - 1
  OBVIOUS
<1> QED
  BY <1>1, <1>2, <1>3

LEMMA PageStep ==
  ASSUME PageInv, Next, pc # "failed", pc' # "failed"
  PROVE  PageInv'
<1>1. ASSUME NEW n \in Nat \ {0}, Draw(n), pc # "done", pc' # "done"
      PROVE  PageInv'
  <2>1. step' = step + n
    BY <1>1 DEF Draw
  <2>2. pngs' = pngs \cup (step .. step + n - 1) /\ pdf' = pdf /\ why' = why
    BY <1>1 DEF Draw
  <2>3. step \in Nat
    BY DEF PageInv
  <2>4. pngs = 0 .. step - 1 /\ pdf = {} /\ why = ""
    BY <1>1 DEF PageInv
  <2>5. step' \in Nat /\ step' > 0
    BY <2>1, <2>3
  <2>6. (0 .. step - 1) \cup (step .. step + n - 1) = 0 .. step + n - 1
    BY <2>3, PagesFollow
  <2>7. pngs' = 0 .. step' - 1
    <3>1. pngs' = 0 .. step + n - 1
      BY <2>2, <2>4, <2>6
    <3>2. step' - 1 = step + n - 1
      BY <2>1, <2>3
    <3> QED BY <3>1, <3>2
  <2> QED BY <1>1, <2>2, <2>4, <2>5, <2>7 DEF PageInv
<1>2. Draw(1) /\ pc # "done" /\ pc' # "done" => PageInv'
  BY <1>1
<1>3. Draw(2) /\ pc # "done" /\ pc' # "done" => PageInv'
  BY <1>1
<1>4. Draw(3) /\ pc # "done" /\ pc' # "done" => PageInv'
  BY <1>1
<1>5. CASE SimplifyBackground \/ WritePreview \/ GenerateOrderList \/ WriteStats
  BY <1>5 DEF PageInv, paper, SimplifyBackground, WritePreview, GenerateOrderList, WriteStats
<1>6. CASE TitlePage \/ BaseplateSetup \/ GridSetup
  BY <1>2, <1>4, <1>6 DEF TitlePage, BaseplateSetup, GridSetup
<1>7. CASE BackgroundColumn
  BY <1>2, <1>7 DEF BackgroundColumn, ShowColumn, NextColumn, NextBlock
<1>8. CASE ForegroundColumn
  <2>1. pc = "foreground" /\ pc' \in {"foreground", "setup", "grid"}
    BY <1>8 DEF ForegroundColumn, NextColumn, NextBlock
  <2>2. CASE SkipColumn
    BY <2>1, <2>2 DEF SkipColumn, PageInv, paper
  <2>3. CASE ShowColumn("fg", picture.fg[Column])
    BY <1>2, <2>1, <2>3 DEF ShowColumn
  <2> QED BY <1>8, <2>2, <2>3 DEF ForegroundColumn
<1>9. CASE AssembleLongEdge \/ AssembleCorner \/ AssembleSeam
  BY <1>3, <1>4, <1>9 DEF AssembleLongEdge, AssembleCorner, AssembleSeam, Assemble
<1>10. CASE PlaceLongEdge \/ PlaceCorner \/ PlaceSeam
  BY <1>2, <1>10 DEF PlaceLongEdge, PlaceCorner, PlaceSeam, Place
<1>11. CASE FinishFrame \/ HookAssembly \/ BackHook \/ FinalView
  BY <1>2, <1>4, <1>11 DEF FinishFrame, HookAssembly, BackHook, FinalView
<1>12. CASE MakePdf
  BY <1>12 DEF MakePdf, Fail, PageInv
<1> QED
  BY <1>5, <1>6, <1>7, <1>8, <1>9, <1>10, <1>11, <1>12 DEF Next, NoBackground, DiskFull, Fail

\* The pages drawn make a sequence when the PDF is made of them.
LEMMA AlwaysInSequence ==
  ASSUME PageInv, pc = "pdf"
  PROVE  InSequence(pngs)
<1>1. step \in Nat /\ step > 0 /\ pngs = 0 .. step - 1
  BY DEF PageInv
<1>2. 0 \in 0 .. step - 1 /\ step - 1 \in 0 .. step - 1
  BY <1>1
<1> QED
  BY <1>1, <1>2 DEF InSequence
\* Going on to the next column or block takes no piece, and the closed forms
\* agree on the way from one block to the next.
LEMMA LoopCounts ==
  ASSUME JobInv, AtInv, pc \in {"background", "foreground"}, job' = job,
         \/ NextColumn
         \/ LastColumn /\ at' = [at EXCEPT !.col = 0] /\ pc' = "foreground"
         \/ NextBlock
  PROVE  BlocksSetUp' = BlocksSetUp /\ GreenSeams' = GreenSeams /\ RedSeams' = RedSeams
<1> DEFINE W == job.w
           H == job.h
           i == at.w
           j == at.h
<1>1. W \in Nat \ {0} /\ H \in Nat \ {0} /\ i \in 0 .. W - 1 /\ j \in 0 .. H - 1
  BY DEF JobInv, AtInv
<1>2. SetUp = 1 /\ at = [w |-> i, h |-> j, col |-> at.col]
  BY DEF SetUp, AtInv
<1>3. (i + 1) * H = i * H + H /\ (i + 1) * (H - 1) = i * (H - 1) + H - 1
  <2>1. \A a, b \in Int : (a + 1) * b = a * b + b
    OBVIOUS
  <2>2. i \in Int /\ H \in Int /\ H - 1 \in Int
    BY <1>1
  <2> HIDE DEF W, H, i, j
  <2>3. (i + 1) * H = i * H + H /\ (i + 1) * (H - 1) = i * (H - 1) + (H - 1)
    BY <2>1, <2>2
  <2>4. i * (H - 1) \in Int
    BY <2>2
  <2> QED BY <2>2, <2>3, <2>4
<1>4. i * H \in Int /\ i * (H - 1) \in Int
  BY <1>1
<1>5. /\ BlocksSetUp = i * H + j + 1
      /\ GreenSeams = (IF i < W - 1 THEN i * H + j + 1 ELSE (W - 1) * H)
      /\ RedSeams = i * (H - 1) + (IF j < H - 1 THEN j + 1 ELSE H - 1)
  BY <1>2 DEF BlocksSetUp, GreenSeams, RedSeams
<1>6. /\ BlocksSetUp' = at'.w * H + at'.h + SetUp'
      /\ GreenSeams' = (IF at'.w < W - 1 THEN at'.w * H + at'.h + SetUp' ELSE (W - 1) * H)
      /\ RedSeams' = at'.w * (H - 1) + (IF at'.h < H - 1 THEN at'.h + SetUp' ELSE H - 1)
  BY DEF BlocksSetUp, GreenSeams, RedSeams
<1>7. CASE NextColumn \/ (LastColumn /\ at' = [at EXCEPT !.col = 0] /\ pc' = "foreground")
  <2>1. SetUp' = 1 /\ at'.w = i /\ at'.h = j
    BY <1>2, <1>7 DEF NextColumn, SetUp
  <2> QED BY <1>5, <1>6, <2>1
<1>8. CASE at' = [w |-> i, h |-> j + 1, col |-> 0] /\ pc' = "setup" /\ j < H - 1
  <2>1. SetUp' = 0 /\ at'.w = i /\ at'.h = j + 1
    BY <1>8 DEF SetUp
  <2> HIDE DEF W, H, i, j
  <2> QED BY <1>1, <1>4, <1>5, <1>6, <1>8, <2>1
<1>9. CASE /\ at' = [w |-> i + 1, h |-> 0, col |-> 0] /\ pc' = "setup"
           /\ j = H - 1 /\ i < W - 1
  <2>1. SetUp' = 0 /\ at'.w = i + 1 /\ at'.h = 0
    BY <1>9 DEF SetUp
  <2>2. i + 1 < W - 1 \/ i + 1 = W - 1
    BY <1>1, <1>9
  <2> HIDE DEF W, H, i, j
  <2> QED BY <1>1, <1>3, <1>4, <1>5, <1>6, <1>9, <2>1, <2>2
<1>10. CASE /\ at' = [w |-> W, h |-> 0, col |-> 0] /\ pc' = "grid"
            /\ j = H - 1 /\ i = W - 1
  <2>1. SetUp' = 0 /\ at'.w = i + 1 /\ at'.h = 0
    BY <1>1, <1>10 DEF SetUp
  <2>2. W - 1 = i /\ ~ (i < W - 1) /\ ~ (i + 1 < W - 1)
    BY <1>1, <1>10
  <2> HIDE DEF W, H, i, j
  <2> QED BY <1>1, <1>3, <1>4, <1>5, <1>6, <1>10, <2>1, <2>2
<1> QED
  BY <1>7, <1>8, <1>9, <1>10 DEF NextBlock

\* Setting up a block takes the pieces its neighbours call for.
LEMMA SetupCounts ==
  ASSUME JobInv, AtInv, pc = "setup", pc' = "background", at' = at, job' = job
  PROVE  LET case == CaseOf(at.h, job.h, at.w, job.w)
         IN /\ case \in 0 .. 3
            /\ BlocksSetUp' = BlocksSetUp + 1
            /\ GreenSeams' = GreenSeams + (IF case \in {0, 2} THEN 1 ELSE 0)
            /\ RedSeams' = RedSeams + (IF case \in {0, 1} THEN 1 ELSE 0)
            /\ BlocksSetUp \in Int /\ GreenSeams \in Int /\ RedSeams \in Int
<1> DEFINE W == job.w
           H == job.h
           i == at.w
           j == at.h
           case == CaseOf(at.h, job.h, at.w, job.w)
<1>1. W \in Nat \ {0} /\ H \in Nat \ {0} /\ i \in 0 .. W - 1 /\ j \in 0 .. H - 1
  BY DEF JobInv, AtInv
<1>2. SetUp = 0 /\ SetUp' = 1
  BY DEF SetUp
<1>3. /\ case \in 0 .. 3
      /\ case \in {0, 2} <=> i < W - 1
      /\ case \in {0, 1} <=> j < H - 1
  BY <1>1 DEF CaseOf
<1>4. /\ BlocksSetUp = i * H + j /\ BlocksSetUp' = i * H + j + 1
      /\ GreenSeams = (IF i < W - 1 THEN i * H + j ELSE (W - 1) * H)
      /\ GreenSeams' = (IF i < W - 1 THEN i * H + j + 1 ELSE (W - 1) * H)
      /\ RedSeams = i * (H - 1) + (IF j < H - 1 THEN j ELSE H - 1)
      /\ RedSeams' = i * (H - 1) + (IF j < H - 1 THEN j + 1 ELSE H - 1)
  BY <1>1, <1>2 DEF BlocksSetUp, GreenSeams, RedSeams
<1>5. i * H \in Int /\ i * (H - 1) \in Int /\ (W - 1) * H \in Int
  BY <1>1
<1> HIDE DEF W, H, i, j, case
<1>6. /\ BlocksSetUp' = BlocksSetUp + 1 /\ BlocksSetUp \in Int
      /\ GreenSeams' = GreenSeams + (IF case \in {0, 2} THEN 1 ELSE 0) /\ GreenSeams \in Int
      /\ RedSeams' = RedSeams + (IF case \in {0, 1} THEN 1 ELSE 0) /\ RedSeams \in Int
  BY <1>1, <1>3, <1>4, <1>5
<1> USE DEF case
<1> QED
  BY <1>3, <1>6

LEMMA CountStep ==
  ASSUME JobInv, AtInv, OrderInv, UnitInv, CountInv, Next, pc # "failed", pc' # "failed",
         job' = job
  PROVE  CountInv'
<1> USE DEF told
<1>a. /\ used \in [Pieces -> Nat] /\ BoardCountInv /\ FrameCountInv
      /\ job.w \in Nat \ {0} /\ job.h \in Nat \ {0} /\ job.frame \in BOOLEAN
  BY DEF CountInv, JobInv
\* steps that use no piece
<1>1. ASSUME used' = used, built' = built, at' = at, SetUp' = SetUp, Hooks' = Hooks,
             Framed' = Framed
      PROVE  CountInv'
  BY <1>a, <1>1 DEF CountInv, BoardCountInv, FrameCountInv, BlocksSetUp, GreenSeams, RedSeams
<1>2. CASE SimplifyBackground \/ WritePreview \/ GenerateOrderList \/ WriteStats
  BY <1>1, <1>2 DEF SimplifyBackground, WritePreview, GenerateOrderList, WriteStats,
                    SetUp, Hooks, Framed
<1>3. CASE TitlePage \/ GridSetup
  BY <1>1, <1>3 DEF TitlePage, GridSetup, SetUp, Hooks, Framed
<1>4. CASE PlaceLongEdge \/ PlaceCorner \/ PlaceSeam
  BY <1>1, <1>4 DEF PlaceLongEdge, PlaceCorner, PlaceSeam, Place, SetUp, Hooks, Framed
<1>5. CASE BackHook \/ FinalView
  BY <1>1, <1>5 DEF BackHook, FinalView, SetUp, Hooks, Framed
<1>6. CASE MakePdf
  BY <1>1, <1>6 DEF MakePdf, Fail, SetUp, Hooks, Framed
<1>7. CASE BackgroundColumn \/ ForegroundColumn
  <2>1. /\ pc \in {"background", "foreground"} /\ used' = used /\ built' = built
        /\ \/ NextColumn
           \/ LastColumn /\ at' = [at EXCEPT !.col = 0] /\ pc' = "foreground"
           \/ NextBlock
    BY <1>7 DEF BackgroundColumn, ForegroundColumn
  <2>2. BlocksSetUp' = BlocksSetUp /\ GreenSeams' = GreenSeams /\ RedSeams' = RedSeams
    BY <2>1, LoopCounts
  <2>3. pc' \in {"background", "foreground", "setup", "grid"}
    BY <2>1 DEF NextColumn, NextBlock
  <2>4. Hooks' = Hooks /\ Framed' = Framed
    BY <2>1, <2>3 DEF Hooks, Framed
  <2> QED BY <1>a, <2>1, <2>2, <2>4 DEF CountInv, BoardCountInv, FrameCountInv
<1>8. CASE BaseplateSetup
  <2> DEFINE case == CaseOf(at.h, job.h, at.w, job.w)
  <2>1. /\ pc = "setup" /\ pc' = "background" /\ at' = at /\ built' = built
        /\ used' = Plus(used, SetupParts(case))
    BY <1>8 DEF BaseplateSetup
  <2>2. /\ case \in 0 .. 3
        /\ BlocksSetUp' = BlocksSetUp + 1
        /\ GreenSeams' = GreenSeams + (IF case \in {0, 2} THEN 1 ELSE 0)
        /\ RedSeams' = RedSeams + (IF case \in {0, 1} THEN 1 ELSE 0)
        /\ BlocksSetUp \in Int /\ GreenSeams \in Int /\ RedSeams \in Int
    BY <2>1, SetupCounts
  <2>3. Hooks' = Hooks /\ Framed' = Framed
    BY <2>1 DEF Hooks, Framed
  <2> HIDE DEF case
  <2>4. /\ used' \in [Pieces -> Nat]
        /\ \A p \in Pieces : used'[p] = used[p] + SetupParts(case)[p]
    BY <1>a, <2>1, <2>2, SetupPartsAre, PlusIs
  <2>5. /\ used'["baseplate"] = used["baseplate"] + 1
        /\ used'["plate_2x2"] = used["plate_2x2"] + 5
        /\ used'["green_conn"] = used["green_conn"] + (IF case \in {0, 2} THEN 2 ELSE 0)
        /\ used'["green_plate"] = used["green_plate"] + (IF case \in {0, 2} THEN 1 ELSE 0)
        /\ used'["red_conn"] = used["red_conn"] + (IF case \in {0, 1} THEN 2 ELSE 0)
        /\ used'["red_plate"] = used["red_plate"] + (IF case \in {0, 1} THEN 1 ELSE 0)
    BY <2>2, <2>4, SetupPartsAre DEF Pieces, BoardPieces
  <2>6. \A p \in FramePieces \cup {"hook", "hook_pin"} : used'[p] = used[p]
    <3>1. \A p \in FramePieces \cup {"hook", "hook_pin"} :
            p \in Pieces /\ SetupParts(case)[p] = 0
      BY <2>2, SetupPartsAre DEF Pieces, BoardPieces
    <3> QED BY <1>a, <2>4, <3>1
  <2>7. BoardCountInv'
    BY <1>a, <2>2, <2>5 DEF BoardCountInv
  <2>8. FrameCountInv'
    BY <1>a, <2>1, <2>3, <2>6 DEF FrameCountInv, FramePieces
  <2> QED BY <2>4, <2>7, <2>8 DEF CountInv
\* the frame's units and the hooks
<1>9. ASSUME NEW g \in [Pieces -> Nat], used' = Plus(used, g), at' = at, SetUp' = SetUp,
             \A p \in BoardPieces \ {"hook", "hook_pin"} : g[p] = 0
      PROVE  /\ used' \in [Pieces -> Nat] /\ BoardCountInv'
             /\ \A p \in Pieces : used'[p] = used[p] + g[p]
  <2>1. used' \in [Pieces -> Nat] /\ \A p \in Pieces : used'[p] = used[p] + g[p]
    BY <1>a, <1>9, PlusIs
  <2>2. \A p \in BoardPieces \ {"hook", "hook_pin"} : used'[p] = used[p]
    BY <1>a, <1>9, <2>1 DEF Pieces
  <2>3. BlocksSetUp' = BlocksSetUp /\ GreenSeams' = GreenSeams /\ RedSeams' = RedSeams
    BY <1>9 DEF BlocksSetUp, GreenSeams, RedSeams
  <2> QED BY <1>a, <2>1, <2>2, <2>3 DEF BoardCountInv, BoardPieces
<1>10. Perimeter \in Nat /\ Perimeter - 4 \in Nat
  <2>1. \A w, h \in Nat \ {0} : w * 2 + h * 2 \in Nat /\ w * 2 + h * 2 - 4 \in Nat
    OBVIOUS
  <2>2. PICK w \in Nat \ {0}, h \in Nat \ {0} : w = job.w /\ h = job.h
    BY <1>a
  <2>3. Perimeter = w * 2 + h * 2
    BY <2>2 DEF Perimeter
  <2> QED BY <2>1, <2>3
<1>11. CASE AssembleLongEdge
  <2>1. /\ used' = Plus(used, Times(Perimeter, LongEdgeParts)) /\ at' = at
        /\ SetUp' = SetUp /\ Hooks' = Hooks /\ Framed' = Framed
        /\ built' = [built EXCEPT !["long_edge"] = Perimeter] /\ built["long_edge"] = 0
        /\ DOMAIN built = FrameUnits
    BY <1>11 DEF AssembleLongEdge, Assemble, SetUp, Hooks, Framed, UnitInv, FrameUnits
  <2>2. /\ built'["long_edge"] = Perimeter /\ built'["corner"] = built["corner"]
        /\ built'["seam"] = built["seam"]
    BY <2>1 DEF FrameUnits
  <2>3. /\ used' \in [Pieces -> Nat] /\ BoardCountInv'
        /\ \A p \in Pieces : used'[p] = used[p] + Times(Perimeter, LongEdgeParts)[p]
    <3>1. Times(Perimeter, LongEdgeParts) \in [Pieces -> Nat]
      BY <1>10, UnitPartsAre
    <3>2. \A p \in BoardPieces \ {"hook", "hook_pin"} : Times(Perimeter, LongEdgeParts)[p] = 0
      BY <1>10, UnitsTakeNoBoard
    <3> QED BY <1>9, <2>1, <3>1, <3>2
  <2>4. \A p \in Pieces \ {"plate_10x2", "brick_8x1", "axle_brick"} : used'[p] = used[p]
    BY <1>a, <1>10, <2>3, UnitPartsAre
  <2>5. /\ used'["plate_10x2"] = Perimeter /\ used'["brick_8x1"] = Perimeter
        /\ used'["axle_brick"] = 2 * Perimeter
    BY <1>a, <1>10, <2>1, <2>3, UnitPartsAre DEF FrameCountInv, Pieces, FramePieces
  <2>6. FrameCountInv'
    BY <1>a, <2>1, <2>2, <2>4, <2>5 DEF FrameCountInv, Pieces, FramePieces, BoardPieces
  <2> QED BY <2>3, <2>6 DEF CountInv
<1>12. CASE AssembleCorner
  <2>1. /\ used' = Plus(used, Times(4, CornerParts)) /\ at' = at
        /\ SetUp' = SetUp /\ Hooks' = Hooks /\ Framed' = Framed
        /\ built' = [built EXCEPT !["corner"] = 4] /\ built["corner"] = 0
        /\ DOMAIN built = FrameUnits
    BY <1>12 DEF AssembleCorner, Assemble, SetUp, Hooks, Framed, UnitInv, FrameUnits
  <2>2. /\ built'["corner"] = 4 /\ built'["long_edge"] = built["long_edge"]
        /\ built'["seam"] = built["seam"]
    BY <2>1 DEF FrameUnits
  <2>3. /\ used' \in [Pieces -> Nat] /\ BoardCountInv'
        /\ \A p \in Pieces : used'[p] = used[p] + Times(4, CornerParts)[p]
    <3>1. Times(4, CornerParts) \in [Pieces -> Nat]
      BY UnitPartsAre
    <3>2. \A p \in BoardPieces \ {"hook", "hook_pin"} : Times(4, CornerParts)[p] = 0
      BY UnitsTakeNoBoard
    <3> QED BY <1>9, <2>1, <3>1, <3>2
  <2>4. \A p \in Pieces \ {"corner_plate", "corner_brick", "brick_1x1"} : used'[p] = used[p]
    BY <1>a, <2>3, UnitPartsAre
  <2>5. /\ used'["corner_plate"] = 4 /\ used'["corner_brick"] = 4
        /\ used'["brick_1x1"] = 3 * 4
    BY <1>a, <2>1, <2>3, UnitPartsAre DEF FrameCountInv, Pieces, FramePieces
  <2>6. FrameCountInv'
    BY <1>a, <2>1, <2>2, <2>4, <2>5 DEF FrameCountInv, Pieces, FramePieces, BoardPieces
  <2> QED BY <2>3, <2>6 DEF CountInv
<1>13. CASE AssembleSeam
  <2>1. /\ used' = Plus(used, Times(Perimeter - 4, SeamParts)) /\ at' = at
        /\ SetUp' = SetUp /\ Hooks' = Hooks /\ Framed' = Framed
        /\ built' = [built EXCEPT !["seam"] = Perimeter - 4] /\ built["seam"] = 0
        /\ DOMAIN built = FrameUnits
    BY <1>13 DEF AssembleSeam, Assemble, SetUp, Hooks, Framed, UnitInv, FrameUnits
  <2>2. /\ built'["seam"] = Perimeter - 4 /\ built'["corner"] = built["corner"]
        /\ built'["long_edge"] = built["long_edge"]
    BY <2>1 DEF FrameUnits
  <2>3. /\ used' \in [Pieces -> Nat] /\ BoardCountInv'
        /\ \A p \in Pieces : used'[p] = used[p] + Times(Perimeter - 4, SeamParts)[p]
    <3>1. Times(Perimeter - 4, SeamParts) \in [Pieces -> Nat]
      BY <1>10, UnitPartsAre
    <3>2. \A p \in BoardPieces \ {"hook", "hook_pin"} : Times(Perimeter - 4, SeamParts)[p] = 0
      BY <1>10, UnitsTakeNoBoard
    <3> QED BY <1>9, <2>1, <3>1, <3>2
  <2>4. \A p \in Pieces \ {"plate_6x2", "brick_4x1"} : used'[p] = used[p]
    BY <1>a, <1>10, <2>3, UnitPartsAre
  <2>5. used'["plate_6x2"] = Perimeter - 4 /\ used'["brick_4x1"] = Perimeter - 4
    BY <1>a, <1>10, <2>1, <2>3, UnitPartsAre DEF FrameCountInv, Pieces, FramePieces
  <2>6. FrameCountInv'
    BY <1>a, <2>1, <2>2, <2>4, <2>5 DEF FrameCountInv, Pieces, FramePieces, BoardPieces
  <2> QED BY <2>3, <2>6 DEF CountInv
<1>14. CASE FinishFrame
  <2> DEFINE g == Bag(ClosingParts(job.w, job.h, order))
             dots == Cardinality(OnPaper(EdgeDots(job.w, job.h), job.w))
  <2>1. /\ used' = Plus(used, g) /\ at' = at /\ built' = built
        /\ SetUp' = SetUp /\ Hooks' = Hooks /\ ~ Framed /\ Framed'
    BY <1>14 DEF FinishFrame, SetUp, Hooks, Framed, AtInv
  <2>7. order \in [Pieces -> Nat] /\ order["flat_1x4"] = FlatPlates(job.w, job.h)
    <3>1. order = KitFor(job.w, job.h, TRUE)
      BY <1>14 DEF FinishFrame, OrderInv, AtInv
    <3>2. KitCounts(order, job.w, job.h, TRUE)
      BY <1>a, <3>1, KitIs
    <3> QED BY <3>2 DEF KitCounts
  <2>2. /\ g \in [Pieces -> Nat]
        /\ g["axle_peg"] = 4 * job.w + 4 * job.h
        /\ g["brick_16x1"] = dots
        /\ g["thin_corner"] = 4
        /\ g["flat_1x4"] = FlatPlates(job.w, job.h)
        /\ \A p \in Pieces \ {"axle_peg", "brick_16x1", "thin_corner", "flat_1x4"} : g[p] = 0
    BY <1>a, <2>7, ClosingPartsAre
  <2>8. dots \in Nat
    BY <1>a, OnPaperCounts
  <2> HIDE DEF g, dots
  <2>3. /\ used' \in [Pieces -> Nat] /\ BoardCountInv'
        /\ \A p \in Pieces : used'[p] = used[p] + g[p]
    BY <1>9, <2>1, <2>2 DEF Pieces, BoardPieces
  <2>4. \A p \in Pieces \ {"axle_peg", "brick_16x1", "thin_corner", "flat_1x4"} :
          used'[p] = used[p]
    BY <1>a, <2>2, <2>3
  <2>5. /\ used'["axle_peg"] = 4 * job.w + 4 * job.h
        /\ used'["brick_16x1"] = dots
        /\ used'["thin_corner"] = 4
        /\ used'["flat_1x4"] = FlatPlates(job.w, job.h)
    BY <1>a, <2>1, <2>2, <2>3, <2>8 DEF FrameCountInv, Pieces, FramePieces, FlatPlates
  <2>9. job' = job
    OBVIOUS
  <2> USE DEF dots
  <2>6. FrameCountInv'
    BY <1>a, <2>1, <2>4, <2>5, <2>9 DEF FrameCountInv, Pieces, FramePieces, BoardPieces
  <2> QED BY <2>3, <2>6 DEF CountInv
<1>15. CASE HookAssembly
  <2> DEFINE n == NailHooks(job.w, job.h)
  <2>1. /\ used' = Plus(used, Times(n, HookParts)) /\ at' = at /\ built' = built
        /\ SetUp' = SetUp /\ Hooks = 0 /\ Hooks' = n /\ Framed' = Framed
    BY <1>15 DEF HookAssembly, SetUp, Hooks, Framed
  <2>2. n \in Nat
    <3>1. job.w * job.h \in Nat
      BY <1>a
    <3> QED BY <3>1 DEF NailHooks
  <2> HIDE DEF n
  <2>3. /\ used' \in [Pieces -> Nat] /\ BoardCountInv'
        /\ \A p \in Pieces : used'[p] = used[p] + Times(n, HookParts)[p]
    <3>1. Times(n, HookParts) \in [Pieces -> Nat]
      BY <2>2, UnitPartsAre
    <3>2. \A p \in BoardPieces \ {"hook", "hook_pin"} : Times(n, HookParts)[p] = 0
      BY <2>2, UnitsTakeNoBoard
    <3> QED BY <1>9, <2>1, <3>1, <3>2
  <2>4. \A p \in Pieces \ {"hook", "hook_pin"} : used'[p] = used[p]
    BY <1>a, <2>2, <2>3, UnitPartsAre
  <2>5. used'["hook"] = n /\ used'["hook_pin"] = 2 * n
    BY <1>a, <2>1, <2>2, <2>3, UnitPartsAre DEF FrameCountInv, Pieces, BoardPieces
  <2>6. FrameCountInv'
    BY <1>a, <2>1, <2>4, <2>5 DEF FrameCountInv, Pieces, FramePieces, BoardPieces
  <2> QED BY <2>3, <2>6 DEF CountInv
<1> QED
  BY <1>2, <1>3, <1>4, <1>5, <1>6, <1>7, <1>8, <1>11, <1>12, <1>13, <1>14, <1>15
     DEF Next, NoBackground, DiskFull, Fail

-----------------------------------------------------------------------------
(* The columns shown.                                                        *)

\* The pages of a step show the columns d.
LEMMA ShownFollows ==
  ASSUME ShownInv, job' = job, NEW d, shown' = shown \cup d,
         d \subseteq {"bg", "fg"} \X Columns(job.w, job.h),
         \A x \in Columns(job.w, job.h) :
           /\ BgShown(x)' <=> (BgShown(x) \/ <<"bg", x>> \in d)
           /\ FgShown(x)' <=> (FgShown(x) \/ <<"fg", x>> \in d)
  PROVE  ShownInv'
<1> DEFINE C == Columns(job.w, job.h)
<1>1. /\ \A x \in C : <<"bg", x>> \in shown <=> BgShown(x)
      /\ \A x \in C : <<"fg", x>> \in shown <=> FgShown(x)
      /\ shown \subseteq {"bg", "fg"} \X C
  BY DEF ShownInv
<1>2. /\ \A x \in C : <<"bg", x>> \in shown' <=> BgShown(x)'
      /\ \A x \in C : <<"fg", x>> \in shown' <=> FgShown(x)'
      /\ shown' \subseteq {"bg", "fg"} \X C
  BY <1>1
<1>3. shown' = {<<"bg", x>> : x \in {y \in C : BgShown(y)'}}
                 \cup {<<"fg", x>> : x \in {y \in C : FgShown(y)'}}
  <2>1. ASSUME NEW z \in shown'
        PROVE  z \in {<<"bg", x>> : x \in {y \in C : BgShown(y)'}}
                       \cup {<<"fg", x>> : x \in {y \in C : FgShown(y)'}}
    <3>1. PICK x \in C : z = <<"bg", x>> \/ z = <<"fg", x>>
      BY <1>2, <2>1
    <3> QED BY <1>2, <2>1, <3>1
  <2> QED BY <1>2, <2>1
<1> QED
  BY <1>3 DEF ShownInv

\* The column a step of the loops is at.
IsHere(a, b) == a = 16 * at.w + at.col /\ b = at.h

\* Going on from a column leaves behind what was shown and that column.
LEMMA LoopShown ==
  ASSUME JobInv, AtInv, pc \in {"background", "foreground"}, job' = job, picture' = picture,
         NEW a \in 0 .. 16 * job.w - 1, NEW b \in 0 .. job.h - 1
  PROVE  /\ pc = "background" /\ NextColumn =>
              /\ BgShown(<<a, b>>)' <=> BgShown(<<a, b>>) \/ IsHere(a, b)
              /\ FgShown(<<a, b>>)' <=> FgShown(<<a, b>>)
         /\ pc = "background" /\ LastColumn /\ at' = [at EXCEPT !.col = 0]
              /\ pc' = "foreground" =>
              /\ BgShown(<<a, b>>)' <=> BgShown(<<a, b>>) \/ IsHere(a, b)
              /\ FgShown(<<a, b>>)' <=> FgShown(<<a, b>>)
         /\ pc = "background" /\ NextBlock =>
              (BgShown(<<a, b>>)' <=> BgShown(<<a, b>>) \/ IsHere(a, b))
         /\ pc = "foreground" /\ (NextColumn \/ NextBlock) =>
              /\ BgShown(<<a, b>>)' <=> BgShown(<<a, b>>)
              /\ FgShown(<<a, b>>)' <=> FgShown(<<a, b>>)
                   \/ (IsHere(a, b) /\ ~ IsEmpty(picture.fg[<<a, b>>]))
<1> DEFINE W == job.w
           H == job.h
           i == at.w
           j == at.h
           c == at.col
           here == IsHere(a, b)
           inked == ~ IsEmpty(picture.fg[<<a, b>>])
           bgNow == \/ a < 16 * i \/ (a < 16 * i + 16 /\ b < j)
                    \/ pc = "background" /\ b = j /\ a < 16 * i + c
                    \/ pc = "foreground" /\ b = j /\ a < 16 * i + 16
           fgNow == \/ a < 16 * i \/ (a < 16 * i + 16 /\ b < j)
                    \/ pc = "foreground" /\ b = j /\ a < 16 * i + c
<1>1. /\ W \in Nat /\ H \in Nat /\ i \in 0 .. W - 1 /\ j \in 0 .. H - 1 /\ c \in 0 .. 15
      /\ at = [w |-> i, h |-> j, col |-> c]
      /\ a \in Int /\ b \in Int /\ 0 <= a /\ 0 <= b /\ a <= 16 * W - 1 /\ b <= H - 1
  BY DEF JobInv, AtInv, STUDS_PER_BLOCK
<1>2. /\ here <=> a = 16 * i + c /\ b = j
      /\ BgShown(<<a, b>>) <=> bgNow
      /\ FgShown(<<a, b>>) <=> fgNow /\ inked
      /\ BgShown(<<a, b>>)' <=> bgNow'
      /\ FgShown(<<a, b>>)' <=> fgNow' /\ inked
  BY DEF BgShown, FgShown, Behind, IsEmpty, IsHere
<1> HIDE DEF here
<1>3. ASSUME pc = "background", NextColumn
      PROVE  (bgNow' <=> bgNow \/ here) /\ (fgNow' <=> fgNow)
  <2>1. pc' = "background" /\ i' = i /\ j' = j /\ c' = c + 1
    BY <1>1, <1>3 DEF NextColumn
  <2> HIDE DEF W, H, i, j, c
  <2> QED BY <1>1, <1>2, <1>3, <2>1
<1>4. ASSUME pc = "background", LastColumn, at' = [at EXCEPT !.col = 0], pc' = "foreground"
      PROVE  (bgNow' <=> bgNow \/ here) /\ (fgNow' <=> fgNow)
  <2>1. c = 15 /\ i' = i /\ j' = j /\ c' = 0
    BY <1>1, <1>4 DEF LastColumn, STUDS_PER_BLOCK
  <2> HIDE DEF W, H, i, j, c
  <2> QED BY <1>1, <1>2, <1>4, <2>1
<1>5. ASSUME pc = "foreground", NextColumn
      PROVE  (bgNow' <=> bgNow) /\ (fgNow' <=> fgNow \/ here)
  <2>1. pc' = "foreground" /\ i' = i /\ j' = j /\ c' = c + 1
    BY <1>1, <1>5 DEF NextColumn
  <2> HIDE DEF W, H, i, j, c
  <2> QED BY <1>1, <1>2, <1>5, <2>1
<1>6. ASSUME NextBlock
      PROVE  /\ c = 15
             /\ bgNow' <=> (a < 16 * i \/ (a < 16 * i + 16 /\ b <= j))
             /\ fgNow' <=> (a < 16 * i \/ (a < 16 * i + 16 /\ b <= j))
  <2>1. c = 15 /\ pc' \in {"setup", "grid"}
    BY <1>1, <1>6 DEF NextBlock, LastColumn, STUDS_PER_BLOCK
  <2>2. \/ i' = i /\ j' = j + 1
        \/ j = H - 1 /\ i' = i + 1 /\ j' = 0
    BY <1>1, <1>6 DEF NextBlock
  <2> HIDE DEF W, H, i, j, c
  <2> QED BY <1>1, <2>1, <2>2
<1>7. ASSUME NextBlock, pc = "background"
      PROVE  bgNow' <=> bgNow \/ here
  <2>1. (a < 16 * i \/ (a < 16 * i + 16 /\ b <= j)) <=> bgNow \/ here
    <3> HIDE DEF W, H, i, j, c
    <3> QED BY <1>1, <1>2, <1>6, <1>7
  <2> QED BY <1>6, <1>7, <2>1
<1>8. ASSUME NextBlock, pc = "foreground"
      PROVE  (bgNow' <=> bgNow) /\ (fgNow' <=> fgNow \/ here)
  <2>1. /\ (a < 16 * i \/ (a < 16 * i + 16 /\ b <= j)) <=> bgNow
        /\ (a < 16 * i \/ (a < 16 * i + 16 /\ b <= j)) <=> fgNow \/ here
    <3> HIDE DEF W, H, i, j, c
    <3> QED BY <1>1, <1>2, <1>6, <1>8
  <2> QED BY <1>6, <1>8, <2>1
<1> HIDE DEF W, H, i, j, c, bgNow, fgNow
<1> USE DEF here, inked
<1>9. ASSUME pc = "background", NextColumn
      PROVE  /\ BgShown(<<a, b>>)' <=> BgShown(<<a, b>>) \/ IsHere(a, b)
             /\ FgShown(<<a, b>>)' <=> FgShown(<<a, b>>)
  BY <1>2, <1>3, <1>9
<1>10. ASSUME pc = "background", LastColumn, at' = [at EXCEPT !.col = 0], pc' = "foreground"
       PROVE  /\ BgShown(<<a, b>>)' <=> BgShown(<<a, b>>) \/ IsHere(a, b)
              /\ FgShown(<<a, b>>)' <=> FgShown(<<a, b>>)
  BY <1>2, <1>4, <1>10
<1>11. ASSUME pc = "background", NextBlock
       PROVE  BgShown(<<a, b>>)' <=> BgShown(<<a, b>>) \/ IsHere(a, b)
  BY <1>2, <1>7, <1>11
<1>12. ASSUME pc = "foreground", NextColumn \/ NextBlock
       PROVE  /\ BgShown(<<a, b>>)' <=> BgShown(<<a, b>>)
              /\ FgShown(<<a, b>>)' <=> FgShown(<<a, b>>)
                   \/ (IsHere(a, b) /\ ~ IsEmpty(picture.fg[<<a, b>>]))
  BY <1>2, <1>5, <1>8, <1>12
<1> QED
  BY <1>9, <1>10, <1>11, <1>12

LEMMA ShownStep ==
  ASSUME JobInv, AtInv, ShownInv, Next, pc # "failed", pc' # "failed",
         job' = job, picture' = picture
  PROVE  ShownInv'
<1> USE DEF told
<1> DEFINE C == Columns(job.w, job.h)
<1>a. \A x \in C : \E a \in 0 .. 16 * job.w - 1, b \in 0 .. job.h - 1 : x = <<a, b>>
  BY DEF Columns, STUDS_PER_BLOCK
\* steps that show none
<1>1. ASSUME shown' = shown,
             \A x \in C : (BgShown(x)' <=> BgShown(x)) /\ (FgShown(x)' <=> FgShown(x))
      PROVE  ShownInv'
  <2>1. shown' = shown \cup {}
    BY <1>1
  <2> QED BY <1>1, <2>1, ShownFollows
<1>2. ASSUME shown' = shown, at' = at, pc \notin {"background", "foreground"},
             pc' \notin {"background", "foreground"}
      PROVE  ShownInv'
  BY <1>1, <1>2 DEF BgShown, FgShown, Behind, IsEmpty
<1>3. CASE SimplifyBackground \/ WritePreview \/ GenerateOrderList \/ WriteStats
  BY <1>2, <1>3 DEF SimplifyBackground, WritePreview, GenerateOrderList, WriteStats
<1>4. CASE TitlePage \/ GridSetup
  BY <1>2, <1>4 DEF TitlePage, GridSetup
<1>5. CASE AssembleLongEdge \/ AssembleCorner \/ AssembleSeam
  BY <1>2, <1>5 DEF AssembleLongEdge, AssembleCorner, AssembleSeam, Assemble
<1>6. CASE PlaceLongEdge \/ PlaceCorner \/ PlaceSeam
  BY <1>2, <1>6 DEF PlaceLongEdge, PlaceCorner, PlaceSeam, Place
<1>7. CASE FinishFrame \/ HookAssembly \/ BackHook \/ FinalView
  BY <1>2, <1>7 DEF FinishFrame, HookAssembly, BackHook, FinalView
<1>8. CASE MakePdf
  BY <1>2, <1>8 DEF MakePdf, Fail
\* the first column of a block: none is shown
<1>9. CASE BaseplateSetup
  <2>1. /\ shown' = shown /\ at' = at /\ at.col = 0 /\ pc = "setup" /\ pc' = "background"
        /\ at.w \in Int /\ at.h \in Int
    BY <1>9 DEF BaseplateSetup, AtInv
  <2>2. ASSUME NEW x \in C
        PROVE  (BgShown(x)' <=> BgShown(x)) /\ (FgShown(x)' <=> FgShown(x))
    <3>1. 16 * at.w + at.col = 16 * at.w
      BY <2>1
    <3> QED BY <2>1, <3>1 DEF BgShown, FgShown, Behind, IsEmpty
  <2> QED BY <1>1, <2>1, <2>2
\* a column of the loops
<1>10. ASSUME pc \in {"background", "foreground"}
       PROVE  /\ Column \in C
              /\ \A a \in 0 .. 16 * job.w - 1, b \in 0 .. job.h - 1 :
                   IsHere(a, b) <=> <<a, b>> = Column
  <2>1. /\ at.w \in 0 .. job.w - 1 /\ at.h \in 0 .. job.h - 1 /\ at.col \in 0 .. 15
        /\ job.w \in Nat /\ job.h \in Nat
    BY <1>10 DEF JobInv, AtInv, STUDS_PER_BLOCK
  <2>2. Column = <<16 * at.w + at.col, at.h>>
    BY DEF Column, STUDS_PER_BLOCK
  <2>3. 16 * at.w + at.col \in 0 .. 16 * job.w - 1
    BY <2>1
  <2> QED BY <2>1, <2>2, <2>3 DEF Columns, IsHere, STUDS_PER_BLOCK
<1>11. CASE BackgroundColumn
  <2> DEFINE d == {<<"bg", Column>>}
  <2>1. /\ pc = "background" /\ shown' = shown \cup d
        /\ \/ NextColumn
           \/ LastColumn /\ at' = [at EXCEPT !.col = 0] /\ pc' = "foreground"
           \/ ~ job.threeD /\ NextBlock
    BY <1>11 DEF BackgroundColumn, ShowColumn
  <2>2. ASSUME NEW a \in 0 .. 16 * job.w - 1, NEW b \in 0 .. job.h - 1
        PROVE  /\ BgShown(<<a, b>>)' <=> BgShown(<<a, b>>) \/ <<a, b>> = Column
               /\ FgShown(<<a, b>>)' <=> FgShown(<<a, b>>)
    <3>1. IsHere(a, b) <=> <<a, b>> = Column
      BY <1>10, <2>1
    <3>2. CASE ~ job.threeD /\ NextBlock
      \* a picture without a silhouette has no foreground
      <4>1. <<a, b>> \in Columns(picture.w, picture.h)
        BY DEF Columns, STUDS_PER_BLOCK, JobInv
      <4>2. IsEmpty(picture.fg[<<a, b>>])
        BY <3>2, <4>1, PicturesAssumption DEF JobInv, IsEmpty
      <4>3. ~ FgShown(<<a, b>>) /\ ~ FgShown(<<a, b>>)'
        BY <4>2 DEF FgShown, IsEmpty
      <4> QED BY <2>1, <3>1, <3>2, <4>3, LoopShown
    <3>3. CASE ~ (~ job.threeD /\ NextBlock)
      BY <2>1, <3>1, <3>3, LoopShown
    <3> QED BY <3>2, <3>3
  <2>3. ASSUME NEW x \in C
        PROVE  /\ BgShown(x)' <=> (BgShown(x) \/ <<"bg", x>> \in d)
               /\ FgShown(x)' <=> (FgShown(x) \/ <<"fg", x>> \in d)
    <3>1. PICK a \in 0 .. 16 * job.w - 1, b \in 0 .. job.h - 1 : x = <<a, b>>
      BY <1>a
    <3>2. (<<"bg", x>> \in d <=> x = Column) /\ <<"fg", x>> \notin d
      OBVIOUS
    <3> QED BY <2>2, <3>1, <3>2
  <2>4. d \subseteq {"bg", "fg"} \X C
    BY <1>10, <2>1
  <2> HIDE DEF d
  <2> QED BY <2>1, <2>3, <2>4, ShownFollows
<1>12. CASE ForegroundColumn
  <2> DEFINE d == IF IsEmpty(picture.fg[Column]) THEN {} ELSE {<<"fg", Column>>}
  <2>1. /\ pc = "foreground" /\ shown' = shown \cup d
        /\ NextColumn \/ NextBlock
    BY <1>12 DEF ForegroundColumn, ShowColumn, SkipColumn
  <2>2. ASSUME NEW x \in C
        PROVE  /\ BgShown(x)' <=> (BgShown(x) \/ <<"bg", x>> \in d)
               /\ FgShown(x)' <=> (FgShown(x) \/ <<"fg", x>> \in d)
    <3>1. PICK a \in 0 .. 16 * job.w - 1, b \in 0 .. job.h - 1 : x = <<a, b>>
      BY <1>a
    <3>2. IsHere(a, b) <=> x = Column
      BY <1>10, <2>1, <3>1
    <3>3. /\ <<"bg", x>> \notin d
          /\ <<"fg", x>> \in d <=> (x = Column /\ ~ IsEmpty(picture.fg[x]))
      OBVIOUS
    <3>4. /\ BgShown(<<a, b>>)' <=> BgShown(<<a, b>>)
          /\ FgShown(<<a, b>>)' <=> FgShown(<<a, b>>)
               \/ (IsHere(a, b) /\ ~ IsEmpty(picture.fg[<<a, b>>]))
      BY <2>1, LoopShown
    <3> QED BY <3>1, <3>2, <3>3, <3>4
  <2>3. d \subseteq {"bg", "fg"} \X C
    BY <1>10, <2>1
  <2> HIDE DEF d
  <2> QED BY <2>1, <2>2, <2>3, ShownFollows
<1> QED
  BY <1>3, <1>4, <1>5, <1>6, <1>7, <1>8, <1>9, <1>11, <1>12
     DEF Next, NoBackground, DiskFull, Fail

-----------------------------------------------------------------------------
(* The boards.                                                               *)

LEMMA RowsFit ==
  ASSUME NEW n \in Nat, NEW i \in Nat, NEW k \in Nat, i < n
  PROVE  i * k \in Nat /\ i * k + k <= n * k
<1>1. \A a, b \in Nat : a * b \in Nat
  OBVIOUS
<1>2. \A a, b, c \in Nat : (a + b) * c = a * c + b * c
  OBVIOUS
<1> DEFINE m == n - (i + 1)
<1>3. m \in Nat /\ n = (i + 1) + m /\ i + 1 \in Nat
  OBVIOUS
<1>4. (i + 1) * k = i * k + 1 * k /\ 1 * k = k
  BY <1>2
<1>5. n * k = (i + 1) * k + m * k
  BY <1>2, <1>3
<1> HIDE DEF m
<1> QED
  BY <1>1, <1>3, <1>4, <1>5

\* The boards' closed forms stay within the kit, and reach it with the loops' end.
LEMMA BoardsFit ==
  ASSUME JobInv, AtInv, pc # "failed"
  PROVE  /\ BlocksSetUp <= job.w * job.h
         /\ GreenSeams <= (job.w - 1) * job.h
         /\ RedSeams <= job.w * (job.h - 1)
         /\ pc \in Early => BlocksSetUp = 0 /\ GreenSeams = 0 /\ RedSeams = 0
         /\ pc \notin Early \cup Loops => /\ BlocksSetUp = job.w * job.h
                                          /\ GreenSeams = (job.w - 1) * job.h
                                          /\ RedSeams = job.w * (job.h - 1)
<1> DEFINE W == job.w
           H == job.h
           i == at.w
           j == at.h
<1>1. W \in Nat \ {0} /\ H \in Nat \ {0}
  BY DEF JobInv
<1>2. /\ SetUp \in {0, 1} /\ (pc \notin Loops => SetUp = 0)
      /\ BlocksSetUp = i * H + j + SetUp
      /\ GreenSeams = (IF i < W - 1 THEN i * H + j + SetUp ELSE (W - 1) * H)
      /\ RedSeams = i * (H - 1) + (IF j < H - 1 THEN j + SetUp ELSE H - 1)
  BY DEF SetUp, BlocksSetUp, GreenSeams, RedSeams
<1>3. W * H \in Nat /\ (W - 1) * H \in Nat /\ W * (H - 1) \in Nat
  BY <1>1
<1>4. CASE pc \in Early
  <2>1. i = 0 /\ j = 0 /\ SetUp = 0
    BY <1>2, <1>4 DEF AtInv
  <2> HIDE DEF W, H, i, j
  <2>2. 0 * H = 0 /\ 0 * (H - 1) = 0 /\ (W = 1 => (W - 1) * H = 0)
    BY <1>1
  <2>3. BlocksSetUp = 0 /\ GreenSeams = 0 /\ RedSeams = 0
    BY <1>1, <1>2, <2>1, <2>2
  <2> USE DEF W, H
  <2> QED BY <1>3, <1>4, <2>3
<1>5. CASE pc \in Loops
  <2>1. i \in 0 .. W - 1 /\ j \in 0 .. H - 1
    BY <1>5 DEF AtInv
  <2> HIDE DEF W, H, i, j
  <2>2. W \in Nat /\ i \in Nat /\ H \in Nat /\ H - 1 \in Nat /\ W - 1 \in Nat /\ i < W
    BY <1>1, <2>1
  <2>3. i * H \in Nat /\ i * H + H <= W * H
    BY <2>2, RowsFit
  <2>4. i < W - 1 => i * H + H <= (W - 1) * H
    BY <2>2, RowsFit
  <2>5. i * (H - 1) \in Nat /\ i * (H - 1) + (H - 1) <= W * (H - 1)
    BY <2>2, RowsFit
  <2>6. BlocksSetUp <= W * H
    BY <1>1, <1>2, <1>3, <2>1, <2>3
  <2>7. GreenSeams <= (W - 1) * H
    BY <1>1, <1>2, <1>3, <2>1, <2>3, <2>4
  <2>8. RedSeams <= W * (H - 1)
    BY <1>1, <1>2, <1>3, <2>1, <2>5
  <2> USE DEF W, H
  <2> QED BY <1>5, <2>6, <2>7, <2>8
<1>6. CASE pc \notin Early \cup Loops
  <2>1. i = W /\ j = 0 /\ SetUp = 0
    BY <1>2, <1>6 DEF AtInv
  <2> HIDE DEF W, H, i, j
  <2>2. BlocksSetUp = W * H /\ GreenSeams = (W - 1) * H /\ RedSeams = W * (H - 1)
    BY <1>1, <1>2, <1>3, <2>1
  <2> USE DEF W, H
  <2> QED BY <1>3, <1>6, <2>2
<1> QED
  BY <1>4, <1>5, <1>6

-----------------------------------------------------------------------------
(* The invariant holds at first and is kept by every step of a running job.  *)

LEMMA InitRuns ==
  ASSUME Init
  PROVE  JobInv /\ RunInv
<1>1. PICK w \in Widths, frame \in BOOLEAN, pct \in Percents, p \in Pictures :
        /\ p.w = w
        /\ job = [w |-> w, h |-> p.h, threeD |-> p.threeD, frame |-> frame, pct |-> pct]
        /\ picture = p
  BY DEF Init
<1>2. /\ order = NoPieces /\ used = NoPieces /\ shown = {}
      /\ built = [u \in FrameUnits |-> 0] /\ placed = [u \in FrameUnits |-> {}]
      /\ hung = {} /\ joined = {} /\ step = 0 /\ pngs = {} /\ pdf = {} /\ why = ""
      /\ at = [w |-> 0, h |-> 0, col |-> 0] /\ pc \in {"simplify", "preview"}
  BY DEF Init
<1>3. JobInv
  BY <1>1, <1>2, PicturesAssumption DEF JobInv, Stages
<1>4. AtInv /\ OrderInv /\ UnitInv
  BY <1>2 DEF AtInv, OrderInv, UnitInv, Framed
<1>5. PageInv
  <2>1. 0 .. 0 - 1 = {}
    OBVIOUS
  <2> QED BY <1>2, <2>1 DEF PageInv
<1>6. CountInv
  <2>1. BlocksSetUp = 0 /\ GreenSeams = 0 /\ RedSeams = 0
    BY <1>2, <1>3, <1>4, BoardsFit
  <2>2. used \in [Pieces -> Nat] /\ \A q \in Pieces : used[q] = 0
    BY <1>2 DEF NoPieces
  <2>3. Hooks = 0 /\ ~ Framed /\ \A u \in FrameUnits : built[u] = 0
    BY <1>2 DEF Hooks, Framed
  <2> QED BY <2>1, <2>2, <2>3 DEF CountInv, BoardCountInv, FrameCountInv, Pieces, BoardPieces,
                                  FramePieces, FrameUnits
<1>7. ShownInv
  <2>1. ASSUME NEW x \in Columns(job.w, job.h)
        PROVE  ~ BgShown(x) /\ ~ FgShown(x)
    <3>1. x[1] \in Nat /\ x[2] \in Nat
      BY <1>3 DEF Columns, STUDS_PER_BLOCK, JobInv
    <3>2. ~ (x[1] < 16 * 0) /\ ~ (x[2] < 0)
      BY <3>1
    <3>3. at.w = 0 /\ at.h = 0 /\ pc \notin {"background", "foreground"}
      BY <1>2
    <3> QED BY <3>2, <3>3 DEF BgShown, FgShown, Behind
  <2> QED BY <1>2, <2>1 DEF ShownInv
<1> QED
  BY <1>3, <1>4, <1>5, <1>6, <1>7 DEF RunInv

LEMMA RunStep ==
  ASSUME JobInv, RunInv, Next, pc # "failed", pc' # "failed"
  PROVE  RunInv'
<1>1. job' = job /\ picture' = picture
  BY JobStep
<1> QED
  BY <1>1, AtStep, OrderStep, CountStep, UnitStep, ShownStep, PageStep DEF RunInv

-----------------------------------------------------------------------------
(* The invariant has the properties.                                         *)

\* The legend of a baseplate's page counts what its drawing shows.
LEMMA LegendShowsArt == LegendIsArt
<1>1. Cardinality(GreenHoles) = 2 /\ Cardinality(RedHoles) = 2
  <2>1. <<-13, 39>> # <<-13, 129>> /\ <<21, 163>> # <<111, 163>>
    OBVIOUS
  <2>2. Cardinality({<<-13, 39>>, <<-13, 129>>}) = 2
    BY <2>1, PairCount
  <2>3. Cardinality({<<21, 163>>, <<111, 163>>}) = 2
    BY <2>1, PairCount
  <2> QED BY <2>2, <2>3 DEF GreenHoles, RedHoles
<1>2. Cardinality(TwoByTwos) = 5
  <2> DEFINE four == {<<0, 0>>, <<14, 0>>, <<14, 14>>, <<0, 14>>}
             three == {<<0, 0>>, <<14, 0>>, <<14, 14>>}
             two == {<<0, 0>>, <<14, 0>>}
  <2>1. IsFiniteSet(two) /\ Cardinality(two) = 2
    <3>1. <<0, 0>> # <<14, 0>>
      OBVIOUS
    <3> QED BY <3>1, PairCount
  <2>2. IsFiniteSet(three) /\ Cardinality(three) = 3
    <3>1. three = two \cup {<<14, 14>>} /\ <<14, 14>> \notin two
      OBVIOUS
    <3> HIDE DEF two, three
    <3> QED BY <2>1, <3>1, FS_AddElement
  <2>3. IsFiniteSet(four) /\ Cardinality(four) = 4
    <3>1. four = three \cup {<<0, 14>>} /\ <<0, 14>> \notin three
      OBVIOUS
    <3> HIDE DEF three, four
    <3> QED BY <2>2, <3>1, FS_AddElement
  <2>4. TwoByTwos = four \cup {<<7, 7>>} /\ <<7, 7>> \notin four
    BY DEF TwoByTwos
  <2> HIDE DEF four
  <2> QED BY <2>3, <2>4, FS_AddElement
<1>3. Cardinality({}) = 0 /\ Cardinality({<<-1, 6>>}) = 1 /\ Cardinality({<<6, 15>>}) = 1
  BY FS_EmptySet, FS_Singleton
<1> QED
  BY <1>1, <1>2, <1>3 DEF LegendIsArt, Bag, StepBParts, BottomArt, Pieces, BoardPieces
\* The pieces of the pages so far are in the kit, and in the end are the kit.
LEMMA RunFits ==
  ASSUME JobInv, AtInv, OrderInv, CountInv, UnitInv, pc # "failed"
  PROVE  /\ Fits(used, order)
         /\ pc = "done" => \A p \in Pieces :
              used[p] = order[p] \/ (p = "brick_16x1" /\ ~ GridFitsPage(job.w, job.h))
<1>0. PICK w \in Nat \ {0}, h \in Nat \ {0}, f \in BOOLEAN :
        w = job.w /\ h = job.h /\ f = job.frame
  BY DEF JobInv
<1> DEFINE n == NailHooks(w, h)
<1>1. /\ used \in [Pieces -> Nat] /\ BoardCountInv /\ FrameCountInv
  BY DEF CountInv
<1>2. /\ BlocksSetUp <= w * h
      /\ GreenSeams <= (w - 1) * h
      /\ RedSeams <= w * (h - 1)
      /\ pc \in Early => BlocksSetUp = 0 /\ GreenSeams = 0 /\ RedSeams = 0
      /\ pc \notin Early \cup Loops => /\ BlocksSetUp = w * h
                                       /\ GreenSeams = (w - 1) * h
                                       /\ RedSeams = w * (h - 1)
  BY <1>0, BoardsFit
<1>3. w * h \in Nat /\ (w - 1) * h \in Nat /\ w * (h - 1) \in Nat
  OBVIOUS
<1>4. n \in Nat /\ Hooks \in {0, n} /\ (pc \in Early => Hooks = 0) /\ (pc = "done" => Hooks = n)
  BY <1>0, <1>3 DEF NailHooks, Hooks
<1>5. /\ built["long_edge"] \in {0, 2 * w + 2 * h} /\ built["corner"] \in {0, 4}
      /\ built["seam"] \in {0, 2 * w + 2 * h - 4}
      /\ ~ f \/ pc \in Early =>
           /\ built["long_edge"] = 0 /\ built["corner"] = 0 /\ built["seam"] = 0
           /\ ~ Framed
      /\ Framed => /\ built["long_edge"] = 2 * w + 2 * h /\ built["corner"] = 4
                   /\ built["seam"] = 2 * w + 2 * h - 4
      /\ pc = "done" => (Framed <=> f)
  <2>1. Perimeter = w * 2 + h * 2
    BY <1>0 DEF Perimeter
  <2>2. Perimeter = 2 * w + 2 * h
    BY <2>1
  <2>3. /\ built["long_edge"] \in {0, Perimeter} /\ built["corner"] \in {0, 4}
        /\ built["seam"] \in {0, Perimeter - 4}
    BY DEF UnitInv, FrameUnits
  <2>4. ~ f \/ pc \in Early => pc \notin Framing /\ ~ Framed
    BY <1>0 DEF AtInv, Framed
  <2>5. pc \notin Framing /\ ~ Framed =>
          built["long_edge"] = 0 /\ built["corner"] = 0 /\ built["seam"] = 0
    BY DEF UnitInv, FrameUnits
  <2>6. Framed => /\ built["long_edge"] = Perimeter /\ built["corner"] = 4
                  /\ built["seam"] = Perimeter - 4
    BY DEF UnitInv, FrameUnits
  <2>7. pc = "done" => (Framed <=> f)
    BY <1>0 DEF Framed
  <2> QED BY <2>2, <2>3, <2>4, <2>5, <2>6, <2>7
<1>6. 2 * w + 2 * h \in Nat /\ 2 * w + 2 * h - 4 \in Nat /\ FlatPlates(w, h) \in Nat
  BY DEF FlatPlates
<1>7. CASE order = NoPieces /\ pc \in Early
  <2>1. \A p \in Pieces : used[p] = 0
    BY <1>1, <1>2, <1>4, <1>5, <1>7
       DEF BoardCountInv, FrameCountInv, Pieces, BoardPieces, FramePieces
  <2> QED BY <1>7, <2>1 DEF Fits, NoPieces
<1>8. CASE order = KitFor(w, h, f)
  <2>1. KitCounts(order, w, h, f)
    BY <1>8, KitIs
  <2>2. \A p \in BoardPieces : used[p] <= order[p] /\ (pc = "done" => used[p] = order[p])
    <3>1. /\ used["baseplate"] <= order["baseplate"] /\ used["plate_2x2"] <= order["plate_2x2"]
          /\ used["green_conn"] <= order["green_conn"]
          /\ used["green_plate"] <= order["green_plate"]
          /\ used["red_conn"] <= order["red_conn"] /\ used["red_plate"] <= order["red_plate"]
      BY <1>1, <1>2, <1>3, <2>1 DEF KitCounts, BoardCountInv, Pieces, BoardPieces
    <3>2. used["hook"] <= order["hook"] /\ used["hook_pin"] <= order["hook_pin"]
      BY <1>1, <1>4, <2>1 DEF KitCounts, FrameCountInv
    <3>3. pc = "done" => \A p \in BoardPieces : used[p] = order[p]
      BY <1>1, <1>2, <1>4, <2>1 DEF KitCounts, BoardCountInv, FrameCountInv, BoardPieces
    <3> QED BY <3>1, <3>2, <3>3 DEF BoardPieces
  <2>3. CASE f
    <3> DEFINE dots == Cardinality(OnPaper(EdgeDots(w, h), w))
    <3>1. /\ used["axle_peg"] = (IF Framed THEN 4 * w + 4 * h ELSE 0)
          /\ used["brick_16x1"] = (IF Framed THEN dots ELSE 0)
          /\ used["thin_corner"] = (IF Framed THEN 4 ELSE 0)
          /\ used["flat_1x4"] = (IF Framed THEN FlatPlates(w, h) ELSE 0)
      BY <1>0, <1>1 DEF FrameCountInv
    \* a 16x1 brick has a dot, unless that falls off the page
    <3>4. /\ dots \in Nat /\ dots <= 2 * w + 2 * h
          /\ GridFitsPage(w, h) => dots = 2 * w + 2 * h
      BY DotCounts, OnPaperCounts
    <3> HIDE DEF dots
    <3>2. \A p \in FramePieces : used[p] <= order[p]
      BY <1>1, <1>5, <1>6, <2>1, <2>3, <3>1, <3>4 DEF KitCounts, FrameCountInv, FramePieces
    <3>3. pc = "done" => \A p \in FramePieces :
            used[p] = order[p] \/ (p = "brick_16x1" /\ ~ GridFitsPage(w, h))
      BY <1>1, <1>5, <1>6, <2>1, <2>3, <3>1, <3>4 DEF KitCounts, FrameCountInv, FramePieces
    <3> QED BY <1>0, <1>1, <2>1, <2>2, <3>2, <3>3 DEF KitCounts, Fits, Pieces
  <2>4. CASE ~ f
    <3>1. \A p \in FramePieces : used[p] = 0
      BY <1>1, <1>5, <2>4 DEF FrameCountInv, FramePieces
    <3> QED BY <1>1, <2>1, <2>2, <2>4, <3>1 DEF KitCounts, Fits, Pieces
  <2> QED BY <1>1, <2>3, <2>4
<1> QED
  BY <1>0, <1>7, <1>8 DEF OrderInv, JobInv, Stages

\* The connectors the grid page tells of are in the kit but for mosaics one wide or
\* one high.
LEMMA RunJoins ==
  ASSUME JobInv, OrderInv, UnitInv, pc # "failed"
  PROVE  JoinsAreInKit
<1>1. PICK w \in Nat \ {0}, h \in Nat \ {0}, f \in BOOLEAN :
        w = job.w /\ h = job.h /\ f = job.frame
  BY DEF JobInv
<1>2. CASE pc \notin Framing \cup Ending
  BY <1>2 DEF JoinsAreInKit, UnitInv
<1>3. CASE pc \in Framing \cup Ending
  <2>1. joined = {"red", "green"} /\ order = KitFor(w, h, f)
    BY <1>1, <1>3 DEF UnitInv, OrderInv
  <2>2. order["red_conn"] = 2 * (w * (h - 1)) /\ order["green_conn"] = 2 * ((w - 1) * h)
    <3>1. KitCounts(order, w, h, f)
      BY <2>1, KitIs
    <3> QED BY <3>1 DEF KitCounts
  <2>3. w > 1 /\ h > 1 => w * (h - 1) > 0 /\ (w - 1) * h > 0
    <3>1. \A a, b \in Nat \ {0} : a * b > 0
      OBVIOUS
    <3>2. w > 1 /\ h > 1 => w - 1 \in Nat \ {0} /\ h - 1 \in Nat \ {0}
      OBVIOUS
    <3> QED BY <3>1, <3>2
  <2>4. w * (h - 1) \in Int /\ (w - 1) * h \in Int
    OBVIOUS
  <2>5. w > 1 /\ h > 1 => order["red_conn"] > 0 /\ order["green_conn"] > 0
    BY <2>2, <2>3, <2>4
  <2> QED BY <1>1, <2>1, <2>5 DEF JoinsAreInKit
<1> QED
  BY <1>2, <1>3

LEMMA RunKitFits ==
  ASSUME JobInv, RunInv, pc # "failed"
  PROVE  KitFitsBook
<1>1. hung # {} => Cardinality(hung) = order["hook"]
  <2>1. ASSUME hung # {}
        PROVE  Cardinality(hung) = order["hook"]
    <3>1. /\ job.w \in Nat \ {0} /\ job.h \in Nat \ {0} /\ job.frame \in BOOLEAN
          /\ hung = HookSpots(job.w, NailHooks(job.w, job.h))
          /\ order = KitFor(job.w, job.h, job.frame)
      BY <2>1 DEF RunInv, UnitInv, OrderInv, JobInv
    <3>2. NailHooks(job.w, job.h) \in {1, 2}
      <4>1. job.w * job.h \in Nat \ {0}
        BY <3>1
      <4> QED BY <4>1 DEF NailHooks
    <3>3. order["hook"] = NailHooks(job.w, job.h)
      <4>1. PICK w \in Nat \ {0}, h \in Nat \ {0}, f \in BOOLEAN :
              w = job.w /\ h = job.h /\ f = job.frame
        BY <3>1
      <4>2. KitFor(w, h, f)["hook"] = NailHooks(w, h)
        BY KitIs DEF KitCounts
      <4> QED BY <3>1, <4>1, <4>2
    <3> QED BY <3>1, <3>2, <3>3, HookSpotsCount
  <2> QED BY <2>1
<1> QED
  BY <1>1, LegendShowsArt, RunFits, RunJoins DEF RunInv, KitFitsBook

\* The frame's kit closes the ring around the mosaic; its top layer with corners
\* of 3x3 studs.
LEMMA RingCloses ==
  ASSUME JobInv, order = KitFor(job.w, job.h, TRUE)
  PROVE  KitClosesRing
<1>1. PICK w \in Nat \ {0}, h \in Nat \ {0} : w = job.w /\ h = job.h
  BY DEF JobInv
<1>2. /\ order["corner_brick"] = 4 /\ order["corner_plate"] = 4 /\ order["brick_1x1"] = 12
      /\ order["axle_brick"] = 4 * w + 4 * h /\ order["brick_8x1"] = 2 * w + 2 * h
      /\ order["plate_10x2"] = 2 * w + 2 * h
      /\ order["brick_4x1"] = 2 * w + 2 * h - 4 /\ order["plate_6x2"] = 2 * w + 2 * h - 4
      /\ order["brick_16x1"] = 2 * w + 2 * h
      /\ order["thin_corner"] = 4 /\ order["flat_1x4"] = 8 * (w + h) - 4
  BY <1>1, KitIs DEF KitCounts, FlatPlates
<1>3. Ring(w, h) = 32 * w + 32 * h + 8
  BY DEF Ring, STUDS_PER_BLOCK
<1>4. 12 * 4 + 20 * (2 * w + 2 * h) + 12 * (2 * w + 2 * h - 4)
        = (16 * w + 2) * (16 * h + 2) - (16 * w - 2) * (16 * h - 2)
  <2>1. \A a, b \in Int : (a + 2) * (b + 2) - (a - 2) * (b - 2) = 4 * a + 4 * b
    OBVIOUS
  <2>2. (16 * w + 2) * (16 * h + 2) - (16 * w - 2) * (16 * h - 2)
          = 4 * (16 * w) + 4 * (16 * h)
    BY <2>1
  <2>3. 12 * 4 + 20 * (2 * w + 2 * h) + 12 * (2 * w + 2 * h - 4) = 4 * (16 * w) + 4 * (16 * h)
    OBVIOUS
  <2> QED BY <2>2, <2>3
<1>5. 4 * 4 + 8 * (2 * w + 2 * h) + 2 * (4 * w + 4 * h) + 4 * (2 * w + 2 * h - 4) + 2 * 4
        = 32 * w + 32 * h + 8
  OBVIOUS
<1>6. 16 * (2 * w + 2 * h) + 2 * (12 - 2 * 4) = 32 * w + 32 * h + 8
  OBVIOUS
<1>7. /\ 4 * (8 * (w + h) - 4) + 2 * 3 * 4 = 32 * w + 32 * h + 8
      /\ 4 * (8 * (w + h) - 4) + 2 * 2 * 4 = (32 * w + 32 * h + 8) - 8
  OBVIOUS
<1>8. TopLayer(3) = Ring(w, h) /\ TopLayer(2) = Ring(w, h) - 8
  BY <1>2, <1>3, <1>7 DEF TopLayer
<1> QED
  BY <1>1, <1>2, <1>3, <1>4, <1>5, <1>6, <1>8 DEF KitClosesRing, STUDS_PER_BLOCK

LEMMA RunFrameFits ==
  ASSUME JobInv, RunInv, pc # "failed"
  PROVE  FrameFits
<1>1. PICK w \in Nat \ {0}, h \in Nat \ {0} : w = job.w /\ h = job.h
  BY DEF JobInv
<1>2. /\ Cardinality(CornerDots(w, h)) = 4
      /\ Cardinality(EdgeDots(w, h)) = 2 * w + 2 * h
      /\ Cardinality(SeamDots(w, h)) = 2 * w + 2 * h - 4
  BY DotCounts
<1>3. /\ CornerDots(w, h) \cap EdgeDots(w, h) = {}
      /\ CornerDots(w, h) \cap SeamDots(w, h) = {}
      /\ EdgeDots(w, h) \cap SeamDots(w, h) = {}
      /\ CornerDots(w, h) \cup EdgeDots(w, h) \cup SeamDots(w, h) = BorderDots(w, h)
  BY DotsCoverBorder
<1>4. Perimeter = 2 * w + 2 * h
  <2>1. w * 2 + h * 2 = 2 * w + 2 * h
    OBVIOUS
  <2> QED BY <1>1, <2>1 DEF Perimeter
<1> DEFINE edges == OnPaper(EdgeDots(w, h), w)
           corners == OnPaper(CornerDots(w, h), w)
           seams == OnPaper(SeamDots(w, h), w)
<1>5. /\ placed["long_edge"] # {} =>
           placed["long_edge"] = edges /\ built["long_edge"] = 2 * w + 2 * h
      /\ placed["corner"] # {} => placed["corner"] = corners /\ built["corner"] = 4
      /\ placed["seam"] # {} =>
           placed["seam"] = seams /\ built["seam"] = 2 * w + 2 * h - 4
  BY <1>1, <1>4 DEF RunInv, UnitInv, Framed, FrameUnits
<1>8. /\ Cardinality(edges) \in Nat /\ Cardinality(edges) <= 2 * w + 2 * h
      /\ Cardinality(corners) \in Nat /\ Cardinality(corners) <= 4
      /\ Cardinality(seams) \in Nat /\ Cardinality(seams) <= 2 * w + 2 * h - 4
      /\ GridFitsPage(w, h) => /\ Cardinality(edges) = 2 * w + 2 * h
                               /\ Cardinality(corners) = 4
                               /\ Cardinality(seams) = 2 * w + 2 * h - 4
  BY <1>2, OnPaperCounts
<1>9. edges \cap corners = {} /\ edges \cap seams = {} /\ corners \cap seams = {}
  BY <1>3 DEF OnPaper
<1>10. corners \cup edges \cup seams = OnPaper(BorderDots(w, h), w)
  BY <1>3 DEF OnPaper
<1> HIDE DEF edges, corners, seams
<1>6. DotsMatchUnits
  <2>1. ASSUME NEW u \in FrameUnits, placed[u] # {}
        PROVE  \/ Cardinality(placed[u]) = built[u]
               \/ Cardinality(placed[u]) < built[u] /\ ~ GridFitsPage(job.w, job.h)
    BY <1>1, <1>5, <1>8, <2>1 DEF FrameUnits
  <2>2. ASSUME NEW u \in FrameUnits, NEW v \in FrameUnits, u # v
        PROVE  placed[u] \cap placed[v] = {}
    BY <1>5, <1>9, <2>2 DEF FrameUnits
  <2> QED BY <2>1, <2>2 DEF DotsMatchUnits
<1>7. ASSUME pc = "done", job.frame
      PROVE  /\ UNION {placed[u] : u \in FrameUnits} = OnPaper(BorderDots(w, h), w)
             /\ KitClosesRing
  <2>1. placed["long_edge"] = edges /\ placed["corner"] = corners /\ placed["seam"] = seams
    BY <1>1, <1>7 DEF RunInv, UnitInv, Framed, FrameUnits, edges, corners, seams
  <2>2. UNION {placed[u] : u \in FrameUnits}
          = placed["corner"] \cup placed["long_edge"] \cup placed["seam"]
    BY DEF FrameUnits
  <2>3. order = KitFor(job.w, job.h, TRUE)
    BY <1>7 DEF RunInv, OrderInv, JobInv
  <2> QED BY <1>10, <2>1, <2>2, <2>3, RingCloses
<1> QED
  BY <1>1, <1>6, <1>7 DEF FrameFits, GridFitsPage

LEMMA RunIsWhole ==
  ASSUME JobInv, RunInv, pc # "failed"
  PROVE  BookIsWhole
<1>1. ASSUME pc = "done"
      PROVE  shown = {<<"bg", x>> : x \in Columns(job.w, job.h)}
                     \cup {<<"fg", x>> : x \in {y \in Columns(job.w, job.h) :
                                                ~ IsEmpty(picture.fg[y])}}
  <2>1. ASSUME NEW x \in Columns(job.w, job.h)
        PROVE  BgShown(x) /\ (FgShown(x) <=> ~ IsEmpty(picture.fg[x]))
    <3>1. x[1] < 16 * job.w
      BY DEF Columns, STUDS_PER_BLOCK, JobInv
    <3>2. at.w = job.w
      BY <1>1 DEF RunInv, AtInv
    <3> QED BY <3>1, <3>2 DEF BgShown, FgShown, Behind
  <2> QED BY <2>1 DEF RunInv, ShownInv
<1> QED
  BY <1>1 DEF RunInv, PageInv, BookIsWhole

LEMMA RunHas == JobInv /\ RunInv /\ pc # "failed" => KitFitsBook /\ FrameFits /\ BookIsWhole
  BY RunKitFits, RunFrameFits, RunIsWhole

-----------------------------------------------------------------------------
(* A failed job keeps what it had told.                                      *)

LEMMA OnlyFails ==
  ASSUME JobInv, RunInv, Next, pc # "failed", pc' = "failed"
  PROVE  \E r \in {"no background", "disk"} : Fail(r)
<1>1. pc = "pdf" => InSequence(pngs)
  BY AlwaysInSequence DEF RunInv
<1>2. CASE SimplifyBackground \/ WritePreview \/ GenerateOrderList \/ WriteStats
  BY <1>2 DEF SimplifyBackground, WritePreview, GenerateOrderList, WriteStats
<1>3. CASE TitlePage \/ BaseplateSetup \/ GridSetup
  BY <1>3 DEF TitlePage, BaseplateSetup, GridSetup
<1>4. CASE BackgroundColumn \/ ForegroundColumn
  BY <1>4 DEF BackgroundColumn, ForegroundColumn, NextColumn, NextBlock
<1>5. CASE AssembleLongEdge \/ AssembleCorner \/ AssembleSeam
  BY <1>5 DEF AssembleLongEdge, AssembleCorner, AssembleSeam
<1>6. CASE PlaceLongEdge \/ PlaceCorner \/ PlaceSeam
  BY <1>6 DEF PlaceLongEdge, PlaceCorner, PlaceSeam
<1>7. CASE FinishFrame \/ HookAssembly \/ BackHook \/ FinalView
  BY <1>7 DEF FinishFrame, HookAssembly, BackHook, FinalView
<1>8. CASE MakePdf
  BY <1>1, <1>8 DEF MakePdf
<1> QED
  BY <1>2, <1>3, <1>4, <1>5, <1>6, <1>7, <1>8 DEF Next, NoBackground, DiskFull

LEMMA FailKeeps ==
  ASSUME KitFitsBook, FrameFits, BookIsWhole, NEW r \in {"no background", "disk"}, Fail(r)
  PROVE  KitFitsBook' /\ FrameFits' /\ BookIsWhole'
<1> USE DEF Fail, input, told
<1>1. KitFitsBook'
  BY LegendShowsArt DEF KitFitsBook, LegendIsArt, Fits, JoinsAreInKit
<1>2. FrameFits'
  BY DEF FrameFits, DotsMatchUnits
<1>3. BookIsWhole'
  BY DEF BookIsWhole
<1> QED
  BY <1>1, <1>2, <1>3

-----------------------------------------------------------------------------
(* The studs of the picture.                                                 *)

Cells == Columns(job.w, job.h)

\* A colour's studs in each column of the background, and of the foreground.
BgOf(c) == [x \in Cells |-> open[x][c] + picture.hidden[x][c]]
FgOf(c) == [x \in Cells |-> picture.fg[x][c]]

Whole(c) == Sum(BgOf(c), Cells) + Sum(FgOf(c), Cells)

Seen(layer) == {x \in Cells : <<layer, x>> \in shown}

OpenTypeOK ==
  /\ DOMAIN open = Cells
  /\ \A x \in Cells : /\ open[x] \in [Palette -> 0 .. STUDS_PER_BLOCK]
                      /\ Total(open[x]) = Total(picture.open[x])

OpenInv == pc = "simplify" => open = picture.open

PlatesInv ==
  /\ pc \in {"simplify", "preview", "order"} => plates = NoPlates
  /\ pc \notin {"simplify", "preview", "order"} => plates = [c \in Palette |-> Whole(c)]

LaidInv ==
  laid = [c \in Palette |-> Sum(BgOf(c), Seen("bg")) + Sum(FgOf(c), Seen("fg"))]

PreviewInv ==
  /\ pc \in {"simplify", "preview"} => preview = {}
  /\ \A seen \in preview :
       /\ \A c \in Palette : seen.bg[c] + seen.fg[c] = Whole(c)
       /\ seen.palette = {c \in Palette : Whole(c) > 0}

StatsInv ==
  /\ pc \in {"simplify", "preview", "order", "stats"} => stats = {}
  /\ \A s \in stats : s.total = Total(order) + STUDS_PER_BLOCK * Cardinality(DOMAIN open)
                                  + Total([c \in Palette |-> Count(picture.fg, c)])

PictureInv == OpenInv /\ PlatesInv /\ LaidInv /\ PreviewInv /\ StatsInv

StudInv == /\ IInv /\ JobTypeOK /\ BookTypeOK /\ StudsTypeOK /\ OnePicture
           /\ pc # "failed" => PictureInv

\* Total sums a function over its domain.
LEMMA TotalIsSum == \A f : Total(f) = Sum(f, DOMAIN f)
BY DEF Total, FoldFunction, Sum, SumFunctionOnSet

LEMMA CountIsSum ==
  \A l, c : Count(l, c) = Sum([x \in DOMAIN l |-> l[x][c]], DOMAIN l)
BY TotalIsSum DEF Count

LEMMA CellsAreFinite ==
  ASSUME JobInv
  PROVE  IsFiniteSet(Cells) /\ Cells = Columns(picture.w, picture.h)
<1>1. 0 \in Int /\ STUDS_PER_BLOCK * job.w - 1 \in Int /\ job.h - 1 \in Int
  BY DEF JobInv, STUDS_PER_BLOCK
<1>2. IsFiniteSet(0 .. STUDS_PER_BLOCK * job.w - 1) /\ IsFiniteSet(0 .. job.h - 1)
  BY <1>1, FS_Interval
<1>3. IsFiniteSet(Cells)
  BY <1>2, FS_Product DEF Cells, Columns
<1> QED BY <1>3 DEF JobInv, Cells

\* The studs of a picture as the worker gets it.
LEMMA PictureHas ==
  ASSUME JobInv
  PROVE  /\ \A l \in {"open", "hidden", "fg"} : DOMAIN picture[l] = Cells
         /\ \A x \in Cells, c \in Palette :
              /\ picture.open[x][c] \in 0 .. STUDS_PER_BLOCK
              /\ picture.hidden[x][c] \in Nat /\ picture.fg[x][c] \in Nat
              /\ ~ job.threeD => picture.hidden[x][c] = 0 /\ picture.fg[x][c] = 0
         /\ \A x \in Cells :
              /\ picture.open[x] \in [Palette -> 0 .. STUDS_PER_BLOCK]
              /\ Total([c \in Palette |-> picture.open[x][c] + picture.hidden[x][c]])
                   = STUDS_PER_BLOCK
<1>1. picture \in Pictures /\ Cells = Columns(picture.w, picture.h)
      /\ picture.threeD = job.threeD
  BY CellsAreFinite DEF JobInv
<1>2. /\ \A l \in {"open", "hidden", "fg"} :
           picture[l] \in [Cells -> [Palette -> 0 .. STUDS_PER_BLOCK]]
      /\ \A x \in Cells : Total([c \in Palette |-> picture.open[x][c] + picture.hidden[x][c]])
                            = STUDS_PER_BLOCK
      /\ ~ picture.threeD => \A x \in Cells, c \in Palette :
                               picture.hidden[x][c] = 0 /\ picture.fg[x][c] = 0
  BY <1>1, PicturesAssumption
<1>3. /\ picture.open \in [Cells -> [Palette -> 0 .. STUDS_PER_BLOCK]]
      /\ picture.hidden \in [Cells -> [Palette -> 0 .. STUDS_PER_BLOCK]]
      /\ picture.fg \in [Cells -> [Palette -> 0 .. STUDS_PER_BLOCK]]
  BY <1>2
<1>4. \A x \in Cells, c \in Palette :
        /\ picture.open[x][c] \in 0 .. STUDS_PER_BLOCK
        /\ picture.hidden[x][c] \in 0 .. STUDS_PER_BLOCK
        /\ picture.fg[x][c] \in 0 .. STUDS_PER_BLOCK
  BY <1>3
<1>5. 0 .. STUDS_PER_BLOCK \subseteq Nat
  BY DEF STUDS_PER_BLOCK
<1>6. \A x \in Cells : picture.open[x] \in [Palette -> 0 .. STUDS_PER_BLOCK]
  BY <1>3
<1> HIDE DEF Cells
<1> QED BY <1>1, <1>2, <1>4, <1>5, <1>6

\* How many studs a column has of a colour is a natural number.
LEMMA StudsAreNat ==
  ASSUME JobInv, OpenTypeOK, NEW c \in Palette
  PROVE  \A x \in Cells : /\ BgOf(c)[x] = open[x][c] + picture.hidden[x][c]
                          /\ FgOf(c)[x] = picture.fg[x][c]
                          /\ open[x][c] \in Nat /\ picture.hidden[x][c] \in Nat
                          /\ BgOf(c)[x] \in Nat /\ FgOf(c)[x] \in Nat
<1> TAKE x \in Cells
<1>1. open[x][c] \in Nat
  BY DEF OpenTypeOK, STUDS_PER_BLOCK
<1>2. picture.hidden[x][c] \in Nat /\ picture.fg[x][c] \in Nat
  BY PictureHas
<1> QED BY <1>1, <1>2 DEF BgOf, FgOf

\* So is how many a part of the columns has.
LEMMA SumsAreNat ==
  ASSUME JobInv, OpenTypeOK, NEW c \in Palette, NEW R \in SUBSET Cells, NEW T \in SUBSET Cells
  PROVE  /\ Sum(BgOf(c), R) \in Nat /\ Sum(FgOf(c), T) \in Nat /\ Whole(c) \in Nat
         /\ Sum(BgOf(c), R) + Sum(FgOf(c), T) <= Whole(c)
<1>1. IsFiniteSet(Cells) /\ \A x \in Cells : BgOf(c)[x] \in Nat /\ FgOf(c)[x] \in Nat
  BY StudsAreNat, CellsAreFinite
<1>2. /\ Sum(BgOf(c), R) \in Nat /\ Sum(BgOf(c), R) <= Sum(BgOf(c), Cells)
      /\ Sum(FgOf(c), T) \in Nat /\ Sum(FgOf(c), T) <= Sum(FgOf(c), Cells)
  BY <1>1, SumOfSubset
<1>3. Sum(BgOf(c), Cells) \in Nat /\ Sum(FgOf(c), Cells) \in Nat
  BY <1>1, SumIsNat
<1> QED BY <1>2, <1>3 DEF Whole

\* The order list counts a layer after the other, and so does the preview.
LEMMA CountsAre ==
  ASSUME JobInv, OpenTypeOK, NEW c \in Palette
  PROVE  /\ Count(open, c) + Count(picture.hidden, c) = Sum(BgOf(c), Cells)
         /\ Count(picture.fg, c) = Sum(FgOf(c), Cells)
         /\ ~ job.threeD => Sum(FgOf(c), Cells) = 0
<1> DEFINE f == [x \in Cells |-> open[x][c]]
           g == [x \in Cells |-> picture.hidden[x][c]]
<1>1. /\ DOMAIN open = Cells /\ DOMAIN picture.hidden = Cells /\ DOMAIN picture.fg = Cells
      /\ IsFiniteSet(Cells)
  BY PictureHas, CellsAreFinite DEF OpenTypeOK
<1>2. /\ Count(open, c) = Sum(f, Cells) /\ Count(picture.hidden, c) = Sum(g, Cells)
      /\ Count(picture.fg, c) = Sum(FgOf(c), Cells)
  BY <1>1, CountIsSum DEF FgOf
<1>3. \A x \in Cells : f[x] \in Int /\ g[x] \in Int /\ BgOf(c)[x] = f[x] + g[x]
  BY StudsAreNat
<1>4. ASSUME ~ job.threeD PROVE Sum(FgOf(c), Cells) = 0
  <2>1. \A x \in Cells : FgOf(c)[x] = 0
    BY <1>4, PictureHas DEF FgOf
  <2> QED BY <1>1, <2>1, SumOfZeros
<1>5. Sum(BgOf(c), Cells) = Sum(f, Cells) + Sum(g, Cells)
  <2> HIDE DEF f, g
  <2> QED BY <1>1, <1>3, SumOfSums
<1> QED BY <1>2, <1>4, <1>5

-----------------------------------------------------------------------------
(* The background is simplified.                                             *)

\* The slider keeps at least one colour, and no more than there are.
LEMMA BudgetIs ==
  ASSUME JobInv, JobTypeOK, NEW S, IsFiniteSet(S), S # {}
  PROVE  Budget(S) \in Nat /\ 1 <= Budget(S) /\ Budget(S) <= Cardinality(S)
<1>1. job.pct \in Int /\ 0 <= job.pct /\ job.pct <= 100
  BY PercentsAssumption DEF JobTypeOK
<1>2. Cardinality(S) \in Nat /\ Cardinality(S) >= 1
  BY FS_CardinalityType, FS_EmptySet
<1>3. PICK p \in Nat, n \in Nat : p = job.pct /\ n = Cardinality(S) /\ p <= 100 /\ n >= 1
  BY <1>1, <1>2
<1>4. p * n \in Nat /\ p * n <= 100 * n
  <2>1. PICK d \in Nat : 100 = p + d
    <3>1. 100 - p \in Nat /\ 100 = p + (100 - p)
      BY <1>3
    <3> QED BY <3>1
  <2>2. 100 * n = p * n + d * n
    BY <1>3, <2>1
  <2>3. \A a, b \in Nat : a * b \in Nat
    OBVIOUS
  <2> QED BY <1>3, <2>1, <2>2, <2>3
<1>5. \A m \in Nat : m <= 100 * n => m \div 100 \in Nat /\ m \div 100 <= n
  BY <1>3
<1> DEFINE kept == (p * n) \div 100
<1>6. kept \in Nat /\ kept <= n
  BY <1>4, <1>5
<1>7. Budget(S) = IF kept < 1 THEN 1 ELSE kept
  BY <1>3 DEF Budget
<1> HIDE DEF kept
<1> QED BY <1>3, <1>6, <1>7

\* A column f whose colours D are repainted by r.
ColumnOf(f, D, r) == [c \in Palette |-> Total([d \in {e \in D : r[e] = c} |-> f[d]])]

\* Repainting moves the studs of a column from colour to colour: as many stay.
LEMMA ColumnRepainted ==
  ASSUME NEW D \in SUBSET Palette, NEW r \in [D -> Palette], NEW f \in [Palette -> Nat],
         \A c \in Palette \ D : f[c] = 0,
         NEW g, g = ColumnOf(f, D, r)
  PROVE  /\ Total(g) = Total(f)
         /\ \A c \in Palette : /\ g[c] \in Nat /\ g[c] <= Total(f)
                               /\ \A d \in D : r[d] = c => f[d] <= g[c]
                               /\ (\A d \in D : r[d] # c) => g[c] = 0
<1> DEFINE fibre(c) == {d \in D : r[d] = c}
           part == [c \in Palette |-> Sum(f, fibre(c))]
<1>1. IsFiniteSet(Palette) /\ IsFiniteSet(D)
  BY PercentsAssumption, FS_Subset
<1>2. ASSUME NEW c \in Palette
      PROVE  /\ IsFiniteSet(fibre(c)) /\ fibre(c) \in SUBSET D
             /\ \A d \in fibre(c) : f[d] \in Nat
  <2>1. fibre(c) \in SUBSET D
    OBVIOUS
  <2>2. IsFiniteSet(fibre(c))
    <3> HIDE DEF fibre
    <3> QED BY <1>1, <2>1, FS_Subset
  <2> QED BY <2>1, <2>2
<1>3. ASSUME NEW c \in Palette
      PROVE  g[c] = Sum(f, fibre(c))
  <2> DEFINE h == [d \in fibre(c) |-> f[d]]
  <2>1. g[c] = Total(h)
    BY DEF ColumnOf
  <2>2. DOMAIN h = fibre(c) /\ \A d \in fibre(c) : h[d] = f[d]
    OBVIOUS
  <2> HIDE DEF h, fibre
  <2>3. Total(h) = Sum(h, fibre(c))
    BY <2>2, TotalIsSum
  <2>4. Sum(h, fibre(c)) = Sum(f, fibre(c))
    BY <1>2, <2>2, SumsAgree
  <2> QED BY <2>1, <2>3, <2>4
<1>4. Sum(part, Palette) = Sum(f, D)
  <2>1. \A d \in D : r[d] \in Palette /\ f[d] \in Int
    OBVIOUS
  <2> QED BY <1>1, <2>1, SumOfFibres
<1>5. Sum(f, Palette) = Sum(f, D)
  <2>1. \A c \in Palette : f[c] \in Int
    OBVIOUS
  <2> QED BY <1>1, <2>1, SumOfSupport
<1>6. Sum(g, Palette) = Sum(part, Palette)
  <2>1. \A c \in Palette : g[c] = part[c]
    BY <1>3
  <2> HIDE DEF part
  <2> QED BY <1>1, <2>1, SumsAgree
<1>7. Total(g) = Sum(g, Palette) /\ Total(f) = Sum(f, Palette)
  <2>1. DOMAIN g = Palette /\ DOMAIN f = Palette
    BY DEF ColumnOf
  <2> QED BY <2>1, TotalIsSum
<1>8. ASSUME NEW c \in Palette
      PROVE  /\ g[c] \in Nat /\ g[c] <= Total(f)
             /\ \A d \in D : r[d] = c => f[d] <= g[c]
             /\ (\A d \in D : r[d] # c) => g[c] = 0
  <2> HIDE DEF fibre
  <2>1. /\ Sum(f, fibre(c)) \in Nat
        /\ \A d \in fibre(c) : f[d] <= Sum(f, fibre(c))
    BY <1>2, SumBounds
  <2>2. Sum(f, fibre(c)) <= Sum(f, D)
    <3>1. \A d \in D : f[d] \in Nat
      OBVIOUS
    <3> QED BY <1>1, <1>2, <3>1, SumOfSubset
  <2>3. \A d \in D : r[d] = c => d \in fibre(c)
    BY DEF fibre
  <2>4. (\A d \in D : r[d] # c) => Sum(f, fibre(c)) = 0
    <3>1. (\A d \in D : r[d] # c) => fibre(c) = {}
      BY DEF fibre
    <3> QED BY <3>1, SumEmpty
  <2> QED BY <1>3, <1>5, <1>7, <2>1, <2>2, <2>3, <2>4
<1> HIDE DEF part
<1> QED BY <1>4, <1>5, <1>6, <1>7, <1>8

\* A column has sixteen studs of the background at most, hidden ones apart.
LEMMA ColumnIsFull ==
  ASSUME JobInv, NEW x \in Cells
  PROVE  Total(picture.open[x]) \in 0 .. STUDS_PER_BLOCK
<1> DEFINE f == picture.open[x]
           g == [c \in Palette |-> picture.open[x][c] + picture.hidden[x][c]]
<1>1. /\ f \in [Palette -> 0 .. STUDS_PER_BLOCK] /\ Total(g) = STUDS_PER_BLOCK
      /\ \A c \in Palette : f[c] \in 0 .. STUDS_PER_BLOCK /\ picture.hidden[x][c] \in Nat
  BY PictureHas
<1>2. \A c \in Palette : f[c] \in Nat /\ g[c] \in Nat /\ f[c] <= g[c]
  BY <1>1 DEF STUDS_PER_BLOCK
<1>3. DOMAIN f = Palette /\ DOMAIN g = Palette /\ IsFiniteSet(Palette)
  BY <1>1, PercentsAssumption
<1> HIDE DEF f, g
<1>4. Total(f) = Sum(f, Palette) /\ Total(g) = Sum(g, Palette)
  BY <1>3, TotalIsSum
<1>5. Sum(f, Palette) <= Sum(g, Palette)
  BY <1>2, <1>3, SumsOrder
<1>6. Sum(f, Palette) \in Nat
  BY <1>2, <1>3, SumIsNat
<1> QED BY <1>1, <1>4, <1>5, <1>6 DEF f, STUDS_PER_BLOCK

\* The colours that stay are the budget's, and each column keeps its studs.
LEMMA Repaints ==
  ASSUME JobInv, JobTypeOK, OpenTypeOK, open = picture.open, ColoursOf(open) # {},
         NEW top \in TopColours(Budget(ColoursOf(open))), NEW remap \in Remaps(top),
         NEW new, new = Repainted(open, remap)
  PROVE  /\ DOMAIN new = Cells
         /\ \A x \in Cells : /\ new[x] \in [Palette -> 0 .. STUDS_PER_BLOCK]
                             /\ Total(new[x]) = Total(picture.open[x])
         /\ Cardinality(ColoursOf(new)) = Budget(ColoursOf(picture.open))
<1> DEFINE D == ColoursOf(open)
<1>1. D \in SUBSET Palette /\ IsFiniteSet(D)
  BY PercentsAssumption, FS_Subset DEF ColoursOf
<1>2. /\ top \in SUBSET D
      /\ Cardinality(top) = IF Budget(D) < Cardinality(D) THEN Budget(D) ELSE Cardinality(D)
  BY DEF TopColours
<1>3. Cardinality(top) = Budget(D)
  BY <1>1, <1>2, BudgetIs, FS_CardinalityType
<1>4. remap \in [D -> Palette] /\ (\A c \in D : remap[c] \in top) /\ \A c \in top : remap[c] = c
  BY <1>1, <1>2 DEF Remaps
<1>5. DOMAIN open = Cells /\ DOMAIN new = Cells
  BY DEF OpenTypeOK, Repainted
<1>6. ASSUME NEW x \in Cells
      PROVE  /\ new[x] \in [Palette -> 0 .. STUDS_PER_BLOCK]
             /\ Total(new[x]) = Total(picture.open[x])
             /\ \A c \in Palette : /\ \A d \in D : remap[d] = c => open[x][d] <= new[x][c]
                                   /\ (\A d \in D : remap[d] # c) => new[x][c] = 0
  <2>1. open[x] \in [Palette -> Nat]
    <3>1. open[x] \in [Palette -> 0 .. STUDS_PER_BLOCK]
      BY PictureHas
    <3> QED BY <3>1 DEF STUDS_PER_BLOCK
  <2>2. \A c \in Palette \ D : open[x][c] = 0
    <3> TAKE c \in Palette \ D
    <3>1. open[x][c] \in Nat /\ ~(open[x][c] > 0)
      BY <1>5, <2>1 DEF ColoursOf
    <3> QED BY <3>1
  <2>3. new[x] = [c \in Palette |-> Total([d \in {e \in D : remap[e] = c} |-> open[x][d]])]
    <3>1. DOMAIN remap = D
      BY <1>4
    <3> QED BY <1>5, <3>1 DEF Repainted
  <2> HIDE DEF D
  <2>4. /\ Total(new[x]) = Total(open[x])
        /\ \A c \in Palette : /\ new[x][c] \in Nat /\ new[x][c] <= Total(open[x])
                              /\ \A d \in D : remap[d] = c => open[x][d] <= new[x][c]
                              /\ (\A d \in D : remap[d] # c) => new[x][c] = 0
    <3> DEFINE f == open[x]
               g == new[x]
    <3>1. /\ D \in SUBSET Palette /\ remap \in [D -> Palette] /\ f \in [Palette -> Nat]
          /\ \A c \in Palette \ D : f[c] = 0
      BY <1>1, <1>4, <2>1, <2>2
    <3>2. g = ColumnOf(f, D, remap)
      BY <2>3 DEF ColumnOf
    <3> HIDE DEF f, g
    <3>3. /\ Total(g) = Total(f)
          /\ \A c \in Palette : /\ g[c] \in Nat /\ g[c] <= Total(f)
                                /\ \A d \in D : remap[d] = c => f[d] <= g[c]
                                /\ (\A d \in D : remap[d] # c) => g[c] = 0
      BY <3>1, <3>2, ColumnRepainted
    <3> QED BY <3>3 DEF f, g
  <2>5. Total(open[x]) \in 0 .. STUDS_PER_BLOCK
    BY ColumnIsFull
  <2>6. \A c \in Palette : new[x][c] \in 0 .. STUDS_PER_BLOCK
    BY <2>4, <2>5 DEF STUDS_PER_BLOCK
  <2>7. new[x] \in [Palette -> 0 .. STUDS_PER_BLOCK]
    BY <2>3, <2>6
  <2> QED BY <2>4, <2>7
<1>7. ColoursOf(new) = top
  <2>1. ASSUME NEW c \in top
        PROVE  c \in ColoursOf(new)
    <3>1. c \in D /\ c \in Palette /\ remap[c] = c
      BY <1>1, <1>2, <1>4
    <3>2. PICK x \in Cells : open[x][c] > 0
      BY <1>5, <3>1 DEF ColoursOf
    <3>3. open[x][c] <= new[x][c] /\ new[x][c] \in 0 .. STUDS_PER_BLOCK
      BY <1>6, <3>1
    <3>4. open[x][c] \in Nat
      BY <3>1, PictureHas DEF STUDS_PER_BLOCK
    <3>5. new[x][c] > 0
      BY <3>2, <3>3, <3>4 DEF STUDS_PER_BLOCK
    <3> QED BY <1>5, <3>1, <3>5 DEF ColoursOf
  <2>2. ASSUME NEW c \in ColoursOf(new), c \notin top
        PROVE  FALSE
    <3>1. c \in Palette /\ \E x \in Cells : new[x][c] > 0
      BY <1>5 DEF ColoursOf
    <3>2. PICK x \in Cells : new[x][c] > 0
      BY <3>1
    <3>3. \A d \in D : remap[d] # c
      BY <1>4, <2>2
    <3>4. new[x][c] = 0
      BY <1>6, <3>1, <3>3
    <3> QED BY <3>2, <3>4
  <2> QED BY <2>1, <2>2
<1> QED BY <1>3, <1>5, <1>6, <1>7

\* With what the silhouette hides, a column of the background is full.
LEMMA RowIsFull ==
  ASSUME JobInv, OpenTypeOK, NEW x \in Cells
  PROVE  Sum([c \in Palette |-> open[x][c] + picture.hidden[x][c]], Palette) = STUDS_PER_BLOCK
<1> DEFINE now  == open[x]
           then == picture.open[x]
           hid  == picture.hidden[x]
           all  == [c \in Palette |-> open[x][c] + picture.hidden[x][c]]
           full == [c \in Palette |-> picture.open[x][c] + picture.hidden[x][c]]
<1>1. \A c \in Palette : /\ now[c] \in Int /\ then[c] \in Int /\ hid[c] \in Int
                         /\ all[c] = now[c] + hid[c] /\ full[c] = then[c] + hid[c]
  <2> TAKE c \in Palette
  <2>1. open[x][c] \in Nat /\ picture.hidden[x][c] \in Nat
    BY StudsAreNat
  <2>2. picture.open[x][c] \in Nat
    BY PictureHas DEF STUDS_PER_BLOCK
  <2> QED BY <2>1, <2>2
<1>2. /\ DOMAIN now = Palette /\ DOMAIN then = Palette /\ DOMAIN full = Palette
      /\ Total(now) = Total(then)
  BY PictureHas DEF OpenTypeOK
<1>3. Total(full) = STUDS_PER_BLOCK
  BY PictureHas
<1>4. IsFiniteSet(Palette)
  BY PercentsAssumption
<1> HIDE DEF now, then, hid, all, full
<1>5. /\ Total(now) = Sum(now, Palette) /\ Total(then) = Sum(then, Palette)
      /\ Total(full) = Sum(full, Palette)
  BY <1>2, TotalIsSum
<1>6. Sum(all, Palette) = Sum(now, Palette) + Sum(hid, Palette)
  BY <1>1, <1>4, SumOfSums
<1>7. Sum(full, Palette) = Sum(then, Palette) + Sum(hid, Palette)
  BY <1>1, <1>4, SumOfSums
<1> QED BY <1>2, <1>3, <1>5, <1>6, <1>7 DEF all

\* All plates together are sixteen for each column and those of the foreground.
LEMMA PlatesTotal ==
  ASSUME JobInv, OpenTypeOK
  PROVE  Total([c \in Palette |-> Whole(c)])
           = STUDS_PER_BLOCK * Cardinality(DOMAIN open)
             + Total([c \in Palette |-> Count(picture.fg, c)])
<1> DEFINE whole == [c \in Palette |-> Whole(c)]
           fg == [c \in Palette |-> Count(picture.fg, c)]
           bg == [c \in Palette |-> Sum(BgOf(c), Cells)]
           rows == [x \in Cells |-> [c \in Palette |-> open[x][c] + picture.hidden[x][c]]]
           cols == [c \in Palette |-> BgOf(c)]
           sums == [x \in Cells |-> Sum(rows[x], Palette)]
<1>1. IsFiniteSet(Palette) /\ IsFiniteSet(Cells) /\ DOMAIN open = Cells
  BY PercentsAssumption, CellsAreFinite DEF OpenTypeOK
<1>2. \A c \in Palette : bg[c] \in Int /\ fg[c] \in Int /\ whole[c] = bg[c] + fg[c]
  <2> TAKE c \in Palette
  <2>1. Sum(BgOf(c), Cells) \in Nat /\ Sum(FgOf(c), Cells) \in Nat
    BY SumsAreNat
  <2>2. Count(picture.fg, c) = Sum(FgOf(c), Cells)
    BY CountsAre
  <2> QED BY <2>1, <2>2 DEF Whole
<1>3. Total(whole) = Sum(whole, Palette) /\ Total(fg) = Sum(fg, Palette)
  <2>1. DOMAIN whole = Palette /\ DOMAIN fg = Palette
    OBVIOUS
  <2> HIDE DEF whole, fg
  <2> QED BY <2>1, TotalIsSum
<1>4. \A x \in Cells, c \in Palette : rows[x][c] \in Int /\ cols[c][x] = rows[x][c]
  <2> TAKE x \in Cells, c \in Palette
  <2>1. /\ BgOf(c)[x] = open[x][c] + picture.hidden[x][c]
        /\ open[x][c] \in Nat /\ picture.hidden[x][c] \in Nat
    BY StudsAreNat
  <2> QED BY <2>1
<1>5. \A x \in Cells : sums[x] = Sum(rows[x], Palette) /\ sums[x] = STUDS_PER_BLOCK
  <2> TAKE x \in Cells
  <2>1. Sum(rows[x], Palette) = STUDS_PER_BLOCK
    BY RowIsFull
  <2> QED BY <2>1
<1>6. \A c \in Palette : bg[c] = Sum(cols[c], Cells)
  OBVIOUS
<1> HIDE DEF whole, fg, bg, rows, cols, sums
<1>7. Sum(sums, Cells) = Sum(bg, Palette)
  BY <1>1, <1>4, <1>5, <1>6, SumExchange
<1>8. Sum(sums, Cells) = STUDS_PER_BLOCK * Cardinality(Cells)
  <2>1. STUDS_PER_BLOCK \in Int
    BY DEF STUDS_PER_BLOCK
  <2> QED BY <1>1, <1>5, <2>1, SumOfSame
<1>9. Sum(whole, Palette) = Sum(bg, Palette) + Sum(fg, Palette)
  BY <1>1, <1>2, SumOfSums
<1> QED BY <1>1, <1>3, <1>7, <1>8, <1>9 DEF whole, fg

\* The colours on the palette are those of which some plate is needed.
LEMMA PaletteIs ==
  ASSUME JobInv, OpenTypeOK
  PROVE  ColoursOf(open) \cup ColoursOf(picture.hidden) \cup ColoursOf(picture.fg)
           = {c \in Palette : Whole(c) > 0}
<1>1. /\ DOMAIN open = Cells /\ DOMAIN picture.hidden = Cells /\ DOMAIN picture.fg = Cells
      /\ IsFiniteSet(Cells)
  BY PictureHas, CellsAreFinite DEF OpenTypeOK
<1>2. ASSUME NEW c \in Palette
      PROVE  Whole(c) > 0 <=> \E x \in Cells : \/ open[x][c] > 0 \/ picture.hidden[x][c] > 0
                                                \/ picture.fg[x][c] > 0
  <2> DEFINE f == BgOf(c)
             g == FgOf(c)
  <2>1. \A x \in Cells : /\ f[x] \in Nat /\ g[x] \in Nat
                         /\ f[x] > 0 <=> open[x][c] > 0 \/ picture.hidden[x][c] > 0
                         /\ g[x] > 0 <=> picture.fg[x][c] > 0
    <3> TAKE x \in Cells
    <3>1. /\ f[x] = open[x][c] + picture.hidden[x][c] /\ g[x] = picture.fg[x][c]
          /\ open[x][c] \in Nat /\ picture.hidden[x][c] \in Nat /\ g[x] \in Nat
      BY StudsAreNat
    <3> HIDE DEF f, g
    <3> QED BY <3>1
  <2>2. Whole(c) = Sum(f, Cells) + Sum(g, Cells)
    BY DEF Whole
  <2> HIDE DEF f, g
  <2>3. Sum(f, Cells) \in Nat /\ (Sum(f, Cells) > 0 <=> \E x \in Cells : f[x] > 0)
    BY <1>1, <2>1, SumBounds
  <2>4. Sum(g, Cells) \in Nat /\ (Sum(g, Cells) > 0 <=> \E x \in Cells : g[x] > 0)
    BY <1>1, <2>1, SumBounds
  <2>5. Whole(c) > 0 <=> (\E x \in Cells : f[x] > 0) \/ (\E x \in Cells : g[x] > 0)
    BY <2>2, <2>3, <2>4
  <2> QED BY <2>1, <2>5
<1> QED BY <1>1, <1>2 DEF ColoursOf

-----------------------------------------------------------------------------
(* The results are of one picture.                                           *)

\* Only the simplification repaints, and after the stats the results stay.
LEMMA ResultsStay ==
  ASSUME Next, pc' # "failed", pc # "failed"
  PROVE  /\ pc # "simplify" => open' = open /\ pc' # "simplify"
         /\ pc \notin {"simplify", "preview", "order", "stats"} =>
              /\ UNCHANGED <<order, plates, preview, stats>>
              /\ pc' \notin {"simplify", "preview", "order", "stats"}
<1> USE DEF results
<1>1. CASE SimplifyBackground \/ WritePreview \/ GenerateOrderList \/ WriteStats
  BY <1>1 DEF SimplifyBackground, WritePreview, GenerateOrderList, WriteStats
<1>2. CASE TitlePage \/ BaseplateSetup \/ GridSetup
  BY <1>2 DEF TitlePage, BaseplateSetup, GridSetup, Draw
<1>3. CASE BackgroundColumn
  BY <1>3 DEF BackgroundColumn, ShowColumn, Draw, NextColumn, NextBlock
<1>4. CASE ForegroundColumn
  BY <1>4 DEF ForegroundColumn, ShowColumn, SkipColumn, Draw, NextColumn, NextBlock
<1>5. CASE AssembleLongEdge \/ AssembleCorner \/ AssembleSeam
  BY <1>5 DEF AssembleLongEdge, AssembleCorner, AssembleSeam, Assemble, Draw
<1>6. CASE PlaceLongEdge \/ PlaceCorner \/ PlaceSeam
  BY <1>6 DEF PlaceLongEdge, PlaceCorner, PlaceSeam, Place, Draw
<1>7. CASE FinishFrame \/ HookAssembly \/ BackHook \/ FinalView
  BY <1>7 DEF FinishFrame, HookAssembly, BackHook, FinalView, Draw
<1>8. CASE MakePdf
  BY <1>8 DEF MakePdf, Fail
<1> QED
  BY <1>1, <1>2, <1>3, <1>4, <1>5, <1>6, <1>7, <1>8 DEF Next, NoBackground, DiskFull, Fail

\* While the picture is not repainted, its studs stay.
LEMMA StudsStay ==
  ASSUME job' = job, picture' = picture, open' = open
  PROVE  /\ Cells' = Cells
         /\ \A c : BgOf(c)' = BgOf(c) /\ FgOf(c)' = FgOf(c) /\ Whole(c)' = Whole(c)
  BY DEF Cells, BgOf, FgOf, Whole

\* The simplification keeps each column's studs and the budget's colours.
LEMMA OpenStep ==
  ASSUME JobInv, JobTypeOK, OpenTypeOK, BudgetKept, OpenInv, Next, pc # "failed",
         pc' # "failed", job' = job, picture' = picture
  PROVE  OpenTypeOK' /\ BudgetKept' /\ OpenInv'
<1>1. CASE pc # "simplify"
  <2>1. open' = open /\ pc' # "simplify"
    BY <1>1, ResultsStay
  <2>2. OpenTypeOK' /\ OpenInv'
    BY <2>1 DEF OpenTypeOK, OpenInv, Cells
  <2>3. BudgetKept'
    BY <1>1, <2>1 DEF BudgetKept, Budget, ColoursOf
  <2> QED BY <2>2, <2>3
<1>2. CASE pc = "simplify"
  <2>1. SimplifyBackground
    BY <1>2 DEF Next, NoBackground, Fail, WritePreview, GenerateOrderList, WriteStats,
                TitlePage, BaseplateSetup, BackgroundColumn, ForegroundColumn, GridSetup,
                AssembleLongEdge, PlaceLongEdge, AssembleCorner, PlaceCorner, AssembleSeam,
                PlaceSeam, FinishFrame, HookAssembly, BackHook, FinalView, MakePdf, DiskFull
  <2>2. pc' = "preview" /\ ColoursOf(open) # {} /\ open = picture.open
    BY <1>2, <2>1 DEF SimplifyBackground, OpenInv
  <2>3. PICK top \in TopColours(Budget(ColoursOf(open))) :
          \E remap \in Remaps(top) : open' = Repainted(open, remap)
    BY <2>1 DEF SimplifyBackground
  <2>4. PICK remap \in Remaps(top) : open' = Repainted(open, remap)
    BY <2>3
  <2>5. PICK new : new = open'
    OBVIOUS
  <2>6. /\ DOMAIN new = Cells
        /\ \A x \in Cells : /\ new[x] \in [Palette -> 0 .. STUDS_PER_BLOCK]
                            /\ Total(new[x]) = Total(picture.open[x])
        /\ Cardinality(ColoursOf(new)) = Budget(ColoursOf(picture.open))
    BY <2>2, <2>4, <2>5, Repaints
  <2>7. OpenTypeOK'
    BY <2>5, <2>6 DEF OpenTypeOK, Cells
  <2>8. BudgetKept'
    BY <2>5, <2>6 DEF BudgetKept, Budget, ColoursOf
  <2> QED BY <2>2, <2>7, <2>8 DEF OpenInv
<1> QED BY <1>1, <1>2

\* There are finitely many kinds of pieces.
LEMMA PiecesAreFinite == IsFiniteSet(Pieces)
<1>1. \A a, b : IsFiniteSet({a, b})
  <2> TAKE a, b
  <2>1. IsFiniteSet({a}) /\ IsFiniteSet({b})
    BY FS_Singleton
  <2>2. IsFiniteSet({a} \cup {b})
    BY <2>1, FS_Union
  <2>3. {a} \cup {b} = {a, b}
    OBVIOUS
  <2> QED BY <2>2, <2>3
<1>2. \A a, b, c, d : IsFiniteSet({a, b, c, d})
  <2> TAKE a, b, c, d
  <2>1. IsFiniteSet({a, b} \cup {c, d})
    BY <1>1, FS_Union
  <2>2. {a, b} \cup {c, d} = {a, b, c, d}
    OBVIOUS
  <2> QED BY <2>1, <2>2
<1> DEFINE A == {"baseplate", "hook", "hook_pin", "green_conn"}
           B == {"red_conn", "green_plate", "red_plate", "plate_2x2"}
           C == {"corner_brick", "corner_plate", "brick_1x1", "axle_brick"}
           D == {"axle_peg", "brick_8x1", "brick_4x1", "plate_10x2"}
           E == {"plate_6x2", "brick_16x1", "thin_corner", "flat_1x4"}
<1>3. Pieces = A \cup B \cup C \cup D \cup E
  BY DEF Pieces, BoardPieces, FramePieces
<1>4. /\ IsFiniteSet(A) /\ IsFiniteSet(B) /\ IsFiniteSet(C) /\ IsFiniteSet(D)
      /\ IsFiniteSet(E)
  BY <1>2
<1> HIDE DEF A, B, C, D, E
<1>5. IsFiniteSet(A \cup B)
  BY <1>4, FS_Union
<1>6. IsFiniteSet(A \cup B \cup C)
  BY <1>4, <1>5, FS_Union
<1>7. IsFiniteSet(A \cup B \cup C \cup D)
  BY <1>4, <1>6, FS_Union
<1>8. IsFiniteSet(A \cup B \cup C \cup D \cup E)
  BY <1>4, <1>7, FS_Union
<1> QED BY <1>3, <1>8

\* The order list and what is counted beside it.
LEMMA ResultsStep ==
  ASSUME JobInv, order \in [Pieces -> Nat], OpenTypeOK, PlatesInv, PreviewInv, StatsInv,
         Next, pc # "failed", pc' # "failed", job' = job, picture' = picture
  PROVE  PlatesInv' /\ PreviewInv' /\ StatsInv'
<1>1. CASE pc = "simplify"
  <2>1. /\ pc' = "preview" /\ plates' = plates /\ preview' = preview /\ stats' = stats
    BY <1>1 DEF results, SimplifyBackground,
                Next, NoBackground, Fail, WritePreview, GenerateOrderList, WriteStats,
                TitlePage, BaseplateSetup, BackgroundColumn, ForegroundColumn, GridSetup,
                AssembleLongEdge, PlaceLongEdge, AssembleCorner, PlaceCorner, AssembleSeam,
                PlaceSeam, FinishFrame, HookAssembly, BackHook, FinalView, MakePdf, DiskFull
  <2> QED BY <1>1, <2>1 DEF PlatesInv, PreviewInv, StatsInv, NoPlates
<1>2. CASE pc # "simplify"
  <2>1. open' = open /\ \A c : Whole(c)' = Whole(c)
    BY <1>2, ResultsStay, StudsStay
  <2>2. CASE pc \notin {"simplify", "preview", "order", "stats"}
    <3>1. /\ UNCHANGED <<order, plates, preview, stats>>
          /\ pc' \notin {"simplify", "preview", "order", "stats"}
      BY <2>2, ResultsStay
    <3>2. PlatesInv'
      BY <2>1, <2>2, <3>1 DEF PlatesInv
    <3>3. PreviewInv'
      BY <2>1, <3>1 DEF PreviewInv
    <3>4. StatsInv'
      BY <2>1, <3>1 DEF StatsInv, Count
    <3> QED BY <3>2, <3>3, <3>4
  <2>3. CASE pc = "preview"
    <3>1. WritePreview
      BY <2>3 DEF Next, SimplifyBackground, NoBackground, GenerateOrderList, WriteStats,
                TitlePage, BaseplateSetup, BackgroundColumn, ForegroundColumn, GridSetup,
                AssembleLongEdge, PlaceLongEdge, AssembleCorner, PlaceCorner, AssembleSeam,
                PlaceSeam, FinishFrame, HookAssembly, BackHook, FinalView, MakePdf, DiskFull
    <3>2. /\ preview' \subseteq {PreviewPayload} /\ pc' = "order"
          /\ plates' = plates /\ stats' = stats
      BY <3>1 DEF WritePreview
    <3>3. PlatesInv' /\ StatsInv'
      BY <2>3, <3>2 DEF PlatesInv, StatsInv, NoPlates
    <3>4. \A c \in Palette : PreviewPayload.bg[c] + PreviewPayload.fg[c] = Whole(c)
      <4> TAKE c \in Palette
      <4>1. /\ PreviewPayload.bg[c] = Count(open, c) + Count(picture.hidden, c)
            /\ PreviewPayload.fg[c] = IF job.threeD THEN Count(picture.fg, c) ELSE 0
        BY DEF PreviewPayload
      <4> QED BY <4>1, CountsAre DEF Whole
    <3>5. PreviewPayload.palette = {c \in Palette : Whole(c) > 0}
      BY PaletteIs DEF PreviewPayload
    <3>6. PreviewInv'
      <4>1. ASSUME NEW seen \in preview'
            PROVE  /\ \A c \in Palette : seen.bg[c] + seen.fg[c] = Whole(c)'
                   /\ seen.palette = {c \in Palette : Whole(c)' > 0}
        <5>1. seen = PreviewPayload
          BY <3>2, <4>1
        <5>2. \A c \in Palette : seen.bg[c] + seen.fg[c] = Whole(c)'
          BY <2>1, <3>4, <5>1
        <5>3. {c \in Palette : Whole(c)' > 0} = {c \in Palette : Whole(c) > 0}
          BY <2>1
        <5> QED BY <3>5, <5>1, <5>2, <5>3
      <4> QED BY <3>2, <4>1 DEF PreviewInv
    <3> QED BY <3>3, <3>6
  <2>4. CASE pc = "order"
    <3>1. GenerateOrderList
      BY <2>4 DEF Next, SimplifyBackground, NoBackground, WritePreview, WriteStats,
                TitlePage, BaseplateSetup, BackgroundColumn, ForegroundColumn, GridSetup,
                AssembleLongEdge, PlaceLongEdge, AssembleCorner, PlaceCorner, AssembleSeam,
                PlaceSeam, FinishFrame, HookAssembly, BackHook, FinalView, MakePdf, DiskFull,
                Fail
    <3>2. pc' = "stats" /\ preview' = preview /\ stats' = stats
      BY <3>1 DEF GenerateOrderList
    <3>3. plates' = [c \in Palette |-> Whole(c)]
      <4>1. \A c \in Palette :
              Count(open, c) + Count(picture.hidden, c)
                + (IF job.threeD THEN Count(picture.fg, c) ELSE 0) = Whole(c)
        BY CountsAre DEF Whole
      <4> QED BY <3>1, <4>1 DEF GenerateOrderList
    <3>4. PlatesInv'
      BY <2>1, <3>2, <3>3 DEF PlatesInv
    <3>5. PreviewInv'
      BY <2>1, <3>2 DEF PreviewInv
    <3>6. StatsInv'
      BY <2>4, <3>2 DEF StatsInv
    <3> QED BY <3>4, <3>5, <3>6
  <2>5. CASE pc = "stats"
    <3>1. WriteStats
      BY <2>5 DEF Next, SimplifyBackground, NoBackground, WritePreview, GenerateOrderList,
                TitlePage, BaseplateSetup, BackgroundColumn, ForegroundColumn, GridSetup,
                AssembleLongEdge, PlaceLongEdge, AssembleCorner, PlaceCorner, AssembleSeam,
                PlaceSeam, FinishFrame, HookAssembly, BackHook, FinalView, MakePdf, DiskFull
    <3>2. /\ stats' \subseteq {StatsPayload} /\ pc' = "title"
          /\ plates' = plates /\ preview' = preview /\ order' = order
      BY <3>1 DEF WriteStats
    <3>3. PlatesInv'
      BY <2>1, <2>5, <3>2 DEF PlatesInv
    <3>4. PreviewInv'
      BY <2>1, <2>5, <3>2 DEF PreviewInv
    <3>5. StatsPayload.total = Total(order) + Total(plates)
      BY DEF StatsPayload
    <3>6. plates = [c \in Palette |-> Whole(c)]
      BY <2>5 DEF PlatesInv
    <3>7. Total(plates) = STUDS_PER_BLOCK * Cardinality(DOMAIN open)
                            + Total([c \in Palette |-> Count(picture.fg, c)])
      BY <3>6, PlatesTotal
    <3> DEFINE a == Total(order)
               b == STUDS_PER_BLOCK * Cardinality(DOMAIN open)
               d == Total([c \in Palette |-> Count(picture.fg, c)])
    <3>8. a \in Int /\ b \in Int /\ d \in Int
      <4>1. Total(order) \in Nat
        <5>1. DOMAIN order = Pieces /\ \A p \in Pieces : order[p] \in Nat
          OBVIOUS
        <5> QED BY <5>1, PiecesAreFinite, TotalIsSum, SumIsNat
      <4>2. STUDS_PER_BLOCK * Cardinality(DOMAIN open) \in Nat
        <5>1. Cardinality(Cells) \in Nat
          BY CellsAreFinite, FS_CardinalityType
        <5> QED BY <5>1 DEF OpenTypeOK, STUDS_PER_BLOCK
      <4>3. Total([c \in Palette |-> Count(picture.fg, c)]) \in Nat
        <5> DEFINE f == [c \in Palette |-> Count(picture.fg, c)]
        <5>1. \A c \in Palette : f[c] \in Nat
          BY CountsAre, SumsAreNat
        <5>2. DOMAIN f = Palette /\ IsFiniteSet(Palette)
          BY PercentsAssumption
        <5> HIDE DEF f
        <5>3. Total(f) \in Nat
          BY <5>1, <5>2, TotalIsSum, SumIsNat
        <5> QED BY <5>3 DEF f
      <4> QED BY <4>1, <4>2, <4>3
    <3>9. StatsPayload.total = a + b + d
      <4> HIDE DEF a, b, d
      <4>1. StatsPayload.total = a + (b + d)
        BY <3>5, <3>7 DEF a, b, d
      <4> QED BY <3>8, <4>1
    <3>10. StatsInv'
      BY <2>1, <3>2, <3>9 DEF StatsInv, Count
    <3> QED BY <3>3, <3>4, <3>10
  <2> QED BY <1>2, <2>2, <2>3, <2>4, <2>5
<1> QED BY <1>1, <1>2

-----------------------------------------------------------------------------
(* The plates the pages have had laid.                                       *)

\* A column shown for the first time adds its studs.
LEMMA SumGrows ==
  ASSUME JobInv, NEW f, \A x \in Cells : f[x] \in Nat, NEW R \in SUBSET Cells,
         NEW y \in Cells \ R
  PROVE  Sum(f, R \cup {y}) = Sum(f, R) + f[y]
<1>1. R \cup {y} \in SUBSET Cells /\ (R \cup {y}) \ {y} = R
  OBVIOUS
<1>2. IsFiniteSet(R \cup {y}) /\ \A x \in R \cup {y} : f[x] \in Int
  BY <1>1, CellsAreFinite, FS_Subset
<1>3. Sum(f, R \cup {y}) = f[y] + Sum(f, (R \cup {y}) \ {y})
  BY <1>2, SumTakes
<1>4. IsFiniteSet(R) /\ \A x \in R : f[x] \in Nat
  BY CellsAreFinite, FS_Subset
<1>5. Sum(f, R) \in Nat /\ f[y] \in Nat
  BY <1>4, SumIsNat
<1> QED BY <1>1, <1>3, <1>5

\* The loops show no column twice.
LEMMA ColumnIsNew ==
  ASSUME JobInv, AtInv, ShownInv, pc \in {"background", "foreground"}
  PROVE  /\ Column \in Cells
         /\ pc = "background" => Column \notin Seen("bg")
         /\ pc = "foreground" => Column \notin Seen("fg")
<1> DEFINE a == 16 * at.w + at.col
           b == at.h
<1>1. /\ at.w \in 0 .. job.w - 1 /\ at.h \in 0 .. job.h - 1 /\ at.col \in 0 .. 15
      /\ job.w \in Nat /\ job.h \in Nat
  BY DEF JobInv, AtInv, Loops, STUDS_PER_BLOCK
<1>2. Column = <<a, b>>
  BY DEF Column, STUDS_PER_BLOCK
<1>3. a \in 0 .. 16 * job.w - 1 /\ b \in 0 .. job.h - 1
  BY <1>1
<1>4. Column \in Cells
  BY <1>2, <1>3 DEF Cells, Columns, STUDS_PER_BLOCK
<1>5. Column[1] = a /\ Column[2] = b
  BY <1>2
<1>6. ~ Behind(Column)
  BY <1>1, <1>5 DEF Behind
<1>7. a = 16 * at.w + at.col
  OBVIOUS
<1>8. ~ (a < 16 * at.w + at.col)
  BY <1>1
<1> HIDE DEF a, b
<1>9. pc = "background" => ~ BgShown(Column)
  BY <1>5, <1>6, <1>8 DEF BgShown
<1>10. pc = "foreground" => ~ FgShown(Column)
  BY <1>5, <1>6, <1>8 DEF FgShown
<1>11. /\ <<"bg", Column>> \in shown => BgShown(Column)
       /\ <<"fg", Column>> \in shown => FgShown(Column)
  BY <1>4 DEF ShownInv, Cells
<1> QED BY <1>4, <1>9, <1>10, <1>11 DEF Seen

LEMMA LaidStep ==
  ASSUME JobInv, AtInv, ShownInv, OpenTypeOK, LaidInv, Next, pc # "failed", pc' # "failed",
         job' = job, picture' = picture
  PROVE  LaidInv'
<1> USE DEF told
\* steps that show none
<1>1. ASSUME laid' = laid, shown' = shown, open' = open
      PROVE  LaidInv'
  <2>1. Seen("bg")' = Seen("bg") /\ Seen("fg")' = Seen("fg")
    BY <1>1 DEF Seen, Cells
  <2>2. \A c : BgOf(c)' = BgOf(c) /\ FgOf(c)' = FgOf(c)
    BY <1>1, StudsStay
  <2> QED BY <1>1, <2>1, <2>2 DEF LaidInv
<1>2. CASE SimplifyBackground
  <2>1. laid' = laid /\ shown' = shown /\ pc = "simplify"
    BY <1>2 DEF SimplifyBackground
  <2>2. Seen("bg") = {} /\ Seen("fg") = {}
    <3>1. at = [w |-> 0, h |-> 0, col |-> 0]
      BY <2>1 DEF AtInv, Early
    <3>2. ASSUME NEW x \in Cells
          PROVE  ~ BgShown(x) /\ ~ FgShown(x)
      <4>1. x[1] \in Nat /\ x[2] \in Nat
        BY DEF Cells, Columns
      <4> QED BY <2>1, <3>1, <4>1 DEF BgShown, FgShown, Behind
    <3>3. ASSUME NEW x \in Cells
          PROVE  <<"bg", x>> \notin shown /\ <<"fg", x>> \notin shown
      BY <3>2 DEF ShownInv, Cells
    <3> QED BY <3>3 DEF Seen
  <2>3. Seen("bg")' = {} /\ Seen("fg")' = {}
    BY <2>1, <2>2 DEF Seen, Cells
  <2>4. laid = [c \in Palette |-> 0]
    BY <2>2, SumEmpty DEF LaidInv
  <2>5. \A c : Sum(BgOf(c)', {}) = 0 /\ Sum(FgOf(c)', {}) = 0
    BY SumEmpty
  <2> QED BY <2>1, <2>3, <2>4, <2>5 DEF LaidInv
<1>3. CASE BackgroundColumn
  <2>1. /\ pc = "background" /\ shown' = shown \cup {<<"bg", Column>>} /\ open' = open
        /\ laid' = [c \in Palette |-> laid[c] + (open[Column][c] + picture.hidden[Column][c])]
    BY <1>3 DEF BackgroundColumn, ShowColumn, Draw
  <2>2. Column \in Cells \ Seen("bg") /\ Seen("bg") \in SUBSET Cells
    BY <2>1, ColumnIsNew DEF Seen
  <2>3. Seen("bg")' = Seen("bg") \cup {Column} /\ Seen("fg")' = Seen("fg")
    <3>1. Cells' = Cells
      BY DEF Cells
    <3> QED BY <2>1, <2>2, <3>1 DEF Seen
  <2>4. ASSUME NEW c \in Palette
        PROVE  laid'[c] = Sum(BgOf(c), Seen("bg")') + Sum(FgOf(c), Seen("fg")')
    <3>1. Sum(BgOf(c), Seen("bg")') = Sum(BgOf(c), Seen("bg")) + BgOf(c)[Column]
      BY <2>2, <2>3, SumGrows, StudsAreNat
    <3>2. BgOf(c)[Column] = open[Column][c] + picture.hidden[Column][c]
          /\ BgOf(c)[Column] \in Nat
      BY <2>2, StudsAreNat
    <3>3. laid[c] = Sum(BgOf(c), Seen("bg")) + Sum(FgOf(c), Seen("fg"))
      BY DEF LaidInv
    <3>4. Sum(BgOf(c), Seen("bg")) \in Nat /\ Sum(FgOf(c), Seen("fg")) \in Nat
      BY SumsAreNat DEF Seen
    <3>5. laid'[c] = laid[c] + BgOf(c)[Column]
      BY <2>1, <3>2
    <3> QED BY <2>3, <3>1, <3>2, <3>3, <3>4, <3>5
  <2>5. \A c : BgOf(c)' = BgOf(c) /\ FgOf(c)' = FgOf(c)
    BY <2>1, StudsStay
  <2>6. laid' = [c \in Palette |-> laid'[c]]
    BY <2>1
  <2>7. laid' = [c \in Palette |-> Sum(BgOf(c), Seen("bg")') + Sum(FgOf(c), Seen("fg")')]
    BY <2>4, <2>6
  <2> QED BY <2>5, <2>7 DEF LaidInv
<1>4. CASE ForegroundColumn
  <2>1. /\ pc = "foreground" /\ open' = open
        /\ \/ shown' = shown /\ laid' = laid
           \/ /\ shown' = shown \cup {<<"fg", Column>>}
              /\ laid' = [c \in Palette |-> laid[c] + picture.fg[Column][c]]
    BY <1>4 DEF ForegroundColumn, ShowColumn, SkipColumn, Draw
  <2>2. Column \in Cells \ Seen("fg") /\ Seen("fg") \in SUBSET Cells
    BY <2>1, ColumnIsNew DEF Seen
  <2>3. ASSUME shown' = shown \cup {<<"fg", Column>>},
               laid' = [c \in Palette |-> laid[c] + picture.fg[Column][c]]
        PROVE  LaidInv'
    <3>0. Seen("fg")' = Seen("fg") \cup {Column} /\ Seen("bg")' = Seen("bg")
      <4>1. Cells' = Cells
        BY DEF Cells
      <4> QED BY <2>2, <2>3, <4>1 DEF Seen
    <3>1. ASSUME NEW c \in Palette
          PROVE  laid'[c] = Sum(BgOf(c), Seen("bg")') + Sum(FgOf(c), Seen("fg")')
      <4>1. Sum(FgOf(c), Seen("fg")') = Sum(FgOf(c), Seen("fg")) + FgOf(c)[Column]
        BY <2>2, <3>0, SumGrows, StudsAreNat
      <4>2. FgOf(c)[Column] = picture.fg[Column][c] /\ FgOf(c)[Column] \in Nat
        BY <2>2, StudsAreNat
      <4>3. laid[c] = Sum(BgOf(c), Seen("bg")) + Sum(FgOf(c), Seen("fg"))
        BY DEF LaidInv
      <4>4. Sum(BgOf(c), Seen("bg")) \in Nat /\ Sum(FgOf(c), Seen("fg")) \in Nat
        BY SumsAreNat DEF Seen
      <4>5. laid'[c] = laid[c] + FgOf(c)[Column]
        BY <2>3, <4>2
      <4> QED BY <3>0, <4>1, <4>2, <4>3, <4>4, <4>5
    <3>2. \A c : BgOf(c)' = BgOf(c) /\ FgOf(c)' = FgOf(c)
      BY <2>1, StudsStay
    <3>3. laid' = [c \in Palette |-> laid'[c]]
      BY <2>3
    <3>4. laid' = [c \in Palette |-> Sum(BgOf(c), Seen("bg")') + Sum(FgOf(c), Seen("fg")')]
      BY <3>1, <3>3
    <3> QED BY <3>2, <3>4 DEF LaidInv
  <2> QED BY <1>1, <2>1, <2>3
<1>5. CASE WritePreview \/ GenerateOrderList \/ WriteStats
  BY <1>1, <1>5 DEF WritePreview, GenerateOrderList, WriteStats
<1>6. CASE TitlePage \/ BaseplateSetup \/ GridSetup
  BY <1>1, <1>6 DEF TitlePage, BaseplateSetup, GridSetup, Draw
<1>7. CASE AssembleLongEdge \/ AssembleCorner \/ AssembleSeam
  BY <1>1, <1>7 DEF AssembleLongEdge, AssembleCorner, AssembleSeam, Assemble, Draw
<1>8. CASE PlaceLongEdge \/ PlaceCorner \/ PlaceSeam
  BY <1>1, <1>8 DEF PlaceLongEdge, PlaceCorner, PlaceSeam, Place, Draw
<1>9. CASE FinishFrame \/ HookAssembly \/ BackHook \/ FinalView
  BY <1>1, <1>9 DEF FinishFrame, HookAssembly, BackHook, FinalView, Draw
<1>10. CASE MakePdf
  BY <1>1, <1>10 DEF MakePdf, Fail
<1> QED
  BY <1>2, <1>3, <1>4, <1>5, <1>6, <1>7, <1>8, <1>9, <1>10
     DEF Next, NoBackground, DiskFull, Fail

-----------------------------------------------------------------------------
(* What follows for the results.                                             *)

\* The running job has its types.
LEMMA RunTypes ==
  ASSUME JobInv, JobTypeOK, RunInv, OpenTypeOK, PictureInv, pc # "failed"
  PROVE  BookTypeOK /\ StudsTypeOK
<1>1. job.w \in Nat \ {0} /\ job.h \in Nat \ {0} /\ job.frame \in BOOLEAN /\ pc \in Stages
  BY DEF JobInv
<1>2. order \in [Pieces -> Nat]
  <2>1. KitFor(job.w, job.h, job.frame) \in [Pieces -> Nat]
    BY <1>1, KitIs DEF KitCounts
  <2>2. NoPieces \in [Pieces -> Nat]
    BY DEF NoPieces
  <2> QED BY <2>1, <2>2 DEF RunInv, OrderInv
<1>3. used \in [Pieces -> Nat] /\ step \in Nat /\ why = ""
  BY DEF RunInv, CountInv, PageInv
<1>4. built \in [FrameUnits -> Nat] /\ DOMAIN placed = FrameUnits
  <2>1. Perimeter \in Nat /\ Perimeter - 4 \in Nat
    <3>1. PICK w \in Nat \ {0}, h \in Nat \ {0} : w = job.w /\ h = job.h
      BY <1>1
    <3>2. w * 2 + h * 2 \in Nat /\ w * 2 + h * 2 - 4 \in Nat
      OBVIOUS
    <3> QED BY <3>1, <3>2 DEF Perimeter
  <2>2. /\ built["long_edge"] \in {Perimeter, 0} /\ built["corner"] \in {4, 0}
        /\ built["seam"] \in {Perimeter - 4, 0} /\ DOMAIN built = FrameUnits
        /\ built = [u \in FrameUnits |-> built[u]]
    BY DEF RunInv, UnitInv, FrameUnits
  <2>3. \A u \in FrameUnits : built[u] \in Nat
    BY <2>1, <2>2 DEF FrameUnits
  <2> QED BY <2>2, <2>3 DEF RunInv, UnitInv
<1>5. pngs \subseteq Nat /\ pdf \subseteq Nat
  <2>1. 0 .. step - 1 \subseteq Nat
    <3>1. \A n \in Nat : 0 .. n - 1 \subseteq Nat
      OBVIOUS
    <3> QED BY <1>3, <3>1
  <2> QED BY <2>1 DEF RunInv, PageInv
<1>6. at \in [w : 0 .. job.w, h : 0 .. job.h - 1, col : 0 .. STUDS_PER_BLOCK - 1]
  BY <1>1 DEF RunInv, AtInv, Early, Loops, STUDS_PER_BLOCK
<1>10. joined \subseteq {"red", "green"}
  BY DEF RunInv, UnitInv
<1>7. BookTypeOK
  BY <1>1, <1>2, <1>3, <1>4, <1>5, <1>6, <1>10 DEF BookTypeOK
<1>8. plates \in [Palette -> Nat] /\ laid \in [Palette -> Nat]
  <2>1. ASSUME NEW c \in Palette
        PROVE  Whole(c) \in Nat /\ Sum(BgOf(c), Seen("bg")) + Sum(FgOf(c), Seen("fg")) \in Nat
    <3>1. Seen("bg") \in SUBSET Cells /\ Seen("fg") \in SUBSET Cells
      BY DEF Seen
    <3>2. /\ Sum(BgOf(c), Seen("bg")) \in Nat /\ Sum(FgOf(c), Seen("fg")) \in Nat
          /\ Whole(c) \in Nat
      BY <3>1, SumsAreNat
    <3> QED BY <3>2
  <2>2. plates \in [Palette -> Nat]
    BY <2>1 DEF PictureInv, PlatesInv, NoPlates
  <2>3. laid \in [Palette -> Nat]
    BY <2>1 DEF PictureInv, LaidInv
  <2> QED BY <2>2, <2>3
<1>9. StudsTypeOK
  BY <1>8 DEF StudsTypeOK, OpenTypeOK, Cells
<1> QED BY <1>7, <1>9

\* The running job's results are of one picture.
LEMMA RunOnePicture ==
  ASSUME JobInv, RunInv, OpenTypeOK, BudgetKept, PictureInv, pc # "failed"
  PROVE  OnePicture
<1>1. PlatesInv /\ LaidInv /\ PreviewInv /\ StatsInv
  BY DEF PictureInv
<1>2. ASSUME NEW seen \in preview, pc # "order"
      PROVE  /\ \A c \in Palette : seen.bg[c] + seen.fg[c] = plates[c]
             /\ seen.palette = {c \in Palette : plates[c] > 0}
  <2>1. pc \notin {"simplify", "preview", "order"}
    BY <1>1, <1>2 DEF PreviewInv
  <2>2. \A c \in Palette : plates[c] = Whole(c)
    BY <1>1, <2>1 DEF PlatesInv
  <2>3. \A c \in Palette : seen.bg[c] + seen.fg[c] = Whole(c)
    BY <1>1, <1>2 DEF PreviewInv
  <2>4. seen.palette = {c \in Palette : Whole(c) > 0}
    BY <1>1, <1>2 DEF PreviewInv
  <2>5. {c \in Palette : Whole(c) > 0} = {c \in Palette : plates[c] > 0}
    BY <2>2
  <2> QED BY <2>2, <2>3, <2>4, <2>5
<1>3. \A s \in stats : s.total = Total(order) + STUDS_PER_BLOCK * Cardinality(DOMAIN open)
                                   + Total([c \in Palette |-> Count(picture.fg, c)])
  BY <1>1 DEF StatsInv
<1>4. \A c \in Palette : laid[c] = Sum(BgOf(c), Seen("bg")) + Sum(FgOf(c), Seen("fg"))
  BY <1>1 DEF LaidInv
<1>5. ASSUME NEW c \in Palette
      PROVE  laid[c] <= plates[c]
  <2>1. Seen("bg") \in SUBSET Cells /\ Seen("fg") \in SUBSET Cells
    BY DEF Seen
  <2>2. CASE pc \in {"simplify", "preview", "order"}
    <3>1. at = [w |-> 0, h |-> 0, col |-> 0]
      BY <2>2 DEF RunInv, AtInv, Early
    <3>2. Seen("bg") = {} /\ Seen("fg") = {}
      <4>1. ASSUME NEW x \in Cells
            PROVE  ~ BgShown(x) /\ ~ FgShown(x)
        <5>1. x[1] \in Nat /\ x[2] \in Nat
          BY DEF Cells, Columns
        <5> QED BY <2>2, <3>1, <5>1 DEF BgShown, FgShown, Behind
      <4>2. ASSUME NEW x \in Cells
            PROVE  <<"bg", x>> \notin shown /\ <<"fg", x>> \notin shown
        BY <4>1 DEF RunInv, ShownInv, Cells
      <4> QED BY <4>2 DEF Seen
    <3>3. laid[c] = 0
      BY <1>4, <3>2, SumEmpty
    <3>4. plates[c] = 0
      BY <1>1, <2>2 DEF PlatesInv, NoPlates
    <3> QED BY <3>3, <3>4
  <2>3. CASE pc \notin {"simplify", "preview", "order"}
    <3>1. plates[c] = Whole(c)
      BY <1>1, <2>3 DEF PlatesInv
    <3>2. Sum(BgOf(c), Seen("bg")) + Sum(FgOf(c), Seen("fg")) <= Whole(c)
      BY <2>1, SumsAreNat
    <3> QED BY <1>4, <3>1, <3>2
  <2> QED BY <2>2, <2>3
<1>6. ASSUME pc = "done" PROVE laid = plates
  <2>1. /\ \A x \in Cells : <<"bg", x>> \in shown
        /\ \A x \in Cells : ~ IsEmpty(picture.fg[x]) => <<"fg", x>> \in shown
    BY <1>6, RunIsWhole DEF BookIsWhole, Cells
  <2>2. Seen("bg") = Cells
    BY <2>1 DEF Seen
  <2>3. ASSUME NEW c \in Palette
        PROVE  Sum(FgOf(c), Seen("fg")) = Sum(FgOf(c), Cells)
    <3>1. \A x \in Cells : FgOf(c)[x] \in Int
      BY StudsAreNat
    <3>2. \A x \in Cells \ Seen("fg") : FgOf(c)[x] = 0
      BY <2>1 DEF Seen, IsEmpty, FgOf
    <3>3. Seen("fg") \in SUBSET Cells /\ IsFiniteSet(Cells)
      BY CellsAreFinite DEF Seen
    <3> QED BY <3>1, <3>2, <3>3, SumOfSupport
  <2>4. plates = [c \in Palette |-> Whole(c)]
    BY <1>1, <1>6 DEF PlatesInv
  <2>5. \A c \in Palette : Sum(BgOf(c), Seen("bg")) + Sum(FgOf(c), Seen("fg")) = Whole(c)
    BY <2>2, <2>3 DEF Whole
  <2> QED BY <1>1, <2>4, <2>5 DEF LaidInv
<1> QED BY <1>2, <1>3, <1>5, <1>6 DEF OnePicture

\* A failed job leaves no results but what was laid.
LEMMA FailForgets ==
  ASSUME JobInv, JobTypeOK, BookTypeOK, StudsTypeOK, OnePicture,
         NEW r \in {"no background", "disk"}, Fail(r)
  PROVE  JobTypeOK' /\ BookTypeOK' /\ StudsTypeOK' /\ OnePicture'
<1> USE DEF Fail, input, told
<1>1. JobTypeOK'
  BY DEF JobTypeOK
<1>2. BookTypeOK'
  BY DEF BookTypeOK, Stages
<1>3. StudsTypeOK'
  BY DEF StudsTypeOK
<1>4. OnePicture'
  BY DEF OnePicture, BudgetKept
<1> QED BY <1>1, <1>2, <1>3, <1>4

\* Before the first page nothing is laid.
LEMMA InitStuds == Init => StudInv
<1> SUFFICES ASSUME Init PROVE StudInv
  OBVIOUS
<1>1. PICK w \in Widths, photo \in Photos, frame \in BOOLEAN, pct \in Percents, p \in Pictures :
        /\ job = [w |-> p.w, h |-> p.h, threeD |-> p.threeD, frame |-> frame, pct |-> pct]
        /\ picture = p /\ open = p.open
        /\ pc = IF p.threeD THEN "simplify" ELSE "preview"
  BY DEF Init
<1>2. /\ plates = NoPlates /\ preview = {} /\ stats = {} /\ laid = NoPlates /\ shown = {}
      /\ pc # "failed"
  BY <1>1 DEF Init
<1>3. JobInv /\ RunInv /\ IInv
  BY <1>2, InitRuns, RunHas DEF IInv
<1>4. JobTypeOK
  BY <1>1 DEF JobTypeOK
<1>5. OpenTypeOK
  BY <1>1, <1>3, PictureHas DEF OpenTypeOK
<1>6. BudgetKept
  BY <1>1 DEF BudgetKept
<1>7. PictureInv
  <2>1. Seen("bg") = {} /\ Seen("fg") = {}
    BY <1>2 DEF Seen
  <2>2. LaidInv
    BY <1>2, <2>1, SumEmpty DEF LaidInv, NoPlates
  <2>3. OpenInv /\ PlatesInv /\ PreviewInv /\ StatsInv
    BY <1>1, <1>2 DEF OpenInv, PlatesInv, PreviewInv, StatsInv
  <2> QED BY <2>2, <2>3 DEF PictureInv
<1> QED BY <1>2, <1>3, <1>4, <1>5, <1>6, <1>7, RunTypes, RunOnePicture DEF StudInv

-----------------------------------------------------------------------------
(* The theorems.                                                             *)

LEMMA Invariant == Spec => []IInv
<1>1. Init => IInv
  <2> SUFFICES ASSUME Init PROVE IInv
    OBVIOUS
  <2>1. JobInv /\ RunInv /\ pc # "failed"
    BY InitRuns DEF Init
  <2> QED BY <2>1, RunHas DEF IInv
<1>2. IInv /\ [Next]_vars => IInv'
  <2> SUFFICES ASSUME IInv, [Next]_vars PROVE IInv'
    OBVIOUS
  <2>1. JobInv /\ JobInv'
    BY JobStep DEF IInv
  <2>2. CASE UNCHANGED vars
    <3> USE <2>2 DEF vars
    <3>1. RunInv' <=> RunInv
      BY DEF RunInv, AtInv, OrderInv, CountInv, BoardCountInv, FrameCountInv, BlocksSetUp,
             GreenSeams, RedSeams, SetUp, Hooks, Framed, UnitInv, Perimeter, PageInv,
             ShownInv, BgShown, FgShown, Behind, IsEmpty
    <3>2. KitFitsBook' /\ FrameFits' /\ BookIsWhole'
      BY DEF IInv, KitFitsBook, LegendIsArt, Fits, FrameFits, DotsMatchUnits, KitClosesRing,
             JoinsAreInKit, TopLayer, BookIsWhole, IsEmpty
    <3> QED BY <2>1, <3>1, <3>2 DEF IInv
  <2>3. CASE Next /\ pc = "failed"
    \* a failed job makes no step
    BY <2>3 DEF Next, SimplifyBackground, NoBackground, WritePreview, GenerateOrderList,
                WriteStats, TitlePage, BaseplateSetup, BackgroundColumn, ForegroundColumn,
                GridSetup, AssembleLongEdge, PlaceLongEdge, AssembleCorner, PlaceCorner,
                AssembleSeam, PlaceSeam, FinishFrame, HookAssembly, BackHook, FinalView,
                MakePdf, DiskFull
  <2>4. CASE Next /\ pc # "failed" /\ pc' # "failed"
    <3>1. RunInv'
      BY <2>1, <2>4, RunStep DEF IInv
    <3>2. KitFitsBook' /\ FrameFits' /\ BookIsWhole'
      <4>1. (JobInv /\ RunInv /\ pc # "failed" => KitFitsBook /\ FrameFits /\ BookIsWhole)'
        BY RunHas, PTL
      <4> QED BY <2>1, <2>4, <3>1, <4>1
    <3> QED BY <2>1, <3>1, <3>2 DEF IInv
  <2>5. CASE Next /\ pc # "failed" /\ pc' = "failed"
    <3>1. PICK r \in {"no background", "disk"} : Fail(r)
      BY <2>1, <2>5, OnlyFails DEF IInv
    <3> QED BY <2>1, <2>5, <3>1, FailKeeps DEF IInv
  <2> QED BY <2>2, <2>3, <2>4, <2>5
<1> QED
  BY <1>1, <1>2, PTL DEF Spec

\* Every page and every file keeps the studs.
LEMMA StudsInvariant == Spec => []StudInv
<1>1. StudInv /\ IInv' /\ [Next]_vars => StudInv'
  <2> SUFFICES ASSUME StudInv, IInv', [Next]_vars PROVE StudInv'
    OBVIOUS
  <2>1. JobInv /\ JobInv' /\ job' = job /\ picture' = picture
    BY JobStep DEF StudInv, IInv
  <2>2. JobTypeOK'
    BY <2>1 DEF StudInv, JobTypeOK
  <2>3. CASE UNCHANGED vars
    <3> USE <2>3 DEF vars
    <3>1. BookTypeOK' /\ StudsTypeOK'
      BY DEF StudInv, BookTypeOK, StudsTypeOK
    <3>2. OnePicture'
      BY DEF StudInv, OnePicture, BudgetKept, Budget, ColoursOf, Count
    <3>3. PictureInv => PictureInv'
      BY DEF PictureInv, OpenInv, PlatesInv, LaidInv, PreviewInv, StatsInv, Whole, BgOf, FgOf,
             Seen, Cells, Count, NoPlates
    <3> QED BY <2>2, <3>1, <3>2, <3>3 DEF StudInv
  <2>4. CASE Next /\ pc = "failed"
    \* a failed job makes no step
    BY <2>4 DEF Next, SimplifyBackground, NoBackground, WritePreview, GenerateOrderList,
                WriteStats, TitlePage, BaseplateSetup, BackgroundColumn, ForegroundColumn,
                GridSetup, AssembleLongEdge, PlaceLongEdge, AssembleCorner, PlaceCorner,
                AssembleSeam, PlaceSeam, FinishFrame, HookAssembly, BackHook, FinalView,
                MakePdf, DiskFull
  <2>5. CASE Next /\ pc # "failed" /\ pc' # "failed"
    <3>1. /\ JobTypeOK /\ RunInv /\ PictureInv /\ OpenTypeOK /\ BudgetKept
          /\ order \in [Pieces -> Nat]
      BY <2>5 DEF StudInv, IInv, OnePicture, StudsTypeOK, OpenTypeOK, Cells, BookTypeOK
    <3>2. OpenTypeOK' /\ BudgetKept' /\ OpenInv'
      BY <2>1, <2>5, <3>1, OpenStep DEF PictureInv
    <3>3. PlatesInv' /\ PreviewInv' /\ StatsInv'
      BY <2>1, <2>5, <3>1, ResultsStep DEF PictureInv
    <3>4. LaidInv'
      BY <2>1, <2>5, <3>1, LaidStep DEF PictureInv, RunInv
    <3>5. PictureInv'
      BY <3>2, <3>3, <3>4 DEF PictureInv
    <3>6. RunInv'
      BY <2>5 DEF IInv
    <3>7. BookTypeOK' /\ StudsTypeOK'
      <4>1. (JobInv /\ JobTypeOK /\ RunInv /\ OpenTypeOK /\ PictureInv /\ pc # "failed"
               => BookTypeOK /\ StudsTypeOK)'
        BY RunTypes, PTL
      <4> QED BY <2>1, <2>2, <2>5, <3>2, <3>5, <3>6, <4>1
    <3>8. OnePicture'
      <4>1. (JobInv /\ RunInv /\ OpenTypeOK /\ BudgetKept /\ PictureInv /\ pc # "failed"
               => OnePicture)'
        BY RunOnePicture, PTL
      <4> QED BY <2>1, <2>5, <3>2, <3>5, <3>6, <4>1
    <3> QED BY <2>2, <3>5, <3>7, <3>8 DEF StudInv
  <2>6. CASE Next /\ pc # "failed" /\ pc' = "failed"
    <3>1. PICK r \in {"no background", "disk"} : Fail(r)
      BY <2>1, <2>6, OnlyFails DEF StudInv, IInv
    <3>2. JobTypeOK' /\ BookTypeOK' /\ StudsTypeOK' /\ OnePicture'
      BY <2>1, <3>1, FailForgets DEF StudInv
    <3> QED BY <2>6, <3>2 DEF StudInv
  <2> QED BY <2>3, <2>4, <2>5, <2>6
<1> QED BY <1>1, InitStuds, Invariant, PTL DEF Spec

\* For mosaics of every size and every picture, no legend, xN or dot of the booklet asks
\* for a piece the kit has no more of, and the finished one leaves none over but the
\* 16x1 bricks whose dots fall off the page (MosiacToOrder.py:108 and :135 against
\* VisualMaker.py's pages).  The grid page names no connector the kit lacks, if the
\* mosaic is more than one baseplate wide and high (VisualMaker.py:1886-1890).
THEOREM BookUsesKit == Spec => []KitFitsBook
  BY Invariant, PTL DEF IInv

\* For mosaics up to nine baseplates across and seven down the frame's units are as
\* many as their dots, which go all around; for larger ones the pages show of the dots
\* what fits on the paper (VisualMaker.py:2294, :2310-2313 and :2716; PageLimits has the
\* limits).  For every size the frame's kit closes the ring, its top layer with corners
\* of three studs.
THEOREM FrameGoesAround == Spec => []FrameFits
  BY Invariant, PTL DEF IInv

\* For every size and picture, and wherever pages are skipped, the finished booklet
\* shows every column and misses no page number (MosiacToInstruction.py:50, :166).
THEOREM BookMissesNothing == Spec => []BookIsWhole
  BY Invariant, PTL DEF IInv

\* For every picture, size and slider: every value has its type, and repainting the
\* background neither makes nor loses a stud of any column (picToMosiac.py:78).
THEOREM BookTypes == Spec => []TypeOK
<1>1. StudInv => TypeOK
  BY DEF StudInv, TypeOK
<1> QED BY <1>1, StudsInvariant, PTL

\* For every picture, size and slider: preview, order list, stats and the pages of the
\* booklet have the same studs of each colour, and so many of the background's colours
\* are kept as the slider says (picToMosiac.py:116, :360, :391, :395, :399).
THEOREM PictureIsOne == Spec => []OnePicture
<1>1. StudInv => OnePicture
  BY DEF StudInv
<1> QED BY <1>1, StudsInvariant, PTL
=============================================================================
