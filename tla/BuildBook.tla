------------------------------ MODULE BuildBook ------------------------------
(***************************************************************************)
(* What the worker makes of a picture once its pixels are palette indices: *)
(* pic_to_mosaic (scripts/picToMosiac.py) simplifies the background, writes*)
(* the preview, the order list (scripts/MosiacToOrder.py) and the stats,   *)
(* and has GenerateInstructions (scripts/MosiacToInstruction.py) draw the  *)
(* booklet page by page with scripts/VisualMaker.py.                       *)
(*                                                                         *)
(* The kit is counted from formulas, the booklet from what each page shows,*)
(* and no code compares the two.  Here a reader follows the pages: `used`, *)
(* `laid`, `shown`, `built`, `placed`, `joined` and `hung` are what the    *)
(* booklet has told so far, and are not in the program.                    *)
(*                                                                         *)
(* A page shows a column of studs <<x, row of blocks>>, 16 high, of which  *)
(* only how many studs of which colour matters, not their order.           *)
(***************************************************************************)
EXTENDS KitList, FrameGrid, FiniteSets, Functions

CONSTANTS
  Palette,   \* colours of 1x1 plates
  Widths,    \* blocks across, 1 .. MAX_BLOCK_WIDTH
  Photos,    \* <<width, height>> of uploaded photos, in pixels
  Pictures,  \* pictures as image_to_lego_mosaic leaves them
  Percents,  \* background_color_percent, 0 .. 100
  Faults     \* which of "preview", "stats", "disk" may fail

Total(f) == FoldFunction(+, 0, f)

Columns(w, h) == (0 .. STUDS_PER_BLOCK * w - 1) \X (0 .. h - 1)

\* Of a picture's background studs those outside the silhouette are open and
\* those under it hidden; fg are the foreground's that hide them.  Without a
\* silhouette (2D) all are open.
ASSUME PicturesAssumption ==
  \A p \in Pictures :
    /\ p.w \in Nat \ {0} /\ p.h \in Nat \ {0} /\ p.threeD \in BOOLEAN
    /\ \A l \in {"open", "hidden", "fg"} :
         p[l] \in [Columns(p.w, p.h) -> [Palette -> 0 .. STUDS_PER_BLOCK]]
    /\ \A x \in Columns(p.w, p.h) :
         Total([c \in Palette |-> p.open[x][c] + p.hidden[x][c]]) = STUDS_PER_BLOCK
    /\ ~ p.threeD => \A x \in Columns(p.w, p.h), c \in Palette :
                       p.hidden[x][c] = 0 /\ p.fg[x][c] = 0
ASSUME SizesAssumption    == /\ Widths \subseteq Nat \ {0}
                             /\ Photos \subseteq (Nat \ {0}) \X (Nat \ {0})
ASSUME PercentsAssumption == IsFiniteSet(Palette) /\ Percents \subseteq 0 .. 100

FrameUnits == {"long_edge", "corner", "seam"}

VARIABLES
  job,      \* its settings: [w, h, threeD, frame, pct]
  picture,  \* the picture before the background is simplified
  open,     \* its open studs, which the simplification repaints
  order,    \* GenerateOrderList's dict: the pieces of the kit
  plates,   \*   and the 1x1 plates by colour
  preview,  \* preview.json: {} or what it says
  stats,    \* stats.json: {} or what it says
  used,     \* pieces the pages have had the reader use
  laid,     \* plates the pages have had him lay
  shown,    \* columns shown
  built,    \* units of the frame he was told to build
  placed,   \* dots on paper at which he was told to place them
  joined,   \* colours of the connectors he was told to join baseplates by
  hung,     \* spots of the hooks
  step,     \* number of the next page
  pngs,     \* numbers of the pages on disk
  pdf,      \* numbers of the pages of instructions.pdf
  pc,       \* what comes next
  at,       \* block and column of the loops
  why       \* why the job failed

vars == <<job, picture, open, order, plates, preview, stats, used, laid, shown, built,
          placed, joined, hung, step, pngs, pdf, pc, at, why>>

input   == <<job, picture>>
results == <<order, plates, preview, stats>>
told    == <<used, laid, shown, built, placed, joined, hung>>
paper   == <<step, pngs, pdf>>

-----------------------------------------------------------------------------
(* image_to_lego_mosaic: the size of the mosaic.                             *)

\* Python's round: a half goes to the even neighbour.
Rounded(n, d) ==
  LET q == n \div d
      r == n % d
  IN IF 2 * r > d \/ (2 * r = d /\ q % 2 = 1) THEN q + 1 ELSE q

BlocksHigh(w, photo) ==
  LET high == Rounded(w * photo[2], photo[1])
  IN IF high < 1 THEN 1 ELSE high

-----------------------------------------------------------------------------
(* Counting studs.                                                           *)

Count(layer, c) == Total([x \in DOMAIN layer |-> layer[x][c]])
IsEmpty(studs)  == \A c \in Palette : studs[c] = 0
ColoursOf(layer) == {c \in Palette : \E x \in DOMAIN layer : layer[x][c] > 0}

NoPlates == [c \in Palette |-> 0]

Init ==
  \E w \in Widths, photo \in Photos, frame \in BOOLEAN, pct \in Percents :
    \E p \in {q \in Pictures : q.w = w /\ q.h = BlocksHigh(w, photo)} :
      /\ job = [w |-> w, h |-> p.h, threeD |-> p.threeD, frame |-> frame, pct |-> pct]
      /\ picture = p /\ open = p.open
      /\ order = NoPieces /\ plates = NoPlates
      /\ preview = {} /\ stats = {}
      /\ used = NoPieces /\ laid = NoPlates /\ shown = {}
      /\ built = [u \in FrameUnits |-> 0] /\ placed = [u \in FrameUnits |-> {}]
      /\ joined = {} /\ hung = {}
      /\ step = 0 /\ pngs = {} /\ pdf = {}
      /\ pc = IF p.threeD THEN "simplify" ELSE "preview"
      /\ at = [w |-> 0, h |-> 0, col |-> 0]
      /\ why = ""

\* give_exception_message raises again, the worker fails the job and removes
\* the workspace with all that was written.
Fail(reason) ==
  /\ pc' = "failed" /\ why' = reason
  /\ preview' = {} /\ stats' = {} /\ pngs' = {} /\ pdf' = {}
  /\ UNCHANGED <<input, open, order, plates, told, step, at>>

-----------------------------------------------------------------------------
(* picToMosiac.py: simplify_background_lego.                                 *)

\* background_color_budget
Budget(colours) ==
  LET kept == (job.pct * Cardinality(colours)) \div 100
  IN IF kept < 1 THEN 1 ELSE kept

\* The k colours with most open studs.  Ties are broken at random here.
TopColours(k) ==
  {top \in SUBSET ColoursOf(open) :
     /\ Cardinality(top) = IF k < Cardinality(ColoursOf(open))
                           THEN k ELSE Cardinality(ColoursOf(open))
     /\ \A c \in top, d \in ColoursOf(open) \ top : Count(open, c) >= Count(open, d)}

\* A colour becomes the nearest of the top ones, and is itself the nearest if it
\* is one of them; which one is nearest is left open.
Remaps(top) ==
  {remap \in [ColoursOf(open) -> top] : \A c \in top : remap[c] = c}

\* Mutant: a colour that goes leaves no stud behind.
RepaintedOnlyTop(layer, remap) ==
  [x \in DOMAIN layer |->
     [c \in Palette |-> IF c \in DOMAIN remap /\ remap[c] = c THEN layer[x][c] ELSE 0]]
Repainted(layer, remap) ==
  [x \in DOMAIN layer |->
     [c \in Palette |-> Total([d \in {e \in DOMAIN remap : remap[e] = c} |-> layer[x][d]])]]

\* Only open studs are looked at and repainted: what is hidden keeps its colour.
SimplifyBackground ==
  /\ pc = "simplify" /\ ColoursOf(open) # {}
  /\ \E top \in TopColours(Budget(ColoursOf(open))) :
       \E remap \in Remaps(top) : open' = Repainted(open, remap)
  /\ pc' = "preview"
  /\ UNCHANGED <<input, results, told, paper, at, why>>

\* A silhouette that covers the whole picture: "No valid background pixels".
NoBackground ==
  /\ pc = "simplify" /\ ColoursOf(open) = {}
  /\ Fail("no background")

-----------------------------------------------------------------------------
(* preview_builder.py, MosiacToOrder.py: the files beside the booklet.       *)

\* build_preview_payload: the grids, of which the counts are kept here, and the
\* palette without the frame's slot.
PreviewPayload ==
  [bg |-> [c \in Palette |-> Count(open, c) + Count(picture.hidden, c)],
   fg |-> [c \in Palette |-> IF job.threeD THEN Count(picture.fg, c) ELSE 0],
   palette |-> ColoursOf(open) \cup ColoursOf(picture.hidden) \cup ColoursOf(picture.fg)]

WritePreview ==
  /\ pc = "preview"
  /\ \/ preview' = {PreviewPayload}
     \/ "preview" \in Faults /\ preview' = {}     \* non-fatal
  /\ pc' = "order"
  /\ UNCHANGED <<input, open, order, plates, stats, told, paper, at, why>>

\* Mutant: the background is counted before it is simplified.
GenerateOrderListStale ==
  /\ pc = "order"
  /\ order' = KitFor(job.w, job.h, job.frame)
  /\ plates' = [c \in Palette |-> Count(picture.open, c) + Count(picture.hidden, c)
                                   + (IF job.threeD THEN Count(picture.fg, c) ELSE 0)]
  /\ pc' = "stats"
  /\ UNCHANGED <<input, open, preview, stats, told, paper, at, why>>
GenerateOrderList ==
  /\ pc = "order"
  /\ order' = KitFor(job.w, job.h, job.frame)
  /\ plates' = [c \in Palette |-> Count(open, c) + Count(picture.hidden, c)
                                   + (IF job.threeD THEN Count(picture.fg, c) ELSE 0)]
  /\ pc' = "stats"
  /\ UNCHANGED <<input, open, preview, stats, told, paper, at, why>>

\* BuildStatsPayload
StatsPayload ==
  [pieces |-> {p \in Pieces : order[p] > 0},
   plates |-> {c \in Palette : plates[c] > 0},
   total  |-> Total(order) + Total(plates)]

WriteStats ==
  /\ pc = "stats"
  /\ \/ stats' = {StatsPayload}
     \/ "stats" \in Faults /\ stats' = {}         \* non-fatal
  /\ pc' = "title"
  /\ UNCHANGED <<input, open, order, plates, preview, told, paper, at, why>>

-----------------------------------------------------------------------------
(* MosiacToInstruction.py: GenerateInstructions.                             *)

\* save_img_and_increment_step, n times
Draw(n) ==
  /\ step' = step + n
  /\ pngs' = pngs \cup (step .. step + n - 1)
  /\ UNCHANGED <<input, open, results, pdf, why>>

TitlePage ==
  /\ pc = "title"
  /\ Draw(1)
  /\ pc' = "setup"
  /\ UNCHANGED <<told, at>>

\* generate_baseplate_setup: the bare baseplate, its neighbours, its upper side.
BaseplateSetup ==
  /\ pc = "setup"
  /\ Draw(3)
  /\ used' = Plus(used, SetupParts(CaseOf(at.h, job.h, at.w, job.w)))
  /\ pc' = "background"
  /\ UNCHANGED <<laid, shown, built, placed, joined, hung, at>>

LastColumn == at.col = STUDS_PER_BLOCK - 1
NextColumn == ~ LastColumn /\ at' = [at EXCEPT !.col = @ + 1] /\ pc' = pc

\* The loops run down a column of blocks, then to the next one.
NextBlock ==
  /\ LastColumn
  /\ \/ /\ at.h < job.h - 1
        /\ at' = [w |-> at.w, h |-> at.h + 1, col |-> 0] /\ pc' = "setup"
     \/ /\ at.h = job.h - 1 /\ at.w < job.w - 1
        /\ at' = [w |-> at.w + 1, h |-> 0, col |-> 0] /\ pc' = "setup"
     \/ /\ at.h = job.h - 1 /\ at.w = job.w - 1
        /\ at' = [w |-> job.w, h |-> 0, col |-> 0] /\ pc' = "grid"

Column == <<STUDS_PER_BLOCK * at.w + at.col, at.h>>

ShowColumn(layer, studs) ==
  /\ Draw(1)
  /\ shown' = shown \cup {<<layer, Column>>}
  /\ laid' = [c \in Palette |-> laid[c] + studs[c]]

BackgroundColumn ==
  /\ pc = "background"
  /\ ShowColumn("bg", [c \in Palette |-> open[Column][c] + picture.hidden[Column][c]])
  /\ \/ NextColumn
     \/ job.threeD /\ LastColumn /\ at' = [at EXCEPT !.col = 0] /\ pc' = "foreground"
     \/ ~ job.threeD /\ NextBlock
  /\ UNCHANGED <<used, built, placed, joined, hung>>

\* Mutant: the number is taken though no page is saved.
SkipColumnCounted ==
  /\ IsEmpty(picture.fg[Column])
  /\ step' = step + 1
  /\ UNCHANGED <<input, open, results, shown, laid, pngs, pdf, why>>
\* A column all transparent has no page.
SkipColumn ==
  /\ IsEmpty(picture.fg[Column])
  /\ UNCHANGED <<input, open, results, shown, laid, paper, why>>

ForegroundColumn ==
  /\ pc = "foreground"
  /\ \/ SkipColumn
     \/ ~ IsEmpty(picture.fg[Column]) /\ ShowColumn("fg", picture.fg[Column])
  /\ NextColumn \/ NextBlock
  /\ UNCHANGED <<used, built, placed, joined, hung>>

\* draw_grid_setup_instruction takes the size of its own page for that of the mosaic:
\* columns are always joined by red connectors, and to a grid by green ones.
GridSetup ==
  /\ pc = "grid"
  /\ Draw(1)
  /\ joined' = (IF PAGE_HEIGHT \div STUDS_PER_BLOCK > 1 THEN {"red"} ELSE {})
                \cup (IF PAGE_WIDTH \div STUDS_PER_BLOCK > 1 THEN {"green"} ELSE {})
  /\ pc' = IF job.frame THEN "long_edge" ELSE "hooks"
  /\ UNCHANGED <<used, laid, shown, built, placed, hung, at>>

-----------------------------------------------------------------------------
(* VisualMaker.py: draw_frame_instructions.                                  *)

Perimeter == job.w * 2 + job.h * 2

\* The pages that build one unit, the last of them with its "xN".
Assemble(unit, pages, parts, n) ==
  /\ Draw(pages)
  /\ used' = Plus(used, Times(n, parts))
  /\ built' = [built EXCEPT ![unit] = n]
  /\ UNCHANGED <<laid, shown, placed, joined, hung, at>>

\* The page with a dot for each unit, as far as the grid fits on it.
Place(unit, dots) ==
  /\ Draw(1)
  /\ placed' = [placed EXCEPT ![unit] = OnPaper(dots, job.w)]
  /\ UNCHANGED <<used, laid, shown, built, joined, hung, at>>

AssembleLongEdge ==
  /\ pc = "long_edge"
  /\ Assemble("long_edge", 3, LongEdgeParts, Perimeter)
  /\ pc' = "place_long_edge"

PlaceLongEdge ==
  pc = "place_long_edge" /\ Place("long_edge", EdgeDots(job.w, job.h)) /\ pc' = "corner"

AssembleCorner ==
  pc = "corner" /\ Assemble("corner", 3, CornerParts, 4) /\ pc' = "place_corner"

PlaceCorner ==
  /\ pc = "place_corner"
  /\ Place("corner", CornerDots(job.w, job.h))
  /\ pc' = IF Perimeter - 4 # 0 THEN "seam" ELSE "finish"

AssembleSeam ==
  pc = "seam" /\ Assemble("seam", 2, SeamParts, Perimeter - 4) /\ pc' = "place_seam"

PlaceSeam ==
  pc = "place_seam" /\ Place("seam", SeamDots(job.w, job.h)) /\ pc' = "finish"

\* What the three closing pages have the reader use: a pin for each arrow, a
\* 16x1 brick for each green dot on the paper, a thin corner plate for each corner,
\* and "all flat plates".
ClosingParts(w, h, kit) ==
  [axle_peg    |-> Cardinality(PinMap(w, h)),
   brick_16x1  |-> Cardinality(OnPaper(EdgeDots(w, h), w)),
   thin_corner |-> Cardinality(CornerDots(w, h)),
   flat_1x4    |-> kit["flat_1x4"]]

FinishFrame ==
  /\ pc = "finish"
  /\ Draw(3)
  /\ used' = Plus(used, Bag(ClosingParts(job.w, job.h, order)))
  /\ pc' = "hooks"
  /\ UNCHANGED <<laid, shown, built, placed, joined, hung, at>>

-----------------------------------------------------------------------------
(* VisualMaker.py, MosiacToInstruction.py: the last pages and the PDF.       *)

\* draw_hook_assembly_instruction
HookAssembly ==
  /\ pc = "hooks"
  /\ Draw(1)
  /\ used' = Plus(used, Times(NailHooks(job.w, job.h), HookParts))
  /\ pc' = "backhook"
  /\ UNCHANGED <<laid, shown, built, placed, joined, hung, at>>

\* draw_backhook_instruction
BackHook ==
  /\ pc = "backhook"
  /\ Draw(1)
  /\ hung' = HookSpots(job.w, NailHooks(job.w, job.h))
  /\ pc' = "final"
  /\ UNCHANGED <<used, laid, shown, built, placed, joined, at>>

FinalView ==
  /\ pc = "final"
  /\ Draw(1)
  /\ pc' = "pdf"
  /\ UNCHANGED <<told, at>>

\* _validate_sequence
InSequence(numbers) == \E a, b \in numbers : numbers = a .. b

\* images_to_pdf, then the pages are deleted.
MakePdf ==
  /\ pc = "pdf"
  /\ \/ /\ InSequence(pngs)
        /\ pdf' = pngs /\ pngs' = {} /\ pc' = "done"
        /\ UNCHANGED <<input, open, results, told, step, at, why>>
     \/ ~ InSequence(pngs) /\ Fail("misnumbered")

\* Any write but the two non-fatal ones may find the disk full.
DiskFull ==
  /\ "disk" \in Faults
  /\ pc \notin {"simplify", "preview", "stats", "done", "failed"}
  /\ Fail("disk")

Next ==
  \/ SimplifyBackground \/ NoBackground \/ WritePreview \/ GenerateOrderList \/ WriteStats
  \/ TitlePage \/ BaseplateSetup \/ BackgroundColumn \/ ForegroundColumn \/ GridSetup
  \/ AssembleLongEdge \/ PlaceLongEdge \/ AssembleCorner \/ PlaceCorner
  \/ AssembleSeam \/ PlaceSeam \/ FinishFrame
  \/ HookAssembly \/ BackHook \/ FinalView \/ MakePdf \/ DiskFull

Spec == Init /\ [][Next]_vars

-----------------------------------------------------------------------------
(* Properties.                                                               *)

Stages == {"simplify", "preview", "order", "stats", "title", "setup", "background",
           "foreground", "grid", "long_edge", "place_long_edge", "corner",
           "place_corner", "seam", "place_seam", "finish", "hooks", "backhook",
           "final", "pdf", "done", "failed"}

JobTypeOK ==
  /\ picture \in Pictures
  /\ job = [w |-> picture.w, h |-> picture.h, threeD |-> picture.threeD,
            frame |-> job.frame, pct |-> job.pct]
  /\ job.frame \in BOOLEAN /\ job.pct \in Percents

BookTypeOK ==
  /\ order \in [Pieces -> Nat] /\ used \in [Pieces -> Nat]
  /\ built \in [FrameUnits -> Nat]
  /\ DOMAIN placed = FrameUnits /\ joined \subseteq {"red", "green"}
  /\ step \in Nat /\ pngs \subseteq Nat /\ pdf \subseteq Nat
  /\ pc \in Stages
  /\ at \in [w : 0 .. job.w, h : 0 .. job.h - 1, col : 0 .. STUDS_PER_BLOCK - 1]
  /\ why \in {"", "no background", "misnumbered", "disk"}

\* Repainting the background makes no stud and loses none.
StudsTypeOK ==
  /\ plates \in [Palette -> Nat] /\ laid \in [Palette -> Nat]
  /\ DOMAIN open = Columns(job.w, job.h)
  /\ \A x \in DOMAIN open :
       /\ open[x] \in [Palette -> 0 .. STUDS_PER_BLOCK]
       /\ Total(open[x]) = Total(picture.open[x])

\* Types, and the studs of each column of the picture (simplify_background_lego,
\* picToMosiac.py:78).
TypeOK == JobTypeOK /\ BookTypeOK /\ StudsTypeOK

\* A page's legend and its drawing show the same: the holes filled with
\* connectors, the plates (VisualMaker.py:413 and :978).
LegendIsArt ==
  \A case \in 0 .. 3 :
    LET legend == Bag(StepBParts(case))
    IN /\ legend["plate_2x2"]   = Cardinality(BottomArt(case).two_by_twos)
       /\ legend["green_plate"] = Cardinality(BottomArt(case).green_plates)
       /\ legend["green_conn"]  = Cardinality(BottomArt(case).green_sockets)
       /\ legend["red_plate"]   = Cardinality(BottomArt(case).red_plates)
       /\ legend["red_conn"]    = Cardinality(BottomArt(case).red_sockets)

\* The grid page has no legend: it tells of all connectors the kit has.  Of a mosaic one
\* wide or one high it tells of some the kit has none of (VisualMaker.py:1886-1890);
\* of others it does not.
JoinsAreInKit ==
  LET has == {c \in {"red", "green"} :
                order[IF c = "red" THEN "red_conn" ELSE "green_conn"] > 0}
  IN /\ pc = "done" => has \subseteq joined
     /\ job.w > 1 /\ job.h > 1 => joined \subseteq has

\* No legend, xN or dot asks for a piece the kit has no more of, and at the end none is
\* left over, for any size, with and without a frame: the formulas of
\* MosiacToOrder.py:108 and :135 and the pages of VisualMaker.py are counted by
\* hand in two places ("keep the two in sync", VisualMaker.py:2895).  Of 16x1 bricks
\* some are left where their dots fall off the page.
KitFitsBook ==
  /\ LegendIsArt
  /\ JoinsAreInKit
  /\ Fits(used, order)
  /\ hung # {} => Cardinality(hung) = order["hook"]
  /\ pc = "done" => \A p \in Pieces :
       used[p] = order[p] \/ (p = "brick_16x1" /\ ~ GridFitsPage(job.w, job.h))

\* A unit of the frame has one dot, and no dot is two units'; on a grid larger than the
\* page some have none.
DotsMatchUnits ==
  /\ \A u \in FrameUnits : placed[u] # {} =>
       \/ Cardinality(placed[u]) = built[u]
       \/ Cardinality(placed[u]) < built[u] /\ ~ GridFitsPage(job.w, job.h)
  /\ \A u, v \in FrameUnits : u # v => placed[u] \cap placed[v] = {}

\* The studs along the four sides of the frame, one stud wider than the mosaic
\* all around, those of the corners counted on both sides.
Ring(w, h) == 2 * (STUDS_PER_BLOCK * w + 2) + 2 * (STUDS_PER_BLOCK * h + 2)

\* The studs a kit's flat plates cover with its thin corner plates, whose two arms
\* are `arm` long: _finish_frame draws them 3x3, piece_specs.py:86 has 2x2.
TopLayer(arm) == 4 * order["flat_1x4"] + 2 * arm * order["thin_corner"]

\* The kit's plates fill the ring two studs wide around the mosaic's edge; its
\* bricks fill a row all around, and with the 16x1 bricks another one.  The top layer
\* is whole with corners as drawn; with those of piece_specs.py eight studs stay open.
KitClosesRing ==
  LET W == STUDS_PER_BLOCK * job.w
      H == STUDS_PER_BLOCK * job.h
      R == Ring(job.w, job.h)
  IN /\ 12 * order["corner_plate"] + 20 * order["plate_10x2"] + 12 * order["plate_6x2"]
           = (W + 2) * (H + 2) - (W - 2) * (H - 2)
     /\ 4 * order["corner_brick"] + 8 * order["brick_8x1"] + 2 * order["axle_brick"]
           + 4 * order["brick_4x1"] + 2 * 4 = R
     /\ 16 * order["brick_16x1"] + 2 * (order["brick_1x1"] - 2 * 4) = R
     /\ TopLayer(3) = R /\ TopLayer(2) = R - 8

\* The frame the booklet builds goes all around the mosaic, up to nine baseplates across
\* and seven down: every corner, edge and seam has its unit (_compute_frame_grid,
\* VisualMaker.py:2294, with its special cases for one-wide and one-high mosaics,
\* against the xN of draw_frame_instructions, :2716).  Of larger ones the pages show as
\* much as fits, and the rest of the units has no place (:2310-2313).
FrameFits ==
  /\ DotsMatchUnits
  /\ pc = "done" /\ job.frame =>
       /\ LET dots == UNION {placed[u] : u \in FrameUnits}
              all  == BorderDots(job.w, job.h)
          IN dots = OnPaper(all, job.w) /\ (GridFitsPage(job.w, job.h) => dots = all)
       /\ KitClosesRing

\* The booklet always becomes a PDF that starts with the title and skips no page
\* number, though a foreground column may have no page (MosiacToInstruction.py:50,
\* :166), and shows every column of studs; of its pages none stays behind.
BookIsWhole ==
  /\ why # "misnumbered"
  /\ pc = "done" =>
       /\ pdf = 0 .. step - 1 /\ pngs = {}
       /\ shown = {<<"bg", x>> : x \in Columns(job.w, job.h)}
                  \cup {<<"fg", x>> : x \in {y \in Columns(job.w, job.h) :
                                             ~ IsEmpty(picture.fg[y])}}

\* The slider keeps so many of the background's colours (D-001, picToMosiac.py:116).
BudgetKept ==
  job.threeD /\ pc \notin {"simplify", "failed"} =>
    Cardinality(ColoursOf(open)) = Budget(ColoursOf(picture.open))

\* The preview, the kit, the stats and the booklet are of one picture, the
\* simplified one: they have the same studs of each colour (picToMosiac.py:360,
\* :391, :395, :399).
OnePicture ==
  /\ BudgetKept
  /\ \A seen \in preview : pc \notin {"order"} =>
       /\ \A c \in Palette : seen.bg[c] + seen.fg[c] = plates[c]
       /\ seen.palette = {c \in Palette : plates[c] > 0}
  /\ \A s \in stats : s.total = Total(order) + STUDS_PER_BLOCK * Cardinality(DOMAIN open)
                                 + Total([c \in Palette |-> Count(picture.fg, c)])
  /\ \A c \in Palette : laid[c] <= plates[c]
  /\ pc = "done" => laid = plates
=============================================================================
