---------------------------- MODULE CheckoutQuote ----------------------------
(***************************************************************************)
(* From a mosaic's piece counts to a quote the customer may confirm:       *)
(*   - the order list is written in files of at most MaxPerItem of a piece *)
(*     (SaveDictAsJsonsOptimized in scripts/Util.py), of which the worker  *)
(*     keeps one (scripts/worker.py);                                      *)
(*   - POST /checkout/quote (scripts/checkout/router.py) reads it, fetches *)
(*     and merges listings and runs the two passes of                      *)
(*     scripts/checkout/optimizer.py;                                      *)
(*   - POST /checkout/confirm lets a quote through or refuses it.          *)
(*                                                                         *)
(* The optimizer is a pure function.  Here each turn of its loops is a     *)
(* step, so that what holds between the turns can be stated and proved.    *)
(***************************************************************************)
EXTENDS Integers, FiniteSets, SequencesExt

CONSTANTS
  Elements,     \* element ids
  Sellers,      \* seller ids
  Lego,         \* lego_official
  Orders,       \* piece counts of the mosaics considered
  LegoOffers,   \* LEGO.com's listings of one element: none or one lot
  ShopOffers,   \* BrickOwl's listings of one element, in the order of its answer
  MaxPerItem,   \* max_per_item, 999
  FreeFrom,     \* LEGO_FREE_SHIPPING_THRESHOLD_CENTS
  FeeMin,       \* LAIGO_FEE_MIN_CENTS
  FeePercent    \* LAIGO_FEE_PERCENT

Lot == [seller : Sellers, price : Nat, qty : Nat, shipping : Nat]

\* A mosaic has baseplates and the palette is finite: there is a largest count.
ASSUME OrdersAssumption ==
  \A o \in Orders : /\ o \in [Elements -> Nat]
                    /\ \E n \in Range(o) : n > 0 /\ \A m \in Range(o) : m <= n
ASSUME OffersAssumption ==
  LegoOffers \subseteq Seq(Lot) /\ ShopOffers \subseteq Seq(Lot)
ASSUME SellersAssumption ==
  Lego \in Sellers /\ IsFiniteSet(Sellers) /\ IsFiniteSet(Elements)
ASSUME PricesAssumption ==
  MaxPerItem \in Nat \ {0} /\ FreeFrom \in Nat /\ FeeMin \in Nat /\ FeePercent \in Nat

Smaller(m, n) == IF m < n THEN m ELSE n
Larger(m, n)  == IF m < n THEN n ELSE m
Total(f)      == FoldFunction(+, 0, f)

Nothing  == [e \in Elements |-> 0]
NoBook   == [e \in Elements |-> <<>>]
NoPrice  == [pieces |-> 0, shipping |-> 0, charge |-> 0]

VARIABLES
  order,      \* the mosaic's piece counts (stats.json has them too)
  files,      \* order_list.json, order_list_1.json, ... in the workspace
  items,      \* outputs/{job}/order_list.json
  book,       \* the merged listings
  at,         \* where the program stands
  todo,       \* pass 1: elements not yet dealt with
  item, needed, lots,  \* pass 1: the element in hand, what it lacks, lots left
  preferred,  \* pass 1: the sellers chosen when that element's lots were sorted
  alloc,      \* allocation[seller][element]
  chosen,     \* the keys of allocation, in the order of the dict
  cost,       \* seller_piece_cost
  shipping,   \* shipping_cost_cents of seller_meta
  fallback,   \* lego_fallback_items
  quote       \* the sums of AllocationResult

listing == <<todo, item, needed, lots, preferred>>
sums    == <<alloc, chosen, cost, shipping>>
vars    == <<order, files, items, book, at, listing, sums, fallback, quote>>

Init ==
  /\ order \in Orders
  /\ files = <<>> /\ items = Nothing /\ book = NoBook
  /\ at = "mosaic"
  /\ todo = {} /\ item = (CHOOSE e \in Elements : TRUE) /\ needed = 0 /\ lots = {} /\ preferred = {}
  /\ alloc = [s \in Sellers |-> Nothing]
  /\ chosen = <<>>
  /\ cost = [s \in Sellers |-> 0] /\ shipping = [s \in Sellers |-> 0]
  /\ fallback = Nothing
  /\ quote = NoPrice

-----------------------------------------------------------------------------
(* The order list.                                                           *)

MaxQty   == CHOOSE n \in Range(order) : \A m \in Range(order) : m <= n
MaxParts == (MaxQty + MaxPerItem - 1) \div MaxPerItem

QtyForFileUncapped(n, e) == Larger(order[e] - (n - 1) * MaxPerItem, 0)
QtyForFile(n, e) == Smaller(Larger(order[e] - (n - 1) * MaxPerItem, 0), MaxPerItem)

SaveOrderList ==
  /\ at = "mosaic"
  /\ files' = [n \in 1..MaxParts |-> [e \in Elements |-> QtyForFile(n, e)]]
  /\ at' = "saved"
  /\ UNCHANGED <<order, items, book, listing, sums, fallback, quote>>

\* The worker copies order_list.json, and removes the workspace.
CopyOrderList ==
  /\ at = "saved"
  /\ items' = files[1]
  /\ files' = <<>>
  /\ at' = "copied"
  /\ UNCHANGED <<order, book, listing, sums, fallback, quote>>

-----------------------------------------------------------------------------
(* Listings, and pass 1: each element from the sellers already chosen first, *)
(* then from the cheapest.                                                   *)

LegoListings == [Elements -> LegoOffers]
ShopListings == [Elements -> ShopOffers]
Merged(lego, shops) == [e \in Elements |-> lego[e] \o shops[e]]

FetchListings ==
  /\ at = "copied"
  /\ \E lego \in LegoListings, shops \in ShopListings : book' = Merged(lego, shops)
  /\ todo' = {e \in Elements : items[e] > 0 /\ book'[e] # <<>>}
  /\ fallback' = [e \in Elements |-> IF book'[e] = <<>> THEN items[e] ELSE 0]
  /\ at' = "pass1"
  /\ UNCHANGED <<order, files, items, item, needed, lots, preferred, sums, quote>>

CheapestPrice(e) == CHOOSE p \in {book[e][i].price : i \in DOMAIN book[e]} :
                      \A i \in DOMAIN book[e] : p <= book[e][i].price
PieceValue(e) == items[e] * CheapestPrice(e)

\* Elements of equal value come in the order of the list, which may be any.
NextItem(e) ==
  /\ at = "pass1" /\ e \in todo
  /\ \A f \in todo : PieceValue(f) <= PieceValue(e)
  /\ item' = e
  /\ needed' = items[e]
  /\ lots' = DOMAIN book[e]
  /\ preferred' = Range(chosen)
  /\ todo' = todo \ {e}
  /\ at' = "lots"
  /\ UNCHANGED <<order, files, items, book, sums, fallback, quote>>

\* The stable sort by (0 if seller_id in allocation else 1, price_per_cent).
SortsBefore(i, j) ==
  LET l == book[item][i]
      m == book[item][j]
      sameRank == l.seller \in preferred <=> m.seller \in preferred
  IN  \/ l.seller \in preferred /\ m.seller \notin preferred
      \/ sameRank /\ l.price < m.price
      \/ sameRank /\ l.price = m.price /\ i < j

IsNextLot(i) == i \in lots /\ \A j \in lots \ {i} : SortsBefore(i, j)

\* already_allocated counts what the seller gives of this element, from any lot.
Remaining(i) == book[item][i].qty - alloc[book[item][i].seller][item]

TakeLot(i) ==
  /\ at = "lots" /\ needed > 0 /\ IsNextLot(i) /\ Remaining(i) > 0
  /\ LET lot  == book[item][i]
         s    == lot.seller
         take == Smaller(Remaining(i), needed)
     IN  /\ alloc' = [alloc EXCEPT ![s][item] = @ + take]
         /\ cost' = [cost EXCEPT ![s] = @ + take * lot.price]
         /\ IF s \in Range(chosen)
              THEN UNCHANGED <<chosen, shipping>>
              ELSE /\ chosen' = Append(chosen, s)
                   /\ shipping' = [shipping EXCEPT ![s] = lot.shipping]
         /\ needed' = needed - take
  /\ lots' = lots \ {i}
  /\ UNCHANGED <<order, files, items, book, at, todo, item, preferred, fallback, quote>>

\* (Reading the defaultdict would make the seller a chosen one.)
SkipLotGhost(i) ==
  /\ at = "lots" /\ needed > 0 /\ IsNextLot(i) /\ Remaining(i) <= 0
  /\ lots' = lots \ {i}
  /\ chosen' = IF book[item][i].seller \in Range(chosen) THEN chosen
               ELSE Append(chosen, book[item][i].seller)
  /\ UNCHANGED <<order, files, items, book, at, todo, item, needed, preferred,
                 alloc, cost, shipping, fallback, quote>>

SkipLot(i) ==
  /\ at = "lots" /\ needed > 0 /\ IsNextLot(i) /\ Remaining(i) <= 0
  /\ lots' = lots \ {i}
  /\ UNCHANGED <<order, files, items, book, at, todo, item, needed, preferred,
                 sums, fallback, quote>>

ItemDone ==
  /\ at = "lots" /\ (needed = 0 \/ lots = {})
  /\ fallback' = [fallback EXCEPT ![item] = needed]
  /\ needed' = 0 /\ lots' = {} /\ preferred' = {}
  /\ at' = "pass1"
  /\ UNCHANGED <<order, files, items, book, todo, item, sums, quote>>

Pass1Done ==
  /\ at = "pass1" /\ todo = {}
  /\ at' = "pass2"
  /\ UNCHANGED <<order, files, items, book, listing, sums, fallback, quote>>

-----------------------------------------------------------------------------
(* Pass 2: move all a seller gives to another, if that costs less than its   *)
(* shipping; begin anew after each move.                                     *)

\* next(l for l in listings[eid] if l.seller_id == s)
IsFirstLot(i, s, e) ==
  book[e][i].seller = s /\ \A j \in 1..(i - 1) : book[e][j].seller # s
FirstPrice(s, e) == book[e][CHOOSE i \in DOMAIN book[e] : IsFirstLot(i, s, e)].price

Given(s) == {e \in Elements : alloc[s][e] > 0}

FeasibleOnFullStock(b, a) ==
  \A e \in Given(b) : \E i \in DOMAIN book[e] :
    IsFirstLot(i, a, e) /\ book[e][i].qty >= alloc[b][e]

Feasible(b, a) ==
  \A e \in Given(b) : \E i \in DOMAIN book[e] :
    IsFirstLot(i, a, e) /\ book[e][i].qty - alloc[a][e] >= alloc[b][e]

ExtraCostPerLine(b, a) ==
  Total([e \in Given(b) |-> FirstPrice(a, e) - FirstPrice(b, e)])

ExtraCost(b, a) ==
  Total([e \in Given(b) |-> alloc[b][e] * (FirstPrice(a, e) - FirstPrice(b, e))])

Gains(b, a) ==
  /\ a # b /\ shipping[b] # 0
  /\ Feasible(b, a) /\ ExtraCost(b, a) < shipping[b]

\* Positions in chosen: the first seller that can be moved, to the cheapest.
BestMove(i, j) ==
  /\ Gains(chosen[i], chosen[j])
  /\ \A k \in 1..(i - 1) : \A m \in DOMAIN chosen : ~Gains(chosen[k], chosen[m])
  /\ \A m \in DOMAIN chosen \ {j} : Gains(chosen[i], chosen[m]) =>
       \/ ExtraCost(chosen[i], chosen[j]) < ExtraCost(chosen[i], chosen[m])
       \/ ExtraCost(chosen[i], chosen[j]) = ExtraCost(chosen[i], chosen[m]) /\ j < m

AbsorbedOverwriting(b, a) ==
  [e \in Elements |-> IF alloc[b][e] > 0 THEN alloc[b][e] ELSE alloc[a][e]]
Absorbed(b, a) == [e \in Elements |-> alloc[a][e] + alloc[b][e]]

AbsorbedCostAtOldPrice(b, a) == cost[b]
AbsorbedCost(b, a) == Total([e \in Given(b) |-> alloc[b][e] * FirstPrice(a, e)])

Merge(i, j) ==
  LET b == chosen[i]
      a == chosen[j]
  IN  /\ alloc' = [alloc EXCEPT ![a] = Absorbed(b, a), ![b] = Nothing]
      /\ cost' = [cost EXCEPT ![a] = @ + AbsorbedCost(b, a), ![b] = 0]
      /\ chosen' = RemoveAt(chosen, i)

Consolidate ==
  /\ at = "pass2"
  /\ \E i, j \in DOMAIN chosen : BestMove(i, j) /\ Merge(i, j)
  /\ UNCHANGED <<order, files, items, book, at, listing, shipping, fallback, quote>>

-----------------------------------------------------------------------------
(* The result.                                                               *)

LaigoFee(total) == Larger(FeeMin, (total * FeePercent) \div 100)

WaivesShipping ==
  Lego \in Range(chosen) /\ shipping[Lego] > 0 /\ cost[Lego] >= FreeFrom

\* optimize's sums, then apply_free_shipping_thresholds on them.
BuildQuote ==
  /\ at = "pass2"
  /\ \A a, b \in Range(chosen) : ~Gains(b, a)
  /\ LET pieces  == Total([s \in Range(chosen) |-> cost[s]])
         charged == Total([s \in Range(chosen) |-> shipping[s]])
         saved   == IF WaivesShipping THEN shipping[Lego] ELSE 0
         total   == pieces + charged - saved
     IN  quote' = [pieces |-> pieces, shipping |-> charged - saved,
                   charge |-> total + LaigoFee(total)]
  /\ shipping' = IF WaivesShipping THEN [shipping EXCEPT ![Lego] = 0] ELSE shipping
  /\ at' = "quoted"
  /\ UNCHANGED <<order, files, items, book, listing, alloc, chosen, cost, fallback>>

CanProceed == \A e \in Elements : fallback[e] = 0

Confirm ==
  /\ at = "quoted"
  /\ at' = IF CanProceed THEN "confirmed" ELSE "refused"
  /\ UNCHANGED <<order, files, items, book, listing, sums, fallback, quote>>

Next ==
  \/ SaveOrderList \/ CopyOrderList \/ FetchListings
  \/ \E e \in Elements : NextItem(e)
  \/ \E i \in lots : TakeLot(i) \/ SkipLot(i)
  \/ ItemDone \/ Pass1Done \/ Consolidate \/ BuildQuote \/ Confirm

Spec == Init /\ [][Next]_vars

-----------------------------------------------------------------------------
(* Properties.                                                               *)

Stages == {"mosaic", "saved", "copied", "pass1", "lots", "pass2", "quoted",
           "confirmed", "refused"}

\* Types.  The keys of allocation are the sellers that give something.
TypeOK ==
  /\ order \in Orders /\ items \in [Elements -> Nat] /\ fallback \in [Elements -> Nat]
  /\ files \in Seq([Elements -> Nat])
  /\ book \in [Elements -> Seq(Lot)]
  /\ at \in Stages
  /\ todo \subseteq Elements /\ item \in Elements /\ needed \in Nat
  /\ lots \subseteq Nat /\ preferred \subseteq Sellers
  /\ alloc \in [Sellers -> [Elements -> Nat]]
  /\ chosen \in Seq(Sellers) /\ Range(chosen) = {s \in Sellers : Given(s) # {}}
  /\ cost \in [Sellers -> Nat] /\ shipping \in [Sellers -> Nat]
  /\ quote \in [pieces : Nat, shipping : Nat, charge : Nat]

\* The files of SaveDictAsJsonsOptimized hold the whole order, no line beyond the
\* cap and no file without a line, whichever side of a multiple of the cap a
\* quantity is on.
SplitIsWhole ==
  at = "saved" =>
    /\ \A e \in Elements : Total([n \in DOMAIN files |-> files[n][e]]) = order[e]
    /\ \A n \in DOMAIN files : /\ \A e \in Elements : files[n][e] <= MaxPerItem
                               /\ files[n] # Nothing

Allocated(e) == Total([s \in Sellers |-> alloc[s][e]])

\* In each turn of both passes every piece of the list is with one seller, on the
\* fallback list or still to be dealt with, and none is twice.
NothingLost ==
  at \notin {"mosaic", "saved", "copied"} =>
    \A e \in Elements :
      items[e] = Allocated(e) + fallback[e]
                 + (IF e \in todo THEN items[e] ELSE 0)
                 + (IF at = "lots" /\ e = item THEN needed ELSE 0)

\* No seller is asked for more of an element than a lot of his has, also after
\* several sellers' shares were moved to him.
NeverOversold ==
  \A s \in Sellers : \A e \in Given(s) :
    \E i \in DOMAIN book[e] : book[e][i].seller = s /\ alloc[s][e] <= book[e][i].qty

\* Each seller has one lot of an element, as LEGO.com does.
OneLotEach ==
  \A e \in Elements : \A i, j \in DOMAIN book[e] :
    book[e][i].seller = book[e][j].seller => i = j

\* "Remainder after all sellers exhausted": an element falls back only if every
\* lot of it is sold out.
FallbackIsSoldOut ==
  OneLotEach => \A e \in Elements : fallback[e] > 0 =>
    \A i \in DOMAIN book[e] : alloc[book[e][i].seller][e] = book[e][i].qty

\* The stock is neither overdrawn nor left lying while pieces are reported missing.
StockRespected == NeverOversold /\ FallbackIsSoldOut

\* What an allocation really costs, piece by piece, with shipping once per seller.
PriceOf(al) ==
  Total([s \in Sellers |->
    LET given == {e \in Elements : al[s][e] > 0}
    IN  IF given = {} THEN 0
        ELSE shipping[s] + Total([e \in given |-> al[s][e] * FirstPrice(s, e)])])

\* The sums kept along both passes, and corrected for free shipping, are the price
\* of the allocation the sellers are then sent; the fee is on the corrected sum.
QuoteIsTrue ==
  at \in {"quoted", "confirmed", "refused"} /\ OneLotEach =>
    /\ quote.pieces + quote.shipping = PriceOf(alloc)
    /\ quote.charge = PriceOf(alloc) + LaigoFee(PriceOf(alloc))

Moved(b, a) ==
  [s \in Sellers |-> [e \in Elements |->
    CASE s = a -> alloc[a][e] + alloc[b][e] [] s = b -> 0 [] OTHER -> alloc[s][e]]]

InStock(al) ==
  \A s \in Sellers, e \in Elements : al[s][e] > 0 =>
    \E i \in DOMAIN book[e] : book[e][i].seller = s /\ al[s][e] <= book[e][i].qty

\* Pass 2 either leaves one parcel less, for less money, or ends, and then no
\* seller who charges shipping could hand his share to another and save.
SavesOrEnds ==
  at = "pass2" /\ OneLotEach =>
    IF at' = "pass2"
      THEN PriceOf(alloc') < PriceOf(alloc) /\ Len(chosen') < Len(chosen)
      ELSE \A a, b \in Range(chosen) :
             a # b /\ shipping[b] > 0 /\ InStock(Moved(b, a)) =>
               PriceOf(Moved(b, a)) >= PriceOf(alloc)

\* Each turn of pass 2 makes the order cheaper, and it ends only when no single move of
\* a seller who charges shipping would.  Sellers who charge none are passed over
\* (optimizer.py:119-120): a share of theirs that is cheaper elsewhere stays with them.
ConsolidationSaves == [][SavesOrEnds]_vars

\* "The multi-file split ... is irrelevant to the optimizer, which always reads the
\* single canonical file" (checkout_store.py:8-10): a quote that lets the customer
\* go on is one for the whole mosaic.
QuoteCoversMosaic ==
  at = "confirmed" => \A e \in Elements : Allocated(e) = order[e]
=============================================================================
