------------------------ MODULE CheckoutQuote_proofs ------------------------
(***************************************************************************)
(* Proofs about CheckoutQuote, for any order lists, any listings, any      *)
(* finite sets of elements and sellers and any prices: the files hold the  *)
(* whole order; the two passes of the optimizer lose no piece, never ask a *)
(* seller for more than he has and report a piece as missing only when it  *)
(* is sold out everywhere; the quote is the price of the allocation; and   *)
(* each move of pass 2 saves money.                                        *)
(*                                                                         *)
(* The proof is one invariant, IInv.  TurnInv says what the code keeps in  *)
(* its local variables: an element still to do has nothing allocated and   *)
(* nothing on the fallback list, and when the lots of the element in hand  *)
(* are gone through and pieces are lacking, each of those lots is sold out.*)
(* Pass 2 keeps this: a sold out lot cannot absorb a share.  ChosenGive    *)
(* says what the keys of the allocation are, CostIsTrue that the cost kept *)
(* for each seller is that of what he gives.  The sums are those of        *)
(* SetSums.                                                                *)
(***************************************************************************)
EXTENDS CheckoutQuote, SetSums, SequenceTheorems, TLAPS

QuoteTypes ==
  /\ order \in Orders
  /\ at \in Stages
  /\ at = "saved" => files[1] \in [Elements -> Nat]
  /\ items \in [Elements -> Nat]
  /\ fallback \in [Elements -> Nat]
  /\ book \in [Elements -> Seq(Lot)]
  /\ todo \subseteq Elements
  /\ item \in Elements
  /\ needed \in Nat
  /\ alloc \in [Sellers -> [Elements -> Nat]]
  /\ chosen \in Seq(Sellers)

NotBegun == at \in {"mosaic", "saved", "copied"}

\* Before the listings are there nothing is given out; nor is it, later, of an
\* element whose turn has not come.
NotYetGiven ==
  /\ NotBegun => \A s \in Sellers, e \in Elements : alloc[s][e] = 0
  /\ \A e \in todo : fallback[e] = 0 /\ \A s \in Sellers : alloc[s][e] = 0

\* While an element is in hand it is not on the fallback list; the lots gone
\* through are sold out as long as pieces are lacking.
InHand ==
  at = "lots" =>
    /\ item \notin todo /\ fallback[item] = 0
    /\ lots \subseteq DOMAIN book[item]
    /\ OneLotEach /\ needed > 0 =>
         \A i \in DOMAIN book[item] \ lots :
           alloc[book[item][i].seller][item] = book[item][i].qty

TurnInv == NotYetGiven /\ InHand

\* The types of the files, of the local variables of pass 1 and of the sums.
RestTypes ==
  /\ files \in Seq([Elements -> Nat])
  /\ lots \subseteq Nat /\ preferred \subseteq Sellers
  /\ cost \in [Sellers -> Nat] /\ shipping \in [Sellers -> Nat]
  /\ quote \in [pieces : Nat, shipping : Nat, charge : Nat]

\* Each seller that gives something is in the dict of the allocation, once.
ChosenGive ==
  /\ \A i, j \in DOMAIN chosen : chosen[i] = chosen[j] => i = j
  /\ \A i \in DOMAIN chosen : \E e \in Elements : alloc[chosen[i]][e] > 0
  /\ \A s \in Sellers, e \in Elements : alloc[s][e] > 0 => \E i \in DOMAIN chosen : chosen[i] = s

\* The pieces of one seller, at his prices.
PiecesOf(al, s) ==
  Total([e \in {f \in Elements : al[s][f] > 0} |-> al[s][e] * FirstPrice(s, e)])

\* seller_piece_cost is what the pieces given cost.
CostIsTrue ==
  /\ NotBegun => \A s \in Sellers : cost[s] = 0
  /\ OneLotEach => \A s \in Sellers : cost[s] = PiecesOf(alloc, s)

IInv ==
  /\ QuoteTypes /\ RestTypes
  /\ TurnInv /\ ChosenGive
  /\ NeverOversold /\ FallbackIsSoldOut
  /\ SplitIsWhole /\ NothingLost
  /\ CostIsTrue /\ QuoteIsTrue

-----------------------------------------------------------------------------
(* Lemmas on the operators of the model.                                     *)

\* An order has at least one file.
LEMMA SomeFile ==
  ASSUME order \in Orders
  PROVE  MaxParts \in Nat /\ MaxParts >= 1
<1>1. PICK n \in Range(order) : n > 0 /\ \A m \in Range(order) : m <= n
  BY OrdersAssumption
<1>2. Range(order) \subseteq Nat
  BY OrdersAssumption DEF Range
<1>3. MaxQty \in Range(order) /\ \A m \in Range(order) : m <= MaxQty
  BY <1>1 DEF MaxQty
<1>4. MaxQty \in Nat /\ MaxQty >= 1
  BY <1>1, <1>2, <1>3
<1>5. \A c \in Nat \ {0} : (MaxQty + c - 1) \div c \in Nat /\ (MaxQty + c - 1) \div c >= 1
  BY <1>4, SMT
<1> QED BY <1>5, PricesAssumption DEF MaxParts

\* A lot on the book is a lot.
LEMMA LotsAreLots ==
  ASSUME QuoteTypes, NEW e \in Elements, NEW i \in DOMAIN book[e]
  PROVE  book[e][i] \in Lot
BY DEF QuoteTypes

\* A quantity for a file is a natural number.
LEMMA QtyIsNat ==
  ASSUME order \in Orders, NEW n \in Nat \ {0}, NEW e \in Elements
  PROVE  QtyForFile(n, e) \in Nat
<1>1. order[e] \in Nat /\ MaxPerItem \in Nat
  BY OrdersAssumption, PricesAssumption
<1>2. (n - 1) * MaxPerItem \in Int
  BY <1>1
<1> QED BY <1>1, <1>2 DEF QtyForFile, Smaller, Larger

\* What a move of pass 2 does to the allocation.
LEMMA MoveEffect ==
  ASSUME QuoteTypes, NEW i \in DOMAIN chosen, NEW j \in DOMAIN chosen, BestMove(i, j),
         Merge(i, j)
  PROVE  LET b == chosen[i]
             a == chosen[j]
         IN  /\ a \in Sellers /\ b \in Sellers /\ a # b /\ Feasible(b, a)
             /\ alloc' \in [Sellers -> [Elements -> Nat]]
             /\ \A e \in Elements :
                  /\ alloc'[b][e] = 0
                  /\ alloc'[a][e] = alloc[a][e] + alloc[b][e]
                  /\ \A s \in Sellers \ {a, b} : alloc'[s][e] = alloc[s][e]
<1> DEFINE b == chosen[i]
           a == chosen[j]
<1>1. a \in Sellers /\ b \in Sellers
  BY DEF QuoteTypes
<1>2. a # b /\ Feasible(b, a)
  BY DEF BestMove, Gains
<1>3. Absorbed(b, a) \in [Elements -> Nat] /\ Nothing \in [Elements -> Nat]
  BY <1>1 DEF Absorbed, Nothing, QuoteTypes
<1>4. alloc' = [alloc EXCEPT ![a] = Absorbed(b, a), ![b] = Nothing]
  BY DEF Merge
<1>5. alloc' \in [Sellers -> [Elements -> Nat]]
  BY <1>1, <1>3, <1>4 DEF QuoteTypes
<1>6. /\ alloc'[b] = Nothing /\ alloc'[a] = Absorbed(b, a)
      /\ \A s \in Sellers \ {a, b} : alloc'[s] = alloc[s]
  BY <1>1, <1>2, <1>4 DEF QuoteTypes
<1> QED BY <1>1, <1>2, <1>5, <1>6 DEF Absorbed, Nothing

\* What taking from a lot does.
LEMMA TakeEffect ==
  ASSUME QuoteTypes, InHand, NEW i \in lots, TakeLot(i)
  PROVE  LET lot  == book[item][i]
             take == Smaller(Remaining(i), needed)
         IN  /\ lot \in Lot /\ take \in Nat /\ take <= Remaining(i)
             /\ needed' = needed - take /\ needed' \in Nat
             /\ needed' > 0 => take = Remaining(i)
             /\ alloc' = [alloc EXCEPT ![lot.seller][item] = @ + take]
             /\ alloc' \in [Sellers -> [Elements -> Nat]]
<1> DEFINE lot  == book[item][i]
           s    == lot.seller
           take == Smaller(Remaining(i), needed)
<1>1. i \in DOMAIN book[item] /\ item \in Elements
  BY DEF TakeLot, InHand, QuoteTypes
<1>2. lot \in Lot
  BY <1>1, LotsAreLots
<1>3. s \in Sellers /\ lot.qty \in Nat /\ alloc[s][item] \in Nat
  BY <1>1, <1>2 DEF Lot, QuoteTypes
<1>4. Remaining(i) \in Int /\ Remaining(i) > 0 /\ needed \in Nat /\ needed > 0
  BY <1>3 DEF Remaining, TakeLot, QuoteTypes
<1>5. /\ take \in Nat /\ take <= Remaining(i) /\ needed - take \in Nat
      /\ needed - take > 0 => take = Remaining(i)
  BY <1>4 DEF Smaller
<1>6. needed' = needed - take /\ alloc' = [alloc EXCEPT ![s][item] = @ + take]
  BY DEF TakeLot
<1>7. alloc' \in [Sellers -> [Elements -> Nat]]
  BY <1>1, <1>3, <1>5, <1>6 DEF QuoteTypes
<1> HIDE DEF lot, s, take
<1> QED BY <1>2, <1>5, <1>6, <1>7 DEF lot, s, take

\* Total sums a function over its domain.
LEMMA TotalIsSum == \A f : Total(f) = Sum(f, DOMAIN f)
BY DEF Total, FoldFunction, Sum, SumFunctionOnSet

-----------------------------------------------------------------------------
(* Types.                                                                    *)

\* The initial state is typed.
LEMMA InitTypes == Init => QuoteTypes
<1> SUFFICES ASSUME Init PROVE QuoteTypes
  OBVIOUS
<1>1. \E e \in Elements : TRUE
  BY OrdersAssumption DEF Init, Range
<1>2. item \in Elements
  BY <1>1 DEF Init
<1>3. /\ items \in [Elements -> Nat] /\ fallback \in [Elements -> Nat]
      /\ alloc \in [Sellers -> [Elements -> Nat]]
  BY DEF Init, Nothing
<1>4. book \in [Elements -> Seq(Lot)]
  BY EmptySeq DEF Init, NoBook
<1> QED BY <1>2, <1>3, <1>4, EmptySeq DEF Init, QuoteTypes, Stages

\* Every turn keeps the types.
LEMMA TypesStep == QuoteTypes /\ InHand /\ [Next]_vars => QuoteTypes'
<1> SUFFICES ASSUME QuoteTypes, InHand, [Next]_vars PROVE QuoteTypes'
  OBVIOUS
<1> USE DEF listing, sums
<1>1. CASE SaveOrderList
  <2>1. 1 \in 1..MaxParts
    BY SomeFile DEF QuoteTypes
  <2>2. \A e \in Elements : QtyForFile(1, e) \in Nat
    BY QtyIsNat DEF QuoteTypes
  <2>3. files'[1] \in [Elements -> Nat]
    BY <1>1, <2>1, <2>2 DEF SaveOrderList
  <2> QED BY <1>1, <2>3 DEF SaveOrderList, QuoteTypes, Stages
<1>2. CASE CopyOrderList
  BY <1>2 DEF CopyOrderList, QuoteTypes, Stages
<1>3. CASE FetchListings
  <2>1. PICK lego \in LegoListings, shops \in ShopListings : book' = Merged(lego, shops)
    BY <1>3 DEF FetchListings
  <2>2. \A e \in Elements : lego[e] \o shops[e] \in Seq(Lot)
    <3> TAKE e \in Elements
    <3>1. lego[e] \in Seq(Lot) /\ shops[e] \in Seq(Lot)
      BY OffersAssumption DEF LegoListings, ShopListings
    <3> QED BY <3>1, ConcatProperties
  <2>3. book' \in [Elements -> Seq(Lot)]
    BY <2>1, <2>2 DEF Merged
  <2>4. fallback' \in [Elements -> Nat] /\ todo' \subseteq Elements
    BY <1>3 DEF FetchListings, QuoteTypes
  <2> QED BY <1>3, <2>3, <2>4 DEF FetchListings, QuoteTypes, Stages
<1>4. ASSUME NEW e \in Elements, NextItem(e) PROVE QuoteTypes'
  <2>1. item' \in Elements /\ needed' \in Nat /\ todo' \subseteq Elements /\ at' \in Stages
    BY <1>4 DEF NextItem, QuoteTypes, Stages
  <2>2. at' # "saved" /\ UNCHANGED <<order, items, book, alloc, chosen, fallback>>
    BY <1>4 DEF NextItem
  <2> QED BY <2>1, <2>2 DEF QuoteTypes
<1>5. ASSUME NEW i \in lots, TakeLot(i) PROVE QuoteTypes'
  <2>1. needed' \in Nat /\ alloc' \in [Sellers -> [Elements -> Nat]] /\ book[item][i] \in Lot
    BY <1>5, TakeEffect
  <2>2. chosen' \in Seq(Sellers)
    <3>1. chosen' = chosen \/ chosen' = Append(chosen, book[item][i].seller)
      BY <1>5 DEF TakeLot
    <3>2. book[item][i].seller \in Sellers
      BY <2>1 DEF Lot
    <3>3. Append(chosen, book[item][i].seller) \in Seq(Sellers)
      BY <3>2, AppendProperties DEF QuoteTypes
    <3> QED BY <3>1, <3>3 DEF QuoteTypes
  <2>3. UNCHANGED <<order, files, items, book, at, todo, item, fallback>>
    BY <1>5 DEF TakeLot
  <2> QED BY <2>1, <2>2, <2>3 DEF QuoteTypes
<1>6. ASSUME NEW i \in lots, SkipLot(i) PROVE QuoteTypes'
  BY <1>6 DEF SkipLot, QuoteTypes
<1>7. CASE ItemDone
  BY <1>7 DEF ItemDone, QuoteTypes, Stages
<1>8. CASE Pass1Done
  BY <1>8 DEF Pass1Done, QuoteTypes, Stages
<1>9. CASE Consolidate
  <2>1. PICK i \in DOMAIN chosen, j \in DOMAIN chosen : BestMove(i, j) /\ Merge(i, j)
    BY <1>9 DEF Consolidate
  <2>2. alloc' \in [Sellers -> [Elements -> Nat]]
    BY <2>1, MoveEffect
  <2>3. /\ i \in 1..Len(chosen) /\ Len(chosen) \in Nat
        /\ \A k \in 1..Len(chosen) : chosen[k] \in Sellers
    BY DEF QuoteTypes
  <2>4. /\ SubSeq(chosen, 1, i - 1) \in Seq(Sellers)
        /\ SubSeq(chosen, i + 1, Len(chosen)) \in Seq(Sellers)
    BY <2>3, SubSeqProperties
  <2>5. chosen' \in Seq(Sellers)
    BY <2>1, <2>4, ConcatProperties DEF Merge, RemoveAt
  <2> QED BY <1>9, <2>2, <2>5 DEF Consolidate, QuoteTypes
<1>10. CASE BuildQuote
  BY <1>10 DEF BuildQuote, QuoteTypes, Stages
<1>11. CASE Confirm
  BY <1>11 DEF Confirm, QuoteTypes, Stages
<1>12. CASE UNCHANGED vars
  BY <1>12 DEF vars, QuoteTypes
<1> QED BY <1>1, <1>2, <1>3, <1>4, <1>5, <1>6, <1>7, <1>8, <1>9, <1>10, <1>11, <1>12 DEF Next

-----------------------------------------------------------------------------
(* Turns.                                                                    *)

\* Every turn keeps what is known of the elements still to do and in hand.
LEMMA TurnStep == QuoteTypes /\ TurnInv /\ NeverOversold /\ [Next]_vars => TurnInv'
<1> SUFFICES ASSUME QuoteTypes, TurnInv, NeverOversold, [Next]_vars PROVE TurnInv'
  OBVIOUS
<1> USE DEF listing, sums
<1>0. NotYetGiven /\ InHand
  BY DEF TurnInv
<1>1. CASE SaveOrderList
  BY <1>0, <1>1 DEF SaveOrderList, TurnInv, NotYetGiven, InHand, NotBegun
<1>2. CASE CopyOrderList
  BY <1>0, <1>2 DEF CopyOrderList, TurnInv, NotYetGiven, InHand, NotBegun
<1>3. CASE FetchListings
  <2>1. \A e \in todo' : e \in Elements /\ fallback'[e] = 0
    BY <1>3 DEF FetchListings
  <2>2. at = "copied" /\ at' = "pass1" /\ alloc' = alloc
    BY <1>3 DEF FetchListings
  <2>3. \A s \in Sellers, e \in Elements : alloc'[s][e] = 0
    BY <1>0, <2>2 DEF NotYetGiven, NotBegun
  <2> QED BY <2>1, <2>2, <2>3 DEF TurnInv, NotYetGiven, InHand, NotBegun
<1>4. ASSUME NEW e \in Elements, NextItem(e) PROVE TurnInv'
  <2>1. /\ item' = e /\ e \notin todo' /\ todo' \subseteq todo /\ fallback[e] = 0
        /\ lots' = DOMAIN book[e] /\ at = "pass1" /\ at' = "lots"
        /\ UNCHANGED <<book, alloc, fallback>>
    BY <1>0, <1>4 DEF NextItem, NotYetGiven
  <2> QED BY <1>0, <2>1 DEF TurnInv, NotYetGiven, InHand, NotBegun
<1>5. ASSUME NEW i \in lots, TakeLot(i) PROVE TurnInv'
  <2> DEFINE lot  == book[item][i]
             take == Smaller(Remaining(i), needed)
  <2>1. at = "lots" /\ at' = "lots" /\ lots' = lots \ {i}
        /\ UNCHANGED <<book, todo, item, fallback>>
    BY <1>5 DEF TakeLot
  <2>2. /\ lot \in Lot /\ take \in Nat
        /\ needed' > 0 => take = Remaining(i)
        /\ alloc' = [alloc EXCEPT ![lot.seller][item] = @ + take]
    BY <1>0, <1>5, TakeEffect
  <2>3. lot.seller \in Sellers /\ lot.qty \in Nat /\ item \in Elements /\ i \in DOMAIN book[item]
    BY <1>0, <2>1, <2>2 DEF Lot, QuoteTypes, InHand
  <2>4. /\ alloc'[lot.seller][item] = alloc[lot.seller][item] + take
        /\ \A s \in Sellers, e \in Elements :
             ~(s = lot.seller /\ e = item) => alloc'[s][e] = alloc[s][e]
    BY <2>2, <2>3 DEF QuoteTypes
  <2>5. NotYetGiven'
    BY <1>0, <2>1, <2>4 DEF NotYetGiven, InHand, NotBegun, QuoteTypes
  <2>6. ASSUME OneLotEach', needed' > 0, NEW k \in DOMAIN book[item] \ lots'
        PROVE  alloc'[book[item][k].seller][item] = book[item][k].qty
    <3>1. CASE k = i
      <4>1. take = lot.qty - alloc[lot.seller][item]
        <5>1. Remaining(i) = lot.qty - alloc[lot.seller][item]
          BY DEF Remaining
        <5> HIDE DEF lot, take
        <5> QED BY <2>2, <2>6, <5>1
      <4>2. alloc[lot.seller][item] \in Nat
        BY <2>3 DEF QuoteTypes
      <4>3. alloc'[lot.seller][item] = lot.qty
        <5> HIDE DEF lot, take
        <5> QED BY <2>3, <2>4, <4>1, <4>2
      <4> QED BY <3>1, <4>3
    <3>2. CASE k # i
      <4>1. OneLotEach /\ needed > 0
        BY <1>5, <2>1, <2>6 DEF OneLotEach, TakeLot
      <4>2. book[item][k] \in Lot
        BY LotsAreLots, <2>3, <2>6
      <4>3. book[item][k].seller \in Sellers /\ book[item][k].seller # lot.seller
        BY <2>3, <2>6, <3>2, <4>1, <4>2 DEF OneLotEach, Lot
      <4>4. alloc[book[item][k].seller][item] = book[item][k].qty
        BY <1>0, <2>1, <2>6, <3>2, <4>1 DEF InHand
      <4> QED BY <2>3, <2>4, <4>3, <4>4
    <3> QED BY <3>1, <3>2
  <2>7. InHand'
    BY <1>0, <2>1, <2>6 DEF InHand
  <2> QED BY <2>5, <2>7 DEF TurnInv
<1>6. ASSUME NEW i \in lots, SkipLot(i) PROVE TurnInv'
  <2>1. at = "lots" /\ at' = "lots" /\ lots' = lots \ {i}
        /\ UNCHANGED <<book, todo, item, needed, fallback, alloc>>
    BY <1>6 DEF SkipLot
  <2>2. i \in DOMAIN book[item] /\ item \in Elements /\ book[item][i] \in Lot
    BY <1>0, <2>1, LotsAreLots DEF InHand, QuoteTypes
  <2>3. ASSUME OneLotEach PROVE alloc[book[item][i].seller][item] = book[item][i].qty
    <3> DEFINE s == book[item][i].seller
    <3>1. s \in Sellers /\ book[item][i].qty \in Nat /\ alloc[s][item] \in Nat
      BY <2>2 DEF Lot, QuoteTypes
    <3>2. book[item][i].qty <= alloc[s][item]
      BY <1>6, <3>1 DEF SkipLot, Remaining
    <3>3. CASE alloc[s][item] = 0
      BY <3>1, <3>2, <3>3
    <3>4. CASE alloc[s][item] > 0
      <4>1. PICK k \in DOMAIN book[item] :
              book[item][k].seller = s /\ alloc[s][item] <= book[item][k].qty
        BY <2>2, <3>1, <3>4 DEF NeverOversold, Given
      <4>2. k = i
        BY <2>2, <2>3, <4>1 DEF OneLotEach
      <4> QED BY <3>1, <3>2, <4>1, <4>2
    <3> QED BY <3>1, <3>3, <3>4
  <2>4. NotYetGiven'
    BY <1>0, <2>1 DEF NotYetGiven, NotBegun
  <2>5. InHand'
    BY <1>0, <2>1, <2>3 DEF InHand, OneLotEach
  <2> QED BY <2>4, <2>5 DEF TurnInv
<1>7. CASE ItemDone
  <2>1. /\ at = "lots" /\ at' = "pass1" /\ fallback' = [fallback EXCEPT ![item] = needed]
        /\ UNCHANGED <<todo, alloc>>
    BY <1>7 DEF ItemDone
  <2> QED BY <1>0, <2>1 DEF TurnInv, NotYetGiven, InHand, NotBegun, QuoteTypes
<1>8. CASE Pass1Done
  BY <1>0, <1>8 DEF Pass1Done, TurnInv, NotYetGiven, InHand, NotBegun
<1>9. CASE Consolidate
  <2>1. PICK i \in DOMAIN chosen, j \in DOMAIN chosen : BestMove(i, j) /\ Merge(i, j)
    BY <1>9 DEF Consolidate
  <2> DEFINE b == chosen[i]
             a == chosen[j]
  <2>2. /\ a \in Sellers /\ b \in Sellers
        /\ \A e \in Elements :
             /\ alloc'[b][e] = 0
             /\ alloc'[a][e] = alloc[a][e] + alloc[b][e]
             /\ \A s \in Sellers \ {a, b} : alloc'[s][e] = alloc[s][e]
    BY <2>1, MoveEffect
  <2>3. at = "pass2" /\ at' = "pass2" /\ UNCHANGED <<todo, fallback>>
    BY <1>9 DEF Consolidate
  <2>4. ASSUME NEW e \in todo', NEW s \in Sellers PROVE alloc'[s][e] = 0
    <3>1. e \in Elements /\ alloc[a][e] = 0 /\ alloc[b][e] = 0 /\ alloc[s][e] = 0
      BY <1>0, <2>2, <2>3 DEF NotYetGiven, QuoteTypes
    <3>2. alloc'[b][e] = 0 /\ alloc'[a][e] = 0
      BY <2>2, <3>1
    <3> QED BY <2>2, <3>1, <3>2
  <2> QED BY <1>0, <2>3, <2>4 DEF TurnInv, NotYetGiven, InHand, NotBegun
<1>10. CASE BuildQuote
  BY <1>0, <1>10 DEF BuildQuote, TurnInv, NotYetGiven, InHand, NotBegun
<1>11. CASE Confirm
  BY <1>0, <1>11 DEF Confirm, TurnInv, NotYetGiven, InHand, NotBegun
<1>12. CASE UNCHANGED vars
  BY <1>0, <1>12 DEF vars, TurnInv, NotYetGiven, InHand, NotBegun, OneLotEach
<1> QED BY <1>1, <1>2, <1>3, <1>4, <1>5, <1>6, <1>7, <1>8, <1>9, <1>10, <1>11, <1>12 DEF Next

-----------------------------------------------------------------------------
(* Stock.                                                                    *)

\* No turn asks a seller for more than he has.
LEMMA OversoldStep ==
  QuoteTypes /\ TurnInv /\ NeverOversold /\ [Next]_vars => NeverOversold'
<1> SUFFICES ASSUME QuoteTypes, TurnInv, NeverOversold, [Next]_vars PROVE NeverOversold'
  OBVIOUS
<1> USE DEF listing, sums
<1>0. NotYetGiven /\ InHand
  BY DEF TurnInv
<1>1. CASE alloc' = alloc /\ book' = book
  BY <1>1 DEF NeverOversold, Given
<1>2. CASE FetchListings
  BY <1>0, <1>2 DEF FetchListings, NotYetGiven, NotBegun, NeverOversold, Given, QuoteTypes
<1>3. ASSUME NEW i \in lots, TakeLot(i) PROVE NeverOversold'
  <2> DEFINE lot  == book[item][i]
             take == Smaller(Remaining(i), needed)
  <2>1. /\ lot \in Lot /\ take \in Nat /\ take <= Remaining(i)
        /\ alloc' = [alloc EXCEPT ![lot.seller][item] = @ + take]
    BY <1>0, <1>3, TakeEffect
  <2>2. lot.seller \in Sellers /\ lot.qty \in Nat /\ item \in Elements /\ i \in DOMAIN book[item]
    BY <1>0, <1>3, <2>1 DEF TakeLot, Lot, QuoteTypes, InHand
  <2>3. alloc[lot.seller][item] \in Nat /\ Remaining(i) = lot.qty - alloc[lot.seller][item]
    BY <2>2 DEF Remaining, QuoteTypes
  <2>4. /\ alloc'[lot.seller][item] = alloc[lot.seller][item] + take
        /\ \A s \in Sellers, e \in Elements :
             ~(s = lot.seller /\ e = item) => alloc'[s][e] = alloc[s][e]
    BY <2>1, <2>2 DEF QuoteTypes
  <2>5. alloc'[lot.seller][item] <= lot.qty
    <3> HIDE DEF lot, take
    <3> QED BY <2>1, <2>2, <2>3, <2>4
  <2>6. book' = book
    BY <1>3 DEF TakeLot
  <2>7. ASSUME NEW s \in Sellers, NEW e \in Elements, alloc'[s][e] > 0
        PROVE  \E k \in DOMAIN book[e] : book[e][k].seller = s /\ alloc'[s][e] <= book[e][k].qty
    <3>1. CASE s = lot.seller /\ e = item
      BY <2>2, <2>5, <3>1
    <3>2. CASE ~(s = lot.seller /\ e = item)
      BY <2>4, <2>7, <3>2 DEF NeverOversold, Given
    <3> QED BY <3>1, <3>2
  <2> QED BY <2>6, <2>7 DEF NeverOversold, Given
<1>4. CASE Consolidate
  <2>1. PICK i \in DOMAIN chosen, j \in DOMAIN chosen : BestMove(i, j) /\ Merge(i, j)
    BY <1>4 DEF Consolidate
  <2> DEFINE b == chosen[i]
             a == chosen[j]
  <2>2. /\ a \in Sellers /\ b \in Sellers /\ a # b /\ Feasible(b, a)
        /\ \A e \in Elements :
             /\ alloc'[b][e] = 0
             /\ alloc'[a][e] = alloc[a][e] + alloc[b][e]
             /\ \A s \in Sellers \ {a, b} : alloc'[s][e] = alloc[s][e]
    BY <2>1, MoveEffect
  <2>3. book' = book
    BY <1>4 DEF Consolidate
  <2> HIDE DEF a, b
  <2>4. ASSUME NEW s \in Sellers, NEW e \in Elements, alloc'[s][e] > 0
        PROVE  \E k \in DOMAIN book[e] : book[e][k].seller = s /\ alloc'[s][e] <= book[e][k].qty
    <3>1. alloc[a][e] \in Nat /\ alloc[b][e] \in Nat
      BY <2>2 DEF QuoteTypes
    <3>2. CASE s = a /\ alloc[b][e] > 0
      <4>1. PICK k \in DOMAIN book[e] :
              IsFirstLot(k, a, e) /\ book[e][k].qty - alloc[a][e] >= alloc[b][e]
        BY <2>2, <3>2 DEF Feasible, Given
      <4>2. book[e][k].qty \in Nat /\ book[e][k].seller = a
        BY <4>1, LotsAreLots DEF Lot, IsFirstLot
      <4>3. alloc[a][e] + alloc[b][e] <= book[e][k].qty
        BY <3>1, <4>1, <4>2
      <4> QED BY <2>2, <3>2, <4>2, <4>3
    <3>3. CASE s # b /\ ~(s = a /\ alloc[b][e] > 0)
      <4>1. alloc'[s][e] = alloc[s][e]
        BY <2>2, <3>1, <3>3
      <4> QED BY <2>4, <4>1 DEF NeverOversold, Given
    <3>4. CASE s = b
      BY <2>2, <2>4, <3>4
    <3> QED BY <2>2, <3>2, <3>3, <3>4
  <2> QED BY <2>3, <2>4 DEF NeverOversold, Given
<1> QED
  BY <1>1, <1>2, <1>3, <1>4
  DEF Next, SaveOrderList, CopyOrderList, NextItem, SkipLot, ItemDone, Pass1Done,
      BuildQuote, Confirm, vars

\* An element on the fallback list stays sold out, and only such elements come on it.
LEMMA FallbackStep ==
  QuoteTypes /\ TurnInv /\ FallbackIsSoldOut /\ [Next]_vars => FallbackIsSoldOut'
<1> SUFFICES ASSUME QuoteTypes, TurnInv, FallbackIsSoldOut, [Next]_vars
             PROVE  FallbackIsSoldOut'
  OBVIOUS
<1> USE DEF listing, sums
<1>0. NotYetGiven /\ InHand
  BY DEF TurnInv
<1>1. CASE alloc' = alloc /\ book' = book /\ fallback' = fallback
  BY <1>1 DEF FallbackIsSoldOut, OneLotEach
<1>2. CASE FetchListings
  <2>1. fallback' = [e \in Elements |-> IF book'[e] = <<>> THEN items[e] ELSE 0]
    BY <1>2 DEF FetchListings
  <2>2. ASSUME NEW e \in Elements, fallback'[e] > 0 PROVE DOMAIN book'[e] = {}
    BY <2>1, <2>2
  <2> QED BY <2>2 DEF FallbackIsSoldOut
<1>3. ASSUME NEW i \in lots, TakeLot(i) PROVE FallbackIsSoldOut'
  <2> DEFINE lot  == book[item][i]
             take == Smaller(Remaining(i), needed)
  <2>1. lot \in Lot /\ take \in Nat /\ alloc' = [alloc EXCEPT ![lot.seller][item] = @ + take]
    BY <1>0, <1>3, TakeEffect
  <2>2. lot.seller \in Sellers /\ item \in Elements
    BY <2>1 DEF Lot, QuoteTypes
  <2>3. \A s \in Sellers, e \in Elements : e # item => alloc'[s][e] = alloc[s][e]
    BY <2>1, <2>2 DEF QuoteTypes
  <2>4. book' = book /\ fallback' = fallback /\ fallback[item] = 0
    BY <1>0, <1>3 DEF TakeLot, InHand
  <2>5. ASSUME OneLotEach', NEW e \in Elements, fallback'[e] > 0, NEW k \in DOMAIN book'[e]
        PROVE  alloc'[book'[e][k].seller][e] = book'[e][k].qty
    <3>1. OneLotEach /\ e # item /\ fallback[e] > 0 /\ k \in DOMAIN book[e]
      BY <2>4, <2>5 DEF OneLotEach
    <3>2. book[e][k].seller \in Sellers
      BY <3>1, LotsAreLots DEF Lot
    <3>3. alloc[book[e][k].seller][e] = book[e][k].qty
      BY <3>1 DEF FallbackIsSoldOut
    <3> QED BY <2>3, <2>4, <3>1, <3>2, <3>3
  <2> QED BY <2>5 DEF FallbackIsSoldOut
<1>4. CASE ItemDone
  <2>1. /\ at = "lots" /\ fallback' = [fallback EXCEPT ![item] = needed]
        /\ needed = 0 \/ lots = {}
        /\ alloc' = alloc /\ book' = book
    BY <1>4 DEF ItemDone
  <2>2. ASSUME OneLotEach', NEW e \in Elements, fallback'[e] > 0, NEW k \in DOMAIN book'[e]
        PROVE  alloc'[book'[e][k].seller][e] = book'[e][k].qty
    <3>1. OneLotEach /\ k \in DOMAIN book[e]
      BY <2>1, <2>2 DEF OneLotEach
    <3>2. CASE e = item
      <4>1. needed > 0 /\ lots = {}
        BY <2>1, <2>2, <3>2 DEF QuoteTypes
      <4> QED BY <1>0, <2>1, <3>1, <3>2, <4>1 DEF InHand
    <3>3. CASE e # item
      BY <2>1, <2>2, <3>1, <3>3 DEF FallbackIsSoldOut, QuoteTypes
    <3> QED BY <3>2, <3>3
  <2> QED BY <2>2 DEF FallbackIsSoldOut
<1>5. CASE Consolidate
  <2>1. PICK i \in DOMAIN chosen, j \in DOMAIN chosen : BestMove(i, j) /\ Merge(i, j)
    BY <1>5 DEF Consolidate
  <2> DEFINE b == chosen[i]
             a == chosen[j]
  <2>2. /\ a \in Sellers /\ b \in Sellers /\ a # b /\ Feasible(b, a)
        /\ \A e \in Elements :
             /\ alloc'[b][e] = 0
             /\ alloc'[a][e] = alloc[a][e] + alloc[b][e]
             /\ \A s \in Sellers \ {a, b} : alloc'[s][e] = alloc[s][e]
    BY <2>1, MoveEffect
  <2>3. book' = book /\ fallback' = fallback
    BY <1>5 DEF Consolidate
  <2> HIDE DEF a, b
  \* The absorber's lot of a sold out element has nothing left for the share.
  <2>4. ASSUME OneLotEach, NEW e \in Elements, fallback[e] > 0 PROVE alloc[b][e] = 0
    <3>1. alloc[a][e] \in Nat /\ alloc[b][e] \in Nat
      BY <2>2 DEF QuoteTypes
    <3>2. SUFFICES ASSUME alloc[b][e] > 0 PROVE FALSE
      BY <3>1
    <3>3. PICK k \in DOMAIN book[e] :
            IsFirstLot(k, a, e) /\ book[e][k].qty - alloc[a][e] >= alloc[b][e]
      BY <2>2, <3>2 DEF Feasible, Given
    <3>4. alloc[a][e] = book[e][k].qty
      BY <2>4, <3>3 DEF FallbackIsSoldOut, IsFirstLot
    <3> QED BY <3>1, <3>2, <3>3, <3>4
  <2>5. ASSUME OneLotEach', NEW e \in Elements, fallback'[e] > 0, NEW k \in DOMAIN book'[e]
        PROVE  alloc'[book'[e][k].seller][e] = book'[e][k].qty
    <3>1. OneLotEach /\ fallback[e] > 0 /\ k \in DOMAIN book[e]
      BY <2>3, <2>5 DEF OneLotEach
    <3>2. book[e][k].seller \in Sellers
      BY <3>1, LotsAreLots DEF Lot
    <3>3. alloc[b][e] = 0 /\ alloc[a][e] \in Nat
      BY <2>2, <2>4, <3>1 DEF QuoteTypes
    <3>4. alloc'[book[e][k].seller][e] = alloc[book[e][k].seller][e]
      BY <2>2, <3>2, <3>3
    <3>5. alloc[book[e][k].seller][e] = book[e][k].qty
      BY <3>1 DEF FallbackIsSoldOut
    <3> QED BY <2>3, <3>4, <3>5
  <2> QED BY <2>5 DEF FallbackIsSoldOut
<1> QED
  BY <1>1, <1>2, <1>3, <1>4, <1>5
  DEF Next, SaveOrderList, CopyOrderList, NextItem, SkipLot, Pass1Done,
      BuildQuote, Confirm, vars

-----------------------------------------------------------------------------
(* The types of what is left, and the keys of the allocation.                *)

\* Taking one out of a sequence without repetitions.
LEMMA RemoveAtEffect ==
  ASSUME NEW S, NEW s \in Seq(S), NEW i \in DOMAIN s
  PROVE  /\ RemoveAt(s, i) \in Seq(S) /\ Len(RemoveAt(s, i)) = Len(s) - 1
         /\ \A k \in 1..(Len(s) - 1) : RemoveAt(s, i)[k] = IF k < i THEN s[k] ELSE s[k + 1]
<1> DEFINE p == SubSeq(s, 1, i - 1)
           q == SubSeq(s, i + 1, Len(s))
<1>1. i \in 1..Len(s) /\ Len(s) \in Nat /\ \A k \in 1..Len(s) : s[k] \in S
  OBVIOUS
<1>2. p \in Seq(S) /\ Len(p) = i - 1 /\ \A k \in 1..(i - 1) : p[k] = s[k]
  <2>1. 1 \in Int /\ i - 1 \in Int /\ \A k \in 1..(i - 1) : s[k] \in S
    BY <1>1
  <2>2. /\ p \in Seq(S) /\ Len(p) = IF 1 <= i - 1 THEN (i - 1) - 1 + 1 ELSE 0
        /\ \A k \in 1..((i - 1) - 1 + 1) : p[k] = s[1 + k - 1]
    BY <2>1, SubSeqProperties
  <2> HIDE DEF p
  <2> QED BY <1>1, <2>2
<1>3. /\ q \in Seq(S) /\ Len(q) = Len(s) - i
      /\ \A k \in 1..(Len(s) - i) : q[k] = s[k + i]
  <2>1. i + 1 \in Int /\ Len(s) \in Int /\ \A k \in (i + 1)..Len(s) : s[k] \in S
    BY <1>1
  <2>2. /\ q \in Seq(S) /\ Len(q) = IF i + 1 <= Len(s) THEN Len(s) - (i + 1) + 1 ELSE 0
        /\ \A k \in 1..(Len(s) - (i + 1) + 1) : q[k] = s[(i + 1) + k - 1]
    BY <2>1, SubSeqProperties
  <2> HIDE DEF q
  <2>3. Len(q) = Len(s) - i
    BY <1>1, <2>2
  <2>4. ASSUME NEW k \in 1..(Len(s) - i) PROVE q[k] = s[k + i]
    <3>1. k \in 1..(Len(s) - (i + 1) + 1) /\ (i + 1) + k - 1 = k + i
      BY <1>1
    <3> QED BY <2>2, <3>1
  <2> QED BY <2>2, <2>3, <2>4
<1>4. RemoveAt(s, i) = p \o q
  BY DEF RemoveAt
<1> HIDE DEF p, q
<1>5. /\ p \o q \in Seq(S) /\ Len(p \o q) = Len(p) + Len(q)
      /\ \A k \in 1..(Len(p) + Len(q)) :
           (p \o q)[k] = IF k <= Len(p) THEN p[k] ELSE q[k - Len(p)]
  BY <1>2, <1>3, ConcatProperties
<1>6. Len(p) + Len(q) = Len(s) - 1
  BY <1>1, <1>2, <1>3
<1>7. ASSUME NEW k \in 1..(Len(s) - 1)
      PROVE  (p \o q)[k] = IF k < i THEN s[k] ELSE s[k + 1]
  <2>1. (p \o q)[k] = IF k <= i - 1 THEN p[k] ELSE q[k - (i - 1)]
    BY <1>2, <1>5, <1>6
  <2>2. CASE k < i
    <3>1. k \in 1..(i - 1) /\ k <= i - 1
      BY <1>1, <2>2
    <3> QED BY <1>2, <2>1, <2>2, <3>1
  <2>3. CASE ~(k < i)
    <3>1. k - (i - 1) \in 1..(Len(s) - i) /\ ~(k <= i - 1) /\ k - (i - 1) + i = k + 1
      BY <1>1, <2>3
    <3>2. q[k - (i - 1)] = s[k - (i - 1) + i]
      BY <1>3, <3>1
    <3> QED BY <2>1, <2>3, <3>1, <3>2
  <2> QED BY <2>2, <2>3
<1> QED BY <1>4, <1>5, <1>6, <1>7

\* The sellers with a share are the keys of the allocation.
LEMMA KeysGive ==
  ASSUME QuoteTypes, ChosenGive
  PROVE  Range(chosen) = {s \in Sellers : Given(s) # {}}
BY DEF ChosenGive, QuoteTypes, Given, Range

\* Each turn keeps the keys of the allocation.
LEMMA ChosenStep == QuoteTypes /\ InHand /\ ChosenGive /\ [Next]_vars => ChosenGive'
<1> SUFFICES ASSUME QuoteTypes, InHand, ChosenGive, [Next]_vars PROVE ChosenGive'
  OBVIOUS
<1> USE DEF listing, sums
<1>1. CASE alloc' = alloc /\ chosen' = chosen
  BY <1>1 DEF ChosenGive
<1>2. ASSUME NEW i \in lots, TakeLot(i) PROVE ChosenGive'
  <2> DEFINE s    == book[item][i].seller
             take == Smaller(Remaining(i), needed)
  <2>1. /\ s \in Sellers /\ take \in Nat /\ item \in Elements
        /\ alloc' = [alloc EXCEPT ![s][item] = @ + take]
    <3>1. book[item][i] \in Lot
      BY <1>2, TakeEffect
    <3> QED BY <1>2, <3>1, TakeEffect DEF Lot, QuoteTypes
  <2>2. take > 0
    <3>1. Remaining(i) > 0 /\ needed > 0
      BY <1>2 DEF TakeLot
    <3> QED BY <3>1 DEF Smaller
  <2>3. /\ alloc'[s][item] > 0
        /\ \A r \in Sellers, e \in Elements :
             /\ alloc[r][e] > 0 => alloc'[r][e] > 0
             /\ alloc'[r][e] > 0 => alloc[r][e] > 0 \/ r = s
    <3> HIDE DEF s, take
    <3> QED BY <2>1, <2>2 DEF QuoteTypes
  <2>4. CASE s \in Range(chosen)
    <3>1. chosen' = chosen
      BY <1>2, <2>4 DEF TakeLot
    <3>2. \A k \in DOMAIN chosen : chosen[k] \in Sellers
      BY DEF QuoteTypes
    <3>3. \E k \in DOMAIN chosen : chosen[k] = s
      BY <2>4 DEF Range
    <3> HIDE DEF s
    <3> QED BY <2>1, <2>3, <3>1, <3>2, <3>3 DEF ChosenGive
  <2>5. CASE s \notin Range(chosen)
    <3>1. chosen' = Append(chosen, s)
      BY <1>2, <2>5 DEF TakeLot
    <3>2. \A k \in DOMAIN chosen : chosen[k] \in Sellers /\ chosen[k] # s
      BY <2>5 DEF Range, QuoteTypes
    <3> HIDE DEF s
    <3>3. /\ DOMAIN chosen = 1..Len(chosen) /\ Len(chosen) \in Nat
          /\ DOMAIN chosen' = 1..(Len(chosen) + 1)
          /\ \A k \in 1..(Len(chosen) + 1) :
               chosen'[k] = IF k = Len(chosen) + 1 THEN s ELSE chosen[k]
      BY <2>1, <3>1, AppendProperties DEF QuoteTypes
    <3>4. \A k, m \in DOMAIN chosen' : chosen'[k] = chosen'[m] => k = m
      BY <3>2, <3>3 DEF ChosenGive
    <3>5. \A k \in DOMAIN chosen' : \E e \in Elements : alloc'[chosen'[k]][e] > 0
      BY <2>1, <2>3, <3>2, <3>3 DEF ChosenGive
    <3>6. ASSUME NEW r \in Sellers, NEW e \in Elements, alloc'[r][e] > 0
          PROVE  \E k \in DOMAIN chosen' : chosen'[k] = r
      <4>1. CASE r = s
        BY <3>3, <4>1
      <4>2. CASE r # s
        <5>1. PICK k \in DOMAIN chosen : chosen[k] = r
          BY <2>3, <3>6, <4>2 DEF ChosenGive
        <5> QED BY <3>3, <5>1
      <4> QED BY <4>1, <4>2
    <3> QED BY <3>4, <3>5, <3>6 DEF ChosenGive
  <2> QED BY <2>4, <2>5
<1>3. CASE Consolidate
  <2>1. PICK i \in DOMAIN chosen, j \in DOMAIN chosen : BestMove(i, j) /\ Merge(i, j)
    BY <1>3 DEF Consolidate
  <2> DEFINE b == chosen[i]
             a == chosen[j]
  <2>2. /\ a \in Sellers /\ b \in Sellers /\ a # b
        /\ alloc' \in [Sellers -> [Elements -> Nat]]
        /\ \A e \in Elements :
             /\ alloc'[b][e] = 0
             /\ alloc'[a][e] = alloc[a][e] + alloc[b][e]
             /\ \A s \in Sellers \ {a, b} : alloc'[s][e] = alloc[s][e]
    BY <2>1, MoveEffect
  <2>3. chosen' = RemoveAt(chosen, i)
    BY <2>1 DEF Merge
  <2>4. /\ DOMAIN chosen' = 1..(Len(chosen) - 1) /\ DOMAIN chosen = 1..Len(chosen)
        /\ Len(chosen) \in Nat
        /\ \A k \in 1..(Len(chosen) - 1) :
             chosen'[k] = IF k < i THEN chosen[k] ELSE chosen[k + 1]
    <3>1. chosen \in Seq(Sellers)
      BY DEF QuoteTypes
    <3>2. /\ RemoveAt(chosen, i) \in Seq(Sellers)
          /\ Len(RemoveAt(chosen, i)) = Len(chosen) - 1
          /\ \A k \in 1..(Len(chosen) - 1) :
               RemoveAt(chosen, i)[k] = IF k < i THEN chosen[k] ELSE chosen[k + 1]
      BY <3>1, RemoveAtEffect
    <3> QED BY <2>3, <3>1, <3>2
  <2>5. \A k \in DOMAIN chosen' :
           \E m \in DOMAIN chosen :
             m # i /\ chosen'[k] = chosen[m] /\ m = (IF k < i THEN k ELSE k + 1)
    BY <2>4
  <2>6. \A k \in DOMAIN chosen : chosen[k] \in Sellers /\ (k # i => chosen[k] # b)
    BY DEF ChosenGive, QuoteTypes
  <2>7. \A m \in DOMAIN chosen : m # i => \E k \in DOMAIN chosen' : chosen'[k] = chosen[m]
    <3> TAKE m \in DOMAIN chosen
    <3> HAVE m # i
    <3>1. CASE m < i
      BY <2>4, <3>1
    <3>2. CASE m > i
      <4>1. m - 1 \in 1..(Len(chosen) - 1) /\ ~(m - 1 < i) /\ (m - 1) + 1 = m
        BY <2>4, <3>2
      <4> QED BY <2>4, <4>1
    <3> QED BY <2>4, <3>1, <3>2
  <2>8. \A k, m \in DOMAIN chosen' : chosen'[k] = chosen'[m] => k = m
    BY <2>4, <2>5 DEF ChosenGive
  <2> HIDE DEF a, b
  <2>9. \A s \in Sellers, e \in Elements : s # b /\ alloc[s][e] > 0 => alloc'[s][e] > 0
    <3> TAKE s \in Sellers, e \in Elements
    <3>1. alloc[s][e] \in Nat /\ alloc[a][e] \in Nat /\ alloc[b][e] \in Nat
      BY <2>2 DEF QuoteTypes
    <3> QED BY <2>2, <3>1
  <2>10. ASSUME NEW k \in DOMAIN chosen'
         PROVE  \E e \in Elements : alloc'[chosen'[k]][e] > 0
    <3>1. PICK m \in DOMAIN chosen : m # i /\ chosen'[k] = chosen[m]
      BY <2>5
    <3>2. PICK e \in Elements : alloc[chosen[m]][e] > 0
      BY DEF ChosenGive
    <3>3. chosen[m] \in Sellers /\ chosen[m] # b
      BY <2>6, <3>1
    <3>4. alloc'[chosen[m]][e] > 0
      BY <2>9, <3>2, <3>3
    <3> QED BY <3>1, <3>4
  <2>11. ASSUME NEW s \in Sellers, NEW e \in Elements, alloc'[s][e] > 0
         PROVE  \E k \in DOMAIN chosen' : chosen'[k] = s
    <3>1. s # b
      BY <2>2, <2>11
    <3>2. PICK m \in DOMAIN chosen : chosen[m] = s
      <4>1. CASE s = a
        BY <4>1 DEF a
      <4>2. CASE s # a
        BY <2>2, <2>11, <3>1, <4>2 DEF ChosenGive
      <4> QED BY <4>1, <4>2
    <3>3. m # i
      BY <3>1, <3>2 DEF b
    <3> QED BY <2>7, <3>2, <3>3
  <2> QED BY <2>8, <2>10, <2>11 DEF ChosenGive
<1> QED
  BY <1>1, <1>2, <1>3
  DEF Next, SaveOrderList, CopyOrderList, FetchListings, NextItem, SkipLot, ItemDone,
      Pass1Done, BuildQuote, Confirm, vars

-----------------------------------------------------------------------------
(* Prices.                                                                   *)

\* The price of a seller is that of his first lot.
LEMMA FirstPriceIs ==
  ASSUME QuoteTypes, NEW e \in Elements, NEW s, NEW i \in DOMAIN book[e], IsFirstLot(i, s, e)
  PROVE  FirstPrice(s, e) = book[e][i].price /\ FirstPrice(s, e) \in Nat
<1> DEFINE k == CHOOSE j \in DOMAIN book[e] : IsFirstLot(j, s, e)
<1>1. k \in DOMAIN book[e] /\ IsFirstLot(k, s, e)
  OBVIOUS
<1>2. DOMAIN book[e] \subseteq Nat \ {0}
  BY DEF QuoteTypes
<1>3. FirstPrice(s, e) = book[e][k].price
  BY DEF FirstPrice
<1> HIDE DEF k
<1>4. k = i
  <2>1. ~(k < i) /\ ~(i < k)
    BY <1>1, <1>2 DEF IsFirstLot
  <2> QED BY <1>1, <1>2, <2>1
<1>5. book[e][i].price \in Nat
  BY LotsAreLots DEF Lot
<1> QED BY <1>3, <1>4, <1>5

\* A product of natural numbers.
LEMMA Product == \A m, n \in Nat : m * n \in Nat
OBVIOUS

\* The elements of a seller are finitely many.
LEMMA GivenIsFinite == \A s : IsFiniteSet(Given(s)) /\ Given(s) \subseteq Elements
BY SellersAssumption, FS_Subset DEF Given

\* What the absorbed share costs.
LEMMA AbsorbedIsNat ==
  ASSUME QuoteTypes, NEW a \in Sellers, NEW b \in Sellers, Feasible(b, a)
  PROVE  AbsorbedCost(b, a) \in Nat
<1> DEFINE f == [e \in Given(b) |-> alloc[b][e] * FirstPrice(a, e)]
<1>1. ASSUME NEW e \in Given(b) PROVE f[e] \in Nat
  <2>1. e \in Elements /\ alloc[b][e] \in Nat
    BY DEF Given, QuoteTypes
  <2>2. PICK i \in DOMAIN book[e] : IsFirstLot(i, a, e)
    BY DEF Feasible
  <2>3. FirstPrice(a, e) \in Nat
    BY <2>1, <2>2, FirstPriceIs
  <2> QED BY <2>1, <2>3, Product
<1>2. AbsorbedCost(b, a) = Sum(f, Given(b))
  BY TotalIsSum DEF AbsorbedCost
<1> HIDE DEF f
<1> QED BY <1>1, <1>2, GivenIsFinite, SumIsNat

\* The fee.
LEMMA FeeIsNat == \A t \in Nat : LaigoFee(t) \in Nat
<1> TAKE t \in Nat
<1>1. t * FeePercent \in Nat /\ FeeMin \in Nat
  BY PricesAssumption, Product
<1>2. \A n \in Nat : n \div 100 \in Nat
  OBVIOUS
<1> QED BY <1>1, <1>2 DEF LaigoFee, Larger

\* What the waiver of LEGO.com's shipping takes off the sum of the shippings.
LEMMA ChargedIsNat ==
  ASSUME QuoteTypes, shipping \in [Sellers -> Nat]
  PROVE  LET charged == Total([s \in Range(chosen) |-> shipping[s]])
             saved   == IF WaivesShipping THEN shipping[Lego] ELSE 0
         IN  charged \in Nat /\ saved \in Nat /\ charged - saved \in Nat
<1> DEFINE f     == [s \in Range(chosen) |-> shipping[s]]
           R     == Range(chosen)
           saved == IF WaivesShipping THEN shipping[Lego] ELSE 0
<1>1. R \subseteq Sellers /\ IsFiniteSet(R)
  <2>1. R \subseteq Sellers
    BY DEF QuoteTypes, Range
  <2> QED BY <2>1, SellersAssumption, FS_Subset
<1>2. \A s \in R : f[s] \in Nat
  BY <1>1
<1>3. Total(f) = Sum(f, R)
  BY TotalIsSum
<1>4. saved \in Nat
  BY SellersAssumption
<1>5. WaivesShipping => Lego \in R /\ f[Lego] = shipping[Lego]
  BY DEF WaivesShipping
<1> HIDE DEF f, R
<1>6. Sum(f, R) \in Nat
  BY <1>1, <1>2, SumIsNat
<1>7. ASSUME WaivesShipping PROVE Sum(f, R) - shipping[Lego] \in Nat
  <2>1. Sum(f, R) = f[Lego] + Sum(f, R \ {Lego})
    BY <1>1, <1>2, <1>5, <1>7, SumTakes
  <2>2. Sum(f, R \ {Lego}) \in Nat
    BY <1>1, <1>2, FS_Subset, SumIsNat
  <2>3. f[Lego] = shipping[Lego] /\ f[Lego] \in Nat
    BY <1>2, <1>5, <1>7
  <2> QED BY <2>1, <2>2, <2>3
<1>8. Sum(f, R) - saved \in Nat
  BY <1>4, <1>6, <1>7
<1> QED BY <1>3, <1>4, <1>6, <1>8 DEF f, R

\* The pieces' price of the chosen sellers.
LEMMA PiecesAreNat ==
  ASSUME QuoteTypes, cost \in [Sellers -> Nat]
  PROVE  Total([s \in Range(chosen) |-> cost[s]]) \in Nat
<1> DEFINE f == [s \in Range(chosen) |-> cost[s]]
<1>1. Range(chosen) \subseteq Sellers
  BY DEF QuoteTypes, Range
<1>2. \A s \in Range(chosen) : f[s] \in Nat
  BY <1>1
<1>3. Total(f) = Sum(f, Range(chosen))
  BY TotalIsSum
<1> HIDE DEF f
<1>4. Sum(f, Range(chosen)) \in Nat
  BY <1>1, <1>2, SellersAssumption, FS_Subset, SumIsNat
<1> QED BY <1>3, <1>4 DEF f

\* Each turn keeps the types of the rest.
LEMMA RestStep == QuoteTypes /\ InHand /\ RestTypes /\ [Next]_vars => RestTypes'
<1> SUFFICES ASSUME QuoteTypes, InHand, RestTypes, [Next]_vars PROVE RestTypes'
  OBVIOUS
<1> USE DEF listing, sums
<1>1. CASE SaveOrderList
  <2>1. MaxParts \in Nat
    BY SomeFile DEF QuoteTypes
  <2>2. \A n \in 1..MaxParts : [e \in Elements |-> QtyForFile(n, e)] \in [Elements -> Nat]
    BY QtyIsNat DEF QuoteTypes
  <2>3. files' = [n \in 1..MaxParts |-> [e \in Elements |-> QtyForFile(n, e)]]
    BY <1>1 DEF SaveOrderList
  <2>4. files' \in Seq([Elements -> Nat])
    BY <2>1, <2>2, <2>3
  <2> QED BY <1>1, <2>4 DEF SaveOrderList, RestTypes
<1>2. CASE CopyOrderList
  <2>1. files' = <<>>
    BY <1>2 DEF CopyOrderList
  <2>2. files' \in Seq([Elements -> Nat])
    BY <2>1, EmptySeq
  <2> QED BY <1>2, <2>2 DEF CopyOrderList, RestTypes
<1>4. ASSUME NEW e \in Elements, NextItem(e) PROVE RestTypes'
  <2>1. lots' = DOMAIN book[e] /\ DOMAIN book[e] \subseteq Nat /\ preferred' = Range(chosen)
    BY <1>4 DEF NextItem, QuoteTypes
  <2>2. Range(chosen) \subseteq Sellers
    BY DEF Range, QuoteTypes
  <2> QED BY <1>4, <2>1, <2>2 DEF NextItem, RestTypes
<1>5. ASSUME NEW i \in lots, TakeLot(i) PROVE RestTypes'
  <2> DEFINE lot  == book[item][i]
             take == Smaller(Remaining(i), needed)
  <2>1. lot \in Lot /\ take \in Nat
    BY <1>5, TakeEffect
  <2>2. lot.seller \in Sellers /\ lot.price \in Nat /\ lot.shipping \in Nat
    BY <2>1 DEF Lot
  <2>3. cost' = [cost EXCEPT ![lot.seller] = @ + take * lot.price]
    BY <1>5 DEF TakeLot
  <2>4. shipping' = shipping \/ shipping' = [shipping EXCEPT ![lot.seller] = lot.shipping]
    BY <1>5 DEF TakeLot
  <2>5. lots' \subseteq lots /\ UNCHANGED <<files, preferred, quote>>
    BY <1>5 DEF TakeLot
  <2> HIDE DEF lot, take
  <2>6. take * lot.price \in Nat
    BY <2>1, <2>2, Product
  <2>7. cost' \in [Sellers -> Nat]
    BY <2>2, <2>3, <2>6 DEF RestTypes
  <2>8. shipping' \in [Sellers -> Nat]
    BY <2>2, <2>4 DEF RestTypes
  <2> QED BY <2>5, <2>7, <2>8 DEF RestTypes
<1>7. CASE ItemDone
  BY <1>7 DEF ItemDone, RestTypes
<1>9. CASE Consolidate
  <2>1. PICK i \in DOMAIN chosen, j \in DOMAIN chosen : BestMove(i, j) /\ Merge(i, j)
    BY <1>9 DEF Consolidate
  <2> DEFINE b == chosen[i]
             a == chosen[j]
  <2>2. a \in Sellers /\ b \in Sellers /\ Feasible(b, a)
    BY <2>1, MoveEffect
  <2>3. AbsorbedCost(b, a) \in Nat
    BY <2>2, AbsorbedIsNat
  <2>4. cost' = [cost EXCEPT ![a] = @ + AbsorbedCost(b, a), ![b] = 0]
    BY <2>1 DEF Merge
  <2> HIDE DEF a, b
  <2>5. cost' \in [Sellers -> Nat]
    BY <2>2, <2>3, <2>4 DEF RestTypes
  <2> QED BY <1>9, <2>5 DEF Consolidate, RestTypes
<1>10. CASE BuildQuote
  <2> DEFINE pieces  == Total([s \in Range(chosen) |-> cost[s]])
             charged == Total([s \in Range(chosen) |-> shipping[s]])
             saved   == IF WaivesShipping THEN shipping[Lego] ELSE 0
             total   == pieces + charged - saved
  <2>1. pieces \in Nat /\ charged \in Nat /\ saved \in Nat /\ charged - saved \in Nat
    BY PiecesAreNat, ChargedIsNat DEF RestTypes
  <2>2. quote' = [pieces |-> pieces, shipping |-> charged - saved,
                  charge |-> total + LaigoFee(total)]
    BY <1>10 DEF BuildQuote
  <2>3. shipping' \in [Sellers -> Nat]
    BY <1>10 DEF BuildQuote, RestTypes
  <2> HIDE DEF pieces, charged, saved
  <2>4. total \in Nat
    BY <2>1
  <2>5. LaigoFee(total) \in Nat
    BY <2>4, FeeIsNat
  <2> HIDE DEF total
  <2>6. quote' \in [pieces : Nat, shipping : Nat, charge : Nat]
    BY <2>1, <2>2, <2>4, <2>5
  <2> QED BY <1>10, <2>3, <2>6 DEF BuildQuote, RestTypes
<1> QED
  BY <1>1, <1>2, <1>4, <1>5, <1>7, <1>9, <1>10
  DEF Next, FetchListings, SkipLot, Pass1Done, Confirm, vars, RestTypes

-----------------------------------------------------------------------------
(* The split.                                                                *)

\* The parts are just enough for the largest count: the last is not empty.
LEMMA PartsSuffice ==
  ASSUME order \in Orders
  PROVE  /\ MaxQty \in Nat \ {0} /\ \E e \in Elements : order[e] = MaxQty
         /\ \A e \in Elements : order[e] \in Nat /\ order[e] <= MaxQty
         /\ MaxParts * MaxPerItem >= MaxQty
         /\ (MaxParts - 1) * MaxPerItem < MaxQty
<1>1. PICK n \in Range(order) : n > 0 /\ \A m \in Range(order) : m <= n
  BY OrdersAssumption
<1>2. order \in [Elements -> Nat]
  BY OrdersAssumption
<1>3. MaxQty \in Range(order) /\ \A m \in Range(order) : m <= MaxQty
  BY <1>1 DEF MaxQty
<1>4. Range(order) \subseteq Nat /\ \A e \in Elements : order[e] \in Range(order)
  BY <1>2 DEF Range
<1>5. MaxQty \in Nat \ {0}
  BY <1>1, <1>3, <1>4
<1>6. \E e \in Elements : order[e] = MaxQty
  BY <1>2, <1>3 DEF Range
<1>7. \A c \in Nat \ {0}, q \in Nat \ {0} :
         /\ ((q + c - 1) \div c) * c >= q
         /\ (((q + c - 1) \div c) - 1) * c < q
  <2> TAKE c \in Nat \ {0}, q \in Nat \ {0}
  <2> DEFINE x == q + c - 1
             d == x \div c
  <2>1. x \in Nat /\ x = q + c - 1
    OBVIOUS
  <2> HIDE DEF x
  <2>2. d \in Nat /\ d * c <= x /\ x < d * c + c
    <3>1. x % c \in 0..(c - 1) /\ x = c * (x \div c) + (x % c)
      BY <2>1, SMT
    <3>2. d \in Nat
      BY <2>1, SMT
    <3> HIDE DEF d
    <3>3. x = c * d + (x % c)
      BY <3>1 DEF d
    <3> QED BY <2>1, <3>1, <3>2, <3>3
  <2> HIDE DEF d
  <2>3. (d - 1) * c = d * c - c
    BY <2>2
  <2>4. d * c >= q /\ (d - 1) * c < q
    <3>1. d * c \in Nat
      BY <2>2, Product
    <3> QED BY <2>1, <2>2, <2>3, <3>1
  <2> QED BY <2>4 DEF d, x
<1> QED BY <1>3, <1>4, <1>5, <1>6, <1>7, PricesAssumption DEF MaxParts

\* The first k files hold the order up to k times the cap.
LEMMA FilesUpTo ==
  ASSUME order \in Orders, NEW N \in Nat, NEW e \in Elements,
         NEW q, \A n \in 1..N : q[n] = QtyForFile(n, e)
  PROVE  Sum(q, 1..N) = Smaller(order[e], N * MaxPerItem)
<1>0. order[e] \in Nat /\ MaxPerItem \in Nat
  BY OrdersAssumption, PricesAssumption
<1> DEFINE F == {T \in SUBSET (1..N) :
                   \E k \in 0..N : T = 1..k /\ Sum(q, T) # Smaller(order[e], k * MaxPerItem)}
<1>1. SUFFICES ASSUME F # {} PROVE FALSE
  <2>1. F = {} => Sum(q, 1..N) = Smaller(order[e], N * MaxPerItem)
    OBVIOUS
  <2> QED BY <2>1
<1>2. IsFiniteSet(1..N)
  BY FS_Interval
<1>3. PICK T \in F : \A U \in SUBSET T : U # T => U \notin F
  <2> HIDE DEF F
  <2>1. F \subseteq SUBSET (1..N)
    BY DEF F
  <2> QED BY <1>1, <1>2, <2>1, SmallestSubset
<1>4. PICK k \in 0..N : T = 1..k /\ Sum(q, 1..k) # Smaller(order[e], k * MaxPerItem)
  OBVIOUS
<1>5. k # 0
  <2> SUFFICES ASSUME k = 0 PROVE FALSE
    OBVIOUS
  <2>1. 1..k = {} /\ Sum(q, {}) = 0 /\ k * MaxPerItem = 0
    BY <1>0, SumEmpty
  <2> QED BY <1>0, <1>4, <2>1 DEF Smaller
<1>6. /\ k - 1 \in 0..N /\ 1..(k - 1) \subseteq T /\ 1..(k - 1) # T
      /\ 1..(k - 1) \in SUBSET (1..N)
      /\ (1..k) \ {k} = 1..(k - 1) /\ k \in 1..k
  BY <1>4, <1>5
<1>7. Sum(q, 1..(k - 1)) = Smaller(order[e], (k - 1) * MaxPerItem)
  BY <1>3, <1>6
<1>8. \A n \in 1..k : q[n] \in Nat
  <2> TAKE n \in 1..k
  <2>1. n \in 1..N /\ n \in Nat \ {0}
    OBVIOUS
  <2> QED BY <2>1, QtyIsNat
<1>9. Sum(q, 1..k) = q[k] + Sum(q, 1..(k - 1))
  <2>1. IsFiniteSet(1..k)
    BY FS_Interval
  <2>2. \A n \in 1..k : q[n] \in Int
    BY <1>8
  <2>3. Sum(q, 1..k) = q[k] + Sum(q, (1..k) \ {k})
    BY <1>6, <2>1, <2>2, SumTakes
  <2> QED BY <1>6, <2>3
<1>10. q[k] = Smaller(Larger(order[e] - (k - 1) * MaxPerItem, 0), MaxPerItem)
  BY <1>5 DEF QtyForFile
<1>11. PICK p : p = (k - 1) * MaxPerItem
  OBVIOUS
<1>12. p \in Nat /\ k * MaxPerItem = p + MaxPerItem
  BY <1>0, <1>5, <1>11, Product
<1>13. Sum(q, 1..k) = Smaller(order[e], p + MaxPerItem)
  BY <1>0, <1>7, <1>9, <1>10, <1>11, <1>12 DEF Smaller, Larger
<1> QED BY <1>4, <1>12, <1>13

\* SaveDictAsJsonsOptimized splits the order whole, and no other turn writes files.
LEMMA SplitStep == QuoteTypes /\ SplitIsWhole /\ [Next]_vars => SplitIsWhole'
<1> SUFFICES ASSUME QuoteTypes, SplitIsWhole, [Next]_vars PROVE SplitIsWhole'
  OBVIOUS
<1> USE DEF listing, sums
<1>1. CASE SaveOrderList
  <2>1. /\ files' = [n \in 1..MaxParts |-> [e \in Elements |-> QtyForFile(n, e)]]
        /\ order' = order /\ order \in Orders
    BY <1>1 DEF SaveOrderList, QuoteTypes
  <2>2. DOMAIN files' = 1..MaxParts /\ MaxParts \in Nat
    BY <2>1, SomeFile
  <2>3. MaxPerItem \in Nat \ {0}
    BY PricesAssumption
  <2>4. ASSUME NEW e \in Elements
        PROVE  Total([n \in DOMAIN files' |-> files'[n][e]]) = order'[e]
    <3> DEFINE q == [n \in DOMAIN files' |-> files'[n][e]]
    <3>1. DOMAIN q = 1..MaxParts /\ \A n \in 1..MaxParts : q[n] = QtyForFile(n, e)
      BY <2>1, <2>2
    <3>2. Total(q) = Sum(q, 1..MaxParts)
      BY <3>1, TotalIsSum
    <3> HIDE DEF q
    <3>3. Sum(q, 1..MaxParts) = Smaller(order[e], MaxParts * MaxPerItem)
      BY <2>1, <2>2, <3>1, FilesUpTo
    <3>4. order[e] \in Nat /\ order[e] <= MaxParts * MaxPerItem
      <4>1. /\ order[e] \in Nat /\ order[e] <= MaxQty /\ MaxQty \in Nat
            /\ MaxQty <= MaxParts * MaxPerItem
        BY <2>1, PartsSuffice
      <4>2. MaxParts * MaxPerItem \in Nat
        BY <2>2, <2>3, Product
      <4> QED BY <4>1, <4>2
    <3>5. Smaller(order[e], MaxParts * MaxPerItem) = order[e]
      <4>1. MaxParts * MaxPerItem \in Nat
        BY <2>2, <2>3, Product
      <4> QED BY <3>4, <4>1 DEF Smaller
    <3> QED BY <2>1, <3>2, <3>3, <3>5 DEF q
  <2>5. ASSUME NEW n \in DOMAIN files', NEW e \in Elements PROVE files'[n][e] <= MaxPerItem
    <3>1. files'[n][e] = QtyForFile(n, e) /\ n \in Nat
      BY <2>1, <2>2
    <3>2. order[e] \in Nat /\ (n - 1) * MaxPerItem \in Int
      BY <2>1, <2>3, <3>1, PartsSuffice
    <3> QED BY <2>3, <3>1, <3>2 DEF QtyForFile, Smaller, Larger
  <2>6. ASSUME NEW n \in DOMAIN files' PROVE files'[n] # Nothing'
    <3>1. PICK e \in Elements : order[e] = MaxQty
      BY <2>1, PartsSuffice
    <3>2. files'[n][e] = QtyForFile(n, e) /\ n \in 1..MaxParts
      BY <2>1, <2>2
    <3>3. (n - 1) * MaxPerItem <= (MaxParts - 1) * MaxPerItem
      BY <2>2, <2>3, <3>2
    <3>4. order[e] \in Nat /\ (MaxParts - 1) * MaxPerItem < order[e]
      BY <2>1, <3>1, PartsSuffice
    <3>5. (n - 1) * MaxPerItem \in Int /\ (MaxParts - 1) * MaxPerItem \in Int
      BY <2>2, <2>3, <3>2
    <3>6. order[e] - (n - 1) * MaxPerItem > 0
      BY <3>3, <3>4, <3>5
    <3>7. QtyForFile(n, e) > 0
      BY <2>3, <3>4, <3>5, <3>6 DEF QtyForFile, Smaller, Larger
    <3>8. files'[n][e] # 0
      BY <2>3, <3>2, <3>4, <3>5, <3>7 DEF QtyForFile, Smaller, Larger
    <3> QED BY <3>8 DEF Nothing
  <2> QED BY <2>4, <2>5, <2>6 DEF SplitIsWhole
<1>2. CASE UNCHANGED vars
  BY <1>2 DEF vars, SplitIsWhole
<1> QED
  BY <1>1, <1>2
  DEF Next, CopyOrderList, FetchListings, NextItem, TakeLot, SkipLot, ItemDone, Pass1Done,
      Consolidate, BuildQuote, Confirm, SplitIsWhole

-----------------------------------------------------------------------------
(* Nothing is lost.                                                          *)

\* What an allocation gives of an element, all sellers together.
SharesOf(al, e) == Total([s \in Sellers |-> al[s][e]])

\* What is given of an element, all sellers together, is a natural number.
LEMMA SharesAreNat ==
  ASSUME NEW al \in [Sellers -> [Elements -> Nat]], NEW e \in Elements
  PROVE  SharesOf(al, e) \in Nat
<1> DEFINE f == [s \in Sellers |-> al[s][e]]
<1>1. \A s \in Sellers : f[s] \in Nat
  OBVIOUS
<1>2. Total(f) = Sum(f, Sellers)
  BY TotalIsSum
<1> HIDE DEF f
<1>3. Sum(f, Sellers) \in Nat
  BY <1>1, SellersAssumption, SumIsNat
<1> QED BY <1>2, <1>3 DEF f, SharesOf

\* If one seller's share of an element changes, so does what is given of it.
LEMMA SharesChange ==
  ASSUME NEW al \in [Sellers -> [Elements -> Nat]], NEW bl \in [Sellers -> [Elements -> Nat]],
         NEW e \in Elements, NEW s \in Sellers, \A r \in Sellers \ {s} : bl[r][e] = al[r][e]
  PROVE  SharesOf(bl, e) =
           SharesOf(al, e) - al[s][e] + bl[s][e]
<1> DEFINE f == [r \in Sellers |-> al[r][e]]
           g == [r \in Sellers |-> bl[r][e]]
<1>1. \A r \in Sellers : f[r] \in Int /\ g[r] \in Int /\ (r # s => g[r] = f[r])
  OBVIOUS
<1>3. f[s] = al[s][e] /\ g[s] = bl[s][e]
  OBVIOUS
<1>4. Total(f) = Sum(f, Sellers) /\ Total(g) = Sum(g, Sellers)
  BY TotalIsSum
<1> HIDE DEF f, g
<1>5. Sum(g, Sellers) = Sum(f, Sellers) - f[s] + g[s]
  BY <1>1, SellersAssumption, SumChanges
<1> QED BY <1>3, <1>4, <1>5 DEF f, g, SharesOf

\* A move between sellers leaves what is given of an element as it is.
LEMMA SharesMove ==
  ASSUME NEW al \in [Sellers -> [Elements -> Nat]], NEW bl \in [Sellers -> [Elements -> Nat]],
         NEW e \in Elements, NEW a \in Sellers, NEW b \in Sellers, a # b,
         bl[b][e] = 0, bl[a][e] = al[a][e] + al[b][e],
         \A r \in Sellers : r # a /\ r # b => bl[r][e] = al[r][e]
  PROVE  SharesOf(bl, e) = SharesOf(al, e)
<1> DEFINE ml == [al EXCEPT ![b] = Nothing]
<1>1. /\ ml \in [Sellers -> [Elements -> Nat]]
      /\ ml[b][e] = 0 /\ \A r \in Sellers \ {b} : ml[r][e] = al[r][e]
  BY DEF Nothing
<1>2. \A r \in Sellers \ {a} : bl[r][e] = ml[r][e]
  BY <1>1
<1> HIDE DEF ml
<1>3. SharesOf(ml, e) =
        SharesOf(al, e) - al[b][e] + ml[b][e]
  BY <1>1, SharesChange
<1>4. SharesOf(bl, e) =
        SharesOf(ml, e) - ml[a][e] + bl[a][e]
  BY <1>1, <1>2, SharesChange
<1>5. SharesOf(al, e) \in Nat /\ al[a][e] \in Nat /\ al[b][e] \in Nat
  BY SharesAreNat
<1> QED BY <1>1, <1>3, <1>4, <1>5

\* In each turn a piece goes from the list to the element in hand, from there to a
\* seller or to the fallback list, and from seller to seller.
LEMMA NothingLostStep ==
  QuoteTypes /\ TurnInv /\ NothingLost /\ [Next]_vars => NothingLost'
<1> SUFFICES ASSUME QuoteTypes, TurnInv, NothingLost, [Next]_vars PROVE NothingLost'
  OBVIOUS
<1> USE DEF listing, sums
<1>0. NotYetGiven /\ InHand
  BY DEF TurnInv
<1> DEFINE ToDo(e)  == IF e \in todo THEN items[e] ELSE 0
           Held(e)  == IF at = "lots" /\ e = item THEN needed ELSE 0
           Kept(e)  == items[e] = Allocated(e) + fallback[e] + ToDo(e) + Held(e)
<1>a. \A e \in Elements : Allocated(e) \in Nat /\ items[e] \in Nat /\ fallback[e] \in Nat
  BY SharesAreNat DEF Allocated, SharesOf, QuoteTypes
<1>b. ~ NotBegun => \A e \in Elements : Kept(e)
  BY DEF NothingLost, NotBegun
<1>c. SUFFICES ASSUME NEW e \in Elements, at' \notin {"mosaic", "saved", "copied"} PROVE Kept(e)'
  BY DEF NothingLost
<1>d. alloc' = alloc => Allocated(e)' = Allocated(e)
  BY DEF Allocated
<1> HIDE DEF Kept
<1>1. CASE SaveOrderList \/ CopyOrderList
  BY <1>1, <1>c DEF SaveOrderList, CopyOrderList
<1>3. CASE FetchListings
  <2>1. /\ alloc' = alloc /\ items' = items /\ at' = "pass1" /\ at = "copied"
        /\ fallback'[e] = (IF book'[e] = <<>> THEN items[e] ELSE 0)
        /\ e \in todo' <=> items[e] > 0 /\ book'[e] # <<>>
    BY <1>3 DEF FetchListings
  <2>2. Allocated(e) = 0
    <3> DEFINE f == [s \in Sellers |-> alloc[s][e]]
    <3>1. \A s \in Sellers : f[s] = 0
      BY <1>0, <2>1 DEF NotYetGiven, NotBegun
    <3>2. Allocated(e) = Sum(f, Sellers)
      BY TotalIsSum DEF Allocated
    <3> HIDE DEF f
    <3> QED BY <3>1, <3>2, SellersAssumption, SumOfZeros
  <2> QED BY <1>a, <1>d, <2>1, <2>2 DEF Kept
<1>4. ASSUME NEW f \in Elements, NextItem(f) PROVE Kept(e)'
  <2>1. /\ at = "pass1" /\ f \in todo /\ item' = f /\ needed' = items[f] /\ todo' = todo \ {f}
        /\ at' = "lots" /\ UNCHANGED <<items, alloc, fallback>>
    BY <1>4 DEF NextItem
  <2> QED BY <1>a, <1>b, <1>d, <2>1 DEF Kept, NotBegun
<1>5. ASSUME NEW i \in lots, TakeLot(i) PROVE Kept(e)'
  <2> DEFINE lot  == book[item][i]
             take == Smaller(Remaining(i), needed)
  <2>1. /\ lot \in Lot /\ take \in Nat /\ needed' = needed - take /\ needed' \in Nat
        /\ alloc' = [alloc EXCEPT ![lot.seller][item] = @ + take]
        /\ alloc' \in [Sellers -> [Elements -> Nat]]
    BY <1>0, <1>5, TakeEffect
  <2>2. lot.seller \in Sellers /\ item \in Elements
    BY <2>1 DEF Lot, QuoteTypes
  <2>3. at = "lots" /\ UNCHANGED <<items, at, todo, item, fallback>>
    BY <1>5 DEF TakeLot
  <2>4. \A s \in Sellers, g \in Elements :
           alloc'[s][g] = IF s = lot.seller /\ g = item THEN alloc[s][g] + take ELSE alloc[s][g]
    BY <2>1, <2>2 DEF QuoteTypes
  <2> HIDE DEF lot, take
  <2>5. alloc \in [Sellers -> [Elements -> Nat]] /\ needed \in Nat
    BY DEF QuoteTypes
  <2>5a. alloc' \in [Sellers -> [Elements -> Nat]]
    BY <2>1
  <2>6. Allocated(e)' = Allocated(e) - alloc[lot.seller][e] + alloc'[lot.seller][e]
    <3>1. \A r \in Sellers \ {lot.seller} : alloc'[r][e] = alloc[r][e]
      BY <2>4
    <3>2. SharesOf(alloc', e) =
            SharesOf(alloc, e) - alloc[lot.seller][e] + alloc'[lot.seller][e]
      BY <2>2, <2>5, <2>5a, <3>1, SharesChange
    <3> QED BY <3>2 DEF Allocated, SharesOf
  <2>7. Allocated(e)' = Allocated(e) + (IF e = item THEN take ELSE 0)
    BY <1>a, <2>1, <2>2, <2>4, <2>5, <2>6
  <2>8. Kept(e)
    BY <1>b, <2>3 DEF NotBegun
  <2> QED BY <1>a, <2>1, <2>3, <2>5, <2>7, <2>8 DEF Kept
<1>6. ASSUME NEW i \in lots, SkipLot(i) PROVE Kept(e)'
  BY <1>6, <1>b, <1>d DEF SkipLot, Kept, NotBegun
<1>7. CASE ItemDone
  <2>1. /\ at = "lots" /\ at' = "pass1" /\ fallback' = [fallback EXCEPT ![item] = needed]
        /\ needed' = 0 /\ UNCHANGED <<items, todo, item, alloc>>
    BY <1>7 DEF ItemDone
  <2>2. Kept(e) /\ item \notin todo /\ fallback[item] = 0 /\ needed \in Nat
    BY <1>0, <1>b, <2>1 DEF NotBegun, InHand, QuoteTypes
  <2>3. fallback'[e] = IF e = item THEN needed ELSE fallback[e]
    BY <2>1 DEF QuoteTypes
  <2> QED BY <1>a, <1>d, <2>1, <2>2, <2>3 DEF Kept
<1>8. CASE Pass1Done
  BY <1>8, <1>b, <1>d DEF Pass1Done, Kept, NotBegun
<1>9. CASE Consolidate
  <2>1. PICK i \in DOMAIN chosen, j \in DOMAIN chosen : BestMove(i, j) /\ Merge(i, j)
    BY <1>9 DEF Consolidate
  <2> DEFINE b == chosen[i]
             a == chosen[j]
  <2>2. /\ a \in Sellers /\ b \in Sellers /\ a # b
        /\ alloc' \in [Sellers -> [Elements -> Nat]]
        /\ alloc'[b][e] = 0 /\ alloc'[a][e] = alloc[a][e] + alloc[b][e]
        /\ \A s \in Sellers \ {a, b} : alloc'[s][e] = alloc[s][e]
    BY <2>1, MoveEffect
  <2> HIDE DEF a, b
  <2>3. Allocated(e)' = Allocated(e)
    <3>1. alloc \in [Sellers -> [Elements -> Nat]] /\ alloc' \in [Sellers -> [Elements -> Nat]]
      BY <2>2 DEF QuoteTypes
    <3>2. a \in Sellers /\ b \in Sellers /\ a # b
      BY <2>2
    <3>3. /\ alloc'[b][e] = 0 /\ alloc'[a][e] = alloc[a][e] + alloc[b][e]
          /\ \A s \in Sellers \ {a, b} : alloc'[s][e] = alloc[s][e]
      BY <2>2
    <3> PICK al : al = alloc
      OBVIOUS
    <3> PICK bl : bl = alloc'
      OBVIOUS
    <3>4. /\ al \in [Sellers -> [Elements -> Nat]] /\ bl \in [Sellers -> [Elements -> Nat]]
          /\ bl[b][e] = 0 /\ bl[a][e] = al[a][e] + al[b][e]
          /\ \A s \in Sellers : s # a /\ s # b => bl[s][e] = al[s][e]
      BY <3>1, <3>3
    <3>5. SharesOf(bl, e) = SharesOf(al, e)
      BY <3>2, <3>4, SharesMove
    <3> QED BY <3>5 DEF Allocated, SharesOf
  <2>4. at = "pass2" /\ UNCHANGED <<at, items, todo, fallback>>
    BY <1>9 DEF Consolidate
  <2> QED BY <1>b, <2>3, <2>4 DEF Kept, NotBegun
<1>10. CASE BuildQuote
  BY <1>10, <1>b, <1>d DEF BuildQuote, Kept, NotBegun
<1>11. CASE Confirm
  BY <1>11, <1>b, <1>d DEF Confirm, Kept, NotBegun
<1>12. CASE UNCHANGED vars
  BY <1>12, <1>b, <1>c, <1>d DEF vars, Kept, NotBegun
<1> QED BY <1>1, <1>3, <1>4, <1>5, <1>6, <1>7, <1>8, <1>9, <1>10, <1>11, <1>12 DEF Next

-----------------------------------------------------------------------------
(* What an allocation costs.                                                 *)

\* The same, element by element.
LineOf(al, s, e) == IF al[s][e] > 0 THEN al[s][e] * FirstPrice(s, e) ELSE 0

\* The pieces and the parcel of one seller.
ParcelOf(al, s) ==
  IF {e \in Elements : al[s][e] > 0} = {} THEN 0 ELSE shipping[s] + PiecesOf(al, s)

\* The price is the sum over the sellers.
LEMMA PriceIsSum == \A al : PriceOf(al) = Sum([s \in Sellers |-> ParcelOf(al, s)], Sellers)
BY TotalIsSum DEF PriceOf, ParcelOf, PiecesOf

\* The pieces of a seller are the sum over all elements.
LEMMA PiecesAreLines ==
  ASSUME NEW al \in [Sellers -> [Elements -> Nat]], NEW s \in Sellers,
         \A e \in Elements : al[s][e] > 0 => FirstPrice(s, e) \in Nat
  PROVE  /\ \A e \in Elements : LineOf(al, s, e) \in Nat
         /\ PiecesOf(al, s) = Sum([e \in Elements |-> LineOf(al, s, e)], Elements)
         /\ PiecesOf(al, s) \in Nat
<1> DEFINE R == {e \in Elements : al[s][e] > 0}
           f == [e \in R |-> al[s][e] * FirstPrice(s, e)]
           g == [e \in Elements |-> LineOf(al, s, e)]
<1>1. \A e \in Elements : LineOf(al, s, e) \in Nat
  BY Product DEF LineOf
<1>2. /\ R \in SUBSET Elements
      /\ IsFiniteSet(Elements) /\ IsFiniteSet(R) /\ IsFiniteSet(Elements \ R)
  BY SellersAssumption, FS_Subset
<1>3. PiecesOf(al, s) = Sum(f, R)
  BY TotalIsSum DEF PiecesOf
<1>4. /\ \A e \in Elements : g[e] \in Int /\ g[e] \in Nat
      /\ \A e \in R : f[e] = g[e]
      /\ \A e \in Elements \ R : g[e] = 0
  BY <1>1 DEF LineOf
<1> HIDE DEF f, g, R
<1>5. Sum(g, Elements) = Sum(g, R) + Sum(g, Elements \ R)
  BY <1>2, <1>4, SumOfParts
<1>6. Sum(g, Elements \ R) = 0
  BY <1>2, <1>4, SumOfZeros
<1>7. Sum(f, R) = Sum(g, R)
  BY <1>2, <1>4, SumsAgree
<1>8. Sum(g, Elements) \in Nat /\ Sum(g, R) \in Int
  <2>1. \A e \in R : g[e] \in Int
    BY <1>2, <1>4
  <2> QED BY <1>2, <1>4, <2>1, SumIsNat, SumIsInt
<1>9. PiecesOf(al, s) = Sum(g, Elements)
  BY <1>3, <1>5, <1>6, <1>7, <1>8
<1> QED BY <1>1, <1>8, <1>9 DEF g

\* Where sellers have one lot each, each lot is the first of its seller.
LEMMA OnlyLotIsFirst ==
  ASSUME QuoteTypes, OneLotEach, NEW e \in Elements, NEW i \in DOMAIN book[e]
  PROVE  LET s == book[e][i].seller
         IN  IsFirstLot(i, s, e) /\ FirstPrice(s, e) = book[e][i].price
<1> DEFINE s == book[e][i].seller
<1>1. i \in Nat /\ \A j \in 1..(i - 1) : j \in DOMAIN book[e] /\ j # i
  BY DEF QuoteTypes
<1>2. IsFirstLot(i, s, e)
  BY <1>1 DEF IsFirstLot, OneLotEach
<1> QED BY <1>2, FirstPriceIs

\* What a seller gives has a price.
LEMMA GivenHasPrice ==
  ASSUME QuoteTypes, OneLotEach, NeverOversold, NEW s \in Sellers, NEW e \in Elements,
         alloc[s][e] > 0
  PROVE  FirstPrice(s, e) \in Nat
<1>1. PICK i \in DOMAIN book[e] : book[e][i].seller = s
  BY DEF NeverOversold, Given
<1>2. IsFirstLot(i, s, e)
  BY <1>1, OnlyLotIsFirst
<1> QED BY <1>2, FirstPriceIs

\* The pieces of an absorbed share at the absorber's prices are those at the old
\* prices and the extra cost.
LEMMA ExtraCostIs ==
  ASSUME QuoteTypes, OneLotEach, NeverOversold, NEW a \in Sellers, NEW b \in Sellers,
         Feasible(b, a)
  PROVE  /\ ExtraCost(b, a) \in Int
         /\ AbsorbedCost(b, a) = PiecesOf(alloc, b) + ExtraCost(b, a)
<1> DEFINE R == Given(b)
           f == [e \in R |-> alloc[b][e] * FirstPrice(b, e)]
           g == [e \in R |-> alloc[b][e] * (FirstPrice(a, e) - FirstPrice(b, e))]
           h == [e \in R |-> alloc[b][e] * FirstPrice(a, e)]
<1>1. ASSUME NEW e \in R PROVE f[e] \in Int /\ g[e] \in Int /\ h[e] = f[e] + g[e]
  <2>1. e \in Elements /\ alloc[b][e] \in Nat /\ alloc[b][e] > 0
    BY DEF Given, QuoteTypes
  <2>2. PICK i \in DOMAIN book[e] : IsFirstLot(i, a, e)
    BY DEF Feasible
  <2>3. FirstPrice(a, e) \in Nat /\ FirstPrice(b, e) \in Nat
    BY <2>1, <2>2, FirstPriceIs, GivenHasPrice
  <2>4. \A n, p, q \in Nat : /\ n * p \in Int /\ n * (q - p) \in Int
                             /\ n * q = n * p + n * (q - p)
    OBVIOUS
  <2> QED BY <2>1, <2>3, <2>4
<1>2. /\ AbsorbedCost(b, a) = Sum(h, R) /\ ExtraCost(b, a) = Sum(g, R)
      /\ PiecesOf(alloc, b) = Sum(f, R)
  BY TotalIsSum DEF AbsorbedCost, ExtraCost, PiecesOf, Given
<1> HIDE DEF f, g, h, R
<1>3. IsFiniteSet(R)
  BY GivenIsFinite DEF R
<1>4. Sum(h, R) = Sum(f, R) + Sum(g, R)
  BY <1>1, <1>3, SumOfSums
<1>5. Sum(g, R) \in Int
  BY <1>1, <1>3, SumIsInt
<1> QED BY <1>2, <1>4, <1>5

\* After a move the absorber's pieces cost what they did and the absorbed share.
LEMMA MovedPieces ==
  ASSUME QuoteTypes, OneLotEach, NeverOversold, NEW a \in Sellers, NEW b \in Sellers, a # b,
         Feasible(b, a), NEW bl \in [Sellers -> [Elements -> Nat]],
         \A e \in Elements : bl[b][e] = 0 /\ bl[a][e] = alloc[a][e] + alloc[b][e]
  PROVE  /\ PiecesOf(bl, b) = 0
         /\ PiecesOf(bl, a) = PiecesOf(alloc, a) + AbsorbedCost(b, a)
<1>1. alloc \in [Sellers -> [Elements -> Nat]]
  BY DEF QuoteTypes
<1>2. \A e \in Elements : alloc[b][e] > 0 => FirstPrice(a, e) \in Nat
  <2> TAKE e \in Elements
  <2> HAVE alloc[b][e] > 0
  <2>1. PICK i \in DOMAIN book[e] : IsFirstLot(i, a, e)
    BY DEF Feasible, Given
  <2> QED BY <2>1, FirstPriceIs
<1>3. \A e \in Elements : alloc[a][e] > 0 => FirstPrice(a, e) \in Nat
  BY GivenHasPrice
<1>4. \A e \in Elements : bl[a][e] > 0 => FirstPrice(a, e) \in Nat
  BY <1>1, <1>2, <1>3
<1> DEFINE R == Given(b)
           h == [e \in R |-> alloc[b][e] * FirstPrice(a, e)]
           v == [e \in Elements |-> LineOf(alloc, a, e)]
           w == [e \in Elements |->
                  IF alloc[b][e] > 0 THEN alloc[b][e] * FirstPrice(a, e) ELSE 0]
           x == [e \in Elements |-> LineOf(bl, a, e)]
<1>5. /\ PiecesOf(alloc, a) = Sum(v, Elements) /\ PiecesOf(bl, a) = Sum(x, Elements)
      /\ \A e \in Elements : v[e] \in Nat /\ x[e] \in Nat
  BY <1>1, <1>3, <1>4, PiecesAreLines
<1>6. \A e \in Elements : w[e] \in Nat
  BY <1>1, <1>2, Product
<1>7. \A e \in Elements : x[e] = v[e] + w[e]
  <2> TAKE e \in Elements
  <2>1. alloc[a][e] \in Nat /\ alloc[b][e] \in Nat /\ bl[a][e] = alloc[a][e] + alloc[b][e]
    BY <1>1
  <2>2. \A m, n, p \in Nat : (m + n) * p = m * p + n * p
    OBVIOUS
  <2>3. CASE alloc[a][e] > 0 /\ alloc[b][e] > 0
    BY <1>3, <2>1, <2>2, <2>3 DEF LineOf
  <2>4. CASE alloc[a][e] = 0
    <3>1. bl[a][e] = alloc[b][e] /\ v[e] = 0
      BY <2>1, <2>4 DEF LineOf
    <3>2. x[e] = w[e]
      BY <3>1 DEF LineOf
    <3>3. w[e] \in Nat
      BY <1>6
    <3> HIDE DEF v, w, x
    <3> QED BY <3>1, <3>2, <3>3
  <2>5. CASE alloc[b][e] = 0
    <3>1. bl[a][e] = alloc[a][e] /\ w[e] = 0
      BY <2>1, <2>5
    <3>2. x[e] = v[e]
      BY <3>1 DEF LineOf
    <3>3. v[e] \in Nat
      BY <1>5
    <3> HIDE DEF v, w, x
    <3> QED BY <3>1, <3>2, <3>3
  <2> QED BY <2>1, <2>3, <2>4, <2>5
<1>8. /\ R \in SUBSET Elements
      /\ IsFiniteSet(Elements) /\ IsFiniteSet(R) /\ IsFiniteSet(Elements \ R)
  BY SellersAssumption, GivenIsFinite, FS_Subset
<1>9. (\A e \in R : h[e] = w[e]) /\ \A e \in Elements \ R : w[e] = 0
  BY <1>1 DEF Given
<1>10. AbsorbedCost(b, a) = Sum(h, R)
  BY TotalIsSum DEF AbsorbedCost
<1>11. PiecesOf(bl, b) = 0
  <2>1. {f \in Elements : bl[b][f] > 0} = {}
    OBVIOUS
  <2>2. \A f : DOMAIN f = {} => Total(f) = 0
    BY TotalIsSum, SumEmpty
  <2> QED BY <2>1, <2>2 DEF PiecesOf
<1> HIDE DEF h, v, w, x, R
<1>12. Sum(x, Elements) = Sum(v, Elements) + Sum(w, Elements)
  BY <1>5, <1>6, <1>7, <1>8, SumOfSums
<1>13. Sum(w, Elements) = Sum(w, R) + Sum(w, Elements \ R)
  BY <1>6, <1>8, SumOfParts
<1>14. Sum(w, Elements \ R) = 0 /\ Sum(h, R) = Sum(w, R)
  BY <1>8, <1>9, SumOfZeros, SumsAgree
<1>15. Sum(w, R) \in Int
  <2>1. \A e \in R : w[e] \in Int
    BY <1>6, <1>8
  <2> QED BY <1>8, <2>1, SumIsInt
<1> QED BY <1>5, <1>10, <1>11, <1>12, <1>13, <1>14, <1>15

\* A move saves the parcel of the seller who is left and costs the difference of the
\* prices.
LEMMA MovedPrice ==
  ASSUME QuoteTypes, RestTypes, OneLotEach, NeverOversold,
         NEW a \in Sellers, NEW b \in Sellers, a # b, Feasible(b, a),
         Given(a) # {}, Given(b) # {}, NEW bl \in [Sellers -> [Elements -> Nat]],
         \A e \in Elements : bl[b][e] = 0 /\ bl[a][e] = alloc[a][e] + alloc[b][e],
         \A s \in Sellers : s # a /\ s # b => bl[s] = alloc[s]
  PROVE  /\ PriceOf(alloc) \in Int
         /\ PriceOf(bl) = PriceOf(alloc) - shipping[b] + ExtraCost(b, a)
<1>1. alloc \in [Sellers -> [Elements -> Nat]] /\ shipping \in [Sellers -> Nat]
  BY DEF QuoteTypes, RestTypes
<1> DEFINE f == [s \in Sellers |-> ParcelOf(alloc, s)]
           g == [s \in Sellers |-> ParcelOf(bl, s)]
           m == [f EXCEPT ![b] = 0]
           n == [m EXCEPT ![a] = g[a]]
<1>2. \A s \in Sellers : PiecesOf(alloc, s) \in Nat
  <2> TAKE s \in Sellers
  <2>1. \A e \in Elements : alloc[s][e] > 0 => FirstPrice(s, e) \in Nat
    BY GivenHasPrice
  <2> QED BY <1>1, <2>1, PiecesAreLines
<1>3. \A s \in Sellers : ParcelOf(alloc, s) \in Nat
  BY <1>1, <1>2 DEF ParcelOf
<1>4. AbsorbedCost(b, a) \in Nat
  BY AbsorbedIsNat
<1>5. /\ f[a] = shipping[a] + PiecesOf(alloc, a)
      /\ f[b] = shipping[b] + PiecesOf(alloc, b)
  BY DEF ParcelOf, Given
<1>6. g[b] = 0 /\ g[a] = shipping[a] + PiecesOf(bl, a)
  <2>1. \A e \in Elements : ~(bl[b][e] > 0)
    OBVIOUS
  <2>2. {e \in Elements : bl[b][e] > 0} = {}
    BY <2>1
  <2>3. PICK e \in Elements : alloc[a][e] > 0
    BY DEF Given
  <2>4. bl[a][e] > 0
    BY <1>1, <2>3
  <2>5. {d \in Elements : bl[a][d] > 0} # {}
    BY <2>4
  <2> QED BY <2>2, <2>5 DEF ParcelOf
<1>7. PiecesOf(bl, a) = PiecesOf(alloc, a) + AbsorbedCost(b, a)
  BY MovedPieces
<1>8. ASSUME NEW s \in Sellers, s # a, s # b PROVE g[s] = f[s]
  <2>1. bl[s] = alloc[s]
    BY <1>8
  <2>2. ParcelOf(bl, s) = ParcelOf(alloc, s)
    BY <2>1 DEF ParcelOf, PiecesOf
  <2> QED BY <2>2
<1>9. f \in [Sellers -> Int] /\ f[a] \in Nat /\ f[b] \in Nat
  BY <1>3
<1>10. g[a] \in Int
  BY <1>1, <1>2, <1>4, <1>6, <1>7
<1>11. PriceOf(alloc) = Sum(f, Sellers) /\ PriceOf(bl) = Sum(g, Sellers)
  BY PriceIsSum
<1>12. g = [s \in Sellers |-> g[s]]
  OBVIOUS
<1> HIDE DEF f, g
<1>13. f \in [Sellers -> Int] /\ 0 \in Int
  BY <1>9
<1>14. m \in [Sellers -> Int] /\ m[a] = f[a]
  BY <1>9
<1>14a. \A s \in Sellers : f[s] \in Int /\ m[s] \in Int /\ (s # b => m[s] = f[s])
  BY <1>13
<1>14b. \A s \in Sellers : m[s] \in Int /\ n[s] \in Int /\ (s # a => n[s] = m[s])
  BY <1>10, <1>13
<1>14c. m[b] = 0 /\ n[a] = g[a]
  BY <1>10, <1>13
<1>15. n = g
  <2>1. \A s \in Sellers : n[s] = g[s]
    BY <1>6, <1>8, <1>9
  <2>2. n = [s \in Sellers |-> n[s]]
    BY <1>9
  <2> HIDE DEF n
  <2> QED BY <1>12, <2>1, <2>2
<1> HIDE DEF m, n
<1>16. Sum(m, Sellers) = Sum(f, Sellers) - f[b] + m[b]
  BY <1>14a, SellersAssumption, SumChanges
<1>17. Sum(n, Sellers) = Sum(m, Sellers) - m[a] + n[a]
  BY <1>14b, SellersAssumption, SumChanges
<1>18. Sum(f, Sellers) \in Int
  <2>1. \A s \in Sellers : f[s] \in Int
    BY <1>13
  <2> QED BY <2>1, SellersAssumption, SumIsInt
<1>19. AbsorbedCost(b, a) = PiecesOf(alloc, b) + ExtraCost(b, a) /\ ExtraCost(b, a) \in Int
  BY ExtraCostIs
<1>20. Sum(g, Sellers) = Sum(f, Sellers) - f[b] - f[a] + g[a]
  BY <1>9, <1>10, <1>14, <1>14c, <1>15, <1>16, <1>17, <1>18
<1>21. /\ shipping[a] \in Nat /\ shipping[b] \in Nat
       /\ PiecesOf(alloc, a) \in Nat /\ PiecesOf(alloc, b) \in Nat
  BY <1>1, <1>2
<1>22. g[a] = f[a] + f[b] + ExtraCost(b, a) - shipping[b]
  BY <1>5, <1>6, <1>7, <1>19, <1>21
<1> QED BY <1>9, <1>10, <1>11, <1>18, <1>19, <1>20, <1>21, <1>22

-----------------------------------------------------------------------------
(* The sums along the passes.                                                *)

\* As long as the book stays, so do the prices.
LEMMA PricesStay ==
  ASSUME book' = book
  PROVE  /\ OneLotEach' <=> OneLotEach
         /\ \A s \in Sellers : PiecesOf(alloc, s)' = PiecesOf(alloc', s)
<1>1. OneLotEach' <=> OneLotEach
  BY DEF OneLotEach
<1>2. \A s, e : FirstPrice(s, e)' = FirstPrice(s, e)
  BY DEF FirstPrice, IsFirstLot
<1>3. \A s \in Sellers : PiecesOf(alloc, s)' = PiecesOf(alloc', s)
  BY <1>2 DEF PiecesOf
<1> QED BY <1>1, <1>3

\* With shipping fees that stay, too, the price of an allocation stays.
LEMMA PriceStays ==
  ASSUME book' = book, alloc' = alloc, shipping' = shipping
  PROVE  PriceOf(alloc)' = PriceOf(alloc)
<1>2. \A s, e : FirstPrice(s, e)' = FirstPrice(s, e)
  BY DEF FirstPrice, IsFirstLot
<1> QED BY <1>2 DEF PriceOf

\* Nothing given costs nothing.
LEMMA NothingIsFree ==
  ASSUME NEW al, NEW s, \A e \in Elements : ~(al[s][e] > 0)
  PROVE  PiecesOf(al, s) = 0
<1>1. {f \in Elements : al[s][f] > 0} = {}
  OBVIOUS
<1>2. \A f : DOMAIN f = {} => Total(f) = 0
  BY TotalIsSum, SumEmpty
<1> QED BY <1>1, <1>2 DEF PiecesOf

\* Taking from a lot adds its price for each piece.
LEMMA TakePieces ==
  ASSUME QuoteTypes, InHand, OneLotEach, NeverOversold, NEW i \in lots, TakeLot(i)
  PROVE  LET lot  == book[item][i]
             take == Smaller(Remaining(i), needed)
         IN  PiecesOf(alloc', lot.seller) = PiecesOf(alloc, lot.seller) + take * lot.price
<1> DEFINE lot  == book[item][i]
           take == Smaller(Remaining(i), needed)
<1>1. /\ lot \in Lot /\ take \in Nat
      /\ alloc' = [alloc EXCEPT ![lot.seller][item] = @ + take]
      /\ alloc' \in [Sellers -> [Elements -> Nat]]
  BY TakeEffect
<1>2. lot.seller \in Sellers /\ lot.price \in Nat /\ item \in Elements
  BY <1>1 DEF Lot, QuoteTypes
<1>3. FirstPrice(lot.seller, item) = lot.price
  <2>1. i \in DOMAIN book[item]
    BY DEF InHand, TakeLot
  <2> QED BY <1>2, <2>1, OnlyLotIsFirst
<1> HIDE DEF lot, take
<1> PICK bl : bl = alloc'
  OBVIOUS
<1> PICK s : s = lot.seller
  OBVIOUS
<1>4. /\ bl \in [Sellers -> [Elements -> Nat]] /\ alloc \in [Sellers -> [Elements -> Nat]]
      /\ s \in Sellers
      /\ bl[s][item] = alloc[s][item] + take
      /\ \A e \in Elements : e # item => bl[s][e] = alloc[s][e]
  BY <1>1, <1>2 DEF QuoteTypes
<1>5. \A e \in Elements : alloc[s][e] > 0 => FirstPrice(s, e) \in Nat
  BY <1>4, GivenHasPrice
<1>6. \A e \in Elements : bl[s][e] > 0 => FirstPrice(s, e) \in Nat
  BY <1>2, <1>3, <1>4, <1>5
<1> DEFINE v == [e \in Elements |-> LineOf(alloc, s, e)]
           x == [e \in Elements |-> LineOf(bl, s, e)]
<1>7. /\ PiecesOf(alloc, s) = Sum(v, Elements)
      /\ \A e \in Elements : LineOf(alloc, s, e) \in Nat
  BY <1>4, <1>5, PiecesAreLines
<1>8. /\ PiecesOf(bl, s) = Sum(x, Elements)
      /\ \A e \in Elements : LineOf(bl, s, e) \in Nat
  BY <1>4, <1>6, PiecesAreLines
<1>9. \A e \in Elements : v[e] \in Int /\ x[e] \in Int /\ (e # item => x[e] = v[e])
  BY <1>4, <1>7, <1>8 DEF LineOf
<1>10. x[item] = v[item] + take * lot.price
  <2>1. v[item] = alloc[s][item] * lot.price
    <3>1. alloc[s][item] \in Nat /\ 0 * lot.price = 0
      BY <1>2, <1>4
    <3> QED BY <1>2, <1>3, <3>1 DEF LineOf
  <2>2. x[item] = bl[s][item] * lot.price
    <3>1. bl[s][item] \in Nat /\ 0 * lot.price = 0
      BY <1>2, <1>4
    <3> QED BY <1>2, <1>3, <3>1 DEF LineOf
  <2>3. \A m, n, p \in Nat : (m + n) * p = m * p + n * p
    OBVIOUS
  <2>4. bl[s][item] * lot.price = alloc[s][item] * lot.price + take * lot.price
    BY <1>1, <1>2, <1>4, <2>3
  <2> QED BY <2>1, <2>2, <2>4
<1> HIDE DEF v, x
<1>11. Sum(x, Elements) = Sum(v, Elements) - v[item] + x[item]
  BY <1>2, <1>9, SellersAssumption, SumChanges
<1>12. Sum(v, Elements) \in Int /\ v[item] \in Int /\ take * lot.price \in Int
  <2>1. \A e \in Elements : v[e] \in Int
    BY <1>9
  <2> QED BY <1>1, <1>2, <2>1, Product, SellersAssumption, SumIsInt
<1>13. PiecesOf(bl, s) = PiecesOf(alloc, s) + take * lot.price
  BY <1>7, <1>8, <1>10, <1>11, <1>12
<1> QED BY <1>13 DEF lot, take

\* Each turn keeps seller_piece_cost true.
LEMMA CostStep ==
  QuoteTypes /\ RestTypes /\ TurnInv /\ NeverOversold /\ CostIsTrue /\ [Next]_vars
    => CostIsTrue'
<1> SUFFICES ASSUME QuoteTypes, RestTypes, TurnInv, NeverOversold, CostIsTrue, [Next]_vars
             PROVE  CostIsTrue'
  OBVIOUS
<1> USE DEF listing, sums
<1>0. NotYetGiven /\ InHand
  BY DEF TurnInv
<1>1. CASE alloc' = alloc /\ cost' = cost /\ book' = book /\ (NotBegun' => NotBegun)
  <2>1. \A s \in Sellers : PiecesOf(alloc', s) = PiecesOf(alloc, s)
    BY <1>1
  <2> QED BY <1>1, <2>1, PricesStay DEF CostIsTrue
<1>2. CASE FetchListings
  <2>1. ~ NotBegun' /\ NotBegun /\ cost' = cost /\ alloc' = alloc
    BY <1>2 DEF FetchListings, NotBegun
  <2>2. ASSUME NEW s \in Sellers PROVE cost'[s] = PiecesOf(alloc, s)'
    <3>1. \A e \in Elements : ~(alloc'[s][e] > 0)
      BY <1>0, <2>1 DEF NotYetGiven
    <3>2. {e \in Elements : alloc'[s][e] > 0} = {}
      BY <3>1
    <3>3. \A f : DOMAIN f = {} => Total(f) = 0
      BY TotalIsSum, SumEmpty
    <3>4. PiecesOf(alloc, s)' = 0
      BY <3>2, <3>3 DEF PiecesOf
    <3> QED BY <2>1, <3>4 DEF CostIsTrue
  <2> QED BY <2>1, <2>2 DEF CostIsTrue
<1>3. ASSUME NEW i \in lots, TakeLot(i) PROVE CostIsTrue'
  <2> DEFINE lot  == book[item][i]
             take == Smaller(Remaining(i), needed)
  <2>1. /\ lot \in Lot /\ take \in Nat
        /\ alloc' = [alloc EXCEPT ![lot.seller][item] = @ + take]
    BY <1>0, <1>3, TakeEffect
  <2>2. book' = book /\ at' = at /\ at = "lots"
        /\ cost' = [cost EXCEPT ![lot.seller] = @ + take * lot.price]
    BY <1>3 DEF TakeLot
  <2>3. lot.seller \in Sellers
    BY <2>1 DEF Lot
  <2>4. SUFFICES ASSUME OneLotEach, NEW s \in Sellers PROVE cost'[s] = PiecesOf(alloc, s)'
    BY <2>2, PricesStay DEF CostIsTrue, NotBegun
  <2>5. PiecesOf(alloc, s)' = PiecesOf(alloc', s)
    BY <2>2, PricesStay
  <2>6. CASE s = lot.seller
    <3>1. PiecesOf(alloc', lot.seller) = PiecesOf(alloc, lot.seller) + take * lot.price
      BY <1>0, <1>3, <2>4, TakePieces
    <3> HIDE DEF lot, take
    <3> QED BY <2>2, <2>3, <2>4, <2>5, <2>6, <3>1 DEF CostIsTrue, RestTypes
  <2>7. CASE s # lot.seller
    <3> HIDE DEF lot, take
    <3>1. alloc'[s] = alloc[s] /\ cost'[s] = cost[s]
      BY <2>1, <2>2, <2>3, <2>7 DEF QuoteTypes, RestTypes
    <3>2. PiecesOf(alloc', s) = PiecesOf(alloc, s)
      BY <3>1 DEF PiecesOf
    <3> QED BY <2>4, <2>5, <3>1, <3>2 DEF CostIsTrue
  <2> QED BY <2>6, <2>7
<1>4. CASE Consolidate
  <2>1. PICK i \in DOMAIN chosen, j \in DOMAIN chosen : BestMove(i, j) /\ Merge(i, j)
    BY <1>4 DEF Consolidate
  <2> DEFINE b == chosen[i]
             a == chosen[j]
  <2>2. /\ a \in Sellers /\ b \in Sellers /\ a # b /\ Feasible(b, a)
        /\ alloc' \in [Sellers -> [Elements -> Nat]]
        /\ \A e \in Elements : alloc'[b][e] = 0 /\ alloc'[a][e] = alloc[a][e] + alloc[b][e]
    BY <2>1, MoveEffect
  <2>3. cost' = [cost EXCEPT ![a] = @ + AbsorbedCost(b, a), ![b] = 0]
    BY <2>1 DEF Merge
  <2>4. alloc' = [alloc EXCEPT ![a] = Absorbed(b, a), ![b] = Nothing]
    BY <2>1 DEF Merge
  <2>5. book' = book /\ at' = at /\ at = "pass2"
    BY <1>4 DEF Consolidate
  <2> HIDE DEF a, b
  <2>6. SUFFICES ASSUME OneLotEach, NEW s \in Sellers PROVE cost'[s] = PiecesOf(alloc, s)'
    BY <2>5, PricesStay DEF CostIsTrue, NotBegun
  <2>7. PiecesOf(alloc, s)' = PiecesOf(alloc', s)
    BY <2>5, PricesStay
  <2> PICK bl : bl = alloc'
    OBVIOUS
  <2>8. /\ bl \in [Sellers -> [Elements -> Nat]]
        /\ \A e \in Elements : bl[b][e] = 0 /\ bl[a][e] = alloc[a][e] + alloc[b][e]
    BY <2>2
  <2>9. PiecesOf(bl, b) = 0 /\ PiecesOf(bl, a) = PiecesOf(alloc, a) + AbsorbedCost(b, a)
    BY <2>2, <2>6, <2>8, MovedPieces
  <2>10. cost[s] = PiecesOf(alloc, s) /\ cost \in [Sellers -> Nat]
    BY <2>6 DEF CostIsTrue, RestTypes
  <2>11. CASE s = a
    BY <2>2, <2>3, <2>7, <2>9, <2>10, <2>11
  <2>12. CASE s = b
    BY <2>2, <2>3, <2>7, <2>9, <2>10, <2>12
  <2>13. CASE s # a /\ s # b
    <3>1. bl[s] = alloc[s] /\ cost'[s] = cost[s]
      BY <2>3, <2>4, <2>10, <2>13 DEF QuoteTypes
    <3>2. PiecesOf(bl, s) = PiecesOf(alloc, s)
      BY <3>1 DEF PiecesOf
    <3> QED BY <2>7, <2>10, <3>1, <3>2
  <2> QED BY <2>11, <2>12, <2>13
<1> QED
  BY <1>1, <1>2, <1>3, <1>4
  DEF Next, SaveOrderList, CopyOrderList, NextItem, SkipLot, ItemDone, Pass1Done,
      BuildQuote, Confirm, vars, NotBegun

\* The sums of BuildQuote, corrected for free shipping, are the price of the
\* allocation under the fees it leaves.
LEMMA QuotedPrice ==
  ASSUME QuoteTypes, RestTypes, ChosenGive, NeverOversold, OneLotEach, CostIsTrue, BuildQuote
  PROVE  LET pieces  == Total([s \in Range(chosen) |-> cost[s]])
             charged == Total([s \in Range(chosen) |-> shipping[s]])
             saved   == IF WaivesShipping THEN shipping[Lego] ELSE 0
         IN  PriceOf(alloc)' = pieces + charged - saved
<1> DEFINE R  == Range(chosen)
           f  == [s \in R |-> cost[s]]
           g  == [s \in R |-> shipping[s]]
           h  == [s \in R |-> shipping'[s]]
           p  == [s \in Sellers |-> ParcelOf(alloc, s)']
           saved == IF WaivesShipping THEN shipping[Lego] ELSE 0
<1>1. book' = book /\ alloc' = alloc
      /\ shipping' = IF WaivesShipping THEN [shipping EXCEPT ![Lego] = 0] ELSE shipping
  BY DEF BuildQuote
<1>2. R = {s \in Sellers : \E e \in Elements : alloc[s][e] > 0}
  <2>1. R = {s \in Sellers : Given(s) # {}}
    BY KeysGive
  <2>2. \A s \in Sellers : Given(s) # {} <=> \E e \in Elements : alloc[s][e] > 0
    BY DEF Given
  <2> QED BY <2>1, <2>2
<1>3. /\ R \in SUBSET Sellers /\ IsFiniteSet(Sellers) /\ IsFiniteSet(R)
      /\ IsFiniteSet(Sellers \ R) /\ Lego \in Sellers
  BY <1>2, SellersAssumption, FS_Subset
<1>4. /\ cost \in [Sellers -> Nat]
      /\ shipping \in [Sellers -> Nat] /\ shipping' \in [Sellers -> Nat]
  BY <1>1 DEF RestTypes
<1>5. \A s \in Sellers : cost[s] = PiecesOf(alloc, s)
  BY DEF CostIsTrue
<1>6. \A s \in Sellers : PiecesOf(alloc, s)' = cost[s]
  BY <1>1, <1>5, PricesStay
<1>7. \A s \in R : p[s] = f[s] + h[s] /\ f[s] \in Int /\ h[s] \in Int /\ p[s] \in Int
  <2> TAKE s \in R
  <2>1. s \in Sellers /\ {e \in Elements : alloc'[s][e] > 0} # {}
    BY <1>1, <1>2
  <2>2. p[s] = shipping'[s] + cost[s]
    BY <1>6, <2>1 DEF ParcelOf
  <2> QED BY <1>4, <2>1, <2>2
<1>8. \A s \in Sellers \ R : p[s] = 0
  <2> TAKE s \in Sellers \ R
  <2>1. {e \in Elements : alloc'[s][e] > 0} = {}
    BY <1>1, <1>2
  <2> QED BY <2>1 DEF ParcelOf
<1>9. PriceOf(alloc)' = Sum(p, Sellers)
  <2>1. DOMAIN p = Sellers
    OBVIOUS
  <2>2. PriceOf(alloc)' = Total(p)
    BY DEF PriceOf, ParcelOf, PiecesOf
  <2> HIDE DEF p
  <2> QED BY <2>1, <2>2, TotalIsSum
<1>10. Total(f) = Sum(f, R) /\ Total(g) = Sum(g, R)
  BY TotalIsSum
<1>11. \A s \in R : g[s] \in Int
  BY <1>3, <1>4
<1>12. ASSUME WaivesShipping
       PROVE  /\ Lego \in R /\ h[Lego] = 0 /\ g[Lego] = shipping[Lego]
              /\ \A s \in R : s # Lego => h[s] = g[s]
  BY <1>1, <1>3, <1>4, <1>12 DEF WaivesShipping
<1>13. ~WaivesShipping => \A s \in R : h[s] = g[s]
  BY <1>1
<1>14. Sum(p, Sellers) = Sum(p, R)
  <2> HIDE DEF p, R
  <2>1. \A s \in Sellers : p[s] \in Int
    BY <1>7, <1>8
  <2>2. Sum(p, Sellers) = Sum(p, R) + Sum(p, Sellers \ R)
    BY <1>3, <2>1, SumOfParts
  <2>3. Sum(p, Sellers \ R) = 0
    BY <1>3, <1>8, SumOfZeros
  <2>4. Sum(p, R) \in Int
    BY <1>3, <1>7, SumIsInt
  <2> QED BY <2>2, <2>3, <2>4
<1> HIDE DEF f, g, h, p, R
<1>15. Sum(p, R) = Sum(f, R) + Sum(h, R)
  BY <1>3, <1>7, SumOfSums
<1>16. Sum(h, R) = Sum(g, R) - saved
  <2>1. CASE WaivesShipping
    <3>1. \A s \in R : g[s] \in Int /\ h[s] \in Int /\ (s # Lego => h[s] = g[s])
      BY <1>7, <1>11, <1>12, <2>1
    <3>2. Sum(h, R) = Sum(g, R) - g[Lego] + h[Lego]
      BY <1>3, <1>12, <2>1, <3>1, SumChanges
    <3>3. Sum(g, R) \in Int /\ g[Lego] \in Int
      BY <1>3, <1>11, <1>12, <2>1, SumIsInt
    <3> QED BY <1>12, <2>1, <3>2, <3>3
  <2>2. CASE ~WaivesShipping
    <3>1. Sum(h, R) = Sum(g, R)
      BY <1>3, <1>13, <2>2, SumsAgree
    <3>2. Sum(g, R) \in Int
      BY <1>3, <1>11, SumIsInt
    <3> QED BY <2>2, <3>1, <3>2
  <2> QED BY <2>1, <2>2
<1>17. Sum(f, R) \in Int /\ Sum(g, R) \in Int /\ saved \in Int
  <2>1. \A s \in R : f[s] \in Int
    BY <1>7
  <2> QED BY <1>3, <1>4, <1>11, <2>1, SumIsInt
<1>18. PriceOf(alloc)' = Sum(f, R) + Sum(g, R) - saved
  <2> HIDE DEF saved
  <2> QED BY <1>9, <1>14, <1>15, <1>16, <1>17
<1> QED BY <1>10, <1>18 DEF f, g, R

\* The quote is true when it is made, and nothing it rests on changes after.
LEMMA QuoteStep ==
  /\ QuoteTypes /\ RestTypes /\ ChosenGive /\ NeverOversold /\ CostIsTrue /\ QuoteIsTrue
  /\ [Next]_vars
  => QuoteIsTrue'
<1> SUFFICES ASSUME QuoteTypes, RestTypes, ChosenGive, NeverOversold, CostIsTrue, QuoteIsTrue,
                    [Next]_vars
             PROVE  QuoteIsTrue'
  OBVIOUS
<1> USE DEF listing, sums
<1>1. CASE BuildQuote
  <2> SUFFICES ASSUME OneLotEach'
               PROVE  /\ quote'.pieces + quote'.shipping = PriceOf(alloc)'
                      /\ quote'.charge = PriceOf(alloc)' + LaigoFee(PriceOf(alloc)')
    BY DEF QuoteIsTrue, LaigoFee
  <2> DEFINE pieces  == Total([s \in Range(chosen) |-> cost[s]])
             charged == Total([s \in Range(chosen) |-> shipping[s]])
             saved   == IF WaivesShipping THEN shipping[Lego] ELSE 0
             total   == pieces + charged - saved
  <2>1. book' = book
    BY <1>1 DEF BuildQuote
  <2>2. OneLotEach
    BY <2>1, PricesStay
  <2>3. PriceOf(alloc)' = total
    BY <1>1, <2>2, QuotedPrice
  <2>4. pieces \in Nat /\ charged \in Nat /\ saved \in Nat
    BY PiecesAreNat, ChargedIsNat DEF RestTypes
  <2>5. quote' = [pieces |-> pieces, shipping |-> charged - saved,
                  charge |-> total + LaigoFee(total)]
    BY <1>1 DEF BuildQuote
  <2> HIDE DEF pieces, charged, saved
  <2>6. pieces + (charged - saved) = total
    BY <2>4
  <2> HIDE DEF total
  <2> QED BY <2>3, <2>5, <2>6
<1>2. CASE /\ book' = book /\ alloc' = alloc /\ shipping' = shipping /\ quote' = quote
           /\ \/ at' \notin {"quoted", "confirmed", "refused"}
              \/ at \in {"quoted", "confirmed", "refused"}
  <2>1. SUFFICES ASSUME at' \in {"quoted", "confirmed", "refused"}, OneLotEach'
                 PROVE  /\ quote'.pieces + quote'.shipping = PriceOf(alloc)'
                        /\ quote'.charge = PriceOf(alloc)' + LaigoFee(PriceOf(alloc)')
    BY DEF QuoteIsTrue, LaigoFee
  <2>2. at \in {"quoted", "confirmed", "refused"} /\ OneLotEach
    BY <1>2, <2>1, PricesStay
  <2>3. PriceOf(alloc)' = PriceOf(alloc)
    BY <1>2, PriceStays
  <2> QED BY <1>2, <2>2, <2>3 DEF QuoteIsTrue
<1>3. CASE at' \notin {"quoted", "confirmed", "refused"}
  BY <1>3 DEF QuoteIsTrue
<1> QED
  BY <1>1, <1>2, <1>3
  DEF Next, SaveOrderList, CopyOrderList, FetchListings, NextItem, TakeLot, SkipLot, ItemDone,
      Pass1Done, Consolidate, Confirm, vars

-----------------------------------------------------------------------------
(* Pass 2.                                                                   *)

\* A chosen seller gives something.
LEMMA ChosenHaveShares ==
  ASSUME QuoteTypes, ChosenGive, NEW s \in Range(chosen)
  PROVE  s \in Sellers /\ Given(s) # {}
BY KeysGive

\* Each turn of pass 2 saves, and it ends only when no move would.
LEMMA Pass2Step ==
  QuoteTypes /\ RestTypes /\ ChosenGive /\ NeverOversold /\ [Next]_vars => [SavesOrEnds]_vars
<1> SUFFICES ASSUME QuoteTypes, RestTypes, ChosenGive, NeverOversold, Next,
                    at = "pass2", OneLotEach
             PROVE  IF at' = "pass2"
                      THEN PriceOf(alloc') < PriceOf(alloc) /\ Len(chosen') < Len(chosen)
                      ELSE \A a, b \in Range(chosen) :
                             a # b /\ shipping[b] > 0 /\ InStock(Moved(b, a)) =>
                               PriceOf(Moved(b, a)) >= PriceOf(alloc)
  BY DEF SavesOrEnds
<1> USE DEF listing, sums
<1>1. CASE Consolidate
  <2>1. PICK i \in DOMAIN chosen, j \in DOMAIN chosen : BestMove(i, j) /\ Merge(i, j)
    BY <1>1 DEF Consolidate
  <2> DEFINE b == chosen[i]
             a == chosen[j]
  <2>2. /\ a \in Sellers /\ b \in Sellers /\ a # b /\ Feasible(b, a)
        /\ alloc' \in [Sellers -> [Elements -> Nat]]
        /\ \A e \in Elements : alloc'[b][e] = 0 /\ alloc'[a][e] = alloc[a][e] + alloc[b][e]
    BY <2>1, MoveEffect
  <2>3. alloc' = [alloc EXCEPT ![a] = Absorbed(b, a), ![b] = Nothing]
    BY <2>1 DEF Merge
  <2>4. a \in Range(chosen) /\ b \in Range(chosen)
    BY DEF Range
  <2>5. Given(a) # {} /\ Given(b) # {}
    BY <2>4, ChosenHaveShares
  <2>6. ExtraCost(b, a) < shipping[b]
    BY <2>1 DEF BestMove, Gains
  <2>7. at' = "pass2"
    BY <1>1 DEF Consolidate
  <2>8. Len(chosen') < Len(chosen)
    <3>1. chosen' = RemoveAt(chosen, i) /\ chosen \in Seq(Sellers)
      BY <2>1 DEF Merge, QuoteTypes
    <3>2. Len(RemoveAt(chosen, i)) = Len(chosen) - 1
      BY <3>1, RemoveAtEffect
    <3> QED BY <3>1, <3>2
  <2> HIDE DEF a, b
  <2> PICK bl : bl = alloc'
    OBVIOUS
  <2>9. /\ bl \in [Sellers -> [Elements -> Nat]]
        /\ \A e \in Elements : bl[b][e] = 0 /\ bl[a][e] = alloc[a][e] + alloc[b][e]
    BY <2>2
  <2>10. \A s \in Sellers : s # a /\ s # b => bl[s] = alloc[s]
    BY <2>3 DEF QuoteTypes
  <2>11. PriceOf(alloc) \in Int /\ PriceOf(bl) = PriceOf(alloc) - shipping[b] + ExtraCost(b, a)
    BY <2>2, <2>5, <2>9, <2>10, MovedPrice
  <2>12. shipping[b] \in Int /\ ExtraCost(b, a) \in Int
    BY <2>2, ExtraCostIs DEF RestTypes
  <2>13. PriceOf(bl) < PriceOf(alloc)
    BY <2>6, <2>11, <2>12
  <2> QED BY <2>7, <2>8, <2>13
<1>2. CASE BuildQuote
  <2>1. at' = "quoted" /\ \A a, b \in Range(chosen) : ~Gains(b, a)
    BY <1>2 DEF BuildQuote
  <2>2. ASSUME NEW a \in Range(chosen), NEW b \in Range(chosen), a # b, shipping[b] > 0,
               InStock(Moved(b, a))
        PROVE  PriceOf(Moved(b, a)) >= PriceOf(alloc)
    <3>1. a \in Sellers /\ b \in Sellers /\ Given(a) # {} /\ Given(b) # {}
      BY ChosenHaveShares
    <3>2. alloc \in [Sellers -> [Elements -> Nat]] /\ shipping \in [Sellers -> Nat]
      BY DEF QuoteTypes, RestTypes
    <3> DEFINE bl == Moved(b, a)
    <3>3. bl = [s \in Sellers |-> [e \in Elements |->
             IF s = a THEN alloc[a][e] + alloc[b][e] ELSE IF s = b THEN 0 ELSE alloc[s][e]]]
      <4>1. \A s, e, x, y, z : (CASE s = a -> x [] s = b -> y [] OTHER -> z)
                                 = (IF s = a THEN x ELSE IF s = b THEN y ELSE z)
        BY <2>2
      <4> QED BY <4>1 DEF Moved
    <3> HIDE DEF bl
    <3>4. /\ bl \in [Sellers -> [Elements -> Nat]]
          /\ \A e \in Elements : bl[b][e] = 0 /\ bl[a][e] = alloc[a][e] + alloc[b][e]
      BY <2>2, <3>1, <3>2, <3>3
    <3>5. \A s \in Sellers : s # a /\ s # b => bl[s] = alloc[s]
      <4> TAKE s \in Sellers
      <4> HAVE s # a /\ s # b
      <4>1. bl[s] = [e \in Elements |-> alloc[s][e]]
        BY <3>3
      <4> QED BY <3>2, <4>1
    <3>6. Feasible(b, a)
      <4> SUFFICES ASSUME NEW e \in Given(b)
                   PROVE  \E i \in DOMAIN book[e] :
                            IsFirstLot(i, a, e) /\ book[e][i].qty - alloc[a][e] >= alloc[b][e]
        BY DEF Feasible
      <4>1. e \in Elements /\ alloc[b][e] \in Nat /\ alloc[b][e] > 0 /\ alloc[a][e] \in Nat
        BY <3>1, <3>2 DEF Given
      <4>2. PICK i \in DOMAIN book[e] :
              book[e][i].seller = a /\ alloc[a][e] + alloc[b][e] <= book[e][i].qty
        BY <2>2, <3>1, <3>4, <4>1 DEF InStock, bl
      <4>3. IsFirstLot(i, a, e) /\ book[e][i].qty \in Nat
        BY <4>1, <4>2, OnlyLotIsFirst, LotsAreLots DEF Lot
      <4> QED BY <4>1, <4>2, <4>3
    <3>7. PriceOf(alloc) \in Int /\ PriceOf(bl) = PriceOf(alloc) - shipping[b] + ExtraCost(b, a)
      BY <2>2, <3>1, <3>4, <3>5, <3>6, MovedPrice
    <3>8. shipping[b] \in Nat /\ ExtraCost(b, a) \in Int
      BY <3>1, <3>2, <3>6, ExtraCostIs
    <3>9. ~(ExtraCost(b, a) < shipping[b])
      BY <2>1, <2>2, <3>6 DEF Gains
    <3>10. PriceOf(bl) >= PriceOf(alloc)
      BY <3>7, <3>8, <3>9
    <3> QED BY <3>10 DEF bl
  <2> QED BY <2>1, <2>2
<1> QED
  BY <1>1, <1>2
  DEF Next, SaveOrderList, CopyOrderList, FetchListings, NextItem, TakeLot, SkipLot, ItemDone,
      Pass1Done, Confirm

-----------------------------------------------------------------------------
(* The theorems.                                                             *)

\* The invariant holds before the order list is written.
LEMMA InitIInv == Init => IInv
<1> SUFFICES ASSUME Init PROVE IInv
  OBVIOUS
<1>1. QuoteTypes
  BY InitTypes
<1>2. /\ at = "mosaic" /\ files = <<>> /\ todo = {} /\ lots = {} /\ preferred = {}
      /\ chosen = <<>> /\ alloc = [s \in Sellers |-> Nothing] /\ fallback = Nothing
      /\ cost = [s \in Sellers |-> 0] /\ shipping = [s \in Sellers |-> 0] /\ quote = NoPrice
  BY DEF Init
<1>3. TurnInv
  BY <1>2 DEF TurnInv, NotYetGiven, InHand, Nothing
<1>4. NeverOversold /\ FallbackIsSoldOut
  BY <1>2 DEF NeverOversold, Given, FallbackIsSoldOut, Nothing
<1>5. RestTypes
  <2>1. files \in Seq([Elements -> Nat])
    BY <1>2, EmptySeq
  <2> QED BY <1>2, <2>1 DEF RestTypes, NoPrice
<1>6. \A s \in Sellers, e \in Elements : ~(alloc[s][e] > 0)
  BY <1>2 DEF Nothing
<1>7. ChosenGive
  BY <1>2, <1>6 DEF ChosenGive
<1>8. SplitIsWhole /\ NothingLost /\ QuoteIsTrue
  BY <1>2 DEF SplitIsWhole, NothingLost, QuoteIsTrue
<1>9. CostIsTrue
  BY <1>2, <1>6, NothingIsFree DEF CostIsTrue
<1> QED BY <1>1, <1>3, <1>4, <1>5, <1>7, <1>8, <1>9 DEF IInv

\* What holds between any two turns of the loops, for every value of the constants
\* (Util.py: SaveDictAsJsonsOptimized; optimizer.py: optimize).
THEOREM QuoteInvariant == Spec => []IInv
<1>1. IInv /\ [Next]_vars => IInv'
  <2> SUFFICES ASSUME IInv, [Next]_vars PROVE IInv'
    OBVIOUS
  <2>1. /\ QuoteTypes /\ TurnInv /\ InHand /\ NeverOversold /\ FallbackIsSoldOut
        /\ RestTypes /\ ChosenGive /\ SplitIsWhole /\ NothingLost /\ CostIsTrue /\ QuoteIsTrue
    BY DEF IInv, TurnInv
  <2>2. QuoteTypes' /\ TurnInv' /\ NeverOversold' /\ FallbackIsSoldOut'
    BY <2>1, TypesStep, TurnStep, OversoldStep, FallbackStep
  <2>3. RestTypes' /\ ChosenGive'
    BY <2>1, RestStep, ChosenStep
  <2>4. SplitIsWhole' /\ NothingLost'
    BY <2>1, SplitStep, NothingLostStep
  <2>5. CostIsTrue' /\ QuoteIsTrue'
    BY <2>1, CostStep, QuoteStep
  <2> QED BY <2>2, <2>3, <2>4, <2>5 DEF IInv
<1> QED BY <1>1, InitIInv, PTL DEF Spec

\* Every value has its type; the keys of the allocation are the sellers that give
\* something, also after shares were moved away (optimizer.py: optimize).
THEOREM QuoteTypeOK == Spec => []TypeOK
<1>1. IInv => TypeOK
  BY KeysGive DEF IInv, QuoteTypes, RestTypes, TypeOK
<1> QED BY <1>1, QuoteInvariant, PTL

\* For any counts and any cap, the files of the order list hold each count whole, no
\* line is above the cap and no file is empty (Util.py: SaveDictAsJsonsOptimized).
THEOREM SplitKeepsOrder == Spec => []SplitIsWhole
<1>1. IInv => SplitIsWhole
  BY DEF IInv
<1> QED BY <1>1, QuoteInvariant, PTL

\* With any number of sellers and listings, each piece of the list is with one
\* seller, on the fallback list or still to be dealt with (optimizer.py: optimize).
THEOREM PiecesAreKept == Spec => []NothingLost
<1>1. IInv => NothingLost
  BY DEF IInv
<1> QED BY <1>1, QuoteInvariant, PTL

\* Whatever the listings, no seller is asked for more of an element than a lot of
\* his has, not after consolidation either; and where sellers have one lot each, an
\* element on the fallback list is sold out with all of them
\* (optimizer.py: optimize).
THEOREM StockIsRespected == Spec => []StockRespected
<1>1. IInv => StockRespected
  BY DEF IInv, StockRespected
<1> QED BY <1>1, QuoteInvariant, PTL

\* Where sellers have one lot each, a quote is the price of its allocation, piece by
\* piece and parcel by parcel, with LEGO.com's waiver; the fee is on that sum
\* (optimizer.py: optimize, apply_free_shipping_thresholds; router.py: quote).
THEOREM QuotesAreTrue == Spec => []QuoteIsTrue
<1>1. IInv => QuoteIsTrue
  BY DEF IInv
<1> QED BY <1>1, QuoteInvariant, PTL

\* Each move of pass 2 makes the order cheaper by one parcel less, and when pass 2
\* ends no single move of a seller who charges shipping would save; moves of sellers
\* who charge none are never looked at (optimizer.py: optimize).
THEOREM Pass2Saves == Spec => ConsolidationSaves
<1>1. IInv /\ [Next]_vars => [SavesOrEnds]_vars
  BY Pass2Step DEF IInv
<1> QED BY <1>1, QuoteInvariant, PTL DEF Spec, ConsolidationSaves
=============================================================================
