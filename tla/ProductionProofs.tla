-------------------------- MODULE ProductionProofs --------------------------
(***************************************************************************)
(* Theorems about Inventory and about Production, for every number of      *)
(* products, warehouses, orders, lines, batches, starts and stocktakes and *)
(* every range of quantities.  First Inventory: the types, the totals, the *)
(* grants, what a batch may build.  Then Production, which extends it:     *)
(* starting and reverting batches keeps the stock exact, leaves other      *)
(* orders what they hold and gives back what it took.                      *)
(***************************************************************************)
EXTENDS Production, StockRowsProofs

-----------------------------------------------------------------------------
(* Inventory. *)

\* The inductive invariant: the types alone are not inductive, because that
\* a release leaves reservedQty a natural number equal to the holds follows
\* from its being equal to them before.
Inv == TypeOK /\ ReservedMatchesHolds

GoodStock(cs) ==
  /\ cs \in [Product -> [Warehouse -> Cell]]
  /\ \A p \in Product, w \in Warehouse : GoodCell(cs[p][w])

\* TypeOK without the stock.
RestOK ==
  /\ productQty \in [Product -> Int]
  /\ status \in [Order -> OrderStatus]
  /\ lines \in [Order -> [Item -> Nat]]
  /\ requirement \in [Order -> [Product -> Requirement]]
  /\ bom \in [Item -> [Product -> Nat]]
  /\ batch \in [Batch -> BatchRow]
  /\ stocktake \in [Session -> StocktakeRow]

\* c2 may take the place of c.
Fits(c, c2) == GoodCell(c2) /\ (c2.reserved > c.reserved => c2.reserved <= c2.qty)

\* Where cs2 reserves more than cs, it does not reserve beyond its stock.
GrantsFit(cs, cs2) ==
  \A p \in Product, w \in Warehouse :
    cs2[p][w].reserved > cs[p][w].reserved => cs2[p][w].reserved <= cs2[p][w].qty

\* What every step has to show.
StepOK == RestOK' /\ GoodStock(cell') /\ GrantsFit(cell, cell')

-----------------------------------------------------------------------------
LEMMA InvSplit == Inv <=> RestOK /\ GoodStock(cell)
BY DEF Inv, TypeOK, RestOK, GoodStock, GoodCell, ReservedMatchesHolds, Matched

LEMMA Rows ==
  /\ NumOrders \in Nat /\ Order = 1..NumOrders
  /\ NumItems \in Nat /\ Item = 1..NumItems
  /\ NumBatches \in Nat /\ Batch = 1..NumBatches
  /\ DefaultWarehouse \in Warehouse
BY NumOrdersAssumption, InventoryAssumption
   DEF Order, Item, Batch, Warehouse, DefaultWarehouse

LEMMA NeedOK ==
  ASSUME RestOK, NEW p \in Product
  PROVE  Need(p) \in [Order -> Nat]
BY DEF RestOK, Need, Requirement

LEMMA PoolOK ==
  ASSUME RestOK, NEW ls \in [Item -> Nat], NEW p \in Product
  PROVE  Pool(ls, p) \in Nat
<1> DEFINE f == [i \in Item |-> ls[i] * bom[i][p]]
<1>1. \A i \in Item : ls[i] \in Nat /\ bom[i][p] \in Nat
  BY DEF RestOK
<1>2. \A i \in Item : ls[i] * bom[i][p] \in Nat
  BY <1>1
<1>3. f \in [1..NumItems -> Nat]
  BY <1>2, Rows
<1> HIDE DEF f
<1>4. Total(f, NumItems) \in Nat
  BY <1>3, Rows, TotalNat
<1> QED
  BY <1>4 DEF Pool, f

(***************************************************************************)
(* One cell replaced by a good one that reserves within its stock.         *)
(***************************************************************************)
LEMMA OneCell ==
  ASSUME NEW cs, GoodStock(cs), NEW p \in Product, NEW w \in Warehouse,
         NEW c, Fits(cs[p][w], c)
  PROVE  /\ GoodStock([cs EXCEPT ![p][w] = c])
         /\ GrantsFit(cs, [cs EXCEPT ![p][w] = c])
<1> DEFINE cs2 == [cs EXCEPT ![p][w] = c]
<1>1. cs \in [Product -> [Warehouse -> Cell]] /\ c \in Cell
  BY DEF GoodStock, GoodCell, Fits
<1>2. cs2 \in [Product -> [Warehouse -> Cell]]
  BY <1>1
<1>3. cs2[p][w] = c
  BY <1>1
<1>4. \A q \in Product, v \in Warehouse : <<q, v>> # <<p, w>> => cs2[q][v] = cs[q][v]
  BY <1>1
<1> HIDE DEF cs2
<1>5. ASSUME NEW q \in Product, NEW v \in Warehouse
      PROVE  /\ GoodCell(cs2[q][v])
             /\ cs2[q][v].reserved > cs[q][v].reserved => cs2[q][v].reserved <= cs2[q][v].qty
  <2>1. CASE <<q, v>> = <<p, w>>
    BY <1>3, <2>1 DEF Fits
  <2>2. CASE <<q, v>> # <<p, w>>
    <3>1. cs2[q][v] = cs[q][v]
      BY <1>4, <2>2
    <3>2. GoodCell(cs[q][v])
      BY DEF GoodStock
    <3>3. cs[q][v].reserved \in Nat
      BY <3>2 DEF GoodCell, Cell
    <3> QED
      BY <3>1, <3>2, <3>3
  <2> QED
    BY <2>1, <2>2
<1> QED
  BY <1>2, <1>5 DEF GoodStock, GrantsFit, cs2

(***************************************************************************)
(* The default-warehouse cell of every product replaced.                   *)
(***************************************************************************)
WithDefaults(cs, new) == [p \in Product |-> [cs[p] EXCEPT ![DefaultWarehouse] = new[p]]]

LEMMA DefaultCells ==
  ASSUME NEW cs, GoodStock(cs), NEW new,
         \A p \in Product : Fits(cs[p][DefaultWarehouse], new[p])
  PROVE  GoodStock(WithDefaults(cs, new)) /\ GrantsFit(cs, WithDefaults(cs, new))
<1> USE DEF WithDefaults
<1> DEFINE cs2 == WithDefaults(cs, new)
<1>1. cs \in [Product -> [Warehouse -> Cell]] /\ \A p \in Product : new[p] \in Cell
  BY DEF GoodStock, GoodCell, Fits
<1>2. cs2 \in [Product -> [Warehouse -> Cell]]
  BY <1>1, Rows
<1>3. ASSUME NEW p \in Product PROVE cs2[p][DefaultWarehouse] = new[p]
  BY <1>1, Rows
<1>4. ASSUME NEW p \in Product, NEW w \in Warehouse, w # DefaultWarehouse
      PROVE  cs2[p][w] = cs[p][w]
  BY <1>1, <1>4
<1> HIDE DEF cs2
<1>5. ASSUME NEW p \in Product, NEW w \in Warehouse
      PROVE  /\ GoodCell(cs2[p][w])
             /\ cs2[p][w].reserved > cs[p][w].reserved => cs2[p][w].reserved <= cs2[p][w].qty
  <2>1. CASE w = DefaultWarehouse
    BY <1>3, <2>1 DEF Fits
  <2>2. CASE w # DefaultWarehouse
    <3>1. cs2[p][w] = cs[p][w]
      BY <1>4, <2>2
    <3>2. GoodCell(cs[p][w])
      BY DEF GoodStock
    <3>3. cs[p][w].reserved \in Nat
      BY <3>2 DEF GoodCell, Cell
    <3> QED
      BY <3>1, <3>2, <3>3
  <2> QED
    BY <2>1, <2>2
<1> QED
  BY <1>2, <1>5 DEF GoodStock, GrantsFit, cs2

-----------------------------------------------------------------------------
(***************************************************************************)
(* The parts the order handlers share.                                     *)
(***************************************************************************)
LEMMA WithoutHoldsOK ==
  ASSUME GoodStock(cell), NEW o \in Order
  PROVE  /\ GoodStock(WithoutHolds(o))
         /\ \A p \in Product, w \in Warehouse :
              WithoutHolds(o)[p][w].reserved <= cell[p][w].reserved
<1>1. ASSUME NEW p \in Product, NEW w \in Warehouse
      PROVE  /\ GoodCell(ReleaseAll(cell[p][w], o))
             /\ ReleaseAll(cell[p][w], o).reserved <= cell[p][w].reserved
  BY ReleaseAllGood DEF GoodStock
<1>2. \A p \in Product, w \in Warehouse :
         WithoutHolds(o)[p][w] = ReleaseAll(cell[p][w], o)
  BY DEF WithoutHolds
<1>3. \A p \in Product, w \in Warehouse : ReleaseAll(cell[p][w], o) \in Cell
  BY <1>1 DEF GoodCell
<1>4. WithoutHolds(o) \in [Product -> [Warehouse -> Cell]]
  BY <1>3 DEF WithoutHolds
<1> QED
  BY <1>1, <1>2, <1>4 DEF GoodStock

LEMMA ClaimOK ==
  ASSUME RestOK, NEW cs, GoodStock(cs), NEW o \in Order, NEW ls \in [Item -> Nat]
  PROVE  GoodStock(Claim(cs, o, ls)) /\ GrantsFit(cs, Claim(cs, o, ls))
<1> DEFINE new == [p \in Product |-> Grant(cs[p][DefaultWarehouse], "STOCK", o, Pool(ls, p))]
<1>1. ASSUME NEW p \in Product
      PROVE  Fits(cs[p][DefaultWarehouse], new[p])
  <2>1. GoodCell(cs[p][DefaultWarehouse])
    BY Rows DEF GoodStock
  <2>2. Pool(ls, p) \in Int
    BY PoolOK
  <2> QED
    BY <2>1, <2>2, GrantGood DEF Grew, Source, Fits
<1>2. Claim(cs, o, ls) = WithDefaults(cs, new)
  BY DEF Claim, WithDefaults
<1> HIDE DEF new
<1> QED
  BY <1>1, <1>2, DefaultCells

LEMMA RequirementsOK ==
  ASSUME RestOK, NEW cs, GoodStock(cs), NEW o \in Order, NEW ls \in [Item -> Nat]
  PROVE  Requirements(cs, o, ls) \in [Product -> Requirement]
<1>1. ASSUME NEW p \in Product
      PROVE  /\ requirement[o][p] \in Requirement
             /\ Pool(ls, p) \in Nat
             /\ Granted(cs[p][DefaultWarehouse], Pool(ls, p)) \in Nat
  <2>1. cs[p][DefaultWarehouse] \in Cell
    BY Rows DEF GoodStock
  <2>2. Pool(ls, p) \in Nat
    BY PoolOK
  <2> QED
    BY <2>1, <2>2, GrantedBounds DEF RestOK
<1> QED
  BY <1>1 DEF Requirements, Requirement

LEMMA RebuildOK ==
  ASSUME RestOK, GoodStock(cell), NEW o \in Order, NEW ls \in [Item -> Nat], Rebuild(o, ls)
  PROVE  StepOK
<1> DEFINE released == WithoutHolds(o)
<1>1. /\ GoodStock(released)
      /\ \A p \in Product, w \in Warehouse : released[p][w].reserved <= cell[p][w].reserved
  BY WithoutHoldsOK
<1>2. /\ lines' = [lines EXCEPT ![o] = ls]
      /\ cell' = IF status[o] = "NEW" THEN released ELSE Claim(released, o, ls)
      /\ requirement' = [requirement EXCEPT ![o] = Requirements(released, o, ls)]
      /\ UNCHANGED <<productQty, status, bom, batch, stocktake>>
  BY DEF Rebuild
<1> HIDE DEF released
<1>3. Requirements(released, o, ls) \in [Product -> Requirement]
  BY <1>1, RequirementsOK
<1>4. RestOK'
  BY <1>2, <1>3 DEF RestOK
<1>5. GoodStock(Claim(released, o, ls)) /\ GrantsFit(released, Claim(released, o, ls))
  BY <1>1, ClaimOK
<1>6. GoodStock(cell')
  BY <1>1, <1>2, <1>5
<1>7. ASSUME NEW p \in Product, NEW w \in Warehouse,
             cell'[p][w].reserved > cell[p][w].reserved
      PROVE  cell'[p][w].reserved <= cell'[p][w].qty
  <2>1. /\ cell[p][w].reserved \in Nat
        /\ released[p][w].reserved \in Nat
        /\ cell'[p][w].reserved \in Nat
        /\ released[p][w].reserved <= cell[p][w].reserved
    BY <1>1, <1>6 DEF GoodStock, GoodCell, Cell
  <2>2. cell' # released
    BY <1>7, <2>1
  <2> QED
    BY <1>2, <1>5, <1>7, <2>1, <2>2 DEF GrantsFit
<1> QED
  BY <1>4, <1>6, <1>7 DEF StepOK, GrantsFit

\* A step that leaves the stock alone.
LEMMA StockUntouched ==
  ASSUME GoodStock(cell), UNCHANGED cell, RestOK'
  PROVE  StepOK
<1>1. \A p \in Product, w \in Warehouse : cell[p][w].reserved \in Nat
  BY DEF GoodStock, GoodCell, Cell
<1> QED
  BY <1>1 DEF StepOK, GrantsFit

-----------------------------------------------------------------------------
(* Stock movements. *)

LEMMA RecordMovementOK ==
  ASSUME RestOK, GoodStock(cell), NEW p \in Product, NEW w \in Warehouse, NEW d \in Int,
         RecordMovement(p, w, d)
  PROVE  StepOK
<1> DEFINE c2 == Moved(cell[p][w], Need(p), d, NoOrder)
<1>1. Fits(cell[p][w], c2)
  <2>1. GoodCell(cell[p][w])
    BY DEF GoodStock
  <2> QED
    BY <2>1, NeedOK, MovedGood DEF Fits
<1>2. cell' = [cell EXCEPT ![p][w] = c2]
  BY DEF RecordMovement
<1>3. GoodStock(cell') /\ GrantsFit(cell, cell')
  <2> HIDE DEF c2
  <2> QED
    BY <1>1, <1>2, OneCell
<1>4. RestOK'
  BY DEF RecordMovement, RestOK
<1> QED
  BY <1>3, <1>4 DEF StepOK

LEMMA MoveStockOK ==
  ASSUME RestOK, GoodStock(cell), NEW p \in Product,
         NEW from \in Warehouse, NEW to \in Warehouse, NEW n \in Nat,
         MoveStock(p, from, to, n)
  PROVE  StepOK
<1> DEFINE c1 == Moved(cell[p][from], Need(p), -n, NoOrder)
           c2 == Moved(cell[p][to], Need(p), n, NoOrder)
           cs1 == [cell EXCEPT ![p][from] = c1]
           cs2 == [cs1 EXCEPT ![p][to] = c2]
<1>1. Fits(cell[p][from], c1)
  <2>1. GoodCell(cell[p][from]) /\ -n \in Int
    BY DEF GoodStock
  <2> QED
    BY <2>1, NeedOK, MovedGood DEF Fits
<1>2. Fits(cell[p][to], c2)
  <2>1. GoodCell(cell[p][to]) /\ n \in Int
    BY DEF GoodStock
  <2> QED
    BY <2>1, NeedOK, MovedGood DEF Fits
<1>3. from # to /\ cell' = [cell EXCEPT ![p][from] = c1, ![p][to] = c2]
  BY DEF MoveStock
<1> HIDE DEF c1, c2
<1>4. cell \in [Product -> [Warehouse -> Cell]]
  BY DEF GoodStock
<1>5. cell' = cs2 /\ cs1[p][to] = cell[p][to]
  BY <1>3, <1>4
<1>6. GoodStock(cs1) /\ GrantsFit(cell, cs1)
  BY <1>1, OneCell
<1>7. cs1 \in [Product -> [Warehouse -> Cell]]
  BY <1>6 DEF GoodStock
<1>8. /\ cs2[p][to] = c2
      /\ \A q \in Product, v \in Warehouse : <<q, v>> # <<p, to>> => cs2[q][v] = cs1[q][v]
  <2> HIDE DEF cs1
  <2> QED
    BY <1>7
<1>9. GoodStock(cs2)
  <2> HIDE DEF cs1
  <2> QED
    BY <1>2, <1>5, <1>6, OneCell
<1> HIDE DEF cs1, cs2
<1>10. GrantsFit(cell, cs2)
  BY <1>2, <1>5, <1>6, <1>8 DEF GrantsFit, Fits
<1>11. RestOK'
  BY DEF MoveStock, RestOK
<1> QED
  BY <1>5, <1>9, <1>10, <1>11 DEF StepOK

LEMMA AdjustProductStockOK ==
  ASSUME RestOK, GoodStock(cell), NEW p \in Product, NEW newQty \in AssistantTotals,
         AdjustProductStock(p, newQty)
  PROVE  StepOK
<1>1. newQty \in Int
  BY InventoryAssumption
<1>2. RestOK' /\ UNCHANGED cell
  BY <1>1 DEF AdjustProductStock, RestOK
<1> QED
  BY <1>2, StockUntouched

LEMMA SetComponentsOK ==
  ASSUME RestOK, GoodStock(cell), NEW i \in Item, NEW components \in Boms,
         SetComponents(i, components)
  PROVE  StepOK
<1>1. components \in [Product -> Nat]
  BY InventoryAssumption
<1>2. RestOK' /\ UNCHANGED cell
  BY <1>1 DEF SetComponents, RestOK
<1> QED
  BY <1>2, StockUntouched

-----------------------------------------------------------------------------
(* Stocktakes. *)

LEMMA StartStocktakeOK ==
  ASSUME RestOK, GoodStock(cell), NEW s \in Session, StartStocktake(s)
  PROVE  StepOK
<1> DEFINE row == [status |-> "IN_PROGRESS", expected |-> productQty,
                   actual |-> [p \in Product |-> NotCounted]]
<1>1. row \in StocktakeRow
  BY DEF RestOK, StocktakeRow, NotCounted
<1>2. stocktake' = [stocktake EXCEPT ![s] = row]
  BY DEF StartStocktake
<1> HIDE DEF row
<1>3. RestOK' /\ UNCHANGED cell
  BY <1>1, <1>2 DEF StartStocktake, RestOK
<1> QED
  BY <1>3, StockUntouched

LEMMA RecordCountOK ==
  ASSUME RestOK, GoodStock(cell), NEW s \in Session, NEW p \in Product, NEW n \in Nat,
         RecordCount(s, p, n)
  PROVE  StepOK
<1> DEFINE row == [stocktake[s] EXCEPT !.actual[p] = n]
<1>1. stocktake[s] \in StocktakeRow
  BY DEF RestOK
<1>2. row \in StocktakeRow
  BY <1>1 DEF StocktakeRow
<1>3. stocktake' = [stocktake EXCEPT ![s] = row]
  BY DEF RecordCount
<1> HIDE DEF row
<1>4. RestOK' /\ UNCHANGED cell
  BY <1>2, <1>3 DEF RecordCount, RestOK
<1> QED
  BY <1>4, StockUntouched

LEMMA CompleteStocktakeOK ==
  ASSUME RestOK, GoodStock(cell), NEW s \in Session, CompleteStocktake(s)
  PROVE  StepOK
<1> DEFINE delta == [p \in Product |->
                       IF stocktake[s].actual[p] = NotCounted THEN 0
                       ELSE stocktake[s].actual[p] - stocktake[s].expected[p]]
           new == [p \in Product |->
                     Moved(cell[p][DefaultWarehouse], Need(p), delta[p], NoOrder)]
           row == [stocktake[s] EXCEPT !.status = "COMPLETED"]
<1>1. stocktake[s] \in StocktakeRow
  BY DEF RestOK
<1>2. \A p \in Product : delta[p] \in Int
  BY <1>1 DEF StocktakeRow, NotCounted
<1>3. row \in StocktakeRow
  BY <1>1 DEF StocktakeRow
<1>4. /\ cell' = WithDefaults(cell, new)
      /\ productQty' = [p \in Product |-> productQty[p] + delta[p]]
      /\ stocktake' = [stocktake EXCEPT ![s] = row]
      /\ UNCHANGED <<status, lines, requirement, bom, batch>>
  BY DEF CompleteStocktake, WithDefaults
<1> HIDE DEF delta, row
<1>5. ASSUME NEW p \in Product PROVE Fits(cell[p][DefaultWarehouse], new[p])
  <2>1. GoodCell(cell[p][DefaultWarehouse]) /\ delta[p] \in Int
    BY <1>2, Rows DEF GoodStock
  <2> QED
    BY <2>1, NeedOK, MovedGood DEF Fits
<1> HIDE DEF new
<1>6. GoodStock(cell') /\ GrantsFit(cell, cell')
  BY <1>4, <1>5, DefaultCells
<1>7. RestOK'
  BY <1>2, <1>3, <1>4 DEF RestOK
<1> QED
  BY <1>6, <1>7 DEF StepOK

-----------------------------------------------------------------------------
(* Customer orders. *)

LEMMA CreateOrderOK ==
  ASSUME RestOK, GoodStock(cell), NEW o \in Order, NEW ls \in [Item -> Nat],
         CreateOrder(o, ls)
  PROVE  StepOK
<1>1. Requirements(cell, o, ls) \in [Product -> Requirement]
  BY RequirementsOK
<1>2. RestOK' /\ UNCHANGED cell
  BY <1>1 DEF CreateOrder, RestOK, OrderStatus
<1> QED
  BY <1>2, StockUntouched

LEMMA LineEditsOK ==
  ASSUME RestOK, GoodStock(cell), NEW o \in Order, NEW i \in Item, NEW n \in Nat,
         AddItem(o, i, n) \/ UpdateItemQty(o, i, n) \/ RemoveItem(o, i)
  PROVE  StepOK
<1>1. PICK m \in Nat : Rebuild(o, [lines[o] EXCEPT ![i] = m])
  BY DEF AddItem, UpdateItemQty, RemoveItem
<1>2. [lines[o] EXCEPT ![i] = m] \in [Item -> Nat]
  BY DEF RestOK
<1> QED
  BY <1>1, <1>2, RebuildOK

LEMMA GiveItemToProductionOK ==
  ASSUME RestOK, GoodStock(cell), NEW o \in Order, NEW i \in Item, NEW b \in Batch,
         NEW n \in Nat, GiveItemToProduction(o, i, b, n)
  PROVE  StepOK
<1> DEFINE row == [status |-> "PLANNED", order |-> o, item |-> i, units |-> n,
                   components |-> bom[i]]
<1>1. row \in BatchRow
  BY DEF RestOK, BatchRow, BatchStatus
<1>2. batch' = [batch EXCEPT ![b] = row]
  BY DEF GiveItemToProduction
<1> HIDE DEF row
<1>3. batch' \in [Batch -> BatchRow]
  BY <1>1, <1>2 DEF RestOK
<1>4. lines[o] \in [Item -> Nat]
  BY DEF RestOK
<1>5. Requirements(cell, o, lines[o]) \in [Product -> Requirement]
  BY <1>4, RequirementsOK
<1>6. RestOK'
  BY <1>3, <1>5 DEF GiveItemToProduction, RestOK, OrderStatus
<1>7. GoodStock(Claim(cell, o, lines[o])) /\ GrantsFit(cell, Claim(cell, o, lines[o]))
  BY <1>4, ClaimOK
<1>8. CASE status[o] = "NEW"
  <2>1. cell' = Claim(cell, o, lines[o])
    BY <1>8 DEF GiveItemToProduction
  <2> QED
    BY <1>6, <1>7, <2>1 DEF StepOK
<1>9. CASE status[o] # "NEW"
  <2>1. UNCHANGED cell
    BY <1>9 DEF GiveItemToProduction
  <2> QED
    BY <1>6, <2>1, StockUntouched
<1> QED
  BY <1>8, <1>9

LEMMA SaveReservationDecisionsOK ==
  ASSUME RestOK, GoodStock(cell), NEW o \in Order, NEW decided \in SUBSET Product,
         NEW decision \in [decided -> Nat], SaveReservationDecisions(o, decision)
  PROVE  StepOK
<1> DEFINE delta(p) == decision[p] - requirement[o][p].fromStock
           here(p) == cell[p][DefaultWarehouse]
           required(p) == IF requirement[o][p].required > 0 THEN requirement[o][p].required
                          ELSE Pool(lines[o], p)
           new == [p \in Product |->
                     IF p \notin decided THEN here(p)
                     ELSE IF delta(p) > 0 THEN Grant(here(p), "STOCK", o, delta(p))
                     ELSE Release(here(p), "STOCK", o, - delta(p))]
           needs == [p \in Product |->
                       IF p \notin decided THEN requirement[o][p]
                       ELSE [required |-> required(p), fromStock |-> decision[p]]]
<1>1. DOMAIN decision = decided
  OBVIOUS
<1>2. /\ cell' = WithDefaults(cell, new)
      /\ requirement' = [requirement EXCEPT ![o] = needs]
      /\ UNCHANGED <<productQty, status, lines, bom, batch, stocktake>>
  BY <1>1 DEF SaveReservationDecisions, WithDefaults
<1>3. ASSUME NEW p \in Product
      PROVE  /\ requirement[o][p] \in Requirement /\ lines[o] \in [Item -> Nat]
             /\ required(p) \in Nat
             /\ p \in decided => delta(p) \in Int /\ - delta(p) \in Int
  <2>1. requirement[o][p] \in Requirement /\ lines[o] \in [Item -> Nat]
    BY DEF RestOK
  <2>2. Pool(lines[o], p) \in Nat
    BY <2>1, PoolOK
  <2> QED
    BY <2>1, <2>2 DEF Requirement
<1>4. ASSUME NEW p \in Product PROVE Fits(cell[p][DefaultWarehouse], new[p])
  <2>1. GoodCell(here(p)) /\ here(p).reserved \in Nat
    BY Rows DEF GoodStock, GoodCell, Cell
  <2>2. CASE p \notin decided
    BY <2>1, <2>2 DEF Fits
  <2>3. CASE p \in decided /\ delta(p) > 0
    <3>1. Fits(here(p), Grant(here(p), "STOCK", o, delta(p)))
      <4> HIDE DEF here, delta
      <4> QED
        BY <1>3, <2>1, <2>3, GrantGood DEF Fits, Grew, Source
    <3> QED
      BY <2>3, <3>1
  <2>4. CASE p \in decided /\ ~ (delta(p) > 0)
    <3>1. Fits(here(p), Release(here(p), "STOCK", o, - delta(p)))
      <4> DEFINE c2 == Release(here(p), "STOCK", o, - delta(p))
      <4>1. GoodCell(c2) /\ c2.reserved <= here(p).reserved
        <5> HIDE DEF here, delta
        <5> QED
          BY <1>3, <2>1, <2>4, ReleaseGood DEF Source
      <4>2. c2.reserved \in Nat
        BY <4>1 DEF GoodCell, Cell
      <4> HIDE DEF c2, here
      <4>3. Fits(here(p), c2)
        BY <2>1, <4>1, <4>2 DEF Fits
      <4> QED
        BY <4>3 DEF c2
    <3> QED
      BY <2>4, <3>1
  <2> QED
    BY <2>2, <2>3, <2>4
<1>5. needs \in [Product -> Requirement]
  <2>1. \A p \in decided : decision[p] \in Nat
    OBVIOUS
  <2> HIDE DEF required
  <2> QED
    BY <1>3, <2>1 DEF Requirement
<1> HIDE DEF new, needs
<1>6. GoodStock(cell') /\ GrantsFit(cell, cell')
  BY <1>2, <1>4, DefaultCells
<1>7. RestOK'
  BY <1>2, <1>5 DEF RestOK
<1> QED
  BY <1>6, <1>7 DEF StepOK

LEMMA CancelOrderOK ==
  ASSUME RestOK, GoodStock(cell), NEW o \in Order, CancelOrder(o)
  PROVE  StepOK
<1>1. /\ GoodStock(WithoutHolds(o))
      /\ \A p \in Product, w \in Warehouse :
           WithoutHolds(o)[p][w].reserved <= cell[p][w].reserved
  BY WithoutHoldsOK
<1>2. cell' = WithoutHolds(o)
  BY DEF CancelOrder
<1>3. GoodStock(cell') /\ GrantsFit(cell, cell')
  <2>1. \A p \in Product, w \in Warehouse :
          cell[p][w].reserved \in Nat /\ cell'[p][w].reserved \in Nat
    BY <1>1, <1>2 DEF GoodStock, GoodCell, Cell
  <2> QED
    BY <1>1, <1>2, <2>1 DEF GrantsFit
<1>4. RestOK'
  BY DEF CancelOrder, RestOK, OrderStatus
<1> QED
  BY <1>3, <1>4 DEF StepOK

LEMMA CompleteOrderOK ==
  ASSUME RestOK, GoodStock(cell), NEW o \in Order, CompleteOrder(o)
  PROVE  StepOK
<1>1. RestOK' /\ UNCHANGED cell
  BY DEF CompleteOrder, RestOK, OrderStatus
<1> QED
  BY <1>1, StockUntouched

LEMMA RemoveOrderOK ==
  ASSUME RestOK, GoodStock(cell), NEW o \in Order, RemoveOrder(o)
  PROVE  StepOK
<1> DEFINE new(p, w) == Forget(ReleaseAll(cell[p][w], o), o)
<1>1. cell' = [p \in Product |-> [w \in Warehouse |-> new(p, w)]]
  BY DEF RemoveOrder, WithoutHolds
<1>2. ASSUME NEW p \in Product, NEW w \in Warehouse
      PROVE  GoodCell(new(p, w)) /\ new(p, w).reserved <= cell[p][w].reserved
  BY DeletedGood DEF GoodStock
<1> HIDE DEF new
<1>3. ASSUME NEW p \in Product, NEW w \in Warehouse
      PROVE  /\ new(p, w) \in Cell /\ new(p, w).reserved \in Nat
             /\ cell[p][w].reserved \in Nat
  BY <1>2 DEF GoodStock, GoodCell, Cell
<1>4. GoodStock(cell') /\ GrantsFit(cell, cell')
  BY <1>1, <1>2, <1>3 DEF GoodStock, GrantsFit
<1>5. ASSUME NEW b \in Batch PROVE batch'[b] \in BatchRow
  <2>1. batch[b] \in BatchRow
    BY DEF RestOK
  <2>2. batch'[b] = IF batch[b].order = o
                    THEN [batch[b] EXCEPT !.order = NoOrder, !.item = 0] ELSE batch[b]
    BY DEF RemoveOrder
  <2> QED
    BY <2>1, <2>2 DEF BatchRow, NoOrder
<1>6. batch' \in [Batch -> BatchRow]
  BY <1>5 DEF RemoveOrder
<1>7. RestOK'
  BY <1>6 DEF RemoveOrder, RestOK, OrderStatus, Requirement, NoRequirement
<1> QED
  BY <1>4, <1>7 DEF StepOK

LEMMA BatchStepOK ==
  ASSUME RestOK, GoodStock(cell), NEW b \in Batch, CancelBatch(b) \/ RemoveBatch(b)
  PROVE  StepOK
<1>1. PICK st \in BatchStatus : batch' = [batch EXCEPT ![b].status = st]
  BY DEF CancelBatch, RemoveBatch, BatchStatus
<1>2. [batch[b] EXCEPT !.status = st] \in BatchRow
  BY DEF RestOK, BatchRow
<1>3. batch' \in [Batch -> BatchRow]
  BY <1>1, <1>2 DEF RestOK
<1>4. RestOK' /\ UNCHANGED cell
  BY <1>3 DEF CancelBatch, RemoveBatch, RestOK
<1> QED
  BY <1>4, StockUntouched

-----------------------------------------------------------------------------
LEMMA InitOK == Init => Inv
<1> SUFFICES ASSUME Init PROVE Inv
  OBVIOUS
<1>1. GoodCell(EmptyCell)
  <2>1. EmptyCell \in Cell
    BY DEF EmptyCell, Cell
  <2>2. \A o \in Order : Held(EmptyCell, o) = 0
    BY DEF EmptyCell, Held, Source
  <2>3. [o \in Order |-> Held(EmptyCell, o)] = [o \in 1..NumOrders |-> 0]
    BY <2>2, Rows
  <2>4. Total([o \in Order |-> Held(EmptyCell, o)], NumOrders) = 0
    BY <2>3, Rows, TotalZero
  <2> QED
    BY <2>1, <2>4 DEF GoodCell, Matched, EmptyCell
<1>2. GoodStock(cell)
  <2>1. EmptyCell \in Cell
    BY <1>1 DEF GoodCell
  <2>2. cell = [p \in Product |-> [w \in Warehouse |-> EmptyCell]]
    BY DEF Init
  <2> QED
    BY <1>1, <2>1, <2>2 DEF GoodStock
<1>3. RestOK
  <2>1. bom \in [Item -> [Product -> Nat]]
    BY InventoryAssumption DEF Init
  <2>2. batch \in [Batch -> BatchRow]
    BY DEF Init, NoBatch, BatchRow, BatchStatus, NoOrder
  <2>3. stocktake \in [Session -> StocktakeRow]
    BY DEF Init, StocktakeRow, NotCounted
  <2>4. requirement \in [Order -> [Product -> Requirement]]
    BY DEF Init, NoRequirement, Requirement
  <2>5. /\ productQty \in [Product -> Int] /\ status \in [Order -> OrderStatus]
        /\ lines \in [Order -> [Item -> Nat]]
    BY DEF Init, OrderStatus
  <2> QED
    BY <2>1, <2>2, <2>3, <2>4, <2>5 DEF RestOK
<1> QED
  BY <1>2, <1>3, InvSplit

(***************************************************************************)
(* Every step of the system, and every stutter, keeps the invariant and    *)
(* reserves only what is free.                                             *)
(***************************************************************************)
LEMMA NextOK ==
  ASSUME RestOK, GoodStock(cell), [Next]_vars
  PROVE  StepOK
<1>1. Amount \subseteq Nat /\ Amount \subseteq Int /\ AmountOrZero \subseteq Nat
      /\ LineQty \subseteq Nat /\ LineQty \union {0} \subseteq Nat
      /\ \A n \in Amount : -n \in Int
  BY InventoryAssumption DEF AmountOrZero
<1>2. CASE StockStep
  <2>1. PICK p \in Product :
          \/ \E w \in Warehouse, n \in Amount : RecordMovement(p, w, n) \/ RecordMovement(p, w, -n)
          \/ \E from, to \in Warehouse, n \in Amount : MoveStock(p, from, to, n)
          \/ \E newQty \in AssistantTotals : AdjustProductStock(p, newQty)
    BY <1>2 DEF StockStep
  <2>2. ASSUME NEW w \in Warehouse, NEW n \in Amount,
               RecordMovement(p, w, n) \/ RecordMovement(p, w, -n)
        PROVE  StepOK
    BY <1>1, <2>2, RecordMovementOK
  <2>3. ASSUME NEW from \in Warehouse, NEW to \in Warehouse, NEW n \in Amount,
               MoveStock(p, from, to, n)
        PROVE  StepOK
    BY <1>1, <2>3, MoveStockOK
  <2>4. ASSUME NEW newQty \in AssistantTotals, AdjustProductStock(p, newQty)
        PROVE  StepOK
    BY <2>4, AdjustProductStockOK
  <2> QED
    BY <2>1, <2>2, <2>3, <2>4
<1>3. CASE StocktakeStep
  <2>1. PICK s \in Session :
          \/ StartStocktake(s)
          \/ \E p \in Product, n \in AmountOrZero : RecordCount(s, p, n)
          \/ CompleteStocktake(s)
    BY <1>3 DEF StocktakeStep
  <2>2. ASSUME NEW p \in Product, NEW n \in AmountOrZero, RecordCount(s, p, n) PROVE StepOK
    BY <1>1, <2>2, RecordCountOK
  <2> QED
    BY <2>1, <2>2, StartStocktakeOK, CompleteStocktakeOK
<1>4. CASE OrderStep
  <2>1. PICK o \in Order :
          \/ \E ls \in [Item -> LineQty \union {0}] : CreateOrder(o, ls)
          \/ \E i \in Item, n \in LineQty : AddItem(o, i, n) \/ UpdateItemQty(o, i, n)
          \/ \E i \in Item : RemoveItem(o, i)
          \/ \E i \in Item, b \in Batch, n \in LineQty : GiveItemToProduction(o, i, b, n)
          \/ \E decided \in SUBSET Product : \E decision \in [decided -> AmountOrZero] :
               decided # {} /\ SaveReservationDecisions(o, decision)
          \/ CancelOrder(o)
          \/ CompleteOrder(o)
          \/ RemoveOrder(o)
    BY <1>4 DEF OrderStep
  <2>2. ASSUME NEW ls \in [Item -> LineQty \union {0}], CreateOrder(o, ls) PROVE StepOK
    <3>1. ls \in [Item -> Nat]
      BY <1>1
    <3> QED
      BY <2>2, <3>1, CreateOrderOK
  <2>3. ASSUME NEW i \in Item, NEW n \in LineQty, AddItem(o, i, n) \/ UpdateItemQty(o, i, n)
        PROVE  StepOK
    BY <1>1, <2>3, LineEditsOK
  <2>4. ASSUME NEW i \in Item, RemoveItem(o, i) PROVE StepOK
    <3>1. 0 \in Nat
      OBVIOUS
    <3> QED
      BY <2>4, <3>1, LineEditsOK
  <2>5. ASSUME NEW i \in Item, NEW b \in Batch, NEW n \in LineQty,
               GiveItemToProduction(o, i, b, n)
        PROVE  StepOK
    BY <1>1, <2>5, GiveItemToProductionOK
  <2>6. ASSUME NEW decided \in SUBSET Product, NEW decision \in [decided -> AmountOrZero],
               SaveReservationDecisions(o, decision)
        PROVE  StepOK
    <3>1. decision \in [decided -> Nat]
      BY <1>1
    <3> QED
      BY <2>6, <3>1, SaveReservationDecisionsOK
  <2> QED
    BY <2>1, <2>2, <2>3, <2>4, <2>5, <2>6, CancelOrderOK, CompleteOrderOK, RemoveOrderOK
<1>5. CASE BatchStep
  BY <1>5, BatchStepOK DEF BatchStep
<1>6. CASE BomStep
  BY <1>6, SetComponentsOK DEF BomStep
<1>7. CASE UNCHANGED vars
  <2>1. RestOK' /\ UNCHANGED cell
    BY <1>7 DEF vars, RestOK
  <2> QED
    BY <2>1, StockUntouched
<1> QED
  BY <1>2, <1>3, <1>4, <1>5, <1>6, <1>7 DEF Next

-----------------------------------------------------------------------------
(***************************************************************************)
(* Every state of the system is well typed: the running total reservedQty  *)
(* and every reservation stay natural numbers, although the UPDATEs        *)
(* subtract from them.                                                     *)
(***************************************************************************)
LEMMA InvInductive == Spec => []Inv
<1>1. Init => Inv
  BY InitOK
<1>2. Inv /\ [Next]_vars => Inv'
  <2> SUFFICES ASSUME Inv, [Next]_vars PROVE Inv'
    OBVIOUS
  <2>1. RestOK /\ GoodStock(cell)
    BY InvSplit
  <2>2. RestOK' /\ GoodStock(cell')
    BY <2>1, NextOK DEF StepOK
  <2> QED
    BY <2>2 DEF Inv, TypeOK, RestOK, GoodStock, GoodCell, ReservedMatchesHolds, Matched
<1> QED
  BY <1>1, <1>2, PTL DEF Spec

THEOREM TypeCorrect == Spec => []TypeOK
<1>1. Inv => TypeOK
  BY DEF Inv
<1> QED
  BY <1>1, InvInductive, PTL

(***************************************************************************)
(* WarehouseStock.reservedQty is, in every reachable state, the sum of the *)
(* reservations of all orders and both sources.                            *)
(***************************************************************************)
THEOREM TotalsMatch == Spec => []ReservedMatchesHolds
<1>1. Inv => ReservedMatchesHolds
  BY DEF Inv
<1> QED
  BY <1>1, InvInductive, PTL

(***************************************************************************)
(* No step of the system reserves beyond the physical stock.               *)
(***************************************************************************)
THEOREM GrantsAreBacked == Spec => GrantsFitFreeStock
<1>1. Inv /\ [Next]_vars =>
        [\A p \in Product, w \in Warehouse :
           cell'[p][w].reserved > cell[p][w].reserved
             => cell'[p][w].reserved <= cell'[p][w].qty]_vars
  <2> SUFFICES ASSUME Inv, [Next]_vars
      PROVE  \A p \in Product, w \in Warehouse :
               cell'[p][w].reserved > cell[p][w].reserved
                 => cell'[p][w].reserved <= cell'[p][w].qty
    OBVIOUS
  <2> QED
    BY InvSplit, NextOK DEF StepOK, GrantsFit
<1> QED
  BY <1>1, InvInductive, PTL DEF Spec, GrantsFitFreeStock

-----------------------------------------------------------------------------
(* Arrivals. *)

\* The steps by which stock may arrive leave alone what the orders need; in
\* all other steps none does, and no order gains from an arrival.
Empties(cs, cs2) == \A p \in Product, w \in Warehouse : Shrinks(cs[p][w], cs2[p][w])
Fills(cs2) == \A p \in Product, w \in Warehouse : Arrives(cell[p][w], cs2[p][w], Need(p))
ArrivalsOK == \/ GoodStock(cell') /\ Empties(cell, cell')
              \/ GoodStock(cell') /\ Fills(cell') /\ UNCHANGED <<status, requirement>>

LEMMA EmptiesNothing ==
  ASSUME NEW cs, GoodStock(cs)
  PROVE  Empties(cs, cs)
<1>1. ASSUME NEW p \in Product, NEW w \in Warehouse PROVE Shrinks(cs[p][w], cs[p][w])
  <2>1. cs[p][w] \in Cell
    BY DEF GoodStock
  <2> QED
    BY <2>1, ShrinkReflexive
<1> QED
  BY <1>1 DEF Empties

LEMMA EmptiesTransitive ==
  ASSUME NEW cs, NEW cs1, NEW cs2, GoodStock(cs), GoodStock(cs1), GoodStock(cs2),
         Empties(cs, cs1), Empties(cs1, cs2)
  PROVE  Empties(cs, cs2)
<1>1. ASSUME NEW p \in Product, NEW w \in Warehouse PROVE Shrinks(cs[p][w], cs2[p][w])
  <2>1. cs[p][w] \in Cell /\ cs1[p][w] \in Cell /\ cs2[p][w] \in Cell
    BY DEF GoodStock
  <2>2. Shrinks(cs[p][w], cs1[p][w]) /\ Shrinks(cs1[p][w], cs2[p][w])
    BY DEF Empties
  <2> QED
    BY <2>1, <2>2, ShrinkTransitive
<1> QED
  BY <1>1 DEF Empties

LEMMA DefaultsEmpty ==
  ASSUME NEW cs, GoodStock(cs), NEW new,
         \A p \in Product : Shrinks(cs[p][DefaultWarehouse], new[p])
  PROVE  Empties(cs, WithDefaults(cs, new))
<1>1. cs \in [Product -> [Warehouse -> Cell]]
  BY DEF GoodStock
<1>2. ASSUME NEW p \in Product, NEW w \in Warehouse
      PROVE  Shrinks(cs[p][w], WithDefaults(cs, new)[p][w])
  <2>1. CASE w = DefaultWarehouse
    <3>1. WithDefaults(cs, new)[p][w] = new[p]
      BY <1>1, <2>1, Rows DEF WithDefaults
    <3> QED
      BY <2>1, <3>1
  <2>2. CASE w # DefaultWarehouse
    <3>1. WithDefaults(cs, new)[p][w] = cs[p][w]
      BY <1>1, <2>2 DEF WithDefaults
    <3>2. cs[p][w] \in Cell
      BY <1>1
    <3> QED
      BY <3>1, <3>2, ShrinkReflexive
  <2> QED
    BY <2>1, <2>2
<1> QED
  BY <1>2 DEF Empties

LEMMA ClaimEmpties ==
  ASSUME RestOK, NEW cs, GoodStock(cs), NEW o \in Order, NEW ls \in [Item -> Nat]
  PROVE  Empties(cs, Claim(cs, o, ls))
<1> DEFINE new == [p \in Product |-> Grant(cs[p][DefaultWarehouse], "STOCK", o, Pool(ls, p))]
<1>1. ASSUME NEW p \in Product PROVE Shrinks(cs[p][DefaultWarehouse], new[p])
  <2>1. cs[p][DefaultWarehouse] \in Cell
    BY Rows DEF GoodStock
  <2>2. Pool(ls, p) \in Int
    BY PoolOK
  <2> QED
    BY <2>1, <2>2, GrantShrinks
<1>2. Claim(cs, o, ls) = WithDefaults(cs, new)
  BY DEF Claim, WithDefaults
<1> HIDE DEF new
<1> QED
  BY <1>1, <1>2, DefaultsEmpty

LEMMA WithoutHoldsEmpties ==
  ASSUME GoodStock(cell), NEW o \in Order
  PROVE  Empties(cell, WithoutHolds(o))
<1>1. ASSUME NEW p \in Product, NEW w \in Warehouse
      PROVE  Shrinks(cell[p][w], WithoutHolds(o)[p][w])
  <2>1. WithoutHolds(o)[p][w] = ReleaseAll(cell[p][w], o)
    BY DEF WithoutHolds
  <2>2. GoodCell(cell[p][w])
    BY DEF GoodStock
  <2> QED
    BY <2>1, <2>2, ReleaseAllShrinks
<1> QED
  BY <1>1 DEF Empties

LEMMA RebuildArrives ==
  ASSUME RestOK, GoodStock(cell), NEW o \in Order, NEW ls \in [Item -> Nat], Rebuild(o, ls)
  PROVE  ArrivalsOK
<1> DEFINE released == WithoutHolds(o)
           claimed == Claim(released, o, ls)
<1>1. GoodStock(released) /\ Empties(cell, released)
  BY WithoutHoldsOK, WithoutHoldsEmpties
<1>2. cell' = IF status[o] = "NEW" THEN released ELSE claimed
  BY DEF Rebuild
<1> HIDE DEF released
<1>3. GoodStock(claimed) /\ Empties(released, claimed)
  BY <1>1, ClaimOK, ClaimEmpties
<1> HIDE DEF claimed
<1>4. Empties(cell, claimed)
  BY <1>1, <1>3, EmptiesTransitive
<1> QED
  BY <1>1, <1>2, <1>3, <1>4 DEF ArrivalsOK

LEMMA UntouchedArrives ==
  ASSUME GoodStock(cell), UNCHANGED cell
  PROVE  ArrivalsOK
BY EmptiesNothing DEF ArrivalsOK

LEMMA RecordMovementArrives ==
  ASSUME RestOK, GoodStock(cell), NEW p \in Product, NEW w \in Warehouse, NEW d \in Int,
         RecordMovement(p, w, d)
  PROVE  ArrivalsOK
<1> DEFINE c2 == Moved(cell[p][w], Need(p), d, NoOrder)
<1>1. GoodStock(cell') /\ UNCHANGED <<status, requirement>>
  BY RecordMovementOK DEF StepOK, RecordMovement
<1>2. cell' = [cell EXCEPT ![p][w] = c2]
  BY DEF RecordMovement
<1>3. cell \in [Product -> [Warehouse -> Cell]]
  BY DEF GoodStock
<1>4. Arrives(cell[p][w], c2, Need(p))
  <2>1. GoodCell(cell[p][w])
    BY DEF GoodStock
  <2> QED
    BY <2>1, NeedOK, MovedArrives
<1> HIDE DEF c2
<1>5. ASSUME NEW q \in Product, NEW v \in Warehouse
      PROVE  Arrives(cell[q][v], cell'[q][v], Need(q))
  <2>1. CASE q = p /\ v = w
    <3>1. cell'[p][w] = c2
      BY <1>2, <1>3
    <3> QED
      BY <1>4, <2>1, <3>1
  <2>2. CASE ~ (q = p /\ v = w)
    <3>1. cell'[q][v] = cell[q][v]
      BY <1>2, <1>3, <2>2
    <3> QED
      BY <1>3, <3>1, StillArrives
  <2> QED
    BY <2>1, <2>2
<1> QED
  BY <1>1, <1>5 DEF ArrivalsOK, Fills

LEMMA MoveStockArrives ==
  ASSUME RestOK, GoodStock(cell), NEW p \in Product,
         NEW from \in Warehouse, NEW to \in Warehouse, NEW n \in Nat,
         MoveStock(p, from, to, n)
  PROVE  ArrivalsOK
<1> DEFINE c1 == Moved(cell[p][from], Need(p), -n, NoOrder)
           c2 == Moved(cell[p][to], Need(p), n, NoOrder)
<1>1. GoodStock(cell') /\ UNCHANGED <<status, requirement>>
  <2>1. StepOK
    BY MoveStockOK
  <2>2. UNCHANGED <<status, requirement>>
    BY DEF MoveStock
  <2> QED
    BY <2>1, <2>2 DEF StepOK
<1>2. from # to /\ cell' = [cell EXCEPT ![p][from] = c1, ![p][to] = c2]
  BY DEF MoveStock
<1>3. cell \in [Product -> [Warehouse -> Cell]]
  BY DEF GoodStock
<1>4. Arrives(cell[p][from], c1, Need(p)) /\ Arrives(cell[p][to], c2, Need(p))
  <2>1. GoodCell(cell[p][from]) /\ GoodCell(cell[p][to]) /\ -n \in Int /\ n \in Int
    BY DEF GoodStock
  <2> QED
    BY <2>1, NeedOK, MovedArrives
<1> HIDE DEF c1, c2
<1>5. /\ cell'[p][from] = c1 /\ cell'[p][to] = c2
      /\ \A q \in Product, v \in Warehouse :
           ~ (q = p /\ v \in {from, to}) => cell'[q][v] = cell[q][v]
  <2>1. \A q \in Product, v \in Warehouse : q # p => cell'[q][v] = cell[q][v]
    BY <1>2, <1>3
  <2>2. cell'[p] = [cell[p] EXCEPT ![from] = c1, ![to] = c2] /\ cell[p] \in [Warehouse -> Cell]
    BY <1>2, <1>3
  <2>3. cell'[p][from] = c1 /\ cell'[p][to] = c2
    BY <1>2, <2>2
  <2>4. \A v \in Warehouse : v \notin {from, to} => cell'[p][v] = cell[p][v]
    BY <2>2
  <2> QED
    BY <2>1, <2>3, <2>4
<1>6. ASSUME NEW q \in Product, NEW v \in Warehouse
      PROVE  Arrives(cell[q][v], cell'[q][v], Need(q))
  <2>1. CASE q = p /\ v = from
    BY <1>4, <1>5, <2>1
  <2>2. CASE q = p /\ v = to
    BY <1>4, <1>5, <2>2
  <2>3. CASE ~ (q = p /\ v \in {from, to})
    <3>1. cell'[q][v] = cell[q][v]
      BY <1>5, <2>3
    <3> QED
      BY <1>3, <3>1, StillArrives
  <2> QED
    BY <2>1, <2>2, <2>3
<1> QED
  BY <1>1, <1>6 DEF ArrivalsOK, Fills

LEMMA CompleteStocktakeArrives ==
  ASSUME RestOK, GoodStock(cell), NEW s \in Session, CompleteStocktake(s)
  PROVE  ArrivalsOK
<1> DEFINE delta == [p \in Product |->
                       IF stocktake[s].actual[p] = NotCounted THEN 0
                       ELSE stocktake[s].actual[p] - stocktake[s].expected[p]]
           new == [p \in Product |->
                     Moved(cell[p][DefaultWarehouse], Need(p), delta[p], NoOrder)]
<1>1. GoodStock(cell') /\ UNCHANGED <<status, requirement>>
  BY CompleteStocktakeOK DEF StepOK, CompleteStocktake
<1>2. \A p \in Product : delta[p] \in Int
  <2>1. stocktake[s] \in StocktakeRow
    BY DEF RestOK
  <2> QED
    BY <2>1 DEF StocktakeRow, NotCounted
<1>3. cell' = WithDefaults(cell, new)
  BY DEF CompleteStocktake, WithDefaults
<1> HIDE DEF delta
<1>4. ASSUME NEW p \in Product PROVE Arrives(cell[p][DefaultWarehouse], new[p], Need(p))
  <2>1. GoodCell(cell[p][DefaultWarehouse]) /\ delta[p] \in Int
    BY <1>2, Rows DEF GoodStock
  <2> QED
    BY <2>1, NeedOK, MovedArrives
<1> HIDE DEF new
<1>5. cell \in [Product -> [Warehouse -> Cell]]
  BY DEF GoodStock
<1>6. ASSUME NEW q \in Product, NEW v \in Warehouse
      PROVE  Arrives(cell[q][v], cell'[q][v], Need(q))
  <2>1. CASE v = DefaultWarehouse
    <3>1. cell'[q][v] = new[q]
      BY <1>3, <1>5, <2>1 DEF WithDefaults
    <3> QED
      BY <1>4, <2>1, <3>1
  <2>2. CASE v # DefaultWarehouse
    <3>1. cell'[q][v] = cell[q][v]
      BY <1>3, <1>5, <2>2 DEF WithDefaults
    <3> QED
      BY <1>5, <3>1, StillArrives
  <2> QED
    BY <2>1, <2>2
<1> QED
  BY <1>1, <1>6 DEF ArrivalsOK, Fills

LEMMA GiveArrives ==
  ASSUME RestOK, GoodStock(cell), NEW o \in Order, NEW i \in Item, NEW b \in Batch,
         NEW n \in Nat, GiveItemToProduction(o, i, b, n)
  PROVE  ArrivalsOK
<1>1. lines[o] \in [Item -> Nat]
  BY DEF RestOK
<1>2. GoodStock(Claim(cell, o, lines[o])) /\ Empties(cell, Claim(cell, o, lines[o]))
  BY <1>1, ClaimOK, ClaimEmpties
<1>3. cell' = Claim(cell, o, lines[o]) \/ UNCHANGED cell
  BY DEF GiveItemToProduction
<1> QED
  BY <1>2, <1>3, UntouchedArrives DEF ArrivalsOK

LEMMA DecisionsArrive ==
  ASSUME RestOK, GoodStock(cell), NEW o \in Order, NEW decided \in SUBSET Product,
         NEW decision \in [decided -> Nat], SaveReservationDecisions(o, decision)
  PROVE  ArrivalsOK
<1> DEFINE delta(p) == decision[p] - requirement[o][p].fromStock
           here(p) == cell[p][DefaultWarehouse]
           new == [p \in Product |->
                     IF p \notin decided THEN here(p)
                     ELSE IF delta(p) > 0 THEN Grant(here(p), "STOCK", o, delta(p))
                     ELSE Release(here(p), "STOCK", o, - delta(p))]
<1>1. DOMAIN decision = decided
  OBVIOUS
<1>2. cell' = WithDefaults(cell, new)
  BY <1>1 DEF SaveReservationDecisions, WithDefaults
<1>3. GoodStock(cell')
  BY SaveReservationDecisionsOK DEF StepOK
<1>4. ASSUME NEW p \in Product PROVE Shrinks(here(p), new[p])
  <2>1. GoodCell(here(p)) /\ here(p) \in Cell
    BY Rows DEF GoodStock, GoodCell
  <2>2. requirement[o][p].fromStock \in Nat
    BY DEF RestOK, Requirement
  <2>3. CASE p \notin decided
    BY <2>1, <2>3, ShrinkReflexive
  <2>4. CASE p \in decided
    <3>1. delta(p) \in Int /\ - delta(p) \in Int /\ "STOCK" \in Source
      BY <2>2, <2>4 DEF Source
    <3> HIDE DEF delta, here
    <3>2. Shrinks(here(p), Grant(here(p), "STOCK", o, delta(p)))
      BY <2>1, <3>1, GrantShrinks
    <3>3. Shrinks(here(p), Release(here(p), "STOCK", o, - delta(p)))
      BY <2>1, <3>1, ReleaseShrinks
    <3> QED
      BY <2>4, <3>2, <3>3
  <2> QED
    BY <2>3, <2>4
<1> HIDE DEF new
<1>5. Empties(cell, cell')
  BY <1>2, <1>4, DefaultsEmpty
<1> QED
  BY <1>3, <1>5 DEF ArrivalsOK

LEMMA RemoveOrderArrives ==
  ASSUME RestOK, GoodStock(cell), NEW o \in Order, RemoveOrder(o)
  PROVE  ArrivalsOK
<1>1. GoodStock(cell')
  BY RemoveOrderOK DEF StepOK
<1>2. ASSUME NEW p \in Product, NEW w \in Warehouse PROVE Shrinks(cell[p][w], cell'[p][w])
  <2> DEFINE c == cell[p][w]
             c1 == ReleaseAll(c, o)
             c2 == Forget(c1, o)
  <2>1. GoodCell(c)
    BY DEF GoodStock
  <2>2. cell'[p][w] = c2
    BY DEF RemoveOrder, WithoutHolds
  <2> HIDE DEF c
  <2>3. GoodCell(c1) /\ Shrinks(c, c1) /\ GoodCell(c2)
    BY <2>1, ReleaseAllGood, ReleaseAllShrinks, DeletedGood
  <2> HIDE DEF c1
  <2>4. Shrinks(c1, c2)
    BY <2>3, ForgetShrinks DEF GoodCell
  <2> HIDE DEF c2
  <2>5. Shrinks(c, c2)
    BY <2>1, <2>3, <2>4, ShrinkTransitive DEF GoodCell
  <2> QED
    BY <2>2, <2>5 DEF c
<1> QED
  BY <1>1, <1>2 DEF ArrivalsOK, Empties

LEMMA NextArrives ==
  ASSUME RestOK, GoodStock(cell), [Next]_vars
  PROVE  ArrivalsOK
<1>1. /\ Amount \subseteq Nat /\ Amount \subseteq Int /\ AmountOrZero \subseteq Nat
      /\ LineQty \subseteq Nat
      /\ \A n \in Amount : -n \in Int
  BY InventoryAssumption DEF AmountOrZero
<1>2. CASE StockStep
  <2>1. PICK p \in Product :
          \/ \E w \in Warehouse, n \in Amount : RecordMovement(p, w, n) \/ RecordMovement(p, w, -n)
          \/ \E from, to \in Warehouse, n \in Amount : MoveStock(p, from, to, n)
          \/ \E newQty \in AssistantTotals : AdjustProductStock(p, newQty)
    BY <1>2 DEF StockStep
  <2>2. ASSUME NEW w \in Warehouse, NEW n \in Amount,
               RecordMovement(p, w, n) \/ RecordMovement(p, w, -n)
        PROVE  ArrivalsOK
    BY <1>1, <2>2, RecordMovementArrives
  <2>3. ASSUME NEW from \in Warehouse, NEW to \in Warehouse, NEW n \in Amount,
               MoveStock(p, from, to, n)
        PROVE  ArrivalsOK
    BY <1>1, <2>3, MoveStockArrives
  <2>4. ASSUME NEW newQty, AdjustProductStock(p, newQty) PROVE ArrivalsOK
    BY <2>4, UntouchedArrives DEF AdjustProductStock
  <2> QED
    BY <2>1, <2>2, <2>3, <2>4
<1>3. CASE StocktakeStep
  <2>1. (\E s \in Session : CompleteStocktake(s)) \/ UNCHANGED cell
    BY <1>3 DEF StocktakeStep, StartStocktake, RecordCount
  <2> QED
    BY <2>1, CompleteStocktakeArrives, UntouchedArrives
<1>4. CASE OrderStep
  <2>1. PICK o \in Order :
          \/ \E ls \in [Item -> LineQty \union {0}] : CreateOrder(o, ls)
          \/ \E i \in Item, n \in LineQty : AddItem(o, i, n) \/ UpdateItemQty(o, i, n)
          \/ \E i \in Item : RemoveItem(o, i)
          \/ \E i \in Item, b \in Batch, n \in LineQty : GiveItemToProduction(o, i, b, n)
          \/ \E decided \in SUBSET Product : \E decision \in [decided -> AmountOrZero] :
               decided # {} /\ SaveReservationDecisions(o, decision)
          \/ CancelOrder(o)
          \/ CompleteOrder(o)
          \/ RemoveOrder(o)
    BY <1>4 DEF OrderStep
  <2>2. ASSUME (\E ls : CreateOrder(o, ls)) \/ CompleteOrder(o) PROVE ArrivalsOK
    <3>1. UNCHANGED cell
      BY <2>2 DEF CreateOrder, CompleteOrder
    <3> QED
      BY <3>1, UntouchedArrives
  <2>3. ASSUME NEW i \in Item, NEW n \in Nat,
               AddItem(o, i, n) \/ UpdateItemQty(o, i, n) \/ RemoveItem(o, i)
        PROVE  ArrivalsOK
    <3>1. PICK m \in Nat : Rebuild(o, [lines[o] EXCEPT ![i] = m])
      BY <2>3 DEF AddItem, UpdateItemQty, RemoveItem
    <3>2. [lines[o] EXCEPT ![i] = m] \in [Item -> Nat]
      BY DEF RestOK
    <3> QED
      BY <3>1, <3>2, RebuildArrives
  <2>4. ASSUME NEW i \in Item, RemoveItem(o, i) PROVE ArrivalsOK
    <3>1. 0 \in Nat
      OBVIOUS
    <3> QED
      BY <2>3, <2>4, <3>1
  <2>5. ASSUME NEW i \in Item, NEW b \in Batch, NEW n \in LineQty,
               GiveItemToProduction(o, i, b, n)
        PROVE  ArrivalsOK
    BY <1>1, <2>5, GiveArrives
  <2>6. ASSUME NEW decided \in SUBSET Product, NEW decision \in [decided -> AmountOrZero],
               SaveReservationDecisions(o, decision)
        PROVE  ArrivalsOK
    <3>1. decision \in [decided -> Nat]
      BY <1>1
    <3> QED
      BY <2>6, <3>1, DecisionsArrive
  <2>7. ASSUME CancelOrder(o) PROVE ArrivalsOK
    <3>1. cell' = WithoutHolds(o)
      BY <2>7 DEF CancelOrder
    <3> QED
      BY <3>1, WithoutHoldsOK, WithoutHoldsEmpties DEF ArrivalsOK
  <2> QED
    BY <1>1, <2>1, <2>2, <2>3, <2>4, <2>5, <2>6, <2>7, RemoveOrderArrives
<1>5. CASE BatchStep \/ BomStep \/ UNCHANGED vars
  <2>1. UNCHANGED cell
    BY <1>5 DEF BatchStep, CancelBatch, RemoveBatch, BomStep, SetComponents, vars
  <2> QED
    BY <2>1, UntouchedArrives
<1> QED
  BY <1>2, <1>3, <1>4, <1>5 DEF Next

(***************************************************************************)
(* Every step leaves every cell as an arrival may leave it, with what the  *)
(* orders need after the step.                                             *)
(***************************************************************************)
LEMMA EveryStepArrives ==
  ASSUME Inv, [Next]_vars, NEW p \in Product, NEW w \in Warehouse
  PROVE  /\ cell[p][w] \in Cell /\ cell'[p][w] \in Cell
         /\ Arrives(cell[p][w], cell'[p][w], Need(p)')
         /\ Shrinks(cell[p][w], cell'[p][w]) \/ UNCHANGED <<status, requirement>>
<1>1. RestOK /\ GoodStock(cell) /\ ArrivalsOK
  BY InvSplit, NextArrives
<1>2. PICK c, c2, need : c = cell[p][w] /\ c2 = cell'[p][w] /\ need = Need(p)'
  OBVIOUS
<1>3. c \in Cell /\ c2 \in Cell
  BY <1>1, <1>2 DEF ArrivalsOK, GoodStock
<1>4. CASE Shrinks(c, c2)
  BY <1>2, <1>3, <1>4, ShrinkArrives
<1>5. CASE Arrives(c, c2, Need(p)) /\ UNCHANGED <<status, requirement>>
  <2>1. Need(p)' = Need(p)
    BY <1>5 DEF Need
  <2> QED
    BY <1>2, <1>3, <1>5, <2>1
<1> QED
  BY <1>1, <1>2, <1>4, <1>5 DEF ArrivalsOK, Empties, Fills

(***************************************************************************)
(* Arriving stock serves the waiting orders in the order they came.        *)
(***************************************************************************)
THEOREM OldestIsServedFirst == Spec => ArrivalsServeOldestFirst
<1>1. Inv /\ [Next]_vars =>
        [\A p \in Product, w \in Warehouse, young \in Order : \A old \in 1..(young - 1) :
           cell'[p][w].hold["PURCHASE"][young] > cell[p][w].hold["PURCHASE"][young]
             => Outstanding(cell'[p][w], old, Need(p)'[old]) = 0]_vars
  <2> SUFFICES ASSUME Inv, [Next]_vars, NEW p \in Product, NEW w \in Warehouse,
                      NEW young \in Order, NEW old \in 1..(young - 1),
                      cell'[p][w].hold["PURCHASE"][young] > cell[p][w].hold["PURCHASE"][young]
               PROVE  Outstanding(cell'[p][w], old, Need(p)'[old]) = 0
    OBVIOUS
  <2>1. Arrives(cell[p][w], cell'[p][w], Need(p)')
    BY EveryStepArrives
  <2> QED
    BY <2>1 DEF Arrives, InTurn
<1> QED
  BY <1>1, InvInductive, PTL DEF Spec, ArrivalsServeOldestFirst

(***************************************************************************)
(* No order is left waiting for arrived stock that is free.                *)
(***************************************************************************)
THEOREM NobodyIsLeftWaiting == Spec => ArrivalsLeaveNobodyWaiting
<1>1. Inv /\ [Next]_vars =>
        [\A p \in Product, w \in Warehouse :
           LET old == cell[p][w]
               new == cell'[p][w]
           IN  new.qty > old.qty =>
                 \/ new.reserved - old.reserved = new.qty - old.qty
                 \/ Available(new) <= 0
                 \/ \A o \in Order : Outstanding(new, o, Need(p)'[o]) = 0]_vars
  <2> SUFFICES ASSUME Inv, [Next]_vars, NEW p \in Product, NEW w \in Warehouse,
                      cell'[p][w].qty > cell[p][w].qty
               PROVE  \/ cell'[p][w].reserved - cell[p][w].reserved
                           = cell'[p][w].qty - cell[p][w].qty
                      \/ Available(cell'[p][w]) <= 0
                      \/ \A o \in Order : Outstanding(cell'[p][w], o, Need(p)'[o]) = 0
    OBVIOUS
  <2>1. Arrives(cell[p][w], cell'[p][w], Need(p)')
    BY EveryStepArrives
  <2> QED
    BY <2>1 DEF Arrives, NobodyLeft
<1> QED
  BY <1>1, InvInductive, PTL DEF Spec, ArrivalsLeaveNobodyWaiting

(***************************************************************************)
(* What arrives is reserved for orders in production only, and not beyond  *)
(* what they need.                                                         *)
(***************************************************************************)
THEOREM OnlyRunningOrdersAreFed == Spec => ArrivalsFeedOnlyRunningOrders
<1>1. Inv /\ [Next]_vars =>
        [\A p \in Product, w \in Warehouse, o \in Order :
           cell'[p][w].hold["PURCHASE"][o] > cell[p][w].hold["PURCHASE"][o]
             => /\ status[o] = "IN_PRODUCTION"
                /\ Held(cell'[p][w], o) + cell'[p][w].consumed[o]
                     <= requirement[o][p].required]_vars
  <2> SUFFICES ASSUME Inv, [Next]_vars, NEW p \in Product, NEW w \in Warehouse, NEW o \in Order,
                      cell'[p][w].hold["PURCHASE"][o] > cell[p][w].hold["PURCHASE"][o]
               PROVE  /\ status[o] = "IN_PRODUCTION"
                      /\ Held(cell'[p][w], o) + cell'[p][w].consumed[o]
                           <= requirement[o][p].required
    OBVIOUS
  <2> DEFINE c == cell[p][w]
             c2 == cell'[p][w]
  <2>1. /\ c \in Cell /\ c2 \in Cell /\ Arrives(c, c2, Need(p)')
        /\ Shrinks(c, c2) \/ UNCHANGED <<status, requirement>>
    BY EveryStepArrives
  <2> HIDE DEF c, c2
  <2>2. c2.hold["PURCHASE"][o] > c.hold["PURCHASE"][o]
    BY DEF c, c2
  <2>3. /\ c.hold["PURCHASE"][o] \in Nat /\ c2.hold["PURCHASE"][o] \in Nat
        /\ c2.hold["STOCK"][o] \in Nat /\ c2.consumed[o] \in Nat
    BY <2>1, HeldNat DEF Cell
  <2>4. UNCHANGED <<status, requirement>>
    BY <2>1, <2>2, <2>3 DEF Shrinks
  <2>5. Held(c2, o) + c2.consumed[o] <= Need(p)[o]
    <3>1. Need(p)' = Need(p)
      BY <2>4 DEF Need
    <3> QED
      BY <2>1, <2>2, <3>1 DEF Arrives, InTurn
  <2>6. Held(c2, o) + c2.consumed[o] > 0
    BY <2>2, <2>3 DEF Held
  <2>7. Held(c2, o) + c2.consumed[o] \in Nat
    BY <2>3 DEF Held
  <2>8. Need(p)[o] # 0
    BY <2>5, <2>6, <2>7
  <2> QED
    BY <2>5, <2>8 DEF Need, c2
<1> QED
  BY <1>1, InvInductive, PTL DEF Spec, ArrivalsFeedOnlyRunningOrders

-----------------------------------------------------------------------------
(* Batches and lines. *)

\* The units of batch c that count for the line (o, i).
UnitsFor(o, i) == [c \in Batch |-> IF Live(c, o, i) THEN batch[c].units ELSE 0]

LEMMA UnitsOK ==
  ASSUME RestOK, NEW o, NEW i
  PROVE  /\ UnitsFor(o, i) \in [1..NumBatches -> Nat]
         /\ UnitsFor(o, i) \in [1..NumBatches -> Int]
         /\ InProduction(o, i) = Total(UnitsFor(o, i), NumBatches)
         /\ InProduction(o, i) \in Nat
<1>1. \A c \in Batch : batch[c].units \in Nat
  BY DEF RestOK, BatchRow
<1>2. \A c \in Batch : (IF Live(c, o, i) THEN batch[c].units ELSE 0) \in Nat
  BY <1>1
<1>3. UnitsFor(o, i) \in [1..NumBatches -> Nat]
  BY <1>2, Rows DEF UnitsFor
<1>4. UnitsFor(o, i) \in [1..NumBatches -> Int]
  BY <1>3
<1>5. InProduction(o, i) = Total(UnitsFor(o, i), NumBatches)
  BY DEF InProduction, UnitsFor
<1> QED
  BY <1>3, <1>4, <1>5, Rows, TotalNat

(***************************************************************************)
(* A change of one batch changes what is in production by the change of    *)
(* that batch's share.                                                     *)
(***************************************************************************)
LEMMA OneBatchChanges ==
  ASSUME RestOK, RestOK', NEW o, NEW i, NEW b \in Batch, NEW d \in Int,
         UnitsFor(o, i)'[b] = UnitsFor(o, i)[b] + d,
         \A c \in Batch : c # b => batch'[c] = batch[c]
  PROVE  InProduction(o, i)' = InProduction(o, i) + d
<1>1. /\ UnitsFor(o, i) \in [1..NumBatches -> Int]
      /\ InProduction(o, i) = Total(UnitsFor(o, i), NumBatches)
  BY UnitsOK
<1>2. /\ UnitsFor(o, i)' \in [1..NumBatches -> Int]
      /\ InProduction(o, i)' = Total(UnitsFor(o, i)', NumBatches)
  <2>1. \A c \in Batch : batch'[c].units \in Nat
    BY DEF RestOK, BatchRow
  <2>2. \A c \in Batch : (IF Live(c, o, i)' THEN batch'[c].units ELSE 0) \in Int
    BY <2>1
  <2>3. UnitsFor(o, i)' \in [1..NumBatches -> Int]
    BY <2>2, Rows DEF UnitsFor
  <2> QED
    BY <2>3 DEF InProduction, UnitsFor
<1>3. ASSUME NEW c \in 1..NumBatches, c # b
      PROVE  UnitsFor(o, i)'[c] = UnitsFor(o, i)[c]
  BY <1>3, Rows DEF UnitsFor, Live
<1> QED
  BY <1>1, <1>2, <1>3, Rows, TotalUpdate

LEMMA SameBatches ==
  ASSUME UNCHANGED batch, NEW o, NEW i
  PROVE  InProduction(o, i)' = InProduction(o, i)
BY DEF InProduction, Live

LEMMA NoLiveBatch ==
  ASSUME RestOK', NEW o, NEW i, \A c \in Batch : ~ Live(c, o, i)'
  PROVE  InProduction(o, i)' = 0
<1>1. [c \in Batch |-> IF Live(c, o, i)' THEN batch'[c].units ELSE 0]
        = [c \in 1..NumBatches |-> 0]
  BY Rows
<1>2. Total([c \in Batch |-> IF Live(c, o, i)' THEN batch'[c].units ELSE 0], NumBatches) = 0
  BY <1>1, Rows, TotalZero
<1> QED
  BY <1>2 DEF InProduction

(***************************************************************************)
(* The inductive invariant of BatchesFitTheLine: an order that does not    *)
(* exist yet has no lines, so a batch that fits a line belongs to an order *)
(* that was created.                                                       *)
(***************************************************************************)
NoLinesYet == \A o \in Order, i \in Item : status[o] = "NONE" => lines[o][i] = 0
LinesInv == BatchesFitTheLine /\ NoLinesYet

LEMMA LineEditsFit ==
  ASSUME RestOK, LinesInv, NEW o \in Order, Exists(o), NEW i \in Item, NEW n \in Nat,
         InProduction(o, i) <= n, Rebuild(o, [lines[o] EXCEPT ![i] = n])
  PROVE  LinesInv'
<1>1. /\ lines' = [lines EXCEPT ![o] = [lines[o] EXCEPT ![i] = n]]
      /\ UNCHANGED <<status, batch>>
  BY DEF Rebuild
<1>2. \A p \in Order, j \in Item : InProduction(p, j)' = InProduction(p, j)
  BY <1>1, SameBatches
<1>3. ASSUME NEW p \in Order, NEW j \in Item
      PROVE  lines'[p][j] = IF p = o /\ j = i THEN n ELSE lines[p][j]
  BY <1>1 DEF RestOK
<1>4. BatchesFitTheLine'
  BY <1>2, <1>3 DEF LinesInv, BatchesFitTheLine
<1>5. NoLinesYet'
  BY <1>1, <1>3 DEF LinesInv, NoLinesYet, Exists
<1> QED
  BY <1>4, <1>5 DEF LinesInv

LEMMA LineActionsFit ==
  ASSUME RestOK, LinesInv, NEW o \in Order, NEW i \in Item, NEW n \in Nat,
         AddItem(o, i, n) \/ UpdateItemQty(o, i, n) \/ RemoveItem(o, i)
  PROVE  LinesInv'
<1>1. Exists(o)
  BY DEF AddItem, UpdateItemQty, RemoveItem, Editable, Exists
<1>2. InProduction(o, i) \in Nat
  BY UnitsOK
<1>3. CASE AddItem(o, i, n)
  <2>1. InProduction(o, i) <= n
    BY <1>2, <1>3 DEF AddItem, LinesInv, BatchesFitTheLine
  <2> QED
    BY <1>1, <1>3, <2>1, LineEditsFit DEF AddItem
<1>4. CASE UpdateItemQty(o, i, n)
  <2>1. InProduction(o, i) <= n
    BY <1>4 DEF UpdateItemQty
  <2> QED
    BY <1>1, <1>4, <2>1, LineEditsFit DEF UpdateItemQty
<1>5. CASE RemoveItem(o, i)
  <2>1. \A c \in Batch : ~ Live(c, o, i)
    BY <1>5 DEF RemoveItem
  <2>2. UnitsFor(o, i) = [c \in 1..NumBatches |-> 0]
    BY <2>1, Rows DEF UnitsFor
  <2>3. InProduction(o, i) = 0
    BY <2>2, Rows, TotalZero, UnitsOK
  <2>4. 0 \in Nat /\ InProduction(o, i) <= 0
    BY <2>3
  <2> QED
    BY <1>1, <1>5, <2>4, LineEditsFit DEF RemoveItem
<1> QED
  BY <1>3, <1>4, <1>5

LEMMA CreateOrderFits ==
  ASSUME RestOK, LinesInv, NEW o \in Order, NEW ls \in [Item -> Nat], CreateOrder(o, ls)
  PROVE  LinesInv'
<1>1. /\ status[o] = "NONE" /\ status' = [status EXCEPT ![o] = "NEW"]
      /\ lines' = [lines EXCEPT ![o] = ls] /\ UNCHANGED batch
  BY DEF CreateOrder
<1>2. \A p \in Order, j \in Item :
         InProduction(p, j)' = InProduction(p, j) /\ InProduction(p, j) \in Nat
  BY <1>1, SameBatches, UnitsOK
<1>3. ASSUME NEW p \in Order, NEW j \in Item
      PROVE  /\ lines'[p][j] = IF p = o THEN ls[j] ELSE lines[p][j]
             /\ status'[p] = IF p = o THEN "NEW" ELSE status[p]
             /\ ls[j] \in Nat
  BY <1>1 DEF RestOK
<1>4. BatchesFitTheLine'
  <2> SUFFICES ASSUME NEW p \in Order, NEW j \in Item
               PROVE  InProduction(p, j)' <= lines'[p][j]
    BY DEF BatchesFitTheLine
  <2>1. CASE p = o
    <3>1. InProduction(o, j) <= 0
      BY <1>1 DEF LinesInv, BatchesFitTheLine, NoLinesYet
    <3> QED
      BY <1>2, <1>3, <2>1, <3>1
  <2>2. CASE p # o
    BY <1>2, <1>3, <2>2 DEF LinesInv, BatchesFitTheLine
  <2> QED
    BY <2>1, <2>2
<1>5. NoLinesYet'
  BY <1>3 DEF LinesInv, NoLinesYet
<1> QED
  BY <1>4, <1>5 DEF LinesInv

LEMMA GiveItemFits ==
  ASSUME RestOK, RestOK', LinesInv, NEW o \in Order, NEW i \in Item, NEW b \in Batch,
         NEW n \in Nat, GiveItemToProduction(o, i, b, n)
  PROVE  LinesInv'
<1> DEFINE row == [status |-> "PLANNED", order |-> o, item |-> i, units |-> n,
                   components |-> bom[i]]
<1>1. /\ batch[b].status = "NONE" /\ batch' = [batch EXCEPT ![b] = row]
      /\ UNCHANGED lines /\ n <= lines[o][i] - InProduction(o, i)
  BY DEF GiveItemToProduction
<1>2. /\ batch'[b] = row
      /\ \A c \in Batch : c # b => batch'[c] = batch[c]
  BY <1>1 DEF RestOK
<1>3. ASSUME NEW p \in Order, NEW j \in Item
      PROVE  InProduction(p, j)' <= lines'[p][j]
  <2> DEFINE d == IF p = o /\ j = i THEN n ELSE 0
  <2>1. UnitsFor(p, j)[b] = 0
    BY <1>1 DEF UnitsFor, Live
  <2>2. UnitsFor(p, j)'[b] = d
    BY <1>2 DEF UnitsFor, Live
  <2>3. d \in Int /\ UnitsFor(p, j)'[b] = UnitsFor(p, j)[b] + d
    BY <2>1, <2>2
  <2> HIDE DEF d
  <2>4. InProduction(p, j)' = InProduction(p, j) + d
    BY <1>2, <2>3, OneBatchChanges
  <2>5. InProduction(p, j) \in Nat /\ lines[p][j] \in Nat /\ InProduction(p, j) <= lines[p][j]
    BY UnitsOK DEF RestOK, LinesInv, BatchesFitTheLine
  <2> QED
    BY <1>1, <2>4, <2>5 DEF d
<1>4. BatchesFitTheLine'
  BY <1>3 DEF BatchesFitTheLine
<1>5. NoLinesYet'
  BY DEF GiveItemToProduction, LinesInv, NoLinesYet, RestOK
<1> QED
  BY <1>4, <1>5 DEF LinesInv

LEMMA BatchStepFits ==
  ASSUME RestOK, RestOK', LinesInv, NEW b \in Batch, CancelBatch(b) \/ RemoveBatch(b)
  PROVE  LinesInv'
<1>1. PICK st \in {"CANCELLED", "DELETED"} : batch' = [batch EXCEPT ![b].status = st]
  BY DEF CancelBatch, RemoveBatch
<1>2. /\ batch'[b].status = st
      /\ \A c \in Batch : c # b => batch'[c] = batch[c]
  BY <1>1 DEF RestOK, BatchRow
<1>3. UNCHANGED <<lines, status>>
  BY DEF CancelBatch, RemoveBatch
<1>4. ASSUME NEW p \in Order, NEW j \in Item
      PROVE  InProduction(p, j)' <= lines'[p][j]
  <2> DEFINE d == - UnitsFor(p, j)[b]
  <2>1. UnitsFor(p, j)[b] \in Nat
    BY UnitsOK, Rows
  <2>2. UnitsFor(p, j)'[b] = 0
    BY <1>2 DEF UnitsFor, Live
  <2>3. d \in Int /\ d <= 0 /\ UnitsFor(p, j)'[b] = UnitsFor(p, j)[b] + d
    BY <2>1, <2>2
  <2> HIDE DEF d
  <2>4. InProduction(p, j)' = InProduction(p, j) + d
    BY <1>2, <2>3, OneBatchChanges
  <2>5. InProduction(p, j) \in Nat /\ lines[p][j] \in Nat /\ InProduction(p, j) <= lines[p][j]
    BY UnitsOK DEF RestOK, LinesInv, BatchesFitTheLine
  <2> QED
    BY <1>3, <2>3, <2>4, <2>5
<1> QED
  BY <1>3, <1>4 DEF LinesInv, BatchesFitTheLine, NoLinesYet

LEMMA RemoveOrderFits ==
  ASSUME RestOK, RestOK', LinesInv, NEW o \in Order, RemoveOrder(o)
  PROVE  LinesInv'
<1>1. ASSUME NEW c \in Batch
      PROVE  /\ batch[c].order = o => batch'[c].order = NoOrder
             /\ batch[c].order # o => batch'[c] = batch[c]
  <2>1. batch[c] \in BatchRow
    BY DEF RestOK
  <2>2. batch'[c] = IF batch[c].order = o
                    THEN [batch[c] EXCEPT !.order = NoOrder, !.item = 0] ELSE batch[c]
    BY DEF RemoveOrder
  <2> QED
    BY <2>1, <2>2 DEF BatchRow
<1>2. o # NoOrder
  BY Rows DEF NoOrder
<1>3. ASSUME NEW p \in Order, NEW j \in Item
      PROVE  /\ lines'[p][j] = IF p = o THEN 0 ELSE lines[p][j]
             /\ status'[p] = IF p = o THEN "DELETED" ELSE status[p]
  BY DEF RemoveOrder, RestOK
<1>4. ASSUME NEW j \in Item PROVE InProduction(o, j)' = 0
  <2>1. \A c \in Batch : ~ Live(c, o, j)'
    BY <1>1, <1>2 DEF Live
  <2> QED
    BY <2>1, NoLiveBatch
<1>5. ASSUME NEW p \in Order, p # o, NEW j \in Item
      PROVE  InProduction(p, j)' = InProduction(p, j)
  <2>1. p # NoOrder
    BY Rows DEF NoOrder
  <2>2. \A c \in Batch : /\ Live(c, p, j)' <=> Live(c, p, j)
                         /\ Live(c, p, j) => batch'[c].units = batch[c].units
    BY <1>1, <1>5, <2>1 DEF Live
  <2>3. [c \in Batch |-> IF Live(c, p, j)' THEN batch'[c].units ELSE 0]
          = [c \in Batch |-> IF Live(c, p, j) THEN batch[c].units ELSE 0]
    BY <2>2
  <2> QED
    BY <2>3 DEF InProduction
<1>6. BatchesFitTheLine'
  <2> SUFFICES ASSUME NEW p \in Order, NEW j \in Item
               PROVE  InProduction(p, j)' <= lines'[p][j]
    BY DEF BatchesFitTheLine
  <2>1. CASE p = o
    BY <1>3, <1>4, <2>1
  <2>2. CASE p # o
    BY <1>3, <1>5, <2>2 DEF LinesInv, BatchesFitTheLine
  <2> QED
    BY <2>1, <2>2
<1>7. NoLinesYet'
  BY <1>3 DEF LinesInv, NoLinesYet
<1> QED
  BY <1>6, <1>7 DEF LinesInv

LEMMA OthersFit ==
  ASSUME LinesInv, UNCHANGED <<batch, lines>>,
         \A p \in Order : status'[p] = "NONE" => status[p] = "NONE"
  PROVE  LinesInv'
<1>1. \A p \in Order, j \in Item : InProduction(p, j)' = InProduction(p, j)
  BY SameBatches
<1> QED
  BY <1>1 DEF LinesInv, BatchesFitTheLine, NoLinesYet

\* Orders close without becoming orders that were never created.
LEMMA ClosingFits ==
  ASSUME RestOK, LinesInv, NEW o \in Order, CancelOrder(o) \/ CompleteOrder(o)
  PROVE  LinesInv'
<1>1. PICK st \in {"CANCELLED", "COMPLETED"} : status' = [status EXCEPT ![o] = st]
  BY DEF CancelOrder, CompleteOrder
<1>2. \A p \in Order : status'[p] = "NONE" => status[p] = "NONE"
  BY <1>1 DEF RestOK
<1>3. UNCHANGED <<batch, lines>>
  BY DEF CancelOrder, CompleteOrder
<1> QED
  BY <1>2, <1>3, OthersFit

\* Movements, stocktakes and component lists concern neither orders nor batches.
LEMMA StockStepsLeaveOrders ==
  ASSUME StockStep \/ StocktakeStep \/ BomStep
  PROVE  UNCHANGED <<batch, lines, status>>
<1>1. ASSUME NEW p, NEW w, NEW n, RecordMovement(p, w, n)
      PROVE  UNCHANGED <<batch, lines, status>>
  BY <1>1 DEF RecordMovement
<1>2. ASSUME NEW p, NEW from, NEW to, NEW n, MoveStock(p, from, to, n)
      PROVE  UNCHANGED <<batch, lines, status>>
  BY <1>2 DEF MoveStock
<1>3. ASSUME NEW p, NEW n, AdjustProductStock(p, n)
      PROVE  UNCHANGED <<batch, lines, status>>
  BY <1>3 DEF AdjustProductStock
<1>4. CASE StockStep
  BY <1>1, <1>2, <1>3, <1>4 DEF StockStep
<1>5. CASE StocktakeStep
  BY <1>5 DEF StocktakeStep, StartStocktake, RecordCount, CompleteStocktake
<1>6. CASE BomStep
  BY <1>6 DEF BomStep, SetComponents
<1> QED
  BY <1>4, <1>5, <1>6

\* Every step, and every stutter, keeps the batches within their lines.
LEMMA NextFits ==
  ASSUME RestOK, RestOK', LinesInv, [Next]_vars
  PROVE  LinesInv'
<1>1. LineQty \subseteq Nat /\ LineQty \union {0} \subseteq Nat
  BY InventoryAssumption DEF AmountOrZero
<1>2. CASE UNCHANGED <<batch, lines, status>>
  BY <1>2, OthersFit
<1>3. CASE OrderStep
  <2>1. PICK o \in Order :
          \/ \E ls \in [Item -> LineQty \union {0}] : CreateOrder(o, ls)
          \/ \E i \in Item, n \in LineQty : AddItem(o, i, n) \/ UpdateItemQty(o, i, n)
          \/ \E i \in Item : RemoveItem(o, i)
          \/ \E i \in Item, b \in Batch, n \in LineQty : GiveItemToProduction(o, i, b, n)
          \/ \E decided \in SUBSET Product : \E decision \in [decided -> AmountOrZero] :
               decided # {} /\ SaveReservationDecisions(o, decision)
          \/ CancelOrder(o)
          \/ CompleteOrder(o)
          \/ RemoveOrder(o)
    BY <1>3 DEF OrderStep
  <2>2. ASSUME NEW ls \in [Item -> LineQty \union {0}], CreateOrder(o, ls) PROVE LinesInv'
    <3>1. ls \in [Item -> Nat]
      BY <1>1
    <3> QED
      BY <2>2, <3>1, CreateOrderFits
  <2>3. ASSUME NEW i \in Item, NEW n \in LineQty, AddItem(o, i, n) \/ UpdateItemQty(o, i, n)
        PROVE  LinesInv'
    BY <1>1, <2>3, LineActionsFit
  <2>4. ASSUME NEW i \in Item, RemoveItem(o, i) PROVE LinesInv'
    <3>1. 0 \in Nat
      OBVIOUS
    <3> QED
      BY <2>4, <3>1, LineActionsFit
  <2>5. ASSUME NEW i \in Item, NEW b \in Batch, NEW n \in LineQty,
               GiveItemToProduction(o, i, b, n)
        PROVE  LinesInv'
    BY <1>1, <2>5, GiveItemFits
  <2>6. ASSUME NEW decided, NEW decision, SaveReservationDecisions(o, decision)
        PROVE  LinesInv'
    <3>1. UNCHANGED <<batch, lines, status>>
      BY <2>6 DEF SaveReservationDecisions
    <3> QED
      BY <1>2, <3>1
  <2> QED
    BY <2>1, <2>2, <2>3, <2>4, <2>5, <2>6, ClosingFits, RemoveOrderFits
<1>4. CASE StockStep
  BY <1>2, <1>4, StockStepsLeaveOrders
<1>5. CASE StocktakeStep
  BY <1>2, <1>5, StockStepsLeaveOrders
<1>6. CASE BatchStep
  BY <1>6, BatchStepFits DEF BatchStep
<1>7. CASE BomStep
  BY <1>2, <1>7 DEF BomStep, SetComponents
<1>8. CASE UNCHANGED vars
  BY <1>2, <1>8 DEF vars
<1> QED
  BY <1>3, <1>4, <1>5, <1>6, <1>7, <1>8 DEF Next

LEMMA InitFits == Init => LinesInv
<1> SUFFICES ASSUME Init PROVE LinesInv
  OBVIOUS
<1>1. \A o \in Order, i \in Item : lines[o][i] = 0
  BY DEF Init
<1>2. ASSUME NEW o \in Order, NEW i \in Item
      PROVE  InProduction(o, i) = 0
  <2>1. \A c \in Batch : ~ Live(c, o, i)
    BY DEF Init, NoBatch, Live
  <2>2. [c \in Batch |-> IF Live(c, o, i) THEN batch[c].units ELSE 0]
          = [c \in 1..NumBatches |-> 0]
    BY <2>1, Rows
  <2> QED
    BY <2>2, Rows, TotalZero DEF InProduction
<1> QED
  BY <1>1, <1>2 DEF LinesInv, BatchesFitTheLine, NoLinesYet

(***************************************************************************)
(* Whatever is edited, given to production, cancelled or removed, and in   *)
(* whatever order, the batches of a line never add up to more than it.     *)
(***************************************************************************)
THEOREM BatchesFit == Spec => []BatchesFitTheLine
<1>1. Init => LinesInv
  BY InitFits
<1>2. Inv /\ Inv' /\ LinesInv /\ [Next]_vars => LinesInv'
  <2> SUFFICES ASSUME Inv, Inv', LinesInv, [Next]_vars PROVE LinesInv'
    OBVIOUS
  <2>1. RestOK /\ RestOK'
    BY DEF Inv, TypeOK, RestOK
  <2> QED
    BY <2>1, NextFits
<1>3. LinesInv => BatchesFitTheLine
  BY DEF LinesInv
<1> QED
  BY <1>1, <1>2, <1>3, InvInductive, PTL DEF Spec

-----------------------------------------------------------------------------
(* Production. *)

ProductionRows ==
  /\ taken \in [Batch -> [Warehouse -> Nat]]
  /\ returned \in [Batch -> [Warehouse -> Nat]]
  /\ stage \in [Batch -> Nat]
  /\ outputUsed \in [Batch -> BOOLEAN]

ProductionInv == Inv /\ ProductionRows

\* What every step of Production has to show.
ProductionStepOK == StepOK /\ ProductionRows'

LEMMA ProductionInvSplit ==
  ProductionInv <=> RestOK /\ GoodStock(cell) /\ ProductionRows
BY InvSplit DEF ProductionInv

LEMMA WarehouseRows == NumWarehouses \in Nat /\ Warehouse = 1..NumWarehouses
BY InventoryAssumption DEF Warehouse

LEMMA BatchRowsOK ==
  ASSUME RestOK, NEW b \in Batch
  PROVE  /\ OrderOf(b) \in Order \union {NoOrder}
         /\ \A p \in Product : BatchNeed(b, p) \in Nat
<1>1. batch[b] \in BatchRow
  BY DEF RestOK
<1>2. batch[b].units \in Nat /\ batch[b].components \in [Product -> Nat]
      /\ batch[b].order \in Order \union {NoOrder}
  BY <1>1 DEF BatchRow
<1> QED
  BY <1>2 DEF OrderOf, BatchNeed

-----------------------------------------------------------------------------
(* The material of a start. *)

\* Consuming one order's reservation leaves what the others hold.
LEMMA ConsumeSparesOthers ==
  ASSUME NEW c, GoodCell(c), NEW s \in Source, NEW o \in Order, NEW n \in Int,
         NEW other \in Order, other # o
  PROVE  Held(Consume(c, s, o, n), other) = Held(c, other)
<1> DEFINE m == Released(c, s, o, n)
<1>1. m \in Nat /\ HoldMoves(c, Release(c, s, o, n), s, o, - m)
  BY ReleaseMoves
<1>2. c.hold \in [Source -> [Order -> Nat]]
  BY DEF GoodCell, Cell
<1>3. Consume(c, s, o, n).hold = Adjusted(c.hold, s, o, - m)
  BY DEF Consume, Release
<1> HIDE DEF m
<1>4. \A t \in Source : Adjusted(c.hold, s, o, - m)[t][other] = c.hold[t][other]
  BY <1>2 DEF Adjusted
<1> QED
  BY <1>3, <1>4 DEF Held, Source

\* Taking material keeps total and holds together, lowers only the order's own
\* reservations and takes n out of the physical stock.
LEMMA TakenGood ==
  ASSUME NEW c, GoodCell(c), NEW o \in Order \union {NoOrder}, NEW n \in Nat
  PROVE  LET c2 == Taken(c, o, n)
         IN  /\ GoodCell(c2) /\ c2.qty = c.qty - n /\ c2.reserved <= c.reserved
             /\ \A other \in Order : other # o => Held(c2, other) = Held(c, other)
<1> DEFINE issued == [c EXCEPT !.qty = c.qty - n]
           k == Least(n, c.hold["STOCK"][o])
           c1 == Consume(issued, "STOCK", o, k)
           c2 == Consume(c1, "PURCHASE", o, n - k)
<1>1. c \in Cell /\ c.qty \in Int /\ c.reserved \in Nat
  BY DEF GoodCell, Cell
<1>2. /\ issued \in Cell /\ issued.qty = c.qty - n /\ issued.reserved = c.reserved
      /\ issued.hold = c.hold
  BY <1>1 DEF Cell
<1> HIDE DEF issued
<1>3. GoodCell(issued) /\ \A p \in Order : Held(issued, p) = Held(c, p)
  <2>1. \A p \in Order : Held(issued, p) = Held(c, p)
    BY <1>2 DEF Held
  <2>2. [p \in Order |-> Held(issued, p)] = [p \in Order |-> Held(c, p)]
    BY <2>1
  <2> QED
    BY <1>2, <2>1, <2>2 DEF GoodCell, Matched
<1>4. CASE o = NoOrder
  <2>1. Taken(c, o, n) = issued
    BY <1>4 DEF Taken, issued
  <2> QED
    BY <1>1, <1>2, <1>3, <2>1
<1>5. CASE o \in Order
  <2>1. o # NoOrder
    BY <1>5, OrderRows DEF NoOrder
  <2>2. Taken(c, o, n) = c2
    BY <2>1 DEF Taken, issued
  <2>3. "STOCK" \in Source /\ "PURCHASE" \in Source
    BY DEF Source
  <2>4. c.hold["STOCK"][o] \in Nat
    BY <1>1, <1>5, HeldNat
  <2>5. k \in Int /\ n - k \in Int
    BY <2>4 DEF Least
  <2> HIDE DEF k
  <2>6. GoodCell(c1) /\ c1.qty = issued.qty /\ c1.reserved <= issued.reserved
    BY <1>3, <1>5, <2>3, <2>5, ConsumeGood
  <2>7. \A other \in Order : other # o => Held(c1, other) = Held(issued, other)
    BY <1>3, <1>5, <2>3, <2>5, ConsumeSparesOthers
  <2> HIDE DEF c1
  <2>8. GoodCell(c2) /\ c2.qty = c1.qty /\ c2.reserved <= c1.reserved
    BY <1>5, <2>3, <2>5, <2>6, ConsumeGood
  <2>9. \A other \in Order : other # o => Held(c2, other) = Held(c1, other)
    BY <1>5, <2>3, <2>5, <2>6, ConsumeSparesOthers
  <2>10. c1.reserved \in Nat /\ c2.reserved \in Nat
    BY <2>6, <2>8 DEF GoodCell, Cell
  <2> HIDE DEF c2
  <2> QED
    BY <1>1, <1>2, <1>3, <2>2, <2>6, <2>7, <2>8, <2>9, <2>10
<1> QED
  BY <1>4, <1>5

(***************************************************************************)
(* The material of a revert: any number of movements, each with its        *)
(* top-up.                                                                 *)
(***************************************************************************)
LEMMA ReturnedGood ==
  ASSUME NEW c, GoodCell(c), NEW need \in [Order -> Nat], NEW o, NEW n \in Nat, NEW k \in Nat
  PROVE  Fits(c, Returned(c, need, o, n, k)) /\ Returned(c, need, o, n, k).consumed = c.consumed
<1> DEFINE S == {d \in Cell : Fits(c, d) /\ d.consumed = c.consumed}
           Back(d) == Moved(d, need, n, o)
           g == [y \in S \X (1..k) |-> Back(y[1])]
           P(h) == h = [j \in 0..k |-> IF j = 0 THEN c ELSE Moved(h[j - 1], need, n, o)]
           chosen == CHOOSE h : P(h)
<1>1. c \in S
  BY DEF Fits, GoodCell, Cell
<1>2. ASSUME NEW d \in S PROVE Back(d) \in S
  <2>1. /\ GoodCell(d) /\ (d.reserved > c.reserved => d.reserved <= d.qty)
        /\ d.consumed = c.consumed
    BY DEF Fits
  <2>2. /\ GoodCell(Back(d)) /\ Back(d).consumed = d.consumed /\ Back(d).qty = d.qty + n /\ Back(d).reserved >= d.reserved
        /\ Back(d).reserved > d.reserved => Back(d).reserved <= Back(d).qty
    BY <2>1, MovedGood
  <2> HIDE DEF Back
  <2>3. /\ Back(d) \in Cell /\ Back(d).reserved \in Nat /\ d.reserved \in Nat
        /\ c.reserved \in Nat /\ d.qty \in Int
    BY <2>1, <2>2, <1>1 DEF GoodCell, Cell
  <2> QED
    BY <2>1, <2>2, <2>3 DEF Fits
<1>3. \A d \in S, j \in 1..k : g[<<d, j>>] = Back(d) /\ g[<<d, j>>] \in S
  <2> HIDE DEF Back, S
  <2> QED
    BY <1>2
<1> HIDE DEF g, S
<1>4. PICK h : Unfolds(h, g, S, c, k)
  <2>1. Steps(g, S, k)
    BY <1>3 DEF Steps
  <2> QED
    BY <1>1, <2>1, RecursionExists
<1>5. P(h)
  <2>1. /\ h \in [0..k -> S] /\ h[0] = c
        /\ \A j \in 1..k : h[j] = g[<<h[j - 1], j>>]
    BY <1>4 DEF Unfolds
  <2>2. ASSUME NEW j \in 1..k PROVE h[j] = Back(h[j - 1])
    <3>1. j - 1 \in 0..k
      OBVIOUS
    <3>2. h[j - 1] \in S
      BY <2>1, <3>1
    <3> HIDE DEF Back
    <3> QED
      BY <2>1, <3>2, <1>3
  <2> QED
    BY <2>1, <2>2
<1>6. P(chosen)
  BY <1>5
<1>7. Returned(c, need, o, n, k) = chosen[k]
  BY DEF Returned
<1> HIDE DEF chosen
<1>8. chosen[0] = c /\ \A j \in 1..k : chosen[j] = Back(chosen[j - 1])
  BY <1>6
<1>9. \A j \in 1..k : chosen[j - 1] \in S => chosen[j] \in S
  <2> HIDE DEF Back
  <2> QED
    BY <1>2, <1>8
<1>10. chosen[k] \in S
  <2>1. \A j \in 0..k : chosen[j] \in S
    BY <1>1, <1>8, <1>9, StaysIn
  <2> QED
    BY <2>1
<1> QED
  BY <1>7, <1>10 DEF S

-----------------------------------------------------------------------------
(* One lemma per action of Production. *)

LEMMA CreateBatchOK ==
  ASSUME RestOK, GoodStock(cell), ProductionRows, NEW b \in Batch, NEW a \in Item,
         NEW o \in Order \union {NoOrder}, NEW i \in Item, NEW n \in LineQty,
         CreateBatch(b, a, o, i, n)
  PROVE  ProductionStepOK
<1> DEFINE row == [status |-> "PLANNED", order |-> o, item |-> IF o = NoOrder THEN 0 ELSE i,
                   units |-> n, components |-> bom[a]]
<1>1. n \in Nat /\ bom[a] \in [Product -> Nat]
  BY InventoryAssumption DEF RestOK
<1>2. row \in BatchRow
  BY <1>1 DEF BatchRow, BatchStatus
<1>3. batch' = [batch EXCEPT ![b] = row]
  BY DEF CreateBatch
<1> HIDE DEF row
<1>4. RestOK' /\ UNCHANGED cell
  BY <1>2, <1>3 DEF CreateBatch, RestOK
<1>5. ProductionRows'
  BY DEF CreateBatch, productionVars, ProductionRows
<1> QED
  BY <1>4, <1>5, StockUntouched DEF ProductionStepOK

\* A batch whose status alone changes is still a batch.
LEMMA NewStatusOK ==
  ASSUME RestOK, NEW b \in Batch, NEW st \in BatchStatus
  PROVE  [batch EXCEPT ![b].status = st] \in [Batch -> BatchRow]
<1>1. [batch[b] EXCEPT !.status = st] \in BatchRow
  BY DEF RestOK, BatchRow
<1> QED
  BY <1>1 DEF RestOK

LEMMA StartOK ==
  ASSUME RestOK, GoodStock(cell), ProductionRows, NEW b \in Batch, NEW w \in Warehouse,
         Start(b, w)
  PROVE  ProductionStepOK
<1> DEFINE new(p) == Taken(cell[p][w], OrderOf(b), BatchNeed(b, p))
           cs == [p \in Product |-> [cell[p] EXCEPT ![w] = new(p)]]
<1>1. ASSUME NEW p \in Product
      PROVE  GoodCell(new(p)) /\ new(p).reserved <= cell[p][w].reserved
  <2>1. GoodCell(cell[p][w])
    BY DEF GoodStock
  <2> QED
    BY <2>1, BatchRowsOK, TakenGood
<1>2. cell' = cs
  BY DEF Start
<1> HIDE DEF new
<1>3. cell \in [Product -> [Warehouse -> Cell]] /\ \A p \in Product : new(p) \in Cell
  BY <1>1 DEF GoodStock, GoodCell
<1>4. \A p \in Product, v \in Warehouse :
        cs[p][v] = IF v = w THEN new(p) ELSE cell[p][v]
  BY <1>3
<1>5. GoodStock(cs) /\ GrantsFit(cell, cs)
  <2>1. cs \in [Product -> [Warehouse -> Cell]]
    BY <1>3
  <2>2. \A p \in Product, v \in Warehouse : cell[p][v].reserved \in Nat /\ cs[p][v].reserved \in Nat
    BY <1>3, <2>1 DEF Cell
  <2> HIDE DEF cs
  <2>3. \A p \in Product, v \in Warehouse :
          GoodCell(cs[p][v]) /\ cs[p][v].reserved <= cell[p][v].reserved
    BY <1>1, <1>4, <2>2 DEF GoodStock
  <2> QED
    BY <2>1, <2>2, <2>3 DEF GoodStock, GrantsFit
<1>6. batch' \in [Batch -> BatchRow]
  <2>1. PICK st \in BatchStatus : batch' = [batch EXCEPT ![b].status = st]
    BY DEF Start, BatchStatus
  <2> QED
    BY <2>1, NewStatusOK
<1>7. productQty' \in [Product -> Int]
  <2>1. \A p \in Product : productQty[p] - BatchNeed(b, p) \in Int
    BY BatchRowsOK DEF RestOK
  <2> QED
    BY <2>1 DEF Start
<1>8. RestOK'
  BY <1>6, <1>7 DEF Start, RestOK
<1>9. ProductionRows'
  BY DEF Start, ProductionRows
<1> QED
  BY <1>2, <1>5, <1>8, <1>9 DEF ProductionStepOK, StepOK

LEMMA RevertStartOK ==
  ASSUME RestOK, GoodStock(cell), ProductionRows, NEW b \in Batch, RevertStart(b)
  PROVE  ProductionStepOK
<1> DEFINE new(p, w) == Returned(cell[p][w], Need(p), OrderOf(b), BatchNeed(b, p), taken[b][w])
           cs == [p \in Product |-> [w \in Warehouse |-> new(p, w)]]
<1>1. ASSUME NEW p \in Product, NEW w \in Warehouse
      PROVE  Fits(cell[p][w], new(p, w))
  <2>1. GoodCell(cell[p][w])
    BY DEF GoodStock
  <2>2. taken[b][w] \in Nat
    BY DEF ProductionRows
  <2> QED
    BY <2>1, <2>2, NeedOK, BatchRowsOK, ReturnedGood
<1>2. cell' = cs
  BY DEF RevertStart
<1> HIDE DEF new
<1>3. GoodStock(cs) /\ GrantsFit(cell, cs)
  BY <1>1 DEF GoodStock, GrantsFit, Fits, GoodCell
<1>4. batch' \in [Batch -> BatchRow]
  <2>1. "PLANNED" \in BatchStatus
    BY DEF BatchStatus
  <2> QED
    BY <2>1, NewStatusOK DEF RevertStart
<1>5. productQty' \in [Product -> Int]
  BY InventoryAssumption DEF RevertStart
<1>6. RestOK'
  BY <1>4, <1>5 DEF RevertStart, RestOK
<1>7. ProductionRows'
  BY DEF RevertStart, ProductionRows
<1> QED
  BY <1>2, <1>3, <1>6, <1>7 DEF ProductionStepOK, StepOK

LEMMA AdvanceStageOK ==
  ASSUME RestOK, GoodStock(cell), ProductionRows, NEW b \in Batch, AdvanceStage(b)
  PROVE  ProductionStepOK
<1>1. batch' \in [Batch -> BatchRow]
  <2>1. PICK st \in BatchStatus :
          batch' = [batch EXCEPT ![b].status = st] \/ batch' = batch
    BY DEF AdvanceStage, BatchStatus
  <2> QED
    BY <2>1, NewStatusOK DEF RestOK
<1>2. RestOK' /\ UNCHANGED cell
  BY <1>1 DEF AdvanceStage, RestOK
<1>3. ProductionRows'
  BY DEF AdvanceStage, ProductionRows
<1> QED
  BY <1>2, <1>3, StockUntouched DEF ProductionStepOK

LEMMA UseOutputOK ==
  ASSUME RestOK, GoodStock(cell), ProductionRows, NEW b \in Batch, NEW used \in BOOLEAN,
         UseOutput(b, used)
  PROVE  ProductionStepOK
<1>1. RestOK' /\ UNCHANGED cell
  BY DEF UseOutput, vars, RestOK
<1>2. ProductionRows'
  BY DEF UseOutput, ProductionRows
<1> QED
  BY <1>1, <1>2, StockUntouched DEF ProductionStepOK

\* Every step of Production, and every stutter.
LEMMA ProductionNextOK ==
  ASSUME RestOK, GoodStock(cell), ProductionRows, [ProductionNext]_allVars
  PROVE  ProductionStepOK
<1>1. CASE InventoryStep \/ UNCHANGED allVars
  <2>1. [Next]_vars /\ UNCHANGED productionVars
    BY <1>1 DEF InventoryStep, allVars
  <2>2. ProductionRows'
    BY <2>1 DEF productionVars, ProductionRows
  <2> QED
    BY <2>1, <2>2, NextOK DEF ProductionStepOK
<1>2. CASE ProductionStep
  BY <1>2, CreateBatchOK, StartOK, RevertStartOK, AdvanceStageOK, UseOutputOK
     DEF ProductionStep
<1> QED
  BY <1>1, <1>2 DEF ProductionNext

LEMMA ProductionInitOK == ProductionInit => ProductionInv
BY InitOK DEF ProductionInit, ProductionInv, ProductionRows

-----------------------------------------------------------------------------
LEMMA ProductionInvInductive == ProductionSpec => []ProductionInv
<1>1. ProductionInit => ProductionInv
  BY ProductionInitOK
<1>2. ProductionInv /\ [ProductionNext]_allVars => ProductionInv'
  <2> SUFFICES ASSUME ProductionInv, [ProductionNext]_allVars PROVE ProductionInv'
    OBVIOUS
  <2>1. RestOK' /\ GoodStock(cell') /\ ProductionRows'
    BY ProductionInvSplit, ProductionNextOK DEF ProductionStepOK, StepOK
  <2> QED
    BY <2>1 DEF ProductionInv, Inv, TypeOK, RestOK, GoodStock, GoodCell, ReservedMatchesHolds, Matched
<1> QED
  BY <1>1, <1>2, PTL DEF ProductionSpec

(***************************************************************************)
(* Every state of Production is well typed: starts and reverts leave every *)
(* reservation and every running total a natural number.                   *)
(***************************************************************************)
THEOREM ProductionTypeCorrect == ProductionSpec => []ProductionTypeOK
<1>1. ProductionInv => ProductionTypeOK
  BY DEF ProductionInv, Inv, ProductionRows, ProductionTypeOK
<1> QED
  BY <1>1, ProductionInvInductive, PTL

(***************************************************************************)
(* reservedQty stays the sum of the reservations through consumption by    *)
(* starts and through the top-ups of reverts.                              *)
(***************************************************************************)
THEOREM ProductionTotalsMatch == ProductionSpec => []ReservedMatchesHolds
<1>1. ProductionInv => ReservedMatchesHolds
  BY DEF ProductionInv, Inv
<1> QED
  BY <1>1, ProductionInvInductive, PTL

-----------------------------------------------------------------------------
(***************************************************************************)
(* A batch that is not running keeps no material.  The strengthening says  *)
(* it of every status a batch can have before a start, so that creating,   *)
(* cancelling and deleting one keeps it.                                   *)
(***************************************************************************)
NotRunning == {"NONE", "PLANNED", "CANCELLED", "DELETED"}

Settled ==
  \A b \in Batch, w \in Warehouse :
    batch[b].status \in NotRunning => returned[b][w] >= taken[b][w]

\* Only a revert stops a batch that runs: no request of Inventory does.
LEMMA NoRequestStopsABatch ==
  ASSUME RestOK, [Next]_vars, NEW b \in Batch, batch'[b].status \in NotRunning
  PROVE  batch[b].status \in NotRunning
<1>1. CASE StockStep \/ StocktakeStep \/ BomStep \/ UNCHANGED vars
  <2>1. UNCHANGED batch
    BY <1>1, StockStepsLeaveOrders DEF vars
  <2> QED
    BY <2>1
<1>2. CASE OrderStep
  <2>1. PICK o \in Order :
          \/ \E ls \in [Item -> LineQty \union {0}] : CreateOrder(o, ls)
          \/ \E i \in Item, n \in LineQty : AddItem(o, i, n) \/ UpdateItemQty(o, i, n)
          \/ \E i \in Item : RemoveItem(o, i)
          \/ \E i \in Item, c \in Batch, n \in LineQty : GiveItemToProduction(o, i, c, n)
          \/ \E decided \in SUBSET Product : \E decision \in [decided -> AmountOrZero] :
               decided # {} /\ SaveReservationDecisions(o, decision)
          \/ CancelOrder(o)
          \/ CompleteOrder(o)
          \/ RemoveOrder(o)
    BY <1>2 DEF OrderStep
  <2>2. ASSUME NEW i \in Item, NEW n,
               AddItem(o, i, n) \/ UpdateItemQty(o, i, n) \/ RemoveItem(o, i)
        PROVE  UNCHANGED batch
    BY <2>2 DEF AddItem, UpdateItemQty, RemoveItem, Rebuild
  <2>3. ASSUME NEW decision, SaveReservationDecisions(o, decision)
        PROVE  UNCHANGED batch
    BY <2>3 DEF SaveReservationDecisions
  <2>4. ASSUME NEW ls, CreateOrder(o, ls) PROVE UNCHANGED batch
    BY <2>4 DEF CreateOrder
  <2>5. CASE CancelOrder(o) \/ CompleteOrder(o)
    BY <2>5 DEF CancelOrder, CompleteOrder
  <2>6. ASSUME NEW i \in Item, NEW c \in Batch, NEW n \in LineQty,
               GiveItemToProduction(o, i, c, n)
        PROVE  batch[b].status \in NotRunning
    <3>1. batch[c].status = "NONE" /\ (b # c => batch'[b] = batch[b])
      BY <2>6 DEF GiveItemToProduction, RestOK
    <3> QED
      BY <3>1 DEF NotRunning
  <2>7. CASE RemoveOrder(o)
    <3>1. batch[b] \in BatchRow
      BY DEF RestOK
    <3>2. batch'[b].status = batch[b].status
      BY <2>7, <3>1 DEF RemoveOrder, BatchRow
    <3> QED
      BY <3>2
  <2> QED
    BY <2>1, <2>2, <2>3, <2>4, <2>5, <2>6, <2>7
<1>3. CASE BatchStep
  <2>1. PICK c \in Batch : CancelBatch(c) \/ RemoveBatch(c)
    BY <1>3 DEF BatchStep
  <2>2. batch[c].status \in NotRunning /\ (b # c => batch'[b] = batch[b])
    BY <2>1 DEF CancelBatch, RemoveBatch, NotRunning, RestOK
  <2> QED
    BY <2>2
<1> QED
  BY <1>1, <1>2, <1>3 DEF Next

LEMMA StepSettles ==
  ASSUME RestOK, ProductionRows, Settled, [ProductionNext]_allVars
  PROVE  Settled'
<1> SUFFICES ASSUME NEW b \in Batch, NEW w \in Warehouse, batch'[b].status \in NotRunning
             PROVE  returned'[b][w] >= taken'[b][w]
  BY DEF Settled
<1>1. returned[b][w] \in Nat /\ taken[b][w] \in Nat
  BY DEF ProductionRows
<1>2. CASE InventoryStep \/ UNCHANGED allVars
  <2>1. [Next]_vars /\ UNCHANGED <<taken, returned>>
    BY <1>2 DEF InventoryStep, allVars, productionVars
  <2>2. batch[b].status \in NotRunning
    BY <2>1, NoRequestStopsABatch
  <2> QED
    BY <2>1, <2>2 DEF Settled
<1>3. ASSUME NEW c \in Batch,
             \/ \E a, i \in Item, o \in Order \union {NoOrder}, n \in LineQty :
                  CreateBatch(c, a, o, i, n)
             \/ AdvanceStage(c)
             \/ \E used \in BOOLEAN : UseOutput(c, used)
      PROVE  returned'[b][w] >= taken'[b][w]
  <2>1. UNCHANGED <<taken, returned>>
    BY <1>3 DEF CreateBatch, AdvanceStage, UseOutput, productionVars
  <2>2. batch[b].status \in NotRunning
    <3>1. b # c => batch'[b] = batch[b]
      BY <1>3 DEF CreateBatch, AdvanceStage, UseOutput, vars, RestOK
    <3>2. CASE \E a, i \in Item, o \in Order \union {NoOrder}, n \in LineQty :
                 CreateBatch(c, a, o, i, n)
      <4>1. batch[c].status = "NONE"
        BY <3>2 DEF CreateBatch
      <4> QED
        BY <3>1, <4>1 DEF NotRunning
    <3>3. CASE AdvanceStage(c)
      <4>1. batch'[c].status \in {"COMPLETED", "IN_PROGRESS"}
        BY <3>3 DEF AdvanceStage, RestOK, BatchRow
      <4> QED
        BY <3>1, <4>1 DEF NotRunning
    <3>4. CASE \E used \in BOOLEAN : UseOutput(c, used)
      BY <3>4 DEF UseOutput, vars
    <3> QED
      BY <1>3, <3>2, <3>3, <3>4
  <2> QED
    BY <2>1, <2>2 DEF Settled
<1>4. ASSUME NEW c \in Batch, NEW v \in Warehouse, Start(c, v)
      PROVE  returned'[b][w] >= taken'[b][w]
  <2>1. batch'[c].status \in {"IN_PROGRESS", "COMPLETED"}
    BY <1>4 DEF Start, RestOK, BatchRow
  <2>2. b # c
    BY <2>1 DEF NotRunning
  <2>3. batch'[b] = batch[b] /\ returned' = returned /\ taken'[b] = taken[b]
    BY <1>4, <2>2 DEF Start, RestOK, ProductionRows
  <2> QED
    BY <2>3 DEF Settled
<1>5. ASSUME NEW c \in Batch, RevertStart(c)
      PROVE  returned'[b][w] >= taken'[b][w]
  <2>1. taken' = taken
    BY <1>5 DEF RevertStart
  <2>2. CASE b = c
    <3>1. returned'[b][w] = returned[b][w] + taken[b][w]
      BY <1>5, <2>2 DEF RevertStart, ProductionRows
    <3> QED
      BY <1>1, <2>1, <3>1
  <2>3. CASE b # c
    <3>1. batch'[b] = batch[b] /\ returned'[b] = returned[b]
      BY <1>5, <2>3 DEF RevertStart, RestOK, ProductionRows
    <3> QED
      BY <2>1, <3>1 DEF Settled
  <2> QED
    BY <2>2, <2>3
<1> QED
  BY <1>2, <1>3, <1>4, <1>5 DEF ProductionNext, ProductionStep

(***************************************************************************)
(* revertStart gives back all that the starts of the batch took, to the    *)
(* warehouses it came from, and nothing else ends a running batch early.   *)
(***************************************************************************)
THEOREM RevertsGiveBack == ProductionSpec => []PlannedBatchesKeepNoMaterial
<1>1. ProductionInit => Settled
  BY DEF ProductionInit, Settled
<1>2. ProductionInv /\ Settled /\ [ProductionNext]_allVars => Settled'
  BY ProductionInvSplit, StepSettles
<1>3. Settled => PlannedBatchesKeepNoMaterial
  BY DEF Settled, NotRunning, PlannedBatchesKeepNoMaterial
<1> QED
  BY <1>1, <1>2, <1>3, ProductionInvInductive, PTL DEF ProductionSpec

-----------------------------------------------------------------------------
(***************************************************************************)
(* What the other orders hold.                                             *)
(***************************************************************************)
OthersHolds(c, o) == [other \in Order |-> IF other = o THEN 0 ELSE Held(c, other)]

LEMMA OthersRows ==
  ASSUME NEW c, GoodCell(c), NEW o
  PROVE  /\ OthersHolds(c, o) \in [1..NumOrders -> Nat]
         /\ OthersHolds(c, o) \in [1..NumOrders -> Int]
<1>1. \A other \in Order : Held(c, other) \in Nat
  BY HeldNat DEF GoodCell
<1> QED
  BY <1>1, OrderRows DEF OthersHolds

\* The running total without an order's own holds is what the others hold.
LEMMA ReservedByOthers ==
  ASSUME NEW c, GoodCell(c), NEW o \in Order \union {NoOrder}
  PROVE  c.reserved - HeldBy(c, o) = Total(OthersHolds(c, o), NumOrders)
<1> DEFINE f == [p \in Order |-> Held(c, p)]
           e == OthersHolds(c, o)
<1>1. c \in Cell /\ c.reserved = Total(f, NumOrders) /\ c.reserved \in Nat
  BY DEF GoodCell, Matched, Cell
<1>2. f \in [1..NumOrders -> Int] /\ e \in [1..NumOrders -> Int]
  BY <1>1, HeldRows, OthersRows
<1>3. Order = 1..NumOrders /\ NumOrders \in Nat
  BY OrderRows
<1>4. CASE o = NoOrder
  <2>1. \A other \in Order : other # o
    BY <1>3, <1>4 DEF NoOrder
  <2>2. \A other \in 1..NumOrders : e[other] = f[other]
    BY <1>3, <2>1 DEF OthersHolds
  <2> HIDE DEF e, f
  <2>3. Total(e, NumOrders) = Total(f, NumOrders)
    BY <1>2, <1>3, <2>2, TotalEqual
  <2> QED
    BY <1>1, <1>4, <2>3 DEF HeldBy, e
<1>5. CASE o \in Order
  <2>1. HeldBy(c, o) = Held(c, o) /\ Held(c, o) \in Nat
    BY <1>1, <1>3, <1>5, HeldNat DEF HeldBy, NoOrder
  <2>2. /\ e[o] = f[o] + (- Held(c, o)) /\ - Held(c, o) \in Int
        /\ \A other \in 1..NumOrders : other # o => e[other] = f[other]
    BY <1>3, <1>5, <2>1 DEF OthersHolds
  <2> HIDE DEF e, f
  <2>3. Total(e, NumOrders) = Total(f, NumOrders) + (- Held(c, o))
    BY <1>2, <1>3, <1>5, <2>2, TotalUpdate
  <2> QED
    BY <1>1, <2>1, <2>3 DEF e
<1> QED
  BY <1>4, <1>5

\* A line that computeShortages accepts leaves the others their material.
LEMMA EnoughLeavesOthers ==
  ASSUME NEW c, GoodCell(c), NEW o \in Order \union {NoOrder}, NEW n \in Nat,
         EnoughFor(c, o, n)
  PROVE  Taken(c, o, n).qty >= Total(OthersHolds(Taken(c, o, n), o), NumOrders)
<1> DEFINE c2 == Taken(c, o, n)
           others == Total(OthersHolds(c, o), NumOrders)
<1>1. /\ GoodCell(c2) /\ c2.qty = c.qty - n
      /\ \A other \in Order : other # o => Held(c2, other) = Held(c, other)
  BY TakenGood
<1> HIDE DEF c2
<1>2. OthersHolds(c2, o) = OthersHolds(c, o)
  BY <1>1 DEF OthersHolds
<1>3. others \in Nat /\ c.qty \in Int
  BY OthersRows, OrderRows, TotalNat DEF GoodCell, Cell
<1>4. c.qty - NonNegative(others) >= n
  BY ReservedByOthers DEF EnoughFor
<1> HIDE DEF others
<1>5. c.qty - n >= others
  BY <1>3, <1>4 DEF NonNegative
<1> QED
  BY <1>1, <1>2, <1>5 DEF c2, others

(***************************************************************************)
(* A batch that starts leaves every other order the material it holds in   *)
(* that warehouse: the check of computeShortages is enough, whatever was   *)
(* issued, moved or reserved since the batch was planned.                  *)
(***************************************************************************)
THEOREM StartsSpareOthers == ProductionSpec => StartsLeaveOthersTheirHolds
<1> DEFINE Spares(b, p, w) ==
             batch[b].status = "PLANNED" /\ taken'[b][w] > taken[b][w] /\ BatchNeed(b, p) > 0 =>
               cell'[p][w].qty >=
                 Total([o \in Order |-> IF o = OrderOf(b) THEN 0 ELSE Held(cell'[p][w], o)],
                       NumOrders)
<1>1. ASSUME ProductionInv, ProductionNext,
             NEW b \in Batch, NEW p \in Product, NEW w \in Warehouse
      PROVE  Spares(b, p, w)
  <2>1. RestOK /\ GoodStock(cell) /\ ProductionRows
    BY <1>1, ProductionInvSplit
  <2>2. taken[b][w] \in Nat
    BY <2>1 DEF ProductionRows
  <2>3. CASE UNCHANGED taken
    BY <2>2, <2>3
  <2>4. ASSUME NEW c \in Batch, NEW v \in Warehouse, Start(c, v)
        PROVE  Spares(b, p, w)
    <3>1. b # c \/ w # v => taken'[b][w] = taken[b][w]
      BY <2>1, <2>4 DEF Start, ProductionRows
    <3>2. CASE b = c /\ w = v /\ BatchNeed(b, p) > 0
      <4> DEFINE o == OrderOf(b)
                 n == BatchNeed(b, p)
      <4>1. GoodCell(cell[p][w]) /\ cell[p] \in [Warehouse -> Cell]
        BY <2>1 DEF GoodStock
      <4>2. o \in Order \union {NoOrder} /\ n \in Nat
        BY <2>1, BatchRowsOK
      <4>3. EnoughFor(cell[p][w], o, n)
        BY <2>4, <3>2 DEF Start
      <4>4. cell'[p][w] = Taken(cell[p][w], o, n)
        BY <2>4, <3>2, <4>1 DEF Start
      <4> HIDE DEF o, n
      <4>5. cell'[p][w].qty >= Total(OthersHolds(cell'[p][w], o), NumOrders)
        BY <4>1, <4>2, <4>3, <4>4, EnoughLeavesOthers
      <4> QED
        BY <4>5 DEF OthersHolds, o
    <3> QED
      BY <2>2, <3>1, <3>2
  <2> HIDE DEF Spares
  <2>5. UNCHANGED taken \/ \E c \in Batch, v \in Warehouse : Start(c, v)
    BY <1>1 DEF ProductionNext, InventoryStep, productionVars, ProductionStep, CreateBatch,
       RevertStart, AdvanceStage, UseOutput
  <2> QED
    BY <2>3, <2>4, <2>5
<1>2. ProductionInv /\ [ProductionNext]_allVars =>
        [\A b \in Batch, p \in Product, w \in Warehouse : Spares(b, p, w)]_allVars
  BY <1>1
<1> QED
  BY <1>2, ProductionInvInductive, PTL DEF ProductionSpec, StartsLeaveOthersTheirHolds
-----------------------------------------------------------------------------
(***************************************************************************)
(* What the orders have consumed.  Beside the types, the invariant needs   *)
(* that a batch which does not exist yet was never started: creating one   *)
(* overwrites its row.                                                     *)
(***************************************************************************)
NotYetStarted ==
  \A b \in Batch, w \in Warehouse : batch[b].status = "NONE" => taken[b][w] = 0

\* What was taken for each batch of order q.
TakenFor(q, p, w) ==
  [b \in Batch |-> IF batch[b].order = q THEN BatchNeed(b, p) * taken[b][w] ELSE 0]

LEMMA TakenForRows ==
  ASSUME RestOK, ProductionRows, NEW q, NEW p \in Product, NEW w \in Warehouse
  PROVE  /\ TakenFor(q, p, w) \in [1..NumBatches -> Int]
         /\ Total(TakenFor(q, p, w), NumBatches) \in Nat
<1>1. ASSUME NEW b \in Batch PROVE BatchNeed(b, p) * taken[b][w] \in Nat
  <2>1. BatchNeed(b, p) \in Nat /\ taken[b][w] \in Nat
    BY BatchRowsOK DEF ProductionRows
  <2> QED
    BY <2>1
<1>2. TakenFor(q, p, w) \in [1..NumBatches -> Nat]
  BY <1>1, Rows DEF TakenFor
<1>3. Total(TakenFor(q, p, w), NumBatches) \in Nat
  BY <1>2, Rows, TotalNat
<1> QED
  BY <1>2, <1>3

\* What consuming from one reservation adds to an order's count.
LEMMA ConsumeCounts ==
  ASSUME NEW c \in Cell, NEW s \in Source, NEW o \in Order, NEW n \in Nat
  PROVE  LET c2 == Consume(c, s, o, n)
         IN  /\ c2.consumed \in [Order -> Nat]
             /\ c2.consumed[o] <= c.consumed[o] + n
             /\ \A q \in Order : q # o => c2.consumed[q] = c.consumed[q]
<1> DEFINE m == Released(c, s, o, n)
<1>1. c.hold[s][o] \in Nat /\ c.consumed \in [Order -> Nat]
  BY DEF Cell
<1>2. m \in Nat /\ m <= n
  BY <1>1 DEF Released, NonNegative, Least
<1>3. Consume(c, s, o, n).consumed = [c.consumed EXCEPT ![o] = @ + m]
  BY DEF Consume, Release
<1> HIDE DEF m
<1> QED
  BY <1>1, <1>2, <1>3

\* Both reservations of a line together are consumed for what the line took.
LEMMA TakenCounts ==
  ASSUME NEW c, GoodCell(c), NEW o \in Order \union {NoOrder}, NEW n \in Nat
  PROVE  \A q \in Order :
           Taken(c, o, n).consumed[q] <= c.consumed[q] + (IF q = o THEN n ELSE 0)
<1> DEFINE issued == [c EXCEPT !.qty = c.qty - n]
           k == Least(n, c.hold["STOCK"][o])
           c1 == Consume(issued, "STOCK", o, k)
           c2 == Consume(c1, "PURCHASE", o, n - k)
<1>1. c \in Cell /\ c.qty \in Int /\ c.consumed \in [Order -> Nat]
  BY DEF GoodCell, Cell
<1>2. issued \in Cell /\ issued.consumed = c.consumed /\ issued.hold = c.hold
      /\ issued.reserved = c.reserved
  BY <1>1 DEF Cell
<1> HIDE DEF issued
<1>3. CASE o = NoOrder
  <2>1. Taken(c, o, n) = issued
    BY <1>3 DEF Taken, issued
  <2> QED
    BY <1>1, <1>2, <2>1
<1>4. CASE o \in Order
  <2>1. o # NoOrder
    BY <1>4, OrderRows DEF NoOrder
  <2>2. Taken(c, o, n) = c2
    BY <2>1 DEF Taken, issued
  <2>3. "STOCK" \in Source /\ "PURCHASE" \in Source
    BY DEF Source
  <2>4. c.hold["STOCK"][o] \in Nat
    BY <1>1, <1>4, HeldNat
  <2>5. k \in Nat /\ k <= n
    BY <2>4 DEF Least
  <2>6. GoodCell(issued)
    <3>1. \A p \in Order : Held(issued, p) = Held(c, p)
      BY <1>2 DEF Held
    <3>2. [p \in Order |-> Held(issued, p)] = [p \in Order |-> Held(c, p)]
      BY <3>1
    <3> QED
      BY <1>2, <3>2 DEF GoodCell, Matched
  <2> HIDE DEF k
  <2>7. c1 \in Cell
    <3>1. k \in Int
      BY <2>5
    <3> QED
      BY <1>4, <2>3, <2>6, <3>1, ConsumeGood DEF GoodCell
  <2>8. /\ c1.consumed \in [Order -> Nat] /\ c1.consumed[o] <= issued.consumed[o] + k
        /\ \A q \in Order : q # o => c1.consumed[q] = issued.consumed[q]
    BY <1>2, <1>4, <2>3, <2>5, ConsumeCounts
  <2> HIDE DEF c1
  <2>9. PICK r \in Nat : r = n - k /\ k + r = n
    BY <2>5
  <2>10. /\ c2.consumed \in [Order -> Nat] /\ c2.consumed[o] <= c1.consumed[o] + r
         /\ \A q \in Order : q # o => c2.consumed[q] = c1.consumed[q]
    BY <1>4, <2>3, <2>7, <2>9, ConsumeCounts
  <2> HIDE DEF c2
  <2>11. ASSUME NEW q \in Order, q # o PROVE c2.consumed[q] = c.consumed[q]
    BY <1>2, <2>8, <2>10, <2>11
  <2>12. c2.consumed[o] <= c.consumed[o] + n
    BY <1>1, <1>2, <1>4, <2>5, <2>8, <2>9, <2>10
  <2> QED
    BY <1>1, <2>2, <2>10, <2>11, <2>12
<1> QED
  BY <1>3, <1>4
\* An order's sum does not shrink as long as none of its batches changes hands,
\* component list or size, or forgets a start.
LEMMA StillTakenFor ==
  ASSUME RestOK, RestOK', ProductionRows, ProductionRows', NEW q, NEW p \in Product,
         NEW w \in Warehouse,
         \A b \in Batch : \/ TakenFor(q, p, w)[b] = 0 /\ taken'[b][w] = 0
                          \/ /\ (batch'[b].order = q) = (batch[b].order = q)
                             /\ batch'[b].units = batch[b].units
                             /\ batch'[b].components = batch[b].components
                             /\ taken'[b][w] = taken[b][w]
  PROVE  Total(TakenFor(q, p, w)', NumBatches) = Total(TakenFor(q, p, w), NumBatches)
<1>1. /\ TakenFor(q, p, w) \in [1..NumBatches -> Int]
      /\ TakenFor(q, p, w)' \in [1..NumBatches -> Int]
  <2>1. (TakenFor(q, p, w) \in [1..NumBatches -> Int])'
    BY TakenForRows, PTL
  <2> QED
    BY <2>1, TakenForRows
<1>2. ASSUME NEW b \in 1..NumBatches PROVE TakenFor(q, p, w)'[b] = TakenFor(q, p, w)[b]
  <2>1. b \in Batch
    BY Rows
  <2>2. TakenFor(q, p, w)'[b]
          = IF batch'[b].order = q THEN batch'[b].units * batch'[b].components[p] * taken'[b][w] ELSE 0
    BY <2>1 DEF TakenFor, BatchNeed
  <2>3. TakenFor(q, p, w)[b]
          = IF batch[b].order = q THEN batch[b].units * batch[b].components[p] * taken[b][w] ELSE 0
    BY <2>1 DEF TakenFor, BatchNeed
  <2>4. CASE TakenFor(q, p, w)[b] = 0 /\ taken'[b][w] = 0
    <3>1. batch'[b] \in BatchRow
      BY <2>1 DEF RestOK
    <3>2. batch'[b].units * batch'[b].components[p] \in Nat
      BY <3>1 DEF BatchRow
    <3> QED
      BY <2>2, <2>4, <3>2
  <2>5. CASE ~ (TakenFor(q, p, w)[b] = 0 /\ taken'[b][w] = 0)
    BY <2>1, <2>2, <2>3, <2>5
  <2> QED
    BY <2>4, <2>5
<1> QED
  <2>1. NumBatches \in Nat
    BY Rows
  <2> QED
    BY <1>1, <1>2, <2>1, TotalEqual

\* The material of a batch that exists stays as it was frozen, and so does the
\* order it is for.
SameMaterial(b) == /\ batch'[b].order = batch[b].order
                   /\ batch'[b].units = batch[b].units
                   /\ batch'[b].components = batch[b].components

\* Apart from the deletion of an order, no request of Inventory changes what
\* was consumed or takes a batch away from its order.
LEMMA RebuildConsumesNothing ==
  ASSUME GoodStock(cell), NEW o \in Order, NEW ls, Rebuild(o, ls),
         NEW p \in Product, NEW w \in Warehouse
  PROVE  cell'[p][w].consumed = cell[p][w].consumed /\ UNCHANGED batch
<1> DEFINE released == WithoutHolds(o)
<1>1. released[p][w].consumed = cell[p][w].consumed
  BY DEF WithoutHolds, ReleaseAll, Release
<1>2. released \in [Product -> [Warehouse -> Cell]]
  BY WithoutHoldsOK DEF GoodStock
<1>3. cell' = (IF status[o] = "NEW" THEN released ELSE Claim(released, o, ls)) /\ UNCHANGED batch
  BY DEF Rebuild
<1> HIDE DEF released
<1>4. Claim(released, o, ls)[p][w].consumed = released[p][w].consumed
  <2>1. CASE w = DefaultWarehouse
    BY <1>2, <2>1 DEF Claim, Grant
  <2>2. CASE w # DefaultWarehouse
    BY <1>2, <2>2 DEF Claim
  <2> QED
    BY <2>1, <2>2
<1> QED
  BY <1>1, <1>3, <1>4

LEMMA MovementConsumesNothing ==
  ASSUME RestOK, GoodStock(cell), NEW p \in Product, NEW w \in Warehouse, NEW d \in Int
  PROVE  Moved(cell[p][w], Need(p), d, NoOrder).consumed = cell[p][w].consumed
<1>1. GoodCell(cell[p][w]) /\ Need(p) \in [Order -> Nat]
  BY NeedOK DEF GoodStock
<1> QED
  BY <1>1, MovedGood

LEMMA StockStepConsumesNothing ==
  ASSUME RestOK, GoodStock(cell), StockStep \/ StocktakeStep, NEW p \in Product, NEW w \in Warehouse
  PROVE  cell'[p][w].consumed = cell[p][w].consumed
<1>1. cell \in [Product -> [Warehouse -> Cell]]
  BY DEF GoodStock
<1>2. Amount \subseteq Nat /\ \A n \in Amount : n \in Int /\ -n \in Int
  BY InventoryAssumption
<1>3. ASSUME NEW q \in Product, NEW v \in Warehouse, NEW d \in Int, RecordMovement(q, v, d)
      PROVE  cell'[p][w].consumed = cell[p][w].consumed
  <2> DEFINE c2 == Moved(cell[q][v], Need(q), d, NoOrder)
  <2>1. cell' = [cell EXCEPT ![q][v] = c2]
    BY <1>3 DEF RecordMovement
  <2>2. c2.consumed = cell[q][v].consumed
    BY MovementConsumesNothing
  <2> HIDE DEF c2
  <2> QED
    BY <1>1, <2>1, <2>2
<1>4. ASSUME NEW q \in Product, NEW from \in Warehouse, NEW to \in Warehouse, NEW n \in Amount,
             MoveStock(q, from, to, n)
      PROVE  cell'[p][w].consumed = cell[p][w].consumed
  <2> DEFINE c1 == Moved(cell[q][from], Need(q), -n, NoOrder)
             c2 == Moved(cell[q][to], Need(q), n, NoOrder)
  <2>1. from # to /\ cell' = [cell EXCEPT ![q][from] = c1, ![q][to] = c2]
    BY <1>4 DEF MoveStock
  <2>2. c1.consumed = cell[q][from].consumed
    <3>1. PICK d \in Int : d = -n
      BY <1>2
    <3> QED
      BY <3>1, MovementConsumesNothing
  <2>3. c2.consumed = cell[q][to].consumed
    BY <1>2, MovementConsumesNothing
  <2> HIDE DEF c1, c2
  <2> QED
    BY <1>1, <2>1, <2>2, <2>3
<1>5. ASSUME NEW s \in Session, CompleteStocktake(s)
      PROVE  cell'[p][w].consumed = cell[p][w].consumed
  <2> DEFINE delta == [q \in Product |->
                         IF stocktake[s].actual[q] = NotCounted THEN 0
                         ELSE stocktake[s].actual[q] - stocktake[s].expected[q]]
  <2>1. delta[p] \in Int
    <3>1. stocktake[s] \in StocktakeRow
      BY DEF RestOK
    <3> QED
      BY <3>1 DEF StocktakeRow, NotCounted
  <2>2. cell' = [q \in Product |-> [cell[q] EXCEPT
                  ![DefaultWarehouse] = Moved(@, Need(q), delta[q], NoOrder)]]
    BY <1>5 DEF CompleteStocktake
  <2> HIDE DEF delta
  <2>3. CASE w = DefaultWarehouse
    <3>1. cell'[p][w] = Moved(cell[p][w], Need(p), delta[p], NoOrder)
      BY <1>1, <2>2, <2>3
    <3> QED
      BY <2>1, <3>1, MovementConsumesNothing
  <2>4. CASE w # DefaultWarehouse
    BY <1>1, <2>2, <2>4
  <2> QED
    BY <2>3, <2>4
<1>6. CASE StockStep
  <2>1. PICK q \in Product :
          \/ \E v \in Warehouse, n \in Amount : RecordMovement(q, v, n) \/ RecordMovement(q, v, -n)
          \/ \E from, to \in Warehouse, n \in Amount : MoveStock(q, from, to, n)
          \/ \E newQty \in AssistantTotals : AdjustProductStock(q, newQty)
    BY <1>6 DEF StockStep
  <2>2. ASSUME NEW newQty, AdjustProductStock(q, newQty) PROVE UNCHANGED cell
    BY <2>2 DEF AdjustProductStock
  <2> QED
    BY <1>2, <1>3, <1>4, <2>1, <2>2
<1>7. CASE StocktakeStep
  <2>1. UNCHANGED cell \/ \E s \in Session : CompleteStocktake(s)
    BY <1>7 DEF StocktakeStep, StartStocktake, RecordCount
  <2> QED
    BY <1>5, <2>1
<1> QED
  BY <1>6, <1>7

LEMMA RequestsConsumeNothing ==
  ASSUME RestOK, GoodStock(cell), [Next]_vars, NEW p \in Product, NEW w \in Warehouse
  PROVE  \/ \E o \in Order : RemoveOrder(o)
         \/ /\ cell'[p][w].consumed = cell[p][w].consumed
            /\ \A b \in Batch : batch[b].status = "NONE" \/ SameMaterial(b)
<1>1. CASE StockStep \/ StocktakeStep \/ BomStep \/ UNCHANGED vars
  <2>1. UNCHANGED batch
    BY <1>1, StockStepsLeaveOrders DEF vars
  <2>2. CASE StockStep \/ StocktakeStep
    BY <2>1, <2>2, StockStepConsumesNothing DEF SameMaterial
  <2>3. CASE BomStep \/ UNCHANGED vars
    <3>1. UNCHANGED cell
      BY <2>3 DEF BomStep, SetComponents, vars
    <3> QED
      BY <2>1, <3>1 DEF SameMaterial
  <2> QED
    BY <1>1, <2>2, <2>3
<1>2. CASE OrderStep
  <2>1. PICK o \in Order :
          \/ \E ls \in [Item -> LineQty \union {0}] : CreateOrder(o, ls)
          \/ \E i \in Item, n \in LineQty : AddItem(o, i, n) \/ UpdateItemQty(o, i, n)
          \/ \E i \in Item : RemoveItem(o, i)
          \/ \E i \in Item, c \in Batch, n \in LineQty : GiveItemToProduction(o, i, c, n)
          \/ \E decided \in SUBSET Product : \E decision \in [decided -> AmountOrZero] :
               decided # {} /\ SaveReservationDecisions(o, decision)
          \/ CancelOrder(o)
          \/ CompleteOrder(o)
          \/ RemoveOrder(o)
    BY <1>2 DEF OrderStep
  <2>2. cell \in [Product -> [Warehouse -> Cell]]
    BY DEF GoodStock
  <2>3. CASE \E i \in Item : (\E n \in LineQty : AddItem(o, i, n) \/ UpdateItemQty(o, i, n))
                             \/ RemoveItem(o, i)
    <3>1. PICK ls : Rebuild(o, ls)
      BY <2>3 DEF AddItem, UpdateItemQty, RemoveItem
    <3> QED
      BY <3>1, RebuildConsumesNothing DEF SameMaterial
  <2>4. ASSUME NEW decision, SaveReservationDecisions(o, decision)
        PROVE  cell'[p][w].consumed = cell[p][w].consumed /\ UNCHANGED batch
    BY <2>2, <2>4 DEF SaveReservationDecisions, Grant, Release
  <2>5. CASE (\E ls \in [Item -> LineQty \union {0}] : CreateOrder(o, ls)) \/ CompleteOrder(o)
    BY <2>5 DEF CreateOrder, CompleteOrder, SameMaterial
  <2>6. CASE CancelOrder(o)
    BY <2>6 DEF CancelOrder, WithoutHolds, ReleaseAll, Release, SameMaterial
  <2>7. ASSUME NEW i \in Item, NEW c \in Batch, NEW n \in LineQty,
               GiveItemToProduction(o, i, c, n)
        PROVE  /\ cell'[p][w].consumed = cell[p][w].consumed
               /\ \A b \in Batch : batch[b].status = "NONE" \/ SameMaterial(b)
    <3>1. batch[c].status = "NONE" /\ \A b \in Batch : b # c => batch'[b] = batch[b]
      BY <2>7 DEF GiveItemToProduction, RestOK
    <3>2. cell' = Claim(cell, o, lines[o]) \/ UNCHANGED cell
      BY <2>7 DEF GiveItemToProduction
    <3>3. cell'[p][w].consumed = cell[p][w].consumed
      BY <2>2, <3>2 DEF Claim, Grant
    <3> QED
      BY <3>1, <3>3 DEF SameMaterial
  <2> QED
    BY <2>1, <2>3, <2>4, <2>5, <2>6, <2>7 DEF SameMaterial
<1>3. CASE BatchStep
  <2>1. PICK c \in Batch : CancelBatch(c) \/ RemoveBatch(c)
    BY <1>3 DEF BatchStep
  <2>2. UNCHANGED cell /\ \E st : batch' = [batch EXCEPT ![c].status = st]
    BY <2>1 DEF CancelBatch, RemoveBatch
  <2>3. ASSUME NEW b \in Batch PROVE SameMaterial(b)
    <3>1. batch[b] \in BatchRow /\ batch \in [Batch -> BatchRow]
      BY DEF RestOK
    <3> QED
      BY <2>2, <3>1 DEF SameMaterial, BatchRow
  <2> QED
    BY <2>2, <2>3
<1> QED
  BY <1>1, <1>2, <1>3 DEF Next

\* A batch that exists never becomes one that does not.
LEMMA BatchesStay ==
  ASSUME RestOK, ProductionRows, [ProductionNext]_allVars, NEW b \in Batch, batch'[b].status = "NONE"
  PROVE  batch[b].status = "NONE" /\ taken'[b] = taken[b]
<1>1. batch \in [Batch -> BatchRow] /\ taken \in [Batch -> [Warehouse -> Nat]]
  BY DEF RestOK, ProductionRows
<1>2. CASE InventoryStep \/ UNCHANGED allVars
  <2>1. [Next]_vars /\ UNCHANGED taken
    BY <1>2 DEF InventoryStep, allVars, productionVars
  <2>2. CASE UNCHANGED batch
    BY <2>1, <2>2
  <2>3. ASSUME NEW o \in Order, RemoveOrder(o) PROVE batch'[b].status = batch[b].status
    BY <1>1, <2>3 DEF RemoveOrder, BatchRow
  <2>4. ASSUME NEW o \in Order, NEW i \in Item, NEW c \in Batch, NEW n \in LineQty,
               GiveItemToProduction(o, i, c, n)
        PROVE  batch'[b].status = batch[b].status
    BY <1>1, <2>4 DEF GiveItemToProduction
  <2>5. ASSUME NEW c \in Batch, CancelBatch(c) \/ RemoveBatch(c)
        PROVE  batch'[b].status = batch[b].status
    BY <1>1, <2>5 DEF CancelBatch, RemoveBatch, BatchRow
  <2>6. \/ UNCHANGED batch
        \/ \E o \in Order : RemoveOrder(o)
        \/ \E o \in Order, i \in Item, c \in Batch, n \in LineQty : GiveItemToProduction(o, i, c, n)
        \/ \E c \in Batch : CancelBatch(c) \/ RemoveBatch(c)
    <3>1. CASE StockStep \/ StocktakeStep \/ BomStep \/ UNCHANGED vars
      BY <3>1, StockStepsLeaveOrders DEF vars
    <3>2. CASE OrderStep
      <4>1. PICK o \in Order :
              \/ \E ls \in [Item -> LineQty \union {0}] : CreateOrder(o, ls)
              \/ \E i \in Item, n \in LineQty : AddItem(o, i, n) \/ UpdateItemQty(o, i, n)
              \/ \E i \in Item : RemoveItem(o, i)
              \/ \E i \in Item, c \in Batch, n \in LineQty : GiveItemToProduction(o, i, c, n)
              \/ \E decided \in SUBSET Product : \E decision \in [decided -> AmountOrZero] :
                   decided # {} /\ SaveReservationDecisions(o, decision)
              \/ CancelOrder(o)
              \/ CompleteOrder(o)
              \/ RemoveOrder(o)
        BY <3>2 DEF OrderStep
      <4>2. ASSUME NEW i \in Item, NEW n,
                   AddItem(o, i, n) \/ UpdateItemQty(o, i, n) \/ RemoveItem(o, i)
            PROVE  UNCHANGED batch
        BY <4>2 DEF AddItem, UpdateItemQty, RemoveItem, Rebuild
      <4>3. ASSUME NEW decision, SaveReservationDecisions(o, decision)
            PROVE  UNCHANGED batch
        BY <4>3 DEF SaveReservationDecisions
      <4>4. ASSUME NEW ls, CreateOrder(o, ls) PROVE UNCHANGED batch
        BY <4>4 DEF CreateOrder
      <4>5. CASE CancelOrder(o) \/ CompleteOrder(o)
        BY <4>5 DEF CancelOrder, CompleteOrder
      <4> QED
        BY <4>1, <4>2, <4>3, <4>4, <4>5
    <3>3. CASE BatchStep
      BY <3>3 DEF BatchStep
    <3> QED
      BY <2>1, <3>1, <3>2, <3>3 DEF Next
  <2> QED
    BY <2>1, <2>2, <2>3, <2>4, <2>5, <2>6
<1>3. CASE ProductionStep
  <2>1. PICK c \in Batch :
          \/ \E a, i \in Item, o \in Order \union {NoOrder}, n \in LineQty : CreateBatch(c, a, o, i, n)
          \/ \E w \in Warehouse : Start(c, w)
          \/ RevertStart(c)
          \/ AdvanceStage(c)
          \/ \E used \in BOOLEAN : UseOutput(c, used)
    BY <1>3 DEF ProductionStep
  <2>2. CASE \E used \in BOOLEAN : UseOutput(c, used)
    BY <2>2 DEF UseOutput, vars
  <2>3. CASE \E w \in Warehouse : Start(c, w)
    BY <1>1, <2>3 DEF Start, BatchRow
  <2>4. CASE \E a, i \in Item, o \in Order \union {NoOrder}, n \in LineQty : CreateBatch(c, a, o, i, n)
    BY <1>1, <2>4 DEF CreateBatch, productionVars
  <2>5. CASE RevertStart(c) \/ AdvanceStage(c)
    <3>1. UNCHANGED taken /\ (b # c => batch'[b] = batch[b])
      BY <1>1, <2>5 DEF RevertStart, AdvanceStage
    <3>2. batch[c].status = "IN_PROGRESS"
      BY <2>5 DEF RevertStart, AdvanceStage
    <3>3. batch'[c].status \in {"PLANNED", "COMPLETED", "IN_PROGRESS"}
      BY <1>1, <2>5, <3>2 DEF RevertStart, AdvanceStage, BatchRow
    <3> QED
      BY <3>1, <3>3
  <2> QED
    BY <2>1, <2>2, <2>3, <2>4, <2>5
<1> QED
  BY <1>2, <1>3 DEF ProductionNext

\* A start counts what it takes.
LEMMA StartCounts ==
  ASSUME RestOK, GoodStock(cell), ProductionRows, RestOK', ProductionRows', ConsumptionWasTaken,
         NEW b \in Batch, NEW v \in Warehouse, Start(b, v),
         NEW p \in Product, NEW w \in Warehouse, NEW q \in Order
  PROVE  cell'[p][w].consumed[q] <= Total(TakenFor(q, p, w)', NumBatches)
<1>1. /\ cell \in [Product -> [Warehouse -> Cell]] /\ batch \in [Batch -> BatchRow]
      /\ taken \in [Batch -> [Warehouse -> Nat]]
  BY DEF GoodStock, RestOK, ProductionRows
<1>2. cell[p][w].consumed[q] <= Total(TakenFor(q, p, w), NumBatches)
  BY DEF ConsumptionWasTaken, TakenFor
<1>3. \A c \in Batch : SameMaterial(c)
  BY <1>1 DEF Start, SameMaterial, BatchRow
<1>4. Total(TakenFor(q, p, w), NumBatches) \in Nat /\ Total(TakenFor(q, p, w)', NumBatches) \in Nat
  <2>1. (Total(TakenFor(q, p, w), NumBatches) \in Nat)'
    BY TakenForRows, PTL
  <2> QED
    BY <2>1, TakenForRows
<1>5. CASE w # v
  <2>1. \A c \in Batch : taken'[c][w] = taken[c][w]
    BY <1>1, <1>5 DEF Start
  <2>2. Total(TakenFor(q, p, w)', NumBatches) = Total(TakenFor(q, p, w), NumBatches)
    BY <1>3, <2>1, StillTakenFor DEF SameMaterial
  <2>3. cell'[p][w] = cell[p][w]
    BY <1>1, <1>5 DEF Start
  <2> QED
    BY <1>2, <2>2, <2>3
<1>6. CASE w = v /\ q # OrderOf(b)
  <2>1. \A c \in Batch : c # b => taken'[c][w] = taken[c][w]
    BY <1>1, <1>6 DEF Start
  <2>2. TakenFor(q, p, w)[b] = 0 /\ TakenFor(q, p, w)'[b] = 0
    BY <1>3, <1>6 DEF TakenFor, OrderOf, SameMaterial
  <2>3. Total(TakenFor(q, p, w)', NumBatches) = Total(TakenFor(q, p, w), NumBatches)
    <3>1. \A c \in Batch : TakenFor(q, p, w)'[c] = TakenFor(q, p, w)[c]
      <4>1. ASSUME NEW c \in Batch, c # b PROVE TakenFor(q, p, w)'[c] = TakenFor(q, p, w)[c]
        BY <1>3, <2>1, <4>1 DEF TakenFor, BatchNeed, SameMaterial
      <4> QED
        BY <2>2, <4>1
    <3>2. (TakenFor(q, p, w) \in [1..NumBatches -> Int])'
      BY TakenForRows, PTL
    <3>3. TakenFor(q, p, w)' \in [1..NumBatches -> Int] /\ TakenFor(q, p, w) \in [1..NumBatches -> Int]
      BY <3>2, TakenForRows
    <3> QED
      BY <3>1, <3>3, Rows, TotalEqual
  <2>4. cell'[p][w].consumed[q] <= cell[p][w].consumed[q]
    <3>1. cell'[p][w] = Taken(cell[p][w], OrderOf(b), BatchNeed(b, p))
      BY <1>1, <1>6 DEF Start
    <3>2. GoodCell(cell[p][w]) /\ cell[p][w].consumed[q] \in Nat
      BY DEF GoodStock, GoodCell, Cell
    <3>3. Taken(cell[p][w], OrderOf(b), BatchNeed(b, p)).consumed[q] <= cell[p][w].consumed[q] + 0
      BY <1>6, <3>2, BatchRowsOK, TakenCounts
    <3> QED
      BY <3>1, <3>2, <3>3
  <2> QED
    <3>1. cell[p][w].consumed[q] \in Nat /\ cell'[p][w].consumed[q] \in Int
      <4>1. GoodCell(cell[p][w]) /\ cell'[p][w] = Taken(cell[p][w], OrderOf(b), BatchNeed(b, p))
        BY <1>1, <1>6 DEF Start, GoodStock
      <4>2. GoodCell(cell'[p][w])
        BY <4>1, BatchRowsOK, TakenGood
      <4> QED
        BY <4>1, <4>2 DEF GoodCell, Cell
    <3> QED
      BY <1>2, <1>4, <2>3, <2>4, <3>1
<1>7. CASE w = v /\ q = OrderOf(b)
  <2> DEFINE n == BatchNeed(b, p)
             f == TakenFor(q, p, w)
             g == TakenFor(q, p, w)'
  <2>1. n \in Nat
    BY BatchRowsOK
  <2>2. \A c \in Batch : c # b => g[c] = f[c]
    <3>1. \A c \in Batch : c # b => taken'[c][w] = taken[c][w]
      BY <1>1, <1>7 DEF Start
    <3> QED
      BY <1>3, <3>1 DEF TakenFor, BatchNeed, SameMaterial
  <2>3. g[b] = f[b] + n
    <3>1. taken'[b][w] = taken[b][w] + 1 /\ taken[b][w] \in Nat
      BY <1>1, <1>7 DEF Start
    <3>2. f[b] = n * taken[b][w]
      BY <1>7 DEF TakenFor, OrderOf
    <3>3. g[b] = n * taken'[b][w]
      BY <1>3, <1>7 DEF TakenFor, OrderOf, BatchNeed, SameMaterial
    <3> HIDE DEF n, f, g
    <3> QED
      BY <2>1, <3>1, <3>2, <3>3
  <2>4. f \in [1..NumBatches -> Int] /\ g \in [1..NumBatches -> Int]
    <3>1. (TakenFor(q, p, w) \in [1..NumBatches -> Int])'
      BY TakenForRows, PTL
    <3> QED
      BY <3>1, TakenForRows
  <2> HIDE DEF n, f, g
  <2>5. Total(g, NumBatches) = Total(f, NumBatches) + n
    <3>1. /\ NumBatches \in Nat /\ b \in 1..NumBatches /\ n \in Int
          /\ \A c \in 1..NumBatches : c # b => g[c] = f[c]
      BY <2>1, <2>2, Rows
    <3> QED
      BY <2>3, <2>4, <3>1, TotalUpdate
  <2>6. GoodCell(cell[p][w]) /\ cell'[p][w] = Taken(cell[p][w], q, n)
    BY <1>1, <1>7 DEF Start, GoodStock, n
  <2>7. cell'[p][w].consumed[q] <= cell[p][w].consumed[q] + n
    BY <2>1, <2>6, TakenCounts
  <2>8. cell[p][w].consumed[q] \in Nat /\ cell'[p][w].consumed[q] \in Nat
    <3>1. GoodCell(cell'[p][w])
      BY <2>1, <2>6, TakenGood
    <3> QED
      BY <2>6, <3>1 DEF GoodCell, Cell
  <2>9. /\ cell[p][w].consumed[q] <= Total(f, NumBatches) /\ Total(f, NumBatches) \in Nat
        /\ Total(g, NumBatches) = Total(TakenFor(q, p, w)', NumBatches)
    BY <1>2, <1>4 DEF f, g
  <2> QED
    BY <2>1, <2>5, <2>7, <2>8, <2>9
<1> QED
  BY <1>5, <1>6, <1>7

LEMMA StepCounts ==
  ASSUME RestOK, GoodStock(cell), ProductionRows, NotYetStarted, ConsumptionWasTaken,
         [ProductionNext]_allVars
  PROVE  NotYetStarted' /\ ConsumptionWasTaken'
<1>1. RestOK' /\ GoodStock(cell') /\ ProductionRows'
  BY ProductionNextOK DEF ProductionStepOK, StepOK
<1>2. NotYetStarted'
  BY BatchesStay DEF NotYetStarted
<1> SUFFICES ASSUME NEW p \in Product, NEW w \in Warehouse, NEW q \in Order
             PROVE  cell'[p][w].consumed[q] <= Total(TakenFor(q, p, w)', NumBatches)
  BY <1>2 DEF ConsumptionWasTaken, TakenFor
<1>3. /\ batch \in [Batch -> BatchRow] /\ cell \in [Product -> [Warehouse -> Cell]]
      /\ GoodCell(cell[p][w])
  BY DEF RestOK, GoodStock
<1>4. cell[p][w].consumed[q] <= Total(TakenFor(q, p, w), NumBatches)
  BY DEF ConsumptionWasTaken, TakenFor
<1>5. ASSUME UNCHANGED taken,
             cell'[p][w].consumed = cell[p][w].consumed,
             \A b \in Batch : batch[b].status = "NONE" \/ SameMaterial(b)
      PROVE  cell'[p][w].consumed[q] <= Total(TakenFor(q, p, w)', NumBatches)
  <2>1. ASSUME NEW b \in Batch, batch[b].status = "NONE"
        PROVE  TakenFor(q, p, w)[b] = 0 /\ taken'[b][w] = 0
    <3>1. taken[b][w] = 0 /\ BatchNeed(b, p) \in Nat
      BY <2>1, BatchRowsOK DEF NotYetStarted
    <3> QED
      BY <1>5, <3>1 DEF TakenFor
  <2>2. Total(TakenFor(q, p, w)', NumBatches) = Total(TakenFor(q, p, w), NumBatches)
    BY <1>1, <1>5, <2>1, StillTakenFor DEF SameMaterial
  <2> QED
    BY <1>4, <1>5, <2>2
<1>6. ASSUME NEW o \in Order, RemoveOrder(o), UNCHANGED taken
      PROVE  cell'[p][w].consumed[q] <= Total(TakenFor(q, p, w)', NumBatches)
  <2>1. cell'[p][w].consumed = [ReleaseAll(cell[p][w], o).consumed EXCEPT ![o] = 0]
    BY <1>6 DEF RemoveOrder, WithoutHolds, Forget
  <2>2. cell'[p][w].consumed = [cell[p][w].consumed EXCEPT ![o] = 0]
    BY <2>1 DEF ReleaseAll, Release
  <2>3. cell[p][w].consumed \in [Order -> Nat]
    BY <1>3 DEF Cell
  <2>4. CASE q = o
    <3>1. (Total(TakenFor(q, p, w), NumBatches) \in Nat)'
      BY <1>1, TakenForRows, PTL
    <3>2. cell'[p][w].consumed[q] = 0
      BY <2>2, <2>3, <2>4
    <3> QED
      BY <3>1, <3>2
  <2>5. CASE q # o
    <3>1. q # NoOrder
      BY OrderRows DEF NoOrder
    <3>2. ASSUME NEW b \in Batch
          PROVE  /\ (batch'[b].order = q) = (batch[b].order = q)
                 /\ batch'[b].units = batch[b].units
                 /\ batch'[b].components = batch[b].components
      BY <1>3, <1>6, <2>5, <3>1 DEF RemoveOrder, BatchRow
    <3>3. Total(TakenFor(q, p, w)', NumBatches) = Total(TakenFor(q, p, w), NumBatches)
      BY <1>1, <1>6, <3>2, StillTakenFor
    <3> QED
      BY <1>4, <2>2, <2>3, <2>5, <3>3
  <2> QED
    BY <2>4, <2>5
<1>7. CASE InventoryStep \/ UNCHANGED allVars
  <2>1. [Next]_vars /\ UNCHANGED taken
    BY <1>7 DEF InventoryStep, allVars, productionVars
  <2> QED
    BY <1>5, <1>6, <2>1, RequestsConsumeNothing
<1>8. CASE ProductionStep
  <2>1. PICK b \in Batch :
          \/ \E a, i \in Item, o \in Order \union {NoOrder}, n \in LineQty : CreateBatch(b, a, o, i, n)
          \/ \E v \in Warehouse : Start(b, v)
          \/ RevertStart(b)
          \/ AdvanceStage(b)
          \/ \E used \in BOOLEAN : UseOutput(b, used)
    BY <1>8 DEF ProductionStep
  <2>2. CASE \E v \in Warehouse : Start(b, v)
    BY <1>1, <2>2, StartCounts
  <2>3. ASSUME NEW a \in Item, NEW i \in Item, NEW o \in Order \union {NoOrder}, NEW n \in LineQty,
               CreateBatch(b, a, o, i, n)
        PROVE  cell'[p][w].consumed[q] <= Total(TakenFor(q, p, w)', NumBatches)
    <3>1. /\ UNCHANGED <<cell, taken>> /\ batch[b].status = "NONE"
          /\ \A c \in Batch : c # b => batch'[c] = batch[c]
      BY <1>3, <2>3 DEF CreateBatch, productionVars
    <3> QED
      BY <1>5, <3>1 DEF SameMaterial
  <2>4. CASE AdvanceStage(b) \/ \E used \in BOOLEAN : UseOutput(b, used)
    <3>1. UNCHANGED <<cell, taken>>
      BY <2>4 DEF AdvanceStage, UseOutput, vars
    <3>2. \A c \in Batch : SameMaterial(c)
      BY <1>3, <2>4 DEF AdvanceStage, UseOutput, vars, SameMaterial, BatchRow
    <3> QED
      BY <1>5, <3>1, <3>2
  <2>5. CASE RevertStart(b)
    <3>1. UNCHANGED taken /\ \A c \in Batch : SameMaterial(c)
      BY <1>3, <2>5 DEF RevertStart, SameMaterial, BatchRow
    <3>2. cell'[p][w] = Returned(cell[p][w], Need(p), OrderOf(b), BatchNeed(b, p), taken[b][w])
      BY <2>5 DEF RevertStart
    <3>3. taken[b][w] \in Nat
      BY DEF ProductionRows
    <3>4. cell'[p][w].consumed = cell[p][w].consumed
      BY <1>3, <3>2, <3>3, NeedOK, BatchRowsOK, ReturnedGood
    <3> QED
      BY <1>5, <3>1, <3>4
  <2> QED
    BY <2>1, <2>2, <2>3, <2>4, <2>5
<1> QED
  BY <1>7, <1>8 DEF ProductionNext

(***************************************************************************)
(* An order counts no more as consumed than starts took for its batches:   *)
(* consume() caps at what a reservation holds, and a line's two            *)
(* reservations together are consumed for what the line took.  Deleting an *)
(* order is the only thing that separates a batch from what was consumed   *)
(* for it, and forgets both.                                               *)
(***************************************************************************)
THEOREM ConsumedWasTaken == ProductionSpec => []ConsumptionWasTaken
<1>1. ProductionInit => NotYetStarted /\ ConsumptionWasTaken
  <2> SUFFICES ASSUME ProductionInit PROVE NotYetStarted /\ ConsumptionWasTaken
    OBVIOUS
  <2>1. RestOK /\ ProductionRows
    BY ProductionInitOK, ProductionInvSplit
  <2>2. NotYetStarted
    BY DEF ProductionInit, NotYetStarted
  <2>3. ASSUME NEW p \in Product, NEW w \in Warehouse, NEW q \in Order
        PROVE  cell[p][w].consumed[q] <= Total(TakenFor(q, p, w), NumBatches)
    <3>1. cell[p][w].consumed[q] = 0
      BY <2>3 DEF ProductionInit, Init, EmptyCell
    <3>2. Total(TakenFor(q, p, w), NumBatches) \in Nat
      BY <2>1, TakenForRows
    <3> QED
      BY <3>1, <3>2
  <2> QED
    BY <2>2, <2>3 DEF ConsumptionWasTaken, TakenFor
<1>2. ProductionInv /\ NotYetStarted /\ ConsumptionWasTaken /\ [ProductionNext]_allVars
        => NotYetStarted' /\ ConsumptionWasTaken'
  BY ProductionInvSplit, StepCounts
<1> QED
  BY <1>1, <1>2, ProductionInvInductive, PTL DEF ProductionSpec
=============================================================================
