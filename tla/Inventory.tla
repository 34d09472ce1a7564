----------------------------- MODULE Inventory -----------------------------
(***************************************************************************)
(* Stock, reservations and customer orders, one request at a time: every   *)
(* action is one request handler, whose writes all land in one database    *)
(* transaction or, when it throws, not at all.  What the statements of     *)
(* concurrent transactions do to each other is left out.                   *)
(*                                                                         *)
(* A customer order line is named by the assembly it orders (at most one   *)
(* line per assembly) and an assembly is made of products only; claims on  *)
(* ready-made sub-assemblies are left to a module of their own.            *)
(***************************************************************************)
EXTENDS StockRows

CONSTANTS
  Product,
  NumWarehouses,     \* warehouse 1 is the company's default warehouse
  NumItems,          \* the assemblies that can be ordered
  NumBatches,        \* how many production orders can ever be created
  Session,           \* stocktakes that can ever be started
  Boms,              \* the component lists an assembly may be given
  Amount,            \* the quantities of movements, counts and decisions
  LineQty,           \* the quantities of order lines and batches
  AssistantTotals,   \* the totals the assistant may be asked to set
  StockRange         \* bound on physical quantities, and on product totals

ASSUME InventoryAssumption ==
  /\ NumWarehouses \in Nat \ {0}
  /\ NumItems \in Nat /\ NumBatches \in Nat
  /\ Boms \subseteq [Product -> Nat] /\ Boms # {}
  /\ Amount \subseteq Nat \ {0} /\ LineQty \subseteq Nat \ {0}
  /\ StockRange \subseteq Int /\ 0 \in StockRange
  /\ AssistantTotals \subseteq StockRange

Warehouse == 1..NumWarehouses
DefaultWarehouse == 1
Item == 1..NumItems
Batch == 1..NumBatches
AmountOrZero == Amount \union {0}
NotCounted == -1

VARIABLES
  cell,          \* warehouse_stock and stock_reservations, per product and warehouse
  productQty,    \* products.qty, the cached total over all warehouses
  status,        \* customer_orders.status
  lines,         \* customer_order_items.qty, 0 where the order has no such line
  requirement,   \* order_material_requirements, required = 0 where there is no row
  bom,           \* the current component list of each assembly
  batch,         \* production_orders
  stocktake      \* inventory_sessions with their inventory_items

vars == <<cell, productQty, status, lines, requirement, bom, batch, stocktake>>

OrderStatus == {"NONE", "NEW", "IN_PRODUCTION", "COMPLETED", "CANCELLED", "DELETED"}
BatchStatus == {"NONE", "PLANNED", "IN_PROGRESS", "COMPLETED", "CANCELLED", "DELETED"}
Requirement == [required: Nat, fromStock: Nat]
NoRequirement == [required |-> 0, fromStock |-> 0]

\* components is the BOM version locked when the batch is created.
BatchRow == [status: BatchStatus,
             order: Order \union {NoOrder},
             item: Item \union {0},
             units: Nat,
             components: [Product -> Nat]]

NoBatch == [status |-> "NONE", order |-> NoOrder, item |-> 0, units |-> 0,
            components |-> [p \in Product |-> 0]]

StocktakeRow == [status: {"NONE", "IN_PROGRESS", "COMPLETED"},
                 expected: [Product -> Int],
                 actual: [Product -> Nat \union {NotCounted}]]

TypeOK ==
  /\ cell \in [Product -> [Warehouse -> Cell]]
  /\ productQty \in [Product -> Int]
  /\ status \in [Order -> OrderStatus]
  /\ lines \in [Order -> [Item -> Nat]]
  /\ requirement \in [Order -> [Product -> Requirement]]
  /\ bom \in [Item -> [Product -> Nat]]
  /\ batch \in [Batch -> BatchRow]
  /\ stocktake \in [Session -> StocktakeRow]

-----------------------------------------------------------------------------
(* What the handlers read. *)

Exists(o) == status[o] \notin {"NONE", "DELETED"}
Editable(o) == status[o] \in {"NEW", "IN_PRODUCTION"}

\* buildPools: what an order with lines ls needs of product p.
Pool(ls, p) == Total([i \in Item |-> ls[i] * bom[i][p]], NumItems)

\* The batches getItemQuantitySummary counts as given to production.
Live(b, o, i) == /\ batch[b].order = o /\ batch[b].item = i
                 /\ batch[b].status \notin {"NONE", "CANCELLED", "DELETED"}
InProduction(o, i) ==
  Total([b \in Batch |-> IF Live(b, o, i) THEN batch[b].units ELSE 0], NumBatches)

\* Mutant of Need: NEW orders take part in a top-up.
NeedOfOpenOrders(p) ==
  [o \in Order |-> IF Editable(o) THEN requirement[o][p].required ELSE 0]

\* The required qty topUp looks at: only orders that are IN_PRODUCTION.
Need(p) == [o \in Order |->
              IF status[o] = "IN_PRODUCTION" THEN requirement[o][p].required ELSE 0]

-----------------------------------------------------------------------------
(* What the handlers share. *)

\* ensureRequirementsAndAutoReserve on the stock in cs: a claim for real, or
\* for a NEW order only a look at what is there.
Claim(cs, o, ls) ==
  [p \in Product |-> [cs[p] EXCEPT
      ![DefaultWarehouse] = Grant(@, "STOCK", o, Pool(ls, p))]]
Requirements(cs, o, ls) ==
  [p \in Product |->
      IF Pool(ls, p) = 0 THEN requirement[o][p]
      ELSE [required |-> Pool(ls, p),
            fromStock |-> Granted(cs[p][DefaultWarehouse], Pool(ls, p))]]

\* Mutant of WithoutHolds: the reservations go, the running total stays.
WithoutHoldsTotalKept(o) ==
  [p \in Product |-> [w \in Warehouse |->
     [cell[p][w] EXCEPT !.hold["STOCK"][o] = 0, !.hold["PURCHASE"][o] = 0]]]

\* releaseAllForOrder over the whole stock.
WithoutHolds(o) ==
  [p \in Product |-> [w \in Warehouse |-> ReleaseAll(cell[p][w], o)]]

\* The end of addItem, updateItemQty and removeItem: the new lines ls are
\* stored and rebuildReservations releases and claims again.
Rebuild(o, ls) ==
  LET released == WithoutHolds(o)
  IN  /\ lines' = [lines EXCEPT ![o] = ls]
      /\ cell' = IF status[o] = "NEW" THEN released ELSE Claim(released, o, ls)
      /\ requirement' = [requirement EXCEPT ![o] = Requirements(released, o, ls)]
      /\ UNCHANGED <<productQty, status, bom, batch, stocktake>>

-----------------------------------------------------------------------------
(* StockService, the assistant's stock tool, AssembliesService. *)

\* recordMovement.  Nothing compares d with the stock there is.
RecordMovement(p, w, d) ==
  /\ d # 0
  /\ cell[p][w].qty + d \in StockRange /\ productQty[p] + d \in StockRange
  /\ cell' = [cell EXCEPT ![p][w] = Moved(@, Need(p), d, NoOrder)]
  /\ productQty' = [productQty EXCEPT ![p] = @ + d]
  /\ UNCHANGED <<status, lines, requirement, bom, batch, stocktake>>

\* move: two movements, out of one warehouse and into another.
MoveStock(p, from, to, n) ==
  /\ from # to
  /\ {cell[p][from].qty - n, cell[p][to].qty + n} \subseteq StockRange
  /\ cell' = [cell EXCEPT ![p][from] = Moved(@, Need(p), -n, NoOrder),
                          ![p][to] = Moved(@, Need(p), n, NoOrder)]
  /\ UNCHANGED <<productQty, status, lines, requirement, bom, batch, stocktake>>

\* The assistant's adjustProductStock: a movement without a warehouse.
AdjustProductStock(p, newQty) ==
  /\ newQty # productQty[p]
  /\ productQty' = [productQty EXCEPT ![p] = newQty]
  /\ UNCHANGED <<cell, status, lines, requirement, bom, batch, stocktake>>

\* setComponents: the assembly gets a new component list.
SetComponents(i, components) ==
  /\ bom' = [bom EXCEPT ![i] = components]
  /\ UNCHANGED <<cell, productQty, status, lines, requirement, batch, stocktake>>

-----------------------------------------------------------------------------
(* InventorySessionsService. *)

StartStocktake(s) ==
  /\ stocktake[s].status = "NONE"
  /\ stocktake' = [stocktake EXCEPT ![s] =
       [status |-> "IN_PROGRESS", expected |-> productQty,
        actual |-> [p \in Product |-> NotCounted]]]
  /\ UNCHANGED <<cell, productQty, status, lines, requirement, bom, batch>>

RecordCount(s, p, n) ==
  /\ stocktake[s].status = "IN_PROGRESS"
  /\ stocktake' = [stocktake EXCEPT ![s].actual[p] = n]
  /\ UNCHANGED <<cell, productQty, status, lines, requirement, bom, batch>>

\* Mutant of CompleteStocktake: the quantities are written without the
\* top-up that any other increase starts.
CompleteStocktakeNoTopUp(s) ==
  LET delta == [p \in Product |->
                  IF stocktake[s].actual[p] = NotCounted THEN 0
                  ELSE stocktake[s].actual[p] - stocktake[s].expected[p]]
  IN  /\ stocktake[s].status = "IN_PROGRESS"
      /\ \A p \in Product : /\ cell[p][DefaultWarehouse].qty + delta[p] \in StockRange
                            /\ productQty[p] + delta[p] \in StockRange
      /\ cell' = [p \in Product |-> [cell[p] EXCEPT ![DefaultWarehouse].qty = @ + delta[p]]]
      /\ productQty' = [p \in Product |-> productQty[p] + delta[p]]
      /\ stocktake' = [stocktake EXCEPT ![s].status = "COMPLETED"]
      /\ UNCHANGED <<status, lines, requirement, bom, batch>>

\* complete: what was counted less what was expected when the count began,
\* posted to the default warehouse.
CompleteStocktake(s) ==
  LET delta == [p \in Product |->
                  IF stocktake[s].actual[p] = NotCounted THEN 0
                  ELSE stocktake[s].actual[p] - stocktake[s].expected[p]]
  IN  /\ stocktake[s].status = "IN_PROGRESS"
      /\ \A p \in Product : /\ cell[p][DefaultWarehouse].qty + delta[p] \in StockRange
                            /\ productQty[p] + delta[p] \in StockRange
      /\ cell' = [p \in Product |-> [cell[p] EXCEPT
                    ![DefaultWarehouse] = Moved(@, Need(p), delta[p], NoOrder)]]
      /\ productQty' = [p \in Product |-> productQty[p] + delta[p]]
      /\ stocktake' = [stocktake EXCEPT ![s].status = "COMPLETED"]
      /\ UNCHANGED <<status, lines, requirement, bom, batch>>

-----------------------------------------------------------------------------
(* CustomerOrdersService and CustomerOrderShortageService. *)

\* create: the order is NEW, so its requirements are only a preview.
CreateOrder(o, ls) ==
  /\ status[o] = "NONE" /\ \A older \in 1..(o - 1) : status[older] # "NONE"
  /\ \E i \in Item : ls[i] > 0
  /\ status' = [status EXCEPT ![o] = "NEW"]
  /\ lines' = [lines EXCEPT ![o] = ls]
  /\ requirement' = [requirement EXCEPT ![o] = Requirements(cell, o, ls)]
  /\ UNCHANGED <<cell, productQty, bom, batch, stocktake>>

AddItem(o, i, n) ==
  /\ Editable(o) /\ lines[o][i] = 0
  /\ Rebuild(o, [lines[o] EXCEPT ![i] = n])

\* Mutant of UpdateItemQty: the qty already given to production is not looked at.
UpdateItemQtyUnchecked(o, i, n) ==
  /\ Editable(o) /\ lines[o][i] > 0
  /\ Rebuild(o, [lines[o] EXCEPT ![i] = n])

UpdateItemQty(o, i, n) ==
  /\ Editable(o) /\ lines[o][i] > 0
  /\ n >= InProduction(o, i)
  /\ Rebuild(o, [lines[o] EXCEPT ![i] = n])

RemoveItem(o, i) ==
  /\ Editable(o) /\ lines[o][i] > 0
  /\ \A b \in Batch : ~ Live(b, o, i)
  /\ Rebuild(o, [lines[o] EXCEPT ![i] = 0])

\* giveItemToProduction: a batch of the line that does not exceed what remains
\* of it; the order's first batch makes it IN_PRODUCTION and claims its stock.
\* Whatever the status of the order is, nothing refuses the batch.
GiveItemToProduction(o, i, b, units) ==
  /\ Exists(o) /\ lines[o][i] > 0
  /\ units <= lines[o][i] - InProduction(o, i)
  /\ batch[b].status = "NONE" /\ \A earlier \in 1..(b - 1) : batch[earlier].status # "NONE"
  /\ batch' = [batch EXCEPT ![b] =
       [status |-> "PLANNED", order |-> o, item |-> i, units |-> units,
        components |-> bom[i]]]
  /\ IF status[o] = "NEW"
     THEN /\ status' = [status EXCEPT ![o] = "IN_PRODUCTION"]
          /\ cell' = Claim(cell, o, lines[o])
          /\ requirement' = [requirement EXCEPT ![o] = Requirements(cell, o, lines[o])]
     ELSE UNCHANGED <<status, cell, requirement>>
  /\ UNCHANGED <<productQty, lines, bom, stocktake>>

\* saveReservationDecisions: for each product decided on, the difference to
\* the stored qtyFromStock is reserved, in full or the request fails, or
\* released.  The order's status is not looked at.
SaveReservationDecisions(o, decision) ==
  LET decided == DOMAIN decision
      delta(p) == decision[p] - requirement[o][p].fromStock
      here(p) == cell[p][DefaultWarehouse]
      required(p) == IF requirement[o][p].required > 0 THEN requirement[o][p].required
                     ELSE Pool(lines[o], p)
  IN  /\ Exists(o)
      /\ \A p \in decided : required(p) > 0
      /\ \A p \in decided : delta(p) > 0 => Granted(here(p), delta(p)) = delta(p)
      /\ cell' = [p \in Product |-> [cell[p] EXCEPT ![DefaultWarehouse] =
                    IF p \notin decided THEN @
                    ELSE IF delta(p) > 0 THEN Grant(@, "STOCK", o, delta(p))
                    ELSE Release(@, "STOCK", o, -delta(p))]]
      /\ requirement' = [requirement EXCEPT ![o] = [p \in Product |->
                           IF p \notin decided THEN @[p]
                           ELSE [required |-> required(p), fromStock |-> decision[p]]]]
      /\ UNCHANGED <<productQty, status, lines, bom, batch, stocktake>>

CancelOrder(o) ==
  /\ Editable(o)
  /\ cell' = WithoutHolds(o)
  /\ status' = [status EXCEPT ![o] = "CANCELLED"]
  /\ UNCHANGED <<productQty, lines, requirement, bom, batch, stocktake>>

\* complete: the order keeps whatever it holds.
CompleteOrder(o) ==
  /\ Editable(o)
  /\ status' = [status EXCEPT ![o] = "COMPLETED"]
  /\ UNCHANGED <<cell, productQty, lines, requirement, bom, batch, stocktake>>

\* Mutant of RemoveOrder: the cascade alone, without releasing first.
RemoveOrderByCascade(o) ==
  /\ Exists(o)
  /\ cell' = [p \in Product |-> [w \in Warehouse |-> Forget(cell[p][w], o)]]
  /\ status' = [status EXCEPT ![o] = "DELETED"]
  /\ lines' = [lines EXCEPT ![o] = [i \in Item |-> 0]]
  /\ requirement' = [requirement EXCEPT ![o] = [p \in Product |-> NoRequirement]]
  /\ batch' = [b \in Batch |->
                IF batch[b].order = o
                THEN [batch[b] EXCEPT !.order = NoOrder, !.item = 0] ELSE batch[b]]
  /\ UNCHANGED <<productQty, bom, stocktake>>

\* remove: the holds are released, then the row goes and takes its lines,
\* reservations and requirements with it; its batches stay, without an order.
RemoveOrder(o) ==
  /\ Exists(o)
  /\ cell' = [p \in Product |-> [w \in Warehouse |-> Forget(WithoutHolds(o)[p][w], o)]]
  /\ status' = [status EXCEPT ![o] = "DELETED"]
  /\ lines' = [lines EXCEPT ![o] = [i \in Item |-> 0]]
  /\ requirement' = [requirement EXCEPT ![o] = [p \in Product |-> NoRequirement]]
  /\ batch' = [b \in Batch |->
                IF batch[b].order = o
                THEN [batch[b] EXCEPT !.order = NoOrder, !.item = 0] ELSE batch[b]]
  /\ UNCHANGED <<productQty, bom, stocktake>>

-----------------------------------------------------------------------------
(* ProductionOrdersService, before a batch is started. *)

CancelBatch(b) ==
  /\ batch[b].status = "PLANNED"
  /\ batch' = [batch EXCEPT ![b].status = "CANCELLED"]
  /\ UNCHANGED <<cell, productQty, status, lines, requirement, bom, stocktake>>

RemoveBatch(b) ==
  /\ batch[b].status \in {"PLANNED", "CANCELLED"}
  /\ batch' = [batch EXCEPT ![b].status = "DELETED"]
  /\ UNCHANGED <<cell, productQty, status, lines, requirement, bom, stocktake>>

-----------------------------------------------------------------------------
Init ==
  /\ cell = [p \in Product |-> [w \in Warehouse |-> EmptyCell]]
  /\ productQty = [p \in Product |-> 0]
  /\ status = [o \in Order |-> "NONE"]
  /\ lines = [o \in Order |-> [i \in Item |-> 0]]
  /\ requirement = [o \in Order |-> [p \in Product |-> NoRequirement]]
  /\ bom \in [Item -> Boms]
  /\ batch = [b \in Batch |-> NoBatch]
  /\ stocktake = [s \in Session |-> [status |-> "NONE",
                    expected |-> [p \in Product |-> 0],
                    actual |-> [p \in Product |-> NotCounted]]]

StockStep ==
  \E p \in Product :
    \/ \E w \in Warehouse, n \in Amount : RecordMovement(p, w, n) \/ RecordMovement(p, w, -n)
    \/ \E from, to \in Warehouse, n \in Amount : MoveStock(p, from, to, n)
    \/ \E newQty \in AssistantTotals : AdjustProductStock(p, newQty)

StocktakeStep ==
  \E s \in Session :
    \/ StartStocktake(s)
    \/ \E p \in Product, n \in AmountOrZero : RecordCount(s, p, n)
    \/ CompleteStocktake(s)

OrderStep ==
  \E o \in Order :
    \/ \E ls \in [Item -> LineQty \union {0}] : CreateOrder(o, ls)
    \/ \E i \in Item, n \in LineQty : AddItem(o, i, n) \/ UpdateItemQty(o, i, n)
    \/ \E i \in Item : RemoveItem(o, i)
    \/ \E i \in Item, b \in Batch, n \in LineQty : GiveItemToProduction(o, i, b, n)
    \/ \E decided \in SUBSET Product : \E decision \in [decided -> AmountOrZero] :
         decided # {} /\ SaveReservationDecisions(o, decision)
    \/ CancelOrder(o)
    \/ CompleteOrder(o)
    \/ RemoveOrder(o)

BatchStep == \E b \in Batch : CancelBatch(b) \/ RemoveBatch(b)

BomStep == \E i \in Item, components \in Boms : SetComponents(i, components)

Next == StockStep \/ StocktakeStep \/ OrderStep \/ BatchStep \/ BomStep

Spec == Init /\ [][Next]_vars

-----------------------------------------------------------------------------
(* Properties that hold. *)

\* The running total warehouse_stock.reservedQty, which every grant is checked
\* against, is the sum of the reservations it stands for (schema.prisma, model
\* WarehouseStock): no request strands a hold or forgets one.
ReservedMatchesHolds ==
  \A p \in Product, w \in Warehouse :
    cell[p][w].reserved = Total([o \in Order |-> Held(cell[p][w], o)], NumOrders)

\* A request that reserves more of a product never reserves beyond the
\* physical stock it leaves behind (grantReservation's LEAST / GREATEST).
GrantsFitFreeStock ==
  [][\A p \in Product, w \in Warehouse :
       cell'[p][w].reserved > cell[p][w].reserved
         => cell'[p][w].reserved <= cell'[p][w].qty]_vars

\* Arriving stock goes to the order that has waited longest (topUp): a younger
\* order gains nothing while an older one still waits.  No movement here is for
\* a particular order, as a purchase is, which its own order is served from first.
ArrivalsServeOldestFirst ==
  [][\A p \in Product, w \in Warehouse, young \in Order : \A old \in 1..(young - 1) :
       cell'[p][w].hold["PURCHASE"][young] > cell[p][w].hold["PURCHASE"][young]
         => Outstanding(cell'[p][w], old, Need(p)'[old]) = 0]_vars

\* Arriving stock is not left lying while an order waits for it (topUp): after
\* an arrival either all of it is reserved, or nothing is free, or nobody waits.
ArrivalsLeaveNobodyWaiting ==
  [][\A p \in Product, w \in Warehouse :
       LET old == cell[p][w]
           new == cell'[p][w]
       IN  new.qty > old.qty =>
             \/ new.reserved - old.reserved = new.qty - old.qty
             \/ Available(new) <= 0
             \/ \A o \in Order : Outstanding(new, o, Need(p)'[o]) = 0]_vars

\* Stock that arrives is only ever reserved for orders that are IN_PRODUCTION,
\* never for one that is still NEW or already closed, and within one warehouse
\* never beyond what the order asks for (topUp, the incident of 2026-09-24).
ArrivalsFeedOnlyRunningOrders ==
  [][\A p \in Product, w \in Warehouse, o \in Order :
       cell'[p][w].hold["PURCHASE"][o] > cell[p][w].hold["PURCHASE"][o]
         => /\ status[o] = "IN_PRODUCTION"
            /\ Held(cell'[p][w], o) + cell'[p][w].consumed[o] <= requirement[o][p].required]_vars

\* The batches giveItemToProduction makes never add up to more than the line
\* orders, through any sequence of line edits, batches and cancellations.
BatchesFitTheLine ==
  \A o \in Order, i \in Item : InProduction(o, i) <= lines[o][i]

-----------------------------------------------------------------------------
(* What the comments of the code promise and the code does not keep. *)

\* stock-reservation.service.ts:54 "total ACTIVE reservations against a
\* (product, warehouse) must never exceed its physical stock".
ReservationsFitStock ==
  \A p \in Product, w \in Warehouse : cell[p][w].reserved <= NonNegative(cell[p][w].qty)

\* customer-order-shortage.service.ts:322 "batch-adjusts this order's
\* STOCK-source reservation ... to the given qtyFromStock values".
DecisionsAreHeld ==
  [][\A o \in Order : \A decided \in (SUBSET Product) \ {{}} :
       \A decision \in [decided -> AmountOrZero] :
         SaveReservationDecisions(o, decision) =>
           \A p \in decided : cell'[p][DefaultWarehouse].hold["STOCK"][o] = decision[p]]_vars
=============================================================================
