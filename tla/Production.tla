----------------------------- MODULE Production -----------------------------
(***************************************************************************)
(* Inventory with the material side of ProductionOrdersService: starting a *)
(* batch consumes material and reservations, reverting the start returns   *)
(* them, stages complete the batch.  The finished goods a start creates    *)
(* have a module of their own, FinishedGoods; here a batch only knows      *)
(* whether somebody has shipped or inspected one of them since, which is   *)
(* what a revert asks.                                                     *)
(***************************************************************************)
EXTENDS Inventory

CONSTANTS
  NumStages,     \* production stages configured, possibly none
  MaxStarts      \* bound on the starts of one batch from one warehouse

ASSUME ProductionAssumption == NumStages \in Nat /\ MaxStarts \in Nat

VARIABLES
  taken,         \* per batch and warehouse, the starts whose PRODUCTION_CONSUMPTION
                 \* movements are in the ledger, which is never deleted from
  returned,      \* per batch and warehouse, how many times the
                 \* PRODUCTION_REVERSAL movements of one start were written
  stage,         \* currentStageIndex of an IN_PROGRESS batch
  outputUsed     \* a finished good of the batch is shipped, consumed or inspected

productionVars == <<taken, returned, stage, outputUsed>>
allVars == <<vars, productionVars>>

ProductionTypeOK ==
  /\ TypeOK
  /\ taken \in [Batch -> [Warehouse -> Nat]]
  /\ returned \in [Batch -> [Warehouse -> Nat]]
  /\ stage \in [Batch -> Nat]
  /\ outputUsed \in [Batch -> BOOLEAN]

-----------------------------------------------------------------------------
\* What batch b needs of product p, all its units together.
BatchNeed(b, p) == batch[b].units * batch[b].components[p]

\* resolveCustomerOrderId: the order the batch was made for, while it exists.
OrderOf(b) == batch[b].order

HeldBy(c, o) == IF o = NoOrder THEN 0 ELSE Held(c, o)

\* Mutant of EnoughFor: what the others hold is not kept back.
EnoughOnTheShelf(c, o, n) == c.qty >= n

\* computeShortages for one line: the stock that no other order has reserved.
EnoughFor(c, o, n) == c.qty - NonNegative(c.reserved - HeldBy(c, o)) >= n

\* Mutant of Taken: what the STOCK reservation gave is not subtracted before
\* the PURCHASE reservation is consumed.
TakenFromBothHolds(c, o, n) ==
  LET issued == [c EXCEPT !.qty = @ - n]
  IN  IF o = NoOrder THEN issued
      ELSE Consume(Consume(issued, "STOCK", o, n), "PURCHASE", o, n)

\* The material of one line leaves; the order's own reservations are consumed,
\* STOCK first and PURCHASE for the rest.
Taken(c, o, n) ==
  LET issued == [c EXCEPT !.qty = @ - n]
      fromStock == Least(n, c.hold["STOCK"][o])
  IN  IF o = NoOrder THEN issued
      ELSE Consume(Consume(issued, "STOCK", o, fromStock), "PURCHASE", o, n - fromStock)

\* One PRODUCTION_REVERSAL movement for each of k consumption movements of n,
\* each preferring the batch's own order in the top-up it starts.
Returned(c, need, o, n, k) ==
  LET after[j \in 0..k] == IF j = 0 THEN c ELSE Moved(after[j - 1], need, n, o)
  IN  after[k]

-----------------------------------------------------------------------------
(* ProductionOrdersService. *)

\* create, asked for directly: a batch of any assembly, for stock or for line i
\* of an order, with none of the checks of giveItemToProduction.
CreateBatch(b, assembly, o, i, units) ==
  /\ o # NoOrder => lines[o][i] > 0
  /\ batch[b].status = "NONE" /\ \A earlier \in 1..(b - 1) : batch[earlier].status # "NONE"
  /\ batch' = [batch EXCEPT ![b] =
       [status |-> "PLANNED", order |-> o, item |-> IF o = NoOrder THEN 0 ELSE i,
        units |-> units, components |-> bom[assembly]]]
  /\ UNCHANGED <<cell, productQty, status, lines, requirement, bom, stocktake, productionVars>>

Start(b, w) ==
  /\ batch[b].status = "PLANNED"
  /\ \A p \in Product : BatchNeed(b, p) > 0 => EnoughFor(cell[p][w], OrderOf(b), BatchNeed(b, p))
  /\ taken[b][w] < MaxStarts
  /\ \A p \in Product : {cell[p][w].qty - BatchNeed(b, p), productQty[p] - BatchNeed(b, p)}
                          \subseteq StockRange
  /\ cell' = [p \in Product |-> [cell[p] EXCEPT ![w] = Taken(@, OrderOf(b), BatchNeed(b, p))]]
  /\ productQty' = [p \in Product |-> productQty[p] - BatchNeed(b, p)]
  /\ batch' = [batch EXCEPT ![b].status = IF NumStages > 0 THEN "IN_PROGRESS" ELSE "COMPLETED"]
  /\ taken' = [taken EXCEPT ![b][w] = @ + 1]
  /\ stage' = [stage EXCEPT ![b] = 0]
  /\ outputUsed' = [outputUsed EXCEPT ![b] = FALSE]
  /\ UNCHANGED <<status, lines, requirement, bom, stocktake, returned>>

\* Mutant of RevertStart: the material goes to the default warehouse only.
RevertToDefaultWarehouse(b) ==
  /\ batch[b].status = "IN_PROGRESS" /\ ~ outputUsed[b]
  /\ LET back(p) == Returned(cell[p][DefaultWarehouse], Need(p), OrderOf(b), BatchNeed(b, p),
                             taken[b][DefaultWarehouse])
     IN  cell' = [p \in Product |-> [cell[p] EXCEPT ![DefaultWarehouse] = back(p)]]
  /\ productQty' = [p \in Product |-> productQty[p] + BatchNeed(b, p) * taken[b][DefaultWarehouse]]
  /\ batch' = [batch EXCEPT ![b].status = "PLANNED"]
  /\ returned' = [returned EXCEPT ![b][DefaultWarehouse] = @ + taken[b][DefaultWarehouse]]
  /\ stage' = [stage EXCEPT ![b] = 0]
  /\ UNCHANGED <<status, lines, requirement, bom, stocktake, taken, outputUsed>>

\* revertStart: every PRODUCTION_CONSUMPTION movement of the batch is credited,
\* those of earlier starts with those of the last one.
RevertStart(b) ==
  LET inAll(p) == BatchNeed(b, p) * Total([w \in Warehouse |-> taken[b][w]], NumWarehouses)
  IN  /\ batch[b].status = "IN_PROGRESS" /\ ~ outputUsed[b]
      /\ \A p \in Product :
           /\ productQty[p] + inAll(p) \in StockRange
           /\ \A w \in Warehouse : cell[p][w].qty + BatchNeed(b, p) * taken[b][w] \in StockRange
      /\ cell' = [p \in Product |-> [w \in Warehouse |->
                    Returned(cell[p][w], Need(p), OrderOf(b), BatchNeed(b, p), taken[b][w])]]
      /\ productQty' = [p \in Product |-> productQty[p] + inAll(p)]
      /\ batch' = [batch EXCEPT ![b].status = "PLANNED"]
      /\ returned' = [returned EXCEPT ![b] = [w \in Warehouse |-> @[w] + taken[b][w]]]
      /\ stage' = [stage EXCEPT ![b] = 0]
      /\ UNCHANGED <<status, lines, requirement, bom, stocktake, taken, outputUsed>>

AdvanceStage(b) ==
  /\ batch[b].status = "IN_PROGRESS" /\ NumStages > 0
  /\ IF stage[b] + 1 >= NumStages
     THEN /\ batch' = [batch EXCEPT ![b].status = "COMPLETED"]
          /\ stage' = [stage EXCEPT ![b] = 0]
     ELSE /\ stage' = [stage EXCEPT ![b] = @ + 1]
          /\ UNCHANGED batch
  /\ UNCHANGED <<cell, productQty, status, lines, requirement, bom, stocktake,
                 taken, returned, outputUsed>>

\* Shipments, inspections and later batches use the output of a started batch;
\* deleting a shipment may give it back.
UseOutput(b, used) ==
  /\ batch[b].status \in {"IN_PROGRESS", "COMPLETED"}
  /\ outputUsed[b] # used
  /\ outputUsed' = [outputUsed EXCEPT ![b] = used]
  /\ UNCHANGED <<vars, taken, returned, stage>>

-----------------------------------------------------------------------------
ProductionInit ==
  /\ Init
  /\ taken = [b \in Batch |-> [w \in Warehouse |-> 0]]
  /\ returned = [b \in Batch |-> [w \in Warehouse |-> 0]]
  /\ stage = [b \in Batch |-> 0]
  /\ outputUsed = [b \in Batch |-> FALSE]

ProductionStep ==
  \E b \in Batch :
    \/ \E assembly, i \in Item, o \in Order \union {NoOrder}, units \in LineQty :
         CreateBatch(b, assembly, o, i, units)
    \/ \E w \in Warehouse : Start(b, w)
    \/ RevertStart(b)
    \/ AdvanceStage(b)
    \/ \E used \in BOOLEAN : UseOutput(b, used)

InventoryStep == Next /\ UNCHANGED productionVars

ProductionNext == InventoryStep \/ ProductionStep

ProductionSpec == ProductionInit /\ [][ProductionNext]_allVars

-----------------------------------------------------------------------------
\* A batch that starts leaves every other order the material it holds in that
\* warehouse (computeShortages), whoever moved stock in between.
StartsLeaveOthersTheirHolds ==
  [][\A b \in Batch, p \in Product, w \in Warehouse :
       batch[b].status = "PLANNED" /\ taken'[b][w] > taken[b][w] /\ BatchNeed(b, p) > 0 =>
         cell'[p][w].qty >=
           Total([o \in Order |-> IF o = OrderOf(b) THEN 0 ELSE Held(cell'[p][w], o)],
                 NumOrders)]_allVars

\* What an order counts as consumed was really taken for its batches: the two
\* reservations of a line are never consumed for more than its material.
ConsumptionWasTaken ==
  \A p \in Product, w \in Warehouse, o \in Order :
    cell[p][w].consumed[o]
      <= Total([b \in Batch |-> IF batch[b].order = o THEN BatchNeed(b, p) * taken[b][w] ELSE 0],
               NumBatches)

\* A batch that is not running keeps no material: what its starts took out of
\* each warehouse has come back to that warehouse (revertStart reads the
\* warehouse of every movement).
PlannedBatchesKeepNoMaterial ==
  \A b \in Batch, w \in Warehouse :
    batch[b].status \in {"PLANNED", "CANCELLED"} => returned[b][w] >= taken[b][w]

-----------------------------------------------------------------------------
(* What the comments of the code promise and the code does not keep. *)

\* production-orders.service.ts:699 "undoes everything start() did, as if it
\* had never been called": no more comes back than was taken.
NothingReturnedTwice ==
  \A b \in Batch, w \in Warehouse : returned[b][w] <= taken[b][w]

\* production-orders.service.ts:766 "re-creates this batch's customer-order
\* reservation the same way any other stock increase does": after a revert a
\* running order holds what it requires, or nothing is left to hold.
RevertsReserveAgain ==
  [][\A b \in Batch, p \in Product, w \in Warehouse :
       LET o == OrderOf(b)
       IN  /\ batch[b].status = "IN_PROGRESS" /\ batch'[b].status = "PLANNED"
           /\ o # NoOrder /\ taken[b][w] > 0 /\ Need(p)[o] > 0
           => \/ Held(cell'[p][w], o) >= Need(p)[o]
              \/ Available(cell'[p][w]) <= 0]_allVars
=============================================================================
