---------------------------- MODULE FinishedGoods ----------------------------
(***************************************************************************)
(* Finished goods: the units batches produce or suppliers deliver, each a  *)
(* row with a serial number; what consumes, inspects, ships and deletes    *)
(* them; and the claims customer orders make on ready-made sub-assemblies. *)
(*                                                                         *)
(* The material side of a batch is in Production: here a start that is     *)
(* refused for lack of material is one that is not asked for.  Units are   *)
(* numbered in the order in which their rows are created, which stands for *)
(* the manufacture date; units of one batch share a date and the database  *)
(* may pick among them, here the first of them is picked.                  *)
(***************************************************************************)
EXTENDS FiniteSets, Sums

CONSTANTS
  NumItems, NumOrders, NumBatches,
  NumUnits,        \* bound on the units that can ever exist
  NumShipments,    \* bound on the shipments that can ever be made
  NumStages,       \* production stages configured, possibly none
  Parts,           \* Parts[i][j]: how many units of j one unit of i is made from
  Units,           \* the quantities batches, receipts and claims may carry
  MaxClaim         \* bound on one order's claim

Item == 1..NumItems
Order == 1..NumOrders
Batch == 1..NumBatches
Unit == 1..NumUnits
Shipment == 1..NumShipments
NoOrder == 0
NoBatch == 0

ASSUME FinishedGoodsAssumption ==
  /\ {NumItems, NumOrders, NumBatches, NumUnits, NumShipments, NumStages, MaxClaim} \subseteq Nat
  /\ Parts \in [1..NumItems -> [1..NumItems -> Nat]]
  /\ Units \subseteq Nat \ {0}

VARIABLES
  batch,       \* production_orders
  stage,       \* production_orders.currentStageIndex
  picked,      \* consumedFinishedGoodIds on the pick list of a started batch
  unit,        \* finished_goods
  claim,       \* sub_assembly_reservations.qty, per order and assembly
  shipment     \* shipments with their shipment_items

goodsVars == <<batch, stage, picked, unit, claim, shipment>>

BatchStatus == {"NONE", "PLANNED", "IN_PROGRESS", "COMPLETED", "CANCELLED", "DELETED"}
UnitStatus == {"NONE", "IN_STOCK", "SHIPPED", "CONSUMED", "REWORK", "DELETED"}
ShipmentStatus == {"NONE", "SHIPPED", "DELIVERED", "DELETED"}

BatchRow == [status: BatchStatus, item: Item \union {0}, order: Order \union {NoOrder}, units: Nat]
UnitRow == [status: UnitStatus, serial: Nat, item: Item \union {0},
            batch: Batch \union {NoBatch}, order: Order \union {NoOrder}, checked: BOOLEAN]
ShipmentRow == [status: ShipmentStatus, units: SUBSET Unit]

GoodsTypeOK ==
  /\ batch \in [Batch -> BatchRow]
  /\ stage \in [Batch -> Nat]
  /\ picked \in [Batch -> SUBSET Unit]
  /\ unit \in [Unit -> UnitRow]
  /\ claim \in [Order -> [Item -> Nat]]
  /\ shipment \in [Shipment -> ShipmentRow]

-----------------------------------------------------------------------------
(* What the handlers read. *)

Rows == {u \in Unit : unit[u].status \notin {"NONE", "DELETED"}}
InStock(j) == {u \in Rows : unit[u].status = "IN_STOCK" /\ unit[u].item = j}
OutputOf(b) == {u \in Rows : unit[u].batch = b}
OnShipment(u) == \E s \in Shipment : shipment[s].status # "DELETED" /\ u \in shipment[s].units

\* getReservedByOthers: the claims on j, those of order o excepted.
ClaimedByOthers(o, j) ==
  Total([other \in Order |-> IF other = o THEN 0 ELSE claim[other][j]], NumOrders)

\* The n oldest of the units in S, all of them if they are fewer.
Oldest(S, n) == {u \in S : Cardinality({v \in S : v < u}) < n}

\* generateSerialNumbers(n): as many numbers after the count of rows, and the
\* unique index that refuses one already in use.
LastSerial == Cardinality(Rows)
SerialsAreFree(n) ==
  \A u \in Rows : unit[u].serial \notin (LastSerial + 1)..(LastSerial + n)

Used == Cardinality({u \in Unit : unit[u].status # "NONE"})
NewUnits(n) == (Used + 1)..(Used + n)
NewUnit(u, i, b) ==
  [status |-> "IN_STOCK", serial |-> LastSerial + (u - Used), item |-> i,
   batch |-> b, order |-> NoOrder, checked |-> FALSE]

NoUnit == [status |-> "NONE", serial |-> 0, item |-> 0,
           batch |-> NoBatch, order |-> NoOrder, checked |-> FALSE]
Deleted(row) == [NoUnit EXCEPT !.status = "DELETED"]

-----------------------------------------------------------------------------
(* ProductionOrdersService. *)

CreateBatch(b, i, o, n) ==
  /\ batch[b].status = "NONE" /\ \A earlier \in 1..(b - 1) : batch[earlier].status # "NONE"
  /\ batch' = [batch EXCEPT ![b] = [status |-> "PLANNED", item |-> i, order |-> o, units |-> n]]
  /\ UNCHANGED <<stage, picked, unit, claim, shipment>>

CancelBatch(b) ==
  /\ batch[b].status = "PLANNED"
  /\ batch' = [batch EXCEPT ![b].status = "CANCELLED"]
  /\ UNCHANGED <<stage, picked, unit, claim, shipment>>

\* Mutant of RemoveBatch: a completed batch may be deleted too.
RemoveFinishedBatch(b) ==
  /\ batch[b].status \in {"PLANNED", "CANCELLED", "COMPLETED"}
  /\ batch' = [batch EXCEPT ![b].status = "DELETED"]
  /\ UNCHANGED <<stage, picked, unit, claim, shipment>>

RemoveBatch(b) ==
  /\ batch[b].status \in {"PLANNED", "CANCELLED"}
  /\ batch' = [batch EXCEPT ![b].status = "DELETED"]
  /\ UNCHANGED <<stage, picked, unit, claim, shipment>>

\* How many units of j batch b is made from.
PartNeed(b, j) == batch[b].units * Parts[batch[b].item][j]

\* Mutant of EnoughParts: the claims of other orders are not kept back.
EnoughPartsOnTheShelf(b, j) == Cardinality(InStock(j)) >= PartNeed(b, j)

\* computeShortages for one sub-assembly.
EnoughParts(b, j) ==
  Cardinality(InStock(j)) >= ClaimedByOthers(batch[b].order, j) + PartNeed(b, j)

\* Mutant of Shrunk: the claim is not kept above zero.
ShrunkBelowZero(claimed, n) == claimed - n

\* consume: a claim shrinks by what a batch took, never below zero.
Shrunk(claimed, n) == IF claimed > n THEN claimed - n ELSE 0

\* start: the oldest units of each sub-assembly are consumed, whoever they were
\* meant for, the order's claim shrinks by as many, and the batch's own units
\* come into being, in stock before anybody has worked on them.
Start(b) ==
  LET consumed == UNION {Oldest(InStock(j), PartNeed(b, j)) : j \in Item}
      produced == NewUnits(batch[b].units)
  IN  /\ batch[b].status = "PLANNED"
      /\ \A j \in Item : PartNeed(b, j) > 0 => EnoughParts(b, j)
      /\ produced \subseteq Unit
      /\ SerialsAreFree(batch[b].units)
      /\ unit' = [u \in Unit |->
                   IF u \in consumed THEN [unit[u] EXCEPT !.status = "CONSUMED"]
                   ELSE IF u \in produced THEN NewUnit(u, batch[b].item, b) ELSE unit[u]]
      /\ picked' = [picked EXCEPT ![b] = consumed]
      /\ claim' = [o \in Order |-> [j \in Item |->
                    IF o = batch[b].order THEN Shrunk(claim[o][j], PartNeed(b, j))
                    ELSE claim[o][j]]]
      /\ batch' = [batch EXCEPT ![b].status = IF NumStages > 0 THEN "IN_PROGRESS" ELSE "COMPLETED"]
      /\ stage' = [stage EXCEPT ![b] = 0]
      /\ UNCHANGED shipment

\* Mutant of Untouched: an inspected unit that is back in stock counts as new.
InStockUnlinked(u) == unit[u].status = "IN_STOCK" /\ unit[u].order = NoOrder

\* Exactly as the start left it.
Untouched(u) == unit[u].status = "IN_STOCK" /\ unit[u].order = NoOrder /\ ~ unit[u].checked

\* Mutant of RevertStart: the pick list is dropped before its units are returned.
RevertDropsPickList(b) ==
  /\ batch[b].status = "IN_PROGRESS"
  /\ \A u \in OutputOf(b) : Untouched(u)
  /\ unit' = [u \in Unit |-> IF u \in OutputOf(b) THEN Deleted(unit[u]) ELSE unit[u]]
  /\ picked' = [picked EXCEPT ![b] = {}]
  /\ batch' = [batch EXCEPT ![b].status = "PLANNED"]
  /\ stage' = [stage EXCEPT ![b] = 0]
  /\ UNCHANGED <<claim, shipment>>

\* revertStart: the units on the pick list return to stock, whatever has become
\* of them, and the batch's own output is deleted.
RevertStart(b) ==
  /\ batch[b].status = "IN_PROGRESS"
  /\ \A u \in OutputOf(b) : Untouched(u)
  /\ unit' = [u \in Unit |->
               IF u \in OutputOf(b) THEN Deleted(unit[u])
               ELSE IF u \in picked[b] \intersect Rows
                    THEN [unit[u] EXCEPT !.status = "IN_STOCK"] ELSE unit[u]]
  /\ picked' = [picked EXCEPT ![b] = {}]
  /\ batch' = [batch EXCEPT ![b].status = "PLANNED"]
  /\ stage' = [stage EXCEPT ![b] = 0]
  /\ UNCHANGED <<claim, shipment>>

AdvanceStage(b) ==
  /\ batch[b].status = "IN_PROGRESS" /\ NumStages > 0
  /\ IF stage[b] + 1 >= NumStages
     THEN /\ batch' = [batch EXCEPT ![b].status = "COMPLETED"]
          /\ stage' = [stage EXCEPT ![b] = 0]
     ELSE /\ stage' = [stage EXCEPT ![b] = @ + 1]
          /\ UNCHANGED batch
  /\ UNCHANGED <<picked, unit, claim, shipment>>

-----------------------------------------------------------------------------
(* FinishedGoodsService, QcService. *)

\* receivePurchased: units bought ready-made, which no batch produced.
ReceivePurchased(i, n) ==
  /\ NewUnits(n) \subseteq Unit
  /\ SerialsAreFree(n)
  /\ unit' = [u \in Unit |-> IF u \in NewUnits(n) THEN NewUnit(u, i, NoBatch) ELSE unit[u]]
  /\ UNCHANGED <<batch, stage, picked, claim, shipment>>

RemoveUnit(u) ==
  /\ u \in Rows /\ unit[u].status = "IN_STOCK"
  /\ ~ unit[u].checked /\ ~ OnShipment(u)
  /\ unit' = [unit EXCEPT ![u] = Deleted(@)]
  /\ UNCHANGED <<batch, stage, picked, claim, shipment>>

\* recordCheck: the result is the unit's new status, whatever the old one was.
RecordCheck(u, accepted) ==
  /\ u \in Rows
  /\ unit' = [unit EXCEPT ![u].checked = TRUE,
                          ![u].status = IF accepted THEN "IN_STOCK" ELSE "REWORK"]
  /\ UNCHANGED <<batch, stage, picked, claim, shipment>>

-----------------------------------------------------------------------------
(* ShipmentsService. *)

\* create: for a customer order, or for none.
CreateShipment(s, us, o) ==
  /\ shipment[s].status = "NONE" /\ \A earlier \in 1..(s - 1) : shipment[earlier].status # "NONE"
  /\ us \subseteq Rows /\ \A u \in us : unit[u].status = "IN_STOCK"
  /\ shipment' = [shipment EXCEPT ![s] = [status |-> "SHIPPED", units |-> us]]
  /\ unit' = [u \in Unit |->
               IF u \notin us THEN unit[u]
               ELSE [unit[u] EXCEPT !.status = "SHIPPED",
                                    !.order = IF o = NoOrder THEN @ ELSE o]]
  /\ UNCHANGED <<batch, stage, picked, claim>>

MarkDelivered(s) ==
  /\ shipment[s].status = "SHIPPED"
  /\ shipment' = [shipment EXCEPT ![s].status = "DELIVERED"]
  /\ UNCHANGED <<batch, stage, picked, unit, claim>>

\* Mutant of RemoveShipment: a delivered shipment may be deleted too.
RemoveAnyShipment(s) ==
  /\ shipment[s].status \in {"SHIPPED", "DELIVERED"}
  /\ unit' = [u \in Unit |->
               IF u \in shipment[s].units /\ unit[u].status = "SHIPPED"
               THEN [unit[u] EXCEPT !.status = "IN_STOCK"] ELSE unit[u]]
  /\ shipment' = [shipment EXCEPT ![s].status = "DELETED", ![s].units = {}]
  /\ UNCHANGED <<batch, stage, picked, claim>>

\* remove: the units that are still SHIPPED return to stock; they keep the
\* order they were shipped for.
RemoveShipment(s) ==
  /\ shipment[s].status = "SHIPPED"
  /\ unit' = [u \in Unit |->
               IF u \in shipment[s].units /\ unit[u].status = "SHIPPED"
               THEN [unit[u] EXCEPT !.status = "IN_STOCK"] ELSE unit[u]]
  /\ shipment' = [shipment EXCEPT ![s].status = "DELETED", ![s].units = {}]
  /\ UNCHANGED <<batch, stage, picked, claim>>

-----------------------------------------------------------------------------
(* What customer orders do to claims and units. *)

\* reserve, called when an order becomes IN_PRODUCTION: added to what it has
\* claimed, without looking at the stock.
Claim(o, j, n) ==
  /\ claim[o][j] + n <= MaxClaim
  /\ claim' = [claim EXCEPT ![o][j] = @ + n]
  /\ UNCHANGED <<batch, stage, picked, unit, shipment>>

\* releaseAllForOrder, called when an order is cancelled or one of its lines edited.
ReleaseClaims(o) ==
  /\ claim' = [claim EXCEPT ![o] = [j \in Item |-> 0]]
  /\ UNCHANGED <<batch, stage, picked, unit, shipment>>

\* An order is deleted: its claims go, its batches and units lose it.  The
\* number of the order stands for another one from then on.
RemoveOrder(o) ==
  /\ claim' = [claim EXCEPT ![o] = [j \in Item |-> 0]]
  /\ batch' = [b \in Batch |-> IF batch[b].order = o THEN [batch[b] EXCEPT !.order = NoOrder]
                               ELSE batch[b]]
  /\ unit' = [u \in Unit |-> IF unit[u].order = o THEN [unit[u] EXCEPT !.order = NoOrder]
                             ELSE unit[u]]
  /\ UNCHANGED <<stage, picked, shipment>>

-----------------------------------------------------------------------------
GoodsInit ==
  /\ batch = [b \in Batch |-> [status |-> "NONE", item |-> 0, order |-> NoOrder, units |-> 0]]
  /\ stage = [b \in Batch |-> 0]
  /\ picked = [b \in Batch |-> {}]
  /\ unit = [u \in Unit |-> NoUnit]
  /\ claim = [o \in Order |-> [j \in Item |-> 0]]
  /\ shipment = [s \in Shipment |-> [status |-> "NONE", units |-> {}]]

BatchStep ==
  \E b \in Batch :
    \/ \E i \in Item, o \in Order \union {NoOrder}, n \in Units : CreateBatch(b, i, o, n)
    \/ CancelBatch(b) \/ RemoveBatch(b)
    \/ Start(b) \/ RevertStart(b) \/ AdvanceStage(b)

UnitStep ==
  \/ \E i \in Item, n \in Units : ReceivePurchased(i, n)
  \/ \E u \in Unit : RemoveUnit(u) \/ \E accepted \in BOOLEAN : RecordCheck(u, accepted)

ShipmentStep ==
  \E s \in Shipment :
    \/ \E us \in (SUBSET Unit) \ {{}}, o \in Order \union {NoOrder} : CreateShipment(s, us, o)
    \/ MarkDelivered(s) \/ RemoveShipment(s)

OrderStep ==
  \E o \in Order :
    \/ \E j \in Item, n \in Units : Claim(o, j, n)
    \/ ReleaseClaims(o) \/ RemoveOrder(o)

GoodsNext == BatchStep \/ UnitStep \/ ShipmentStep \/ OrderStep

GoodsSpec == GoodsInit /\ [][GoodsNext]_goodsVars

-----------------------------------------------------------------------------
\* Only a batch that was started has output (production-orders.service.ts,
\* remove: a PLANNED or CANCELLED batch cannot have any), also after reverts
\* and restarts, so deleting such a batch orphans no unit.
OutputOnlyOfStartedBatches ==
  \A u \in Rows : unit[u].batch # NoBatch =>
    batch[unit[u].batch].status \in {"IN_PROGRESS", "COMPLETED"}

\* A consumed unit can be traced to the pick list it was consumed on, which is
\* what returns it when that batch is reverted.
ConsumedUnitsAreOnAPickList ==
  \A u \in Rows : unit[u].status = "CONSUMED" => \E b \in Batch : u \in picked[b]

\* What was shipped still has its row (finished-goods.service.ts, remove, and
\* the guard of revertStart): no undo deletes a unit a shipment lists.
ShippedUnitsExist ==
  \A s \in Shipment : shipment[s].units \subseteq Rows

\* The backstop of sub-assembly-reservation.service.ts: a start leaves the
\* other orders as many units in stock as they have claimed.
StartsLeaveOthersTheirClaims ==
  [][\A b \in Batch, j \in Item :
       batch[b].status = "PLANNED" /\ batch'[b].status \in {"IN_PROGRESS", "COMPLETED"}
         /\ PartNeed(b, j) > 0
         => Cardinality(InStock(j)') >= ClaimedByOthers(batch[b].order, j)]_goodsVars

\* A delivered shipment is final: no later step returns its units to stock,
\* except an inspection that says so.
DeliveredUnitsStayOut ==
  [][\A s \in Shipment : \A u \in shipment[s].units :
       shipment[s].status = "DELIVERED" /\ unit[u].status = "SHIPPED" =>
         \/ unit'[u].status = "SHIPPED"
         \/ unit'[u].checked]_goodsVars

-----------------------------------------------------------------------------
(* What the comments of the code promise and the code does not keep. *)

\* finished-goods.service.ts:133 "Generates count sequential serials": the next
\* unit that is made or received can be given its number.
NextSerialIsFree == SerialsAreFree(1)

\* shipments.service.ts:45 "marks each consumed unit's status SHIPPED", and
\* qc.service.ts:10 "flips that unit's status between IN_STOCK (accepted) and
\* REWORK": what is on a shipment is not in stock, where it can be shipped again.
ShippedUnitsAreNotInStock ==
  \A s \in Shipment : \A u \in shipment[s].units : unit[u].status # "IN_STOCK"
=============================================================================
