------------------------ MODULE FinishedGoodsProofs ------------------------
(***************************************************************************)
(* Theorems about FinishedGoods: where the output of batches, the units    *)
(* they consumed and the units shipments list can be, for every number of  *)
(* batches, units, orders and shipments.                                   *)
(***************************************************************************)
EXTENDS FinishedGoods, SumTheorems, FiniteSetTheorems, TLAPS

Started == {"IN_PROGRESS", "COMPLETED"}

BatchesNameAnItem == \A b \in Batch : batch[b].status # "NONE" => batch[b].item \in Item

\* Rows are numbered without gaps.
UnitsInOrder ==
  \E k \in 0..NumUnits : \A u \in Unit : unit[u].status # "NONE" <=> u <= k

PickListsOfStartedBatches == \A b \in Batch : picked[b] # {} => batch[b].status \in Started

PickedUnitsExist == \A b \in Batch : picked[b] \subseteq Rows

\* A unit no inspection has moved is where the one list that names it says.
UncheckedUnitsAreWhereListed ==
  \A u \in Unit : ~ unit[u].checked =>
    /\ \A b \in Batch : u \in picked[b] => unit[u].status = "CONSUMED"
    /\ \A s \in Shipment : u \in shipment[s].units => unit[u].status = "SHIPPED"
    /\ \A b, c \in Batch : u \in picked[b] /\ u \in picked[c] => b = c
    /\ \A s, t \in Shipment : u \in shipment[s].units /\ u \in shipment[t].units => s = t

ListsOK ==
  /\ OutputOnlyOfStartedBatches
  /\ PickListsOfStartedBatches
  /\ PickedUnitsExist
  /\ ConsumedUnitsAreOnAPickList
  /\ ShippedUnitsExist
  /\ UncheckedUnitsAreWhereListed

GoodsInv == GoodsTypeOK /\ BatchesNameAnItem /\ UnitsInOrder /\ ListsOK

LEMMA GoodsConstants ==
  /\ NumItems \in Nat /\ NumOrders \in Nat /\ NumUnits \in Nat /\ MaxClaim \in Nat
  /\ NumStages \in Nat
  /\ Units \subseteq Nat
  /\ Item = 1..NumItems /\ Order = 1..NumOrders /\ Unit = 1..NumUnits
  /\ NoOrder \notin Order /\ NoBatch \notin Batch
BY FinishedGoodsAssumption DEF Item, Order, Unit, Batch, NoOrder, NoBatch

\* Changing the status of a row leaves its other fields.
LEMMA UnitMoved ==
  ASSUME NEW row \in UnitRow, NEW x \in UnitStatus
  PROVE  LET moved == [row EXCEPT !.status = x]
         IN  /\ moved \in UnitRow /\ moved.status = x
             /\ moved.batch = row.batch /\ moved.checked = row.checked
BY DEF UnitRow

LEMMA BatchMoved ==
  ASSUME NEW row \in BatchRow, NEW x \in BatchStatus
  PROVE  LET moved == [row EXCEPT !.status = x]
         IN  moved \in BatchRow /\ moved.status = x /\ moved.item = row.item
BY DEF BatchRow

LEMMA OrderForgotten ==
  /\ \A row \in UnitRow : LET moved == [row EXCEPT !.order = NoOrder]
       IN  /\ moved \in UnitRow /\ moved.status = row.status
           /\ moved.batch = row.batch /\ moved.checked = row.checked
  /\ \A row \in BatchRow : LET moved == [row EXCEPT !.order = NoOrder]
       IN  moved \in BatchRow /\ moved.status = row.status /\ moved.item = row.item
<1>1. ASSUME NEW row \in UnitRow
      PROVE  LET moved == [row EXCEPT !.order = NoOrder]
             IN  /\ moved \in UnitRow /\ moved.status = row.status
                 /\ moved.batch = row.batch /\ moved.checked = row.checked
  BY DEF UnitRow
<1>2. ASSUME NEW row \in BatchRow
      PROVE  LET moved == [row EXCEPT !.order = NoOrder]
             IN  moved \in BatchRow /\ moved.status = row.status /\ moved.item = row.item
  BY DEF BatchRow
<1> QED
  BY <1>1, <1>2

-----------------------------------------------------------------------------
(* Counting units. *)

LEMMA UnitSets ==
  ASSUME NEW S \in SUBSET Unit
  PROVE  IsFiniteSet(S) /\ Cardinality(S) \in Nat
<1>1. IsFiniteSet(Unit)
  BY GoodsConstants, FS_Interval
<1> QED
  BY <1>1, FS_Subset, FS_CardinalityType

LEMMA UsedUnits ==
  ASSUME GoodsInv
  PROVE  /\ Used \in 0..NumUnits
         /\ \A u \in Unit : unit[u].status # "NONE" <=> u <= Used
<1>1. PICK k \in 0..NumUnits : \A u \in Unit : unit[u].status # "NONE" <=> u <= k
  BY DEF GoodsInv, UnitsInOrder
<1>2. {u \in Unit : unit[u].status # "NONE"} = 1..k
  BY <1>1, GoodsConstants
<1>3. Cardinality(1..k) = k
  BY <1>1, FS_Interval, GoodsConstants
<1> QED
  BY <1>1, <1>2, <1>3 DEF Used

\* Units that are made or received are new rows, well typed, without gaps.
LEMMA NewUnitsOK ==
  ASSUME GoodsInv, NEW n \in Nat, NewUnits(n) \subseteq Unit
  PROVE  /\ Used + n \in 0..NumUnits
         /\ \A u \in Unit : u \in NewUnits(n) <=> unit[u].status = "NONE" /\ u <= Used + n
         /\ \A u \in Unit : u <= Used + n <=> unit[u].status # "NONE" \/ u \in NewUnits(n)
         /\ \A u \in NewUnits(n), i \in Item \union {0}, b \in Batch \union {NoBatch} :
              NewUnit(u, i, b) \in UnitRow
<1>1. /\ Used \in 0..NumUnits
      /\ \A u \in Unit : unit[u].status # "NONE" <=> u <= Used
  BY UsedUnits
<1>2. NumUnits \in Nat /\ Unit = 1..NumUnits
  BY GoodsConstants
<1>3. Used + n \in 0..NumUnits
  <2>1. CASE n = 0
    BY <1>1, <1>2, <2>1
  <2>2. CASE n > 0
    <3>1. Used + n \in NewUnits(n)
      BY <1>1, <1>2, <2>2 DEF NewUnits
    <3> QED
      BY <1>1, <1>2, <3>1
  <2> QED
    BY <2>1, <2>2
<1>4. ASSUME NEW u \in NewUnits(n), NEW i \in Item \union {0}, NEW b \in Batch \union {NoBatch}
      PROVE  NewUnit(u, i, b) \in UnitRow
  <2>1. LastSerial \in Nat
    BY UnitSets DEF LastSerial, Rows
  <2>2. u - Used \in Nat
    BY <1>1, <1>2 DEF NewUnits
  <2>3. LastSerial + (u - Used) \in Nat
    BY <2>1, <2>2
  <2> QED
    BY <2>3 DEF NewUnit, UnitRow, UnitStatus
<1> QED
  BY <1>1, <1>2, <1>3, <1>4 DEF NewUnits

LEMMA PartNeedNat ==
  ASSUME GoodsInv, NEW b \in Batch, batch[b].status # "NONE", NEW j \in Item
  PROVE  PartNeed(b, j) \in Nat
<1>1. batch[b].item \in Item /\ batch[b].units \in Nat
  BY DEF GoodsInv, GoodsTypeOK, BatchRow, BatchesNameAnItem
<1>2. Parts[batch[b].item][j] \in Nat
  BY <1>1, FinishedGoodsAssumption DEF Item
<1> QED
  BY <1>1, <1>2 DEF PartNeed

-----------------------------------------------------------------------------
(* Every request keeps the invariant. *)

LEMMA GoodsInitOK == GoodsInit => GoodsInv
<1> SUFFICES ASSUME GoodsInit PROVE GoodsInv
  OBVIOUS
<1>1. NoUnit \in UnitRow
  BY DEF NoUnit, UnitRow, UnitStatus
<1>2. GoodsTypeOK
  BY <1>1 DEF GoodsInit, GoodsTypeOK, BatchRow, BatchStatus, ShipmentRow, ShipmentStatus
<1>3. BatchesNameAnItem
  BY DEF GoodsInit, BatchesNameAnItem
<1>4. UnitsInOrder
  <2>1. \A u \in Unit : unit[u].status # "NONE" <=> u <= 0
    BY GoodsConstants DEF GoodsInit, NoUnit
  <2> QED
    BY <2>1, GoodsConstants DEF UnitsInOrder
<1>5. ListsOK
  BY DEF GoodsInit, NoUnit, Rows, ListsOK, OutputOnlyOfStartedBatches, PickListsOfStartedBatches,
     PickedUnitsExist, ConsumedUnitsAreOnAPickList, ShippedUnitsExist,
     UncheckedUnitsAreWhereListed
<1> QED
  BY <1>2, <1>3, <1>4, <1>5 DEF GoodsInv

\* What looks at neither units nor lists only has to keep started batches started.
LEMMA ListsUndisturbed ==
  ASSUME GoodsInv, UNCHANGED <<picked, unit>>,
         \A s \in Shipment : shipment'[s].units = shipment[s].units,
         \A b \in Batch : batch[b].status \in Started => batch'[b].status \in Started
  PROVE  UnitsInOrder' /\ ListsOK'
<1>1. UnitsInOrder' /\ UncheckedUnitsAreWhereListed'
  BY DEF GoodsInv, UnitsInOrder, ListsOK, UncheckedUnitsAreWhereListed
<1>2. Rows' = Rows
  BY DEF Rows
<1>3. \A u \in Unit : unit[u].batch \in Batch \union {NoBatch}
  BY DEF GoodsInv, GoodsTypeOK, UnitRow
<1>4. OutputOnlyOfStartedBatches'
  BY <1>2, <1>3 DEF GoodsInv, ListsOK, OutputOnlyOfStartedBatches, Rows, Started
<1>5. PickListsOfStartedBatches' /\ PickedUnitsExist' /\ ConsumedUnitsAreOnAPickList'
      /\ ShippedUnitsExist'
  BY <1>2 DEF GoodsInv, ListsOK, PickListsOfStartedBatches, PickedUnitsExist,
     ConsumedUnitsAreOnAPickList, ShippedUnitsExist
<1> QED
  BY <1>1, <1>4, <1>5 DEF ListsOK

\* Nor does a change of a batch that keeps what it makes unname its item.
LEMMA ItemsUndisturbed ==
  ASSUME GoodsInv,
         \A b \in Batch : /\ batch'[b].item = batch[b].item
                          /\ batch'[b].status # "NONE" => batch[b].status # "NONE"
  PROVE  BatchesNameAnItem'
BY DEF GoodsInv, BatchesNameAnItem

LEMMA CreateBatchOK ==
  ASSUME GoodsInv, NEW b \in Batch, NEW i \in Item, NEW o \in Order \union {NoOrder},
         NEW n \in Units, CreateBatch(b, i, o, n)
  PROVE  GoodsInv'
<1>1. GoodsTypeOK'
  BY GoodsConstants DEF GoodsInv, GoodsTypeOK, CreateBatch, BatchRow, BatchStatus
<1>2. BatchesNameAnItem'
  BY DEF GoodsInv, GoodsTypeOK, BatchesNameAnItem, CreateBatch
<1>3. UnitsInOrder' /\ ListsOK'
  BY ListsUndisturbed DEF GoodsInv, GoodsTypeOK, CreateBatch, Started
<1> QED
  BY <1>1, <1>2, <1>3 DEF GoodsInv

LEMMA CancelOrRemoveBatchOK ==
  ASSUME GoodsInv, NEW b \in Batch, CancelBatch(b) \/ RemoveBatch(b)
  PROVE  GoodsInv'
<1>1. GoodsTypeOK'
  <2>1. batch' \in [Batch -> BatchRow]
    <3>1. batch \in [Batch -> BatchRow]
      BY DEF GoodsInv, GoodsTypeOK
    <3>2. \A x \in {"CANCELLED", "DELETED"} : [batch[b] EXCEPT !.status = x] \in BatchRow
      BY <3>1, BatchMoved DEF BatchStatus
    <3>3. \E x \in {"CANCELLED", "DELETED"} : batch' = [batch EXCEPT ![b].status = x]
      BY DEF CancelBatch, RemoveBatch
    <3> QED
      BY <3>1, <3>2, <3>3
  <2> QED
    BY <2>1 DEF GoodsInv, GoodsTypeOK, CancelBatch, RemoveBatch
<1>2. BatchesNameAnItem'
  BY ItemsUndisturbed DEF GoodsInv, GoodsTypeOK, CancelBatch, RemoveBatch, BatchRow
<1>3. UnitsInOrder' /\ ListsOK'
  BY ListsUndisturbed DEF GoodsInv, GoodsTypeOK, CancelBatch, RemoveBatch, BatchRow, Started
<1> QED
  BY <1>1, <1>2, <1>3 DEF GoodsInv

LEMMA AdvanceStageOK ==
  ASSUME GoodsInv, NEW b \in Batch, AdvanceStage(b)
  PROVE  GoodsInv'
<1>1. GoodsTypeOK'
  <2>1. batch' \in [Batch -> BatchRow]
    <3>1. batch' = batch \/ batch' = [batch EXCEPT ![b].status = "COMPLETED"]
      BY DEF AdvanceStage
    <3>2. batch \in [Batch -> BatchRow]
      BY DEF GoodsInv, GoodsTypeOK
    <3> QED
      BY <3>1, <3>2 DEF BatchRow, BatchStatus
  <2>2. stage' \in [Batch -> Nat]
    BY DEF GoodsInv, GoodsTypeOK, AdvanceStage
  <2> QED
    BY <2>1, <2>2 DEF GoodsInv, GoodsTypeOK, AdvanceStage
<1>2. BatchesNameAnItem'
  BY ItemsUndisturbed DEF GoodsInv, GoodsTypeOK, AdvanceStage, BatchRow
<1>3. UnitsInOrder' /\ ListsOK'
  BY ListsUndisturbed DEF GoodsInv, GoodsTypeOK, AdvanceStage, BatchRow, Started
<1> QED
  BY <1>1, <1>2, <1>3 DEF GoodsInv

LEMMA ClaimsOK ==
  ASSUME GoodsInv, NEW o \in Order,
         ReleaseClaims(o) \/ \E j \in Item, n \in Units : Claim(o, j, n)
  PROVE  GoodsInv'
<1>1. GoodsTypeOK'
  <2>1. CASE ReleaseClaims(o)
    BY <2>1 DEF GoodsInv, GoodsTypeOK, ReleaseClaims
  <2>2. CASE \E j \in Item, n \in Units : Claim(o, j, n)
    <3>1. PICK j \in Item, n \in Units : Claim(o, j, n)
      BY <2>2
    <3>2. claim \in [Order -> [Item -> Nat]] /\ n \in Nat
      BY GoodsConstants DEF GoodsInv, GoodsTypeOK
    <3> DEFINE row == [claim[o] EXCEPT ![j] = @ + n]
    <3>3. claim' = [claim EXCEPT ![o] = row]
      BY <3>1 DEF Claim
    <3>4. row \in [Item -> Nat]
      BY <3>2
    <3> HIDE DEF row
    <3>5. claim' \in [Order -> [Item -> Nat]]
      BY <3>2, <3>3, <3>4
    <3> QED
      BY <3>1, <3>5 DEF GoodsInv, GoodsTypeOK, Claim
  <2> QED
    BY <2>1, <2>2
<1>2. BatchesNameAnItem'
  BY DEF GoodsInv, BatchesNameAnItem, ReleaseClaims, Claim
<1>3. UnitsInOrder' /\ ListsOK'
  BY ListsUndisturbed DEF ReleaseClaims, Claim
<1> QED
  BY <1>1, <1>2, <1>3 DEF GoodsInv

LEMMA MarkDeliveredOK ==
  ASSUME GoodsInv, NEW s \in Shipment, MarkDelivered(s)
  PROVE  GoodsInv'
<1>1. GoodsTypeOK'
  BY DEF GoodsInv, GoodsTypeOK, MarkDelivered, ShipmentRow, ShipmentStatus
<1>2. BatchesNameAnItem'
  BY DEF GoodsInv, BatchesNameAnItem, MarkDelivered
<1>3. \A t \in Shipment : shipment'[t].units = shipment[t].units
  BY DEF GoodsInv, GoodsTypeOK, MarkDelivered, ShipmentRow
<1>4. UnitsInOrder' /\ ListsOK'
  BY <1>3, ListsUndisturbed DEF MarkDelivered
<1> QED
  BY <1>1, <1>2, <1>4 DEF GoodsInv

LEMMA RemoveOrderOK ==
  ASSUME GoodsInv, NEW o \in Order, RemoveOrder(o)
  PROVE  GoodsInv'
<1>1. \A u \in Unit : /\ unit'[u] \in UnitRow
                      /\ unit'[u].status = unit[u].status /\ unit'[u].batch = unit[u].batch
                      /\ unit'[u].checked = unit[u].checked
  <2>1. unit \in [Unit -> UnitRow]
    BY DEF GoodsInv, GoodsTypeOK
  <2>2. ASSUME NEW u \in Unit
        PROVE  /\ unit'[u] \in UnitRow
               /\ unit'[u].status = unit[u].status /\ unit'[u].batch = unit[u].batch
               /\ unit'[u].checked = unit[u].checked
    <3>1. unit[u] \in UnitRow
      BY <2>1
    <3>2. unit'[u] = unit[u] \/ unit'[u] = [unit[u] EXCEPT !.order = NoOrder]
      BY DEF RemoveOrder
    <3> QED
      BY <3>1, <3>2, OrderForgotten
  <2> QED
    BY <2>2
<1>2. \A b \in Batch : /\ batch'[b] \in BatchRow /\ batch'[b].status = batch[b].status
                       /\ batch'[b].item = batch[b].item
  <2>1. batch \in [Batch -> BatchRow]
    BY DEF GoodsInv, GoodsTypeOK
  <2>2. ASSUME NEW b \in Batch
        PROVE  /\ batch'[b] \in BatchRow /\ batch'[b].status = batch[b].status
               /\ batch'[b].item = batch[b].item
    <3>1. batch[b] \in BatchRow
      BY <2>1
    <3>2. batch'[b] = batch[b] \/ batch'[b] = [batch[b] EXCEPT !.order = NoOrder]
      BY DEF RemoveOrder
    <3> QED
      BY <3>1, <3>2, OrderForgotten
  <2> QED
    BY <2>2
<1>3. GoodsTypeOK'
  BY <1>1, <1>2 DEF GoodsInv, GoodsTypeOK, RemoveOrder
<1>4. BatchesNameAnItem'
  BY <1>2, ItemsUndisturbed
<1>5. UNCHANGED <<picked, shipment>>
  BY DEF RemoveOrder
<1>6. \A u \in Unit : unit[u].batch \in Batch \union {NoBatch}
  BY DEF GoodsInv, GoodsTypeOK, UnitRow
<1>7. UnitsInOrder'
  BY <1>1 DEF GoodsInv, UnitsInOrder
<1>8. ListsOK'
  BY <1>1, <1>2, <1>5, <1>6 DEF GoodsInv, ListsOK, Rows, Started, OutputOnlyOfStartedBatches,
     PickListsOfStartedBatches, PickedUnitsExist, ConsumedUnitsAreOnAPickList,
     ShippedUnitsExist, UncheckedUnitsAreWhereListed
<1> QED
  BY <1>3, <1>4, <1>7, <1>8 DEF GoodsInv

LEMMA ReceivePurchasedOK ==
  ASSUME GoodsInv, NEW i \in Item, NEW n \in Units, ReceivePurchased(i, n)
  PROVE  GoodsInv'
<1>1. n \in Nat /\ NewUnits(n) \subseteq Unit
  BY GoodsConstants DEF ReceivePurchased
<1>2. \A u \in NewUnits(n) : /\ NewUnit(u, i, NoBatch) \in UnitRow
                            /\ unit[u].status = "NONE"
                            /\ unit'[u].status = "IN_STOCK" /\ unit'[u].batch = NoBatch
  BY <1>1, NewUnitsOK DEF ReceivePurchased, NewUnit
<1>3. \A u \in Unit : u \notin NewUnits(n) => unit'[u] = unit[u]
  BY DEF ReceivePurchased
<1>4. UNCHANGED <<batch, stage, picked, claim, shipment>>
  BY DEF ReceivePurchased
<1>5. GoodsTypeOK'
  BY <1>2, <1>4 DEF GoodsInv, GoodsTypeOK, ReceivePurchased
<1>6. BatchesNameAnItem'
  BY <1>4, ItemsUndisturbed
<1>7. UnitsInOrder'
  BY <1>1, <1>2, <1>3, NewUnitsOK DEF UnitsInOrder
<1>8. Rows \subseteq Rows' /\ \A u \in Rows : unit'[u] = unit[u]
  BY <1>2, <1>3 DEF Rows
<1>9. ListsOK'
  <2>1. OutputOnlyOfStartedBatches'
    BY <1>2, <1>3, <1>4 DEF GoodsInv, ListsOK, OutputOnlyOfStartedBatches, Rows
  <2>2. PickListsOfStartedBatches' /\ PickedUnitsExist' /\ ShippedUnitsExist'
    BY <1>4, <1>8 DEF GoodsInv, ListsOK, PickListsOfStartedBatches, PickedUnitsExist,
       ShippedUnitsExist
  <2>3. ConsumedUnitsAreOnAPickList'
    BY <1>2, <1>3, <1>4 DEF GoodsInv, ListsOK, ConsumedUnitsAreOnAPickList, Rows
  <2>4. UncheckedUnitsAreWhereListed'
    BY <1>2, <1>3, <1>4 DEF GoodsInv, ListsOK, UncheckedUnitsAreWhereListed, PickedUnitsExist,
       ShippedUnitsExist, Rows
  <2> QED
    BY <2>1, <2>2, <2>3, <2>4 DEF ListsOK
<1> QED
  BY <1>5, <1>6, <1>7, <1>9 DEF GoodsInv

LEMMA RemoveUnitOK ==
  ASSUME GoodsInv, NEW u \in Unit, RemoveUnit(u)
  PROVE  GoodsInv'
<1>1. u \in Rows /\ unit[u].status = "IN_STOCK" /\ ~ unit[u].checked
  BY DEF RemoveUnit
<1>2. Deleted(unit[u]) \in UnitRow
  BY DEF Deleted, NoUnit, UnitRow, UnitStatus
<1>3. unit'[u] = Deleted(unit[u]) /\ unit' \in [Unit -> UnitRow]
      /\ \A v \in Unit : v # u => unit'[v] = unit[v]
  BY <1>2 DEF RemoveUnit, GoodsInv, GoodsTypeOK
<1>4. unit'[u].status = "DELETED"
  BY <1>3 DEF Deleted, NoUnit
<1>5. UNCHANGED <<batch, stage, picked, claim, shipment>>
  BY DEF RemoveUnit
<1>6. Rows' = Rows \ {u}
  BY <1>3, <1>4 DEF Rows
<1>7. \A b \in Batch : u \notin picked[b]
  BY <1>1 DEF GoodsInv, ListsOK, UncheckedUnitsAreWhereListed
<1>8. \A s \in Shipment : u \notin shipment[s].units
  BY <1>1 DEF GoodsInv, ListsOK, UncheckedUnitsAreWhereListed
<1>9. GoodsTypeOK' /\ BatchesNameAnItem'
  BY <1>3, <1>5, ItemsUndisturbed DEF GoodsInv, GoodsTypeOK
<1>10. UnitsInOrder'
  BY <1>1, <1>3, <1>4 DEF GoodsInv, UnitsInOrder
<1>11. ListsOK'
  <2>1. OutputOnlyOfStartedBatches'
    BY <1>3, <1>4, <1>5, <1>6 DEF GoodsInv, ListsOK, OutputOnlyOfStartedBatches, Rows
  <2>2. PickListsOfStartedBatches' /\ PickedUnitsExist' /\ ShippedUnitsExist'
    BY <1>5, <1>6, <1>7, <1>8 DEF GoodsInv, ListsOK, PickListsOfStartedBatches, PickedUnitsExist,
       ShippedUnitsExist
  <2>3. ConsumedUnitsAreOnAPickList'
    BY <1>3, <1>4, <1>5, <1>6 DEF GoodsInv, ListsOK, ConsumedUnitsAreOnAPickList, Rows
  <2>4. UncheckedUnitsAreWhereListed'
    BY <1>3, <1>4, <1>5, <1>7, <1>8 DEF GoodsInv, ListsOK, UncheckedUnitsAreWhereListed
  <2> QED
    BY <2>1, <2>2, <2>3, <2>4 DEF ListsOK
<1> QED
  BY <1>9, <1>10, <1>11 DEF GoodsInv

\* An inspected unit may be anywhere; it is only not consumed unlisted, and has a row.
LEMMA RecordCheckOK ==
  ASSUME GoodsInv, NEW u \in Unit, NEW accepted \in BOOLEAN, RecordCheck(u, accepted)
  PROVE  GoodsInv'
<1>1. unit \in [Unit -> UnitRow]
  BY DEF GoodsInv, GoodsTypeOK
<1>2. /\ unit'[u].checked /\ unit'[u].status \in {"IN_STOCK", "REWORK"}
      /\ unit'[u].batch = unit[u].batch
      /\ unit' \in [Unit -> UnitRow]
      /\ \A v \in Unit : v # u => unit'[v] = unit[v]
  <2> DEFINE new == [unit[u] EXCEPT !.checked = TRUE,
                                   !.status = IF accepted THEN "IN_STOCK" ELSE "REWORK"]
  <2>1. /\ new \in UnitRow /\ new.checked /\ new.status \in {"IN_STOCK", "REWORK"}
        /\ new.batch = unit[u].batch
    <3>1. unit[u] \in UnitRow
      BY <1>1
    <3> QED
      BY <3>1 DEF UnitRow, UnitStatus
  <2>2. unit' = [unit EXCEPT ![u] = new]
    BY <1>1 DEF RecordCheck
  <2> HIDE DEF new
  <2> QED
    BY <1>1, <2>1, <2>2
<1>3. u \in Rows /\ UNCHANGED <<batch, stage, picked, claim, shipment>>
  BY DEF RecordCheck
<1>4. Rows' = Rows
  BY <1>2, <1>3 DEF Rows
<1>5. GoodsTypeOK' /\ BatchesNameAnItem'
  BY <1>2, <1>3, ItemsUndisturbed DEF GoodsInv, GoodsTypeOK
<1>6. UnitsInOrder'
  BY <1>2, <1>3 DEF GoodsInv, UnitsInOrder, Rows
<1>7. ListsOK'
  <2>1. OutputOnlyOfStartedBatches'
    BY <1>2, <1>3, <1>4 DEF GoodsInv, ListsOK, OutputOnlyOfStartedBatches, Rows
  <2>2. PickListsOfStartedBatches' /\ PickedUnitsExist' /\ ShippedUnitsExist'
    BY <1>3, <1>4 DEF GoodsInv, ListsOK, PickListsOfStartedBatches, PickedUnitsExist,
       ShippedUnitsExist
  <2>3. ConsumedUnitsAreOnAPickList'
    BY <1>2, <1>3, <1>4 DEF GoodsInv, ListsOK, ConsumedUnitsAreOnAPickList, Rows
  <2>4. UncheckedUnitsAreWhereListed'
    BY <1>2, <1>3 DEF GoodsInv, ListsOK, UncheckedUnitsAreWhereListed
  <2> QED
    BY <2>1, <2>2, <2>3, <2>4 DEF ListsOK
<1> QED
  BY <1>5, <1>6, <1>7 DEF GoodsInv

LEMMA CreateShipmentOK ==
  ASSUME GoodsInv, NEW s \in Shipment, NEW us \in SUBSET Unit, NEW o \in Order \union {NoOrder},
         CreateShipment(s, us, o)
  PROVE  GoodsInv'
<1>1. unit \in [Unit -> UnitRow] /\ shipment \in [Shipment -> ShipmentRow]
  BY DEF GoodsInv, GoodsTypeOK
<1>2. \A u \in us : u \in Rows /\ unit[u].status = "IN_STOCK"
  BY DEF CreateShipment
<1>3. unit' \in [Unit -> UnitRow]
  <2>1. ASSUME NEW u \in Unit
        PROVE  [unit[u] EXCEPT !.status = "SHIPPED",
                               !.order = IF o = NoOrder THEN @ ELSE o] \in UnitRow
    <3>1. unit[u] \in UnitRow
      BY <1>1
    <3>2. (IF o = NoOrder THEN unit[u].order ELSE o) \in Order \union {NoOrder}
      BY <3>1 DEF UnitRow
    <3> QED
      BY <3>1, <3>2 DEF UnitRow, UnitStatus
  <2> QED
    BY <1>1, <2>1 DEF CreateShipment
<1>4. \A u \in Unit : /\ unit'[u].checked = unit[u].checked
                      /\ unit'[u].batch = unit[u].batch
                      /\ unit'[u].status = IF u \in us THEN "SHIPPED" ELSE unit[u].status
  BY <1>1 DEF CreateShipment, UnitRow
<1>5. /\ shipment' \in [Shipment -> ShipmentRow]
      /\ \A t \in Shipment : shipment'[t].units = IF t = s THEN us ELSE shipment[t].units
  BY <1>1 DEF CreateShipment, ShipmentRow, ShipmentStatus
<1>6. UNCHANGED <<batch, stage, picked, claim>>
  BY DEF CreateShipment
<1>7. Rows' = Rows
  BY <1>2, <1>4 DEF Rows
<1>8. GoodsTypeOK' /\ BatchesNameAnItem'
  BY <1>3, <1>5, <1>6, ItemsUndisturbed DEF GoodsInv, GoodsTypeOK
<1>9. UnitsInOrder'
  BY <1>2, <1>4 DEF GoodsInv, UnitsInOrder, Rows
<1>10. ListsOK'
  <2>1. OutputOnlyOfStartedBatches'
    BY <1>4, <1>6, <1>7 DEF GoodsInv, ListsOK, OutputOnlyOfStartedBatches, Rows
  <2>2. PickListsOfStartedBatches' /\ PickedUnitsExist' /\ ShippedUnitsExist'
    BY <1>2, <1>5, <1>6, <1>7 DEF GoodsInv, ListsOK, PickListsOfStartedBatches,
       PickedUnitsExist, ShippedUnitsExist
  <2>3. ConsumedUnitsAreOnAPickList'
    BY <1>4, <1>6, <1>7 DEF GoodsInv, ListsOK, ConsumedUnitsAreOnAPickList, Rows
  <2>4. UncheckedUnitsAreWhereListed'
    <3>1. \A u \in us : ~ unit[u].checked =>
            /\ \A b \in Batch : u \notin picked[b]
            /\ \A t \in Shipment : u \notin shipment[t].units
      BY <1>2 DEF GoodsInv, ListsOK, UncheckedUnitsAreWhereListed
    <3> QED
      BY <3>1, <1>4, <1>5, <1>6 DEF GoodsInv, ListsOK, UncheckedUnitsAreWhereListed
  <2> QED
    BY <2>1, <2>2, <2>3, <2>4 DEF ListsOK
<1> QED
  BY <1>8, <1>9, <1>10 DEF GoodsInv

LEMMA RemoveShipmentOK ==
  ASSUME GoodsInv, NEW s \in Shipment, RemoveShipment(s)
  PROVE  GoodsInv'
<1> DEFINE back == {u \in Unit : u \in shipment[s].units /\ unit[u].status = "SHIPPED"}
<1>1. unit \in [Unit -> UnitRow] /\ shipment \in [Shipment -> ShipmentRow]
  BY DEF GoodsInv, GoodsTypeOK
<1>2. unit' \in [Unit -> UnitRow]
  BY <1>1 DEF RemoveShipment, UnitRow, UnitStatus
<1>3. \A u \in Unit : /\ unit'[u].checked = unit[u].checked
                      /\ unit'[u].batch = unit[u].batch
                      /\ unit'[u].status = IF u \in back THEN "IN_STOCK" ELSE unit[u].status
  BY <1>1 DEF RemoveShipment, UnitRow
<1>4. /\ shipment' \in [Shipment -> ShipmentRow]
      /\ \A t \in Shipment : shipment'[t].units = IF t = s THEN {} ELSE shipment[t].units
  BY <1>1 DEF RemoveShipment, ShipmentRow, ShipmentStatus
<1>5. UNCHANGED <<batch, stage, picked, claim>>
  BY DEF RemoveShipment
<1>6. Rows' = Rows
  BY <1>3 DEF Rows
<1>7. GoodsTypeOK' /\ BatchesNameAnItem'
  BY <1>2, <1>4, <1>5, ItemsUndisturbed DEF GoodsInv, GoodsTypeOK
<1>8. UnitsInOrder'
  BY <1>3 DEF GoodsInv, UnitsInOrder
<1>9. ListsOK'
  <2>1. OutputOnlyOfStartedBatches'
    BY <1>3, <1>5, <1>6 DEF GoodsInv, ListsOK, OutputOnlyOfStartedBatches, Rows
  <2>2. PickListsOfStartedBatches' /\ PickedUnitsExist' /\ ShippedUnitsExist'
    BY <1>4, <1>5, <1>6 DEF GoodsInv, ListsOK, PickListsOfStartedBatches, PickedUnitsExist,
       ShippedUnitsExist
  <2>3. ConsumedUnitsAreOnAPickList'
    BY <1>3, <1>5, <1>6 DEF GoodsInv, ListsOK, ConsumedUnitsAreOnAPickList, Rows
  <2>4. UncheckedUnitsAreWhereListed'
    <3>1. \A u \in back : ~ unit[u].checked =>
            /\ \A b \in Batch : u \notin picked[b]
            /\ \A t \in Shipment : t # s => u \notin shipment[t].units
      BY DEF GoodsInv, ListsOK, UncheckedUnitsAreWhereListed
    <3> HIDE DEF back
    <3> QED
      BY <3>1, <1>3, <1>4, <1>5 DEF GoodsInv, ListsOK, UncheckedUnitsAreWhereListed
  <2> QED
    BY <2>1, <2>2, <2>3, <2>4 DEF ListsOK
<1> QED
  BY <1>7, <1>8, <1>9 DEF GoodsInv

\* What an undo deletes is on no list, so nothing refers to a deleted unit; what
\* it returns was on the list of this batch alone, unless inspected since.
LEMMA RevertStartOK ==
  ASSUME GoodsInv, NEW b \in Batch, RevertStart(b)
  PROVE  GoodsInv'
<1> DEFINE out == OutputOf(b)
           back == (picked[b] \intersect Rows) \ out
<1>1. unit \in [Unit -> UnitRow] /\ batch \in [Batch -> BatchRow] /\ picked \in [Batch -> SUBSET Unit]
  BY DEF GoodsInv, GoodsTypeOK
<1>2. unit' = [u \in Unit |-> IF u \in out THEN Deleted(unit[u])
                             ELSE IF u \in back THEN [unit[u] EXCEPT !.status = "IN_STOCK"]
                             ELSE unit[u]]
  BY DEF RevertStart
<1>3. /\ out \subseteq Rows
      /\ \A u \in out : unit[u].status = "IN_STOCK" /\ ~ unit[u].checked
      /\ \A u \in Rows : unit[u].batch = b => u \in out
  BY DEF RevertStart, Untouched, OutputOf
<1>4. back \subseteq Rows /\ back \subseteq picked[b] /\ picked[b] \subseteq back \union out
  BY DEF GoodsInv, ListsOK, PickedUnitsExist
<1>5. Rows \subseteq Unit
  BY DEF Rows
<1>6. batch[b].status = "IN_PROGRESS"
  BY DEF RevertStart
<1>7. /\ batch' \in [Batch -> BatchRow]
      /\ \A c \in Batch : batch'[c].item = batch[c].item
                         /\ batch'[c].status = IF c = b THEN "PLANNED" ELSE batch[c].status
  BY <1>1 DEF RevertStart, BatchRow, BatchStatus
<1>8. /\ picked' \in [Batch -> SUBSET Unit]
      /\ \A c \in Batch : picked'[c] = IF c = b THEN {} ELSE picked[c]
  BY <1>1 DEF RevertStart
<1>9. UNCHANGED <<claim, shipment>> /\ stage' = [stage EXCEPT ![b] = 0]
  BY DEF RevertStart
<1> HIDE DEF out, back
<1>10. \A u \in Unit : Deleted(unit[u]) \in UnitRow /\ Deleted(unit[u]).status = "DELETED"
  BY DEF Deleted, NoUnit, UnitRow, UnitStatus
<1>11. \A u \in out : unit'[u].status = "DELETED"
  BY <1>2, <1>3, <1>5, <1>10
<1>12. \A u \in back : [unit[u] EXCEPT !.status = "IN_STOCK"] \in UnitRow
  BY <1>1, <1>4, <1>5 DEF UnitRow, UnitStatus
<1>13. unit' \in [Unit -> UnitRow]
  BY <1>1, <1>2, <1>10, <1>12
<1>14. \A u \in Unit \ out : /\ unit'[u].checked = unit[u].checked
                             /\ unit'[u].batch = unit[u].batch
                             /\ unit'[u].status = IF u \in back THEN "IN_STOCK" ELSE unit[u].status
  BY <1>1, <1>2 DEF UnitRow
<1>15. Rows' = Rows \ out
  BY <1>3, <1>4, <1>11, <1>14 DEF Rows
<1>16. GoodsTypeOK'
  BY <1>7, <1>8, <1>9, <1>13 DEF GoodsInv, GoodsTypeOK
<1>17. BatchesNameAnItem'
  BY <1>6, <1>7, ItemsUndisturbed
<1>18. UnitsInOrder'
  BY <1>3, <1>4, <1>11, <1>14 DEF GoodsInv, UnitsInOrder, Rows
<1>19. /\ \A c \in Batch : picked[c] \intersect out = {}
       /\ \A s \in Shipment : shipment[s].units \intersect out = {}
  BY <1>3, <1>5 DEF GoodsInv, ListsOK, UncheckedUnitsAreWhereListed
<1>20. ListsOK'
  <2>1. OutputOnlyOfStartedBatches'
    <3>1. \A u \in Rows' : /\ u \in Rows /\ unit[u].batch # b /\ unit'[u].batch = unit[u].batch
                           /\ unit[u].batch \in Batch \union {NoBatch}
      BY <1>1, <1>3, <1>5, <1>14, <1>15 DEF UnitRow
    <3> QED
      BY <3>1, <1>7 DEF GoodsInv, ListsOK, OutputOnlyOfStartedBatches
  <2>2. PickListsOfStartedBatches' /\ PickedUnitsExist' /\ ShippedUnitsExist'
    BY <1>7, <1>8, <1>9, <1>15, <1>19 DEF GoodsInv, ListsOK, PickListsOfStartedBatches,
       PickedUnitsExist, ShippedUnitsExist
  <2>3. ConsumedUnitsAreOnAPickList'
    BY <1>4, <1>5, <1>8, <1>14, <1>15, <1>19 DEF GoodsInv, ListsOK, ConsumedUnitsAreOnAPickList
  <2>4. UncheckedUnitsAreWhereListed'
    <3>1. \A u \in out : /\ \A c \in Batch : u \notin picked'[c]
                         /\ \A s \in Shipment : u \notin shipment'[s].units
      BY <1>8, <1>9, <1>19
    <3>2. \A u \in back : ~ unit[u].checked =>
            /\ \A c \in Batch : u \notin picked'[c]
            /\ \A s \in Shipment : u \notin shipment'[s].units
      BY <1>4, <1>5, <1>8, <1>9 DEF GoodsInv, ListsOK, UncheckedUnitsAreWhereListed
    <3> QED
      BY <3>1, <3>2, <1>8, <1>9, <1>14 DEF GoodsInv, ListsOK, UncheckedUnitsAreWhereListed
  <2> QED
    BY <2>1, <2>2, <2>3, <2>4 DEF ListsOK
<1> QED
  BY <1>16, <1>17, <1>18, <1>20 DEF GoodsInv

\* A unit a start consumes was in stock: on no list, unless it was inspected.
LEMMA StartOK ==
  ASSUME GoodsInv, NEW b \in Batch, Start(b)
  PROVE  GoodsInv'
<1> DEFINE consumed == UNION {Oldest(InStock(j), PartNeed(b, j)) : j \in Item}
           n == batch[b].units
           produced == NewUnits(n)
<1>1. unit \in [Unit -> UnitRow] /\ batch \in [Batch -> BatchRow]
      /\ picked \in [Batch -> SUBSET Unit] /\ claim \in [Order -> [Item -> Nat]]
  BY DEF GoodsInv, GoodsTypeOK
<1>2. batch[b].status = "PLANNED" /\ batch[b].item \in Item /\ n \in Nat
  BY <1>1 DEF Start, GoodsInv, BatchesNameAnItem, BatchRow
<1>3. consumed \subseteq Rows /\ \A u \in consumed : unit[u].status = "IN_STOCK"
  BY DEF Oldest, InStock
<1>4. produced \subseteq Unit
  BY DEF Start
<1>5. /\ Used + n \in 0..NumUnits
      /\ \A u \in produced : unit[u].status = "NONE" /\ NewUnit(u, batch[b].item, b) \in UnitRow
      /\ \A u \in Unit : u <= Used + n <=> unit[u].status # "NONE" \/ u \in produced
  BY <1>2, <1>4, NewUnitsOK
<1>6. unit' = [u \in Unit |->
                IF u \in consumed THEN [unit[u] EXCEPT !.status = "CONSUMED"]
                ELSE IF u \in produced THEN NewUnit(u, batch[b].item, b) ELSE unit[u]]
  BY DEF Start
<1>7. \A c \in Batch : picked'[c] = IF c = b THEN consumed ELSE picked[c]
  BY <1>1 DEF Start
<1>8. /\ batch' \in [Batch -> BatchRow]
      /\ batch'[b].status \in Started /\ batch'[b].item = batch[b].item
      /\ \A c \in Batch : c # b => batch'[c] = batch[c]
  <2>1. \A x \in Started : LET row == [batch[b] EXCEPT !.status = x]
                            IN  row \in BatchRow /\ row.status = x /\ row.item = batch[b].item
    <3>1. batch[b] \in BatchRow /\ Started \subseteq BatchStatus
      BY <1>1 DEF Started, BatchStatus
    <3> QED
      BY <3>1, BatchMoved
  <2>2. PICK x \in Started : batch' = [batch EXCEPT ![b].status = x]
    BY DEF Start, Started
  <2> QED
    BY <1>1, <2>1, <2>2
<1>9. UNCHANGED shipment /\ stage' = [stage EXCEPT ![b] = 0]
      /\ picked' = [picked EXCEPT ![b] = consumed]
  BY DEF Start
<1>10. Rows \subseteq Unit
  BY DEF Rows
<1>11. claim' \in [Order -> [Item -> Nat]]
  <2>1. \A o \in Order, j \in Item : Shrunk(claim[o][j], PartNeed(b, j)) \in Nat
    BY <1>1, <1>2, PartNeedNat DEF Shrunk
  <2>2. claim' = [o \in Order |-> [j \in Item |->
                    IF o = batch[b].order THEN Shrunk(claim[o][j], PartNeed(b, j))
                    ELSE claim[o][j]]]
    BY DEF Start
  <2> QED
    BY <1>1, <2>1, <2>2
<1> HIDE DEF consumed, produced, n
<1>12. \A u \in consumed : /\ unit'[u] \in UnitRow /\ unit'[u].status = "CONSUMED"
                          /\ unit'[u].batch = unit[u].batch /\ unit'[u].checked = unit[u].checked
  <2>1. \A u \in consumed : unit[u] \in UnitRow /\ u \in Unit
    BY <1>1, <1>3, <1>10
  <2>2. \A u \in consumed : unit'[u] = [unit[u] EXCEPT !.status = "CONSUMED"]
    BY <1>6, <2>1
  <2>3. ASSUME NEW u \in consumed
        PROVE  /\ unit'[u] \in UnitRow /\ unit'[u].status = "CONSUMED"
               /\ unit'[u].batch = unit[u].batch /\ unit'[u].checked = unit[u].checked
    <3>1. unit[u] \in UnitRow /\ "CONSUMED" \in UnitStatus
      BY <2>1 DEF UnitStatus
    <3>2. unit'[u] = [unit[u] EXCEPT !.status = "CONSUMED"]
      BY <2>2
    <3>3. LET moved == [unit[u] EXCEPT !.status = "CONSUMED"]
          IN  /\ moved \in UnitRow /\ moved.status = "CONSUMED"
              /\ moved.batch = unit[u].batch /\ moved.checked = unit[u].checked
      BY <3>1, UnitMoved
    <3> QED
      BY <3>2, <3>3
  <2> QED
    BY <2>3
<1>13. \A u \in produced : u \notin consumed
  BY <1>3, <1>5 DEF Rows
<1>14. \A u \in produced : unit'[u] = NewUnit(u, batch[b].item, b)
  BY <1>4, <1>6, <1>13
<1>15. \A u \in Unit : u \notin consumed /\ u \notin produced => unit'[u] = unit[u]
  BY <1>6
<1>16. \A u \in produced : unit'[u].status = "IN_STOCK" /\ unit'[u].batch = b
  <2>1. \A u \in Unit : NewUnit(u, batch[b].item, b).status = "IN_STOCK"
                       /\ NewUnit(u, batch[b].item, b).batch = b
    BY DEF NewUnit
  <2> QED
    BY <1>4, <1>14, <2>1
<1>17. unit' \in [Unit -> UnitRow]
  <2>1. \A u \in Unit : unit'[u] \in UnitRow
    <3>1. \A u \in produced : unit'[u] \in UnitRow
      BY <1>5, <1>14
    <3>2. \A u \in Unit : u \notin consumed /\ u \notin produced => unit'[u] \in UnitRow
      BY <1>1, <1>15
    <3> QED
      BY <1>12, <3>1, <3>2
  <2> QED
    BY <1>6, <2>1
<1>18. Rows' = Rows \union produced
  BY <1>3, <1>4, <1>15, <1>12, <1>16 DEF Rows
<1>19. GoodsTypeOK'
  BY <1>1, <1>3, <1>8, <1>9, <1>10, <1>11, <1>17 DEF GoodsInv, GoodsTypeOK
<1>20. BatchesNameAnItem'
  BY <1>2, <1>8 DEF GoodsInv, BatchesNameAnItem
<1>21. UnitsInOrder'
  <2>1. \A u \in Unit : unit'[u].status # "NONE" <=> u <= Used + n
    BY <1>3, <1>5, <1>15, <1>12, <1>16 DEF Rows
  <2> QED
    BY <1>5, <2>1 DEF UnitsInOrder
<1>22. picked[b] = {}
  BY <1>2 DEF GoodsInv, ListsOK, PickListsOfStartedBatches, Started
<1>23. ListsOK'
  <2>1. OutputOnlyOfStartedBatches'
    <3>1. \A u \in Rows' : u \in produced \/ (u \in Rows /\ unit'[u].batch = unit[u].batch)
      BY <1>10, <1>15, <1>12, <1>18
    <3>2. \A u \in Rows : unit[u].batch \in Batch \union {NoBatch}
      BY <1>1, <1>10 DEF UnitRow
    <3> QED
      BY <3>1, <3>2, <1>8, <1>16 DEF GoodsInv, ListsOK, OutputOnlyOfStartedBatches, Started
  <2>2. PickListsOfStartedBatches' /\ PickedUnitsExist' /\ ShippedUnitsExist'
    BY <1>3, <1>7, <1>8, <1>9, <1>18 DEF GoodsInv, ListsOK, PickListsOfStartedBatches,
       PickedUnitsExist, ShippedUnitsExist
  <2>3. ConsumedUnitsAreOnAPickList'
    <3>1. ASSUME NEW u \in Rows', unit'[u].status = "CONSUMED"
          PROVE  \E c \in Batch : u \in picked'[c]
      <4>1. CASE u \in consumed
        BY <4>1, <1>7
      <4>2. CASE u \notin consumed
        <5>1. u \notin produced
          BY <3>1, <1>16
        <5>2. u \in Rows /\ unit[u].status = "CONSUMED"
          BY <3>1, <4>2, <5>1, <1>10, <1>15, <1>18
        <5>3. PICK c \in Batch : u \in picked[c]
          BY <5>2 DEF GoodsInv, ListsOK, ConsumedUnitsAreOnAPickList
        <5> QED
          BY <5>3, <1>7, <1>22
      <4> QED
        BY <4>1, <4>2
    <3> QED
      BY <3>1 DEF ConsumedUnitsAreOnAPickList
  <2>4. UncheckedUnitsAreWhereListed'
    <3>1. \A u \in consumed : ~ unit[u].checked =>
            /\ \A c \in Batch : u \notin picked[c]
            /\ \A s \in Shipment : u \notin shipment[s].units
      BY <1>3, <1>10 DEF GoodsInv, ListsOK, UncheckedUnitsAreWhereListed
    <3>2. \A u \in produced : /\ \A c \in Batch : u \notin picked[c]
                             /\ \A s \in Shipment : u \notin shipment[s].units
      BY <1>5 DEF GoodsInv, ListsOK, PickedUnitsExist, ShippedUnitsExist, Rows
    <3> QED
      BY <3>1, <3>2, <1>7, <1>9, <1>13, <1>15, <1>12, <1>22
         DEF GoodsInv, ListsOK, UncheckedUnitsAreWhereListed
  <2> QED
    BY <2>1, <2>2, <2>3, <2>4 DEF ListsOK
<1> QED
  BY <1>19, <1>20, <1>21, <1>23 DEF GoodsInv

LEMMA GoodsNextOK ==
  ASSUME GoodsInv, [GoodsNext]_goodsVars
  PROVE  GoodsInv'
<1>1. CASE BatchStep
  <2>1. PICK b \in Batch :
          \/ \E i \in Item, o \in Order \union {NoOrder}, n \in Units : CreateBatch(b, i, o, n)
          \/ CancelBatch(b) \/ RemoveBatch(b)
          \/ Start(b) \/ RevertStart(b) \/ AdvanceStage(b)
    BY <1>1 DEF BatchStep
  <2> QED
    BY <2>1, CreateBatchOK, CancelOrRemoveBatchOK, StartOK, RevertStartOK, AdvanceStageOK
<1>2. CASE UnitStep
  BY <1>2, ReceivePurchasedOK, RemoveUnitOK, RecordCheckOK DEF UnitStep
<1>3. CASE ShipmentStep
  <2>1. PICK s \in Shipment :
          \/ \E us \in (SUBSET Unit) \ {{}}, o \in Order \union {NoOrder} : CreateShipment(s, us, o)
          \/ MarkDelivered(s) \/ RemoveShipment(s)
    BY <1>3 DEF ShipmentStep
  <2> QED
    BY <2>1, CreateShipmentOK, MarkDeliveredOK, RemoveShipmentOK
<1>4. CASE OrderStep
  <2>1. PICK o \in Order :
          \/ \E j \in Item, n \in Units : Claim(o, j, n)
          \/ ReleaseClaims(o) \/ RemoveOrder(o)
    BY <1>4 DEF OrderStep
  <2> QED
    BY <2>1, ClaimsOK, RemoveOrderOK
<1>5. CASE UNCHANGED goodsVars
  <2>1. UNCHANGED <<batch, stage, picked, unit, claim, shipment>>
    BY <1>5 DEF goodsVars
  <2>2. GoodsTypeOK' /\ BatchesNameAnItem'
    BY <2>1 DEF GoodsInv, GoodsTypeOK, BatchesNameAnItem
  <2>3. UnitsInOrder' /\ ListsOK'
    BY <2>1, ListsUndisturbed
  <2> QED
    BY <2>2, <2>3 DEF GoodsInv
<1> QED
  BY <1>1, <1>2, <1>3, <1>4, <1>5 DEF GoodsNext

-----------------------------------------------------------------------------
(***************************************************************************)
(* The inductive invariant holds in every reachable state: besides types,  *)
(* every list of units names existing units, and only units inspected      *)
(* since can be elsewhere than where the list that names them says.        *)
(***************************************************************************)
THEOREM GoodsInvInductive == GoodsSpec => []GoodsInv
<1>1. GoodsInit => GoodsInv
  BY GoodsInitOK
<1>2. GoodsInv /\ [GoodsNext]_goodsVars => GoodsInv'
  BY GoodsNextOK
<1> QED
  BY <1>1, <1>2, PTL DEF GoodsSpec

(***************************************************************************)
(* Every reachable state is well typed: serial numbers, stages and claims  *)
(* are natural numbers, whatever starts consume and reverts return.        *)
(***************************************************************************)
THEOREM GoodsTypeCorrect == GoodsSpec => []GoodsTypeOK
<1>1. GoodsInv => GoodsTypeOK
  BY DEF GoodsInv
<1> QED
  BY <1>1, GoodsInvInductive, PTL

(***************************************************************************)
(* Only a batch that was started and not reverted has output, so deleting  *)
(* a PLANNED or CANCELLED batch orphans no unit.                           *)
(***************************************************************************)
THEOREM OutputIsOfStartedBatches == GoodsSpec => []OutputOnlyOfStartedBatches
<1>1. GoodsInv => OutputOnlyOfStartedBatches
  BY DEF GoodsInv, ListsOK
<1> QED
  BY <1>1, GoodsInvInductive, PTL

(***************************************************************************)
(* Every consumed unit is on the pick list of a batch, so a revert of that *)
(* batch finds it.                                                         *)
(***************************************************************************)
THEOREM ConsumedUnitsAreListed == GoodsSpec => []ConsumedUnitsAreOnAPickList
<1>1. GoodsInv => ConsumedUnitsAreOnAPickList
  BY DEF GoodsInv, ListsOK
<1> QED
  BY <1>1, GoodsInvInductive, PTL

(***************************************************************************)
(* No deletion and no revert removes the row of a unit a shipment lists.   *)
(***************************************************************************)
THEOREM ShippedUnitsKeepTheirRows == GoodsSpec => []ShippedUnitsExist
<1>1. GoodsInv => ShippedUnitsExist
  BY DEF GoodsInv, ListsOK
<1> QED
  BY <1>1, GoodsInvInductive, PTL

(***************************************************************************)
(* A delivered shipment is final: no revert, no deletion of another        *)
(* shipment and no start returns its units to stock; only an inspection    *)
(* can, and the unit shows it.                                             *)
(***************************************************************************)
THEOREM DeliveredIsFinal == GoodsSpec => DeliveredUnitsStayOut
<1> DEFINE AllStayOut == \A s \in Shipment : \A u \in shipment[s].units :
             shipment[s].status = "DELIVERED" /\ unit[u].status = "SHIPPED" =>
               \/ unit'[u].status = "SHIPPED"
               \/ unit'[u].checked
<1>1. ASSUME GoodsInv, GoodsNext, NEW s \in Shipment, NEW u \in Unit,
             u \in shipment[s].units, shipment[s].status = "DELIVERED", unit[u].status = "SHIPPED"
      PROVE  unit'[u].status = "SHIPPED" \/ unit'[u].checked
  <2>1. unit \in [Unit -> UnitRow] /\ unit[u] \in UnitRow
    BY <1>1 DEF GoodsInv, GoodsTypeOK
  <2>2. u \in Rows
    BY <1>1 DEF Rows
  <2>3. CASE UNCHANGED unit
    BY <1>1, <2>3
  <2>4. ASSUME NEW b \in Batch, Start(b) PROVE unit'[u].status = "SHIPPED"
    <3>1. u \notin UNION {Oldest(InStock(j), PartNeed(b, j)) : j \in Item}
      BY <1>1 DEF Oldest, InStock
    <3>2. u \notin NewUnits(batch[b].units)
      <4>1. batch[b].units \in Nat
        BY <1>1 DEF GoodsInv, GoodsTypeOK, BatchRow
      <4> QED
        BY <1>1, <2>4, <4>1, NewUnitsOK DEF Start
    <3> QED
      BY <1>1, <2>4, <3>1, <3>2 DEF Start
  <2>5. ASSUME NEW b \in Batch, RevertStart(b)
        PROVE  unit'[u].status = "SHIPPED" \/ unit'[u].checked
    <3>1. u \notin OutputOf(b)
      BY <1>1, <2>5 DEF RevertStart, Untouched
    <3>2. CASE u \in picked[b]
      <4>1. unit[u].checked
        BY <1>1, <3>2 DEF GoodsInv, ListsOK, UncheckedUnitsAreWhereListed
      <4>2. unit'[u] = [unit[u] EXCEPT !.status = "IN_STOCK"]
        BY <2>2, <2>5, <3>1, <3>2 DEF RevertStart
      <4> QED
        BY <2>1, <4>1, <4>2 DEF UnitRow
    <3>3. CASE u \notin picked[b]
      BY <1>1, <2>5, <3>1, <3>3 DEF RevertStart
    <3> QED
      BY <3>2, <3>3
  <2>6. ASSUME NEW i \in Item, NEW n \in Units, ReceivePurchased(i, n)
        PROVE  unit'[u].status = "SHIPPED"
    <3>1. u \notin NewUnits(n)
      BY <1>1, <2>6, NewUnitsOK, GoodsConstants DEF ReceivePurchased
    <3> QED
      BY <1>1, <2>6, <3>1 DEF ReceivePurchased
  <2>7. ASSUME NEW v \in Unit, RemoveUnit(v) PROVE unit'[u].status = "SHIPPED"
    BY <1>1, <2>1, <2>7 DEF RemoveUnit
  <2>8. ASSUME NEW v \in Unit, NEW accepted \in BOOLEAN, RecordCheck(v, accepted)
        PROVE  unit'[u].status = "SHIPPED" \/ unit'[u].checked
    BY <1>1, <2>1, <2>8 DEF RecordCheck, UnitRow
  <2>9. ASSUME NEW t \in Shipment, NEW us \in SUBSET Unit, NEW o \in Order \union {NoOrder},
               CreateShipment(t, us, o)
        PROVE  unit'[u].status = "SHIPPED"
    <3>1. u \notin us
      BY <1>1, <2>9 DEF CreateShipment
    <3> QED
      BY <1>1, <2>9, <3>1 DEF CreateShipment
  <2>10. ASSUME NEW t \in Shipment, RemoveShipment(t)
         PROVE  unit'[u].status = "SHIPPED" \/ unit'[u].checked
    <3>1. t # s
      BY <1>1, <2>10 DEF RemoveShipment
    <3>2. CASE u \in shipment[t].units
      <4>1. unit[u].checked
        BY <1>1, <3>1, <3>2 DEF GoodsInv, ListsOK, UncheckedUnitsAreWhereListed
      <4>2. unit'[u] = [unit[u] EXCEPT !.status = "IN_STOCK"]
        BY <1>1, <2>10, <3>2 DEF RemoveShipment
      <4> QED
        BY <2>1, <4>1, <4>2 DEF UnitRow
    <3>3. CASE u \notin shipment[t].units
      BY <1>1, <2>10, <3>3 DEF RemoveShipment
    <3> QED
      BY <3>2, <3>3
  <2>11. ASSUME NEW o \in Order, RemoveOrder(o) PROVE unit'[u].status = "SHIPPED"
    BY <1>1, <2>1, <2>11 DEF RemoveOrder, UnitRow
  <2>12. CASE BatchStep
    <3>1. UNCHANGED unit \/ \E b \in Batch : Start(b) \/ RevertStart(b)
      BY <2>12 DEF BatchStep, CreateBatch, CancelBatch, RemoveBatch, AdvanceStage
    <3> QED
      BY <2>3, <2>4, <2>5, <3>1
  <2>13. CASE UnitStep
    BY <2>6, <2>7, <2>8, <2>13 DEF UnitStep
  <2>14. CASE ShipmentStep
    <3>1. \/ UNCHANGED unit
          \/ \E t \in Shipment : RemoveShipment(t)
          \/ \E t \in Shipment, us \in SUBSET Unit, o \in Order \union {NoOrder} :
               CreateShipment(t, us, o)
      BY <2>14 DEF ShipmentStep, MarkDelivered
    <3> QED
      BY <2>3, <2>9, <2>10, <3>1
  <2>15. CASE OrderStep
    <3>1. UNCHANGED unit \/ \E o \in Order : RemoveOrder(o)
      BY <2>15 DEF OrderStep, Claim, ReleaseClaims
    <3> QED
      BY <2>3, <2>11, <3>1
  <2> QED
    BY <1>1, <2>12, <2>13, <2>14, <2>15 DEF GoodsNext
<1>2. ASSUME GoodsInv PROVE \A s \in Shipment : shipment[s].units \subseteq Unit
  BY <1>2 DEF GoodsInv, GoodsTypeOK, ShipmentRow
<1>3. GoodsInv /\ GoodsNext => AllStayOut
  BY <1>1, <1>2
<1>4. GoodsInv /\ [GoodsNext]_goodsVars => [AllStayOut]_goodsVars
  BY <1>3
<1> QED
  BY <1>4, GoodsInvInductive, PTL DEF GoodsSpec, DeliveredUnitsStayOut

-----------------------------------------------------------------------------
(* A start and the claims of the others. *)

\* No two of the n oldest units have the same rank, and their ranks are below n.
LEMMA OldestAreFew ==
  ASSUME NEW S \in SUBSET Unit, NEW n \in Nat
  PROVE  Cardinality(Oldest(S, n)) <= n
<1> DEFINE Older(u) == {v \in S : v < u}
           rank == [u \in Oldest(S, n) |-> Cardinality(Older(u))]
<1>1. \A u \in Unit : u \in Nat
  BY GoodsConstants
<1>2. \A u \in S : IsFiniteSet(Older(u)) /\ Cardinality(Older(u)) \in Nat
  BY UnitSets
<1>3. ASSUME NEW u \in S, NEW w \in S, u < w
      PROVE  Cardinality(Older(u)) # Cardinality(Older(w))
  <2>1. Older(u) \subseteq Older(w) /\ u \in Older(w) /\ u \notin Older(u)
    BY <1>1, <1>3
  <2> HIDE DEF Older
  <2> QED
    BY <1>2, <2>1, FS_Subset
<1>4. rank \in [Oldest(S, n) -> 0..(n - 1)]
  BY <1>2 DEF Oldest
<1>5. ASSUME NEW u \in Oldest(S, n), NEW w \in Oldest(S, n), rank[u] = rank[w]
      PROVE  u = w
  <2>1. u \in S /\ w \in S /\ u \in Nat /\ w \in Nat
    BY <1>1 DEF Oldest
  <2>2. Cardinality(Older(u)) = Cardinality(Older(w))
    BY <1>5
  <2>3. u < w \/ w < u \/ u = w
    BY <2>1
  <2> HIDE DEF Older, rank
  <2> QED
    BY <1>3, <2>1, <2>2, <2>3
<1> HIDE DEF rank
<1>6. rank \in Injection(Oldest(S, n), 0..(n - 1))
  BY <1>4, <1>5 DEF Injection, IsInjective
<1>7. IsFiniteSet(0..(n - 1)) /\ Cardinality(0..(n - 1)) = n
  BY FS_Interval
<1> QED
  BY <1>6, <1>7, FS_Injection

LEMMA ClaimsAreNat ==
  ASSUME GoodsInv, NEW o, NEW j \in Item
  PROVE  ClaimedByOthers(o, j) \in Nat
<1> DEFINE f == [other \in Order |-> IF other = o THEN 0 ELSE claim[other][j]]
<1>1. f \in [1..NumOrders -> Nat]
  BY GoodsConstants DEF GoodsInv, GoodsTypeOK
<1>2. NumOrders \in Nat
  BY GoodsConstants
<1> HIDE DEF f
<1>3. Total(f, NumOrders) \in Nat
  BY <1>1, <1>2, TotalNat
<1> QED
  BY <1>3 DEF ClaimedByOthers, f

(***************************************************************************)
(* A batch that starts leaves in stock as many units of every part as the  *)
(* other orders have claimed, however many units and parts there are: what *)
(* it takes is at most what the check counted.                             *)
(***************************************************************************)
THEOREM StartsSpareClaims == GoodsSpec => StartsLeaveOthersTheirClaims
<1> DEFINE Spares(b, j) ==
             batch[b].status = "PLANNED" /\ batch'[b].status \in {"IN_PROGRESS", "COMPLETED"}
               /\ PartNeed(b, j) > 0
               => Cardinality(InStock(j)') >= ClaimedByOthers(batch[b].order, j)
<1>1. ASSUME GoodsInv, NEW b \in Batch, NEW j \in Item, Start(b), PartNeed(b, j) > 0
      PROVE  Cardinality(InStock(j)') >= ClaimedByOthers(batch[b].order, j)
  <2> DEFINE S == InStock(j)
             n == PartNeed(b, j)
             claimed == ClaimedByOthers(batch[b].order, j)
             produced == NewUnits(batch[b].units)
  <2>1. n \in Nat /\ claimed \in Nat
    BY <1>1, PartNeedNat, ClaimsAreNat DEF Start
  <2>2. S \subseteq Unit /\ Oldest(S, n) \subseteq S
    BY DEF InStock, Rows, Oldest
  <2>3. Cardinality(S) >= claimed + n
    BY <1>1 DEF Start, EnoughParts
  <2>4. S \ Oldest(S, n) \subseteq InStock(j)'
    <3>1. ASSUME NEW u \in S \ Oldest(S, n) PROVE unit'[u] = unit[u]
      <4>1. u \in Unit /\ unit[u].status = "IN_STOCK" /\ unit[u].item = j
        BY DEF InStock, Rows
      <4>2. u \notin UNION {Oldest(InStock(i), PartNeed(b, i)) : i \in Item}
        BY <3>1, <4>1 DEF Oldest, InStock
      <4>3. batch[b].units \in Nat /\ produced \subseteq Unit
        BY <1>1 DEF GoodsInv, GoodsTypeOK, BatchRow, Start
      <4>4. u \notin produced
        BY <1>1, <4>1, <4>3, NewUnitsOK
      <4> QED
        BY <1>1, <4>1, <4>2, <4>4 DEF Start
    <3> QED
      BY <3>1 DEF InStock, Rows
  <2>5. InStock(j)' \subseteq Unit
    BY DEF InStock, Rows
  <2>6. /\ IsFiniteSet(S) /\ Cardinality(S) \in Nat
        /\ Cardinality(Oldest(S, n)) \in Nat /\ Cardinality(Oldest(S, n)) <= n
        /\ IsFiniteSet(InStock(j)') /\ Cardinality(InStock(j)') \in Nat
    BY <2>1, <2>2, <2>5, UnitSets, OldestAreFew
  <2> HIDE DEF S, n, claimed
  <2>7. Cardinality(S \ Oldest(S, n)) = Cardinality(S) - Cardinality(Oldest(S, n))
    <3>1. S \intersect Oldest(S, n) = Oldest(S, n)
      BY <2>2
    <3>2. Cardinality(S \ Oldest(S, n)) = Cardinality(S) - Cardinality(S \intersect Oldest(S, n))
      BY <2>6, FS_Difference
    <3> QED
      BY <3>1, <3>2
  <2>8. Cardinality(S \ Oldest(S, n)) <= Cardinality(InStock(j)')
    BY <2>4, <2>6, FS_Subset
  <2>9. Cardinality(InStock(j)') >= claimed
    BY <2>1, <2>3, <2>6, <2>7, <2>8
  <2> QED
    BY <2>9 DEF claimed
<1>2. ASSUME GoodsInv, GoodsNext, NEW b \in Batch, batch[b].status = "PLANNED",
             batch'[b].status \in {"IN_PROGRESS", "COMPLETED"}
      PROVE  Start(b)
  <2>1. batch \in [Batch -> BatchRow]
    BY <1>2 DEF GoodsInv, GoodsTypeOK
  <2>2. CASE BatchStep
    <3>1. PICK c \in Batch :
            \/ \E i \in Item, o \in Order \union {NoOrder}, n \in Units : CreateBatch(c, i, o, n)
            \/ CancelBatch(c) \/ RemoveBatch(c)
            \/ Start(c) \/ RevertStart(c) \/ AdvanceStage(c)
      BY <2>2 DEF BatchStep
    <3>2. CASE Start(c)
      BY <1>2, <2>1, <3>2 DEF Start
    <3>3. CASE RevertStart(c)
      BY <1>2, <2>1, <3>3 DEF RevertStart, BatchRow
    <3>4. CASE AdvanceStage(c)
      BY <1>2, <2>1, <3>4 DEF AdvanceStage, BatchRow
    <3>5. CASE CancelBatch(c)
      BY <1>2, <2>1, <3>5 DEF CancelBatch, BatchRow
    <3>6. CASE RemoveBatch(c)
      BY <1>2, <2>1, <3>6 DEF RemoveBatch, BatchRow
    <3>7. CASE \E i \in Item, o \in Order \union {NoOrder}, n \in Units : CreateBatch(c, i, o, n)
      BY <1>2, <2>1, <3>7 DEF CreateBatch, BatchRow
    <3> QED
      BY <3>1, <3>2, <3>3, <3>4, <3>5, <3>6, <3>7
  <2>3. CASE UnitStep
    BY <1>2, <2>3 DEF UnitStep, ReceivePurchased, RemoveUnit, RecordCheck
  <2>4. CASE ShipmentStep
    BY <1>2, <2>4 DEF ShipmentStep, CreateShipment, MarkDelivered, RemoveShipment
  <2>5. CASE OrderStep
    <3>1. UNCHANGED batch \/ \E o \in Order : RemoveOrder(o)
      BY <2>5 DEF OrderStep, Claim, ReleaseClaims
    <3>2. ASSUME NEW o \in Order, RemoveOrder(o) PROVE batch'[b].status = batch[b].status
      BY <2>1, <3>2 DEF RemoveOrder, BatchRow
    <3> QED
      BY <1>2, <3>1, <3>2
  <2> QED
    BY <1>2, <2>2, <2>3, <2>4, <2>5 DEF GoodsNext
<1>3. GoodsInv /\ GoodsNext => \A b \in Batch, j \in Item : Spares(b, j)
  BY <1>1, <1>2
<1>4. GoodsInv /\ [GoodsNext]_goodsVars => [\A b \in Batch, j \in Item : Spares(b, j)]_goodsVars
  BY <1>3
<1> QED
  BY <1>4, GoodsInvInductive, PTL DEF GoodsSpec, StartsLeaveOthersTheirClaims
=============================================================================
