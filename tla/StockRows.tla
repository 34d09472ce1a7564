----------------------------- MODULE StockRows -----------------------------
(***************************************************************************)
(* The statements of StockReservationService and the stock write of        *)
(* StockService, as operators on the rows they touch.                      *)
(*                                                                         *)
(* Everything these services do to one product in one warehouse happens in *)
(* one warehouse_stock row and in the stock_reservations rows that refer   *)
(* to it.  A "cell" is those rows together:                                *)
(*   qty       warehouse_stock.qty, the physical stock; no code and no     *)
(*             constraint keeps it from going negative                     *)
(*   reserved  warehouse_stock.reservedQty, the running total              *)
(*   hold      stock_reservations.qty, per source and customer order       *)
(*   consumed  stock_reservations.consumedQty of an order, both sources    *)
(*             added up, which is the only way the code reads it           *)
(* A missing row acts as a row of zeros in every statement below.  An      *)
(* order is its number: orders are created, and so sorted by createdAt,    *)
(* in this order.                                                          *)
(***************************************************************************)
EXTENDS Sums

CONSTANT NumOrders       \* how many customer orders can ever exist

ASSUME NumOrdersAssumption == NumOrders \in Nat \ {0}

Order == 1..NumOrders
NoOrder == 0             \* "no preferred order"
Source == {"STOCK", "PURCHASE"}

Cell == [qty: Int,
         reserved: Nat,
         hold: [Source -> [Order -> Nat]],
         consumed: [Order -> Nat]]

EmptyCell == [qty |-> 0,
              reserved |-> 0,
              hold |-> [s \in Source |-> [o \in Order |-> 0]],
              consumed |-> [o \in Order |-> 0]]

-----------------------------------------------------------------------------
(* Reads. *)

\* getAvailability: what no order has reserved.
Available(c) == c.qty - c.reserved

\* getReservedForOrder, both sources.
Held(c, o) == c.hold["STOCK"][o] + c.hold["PURCHASE"][o]

\* getOutstandingForOrder: what the order still waits for in this cell, when
\* its requirement asks for "required" of the product.
Outstanding(c, o, required) == NonNegative(required - (Held(c, o) + c.consumed[o]))

-----------------------------------------------------------------------------
(* Writes. *)

\* The reservation rows with d added to one of them.
Adjusted(hold, s, o, d) == [hold EXCEPT ![s][o] = @ + d]

\* Mutant of Granted: the UPDATE compares with the physical stock and forgets
\* what other orders have reserved.
GrantedFromPhysicalStock(c, n) == IF n <= 0 THEN 0 ELSE Least(n, NonNegative(c.qty))

\* The qty the one conditional UPDATE of grantReservation adds to reservedQty.
Granted(c, n) == IF n <= 0 THEN 0 ELSE Least(n, NonNegative(Available(c)))

Grant(c, s, o, n) ==
  [qty |-> c.qty,
   reserved |-> c.reserved + Granted(c, n),
   hold |-> Adjusted(c.hold, s, o, Granted(c, n)),
   consumed |-> c.consumed]

\* Mutant of Released: what is asked for is released, held or not.
ReleasedUncapped(c, s, o, n) == NonNegative(n)

\* release and consume take at most what the reservation row holds; the
\* UPDATE of the running total stops at zero.
Released(c, s, o, n) == NonNegative(Least(n, c.hold[s][o]))

Release(c, s, o, n) ==
  [qty |-> c.qty,
   reserved |-> NonNegative(c.reserved - Released(c, s, o, n)),
   hold |-> Adjusted(c.hold, s, o, - Released(c, s, o, n)),
   consumed |-> c.consumed]

Consume(c, s, o, n) ==
  [Release(c, s, o, n) EXCEPT !.consumed[o] = @ + Released(c, s, o, n)]

\* releaseAllForOrder, the part that falls in this cell.
ReleaseAll(c, o) ==
  LET c1 == Release(c, "STOCK", o, c.hold["STOCK"][o])
  IN  Release(c1, "PURCHASE", o, c1.hold["PURCHASE"][o])

\* The order's reservation rows go with the order (ON DELETE CASCADE).
Forget(c, o) ==
  [qty |-> c.qty,
   reserved |-> c.reserved,
   hold |-> [s \in Source |-> [c.hold[s] EXCEPT ![o] = 0]],
   consumed |-> [c.consumed EXCEPT ![o] = 0]]

\* One turn of topUp: order o gets what is left of the arriving stock, up to
\* what it still waits for.  need[o] is the required qty of an IN_PRODUCTION
\* order that has a requirement for this product, 0 of any other.
Turn(a, need, o) ==
  LET want == Least(a.left, Outstanding(a.cell, o, need[o]))
  IN  [cell |-> Grant(a.cell, "PURCHASE", o, want),
       left |-> a.left - Granted(a.cell, want)]

\* Mutant of TopUp: the newest order first.
TopUpNewestFirst(c, need, n, preferred) ==
  LET served[k \in 0..NumOrders] ==
        IF k = 0 THEN [cell |-> c, left |-> n]
        ELSE Turn(served[k - 1], need, NumOrders + 1 - k)
  IN  served[NumOrders].cell

\* Mutant of TopUp: only the oldest waiting order is served.
TopUpOneOrder(c, need, n, preferred) ==
  LET waiting == {o \in Order : Outstanding(c, o, need[o]) > 0}
  IN  IF waiting = {} THEN c
      ELSE LET oldest == CHOOSE o \in waiting : \A other \in waiting : o <= other
           IN  Turn([cell |-> c, left |-> n], need, oldest).cell

\* topUp: the preferred order first, then the others, the oldest first.
TopUp(c, need, n, preferred) ==
  LET arrived == [cell |-> c, left |-> n]
      first == IF preferred \in Order THEN Turn(arrived, need, preferred) ELSE arrived
      served[k \in 0..NumOrders] ==
        IF k = 0 THEN first
        ELSE IF k = preferred THEN served[k - 1] ELSE Turn(served[k - 1], need, k)
  IN  served[NumOrders].cell

\* applyMovement: the physical write, and the top-up that any increase starts.
Moved(c, need, d, preferred) ==
  LET written == [c EXCEPT !.qty = @ + d]
  IN  IF d > 0 THEN TopUp(written, need, d, preferred) ELSE written
=============================================================================
