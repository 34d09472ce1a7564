--------------------------- MODULE Reservations ----------------------------
(***************************************************************************)
(* What the reservation service promises its callers: the requests change  *)
(* the stock one at a time, each of them completely or not at all.         *)
(*                                                                         *)
(* Giving an order to production, reserving and an issue do exactly what   *)
(* they would do alone.  The other requests are promised less, because     *)
(* they act on what they read before they locked it: an arrival may serve  *)
(* an order that was cancelled meanwhile; a start takes the material it    *)
(* needs and closes no hold but its own order's, by no more than it took;  *)
(* a cancelled order loses holds, and nobody else does.                    *)
(***************************************************************************)
EXTENDS StockRows

CONSTANTS Product, Batch, OrderOf, Need, Supply, Given, Request

VARIABLES cell, status

vars == <<cell, status>>

\* What the orders O need of p.
NeedOf(O, p) == [o \in Order |-> IF o \in O THEN Need[o][p] ELSE 0]
InStatus(s) == {o \in Order : status[o] = s}

Handles(r, p) == \E i \in DOMAIN r.lines : r.lines[i] = p

\* Nothing else changes.
OnlyLines(r) == \A p \in Product : ~ Handles(r, p) => cell'[p] = cell[p]

Init ==
  /\ cell = [p \in Product |-> [EmptyCell EXCEPT !.qty = Supply[p]]]
  /\ status = [d \in Order \cup Batch |->
                 IF d \in Batch THEN "PLANNED" ELSE IF d \in Given THEN "IN_PRODUCTION" ELSE "NEW"]

\* The order is granted what is free of each product.
Granting(r) ==
  \A p \in Product : Handles(r, p) => cell'[p] = Grant(cell[p], "STOCK", r.doc, r.qty[p])

Give(r) ==
  /\ r.kind = "give"
  /\ status[r.doc] = "NEW"
  /\ status' = [status EXCEPT ![r.doc] = "IN_PRODUCTION"]
  /\ Granting(r) /\ OnlyLines(r)

Reserve(r) ==
  /\ r.kind = "reserve"
  /\ \A p \in Product : Handles(r, p) => Granted(cell[p], r.qty[p]) = r.qty[p]
  /\ Granting(r) /\ OnlyLines(r)
  /\ UNCHANGED status

Arrive(r) ==
  /\ r.kind = "arrive"
  /\ \A p \in Product : Handles(r, p) =>
       \E late \in SUBSET InStatus("CANCELLED") :
         cell'[p] = Moved(cell[p], NeedOf(InStatus("IN_PRODUCTION") \cup late, p), r.qty[p], NoOrder)
  /\ OnlyLines(r)
  /\ UNCHANGED status

Issue(r) ==
  /\ r.kind = "issue"
  /\ \A p \in Product : Handles(r, p) => cell'[p] = [cell[p] EXCEPT !.qty = @ - r.qty[p]]
  /\ OnlyLines(r)
  /\ UNCHANGED status

\* d is what becomes of c when n is taken for order o and some of o's holds, n
\* at most, are closed.
Taken(c, d, o, n) ==
  \E h \in 0..n, k \in 0..n :
    /\ h + k <= n
    /\ d = Consume(Consume([c EXCEPT !.qty = @ - n], "STOCK", o, h), "PURCHASE", o, k)

Start(r) ==
  /\ r.kind = "start"
  /\ status[r.doc] = "PLANNED"
  /\ status' = [status EXCEPT ![r.doc] = "IN_PROGRESS"]
  /\ \A p \in Product : Handles(r, p) => Taken(cell[p], cell'[p], OrderOf[r.doc], r.qty[p])
  /\ OnlyLines(r)

\* d is what becomes of c when some of what order o holds is released.
Freed(c, d, o) ==
  \E h \in 0..c.hold["STOCK"][o], k \in 0..c.hold["PURCHASE"][o] :
    d = Release(Release(c, "STOCK", o, h), "PURCHASE", o, k)

Cancel(r) ==
  /\ r.kind = "cancel"
  /\ status[r.doc] # "CANCELLED"
  /\ status' = [status EXCEPT ![r.doc] = "CANCELLED"]
  /\ \A p \in Product : Freed(cell[p], cell'[p], r.doc)

Next ==
  /\ \E r \in Request :
       Give(r) \/ Reserve(r) \/ Arrive(r) \/ Issue(r) \/ Start(r) \/ Cancel(r)
  /\ cell' = [p \in Product |-> cell'[p]]

Spec == Init /\ [][Next]_vars
=============================================================================
