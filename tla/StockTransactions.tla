------------------------- MODULE StockTransactions -------------------------
(***************************************************************************)
(* The same reservation service, one SQL statement at a time.              *)
(*                                                                         *)
(* The server runs every request as one PostgreSQL transaction at READ     *)
(* COMMITTED: a read sees what is committed at that moment or what its own *)
(* transaction wrote, a write locks its row until the transaction ends,    *)
(* and a transaction that throws, or that the database picks to break a    *)
(* deadlock, leaves nothing behind.  Several requests run at the same      *)
(* time.  A step is one statement, or several of one transaction between   *)
(* which no other transaction can tell a difference: every writer of a     *)
(* stock_reservations row holds the lock of the warehouse_stock row of its *)
(* product, so the two are one row here, the "cell" of StockRows.  There   *)
(* is one warehouse.  A request names a product at most once.              *)
(***************************************************************************)
EXTENDS StockRows, Sequences, FiniteSets

CONSTANTS Product,     \* products, one warehouse_stock row each
          Batch,       \* production orders, all planned at the start
          OrderOf,     \* the customer order a batch is made for
          Need,        \* [Order -> [Product -> Nat]], order_material_requirements
          Supply,      \* the stock at the start, none of it reserved
          Given,       \* the orders that are in production at the start
          Tx,          \* connections: what runs at the same time
          Request,     \* the requests that come in, each of them once
          None         \* no transaction, no request

Doc == Order \cup Batch                                   \* rows with a status
OrderStatus == {"NEW", "IN_PRODUCTION", "CANCELLED"}
BatchStatus == {"PLANNED", "IN_PROGRESS"}
Kind == {"give", "reserve", "arrive", "issue", "start", "cancel"}
Lines == {s \in UNION {[1..n -> Product] : n \in 0..Cardinality(Product)} :
            \A i, j \in DOMAIN s : s[i] = s[j] => i = j}
Handles(r, p) == \E i \in DOMAIN r.lines : r.lines[i] = p

\* A request: its kind, the order or batch it is for, the products it handles
\* in the order in which it handles them, and how much of each.  Giving an
\* order to production handles everything it needs.
IsRequest(r) ==
  /\ DOMAIN r = {"kind", "doc", "lines", "qty"}
  /\ r.kind \in Kind
  /\ r.kind \in {"give", "reserve", "cancel"} => r.doc \in Order
  /\ r.kind = "give" => \A p \in Product : Need[r.doc][p] > 0 => Handles(r, p)
  /\ r.kind = "start" => r.doc \in Batch
  /\ r.lines \in Lines
  /\ r.qty \in [Product -> Nat]

ASSUME TransactionsAssumption ==
  /\ \A b \in Batch : OrderOf[b] \in Order
  /\ Batch \cap Order = {}
  /\ Need \in [Order -> [Product -> Nat]]
  /\ Supply \in [Product -> Nat]
  /\ Given \subseteq Order
  /\ \A r \in Request : IsRequest(r)
  /\ None \notin Tx /\ None \notin Request

VARIABLES cell,        \* committed cells
          status,      \* committed statuses
          cellOwner,   \* who holds the lock of a warehouse_stock row
          docOwner,    \* who holds the lock of an order or batch row
          draft,       \* cells as their lock holders have written them
          draftStatus, \* statuses as their lock holders have written them
          running,     \* the request each connection runs
          todo,        \* the statements it has yet to execute
          shelf,       \* the stock row a start has read and not yet compared
          seen,        \* what a start has read of its order's holds
          waiting      \* the requests that have not come in yet

vars == <<cell, status, cellOwner, docOwner, draft, draftStatus, running, todo, shelf, seen, waiting>>
rows == <<cell, status>>

-----------------------------------------------------------------------------
(* Statements. *)

Locking == {"grant", "insist", "move", "unhold", "use"}
Reading == {"check", "consume"}
Row == [product: Product, source: Source, n: Int]      \* n of a stock_reservations row
Statement == [op: Locking \cup Reading, product: Product, source: Source, n: Int]
               \cup [op: {"turns"}, product: Product, orders: SUBSET Order, n: Int]
               \cup [op: {"releases"}, rows: SUBSET Row]
               \cup [op: {"list", "status"}]

Stmt(op, p, s, n) == [op |-> op, product |-> p, source |-> s, n |-> n]
Turns(p, orders, n) == [op |-> "turns", product |-> p, orders |-> orders, n |-> n]
Releases(rs) == [op |-> "releases", rows |-> rs]
PerLine(r, op, sign) == [i \in DOMAIN r.lines |-> Stmt(op, r.lines[i], "STOCK", sign * r.qty[r.lines[i]])]
List == [op |-> "list"]
SetStatus == [op |-> "status"]

\* The statements of a request, as far as they are known when it comes in.
Program(r) ==
  CASE r.kind = "give" -> <<SetStatus>> \o PerLine(r, "grant", 1)
    [] r.kind = "reserve" -> PerLine(r, "insist", 1)
    [] r.kind = "arrive" -> PerLine(r, "move", 1)
    [] r.kind = "issue" -> PerLine(r, "move", -1)
    [] r.kind = "start" -> PerLine(r, "check", 1) \o PerLine(r, "move", -1) \o <<SetStatus>>
    [] r.kind = "cancel" -> <<List, SetStatus>>

\* The status a request demands of its order or batch before anything else.
Admitted(r) ==
  CASE r.kind = "give" -> status[r.doc] = "NEW"
    [] r.kind = "start" -> status[r.doc] = "PLANNED"
    [] r.kind = "cancel" -> status[r.doc] # "CANCELLED"
    [] OTHER -> TRUE

StatusAfter(r) ==
  CASE r.kind = "give" -> "IN_PRODUCTION"
    [] r.kind = "start" -> "IN_PROGRESS"
    [] r.kind = "cancel" -> "CANCELLED"

OrderOfRequest(r) == IF r.kind = "start" THEN OrderOf[r.doc] ELSE r.doc

\* Mutant of View: uncommitted writes of others are read, too.
ViewDirty(t, p) == draft[p]

\* What a connection reads of a row: its own write or what is committed.
View(t, p) == IF cellOwner[p] = t THEN draft[p] ELSE cell[p]
StatusView(t, d) == IF docOwner[d] = t THEN draftStatus[d] ELSE status[d]

\* The orders in production as connection t reads them.
InProduction(t) == {o \in Order : StatusView(t, o) = "IN_PRODUCTION"}
Oldest(orders) == CHOOSE o \in orders : \A other \in orders : o <= other

At(t, ops) == running[t] # None /\ todo[t] # <<>> /\ Head(todo[t]).op \in ops

\* The lock the next statement of t has to take, and who is in the way.
Blocker(t) ==
  IF At(t, Locking \cup {"turns"}) THEN cellOwner[Head(todo[t]).product]
  ELSE IF At(t, {"status"}) THEN docOwner[running[t].doc] ELSE None

Blocked(t) == Blocker(t) \notin {None, t}

\* Mutant of Unheld: the reservation changes, the running total does not.
UnheldRowOnly(c, s, o, n) == [c EXCEPT !.hold[s][o] = @ - n]

\* The UPDATEs of release and consume, by an amount that was read before.
Unheld(c, s, o, n) ==
  [c EXCEPT !.reserved = NonNegative(@ - n), !.hold[s][o] = @ - n]
Used(c, s, o, n) == [Unheld(c, s, o, n) EXCEPT !.consumed[o] = @ + n]

\* start, first pass: in the row it has found the batch has its material, other
\* orders' holds left alone; mine is what its own order holds.
Enough(found, mine, needed) == found.qty - NonNegative(found.reserved - mine) >= needed

\* How much of the holds of order o a start that needs so much will close.
Closing(c, o, needed) ==
  LET stock == Least(needed, c.hold["STOCK"][o])
      purchase == Least(needed - stock, c.hold["PURCHASE"][o])
  IN  [s \in Source |-> IF s = "STOCK" THEN stock ELSE purchase]

NothingSeen == [p \in Product |-> [s \in Source |-> 0]]

\* start, second pass, after the material was taken: the holds are closed.
Closings(p, amount) ==
  LET of(s) == IF amount[s] > 0 THEN <<Stmt("consume", p, s, amount[s])>> ELSE <<>>
  IN  of("STOCK") \o of("PURCHASE")

-----------------------------------------------------------------------------
\* Mutant of EmptyHanded: the connection keeps its locks on stock rows.
EmptyHandedButLocked(t) ==
  /\ cellOwner' = cellOwner
  /\ docOwner' = [d \in Doc |-> IF docOwner[d] = t THEN None ELSE docOwner[d]]
  /\ running' = [running EXCEPT ![t] = None]
  /\ todo' = [todo EXCEPT ![t] = <<>>]
  /\ shelf' = [shelf EXCEPT ![t] = None]
  /\ seen' = [seen EXCEPT ![t] = NothingSeen]

\* The transaction is over: its locks are free.
EmptyHanded(t) ==
  /\ cellOwner' = [p \in Product |-> IF cellOwner[p] = t THEN None ELSE cellOwner[p]]
  /\ docOwner' = [d \in Doc |-> IF docOwner[d] = t THEN None ELSE docOwner[d]]
  /\ running' = [running EXCEPT ![t] = None]
  /\ todo' = [todo EXCEPT ![t] = <<>>]
  /\ shelf' = [shelf EXCEPT ![t] = None]
  /\ seen' = [seen EXCEPT ![t] = NothingSeen]

\* Mutant of RollBack: what was written stays.
RollBackKeepsWrites(t) ==
  /\ EmptyHanded(t)
  /\ UNCHANGED <<cell, status, draft, draftStatus, waiting>>

\* Everything the transaction wrote is forgotten.
RollBack(t) ==
  /\ EmptyHanded(t)
  /\ draft' = [p \in Product |-> IF cellOwner[p] = t THEN cell[p] ELSE draft[p]]
  /\ draftStatus' = [d \in Doc |-> IF docOwner[d] = t THEN status[d] ELSE draftStatus[d]]
  /\ UNCHANGED <<cell, status, waiting>>

\* Connection t goes on with the statements s.
Continue(t, s) ==
  /\ todo' = [todo EXCEPT ![t] = s]
  /\ shelf' = [shelf EXCEPT ![t] = None]
  /\ UNCHANGED <<cell, status, docOwner, draftStatus, running, waiting>>

\* The cell of p is c for connection t, which holds the lock of its row.
Lock(t, p, c) ==
  /\ cellOwner[p] \in {None, t}
  /\ cellOwner' = [cellOwner EXCEPT ![p] = t]
  /\ draft' = [draft EXCEPT ![p] = c]

Write(t, p, c) == Lock(t, p, c) /\ Continue(t, Tail(todo[t])) /\ UNCHANGED seen

Read(t, s) == Continue(t, s) /\ UNCHANGED <<cellOwner, draft>>

-----------------------------------------------------------------------------
Init ==
  /\ cell = [p \in Product |-> [EmptyCell EXCEPT !.qty = Supply[p]]]
  /\ status = [d \in Doc |->
                 IF d \in Batch THEN "PLANNED" ELSE IF d \in Given THEN "IN_PRODUCTION" ELSE "NEW"]
  /\ cellOwner = [p \in Product |-> None]
  /\ docOwner = [d \in Doc |-> None]
  /\ draft = cell
  /\ draftStatus = status
  /\ running = [t \in Tx |-> None]
  /\ todo = [t \in Tx |-> <<>>]
  /\ shelf = [t \in Tx |-> None]
  /\ seen = [t \in Tx |-> NothingSeen]
  /\ waiting = Request

\* A request comes in: the transaction begins and reads the status of the
\* order or batch, without a lock.
Begin(t) ==
  /\ running[t] = None
  /\ \E r \in waiting :
       /\ Admitted(r)
       /\ running' = [running EXCEPT ![t] = r]
       /\ todo' = [todo EXCEPT ![t] = Program(r)]
       /\ waiting' = waiting \ {r}
  /\ UNCHANGED <<cell, status, cellOwner, docOwner, draft, draftStatus, shelf, seen>>

\* grantReservation: one conditional UPDATE.  reserveFromStock insists on the
\* whole amount and throws otherwise, reserveCapped takes what there is.
GrantStatement(t) ==
  /\ At(t, {"grant", "insist"})
  /\ LET st == Head(todo[t])
         c == View(t, st.product)
     IN  /\ st.op = "insist" => Granted(c, st.n) = st.n
         /\ Write(t, st.product, Grant(c, "STOCK", running[t].doc, st.n))

\* The other end of reserveFromStock.
GrantTooSmall(t) ==
  /\ At(t, {"insist"})
  /\ ~ Blocked(t)
  /\ LET st == Head(todo[t]) IN Granted(View(t, st.product), st.n) # st.n
  /\ RollBack(t)

\* applyMovement: the stock is written; an increase is then offered to the
\* orders that are in production now.  A start goes on to close its holds.
Move(t) ==
  /\ At(t, {"move"})
  /\ LET st == Head(todo[t])
         p == st.product
         next == CASE st.n > 0 /\ InProduction(t) # {} -> <<Turns(p, InProduction(t), st.n)>>
                   [] running[t].kind = "start" -> Closings(p, seen[t][p])
                   [] OTHER -> <<>>
     IN  /\ Lock(t, p, [View(t, p) EXCEPT !.qty = @ + st.n])
         /\ Continue(t, next \o Tail(todo[t]))
  /\ UNCHANGED seen

\* topUp, one order, the oldest of those left: it is granted what it still
\* waits for, out of what the orders before it have left.
TopUpTurn(t) ==
  /\ At(t, {"turns"})
  /\ LET st == Head(todo[t])
         o == Oldest(st.orders)
         c == View(t, st.product)
         want == Least(st.n, Outstanding(c, o, Need[o][st.product]))
         others == st.orders \ {o}
         next == IF others = {} THEN <<>> ELSE <<Turns(st.product, others, st.n - Granted(c, want))>>
     IN  /\ Lock(t, st.product, Grant(c, "PURCHASE", o, want))
         /\ Continue(t, next \o Tail(todo[t]))
  /\ UNCHANGED seen

\* start, first pass, one line: the stock row is read, then, by a statement of
\* its own, what the order of the batch holds.
ReadStock(t) ==
  /\ At(t, {"check"})
  /\ shelf[t] = None
  /\ LET c == View(t, Head(todo[t]).product)
     IN  shelf' = [shelf EXCEPT ![t] = [qty |-> c.qty, reserved |-> c.reserved]]
  /\ UNCHANGED <<rows, cellOwner, docOwner, draft, draftStatus, running, todo, seen, waiting>>

\* What it holds may have changed since the row was read.  The shortfall of any
\* line refuses the start.
Check(t) ==
  /\ At(t, {"check"})
  /\ shelf[t] # None
  /\ LET st == Head(todo[t])
         c == View(t, st.product)
         o == OrderOfRequest(running[t])
     IN  /\ Enough(shelf[t], Held(c, o), st.n)
         /\ seen' = [seen EXCEPT ![t][st.product] = Closing(c, o, st.n)]
  /\ Read(t, Tail(todo[t]))

CheckFails(t) ==
  /\ At(t, {"check"})
  /\ shelf[t] # None
  /\ LET st == Head(todo[t])
         mine == Held(View(t, st.product), OrderOfRequest(running[t]))
     IN  ~ Enough(shelf[t], mine, st.n)
  /\ RollBack(t)

\* releaseAllForOrder lists the rows to release.
ListHolds(t) ==
  /\ At(t, {"list"})
  /\ LET held(p, s) == View(t, p).hold[s][running[t].doc]
         found == {[product |-> h[1], source |-> h[2], n |-> held(h[1], h[2])] :
                     h \in {k \in Product \X Source : held(k[1], k[2]) > 0}}
         next == IF found = {} THEN <<>> ELSE <<Releases(found)>>
     IN  Read(t, next \o Tail(todo[t]))
  /\ UNCHANGED seen

\* How much of n the reservation of an order holds, read without a lock.
Actual(t, p, s, n) == Least(n, View(t, p).hold[s][OrderOfRequest(running[t])])

\* release, first half, for a row of the list, which is in no particular order.
ReadRelease(t) ==
  /\ At(t, {"releases"})
  /\ \E row \in Head(todo[t]).rows :
       LET others == Head(todo[t]).rows \ {row}
           actual == Actual(t, row.product, row.source, row.n)
           write == IF actual <= 0 THEN <<>> ELSE <<Stmt("unhold", row.product, row.source, actual)>>
           next == IF others = {} THEN <<>> ELSE <<Releases(others)>>
       IN  Read(t, write \o (next \o Tail(todo[t])))
  /\ UNCHANGED seen

\* consume, first half.
ReadConsume(t) ==
  /\ At(t, {"consume"})
  /\ LET st == Head(todo[t])
         actual == Actual(t, st.product, st.source, st.n)
         write == IF actual <= 0 THEN <<>> ELSE <<Stmt("use", st.product, st.source, actual)>>
     IN  Read(t, write \o Tail(todo[t]))
  /\ UNCHANGED seen

\* release and consume, second half: the UPDATEs, under the lock.
WriteHold(t) ==
  /\ At(t, {"unhold", "use"})
  /\ LET st == Head(todo[t])
         c == View(t, st.product)
         o == OrderOfRequest(running[t])
     IN  Write(t, st.product, IF st.op = "unhold" THEN Unheld(c, st.source, o, st.n)
                              ELSE Used(c, st.source, o, st.n))

\* The status of the order or batch, whatever it has become since it was read.
WriteStatus(t) ==
  /\ At(t, {"status"})
  /\ LET d == running[t].doc
     IN  /\ docOwner[d] \in {None, t}
         /\ docOwner' = [docOwner EXCEPT ![d] = t]
         /\ draftStatus' = [draftStatus EXCEPT ![d] = StatusAfter(running[t])]
  /\ todo' = [todo EXCEPT ![t] = Tail(@)]
  /\ UNCHANGED <<cell, status, cellOwner, draft, running, shelf, seen, waiting>>

Commit(t) ==
  /\ running[t] # None
  /\ todo[t] = <<>>
  /\ cell' = [p \in Product |-> View(t, p)]
  /\ status' = [d \in Doc |-> StatusView(t, d)]
  /\ EmptyHanded(t)
  /\ UNCHANGED <<draft, draftStatus, waiting>>

\* The request fails elsewhere in its handler, its client or the server goes
\* away, or its 60 seconds are over.
Fail(t) == running[t] # None /\ RollBack(t)

\* Connections that wait for each other in a circle: the database ends one.
Circle(S) == S # {} /\ (\A t \in S : Blocked(t)) /\ {Blocker(t) : t \in S} = S

BreakDeadlock(t) ==
  /\ \E S \in SUBSET Tx : t \in S /\ Circle(S)
  /\ RollBack(t)

Statements(t) ==
  \/ GrantStatement(t) \/ GrantTooSmall(t) \/ Move(t) \/ TopUpTurn(t)
  \/ ReadStock(t) \/ Check(t) \/ CheckFails(t)
  \/ ListHolds(t) \/ ReadRelease(t) \/ ReadConsume(t) \/ WriteHold(t) \/ WriteStatus(t) \/ Commit(t)

Next == \E t \in Tx : Begin(t) \/ Statements(t) \/ BreakDeadlock(t) \/ Fail(t)

\* The server executes what it has begun and the database looks for deadlocks;
\* nothing makes a request come in or fail.
Fairness == \A t \in Tx : WF_vars(Statements(t)) /\ WF_vars(BreakDeadlock(t))

Spec == Init /\ [][Next]_vars /\ Fairness

-----------------------------------------------------------------------------
(* Properties. *)

StockRow == [qty: Int, reserved: Nat]
IntCell == [qty: Int, reserved: Nat, hold: [Source -> [Order -> Int]], consumed: [Order -> Int]]

\* The types.  A row that nobody has locked has no draft of its own.
TransactionsTypeOK ==
  /\ cell \in [Product -> IntCell] /\ draft \in [Product -> IntCell]
  /\ status \in [Doc -> OrderStatus \cup BatchStatus]
  /\ draftStatus \in [Doc -> OrderStatus \cup BatchStatus]
  /\ cellOwner \in [Product -> Tx \cup {None}] /\ docOwner \in [Doc -> Tx \cup {None}]
  /\ running \in [Tx -> Request \cup {None}]
  /\ todo \in [Tx -> Seq(Statement)]
  /\ shelf \in [Tx -> StockRow \cup {None}]
  /\ seen \in [Tx -> [Product -> [Source -> Int]]]
  /\ waiting \subseteq Request
  /\ \A p \in Product : cellOwner[p] = None => draft[p] = cell[p]
  /\ \A d \in Doc : docOwner[d] = None => draftStatus[d] = status[d]

\* "total ACTIVE reservations against a (product, warehouse) must never exceed
\* its physical stock" (stock-reservation.service.ts:53), which an issue alone
\* may break: whatever runs at the same time, a transaction that leaves more
\* reserved than it found leaves no more reserved than there is.
GrantsFitCommitted ==
  [][\A p \in Product :
       cell'[p].reserved > cell[p].reserved => cell'[p].reserved <= cell'[p].qty]_vars

\* Two requests of which one releases what an order holds while the other
\* releases or consumes it.
EndTheSameHolds(r, s) ==
  /\ r.kind = "cancel"
  /\ s.kind \in {"cancel", "start"}
  /\ r.doc = OrderOfRequest(s)

\* Two requests that read and then write the status of one order or batch.
WriteTheSameStatus(r, s) ==
  /\ r.kind \in {"give", "start", "cancel"} /\ s.kind \in {"give", "start", "cancel"}
  /\ r.doc = s.doc

\* No two requests end the same holds or write the same status, whenever they
\* come in.
Apart == \A r, s \in Request : r # s => ~ EndTheSameHolds(r, s) /\ ~ WriteTheSameStatus(r, s)

\* While no two transactions end the same hold at the same time, the committed
\* reservedQty of a row is the sum of the committed reservations, and none of
\* those is negative.
CommittedTotalsMatch ==
  \A p \in Product :
    /\ cell[p].reserved = Total([o \in Order |-> Held(cell[p], o)], NumOrders)
    /\ \A s \in Source, o \in Order : cell[p].hold[s][o] >= 0

\* The committed rows change as if the requests ran one after the other.
Promise == INSTANCE Reservations WITH cell <- cell, status <- status
OneAfterTheOther == Promise!Spec

\* Every request that begins is answered: no lock is waited for for ever.
EveryRequestEnds == \A t \in Tx : running[t] # None ~> running[t] = None

\* "the availability pass above already guaranteed this"
\* (production-orders.service.ts:579): as long as nothing but starts takes
\* stock, a start that found its material takes no stock below zero.
StartsFindTheirMaterial == \A p \in Product : cell[p].qty >= 0

\* "cancelling an order releases every active reservation it was holding"
\* (customer-orders.service.ts:474), and none can be added afterwards, since a
\* top-up serves orders in production only: cancelled orders hold nothing.
CancelledOrdersHoldNothing ==
  \A p \in Product, o \in Order : status[o] = "CANCELLED" => Held(cell[p], o) = 0
=============================================================================
