-------------------------- MODULE StockRowsProofs --------------------------
(***************************************************************************)
(* What the statements of StockRows do to one cell, for any number of      *)
(* orders and any quantities: they keep reservedQty the sum of the         *)
(* reservations, and they never reserve more than what is free.            *)
(***************************************************************************)
EXTENDS StockRows, SumTheorems

\* reservedQty is the sum of the holds of all orders.
Matched(c) == c.reserved = Total([o \in Order |-> Held(c, o)], NumOrders)

GoodCell(c) == c \in Cell /\ Matched(c)

\* c2 is c with d more, or -d less, held by order o from source s.
HoldMoves(c, c2, s, o, d) ==
  /\ c2 \in Cell
  /\ c2.qty = c.qty
  /\ c2.reserved = c.reserved + d
  /\ c2.hold[s][o] = c.hold[s][o] + d
  /\ \A t \in Source, p \in Order : <<t, p>> # <<s, o>> => c2.hold[t][p] = c.hold[t][p]

\* c2 is c with reservations added, none of them beyond the physical stock.
Grew(c, c2) ==
  /\ c2.qty = c.qty
  /\ c2.reserved >= c.reserved
  /\ c2.reserved > c.reserved => c2.reserved <= c2.qty
  /\ c2.consumed = c.consumed

-----------------------------------------------------------------------------
LEMMA OrderRows == NumOrders \in Nat /\ Order = 1..NumOrders
BY NumOrdersAssumption DEF Order

LEMMA HeldNat ==
  ASSUME NEW c \in Cell, NEW o \in Order
  PROVE  /\ c.hold["STOCK"][o] \in Nat /\ c.hold["PURCHASE"][o] \in Nat
         /\ Held(c, o) \in Nat
BY DEF Cell, Source, Held

LEMMA HeldRows ==
  ASSUME NEW c \in Cell
  PROVE  /\ [o \in Order |-> Held(c, o)] \in [1..NumOrders -> Nat]
         /\ [o \in Order |-> Held(c, o)] \in [1..NumOrders -> Int]
<1>1. \A o \in Order : Held(c, o) \in Nat
  BY HeldNat
<1> QED
  BY <1>1, OrderRows

(***************************************************************************)
(* A hold and the running total that move together stay together.          *)
(***************************************************************************)
LEMMA HoldMovesMatched ==
  ASSUME NEW c, NEW c2, GoodCell(c), NEW s \in Source, NEW o \in Order, NEW d \in Int,
         HoldMoves(c, c2, s, o, d)
  PROVE  GoodCell(c2)
<1> DEFINE f == [p \in Order |-> Held(c, p)]
           e == [p \in Order |-> Held(c2, p)]
<1>1. c \in Cell /\ c2 \in Cell /\ c.reserved = Total(f, NumOrders)
  BY DEF GoodCell, Matched, HoldMoves
<1>2. f \in [1..NumOrders -> Int] /\ e \in [1..NumOrders -> Int]
  BY <1>1, HeldRows
<1>3. e[o] = f[o] + d
  <2>1. /\ c.hold["STOCK"][o] \in Nat /\ c.hold["PURCHASE"][o] \in Nat
        /\ c2.hold["STOCK"][o] \in Nat /\ c2.hold["PURCHASE"][o] \in Nat
    BY <1>1, HeldNat
  <2>2. CASE s = "STOCK"
    <3>1. c2.hold["STOCK"][o] = c.hold["STOCK"][o] + d
      BY <2>2 DEF HoldMoves
    <3>2. c2.hold["PURCHASE"][o] = c.hold["PURCHASE"][o]
      BY <2>2 DEF HoldMoves, Source
    <3> QED
      BY <2>1, <3>1, <3>2 DEF Held
  <2>3. CASE s = "PURCHASE"
    <3>1. c2.hold["PURCHASE"][o] = c.hold["PURCHASE"][o] + d
      BY <2>3 DEF HoldMoves
    <3>2. c2.hold["STOCK"][o] = c.hold["STOCK"][o]
      BY <2>3 DEF HoldMoves, Source
    <3> QED
      BY <2>1, <3>1, <3>2 DEF Held
  <2> QED
    BY <2>2, <2>3 DEF Source
<1>4. ASSUME NEW p \in 1..NumOrders, p # o PROVE e[p] = f[p]
  BY <1>4, OrderRows DEF HoldMoves, Held, Source
<1>5. Total(e, NumOrders) = Total(f, NumOrders) + d
  <2> HIDE DEF e, f
  <2> QED
    BY <1>2, <1>3, <1>4, OrderRows, TotalUpdate
<1>6. c2.reserved = c.reserved + d
  BY DEF HoldMoves
<1> QED
  BY <1>1, <1>5, <1>6 DEF GoodCell, Matched

(***************************************************************************)
(* No single hold exceeds the running total.                               *)
(***************************************************************************)
LEMMA HoldWithinReserved ==
  ASSUME NEW c, GoodCell(c), NEW s \in Source, NEW o \in Order
  PROVE  c.hold[s][o] <= c.reserved
<1> DEFINE f == [p \in Order |-> Held(c, p)]
<1>1. c \in Cell /\ c.reserved = Total(f, NumOrders)
  BY DEF GoodCell, Matched
<1>2. f \in [1..NumOrders -> Nat]
  BY <1>1, HeldRows
<1>3. f[o] <= Total(f, NumOrders)
  <2> HIDE DEF f
  <2> QED
    BY <1>2, OrderRows, RowWithinTotal
<1>4. f[o] = Held(c, o) /\ c.reserved \in Nat
  BY <1>1 DEF Cell
<1>5. c.hold[s][o] <= Held(c, o)
  BY <1>1, HeldNat DEF Held, Source
<1>6. c.hold[s][o] \in Nat /\ Held(c, o) \in Nat
  BY <1>1, HeldNat DEF Source
<1> QED
  BY <1>1, <1>3, <1>4, <1>5, <1>6

-----------------------------------------------------------------------------
(***************************************************************************)
(* grantReservation: the hold and the total grow by the same qty, and if   *)
(* they grow, not beyond the physical stock.                               *)
(***************************************************************************)
LEMMA GrantedBounds ==
  ASSUME NEW c \in Cell, NEW n \in Int
  PROVE  /\ Granted(c, n) \in Nat
         /\ n >= 0 => Granted(c, n) <= n
         /\ Granted(c, n) > 0 => c.reserved + Granted(c, n) <= c.qty
BY DEF Cell, Granted, Least, NonNegative, Available

LEMMA AdjustedRows ==
  ASSUME NEW hold \in [Source -> [Order -> Nat]], NEW s \in Source, NEW o \in Order,
         NEW d \in Int, hold[s][o] + d \in Nat
  PROVE  /\ Adjusted(hold, s, o, d) \in [Source -> [Order -> Nat]]
         /\ Adjusted(hold, s, o, d)[s][o] = hold[s][o] + d
         /\ \A t \in Source, p \in Order :
              <<t, p>> # <<s, o>> => Adjusted(hold, s, o, d)[t][p] = hold[t][p]
BY DEF Adjusted

LEMMA GrantMoves ==
  ASSUME NEW c \in Cell, NEW s \in Source, NEW o \in Order, NEW n \in Int
  PROVE  /\ HoldMoves(c, Grant(c, s, o, n), s, o, Granted(c, n))
         /\ Grew(c, Grant(c, s, o, n))
<1> DEFINE m == Granted(c, n)
           H == Adjusted(c.hold, s, o, m)
           c2 == Grant(c, s, o, n)
<1>1. m \in Nat /\ (m > 0 => c.reserved + m <= c.qty)
  BY GrantedBounds
<1>2. c2 = [qty |-> c.qty, reserved |-> c.reserved + m, hold |-> H, consumed |-> c.consumed]
  BY DEF Grant
<1>3. /\ c.qty \in Int /\ c.reserved \in Nat /\ c.consumed \in [Order -> Nat]
      /\ c.hold \in [Source -> [Order -> Nat]] /\ c.hold[s][o] \in Nat
  BY DEF Cell
<1>4. m \in Int /\ c.hold[s][o] + m \in Nat
  BY <1>1, <1>3
<1> HIDE DEF m, H, c2
<1>5. H \in [Source -> [Order -> Nat]]
  BY <1>3, <1>4, AdjustedRows DEF H
<1>6. /\ c2 \in Cell
      /\ c2.qty = c.qty /\ c2.reserved = c.reserved + m /\ c2.hold = H
      /\ c2.consumed = c.consumed
  BY <1>1, <1>2, <1>5, <1>3 DEF Cell
<1>7. /\ H[s][o] = c.hold[s][o] + m
      /\ \A t \in Source, p \in Order : <<t, p>> # <<s, o>> => H[t][p] = c.hold[t][p]
  BY <1>3, <1>4, AdjustedRows DEF H
<1>8. c.reserved \in Nat /\ c.qty \in Int
  BY DEF Cell
<1>9. HoldMoves(c, c2, s, o, m)
  BY <1>5, <1>6, <1>7 DEF HoldMoves
<1>10. Grew(c, c2)
  BY <1>1, <1>6, <1>8 DEF Grew
<1> QED
  BY <1>9, <1>10 DEF m, c2

LEMMA GrantGood ==
  ASSUME NEW c, GoodCell(c), NEW s \in Source, NEW o \in Order, NEW n \in Int
  PROVE  GoodCell(Grant(c, s, o, n)) /\ Grew(c, Grant(c, s, o, n))
<1>1. c \in Cell
  BY DEF GoodCell
<1>2. Granted(c, n) \in Int
  BY <1>1, GrantedBounds
<1> QED
  BY <1>1, <1>2, GrantMoves, HoldMovesMatched

-----------------------------------------------------------------------------
(***************************************************************************)
(* release and consume: hold and total shrink by the same qty; the         *)
(* GREATEST(.., 0) of the UPDATE never takes effect.                       *)
(***************************************************************************)
LEMMA ReleaseMoves ==
  ASSUME NEW c, GoodCell(c), NEW s \in Source, NEW o \in Order, NEW n \in Int
  PROVE  /\ Released(c, s, o, n) \in Nat
         /\ HoldMoves(c, Release(c, s, o, n), s, o, - Released(c, s, o, n))
<1> DEFINE m == Released(c, s, o, n)
           H == Adjusted(c.hold, s, o, - m)
           c2 == Release(c, s, o, n)
<1>1. /\ c.qty \in Int /\ c.reserved \in Nat /\ c.consumed \in [Order -> Nat]
      /\ c.hold \in [Source -> [Order -> Nat]] /\ c.hold[s][o] \in Nat
  BY DEF GoodCell, Cell
<1>2. m \in Nat /\ m <= c.hold[s][o]
  BY <1>1 DEF Released, Least, NonNegative
<1>3. m <= c.reserved
  BY <1>1, <1>2, HoldWithinReserved
<1>4. c2 = [qty |-> c.qty, reserved |-> c.reserved - m, hold |-> H, consumed |-> c.consumed]
  <2>1. NonNegative(c.reserved - m) = c.reserved - m
    BY <1>1, <1>2, <1>3 DEF NonNegative
  <2> HIDE DEF m
  <2>2. c2 = [qty |-> c.qty, reserved |-> NonNegative(c.reserved - m), hold |-> H,
              consumed |-> c.consumed]
    BY DEF Release, m
  <2> QED
    BY <2>1, <2>2
<1> HIDE DEF m, H, c2
<1>5. - m \in Int /\ c.hold[s][o] + (- m) \in Nat
  BY <1>1, <1>2
<1>6. H \in [Source -> [Order -> Nat]]
  BY <1>1, <1>5, AdjustedRows DEF H
<1>7. /\ c2 \in Cell
      /\ c2.qty = c.qty /\ c2.reserved = c.reserved + (- m) /\ c2.hold = H
  BY <1>1, <1>2, <1>3, <1>4, <1>6 DEF Cell
<1>8. /\ H[s][o] = c.hold[s][o] + (- m)
      /\ \A t \in Source, p \in Order : <<t, p>> # <<s, o>> => H[t][p] = c.hold[t][p]
  BY <1>1, <1>5, AdjustedRows DEF H
<1>9. HoldMoves(c, c2, s, o, - m)
  BY <1>7, <1>8 DEF HoldMoves
<1> QED
  BY <1>2, <1>9 DEF m, c2

LEMMA ReleaseGood ==
  ASSUME NEW c, GoodCell(c), NEW s \in Source, NEW o \in Order, NEW n \in Int
  PROVE  LET c2 == Release(c, s, o, n)
         IN  GoodCell(c2) /\ c2.qty = c.qty /\ c2.reserved <= c.reserved
<1>1. Released(c, s, o, n) \in Nat /\ - Released(c, s, o, n) \in Int
  BY ReleaseMoves
<1>2. HoldMoves(c, Release(c, s, o, n), s, o, - Released(c, s, o, n))
  BY ReleaseMoves
<1>3. GoodCell(Release(c, s, o, n))
  BY <1>1, <1>2, HoldMovesMatched
<1>4. c.reserved \in Nat
  BY DEF GoodCell, Cell
<1> QED
  BY <1>1, <1>2, <1>3, <1>4 DEF HoldMoves

LEMMA ConsumeGood ==
  ASSUME NEW c, GoodCell(c), NEW s \in Source, NEW o \in Order, NEW n \in Int
  PROVE  LET c2 == Consume(c, s, o, n)
         IN  GoodCell(c2) /\ c2.qty = c.qty /\ c2.reserved <= c.reserved
<1> DEFINE r == Release(c, s, o, n)
           m == Released(c, s, o, n)
           c2 == Consume(c, s, o, n)
<1>1. GoodCell(r) /\ r.qty = c.qty /\ r.reserved <= c.reserved /\ m \in Nat
  BY ReleaseGood, ReleaseMoves
<1>2. c2 = [r EXCEPT !.consumed[o] = r.consumed[o] + m]
  BY DEF Consume
<1> HIDE DEF r, m, c2
<1>3. r \in Cell
  BY <1>1 DEF GoodCell
<1>4. /\ c2 \in Cell /\ c2.qty = r.qty /\ c2.reserved = r.reserved
      /\ c2.hold = r.hold
  BY <1>1, <1>2, <1>3 DEF Cell
<1>5. Matched(c2)
  <2>1. \A p \in Order : Held(c2, p) = Held(r, p)
    BY <1>4 DEF Held
  <2>2. [p \in Order |-> Held(c2, p)] = [p \in Order |-> Held(r, p)]
    BY <2>1
  <2> QED
    BY <1>1, <1>4, <2>2 DEF GoodCell, Matched
<1> QED
  BY <1>1, <1>4, <1>5 DEF GoodCell, c2

LEMMA ReleaseAllGood ==
  ASSUME NEW c, GoodCell(c), NEW o \in Order
  PROVE  LET c2 == ReleaseAll(c, o)
         IN  GoodCell(c2) /\ c2.qty = c.qty /\ c2.reserved <= c.reserved
<1> DEFINE c1 == Release(c, "STOCK", o, c.hold["STOCK"][o])
           c2 == Release(c1, "PURCHASE", o, c1.hold["PURCHASE"][o])
<1>1. "STOCK" \in Source /\ "PURCHASE" \in Source
  BY DEF Source
<1>2. c.hold["STOCK"][o] \in Int
  BY HeldNat DEF GoodCell
<1>3. GoodCell(c1) /\ c1.qty = c.qty /\ c1.reserved <= c.reserved
  BY <1>1, <1>2, ReleaseGood
<1>4. ReleaseAll(c, o) = c2
  BY DEF ReleaseAll
<1> HIDE DEF c1
<1>5. c1.hold["PURCHASE"][o] \in Int
  BY <1>3, HeldNat DEF GoodCell
<1>6. GoodCell(c2) /\ c2.qty = c1.qty /\ c2.reserved <= c1.reserved
  BY <1>1, <1>3, <1>5, ReleaseGood
<1>7. c.reserved \in Nat /\ c1.reserved \in Nat /\ c2.reserved \in Nat
  BY <1>3, <1>6 DEF GoodCell, Cell
<1> HIDE DEF c2
<1> QED
  BY <1>3, <1>4, <1>6, <1>7

(***************************************************************************)
(* After releaseAllForOrder the order holds nothing, so the cascade of its *)
(* deletion takes no hold with it.                                         *)
(***************************************************************************)
LEMMA ReleaseAllEmpties ==
  ASSUME NEW c, GoodCell(c), NEW o \in Order, NEW s \in Source
  PROVE  ReleaseAll(c, o).hold[s][o] = 0
<1> DEFINE c1 == Release(c, "STOCK", o, c.hold["STOCK"][o])
           c2 == Release(c1, "PURCHASE", o, c1.hold["PURCHASE"][o])
<1>1. "STOCK" \in Source /\ "PURCHASE" \in Source
  BY DEF Source
<1>2. ASSUME NEW t \in Source, NEW d, GoodCell(d)
      PROVE  Released(d, t, o, d.hold[t][o]) = d.hold[t][o] /\ d.hold[t][o] \in Nat
  <2>1. d.hold[t][o] \in Nat
    BY <1>2 DEF GoodCell, Cell
  <2> QED
    BY <2>1 DEF Released, Least, NonNegative
<1>3. /\ c.hold["STOCK"][o] \in Nat
      /\ GoodCell(c1)
      /\ HoldMoves(c, c1, "STOCK", o, - c.hold["STOCK"][o])
  <2> DEFINE m == c.hold["STOCK"][o]
  <2>1. m \in Nat /\ Released(c, "STOCK", o, m) = m
    BY <1>1, <1>2
  <2>2. c1 = Release(c, "STOCK", o, m)
    OBVIOUS
  <2> HIDE DEF m, c1
  <2>3. /\ GoodCell(Release(c, "STOCK", o, m))
        /\ HoldMoves(c, Release(c, "STOCK", o, m), "STOCK", o, - Released(c, "STOCK", o, m))
    BY <1>1, <2>1, ReleaseGood, ReleaseMoves
  <2> QED
    BY <2>1, <2>2, <2>3 DEF m
<1> HIDE DEF c1
<1>4. /\ c1.hold["PURCHASE"][o] \in Nat
      /\ HoldMoves(c1, c2, "PURCHASE", o, - c1.hold["PURCHASE"][o])
  <2> DEFINE m == c1.hold["PURCHASE"][o]
  <2>1. m \in Nat /\ Released(c1, "PURCHASE", o, m) = m
    BY <1>1, <1>2, <1>3
  <2>2. c2 = Release(c1, "PURCHASE", o, m)
    OBVIOUS
  <2> HIDE DEF m, c2
  <2>3. HoldMoves(c1, Release(c1, "PURCHASE", o, m), "PURCHASE", o,
                  - Released(c1, "PURCHASE", o, m))
    BY <1>1, <1>3, <2>1, ReleaseMoves
  <2> QED
    BY <2>1, <2>2, <2>3 DEF m
<1>5. ReleaseAll(c, o) = c2
  BY DEF ReleaseAll, c1
<1> HIDE DEF c2
<1>6. c1.hold["STOCK"][o] = 0
  BY <1>3 DEF HoldMoves
<1>7. c2.hold["PURCHASE"][o] = 0 /\ c2.hold["STOCK"][o] = c1.hold["STOCK"][o]
  BY <1>1, <1>4 DEF HoldMoves
<1> QED
  BY <1>5, <1>6, <1>7 DEF Source

LEMMA DeletedGood ==
  ASSUME NEW c, GoodCell(c), NEW o \in Order
  PROVE  LET c2 == Forget(ReleaseAll(c, o), o)
         IN  GoodCell(c2) /\ c2.qty = c.qty /\ c2.reserved <= c.reserved
<1> DEFINE r == ReleaseAll(c, o)
           c2 == Forget(r, o)
<1>1. GoodCell(r) /\ r.qty = c.qty /\ r.reserved <= c.reserved
  BY ReleaseAllGood
<1>2. \A s \in Source : r.hold[s][o] = 0
  BY ReleaseAllEmpties
<1> HIDE DEF r
<1>3. /\ r.qty \in Int /\ r.reserved \in Nat /\ r.consumed \in [Order -> Nat]
      /\ r.hold \in [Source -> [Order -> Nat]]
  BY <1>1 DEF GoodCell, Cell
<1>4. [s \in Source |-> [r.hold[s] EXCEPT ![o] = 0]] = r.hold
  BY <1>2, <1>3
<1>5. c2 = [qty |-> r.qty, reserved |-> r.reserved, hold |-> r.hold,
            consumed |-> [r.consumed EXCEPT ![o] = 0]]
  BY <1>4 DEF Forget
<1> HIDE DEF c2
<1>6. /\ c2 \in Cell /\ c2.qty = r.qty /\ c2.reserved = r.reserved
      /\ c2.hold = r.hold
  BY <1>3, <1>5 DEF Cell
<1>7. Matched(c2)
  <2>1. \A p \in Order : Held(c2, p) = Held(r, p)
    BY <1>6 DEF Held
  <2>2. [p \in Order |-> Held(c2, p)] = [p \in Order |-> Held(r, p)]
    BY <2>1
  <2> QED
    BY <1>1, <1>6, <2>2 DEF GoodCell, Matched
<1> QED
  BY <1>1, <1>6, <1>7 DEF GoodCell, c2, r

-----------------------------------------------------------------------------
(***************************************************************************)
(* topUp, for any number of waiting orders: each turn grants, so the whole *)
(* loop keeps the cell good and reserves only what is free.                *)
(***************************************************************************)
LEMMA GrewTransitive ==
  ASSUME NEW c \in Cell, NEW d \in Cell, NEW e \in Cell, Grew(c, d), Grew(d, e)
  PROVE  Grew(c, e)
BY DEF Grew, Cell

LEMMA OutstandingNat ==
  ASSUME NEW c \in Cell, NEW o \in Order, NEW required \in Nat
  PROVE  Outstanding(c, o, required) \in Nat
<1>1. Held(c, o) \in Nat /\ c.consumed[o] \in Nat
  BY HeldNat DEF Cell
<1> QED
  BY <1>1 DEF Outstanding, NonNegative

\* What a turn of the loop starts from and ends with, c being the cell that
\* the loop began with.
ArrivalsFrom(c) == {a \in [cell : Cell, left : Int] : GoodCell(a.cell) /\ Grew(c, a.cell)}

LEMMA TurnKeeps ==
  ASSUME NEW c \in Cell, NEW a \in ArrivalsFrom(c), NEW need \in [Order -> Nat], NEW o \in Order
  PROVE  Turn(a, need, o) \in ArrivalsFrom(c)
<1> DEFINE want == Least(a.left, Outstanding(a.cell, o, need[o]))
           d == Grant(a.cell, "PURCHASE", o, want)
           rest == a.left - Granted(a.cell, want)
<1>1. a.cell \in Cell /\ a.left \in Int /\ GoodCell(a.cell) /\ Grew(c, a.cell)
  BY DEF ArrivalsFrom
<1>2. want \in Int
  BY <1>1, OutstandingNat DEF Least
<1>3. Turn(a, need, o) = [cell |-> d, left |-> rest]
  BY DEF Turn
<1> HIDE DEF want
<1>4. GoodCell(d) /\ Grew(a.cell, d)
  BY <1>1, <1>2, GrantGood DEF Source
<1>5. Granted(a.cell, want) \in Nat
  BY <1>1, <1>2, GrantedBounds
<1>6. rest \in Int
  BY <1>1, <1>5
<1> HIDE DEF d, rest
<1>7. d \in Cell
  BY <1>4 DEF GoodCell
<1>8. Grew(c, d)
  BY <1>1, <1>4, <1>7, GrewTransitive
<1> QED
  BY <1>3, <1>4, <1>6, <1>7, <1>8 DEF ArrivalsFrom

\* The states of the loop, one after each order's turn.
LEMMA TopUpUnfolds ==
  ASSUME NEW c, GoodCell(c), NEW need \in [Order -> Nat], NEW n \in Int, NEW preferred
  PROVE  \E h \in [0..NumOrders -> ArrivalsFrom(c)] :
           /\ h[0] = IF preferred \in Order THEN Turn([cell |-> c, left |-> n], need, preferred)
                     ELSE [cell |-> c, left |-> n]
           /\ \A k \in 1..NumOrders :
                h[k] = IF k = preferred THEN h[k - 1] ELSE Turn(h[k - 1], need, k)
           /\ TopUp(c, need, n, preferred) = h[NumOrders].cell
<1> DEFINE S == ArrivalsFrom(c)
           arrived == [cell |-> c, left |-> n]
           first == IF preferred \in Order THEN Turn(arrived, need, preferred) ELSE arrived
           N == NumOrders
           Serve(x, k) == IF k = preferred THEN x ELSE Turn(x, need, k)
           g == [y \in S \X (1..N) |-> Serve(y[1], y[2])]
           P(h) == h = [k \in 0..N |-> IF k = 0 THEN first
                                       ELSE IF k = preferred THEN h[k - 1]
                                       ELSE Turn(h[k - 1], need, k)]
           chosen == CHOOSE h : P(h)
<1>1. c \in Cell /\ c.reserved \in Nat
  BY DEF GoodCell, Cell
<1>2. Order = 1..N /\ N \in Nat
  BY OrderRows
<1>3. arrived \in S
  BY <1>1 DEF ArrivalsFrom, Grew
<1>4. first \in S
  BY <1>1, <1>3, TurnKeeps
<1>5. ASSUME NEW x \in S, NEW k \in 1..N PROVE Serve(x, k) \in S
  BY <1>1, <1>2, TurnKeeps
<1>6. \A x \in S, k \in 1..N : g[<<x, k>>] = Serve(x, k) /\ g[<<x, k>>] \in S
  <2> HIDE DEF Serve, S
  <2> QED
    BY <1>5
<1> HIDE DEF g, S
<1>7. PICK h : Unfolds(h, g, S, first, N)
  <2>1. Steps(g, S, N)
    BY <1>6 DEF Steps
  <2> HIDE DEF first, N
  <2> QED
    BY <1>2, <1>4, <2>1, RecursionExists
<1>8. P(h)
  <2>1. /\ h \in [0..N -> S] /\ h[0] = first
        /\ \A k \in 1..N : h[k] = g[<<h[k - 1], k>>]
    BY <1>7 DEF Unfolds
  <2>2. ASSUME NEW k \in 1..N PROVE h[k] = Serve(h[k - 1], k)
    <3>1. k - 1 \in 0..N
      BY <1>2
    <3>2. h[k - 1] \in S
      BY <2>1, <3>1
    <3> HIDE DEF Serve
    <3> QED
      BY <2>1, <3>2, <1>6
  <2> HIDE DEF first
  <2> QED
    BY <1>2, <2>1, <2>2
<1>9. P(chosen)
  BY <1>8
<1>10. TopUp(c, need, n, preferred) = chosen[N].cell
  BY DEF TopUp
<1> HIDE DEF chosen
<1>11. chosen[0] = first /\ \A k \in 1..N : chosen[k] = Serve(chosen[k - 1], k)
  <2> HIDE DEF first
  <2> QED
    BY <1>2, <1>9
<1>12. chosen[0] \in S /\ \A k \in 1..N : chosen[k - 1] \in S => chosen[k] \in S
  <2> HIDE DEF first, Serve
  <2> QED
    BY <1>4, <1>5, <1>11
<1>13. \A k \in 0..N : chosen[k] \in S
  <2> HIDE DEF N
  <2> QED
    BY <1>2, <1>12, StaysIn
<1>14. chosen \in [0..N -> S]
  <2> HIDE DEF first, Serve, N
  <2> QED
    BY <1>9, <1>13
<1> QED
  BY <1>10, <1>11, <1>14 DEF S

LEMMA TopUpGood ==
  ASSUME NEW c, GoodCell(c), NEW need \in [Order -> Nat], NEW n \in Int, NEW preferred
  PROVE  GoodCell(TopUp(c, need, n, preferred)) /\ Grew(c, TopUp(c, need, n, preferred))
<1>1. PICK h \in [0..NumOrders -> ArrivalsFrom(c)] :
        /\ h[0] = IF preferred \in Order THEN Turn([cell |-> c, left |-> n], need, preferred)
                  ELSE [cell |-> c, left |-> n]
        /\ \A k \in 1..NumOrders :
             h[k] = IF k = preferred THEN h[k - 1] ELSE Turn(h[k - 1], need, k)
        /\ TopUp(c, need, n, preferred) = h[NumOrders].cell
  BY TopUpUnfolds
<1>2. h[NumOrders] \in ArrivalsFrom(c)
  BY OrderRows
<1> QED
  BY <1>1, <1>2 DEF ArrivalsFrom

(***************************************************************************)
(* applyMovement changes the physical stock by d and keeps the cell good;  *)
(* if it reserves more, then within the stock it leaves.                   *)
(***************************************************************************)
LEMMA MovedGood ==
  ASSUME NEW c, GoodCell(c), NEW need \in [Order -> Nat], NEW d \in Int, NEW preferred
  PROVE  LET c2 == Moved(c, need, d, preferred)
         IN  /\ GoodCell(c2) /\ c2.qty = c.qty + d /\ c2.reserved >= c.reserved
             /\ c2.consumed = c.consumed
             /\ c2.reserved > c.reserved => c2.reserved <= c2.qty
<1> DEFINE w == [c EXCEPT !.qty = c.qty + d]
           c2 == Moved(c, need, d, preferred)
<1>1. c \in Cell /\ c.reserved \in Nat /\ c.qty \in Int
  BY DEF GoodCell, Cell
<1>2. /\ w \in Cell /\ w.qty = c.qty + d /\ w.reserved = c.reserved
      /\ w.hold = c.hold /\ w.consumed = c.consumed
  BY <1>1 DEF Cell
<1>3. c2 = IF d > 0 THEN TopUp(w, need, d, preferred) ELSE w
  BY DEF Moved
<1> HIDE DEF w, c2
<1>4. GoodCell(w)
  <2>1. \A p \in Order : Held(w, p) = Held(c, p)
    BY <1>2 DEF Held
  <2>2. [p \in Order |-> Held(w, p)] = [p \in Order |-> Held(c, p)]
    BY <2>1
  <2> QED
    BY <1>2, <2>2 DEF GoodCell, Matched
<1>5. GoodCell(c2) /\ Grew(w, c2)
  <2>1. CASE d > 0
    BY <1>3, <1>4, <2>1, TopUpGood
  <2>2. CASE ~ (d > 0)
    BY <1>1, <1>2, <1>3, <1>4, <2>2 DEF Grew
  <2> QED
    BY <2>1, <2>2
<1> QED
  BY <1>2, <1>5 DEF Grew, c2

-----------------------------------------------------------------------------
(* Whom arriving stock serves. *)

\* Every order with more of the arriving stock in c2 than in c holds, or has
\* used, no more than it needs, and no older order still waits.
InTurn(c, c2, need) ==
  \A o \in Order : c2.hold["PURCHASE"][o] > c.hold["PURCHASE"][o] =>
    /\ Held(c2, o) + c2.consumed[o] <= need[o]
    /\ \A old \in 1..(o - 1) : Outstanding(c2, old, need[old]) = 0

LEMMA AvailableInt ==
  ASSUME NEW c \in Cell
  PROVE  Available(c) \in Int /\ c.reserved \in Nat /\ c.qty \in Int
BY DEF Available, Cell

\* After n more arrived in c, either all n are reserved in c2, or nothing is
\* free, or nobody waits.
NobodyLeft(c, c2, need, n) ==
  \/ c2.reserved - c.reserved = n
  \/ Available(c2) <= 0
  \/ \A o \in Order : Outstanding(c2, o, need[o]) = 0

\* What the loop over the orders has done to c, where n arrived, when the
\* orders 1..k have had their turns.
Dealt(c, need, n, a, k) ==
  /\ a.cell \in Cell /\ a.left \in Nat
  /\ a.cell.reserved = c.reserved + (n - a.left)
  /\ \A o \in Order : o > k => a.cell.hold["PURCHASE"][o] = c.hold["PURCHASE"][o]
  /\ InTurn(c, a.cell, need)
  /\ \/ a.left = 0
     \/ Available(a.cell) <= 0
     \/ \A o \in 1..k : Outstanding(a.cell, o, need[o]) = 0

(***************************************************************************)
(* The turn of one order changes what is outstanding of no other, and it   *)
(* ends with nothing left, with nothing free or with nothing outstanding.  *)
(***************************************************************************)
LEMMA TurnDeals ==
  ASSUME NEW c \in Cell, NEW left \in Nat, NEW need \in [Order -> Nat], NEW o \in Order
  PROVE  LET t == Turn([cell |-> c, left |-> left], need, o)
         IN  /\ t.cell \in Cell /\ t.left \in Nat
             /\ t.cell.reserved - c.reserved = left - t.left
             /\ \A p \in Order : p # o =>
                  /\ t.cell.hold["PURCHASE"][p] = c.hold["PURCHASE"][p]
                  /\ Outstanding(t.cell, p, need[p]) = Outstanding(c, p, need[p])
                  /\ Held(t.cell, p) + t.cell.consumed[p] = Held(c, p) + c.consumed[p]
             /\ t.cell.hold["PURCHASE"][o] >= c.hold["PURCHASE"][o]
             /\ t.cell.hold["PURCHASE"][o] > c.hold["PURCHASE"][o] =>
                  Held(t.cell, o) + t.cell.consumed[o] <= need[o] /\ left > 0 /\ Available(c) > 0
             /\ t.left = 0 \/ Available(t.cell) <= 0 \/ Outstanding(t.cell, o, need[o]) = 0
             /\ t.left <= left /\ Available(t.cell) <= Available(c)
<1> DEFINE want == Least(left, Outstanding(c, o, need[o]))
           m == Granted(c, want)
           d == Grant(c, "PURCHASE", o, want)
           t == Turn([cell |-> c, left |-> left], need, o)
<1>1. Outstanding(c, o, need[o]) \in Nat
  BY OutstandingNat
<1>2. want \in Nat /\ want <= left /\ want <= Outstanding(c, o, need[o])
      /\ (want = left \/ want = Outstanding(c, o, need[o]))
  <2> DEFINE out == Outstanding(c, o, need[o])
  <2> HIDE DEF out
  <2> QED
    BY <1>1 DEF Least, out
<1>3. t.cell = d /\ t.left = left - m
  BY DEF Turn
<1> HIDE DEF want, t
<1>4. m \in Nat /\ m <= want /\ (m > 0 => Available(c) > 0)
      /\ (m = want \/ m = NonNegative(Available(c)))
  <2>1. c.qty \in Int /\ c.reserved \in Nat
    BY DEF Cell
  <2>2. Available(c) \in Int
    BY <2>1 DEF Available
  <2> QED
    BY <1>2, <2>2 DEF Granted, Least, NonNegative
<1>5. /\ HoldMoves(c, d, "PURCHASE", o, m) /\ Grew(c, d)
  BY <1>2, GrantMoves DEF Source
<1> HIDE DEF m, d
<1>6. /\ d \in Cell /\ d.qty = c.qty /\ d.reserved = c.reserved + m /\ d.consumed = c.consumed
      /\ d.hold["PURCHASE"][o] = c.hold["PURCHASE"][o] + m
      /\ d.hold["STOCK"][o] = c.hold["STOCK"][o]
      /\ \A p \in Order : p # o => /\ d.hold["PURCHASE"][p] = c.hold["PURCHASE"][p]
                                   /\ d.hold["STOCK"][p] = c.hold["STOCK"][p]
  <2>1. "STOCK" \in Source /\ "PURCHASE" \in Source /\ "STOCK" # "PURCHASE"
    BY DEF Source
  <2>2. \A p \in Order : <<"STOCK", p>> # <<"PURCHASE", o>>
    BY <2>1
  <2>3. \A p \in Order : p # o => <<"PURCHASE", p>> # <<"PURCHASE", o>>
    OBVIOUS
  <2> QED
    BY <1>5, <2>1, <2>2, <2>3 DEF HoldMoves, Grew
<1>7. /\ c.qty \in Int /\ c.reserved \in Nat /\ c.consumed[o] \in Nat /\ need[o] \in Nat
      /\ c.hold["PURCHASE"][o] \in Nat /\ c.hold["STOCK"][o] \in Nat
  BY HeldNat DEF Cell
<1>8. Available(d) = Available(c) - m /\ Available(c) \in Int
  BY <1>4, <1>6, <1>7 DEF Available
<1>9. /\ Held(d, o) = Held(c, o) + m /\ Held(c, o) \in Nat
  BY <1>4, <1>6, <1>7 DEF Held
<1>10. ASSUME NEW p \in Order, p # o
       PROVE  /\ d.hold["PURCHASE"][p] = c.hold["PURCHASE"][p]
              /\ Outstanding(d, p, need[p]) = Outstanding(c, p, need[p])
              /\ Held(d, p) + d.consumed[p] = Held(c, p) + c.consumed[p]
  BY <1>6, <1>10 DEF Outstanding, Held
<1>11. m > 0 => Held(d, o) + d.consumed[o] <= need[o] /\ left > 0
  <2> SUFFICES ASSUME m > 0 PROVE Held(d, o) + d.consumed[o] <= need[o] /\ left > 0
    OBVIOUS
  <2>1. Outstanding(c, o, need[o]) > 0 /\ left > 0
    BY <1>1, <1>2, <1>4
  <2>2. Outstanding(c, o, need[o]) = need[o] - (Held(c, o) + c.consumed[o])
    BY <1>7, <1>9, <2>1 DEF Outstanding, NonNegative
  <2> QED
    BY <1>1, <1>2, <1>4, <1>6, <1>7, <1>9, <2>1, <2>2
<1>12. left - m = 0 \/ Available(d) <= 0 \/ Outstanding(d, o, need[o]) = 0
  <2>1. CASE m = want /\ want = left
    BY <1>2, <2>1
  <2>2. CASE m = want /\ want = Outstanding(c, o, need[o])
    <3>1. need[o] - (Held(d, o) + d.consumed[o]) = (need[o] - (Held(c, o) + c.consumed[o])) - m
      BY <1>4, <1>6, <1>7, <1>9
    <3>2. need[o] - (Held(c, o) + c.consumed[o]) <= m
      BY <1>7, <1>9, <2>2 DEF Outstanding, NonNegative
    <3>3. need[o] - (Held(d, o) + d.consumed[o]) \in Int /\ need[o] - (Held(d, o) + d.consumed[o]) <= 0
      BY <1>4, <1>7, <1>9, <3>1, <3>2
    <3> QED
      BY <3>3 DEF Outstanding, NonNegative
  <2>3. CASE m = NonNegative(Available(c))
    BY <1>8, <2>3 DEF NonNegative
  <2> QED
    BY <1>2, <1>4, <2>1, <2>2, <2>3
<1>13. left - m \in Nat /\ left - m <= left /\ d.reserved - c.reserved = left - (left - m)
  BY <1>2, <1>4, <1>6, <1>7
<1>14. /\ d.hold["PURCHASE"][o] >= c.hold["PURCHASE"][o]
       /\ d.hold["PURCHASE"][o] > c.hold["PURCHASE"][o] => m > 0
       /\ Available(d) <= Available(c)
  BY <1>4, <1>6, <1>7, <1>8
<1> QED
  BY <1>3, <1>4, <1>6, <1>10, <1>11, <1>12, <1>13, <1>14 DEF t

LEMMA TurnKeepsDealt ==
  ASSUME NEW c \in Cell, NEW need \in [Order -> Nat], NEW n \in Nat, NEW k \in 1..NumOrders,
         NEW a, Dealt(c, need, n, a, k - 1), a = [cell |-> a.cell, left |-> a.left]
  PROVE  Dealt(c, need, n, Turn(a, need, k), k)
<1> DEFINE t == Turn(a, need, k)
<1>1. /\ a.cell \in Cell /\ a.left \in Nat
      /\ a.cell.reserved = c.reserved + (n - a.left)
      /\ \A o \in Order : o > k - 1 => a.cell.hold["PURCHASE"][o] = c.hold["PURCHASE"][o]
      /\ InTurn(c, a.cell, need)
      /\ \/ a.left = 0
         \/ Available(a.cell) <= 0
         \/ \A o \in 1..(k - 1) : Outstanding(a.cell, o, need[o]) = 0
  BY DEF Dealt
<1>2. k \in Order /\ Order = 1..NumOrders /\ NumOrders \in Nat
  BY OrderRows
<1>3. /\ t.cell \in Cell /\ t.left \in Nat
      /\ t.cell.reserved - a.cell.reserved = a.left - t.left
      /\ \A p \in Order : p # k =>
           /\ t.cell.hold["PURCHASE"][p] = a.cell.hold["PURCHASE"][p]
           /\ Outstanding(t.cell, p, need[p]) = Outstanding(a.cell, p, need[p])
           /\ Held(t.cell, p) + t.cell.consumed[p] = Held(a.cell, p) + a.cell.consumed[p]
      /\ t.cell.hold["PURCHASE"][k] >= a.cell.hold["PURCHASE"][k]
      /\ t.cell.hold["PURCHASE"][k] > a.cell.hold["PURCHASE"][k] =>
           Held(t.cell, k) + t.cell.consumed[k] <= need[k] /\ a.left > 0 /\ Available(a.cell) > 0
      /\ t.left = 0 \/ Available(t.cell) <= 0 \/ Outstanding(t.cell, k, need[k]) = 0
      /\ t.left <= a.left /\ Available(t.cell) <= Available(a.cell)
  <2> DEFINE c1 == a.cell
             left == a.left
  <2>1. c1 \in Cell /\ left \in Nat /\ a = [cell |-> c1, left |-> left]
    BY <1>1
  <2> HIDE DEF c1, left
  <2> DEFINE u == Turn([cell |-> c1, left |-> left], need, k)
  <2>2. u = t
    BY <2>1
  <2>3. /\ u.cell \in Cell /\ u.left \in Nat
        /\ u.cell.reserved - c1.reserved = left - u.left
        /\ \A p \in Order : p # k =>
             /\ u.cell.hold["PURCHASE"][p] = c1.hold["PURCHASE"][p]
             /\ Outstanding(u.cell, p, need[p]) = Outstanding(c1, p, need[p])
             /\ Held(u.cell, p) + u.cell.consumed[p] = Held(c1, p) + c1.consumed[p]
        /\ u.cell.hold["PURCHASE"][k] >= c1.hold["PURCHASE"][k]
        /\ u.cell.hold["PURCHASE"][k] > c1.hold["PURCHASE"][k] =>
             Held(u.cell, k) + u.cell.consumed[k] <= need[k] /\ left > 0 /\ Available(c1) > 0
        /\ u.left = 0 \/ Available(u.cell) <= 0 \/ Outstanding(u.cell, k, need[k]) = 0
        /\ u.left <= left /\ Available(u.cell) <= Available(c1)
    BY <1>2, <2>1, TurnDeals
  <2> HIDE DEF u, t
  <2> QED
    BY <2>2, <2>3 DEF c1, left
<1> HIDE DEF t
<1>4. \A o \in Order : /\ a.cell.hold["PURCHASE"][o] \in Nat /\ t.cell.hold["PURCHASE"][o] \in Nat
                       /\ c.hold["PURCHASE"][o] \in Nat
  BY <1>1, <1>3, HeldNat
<1>5. /\ Available(a.cell) \in Int /\ Available(t.cell) \in Int
      /\ a.cell.reserved \in Nat /\ t.cell.reserved \in Nat /\ c.reserved \in Nat
  BY <1>1, <1>3, AvailableInt
<1>6. ASSUME NEW o \in Order, t.cell.hold["PURCHASE"][o] > c.hold["PURCHASE"][o]
      PROVE  /\ Held(t.cell, o) + t.cell.consumed[o] <= need[o]
             /\ \A old \in 1..(o - 1) : Outstanding(t.cell, old, need[old]) = 0
  <2>1. CASE o = k
    <3>1. t.cell.hold["PURCHASE"][k] > a.cell.hold["PURCHASE"][k]
      BY <1>1, <1>2, <1>6, <2>1
    <3>2. \A old \in 1..(k - 1) : Outstanding(a.cell, old, need[old]) = 0
      BY <1>1, <1>3, <1>5, <3>1
    <3>3. \A old \in 1..(k - 1) : old \in Order /\ old # k
      BY <1>2
    <3> QED
      BY <1>3, <2>1, <3>1, <3>2, <3>3
  <2>2. CASE o # k
    <3>1. a.cell.hold["PURCHASE"][o] > c.hold["PURCHASE"][o]
      BY <1>3, <1>6, <2>2
    <3>2. o <= k - 1
      BY <1>1, <1>2, <1>4, <3>1
    <3>3. \A old \in 1..(o - 1) : old \in Order /\ old # k
      BY <1>2, <3>2
    <3>4. /\ Held(a.cell, o) + a.cell.consumed[o] <= need[o]
          /\ \A old \in 1..(o - 1) : Outstanding(a.cell, old, need[old]) = 0
      BY <1>1, <3>1 DEF InTurn
    <3> QED
      BY <1>3, <2>2, <3>3, <3>4
  <2> QED
    BY <2>1, <2>2
<1>7. \/ t.left = 0
      \/ Available(t.cell) <= 0
      \/ \A o \in 1..k : Outstanding(t.cell, o, need[o]) = 0
  <2>1. CASE a.left = 0 \/ Available(a.cell) <= 0
    BY <1>1, <1>3, <1>5, <2>1
  <2>2. CASE \A o \in 1..(k - 1) : Outstanding(a.cell, o, need[o]) = 0
    <3>1. \A o \in 1..k : o = k \/ (o \in 1..(k - 1) /\ o \in Order /\ o # k)
      BY <1>2
    <3> QED
      BY <1>3, <2>2, <3>1
  <2> QED
    BY <1>1, <2>1, <2>2
<1>8. \A o \in Order : o > k => t.cell.hold["PURCHASE"][o] = c.hold["PURCHASE"][o]
  BY <1>1, <1>2, <1>3
<1>9. t.cell.reserved = c.reserved + (n - t.left)
  <2>1. t.cell.reserved - a.cell.reserved = a.left - t.left /\ t.left \in Nat
    BY <1>3
  <2>2. a.cell.reserved = c.reserved + (n - a.left) /\ a.left \in Nat
    BY <1>1
  <2>3. PICK x, y, z, l, m \in Int :
          x = t.cell.reserved /\ y = a.cell.reserved /\ z = c.reserved /\ l = t.left /\ m = a.left
    BY <1>5, <2>1, <2>2
  <2>4. x = z + (n - l)
    BY <2>1, <2>2, <2>3
  <2> QED
    BY <2>3, <2>4
<1> QED
  BY <1>3, <1>6, <1>7, <1>8, <1>9 DEF Dealt, InTurn, t

(***************************************************************************)
(* topUp without a preferred order serves the orders in turn and leaves    *)
(* nobody waiting for what it leaves free.                                 *)
(***************************************************************************)
LEMMA TopUpServes ==
  ASSUME NEW c, GoodCell(c), NEW need \in [Order -> Nat], NEW n \in Nat
  PROVE  LET c2 == TopUp(c, need, n, NoOrder)
         IN  InTurn(c, c2, need) /\ NobodyLeft(c, c2, need, n)
<1> DEFINE arrived == [cell |-> c, left |-> n]
<1>1. c \in Cell /\ n \in Int /\ NoOrder \notin Order /\ Order = 1..NumOrders /\ NumOrders \in Nat
  BY OrderRows DEF GoodCell, NoOrder
<1>2. PICK h \in [0..NumOrders -> ArrivalsFrom(c)] :
        /\ h[0] = arrived
        /\ \A k \in 1..NumOrders : h[k] = Turn(h[k - 1], need, k)
        /\ TopUp(c, need, n, NoOrder) = h[NumOrders].cell
  <2>3. n \in Int /\ arrived = [cell |-> c, left |-> n]
    BY <1>1
  <2> HIDE DEF arrived
  <2>4. \E h \in [0..NumOrders -> ArrivalsFrom(c)] :
          /\ h[0] = IF NoOrder \in Order THEN Turn([cell |-> c, left |-> n], need, NoOrder)
                    ELSE [cell |-> c, left |-> n]
          /\ \A k \in 1..NumOrders :
               h[k] = IF k = NoOrder THEN h[k - 1] ELSE Turn(h[k - 1], need, k)
          /\ TopUp(c, need, n, NoOrder) = h[NumOrders].cell
    BY <2>3, TopUpUnfolds
  <2>1. PICK h \in [0..NumOrders -> ArrivalsFrom(c)] :
        /\ h[0] = IF NoOrder \in Order THEN Turn(arrived, need, NoOrder) ELSE arrived
        /\ \A k \in 1..NumOrders :
             h[k] = IF k = NoOrder THEN h[k - 1] ELSE Turn(h[k - 1], need, k)
        /\ TopUp(c, need, n, NoOrder) = h[NumOrders].cell
    BY <2>3, <2>4
  <2>2. \A k \in 1..NumOrders : k # NoOrder
    BY <1>1
  <2>5. h[0] = arrived /\ \A k \in 1..NumOrders : h[k] = Turn(h[k - 1], need, k)
    BY <1>1, <2>1, <2>2
  <2> QED
    BY <2>1, <2>5
<1>3. Dealt(c, need, n, arrived, 0)
  <2>1. c.reserved \in Nat /\ \A o \in Order : c.hold["PURCHASE"][o] \in Nat
    BY <1>1, HeldNat DEF Cell
  <2>2. InTurn(c, c, need)
    BY <2>1 DEF InTurn
  <2> QED
    BY <1>1, <2>1, <2>2 DEF Dealt
<1> HIDE DEF arrived
<1> DEFINE S == {k \in 0..NumOrders : Dealt(c, need, n, h[k], k)}
           id == [k \in 0..NumOrders |-> k]
<1>4. id[0] \in S
  BY <1>1, <1>2, <1>3
<1>5. ASSUME NEW k \in 1..NumOrders, id[k - 1] \in S PROVE id[k] \in S
  <2>1. k - 1 \in 0..NumOrders /\ k \in 0..NumOrders
    BY <1>1
  <2>2. Dealt(c, need, n, h[k - 1], k - 1)
    BY <1>5, <2>1
  <2>3. h[k - 1] = [cell |-> h[k - 1].cell, left |-> h[k - 1].left]
    BY <2>1 DEF ArrivalsFrom
  <2>4. PICK a : a = h[k - 1]
    OBVIOUS
  <2>5. Dealt(c, need, n, a, k - 1) /\ a = [cell |-> a.cell, left |-> a.left]
    BY <2>2, <2>3, <2>4
  <2>6. Dealt(c, need, n, Turn(a, need, k), k)
    BY <1>1, <2>5, TurnKeepsDealt
  <2> QED
    BY <1>2, <2>1, <2>4, <2>6
<1>6. id[NumOrders] \in S
  <2> HIDE DEF S, id
  <2>1. \A k \in 0..NumOrders : id[k] \in S
    BY <1>1, <1>4, <1>5, StaysIn
  <2> QED
    BY <1>1, <2>1
<1>7. PICK a : a = h[NumOrders] /\ Dealt(c, need, n, a, NumOrders)
  BY <1>1, <1>6
<1>8. a.cell \in Cell /\ a.cell.reserved = c.reserved + (n - a.left) /\ c.reserved \in Nat /\ a.left \in Nat
  BY <1>1, <1>7 DEF Dealt, Cell
<1>9. NobodyLeft(c, a.cell, need, n)
  BY <1>1, <1>7, <1>8 DEF Dealt, NobodyLeft
<1>10. InTurn(c, a.cell, need)
  BY <1>7 DEF Dealt
<1> QED
  BY <1>2, <1>7, <1>9, <1>10

\* What a step does to a cell, when needs are what they are after it.
Arrives(c, c2, need) ==
  /\ InTurn(c, c2, need)
  /\ c2.qty > c.qty => NobodyLeft(c, c2, need, c2.qty - c.qty)

\* Nothing arrived.
Shrinks(c, c2) ==
  /\ c2.qty <= c.qty
  /\ \A o \in Order : c2.hold["PURCHASE"][o] <= c.hold["PURCHASE"][o]

LEMMA ShrinkArrives ==
  ASSUME NEW c \in Cell, NEW c2 \in Cell, Shrinks(c, c2), NEW need
  PROVE  Arrives(c, c2, need)
<1>1. c.qty \in Int /\ c2.qty \in Int
  BY AvailableInt
<1>2. \A o \in Order : c.hold["PURCHASE"][o] \in Nat /\ c2.hold["PURCHASE"][o] \in Nat
  BY HeldNat
<1> QED
  BY <1>1, <1>2 DEF Shrinks, Arrives, InTurn

LEMMA ShrinkReflexive ==
  ASSUME NEW c \in Cell
  PROVE  Shrinks(c, c)
<1>1. c.qty \in Int /\ \A o \in Order : c.hold["PURCHASE"][o] \in Nat
  BY HeldNat, AvailableInt
<1> QED
  BY <1>1 DEF Shrinks

LEMMA StillArrives ==
  ASSUME NEW c \in Cell, NEW need
  PROVE  Arrives(c, c, need)
BY ShrinkReflexive, ShrinkArrives

LEMMA ShrinkTransitive ==
  ASSUME NEW c \in Cell, NEW d \in Cell, NEW e \in Cell, Shrinks(c, d), Shrinks(d, e)
  PROVE  Shrinks(c, e)
<1>1. c.qty \in Int /\ d.qty \in Int /\ e.qty \in Int
  BY AvailableInt
<1>2. \A o \in Order : /\ c.hold["PURCHASE"][o] \in Nat /\ d.hold["PURCHASE"][o] \in Nat
                       /\ e.hold["PURCHASE"][o] \in Nat
  BY HeldNat
<1> QED
  BY <1>1, <1>2 DEF Shrinks

(***************************************************************************)
(* applyMovement serves the waiting orders in turn from what arrives.      *)
(***************************************************************************)
LEMMA MovedArrives ==
  ASSUME NEW c, GoodCell(c), NEW need \in [Order -> Nat], NEW d \in Int
  PROVE  Arrives(c, Moved(c, need, d, NoOrder), need)
<1> DEFINE w == [c EXCEPT !.qty = c.qty + d]
           c2 == Moved(c, need, d, NoOrder)
<1>1. c \in Cell /\ c.reserved \in Nat /\ c.qty \in Int
  BY DEF GoodCell, Cell
<1>2. /\ w \in Cell /\ w.qty = c.qty + d /\ w.reserved = c.reserved
      /\ w.hold = c.hold /\ w.consumed = c.consumed
  BY <1>1 DEF Cell
<1>3. c2 = IF d > 0 THEN TopUp(w, need, d, NoOrder) ELSE w
  BY DEF Moved
<1>4. GoodCell(c2) /\ c2.qty = c.qty + d
  BY MovedGood
<1> HIDE DEF w, c2
<1>5. GoodCell(w)
  <2>1. \A p \in Order : Held(w, p) = Held(c, p)
    BY <1>2 DEF Held
  <2>2. [p \in Order |-> Held(w, p)] = [p \in Order |-> Held(c, p)]
    BY <2>1
  <2> QED
    BY <1>2, <2>2 DEF GoodCell, Matched
<1>6. ASSUME d > 0 PROVE Arrives(c, c2, need)
  <2>1. d \in Nat
    BY <1>6
  <2>2. c2 = TopUp(w, need, d, NoOrder)
    BY <1>3, <1>6
  <2>3. InTurn(w, c2, need) /\ NobodyLeft(w, c2, need, d)
    BY <1>5, <2>1, <2>2, TopUpServes
  <2>4. InTurn(c, c2, need)
    BY <1>2, <2>3 DEF InTurn
  <2>5. NobodyLeft(c, c2, need, c2.qty - c.qty)
    <3>1. c2.qty - c.qty = d
      BY <1>1, <1>4
    <3> QED
      BY <1>2, <2>3, <3>1 DEF NobodyLeft
  <2> QED
    BY <2>4, <2>5 DEF Arrives
<1>7. ASSUME ~ (d > 0) PROVE Arrives(c, c2, need)
  <2>1. c2 = w
    BY <1>3, <1>7
  <2>2. \A o \in Order : c.hold["PURCHASE"][o] \in Nat
    BY <1>1, HeldNat
  <2>3. Shrinks(c, c2)
    BY <1>1, <1>2, <1>7, <2>1, <2>2 DEF Shrinks
  <2>4. c2 \in Cell /\ c \in Cell
    BY <1>1, <1>2, <2>1
  <2> QED
    BY <2>3, <2>4, ShrinkArrives
<1> QED
  BY <1>6, <1>7 DEF c2

(***************************************************************************)
(* What the other statements do to a cell is no arrival.                   *)
(***************************************************************************)
LEMMA GrantShrinks ==
  ASSUME NEW c \in Cell, NEW o \in Order, NEW n \in Int
  PROVE  Shrinks(c, Grant(c, "STOCK", o, n))
<1> DEFINE c2 == Grant(c, "STOCK", o, n)
<1>1. HoldMoves(c, c2, "STOCK", o, Granted(c, n))
  BY GrantMoves DEF Source
<1> HIDE DEF c2
<1>2. \A p \in Order : <<"PURCHASE", p>> # <<"STOCK", o>>
  OBVIOUS
<1>3. c2.qty = c.qty /\ \A p \in Order : c2.hold["PURCHASE"][p] = c.hold["PURCHASE"][p]
  BY <1>1, <1>2 DEF HoldMoves, Source
<1>4. c.qty \in Int /\ \A p \in Order : c.hold["PURCHASE"][p] \in Nat
  BY HeldNat, AvailableInt
<1> QED
  BY <1>3, <1>4 DEF Shrinks, c2

LEMMA ReleaseShrinks ==
  ASSUME NEW c, GoodCell(c), NEW s \in Source, NEW o \in Order, NEW n \in Int
  PROVE  Shrinks(c, Release(c, s, o, n))
<1> DEFINE c2 == Release(c, s, o, n)
           m == Released(c, s, o, n)
<1>1. m \in Nat /\ HoldMoves(c, c2, s, o, - m)
  BY ReleaseMoves
<1> HIDE DEF c2, m
<1>2. c.qty \in Int /\ \A p \in Order : c.hold["PURCHASE"][p] \in Nat
  BY HeldNat, AvailableInt DEF GoodCell
<1>3. ASSUME NEW p \in Order PROVE c2.hold["PURCHASE"][p] <= c.hold["PURCHASE"][p]
  <2>1. CASE s = "PURCHASE" /\ p = o
    <3>1. c2.hold["PURCHASE"][p] = c.hold["PURCHASE"][p] + (- m)
      BY <1>1, <2>1 DEF HoldMoves
    <3> QED
      BY <1>1, <1>2, <3>1
  <2>2. CASE ~ (s = "PURCHASE" /\ p = o)
    <3>1. <<"PURCHASE", p>> # <<s, o>> /\ "PURCHASE" \in Source
      BY <2>2 DEF Source
    <3>2. c2.hold["PURCHASE"][p] = c.hold["PURCHASE"][p]
      BY <1>1, <3>1 DEF HoldMoves
    <3> QED
      BY <1>2, <3>2
  <2> QED
    BY <2>1, <2>2
<1>4. c2.qty <= c.qty
  BY <1>1, <1>2 DEF HoldMoves
<1> QED
  BY <1>3, <1>4 DEF Shrinks, c2

LEMMA ReleaseAllShrinks ==
  ASSUME NEW c, GoodCell(c), NEW o \in Order
  PROVE  Shrinks(c, ReleaseAll(c, o))
<1> DEFINE c1 == Release(c, "STOCK", o, c.hold["STOCK"][o])
           c2 == Release(c1, "PURCHASE", o, c1.hold["PURCHASE"][o])
<1>1. "STOCK" \in Source /\ "PURCHASE" \in Source
  BY DEF Source
<1>2. c.hold["STOCK"][o] \in Int
  BY HeldNat DEF GoodCell
<1>3. GoodCell(c1) /\ Shrinks(c, c1)
  BY <1>1, <1>2, ReleaseGood, ReleaseShrinks
<1>4. ReleaseAll(c, o) = c2
  BY DEF ReleaseAll
<1> HIDE DEF c1
<1>5. c1.hold["PURCHASE"][o] \in Int
  BY <1>3, HeldNat DEF GoodCell
<1>6. GoodCell(c2) /\ Shrinks(c1, c2)
  BY <1>1, <1>3, <1>5, ReleaseGood, ReleaseShrinks
<1> HIDE DEF c2
<1>7. c \in Cell /\ c1 \in Cell /\ c2 \in Cell
  BY <1>3, <1>6 DEF GoodCell
<1> QED
  BY <1>3, <1>4, <1>6, <1>7, ShrinkTransitive

LEMMA ForgetShrinks ==
  ASSUME NEW c \in Cell, NEW o \in Order
  PROVE  Shrinks(c, Forget(c, o))
<1>1. c.qty \in Int /\ c.hold["PURCHASE"] \in [Order -> Nat]
  BY DEF Cell, Source
<1>2. \A p \in Order : c.hold["PURCHASE"][p] \in Nat
  BY <1>1
<1>3. Forget(c, o).qty = c.qty /\ Forget(c, o).hold["PURCHASE"] = [c.hold["PURCHASE"] EXCEPT ![o] = 0]
  BY DEF Forget, Source
<1> QED
  BY <1>1, <1>2, <1>3 DEF Shrinks
=============================================================================
