------------------------- MODULE ProcurementProofs -------------------------
(***************************************************************************)
(* Theorems about Procurement.                                             *)
(***************************************************************************)
EXTENDS Procurement, SumTheorems, FiniteSetTheorems, TLAPS

-----------------------------------------------------------------------------
(* The first ids of a set. *)

\* f numbers the n smallest elements of set in their order.
Numbers(f, set, n) ==
  /\ \A i, j \in 1..n : i < j => f[i] < f[j]
  /\ \A x \in set : (\E i \in 1..n : f[i] = x) \/ \A i \in 1..n : f[i] < x

LEMMA Smallest ==
  ASSUME NEW set \in SUBSET Nat, set # {}
  PROVE  \E m \in set : \A x \in set : m <= x
<1> DEFINE S == {n \in Nat : \A k \in 0..n : k \notin set}
<1> SUFFICES ASSUME \A m \in set : \E x \in set : ~ (m <= x) PROVE FALSE
  OBVIOUS
<1>1. 0 \in S
  OBVIOUS
<1>2. \A n \in Nat : n \in S => n + 1 \in S
  <2> TAKE n \in Nat
  <2> HAVE n \in S
  <2>1. n + 1 \notin set
    <3> SUFFICES ASSUME n + 1 \in set PROVE FALSE
      OBVIOUS
    <3>1. PICK x \in set : ~ (n + 1 <= x)
      OBVIOUS
    <3> QED
      BY <3>1
  <2> QED
    BY <2>1
<1> HIDE DEF S
<1>3. \A n \in Nat : n \in S
  BY <1>1, <1>2, SetInduction
<1>4. PICK x \in set : x \in Nat
  OBVIOUS
<1>5. x \in S
  BY <1>3, <1>4
<1>6. x \in 0..x
  BY <1>4
<1> QED
  BY <1>4, <1>5, <1>6 DEF S

(***************************************************************************)
(* The enumeration of the n smallest ids exists, if there are n of them.   *)
(***************************************************************************)
LEMMA NumbersExist ==
  ASSUME NEW set \in SUBSET Nat, IsFiniteSet(set), NEW n \in Nat, n <= Cardinality(set)
  PROVE  \E f \in [1..n -> set] : Numbers(f, set, n)
<1> DEFINE S == {k \in Nat : k <= Cardinality(set) => \E f \in [1..k -> set] : Numbers(f, set, k)}
<1>0. Cardinality(set) \in Nat
  BY FS_CardinalityType
<1>1. 0 \in S
  <2>1. [i \in 1..0 |-> 0] \in [1..0 -> set] /\ Numbers([i \in 1..0 |-> 0], set, 0)
    BY DEF Numbers
  <2> QED
    BY <2>1
<1>2. \A k \in Nat : k \in S => k + 1 \in S
  <2> TAKE k \in Nat
  <2> SUFFICES ASSUME k \in S, k + 1 <= Cardinality(set)
               PROVE  \E f \in [1..(k + 1) -> set] : Numbers(f, set, k + 1)
    OBVIOUS
  <2>1. PICK f \in [1..k -> set] : Numbers(f, set, k)
    BY <1>0
  <2> DEFINE rest == set \ {f[i] : i \in 1..k}
  <2>2. rest # {}
    <3> SUFFICES ASSUME rest = {} PROVE FALSE
      OBVIOUS
    <3>1. f \in Surjection(1..k, set)
      BY DEF Surjection
    <3>2. Cardinality(set) <= k
      BY <3>1, FS_SurjCardinalityBound DEF ExistsSurjection
    <3> QED
      BY <1>0, <3>2
  <2>3. PICK m \in rest : \A x \in rest : m <= x
    BY <2>2, Smallest
  <2> DEFINE g == [i \in 1..(k + 1) |-> IF i <= k THEN f[i] ELSE m]
  <2>4. g \in [1..(k + 1) -> set]
    OBVIOUS
  <2>5. \A i, j \in 1..(k + 1) : i < j => g[i] < g[j]
    BY <2>1, <2>3 DEF Numbers
  <2>6. ASSUME NEW x \in set PROVE (\E i \in 1..(k + 1) : g[i] = x) \/ \A i \in 1..(k + 1) : g[i] < x
    <3>1. CASE \E i \in 1..k : f[i] = x
      <4>1. PICK i \in 1..k : f[i] = x
        BY <3>1
      <4>2. i \in 1..(k + 1) /\ g[i] = x
        BY <4>1
      <4> QED
        BY <4>2
    <3>2. CASE x = m
      <4>1. k + 1 \in 1..(k + 1) /\ g[k + 1] = x
        BY <3>2
      <4> QED
        BY <4>1
    <3>3. CASE x \in rest /\ x # m
      <4>1. \A i \in 1..k : f[i] < x
        BY <2>1, <3>3 DEF Numbers
      <4>2. m < x
        BY <2>3, <3>3
      <4> QED
        BY <4>1, <4>2
    <3> QED
      BY <3>1, <3>2, <3>3
  <2>7. Numbers(g, set, k + 1)
    BY <2>5, <2>6 DEF Numbers
  <2> QED
    BY <2>4, <2>7
<1> HIDE DEF S
<1>3. \A k \in Nat : k \in S
  BY <1>1, <1>2, SetInduction
<1> QED
  BY <1>3 DEF S

LEMMA FirstsNumber ==
  ASSUME NEW set \in SUBSET Nat, IsFiniteSet(set), NEW n \in Nat, n <= Cardinality(set)
  PROVE  Firsts(set, n) \in [1..n -> set] /\ Numbers(Firsts(set, n), set, n)
BY NumbersExist DEF Firsts, Numbers

(***************************************************************************)
(* Two places do not get the same id.                                      *)
(***************************************************************************)
LEMMA FirstsDiffer ==
  ASSUME NEW set \in SUBSET Nat, IsFiniteSet(set), NEW n \in Nat, n <= Cardinality(set)
  PROVE  \A i, j \in 1..n : Firsts(set, n)[i] = Firsts(set, n)[j] => i = j
<1>1. PICK f : f = Firsts(set, n)
  OBVIOUS
<1>2. f \in [1..n -> set] /\ Numbers(f, set, n)
  BY <1>1, FirstsNumber
<1>3. \A i, j \in 1..n : f[i] \in Nat /\ f[j] \in Nat /\ (i < j => f[i] < f[j])
  BY <1>2 DEF Numbers
<1>4. \A i, j \in 1..n : f[i] = f[j] => i = j
  BY <1>3
<1> QED
  BY <1>1, <1>4

(***************************************************************************)
(* All ids of a set have a place, if there are as many places.             *)
(***************************************************************************)
LEMMA FirstsCover ==
  ASSUME NEW set \in SUBSET Nat, IsFiniteSet(set)
  PROVE  \A x \in set : \E i \in 1..Cardinality(set) : Firsts(set, Cardinality(set))[i] = x
<1>0. PICK n : n = Cardinality(set)
  OBVIOUS
<1>1. n \in Nat /\ IsFiniteSet(1..n) /\ Cardinality(1..n) = n
  BY <1>0, FS_CardinalityType, FS_Interval
<1>2. PICK f : f = Firsts(set, n)
  OBVIOUS
<1>3. f \in [1..n -> set] /\ \A i, j \in 1..n : f[i] = f[j] => i = j
  BY <1>0, <1>1, <1>2, FirstsNumber, FirstsDiffer
<1>4. f \in Injection(1..n, set)
  BY <1>3 DEF Injection, IsInjective
<1>5. f \in Surjection(1..n, set)
  BY <1>0, <1>1, <1>4, FS_Injection
<1> QED
  BY <1>0, <1>2, <1>5 DEF Surjection

LEMMA OnlyEntries ==
  ASSUME NEW S, NEW n \in Nat, NEW seq, NEW kept \in SUBSET (1..n),
         \A i \in kept : seq[i] \in S
  PROVE  /\ IsFiniteSet(kept) /\ Cardinality(kept) \in Nat
         /\ Only(seq, kept) \in [1..Cardinality(kept) -> S]
         /\ Only(seq, kept) \in Seq(S) /\ Len(Only(seq, kept)) = Cardinality(kept)
         /\ Only(seq, kept) = <<>> <=> kept = {}
<1>0. IsFiniteSet(1..n)
  BY FS_Interval
<1>1. IsFiniteSet(kept) /\ Cardinality(kept) \in Nat
  BY <1>0, FS_Subset, FS_CardinalityType
<1>2. kept \in SUBSET Nat
  OBVIOUS
<1> DEFINE m == Cardinality(kept)
<1>3. Firsts(kept, m) \in [1..m -> kept]
  BY <1>1, <1>2, FirstsNumber
<1>4. Only(seq, kept) \in [1..m -> S]
  BY <1>3 DEF Only
<1>5. m = 0 <=> kept = {}
  BY <1>1, FS_EmptySet
<1> HIDE DEF m
<1>6. m \in Nat
  BY <1>1 DEF m
<1>7. Only(seq, kept) \in Seq(S) /\ Len(Only(seq, kept)) = m
  BY <1>4, <1>6
<1>8. Only(seq, kept) = <<>> <=> m = 0
  BY <1>6, <1>7
<1> QED
  BY <1>1, <1>4, <1>5, <1>7, <1>8 DEF m

LEMMA OnlySeq ==
  ASSUME NEW S, NEW n \in Nat, NEW seq, NEW kept \in SUBSET (1..n),
         \A i \in kept : seq[i] \in S
  PROVE  Only(seq, kept) \in Seq(S)
BY OnlyEntries

-----------------------------------------------------------------------------
(* The invariant. *)

RequestStatus == {"NONE", "DRAFT", "SENT", "CONVERTED", "CANCELLED"}
RequestLine == [id: LineId, qty: Nat \ {0}, needs: SUBSET Requirement, stocked: BOOLEAN]
RequestRow == [status: RequestStatus, lines: Seq(RequestLine)]

OrderStatus == {"NONE", "ORDERED", "PARTIAL", "DELIVERED"}
VersionStatus == {"PENDING", "PROPOSED", "CONFIRMED", "REJECTED", "SUPERSEDED"}
Version == [status: VersionStatus, total: Nat \ {0}]
OrderLine == [qty: Nat \ {0}, need: Requirement \cup {None}, from: LineId \cup {None},
              stocked: BOOLEAN, received: Nat, current: Nat, versions: Seq(Version)]
OrderRow == [status: OrderStatus, lines: Seq(OrderLine)]

\* The versions of a line's schedule all plan the same, there is one in force
\* if there are any, and at most one later one is proposed.  What came from a
\* request line is for a customer order.
ScheduleOK(x) ==
  /\ x.from # None => x.need # None
  /\ x.current \in {0} \cup DOMAIN x.versions
  /\ x.current = 0 => x.versions = <<>>
  /\ \A v \in DOMAIN x.versions :
       x.versions[v].total = x.versions[1].total /\ x.versions[v].total <= x.qty
  /\ \A v \in DOMAIN x.versions : x.versions[v].status = "PROPOSED" => v > x.current
  /\ \A v, w \in DOMAIN x.versions :
       x.versions[v].status = "PROPOSED" /\ x.versions[w].status = "PROPOSED" => v = w

AllFull(lines) == \A i \in DOMAIN lines : Full(lines[i])

OrderOK(x) ==
  /\ x \in OrderRow
  /\ x.status = "NONE" <=> x.lines = <<>>
  /\ \A i \in DOMAIN x.lines : ScheduleOK(x.lines[i])
  /\ x.status = "DELIVERED" => AllFull(x.lines)

\* What the lines that are stocked have received.
Received(lines) == Total(Stocked(lines, ReceivedOf(lines)), Len(lines))
PostedOK(n) == order[n].status # "NONE" => posted[n] = Received(order[n].lines)

Answers == {"confirm", "accept", "reject"}
TxOK(t) ==
  \/ t = Idle
  \/ t \in [kind: {"requests"}, op: {"create", "save"}, on: Request, form: Forms]
  \/ t \in [kind: {"requests"}, op: {"mark"}, on: Request, status: {"SENT", "CANCELLED"}]
  \/ t \in [kind: {"requests"}, op: {"remove"}, on: Request]
  \/ t \in [kind: {"requests"}, op: {"convert"}, on: Request, lines: Seq(RequestLine)]
  \/ t \in [kind: {"orders"}, op: {"receive"}, on: Order, amount: Seq(Nat)]
  \/ t \in [kind: {"orders"}, op: {"received"}, on: Order, amount: Seq(Nat),
            status: {"ORDERED", "PARTIAL", "DELIVERED"}]
  \/ /\ t.kind = "schedules" /\ t.op = "first"
     /\ t = [kind |-> "schedules", op |-> "first", plan |-> t.plan]
     /\ t.plan \in [DOMAIN t.plan -> Nat \ {0}]
  \/ t \in [kind: {"schedules"}, op: Answers \cup {"propose", "numbered"}, line: Order \X (Nat \ {0}),
            version: Nat, total: Nat, current: Nat, count: Nat]

\* A receipt that is not committed yet is about an order that is still there,
\* and the status it found is right whatever else is received meanwhile.
ReceiptOK(t) ==
  LET x == order[t.on]
  IN  /\ t.op = "receive" => (x.status # "NONE" => DOMAIN t.amount = DOMAIN x.lines)
      /\ t.op = "received" =>
           /\ x.status # "NONE"
           /\ DOMAIN t.amount = DOMAIN x.lines
           /\ t.status = "DELIVERED" => AllFull(Plus(x.lines, t.amount))

\* A first schedule plans no more than is ordered.
FirstOK(t) == \A l \in DOMAIN t.plan : l \in Line => t.plan[l] <= Item(l).qty

\* An answer is about a version of a line, if that is still there, a decision
\* about one that is later than the one that was in force, and than any that
\* was decided about before.
AnswerOK(t) ==
  t.line \in Line =>
    LET x == Item(t.line)
    IN  /\ t.version \in DOMAIN x.versions
        /\ t.op \in {"propose", "numbered"} => t.total = x.versions[1].total
        /\ t.op = "accept" =>
             /\ t.version > t.current
             /\ t.current <= x.current
             /\ \A w \in DOMAIN x.versions : x.versions[w].status = "PROPOSED" => w >= t.version

LinkOK(t) ==
  /\ t.kind = "orders" => ReceiptOK(t)
  /\ t.kind = "schedules" => IF t.op = "first" THEN FirstOK(t) ELSE AnswerOK(t)

ProcInv ==
  /\ request \in [Request -> RequestRow]
  /\ claim \in [Requirement -> LineId \cup {None}]
  /\ order \in [Order -> OrderRow]
  /\ posted \in [Order -> Nat]
  /\ DOMAIN tx = Connection
  /\ \A n \in Order : OrderOK(order[n]) /\ PostedOK(n)
  /\ \A c \in Connection : TxOK(tx[c]) /\ LinkOK(tx[c])

-----------------------------------------------------------------------------
(* What a step may do to an order. *)

RowGrows(x, y) ==
  /\ y.qty = x.qty /\ x.received <= y.received /\ x.current <= y.current
  /\ y.current # x.current /\ x.current # 0 =>
       y.versions[y.current].status = "CONFIRMED" /\ y.versions[x.current].status = "SUPERSEDED"
  /\ DOMAIN x.versions \subseteq DOMAIN y.versions
  /\ \A v \in DOMAIN x.versions : y.versions[v].total = x.versions[v].total
  /\ \A w \in DOMAIN y.versions : y.versions[w].status = "PROPOSED" =>
       \/ w \in DOMAIN x.versions /\ x.versions[w].status = "PROPOSED"
       \/ \A v \in DOMAIN x.versions : w > v

OrderGrows(x, y) ==
  /\ y.status = "NONE" <=> x.status = "NONE"
  /\ DOMAIN y.lines = DOMAIN x.lines
  /\ \A i \in DOMAIN x.lines : RowGrows(x.lines[i], y.lines[i])

\* No receipt of n is under way; nothing is that concerns n.
Unreceived(n) == \A d \in Connection : Does(d, "orders", "received") => tx[d].on # n
Unreferenced(n) ==
  \A d \in Connection :
    /\ tx[d].kind = "orders" => tx[d].on # n
    /\ tx[d].kind = "schedules" => n \notin {l[1] : l \in LinesOf(tx[d])}

Moves(n) ==
  \/ OrderGrows(order[n], order'[n])
  \/ order'[n] = NoOrder /\ Unreceived(n)
  \/ order[n].status = "NONE" /\ Unreferenced(n)

Kept == ProcInv' /\ \A n \in Order : Moves(n)

LEMMA RowReflexive ==
  ASSUME NEW x \in OrderLine
  PROVE  RowGrows(x, x)
<1>1. x.received \in Nat /\ x.current \in Nat
  BY DEF OrderLine
<1> QED
  BY <1>1 DEF RowGrows

LEMMA OrderReflexive ==
  ASSUME NEW x \in OrderRow
  PROVE  OrderGrows(x, x)
<1>1. \A i \in DOMAIN x.lines : x.lines[i] \in OrderLine
  BY DEF OrderRow
<1> QED
  BY <1>1, RowReflexive DEF OrderGrows

LEMMA LineOf ==
  ASSUME NEW l \in Line
  PROVE  l = <<l[1], l[2]>> /\ l[1] \in Order /\ l[2] \in DOMAIN order[l[1]].lines
BY DEF Line

LEMMA OfLine ==
  ASSUME NEW n \in Order, NEW i \in DOMAIN order[n].lines
  PROVE  <<n, i>> \in Line
BY DEF Line

LEMMA ItemTyped ==
  ASSUME ProcInv, NEW l \in Line
  PROVE  Item(l) \in OrderLine /\ ScheduleOK(Item(l))
<1>1. l[1] \in Order /\ l[2] \in DOMAIN order[l[1]].lines
  BY LineOf
<1>2. OrderOK(order[l[1]])
  BY <1>1 DEF ProcInv
<1> QED
  BY <1>1, <1>2 DEF OrderOK, OrderRow, Item

(***************************************************************************)
(* A line there is after a step was there before and has grown, unless its *)
(* order is new and nothing under way concerns it.                         *)
(***************************************************************************)
LEMMA LineGrows ==
  ASSUME ProcInv, \A n \in Order : Moves(n), NEW l, (l \in Line)'
  PROVE  \/ l \in Line /\ RowGrows(Item(l), Item(l)')
         \/ l[1] \in Order /\ Unreferenced(l[1])
<1>1. l = <<l[1], l[2]>> /\ l[1] \in Order /\ l[2] \in DOMAIN order'[l[1]].lines
  BY DEF Line
<1>2. Moves(l[1])
  BY <1>1
<1>3. CASE OrderGrows(order[l[1]], order'[l[1]])
  <2>1. l[2] \in DOMAIN order[l[1]].lines
    BY <1>1, <1>3 DEF OrderGrows
  <2>2. l \in Line
    BY <1>1, <2>1, OfLine
  <2> QED
    BY <1>3, <2>1, <2>2 DEF OrderGrows, Item
<1>4. CASE order'[l[1]] = NoOrder
  BY <1>1, <1>4 DEF NoOrder
<1>5. CASE Unreferenced(l[1])
  BY <1>1, <1>5
<1> QED
  BY <1>2, <1>3, <1>4, <1>5 DEF Moves

LEMMA FirstStays ==
  ASSUME ProcInv, \A n \in Order : Moves(n), NEW c \in Connection, NEW t, t = tx[c],
         t.kind = "schedules", t.op = "first"
  PROVE  FirstOK(t)'
<1> SUFFICES ASSUME NEW l \in DOMAIN t.plan, (l \in Line)'
             PROVE  t.plan[l] <= Item(l)'.qty
  BY DEF FirstOK
<1>1. FirstOK(t)
  BY DEF ProcInv, LinkOK
<1>2. CASE l \in Line /\ RowGrows(Item(l), Item(l)')
  BY <1>1, <1>2 DEF FirstOK, RowGrows
<1>3. CASE l[1] \in Order /\ Unreferenced(l[1])
  <2>1. l[1] \in {m[1] : m \in LinesOf(tx[c])}
    BY DEF LinesOf
  <2> QED
    BY <1>3, <2>1 DEF Unreferenced
<1> QED
  BY <1>2, <1>3, LineGrows

LEMMA AnswerStays ==
  ASSUME ProcInv, \A n \in Order : Moves(n), \A n \in Order : OrderOK(order'[n]),
         NEW c \in Connection, NEW t, t = tx[c],
         t.kind = "schedules", t.op # "first"
  PROVE  AnswerOK(t)'
<1>0. /\ t \in [kind: {"schedules"}, op: Answers \cup {"propose", "numbered"}, line: Order \X (Nat \ {0}),
                version: Nat, total: Nat, current: Nat, count: Nat]
      /\ AnswerOK(t)
  BY DEF ProcInv, TxOK, LinkOK, Idle
<1> SUFFICES ASSUME (t.line \in Line)'
             PROVE  LET y == Item(t.line)'
                    IN  /\ t.version \in DOMAIN y.versions
                        /\ t.op \in {"propose", "numbered"} => t.total = y.versions[1].total
                        /\ t.op = "accept" =>
                             /\ t.version > t.current
                             /\ t.current <= y.current
                             /\ \A w \in DOMAIN y.versions : y.versions[w].status = "PROPOSED" => w >= t.version
  BY DEF AnswerOK
<1>1. PICK l : l = t.line
  OBVIOUS
<1>2. CASE l \in Line /\ RowGrows(Item(l), Item(l)')
  <2>1. PICK x : x = Item(l)
    OBVIOUS
  <2>2. PICK y : y = Item(l)'
    OBVIOUS
  <2>3. x \in OrderLine /\ x.current \in Nat /\ x.versions \in Seq(Version) /\ RowGrows(x, y)
    BY <1>2, <2>1, <2>2, ItemTyped DEF OrderLine
  <2>4. l = <<l[1], l[2]>> /\ l[1] \in Order /\ l[2] \in DOMAIN order'[l[1]].lines
    BY <1>1 DEF Line
  <2>5. OrderOK(order'[l[1]])
    BY <2>4
  <2>6. y \in OrderLine /\ y.current \in Nat /\ y.versions \in Seq(Version)
    <3>1. order'[l[1]].lines \in Seq(OrderLine)
      BY <2>5 DEF OrderOK, OrderRow
    <3>2. y = order'[l[1]].lines[l[2]]
      BY <2>2 DEF Item
    <3>3. y \in OrderLine
      BY <2>4, <3>1, <3>2
    <3> QED
      BY <3>3 DEF OrderLine
  <2>7. /\ t.version \in DOMAIN x.versions
        /\ t.op \in {"propose", "numbered"} => t.total = x.versions[1].total
        /\ t.op = "accept" =>
             /\ t.version > t.current
             /\ t.current <= x.current
             /\ \A w \in DOMAIN x.versions : x.versions[w].status = "PROPOSED" => w >= t.version
    BY <1>0, <1>1, <1>2, <2>1 DEF AnswerOK
  <2>8. 1 \in DOMAIN x.versions
    BY <2>3, <2>7
  <2>9. t.version \in DOMAIN y.versions /\ (t.op \in {"propose", "numbered"} => t.total = y.versions[1].total)
    BY <2>3, <2>7, <2>8 DEF RowGrows
  <2>10. t.current \in Nat /\ t.version \in Nat
    BY <1>0
  <2>11. t.op = "accept" => t.version > t.current /\ t.current <= y.current
    BY <2>3, <2>6, <2>7, <2>10 DEF RowGrows
  <2>12. ASSUME t.op = "accept", NEW w \in DOMAIN y.versions, y.versions[w].status = "PROPOSED"
         PROVE  w >= t.version
    <3>1. w \in Nat
      BY <2>6
    <3>2. \/ w \in DOMAIN x.versions /\ x.versions[w].status = "PROPOSED"
          \/ \A v \in DOMAIN x.versions : w > v
      BY <2>3, <2>12 DEF RowGrows
    <3> QED
      BY <2>7, <2>10, <2>12, <3>1, <3>2
  <2> QED
    BY <1>1, <2>2, <2>9, <2>11, <2>12
<1>3. CASE l[1] \in Order /\ Unreferenced(l[1])
  <2>1. l[1] \in {m[1] : m \in LinesOf(tx[c])}
    BY <1>1 DEF LinesOf
  <2> QED
    BY <1>3, <2>1 DEF Unreferenced
<1> QED
  BY <1>1, <1>2, <1>3, LineGrows

LEMMA FullStays ==
  ASSUME NEW x \in OrderRow, NEW y \in OrderRow, OrderGrows(x, y), NEW amount \in Seq(Nat),
         DOMAIN amount = DOMAIN x.lines, AllFull(Plus(x.lines, amount))
  PROVE  AllFull(Plus(y.lines, amount))
<1> SUFFICES ASSUME NEW i \in DOMAIN y.lines PROVE Full(Plus(y.lines, amount)[i])
  BY DEF AllFull, Plus
<1>1. /\ i \in DOMAIN x.lines /\ RowGrows(x.lines[i], y.lines[i])
      /\ Full(Plus(x.lines, amount)[i])
      /\ x.lines[i] \in OrderLine /\ y.lines[i] \in OrderLine /\ amount[i] \in Nat
  BY DEF OrderGrows, AllFull, Plus, OrderRow
<1>2. /\ Plus(x.lines, amount)[i] = [x.lines[i] EXCEPT !.received = @ + amount[i]]
      /\ Plus(y.lines, amount)[i] = [y.lines[i] EXCEPT !.received = @ + amount[i]]
  BY <1>1 DEF Plus
<1>3. /\ y.lines[i].qty = x.lines[i].qty /\ x.lines[i].received <= y.lines[i].received
      /\ x.lines[i].qty \in Nat /\ x.lines[i].received \in Nat /\ y.lines[i].received \in Nat
  BY <1>1 DEF RowGrows, OrderLine
<1>4. /\ Plus(x.lines, amount)[i].received = x.lines[i].received + amount[i]
      /\ Plus(x.lines, amount)[i].qty = x.lines[i].qty
      /\ Plus(y.lines, amount)[i].received = y.lines[i].received + amount[i]
      /\ Plus(y.lines, amount)[i].qty = y.lines[i].qty
  BY <1>1, <1>2 DEF OrderLine
<1> QED
  BY <1>1, <1>3, <1>4 DEF Full

LEMMA ReceiptStays ==
  ASSUME ProcInv, \A n \in Order : Moves(n), \A n \in Order : OrderOK(order'[n]),
         NEW c \in Connection, NEW t, t = tx[c], t.kind = "orders"
  PROVE  ReceiptOK(t)'
<1>1. t.on \in Order /\ t.amount \in Seq(Nat) /\ t.op \in {"receive", "received"} /\ ReceiptOK(t)
  BY DEF ProcInv, TxOK, LinkOK, Idle
<1>2. PICK x : x = order[t.on]
  OBVIOUS
<1>3. PICK y : y = order'[t.on]
  OBVIOUS
<1>4. /\ x \in OrderRow /\ OrderOK(x) /\ y \in OrderRow /\ OrderOK(y) /\ Moves(t.on)
  BY <1>1, <1>2, <1>3 DEF ProcInv, OrderOK
<1>5. CASE OrderGrows(x, y)
  <2>1. t.op = "receive" => (y.status # "NONE" => DOMAIN t.amount = DOMAIN y.lines)
    BY <1>1, <1>2, <1>5 DEF ReceiptOK, OrderGrows
  <2>2. ASSUME t.op = "received"
        PROVE  y.status # "NONE" /\ DOMAIN t.amount = DOMAIN y.lines
               /\ (t.status = "DELIVERED" => AllFull(Plus(y.lines, t.amount)))
    BY <1>1, <1>2, <1>4, <1>5, <2>2, FullStays DEF ReceiptOK, OrderGrows
  <2> QED
    BY <1>3, <2>1, <2>2 DEF ReceiptOK
<1>6. CASE y = NoOrder /\ Unreceived(t.on)
  <2>1. t.op # "received"
    BY <1>6 DEF Unreceived, Does
  <2> QED
    BY <1>1, <1>3, <1>6, <2>1 DEF ReceiptOK, NoOrder
<1>7. CASE Unreferenced(t.on)
  BY <1>7 DEF Unreferenced
<1> QED
  BY <1>2, <1>3, <1>4, <1>5, <1>6, <1>7 DEF Moves

LEMMA StepKeeps ==
  ASSUME ProcInv,
         request' \in [Request -> RequestRow],
         claim' \in [Requirement -> LineId \cup {None}],
         order' \in [Order -> OrderRow],
         posted' \in [Order -> Nat],
         DOMAIN tx' = Connection,
         \A n \in Order : Moves(n), \A n \in Order : OrderOK(order'[n]), \A n \in Order : PostedOK(n)',
         \A d \in Connection : tx'[d] = tx[d] \/ (TxOK(tx[d])' /\ LinkOK(tx[d])')
  PROVE  Kept
<1>1. ASSUME NEW d \in Connection PROVE TxOK(tx[d])' /\ LinkOK(tx[d])'
  <2>1. CASE tx'[d] = tx[d]
    <3>1. PICK t : t = tx[d]
      OBVIOUS
    <3>2. TxOK(t) /\ LinkOK(t)
      BY <3>1 DEF ProcInv
    <3>3. t.kind = "orders" => ReceiptOK(t)'
      BY <3>1, ReceiptStays
    <3>4. t.kind = "schedules" => (t.op = "first" => FirstOK(t)')
      BY <3>1, FirstStays
    <3>5. t.kind = "schedules" => (t.op # "first" => AnswerOK(t)')
      BY <3>1, AnswerStays
    <3>6. LinkOK(t)'
      BY <3>3, <3>4, <3>5 DEF LinkOK
    <3>7. TxOK(tx[d])'
      BY <2>1, <3>1, <3>2 DEF TxOK
    <3>8. LinkOK(tx[d])'
      BY <2>1, <3>1, <3>6 DEF LinkOK, ReceiptOK, FirstOK, AnswerOK
    <3> QED
      BY <3>7, <3>8
  <2> QED
    BY <2>1
<1>2. \A d \in Connection : TxOK(tx[d])' /\ LinkOK(tx[d])'
  BY <1>1
<1>3. \A n \in Order : OrderOK(order[n])' /\ PostedOK(n)'
  OBVIOUS
<1> QED
  BY <1>2, <1>3 DEF ProcInv, Kept

-----------------------------------------------------------------------------
(* Reading, and ending without effect. *)

LEMMA OrdersSame ==
  ASSUME ProcInv, order' = order, posted' = posted
  PROVE  /\ order' \in [Order -> OrderRow] /\ posted' \in [Order -> Nat]
         /\ \A n \in Order : Moves(n)
         /\ \A n \in Order : OrderOK(order'[n])
         /\ \A n \in Order : PostedOK(n)'
<1>1. order \in [Order -> OrderRow] /\ posted \in [Order -> Nat]
  BY DEF ProcInv
<1>2. \A n \in Order : Moves(n)
  BY <1>1, OrderReflexive DEF Moves
<1>3. \A n \in Order : OrderOK(order'[n])
  BY DEF ProcInv
<1>4. \A n \in Order : PostedOK(n)'
  BY DEF ProcInv, PostedOK
<1> QED
  BY <1>1, <1>2, <1>3, <1>4

LEMMA ReadKeeps ==
  ASSUME ProcInv, NEW c \in Connection, NEW what, Reads(c, what), TxOK(what), LinkOK(what)
  PROVE  Kept
<1>1. /\ tx' = [tx EXCEPT ![c] = what]
      /\ request' = request /\ claim' = claim /\ order' = order /\ posted' = posted
  BY DEF Reads
<1>2. /\ order' \in [Order -> OrderRow] /\ posted' \in [Order -> Nat]
      /\ \A n \in Order : Moves(n)
      /\ \A n \in Order : OrderOK(order'[n])
      /\ \A n \in Order : PostedOK(n)'
  BY <1>1, OrdersSame
<1>3. LinkOK(what)'
  BY <1>1 DEF LinkOK, ReceiptOK, FirstOK, AnswerOK, Item, Line
<1>4. DOMAIN tx' = Connection /\ tx'[c] = what /\ \A d \in Connection : d # c => tx'[d] = tx[d]
  BY <1>1 DEF ProcInv
<1>5. TxOK(tx[c])' /\ LinkOK(tx[c])'
  BY <1>3, <1>4 DEF TxOK, LinkOK, ReceiptOK, FirstOK, AnswerOK
<1>6. \A d \in Connection : tx'[d] = tx[d] \/ (TxOK(tx[d])' /\ LinkOK(tx[d])')
  BY <1>4, <1>5
<1>7. request' \in [Request -> RequestRow] /\ claim' \in [Requirement -> LineId \cup {None}]
  BY <1>1 DEF ProcInv
<1> QED
  BY <1>2, <1>4, <1>6, <1>7, StepKeeps

\* A step that ends what connection c does.
LEMMA EndKeeps ==
  ASSUME ProcInv, NEW c \in Connection, Ends(c),
         request' \in [Request -> RequestRow],
         claim' \in [Requirement -> LineId \cup {None}],
         order' \in [Order -> OrderRow],
         posted' \in [Order -> Nat],
         \A n \in Order : Moves(n), \A n \in Order : OrderOK(order'[n]), \A n \in Order : PostedOK(n)'
  PROVE  Kept
<1>1. DOMAIN tx' = Connection /\ tx'[c] = Idle /\ \A d \in Connection : d # c => tx'[d] = tx[d]
  BY DEF Ends, ProcInv
<1>2. TxOK(tx[c])' /\ LinkOK(tx[c])'
  BY <1>1 DEF TxOK, LinkOK, Idle
<1>3. \A d \in Connection : tx'[d] = tx[d] \/ (TxOK(tx[d])' /\ LinkOK(tx[d])')
  BY <1>1, <1>2
<1> QED
  BY <1>1, <1>3, StepKeeps

LEMMA FailKeeps ==
  ASSUME ProcInv, NEW c \in Connection, Fails(c)
  PROVE  Kept
<1>1. Ends(c) /\ request' = request /\ claim' = claim /\ order' = order /\ posted' = posted
  BY DEF Fails
<1>2. request' \in [Request -> RequestRow] /\ claim' \in [Requirement -> LineId \cup {None}]
  BY <1>1 DEF ProcInv
<1> QED
  BY <1>1, <1>2, OrdersSame, EndKeeps

LEMMA RequestReadsKeep ==
  ASSUME ProcInv, NEW c \in Connection, NEW q \in Request,
         \/ \E form \in Forms : ReadCreate(c, q, form) \/ ReadSave(c, q, form)
         \/ \E status \in {"SENT", "CANCELLED"} : ReadMark(c, q, status)
         \/ ReadRemove(c, q)
  PROVE  Kept
<1>1. ASSUME NEW form \in Forms, ReadCreate(c, q, form) PROVE Kept
  <2>1. PICK what : what = [kind |-> "requests", op |-> "create", on |-> q, form |-> form]
    OBVIOUS
  <2>2. TxOK(what) /\ LinkOK(what) /\ Reads(c, what)
    BY <1>1, <2>1 DEF TxOK, LinkOK, ReadCreate
  <2> QED
    BY <2>2, ReadKeeps
<1>2. ASSUME NEW form \in Forms, ReadSave(c, q, form) PROVE Kept
  <2>1. PICK what : what = [kind |-> "requests", op |-> "save", on |-> q, form |-> form]
    OBVIOUS
  <2>2. TxOK(what) /\ LinkOK(what) /\ Reads(c, what)
    BY <1>2, <2>1 DEF TxOK, LinkOK, ReadSave
  <2> QED
    BY <2>2, ReadKeeps
<1>3. ASSUME NEW status \in {"SENT", "CANCELLED"}, ReadMark(c, q, status) PROVE Kept
  <2>1. PICK what : what = [kind |-> "requests", op |-> "mark", on |-> q, status |-> status]
    OBVIOUS
  <2>2. TxOK(what) /\ LinkOK(what) /\ Reads(c, what)
    BY <1>3, <2>1 DEF TxOK, LinkOK, ReadMark
  <2> QED
    BY <2>2, ReadKeeps
<1>4. ASSUME ReadRemove(c, q) PROVE Kept
  <2>1. PICK what : what = [kind |-> "requests", op |-> "remove", on |-> q]
    OBVIOUS
  <2>2. TxOK(what) /\ LinkOK(what) /\ Reads(c, what)
    BY <1>4, <2>1 DEF TxOK, LinkOK, ReadRemove
  <2> QED
    BY <2>2, ReadKeeps
<1> QED
  BY <1>1, <1>2, <1>3, <1>4

LEMMA ReadConvertKeeps ==
  ASSUME ProcInv, NEW c \in Connection, NEW q \in Request, ReadConvert(c, q)
  PROVE  Kept
<1> DEFINE lines == [i \in DOMAIN request[q].lines |->
                      [request[q].lines[i] EXCEPT
                         !.needs = {r \in Requirement : claim[r] = request[q].lines[i].id}]]
<1>1. request[q].lines \in Seq(RequestLine)
  BY DEF ProcInv, RequestRow
<1>2. lines \in Seq(RequestLine)
  <2>1. \A i \in DOMAIN request[q].lines : request[q].lines[i] \in RequestLine
    BY <1>1
  <2>2. \A i \in DOMAIN request[q].lines : lines[i] \in RequestLine
    BY <2>1 DEF RequestLine
  <2> HIDE DEF lines
  <2>3. DOMAIN lines = 1..Len(request[q].lines) /\ DOMAIN request[q].lines = 1..Len(request[q].lines)
    BY <1>1 DEF lines
  <2>4. lines = [i \in 1..Len(request[q].lines) |-> lines[i]]
    BY <2>3 DEF lines
  <2> QED
    BY <1>1, <2>2, <2>3, <2>4
<1>3. Reads(c, [kind |-> "requests", op |-> "convert", on |-> q, lines |-> lines])
  BY DEF ReadConvert
<1> HIDE DEF lines
<1>4. PICK what : what = [kind |-> "requests", op |-> "convert", on |-> q, lines |-> lines]
  OBVIOUS
<1>5. TxOK(what) /\ LinkOK(what) /\ Reads(c, what)
  BY <1>2, <1>3, <1>4 DEF TxOK, LinkOK
<1> QED
  BY <1>5, ReadKeeps

LEMMA ReadReceiveKeeps ==
  ASSUME ProcInv, NEW c \in Connection, NEW n \in Order,
         NEW amount \in [DOMAIN order[n].lines -> Receipts \cup {0}], ReadReceive(c, n, amount)
  PROVE  Kept
<1>1. PICK what : what = [kind |-> "orders", op |-> "receive", on |-> n, amount |-> amount]
  OBVIOUS
<1>2. amount \in Seq(Nat)
  <2>1. Receipts \cup {0} \subseteq Nat
    BY ProcurementAssumption
  <2>2. order[n].lines \in Seq(OrderLine)
    BY DEF ProcInv, OrderRow
  <2>3. DOMAIN order[n].lines = 1..Len(order[n].lines) /\ Len(order[n].lines) \in Nat
    BY <2>2
  <2>4. amount \in [1..Len(order[n].lines) -> Nat]
    BY <2>1, <2>3
  <2> QED
    BY <2>3, <2>4
<1>3. DOMAIN amount = DOMAIN order[n].lines
  OBVIOUS
<1>4. TxOK(what) /\ LinkOK(what) /\ Reads(c, what)
  BY <1>1, <1>2, <1>3 DEF TxOK, LinkOK, ReceiptOK, ReadReceive
<1> QED
  BY <1>4, ReadKeeps

LEMMA ReadFirstKeeps ==
  ASSUME ProcInv, NEW c \in Connection, NEW plan, plan \in [DOMAIN plan -> Nat \ {0}],
         ReadFirst(c, plan)
  PROVE  Kept
<1>1. PICK what : what = [kind |-> "schedules", op |-> "first", plan |-> plan]
  OBVIOUS
<1>2. TxOK(what)
  BY <1>1 DEF TxOK
<1>3. LinkOK(what) /\ Reads(c, what)
  BY <1>1 DEF LinkOK, FirstOK, ReadFirst
<1> QED
  BY <1>2, <1>3, ReadKeeps

-----------------------------------------------------------------------------
(* Shares. *)

LEMMA Largest ==
  ASSUME NEW n \in Nat, NEW set \in SUBSET (1..n), set # {}
  PROVE  \E m \in set : \A x \in set : x <= m
<1> DEFINE R == {n - x : x \in set}
<1>1. R \in SUBSET Nat /\ R # {}
  <2>1. \A x \in set : n - x \in Nat
    OBVIOUS
  <2>2. \A y \in R : y \in Nat
    BY <2>1
  <2>3. PICK x \in set : TRUE
    OBVIOUS
  <2>4. n - x \in R
    OBVIOUS
  <2> QED
    BY <2>2, <2>4
<1>2. PICK r \in R : \A x \in R : r <= x
  <2> HIDE DEF R
  <2> QED
    BY <1>1, Smallest
<1>3. PICK m \in set : r = n - m
  BY <1>2
<1>4. ASSUME NEW x \in set PROVE x <= m
  <2>1. n - x \in R
    OBVIOUS
  <2>2. n - m <= n - x
    BY <1>2, <1>3, <2>1
  <2>3. n \in Int /\ x \in Int /\ m \in Int
    OBVIOUS
  <2> HIDE DEF R
  <2> QED
    BY <2>2, <2>3
<1> QED
  BY <1>4

LEMMA NearestOfNone ==
  ASSUME NEW d \in Nat, d > 0
  PROVE  Nearest(0, d) = {0}
<1>1. 0 \div d = 0
  OBVIOUS
<1> QED
  BY <1>1 DEF Nearest

\* The buyer who is given what is left, and the rounded shares of the others.
SharesForm(qty, weight, f, z, g) ==
  /\ z \in Customer /\ weight[z] > 0
  /\ g \in [Customer -> 0..qty] /\ g[z] = 0
  /\ \A k \in Customer : k # z => g[k] \in RoundedShares(qty, weight, k)
  /\ f = [k \in Buyer |-> IF k = 0 THEN 0 ELSE IF k = z THEN qty - Total(g, NumCustomers) ELSE g[k]]

LEMMA SharesFormed ==
  ASSUME NEW qty \in Nat, NEW weight \in [Customer -> Nat], NEW f \in Shares(qty, weight),
         {k \in Customer : weight[k] > 0} # {}
  PROVE  \E z, g : SharesForm(qty, weight, f, z, g)
<1> DEFINE weighs == {k \in Customer : weight[k] > 0}
           last == CHOOSE k \in weighs : \A l \in weighs : l <= k
           rounded == {g \in [Customer -> 0..qty] : \A k \in Customer :
                         g[k] \in IF k = last THEN {0} ELSE RoundedShares(qty, weight, k)}
           Whole(g) == [k \in Buyer |-> CASE k = 0 -> 0
                                          [] k = last -> qty - Total(g, NumCustomers)
                                          [] OTHER -> g[k]]
<1>0. NumCustomers \in Nat /\ Customer = 1..NumCustomers /\ Buyer = 0..NumCustomers
  BY ProcurementAssumption DEF Customer, Buyer
<1>1. last \in weighs /\ \A l \in weighs : l <= last
  <2>1. weighs \in SUBSET (1..NumCustomers) /\ weighs # {}
    BY <1>0
  <2> HIDE DEF weighs
  <2>2. \E k \in weighs : \A l \in weighs : l <= k
    BY <1>0, <2>1, Largest
  <2> QED
    BY <2>2
<1>2. PICK g \in rounded : f = Whole(g)
  BY DEF Shares
<1>3. PICK z : z = last
  OBVIOUS
<1>4. /\ z \in Customer /\ weight[z] > 0
      /\ g \in [Customer -> 0..qty] /\ g[z] = 0
      /\ \A k \in Customer : k # z => g[k] \in RoundedShares(qty, weight, k)
  <2> HIDE DEF last
  <2>1. z \in Customer /\ weight[z] > 0
    BY <1>1, <1>3
  <2>2. /\ g \in [Customer -> 0..qty]
        /\ \A k \in Customer : g[k] \in IF k = last THEN {0} ELSE RoundedShares(qty, weight, k)
    BY <1>2
  <2>3. g[z] \in {0}
    BY <1>3, <2>1, <2>2
  <2>4. \A k \in Customer : k # z => g[k] \in RoundedShares(qty, weight, k)
    BY <1>3, <2>2
  <2> QED
    BY <2>1, <2>2, <2>3, <2>4
<1>5. f = [k \in Buyer |-> IF k = 0 THEN 0
                           ELSE IF k = z THEN qty - Total(g, NumCustomers) ELSE g[k]]
  <2> HIDE DEF last
  <2>1. Whole(g) = [k \in Buyer |-> IF k = 0 THEN 0
                                    ELSE IF k = last THEN qty - Total(g, NumCustomers) ELSE g[k]]
    BY <1>0, <1>3, <1>4
  <2> QED
    BY <1>2, <1>3, <2>1
<1> HIDE DEF weighs, last, rounded, Whole
<1> QED
  BY <1>4, <1>5 DEF SharesForm

\* The shares are numbers that add up to the quantity, and only buyers with a
\* weight get one, or buyer 0 if there are none.
SharesOut(qty, weight, f) ==
  /\ f \in [Buyer -> Int]
  /\ \A k \in Customer : weight[k] = 0 => f[k] = 0
  /\ (\A k \in Customer : weight[k] = 0) => f[0] = qty
  /\ (\E k \in Customer : weight[k] # 0) => f[0] = 0
  /\ f[0] + Total([k \in Customer |-> f[k]], NumCustomers) = qty

LEMMA SharesAdd ==
  ASSUME NEW qty \in Nat, NEW weight \in [Customer -> Nat], NEW f \in Shares(qty, weight)
  PROVE  SharesOut(qty, weight, f)
<1> DEFINE weighs == {k \in Customer : weight[k] > 0}
<1>0. NumCustomers \in Nat /\ Customer = 1..NumCustomers /\ Buyer = 0..NumCustomers
  BY ProcurementAssumption DEF Customer, Buyer
<1>1. CASE weighs = {}
  <2>1. f = [k \in Buyer |-> IF k = 0 THEN qty ELSE 0]
    BY <1>1 DEF Shares
  <2>2. f \in [Buyer -> Int] /\ f[0] = qty /\ \A k \in Customer : f[k] = 0
    BY <1>0, <2>1
  <2>3. [k \in Customer |-> f[k]] = [k \in 1..NumCustomers |-> 0]
    BY <1>0, <2>2
  <2>4. Total([k \in Customer |-> f[k]], NumCustomers) = 0
    BY <1>0, <2>3, TotalZero
  <2>5. \A k \in Customer : weight[k] = 0
    BY <1>1
  <2> QED
    BY <2>2, <2>4, <2>5 DEF SharesOut
<1>2. CASE weighs # {}
  <2>1. PICK z, g : SharesForm(qty, weight, f, z, g)
    BY <1>2, SharesFormed
  <2>4. /\ z \in Customer /\ weight[z] > 0
        /\ g \in [Customer -> 0..qty] /\ g[z] = 0
        /\ \A k \in Customer : k # z => g[k] \in RoundedShares(qty, weight, k)
    BY <2>1 DEF SharesForm
  <2>5. f = [k \in Buyer |-> IF k = 0 THEN 0
                             ELSE IF k = z THEN qty - Total(g, NumCustomers) ELSE g[k]]
    BY <2>1 DEF SharesForm
  <2> HIDE DEF weighs
  <2>6. g \in [1..NumCustomers -> Int] /\ Total(g, NumCustomers) \in Int
    <3>1. g \in [1..NumCustomers -> Int]
      BY <1>0, <2>4
    <3> QED
      BY <1>0, <3>1, TotalInt
  <2>7. f \in [Buyer -> Int] /\ f[0] = 0
    BY <1>0, <2>4, <2>5, <2>6
  <2>8. Total(weight, NumCustomers) \in Nat /\ Total(weight, NumCustomers) > 0
    <3>1. weight \in [1..NumCustomers -> Nat] /\ z \in 1..NumCustomers
      BY <1>0, <2>4
    <3>2. weight[z] <= Total(weight, NumCustomers) /\ Total(weight, NumCustomers) \in Nat
      BY <1>0, <3>1, RowWithinTotal, TotalNat
    <3> QED
      BY <2>4, <3>1, <3>2
  <2>9. ASSUME NEW k \in Customer, weight[k] = 0 PROVE f[k] = 0
    <3>1. k # z /\ k # 0 /\ k \in Buyer
      BY <1>0, <2>4, <2>9
    <3>2. g[k] \in Nearest(qty * weight[k], Total(weight, NumCustomers))
      BY <2>4, <3>1 DEF RoundedShares
    <3>3. qty * weight[k] = 0
      BY <2>9
    <3>4. g[k] = 0
      BY <2>8, <3>2, <3>3, NearestOfNone
    <3> QED
      BY <2>5, <3>1, <3>4
  <2>10. Total([k \in Customer |-> f[k]], NumCustomers) = qty
    <3>1. PICK h : h = [k \in Customer |-> f[k]]
      OBVIOUS
    <3>2. PICK d \in Int : d = qty - Total(g, NumCustomers)
      BY <2>6
    <3>3. h \in [1..NumCustomers -> Int] /\ z \in 1..NumCustomers
      BY <1>0, <2>4, <2>7, <3>1
    <3>4. h[z] = g[z] + d /\ \A k \in 1..NumCustomers : k # z => h[k] = g[k]
      BY <1>0, <2>4, <2>5, <3>1, <3>2
    <3>5. Total(h, NumCustomers) = Total(g, NumCustomers) + d
      BY <1>0, <2>6, <3>3, <3>4, TotalUpdate
    <3> QED
      BY <2>6, <3>1, <3>2, <3>5
  <2>11. ~ \A k \in Customer : weight[k] = 0
    BY <2>4
  <2> QED
    BY <2>7, <2>9, <2>10, <2>11 DEF SharesOut
<1> QED
  BY <1>1, <1>2

-----------------------------------------------------------------------------
(* Reading schedules. *)

LEMMA ReadGroupKeeps ==
  ASSUME ProcInv, NEW c \in Connection, NEW from \in LineId, NEW total \in Totals,
         ReadGroup(c, from, total)
  PROVE  Kept
<1> DEFINE of(k) == {l \in Siblings(from) : For[Item(l).need] = k}
           weight == [k \in Customer |-> IF of(k) = {} THEN 0 ELSE Item(CHOOSE l \in of(k) : TRUE).qty]
           planned(s) == {l \in Siblings(from) : s[For[Item(l).need]] > 0}
           plan(s) == [l \in planned(s) |-> s[For[Item(l).need]]]
<1>1. PICK share \in Shares(total, weight) : ReadFirst(c, plan(share))
  BY DEF ReadGroup
<1>2. weight \in [Customer -> Nat]
  <2>1. ASSUME NEW k \in Customer PROVE weight[k] \in Nat
    <3>1. CASE of(k) = {}
      BY <3>1
    <3>2. CASE of(k) # {}
      <4>1. (CHOOSE l \in of(k) : TRUE) \in of(k)
        BY <3>2
      <4>2. (CHOOSE l \in of(k) : TRUE) \in Line
        BY <4>1 DEF Siblings
      <4>3. Item(CHOOSE l \in of(k) : TRUE).qty \in Nat
        BY <4>2, ItemTyped DEF OrderLine
      <4> QED
        BY <3>2, <4>3
    <3> QED
      BY <3>1, <3>2
  <2> QED
    BY <2>1
<1>3. total \in Nat
  BY ProcurementAssumption
<1>4. share \in [Buyer -> Int]
  <2> HIDE DEF weight
  <2> QED
    BY <1>1, <1>2, <1>3, SharesAdd DEF SharesOut
<1>5. ASSUME NEW l \in Siblings(from) PROVE For[Item(l).need] \in Buyer
  <2>1. l \in Line /\ Item(l).from = from /\ from # None
    BY DEF Siblings, ReadGroup
  <2>2. Item(l).need \in Requirement
    BY <2>1, ItemTyped DEF ScheduleOK, OrderLine
  <2>3. Customer \subseteq Buyer
    BY ProcurementAssumption DEF Customer, Buyer
  <2> QED
    BY <2>2, <2>3, ProcurementAssumption
<1>6. PICK p : p = plan(share)
  OBVIOUS
<1>7. DOMAIN p = planned(share) /\ \A l \in DOMAIN p : p[l] = share[For[Item(l).need]] /\ p[l] > 0
  BY <1>6
<1>8. \A l \in DOMAIN p : p[l] \in Nat \ {0}
  BY <1>4, <1>5, <1>7
<1>9. p = [l \in DOMAIN p |-> p[l]]
  BY <1>6
<1>10. p \in [DOMAIN p -> Nat \ {0}]
  BY <1>8, <1>9
<1> QED
  BY <1>1, <1>6, <1>10, ReadFirstKeeps

LEMMA AboutKeeps ==
  ASSUME ProcInv, NEW c \in Connection, NEW l \in Line, NEW op \in Answers \cup {"propose", "numbered"},
         NEW v \in DOMAIN Item(l).versions, NEW total \in Nat,
         op \in {"propose", "numbered"} => total = Item(l).versions[v].total,
         op = "accept" => Item(l).versions[v].status = "PROPOSED",
         Reads(c, About(op, l, v, total))
  PROVE  Kept
<1>1. PICK what : what = About(op, l, v, total)
  OBVIOUS
<1>2. PICK x : x = Item(l)
  OBVIOUS
<1>3. x \in OrderLine /\ ScheduleOK(x)
  BY <1>2, ItemTyped
<1>4. x.versions \in Seq(Version) /\ x.current \in Nat /\ v \in DOMAIN x.versions /\ v \in Nat
      /\ Len(x.versions) \in Nat
  BY <1>2, <1>3 DEF OrderLine
<1>5. l \in Order \X (Nat \ {0})
  <2>1. l = <<l[1], l[2]>> /\ l[1] \in Order /\ l[2] \in DOMAIN order[l[1]].lines
    BY LineOf
  <2>2. order[l[1]].lines \in Seq(OrderLine)
    BY <2>1 DEF ProcInv, OrderRow
  <2> QED
    BY <2>1, <2>2
<1>6. what = [kind |-> "schedules", op |-> op, line |-> l, version |-> v, total |-> total,
              current |-> x.current, count |-> 0]
  BY <1>1, <1>2 DEF About
<1>7. TxOK(what)
  BY <1>4, <1>5, <1>6 DEF TxOK
<1>8. AnswerOK(what)
  <2>1. op \in {"propose", "numbered"} => total = x.versions[1].total
    BY <1>2, <1>3, <1>4 DEF ScheduleOK
  <2>2. op = "accept" =>
          v > x.current /\ \A w \in DOMAIN x.versions : x.versions[w].status = "PROPOSED" => w >= v
    BY <1>2, <1>3, <1>4 DEF ScheduleOK
  <2> QED
    BY <1>2, <1>4, <1>6, <2>1, <2>2 DEF AnswerOK
<1>9. LinkOK(what)
  BY <1>6, <1>8 DEF LinkOK, Answers
<1> QED
  BY <1>1, <1>7, <1>9, ReadKeeps

LEMMA ScheduleReadsKeep ==
  ASSUME ProcInv, NEW c \in Connection,
         \/ \E total \in Totals :
              \/ \E l \in Line : ReadFirst(c, [m \in {l} |-> total])
              \/ \E from \in LineId : ReadGroup(c, from, total)
              \/ \E l \in Line, v \in 1..NumVersions : ReadPropose(c, l, v, total)
         \/ \E l \in Line, v \in 1..NumVersions :
              ReadConfirm(c, l, v) \/ ReadAccept(c, l, v) \/ ReadReject(c, l, v)
  PROVE  Kept
<1>1. ASSUME NEW total \in Totals, NEW l \in Line, ReadFirst(c, [m \in {l} |-> total]) PROVE Kept
  <2>1. PICK plan : plan = [m \in {l} |-> total]
    OBVIOUS
  <2>2. plan \in [DOMAIN plan -> Nat \ {0}]
    BY <2>1, ProcurementAssumption
  <2> QED
    BY <1>1, <2>1, <2>2, ReadFirstKeeps
<1>2. ASSUME NEW total \in Totals, NEW from \in LineId, ReadGroup(c, from, total) PROVE Kept
  BY <1>2, ReadGroupKeeps
<1>3. ASSUME NEW total \in Totals, NEW l \in Line, NEW v \in 1..NumVersions, ReadPropose(c, l, v, total)
      PROVE  Kept
  <2>1. /\ total \in Nat /\ v \in DOMAIN Item(l).versions /\ total = Item(l).versions[v].total
        /\ Reads(c, About("propose", l, v, total))
    BY <1>3, ProcurementAssumption DEF ReadPropose, HasStatus
  <2>2. PICK op \in Answers \cup {"propose", "numbered"} : op = "propose"
    OBVIOUS
  <2> QED
    BY <2>1, <2>2, AboutKeeps
<1>4. ASSUME NEW l \in Line, NEW v \in 1..NumVersions, NEW op \in Answers, NEW status,
             HasStatus(l, v, status), Reads(c, About(op, l, v, 0)),
             op = "accept" => status = "PROPOSED"
      PROVE  Kept
  <2>1. v \in DOMAIN Item(l).versions /\ Item(l).versions[v].status = status
    BY <1>4 DEF HasStatus
  <2>2. PICK total \in Nat : total = 0
    OBVIOUS
  <2>3. op \in Answers \cup {"propose", "numbered"} /\ op \notin {"propose", "numbered"}
    BY DEF Answers
  <2> QED
    BY <1>4, <2>1, <2>2, <2>3, AboutKeeps
<1>5. "confirm" \in Answers /\ "accept" \in Answers /\ "reject" \in Answers
  BY DEF Answers
<1> QED
  BY <1>1, <1>2, <1>3, <1>4, <1>5 DEF ReadConfirm, ReadAccept, ReadReject

-----------------------------------------------------------------------------
(* Changing lines. *)

\* Nothing is received by the way.
LineChanges(x, y) ==
  /\ y \in OrderLine /\ ScheduleOK(y) /\ RowGrows(x, y)
  /\ y.received = x.received /\ y.stocked = x.stocked

LEMMA LineUnchanged ==
  ASSUME NEW x \in OrderLine, ScheduleOK(x)
  PROVE  LineChanges(x, x)
BY RowReflexive DEF LineChanges

(***************************************************************************)
(* An order whose lines change in this way keeps what the invariant says   *)
(* of it.                                                                  *)
(***************************************************************************)
LEMMA LinesChange ==
  ASSUME ProcInv, NEW n \in Order, NEW new,
         order'[n] = [status |-> order[n].status, lines |-> new],
         DOMAIN new = DOMAIN order[n].lines,
         new = [i \in DOMAIN new |-> new[i]],
         \A i \in DOMAIN new : LineChanges(order[n].lines[i], new[i]),
         posted'[n] = posted[n]
  PROVE  order'[n] \in OrderRow /\ OrderOK(order'[n]) /\ Moves(n) /\ PostedOK(n)'
<1>1. PICK x : x = order[n]
  OBVIOUS
<1>2. x \in OrderRow /\ OrderOK(x) /\ x.lines \in Seq(OrderLine) /\ x.status \in OrderStatus
  BY <1>1 DEF ProcInv, OrderRow
<1>3. PICK k \in Nat : k = Len(x.lines)
  BY <1>2
<1>4. DOMAIN x.lines = 1..k /\ DOMAIN new = 1..k
  BY <1>1, <1>2, <1>3
<1>5. new \in Seq(OrderLine) /\ Len(new) = k
  <2>1. new \in [1..k -> OrderLine]
    BY <1>1, <1>4 DEF LineChanges
  <2> QED
    BY <1>4, <2>1
<1>6. PICK y : y = order'[n]
  OBVIOUS
<1>7. y = [status |-> x.status, lines |-> new]
  BY <1>1, <1>6
<1>8. y \in OrderRow
  BY <1>2, <1>5, <1>7 DEF OrderRow
<1>9. OrderGrows(x, y)
  BY <1>1, <1>4, <1>7 DEF OrderGrows, LineChanges
<1>10. y.status = "NONE" <=> y.lines = <<>>
  <2>1. x.lines = <<>> <=> k = 0
    BY <1>2, <1>3
  <2>2. new = <<>> <=> k = 0
    BY <1>5
  <2> QED
    BY <1>2, <1>7, <2>1, <2>2 DEF OrderOK
<1>11. y.status = "DELIVERED" => AllFull(y.lines)
  <2> SUFFICES ASSUME y.status = "DELIVERED", NEW i \in 1..k PROVE Full(new[i])
    BY <1>4, <1>7 DEF AllFull
  <2>1. Full(x.lines[i]) /\ LineChanges(x.lines[i], new[i])
    BY <1>1, <1>2, <1>4, <1>7 DEF OrderOK, AllFull
  <2> QED
    BY <2>1 DEF Full, LineChanges, RowGrows
<1>12. \A i \in DOMAIN y.lines : ScheduleOK(y.lines[i])
  BY <1>7 DEF LineChanges
<1>13. OrderOK(y)
  BY <1>8, <1>10, <1>11, <1>12 DEF OrderOK
<1>14. Received(y.lines) = Received(x.lines)
  <2>1. Stocked(new, ReceivedOf(new)) = Stocked(x.lines, ReceivedOf(x.lines))
    BY <1>1, <1>4 DEF LineChanges, Stocked, ReceivedOf
  <2> QED
    BY <1>3, <1>5, <1>7, <2>1 DEF Received
<1>15. PostedOK(n)'
  <2>1. PostedOK(n)
    BY DEF ProcInv
  <2> QED
    BY <1>1, <1>6, <1>7, <1>14, <2>1 DEF PostedOK
<1> QED
  BY <1>1, <1>6, <1>8, <1>9, <1>13, <1>15 DEF Moves

LEMMA OrderLines ==
  ASSUME ProcInv, NEW n \in Order
  PROVE  /\ order[n] = [status |-> order[n].status, lines |-> order[n].lines]
         /\ order[n].lines = [i \in DOMAIN order[n].lines |-> order[n].lines[i]]
         /\ \A i \in DOMAIN order[n].lines : order[n].lines[i] \in OrderLine /\ ScheduleOK(order[n].lines[i])
<1>1. order[n] \in OrderRow /\ OrderOK(order[n])
  BY DEF ProcInv
<1>2. order[n] = [status |-> order[n].status, lines |-> order[n].lines] /\ order[n].lines \in Seq(OrderLine)
  BY <1>1 DEF OrderRow
<1> QED
  BY <1>1, <1>2 DEF OrderOK

LEMMA ForgottenKeeps ==
  ASSUME ProcInv, NEW old, order' = Forgotten(old), posted' = posted
  PROVE  /\ order' \in [Order -> OrderRow] /\ posted' \in [Order -> Nat]
         /\ \A n \in Order : Moves(n)
         /\ \A n \in Order : OrderOK(order'[n])
         /\ \A n \in Order : PostedOK(n)'
<1>1. ASSUME NEW n \in Order
      PROVE  order'[n] \in OrderRow /\ OrderOK(order'[n]) /\ Moves(n) /\ PostedOK(n)'
  <2> DEFINE lines == order[n].lines
             new == [i \in DOMAIN lines |-> IF lines[i].from \in IdsOf(old)
                                            THEN [lines[i] EXCEPT !.from = None] ELSE lines[i]]
  <2>1. order[n] = [status |-> order[n].status, lines |-> lines]
    BY OrderLines
  <2>2. order'[n] = [status |-> order[n].status, lines |-> new]
    BY <2>1 DEF Forgotten
  <2>3. ASSUME NEW i \in DOMAIN lines PROVE LineChanges(lines[i], new[i])
    <3>1. PICK x : x = lines[i]
      OBVIOUS
    <3>2. x \in OrderLine /\ ScheduleOK(x)
      BY <3>1, OrderLines
    <3>3. CASE x.from \in IdsOf(old)
      <4>1. PICK y : y = [x EXCEPT !.from = None]
        OBVIOUS
      <4>2. /\ y \in OrderLine /\ y.from = None /\ y.qty = x.qty /\ y.received = x.received
            /\ y.stocked = x.stocked /\ y.current = x.current /\ y.versions = x.versions
        BY <3>2, <4>1 DEF OrderLine
      <4>3. ScheduleOK(y)
        BY <3>2, <4>2 DEF ScheduleOK
      <4>4. RowGrows(x, y)
        <5>1. RowGrows(x, x)
          BY <3>2, RowReflexive
        <5> QED
          BY <4>2, <5>1 DEF RowGrows
      <4> QED
        BY <3>1, <3>3, <4>1, <4>2, <4>3, <4>4 DEF LineChanges
    <3>4. CASE x.from \notin IdsOf(old)
      BY <3>1, <3>2, <3>4, LineUnchanged
    <3> QED
      BY <3>3, <3>4
  <2>4. DOMAIN new = DOMAIN lines /\ new = [i \in DOMAIN new |-> new[i]]
    OBVIOUS
  <2>5. posted'[n] = posted[n]
    OBVIOUS
  <2> HIDE DEF new
  <2> QED
    BY <2>2, <2>3, <2>4, <2>5, LinesChange
<1>2. DOMAIN order' = Order /\ order' = [n \in Order |-> order'[n]]
  BY DEF Forgotten
<1>3. order' \in [Order -> OrderRow] /\ posted' \in [Order -> Nat]
  BY <1>1, <1>2 DEF ProcInv
<1> QED
  BY <1>1, <1>3

-----------------------------------------------------------------------------
(* Purchase requests. *)

LEMMA UnusedFinite == UnusedLines \in SUBSET LineId /\ LineId \in SUBSET Nat /\ IsFiniteSet(UnusedLines)
<1>1. UnusedLines \in SUBSET LineId /\ LineId = 1..NumLines /\ NumLines \in Nat
  BY ProcurementAssumption DEF UnusedLines, LineId
<1>2. IsFiniteSet(LineId)
  BY <1>1, FS_Interval
<1>3. IsFiniteSet(UnusedLines)
  BY <1>1, <1>2, FS_Subset
<1> QED
  BY <1>1, <1>3

LEMMA FormTyped ==
  ASSUME NEW form \in Forms
  PROVE  /\ form \in Seq([qty: Nat \ {0}, needs: SUBSET Requirement, stocked: BOOLEAN])
         /\ Len(form) \in Nat /\ DOMAIN form = 1..Len(form) /\ form # <<>>
         /\ \A i \in DOMAIN form : form[i].qty \in Nat \ {0} /\ form[i].needs \in SUBSET Requirement
                             /\ form[i].stocked \in BOOLEAN
<1>1. form \in Seq([qty: Nat \ {0}, needs: SUBSET Requirement, stocked: BOOLEAN]) /\ form # <<>>
  BY ProcurementAssumption DEF Form
<1> DEFINE W == [qty: Nat \ {0}, needs: SUBSET Requirement, stocked: BOOLEAN]
<1> HIDE DEF W
<1>2. form \in Seq(W)
  BY <1>1 DEF W
<1>3. Len(form) \in Nat /\ DOMAIN form = 1..Len(form) /\ \A i \in DOMAIN form : form[i] \in W
  BY <1>2
<1>4. \A i \in DOMAIN form : form[i].qty \in Nat \ {0} /\ form[i].needs \in SUBSET Requirement
                             /\ form[i].stocked \in BOOLEAN
  BY <1>3 DEF W
<1> QED
  BY <1>1, <1>3, <1>4

(***************************************************************************)
(* The lines of a form get ids that nothing refers to, each another one.   *)
(***************************************************************************)
LEMMA NewLinesTyped ==
  ASSUME NEW form \in Forms, Cardinality(UnusedLines) >= Len(form),
         NEW lines, lines = NewLines(form, Firsts(UnusedLines, Len(form)))
  PROVE  /\ lines \in Seq(RequestLine) /\ DOMAIN lines = DOMAIN form
         /\ \A i \in DOMAIN lines : lines[i].id \in UnusedLines /\ lines[i].needs = form[i].needs
         /\ \A i, j \in DOMAIN lines : lines[i].id = lines[j].id => i = j
<1>1. PICK n \in Nat : n = Len(form)
  BY FormTyped
<1>2. PICK id : id = Firsts(UnusedLines, n)
  OBVIOUS
<1>3. UnusedLines \in SUBSET Nat /\ UnusedLines \in SUBSET LineId /\ IsFiniteSet(UnusedLines)
      /\ n <= Cardinality(UnusedLines)
  BY <1>1, UnusedFinite, FS_CardinalityType
<1>4. id \in [1..n -> UnusedLines] /\ \A i, j \in 1..n : id[i] = id[j] => i = j
  BY <1>2, <1>3, FirstsNumber, FirstsDiffer
<1>5. DOMAIN form = 1..n /\ lines = [i \in 1..n |-> [id |-> id[i], qty |-> form[i].qty, needs |-> form[i].needs,
                                               stocked |-> form[i].stocked]]
  BY <1>1, <1>2, FormTyped DEF NewLines
<1>6. \A i \in 1..n : lines[i] \in RequestLine /\ lines[i].id = id[i] /\ lines[i].needs = form[i].needs
  <2> TAKE i \in 1..n
  <2>1. form[i].qty \in Nat \ {0} /\ form[i].needs \in SUBSET Requirement /\ form[i].stocked \in BOOLEAN
    BY <1>5, FormTyped
  <2>2. id[i] \in LineId
    BY <1>3, <1>4
  <2>3. lines[i] = [id |-> id[i], qty |-> form[i].qty, needs |-> form[i].needs, stocked |-> form[i].stocked]
    BY <1>5
  <2> QED
    BY <2>1, <2>2, <2>3 DEF RequestLine
<1>7. lines \in Seq(RequestLine) /\ DOMAIN lines = 1..n
  BY <1>5, <1>6
<1> QED
  BY <1>4, <1>5, <1>6, <1>7

LEMMA ClaimedTyped ==
  ASSUME ProcInv, NEW old, NEW lines \in Seq(RequestLine)
  PROVE  Claimed(old, lines) \in [Requirement -> LineId \cup {None}]
<1>1. ASSUME NEW r \in Requirement PROVE Claimed(old, lines)[r] \in LineId \cup {None}
  <2> DEFINE mine == {i \in DOMAIN lines : r \in lines[i].needs}
  <2>1. CASE mine # {}
    <3>1. PICK i : i = CHOOSE j \in mine : TRUE
      OBVIOUS
    <3>2. i \in DOMAIN lines
      BY <2>1, <3>1
    <3>3. lines[i].id \in LineId
      <4>1. lines[i] \in RequestLine
        BY <3>2
      <4> QED
        BY <4>1 DEF RequestLine
    <3>4. Claimed(old, lines)[r] = lines[i].id
      BY <2>1, <3>1 DEF Claimed
    <3> QED
      BY <3>3, <3>4
  <2>2. CASE mine = {} /\ claim[r] \in IdsOf(old)
    BY <2>2 DEF Claimed
  <2>3. CASE mine = {} /\ claim[r] \notin IdsOf(old)
    <3>1. Claimed(old, lines)[r] = claim[r]
      BY <2>3 DEF Claimed
    <3> QED
      BY <3>1 DEF ProcInv
  <2> QED
    BY <2>1, <2>2, <2>3
<1> QED
  BY <1>1 DEF Claimed

LEMMA PutLinesKeeps ==
  ASSUME ProcInv, NEW c \in Connection, tx[c].on \in Request, tx[c].form \in Forms,
         NEW status \in RequestStatus, PutLines(c, tx[c].on, status)
  PROVE  Kept
<1>1. PICK lines : lines = NewLines(tx[c].form, Firsts(UnusedLines, Len(tx[c].form)))
  OBVIOUS
<1>2. /\ Cardinality(UnusedLines) >= Len(tx[c].form)
      /\ request' = [request EXCEPT ![tx[c].on] = [status |-> status, lines |-> lines]]
      /\ claim' = Claimed(request[tx[c].on].lines, lines)
      /\ order' = Forgotten(request[tx[c].on].lines)
      /\ Ends(c) /\ posted' = posted
  BY <1>1 DEF PutLines
<1>3. PICK form \in Forms : form = tx[c].form
  OBVIOUS
<1>4. lines \in Seq(RequestLine)
  BY <1>1, <1>2, <1>3, NewLinesTyped
<1>5. request' \in [Request -> RequestRow]
  <2>1. [status |-> status, lines |-> lines] \in RequestRow
    BY <1>4 DEF RequestRow
  <2> QED
    BY <1>2, <2>1 DEF ProcInv
<1>6. claim' \in [Requirement -> LineId \cup {None}]
  BY <1>2, <1>4, ClaimedTyped
<1>7. PICK old : old = request[tx[c].on].lines
  OBVIOUS
<1>8. /\ order' \in [Order -> OrderRow] /\ posted' \in [Order -> Nat]
      /\ \A n \in Order : Moves(n)
      /\ \A n \in Order : OrderOK(order'[n])
      /\ \A n \in Order : PostedOK(n)'
  BY <1>2, <1>7, ForgottenKeeps
<1> QED
  BY <1>2, <1>5, <1>6, <1>8, EndKeeps

\* What is known of a connection that is about to write.
LEMMA RequestTx ==
  ASSUME ProcInv, NEW c \in Connection, tx[c].kind = "requests"
  PROVE  /\ tx[c].on \in Request
         /\ tx[c].op \in {"create", "save"} => tx[c].form \in Forms
         /\ tx[c].op = "mark" => tx[c].status \in {"SENT", "CANCELLED"}
         /\ tx[c].op = "convert" => tx[c].lines \in Seq(RequestLine)
<1>1. PICK t : t = tx[c]
  OBVIOUS
<1>2. TxOK(t) /\ t.kind = "requests"
  BY <1>1 DEF ProcInv
<1>3. /\ t.on \in Request
      /\ t.op \in {"create", "save"} => t.form \in Forms
      /\ t.op = "mark" => t.status \in {"SENT", "CANCELLED"}
      /\ t.op = "convert" => t.lines \in Seq(RequestLine)
  BY <1>2 DEF TxOK, Idle
<1> QED
  BY <1>1, <1>3

LEMMA RequestWritesKeep ==
  ASSUME ProcInv, NEW c \in Connection, Create(c) \/ SaveItems(c) \/ Mark(c) \/ Remove(c)
  PROVE  Kept
<1>0. tx[c].kind = "requests"
  BY DEF Create, SaveItems, Mark, Remove, Does
<1>1. PICK q \in Request : q = tx[c].on
  BY <1>0, RequestTx
<1>2. request[q] \in RequestRow /\ request[q].status \in RequestStatus /\ request[q].lines \in Seq(RequestLine)
  BY DEF ProcInv, RequestRow
<1>3. CASE Create(c)
  <2>1. tx[c].form \in Forms /\ PutLines(c, tx[c].on, "DRAFT")
    BY <1>0, <1>3, RequestTx DEF Create, Does
  <2>2. PICK status \in RequestStatus : status = "DRAFT"
    BY DEF RequestStatus
  <2> QED
    BY <1>1, <2>1, <2>2, PutLinesKeeps
<1>4. CASE SaveItems(c)
  <2>1. tx[c].form \in Forms
    BY <1>0, <1>4, RequestTx DEF SaveItems, Does
  <2>2. CASE Fails(c)
    BY <2>2, FailKeeps
  <2>3. CASE PutLines(c, tx[c].on, request[tx[c].on].status)
    <3>1. PICK status \in RequestStatus : status = request[q].status
      BY <1>2
    <3> QED
      BY <1>1, <2>1, <2>3, <3>1, PutLinesKeeps
  <2> QED
    BY <1>4, <2>2, <2>3 DEF SaveItems
<1>5. CASE Mark(c)
  <2>1. CASE Fails(c)
    BY <2>1, FailKeeps
  <2>2. CASE ~ Fails(c)
    <3>1. /\ request' = [request EXCEPT ![q].status = tx[c].status]
          /\ Ends(c) /\ claim' = claim /\ order' = order /\ posted' = posted
      BY <1>1, <1>5, <2>2 DEF Mark
    <3>2. tx[c].status \in RequestStatus
      BY <1>0, <1>5, RequestTx DEF Mark, Does, RequestStatus
    <3>3. request' \in [Request -> RequestRow]
      <4>1. [request[q] EXCEPT !.status = tx[c].status] \in RequestRow
        BY <1>2, <3>2 DEF RequestRow
      <4> QED
        BY <3>1, <4>1 DEF ProcInv
    <3>4. claim' \in [Requirement -> LineId \cup {None}]
      BY <3>1 DEF ProcInv
    <3> QED
      BY <3>1, <3>3, <3>4, OrdersSame, EndKeeps
  <2> QED
    BY <2>1, <2>2
<1>6. CASE Remove(c)
  <2>1. CASE Fails(c)
    BY <2>1, FailKeeps
  <2>2. CASE ~ Fails(c)
    <3>1. /\ request' = [request EXCEPT ![q] = NoRequest]
          /\ claim' = Claimed(request[q].lines, <<>>)
          /\ order' = Forgotten(request[q].lines)
          /\ Ends(c) /\ posted' = posted
      BY <1>1, <1>6, <2>2 DEF Remove
    <3>2. request' \in [Request -> RequestRow]
      <4>1. NoRequest \in RequestRow
        BY DEF NoRequest, RequestRow, RequestStatus
      <4> QED
        BY <3>1, <4>1 DEF ProcInv
    <3>3. PICK lines \in Seq(RequestLine) : lines = <<>>
      <4>1. <<>> \in Seq(RequestLine)
        OBVIOUS
      <4> QED
        BY <4>1
    <3>4. PICK old : old = request[q].lines
      OBVIOUS
    <3>5. claim' \in [Requirement -> LineId \cup {None}]
      BY <3>1, <3>3, <3>4, ClaimedTyped
    <3>6. /\ order' \in [Order -> OrderRow] /\ posted' \in [Order -> Nat]
          /\ \A n \in Order : Moves(n)
          /\ \A n \in Order : OrderOK(order'[n])
          /\ \A n \in Order : PostedOK(n)'
      BY <3>1, <3>4, ForgottenKeeps
    <3> QED
      BY <3>1, <3>2, <3>5, <3>6, EndKeeps
  <2> QED
    BY <2>1, <2>2
<1> QED
  BY <1>3, <1>4, <1>5, <1>6

-----------------------------------------------------------------------------
(* New orders. *)

\* A line as it is created.
FreshLine == {x \in OrderLine : /\ x.received = 0 /\ x.current = 0 /\ x.versions = <<>>
                                /\ x.from # None => x.need # None}

LEMMA FreshLineOK ==
  ASSUME NEW x \in FreshLine
  PROVE  x \in OrderLine /\ x.received = 0 /\ ScheduleOK(x)
BY DEF FreshLine, ScheduleOK

LEMMA NewLineFresh ==
  ASSUME NEW qty \in Nat \ {0}, NEW need \in Requirement \cup {None}, NEW from \in LineId \cup {None},
         from # None => need # None, NEW stocked \in BOOLEAN
  PROVE  NewLine(qty, need, from, stocked) \in FreshLine
<1>1. <<>> \in Seq(Version)
  OBVIOUS
<1> QED
  BY <1>1 DEF NewLine, FreshLine, OrderLine

LEMMA FreshOrder ==
  ASSUME NEW lines \in Seq(FreshLine), lines # <<>>, NEW x, x = [status |-> "ORDERED", lines |-> lines]
  PROVE  x \in OrderRow /\ OrderOK(x) /\ Received(x.lines) = 0
<1>1. PICK k \in Nat : k = Len(lines)
  OBVIOUS
<1>2. DOMAIN lines = 1..k /\ \A i \in 1..k : lines[i] \in FreshLine
  BY <1>1
<1>3. \A i \in 1..k : lines[i] \in OrderLine /\ lines[i].received = 0 /\ ScheduleOK(lines[i])
  BY <1>2, FreshLineOK
<1>4. lines \in Seq(OrderLine)
  <2>1. lines = [i \in 1..k |-> lines[i]]
    BY <1>2
  <2>2. lines \in [1..k -> OrderLine]
    BY <1>3, <2>1
  <2> QED
    BY <2>2
<1>5. x \in OrderRow
  BY <1>4 DEF OrderRow, OrderStatus
<1>6. OrderOK(x)
  BY <1>2, <1>3, <1>5 DEF OrderOK
<1>7. Stocked(lines, ReceivedOf(lines)) = [i \in 1..k |-> 0]
  BY <1>2, <1>3 DEF Stocked, ReceivedOf
<1>8. Received(x.lines) = 0
  BY <1>1, <1>7, TotalZero DEF Received
<1> QED
  BY <1>5, <1>6, <1>8

Lists == Seq(FreshLine) \ {<<>>}

LEMMA UnusedOrdersFinite ==
  UnusedOrders \in SUBSET Order /\ UnusedOrders \in SUBSET Nat /\ IsFiniteSet(UnusedOrders)
<1>1. UnusedOrders \in SUBSET Order /\ Order = 1..NumOrders /\ NumOrders \in Nat
  BY ProcurementAssumption DEF UnusedOrders, Order
<1>2. IsFiniteSet(Order)
  BY <1>1, FS_Interval
<1>3. IsFiniteSet(UnusedOrders)
  BY <1>1, <1>2, FS_Subset
<1> QED
  BY <1>1, <1>3

(***************************************************************************)
(* New orders take ids that nothing refers to; the others stay.            *)
(***************************************************************************)
LEMMA PlaceKeeps ==
  ASSUME ProcInv, NEW orders \in Seq(Lists), Place(orders)
  PROVE  /\ order' \in [Order -> OrderRow] /\ posted' \in [Order -> Nat]
         /\ \A n \in Order : Moves(n)
         /\ \A n \in Order : OrderOK(order'[n])
         /\ \A n \in Order : PostedOK(n)'
<1> DEFINE id == Firsts(UnusedOrders, Len(orders))
           placed(n) == {k \in DOMAIN orders : id[k] = n}
<1>1. /\ Cardinality(UnusedOrders) >= Len(orders)
      /\ order' = [n \in Order |-> IF placed(n) = {} THEN order[n]
                     ELSE [status |-> "ORDERED", lines |-> orders[CHOOSE k \in placed(n) : TRUE]]]
      /\ posted' = [n \in Order |-> IF placed(n) = {} THEN posted[n] ELSE 0]
  BY DEF Place
<1>2. PICK m \in Nat : m = Len(orders)
  OBVIOUS
<1>3. DOMAIN orders = 1..m
  BY <1>2
<1>4. id \in [1..m -> UnusedOrders]
  <2>1. m <= Cardinality(UnusedOrders)
    BY <1>1, <1>2, UnusedOrdersFinite, FS_CardinalityType
  <2> QED
    BY <1>2, <2>1, UnusedOrdersFinite, FirstsNumber
<1> HIDE DEF id
<1>5. ASSUME NEW n \in Order
      PROVE  /\ order'[n] \in OrderRow /\ posted'[n] \in Nat
             /\ Moves(n) /\ OrderOK(order'[n]) /\ PostedOK(n)'
  <2>1. CASE placed(n) = {}
    <3>1. order'[n] = order[n] /\ posted'[n] = posted[n]
      BY <1>1, <2>1
    <3>2. order[n] \in OrderRow /\ posted[n] \in Nat /\ OrderOK(order[n]) /\ PostedOK(n)
      BY DEF ProcInv
    <3>3. Moves(n)
      BY <3>1, <3>2, OrderReflexive DEF Moves
    <3> QED
      BY <3>1, <3>2, <3>3 DEF PostedOK
  <2>2. CASE placed(n) # {}
    <3>1. PICK k \in placed(n) : k = CHOOSE j \in placed(n) : TRUE
      BY <2>2
    <3>2. k \in 1..m /\ id[k] = n
      BY <1>3, <3>1
    <3>3. orders[k] \in Lists
      BY <1>3, <3>2
    <3>4. order'[n] = [status |-> "ORDERED", lines |-> orders[k]] /\ posted'[n] = 0
      BY <1>1, <2>2, <3>1
    <3>5. n \in UnusedOrders
      BY <1>4, <3>2
    <3>6. Moves(n)
      BY <3>5 DEF UnusedOrders, Moves, Unreferenced
    <3>7. PICK lines \in Seq(FreshLine) : lines = orders[k] /\ lines # <<>>
      BY <3>3 DEF Lists
    <3>8. PICK x : x = order'[n]
      OBVIOUS
    <3>9. x \in OrderRow /\ OrderOK(x) /\ Received(x.lines) = 0
      BY <3>4, <3>7, <3>8, FreshOrder
    <3>10. PostedOK(n)'
      BY <3>4, <3>8, <3>9 DEF PostedOK
    <3> QED
      BY <3>4, <3>6, <3>8, <3>9, <3>10
  <2> QED
    BY <2>1, <2>2
<1>6. order' \in [Order -> OrderRow] /\ posted' \in [Order -> Nat]
  BY <1>1, <1>5
<1> QED
  BY <1>5, <1>6

LEMMA PlaceDirectlyKeeps ==
  ASSUME ProcInv, NEW c \in Connection, NEW lines \in Direct, PlaceDirectly(c, lines)
  PROVE  Kept
<1> DEFINE W == [qty: Nat \ {0}, need: Requirement \cup {None}, stocked: BOOLEAN]
           list == [i \in DOMAIN lines |-> NewLine(lines[i].qty, lines[i].need, None, lines[i].stocked)]
<1>1. lines \in Seq(W) /\ lines # <<>>
  BY ProcurementAssumption
<1> HIDE DEF W
<1>2. Len(lines) \in Nat /\ DOMAIN lines = 1..Len(lines) /\ Len(lines) # 0 /\ \A i \in DOMAIN lines : lines[i] \in W
  BY <1>1
<1>3. \A i \in DOMAIN lines : list[i] \in FreshLine
  <2> TAKE i \in DOMAIN lines
  <2>1. lines[i].qty \in Nat \ {0} /\ lines[i].need \in Requirement \cup {None} /\ lines[i].stocked \in BOOLEAN
    BY <1>2 DEF W
  <2>2. PICK from \in LineId \cup {None} : from = None
    OBVIOUS
  <2> QED
    BY <2>1, <2>2, NewLineFresh
<1>4. Place(<<list>>) /\ request' = request /\ claim' = claim /\ tx' = tx
  BY DEF PlaceDirectly
<1>5. list \in [1..Len(lines) -> FreshLine]
  BY <1>2, <1>3
<1>6. list \in Seq(FreshLine) /\ list # <<>>
  <2> HIDE DEF list
  <2> QED
    BY <1>2, <1>5
<1> HIDE DEF list
<1>7. PICK orders \in Seq(Lists) : orders = <<list>>
  <2>1. list \in Lists
    BY <1>6 DEF Lists
  <2>2. <<list>> \in Seq(Lists)
    BY <2>1
  <2> QED
    BY <2>2
<1>8. /\ order' \in [Order -> OrderRow] /\ posted' \in [Order -> Nat]
      /\ \A n \in Order : Moves(n)
      /\ \A n \in Order : OrderOK(order'[n])
      /\ \A n \in Order : PostedOK(n)'
  BY <1>4, <1>7, PlaceKeeps
<1>9. /\ request' \in [Request -> RequestRow] /\ claim' \in [Requirement -> LineId \cup {None}]
      /\ DOMAIN tx' = Connection /\ \A d \in Connection : tx'[d] = tx[d]
  BY <1>4 DEF ProcInv
<1> QED
  BY <1>8, <1>9, StepKeeps

-----------------------------------------------------------------------------
(* Conversion. *)

LEMMA NeedOfTyped ==
  ASSUME NEW needs \in SUBSET Requirement, NEW k
  PROVE  /\ NeedOf(needs, k) \in Requirement \cup {None}
         /\ NeedOf(needs, k) # None => NeedOf(needs, k) \in needs /\ For[NeedOf(needs, k)] = k
         /\ NeedOf(needs, k) = None => \A r \in needs : For[r] # k
<1> DEFINE of == {r \in needs : For[r] = k}
<1>1. CASE of = {}
  BY <1>1 DEF NeedOf
<1>2. CASE of # {}
  <2>1. PICK r \in of : r = CHOOSE q \in of : TRUE
    BY <1>2
  <2>2. NeedOf(needs, k) = r
    BY <1>2, <2>1 DEF NeedOf
  <2>3. r \in Requirement /\ None \notin Requirement
    BY ProcurementAssumption
  <2> QED
    BY <2>1, <2>2, <2>3
<1> QED
  BY <1>1, <1>2

(***************************************************************************)
(* Who weighs something has a requirement, and if there are requirements   *)
(* somebody does.                                                          *)
(***************************************************************************)
LEMMA Weights ==
  ASSUME NEW needs \in SUBSET Requirement
  PROVE  /\ WeightOf(needs) \in [Customer -> Nat]
         /\ \A k \in Customer : WeightOf(needs)[k] # 0 <=> NeedOf(needs, k) # None
         /\ needs # {} => \E k \in Customer : WeightOf(needs)[k] # 0
         /\ needs = {} => \A k \in Customer : WeightOf(needs)[k] = 0
<1>1. ASSUME NEW k \in Customer
      PROVE  /\ WeightOf(needs)[k] \in Nat
             /\ WeightOf(needs)[k] # 0 <=> NeedOf(needs, k) # None
  <2>1. CASE NeedOf(needs, k) = None
    BY <2>1 DEF WeightOf
  <2>2. CASE NeedOf(needs, k) # None
    <3>1. NeedOf(needs, k) \in Requirement
      BY <2>2, NeedOfTyped
    <3>2. Need[NeedOf(needs, k)] \in Nat \ {0}
      BY <3>1, ProcurementAssumption
    <3>3. WeightOf(needs)[k] = Need[NeedOf(needs, k)]
      BY <2>2 DEF WeightOf
    <3> QED
      BY <2>2, <3>2, <3>3
  <2> QED
    BY <2>1, <2>2
<1>2. WeightOf(needs) \in [Customer -> Nat]
  BY <1>1 DEF WeightOf
<1>3. ASSUME needs # {} PROVE \E k \in Customer : WeightOf(needs)[k] # 0
  <2>1. PICK r \in needs : TRUE
    BY <1>3
  <2>2. For[r] \in Customer
    BY ProcurementAssumption
  <2>3. NeedOf(needs, For[r]) # None
    BY <2>1, NeedOfTyped
  <2> QED
    BY <1>1, <2>2, <2>3
<1>4. ASSUME needs = {}, NEW k \in Customer PROVE WeightOf(needs)[k] = 0
  <2>1. NeedOf(needs, k) = None
    BY <1>4, NeedOfTyped
  <2> QED
    BY <1>1, <2>1
<1> QED
  BY <1>1, <1>2, <1>3, <1>4

\* A way to share out a line.
LEMMA SplitsOf ==
  ASSUME NEW lines \in Seq(RequestLine), NEW split \in Splits(lines), NEW i \in DOMAIN lines
  PROVE  /\ lines[i] \in RequestLine
         /\ split[i] \in Shares(lines[i].qty, WeightOf(lines[i].needs))
         /\ split[i] \in [Buyer -> Int]
         /\ \A k \in Customer : NeedOf(lines[i].needs, k) = None => split[i][k] = 0
         /\ lines[i].needs = {} => split[i][0] = lines[i].qty
         /\ lines[i].needs # {} => split[i][0] = 0
         /\ split[i][0] + Total([k \in Customer |-> split[i][k]], NumCustomers) = lines[i].qty
<1>1. lines[i] \in RequestLine
  OBVIOUS
<1>2. PICK qty \in Nat : qty = lines[i].qty
  BY <1>1 DEF RequestLine
<1>3. PICK needs \in SUBSET Requirement : needs = lines[i].needs
  BY <1>1 DEF RequestLine
<1>4. PICK weight \in [Customer -> Nat] : weight = WeightOf(needs)
  BY Weights
<1>5. split[i] \in Shares(lines[i].qty, WeightOf(lines[i].needs))
  BY DEF Splits
<1>6. PICK f \in Shares(qty, weight) : f = split[i]
  BY <1>2, <1>3, <1>4, <1>5
<1>7. /\ f \in [Buyer -> Int]
      /\ \A k \in Customer : weight[k] = 0 => f[k] = 0
      /\ (\A k \in Customer : weight[k] = 0) => f[0] = qty
      /\ (\E k \in Customer : weight[k] # 0) => f[0] = 0
      /\ f[0] + Total([k \in Customer |-> f[k]], NumCustomers) = qty
  <2>1. SharesOut(qty, weight, f)
    BY SharesAdd
  <2> QED
    BY <2>1 DEF SharesOut
<1>8. \A k \in Customer : NeedOf(needs, k) = None => f[k] = 0
  BY <1>4, <1>7, Weights
<1>9. (needs = {} => f[0] = qty) /\ (needs # {} => f[0] = 0)
  BY <1>4, <1>7, Weights
<1> QED
  BY <1>1, <1>2, <1>3, <1>5, <1>6, <1>7, <1>8, <1>9

LEMMA LinesForTyped ==
  ASSUME NEW lines \in Seq(RequestLine), NEW split \in Splits(lines), NEW k \in Buyer
  PROVE  LinesFor(k, lines, split) \in Seq(FreshLine)
<1> DEFINE all == [i \in DOMAIN lines |->
                    NewLine(split[i][k], NeedOf(lines[i].needs, k),
                            IF lines[i].needs = {} THEN None ELSE lines[i].id, lines[i].stocked)]
           kept == {i \in DOMAIN lines : split[i][k] > 0}
<1>1. ASSUME NEW i \in kept PROVE all[i] \in FreshLine
  <2>1. i \in DOMAIN lines /\ split[i][k] > 0
    OBVIOUS
  <2>2. lines[i] \in RequestLine /\ split[i] \in [Buyer -> Int]
    BY <2>1, SplitsOf
  <2>3. PICK qty \in Nat \ {0} : qty = split[i][k]
    BY <2>1, <2>2
  <2>4. PICK need \in Requirement \cup {None} : need = NeedOf(lines[i].needs, k)
    BY <2>2, NeedOfTyped DEF RequestLine
  <2>5. PICK from \in LineId \cup {None} : from = IF lines[i].needs = {} THEN None ELSE lines[i].id
    BY <2>2 DEF RequestLine
  <2>6. from # None => need # None
    <3>1. CASE lines[i].needs = {}
      BY <2>5, <3>1
    <3>2. CASE k \in Customer
      <4>1. NeedOf(lines[i].needs, k) = None => split[i][k] = 0
        BY <2>1, <3>2, SplitsOf
      <4> QED
        BY <2>1, <2>4, <4>1
    <3>3. CASE lines[i].needs # {} /\ k = 0
      <4>1. split[i][0] = 0
        BY <2>1, <3>3, SplitsOf
      <4> QED
        BY <2>1, <3>3, <4>1
    <3>4. k = 0 \/ k \in Customer
      BY ProcurementAssumption DEF Buyer, Customer
    <3> QED
      BY <3>1, <3>2, <3>3, <3>4
  <2>7. PICK stocked \in BOOLEAN : stocked = lines[i].stocked
    BY <2>2 DEF RequestLine
  <2>8. all[i] = NewLine(qty, need, from, stocked)
    BY <2>1, <2>3, <2>4, <2>5, <2>7
  <2> QED
    BY <2>6, <2>8, NewLineFresh
<1>2. PICK n \in Nat : n = Len(lines)
  OBVIOUS
<1>3. kept \in SUBSET (1..n)
  BY <1>2
<1>4. LinesFor(k, lines, split) = Only(all, kept)
  BY DEF LinesFor
<1> HIDE DEF all, kept
<1>5. \A i \in kept : all[i] \in FreshLine
  BY <1>1
<1> QED
  BY <1>3, <1>4, <1>5, OnlySeq

LEMMA OrdersForTyped ==
  ASSUME NEW lines \in Seq(RequestLine), NEW split \in Splits(lines)
  PROVE  OrdersFor(lines, split) \in Seq(Lists)
<1>1. PICK n \in Nat : n = NumCustomers + 1
  BY ProcurementAssumption
<1> DEFINE all == [k \in 1..n |-> LinesFor(k - 1, lines, split)]
           kept == {k \in 1..n : all[k] # <<>>}
<1>2. OrdersFor(lines, split) = Only(all, kept)
  BY <1>1 DEF OrdersFor
<1>3. \A k \in kept : all[k] \in Lists
  <2> TAKE k \in kept
  <2>1. PICK b \in Buyer : b = k - 1
    BY <1>1, ProcurementAssumption DEF Buyer
  <2>2. all[k] = LinesFor(b, lines, split) /\ all[k] # <<>>
    BY <2>1
  <2> QED
    BY <2>2, LinesForTyped DEF Lists
<1>4. kept \in SUBSET (1..n)
  OBVIOUS
<1> HIDE DEF all, kept
<1> QED
  BY <1>2, <1>3, <1>4, OnlySeq

LEMMA ConvertKeeps ==
  ASSUME ProcInv, NEW c \in Connection, Convert(c)
  PROVE  Kept
<1>1. CASE Fails(c)
  BY <1>1, FailKeeps
<1>2. CASE ~ Fails(c)
  <2>1. PICK q \in Request : q = tx[c].on
    BY RequestTx DEF Convert, Does
  <2>2. PICK lines \in Seq(RequestLine) : lines = tx[c].lines
    BY RequestTx DEF Convert, Does
  <2>3. PICK split \in Splits(lines) : Place(OrdersFor(lines, split))
    BY <1>2, <2>2 DEF Convert
  <2>4. /\ request' = [request EXCEPT ![q].status = "CONVERTED"]
        /\ Ends(c) /\ claim' = claim
    BY <1>2, <2>1 DEF Convert
  <2>5. PICK orders \in Seq(Lists) : orders = OrdersFor(lines, split)
    BY OrdersForTyped
  <2>6. /\ order' \in [Order -> OrderRow] /\ posted' \in [Order -> Nat]
        /\ \A n \in Order : Moves(n)
        /\ \A n \in Order : OrderOK(order'[n])
        /\ \A n \in Order : PostedOK(n)'
    BY <2>3, <2>5, PlaceKeeps
  <2>7. request' \in [Request -> RequestRow]
    <3>1. request[q] \in RequestRow
      BY DEF ProcInv
    <3>2. [request[q] EXCEPT !.status = "CONVERTED"] \in RequestRow
      BY <3>1 DEF RequestRow, RequestStatus
    <3> QED
      BY <2>4, <3>2 DEF ProcInv
  <2>8. claim' \in [Requirement -> LineId \cup {None}]
    BY <2>4 DEF ProcInv
  <2> QED
    BY <2>4, <2>6, <2>7, <2>8, EndKeeps
<1> QED
  BY <1>1, <1>2

-----------------------------------------------------------------------------
(* Receipts. *)

LEMMA OrderTx ==
  ASSUME ProcInv, NEW c \in Connection, tx[c].kind = "orders"
  PROVE  /\ tx[c].on \in Order /\ tx[c].amount \in Seq(Nat)
         /\ tx[c].op = "received" => tx[c].status \in {"ORDERED", "PARTIAL", "DELIVERED"}
         /\ ReceiptOK(tx[c])
<1>1. PICK t : t = tx[c]
  OBVIOUS
<1>2. TxOK(t) /\ LinkOK(t) /\ t.kind = "orders"
  BY <1>1 DEF ProcInv
<1>3. t.on \in Order /\ t.amount \in Seq(Nat)
      /\ (t.op = "received" => t.status \in {"ORDERED", "PARTIAL", "DELIVERED"})
  BY <1>2 DEF TxOK, Idle
<1>4. ReceiptOK(t)
  BY <1>2 DEF LinkOK
<1> QED
  BY <1>1, <1>3, <1>4

LEMMA ReceiveKeeps ==
  ASSUME ProcInv, NEW c \in Connection, Receive(c)
  PROVE  Kept
<1>1. CASE Fails(c)
  BY <1>1, FailKeeps
<1>2. CASE ~ Fails(c)
  <2>1. tx[c].on \in Order /\ tx[c].amount \in Seq(Nat) /\ ReceiptOK(tx[c])
    BY OrderTx DEF Receive, Does
  <2>2. PICK n \in Order : n = tx[c].on
    BY <2>1
  <2>3. PICK amount \in Seq(Nat) : amount = tx[c].amount
    BY <2>1
  <2>4. PICK status : status = StatusOf(Plus(order[n].lines, amount))
    OBVIOUS
  <2>5. PICK what : what = [kind |-> "orders", op |-> "received", on |-> n, amount |-> amount,
                            status |-> status]
    OBVIOUS
  <2>6. /\ order[n].status # "NONE"
        /\ tx' = [tx EXCEPT ![c] = what]
        /\ request' = request /\ claim' = claim /\ order' = order /\ posted' = posted
    BY <1>2, <2>2, <2>3, <2>4, <2>5 DEF Receive
  <2>7. status \in {"ORDERED", "PARTIAL", "DELIVERED"}
        /\ (status = "DELIVERED" => AllFull(Plus(order[n].lines, amount)))
    BY <2>4 DEF StatusOf, AllFull
  <2>8. DOMAIN amount = DOMAIN order[n].lines
    BY <2>1, <2>2, <2>3, <2>6 DEF ReceiptOK, Receive, Does
  <2>9. TxOK(what)
    BY <2>5, <2>7 DEF TxOK
  <2>10. LinkOK(what)'
    BY <2>5, <2>6, <2>7, <2>8 DEF LinkOK, ReceiptOK
  <2>11. DOMAIN tx' = Connection /\ tx'[c] = what /\ \A d \in Connection : d # c => tx'[d] = tx[d]
    BY <2>6 DEF ProcInv
  <2>12. TxOK(tx[c])' /\ LinkOK(tx[c])'
    BY <2>9, <2>10, <2>11 DEF TxOK, LinkOK, ReceiptOK, FirstOK, AnswerOK
  <2>13. \A d \in Connection : tx'[d] = tx[d] \/ (TxOK(tx[d])' /\ LinkOK(tx[d])')
    BY <2>11, <2>12
  <2>14. request' \in [Request -> RequestRow] /\ claim' \in [Requirement -> LineId \cup {None}]
    BY <2>6 DEF ProcInv
  <2>15. /\ order' \in [Order -> OrderRow] /\ posted' \in [Order -> Nat]
         /\ \A n_1 \in Order : Moves(n_1)
         /\ \A n_1 \in Order : OrderOK(order'[n_1])
         /\ \A n_1 \in Order : PostedOK(n_1)'
    BY <2>6, OrdersSame
  <2> QED
    BY <2>11, <2>13, <2>14, <2>15, StepKeeps
<1> QED
  BY <1>1, <1>2

LEMMA ReceivedPlus ==
  ASSUME NEW lines \in Seq(OrderLine), NEW amount \in Seq(Nat), DOMAIN amount = DOMAIN lines
  PROVE  /\ Plus(lines, amount) \in Seq(OrderLine)
         /\ DOMAIN Plus(lines, amount) = DOMAIN lines
         /\ Received(Plus(lines, amount)) = Received(lines) + Total(Stocked(lines, amount), Len(lines))
         /\ Total(Stocked(lines, amount), Len(lines)) \in Nat
<1>1. PICK k \in Nat : k = Len(lines)
  OBVIOUS
<1>2. DOMAIN lines = 1..k /\ DOMAIN amount = 1..k /\ Len(amount) = k
  BY <1>1
<1>3. PICK new : new = Plus(lines, amount)
  OBVIOUS
<1>4. \A i \in 1..k : lines[i] \in OrderLine /\ amount[i] \in Nat
  BY <1>2
<1>5. new = [i \in 1..k |-> [lines[i] EXCEPT !.received = @ + amount[i]]]
  BY <1>2, <1>3 DEF Plus
<1>6. ASSUME NEW i \in 1..k
      PROVE  new[i] \in OrderLine /\ new[i].received = lines[i].received + amount[i]
             /\ lines[i].received \in Nat /\ new[i].stocked = lines[i].stocked
  <2>1. PICK a \in OrderLine : a = lines[i]
    BY <1>4
  <2>2. PICK m \in Nat : m = amount[i]
    BY <1>4
  <2>3. a.received \in Nat /\ a.received + m \in Nat
    BY DEF OrderLine
  <2>4. PICK b : b = [a EXCEPT !.received = a.received + m]
    OBVIOUS
  <2>5. new[i] = b
    BY <1>5, <2>1, <2>2, <2>4
  <2>6. b \in OrderLine /\ b.received = a.received + m
    BY <2>3, <2>4 DEF OrderLine
  <2>7. b.stocked = a.stocked
    BY <2>4 DEF OrderLine
  <2> QED
    BY <2>1, <2>2, <2>3, <2>5, <2>6, <2>7
<1>7. new \in Seq(OrderLine) /\ DOMAIN new = 1..k /\ Len(new) = k
  <2>1. new \in [1..k -> OrderLine]
    BY <1>5, <1>6
  <2>2. DOMAIN new = 1..k
    BY <1>5
  <2> HIDE DEF OrderLine
  <2> QED
    BY <2>1, <2>2
<1>8. PICK f : f = [i \in 1..k |-> IF lines[i].stocked THEN lines[i].received ELSE 0]
  OBVIOUS
<1>9. PICK g : g = [i \in 1..k |-> IF lines[i].stocked THEN amount[i] ELSE 0]
  OBVIOUS
<1>10. PICK h : h = [i \in 1..k |-> IF new[i].stocked THEN new[i].received ELSE 0]
  OBVIOUS
<1>11. ASSUME NEW i \in 1..k
       PROVE  f[i] \in Int /\ g[i] \in Nat /\ h[i] \in Int /\ h[i] = f[i] + g[i]
  BY <1>4, <1>6, <1>8, <1>9, <1>10
<1>12. f \in [1..k -> Int] /\ h \in [1..k -> Int] /\ g \in [1..k -> Int] /\ g \in [1..k -> Nat]
  BY <1>8, <1>9, <1>10, <1>11
<1>13. \A i \in 1..k : h[i] = f[i] + g[i]
  BY <1>11
<1>14. Total(h, k) = Total(f, k) + Total(g, k) /\ Total(g, k) \in Nat
  BY <1>12, <1>13, TotalPlus, TotalNat
<1>15. Stocked(lines, ReceivedOf(lines)) = f /\ Stocked(lines, amount) = g /\ Stocked(new, ReceivedOf(new)) = h
  BY <1>2, <1>7, <1>8, <1>9, <1>10 DEF Stocked, ReceivedOf
<1>16. Received(lines) = Total(f, k) /\ Received(new) = Total(h, k)
  BY <1>1, <1>7, <1>15 DEF Received
<1> QED
  BY <1>1, <1>2, <1>3, <1>7, <1>14, <1>15, <1>16

LEMMA CommitReceiptKeeps ==
  ASSUME ProcInv, NEW c \in Connection, CommitReceipt(c)
  PROVE  Kept
<1>1. /\ tx[c].on \in Order /\ tx[c].amount \in Seq(Nat) /\ ReceiptOK(tx[c])
      /\ tx[c].status \in {"ORDERED", "PARTIAL", "DELIVERED"} /\ tx[c].op = "received"
  BY OrderTx DEF CommitReceipt, Does
<1>2. PICK n \in Order : n = tx[c].on
  BY <1>1
<1>3. PICK amount \in Seq(Nat) : amount = tx[c].amount
  BY <1>1
<1>4. PICK status \in {"ORDERED", "PARTIAL", "DELIVERED"} : status = tx[c].status
  BY <1>1
<1>5. PICK x : x = order[n]
  OBVIOUS
<1>6. PICK y : y = [status |-> status, lines |-> Plus(x.lines, amount)]
  OBVIOUS
<1>0. PICK gain : gain = Total(Stocked(x.lines, amount), Len(x.lines))
  OBVIOUS
<1>7. /\ order' = [order EXCEPT ![n] = y]
      /\ posted' = [posted EXCEPT ![n] = posted[n] + gain]
      /\ Ends(c) /\ request' = request /\ claim' = claim
  BY <1>0, <1>2, <1>3, <1>4, <1>5, <1>6 DEF CommitReceipt
<1>8. /\ x.status # "NONE" /\ DOMAIN amount = DOMAIN x.lines
      /\ status = "DELIVERED" => AllFull(y.lines)
  BY <1>1, <1>2, <1>3, <1>4, <1>5, <1>6 DEF ReceiptOK
<1>9. x \in OrderRow /\ OrderOK(x) /\ x.lines \in Seq(OrderLine)
      /\ posted \in [Order -> Nat] /\ order \in [Order -> OrderRow]
  BY <1>5 DEF ProcInv, OrderRow
<1>10. /\ y.lines = Plus(x.lines, amount) /\ y.lines \in Seq(OrderLine)
       /\ DOMAIN y.lines = DOMAIN x.lines
       /\ Received(y.lines) = Received(x.lines) + gain
       /\ gain \in Nat
  BY <1>0, <1>6, <1>8, <1>9, ReceivedPlus
<1>11. y \in OrderRow /\ y.status = status
  BY <1>6, <1>10 DEF OrderRow, OrderStatus
<1>12. ASSUME NEW i \in DOMAIN x.lines
       PROVE  RowGrows(x.lines[i], y.lines[i]) /\ ScheduleOK(y.lines[i])
  <2>1. x.lines[i] \in OrderLine /\ ScheduleOK(x.lines[i]) /\ amount[i] \in Nat
    BY <1>8, <1>9 DEF OrderOK
  <2>2. PICK a \in OrderLine : a = x.lines[i]
    BY <2>1
  <2>3. PICK b : b = y.lines[i]
    OBVIOUS
  <2>4. b = [a EXCEPT !.received = @ + amount[i]]
    BY <1>10, <2>2, <2>3 DEF Plus
  <2>5. /\ b.qty = a.qty /\ b.need = a.need /\ b.from = a.from /\ b.current = a.current
        /\ b.versions = a.versions /\ b.received = a.received + amount[i] /\ a.received \in Nat
    BY <2>4 DEF OrderLine
  <2>6. ScheduleOK(b)
    BY <2>1, <2>2, <2>5 DEF ScheduleOK
  <2>7. RowGrows(a, a)
    BY RowReflexive
  <2>8. RowGrows(a, b)
    BY <2>1, <2>5, <2>7 DEF RowGrows
  <2> QED
    BY <2>2, <2>3, <2>6, <2>8
<1>13. y.lines = <<>> <=> x.lines = <<>>
  BY <1>9, <1>10
<1>14. OrderOK(y)
  BY <1>8, <1>9, <1>10, <1>11, <1>12, <1>13 DEF OrderOK
<1>15. OrderGrows(x, y)
  BY <1>8, <1>10, <1>11, <1>12 DEF OrderGrows
<1>16. PostedOK(n)'
  <2>1. posted[n] = Received(x.lines)
    BY <1>5, <1>8 DEF ProcInv, PostedOK
  <2>2. order'[n] = y /\ posted'[n] = posted[n] + gain
    BY <1>7, <1>9
  <2> QED
    BY <1>10, <2>1, <2>2 DEF PostedOK
<1>17. ASSUME NEW m \in Order PROVE Moves(m) /\ OrderOK(order'[m]) /\ PostedOK(m)'
  <2>1. CASE m = n
    BY <1>5, <1>7, <1>9, <1>14, <1>15, <1>16, <2>1 DEF Moves
  <2>2. CASE m # n
    <3>1. order'[m] = order[m] /\ posted'[m] = posted[m]
      BY <1>7, <1>9, <2>2
    <3>2. OrderOK(order[m]) /\ PostedOK(m) /\ order[m] \in OrderRow
      BY DEF ProcInv
    <3> QED
      BY <3>1, <3>2, OrderReflexive DEF Moves, PostedOK
  <2> QED
    BY <2>1, <2>2
<1>18. order' \in [Order -> OrderRow] /\ posted' \in [Order -> Nat]
  <2>1. posted[n] + gain \in Nat
    BY <1>9, <1>10
  <2> QED
    BY <1>7, <1>9, <1>11, <2>1
<1>19. request' \in [Request -> RequestRow] /\ claim' \in [Requirement -> LineId \cup {None}]
  BY <1>7 DEF ProcInv
<1> QED
  BY <1>7, <1>17, <1>18, <1>19, EndKeeps

LEMMA RemoveOrderKeeps ==
  ASSUME ProcInv, NEW c \in Connection, NEW n \in Order, RemoveOrder(c, n)
  PROVE  Kept
<1>1. /\ order' = [order EXCEPT ![n] = NoOrder] /\ Unreceived(n)
      /\ request' = request /\ claim' = claim /\ posted' = posted /\ tx' = tx
  BY DEF RemoveOrder, Unreceived
<1>2. NoOrder \in OrderRow /\ OrderOK(NoOrder)
  <2>1. NoOrder \in OrderRow /\ NoOrder.lines = <<>> /\ NoOrder.status = "NONE"
    BY DEF NoOrder, OrderRow, OrderStatus
  <2> QED
    BY <2>1 DEF OrderOK
<1>3. order \in [Order -> OrderRow] /\ posted \in [Order -> Nat]
  BY DEF ProcInv
<1>4. ASSUME NEW m \in Order PROVE Moves(m) /\ OrderOK(order'[m]) /\ PostedOK(m)'
  <2>1. CASE m = n
    BY <1>1, <1>2, <1>3, <2>1 DEF Moves, PostedOK, NoOrder
  <2>2. CASE m # n
    <3>1. order'[m] = order[m] /\ posted'[m] = posted[m]
      BY <1>1, <1>3, <2>2
    <3>2. OrderOK(order[m]) /\ PostedOK(m) /\ order[m] \in OrderRow
      BY DEF ProcInv
    <3> QED
      BY <3>1, <3>2, OrderReflexive DEF Moves, PostedOK
  <2> QED
    BY <2>1, <2>2
<1>5. order' \in [Order -> OrderRow] /\ posted' \in [Order -> Nat]
  BY <1>1, <1>2, <1>3
<1>6. /\ request' \in [Request -> RequestRow] /\ claim' \in [Requirement -> LineId \cup {None}]
      /\ DOMAIN tx' = Connection /\ \A d \in Connection : tx'[d] = tx[d]
  BY <1>1 DEF ProcInv
<1> QED
  BY <1>4, <1>5, <1>6, StepKeeps

-----------------------------------------------------------------------------
(* Schedules. *)

(***************************************************************************)
(* A step that changes lines and nothing else, and ends.                   *)
(***************************************************************************)
LEMMA SchedulesKeep ==
  ASSUME ProcInv, NEW c \in Connection, Ends(c), request' = request, claim' = claim, posted' = posted,
         NEW new,
         order' = [n \in Order |-> [status |-> order[n].status, lines |-> new[n]]],
         \A n \in Order : /\ DOMAIN new[n] = DOMAIN order[n].lines
                          /\ new[n] = [i \in DOMAIN new[n] |-> new[n][i]],
         \A n \in Order : \A i \in DOMAIN new[n] : LineChanges(order[n].lines[i], new[n][i])
  PROVE  Kept
<1>1. ASSUME NEW n \in Order
      PROVE  order'[n] \in OrderRow /\ OrderOK(order'[n]) /\ Moves(n) /\ PostedOK(n)'
  <2>1. PICK lines : lines = new[n]
    OBVIOUS
  <2>2. /\ order'[n] = [status |-> order[n].status, lines |-> lines]
        /\ DOMAIN lines = DOMAIN order[n].lines
        /\ lines = [i \in DOMAIN lines |-> lines[i]]
        /\ \A i \in DOMAIN lines : LineChanges(order[n].lines[i], lines[i])
        /\ posted'[n] = posted[n]
    BY <2>1
  <2> QED
    BY <2>2, LinesChange
<1>2. order' \in [Order -> OrderRow] /\ posted' \in [Order -> Nat]
  <2>1. \A n \in Order : order'[n] \in OrderRow
    BY <1>1
  <2>2. order' = [n \in Order |-> order'[n]]
    OBVIOUS
  <2> QED
    BY <2>1, <2>2 DEF ProcInv
<1>3. request' \in [Request -> RequestRow] /\ claim' \in [Requirement -> LineId \cup {None}]
  BY DEF ProcInv
<1> QED
  BY <1>1, <1>2, <1>3, EndKeeps

LEMMA RespondKeeps ==
  ASSUME ProcInv, NEW c \in Connection, NEW l \in Line, NEW y, LineChanges(Item(l), y),
         order' = [order EXCEPT ![l[1]].lines[l[2]] = y],
         Ends(c), request' = request, claim' = claim, posted' = posted
  PROVE  Kept
<1>1. PICK k \in Order : k = l[1]
  BY LineOf
<1>2. PICK j : j = l[2]
  OBVIOUS
<1>3. j \in DOMAIN order[k].lines /\ Item(l) = order[k].lines[j]
  BY <1>1, <1>2, LineOf DEF Item
<1> DEFINE new == [n \in Order |-> IF n = k THEN [order[n].lines EXCEPT ![j] = y] ELSE order[n].lines]
<1>4. order \in [Order -> OrderRow]
  BY DEF ProcInv
<1>5. order' = [n \in Order |-> [status |-> order[n].status, lines |-> new[n]]]
  <2>1. order' = [order EXCEPT ![k] = [order[k] EXCEPT !.lines = [order[k].lines EXCEPT ![j] = y]]]
    BY <1>1, <1>2
  <2>2. \A n \in Order : order'[n] = [status |-> order[n].status, lines |-> new[n]]
    <3> TAKE n \in Order
    <3>1. order[n] = [status |-> order[n].status, lines |-> order[n].lines]
      BY OrderLines
    <3>2. CASE n = k
      BY <1>4, <2>1, <3>1, <3>2
    <3>3. CASE n # k
      BY <1>4, <2>1, <3>1, <3>3
    <3> QED
      BY <3>2, <3>3
  <2>3. order' = [n \in Order |-> order'[n]]
    BY <1>4, <2>1
  <2> HIDE DEF new
  <2> QED
    BY <2>2, <2>3
<1>6. ASSUME NEW n \in Order
      PROVE  /\ DOMAIN new[n] = DOMAIN order[n].lines
             /\ new[n] = [i \in DOMAIN new[n] |-> new[n][i]]
             /\ \A i \in DOMAIN new[n] : LineChanges(order[n].lines[i], new[n][i])
  <2>1. \A i \in DOMAIN order[n].lines : LineChanges(order[n].lines[i], order[n].lines[i])
    BY OrderLines, LineUnchanged
  <2>2. order[n].lines = [i \in DOMAIN order[n].lines |-> order[n].lines[i]]
    BY OrderLines
  <2>3. CASE n # k
    BY <2>1, <2>2, <2>3
  <2>4. CASE n = k
    <3>1. new[n] = [order[n].lines EXCEPT ![j] = y]
      BY <2>4
    <3> HIDE DEF new
    <3>2. DOMAIN new[n] = DOMAIN order[n].lines /\ new[n] = [i \in DOMAIN new[n] |-> new[n][i]]
      BY <2>2, <3>1
    <3>3. \A i \in DOMAIN order[n].lines : new[n][i] = IF i = j THEN y ELSE order[n].lines[i]
      BY <2>2, <3>1
    <3> QED
      BY <1>3, <2>1, <2>4, <3>2, <3>3
  <2> QED
    BY <2>3, <2>4
<1> HIDE DEF new
<1> QED
  BY <1>5, <1>6, SchedulesKeep

LEMMA CreateFirstKeeps ==
  ASSUME ProcInv, NEW c \in Connection, CreateFirst(c)
  PROVE  Kept
<1>1. CASE Fails(c)
  BY <1>1, FailKeeps
<1>2. CASE ~ Fails(c)
  <2>1. PICK t : t = tx[c]
    OBVIOUS
  <2>2. TxOK(t) /\ LinkOK(t) /\ t.kind = "schedules" /\ t.op = "first"
    BY <2>1 DEF ProcInv, CreateFirst, Does
  <2>3. PICK plan : plan = t.plan
    OBVIOUS
  <2>4. plan \in [DOMAIN plan -> Nat \ {0}] /\ FirstOK(t)
    <3>1. t.plan \in [DOMAIN t.plan -> Nat \ {0}]
      BY <2>2 DEF TxOK, Idle, Answers
    <3>2. FirstOK(t)
      BY <2>2 DEF LinkOK
    <3> QED
      BY <2>3, <3>1, <3>2
  <2> DEFINE New(n, i) == IF <<n, i>> \in DOMAIN plan
                          THEN [order[n].lines[i] EXCEPT !.current = 1,
                                  !.versions = <<[status |-> "PENDING", total |-> plan[<<n, i>>]]>>]
                          ELSE order[n].lines[i]
             new == [n \in Order |-> [i \in DOMAIN order[n].lines |-> New(n, i)]]
  <2>5. /\ ~ \E l \in DOMAIN plan : IF l \in Line THEN Item(l).versions # <<>> ELSE TRUE
        /\ order' = [n \in Order |-> [order[n] EXCEPT !.lines = [i \in DOMAIN order[n].lines |-> New(n, i)]]]
        /\ Ends(c) /\ request' = request /\ claim' = claim /\ posted' = posted
    BY <1>2, <2>1, <2>3 DEF CreateFirst
  <2>6. order' = [n \in Order |-> [status |-> order[n].status, lines |-> new[n]]]
    <3> HIDE DEF New
    <3>1. ASSUME NEW n \in Order PROVE order'[n] = [status |-> order[n].status, lines |-> new[n]]
      <4>1. order[n] = [status |-> order[n].status, lines |-> order[n].lines]
        BY OrderLines
      <4> QED
        BY <2>5, <4>1
    <3>2. order' = [n \in Order |-> order'[n]]
      BY <2>5
    <3> HIDE DEF new
    <3> QED
      BY <3>1, <3>2
  <2>7. ASSUME NEW n \in Order, NEW i \in DOMAIN order[n].lines
        PROVE  LineChanges(order[n].lines[i], New(n, i))
    <3>1. PICK x : x = order[n].lines[i]
      OBVIOUS
    <3>2. x \in OrderLine /\ ScheduleOK(x)
      BY <3>1, OrderLines
    <3>3. CASE <<n, i>> \notin DOMAIN plan
      BY <3>1, <3>2, <3>3, LineUnchanged
    <3>4. CASE <<n, i>> \in DOMAIN plan
      <4>1. PICK p \in Nat \ {0} : p = plan[<<n, i>>]
        BY <2>4, <3>4
      <4>2. PICK y : y = [x EXCEPT !.current = 1, !.versions = <<[status |-> "PENDING", total |-> p]>>]
        OBVIOUS
      <4>3. x.versions = <<>> /\ p <= x.qty
        <5>1. <<n, i>> \in Line /\ Item(<<n, i>>) = x
          BY <3>1, OfLine DEF Item
        <5> QED
          BY <2>3, <2>4, <2>5, <3>4, <4>1, <5>1 DEF FirstOK
      <4>4. PICK version \in Version : version = [status |-> "PENDING", total |-> p]
        BY DEF Version, VersionStatus
      <4>5. /\ y \in OrderLine /\ y.current = 1 /\ y.versions = <<version>> /\ y.qty = x.qty
            /\ y.received = x.received /\ y.stocked = x.stocked /\ y.need = x.need /\ y.from = x.from
        <5>0. <<version>> \in Seq(Version)
          <6> HIDE DEF Version
          <6> QED
            OBVIOUS
        <5>1. PICK versions \in Seq(Version) : versions = <<version>>
          BY <5>0
        <5>2. y = [x EXCEPT !.current = 1, !.versions = versions]
          BY <4>2, <4>4, <5>1
        <5> QED
          BY <3>2, <5>1, <5>2 DEF OrderLine
      <4>6. /\ DOMAIN y.versions = {1} /\ y.versions[1].total = p /\ y.versions[1].status = "PENDING"
            /\ DOMAIN x.versions = {}
        BY <4>3, <4>4, <4>5
      <4>7. x.current = 0 /\ x.received \in Nat
        BY <3>2, <4>6 DEF ScheduleOK, OrderLine
      <4>8. ScheduleOK(y)
        BY <3>2, <4>3, <4>5, <4>6 DEF ScheduleOK
      <4>9. RowGrows(x, y)
        BY <4>5, <4>6, <4>7 DEF RowGrows
      <4> QED
        BY <3>1, <3>4, <4>1, <4>2, <4>5, <4>8, <4>9 DEF LineChanges
    <3> QED
      BY <3>3, <3>4
  <2> HIDE DEF New
  <2>8. \A n \in Order : DOMAIN new[n] = DOMAIN order[n].lines /\ new[n] = [i \in DOMAIN new[n] |-> new[n][i]]
    OBVIOUS
  <2>9. \A n \in Order : \A i \in DOMAIN new[n] : LineChanges(order[n].lines[i], new[n][i])
    BY <2>7
  <2> HIDE DEF new
  <2> QED
    BY <2>5, <2>6, <2>8, <2>9, SchedulesKeep
<1> QED
  BY <1>1, <1>2

LEMMA ScheduleTx ==
  ASSUME ProcInv, NEW c \in Connection, tx[c].kind = "schedules", tx[c].op # "first"
  PROVE  /\ tx[c] \in [kind: {"schedules"}, op: Answers \cup {"propose", "numbered"}, line: Order \X (Nat \ {0}),
                       version: Nat, total: Nat, current: Nat, count: Nat]
         /\ AnswerOK(tx[c])
<1>1. PICK t : t = tx[c]
  OBVIOUS
<1>2. TxOK(t) /\ LinkOK(t) /\ t.kind = "schedules" /\ t.op # "first"
  BY <1>1 DEF ProcInv
<1>3. t \in [kind: {"schedules"}, op: Answers \cup {"propose", "numbered"}, line: Order \X (Nat \ {0}),
             version: Nat, total: Nat, current: Nat, count: Nat]
  BY <1>2 DEF TxOK, Idle
<1>4. AnswerOK(t)
  BY <1>2 DEF LinkOK
<1> QED
  BY <1>1, <1>3, <1>4

\* The row y is x with version v marked.
MarkedAs(x, y, v, status) ==
  /\ y \in OrderLine
  /\ y.qty = x.qty /\ y.need = x.need /\ y.from = x.from /\ y.received = x.received
  /\ y.stocked = x.stocked
  /\ y.current = x.current
  /\ DOMAIN y.versions = DOMAIN x.versions
  /\ \A w \in DOMAIN x.versions : y.versions[w].total = x.versions[w].total
  /\ y.versions[v].status = status
  /\ \A w \in DOMAIN x.versions : w # v => y.versions[w] = x.versions[w]

LEMMA MarkedVersion ==
  ASSUME NEW x \in OrderLine, NEW v \in DOMAIN x.versions, NEW status \in VersionStatus
  PROVE  MarkedAs(x, Marked(x, v, status), v, status)
<1>1. PICK old \in Seq(Version) : old = x.versions
  BY DEF OrderLine
<1>2. PICK k \in Nat : k = Len(old)
  OBVIOUS
<1>3. DOMAIN old = 1..k /\ v \in 1..k /\ old \in [1..k -> Version]
  BY <1>1, <1>2
<1>4. PICK new : new = [old EXCEPT ![v] = [old[v] EXCEPT !.status = status]]
  OBVIOUS
<1>5. [old[v] EXCEPT !.status = status] \in Version
  BY <1>3 DEF Version
<1>6. new \in [1..k -> Version]
  <2> HIDE DEF Version
  <2> QED
    BY <1>3, <1>4, <1>5
<1>7. new \in Seq(Version) /\ DOMAIN new = 1..k
  <2> HIDE DEF Version
  <2> QED
    BY <1>6
<1>8. PICK y : y = [x EXCEPT !.versions = new]
  OBVIOUS
<1>9. Marked(x, v, status) = y
  BY <1>1, <1>4, <1>8 DEF Marked
<1>10. /\ y \in OrderLine /\ y.versions = new
       /\ y.qty = x.qty /\ y.need = x.need /\ y.from = x.from /\ y.received = x.received
       /\ y.stocked = x.stocked
       /\ y.current = x.current
  BY <1>7, <1>8 DEF OrderLine
<1>11. \A w \in 1..k : new[w].total = old[w].total
  <2> TAKE w \in 1..k
  <2>1. old[w] \in Version
    BY <1>3
  <2> QED
    BY <1>3, <1>4, <2>1 DEF Version
<1>12. new[v].status = status /\ \A w \in 1..k : w # v => new[w] = old[w]
  <2>1. old[v] \in Version
    BY <1>3
  <2>2. new[v] = [old[v] EXCEPT !.status = status]
    BY <1>3, <1>4
  <2> QED
    BY <1>3, <1>4, <2>1, <2>2 DEF Version
<1> QED
  BY <1>1, <1>3, <1>7, <1>9, <1>10, <1>11, <1>12 DEF MarkedAs

LEMMA AnsweredRow ==
  ASSUME NEW x \in OrderLine, ScheduleOK(x), NEW v \in DOMAIN x.versions,
         NEW status \in VersionStatus \ {"PROPOSED"}
  PROVE  LineChanges(x, Marked(x, v, status))
<1>1. PICK y : y = Marked(x, v, status)
  OBVIOUS
<1>2. MarkedAs(x, y, v, status)
  BY <1>1, MarkedVersion
<1>3. x.versions \in Seq(Version) /\ x.current \in Nat /\ x.received \in Nat
  BY DEF OrderLine
<1>4. \A w \in DOMAIN x.versions : y.versions[w].status = "PROPOSED" => x.versions[w].status = "PROPOSED"
  BY <1>2 DEF MarkedAs
<1>5. ScheduleOK(y)
  <2>1. y.current = 0 => y.versions = <<>>
    <3>1. y.current = 0 => DOMAIN x.versions = {}
      BY <1>2 DEF MarkedAs, ScheduleOK
    <3> QED
      BY <3>1
  <2>2. 1 \in DOMAIN x.versions
    BY <1>3
  <2> QED
    BY <1>2, <1>4, <2>1, <2>2 DEF MarkedAs, ScheduleOK
<1>6. RowGrows(x, y)
  BY <1>2, <1>3, <1>4 DEF MarkedAs, RowGrows
<1>7. LineChanges(x, y)
  BY <1>2, <1>5, <1>6 DEF MarkedAs, LineChanges
<1> QED
  BY <1>1, <1>7

LEMMA AcceptedRow ==
  ASSUME NEW x \in OrderLine, ScheduleOK(x), NEW v \in DOMAIN x.versions,
         NEW current \in Nat, v > current,
         \A w \in DOMAIN x.versions : x.versions[w].status = "PROPOSED" => w >= v
  PROVE  LineChanges(x, Accepted(x, current, v))
<1>1. CASE x.current # current
  BY <1>1, LineUnchanged DEF Accepted
<1>2. CASE x.current = current
  <2>1. x.versions \in Seq(Version) /\ x.current \in Nat /\ x.received \in Nat /\ v \in Nat
        /\ 1 \in DOMAIN x.versions
    BY DEF OrderLine
  <2>2. x.current \in DOMAIN x.versions
    BY DEF ScheduleOK
  <2>3. PICK a : a = Marked(x, current, "SUPERSEDED")
    OBVIOUS
  <2>4. MarkedAs(x, a, current, "SUPERSEDED")
    BY <1>2, <2>2, <2>3, MarkedVersion DEF VersionStatus
  <2>5. PICK b : b = Marked(a, v, "CONFIRMED")
    OBVIOUS
  <2>6. MarkedAs(a, b, v, "CONFIRMED")
    <3>1. a \in OrderLine /\ v \in DOMAIN a.versions
      BY <2>4 DEF MarkedAs
    <3> QED
      BY <2>5, <3>1, MarkedVersion DEF VersionStatus
  <2>7. PICK y : y = [b EXCEPT !.current = v]
    OBVIOUS
  <2>8. b \in OrderLine
    BY <2>6 DEF MarkedAs
  <2>9. /\ y \in OrderLine /\ y.qty = b.qty /\ y.need = b.need /\ y.from = b.from
        /\ y.received = b.received /\ y.stocked = b.stocked /\ y.current = v /\ y.versions = b.versions
    BY <2>1, <2>7, <2>8 DEF OrderLine
  <2>10. /\ y.qty = x.qty /\ y.need = x.need /\ y.from = x.from /\ y.received = x.received
  /\ y.stocked = x.stocked
         /\ DOMAIN y.versions = DOMAIN x.versions
         /\ \A w \in DOMAIN x.versions : y.versions[w].total = x.versions[w].total
    BY <2>4, <2>6, <2>9 DEF MarkedAs
  <2>11. v # x.current /\ v > x.current
    BY <1>2, <2>1
  <2>12. y.versions[v].status = "CONFIRMED" /\ y.versions[x.current].status = "SUPERSEDED"
    BY <1>2, <2>2, <2>4, <2>6, <2>9, <2>11 DEF MarkedAs
  <2>13. \A w \in DOMAIN x.versions : w # v /\ w # x.current => y.versions[w] = x.versions[w]
    BY <1>2, <2>4, <2>6, <2>9 DEF MarkedAs
  <2>14. ASSUME NEW w \in DOMAIN x.versions, y.versions[w].status = "PROPOSED"
         PROVE  x.versions[w].status = "PROPOSED" /\ w > v
    <3>1. w # v /\ w # x.current /\ w \in Nat
      BY <2>1, <2>12, <2>14
    <3>2. x.versions[w].status = "PROPOSED"
      BY <2>13, <2>14, <3>1
    <3>3. w >= v
      BY <3>2
    <3> QED
      BY <2>1, <3>1, <3>2, <3>3
  <2>15. y.current # 0
    BY <2>1, <2>9, <2>11
  <2>16. ScheduleOK(y)
    BY <2>1, <2>9, <2>10, <2>14, <2>15 DEF ScheduleOK
  <2>17. RowGrows(x, y)
    BY <2>1, <2>9, <2>10, <2>11, <2>12, <2>14 DEF RowGrows
  <2>18. Accepted(x, current, v) = y
    BY <1>2, <2>3, <2>5, <2>7 DEF Accepted
  <2> QED
    BY <2>9, <2>10, <2>16, <2>17, <2>18 DEF LineChanges
<1> QED
  BY <1>1, <1>2

LEMMA ProposedRow ==
  ASSUME NEW x \in OrderLine, ScheduleOK(x), NEW total \in Nat,
         x.versions # <<>>, total = x.versions[1].total,
         \A w \in DOMAIN x.versions : x.versions[w].status # "PROPOSED"
  PROVE  LineChanges(x, [x EXCEPT !.versions = Append(@, [status |-> "PROPOSED", total |-> total])])
<1>1. PICK old \in Seq(Version) : old = x.versions
  BY DEF OrderLine
<1>2. PICK k \in Nat : k = Len(old)
  OBVIOUS
<1>3. k > 0 /\ DOMAIN old = 1..k /\ 1 \in 1..k
  BY <1>1, <1>2
<1>4. total # 0 /\ total <= x.qty
  <2>1. old[1] \in Version
    BY <1>3
  <2> QED
    BY <1>1, <1>3, <2>1 DEF Version, ScheduleOK
<1>5. PICK version \in Version : version = [status |-> "PROPOSED", total |-> total]
  BY <1>4 DEF Version, VersionStatus
<1>6. PICK new : new = Append(old, version)
  OBVIOUS
<1>7. /\ new \in Seq(Version) /\ DOMAIN new = 1..(k + 1)
      /\ \A w \in 1..k : new[w] = old[w]
      /\ new[k + 1] = version
  <2> HIDE DEF Version
  <2> QED
    BY <1>2, <1>6
<1>8. PICK y : y = [x EXCEPT !.versions = new]
  OBVIOUS
<1>9. /\ y \in OrderLine /\ y.versions = new /\ y.qty = x.qty /\ y.need = x.need /\ y.from = x.from
      /\ y.received = x.received /\ y.stocked = x.stocked /\ y.current = x.current
      /\ x.received \in Nat /\ x.current \in Nat
  BY <1>7, <1>8 DEF OrderLine
<1>10. \A w \in DOMAIN new : w \in 1..k \/ w = k + 1
  BY <1>7
<1>11. version.total = total /\ version.status = "PROPOSED"
  BY <1>5
<1>12. \A w \in DOMAIN new : new[w].status = "PROPOSED" <=> w = k + 1
  BY <1>1, <1>3, <1>7, <1>10, <1>11
<1>13. x.current \in 1..k
  <2>1. x.current # 0
    BY <1>1, <1>2, <1>3 DEF ScheduleOK
  <2> QED
    BY <1>1, <1>3, <2>1 DEF ScheduleOK
<1>14. \A w \in DOMAIN new : new[w].total = new[1].total /\ new[w].total <= x.qty
  BY <1>1, <1>3, <1>4, <1>7, <1>10, <1>11 DEF ScheduleOK
<1>15. ScheduleOK(y)
  <2>1. /\ x.from # None => x.need # None
        /\ y.current # 0 /\ y.current \in DOMAIN new /\ k + 1 > y.current
    BY <1>7, <1>9, <1>13 DEF ScheduleOK
  <2> QED
    BY <1>9, <1>12, <1>14, <2>1 DEF ScheduleOK
<1>16. RowGrows(x, y)
  BY <1>1, <1>3, <1>7, <1>9, <1>12 DEF RowGrows
<1>17. [x EXCEPT !.versions = Append(@, [status |-> "PROPOSED", total |-> total])] = y
  BY <1>1, <1>5, <1>6, <1>8
<1> QED
  BY <1>9, <1>15, <1>16, <1>17 DEF LineChanges

\* The number a proposal is to have.
LEMMA ReadNumberKeeps ==
  ASSUME ProcInv, NEW c \in Connection, ReadNumber(c)
  PROVE  Kept
<1>1. CASE Fails(c)
  BY <1>1, FailKeeps
<1>2. CASE ~ Fails(c)
  <2>1. PICK t : t = tx[c]
    OBVIOUS
  <2>2. t.kind = "schedules" /\ t.op = "propose"
    BY <2>1 DEF ReadNumber, Does
  <2>3. /\ t \in [kind: {"schedules"}, op: Answers \cup {"propose", "numbered"}, line: Order \X (Nat \ {0}),
                  version: Nat, total: Nat, current: Nat, count: Nat]
        /\ AnswerOK(t)
    BY <2>1, <2>2, ScheduleTx
  <2>4. /\ t.line \in Line
        /\ tx' = [tx EXCEPT ![c] = [@ EXCEPT !.op = "numbered", !.count = Len(Item(t.line).versions)]]
        /\ request' = request /\ claim' = claim /\ order' = order /\ posted' = posted
    BY <1>2, <2>1 DEF ReadNumber
  <2>5. PICK k \in Nat : k = Len(Item(t.line).versions)
    <3>1. Item(t.line) \in OrderLine
      BY <2>4, ItemTyped
    <3>2. Item(t.line).versions \in Seq(Version)
      BY <3>1 DEF OrderLine
    <3> QED
      BY <3>2
  <2>6. PICK what : what = [t EXCEPT !.op = "numbered", !.count = k]
    OBVIOUS
  <2>7. tx' = [tx EXCEPT ![c] = what]
    BY <2>1, <2>4, <2>5, <2>6
  <2>8. /\ what \in [kind: {"schedules"}, op: Answers \cup {"propose", "numbered"}, line: Order \X (Nat \ {0}),
                     version: Nat, total: Nat, current: Nat, count: Nat]
        /\ what.kind = "schedules" /\ what.op = "numbered" /\ what.line = t.line
        /\ what.version = t.version /\ what.total = t.total
    BY <2>3, <2>6
  <2>9. TxOK(what)
    BY <2>8 DEF TxOK
  <2>10. AnswerOK(what)
    BY <2>2, <2>3, <2>8 DEF AnswerOK
  <2>11. LinkOK(what)'
    BY <2>4, <2>8, <2>10 DEF LinkOK, AnswerOK, Item, Line
  <2>12. DOMAIN tx' = Connection /\ tx'[c] = what /\ \A d \in Connection : d # c => tx'[d] = tx[d]
    BY <2>7 DEF ProcInv
  <2>13. TxOK(tx[c])' /\ LinkOK(tx[c])'
    BY <2>9, <2>11, <2>12 DEF TxOK, LinkOK, ReceiptOK, FirstOK, AnswerOK
  <2>14. \A d \in Connection : tx'[d] = tx[d] \/ (TxOK(tx[d])' /\ LinkOK(tx[d])')
    BY <2>12, <2>13
  <2>15. request' \in [Request -> RequestRow] /\ claim' \in [Requirement -> LineId \cup {None}]
    BY <2>4 DEF ProcInv
  <2>16. /\ order' \in [Order -> OrderRow] /\ posted' \in [Order -> Nat]
         /\ \A n \in Order : Moves(n)
         /\ \A n \in Order : OrderOK(order'[n])
         /\ \A n \in Order : PostedOK(n)'
    BY <2>4, OrdersSame
  <2> QED
    BY <2>12, <2>14, <2>15, <2>16, StepKeeps
<1> QED
  BY <1>1, <1>2

LEMMA AnswersKeep ==
  ASSUME ProcInv, NEW c \in Connection, Confirm(c) \/ Reject(c) \/ Propose(c) \/ Accept(c)
  PROVE  Kept
<1>1. CASE Fails(c)
  BY <1>1, FailKeeps
<1>2. CASE ~ Fails(c)
  <2>1. PICK t : t = tx[c]
    OBVIOUS
  <2>2. t.kind = "schedules" /\ t.op # "first" /\ t.op \in {"confirm", "reject", "numbered", "accept"}
    BY <2>1 DEF Confirm, Reject, Propose, Accept, Responds, Does
  <2>3. t.version \in Nat /\ t.total \in Nat /\ t.current \in Nat /\ AnswerOK(t)
    BY <2>1, <2>2, ScheduleTx
  <2>4. PICK l : l = t.line
    OBVIOUS
  <2>5. l \in Line /\ Ends(c) /\ request' = request /\ claim' = claim /\ posted' = posted
    BY <1>2, <2>1, <2>4 DEF Confirm, Reject, Propose, Accept, Responds
  <2>6. PICK x : x = Item(l)
    OBVIOUS
  <2>7. x \in OrderLine /\ ScheduleOK(x)
    BY <2>5, <2>6, ItemTyped
  <2>8. PICK v : v = t.version
    OBVIOUS
  <2>9. /\ v \in DOMAIN x.versions
        /\ t.op \in {"propose", "numbered"} => t.total = x.versions[1].total
        /\ t.op = "accept" =>
             /\ v > t.current
             /\ \A w \in DOMAIN x.versions : x.versions[w].status = "PROPOSED" => w >= v
    BY <2>3, <2>4, <2>5, <2>6, <2>8 DEF AnswerOK
  <2>10. x = order[l[1]].lines[l[2]]
    BY <2>6 DEF Item
  <2>11. ASSUME NEW y, LineChanges(x, y), order' = [order EXCEPT ![l[1]].lines[l[2]] = y]
         PROVE  Kept
    BY <2>5, <2>6, <2>11, RespondKeeps
  <2>12. CASE Confirm(c)
    <3>1. order' = [order EXCEPT ![l[1]].lines[l[2]] = Marked(@, v, "CONFIRMED")]
      BY <1>2, <2>1, <2>4, <2>5, <2>8, <2>12 DEF Confirm, Responds
    <3>2. PICK y : y = Marked(x, v, "CONFIRMED")
      OBVIOUS
    <3>3. order' = [order EXCEPT ![l[1]].lines[l[2]] = y]
      BY <2>10, <3>1, <3>2
    <3>4. LineChanges(x, y)
      BY <2>7, <2>9, <3>2, AnsweredRow DEF VersionStatus
    <3> QED
      BY <2>11, <3>3, <3>4
  <2>13. CASE Reject(c)
    <3>1. order' = [order EXCEPT ![l[1]].lines[l[2]] = Marked(@, v, "REJECTED")]
      BY <1>2, <2>1, <2>4, <2>5, <2>8, <2>13 DEF Reject, Responds
    <3>2. PICK y : y = Marked(x, v, "REJECTED")
      OBVIOUS
    <3>3. order' = [order EXCEPT ![l[1]].lines[l[2]] = y]
      BY <2>10, <3>1, <3>2
    <3>4. LineChanges(x, y)
      BY <2>7, <2>9, <3>2, AnsweredRow DEF VersionStatus
    <3> QED
      BY <2>11, <3>3, <3>4
  <2>14. CASE Accept(c)
    <3>0. t.op = "accept"
      BY <2>1, <2>14 DEF Accept, Responds, Does
    <3>1. order' = [order EXCEPT ![l[1]].lines[l[2]] = Accepted(@, t.current, v)]
      BY <1>2, <2>1, <2>4, <2>5, <2>8, <2>14 DEF Accept, Responds
    <3>2. PICK y : y = Accepted(x, t.current, v)
      OBVIOUS
    <3>3. order' = [order EXCEPT ![l[1]].lines[l[2]] = y]
      BY <2>10, <3>1, <3>2
    <3>4. LineChanges(x, y)
      BY <2>3, <2>7, <2>9, <3>0, <3>2, AcceptedRow
    <3> QED
      BY <2>11, <3>3, <3>4
  <2>15. CASE Propose(c)
    <3>0. t.op = "numbered"
      BY <2>1, <2>15 DEF Propose, Responds, Does
    <3> DEFINE After(item) ==
          IF Len(item.versions) # t.count \/ \E w \in DOMAIN item.versions : item.versions[w].status = "PROPOSED"
          THEN item ELSE [item EXCEPT !.versions = Append(@, [status |-> "PROPOSED", total |-> t.total])]
    <3>1. order' = [order EXCEPT ![l[1]].lines[l[2]] = After(@)]
      BY <1>2, <2>1, <2>4, <2>5, <2>15 DEF Propose, Responds
    <3>2. PICK y : y = After(x)
      OBVIOUS
    <3>3. order' = [order EXCEPT ![l[1]].lines[l[2]] = y]
      <4> HIDE DEF After
      <4> QED
        BY <2>10, <3>1, <3>2
    <3>4. LineChanges(x, y)
      <4>1. CASE y = x
        BY <2>7, <4>1, LineUnchanged
      <4>2. CASE y # x
        <5>1. /\ \A w \in DOMAIN x.versions : x.versions[w].status # "PROPOSED"
              /\ y = [x EXCEPT !.versions = Append(@, [status |-> "PROPOSED", total |-> t.total])]
          BY <3>2, <4>2
        <5>2. x.versions # <<>> /\ t.total = x.versions[1].total
          BY <2>9, <3>0
        <5> QED
          BY <2>3, <2>7, <5>1, <5>2, ProposedRow
      <4> QED
        BY <4>1, <4>2
    <3> QED
      BY <2>11, <3>3, <3>4
  <2> QED
    BY <2>12, <2>13, <2>14, <2>15
<1> QED
  BY <1>1, <1>2

-----------------------------------------------------------------------------
(* The theorems. *)

LEMMA InitProc == Init => ProcInv
<1> SUFFICES ASSUME Init PROVE ProcInv
  OBVIOUS
<1>1. NoRequest \in RequestRow
  BY DEF NoRequest, RequestRow, RequestStatus
<1>2. NoOrder \in OrderRow /\ NoOrder.status = "NONE" /\ NoOrder.lines = <<>>
  BY DEF NoOrder, OrderRow, OrderStatus
<1>3. OrderOK(NoOrder)
  BY <1>2 DEF OrderOK
<1>4. \A n \in Order : OrderOK(order[n]) /\ PostedOK(n)
  BY <1>2, <1>3 DEF Init, PostedOK
<1>5. \A c \in Connection : TxOK(tx[c]) /\ LinkOK(tx[c])
  BY DEF Init, TxOK, LinkOK, Idle
<1> QED
  BY <1>1, <1>2, <1>4, <1>5 DEF Init, ProcInv

LEMMA RequestStepKeeps ==
  ASSUME ProcInv, NEW c \in Connection, RequestStep(c)
  PROVE  Kept
<1>1. \/ \E q \in Request :
           \/ \E form \in Forms : ReadCreate(c, q, form) \/ ReadSave(c, q, form)
           \/ \E status \in {"SENT", "CANCELLED"} : ReadMark(c, q, status)
           \/ ReadRemove(c, q)
      \/ \E q \in Request : ReadConvert(c, q)
      \/ Create(c) \/ SaveItems(c) \/ Mark(c) \/ Remove(c)
      \/ Convert(c)
  BY DEF RequestStep
<1>2. ASSUME NEW q \in Request,
             \/ \E form \in Forms : ReadCreate(c, q, form) \/ ReadSave(c, q, form)
             \/ \E status \in {"SENT", "CANCELLED"} : ReadMark(c, q, status)
             \/ ReadRemove(c, q)
      PROVE  Kept
  BY <1>2, RequestReadsKeep
<1>3. ASSUME NEW q \in Request, ReadConvert(c, q) PROVE Kept
  BY <1>3, ReadConvertKeeps
<1>4. CASE Create(c) \/ SaveItems(c) \/ Mark(c) \/ Remove(c)
  BY <1>4, RequestWritesKeep
<1>5. CASE Convert(c)
  BY <1>5, ConvertKeeps
<1> QED
  BY <1>1, <1>2, <1>3, <1>4, <1>5

LEMMA OrderStepKeeps ==
  ASSUME ProcInv, NEW c \in Connection, OrderStep(c)
  PROVE  Kept
<1>1. ASSUME NEW lines \in Direct, PlaceDirectly(c, lines) PROVE Kept
  BY <1>1, PlaceDirectlyKeeps
<1>2. ASSUME NEW n \in Order, NEW amount \in [DOMAIN order[n].lines -> Receipts \cup {0}],
             ReadReceive(c, n, amount)
      PROVE  Kept
  BY <1>2, ReadReceiveKeeps
<1>3. ASSUME NEW n \in Order, RemoveOrder(c, n) PROVE Kept
  BY <1>3, RemoveOrderKeeps
<1>4. CASE Receive(c)
  BY <1>4, ReceiveKeeps
<1>5. CASE CommitReceipt(c)
  BY <1>5, CommitReceiptKeeps
<1> QED
  BY <1>1, <1>2, <1>3, <1>4, <1>5 DEF OrderStep

LEMMA ScheduleStepKeeps ==
  ASSUME ProcInv, NEW c \in Connection, ScheduleStep(c)
  PROVE  Kept
<1>1. \/ \/ \E total \in Totals :
              \/ \E l \in Line : ReadFirst(c, [m \in {l} |-> total])
              \/ \E from \in LineId : ReadGroup(c, from, total)
              \/ \E l \in Line, v \in 1..NumVersions : ReadPropose(c, l, v, total)
         \/ \E l \in Line, v \in 1..NumVersions :
              ReadConfirm(c, l, v) \/ ReadAccept(c, l, v) \/ ReadReject(c, l, v)
      \/ CreateFirst(c)
      \/ ReadNumber(c)
      \/ Confirm(c) \/ Reject(c) \/ Propose(c) \/ Accept(c)
  BY DEF ScheduleStep
<1>2. CASE \/ \E total \in Totals :
                \/ \E l \in Line : ReadFirst(c, [m \in {l} |-> total])
                \/ \E from \in LineId : ReadGroup(c, from, total)
                \/ \E l \in Line, v \in 1..NumVersions : ReadPropose(c, l, v, total)
           \/ \E l \in Line, v \in 1..NumVersions :
                ReadConfirm(c, l, v) \/ ReadAccept(c, l, v) \/ ReadReject(c, l, v)
  BY <1>2, ScheduleReadsKeep
<1>3. CASE CreateFirst(c)
  BY <1>3, CreateFirstKeeps
<1>4. CASE Confirm(c) \/ Reject(c) \/ Propose(c) \/ Accept(c)
  BY <1>4, AnswersKeep
<1>5. CASE ReadNumber(c)
  BY <1>5, ReadNumberKeeps
<1> QED
  BY <1>1, <1>2, <1>3, <1>4, <1>5

LEMMA NextKeeps == ProcInv /\ Next => Kept
<1> SUFFICES ASSUME ProcInv, NEW c \in Connection,
                    RequestStep(c) \/ OrderStep(c) \/ ScheduleStep(c) \/ RollBack(c)
             PROVE  Kept
  BY DEF Next
<1>1. CASE RollBack(c)
  BY <1>1, FailKeeps DEF RollBack
<1> QED
  BY <1>1, RequestStepKeeps, OrderStepKeeps, ScheduleStepKeeps

\* What is open and what is stored fit together in every state.
THEOREM ProcInvariant == Spec => []ProcInv
<1>1. ProcInv /\ UNCHANGED vars => ProcInv'
  <2> SUFFICES ASSUME ProcInv, UNCHANGED vars PROVE ProcInv'
    OBVIOUS
  <2>1. request' = request /\ claim' = claim /\ order' = order /\ posted' = posted /\ tx' = tx
    BY DEF vars
  <2>2. /\ request' \in [Request -> RequestRow] /\ claim' \in [Requirement -> LineId \cup {None}]
        /\ DOMAIN tx' = Connection /\ \A d \in Connection : tx'[d] = tx[d]
    BY <2>1 DEF ProcInv
  <2> QED
    BY <2>1, <2>2, OrdersSame, StepKeeps DEF Kept
<1>2. ProcInv /\ Next => ProcInv'
  BY NextKeeps DEF Kept
<1> QED
  BY InitProc, <1>1, <1>2, PTL DEF Spec

\* Requests, stamps, orders and schedules keep their types, and a row for an
\* order exists only with lines.
THEOREM ProcurementTypes == Spec => []ProcurementTypeOK
<1>1. ProcInv => ProcurementTypeOK
  <2> SUFFICES ASSUME ProcInv PROVE ProcurementTypeOK
    OBVIOUS
  <2>1. request \in [Request -> [status: {"NONE", "DRAFT", "SENT", "CONVERTED", "CANCELLED"},
                                lines: Seq([id: LineId, qty: Nat \ {0}, needs: SUBSET Requirement,
                                            stocked: BOOLEAN])]]
    BY DEF ProcInv, RequestRow, RequestStatus, RequestLine
  <2>2. claim \in [Requirement -> LineId \cup {None}] /\ posted \in [Order -> Nat]
    BY DEF ProcInv
  <2>3. order \in [Order -> [status: {"NONE", "ORDERED", "PARTIAL", "DELIVERED"},
       lines: Seq([qty: Nat \ {0}, need: Requirement \cup {None}, from: LineId \cup {None},
                   stocked: BOOLEAN, received: Nat, current: Nat,
                   versions: Seq([status: {"PENDING", "PROPOSED", "CONFIRMED", "REJECTED", "SUPERSEDED"},
                                  total: Nat \ {0}])])]]
    BY DEF ProcInv, OrderRow, OrderStatus, OrderLine, Version, VersionStatus
  <2>4. \A n \in Order : \A i \in DOMAIN order[n].lines :
          order[n].lines[i].current \in {0} \cup DOMAIN order[n].lines[i].versions
    BY DEF ProcInv, OrderOK, ScheduleOK
  <2>5. \A n \in Order : order[n].status = "NONE" <=> order[n].lines = <<>>
    BY DEF ProcInv, OrderOK
  <2> QED
    BY <2>1, <2>2, <2>3, <2>4, <2>5 DEF ProcurementTypeOK
<1> QED
  BY <1>1, ProcInvariant, PTL

\* receive: however receipts of an order overlap with each other and with the
\* removal of the order, what its lines of products and assemblies have
\* received is what went into the stock for it; lines of other articles are
\* received without anything being posted.
THEOREM ReceiptsAreStocked == Spec => []ReceiptsReachTheStock
<1>1. ProcInv => ReceiptsReachTheStock
  BY DEF ProcInv, PostedOK, Received, ReceiptsReachTheStock
<1> QED
  BY <1>1, ProcInvariant, PTL

\* receive: the status an order gets is computed before the other open
\* receipts can be seen, and DELIVERED is right all the same.
THEOREM DeliveredIsComplete == Spec => []DeliveredOrdersAreComplete
<1>1. ProcInv => DeliveredOrdersAreComplete
  BY DEF ProcInv, OrderOK, AllFull, DeliveredOrdersAreComplete
<1> QED
  BY <1>1, ProcInvariant, PTL

\* createFirst, propose: every version of a line's schedule plans what the
\* first one did, and no more than is ordered.
THEOREM VersionsPlanTheSame == Spec => []VersionsKeepTheQuantity
<1>1. ProcInv => VersionsKeepTheQuantity
  BY ItemTyped DEF ScheduleOK, VersionsKeepTheQuantity
<1> QED
  BY <1>1, ProcInvariant, PTL

\* accept: a schedule in force is replaced by a later one only, which is
\* CONFIRMED when it takes over, and is SUPERSEDED itself.
THEOREM SchedulesMoveForward == Spec => VersionsMoveForward
<1> DEFINE Forward ==
      \A l \in Line : order'[l[1]].status # "NONE" =>
        LET after == order'[l[1]].lines[l[2]]
        IN  after.current # Item(l).current =>
              /\ after.current > Item(l).current
              /\ Item(l).current # 0 => after.versions[after.current].status = "CONFIRMED"
              /\ Item(l).current # 0 => after.versions[Item(l).current].status = "SUPERSEDED"
<1>1. ASSUME ProcInv, Next PROVE Forward
  <2> SUFFICES ASSUME NEW l \in Line, order'[l[1]].status # "NONE",
                      order'[l[1]].lines[l[2]].current # Item(l).current
               PROVE  LET after == order'[l[1]].lines[l[2]]
                      IN  /\ after.current > Item(l).current
                          /\ Item(l).current # 0 => after.versions[after.current].status = "CONFIRMED"
                          /\ Item(l).current # 0 => after.versions[Item(l).current].status = "SUPERSEDED"
    OBVIOUS
  <2>1. PICK n \in Order : n = l[1]
    BY LineOf
  <2>2. PICK i \in DOMAIN order[n].lines : i = l[2]
    BY <2>1, LineOf
  <2>3. Moves(n) /\ ProcInv'
    BY <1>1, NextKeeps DEF Kept
  <2>4. PICK x : x = Item(l)
    OBVIOUS
  <2>5. PICK y : y = order'[n].lines[i]
    OBVIOUS
  <2>6. x = order[n].lines[i] /\ x \in OrderLine /\ x.current \in Nat
    BY <1>1, <2>1, <2>2, <2>4, ItemTyped DEF Item, OrderLine
  <2>7. CASE OrderGrows(order[n], order'[n])
    <3>1. RowGrows(x, y) /\ i \in DOMAIN order'[n].lines
      BY <2>2, <2>5, <2>6, <2>7 DEF OrderGrows
    <3>2. order'[n].lines \in Seq(OrderLine)
      BY <2>3 DEF ProcInv, OrderRow
    <3>3. y.current \in Nat
      <4>1. y \in OrderLine
        BY <2>5, <3>1, <3>2
      <4> QED
        BY <4>1 DEF OrderLine
    <3>4. x.current <= y.current /\ y.current # x.current
      BY <2>1, <2>2, <2>4, <2>5, <3>1 DEF RowGrows
    <3>5. y.current > x.current
      BY <2>6, <3>3, <3>4
    <3> QED
      BY <2>1, <2>2, <2>4, <2>5, <3>1, <3>4, <3>5 DEF RowGrows
  <2>8. CASE order'[n] = NoOrder
    BY <2>1, <2>8 DEF NoOrder
  <2>9. CASE order[n].status = "NONE"
    <3>1. order[n].lines = <<>>
      BY <1>1, <2>9 DEF ProcInv, OrderOK
    <3>2. DOMAIN order[n].lines = {}
      BY <3>1
    <3>3. i \in DOMAIN order[n].lines
      BY <2>2
    <3> QED
      BY <3>2, <3>3
  <2> QED
    BY <2>3, <2>7, <2>8, <2>9 DEF Moves
<1>2. ProcInv /\ [Next]_vars => [Forward]_vars
  BY <1>1
<1>3. ProcInv /\ [Next]_vars =>
        [\A l \in Line : order'[l[1]].status # "NONE" =>
           LET after == order'[l[1]].lines[l[2]]
           IN  after.current # Item(l).current =>
                 /\ after.current > Item(l).current
                 /\ Item(l).current # 0 => after.versions[after.current].status = "CONFIRMED"
                 /\ Item(l).current # 0 => after.versions[Item(l).current].status = "SUPERSEDED"]_vars
  BY <1>2
<1> HIDE DEF Forward
<1> QED
  BY <1>3, ProcInvariant, PTL DEF Spec, VersionsMoveForward

-----------------------------------------------------------------------------
(***************************************************************************)
(* Claims.  Where requests for purchase requests run alone, what one read  *)
(* still stands when it writes.                                            *)
(***************************************************************************)

\* No two request lines have the same id.
OwnIds ==
  \A q, p \in Request : \A i \in DOMAIN request[q].lines, j \in DOMAIN request[p].lines :
    request[q].lines[i].id = request[p].lines[j].id => q = p /\ i = j
NoneEmpty == \A q \in Request : request[q].status = "NONE" => request[q].lines = <<>>
Bought == RequirementsBoughtOnce /\ OwnIds /\ NoneEmpty

Alone == \A c, d \in Connection : c # d /\ tx[c].kind = "requests" => tx[d] = Idle

\* What a connection found when it read.
Stands(t) ==
  t.kind = "requests" =>
    /\ t.op \in {"save", "mark", "convert"} => Editable(t.on)
    /\ t.op \in {"create", "save"} => Claimable(t.on, t.form)

BuyInv == Bought /\ Alone /\ \A c \in Connection : Stands(tx[c])

LEMMA RequestsSame ==
  ASSUME Bought, request' = request, claim' = claim
  PROVE  Bought'
BY DEF Bought, RequirementsBoughtOnce, OwnIds, NoneEmpty, IdsOf

LEMMA StandsSame ==
  ASSUME NEW t, Stands(t), request' = request, claim' = claim
  PROVE  Stands(t)'
BY DEF Stands, Editable, Claimable, TakenElsewhere

\* A step of connection c, which reads nothing about purchase requests.
LEMMA OwnStepKeeps ==
  ASSUME ProcInv, BuyInv, Bought', NEW c \in Connection,
         DOMAIN tx' = Connection, \A d \in Connection : d # c => tx'[d] = tx[d],
         tx'[c].kind # "requests", tx'[c] = Idle \/ tx[c] # Idle,
         tx[c].kind = "requests" \/ (request' = request /\ claim' = claim)
  PROVE  BuyInv'
<1>1. Alone'
  <2> SUFFICES ASSUME NEW d \in Connection, NEW e \in Connection, d # e, tx'[d].kind = "requests"
               PROVE  tx'[e] = Idle
    BY DEF Alone
  <2>1. d # c /\ tx'[d] = tx[d]
    OBVIOUS
  <2>2. tx[e] = Idle /\ tx[c] = Idle
    BY <2>1 DEF BuyInv, Alone
  <2> QED
    BY <2>2
<1>2. ASSUME NEW d \in Connection PROVE Stands(tx[d])'
  <2>1. PICK t : t = tx'[d]
    OBVIOUS
  <2>2. CASE t.kind # "requests"
    BY <2>1, <2>2 DEF Stands
  <2>3. CASE t.kind = "requests"
    <3>1. d # c /\ t = tx[d]
      BY <2>1, <2>3
    <3>2. tx[c] = Idle
      BY <2>3, <3>1 DEF BuyInv, Alone
    <3>3. request' = request /\ claim' = claim
      BY <3>2 DEF Idle
    <3>4. Stands(t)
      BY <3>1 DEF BuyInv
    <3>5. Stands(t)'
      BY <3>3, <3>4, StandsSame
    <3> QED
      BY <2>1, <3>5 DEF Stands, Editable, Claimable, TakenElsewhere
  <2> QED
    BY <2>2, <2>3
<1> QED
  BY <1>1, <1>2 DEF BuyInv

LEMMA EndBuys ==
  ASSUME ProcInv, BuyInv, Bought', NEW c \in Connection, Ends(c),
         tx[c].kind = "requests" \/ (request' = request /\ claim' = claim)
  PROVE  BuyInv'
<1>1. DOMAIN tx' = Connection /\ tx'[c] = Idle /\ \A d \in Connection : d # c => tx'[d] = tx[d]
  BY DEF Ends, ProcInv
<1> QED
  BY <1>1, OwnStepKeeps DEF Idle

LEMMA FailBuys ==
  ASSUME ProcInv, BuyInv, NEW c \in Connection, Fails(c)
  PROVE  BuyInv'
<1>1. Ends(c) /\ request' = request /\ claim' = claim
  BY DEF Fails
<1>2. Bought'
  BY <1>1, RequestsSame DEF BuyInv
<1> QED
  BY <1>1, <1>2, EndBuys

LEMMA ReadBuys ==
  ASSUME "requests" \notin Racing, ProcInv, BuyInv, NEW c \in Connection, NEW what,
         Reads(c, what), Stands(what)
  PROVE  BuyInv'
<1>1. /\ tx[c] = Idle
      /\ \A d \in Connection : tx[d] # Idle => {tx[d].kind, what.kind} \subseteq Racing
      /\ tx' = [tx EXCEPT ![c] = what] /\ DOMAIN tx = Connection
      /\ request' = request /\ claim' = claim
  BY DEF Reads, ProcInv
<1>2. tx'[c] = what /\ \A d \in Connection : d # c => tx'[d] = tx[d]
  BY <1>1
<1>3. Alone'
  <2> SUFFICES ASSUME NEW d \in Connection, NEW e \in Connection, d # e, tx'[d].kind = "requests"
               PROVE  tx'[e] = Idle
    BY DEF Alone
  <2>1. CASE d = c
    <3>1. tx'[e] = tx[e] /\ what.kind \notin Racing
      BY <1>2, <2>1
    <3>2. what.kind \in {tx[e].kind, what.kind}
      OBVIOUS
    <3> QED
      BY <1>1, <3>1, <3>2
  <2>2. CASE d # c
    <3>1. tx[d].kind = "requests" /\ tx[d] # Idle
      BY <1>2, <2>2 DEF Idle
    <3>2. "requests" \in {tx[d].kind, what.kind}
      BY <3>1
    <3> QED
      BY <1>1, <3>1, <3>2
  <2> QED
    BY <2>1, <2>2
<1>4. Bought'
  BY <1>1, RequestsSame DEF BuyInv
<1>5. ASSUME NEW d \in Connection PROVE Stands(tx[d])'
  <2>1. PICK t : t = tx'[d]
    OBVIOUS
  <2>2. Stands(t)
    BY <1>2, <2>1 DEF BuyInv
  <2>3. Stands(t)'
    BY <1>1, <2>2, StandsSame
  <2> QED
    BY <2>1, <2>3 DEF Stands, Editable, Claimable, TakenElsewhere
<1> QED
  BY <1>3, <1>4, <1>5 DEF BuyInv

LEMMA RequestReadsBuy ==
  ASSUME "requests" \notin Racing, ProcInv, BuyInv, NEW c \in Connection, NEW q \in Request,
         \/ \E form \in Forms : ReadCreate(c, q, form) \/ ReadSave(c, q, form)
         \/ \E status \in {"SENT", "CANCELLED"} : ReadMark(c, q, status)
         \/ ReadRemove(c, q)
         \/ ReadConvert(c, q)
  PROVE  BuyInv'
<1>1. ASSUME NEW form \in Forms, ReadCreate(c, q, form) PROVE BuyInv'
  <2>1. PICK what : what = [kind |-> "requests", op |-> "create", on |-> q, form |-> form]
    OBVIOUS
  <2>2. Stands(what) /\ Reads(c, what)
    BY <1>1, <2>1 DEF Stands, ReadCreate
  <2> QED
    BY <2>2, ReadBuys
<1>2. ASSUME NEW form \in Forms, ReadSave(c, q, form) PROVE BuyInv'
  <2>1. PICK what : what = [kind |-> "requests", op |-> "save", on |-> q, form |-> form]
    OBVIOUS
  <2>2. Stands(what) /\ Reads(c, what)
    BY <1>2, <2>1 DEF Stands, ReadSave
  <2> QED
    BY <2>2, ReadBuys
<1>3. ASSUME NEW status \in {"SENT", "CANCELLED"}, ReadMark(c, q, status) PROVE BuyInv'
  <2>1. PICK what : what = [kind |-> "requests", op |-> "mark", on |-> q, status |-> status]
    OBVIOUS
  <2>2. Stands(what) /\ Reads(c, what)
    BY <1>3, <2>1 DEF Stands, ReadMark
  <2> QED
    BY <2>2, ReadBuys
<1>4. ASSUME ReadRemove(c, q) PROVE BuyInv'
  <2>1. PICK what : what = [kind |-> "requests", op |-> "remove", on |-> q]
    OBVIOUS
  <2>2. Stands(what) /\ Reads(c, what)
    BY <1>4, <2>1 DEF Stands, ReadRemove
  <2> QED
    BY <2>2, ReadBuys
<1>5. ASSUME ReadConvert(c, q) PROVE BuyInv'
  <2>1. PICK lines : lines = [i \in DOMAIN request[q].lines |->
                               [request[q].lines[i] EXCEPT
                                  !.needs = {r \in Requirement : claim[r] = request[q].lines[i].id}]]
    OBVIOUS
  <2>2. PICK what : what = [kind |-> "requests", op |-> "convert", on |-> q, lines |-> lines]
    OBVIOUS
  <2>3. Reads(c, what)
    BY <1>5, <2>1, <2>2 DEF ReadConvert
  <2>4. Stands(what)
    BY <1>5, <2>2 DEF Stands, ReadConvert
  <2> QED
    BY <2>3, <2>4, ReadBuys
<1> QED
  BY <1>1, <1>2, <1>3, <1>4, <1>5

\* Lines with ids of their own replace those of request q.
LEMMA LinesOwn ==
  ASSUME ProcInv, OwnIds, NEW q \in Request, NEW status, NEW lines \in Seq(RequestLine),
         \A i \in DOMAIN lines : \A p \in Request : lines[i].id \notin IdsOf(request[p].lines),
         \A i, j \in DOMAIN lines : lines[i].id = lines[j].id => i = j,
         request' = [request EXCEPT ![q] = [status |-> status, lines |-> lines]]
  PROVE  OwnIds'
<1>0. /\ request'[q].lines = lines
      /\ \A p \in Request : p # q => request'[p] = request[p]
  BY DEF ProcInv
<1> SUFFICES ASSUME NEW p \in Request, NEW o \in Request,
                    NEW i \in DOMAIN request'[p].lines, NEW j \in DOMAIN request'[o].lines,
                    request'[p].lines[i].id = request'[o].lines[j].id
             PROVE  p = o /\ i = j
  BY DEF OwnIds
<1>1. CASE p = q /\ o = q
  BY <1>0, <1>1
<1>2. CASE p = q /\ o # q
  <2>1. request[o].lines[j].id \in IdsOf(request[o].lines)
    BY <1>0, <1>2 DEF IdsOf
  <2> QED
    BY <1>0, <1>2, <2>1
<1>3. CASE p # q /\ o = q
  <2>1. request[p].lines[i].id \in IdsOf(request[p].lines)
    BY <1>0, <1>3 DEF IdsOf
  <2> QED
    BY <1>0, <1>3, <2>1
<1>4. CASE p # q /\ o # q
  BY <1>0, <1>4 DEF OwnIds
<1> QED
  BY <1>1, <1>2, <1>3, <1>4

(***************************************************************************)
(* Lines with ids of their own replace those of request q, and the claims  *)
(* follow them.                                                            *)
(***************************************************************************)
LEMMA LinesReplaced ==
  ASSUME ProcInv, Bought, NEW q \in Request, NEW status, NEW lines \in Seq(RequestLine),
         status = "NONE" => lines = <<>>,
         \A i \in DOMAIN lines : \A p \in Request : lines[i].id \notin IdsOf(request[p].lines),
         \A i, j \in DOMAIN lines : lines[i].id = lines[j].id => i = j,
         \A i, j \in DOMAIN lines : i # j => lines[i].needs \cap lines[j].needs = {},
         \A i \in DOMAIN lines : \A r \in lines[i].needs : ~TakenElsewhere(q, r),
         request' = [request EXCEPT ![q] = [status |-> status, lines |-> lines]],
         claim' = Claimed(request[q].lines, lines)
  PROVE  Bought'
<1>1. request \in [Request -> RequestRow]
  BY DEF ProcInv
<1>2. /\ request'[q].status = status /\ request'[q].lines = lines
      /\ \A p \in Request : p # q => request'[p] = request[p]
  BY <1>1
<1>3. NoneEmpty'
  BY <1>2 DEF Bought, NoneEmpty
<1>4. OwnIds'
  BY LinesOwn DEF Bought
<1>5. RequirementsBoughtOnce'
  <2> SUFFICES ASSUME NEW p \in Request, request'[p].status # "CANCELLED",
                      NEW i \in DOMAIN request'[p].lines, NEW r \in request'[p].lines[i].needs
               PROVE  claim'[r] = request'[p].lines[i].id
    BY DEF RequirementsBoughtOnce
  <2>1. CASE p = q
    <3>1. i \in DOMAIN lines /\ r \in lines[i].needs /\ lines[i] \in RequestLine
      BY <1>2, <2>1
    <3>2. r \in Requirement
      BY <3>1 DEF RequestLine
    <3>3. PICK mine : mine = {k \in DOMAIN lines : r \in lines[k].needs}
      OBVIOUS
    <3>4. mine = {i}
      BY <3>1, <3>3
    <3>5. (CHOOSE k \in mine : TRUE) = i
      BY <3>4
    <3>6. claim'[r] = lines[CHOOSE k \in mine : TRUE].id
      BY <3>2, <3>3, <3>4 DEF Claimed
    <3> QED
      BY <1>2, <2>1, <3>5, <3>6
  <2>2. CASE p # q
    <3>1. /\ request'[p] = request[p] /\ request[p].status # "CANCELLED"
          /\ i \in DOMAIN request[p].lines /\ r \in request[p].lines[i].needs
      BY <1>2, <2>2
    <3>2. claim[r] = request[p].lines[i].id
      BY <3>1 DEF Bought, RequirementsBoughtOnce
    <3>3. request[p].lines[i] \in RequestLine
      BY <1>1, <3>1 DEF RequestRow
    <3>4. r \in Requirement
      BY <3>1, <3>3 DEF RequestLine
    <3>5. claim[r] \in IdsOf(request[p].lines)
      BY <3>1, <3>2 DEF IdsOf
    <3>6. TakenElsewhere(q, r)
      BY <2>2, <3>1, <3>5 DEF TakenElsewhere
    <3>7. {k \in DOMAIN lines : r \in lines[k].needs} = {}
      BY <3>6
    <3>8. claim[r] \notin IdsOf(request[q].lines)
      BY <2>2, <3>1, <3>2 DEF Bought, OwnIds, IdsOf
    <3>9. claim'[r] = claim[r]
      BY <3>4, <3>7, <3>8 DEF Claimed
    <3> QED
      BY <3>1, <3>2, <3>9
  <2> QED
    BY <2>1, <2>2
<1> QED
  BY <1>3, <1>4, <1>5 DEF Bought

LEMMA PutLinesBuys ==
  ASSUME ProcInv, BuyInv, NEW c \in Connection, tx[c].kind = "requests", tx[c].op \in {"create", "save"},
         NEW status \in RequestStatus \ {"NONE"}, PutLines(c, tx[c].on, status)
  PROVE  BuyInv'
<1>1. PICK q \in Request : q = tx[c].on
  BY RequestTx
<1>2. PICK form \in Forms : form = tx[c].form
  BY RequestTx
<1>3. PICK lines : lines = NewLines(form, Firsts(UnusedLines, Len(form)))
  OBVIOUS
<1>4. /\ Cardinality(UnusedLines) >= Len(form)
      /\ request' = [request EXCEPT ![q] = [status |-> status, lines |-> lines]]
      /\ claim' = Claimed(request[q].lines, lines)
      /\ Ends(c)
  BY <1>1, <1>2, <1>3 DEF PutLines
<1>5. Claimable(q, form)
  BY <1>1, <1>2 DEF BuyInv, Stands
<1>6. /\ lines \in Seq(RequestLine) /\ DOMAIN lines = DOMAIN form
      /\ \A i \in DOMAIN lines : lines[i].id \in UnusedLines /\ lines[i].needs = form[i].needs
      /\ \A i, j \in DOMAIN lines : lines[i].id = lines[j].id => i = j
  BY <1>3, <1>4, NewLinesTyped
<1>7. \A i \in DOMAIN lines : \A p \in Request : lines[i].id \notin IdsOf(request[p].lines)
  BY <1>6 DEF UnusedLines
<1>8. /\ \A i, j \in DOMAIN lines : i # j => lines[i].needs \cap lines[j].needs = {}
      /\ \A i \in DOMAIN lines : \A r \in lines[i].needs : ~TakenElsewhere(q, r)
  BY <1>5, <1>6 DEF Claimable
<1>9. Bought'
  BY <1>4, <1>6, <1>7, <1>8, LinesReplaced DEF BuyInv
<1> QED
  BY <1>4, <1>9, EndBuys

\* A request that is not cancelled stays so, or is cancelled.
LEMMA MarkBuys ==
  ASSUME ProcInv, Bought, NEW q \in Request, request[q].status \notin {"NONE", "CANCELLED"},
         NEW status, status # "NONE",
         request' = [request EXCEPT ![q].status = status], claim' = claim
  PROVE  Bought'
<1>1. request \in [Request -> RequestRow]
  BY DEF ProcInv
<1>2. \A p \in Request : request'[p].lines = request[p].lines
  BY <1>1 DEF RequestRow
<1>3. /\ \A p \in Request : request'[p].status # "CANCELLED" => request[p].status # "CANCELLED"
      /\ \A p \in Request : request'[p].status = "NONE" => request[p].status = "NONE"
  BY <1>1 DEF RequestRow
<1> QED
  BY <1>2, <1>3 DEF Bought, RequirementsBoughtOnce, OwnIds, NoneEmpty

LEMMA RemoveBuys ==
  ASSUME ProcInv, BuyInv, NEW c \in Connection, Remove(c)
  PROVE  BuyInv'
<1>1. CASE Fails(c)
  BY <1>1, FailBuys
<1>2. CASE ~ Fails(c)
  <2>1. tx[c].kind = "requests"
    BY DEF Remove, Does
  <2>2. PICK q \in Request : q = tx[c].on
    BY <2>1, RequestTx
  <2>3. PICK lines \in Seq(RequestLine) : lines = <<>>
    <3>1. <<>> \in Seq(RequestLine)
      OBVIOUS
    <3> QED
      BY <3>1
  <2>4. /\ request' = [request EXCEPT ![q] = [status |-> "NONE", lines |-> lines]]
        /\ claim' = Claimed(request[q].lines, lines)
        /\ Ends(c)
    BY <1>2, <2>2, <2>3 DEF Remove, NoRequest
  <2>5. DOMAIN lines = {}
    BY <2>3
  <2>6. Bought'
    BY <2>3, <2>4, <2>5, LinesReplaced DEF BuyInv
  <2> QED
    BY <2>1, <2>4, <2>6, EndBuys
<1> QED
  BY <1>1, <1>2

LEMMA RequestWritesBuy ==
  ASSUME ProcInv, BuyInv, NEW c \in Connection,
         Create(c) \/ SaveItems(c) \/ Mark(c) \/ Remove(c) \/ Convert(c)
  PROVE  BuyInv'
<1>1. CASE Create(c)
  <2>1. tx[c].kind = "requests" /\ tx[c].op = "create" /\ PutLines(c, tx[c].on, "DRAFT")
    BY <1>1 DEF Create, Does
  <2>2. PICK status \in RequestStatus \ {"NONE"} : status = "DRAFT"
    BY DEF RequestStatus
  <2> QED
    BY <2>1, <2>2, PutLinesBuys
<1>2. CASE SaveItems(c)
  <2>1. tx[c].kind = "requests" /\ tx[c].op = "save"
    BY <1>2 DEF SaveItems, Does
  <2>2. PICK q \in Request : q = tx[c].on
    BY <2>1, RequestTx
  <2>3. CASE request[q].status = "NONE"
    BY <1>2, <2>2, <2>3, FailBuys DEF SaveItems
  <2>4. CASE request[q].status # "NONE"
    <3>1. PICK status \in RequestStatus \ {"NONE"} : status = request[q].status
      BY <2>4 DEF ProcInv, RequestRow
    <3>2. PutLines(c, tx[c].on, status)
      BY <1>2, <2>2, <2>4, <3>1 DEF SaveItems
    <3> QED
      BY <2>1, <3>2, PutLinesBuys
  <2> QED
    BY <2>3, <2>4
<1>3. CASE Mark(c)
  <2>1. tx[c].kind = "requests" /\ tx[c].op = "mark"
    BY <1>3 DEF Mark, Does
  <2>2. PICK q \in Request : q = tx[c].on
    BY <2>1, RequestTx
  <2>3. PICK status \in {"SENT", "CANCELLED"} : status = tx[c].status
    BY <2>1, RequestTx
  <2>4. Editable(q)
    BY <2>1, <2>2 DEF BuyInv, Stands
  <2>5. request' = [request EXCEPT ![q].status = status] /\ Ends(c) /\ claim' = claim
    BY <1>3, <2>2, <2>3, <2>4 DEF Mark, Editable
  <2>6. Bought'
    BY <2>4, <2>5, MarkBuys DEF BuyInv, Editable
  <2> QED
    BY <2>1, <2>5, <2>6, EndBuys
<1>4. CASE Remove(c)
  BY <1>4, RemoveBuys
<1>5. CASE Convert(c)
  <2>1. tx[c].kind = "requests" /\ tx[c].op = "convert"
    BY <1>5 DEF Convert, Does
  <2>2. PICK q \in Request : q = tx[c].on
    BY <2>1, RequestTx
  <2>3. CASE Fails(c)
    BY <2>3, FailBuys
  <2>4. CASE ~ Fails(c)
    <3>1. Editable(q)
      BY <2>1, <2>2 DEF BuyInv, Stands
    <3>2. request' = [request EXCEPT ![q].status = "CONVERTED"] /\ Ends(c) /\ claim' = claim
      BY <1>5, <2>2, <2>4 DEF Convert
    <3>3. Bought'
      BY <3>1, <3>2, MarkBuys DEF BuyInv, Editable
    <3> QED
      BY <2>1, <3>2, <3>3, EndBuys
  <2> QED
    BY <2>3, <2>4
<1> QED
  BY <1>1, <1>2, <1>3, <1>4, <1>5

LEMMA OrderStepBuys ==
  ASSUME "requests" \notin Racing, ProcInv, BuyInv, NEW c \in Connection, OrderStep(c)
  PROVE  BuyInv'
<1>1. CASE request' = request /\ claim' = claim /\ tx' = tx
  <2>1. Bought'
    BY <1>1, RequestsSame DEF BuyInv
  <2>2. Alone'
    BY <1>1 DEF BuyInv, Alone
  <2>3. ASSUME NEW d \in Connection PROVE Stands(tx[d])'
    <3>1. PICK t : t = tx[d]
      OBVIOUS
    <3>2. Stands(t)'
      BY <1>1, <3>1, StandsSame DEF BuyInv
    <3> QED
      BY <1>1, <3>1, <3>2 DEF Stands, Editable, Claimable, TakenElsewhere
  <2> QED
    BY <2>1, <2>2, <2>3 DEF BuyInv
<1>2. ASSUME NEW n \in Order, NEW amount, ReadReceive(c, n, amount) PROVE BuyInv'
  <2>1. PICK what : what = [kind |-> "orders", op |-> "receive", on |-> n, amount |-> amount]
    OBVIOUS
  <2>2. Stands(what) /\ Reads(c, what)
    BY <1>2, <2>1 DEF Stands, ReadReceive
  <2> QED
    BY <2>2, ReadBuys
<1>3. CASE Receive(c)
  <2>1. CASE Fails(c)
    BY <2>1, FailBuys
  <2>2. CASE ~ Fails(c)
    <3>1. PICK what : /\ what.kind = "orders" /\ tx' = [tx EXCEPT ![c] = what]
                      /\ request' = request /\ claim' = claim
      BY <1>3, <2>2 DEF Receive
    <3>2. /\ DOMAIN tx' = Connection /\ \A d \in Connection : d # c => tx'[d] = tx[d]
          /\ tx'[c].kind # "requests" /\ tx[c] # Idle
      BY <1>3, <3>1 DEF ProcInv, Receive, Does, Idle
    <3>3. Bought'
      BY <3>1, RequestsSame DEF BuyInv
    <3> QED
      BY <3>1, <3>2, <3>3, OwnStepKeeps
  <2> QED
    BY <2>1, <2>2
<1>4. CASE CommitReceipt(c)
  <2>1. Ends(c) /\ request' = request /\ claim' = claim
    BY <1>4 DEF CommitReceipt
  <2>2. Bought'
    BY <2>1, RequestsSame DEF BuyInv
  <2> QED
    BY <2>1, <2>2, EndBuys
<1>5. ASSUME NEW lines, PlaceDirectly(c, lines) PROVE BuyInv'
  BY <1>1, <1>5 DEF PlaceDirectly
<1>6. ASSUME NEW n \in Order, RemoveOrder(c, n) PROVE BuyInv'
  BY <1>1, <1>6 DEF RemoveOrder
<1> QED
  BY <1>2, <1>3, <1>4, <1>5, <1>6 DEF OrderStep

LEMMA ScheduleStepBuys ==
  ASSUME "requests" \notin Racing, ProcInv, BuyInv, NEW c \in Connection, ScheduleStep(c)
  PROVE  BuyInv'
<1>1. ASSUME NEW what, what.kind = "schedules", Reads(c, what) PROVE BuyInv'
  <2>1. Stands(what)
    BY <1>1 DEF Stands
  <2> QED
    BY <1>1, <2>1, ReadBuys
<1>2. ASSUME NEW plan, ReadFirst(c, plan) PROVE BuyInv'
  BY <1>1, <1>2 DEF ReadFirst
<1>3. ASSUME NEW op, NEW l, NEW v, NEW total, Reads(c, About(op, l, v, total)) PROVE BuyInv'
  BY <1>1, <1>3 DEF About
<1>4. ASSUME NEW from, NEW total, ReadGroup(c, from, total) PROVE BuyInv'
  <2>1. \E plan : ReadFirst(c, plan)
    BY <1>4 DEF ReadGroup
  <2> QED
    BY <1>2, <2>1
<1>5. CASE \E total \in Totals :
             \/ \E l \in Line : ReadFirst(c, [m \in {l} |-> total])
             \/ \E from \in LineId : ReadGroup(c, from, total)
             \/ \E l \in Line, v \in 1..NumVersions : ReadPropose(c, l, v, total)
  BY <1>2, <1>3, <1>4, <1>5 DEF ReadPropose
<1>6. CASE \E l \in Line, v \in 1..NumVersions :
             ReadConfirm(c, l, v) \/ ReadAccept(c, l, v) \/ ReadReject(c, l, v)
  BY <1>3, <1>6 DEF ReadConfirm, ReadAccept, ReadReject
<1>7. CASE CreateFirst(c) \/ Confirm(c) \/ Propose(c) \/ Accept(c) \/ Reject(c)
  <2>1. Ends(c) /\ request' = request /\ claim' = claim
    BY <1>7 DEF CreateFirst, Confirm, Propose, Accept, Reject, Responds, Fails
  <2>2. Bought'
    BY <2>1, RequestsSame DEF BuyInv
  <2> QED
    BY <2>1, <2>2, EndBuys
<1>8. CASE ReadNumber(c)
  <2>1. CASE Fails(c)
    BY <2>1, FailBuys
  <2>2. CASE ~ Fails(c)
    <3>1. PICK what : /\ what = [tx[c] EXCEPT !.op = "numbered", !.count = Len(Item(tx[c].line).versions)]
                      /\ tx' = [tx EXCEPT ![c] = what]
                      /\ request' = request /\ claim' = claim
      BY <1>8, <2>2 DEF ReadNumber
    <3>2. tx[c].kind = "schedules" /\ tx[c].op = "propose" /\ tx[c] # Idle
      BY <1>8 DEF ReadNumber, Does, Idle
    <3>3. what.kind = "schedules"
      <4>1. tx[c] \in [kind: {"schedules"}, op: Answers \cup {"propose", "numbered"},
                       line: Order \X (Nat \ {0}), version: Nat, total: Nat, current: Nat, count: Nat]
        BY <3>2, ScheduleTx
      <4> QED
        BY <3>1, <4>1
    <3>4. /\ DOMAIN tx' = Connection /\ \A d \in Connection : d # c => tx'[d] = tx[d]
          /\ tx'[c].kind # "requests"
      BY <3>1, <3>3 DEF ProcInv
    <3>5. Bought'
      BY <3>1, RequestsSame DEF BuyInv
    <3> QED
      BY <3>1, <3>2, <3>4, <3>5, OwnStepKeeps
  <2> QED
    BY <2>1, <2>2
<1> QED
  BY <1>5, <1>6, <1>7, <1>8 DEF ScheduleStep

LEMMA NextBuys ==
  ASSUME "requests" \notin Racing, ProcInv, BuyInv, Next
  PROVE  BuyInv'
<1>1. PICK c \in Connection : RequestStep(c) \/ OrderStep(c) \/ ScheduleStep(c) \/ RollBack(c)
  BY DEF Next
<1>2. CASE RequestStep(c)
  BY <1>2, RequestReadsBuy, RequestWritesBuy DEF RequestStep
<1>3. CASE RollBack(c)
  BY <1>3, FailBuys DEF RollBack
<1> QED
  BY <1>1, <1>2, <1>3, OrderStepBuys, ScheduleStepBuys

\* claimRequirements: where requests for purchase requests run alone, a
\* requirement is in at most one line of the requests that are not cancelled,
\* and is stamped with that line.
THEOREM RequirementsAreBoughtOnce ==
  ASSUME "requests" \notin Racing
  PROVE  Spec => []RequirementsBoughtOnce
<1>1. Init => BuyInv
  <2> SUFFICES ASSUME Init PROVE BuyInv
    OBVIOUS
  <2>1. \A q \in Request : request[q] = NoRequest /\ DOMAIN request[q].lines = {}
    BY DEF Init, NoRequest
  <2>2. Bought
    BY <2>1 DEF Bought, RequirementsBoughtOnce, OwnIds, NoneEmpty, NoRequest
  <2>3. \A c \in Connection : tx[c] = Idle
    BY DEF Init
  <2> QED
    BY <2>2, <2>3 DEF BuyInv, Alone, Stands, Idle
<1>2. ProcInv /\ BuyInv /\ UNCHANGED vars => BuyInv'
  <2> SUFFICES ASSUME BuyInv, UNCHANGED vars PROVE BuyInv'
    OBVIOUS
  <2>1. request' = request /\ claim' = claim /\ tx' = tx
    BY DEF vars
  <2>2. Bought'
    BY <2>1, RequestsSame DEF BuyInv
  <2>3. Alone'
    BY <2>1 DEF BuyInv, Alone
  <2>4. ASSUME NEW d \in Connection PROVE Stands(tx[d])'
    <3>1. PICK t : t = tx[d]
      OBVIOUS
    <3>2. Stands(t)'
      BY <2>1, <3>1, StandsSame DEF BuyInv
    <3> QED
      BY <2>1, <3>1, <3>2 DEF Stands, Editable, Claimable, TakenElsewhere
  <2> QED
    BY <2>2, <2>3, <2>4 DEF BuyInv
<1>3. ProcInv /\ BuyInv /\ Next => BuyInv'
  BY NextBuys
<1>4. BuyInv => RequirementsBoughtOnce
  BY DEF BuyInv, Bought
<1> QED
  BY <1>1, <1>2, <1>3, <1>4, ProcInvariant, PTL DEF Spec

-----------------------------------------------------------------------------
(* What a conversion orders. *)

\* Two quantities rounded up are not more than there is, if the third has a
\* weight: each gains half a unit at most, and the third would have some.
LEMMA TwoRounded ==
  ASSUME NEW q \in Nat, NEW u \in Nat, NEW v \in Nat, NEW w \in Nat, w > 0,
         NEW d \in Nat, d = u + v + w, NEW a \in Nat, NEW b \in Nat,
         2 * (a * d - q * u) <= d, 2 * (b * d - q * v) <= d
  PROVE  a + b <= q
<1>1. PICK ad \in Nat : ad = a * d
  OBVIOUS
<1>2. PICK bd \in Nat : bd = b * d
  OBVIOUS
<1>3. PICK qu \in Nat : qu = q * u
  OBVIOUS
<1>4. PICK qv \in Nat : qv = q * v
  OBVIOUS
<1>5. PICK qw \in Nat : qw = q * w
  OBVIOUS
<1>6. PICK qd \in Nat : qd = q * d
  OBVIOUS
<1>7. qd = qu + qv + qw
  BY <1>3, <1>4, <1>5, <1>6
<1>8. ad + bd <= qu + qv + d
  BY <1>1, <1>2, <1>3, <1>4
<1> SUFFICES ASSUME a + b > q PROVE FALSE
  OBVIOUS
<1>9. PICK m \in Nat : a + b = q + 1 + m
  <2>1. a + b - q - 1 \in Nat
    OBVIOUS
  <2> QED
    BY <2>1
<1>10. (a + b) * d = ad + bd
  BY <1>1, <1>2
<1>11. PICK md \in Nat : md = m * d
  OBVIOUS
<1>12. (q + 1 + m) * d = qd + d + md
  BY <1>6, <1>11
<1>13. ad + bd = qd + d + md
  BY <1>9, <1>10, <1>12
<1>14. qw = 0
  BY <1>7, <1>8, <1>13
<1>15. q = 0
  <2> SUFFICES ASSUME q > 0 PROVE FALSE
    OBVIOUS
  <2>1. q * w > 0
    OBVIOUS
  <2> QED
    BY <1>5, <1>14, <2>1
<1>16. 2 * ad <= d /\ 2 * bd <= d
  BY <1>1, <1>2, <1>15
<1>17. a = 0
  <2> SUFFICES ASSUME a > 0 PROVE FALSE
    OBVIOUS
  <2>1. a * d >= d
    OBVIOUS
  <2> QED
    BY <1>1, <1>16, <2>1
<1>18. b = 0
  <2> SUFFICES ASSUME b > 0 PROVE FALSE
    OBVIOUS
  <2>1. b * d >= d
    OBVIOUS
  <2> QED
    BY <1>2, <1>16, <2>1
<1> QED
  BY <1>15, <1>17, <1>18

\* A line serves at most three customer orders.
AmongThree(needs) == Cardinality({For[r] : r \in needs}) <= 3
ThreeWeigh(weight) == \E a, b, e : \A k \in Customer : weight[k] > 0 => k \in {a, b, e}

LEMMA BuyersFinite ==
  ASSUME NEW needs \in SUBSET Requirement
  PROVE  {For[r] : r \in needs} \in SUBSET Customer /\ IsFiniteSet({For[r] : r \in needs})
<1>1. {For[r] : r \in needs} \in SUBSET Customer
  BY ProcurementAssumption
<1>2. IsFiniteSet(Customer)
  BY FS_Interval, ProcurementAssumption DEF Customer
<1> QED
  BY <1>1, <1>2, FS_Subset

LEMMA FewerNeeds ==
  ASSUME NEW needs \in SUBSET Requirement, AmongThree(needs), NEW some \in SUBSET needs
  PROVE  AmongThree(some)
<1>1. PICK B : B = {For[r] : r \in needs}
  OBVIOUS
<1>2. PICK A : A = {For[r] : r \in some}
  OBVIOUS
<1>3. A \in SUBSET B /\ IsFiniteSet(B)
  BY <1>1, <1>2, BuyersFinite
<1>4. IsFiniteSet(A) /\ Cardinality(A) <= Cardinality(B) /\ Cardinality(A) \in Nat /\ Cardinality(B) \in Nat
  BY <1>3, FS_Subset, FS_CardinalityType
<1> QED
  BY <1>1, <1>2, <1>4 DEF AmongThree

LEMMA AtMostThree ==
  ASSUME NEW S, IsFiniteSet(S), Cardinality(S) <= 3
  PROVE  \E a, b, e : S \subseteq {a, b, e}
<1>1. ASSUME NEW T, IsFiniteSet(T), NEW n \in Nat, Cardinality(T) <= n + 1, T # {}
      PROVE  \E x \in T : IsFiniteSet(T \ {x}) /\ Cardinality(T \ {x}) <= n
  <2>1. PICK x : x \in T
    BY <1>1
  <2>2. IsFiniteSet(T \ {x}) /\ Cardinality(T \ {x}) = Cardinality(T) - 1 /\ Cardinality(T) \in Nat
    BY <1>1, <2>1, FS_RemoveElement, FS_CardinalityType
  <2>3. Cardinality(T \ {x}) <= n
    BY <1>1, <2>2
  <2> QED
    BY <2>1, <2>2, <2>3
<1>2. CASE S = {}
  BY <1>2
<1>3. CASE S # {}
  <2>1. PICK a \in S : IsFiniteSet(S \ {a}) /\ Cardinality(S \ {a}) <= 2
    BY <1>1, <1>3
  <2>2. CASE S \ {a} = {}
    BY <2>2
  <2>3. CASE S \ {a} # {}
    <3>1. PICK b \in S \ {a} : IsFiniteSet((S \ {a}) \ {b}) /\ Cardinality((S \ {a}) \ {b}) <= 1
      BY <1>1, <2>1, <2>3
    <3>2. CASE (S \ {a}) \ {b} = {}
      BY <3>2
    <3>3. CASE (S \ {a}) \ {b} # {}
      <4>1. PICK e \in (S \ {a}) \ {b} : /\ IsFiniteSet(((S \ {a}) \ {b}) \ {e})
                                         /\ Cardinality(((S \ {a}) \ {b}) \ {e}) <= 0
        BY <1>1, <3>1, <3>3
      <4>2. ((S \ {a}) \ {b}) \ {e} = {}
        BY <4>1, FS_CardinalityType, FS_EmptySet
      <4> QED
        BY <4>2
    <3> QED
      BY <3>2, <3>3
  <2> QED
    BY <2>2, <2>3
<1> QED
  BY <1>2, <1>3

LEMMA FewWeigh ==
  ASSUME NEW needs \in SUBSET Requirement, AmongThree(needs)
  PROVE  ThreeWeigh(WeightOf(needs))
<1>1. PICK B : B = {For[r] : r \in needs}
  OBVIOUS
<1>2. IsFiniteSet(B) /\ Cardinality(B) <= 3
  BY <1>1, BuyersFinite DEF AmongThree
<1>3. PICK a, b, e : B \subseteq {a, b, e}
  BY <1>2, AtMostThree
<1>4. PICK weight : weight = WeightOf(needs)
  OBVIOUS
<1>5. ASSUME NEW k \in Customer, weight[k] > 0 PROVE k \in B
  <2>1. weight[k] = IF NeedOf(needs, k) = None THEN 0 ELSE Need[NeedOf(needs, k)]
    BY <1>4 DEF WeightOf
  <2>2. NeedOf(needs, k) # None
    BY <1>5, <2>1
  <2>3. \E r \in needs : For[r] = k
    BY <2>2 DEF NeedOf
  <2> QED
    BY <1>1, <2>3
<1> QED
  BY <1>3, <1>4, <1>5 DEF ThreeWeigh

\* Among three customer orders, what is left for the last one is not negative.
LEMMA SharesNonNegative ==
  ASSUME NEW qty \in Nat, NEW weight \in [Customer -> Nat], ThreeWeigh(weight),
         NEW f \in Shares(qty, weight)
  PROVE  \A k \in Buyer : f[k] >= 0
<1>0. NumCustomers \in Nat /\ Customer = 1..NumCustomers /\ Buyer = 0..NumCustomers
  BY ProcurementAssumption DEF Customer, Buyer
<1>1. CASE {k \in Customer : weight[k] > 0} = {}
  BY <1>1 DEF Shares
<1>2. CASE {k \in Customer : weight[k] > 0} # {}
  <2>1. PICK z, g : SharesForm(qty, weight, f, z, g)
    BY <1>2, SharesFormed
  <2>2. /\ z \in Customer /\ weight[z] > 0
        /\ g \in [Customer -> 0..qty] /\ g[z] = 0
        /\ \A k \in Customer : k # z => g[k] \in RoundedShares(qty, weight, k)
        /\ f = [k \in Buyer |-> IF k = 0 THEN 0 ELSE IF k = z THEN qty - Total(g, NumCustomers) ELSE g[k]]
    BY <2>1 DEF SharesForm
  <2>3. PICK d : d = Total(weight, NumCustomers)
    OBVIOUS
  <2>4. \A k \in Customer : k # z => 2 * (g[k] * d - qty * weight[k]) <= d
    BY <2>2, <2>3 DEF RoundedShares, Nearest
  <2>5. \A k \in Customer : g[k] \in Nat /\ weight[k] \in Nat
    BY <2>2
  <2>6. weight \in [1..NumCustomers -> Int] /\ g \in [1..NumCustomers -> Int]
    BY <1>0, <2>2
  <2>7. d \in Nat /\ d > 0
    <3>1. weight \in [1..NumCustomers -> Nat] /\ z \in 1..NumCustomers
      BY <1>0, <2>2
    <3>2. weight[z] <= d /\ d \in Nat
      BY <1>0, <2>3, <3>1, RowWithinTotal, TotalNat
    <3> QED
      BY <2>2, <3>2
  <2>8. ASSUME NEW k \in Customer, weight[k] = 0 PROVE g[k] = 0
    <3>1. PICK a \in Nat : a = g[k]
      BY <2>5
    <3>2. k # z
      BY <2>2, <2>8
    <3>3. 2 * (a * d) <= d
      BY <2>4, <2>7, <2>8, <3>1, <3>2
    <3>4. a = 0
      <4> SUFFICES ASSUME a > 0 PROVE FALSE
        OBVIOUS
      <4>1. a * d >= d
        BY <2>7
      <4> QED
        BY <2>7, <3>3, <4>1
    <3> QED
      BY <3>1, <3>4
  <2>9. PICK x, y : \A k \in Customer : weight[k] > 0 => k \in {x, y, z}
    <3>1. PICK a, b, e : \A k \in Customer : weight[k] > 0 => k \in {a, b, e}
      BY DEF ThreeWeigh
    <3>2. z = a \/ z = b \/ z = e
      BY <2>2, <3>1
    <3> QED
      BY <3>1, <3>2
  <2>10. \A k \in Customer : k \notin {x, y, z} => weight[k] = 0 /\ g[k] = 0
    BY <2>5, <2>8, <2>9
  <2>11. Total(g, NumCustomers) <= qty
    <3>1. CASE {x, y} \subseteq Customer /\ x # y /\ x # z /\ y # z
      <4>1. x \in 1..NumCustomers /\ y \in 1..NumCustomers /\ z \in 1..NumCustomers
        BY <1>0, <2>2, <3>1
      <4>2. \A k \in 1..NumCustomers : k \notin {x, y} => g[k] = 0
        BY <1>0, <2>2, <2>10
      <4>3. \A k \in 1..NumCustomers : k \notin {x, y, z} => weight[k] = 0
        BY <1>0, <2>10
      <4>4. Total(g, NumCustomers) = g[x] + g[y]
        BY <1>0, <2>6, <3>1, <4>1, <4>2, TotalOfTwo
      <4>5. Total(weight, NumCustomers) = weight[x] + weight[y] + weight[z]
        BY <1>0, <2>6, <3>1, <4>1, <4>3, TotalOfThree
      <4>6. PICK a \in Nat : a = g[x]
        BY <2>5, <3>1
      <4>7. PICK b \in Nat : b = g[y]
        BY <2>5, <3>1
      <4>8. PICK u \in Nat : u = weight[x]
        BY <2>5, <3>1
      <4>9. PICK v \in Nat : v = weight[y]
        BY <2>5, <3>1
      <4>10. PICK w \in Nat : w = weight[z]
        BY <2>2, <2>5
      <4>11. w > 0 /\ d = u + v + w
        BY <2>2, <2>3, <4>5, <4>8, <4>9, <4>10
      <4>12. 2 * (a * d - qty * u) <= d /\ 2 * (b * d - qty * v) <= d
        BY <2>4, <3>1, <4>6, <4>7, <4>8, <4>9
      <4>13. a + b <= qty
        BY <2>7, <4>11, <4>12, TwoRounded
      <4> QED
        BY <4>4, <4>6, <4>7, <4>13
    <3>2. CASE ~ ({x, y} \subseteq Customer /\ x # y /\ x # z /\ y # z)
      <4>1. PICK v \in Customer : \A k \in Customer : k # v => g[k] = 0
        BY <2>2, <2>10, <3>2
      <4>2. v \in 1..NumCustomers /\ \A k \in 1..NumCustomers : k # v => g[k] = 0
        BY <1>0, <4>1
      <4>3. Total(g, NumCustomers) = g[v]
        BY <1>0, <2>6, <4>2, TotalSingle
      <4> QED
        BY <2>2, <4>3
    <3> QED
      BY <3>1, <3>2
  <2>12. Total(g, NumCustomers) \in Int
    BY <1>0, <2>6, TotalInt
  <2>13. qty - Total(g, NumCustomers) >= 0
    BY <2>11, <2>12
  <2>14. ASSUME NEW k \in Buyer PROVE f[k] >= 0
    <3>1. k = 0 \/ k \in Customer
      BY <1>0
    <3> QED
      BY <2>2, <2>5, <2>13, <3>1
  <2> QED
    BY <2>14
<1> QED
  BY <1>1, <1>2

(***************************************************************************)
(* A sum over a list is that over the entries kept, if the others are 0.   *)
(***************************************************************************)
Picks(kept, place, g, v, m, n) ==
  /\ kept \in SUBSET (1..n) /\ v \in [1..n -> Int]
  /\ \A x \in 1..n : x \notin kept => v[x] = 0
  /\ m = Cardinality(kept) /\ place = Firsts(kept, m)
  /\ g = [j \in 1..m |-> v[place[j]]]

LEMMA OnlyTotal ==
  ASSUME NEW n \in Nat, NEW kept, NEW place, NEW g, NEW v, NEW m, Picks(kept, place, g, v, m, n)
  PROVE  Total(g, m) = Total(v, n)
<1> USE DEF Picks
<1>0. IsFiniteSet(1..n)
  BY FS_Interval
<1>1. kept \in SUBSET Nat /\ IsFiniteSet(kept) /\ m \in Nat /\ m <= Cardinality(kept)
  <2>1. IsFiniteSet(kept)
    BY <1>0, FS_Subset
  <2>2. m \in Nat
    BY <2>1, FS_CardinalityType
  <2> QED
    BY <2>1, <2>2
<1>2. place \in [1..m -> kept] /\ \A i, j \in 1..m : place[i] = place[j] => i = j
  BY <1>1, FirstsNumber, FirstsDiffer
<1>3. \A x \in kept : \E j \in 1..m : place[j] = x
  BY <1>1, FirstsCover
<1>4. Renumbers(place, g, v, m, n)
  BY <1>2, <1>3 DEF Renumbers
<1> QED
  BY <1>1, <1>4, TotalRenumbered

\* What a list of order lines orders for request line from.
Amount(seq, from) ==
  Total([j \in DOMAIN seq |-> IF seq[j].from = from THEN seq[j].qty ELSE 0], Len(seq))

LEMMA AmountInt ==
  ASSUME NEW seq \in Seq(FreshLine), NEW from
  PROVE  Amount(seq, from) \in Int
<1>1. PICK k \in Nat : k = Len(seq)
  OBVIOUS
<1>2. DOMAIN seq = 1..k /\ \A j \in 1..k : seq[j] \in FreshLine
  BY <1>1
<1>3. PICK f : f = [j \in 1..k |-> IF seq[j].from = from THEN seq[j].qty ELSE 0]
  OBVIOUS
<1>4. \A j \in 1..k : seq[j].qty \in Int
  BY <1>2 DEF FreshLine, OrderLine
<1>5. f \in [1..k -> Int]
  BY <1>3, <1>4
<1>6. Amount(seq, from) = Total(f, k)
  BY <1>1, <1>2, <1>3 DEF Amount
<1> QED
  BY <1>5, <1>6, TotalInt

LEMMA AmountOfNothing ==
  ASSUME NEW from
  PROVE  Amount(<<>>, from) = 0
<1>1. PICK f : f = [j \in DOMAIN <<>> |-> IF <<>>[j].from = from THEN <<>>[j].qty ELSE 0]
  OBVIOUS
<1>2. DOMAIN f = 1..0 /\ f \in [1..0 -> Int]
  BY <1>1
<1> QED
  BY <1>1, <1>2, TotalNone DEF Amount

Distinct(lines) == \A i, j \in DOMAIN lines : lines[i].id = lines[j].id => i = j

(***************************************************************************)
(* The order lines of a buyer have his share of request line i.            *)
(***************************************************************************)
LEMMA LinesAmount ==
  ASSUME NEW lines \in Seq(RequestLine), Distinct(lines),
         NEW split \in Splits(lines), NEW k \in Buyer,
         NEW i \in DOMAIN lines, lines[i].needs # {}, AmongThree(lines[i].needs)
  PROVE  Amount(LinesFor(k, lines, split), lines[i].id) = split[i][k] /\ split[i][k] \in Nat
<1> DEFINE list == [j \in DOMAIN lines |->
                     NewLine(split[j][k], NeedOf(lines[j].needs, k),
                             IF lines[j].needs = {} THEN None ELSE lines[j].id, lines[j].stocked)]
           kept == {j \in DOMAIN lines : split[j][k] > 0}
<1>1. PICK n \in Nat : n = Len(lines)
  OBVIOUS
<1>2. DOMAIN lines = 1..n
  BY <1>1
<1>3. split[i][k] \in Nat
  <2>0. lines[i] \in RequestLine
    OBVIOUS
  <2>1. PICK qty \in Nat : qty = lines[i].qty
    BY <2>0 DEF RequestLine
  <2>2. PICK weight \in [Customer -> Nat] : weight = WeightOf(lines[i].needs) /\ ThreeWeigh(weight)
    <3>1. lines[i].needs \in SUBSET Requirement
      BY <2>0 DEF RequestLine
    <3> QED
      BY <3>1, Weights, FewWeigh
  <2>3. PICK f \in Shares(qty, weight) : f = split[i]
    BY <2>1, <2>2, SplitsOf
  <2>4. f[k] >= 0
    BY <2>2, SharesNonNegative
  <2>5. split[i] \in [Buyer -> Int]
    BY SplitsOf
  <2> QED
    BY <2>3, <2>4, <2>5
<1>4. PICK m : m = Cardinality(kept)
  OBVIOUS
<1>5. PICK place : place = Firsts(kept, m)
  OBVIOUS
<1>6. kept \in SUBSET (1..n)
  BY <1>2
<1>7. m \in Nat /\ place \in [1..m -> kept]
  <2> HIDE DEF kept
  <2>1. IsFiniteSet(1..n)
    BY FS_Interval
  <2>2. IsFiniteSet(kept)
    BY <1>6, <2>1, FS_Subset
  <2>3. m \in Nat /\ kept \in SUBSET Nat
    BY <1>4, <1>6, <2>2, FS_CardinalityType
  <2> QED
    BY <1>4, <1>5, <2>2, <2>3, FirstsNumber
<1>8. PICK seq : seq = LinesFor(k, lines, split)
  OBVIOUS
<1>9. seq = [j \in 1..m |-> list[place[j]]]
  <2>1. seq = Only(list, kept)
    BY <1>8 DEF LinesFor
  <2> HIDE DEF list, kept
  <2> QED
    BY <1>4, <1>5, <2>1 DEF Only
<1>10. DOMAIN seq = 1..m /\ Len(seq) = m
  <2>1. seq \in Seq(FreshLine)
    BY <1>8, LinesForTyped
  <2>2. DOMAIN seq = 1..m
    BY <1>9
  <2> HIDE DEF list, kept
  <2> QED
    BY <1>7, <2>1, <2>2
<1>11. PICK v : v = [j \in 1..n |-> IF j = i THEN split[i][k] ELSE 0]
  OBVIOUS
<1>12. v \in [1..n -> Int] /\ i \in 1..n /\ v[i] = split[i][k] /\ \A j \in 1..n : j # i => v[j] = 0
  BY <1>2, <1>3, <1>11
<1>13. \A j \in 1..n : j \notin kept => v[j] = 0
  BY <1>2, <1>3, <1>12
<1>14. PICK g : g = [j \in 1..m |-> v[place[j]]]
  OBVIOUS
<1>15. ASSUME NEW j \in 1..m
       PROVE  (IF seq[j].from = lines[i].id THEN seq[j].qty ELSE 0) = g[j]
  <2>1. PICK p \in kept : p = place[j]
    BY <1>7
  <2>2. p \in 1..n /\ p \in DOMAIN lines
    BY <1>2, <1>6
  <2>3. g[j] = v[p]
    BY <1>14, <2>1
  <2>4. seq[j] = list[p]
    BY <1>9, <2>1
  <2>5. seq[j] = NewLine(split[p][k], NeedOf(lines[p].needs, k),
                         IF lines[p].needs = {} THEN None ELSE lines[p].id, lines[p].stocked)
    BY <2>2, <2>4
  <2>6. seq[j].qty = split[p][k] /\ seq[j].from = IF lines[p].needs = {} THEN None ELSE lines[p].id
    BY <2>5 DEF NewLine
  <2> HIDE DEF list, kept
  <2>7. CASE p = i
    BY <1>12, <2>3, <2>6, <2>7
  <2>8. CASE p # i
    <3>1. lines[i].id # lines[p].id
      BY <2>2, <2>8 DEF Distinct
    <3>2. lines[i].id \in LineId
      <4>1. lines[i] \in RequestLine
        OBVIOUS
      <4> QED
        BY <4>1 DEF RequestLine
    <3>3. seq[j].from # lines[i].id
      BY <2>6, <3>1, <3>2, ProcurementAssumption
    <3> QED
      BY <1>12, <2>2, <2>3, <2>8, <3>3
  <2> QED
    BY <2>7, <2>8
<1>16. [j \in DOMAIN seq |-> IF seq[j].from = lines[i].id THEN seq[j].qty ELSE 0] = g
  <2> HIDE DEF list, kept
  <2> QED
    BY <1>10, <1>14, <1>15
<1>17. Amount(seq, lines[i].id) = Total(g, m)
  BY <1>10, <1>16 DEF Amount
<1> HIDE DEF list, kept
<1>18. Total(g, m) = Total(v, n)
  <2>1. Picks(kept, place, g, v, m, n)
    BY <1>4, <1>5, <1>6, <1>12, <1>13, <1>14 DEF Picks
  <2> QED
    BY <2>1, OnlyTotal
<1>19. Total(v, n) = v[i]
  BY <1>12, TotalSingle
<1> QED
  BY <1>3, <1>8, <1>12, <1>17, <1>18, <1>19

(***************************************************************************)
(* The new orders together have all that request line i asked for.         *)
(***************************************************************************)
LEMMA OrdersAmount ==
  ASSUME NEW lines \in Seq(RequestLine), Distinct(lines), NEW split \in Splits(lines),
         NEW i \in DOMAIN lines, lines[i].needs # {}, AmongThree(lines[i].needs),
         NEW orders, orders = OrdersFor(lines, split),
         NEW g, g = [j \in 1..Len(orders) |-> Amount(orders[j], lines[i].id)]
  PROVE  Total(g, Len(orders)) = lines[i].qty
<1>1. PICK n \in Nat : n = NumCustomers + 1
  BY ProcurementAssumption
<1> DEFINE all == [k \in 1..n |-> LinesFor(k - 1, lines, split)]
           kept == {k \in 1..n : all[k] # <<>>}
<1>2. orders = Only(all, kept)
  BY <1>1 DEF OrdersFor
<1>3. PICK m : m = Cardinality(kept)
  OBVIOUS
<1>4. PICK place : place = Firsts(kept, m)
  OBVIOUS
<1>5. kept \in SUBSET (1..n)
  OBVIOUS
<1>6. orders = [j \in 1..m |-> all[place[j]]]
  <2> HIDE DEF all, kept
  <2> QED
    BY <1>2, <1>3, <1>4 DEF Only
<1>7. m \in Nat /\ place \in [1..m -> kept]
  <2> HIDE DEF all, kept
  <2>1. IsFiniteSet(1..n)
    BY FS_Interval
  <2>2. IsFiniteSet(kept)
    BY <1>5, <2>1, FS_Subset
  <2>3. m \in Nat /\ kept \in SUBSET Nat
    BY <1>3, <1>5, <2>2, FS_CardinalityType
  <2> QED
    BY <1>3, <1>4, <2>2, <2>3, FirstsNumber
<1>8. Len(orders) = m
  <2>1. orders \in Seq(Lists)
    BY OrdersForTyped
  <2>2. DOMAIN orders = 1..m
    BY <1>6
  <2> HIDE DEF all, kept, Lists
  <2> QED
    BY <1>7, <2>1, <2>2
<1>9. PICK v : v = [k \in 1..n |-> split[i][k - 1]]
  OBVIOUS
<1>10. ASSUME NEW k \in 1..n
       PROVE  v[k] \in Int /\ v[k] = Amount(all[k], lines[i].id)
  <2>1. PICK b \in Buyer : b = k - 1
    BY <1>1, ProcurementAssumption DEF Buyer
  <2>2. all[k] = LinesFor(b, lines, split) /\ v[k] = split[i][b]
    BY <1>9, <2>1
  <2> HIDE DEF all
  <2> QED
    BY <2>2, LinesAmount
<1>11. v \in [1..n -> Int] /\ \A k \in 1..n : k \notin kept => v[k] = 0
  <2>1. ASSUME NEW k \in 1..n, k \notin kept PROVE v[k] = 0
    <3>1. all[k] = <<>>
      BY <2>1
    <3> HIDE DEF all, kept
    <3> QED
      BY <1>10, <3>1, AmountOfNothing
  <2> QED
    BY <1>9, <1>10, <2>1
<1>12. g = [j \in 1..m |-> v[place[j]]]
  <2>1. ASSUME NEW j \in 1..m PROVE g[j] = v[place[j]]
    <3>1. PICK p \in 1..n : p = place[j]
      BY <1>5, <1>7
    <3>2. orders[j] = all[p] /\ g[j] = Amount(orders[j], lines[i].id)
      BY <1>6, <1>8, <3>1
    <3> HIDE DEF all, kept
    <3> QED
      BY <1>10, <3>1, <3>2
  <2> HIDE DEF all, kept
  <2> QED
    BY <1>8, <2>1
<1>13. Total(g, m) = Total(v, n)
  <2> HIDE DEF all, kept
  <2> QED
    <3>1. Picks(kept, place, g, v, m, n)
      BY <1>3, <1>4, <1>5, <1>11, <1>12 DEF Picks
    <3> QED
      BY <3>1, OnlyTotal
<1>14. PICK s : s = [k \in Customer |-> split[i][k]]
  OBVIOUS
<1>15. PICK next : next = [k \in 1..NumCustomers |-> k + 1]
  OBVIOUS
<1>16. /\ NumCustomers \in Nat /\ Customer = 1..NumCustomers
       /\ split[i] \in [Buyer -> Int] /\ split[i][0] = 0 /\ split[i][0] + Total(s, NumCustomers) = lines[i].qty
       /\ Customer \subseteq Buyer /\ lines[i].qty \in Int
  <2>1. NumCustomers \in Nat /\ Customer = 1..NumCustomers /\ Customer \subseteq Buyer
    BY ProcurementAssumption DEF Customer, Buyer
  <2>2. split[i] \in [Buyer -> Int] /\ split[i][0] = 0
    BY SplitsOf
  <2>3. split[i][0] + Total([k \in Customer |-> split[i][k]], NumCustomers) = lines[i].qty
    BY SplitsOf
  <2>4. lines[i] \in RequestLine
    OBVIOUS
  <2>5. lines[i].qty \in Int
    BY <2>4 DEF RequestLine
  <2> QED
    BY <1>14, <2>1, <2>2, <2>3, <2>5
<1>17. s \in [1..NumCustomers -> Int] /\ next \in [1..NumCustomers -> 1..n]
  BY <1>1, <1>14, <1>15, <1>16
<1>18. \A k \in 1..NumCustomers : v[next[k]] = s[k]
  BY <1>1, <1>9, <1>14, <1>15, <1>16
<1>19. \A x \in 1..n : (\E k \in 1..NumCustomers : next[k] = x) \/ v[x] = 0
  <2> TAKE x \in 1..n
  <2>1. CASE x = 1
    BY <1>9, <1>16, <2>1
  <2>2. CASE x # 1
    <3>1. x - 1 \in 1..NumCustomers /\ next[x - 1] = x
      BY <1>1, <1>15, <1>16, <2>2
    <3> QED
      BY <3>1
  <2> QED
    BY <2>1, <2>2
<1>20. \A j, k \in 1..NumCustomers : next[j] = next[k] => j = k
  BY <1>15
<1>21. Renumbers(next, s, v, NumCustomers, n)
  BY <1>11, <1>17, <1>18, <1>19, <1>20 DEF Renumbers
<1>22. Total(v, n) = Total(s, NumCustomers) /\ Total(s, NumCustomers) \in Int
  <2> HIDE DEF all, kept
  <2>1. Total(v, n) = Total(s, NumCustomers)
    <3>1. NumCustomers \in Nat
      BY <1>16
    <3> QED
      BY <1>21, <3>1, TotalRenumbered
  <2>2. Total(s, NumCustomers) \in Int
    BY <1>16, <1>17, TotalInt
  <2> QED
    BY <2>1, <2>2
<1> QED
  BY <1>8, <1>13, <1>16, <1>22

\* What the orders placed since order was read order for request line from.
NewAmount(n, from) == IF order[n].status # "NONE" THEN 0 ELSE Amount(order'[n].lines, from)

\* g says what each of orders orders for it, and h what each new one does.
Placed(orders, from, g, h) ==
  /\ g = [j \in 1..Len(orders) |-> Amount(orders[j], from)]
  /\ h = [n \in Order |-> NewAmount(n, from)]

LEMMA PlacedAmount ==
  ASSUME ProcInv, NEW orders \in Seq(Lists), Place(orders), NEW from, NEW g, NEW h,
         Placed(orders, from, g, h)
  PROVE  Total(h, NumOrders) = Total(g, Len(orders))
<1>0. /\ g = [j \in 1..Len(orders) |-> Amount(orders[j], from)]
      /\ h = [n \in Order |-> NewAmount(n, from)]
  BY DEF Placed
<1> DEFINE id == Firsts(UnusedOrders, Len(orders))
           placed(n) == {k \in DOMAIN orders : id[k] = n}
<1>1. /\ Cardinality(UnusedOrders) >= Len(orders)
      /\ order' = [n \in Order |-> IF placed(n) = {} THEN order[n]
                     ELSE [status |-> "ORDERED", lines |-> orders[CHOOSE k \in placed(n) : TRUE]]]
  BY DEF Place
<1>2. PICK m \in Nat : m = Len(orders)
  OBVIOUS
<1>3. DOMAIN orders = 1..m
  BY <1>2
<1>4. id \in [1..m -> UnusedOrders] /\ \A j, k \in 1..m : id[j] = id[k] => j = k
  <2>1. m <= Cardinality(UnusedOrders)
    BY <1>1, <1>2, UnusedOrdersFinite, FS_CardinalityType
  <2> QED
    BY <1>2, <2>1, UnusedOrdersFinite, FirstsNumber, FirstsDiffer
<1> HIDE DEF id
<1>5. NumOrders \in Nat /\ Order = 1..NumOrders /\ UnusedOrders \subseteq Order
  BY UnusedOrdersFinite, ProcurementAssumption DEF Order
<1>6. \A k \in 1..m : orders[k] \in Seq(FreshLine)
  BY <1>3 DEF Lists
<1>7. g \in [1..m -> Int]
  <2>1. \A k \in 1..m : Amount(orders[k], from) \in Int
    BY <1>6, AmountInt
  <2> QED
    BY <1>0, <1>2, <2>1
<1>8. ASSUME NEW k \in 1..m PROVE h[id[k]] = g[k]
  <2>1. PICK n \in Order : n = id[k]
    BY <1>4, <1>5
  <2>2. n \in UnusedOrders
    BY <1>4, <2>1
  <2>3. order[n].status = "NONE"
    BY <2>2 DEF UnusedOrders
  <2>4. placed(n) = {k}
    BY <1>3, <1>4, <2>1
  <2>5. (CHOOSE j \in placed(n) : TRUE) = k
    BY <2>4
  <2>6. order'[n] = [status |-> "ORDERED", lines |-> orders[k]]
    BY <1>1, <2>4, <2>5
  <2>7. h[n] = Amount(orders[k], from)
    BY <1>0, <2>3, <2>6 DEF NewAmount
  <2> QED
    BY <1>0, <1>2, <2>1, <2>7
<1>9. ASSUME NEW n \in 1..NumOrders PROVE (\E k \in 1..m : id[k] = n) \/ h[n] = 0
  <2> SUFFICES ASSUME \A k \in 1..m : id[k] # n PROVE h[n] = 0
    OBVIOUS
  <2>1. n \in Order /\ placed(n) = {}
    BY <1>3, <1>5
  <2>2. order'[n] = order[n]
    BY <1>1, <2>1
  <2>3. CASE order[n].status # "NONE"
    BY <1>0, <2>1, <2>3 DEF NewAmount
  <2>4. CASE order[n].status = "NONE"
    <3>1. order'[n].lines = <<>>
      BY <2>1, <2>2, <2>4 DEF ProcInv, OrderOK
    <3> QED
      BY <1>0, <2>1, <2>4, <3>1, AmountOfNothing DEF NewAmount
  <2> QED
    BY <2>3, <2>4
<1>10. h \in [1..NumOrders -> Int]
  <2>1. ASSUME NEW n \in Order PROVE h[n] \in Int
    <3>1. CASE \E k \in 1..m : id[k] = n
      BY <1>7, <1>8, <3>1
    <3>2. CASE ~ \E k \in 1..m : id[k] = n
      BY <1>5, <1>9, <3>2
    <3> QED
      BY <3>1, <3>2
  <2> QED
    BY <1>0, <1>5, <2>1
<1>11. Renumbers(id, g, h, m, NumOrders)
  BY <1>4, <1>5, <1>7, <1>8, <1>9, <1>10 DEF Renumbers
<1> QED
  BY <1>2, <1>5, <1>11, TotalRenumbered

\* A claim of a request's line is one of those the line was made for, and
\* those are of at most three customer orders.
ClaimsListed ==
  \A q \in Request : \A i \in DOMAIN request[q].lines : \A r \in Requirement :
    claim[r] = request[q].lines[i].id => r \in request[q].lines[i].needs
FewBuyers == \A q \in Request : \A i \in DOMAIN request[q].lines : AmongThree(request[q].lines[i].needs)
RequestsOwn == OwnIds /\ ClaimsListed /\ FewBuyers

\* So are the request lines a conversion has read, which are different ones.
Readable(lines) == Distinct(lines) /\ \A i \in DOMAIN lines : AmongThree(lines[i].needs)
OwnInv == RequestsOwn /\ \A c \in Connection : Does(c, "requests", "convert") => Readable(tx[c].lines)

\* No line a user submits is for more than three customer orders.
FewServed == \A form \in Forms : \A i \in DOMAIN form : AmongThree(form[i].needs)

\* A step of connection c leaves what the others are in the middle of.
Own(c) == OwnInv' /\ \A d \in Connection : d # c => tx'[d] = tx[d]

LEMMA OwnOther ==
  ASSUME OwnInv, RequestsOwn', NEW c \in Connection, \A d \in Connection : d # c => tx'[d] = tx[d],
         Does(c, "requests", "convert")' => Readable(tx'[c].lines)
  PROVE  Own(c)
<1>1. ASSUME NEW d \in Connection, Does(d, "requests", "convert")' PROVE Readable(tx'[d].lines)
  <2>1. CASE d = c
    BY <1>1, <2>1
  <2>2. CASE d # c
    BY <1>1, <2>2 DEF OwnInv, Does
  <2> QED
    BY <2>1, <2>2
<1> QED
  BY <1>1 DEF Own, OwnInv

LEMMA OwnSame ==
  ASSUME RequestsOwn, \A q \in Request : request'[q].lines = request[q].lines, claim' = claim
  PROVE  RequestsOwn'
<1>1. OwnIds'
  BY DEF RequestsOwn, OwnIds
<1>2. ClaimsListed'
  BY DEF RequestsOwn, ClaimsListed
<1>3. FewBuyers'
  BY DEF RequestsOwn, FewBuyers, AmongThree
<1> QED
  BY <1>1, <1>2, <1>3 DEF RequestsOwn

LEMMA OwnRead ==
  ASSUME ProcInv, OwnInv, NEW c \in Connection, NEW what, Reads(c, what),
         what.kind = "requests" /\ what.op = "convert" => Readable(what.lines)
  PROVE  Own(c)
<1>1. tx' = [tx EXCEPT ![c] = what] /\ request' = request /\ claim' = claim /\ DOMAIN tx = Connection
  BY DEF Reads, ProcInv
<1>2. tx'[c] = what /\ \A d \in Connection : d # c => tx'[d] = tx[d]
  BY <1>1
<1>3. RequestsOwn'
  BY <1>1, OwnSame DEF OwnInv
<1>4. Does(c, "requests", "convert")' => Readable(tx'[c].lines)
  BY <1>2 DEF Does
<1> QED
  BY <1>2, <1>3, <1>4, OwnOther

LEMMA OwnEnd ==
  ASSUME ProcInv, OwnInv, NEW c \in Connection, Ends(c), RequestsOwn'
  PROVE  Own(c)
<1>1. tx'[c] = Idle /\ \A d \in Connection : d # c => tx'[d] = tx[d]
  BY DEF Ends, ProcInv
<1>2. ~ Does(c, "requests", "convert")'
  BY <1>1 DEF Does, Idle
<1> QED
  BY <1>1, <1>2, OwnOther

LEMMA OwnFail ==
  ASSUME ProcInv, OwnInv, NEW c \in Connection, Fails(c)
  PROVE  Own(c)
<1>1. Ends(c) /\ request' = request /\ claim' = claim
  BY DEF Fails
<1> QED
  BY <1>1, OwnSame, OwnEnd DEF OwnInv

LEMMA OwnRequestReads ==
  ASSUME ProcInv, OwnInv, NEW c \in Connection, NEW q \in Request,
         \/ \E form \in Forms : ReadCreate(c, q, form) \/ ReadSave(c, q, form)
         \/ \E status \in {"SENT", "CANCELLED"} : ReadMark(c, q, status)
         \/ ReadRemove(c, q)
         \/ ReadConvert(c, q)
  PROVE  Own(c)
<1>1. ASSUME NEW what, Reads(c, what), what.op # "convert" PROVE Own(c)
  BY <1>1, OwnRead
<1>2. CASE ReadConvert(c, q)
  <2>1. PICK lines : lines = [i \in DOMAIN request[q].lines |->
                               [request[q].lines[i] EXCEPT
                                  !.needs = {r \in Requirement : claim[r] = request[q].lines[i].id}]]
    OBVIOUS
  <2>2. PICK what : what = [kind |-> "requests", op |-> "convert", on |-> q, lines |-> lines]
    OBVIOUS
  <2>3. Reads(c, what)
    BY <1>2, <2>1, <2>2 DEF ReadConvert
  <2>4. ASSUME NEW i \in DOMAIN lines
        PROVE  /\ i \in DOMAIN request[q].lines /\ lines[i].id = request[q].lines[i].id
               /\ AmongThree(lines[i].needs)
    <3>1. request[q].lines \in Seq(RequestLine) /\ i \in DOMAIN request[q].lines
      BY <2>1 DEF ProcInv, RequestRow
    <3>2. request[q].lines[i] \in RequestLine
      BY <3>1
    <3>3. /\ lines[i].id = request[q].lines[i].id
          /\ lines[i].needs = {r \in Requirement : claim[r] = request[q].lines[i].id}
      BY <2>1, <3>1, <3>2 DEF RequestLine
    <3>4. request[q].lines[i].needs \in SUBSET Requirement
      BY <3>2 DEF RequestLine
    <3>5. lines[i].needs \in SUBSET request[q].lines[i].needs
      BY <3>1, <3>3 DEF OwnInv, RequestsOwn, ClaimsListed
    <3>6. AmongThree(request[q].lines[i].needs)
      BY <3>1 DEF OwnInv, RequestsOwn, FewBuyers
    <3> QED
      BY <3>1, <3>3, <3>4, <3>5, <3>6, FewerNeeds
  <2>5. Readable(lines)
    BY <2>4 DEF Readable, Distinct, OwnInv, RequestsOwn, OwnIds
  <2> QED
    BY <2>2, <2>3, <2>5, OwnRead
<1>3. CASE \E form \in Forms : ReadCreate(c, q, form) \/ ReadSave(c, q, form)
  BY <1>1, <1>3 DEF ReadCreate, ReadSave
<1>4. CASE \E status \in {"SENT", "CANCELLED"} : ReadMark(c, q, status)
  BY <1>1, <1>4 DEF ReadMark
<1>5. CASE ReadRemove(c, q)
  BY <1>1, <1>5 DEF ReadRemove
<1> QED
  BY <1>2, <1>3, <1>4, <1>5

\* Lines with new ids replace those of request q, and claim what they are for.
LEMMA LinesListed ==
  ASSUME ProcInv, OwnIds, ClaimsListed, NEW q \in Request, NEW status, NEW lines \in Seq(RequestLine),
         \A i \in DOMAIN lines : \A p \in Request : lines[i].id \notin IdsOf(request[p].lines),
         \A i \in DOMAIN lines : \A r \in Requirement : lines[i].id # claim[r],
         \A i, j \in DOMAIN lines : lines[i].id = lines[j].id => i = j,
         request' = [request EXCEPT ![q] = [status |-> status, lines |-> lines]],
         claim' = Claimed(request[q].lines, lines)
  PROVE  ClaimsListed'
<1>0. /\ request'[q].lines = lines
      /\ \A p \in Request : p # q => request'[p] = request[p]
  BY DEF ProcInv
<1> SUFFICES ASSUME NEW p \in Request, NEW i \in DOMAIN request'[p].lines, NEW r \in Requirement,
                    claim'[r] = request'[p].lines[i].id
             PROVE  r \in request'[p].lines[i].needs
  BY DEF ClaimsListed
<1>1. PICK old : old = request[q].lines
  OBVIOUS
<1>2. PICK mine : mine = {k \in DOMAIN lines : r \in lines[k].needs}
  OBVIOUS
<1>3. claim'[r] = CASE mine # {} -> lines[CHOOSE k \in mine : TRUE].id
                    [] mine = {} /\ claim[r] \in IdsOf(old) -> None
                    [] OTHER -> claim[r]
  BY <1>1, <1>2 DEF Claimed
<1>4. \/ \E k \in mine : claim'[r] = lines[k].id
      \/ claim'[r] = None
      \/ claim'[r] = claim[r]
  BY <1>3
<1>5. CASE p = q
  <2>1. i \in DOMAIN lines /\ claim'[r] = lines[i].id
    BY <1>0, <1>5
  <2>2. lines[i].id \in LineId
    <3>1. lines[i] \in RequestLine
      BY <2>1
    <3> QED
      BY <3>1 DEF RequestLine
  <2>3. PICK k \in mine : lines[k].id = lines[i].id
    BY <1>4, <2>1, <2>2, ProcurementAssumption
  <2>4. k = i
    BY <1>2, <2>1, <2>3
  <2> QED
    BY <1>0, <1>2, <1>5, <2>3, <2>4
<1>6. CASE p # q
  <2>1. /\ request'[p] = request[p] /\ i \in DOMAIN request[p].lines
        /\ claim'[r] = request[p].lines[i].id
    BY <1>0, <1>6
  <2>2. request[p].lines[i].id \in LineId
    <3>1. request[p].lines \in Seq(RequestLine)
      BY DEF ProcInv, RequestRow
    <3>2. request[p].lines[i] \in RequestLine
      BY <2>1, <3>1
    <3> QED
      BY <3>2 DEF RequestLine
  <2>3. request[p].lines[i].id \in IdsOf(request[p].lines)
    BY <2>1 DEF IdsOf
  <2>4. claim[r] = request[p].lines[i].id
    BY <1>2, <1>4, <2>1, <2>2, <2>3, ProcurementAssumption
  <2> QED
    BY <2>1, <2>4 DEF ClaimsListed
<1> QED
  BY <1>5, <1>6

\* All of it stays so.
LEMMA LinesOwned ==
  ASSUME ProcInv, RequestsOwn, NEW q \in Request, NEW status, NEW lines \in Seq(RequestLine),
         \A i \in DOMAIN lines : AmongThree(lines[i].needs),
         \A i \in DOMAIN lines : \A p \in Request : lines[i].id \notin IdsOf(request[p].lines),
         \A i \in DOMAIN lines : \A r \in Requirement : lines[i].id # claim[r],
         \A i, j \in DOMAIN lines : lines[i].id = lines[j].id => i = j,
         request' = [request EXCEPT ![q] = [status |-> status, lines |-> lines]],
         claim' = Claimed(request[q].lines, lines)
  PROVE  RequestsOwn'
<1>1. OwnIds /\ ClaimsListed /\ FewBuyers
  BY DEF RequestsOwn
<1>2. OwnIds'
  BY <1>1, LinesOwn
<1>3. ClaimsListed'
  BY <1>1, LinesListed
<1>4. /\ request'[q].lines = lines
      /\ \A p \in Request : p # q => request'[p] = request[p]
  BY DEF ProcInv
<1>5. FewBuyers'
  BY <1>1, <1>4 DEF FewBuyers, AmongThree
<1> QED
  BY <1>2, <1>3, <1>5 DEF RequestsOwn

LEMMA OwnRequestWrites ==
  ASSUME FewServed, ProcInv, OwnInv, NEW c \in Connection,
         Create(c) \/ SaveItems(c) \/ Mark(c) \/ Remove(c) \/ Convert(c)
  PROVE  Own(c)
<1>0. tx[c].kind = "requests"
  BY DEF Create, SaveItems, Mark, Remove, Convert, Does
<1>1. PICK q \in Request : q = tx[c].on
  BY <1>0, RequestTx
<1>2. request \in [Request -> RequestRow]
  BY DEF ProcInv
<1>3. CASE Fails(c)
  BY <1>3, OwnFail
<1>4. CASE ~ Fails(c) /\ (Create(c) \/ SaveItems(c))
  <2>1. PICK form \in Forms : form = tx[c].form
    BY <1>0, <1>4, RequestTx DEF Create, SaveItems, Does
  <2>2. PICK status : PutLines(c, q, status)
    BY <1>1, <1>4 DEF Create, SaveItems
  <2>3. PICK lines : lines = NewLines(form, Firsts(UnusedLines, Len(form)))
    OBVIOUS
  <2>4. /\ Cardinality(UnusedLines) >= Len(form)
        /\ request' = [request EXCEPT ![q] = [status |-> status, lines |-> lines]]
        /\ claim' = Claimed(request[q].lines, lines)
        /\ Ends(c)
    BY <2>1, <2>2, <2>3 DEF PutLines
  <2>5. /\ lines \in Seq(RequestLine) /\ DOMAIN lines = DOMAIN form
        /\ \A i \in DOMAIN lines : lines[i].id \in UnusedLines /\ lines[i].needs = form[i].needs
        /\ \A i, j \in DOMAIN lines : lines[i].id = lines[j].id => i = j
    BY <2>3, <2>4, NewLinesTyped
  <2>6. /\ \A i \in DOMAIN lines : \A p \in Request : lines[i].id \notin IdsOf(request[p].lines)
        /\ \A i \in DOMAIN lines : \A r \in Requirement : lines[i].id # claim[r]
    <3>1. ASSUME NEW x \in UnusedLines
          PROVE  /\ \A p \in Request : x \notin IdsOf(request[p].lines)
                 /\ \A r \in Requirement : x # claim[r]
      BY DEF UnusedLines
    <3> QED
      BY <2>5, <3>1
  <2>7. \A i \in DOMAIN lines : AmongThree(lines[i].needs)
    BY <2>5 DEF FewServed
  <2>8. RequestsOwn'
    BY <2>4, <2>5, <2>6, <2>7, LinesOwned DEF OwnInv
  <2> QED
    BY <2>4, <2>8, OwnEnd
<1>5. CASE ~ Fails(c) /\ Remove(c)
  <2>1. PICK lines \in Seq(RequestLine) : lines = <<>>
    <3>1. <<>> \in Seq(RequestLine)
      OBVIOUS
    <3> QED
      BY <3>1
  <2>2. /\ request' = [request EXCEPT ![q] = [status |-> "NONE", lines |-> lines]]
        /\ claim' = Claimed(request[q].lines, lines)
        /\ Ends(c)
    BY <1>1, <1>5, <2>1 DEF Remove, NoRequest
  <2>3. DOMAIN lines = {}
    BY <2>1
  <2>4. RequestsOwn'
    BY <2>2, <2>3, LinesOwned DEF OwnInv
  <2> QED
    BY <2>2, <2>4, OwnEnd
<1>6. CASE ~ Fails(c) /\ (Mark(c) \/ Convert(c))
  <2>1. PICK status : request' = [request EXCEPT ![q].status = status]
    BY <1>1, <1>6 DEF Mark, Convert
  <2>2. Ends(c) /\ claim' = claim
    BY <1>6 DEF Mark, Convert
  <2>3. \A p \in Request : request'[p].lines = request[p].lines
    BY <1>2, <2>1 DEF RequestRow
  <2> QED
    BY <2>2, <2>3, OwnSame, OwnEnd DEF OwnInv
<1> QED
  BY <1>3, <1>4, <1>5, <1>6

LEMMA OwnOrderStep ==
  ASSUME ProcInv, OwnInv, NEW c \in Connection, OrderStep(c)
  PROVE  Own(c)
<1>1. CASE request' = request /\ claim' = claim /\ tx' = tx
  <2>1. RequestsOwn'
    BY <1>1, OwnSame DEF OwnInv
  <2>2. Does(c, "requests", "convert")' => Readable(tx'[c].lines)
    BY <1>1 DEF OwnInv, Does
  <2> QED
    BY <1>1, <2>1, <2>2, OwnOther
<1>2. ASSUME NEW n \in Order, NEW amount, ReadReceive(c, n, amount) PROVE Own(c)
  <2>1. PICK what : what = [kind |-> "orders", op |-> "receive", on |-> n, amount |-> amount]
    OBVIOUS
  <2>2. what.kind # "requests" /\ Reads(c, what)
    BY <1>2, <2>1 DEF ReadReceive
  <2> QED
    BY <2>2, OwnRead
<1>3. CASE Receive(c)
  <2>1. CASE Fails(c)
    BY <2>1, OwnFail
  <2>2. CASE ~ Fails(c)
    <3>1. PICK what : what.kind = "orders" /\ tx' = [tx EXCEPT ![c] = what] /\ request' = request /\ claim' = claim
      BY <1>3, <2>2 DEF Receive
    <3>2. tx'[c] = what /\ \A d \in Connection : d # c => tx'[d] = tx[d]
      BY <3>1 DEF ProcInv
    <3>3. RequestsOwn'
      BY <3>1, OwnSame DEF OwnInv
    <3>4. ~ Does(c, "requests", "convert")'
      BY <3>1, <3>2 DEF Does
    <3> QED
      BY <3>2, <3>3, <3>4, OwnOther
  <2> QED
    BY <2>1, <2>2
<1>4. CASE CommitReceipt(c)
  <2>1. Ends(c) /\ request' = request /\ claim' = claim
    BY <1>4 DEF CommitReceipt
  <2> QED
    BY <2>1, OwnSame, OwnEnd DEF OwnInv
<1>5. ASSUME NEW lines, PlaceDirectly(c, lines) PROVE Own(c)
  BY <1>1, <1>5 DEF PlaceDirectly
<1>6. ASSUME NEW n \in Order, RemoveOrder(c, n) PROVE Own(c)
  BY <1>1, <1>6 DEF RemoveOrder
<1> QED
  BY <1>2, <1>3, <1>4, <1>5, <1>6 DEF OrderStep

LEMMA OwnScheduleStep ==
  ASSUME ProcInv, OwnInv, NEW c \in Connection, ScheduleStep(c)
  PROVE  Own(c)
<1>1. ASSUME NEW what, what.kind = "schedules", Reads(c, what) PROVE Own(c)
  BY <1>1, OwnRead
<1>2. ASSUME NEW plan, ReadFirst(c, plan) PROVE Own(c)
  BY <1>1, <1>2 DEF ReadFirst
<1>3. ASSUME NEW op, NEW l, NEW v, NEW total, Reads(c, About(op, l, v, total)) PROVE Own(c)
  BY <1>1, <1>3 DEF About
<1>4. ASSUME NEW from, NEW total, ReadGroup(c, from, total) PROVE Own(c)
  <2>1. \E plan : ReadFirst(c, plan)
    BY <1>4 DEF ReadGroup
  <2> QED
    BY <1>2, <2>1
<1>5. CASE \E total \in Totals :
             \/ \E l \in Line : ReadFirst(c, [m \in {l} |-> total])
             \/ \E from \in LineId : ReadGroup(c, from, total)
             \/ \E l \in Line, v \in 1..NumVersions : ReadPropose(c, l, v, total)
  BY <1>2, <1>3, <1>4, <1>5 DEF ReadPropose
<1>6. CASE \E l \in Line, v \in 1..NumVersions :
             ReadConfirm(c, l, v) \/ ReadAccept(c, l, v) \/ ReadReject(c, l, v)
  BY <1>3, <1>6 DEF ReadConfirm, ReadAccept, ReadReject
<1>7. CASE CreateFirst(c) \/ Confirm(c) \/ Propose(c) \/ Accept(c) \/ Reject(c)
  <2>1. Ends(c) /\ request' = request /\ claim' = claim
    BY <1>7 DEF CreateFirst, Confirm, Propose, Accept, Reject, Responds, Fails
  <2> QED
    BY <2>1, OwnSame, OwnEnd DEF OwnInv
<1>8. CASE ReadNumber(c)
  <2>1. CASE Fails(c)
    BY <2>1, OwnFail
  <2>2. CASE ~ Fails(c)
    <3>1. PICK what : /\ what = [tx[c] EXCEPT !.op = "numbered", !.count = Len(Item(tx[c].line).versions)]
                      /\ tx' = [tx EXCEPT ![c] = what]
                      /\ request' = request /\ claim' = claim
      BY <1>8, <2>2 DEF ReadNumber
    <3>2. what.op = "numbered"
      <4>1. tx[c].kind = "schedules" /\ tx[c].op = "propose"
        BY <1>8 DEF ReadNumber, Does
      <4>2. tx[c] \in [kind: {"schedules"}, op: Answers \cup {"propose", "numbered"},
                       line: Order \X (Nat \ {0}), version: Nat, total: Nat, current: Nat, count: Nat]
        BY <4>1, ScheduleTx
      <4> QED
        BY <3>1, <4>2
    <3>3. tx'[c] = what /\ \A d \in Connection : d # c => tx'[d] = tx[d]
      BY <3>1 DEF ProcInv
    <3>4. RequestsOwn'
      BY <3>1, OwnSame DEF OwnInv
    <3>5. ~ Does(c, "requests", "convert")'
      BY <3>2, <3>3 DEF Does
    <3> QED
      BY <3>3, <3>4, <3>5, OwnOther
  <2> QED
    BY <2>1, <2>2
<1> QED
  BY <1>5, <1>6, <1>7, <1>8 DEF ScheduleStep

LEMMA OwnStep ==
  ASSUME FewServed, ProcInv, OwnInv, NEW c \in Connection,
         RequestStep(c) \/ OrderStep(c) \/ ScheduleStep(c) \/ RollBack(c)
  PROVE  Own(c)
<1>1. CASE RequestStep(c)
  BY <1>1, OwnRequestReads, OwnRequestWrites DEF RequestStep
<1>2. CASE RollBack(c)
  BY <1>2, OwnFail DEF RollBack
<1> QED
  BY <1>1, <1>2, OwnOrderStep, OwnScheduleStep

\* Of the steps of a connection that converts, only the conversion places orders.
LEMMA ConvertsOnly ==
  ASSUME NEW c \in Connection, Does(c, "requests", "convert"), order' # order,
         RequestStep(c) \/ OrderStep(c) \/ ScheduleStep(c) \/ RollBack(c)
  PROVE  Convert(c)
<1>1. tx[c].kind = "requests" /\ tx[c].op = "convert" /\ tx[c] # Idle
  BY DEF Does, Idle
<1>2. ~ RollBack(c)
  BY DEF RollBack, Fails
<1>3. ~ OrderStep(c)
  <2>1. ~ (Receive(c) \/ CommitReceipt(c))
    BY <1>1 DEF Receive, CommitReceipt, Does
  <2> QED
    BY <1>1, <2>1 DEF OrderStep, PlaceDirectly, ReadReceive, RemoveOrder, Reads
<1>4. ~ ScheduleStep(c)
  <2>1. ~ (CreateFirst(c) \/ Confirm(c) \/ ReadNumber(c) \/ Propose(c) \/ Accept(c) \/ Reject(c))
    BY <1>1 DEF CreateFirst, Confirm, ReadNumber, Propose, Accept, Reject, Responds, Does
  <2>2. \A plan : ~ ReadFirst(c, plan)
    BY <1>1 DEF ReadFirst, Reads
  <2>3. \A from, total : ~ ReadGroup(c, from, total)
    BY <2>2 DEF ReadGroup
  <2> QED
    BY <1>1, <2>1, <2>2, <2>3 DEF ScheduleStep, ReadPropose, ReadConfirm, ReadAccept, ReadReject, Reads
<1>5. RequestStep(c)
  BY <1>2, <1>3, <1>4
<1>6. ~ (Create(c) \/ SaveItems(c) \/ Mark(c) \/ Remove(c))
  BY <1>1 DEF Create, SaveItems, Mark, Remove, Does
<1> QED
  BY <1>1, <1>5, <1>6 DEF RequestStep, ReadCreate, ReadSave, ReadMark, ReadRemove, ReadConvert, Reads

\* A conversion of request lines of its own orders what each of them asks for.
LEMMA ConvertOrdersAll ==
  ASSUME ProcInv, OwnInv, NEW c \in Connection, Convert(c), order' # order,
         NEW i \in DOMAIN tx[c].lines, tx[c].lines[i].needs # {},
         NEW h, h = [n \in Order |-> NewAmount(n, tx[c].lines[i].id)]
  PROVE  Total(h, NumOrders) = tx[c].lines[i].qty
<1>1. Does(c, "requests", "convert") /\ ~ Fails(c)
  BY DEF Convert, Fails
<1>2. tx[c].kind = "requests" /\ tx[c].op = "convert"
  BY <1>1 DEF Does
<1>3. PICK lines \in Seq(RequestLine) : lines = tx[c].lines
  BY <1>2, RequestTx
<1>4. Readable(lines)
  BY <1>1, <1>3 DEF OwnInv
<1>5. PICK split \in Splits(lines) : Place(OrdersFor(lines, split))
  BY <1>1, <1>3 DEF Convert
<1>6. PICK orders \in Seq(Lists) : orders = OrdersFor(lines, split)
  BY <1>3, <1>5, OrdersForTyped
<1>7. PICK g : g = [j \in 1..Len(orders) |-> Amount(orders[j], lines[i].id)]
  OBVIOUS
<1>8. /\ Distinct(lines) /\ i \in DOMAIN lines /\ lines[i].needs # {}
      /\ AmongThree(lines[i].needs)
  BY <1>3, <1>4 DEF Readable
<1>9. Total(g, Len(orders)) = lines[i].qty
  BY <1>6, <1>7, <1>8, OrdersAmount
<1>10. PICK from : from = lines[i].id
  OBVIOUS
<1>11. Place(orders)
  BY <1>5, <1>6
<1>12. Placed(orders, from, g, h)
  BY <1>3, <1>7, <1>10 DEF Placed
<1>13. Total(h, NumOrders) = Total(g, Len(orders))
  BY <1>11, <1>12, PlacedAmount
<1> QED
  BY <1>3, <1>9, <1>13

\* ConversionsKeepTheQuantity: a conversion orders exactly what its lines ask
\* for, where no line is for more than three customer orders (of more, the
\* rounded shares may exceed it, and the last one is then less than nothing).
THEOREM ConversionsOrderEverything ==
  ASSUME FewServed
  PROVE  Spec => ConversionsKeepTheQuantity
<1>1. Init => OwnInv
  <2> SUFFICES ASSUME Init PROVE OwnInv
    OBVIOUS
  <2>1. \A q \in Request : DOMAIN request[q].lines = {}
    BY DEF Init, NoRequest
  <2>2. \A c \in Connection : tx[c] = Idle
    BY DEF Init
  <2> QED
    BY <2>1, <2>2 DEF OwnInv, RequestsOwn, OwnIds, ClaimsListed, FewBuyers, Does, Idle
<1>2. ProcInv /\ OwnInv /\ [Next]_vars => OwnInv'
  <2>1. ASSUME OwnInv, UNCHANGED vars PROVE OwnInv'
    <3>1. request' = request /\ claim' = claim /\ tx' = tx
      BY <2>1 DEF vars
    <3>2. RequestsOwn'
      BY <2>1, <3>1, OwnSame DEF OwnInv
    <3> QED
      BY <2>1, <3>1, <3>2 DEF OwnInv, Does
  <2>2. ASSUME ProcInv, OwnInv, Next PROVE OwnInv'
    BY <2>2, OwnStep DEF Next, Own
  <2> QED
    BY <2>1, <2>2
<1> DEFINE Converts ==
      \A c \in Connection : Does(c, "requests", "convert") /\ order' # order =>
        \A i \in DOMAIN tx[c].lines : tx[c].lines[i].needs # {} =>
          LET qty(n) == IF order[n].status # "NONE" THEN 0
                        ELSE Total([j \in DOMAIN order'[n].lines |->
                                     IF order'[n].lines[j].from = tx[c].lines[i].id
                                     THEN order'[n].lines[j].qty ELSE 0], Len(order'[n].lines))
          IN  tx'[c] = Idle => Total([n \in Order |-> qty(n)], NumOrders) = tx[c].lines[i].qty
<1>3. ProcInv /\ OwnInv /\ [Next]_vars => [Converts]_vars
  <2> SUFFICES ASSUME ProcInv, OwnInv, Next,
                      NEW c \in Connection, Does(c, "requests", "convert"), order' # order,
                      NEW i \in DOMAIN tx[c].lines, tx[c].lines[i].needs # {}, tx'[c] = Idle
               PROVE  Total([n \in Order |-> NewAmount(n, tx[c].lines[i].id)], NumOrders)
                        = tx[c].lines[i].qty
    BY DEF NewAmount, Amount
  <2>1. PICK d \in Connection : RequestStep(d) \/ OrderStep(d) \/ ScheduleStep(d) \/ RollBack(d)
    BY DEF Next
  <2>2. d = c
    <3>1. tx[c] # Idle
      BY DEF Does, Idle
    <3> QED
      BY <2>1, <3>1, OwnStep DEF Own
  <2>3. Convert(c)
    BY <2>1, <2>2, ConvertsOnly
  <2> QED
    BY <2>3, ConvertOrdersAll
<1>4. ProcInv /\ OwnInv /\ [Next]_vars =>
        [\A c \in Connection : Does(c, "requests", "convert") /\ order' # order =>
           \A i \in DOMAIN tx[c].lines : tx[c].lines[i].needs # {} =>
             LET qty(n) == IF order[n].status # "NONE" THEN 0
                           ELSE Total([j \in DOMAIN order'[n].lines |->
                                        IF order'[n].lines[j].from = tx[c].lines[i].id
                                        THEN order'[n].lines[j].qty ELSE 0], Len(order'[n].lines))
             IN  tx'[c] = Idle => Total([n \in Order |-> qty(n)], NumOrders) = tx[c].lines[i].qty]_vars
  BY <1>3
<1> HIDE DEF Converts
<1> QED
  BY <1>1, <1>2, <1>4, ProcInvariant, PTL DEF Spec, ConversionsKeepTheQuantity
=============================================================================
