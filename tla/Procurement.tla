---------------------------- MODULE Procurement ----------------------------
(***************************************************************************)
(* Buying material: purchase requests that claim requirements of customer  *)
(* orders, their conversion into purchase orders, the receipt of those,    *)
(* and the delivery schedules a supplier and the staff negotiate for a     *)
(* line of an order.                                                       *)
(*                                                                         *)
(* Quantities are thousandths, the scale of the columns.  Products,        *)
(* suppliers, prices and dates are left out: a requirement stands for a    *)
(* product of a customer order, and a schedule for the quantity it plans.  *)
(* A request to the server reads in one step and writes in a later one;    *)
(* what a connection read may have changed by then.  A receipt commits in  *)
(* a third step, since the other receipts do not see what it adds before.  *)
(***************************************************************************)
EXTENDS Sums, Sequences, FiniteSets

CONSTANTS Connection,
          Racing,        \* the kinds of requests that overlap; the others run alone
          Request,
          Requirement,
          NumCustomers,  \* customer orders, the latest deadline first
          For, Need,     \* a requirement's customer order and requiredQty
          Forms,         \* the lists of lines a user may submit
          Direct,        \* lines of the orders placed without a request
          Totals,        \* what a schedule may plan
          Receipts,      \* what may be received of a line at once
          NumOrders, NumLines, NumVersions,  \* bounds: orders and request lines at a time, versions
          MaxReceived,                        \* bound: received of a line
          None

Customer == 1..NumCustomers
Buyer == 0..NumCustomers
Order == 1..NumOrders     \* PurchaseOrder.id
LineId == 1..NumLines     \* PurchaseRequestItem.id
Kind == {"requests", "orders", "schedules"}

\* stocked: the line is of a product or an assembly of the catalogue, and not
\* of an article that is only named.
Form == Seq([qty: Nat \ {0}, needs: SUBSET Requirement, stocked: BOOLEAN])

ASSUME ProcurementAssumption ==
  /\ Racing \subseteq Kind
  /\ NumCustomers \in Nat /\ NumOrders \in Nat /\ NumLines \in Nat /\ NumVersions \in Nat
  /\ MaxReceived \in Nat
  /\ For \in [Requirement -> Customer] /\ Need \in [Requirement -> Nat \ {0}]
  /\ Forms \subseteq Form \ {<<>>}
  \* a line is for one product, and an order has one requirement for it
  /\ \A form \in Forms : \A i \in DOMAIN form :
       \A r, s \in form[i].needs : For[r] = For[s] => r = s
  /\ Direct \subseteq Seq([qty: Nat \ {0}, need: Requirement \cup {None}, stocked: BOOLEAN]) \ {<<>>}
  /\ Totals \subseteq Nat \ {0} /\ Receipts \subseteq Nat \ {0}
  /\ None \notin Requirement /\ None \notin LineId

VARIABLES request,  \* purchase requests with their lines; needs: what a line was made for
          claim,    \* OrderMaterialRequirement.fulfillingPurchaseRequestItemId
          order,    \* purchase orders with their lines and the lines' schedules
          posted,   \* stock movements and finished goods that name an order
          tx        \* what each connection is in the middle of

vars == <<request, claim, order, posted, tx>>

Idle == [kind |-> "none"]
NoRequest == [status |-> "NONE", lines |-> <<>>]
NoOrder == [status |-> "NONE", lines |-> <<>>]

Init ==
  /\ request = [q \in Request |-> NoRequest]
  /\ claim = [r \in Requirement |-> None]
  /\ order = [n \in Order |-> NoOrder]
  /\ posted = [n \in Order |-> 0]
  /\ tx = [c \in Connection |-> Idle]

(***************************************************************************)
(* Reading and writing.                                                    *)
(***************************************************************************)
Reads(c, what) ==
  /\ tx[c] = Idle
  /\ \A d \in Connection : tx[d] # Idle => {tx[d].kind, what.kind} \subseteq Racing
  /\ tx' = [tx EXCEPT ![c] = what]
  /\ UNCHANGED <<request, claim, order, posted>>

\* The order lines a request about schedules is about.
LinesOf(t) == IF t.op = "first" THEN DOMAIN t.plan ELSE {t.line}

Does(c, kind, op) == tx[c].kind = kind /\ tx[c].op = op

Ends(c) == tx' = [tx EXCEPT ![c] = Idle]

\* A row the request updates is gone, or a constraint refuses it.
Fails(c) == Ends(c) /\ UNCHANGED <<request, claim, order, posted>>

\* The transaction is rolled back: it took too long, or the connection is lost.
RollBack(c) == tx[c] # Idle /\ Fails(c)

(***************************************************************************)
(* Purchase requests.                                                      *)
(***************************************************************************)
IdsOf(lines) == {lines[i].id : i \in DOMAIN lines}
Editable(q) == request[q].status \in {"DRAFT", "SENT"}

\* claimRequirements: taken by a line of a request that is not cancelled.
TakenElsewhere(q, r) ==
  \E p \in Request \ {q} : request[p].status # "CANCELLED" /\ claim[r] \in IdsOf(request[p].lines)

\* Mutant of Claimable: a requirement is free unless the request is still a draft.
ClaimableOnceSent(q, form) ==
  /\ \A i, j \in DOMAIN form : i # j => form[i].needs \cap form[j].needs = {}
  /\ \A i \in DOMAIN form : \A r \in form[i].needs :
       ~\E p \in Request \ {q} : request[p].status = "DRAFT" /\ claim[r] \in IdsOf(request[p].lines)

Claimable(q, form) ==
  /\ \A i, j \in DOMAIN form : i # j => form[i].needs \cap form[j].needs = {}
  /\ \A i \in DOMAIN form : \A r \in form[i].needs : ~TakenElsewhere(q, r)

ReadCreate(c, q, form) ==
  /\ request[q].status = "NONE"
  /\ \A d \in Connection : Does(d, "requests", "create") => tx[d].on # q
  /\ Claimable(q, form)
  /\ Reads(c, [kind |-> "requests", op |-> "create", on |-> q, form |-> form])

ReadSave(c, q, form) ==
  /\ Editable(q)
  /\ Claimable(q, form)
  /\ Reads(c, [kind |-> "requests", op |-> "save", on |-> q, form |-> form])

\* The first n ids of a set.
Firsts(set, n) ==
  CHOOSE f \in [1..n -> set] :
    /\ \A i, j \in 1..n : i < j => f[i] < f[j]
    /\ \A x \in set : (\E i \in 1..n : f[i] = x) \/ \A i \in 1..n : f[i] < x

\* The entries of a sequence at the places kept.
Only(seq, kept) ==
  LET place == Firsts(kept, Cardinality(kept))
  IN  [j \in 1..Cardinality(kept) |-> seq[place[j]]]

\* Ids of request lines that nothing refers to.
UnusedLines ==
  LineId \ ((UNION {IdsOf(request[q].lines) : q \in Request})
            \cup {claim[r] : r \in Requirement}
            \cup (UNION {{order[n].lines[i].from : i \in DOMAIN order[n].lines} : n \in Order})
            \cup (UNION {IdsOf(tx[c].lines) : c \in {d \in Connection : Does(d, "requests", "convert")}}))

\* createItems: the lines of form with new ids ...
NewLines(form, id) ==
  [i \in DOMAIN form |-> [id |-> id[i], qty |-> form[i].qty, needs |-> form[i].needs,
                          stocked |-> form[i].stocked]]

\* ... the claims once lines has replaced the lines old ...
Claimed(old, lines) ==
  [r \in Requirement |->
    LET mine == {i \in DOMAIN lines : r \in lines[i].needs}
    IN  CASE mine # {} -> lines[CHOOSE i \in mine : TRUE].id
          [] mine = {} /\ claim[r] \in IdsOf(old) -> None
          [] OTHER -> claim[r]]

\* ... and the orders, whose lines forget the request lines old.
Forgotten(old) ==
  [n \in Order |->
    [order[n] EXCEPT !.lines =
      [i \in DOMAIN order[n].lines |->
        IF order[n].lines[i].from \in IdsOf(old)
        THEN [order[n].lines[i] EXCEPT !.from = None] ELSE order[n].lines[i]]]]

PutLines(c, q, status) ==
  LET form == tx[c].form
      lines == NewLines(form, Firsts(UnusedLines, Len(form)))
  IN  /\ Cardinality(UnusedLines) >= Len(form)
      /\ request' = [request EXCEPT ![q] = [status |-> status, lines |-> lines]]
      /\ claim' = Claimed(request[q].lines, lines)
      /\ order' = Forgotten(request[q].lines)
      /\ Ends(c)
      /\ UNCHANGED posted

Create(c) ==
  /\ Does(c, "requests", "create")
  /\ PutLines(c, tx[c].on, "DRAFT")

\* saveItems puts the items, and leaves the status as it finds it.
SaveItems(c) ==
  /\ Does(c, "requests", "save")
  /\ IF request[tx[c].on].status = "NONE"
     THEN Fails(c) ELSE PutLines(c, tx[c].on, request[tx[c].on].status)

\* send and cancel, and the removal of a draft.
ReadMark(c, q, status) ==
  /\ Editable(q)
  /\ status \in {"SENT", "CANCELLED"}
  /\ Reads(c, [kind |-> "requests", op |-> "mark", on |-> q, status |-> status])

Mark(c) ==
  /\ Does(c, "requests", "mark")
  /\ IF request[tx[c].on].status = "NONE"
     THEN Fails(c)
     ELSE /\ request' = [request EXCEPT ![tx[c].on].status = tx[c].status]
          /\ Ends(c)
          /\ UNCHANGED <<claim, order, posted>>

ReadRemove(c, q) ==
  /\ request[q].status = "DRAFT"
  /\ Reads(c, [kind |-> "requests", op |-> "remove", on |-> q])

Remove(c) ==
  /\ Does(c, "requests", "remove")
  /\ LET q == tx[c].on IN
     IF request[q].status = "NONE"
     THEN Fails(c)
     ELSE /\ request' = [request EXCEPT ![q] = NoRequest]
          /\ claim' = Claimed(request[q].lines, <<>>)
          /\ order' = Forgotten(request[q].lines)
          /\ Ends(c)
          /\ UNCHANGED posted

(***************************************************************************)
(* Conversion into purchase orders, one per customer order.                *)
(***************************************************************************)
\* The share of customer order k by weight, rounded to a thousandth.
RoundedShares(qty, weight, k) == Nearest(qty * weight[k], Total(weight, NumCustomers))

\* Mutant of Shares: every share is rounded, the last one too.
SharesAllRounded(qty, weight) ==
  IF \A k \in Customer : weight[k] = 0
  THEN {[k \in Buyer |-> IF k = 0 THEN qty ELSE 0]}
  ELSE {f \in [Buyer -> 0..qty] :
          f[0] = 0 /\ \A k \in Customer : f[k] \in RoundedShares(qty, weight, k)}

\* What each customer order gets of a quantity: its share, and the last one
\* that has a weight what is left.  If none has, buyer 0, who is
\* no customer order, gets it all.
Shares(qty, weight) ==
  LET weighs == {k \in Customer : weight[k] > 0}
      last == CHOOSE k \in weighs : \A l \in weighs : l <= k
      rounded == {f \in [Customer -> 0..qty] : \A k \in Customer :
                    f[k] \in IF k = last THEN {0} ELSE RoundedShares(qty, weight, k)}
  IN  IF weighs = {}
      THEN {[k \in Buyer |-> IF k = 0 THEN qty ELSE 0]}
      ELSE {[k \in Buyer |-> CASE k = 0 -> 0
                               [] k = last -> qty - Total(f, NumCustomers)
                               [] OTHER -> f[k]] : f \in rounded}

\* The requirement of buyer k among needs, and what it weighs.
NeedOf(needs, k) ==
  LET of == {r \in needs : For[r] = k} IN IF of = {} THEN None ELSE CHOOSE r \in of : TRUE
WeightOf(needs) ==
  [k \in Customer |-> IF NeedOf(needs, k) = None THEN 0 ELSE Need[NeedOf(needs, k)]]

\* The ways to share out the lines of a request.
Splits(lines) ==
  LET of(i) == Shares(lines[i].qty, WeightOf(lines[i].needs))
  IN  {f \in [DOMAIN lines -> UNION {of(i) : i \in DOMAIN lines}] : \A i \in DOMAIN lines : f[i] \in of(i)}

NewLine(qty, need, from, stocked) ==
  [qty |-> qty, need |-> need, from |-> from, stocked |-> stocked,
   received |-> 0, current |-> 0, versions |-> <<>>]

\* The order lines for buyer k.
LinesFor(k, lines, split) ==
  Only([i \in DOMAIN lines |->
         NewLine(split[i][k], NeedOf(lines[i].needs, k),
                 IF lines[i].needs = {} THEN None ELSE lines[i].id, lines[i].stocked)],
       {i \in DOMAIN lines : split[i][k] > 0})

\* The orders for all buyers who get something.
OrdersFor(lines, split) ==
  LET all == [k \in 1..(NumCustomers + 1) |-> LinesFor(k - 1, lines, split)]
  IN  Only(all, {k \in 1..(NumCustomers + 1) : all[k] # <<>>})

\* Ids of orders that nothing refers to.
UnusedOrders ==
  {n \in Order : /\ order[n].status = "NONE"
                 /\ \A d \in Connection :
                      /\ tx[d].kind = "orders" => tx[d].on # n
                      /\ tx[d].kind = "schedules" => n \notin {l[1] : l \in LinesOf(tx[d])}}

\* New orders, with nothing received yet.
Place(orders) ==
  LET id == Firsts(UnusedOrders, Len(orders))
      placed(n) == {k \in DOMAIN orders : id[k] = n}
  IN  /\ Cardinality(UnusedOrders) >= Len(orders)
      /\ order' = [n \in Order |-> IF placed(n) = {} THEN order[n]
                     ELSE [status |-> "ORDERED", lines |-> orders[CHOOSE k \in placed(n) : TRUE]]]
      /\ posted' = [n \in Order |-> IF placed(n) = {} THEN posted[n] ELSE 0]

\* Staff, and createPurchaseOrdersFromGroups, order without a request.
PlaceDirectly(c, lines) ==
  /\ tx[c] = Idle
  /\ Place(<<[i \in DOMAIN lines |-> NewLine(lines[i].qty, lines[i].need, None, lines[i].stocked)]>>)
  /\ UNCHANGED <<request, claim, tx>>

\* The lines, and the requirements that are stamped with them.
ReadConvert(c, q) ==
  /\ Editable(q)
  /\ Reads(c, [kind |-> "requests", op |-> "convert", on |-> q,
               lines |-> [i \in DOMAIN request[q].lines |->
                 [request[q].lines[i] EXCEPT
                    !.needs = {r \in Requirement : claim[r] = request[q].lines[i].id}]]])

\* The lines a new order line refers to must exist when it is written.
Convert(c) ==
  /\ Does(c, "requests", "convert")
  /\ LET q == tx[c].on
         lines == tx[c].lines
         stale == {i \in DOMAIN lines : lines[i].needs # {}
                                          /\ lines[i].id \notin IdsOf(request[q].lines)}
     IN  IF request[q].status = "NONE" \/ stale # {}
         THEN Fails(c)
         ELSE /\ \E split \in Splits(lines) : Place(OrdersFor(lines, split))
              /\ request' = [request EXCEPT ![q].status = "CONVERTED"]
              /\ Ends(c)
              /\ UNCHANGED claim

(***************************************************************************)
(* Receipt.  Lines of an order are of different products, so receipts of   *)
(* different lines wait for each other only where they write the order.    *)
(***************************************************************************)
Full(line) == line.received >= line.qty

\* Mutant of StatusOf: one complete line is enough.
StatusOfAnyLine(lines) ==
  IF \E i \in DOMAIN lines : Full(lines[i]) THEN "DELIVERED"
  ELSE IF \E i \in DOMAIN lines : lines[i].received > 0 THEN "PARTIAL"
  ELSE "ORDERED"

\* The status receive computes from the lines as its transaction sees them.
StatusOf(lines) ==
  IF \A i \in DOMAIN lines : Full(lines[i]) THEN "DELIVERED"
  ELSE IF \E i \in DOMAIN lines : lines[i].received > 0 THEN "PARTIAL"
  ELSE "ORDERED"

\* Mutant of Plus: what was received now replaces what was received before.
PlusOverwrites(lines, amount) ==
  [i \in DOMAIN lines |-> IF amount[i] = 0 THEN lines[i] ELSE [lines[i] EXCEPT !.received = amount[i]]]

Plus(lines, amount) ==
  [i \in DOMAIN lines |-> [lines[i] EXCEPT !.received = @ + amount[i]]]

ReadReceive(c, n, amount) ==
  /\ order[n].status \in {"ORDERED", "PARTIAL"}
  /\ DOMAIN amount = DOMAIN order[n].lines
  /\ \E i \in DOMAIN amount : amount[i] > 0
  /\ \A i \in DOMAIN amount : order[n].lines[i].received + amount[i] <= MaxReceived
  /\ Reads(c, [kind |-> "orders", op |-> "receive", on |-> n, amount |-> amount])

\* Adds to the lines, which no other open transaction may have added to, and
\* computes the status from its own view.
Receive(c) ==
  /\ Does(c, "orders", "receive")
  /\ LET n == tx[c].on
         amount == tx[c].amount
     IN  IF order[n].status = "NONE"
         THEN Fails(c)
         ELSE /\ \A d \in Connection : Does(d, "orders", "received") /\ tx[d].on = n =>
                   \A i \in DOMAIN amount : amount[i] = 0 \/ tx[d].amount[i] = 0
              /\ tx' = [tx EXCEPT ![c] =
                   [kind |-> "orders", op |-> "received", on |-> n, amount |-> amount,
                    status |-> StatusOf(Plus(order[n].lines, amount))]]
              /\ UNCHANGED <<request, claim, order, posted>>

\* What of an amount per line goes into the stock: a line of a product posts a
\* movement, one of an assembly finished goods, any other nothing.
Stocked(lines, amount) == [i \in DOMAIN lines |-> IF lines[i].stocked THEN amount[i] ELSE 0]

\* The lines, the stock and the status become visible together.
CommitReceipt(c) ==
  /\ Does(c, "orders", "received")
  /\ LET n == tx[c].on IN
     /\ order' = [order EXCEPT ![n] = [status |-> tx[c].status, lines |-> Plus(@.lines, tx[c].amount)]]
     /\ posted' = [posted EXCEPT ![n] = @ + Total(Stocked(order[n].lines, tx[c].amount), Len(order[n].lines))]
  /\ Ends(c)
  /\ UNCHANGED <<request, claim>>

\* Mutant of RemoveOrder: the lines stay behind.
RemoveOrderOnly(c, n) ==
  /\ tx[c] = Idle
  /\ order[n].status # "NONE"
  /\ \A d \in Connection : Does(d, "orders", "received") => tx[d].on # n
  /\ order' = [order EXCEPT ![n].status = "NONE"]
  /\ UNCHANGED <<request, claim, posted, tx>>

\* An order without finance documents; waits for the receipts on its rows.
RemoveOrder(c, n) ==
  /\ tx[c] = Idle
  /\ order[n].status # "NONE"
  /\ \A d \in Connection : Does(d, "orders", "received") => tx[d].on # n
  /\ order' = [order EXCEPT ![n] = NoOrder]
  /\ UNCHANGED <<request, claim, posted, tx>>

(***************************************************************************)
(* Delivery schedules.                                                     *)
(***************************************************************************)
Line == UNION {{n} \X DOMAIN order[n].lines : n \in Order}
Item(l) == order[l[1]].lines[l[2]]

\* A request about version v of line l; how many there are is not counted yet.
About(op, l, v, total) ==
  [kind |-> "schedules", op |-> op, line |-> l, version |-> v, total |-> total,
   current |-> Item(l).current, count |-> 0]
HasStatus(l, v, status) == v \in DOMAIN Item(l).versions /\ Item(l).versions[v].status = status

\* plan says how much of which line its first schedule plans.
ReadFirst(c, plan) ==
  /\ DOMAIN plan # {}
  /\ \A l \in DOMAIN plan : Item(l).current = 0 /\ plan[l] <= Item(l).qty
  /\ Reads(c, [kind |-> "schedules", op |-> "first", plan |-> plan])

\* One schedule for the lines that came from one request line, shared out by
\* quantity.  (Each is for another customer order, unless two conversions of
\* the request overlapped; grouping those is left out.)
Siblings(from) == {l \in Line : Item(l).from = from}

ReadGroup(c, from, total) ==
  /\ from # None
  /\ \A l, m \in Siblings(from) : For[Item(l).need] = For[Item(m).need] => l = m
  /\ LET of(k) == {l \in Siblings(from) : For[Item(l).need] = k}
         weight == [k \in Customer |-> IF of(k) = {} THEN 0 ELSE Item(CHOOSE l \in of(k) : TRUE).qty]
     IN  \E share \in Shares(total, weight) :
           LET planned == {l \in Siblings(from) : share[For[Item(l).need]] > 0}
           IN  ReadFirst(c, [l \in planned |-> share[For[Item(l).need]]])

CreateFirst(c) ==
  /\ Does(c, "schedules", "first")
  /\ LET plan == tx[c].plan IN
     IF \E l \in DOMAIN plan : IF l \in Line THEN Item(l).versions # <<>> ELSE TRUE
     THEN Fails(c)
     ELSE /\ order' = [n \in Order |-> [order[n] EXCEPT !.lines =
               [i \in DOMAIN order[n].lines |->
                 IF <<n, i>> \in DOMAIN plan
                 THEN [order[n].lines[i] EXCEPT !.current = 1,
                         !.versions = <<[status |-> "PENDING", total |-> plan[<<n, i>>]]>>]
                 ELSE order[n].lines[i]]]]
          /\ Ends(c)
          /\ UNCHANGED <<request, claim, posted>>

\* The supplier confirms version v as it is.
ReadConfirm(c, l, v) == HasStatus(l, v, "PENDING") /\ Reads(c, About("confirm", l, v, 0))

\* Mutant of ReadPropose: the totals are not compared.
ReadProposeAnyTotal(c, l, v, total) ==
  /\ HasStatus(l, v, "PENDING")
  /\ ~\E w \in DOMAIN Item(l).versions : HasStatus(l, w, "PROPOSED")
  /\ Reads(c, About("propose", l, v, total))

\* The supplier proposes another split of the quantity: there is no open
\* proposal yet ...
ReadPropose(c, l, v, total) ==
  /\ HasStatus(l, v, "PENDING")
  /\ ~\E w \in DOMAIN Item(l).versions : HasStatus(l, w, "PROPOSED")
  /\ total = Item(l).versions[v].total
  /\ Reads(c, About("propose", l, v, total))

\* ... and its number follows the latest, which is read on its own.
ReadNumber(c) ==
  /\ Does(c, "schedules", "propose")
  /\ LET l == tx[c].line IN
     IF l \in Line
     THEN /\ Len(Item(l).versions) < NumVersions
          /\ tx' = [tx EXCEPT ![c] = [@ EXCEPT !.op = "numbered", !.count = Len(Item(l).versions)]]
          /\ UNCHANGED <<request, claim, order, posted>>
     ELSE Fails(c)

\* The staff decide about a proposal.
ReadAccept(c, l, v) == HasStatus(l, v, "PROPOSED") /\ Reads(c, About("accept", l, v, 0))
ReadReject(c, l, v) == HasStatus(l, v, "PROPOSED") /\ Reads(c, About("reject", l, v, 0))

Marked(item, v, status) == [item EXCEPT !.versions[v].status = status]

\* What becomes of the line's item, if the row updates find it.
Responds(c, op, After(_)) ==
  /\ Does(c, "schedules", op)
  /\ LET l == tx[c].line IN
     IF l \in Line
     THEN /\ order' = [order EXCEPT ![l[1]].lines[l[2]] = After(@)]
          /\ Ends(c)
          /\ UNCHANGED <<request, claim, posted>>
     ELSE Fails(c)

Confirm(c) == Responds(c, "confirm", LAMBDA item : Marked(item, tx[c].version, "CONFIRMED"))
Reject(c) == Responds(c, "reject", LAMBDA item : Marked(item, tx[c].version, "REJECTED"))

\* A version number is taken once, and one proposal of a line is open.
Propose(c) ==
  Responds(c, "numbered", LAMBDA item :
    IF Len(item.versions) # tx[c].count \/ \E w \in DOMAIN item.versions : item.versions[w].status = "PROPOSED"
    THEN item ELSE [item EXCEPT !.versions = Append(@, [status |-> "PROPOSED", total |-> tx[c].total])])

\* Mutant of Accepted: the pointer moves wherever it is.
AcceptedAnyway(item, current, v) ==
  [Marked(Marked(item, current, "SUPERSEDED"), v, "CONFIRMED") EXCEPT !.current = v]

\* The pointer moves if it is where it was read.
Accepted(item, current, v) ==
  IF item.current # current THEN item
  ELSE [Marked(Marked(item, current, "SUPERSEDED"), v, "CONFIRMED") EXCEPT !.current = v]

Accept(c) == Responds(c, "accept", LAMBDA item : Accepted(item, tx[c].current, tx[c].version))

-----------------------------------------------------------------------------
RequestStep(c) ==
  \/ \E q \in Request :
       \/ \E form \in Forms : ReadCreate(c, q, form) \/ ReadSave(c, q, form)
       \/ \E status \in {"SENT", "CANCELLED"} : ReadMark(c, q, status)
       \/ ReadRemove(c, q)
       \/ ReadConvert(c, q)
  \/ Create(c) \/ SaveItems(c) \/ Mark(c) \/ Remove(c) \/ Convert(c)

OrderStep(c) ==
  \/ \E lines \in Direct : PlaceDirectly(c, lines)
  \/ \E n \in Order :
       \/ \E amount \in [DOMAIN order[n].lines -> Receipts \cup {0}] : ReadReceive(c, n, amount)
       \/ RemoveOrder(c, n)
  \/ Receive(c) \/ CommitReceipt(c)

ScheduleStep(c) ==
  \/ \E total \in Totals :
       \/ \E l \in Line : ReadFirst(c, [m \in {l} |-> total])
       \/ \E from \in LineId : ReadGroup(c, from, total)
       \/ \E l \in Line, v \in 1..NumVersions : ReadPropose(c, l, v, total)
  \/ \E l \in Line, v \in 1..NumVersions :
       ReadConfirm(c, l, v) \/ ReadAccept(c, l, v) \/ ReadReject(c, l, v)
  \/ CreateFirst(c) \/ Confirm(c) \/ ReadNumber(c) \/ Propose(c) \/ Accept(c) \/ Reject(c)

Next == \E c \in Connection : RequestStep(c) \/ OrderStep(c) \/ ScheduleStep(c) \/ RollBack(c)

Spec == Init /\ [][Next]_vars

-----------------------------------------------------------------------------
\* Types: the requests, the stamps, the orders with their lines' schedules,
\* and the numbers given.
ProcurementTypeOK ==
  /\ request \in [Request -> [status: {"NONE", "DRAFT", "SENT", "CONVERTED", "CANCELLED"},
                             lines: Seq([id: LineId, qty: Nat \ {0}, needs: SUBSET Requirement,
                                         stocked: BOOLEAN])]]
  /\ claim \in [Requirement -> LineId \cup {None}]
  /\ order \in [Order -> [status: {"NONE", "ORDERED", "PARTIAL", "DELIVERED"},
       lines: Seq([qty: Nat \ {0}, need: Requirement \cup {None}, from: LineId \cup {None},
                   stocked: BOOLEAN, received: Nat, current: Nat,
                   versions: Seq([status: {"PENDING", "PROPOSED", "CONFIRMED", "REJECTED", "SUPERSEDED"},
                                  total: Nat \ {0}])])]]
  /\ \A n \in Order : \A i \in DOMAIN order[n].lines :
       order[n].lines[i].current \in {0} \cup DOMAIN order[n].lines[i].versions
  /\ \A n \in Order : order[n].status = "NONE" <=> order[n].lines = <<>>
  /\ posted \in [Order -> Nat]

\* claimRequirements: a requirement is in at most one line of the requests
\* that are not cancelled, and is stamped with that line.
RequirementsBoughtOnce ==
  \A q \in Request : request[q].status # "CANCELLED" =>
    \A i \in DOMAIN request[q].lines : \A r \in request[q].lines[i].needs :
      claim[r] = request[q].lines[i].id

ReceivedOf(lines) == [i \in DOMAIN lines |-> lines[i].received]

\* receive: what the lines of products and assemblies have received went into
\* the stock, and nothing else did, however receipts of the order overlap.
\* Lines of articles that are only named count what they receive, and an
\* order is DELIVERED by them too, but none of it is posted.
ReceiptsReachTheStock ==
  \A n \in Order : order[n].status # "NONE" =>
    posted[n] = Total(Stocked(order[n].lines, ReceivedOf(order[n].lines)), Len(order[n].lines))

\* receive: an order is DELIVERED, and takes no more receipts, only when every
\* line has all it ordered.
DeliveredOrdersAreComplete ==
  \A n \in Order : order[n].status = "DELIVERED" =>
    \A i \in DOMAIN order[n].lines : Full(order[n].lines[i])

\* propose: quantity cannot be silently gained or lost; every version of a
\* line's schedule plans what its first one did, and no more than is ordered.
VersionsKeepTheQuantity ==
  \A l \in Line : \A v \in DOMAIN Item(l).versions :
    Item(l).versions[v].total = Item(l).versions[1].total /\ Item(l).versions[v].total <= Item(l).qty

\* DeliverySchedule (schema.prisma): the operative version of a line is
\* PENDING or CONFIRMED, and no other version is.
OneVersionInForce ==
  \A l \in Line : \A v \in DOMAIN Item(l).versions :
    v = Item(l).current <=> Item(l).versions[v].status \in {"PENDING", "CONFIRMED"}

\* accept: whatever answers the proposals at the same time, the schedule in
\* force is replaced by a later one only, which is CONFIRMED when it takes over,
\* while the one it replaces is SUPERSEDED.  (A rejection that was read before
\* may still mark the new one afterwards: see OneVersionInForce.)
VersionsMoveForward ==
  [][\A l \in Line : order'[l[1]].status # "NONE" =>
       LET after == order'[l[1]].lines[l[2]]
       IN  after.current # Item(l).current =>
             /\ after.current > Item(l).current
             /\ Item(l).current # 0 => after.versions[after.current].status = "CONFIRMED"
             /\ Item(l).current # 0 => after.versions[Item(l).current].status = "SUPERSEDED"]_vars

\* convertToOrder: the new orders' lines of a request line add up to what it
\* asked for.
ConversionsKeepTheQuantity ==
  [][\A c \in Connection : Does(c, "requests", "convert") /\ order' # order =>
       \A i \in DOMAIN tx[c].lines : tx[c].lines[i].needs # {} =>
         LET qty(n) == IF order[n].status # "NONE" THEN 0
                       ELSE Total([j \in DOMAIN order'[n].lines |->
                                    IF order'[n].lines[j].from = tx[c].lines[i].id
                                    THEN order'[n].lines[j].qty ELSE 0], Len(order'[n].lines))
         IN  tx'[c] = Idle => Total([n \in Order |-> qty(n)], NumOrders) = tx[c].lines[i].qty]_vars
=============================================================================
