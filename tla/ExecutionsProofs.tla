-------------------------- MODULE ExecutionsProofs --------------------------
(***************************************************************************)
(* Theorems about Executions.  However many confirmations overlap, every   *)
(* variable keeps its type, the ledger pays for what is confirmed and for  *)
(* nothing else, and a closed period gets no further entry.  As long as no *)
(* two confirmations overlap, what is confirmed stays within the plan and  *)
(* the fund, and every whole unit an execution confirms is stamped.        *)
(***************************************************************************)
EXTENDS Executions, SumTheorems, FiniteSetTheorems

-----------------------------------------------------------------------------
(* The inductive invariant, a part that holds however confirmations        *)
(* overlap.                                                                *)

\* A row that stands for nobody's work.
Blank(x) == x.job = None /\ x.crew = <<>> /\ x.share = <<>> /\ x.amount = 0 /\ x.replaces = 0

\* A row of production_executions with its allocations.
RowOK(x) ==
  /\ x \in ExecutionType
  /\ x.status \in {"NONE", "DELETED"} => Blank(x)
  /\ x.status \in {"DRAFT", "CONFIRMED", "VOIDED"} => x.job \in Job /\ x.crew \in Crews
  /\ Len(x.share) = Len(x.crew)
  /\ Total(x.share, Len(x.share)) = x.amount
  /\ x.status # "CONFIRMED" => x.stamped = 0

\* The entry of a place in the crew of x, and what takes it back.
EntryOf(x, i) == Entry(x.share[i], IF x.job \in Batch THEN x.qty * x.share[i] ELSE 0, x.day)
TakenBack(entries) ==
  /\ Len(entries) = 2
  /\ entries[2].amount = - entries[1].amount
  /\ entries[2].units = - entries[1].units

\* What w has in the ledger l for the row x.
PaidFor(x, w, l) ==
  /\ x.status \in {"NONE", "DRAFT"} => l = <<>>
  /\ x.status = "CONFIRMED" =>
       \/ l = <<>> /\ \A i \in DOMAIN x.crew : x.crew[i].who # w
       \/ \E i \in DOMAIN x.crew : x.crew[i].who = w /\ l = <<EntryOf(x, i)>>
  /\ x.status \in {"VOIDED", "DELETED"} => l = <<>> \/ TakenBack(l)

\* A job with drafts or confirmed executions is under way.
UnderWay(j) == status[j] \in (IF j \in Batch THEN {"IN_PROGRESS", "COMPLETED"} ELSE {"OPEN", "CLOSED"})

Rows == \A e \in Execution : RowOK(execution[e])
Paid == \A e \in Execution, w \in Employee : PaidFor(execution[e], w, ledger[e][w])
Replaced == \A e \in Execution :
  execution[e].replaces # 0 => execution[execution[e].replaces].status \in {"VOIDED", "DELETED"}
JobsUnderWay == \A e \in Execution :
  execution[e].status \in {"DRAFT", "CONFIRMED"} => UnderWay(execution[e].job)
UnitsSuffice == \A b \in Batch : Stamps(b) <= Units[b]

\* The confirmation a connection is in the middle of fits its execution, which
\* may have been confirmed by another one meanwhile.
PendingOK(c) ==
  \/ pending[c] = Idle
  \/ LET e == pending[c].of
         share == pending[c].share
     IN  /\ e \in Execution
         /\ execution[e].status \in {"DRAFT", "CONFIRMED"}
         /\ Len(share) = Len(execution[e].crew)
         /\ Total(share, Len(share)) = pending[c].amount
         /\ Open(execution[e].day)

LedgerInv ==
  /\ ExecutionsTypeOK
  /\ Rows /\ Paid /\ Replaced /\ JobsUnderWay /\ UnitsSuffice
  /\ \A c \in Connection : PendingOK(c)

-----------------------------------------------------------------------------
(* The part that needs confirmations one at a time. *)

\* No two confirmations overlap.
OneConfirms == \A c, d \in Connection : pending[c] # Idle /\ pending[d] # Idle => c = d

\* What was read of the fund and the plan still holds.
PendingFits(c) ==
  pending[c] # Idle =>
    LET x == execution[pending[c].of]
    IN  /\ x.status = "DRAFT"
        /\ Takes(x.job)
        /\ Fits(execution, x.job, x.qty, pending[c].amount)

PlanInv ==
  /\ ConfirmedWithinPlan
  /\ StampsMatch
  /\ \A c \in Connection : PendingFits(c)

-----------------------------------------------------------------------------
(* Amounts. *)

(***************************************************************************)
(* Rounding a quotient of naturals gives a natural.                        *)
(***************************************************************************)
LEMMA NearestNat ==
  ASSUME NEW n \in Nat, NEW d \in Nat \ {0}
  PROVE  Nearest(n, d) \subseteq Nat
<1>1. PICK q \in Int : q = n \div d
  OBVIOUS
<1>2. q \in Nat
  <2>1. n = d * q + (n % d) /\ n % d \in 0..(d - 1)
    BY <1>1
  <2>2. ASSUME q < 0 PROVE FALSE
    <3>1. PICK p \in Nat : q = - p - 1
      <4>1. - q - 1 \in Nat /\ q = - (- q - 1) - 1
        BY <2>2
      <4> QED
        BY <4>1
    <3>2. d * q = - (d * p) - d /\ d * p \in Nat
      BY <3>1
    <3> QED
      BY <2>1, <3>2
  <2> QED
    BY <2>2
<1> QED
  BY <1>1, <1>2 DEF Nearest

LEMMA WorthNat ==
  ASSUME fund \in [Job -> Nat], NEW j \in Job, NEW qty \in Nat, NEW entered \in Nat
  PROVE  Worth(j, qty, entered) \subseteq Nat
<1>1. CASE j \in Batch
  <2>1. PICK n \in Nat, d \in Nat \ {0} : n = qty * fund[j] /\ d = 2 * Units[j]
    <3>1. qty * fund[j] \in Nat
      OBVIOUS
    <3>2. 2 * Units[j] \in Nat \ {0}
      BY <1>1, ExecutionsAssumption
    <3> QED
      BY <3>1, <3>2
  <2>2. Nearest(n, d) \subseteq Nat
    BY NearestNat
  <2> QED
    BY <1>1, <2>1, <2>2 DEF Worth
<1>2. CASE j \notin Batch
  BY <1>2 DEF Worth
<1> QED
  BY <1>1, <1>2

LEMMA CrewOK ==
  ASSUME NEW crew \in Crews
  PROVE  /\ crew \in Seq([who: Employee, weight: Nat])
         /\ Len(crew) \in Nat /\ DOMAIN crew = 1..Len(crew)
         /\ \A i \in DOMAIN crew : crew[i].who \in Employee
         /\ \A i, j \in DOMAIN crew : crew[i].who = crew[j].who => i = j
         /\ Len(crew) # 0
<1>1. /\ crew \in Seq([who: Employee, weight: Nat])
      /\ \A i, j \in DOMAIN crew : crew[i].who = crew[j].who => i = j
      /\ DOMAIN crew # {}
  BY ExecutionsAssumption DEF IsCrew
<1>2. Len(crew) \in Nat /\ crew \in [1..Len(crew) -> [who: Employee, weight: Nat]]
  <2> DEFINE W == [who: Employee, weight: Nat]
  <2>1. crew \in Seq(W)
    BY <1>1
  <2> HIDE DEF W
  <2>2. Len(crew) \in Nat /\ crew \in [1..Len(crew) -> W]
    BY <2>1
  <2> QED
    BY <2>2 DEF W
<1>3. DOMAIN crew = 1..Len(crew)
  BY <1>2
<1>4. Len(crew) # 0
  BY <1>1, <1>2, <1>3
<1>5. \A i \in DOMAIN crew : crew[i].who \in Employee
  BY <1>2, <1>3
<1> QED
  BY <1>1, <1>2, <1>3, <1>4, <1>5

(***************************************************************************)
(* An amount is divided among the whole crew, to the last cent.            *)
(***************************************************************************)
LEMMA SharesFit ==
  ASSUME NEW total \in Nat, NEW crew \in Crews, NEW s \in Shares(total, crew)
  PROVE  /\ s \in [1..Len(crew) -> Int]
         /\ Total(s, Len(crew)) = total
<1>1. Len(crew) \in Nat /\ Len(crew) # 0
  BY CrewOK
<1>2. PICK m \in Nat : m = Len(crew) - 1
  BY <1>1
<1>3. m + 1 = Len(crew)
  BY <1>1, <1>2
<1>4. PICK f \in [1..m -> 0..total] :
        s = [i \in 1..Len(crew) |-> IF i < Len(crew) THEN f[i] ELSE total - Total(f, m)]
  BY <1>2 DEF Shares
<1>5. f \in [1..m -> Int]
  BY <1>4
<1>6. PICK rest \in Int : rest = Total(f, m)
  BY <1>5, TotalInt
<1>7. s = [i \in 1..(m + 1) |-> IF i < m + 1 THEN f[i] ELSE total - rest]
  BY <1>3, <1>4, <1>6
<1>8. s \in [1..(m + 1) -> Int] /\ s[m + 1] = total - rest /\ \A i \in 1..m : f[i] = s[i]
  BY <1>5, <1>7
<1>9. Total(s, m + 1) = Total(f, m) + s[m + 1]
  BY <1>5, <1>8, TotalSplit
<1> QED
  BY <1>3, <1>6, <1>8, <1>9

-----------------------------------------------------------------------------
(* Rows. *)

LEMMA EmptyTotal == Len(<<>>) = 0 /\ Total(<<>>, 0) = 0
<1>1. <<>> \in [1..0 -> Int]
  OBVIOUS
<1>2. Total(<<>>, 0) = 0
  BY ONLY <1>1, TotalNone
<1> QED
  BY <1>2

LEMMA BlankRows ==
  /\ RowOK(NoExecution) /\ Blank(NoExecution)
  /\ RowOK([NoExecution EXCEPT !.status = "DELETED"]) /\ Blank([NoExecution EXCEPT !.status = "DELETED"])
<1>1. 1 \in Day /\ 0 \in 0..NumExecutions
  BY ExecutionsAssumption DEF Day
<1>2. <<>> \in Seq(Int)
  OBVIOUS
<1>3. Blank(NoExecution) /\ Blank([NoExecution EXCEPT !.status = "DELETED"])
  BY DEF Blank, NoExecution
<1>4. NoExecution \in ExecutionType /\ [NoExecution EXCEPT !.status = "DELETED"] \in ExecutionType
  BY <1>1, <1>2 DEF NoExecution, ExecutionType
<1> QED
  BY <1>3, <1>4, EmptyTotal DEF RowOK, NoExecution

LEMMA VoidedRows ==
  ASSUME NEW x, RowOK(x), x.status = "CONFIRMED"
  PROVE  /\ RowOK(Voided(x)) /\ Voided(x).status = "VOIDED" /\ Voided(x).stamped = 0
         /\ Voided(x).replaces = x.replaces /\ Voided(x).crew = x.crew /\ Voided(x).job = x.job
<1>1. x \in ExecutionType
  BY DEF RowOK
<1>2. /\ Voided(x) \in ExecutionType
      /\ Voided(x).status = "VOIDED" /\ Voided(x).stamped = 0
      /\ Voided(x).replaces = x.replaces /\ Voided(x).crew = x.crew /\ Voided(x).job = x.job
      /\ Voided(x).share = x.share /\ Voided(x).amount = x.amount
  BY <1>1 DEF ExecutionType, Voided
<1> QED
  BY <1>2 DEF RowOK

(***************************************************************************)
(* What a form is written as.                                              *)
(***************************************************************************)
Recorded(row, j, replaces) ==
  /\ RowOK(row)
  /\ row.status = "DRAFT" /\ row.job = j /\ row.replaces = replaces /\ row.stamped = 0

LEMMA RecordedRow ==
  ASSUME fund \in [Job -> Nat], NEW x, NEW e \in Execution, NEW j \in Job,
         NEW replaces \in 0..NumExecutions, Record(x, e, j, replaces)
  PROVE  /\ Takes(j)
         /\ \E row : Recorded(row, j, replaces) /\ execution' = [x EXCEPT ![e] = row]
<1> DEFINE Row(day, qty, amount, crew, share) ==
             [status |-> "DRAFT", job |-> j, day |-> day, qty |-> qty, amount |-> amount,
              crew |-> crew, share |-> share, replaces |-> replaces, stamped |-> 0]
<1>1. PICK day \in Day, qty \in Qtys, entered \in Amounts, crew \in Crews :
        \E amount \in Worth(j, qty, entered) : \E share \in Shares(amount, crew) :
          execution' = [x EXCEPT ![e] = Row(day, qty, amount, crew, share)]
  BY DEF Record
<1>2. PICK amount \in Worth(j, qty, entered) : \E share \in Shares(amount, crew) :
          execution' = [x EXCEPT ![e] = Row(day, qty, amount, crew, share)]
  BY <1>1
<1>21. PICK share \in Shares(amount, crew) :
          execution' = [x EXCEPT ![e] = Row(day, qty, amount, crew, share)]
  BY <1>2
<1>3. qty \in Nat /\ entered \in Nat
  BY ExecutionsAssumption
<1>4. amount \in Nat
  BY <1>3, WorthNat
<1>5. Len(crew) \in Nat /\ share \in [1..Len(crew) -> Int] /\ Total(share, Len(crew)) = amount
  BY <1>4, SharesFit, CrewOK
<1>6. share \in Seq(Int) /\ Len(share) = Len(crew)
  BY <1>5
<1> DEFINE row == Row(day, qty, amount, crew, share)
<1>7. row \in ExecutionType
  BY <1>3, <1>4, <1>6 DEF ExecutionType
<1>8. Recorded(row, j, replaces)
  BY <1>5, <1>6, <1>7 DEF Recorded, RowOK
<1>9. Takes(j)
  BY DEF Record
<1> QED
  BY <1>21, <1>8, <1>9

(***************************************************************************)
(* Sums over the executions when fewer are confirmed, when none is and     *)
(* when one more is.                                                       *)
(***************************************************************************)
RowsTyped(x) == x \in [Execution -> ExecutionType]
QtyRows(x, j) == [e \in Execution |-> IF IsConfirmed(x, e, j) THEN x[e].qty ELSE 0]
AmountRows(x, j) == [e \in Execution |-> IF IsConfirmed(x, e, j) THEN x[e].amount ELSE 0]
StampRows(x, b) == [e \in Execution |-> IF x[e].job = b THEN x[e].stamped ELSE 0]
StampsOf(x, b) == Total(StampRows(x, b), NumExecutions)

LEMMA SumsTyped ==
  ASSUME NEW x, RowsTyped(x), NEW j
  PROVE  /\ NumExecutions \in Nat
         /\ QtyRows(x, j) \in [1..NumExecutions -> Nat] /\ QtyRows(x, j) \in [1..NumExecutions -> Int]
         /\ AmountRows(x, j) \in [1..NumExecutions -> Nat] /\ AmountRows(x, j) \in [1..NumExecutions -> Int]
         /\ StampRows(x, j) \in [1..NumExecutions -> Nat] /\ StampRows(x, j) \in [1..NumExecutions -> Int]
         /\ ConfirmedQty(x, j) = Total(QtyRows(x, j), NumExecutions) /\ ConfirmedQty(x, j) \in Nat
         /\ ConfirmedAmount(x, j) = Total(AmountRows(x, j), NumExecutions) /\ ConfirmedAmount(x, j) \in Nat
         /\ StampsOf(x, j) \in Nat
<1>1. NumExecutions \in Nat
  BY ExecutionsAssumption
<1>2. \A e \in Execution : x[e].qty \in Nat /\ x[e].amount \in Nat /\ x[e].stamped \in Nat
  BY DEF RowsTyped, ExecutionType
<1>3. /\ QtyRows(x, j) \in [1..NumExecutions -> Nat]
      /\ AmountRows(x, j) \in [1..NumExecutions -> Nat]
      /\ StampRows(x, j) \in [1..NumExecutions -> Nat]
  BY <1>2 DEF QtyRows, AmountRows, StampRows, Execution
<1>4. /\ QtyRows(x, j) \in [1..NumExecutions -> Int]
      /\ AmountRows(x, j) \in [1..NumExecutions -> Int]
      /\ StampRows(x, j) \in [1..NumExecutions -> Int]
  BY <1>3
<1>5. /\ Total(QtyRows(x, j), NumExecutions) \in Nat
      /\ Total(AmountRows(x, j), NumExecutions) \in Nat
      /\ Total(StampRows(x, j), NumExecutions) \in Nat
  BY <1>1, <1>3, TotalNat
<1>6. /\ ConfirmedQty(x, j) = Total(QtyRows(x, j), NumExecutions)
      /\ ConfirmedAmount(x, j) = Total(AmountRows(x, j), NumExecutions)
  BY DEF ConfirmedQty, ConfirmedAmount, QtyRows, AmountRows
<1> QED
  BY <1>1, <1>3, <1>4, <1>5, <1>6 DEF StampsOf

LEMMA FewerConfirmed ==
  ASSUME NEW x, RowsTyped(x), NEW y, RowsTyped(y), NEW j,
         \A e \in Execution : y[e] = x[e] \/ y[e].status # "CONFIRMED"
  PROVE  ConfirmedQty(y, j) <= ConfirmedQty(x, j) /\ ConfirmedAmount(y, j) <= ConfirmedAmount(x, j)
<1>1. \A e \in 1..NumExecutions : QtyRows(y, j)[e] <= QtyRows(x, j)[e]
  <2> TAKE e \in 1..NumExecutions
  <2>1. e \in Execution /\ x[e].qty \in Nat
    BY DEF Execution, RowsTyped, ExecutionType
  <2> QED
    BY <2>1 DEF QtyRows, IsConfirmed
<1>2. \A e \in 1..NumExecutions : AmountRows(y, j)[e] <= AmountRows(x, j)[e]
  <2> TAKE e \in 1..NumExecutions
  <2>1. e \in Execution /\ x[e].amount \in Nat
    BY DEF Execution, RowsTyped, ExecutionType
  <2> QED
    BY <2>1 DEF AmountRows, IsConfirmed
<1>3. /\ NumExecutions \in Nat
      /\ QtyRows(x, j) \in [1..NumExecutions -> Int] /\ QtyRows(y, j) \in [1..NumExecutions -> Int]
      /\ AmountRows(x, j) \in [1..NumExecutions -> Int] /\ AmountRows(y, j) \in [1..NumExecutions -> Int]
  BY SumsTyped
<1>4. Total(QtyRows(y, j), NumExecutions) <= Total(QtyRows(x, j), NumExecutions)
  BY ONLY <1>1, <1>3, TotalMonotone
<1>5. Total(AmountRows(y, j), NumExecutions) <= Total(AmountRows(x, j), NumExecutions)
  BY ONLY <1>2, <1>3, TotalMonotone
<1> QED
  BY <1>4, <1>5, SumsTyped

LEMMA NoneConfirmed ==
  ASSUME NEW x, RowsTyped(x), NEW j, \A e \in Execution : ~IsConfirmed(x, e, j)
  PROVE  ConfirmedQty(x, j) = 0 /\ ConfirmedAmount(x, j) = 0
<1>1. QtyRows(x, j) = [i \in 1..NumExecutions |-> 0] /\ AmountRows(x, j) = [i \in 1..NumExecutions |-> 0]
  BY DEF QtyRows, AmountRows, Execution
<1>2. Total([i \in 1..NumExecutions |-> 0], NumExecutions) = 0
  BY TotalZero, ExecutionsAssumption
<1> QED
  BY <1>1, <1>2, SumsTyped

LEMMA OneMoreConfirmed ==
  ASSUME NEW x, RowsTyped(x), NEW y, RowsTyped(y), NEW j, NEW e \in Execution,
         x[e].status # "CONFIRMED", y[e].status = "CONFIRMED",
         \A o \in Execution : o # e => y[o] = x[o]
  PROVE  /\ ConfirmedQty(y, j) = ConfirmedQty(x, j) + (IF y[e].job = j THEN y[e].qty ELSE 0)
         /\ ConfirmedAmount(y, j) = ConfirmedAmount(x, j) + (IF y[e].job = j THEN y[e].amount ELSE 0)
<1>1. PICK q \in Int : q = IF y[e].job = j THEN y[e].qty ELSE 0
  BY DEF RowsTyped, ExecutionType
<1>2. PICK a \in Int : a = IF y[e].job = j THEN y[e].amount ELSE 0
  BY DEF RowsTyped, ExecutionType
<1>3. /\ NumExecutions \in Nat /\ e \in 1..NumExecutions
      /\ QtyRows(x, j) \in [1..NumExecutions -> Int] /\ QtyRows(y, j) \in [1..NumExecutions -> Int]
      /\ AmountRows(x, j) \in [1..NumExecutions -> Int] /\ AmountRows(y, j) \in [1..NumExecutions -> Int]
  BY SumsTyped DEF Execution
<1>4. /\ QtyRows(y, j)[e] = QtyRows(x, j)[e] + q
      /\ \A o \in 1..NumExecutions : o # e => QtyRows(y, j)[o] = QtyRows(x, j)[o]
  BY <1>1 DEF QtyRows, IsConfirmed, Execution
<1>5. /\ AmountRows(y, j)[e] = AmountRows(x, j)[e] + a
      /\ \A o \in 1..NumExecutions : o # e => AmountRows(y, j)[o] = AmountRows(x, j)[o]
  BY <1>2 DEF AmountRows, IsConfirmed, Execution
<1>6. Total(QtyRows(y, j), NumExecutions) = Total(QtyRows(x, j), NumExecutions) + q
  BY ONLY <1>3, <1>4, q \in Int, TotalUpdate
<1>7. Total(AmountRows(y, j), NumExecutions) = Total(AmountRows(x, j), NumExecutions) + a
  BY ONLY <1>3, <1>5, a \in Int, TotalUpdate
<1> QED
  BY <1>1, <1>2, <1>6, <1>7, SumsTyped

LEMMA FewerStamps ==
  ASSUME NEW x, RowsTyped(x), NEW y, RowsTyped(y), NEW b,
         \A e \in Execution : y[e] = x[e] \/ y[e].stamped = 0
  PROVE  StampsOf(y, b) <= StampsOf(x, b)
<1>1. \A e \in 1..NumExecutions : StampRows(y, b)[e] <= StampRows(x, b)[e]
  <2> TAKE e \in 1..NumExecutions
  <2>1. e \in Execution /\ x[e].stamped \in Nat
    BY DEF Execution, RowsTyped, ExecutionType
  <2> QED
    BY <2>1 DEF StampRows
<1>2. /\ NumExecutions \in Nat
      /\ StampRows(x, b) \in [1..NumExecutions -> Int] /\ StampRows(y, b) \in [1..NumExecutions -> Int]
  BY SumsTyped
<1>3. Total(StampRows(y, b), NumExecutions) <= Total(StampRows(x, b), NumExecutions)
  BY ONLY <1>1, <1>2, TotalMonotone
<1> QED
  BY <1>3 DEF StampsOf

LEMMA OneMoreStamped ==
  ASSUME NEW x, RowsTyped(x), NEW y, RowsTyped(y), NEW b, NEW e \in Execution,
         x[e].stamped = 0, \A o \in Execution : o # e => y[o] = x[o]
  PROVE  StampsOf(y, b) = StampsOf(x, b) + (IF y[e].job = b THEN y[e].stamped ELSE 0)
<1>1. PICK q \in Int : q = IF y[e].job = b THEN y[e].stamped ELSE 0
  BY DEF RowsTyped, ExecutionType
<1>2. /\ NumExecutions \in Nat /\ e \in 1..NumExecutions
      /\ StampRows(x, b) \in [1..NumExecutions -> Int] /\ StampRows(y, b) \in [1..NumExecutions -> Int]
  BY SumsTyped DEF Execution
<1>3. /\ StampRows(y, b)[e] = StampRows(x, b)[e] + q
      /\ \A o \in 1..NumExecutions : o # e => StampRows(y, b)[o] = StampRows(x, b)[o]
  BY <1>1 DEF StampRows, Execution
<1>4. Total(StampRows(y, b), NumExecutions) = Total(StampRows(x, b), NumExecutions) + q
  BY ONLY <1>2, <1>3, q \in Int, TotalUpdate
<1> QED
  BY <1>1, <1>4 DEF StampsOf

-----------------------------------------------------------------------------
(* The ledger: what steps that do not confirm leave of it. *)

JobStatus == {"NONE", "PLANNED", "IN_PROGRESS", "COMPLETED", "CANCELLED", "DELETED", "OPEN", "CLOSED"}
LedgerType == [Execution -> [Employee -> Seq(EntryType)]]

LEMMA StampsAre ==
  ASSUME NEW b
  PROVE  Stamps(b) = StampsOf(execution, b) /\ Stamps(b)' = StampsOf(execution', b)
BY DEF Stamps, StampsOf, StampRows

LEMMA RowsAreTyped ==
  ASSUME execution \in [Execution -> ExecutionType] 
  PROVE  RowsTyped(execution)
BY DEF RowsTyped

(***************************************************************************)
(* While no confirmation is under way: rows of the executions change into  *)
(* rows that are paid for, and nothing is stamped.                         *)
(***************************************************************************)
LEMMA QuietKeepsLedger ==
  ASSUME LedgerInv, Quiet, UNCHANGED <<closed, today, pending>>,
         manual' \in [Manual -> Seq(EntryType)],
         status' \in [Job -> JobStatus], fund' \in [Job -> Nat],
         execution' \in [Execution -> ExecutionType], ledger' \in LedgerType,
         Rows', Paid', Replaced', JobsUnderWay',
         \A e \in Execution : execution'[e] = execution[e] \/ execution'[e].stamped = 0
  PROVE  LedgerInv'
<1>1. ExecutionsTypeOK'
  BY DEF LedgerInv, ExecutionsTypeOK, JobStatus, LedgerType
<1>2. UnitsSuffice'
  <2> SUFFICES ASSUME NEW b \in Batch PROVE Stamps(b)' <= Units[b]
    BY DEF UnitsSuffice
  <2>1. PICK x, y : x = execution /\ y = execution'
    OBVIOUS
  <2>2. RowsTyped(x) /\ RowsTyped(y)
    BY <2>1 DEF LedgerInv, ExecutionsTypeOK, RowsTyped
  <2>3. StampsOf(y, b) <= StampsOf(x, b)
    <3>1. \A e \in Execution : y[e] = x[e] \/ y[e].stamped = 0
      BY <2>1
    <3> QED
      BY <2>2, <3>1, FewerStamps
  <2>4. StampsOf(x, b) \in Nat /\ StampsOf(y, b) \in Nat
    BY <2>2, SumsTyped
  <2>5. StampsOf(x, b) <= Units[b]
    BY <2>1, StampsAre DEF LedgerInv, UnitsSuffice
  <2>6. Stamps(b)' = StampsOf(y, b)
    BY <2>1, StampsAre
  <2> QED
    BY <2>3, <2>4, <2>5, <2>6, ExecutionsAssumption
<1>3. \A c \in Connection : PendingOK(c)'
  BY DEF Quiet, PendingOK
<1> QED
  BY <1>1, <1>2, <1>3 DEF LedgerInv

LEMMA JobsKeepLedger ==
  ASSUME LedgerInv, JobsOnly,
         status' \in [Job -> JobStatus], fund' \in [Job -> Nat],
         \A j \in Job : UnderWay(j) =>
           UnderWay(j)' \/ \A e \in Execution : ~(execution[e].job = j /\ execution[e].status \in {"DRAFT", "CONFIRMED"})
  PROVE  LedgerInv'
<1>1. Quiet /\ execution' = execution /\ ledger' = ledger /\ manual' = manual
      /\ UNCHANGED <<closed, today, pending>>
  BY DEF JobsOnly
<1>2. /\ manual' \in [Manual -> Seq(EntryType)]
      /\ execution' \in [Execution -> ExecutionType] /\ ledger' \in LedgerType
  BY <1>1 DEF LedgerInv, ExecutionsTypeOK, LedgerType
<1>3. Rows' /\ Paid' /\ Replaced'
  BY <1>1 DEF LedgerInv, Rows, Paid, Replaced
<1>4. JobsUnderWay'
  <2> SUFFICES ASSUME NEW e \in Execution, execution[e].status \in {"DRAFT", "CONFIRMED"}
               PROVE  UnderWay(execution[e].job)'
    BY <1>1 DEF JobsUnderWay
  <2>1. PICK j : j = execution[e].job
    OBVIOUS
  <2>2. j \in Job /\ UnderWay(j)
    BY <2>1 DEF LedgerInv, Rows, RowOK, JobsUnderWay
  <2>3. UnderWay(j)'
    BY <2>1, <2>2
  <2> QED
    BY <1>1, <2>1, <2>3 DEF UnderWay
<1> QED
  BY <1>1, <1>2, <1>3, <1>4, QuietKeepsLedger

(***************************************************************************)
(* Work on batches and tasks that no execution takes part in.              *)
(***************************************************************************)
LEMMA BatchKeepsLedger ==
  ASSUME LedgerInv, NEW b \in Batch, Start(b) \/ Complete(b) \/ CancelBatch(b)
  PROVE  LedgerInv'
<1>1. b \in Job /\ status \in [Job -> JobStatus] /\ fund \in [Job -> Nat]
  BY DEF Job, LedgerInv, ExecutionsTypeOK, JobStatus
<1>2. JobsOnly
  BY DEF Start, Complete, CancelBatch
<1>3. PICK s \in JobStatus : status' = [status EXCEPT ![b] = s]
  <2>1. CASE Start(b)
    BY <2>1 DEF Start, JobStatus
  <2>2. CASE Complete(b)
    BY <2>2 DEF Complete, JobStatus
  <2>3. CASE CancelBatch(b)
    BY <2>3 DEF CancelBatch, JobStatus
  <2> QED
    BY <2>1, <2>2, <2>3
<1>4. fund' \in [Job -> Nat]
  <2>1. CASE Start(b)
    <3>1. PICK rate \in Rates : fund' = [fund EXCEPT ![b] = rate * Units[b]]
      BY <2>1 DEF Start
    <3>2. rate * Units[b] \in Nat
      BY ExecutionsAssumption
    <3> QED
      BY <1>1, <3>1, <3>2
  <2>2. CASE Complete(b) \/ CancelBatch(b)
    BY <1>1, <2>2 DEF Complete, CancelBatch
  <2> QED
    BY <2>1, <2>2
<1>5. UnderWay(b) => UnderWay(b)'
  BY <1>1, <1>3 DEF Start, Complete, CancelBatch, UnderWay
<1>6. \A j \in Job : j # b => (UnderWay(j) <=> UnderWay(j)')
  BY <1>1, <1>3 DEF UnderWay
<1> QED
  BY <1>1, <1>2, <1>3, <1>4, <1>5, <1>6, JobsKeepLedger

LEMMA TaskKeepsLedger ==
  ASSUME LedgerInv, NEW t \in Task, TaskStep(t)
  PROVE  LedgerInv'
<1>1. t \in Job /\ t \notin Batch /\ status \in [Job -> JobStatus] /\ fund \in [Job -> Nat]
  BY ExecutionsAssumption DEF Job, LedgerInv, ExecutionsTypeOK, JobStatus
<1>2. JobsOnly
  BY DEF TaskStep, CreateTask, UpdateTask, CloseTask, ReopenTask, RemoveTask
<1>3. PICK s \in JobStatus : status' = [status EXCEPT ![t] = s]
  <2>1. CASE CreateTask(t)
    BY <2>1 DEF CreateTask, JobStatus
  <2>2. CASE UpdateTask(t)
    <3>1. status' = [status EXCEPT ![t] = status[t]] /\ status[t] \in JobStatus
      BY <1>1, <2>2 DEF UpdateTask
    <3> QED
      BY <3>1
  <2>3. CASE CloseTask(t)
    BY <2>3 DEF CloseTask, JobStatus
  <2>4. CASE ReopenTask(t)
    BY <2>4 DEF ReopenTask, JobStatus
  <2>5. CASE RemoveTask(t)
    BY <2>5 DEF RemoveTask, JobStatus
  <2> QED
    BY <2>1, <2>2, <2>3, <2>4, <2>5 DEF TaskStep
<1>4. fund' \in [Job -> Nat]
  <2>1. CASE CreateTask(t)
    <3>1. PICK f \in Funds : fund' = [fund EXCEPT ![t] = f]
      BY <2>1 DEF CreateTask
    <3> QED
      BY <1>1, <3>1, ExecutionsAssumption
  <2>2. CASE UpdateTask(t)
    <3>1. PICK f \in Funds : fund' = [fund EXCEPT ![t] = f]
      BY <2>2 DEF UpdateTask
    <3> QED
      BY <1>1, <3>1, ExecutionsAssumption
  <2>3. CASE CloseTask(t) \/ ReopenTask(t)
    BY <1>1, <2>3 DEF CloseTask, ReopenTask
  <2>4. CASE RemoveTask(t)
    BY <1>1, <2>4 DEF RemoveTask
  <2> QED
    BY <2>1, <2>2, <2>3, <2>4 DEF TaskStep
<1>5. UnderWay(t) => UnderWay(t)' \/ \A e \in Execution : execution[e].job # t
  BY <1>1, <1>3 DEF TaskStep, CreateTask, UpdateTask, CloseTask, ReopenTask, RemoveTask, UnderWay
<1>6. \A j \in Job : j # t => (UnderWay(j) <=> UnderWay(j)')
  BY <1>1, <1>3 DEF UnderWay
<1> QED
  BY <1>1, <1>2, <1>3, <1>4, <1>5, <1>6, JobsKeepLedger

(***************************************************************************)
(* A void takes back what the first entry gave, dated today.               *)
(***************************************************************************)
LEMMA UndoneTakesBack ==
  ASSUME NEW l \in Seq(EntryType), Len(l) = 1, today \in Day
  PROVE  /\ Undone(l) \in Seq(EntryType) /\ TakenBack(Undone(l))
         /\ Undone(l)[1] = l[1] /\ Undone(l)[2].day = today
<1> DEFINE back == Entry(- l[1].amount, - l[1].units, today)
<1>1. l[1] \in EntryType
  OBVIOUS
<1>2. back \in EntryType
  BY <1>1 DEF EntryType, Entry
<1>3. back.amount = - l[1].amount /\ back.units = - l[1].units /\ back.day = today
  BY DEF Entry
<1>4. Undone(l) = Append(l, back)
  BY DEF Undone
<1> HIDE DEF back
<1> DEFINE E == EntryType
<1>5. l \in Seq(E) /\ back \in E
  BY <1>2
<1> HIDE DEF E
<1>6. /\ Append(l, back) \in Seq(E) /\ Len(Append(l, back)) = 2
      /\ Append(l, back)[1] = l[1] /\ Append(l, back)[2] = back
  <2>1. Append(l, back) \in Seq(E)
    BY ONLY <1>5
  <2>2. Len(Append(l, back)) = Len(l) + 1
    BY ONLY <1>5
  <2>3. \A i \in 1..Len(l) : Append(l, back)[i] = l[i]
    BY ONLY <1>5
  <2>4. Append(l, back)[Len(l) + 1] = back
    BY ONLY <1>5
  <2> QED
    BY <2>1, <2>2, <2>3, <2>4
<1> QED
  BY <1>3, <1>4, <1>6 DEF TakenBack, E

LEMMA CompensatedPays ==
  ASSUME LedgerInv, NEW E \in SUBSET Execution, \A e \in E : execution[e].status = "CONFIRMED"
  PROVE  /\ Compensated(E) \in LedgerType
         /\ \A e \in Execution : e \notin E => Compensated(E)[e] = ledger[e]
         /\ \A e \in E, w \in Employee : PaidFor(Voided(execution[e]), w, Compensated(E)[e][w])
<1>1. ledger \in LedgerType /\ today \in Day
  BY DEF LedgerInv, ExecutionsTypeOK, LedgerType
<1>2. ASSUME NEW e \in E, NEW w \in Employee
      PROVE  /\ Compensated(E)[e][w] \in Seq(EntryType)
             /\ PaidFor(Voided(execution[e]), w, Compensated(E)[e][w])
  <2>1. /\ RowOK(execution[e]) /\ PaidFor(execution[e], w, ledger[e][w])
        /\ ledger[e][w] \in Seq(EntryType)
    BY <1>1 DEF LedgerInv, Rows, Paid, LedgerType
  <2>2. Compensated(E)[e][w] = IF Places(e, w) # {} THEN Undone(ledger[e][w]) ELSE ledger[e][w]
    BY DEF Compensated
  <2>3. Voided(execution[e]).status = "VOIDED"
    BY <2>1, VoidedRows
  <2>4. CASE Places(e, w) = {}
    <3>1. ledger[e][w] = <<>>
      BY <2>1, <2>4 DEF PaidFor, Places
    <3> QED
      BY <2>1, <2>2, <2>3, <2>4, <3>1 DEF PaidFor
  <2>5. CASE Places(e, w) # {}
    <3>1. PICK i : ledger[e][w] = <<EntryOf(execution[e], i)>>
      BY <2>1, <2>5 DEF PaidFor, Places
    <3>2. Len(ledger[e][w]) = 1
      BY <3>1
    <3>3. Undone(ledger[e][w]) \in Seq(EntryType) /\ TakenBack(Undone(ledger[e][w]))
      BY <1>1, <2>1, <3>2, UndoneTakesBack
    <3> QED
      BY <2>2, <2>3, <2>5, <3>3 DEF PaidFor
  <2> QED
    BY <2>4, <2>5
<1>3. \A e \in Execution : e \notin E => Compensated(E)[e] = ledger[e]
  BY DEF Compensated
<1>4. Compensated(E) \in LedgerType
  <2> SUFFICES ASSUME NEW e \in Execution PROVE Compensated(E)[e] \in [Employee -> Seq(EntryType)]
    BY DEF Compensated, LedgerType
  <2>1. CASE e \in E
    <3>1. Compensated(E)[e] = [w \in Employee |-> Compensated(E)[e][w]]
      BY <2>1 DEF Compensated
    <3> QED
      BY <1>2, <2>1, <3>1
  <2>2. CASE e \notin E
    BY <1>1, <1>3, <2>2 DEF LedgerType
  <2> QED
    BY <2>1, <2>2
<1> QED
  BY <1>2, <1>3, <1>4

(***************************************************************************)
(* While no confirmation is under way: the executions of E are voided, and *)
(* the rows of drafts and of nothing become others.                        *)
(***************************************************************************)
\* Row e of a draft or of nothing becomes the row y, which replaces what the
\* old one replaced or one of E.
Redrafted(E, e, y) ==
  /\ execution[e].status \in {"NONE", "DRAFT"} /\ y.status \in {"NONE", "DRAFT"}
  /\ RowOK(y) /\ y.stamped = 0
  /\ y.replaces # 0 => y.replaces = execution[e].replaces \/ y.replaces \in E

LEMMA VoidingKeepsLedger ==
  ASSUME LedgerInv, Quiet, UNCHANGED <<manual, closed, today, pending>>,
         status' \in [Job -> JobStatus], fund' \in [Job -> Nat],
         NEW E \in SUBSET Execution, \A e \in E : execution[e].status = "CONFIRMED",
         NEW y \in [Execution -> ExecutionType], execution' = y, ledger' = Compensated(E),
         \A e \in E : y[e] = Voided(execution[e]),
         \A e \in Execution : e \notin E => y[e] = execution[e] \/ Redrafted(E, e, y[e]),
         JobsUnderWay'
  PROVE  LedgerInv'
<1>1. /\ manual' \in [Manual -> Seq(EntryType)]
      /\ ledger' \in LedgerType
  BY CompensatedPays DEF LedgerInv, ExecutionsTypeOK
<1>2. \A e \in Execution : RowOK(execution[e])
  BY DEF LedgerInv, Rows
<1>3. Rows'
  <2> SUFFICES ASSUME NEW e \in Execution PROVE RowOK(y[e])
    BY DEF Rows
  <2>1. CASE e \in E
    BY <1>2, <2>1, VoidedRows
  <2>2. CASE e \notin E
    BY <1>2, <2>2 DEF Redrafted
  <2> QED
    BY <2>1, <2>2
<1>4. Paid'
  <2> SUFFICES ASSUME NEW e \in Execution, NEW w \in Employee
               PROVE  PaidFor(y[e], w, Compensated(E)[e][w])
    BY DEF Paid
  <2>1. CASE e \in E
    BY <2>1, CompensatedPays
  <2>2. CASE e \notin E
    <3>1. Compensated(E)[e] = ledger[e] /\ PaidFor(execution[e], w, ledger[e][w])
      BY <2>2, CompensatedPays DEF LedgerInv, Paid
    <3> QED
      BY <2>2, <3>1 DEF Redrafted, PaidFor
  <2> QED
    BY <2>1, <2>2
<1>5. Replaced'
  <2> SUFFICES ASSUME NEW e \in Execution, y[e].replaces # 0
               PROVE  y[y[e].replaces].status \in {"VOIDED", "DELETED"}
    BY DEF Replaced
  <2>1. y[e].replaces \in Execution
    <3>1. y[e].replaces \in 0..NumExecutions
      BY DEF ExecutionType
    <3> QED
      BY <3>1, ExecutionsAssumption DEF Execution
  <2>2. CASE y[e].replaces \in E
    BY <1>2, <2>2, VoidedRows
  <2>3. CASE y[e].replaces \notin E
    <3>1. y[e].replaces = execution[e].replaces
      <4>1. CASE e \in E
        BY <1>2, <4>1, VoidedRows
      <4>2. CASE e \notin E
        BY <2>3, <4>2 DEF Redrafted
      <4> QED
        BY <4>1, <4>2
    <3>2. execution[y[e].replaces].status \in {"VOIDED", "DELETED"}
      BY <3>1 DEF LedgerInv, Replaced
    <3> QED
      BY <2>1, <2>3, <3>2 DEF Redrafted
  <2> QED
    BY <2>2, <2>3
<1>6. \A e \in Execution : y[e] = execution[e] \/ y[e].stamped = 0
  BY <1>2, VoidedRows DEF Redrafted
<1> QED
  BY <1>1, <1>3, <1>4, <1>5, <1>6, QuietKeepsLedger

LEMMA NothingCompensated ==
  ASSUME LedgerInv
  PROVE  Compensated({}) = ledger
<1>1. ledger \in LedgerType
  BY DEF LedgerInv, ExecutionsTypeOK, LedgerType
<1>2. Compensated({}) \in LedgerType /\ \A e \in Execution : Compensated({})[e] = ledger[e]
  BY CompensatedPays
<1> QED
  BY <1>1, <1>2 DEF LedgerType

LEMMA TakesUnderWay ==
  ASSUME NEW j, Takes(j)
  PROVE  UnderWay(j)
BY DEF Takes, UnderWay

(***************************************************************************)
(* Drafts come and go.                                                     *)
(***************************************************************************)
LEMMA DraftKeepsLedger ==
  ASSUME LedgerInv, NEW e \in Execution,
         (\E j \in Job : Create(e, j)) \/ Patch(e) \/ RemoveDraft(e)
  PROVE  LedgerInv'
<1>1. ExecutionsOnly /\ ledger' = ledger
  BY DEF Create, Patch, RemoveDraft
<1>2. /\ Quiet /\ UNCHANGED <<manual, closed, today, pending, status, fund>>
      /\ status' \in [Job -> JobStatus] /\ fund' \in [Job -> Nat] /\ fund \in [Job -> Nat]
      /\ execution \in [Execution -> ExecutionType]
  BY <1>1 DEF ExecutionsOnly, LedgerInv, ExecutionsTypeOK, JobStatus
<1>3. RowOK(execution[e]) /\ (execution[e].status = "NONE" => Blank(execution[e]))
  BY DEF LedgerInv, Rows, RowOK
<1>4. PICK row : /\ execution' = [execution EXCEPT ![e] = row]
                 /\ Redrafted({}, e, row)
                 /\ row.status = "DRAFT" => UnderWay(row.job)
  <2>1. ASSUME NEW j \in Job, Create(e, j)
        PROVE  \E row : /\ execution' = [execution EXCEPT ![e] = row]
                        /\ Redrafted({}, e, row)
                        /\ row.status = "DRAFT" => UnderWay(row.job)
    <3>1. 0 \in 0..NumExecutions
      BY ExecutionsAssumption
    <3>2. PICK row : Recorded(row, j, 0) /\ execution' = [execution EXCEPT ![e] = row] /\ Takes(j)
      BY <1>2, <2>1, <3>1, RecordedRow DEF Create
    <3>3. Redrafted({}, e, row) /\ UnderWay(row.job)
      BY <2>1, <3>2, TakesUnderWay DEF Create, Redrafted, Recorded
    <3> QED
      BY <3>2, <3>3
  <2>2. ASSUME Patch(e)
        PROVE  \E row : /\ execution' = [execution EXCEPT ![e] = row]
                        /\ Redrafted({}, e, row)
                        /\ row.status = "DRAFT" => UnderWay(row.job)
    <3>1. PICK j, r : j = execution[e].job /\ r = execution[e].replaces
      OBVIOUS
    <3>2. j \in Job /\ r \in 0..NumExecutions
      BY <1>3, <2>2, <3>1 DEF Patch, RowOK, ExecutionType
    <3>3. PICK row : Recorded(row, j, r) /\ execution' = [execution EXCEPT ![e] = row] /\ Takes(j)
      BY <1>2, <2>2, <3>1, <3>2, RecordedRow DEF Patch
    <3>4. Redrafted({}, e, row) /\ UnderWay(row.job)
      BY <2>2, <3>1, <3>3, TakesUnderWay DEF Patch, Redrafted, Recorded
    <3> QED
      BY <3>3, <3>4
  <2>3. ASSUME RemoveDraft(e)
        PROVE  \E row : /\ execution' = [execution EXCEPT ![e] = row]
                        /\ Redrafted({}, e, row)
                        /\ row.status = "DRAFT" => UnderWay(row.job)
    <3>1. Redrafted({}, e, NoExecution) /\ NoExecution.status # "DRAFT"
      BY <2>3, BlankRows DEF RemoveDraft, Redrafted, NoExecution
    <3> QED
      BY <2>3, <3>1 DEF RemoveDraft
  <2> QED
    BY <2>1, <2>2, <2>3
<1>5. PICK y : y = execution'
  OBVIOUS
<1>6. /\ y[e] = row /\ \A o \in Execution : o # e => y[o] = execution[o]
      /\ y \in [Execution -> ExecutionType]
  BY <1>2, <1>4, <1>5 DEF Redrafted, RowOK
<1>7. JobsUnderWay'
  <2> SUFFICES ASSUME NEW o \in Execution, y[o].status \in {"DRAFT", "CONFIRMED"}
               PROVE  UnderWay(execution[o].job)'
    BY <1>5 DEF JobsUnderWay
  <2>1. y[o].status \in {"DRAFT", "CONFIRMED"} => UnderWay(y[o].job)
    BY <1>4, <1>6 DEF LedgerInv, JobsUnderWay, Redrafted
  <2> QED
    BY <1>2, <1>5, <2>1 DEF UnderWay
<1>8. ledger' = Compensated({})
  BY <1>1, NothingCompensated
<1>9. \A o \in Execution : y[o] = execution[o] \/ Redrafted({}, o, y[o])
  BY <1>4, <1>6
<1> QED
  BY <1>2, <1>5, <1>6, <1>7, <1>8, <1>9, VoidingKeepsLedger

(***************************************************************************)
(* A confirmed execution is voided, and perhaps replaced by a draft.       *)
(***************************************************************************)
LEMMA VoidKeepsLedger ==
  ASSUME LedgerInv, NEW e \in Execution, Void(e)
  PROVE  LedgerInv'
<1>1. ExecutionsOnly /\ execution[e].status = "CONFIRMED" /\ ledger' = Compensated({e})
  BY DEF Void
<1>2. /\ Quiet /\ UNCHANGED <<manual, closed, today, pending, status, fund>>
      /\ status' \in [Job -> JobStatus] /\ fund' \in [Job -> Nat]
      /\ execution \in [Execution -> ExecutionType]
  BY <1>1 DEF ExecutionsOnly, LedgerInv, ExecutionsTypeOK, JobStatus
<1>3. PICK y : y = execution'
  OBVIOUS
<1>4. RowOK(Voided(execution[e])) /\ Voided(execution[e]).status = "VOIDED"
  BY <1>1, VoidedRows DEF LedgerInv, Rows
<1>5. /\ y[e] = Voided(execution[e]) /\ \A o \in Execution : o # e => y[o] = execution[o]
      /\ y \in [Execution -> ExecutionType]
  BY <1>2, <1>3, <1>4 DEF Void, RowOK
<1>6. JobsUnderWay'
  <2> SUFFICES ASSUME NEW o \in Execution, y[o].status \in {"DRAFT", "CONFIRMED"}
               PROVE  UnderWay(execution[o].job)'
    BY <1>3 DEF JobsUnderWay
  <2>1. UnderWay(y[o].job)
    BY <1>4, <1>5 DEF LedgerInv, JobsUnderWay
  <2> QED
    BY <1>2, <1>3, <2>1 DEF UnderWay
<1>7. {e} \in SUBSET Execution /\ \A o \in {e} : execution[o].status = "CONFIRMED" /\ y[o] = Voided(execution[o])
  BY <1>1, <1>5
<1>8. \A o \in Execution : o \notin {e} => y[o] = execution[o]
  BY <1>5
<1> QED
  BY <1>1, <1>2, <1>3, <1>5, <1>6, <1>7, <1>8, VoidingKeepsLedger

LEMMA CorrectKeepsLedger ==
  ASSUME LedgerInv, NEW e \in Execution, NEW f \in Execution, Correct(e, f)
  PROVE  LedgerInv'
<1>1. /\ ExecutionsOnly /\ execution[e].status = "CONFIRMED" /\ ledger' = Compensated({e})
      /\ execution[f].status = "NONE"
  BY DEF Correct
<1>2. /\ Quiet /\ UNCHANGED <<manual, closed, today, pending, status, fund>>
      /\ status' \in [Job -> JobStatus] /\ fund' \in [Job -> Nat] /\ fund \in [Job -> Nat]
      /\ execution \in [Execution -> ExecutionType]
  BY <1>1 DEF ExecutionsOnly, LedgerInv, ExecutionsTypeOK, JobStatus
<1>3. PICK x : x = [execution EXCEPT ![e] = Voided(@)]
  OBVIOUS
<1>4. PICK j : j = execution[e].job
  OBVIOUS
<1>5. j \in Job /\ e \in 0..NumExecutions
  BY <1>1, <1>4, ExecutionsAssumption DEF LedgerInv, Rows, RowOK, Execution
<1>6. PICK row : Recorded(row, j, e) /\ execution' = [x EXCEPT ![f] = row] /\ Takes(j)
  <2>1. Record(x, f, j, e)
    BY <1>3, <1>4 DEF Correct
  <2> QED
    BY <1>2, <1>5, <2>1, RecordedRow
<1>7. RowOK(Voided(execution[e])) /\ Voided(execution[e]).status = "VOIDED"
  BY <1>1, VoidedRows DEF LedgerInv, Rows
<1>8. PICK y : y = execution'
  OBVIOUS
<1>9. /\ e # f /\ y[f] = row /\ y[e] = Voided(execution[e])
      /\ \A o \in Execution : o # e /\ o # f => y[o] = execution[o]
      /\ y \in [Execution -> ExecutionType]
  <2>1. row \in ExecutionType /\ Voided(execution[e]) \in ExecutionType
    BY <1>6, <1>7 DEF Recorded, RowOK
  <2> QED
    BY <1>1, <1>2, <1>3, <1>6, <1>8, <2>1
<1>10. JobsUnderWay'
  <2> SUFFICES ASSUME NEW o \in Execution, y[o].status \in {"DRAFT", "CONFIRMED"}
               PROVE  UnderWay(execution[o].job)'
    BY <1>8 DEF JobsUnderWay
  <2>1. CASE o = f
    BY <1>6, <1>9, <2>1, <1>2, <1>8, TakesUnderWay DEF Recorded, UnderWay
  <2>2. CASE o # f
    <3>1. UnderWay(y[o].job)
      BY <1>7, <1>9, <2>2 DEF LedgerInv, JobsUnderWay
    <3> QED
      BY <1>2, <1>8, <3>1 DEF UnderWay
  <2> QED
    BY <2>1, <2>2
<1>11. {e} \in SUBSET Execution /\ \A o \in {e} : execution[o].status = "CONFIRMED" /\ y[o] = Voided(execution[o])
  BY <1>1, <1>9
<1>12. \A o \in Execution : o \notin {e} => y[o] = execution[o] \/ Redrafted({e}, o, y[o])
  <2>1. Redrafted({e}, f, row)
    BY <1>1, <1>6 DEF Redrafted, Recorded
  <2> QED
    BY <1>9, <2>1
<1> QED
  BY <1>1, <1>2, <1>8, <1>9, <1>10, <1>11, <1>12, VoidingKeepsLedger

(***************************************************************************)
(* A batch is reverted, or removed with its executions.                    *)
(***************************************************************************)
LEMMA RevertKeepsLedger ==
  ASSUME LedgerInv, NEW b \in Batch, RevertStart(b)
  PROVE  LedgerInv'
<1> DEFINE gone == {e \in Execution : IsConfirmed(execution, e, b)}
<1>1. /\ Quiet /\ UNCHANGED <<manual, closed, today, pending>>
      /\ status' = [status EXCEPT ![b] = "PLANNED"] /\ fund' = [fund EXCEPT ![b] = 0]
      /\ ledger' = Compensated(gone)
      /\ execution' = [e \in Execution |->
                         IF e \in gone THEN Voided(execution[e])
                         ELSE IF execution[e].job = b /\ execution[e].status = "DRAFT" THEN NoExecution
                         ELSE execution[e]]
  BY DEF RevertStart
<1>2. /\ b \in Job /\ status \in [Job -> JobStatus] /\ fund \in [Job -> Nat]
      /\ status' \in [Job -> JobStatus] /\ fund' \in [Job -> Nat]
      /\ execution \in [Execution -> ExecutionType]
  BY <1>1 DEF Job, LedgerInv, ExecutionsTypeOK, JobStatus
<1>3. PICK y : y = execution'
  OBVIOUS
<1>4. gone \in SUBSET Execution /\ \A e \in gone : execution[e].status = "CONFIRMED"
  BY DEF IsConfirmed
<1>5. \A e \in Execution : RowOK(execution[e])
  BY DEF LedgerInv, Rows
<1>6. \A e \in gone : y[e] = Voided(execution[e])
  BY <1>1, <1>3
<1>7. \A e \in Execution : e \notin gone =>
        y[e] = IF execution[e].job = b /\ execution[e].status = "DRAFT" THEN NoExecution ELSE execution[e]
  BY <1>1, <1>3
<1>8. y \in [Execution -> ExecutionType]
  <2> SUFFICES ASSUME NEW e \in Execution PROVE y[e] \in ExecutionType
    BY <1>1, <1>3
  <2> QED
    BY <1>2, <1>4, <1>5, <1>6, <1>7, VoidedRows, BlankRows DEF RowOK
<1>9. \A e \in Execution : e \notin gone => y[e] = execution[e] \/ Redrafted(gone, e, y[e])
  <2> SUFFICES ASSUME NEW e \in Execution, e \notin gone, execution[e].status = "DRAFT"
               PROVE  Redrafted(gone, e, NoExecution)
    BY <1>7
  <2> QED
    BY BlankRows DEF Redrafted, NoExecution
<1>10. JobsUnderWay'
  <2> SUFFICES ASSUME NEW e \in Execution, y[e].status \in {"DRAFT", "CONFIRMED"}
               PROVE  UnderWay(execution[e].job)'
    BY <1>3 DEF JobsUnderWay
  <2>1. e \notin gone
    BY <1>4, <1>5, <1>6, VoidedRows
  <2>2. y[e] = execution[e] /\ execution[e].job # b
    BY <1>7, <2>1 DEF NoExecution, IsConfirmed
  <2>3. UnderWay(execution[e].job) /\ execution[e].job \in Job
    BY <1>5, <2>2 DEF LedgerInv, JobsUnderWay, RowOK
  <2> QED
    BY <1>1, <1>2, <1>3, <2>2, <2>3 DEF UnderWay
<1> HIDE DEF gone
<1> QED
  BY <1>1, <1>2, <1>3, <1>4, <1>6, <1>8, <1>9, <1>10, VoidingKeepsLedger

LEMMA RemoveBatchKeepsLedger ==
  ASSUME LedgerInv, NEW b \in Batch, RemoveBatch(b)
  PROVE  LedgerInv'
<1> DEFINE gone == [NoExecution EXCEPT !.status = "DELETED"]
<1>1. /\ Quiet /\ UNCHANGED <<ledger, manual, fund, closed, today, pending>>
      /\ status[b] \in {"PLANNED", "CANCELLED"}
      /\ status' = [status EXCEPT ![b] = "DELETED"]
      /\ execution' = [e \in Execution |-> IF execution[e].job = b THEN gone ELSE execution[e]]
  BY DEF RemoveBatch
<1>2. /\ b \in Job /\ status \in [Job -> JobStatus]
      /\ status' \in [Job -> JobStatus] /\ fund' \in [Job -> Nat]
      /\ manual' \in [Manual -> Seq(EntryType)] /\ ledger' \in LedgerType
      /\ execution \in [Execution -> ExecutionType]
  BY <1>1 DEF Job, LedgerInv, ExecutionsTypeOK, JobStatus, LedgerType
<1>3. PICK y : y = execution'
  OBVIOUS
<1>4. RowOK(gone) /\ Blank(gone) /\ gone.status = "DELETED" /\ gone.stamped = 0
  BY BlankRows DEF NoExecution
<1>5. \A e \in Execution : RowOK(execution[e])
  BY DEF LedgerInv, Rows
<1>6. \A e \in Execution : y[e] = IF execution[e].job = b THEN gone ELSE execution[e]
  BY <1>1, <1>3
<1> HIDE DEF gone
<1>7. y \in [Execution -> ExecutionType]
  <2> SUFFICES ASSUME NEW e \in Execution PROVE y[e] \in ExecutionType
    BY <1>1, <1>3
  <2> QED
    BY <1>4, <1>5, <1>6 DEF RowOK
<1>8. \A e \in Execution : execution[e].job = b => execution[e].status = "VOIDED"
  <2> SUFFICES ASSUME NEW e \in Execution, execution[e].job = b PROVE execution[e].status = "VOIDED"
    OBVIOUS
  <2>1. ~UnderWay(b)
    BY <1>1 DEF UnderWay
  <2>2. execution[e].status \notin {"DRAFT", "CONFIRMED"}
    BY <2>1 DEF LedgerInv, JobsUnderWay
  <2>3. execution[e].status \notin {"NONE", "DELETED"}
    BY <1>2, <1>5, ExecutionsAssumption DEF RowOK, Blank
  <2> QED
    BY <1>2, <2>2, <2>3 DEF ExecutionType
<1>9. Rows'
  BY <1>3, <1>4, <1>5, <1>6 DEF Rows
<1>10. Paid'
  <2> SUFFICES ASSUME NEW e \in Execution, NEW w \in Employee PROVE PaidFor(y[e], w, ledger[e][w])
    BY <1>1, <1>3 DEF Paid
  <2>1. PaidFor(execution[e], w, ledger[e][w])
    BY DEF LedgerInv, Paid
  <2> QED
    BY <1>4, <1>6, <1>8, <2>1 DEF PaidFor
<1>11. Replaced'
  <2> SUFFICES ASSUME NEW e \in Execution, y[e].replaces # 0
               PROVE  y[y[e].replaces].status \in {"VOIDED", "DELETED"}
    BY <1>3 DEF Replaced
  <2>1. y[e] = execution[e]
    BY <1>4, <1>6 DEF Blank
  <2>2. execution[y[e].replaces].status \in {"VOIDED", "DELETED"}
    BY <2>1 DEF LedgerInv, Replaced
  <2>3. y[e].replaces \in Execution
    <3>1. y[e].replaces \in 0..NumExecutions
      BY <1>7 DEF ExecutionType
    <3> QED
      BY <3>1, ExecutionsAssumption DEF Execution
  <2> QED
    BY <1>4, <1>6, <2>2, <2>3
<1>12. JobsUnderWay'
  <2> SUFFICES ASSUME NEW e \in Execution, y[e].status \in {"DRAFT", "CONFIRMED"}
               PROVE  UnderWay(execution[e].job)'
    BY <1>3 DEF JobsUnderWay
  <2>1. y[e] = execution[e] /\ execution[e].job # b
    BY <1>4, <1>6
  <2>2. UnderWay(execution[e].job) /\ execution[e].job \in Job
    BY <1>5, <2>1 DEF LedgerInv, JobsUnderWay, RowOK
  <2> QED
    BY <1>1, <1>2, <1>3, <2>1, <2>2 DEF UnderWay
<1>13. \A e \in Execution : y[e] = execution[e] \/ y[e].stamped = 0
  BY <1>4, <1>6
<1> QED
  BY <1>1, <1>2, <1>3, <1>7, <1>9, <1>10, <1>11, <1>12, <1>13, QuietKeepsLedger

-----------------------------------------------------------------------------
(* The ledger: confirmations. *)

LEMMA ReadingKeepsLedger ==
  ASSUME LedgerInv, NEW c \in Connection, NEW e \in Execution, ConfirmReads(c, e)
  PROVE  LedgerInv'
<1>1. /\ execution[e].status = "DRAFT" /\ Open(execution[e].day)
      /\ UNCHANGED <<execution, ledger, manual, status, fund, closed, today>>
  BY DEF ConfirmReads
<1>2. PICK x : x = execution[e]
  OBVIOUS
<1>3. /\ RowOK(x) /\ x.job \in Job /\ x.crew \in Crews /\ x.qty \in Nat /\ x.amount \in Nat
      /\ fund \in [Job -> Nat]
  BY <1>1, <1>2 DEF LedgerInv, Rows, RowOK, ExecutionType, ExecutionsTypeOK
<1>4. PICK amount \in Worth(x.job, x.qty, x.amount) : \E share \in Shares(amount, x.crew) :
        pending' = [pending EXCEPT ![c] = [of |-> e, amount |-> amount, share |-> share]]
  BY <1>2 DEF ConfirmReads
<1>5. PICK share \in Shares(amount, x.crew) :
        pending' = [pending EXCEPT ![c] = [of |-> e, amount |-> amount, share |-> share]]
  BY <1>4
<1>6. amount \in Nat
  BY <1>3, WorthNat
<1>7. /\ Len(x.crew) \in Nat /\ share \in [1..Len(x.crew) -> Int]
      /\ Total(share, Len(x.crew)) = amount
  BY <1>3, <1>6, SharesFit, CrewOK
<1>8. share \in Seq(Int) /\ Len(share) = Len(x.crew)
  BY <1>7
<1>9. e \in 0..NumExecutions
  BY ExecutionsAssumption DEF Execution
<1>10. pending \in [Connection -> [of: 0..NumExecutions, amount: Nat, share: Seq(Int)]]
  BY DEF LedgerInv, ExecutionsTypeOK
<1>11. pending' \in [Connection -> [of: 0..NumExecutions, amount: Nat, share: Seq(Int)]]
  BY <1>5, <1>6, <1>8, <1>9, <1>10
<1>12. ExecutionsTypeOK'
  BY <1>1, <1>11 DEF LedgerInv, ExecutionsTypeOK
<1>13. (Rows /\ Paid /\ Replaced /\ JobsUnderWay /\ UnitsSuffice)'
  BY <1>1 DEF LedgerInv, Rows, Paid, Replaced, JobsUnderWay, UnderWay, UnitsSuffice, Stamps
<1>14. ASSUME NEW d \in Connection PROVE PendingOK(d)'
  <2>1. CASE d = c
    <3>1. pending'[d] = [of |-> e, amount |-> amount, share |-> share]
      BY <1>5, <1>10, <2>1
    <3> QED
      BY <1>1, <1>2, <1>7, <1>8, <3>1 DEF PendingOK, Open
  <2>2. CASE d # c
    <3>1. pending'[d] = pending[d] /\ PendingOK(d)
      BY <1>5, <1>10, <2>2 DEF LedgerInv
    <3> QED
      BY <1>1, <3>1 DEF PendingOK, Open
  <2> QED
    BY <2>1, <2>2
<1> QED
  BY <1>12, <1>13, <1>14 DEF LedgerInv

(***************************************************************************)
(* A member of the crew gets one entry, whoever is not in it gets none.    *)
(***************************************************************************)
PaidOut(c) ==
  LET e == pending[c].of
      share == pending[c].share
      x == execution[e]
  IN  [w \in Employee |->
         ledger[e][w] \o [n \in 1..Cardinality(Places(e, w)) |->
           LET i == CHOOSE i \in Places(e, w) : TRUE
           IN  Entry(share[i], IF x.job \in Batch THEN x.qty * share[i] ELSE 0, x.day)]]
ConfirmedRow(c) ==
  [execution[pending[c].of] EXCEPT !.status = "CONFIRMED", !.amount = pending[c].amount,
                                   !.share = pending[c].share, !.stamped = Stamped(pending[c].of)]

\* What w is paid for the row of the execution e.
OneEntry(c, e, w) ==
  \/ /\ PaidOut(c)[w] = <<>>
     /\ \A i \in DOMAIN execution[e].crew : execution[e].crew[i].who # w
  \/ \E i \in DOMAIN execution[e].crew :
       execution[e].crew[i].who = w /\ PaidOut(c)[w] = <<EntryOf(ConfirmedRow(c), i)>>

LEMMA OneEntryEach ==
  ASSUME NEW c \in Connection, NEW e, pending[c].of = e, NEW w \in Employee,
         execution[e].crew \in Crews, ledger[e][w] = <<>>, ConfirmedRow(c).crew = execution[e].crew,
         \A i \in DOMAIN execution[e].crew : EntryOf(ConfirmedRow(c), i) =
           Entry(pending[c].share[i],
                 IF execution[e].job \in Batch THEN execution[e].qty * pending[c].share[i] ELSE 0,
                 execution[e].day)
  PROVE  OneEntry(c, e, w)
<1> DEFINE Ent(i) == Entry(pending[c].share[i],
                 IF execution[e].job \in Batch THEN execution[e].qty * pending[c].share[i] ELSE 0,
                 execution[e].day)
<1>1. PaidOut(c)[w] = <<>> \o [n \in 1..Cardinality(Places(e, w)) |-> Ent(CHOOSE i \in Places(e, w) : TRUE)]
  <2> DEFINE out(o) ==
        ledger[o][w] \o [n \in 1..Cardinality(Places(o, w)) |->
          LET i == CHOOSE i \in Places(o, w) : TRUE
          IN  Entry(pending[c].share[i],
                    IF execution[o].job \in Batch THEN execution[o].qty * pending[c].share[i] ELSE 0,
                    execution[o].day)]
  <2>1. PaidOut(c)[w] = out(pending[c].of)
    BY DEF PaidOut
  <2>2. out(pending[c].of) = out(e)
    OBVIOUS
  <2> QED
    BY <2>1, <2>2
<1>2. CASE Places(e, w) = {}
  <2>1. Cardinality(Places(e, w)) = 0
    BY <1>2, FS_EmptySet
  <2>2. [n \in 1..0 |-> Ent(CHOOSE i \in Places(e, w) : TRUE)] = <<>>
    BY ONLY TRUE
  <2>3. PaidOut(c)[w] = <<>> \o <<>>
    BY <1>1, <2>1, <2>2
  <2>4. PaidOut(c)[w] = <<>>
    BY <2>3
  <2> QED
    BY <1>2, <2>4 DEF Places, OneEntry
<1>3. CASE Places(e, w) # {}
  <2>1. PICK i \in DOMAIN execution[e].crew : execution[e].crew[i].who = w
    BY <1>3 DEF Places
  <2>2. Places(e, w) = {i}
    BY <2>1, CrewOK DEF Places
  <2>3. Cardinality(Places(e, w)) = 1
    BY <2>2, FS_Singleton
  <2>4. (CHOOSE k \in Places(e, w) : TRUE) = i
    BY <2>2
  <2>5. PICK v : v = Ent(i)
    OBVIOUS
  <2>6. PaidOut(c)[w] = <<>> \o [n \in 1..1 |-> v]
    BY <1>1, <2>3, <2>4, <2>5
  <2>7. [n \in 1..1 |-> v] = <<v>>
    BY ONLY TRUE
  <2>8. <<>> \o <<v>> = <<v>>
    BY ONLY TRUE
  <2> QED
    <3>1. EntryOf(ConfirmedRow(c), i) = v
      BY <2>1, <2>5
    <3>2. PaidOut(c)[w] = <<v>>
      BY <2>6, <2>7, <2>8
    <3> QED
      BY <2>1, <3>1, <3>2 DEF OneEntry
<1> QED
  BY <1>2, <1>3

(***************************************************************************)
(* A second confirmation of the same execution writes nothing: a unique    *)
(* index knows the entries of the first.                                   *)
(***************************************************************************)
NothingPaid(e) == \A w \in Employee : ledger[e][w] = <<>>

LEMMA PaidOnce ==
  ASSUME LedgerInv, NEW e \in Execution, execution[e].status = "CONFIRMED"
  PROVE  ~NothingPaid(e)
<1>1. execution[e].crew \in Crews
  BY DEF LedgerInv, Rows, RowOK
<1>2. PICK i \in DOMAIN execution[e].crew : execution[e].crew[i].who \in Employee
  <2>1. 1 \in DOMAIN execution[e].crew
    BY <1>1, CrewOK
  <2> QED
    BY <1>1, <2>1, CrewOK
<1>3. PICK w \in Employee : w = execution[e].crew[i].who
  BY <1>2
<1>4. PaidFor(execution[e], w, ledger[e][w])
  BY DEF LedgerInv, Paid
<1>5. ledger[e][w] # <<>>
  <2>1. \A v : <<v>> # <<>>
    OBVIOUS
  <2>2. ~(\A k \in DOMAIN execution[e].crew : execution[e].crew[k].who # w)
    BY <1>2, <1>3
  <2>3. PICK k : ledger[e][w] = <<EntryOf(execution[e], k)>>
    BY <1>4, <2>2 DEF PaidFor
  <2> QED
    BY <2>1, <2>3
<1> QED
  BY <1>5 DEF NothingPaid

(***************************************************************************)
(* What a confirmation that is the first one writes.                       *)
(***************************************************************************)
LEMMA WritesAre ==
  ASSUME NEW c \in Connection, NEW e, pending[c].of = e, ConfirmWrites(c)
  PROVE  /\ pending[c] # Idle /\ pending' = [pending EXCEPT ![c] = Idle]
         /\ UNCHANGED <<manual, status, fund, closed, today>>
         /\ NothingPaid(e) => /\ ledger' = [ledger EXCEPT ![e] = PaidOut(c)]
                              /\ execution' = [execution EXCEPT ![e] = ConfirmedRow(c)]
         /\ ~NothingPaid(e) => UNCHANGED <<ledger, execution>>
<1>1. /\ NothingPaid(pending[c].of) => /\ ledger' = [ledger EXCEPT ![pending[c].of] = PaidOut(c)]
                                       /\ execution' = [execution EXCEPT ![pending[c].of] = ConfirmedRow(c)]
      /\ ~NothingPaid(pending[c].of) => UNCHANGED <<ledger, execution>>
  BY DEF ConfirmWrites, NothingPaid, PaidOut, ConfirmedRow
<1>2. /\ pending[c] # Idle /\ pending' = [pending EXCEPT ![c] = Idle]
      /\ UNCHANGED <<manual, status, fund, closed, today>>
  BY DEF ConfirmWrites
<1> QED
  BY <1>1, <1>2

LEMMA ConfirmedRowOK ==
  ASSUME LedgerInv, NEW c \in Connection, pending[c] # Idle, NEW e, pending[c].of = e, NothingPaid(e)
  PROVE  /\ e \in Execution /\ execution[e].status = "DRAFT" /\ RowOK(execution[e])
         /\ RowOK(ConfirmedRow(c)) /\ ConfirmedRow(c).status = "CONFIRMED"
         /\ ConfirmedRow(c).job = execution[e].job /\ ConfirmedRow(c).day = execution[e].day
         /\ ConfirmedRow(c).crew = execution[e].crew /\ ConfirmedRow(c).qty = execution[e].qty
         /\ ConfirmedRow(c).replaces = execution[e].replaces
         /\ ConfirmedRow(c).share = pending[c].share /\ ConfirmedRow(c).amount = pending[c].amount
         /\ ConfirmedRow(c).stamped = Stamped(e)
         /\ execution[e].job \in Batch => Stamped(e) <= Units[execution[e].job] - Stamps(execution[e].job)
<1>1. /\ e \in Execution /\ execution[e].status \in {"DRAFT", "CONFIRMED"}
      /\ Len(pending[c].share) = Len(execution[e].crew)
      /\ Total(pending[c].share, Len(pending[c].share)) = pending[c].amount
  BY DEF LedgerInv, PendingOK
<1>2. execution[e].status = "DRAFT"
  BY <1>1, PaidOnce
<1>3. RowOK(execution[e]) /\ execution[e] \in ExecutionType /\ execution[e].job \in Job /\ execution[e].crew \in Crews
  BY <1>1 DEF LedgerInv, Rows, RowOK
<1>4. pending[c].amount \in Nat /\ pending[c].share \in Seq(Int)
  BY DEF LedgerInv, ExecutionsTypeOK
<1>5. /\ Stamped(e) \in Nat
      /\ execution[e].job \in Batch => Stamped(e) <= Units[execution[e].job] - Stamps(execution[e].job)
  <2>1. CASE execution[e].job \notin Batch
    BY <2>1 DEF Stamped
  <2>2. CASE execution[e].job \in Batch
    <3>1. PICK b \in Batch : b = execution[e].job
      BY <2>2
    <3>2. PICK s \in Nat : s = Stamps(b)
      <4>1. PICK x : x = execution
        OBVIOUS
      <4>2. RowsTyped(x)
        BY <4>1 DEF LedgerInv, ExecutionsTypeOK, RowsTyped
      <4> QED
        BY <4>1, <4>2, StampsAre, SumsTyped
    <3>3. PICK u \in Nat : u = Units[b] /\ s <= u
      BY <3>2, ExecutionsAssumption DEF LedgerInv, UnitsSuffice
    <3>4. PICK h \in Nat : h = execution[e].qty \div 2
      <4>1. execution[e].qty \in Nat
        BY <1>3 DEF ExecutionType
      <4> QED
        BY <4>1
    <3>5. Stamped(e) = Least(h, u - s)
      BY <3>1, <3>2, <3>3, <3>4 DEF Stamped
    <3>6. Least(h, u - s) \in Nat /\ Least(h, u - s) <= u - s
      BY <3>3 DEF Least
    <3> QED
      BY <3>1, <3>2, <3>3, <3>5, <3>6
  <2> QED
    BY <2>1, <2>2
<1>6. ConfirmedRow(c) = [execution[e] EXCEPT !.status = "CONFIRMED", !.amount = pending[c].amount,
                                             !.share = pending[c].share, !.stamped = Stamped(e)]
  BY DEF ConfirmedRow
<1>7. PICK x, s, a, sh : x = execution[e] /\ s = Stamped(e) /\ a = pending[c].amount /\ sh = pending[c].share
  OBVIOUS
<1>8. PICK y : y = ConfirmedRow(c)
  OBVIOUS
<1>9. /\ y \in ExecutionType
      /\ y.status = "CONFIRMED" /\ y.job = x.job /\ y.day = x.day /\ y.crew = x.crew /\ y.qty = x.qty
      /\ y.replaces = x.replaces /\ y.share = sh /\ y.amount = a /\ y.stamped = s
  BY <1>3, <1>4, <1>5, <1>6, <1>7, <1>8 DEF ExecutionType
<1>10. RowOK(y)
  BY <1>1, <1>3, <1>7, <1>9 DEF RowOK
<1> QED
  BY <1>1, <1>2, <1>3, <1>5, <1>7, <1>8, <1>9, <1>10

LEMMA WritingKeepsLedger ==
  ASSUME LedgerInv, NEW c \in Connection, ConfirmWrites(c)
  PROVE  LedgerInv'
<1>1. PICK e : e = pending[c].of
  OBVIOUS
<1>2. /\ pending[c] # Idle /\ pending' = [pending EXCEPT ![c] = Idle]
      /\ UNCHANGED <<manual, status, fund, closed, today>>
  BY <1>1, WritesAre
<1>3. pending \in [Connection -> [of: 0..NumExecutions, amount: Nat, share: Seq(Int)]]
  BY DEF LedgerInv, ExecutionsTypeOK
<1>4. pending' \in [Connection -> [of: 0..NumExecutions, amount: Nat, share: Seq(Int)]]
  <2>1. Idle \in [of: 0..NumExecutions, amount: Nat, share: Seq(Int)]
    BY ExecutionsAssumption DEF Idle
  <2> QED
    BY <1>2, <1>3, <2>1
<1>5. CASE ~NothingPaid(e)
  <2>1. UNCHANGED <<ledger, execution>>
    BY <1>1, <1>5, WritesAre
  <2>2. ExecutionsTypeOK'
    BY <1>2, <1>4, <2>1 DEF LedgerInv, ExecutionsTypeOK
  <2>3. (Rows /\ Paid /\ Replaced /\ JobsUnderWay /\ UnitsSuffice)'
    BY <1>2, <2>1 DEF LedgerInv, Rows, Paid, Replaced, JobsUnderWay, UnderWay, UnitsSuffice, Stamps
  <2>4. ASSUME NEW d \in Connection PROVE PendingOK(d)'
    <3>1. PendingOK(d) /\ (pending'[d] = Idle \/ pending'[d] = pending[d])
      BY <1>2, <1>3 DEF LedgerInv
    <3> QED
      BY <1>2, <2>1, <3>1 DEF PendingOK, Open, Idle
  <2> QED
    BY <2>2, <2>3, <2>4 DEF LedgerInv
<1>6. CASE NothingPaid(e)
  <2>1. /\ ledger' = [ledger EXCEPT ![e] = PaidOut(c)]
        /\ execution' = [execution EXCEPT ![e] = ConfirmedRow(c)]
    BY <1>1, <1>6, WritesAre
  <2>2. PICK row : row = ConfirmedRow(c)
    OBVIOUS
  <2>3. /\ e \in Execution /\ execution[e].status = "DRAFT" /\ RowOK(execution[e])
        /\ RowOK(row) /\ row.status = "CONFIRMED"
        /\ row.job = execution[e].job /\ row.day = execution[e].day
        /\ row.crew = execution[e].crew /\ row.qty = execution[e].qty
        /\ row.replaces = execution[e].replaces /\ row.share = pending[c].share
        /\ row.stamped = Stamped(e)
        /\ execution[e].job \in Batch => Stamped(e) <= Units[execution[e].job] - Stamps(execution[e].job)
    BY <1>1, <1>2, <1>6, <2>2, ConfirmedRowOK
  <2>4. PICK y : y = execution'
    OBVIOUS
  <2>5. /\ execution \in [Execution -> ExecutionType] /\ y \in [Execution -> ExecutionType]
        /\ y[e] = row /\ \A o \in Execution : o # e => y[o] = execution[o]
    BY <2>1, <2>2, <2>3, <2>4 DEF LedgerInv, ExecutionsTypeOK, RowOK
  <2>6. ASSUME NEW w \in Employee
        PROVE  PaidOut(c)[w] \in Seq(EntryType) /\ PaidFor(row, w, PaidOut(c)[w])
    <3>1. execution[e].crew \in Crews /\ DOMAIN execution[e].crew = 1..Len(execution[e].crew)
      BY <2>3, CrewOK DEF RowOK
    <3>2. \A i \in DOMAIN execution[e].crew : EntryOf(row, i) =
           Entry(pending[c].share[i],
                 IF execution[e].job \in Batch THEN execution[e].qty * pending[c].share[i] ELSE 0,
                 execution[e].day)
      BY <2>3 DEF EntryOf
    <3>3. \/ /\ PaidOut(c)[w] = <<>>
             /\ \A i \in DOMAIN execution[e].crew : execution[e].crew[i].who # w
          \/ \E i \in DOMAIN execution[e].crew :
               execution[e].crew[i].who = w /\ PaidOut(c)[w] = <<EntryOf(row, i)>>
      <4>1. /\ pending[c].of = e /\ ledger[e][w] = <<>> /\ execution[e].crew \in Crews
            /\ ConfirmedRow(c).crew = execution[e].crew
        BY <1>1, <1>6, <2>2, <2>3, <3>1 DEF NothingPaid
      <4>2. \A i \in DOMAIN execution[e].crew : EntryOf(ConfirmedRow(c), i) =
             Entry(pending[c].share[i],
                   IF execution[e].job \in Batch THEN execution[e].qty * pending[c].share[i] ELSE 0,
                   execution[e].day)
        BY <2>2, <3>2
      <4>3. OneEntry(c, e, w)
        BY <4>1, <4>2, OneEntryEach
      <4> QED
        BY <2>2, <4>3 DEF OneEntry
    <3>4. PaidFor(row, w, PaidOut(c)[w])
      BY <2>3, <3>3 DEF PaidFor
    <3>5. \A i \in DOMAIN execution[e].crew : EntryOf(row, i) \in EntryType
      <4> TAKE i \in DOMAIN execution[e].crew
      <4>1. row.share \in Seq(Int) /\ Len(row.share) = Len(row.crew) /\ row.qty \in Nat /\ row.day \in Day
        BY <2>3 DEF RowOK, ExecutionType
      <4>2. row.share[i] \in Int
        BY <2>3, <3>1, <4>1
      <4>3. row.qty * row.share[i] \in Int
        BY <4>1, <4>2
      <4> QED
        BY <4>1, <4>2, <4>3 DEF EntryOf, Entry, EntryType
    <3>6. <<>> \in Seq(EntryType) /\ \A v \in EntryType : <<v>> \in Seq(EntryType)
      OBVIOUS
    <3>7. PaidOut(c)[w] = <<>> \/ \E v \in EntryType : PaidOut(c)[w] = <<v>>
      BY <3>3, <3>5
    <3> QED
      BY <3>4, <3>6, <3>7
  <2>7. ledger \in LedgerType /\ ledger' \in LedgerType
    <3>1. ledger \in LedgerType
      BY DEF LedgerInv, ExecutionsTypeOK, LedgerType
    <3>2. PaidOut(c) = [w \in Employee |-> PaidOut(c)[w]]
      BY DEF PaidOut
    <3>3. PaidOut(c) \in [Employee -> Seq(EntryType)]
      BY <2>6, <3>2
    <3> QED
      BY <2>1, <3>1, <3>3 DEF LedgerType
  <2>8. ExecutionsTypeOK'
    BY <1>2, <1>4, <2>4, <2>5, <2>7 DEF LedgerInv, ExecutionsTypeOK, LedgerType
  <2>9. Rows'
    BY <2>3, <2>4, <2>5 DEF LedgerInv, Rows
  <2>10. Paid'
    <3> SUFFICES ASSUME NEW o \in Execution, NEW w \in Employee PROVE PaidFor(y[o], w, ledger'[o][w])
      BY <2>4 DEF Paid
    <3>1. CASE o = e
      BY <2>1, <2>3, <2>5, <2>6, <2>7, <3>1 DEF LedgerType
    <3>2. CASE o # e
      <4>1. ledger'[o] = ledger[o]
        BY <2>1, <2>7, <3>2 DEF LedgerType
      <4> QED
        BY <2>5, <3>2, <4>1 DEF LedgerInv, Paid
    <3> QED
      BY <3>1, <3>2
  <2>11. Replaced'
    <3> SUFFICES ASSUME NEW o \in Execution, y[o].replaces # 0
                 PROVE  y[y[o].replaces].status \in {"VOIDED", "DELETED"}
      BY <2>4 DEF Replaced
    <3>1. y[o].replaces = execution[o].replaces
      BY <2>3, <2>5
    <3>2. execution[y[o].replaces].status \in {"VOIDED", "DELETED"}
      BY <3>1 DEF LedgerInv, Replaced
    <3>3. y[o].replaces \in Execution
      <4>1. y[o].replaces \in 0..NumExecutions
        BY <2>5 DEF ExecutionType
      <4> QED
        BY <4>1, ExecutionsAssumption DEF Execution
    <3> QED
      BY <2>3, <2>5, <3>2, <3>3
  <2>12. JobsUnderWay'
    <3> SUFFICES ASSUME NEW o \in Execution, y[o].status \in {"DRAFT", "CONFIRMED"}
                 PROVE  UnderWay(execution[o].job)'
      BY <2>4 DEF JobsUnderWay
    <3>1. UnderWay(y[o].job)
      BY <2>3, <2>5 DEF LedgerInv, JobsUnderWay
    <3> QED
      BY <1>2, <2>4, <3>1 DEF UnderWay
  <2>13. UnitsSuffice'
    <3> SUFFICES ASSUME NEW b \in Batch PROVE Stamps(b)' <= Units[b]
      BY DEF UnitsSuffice
    <3>1. PICK x : x = execution
      OBVIOUS
    <3>2. RowsTyped(x) /\ RowsTyped(y)
      BY <2>5, <3>1 DEF RowsTyped
    <3>3. x[e].stamped = 0 /\ \A o \in Execution : o # e => y[o] = x[o]
      BY <2>3, <2>5, <3>1 DEF RowOK
    <3>4. StampsOf(y, b) = StampsOf(x, b) + (IF y[e].job = b THEN y[e].stamped ELSE 0)
      BY <2>3, <3>2, <3>3, OneMoreStamped
    <3>5. Stamps(b) = StampsOf(x, b) /\ Stamps(b)' = StampsOf(y, b)
      BY <2>4, <3>1, StampsAre
    <3>6. StampsOf(x, b) \in Nat /\ Units[b] \in Nat /\ y[e].stamped \in Nat
      BY <2>3, <2>5, <3>2, SumsTyped, ExecutionsAssumption DEF RowsTyped, ExecutionType
    <3>7. StampsOf(x, b) <= Units[b]
      BY <3>5 DEF LedgerInv, UnitsSuffice
    <3>8. y[e].job = b => y[e].stamped <= Units[b] - StampsOf(x, b)
      BY <2>3, <2>5, <3>5
    <3> QED
      BY <3>4, <3>5, <3>6, <3>7, <3>8
  <2>14. ASSUME NEW d \in Connection PROVE PendingOK(d)'
    <3>1. PendingOK(d) /\ (pending'[d] = Idle \/ pending'[d] = pending[d])
      BY <1>2, <1>3 DEF LedgerInv
    <3>2. \A o \in Execution : /\ y[o].crew = execution[o].crew /\ y[o].day = execution[o].day
                               /\ y[o].status = execution[o].status \/ y[o].status = "CONFIRMED"
      BY <2>3, <2>5
    <3> QED
      BY <1>2, <2>4, <3>1, <3>2 DEF PendingOK, Open, Idle
  <2> QED
    BY <2>8, <2>9, <2>10, <2>11, <2>12, <2>13, <2>14 DEF LedgerInv
<1> QED
  BY <1>5, <1>6

-----------------------------------------------------------------------------
(* The ledger: manual entries, periods and days, and the theorems. *)

LEMMA OthersKeepLedger ==
  ASSUME LedgerInv, UNCHANGED <<execution, ledger, status, fund, pending>>, Quiet \/ closed' = closed,
         manual' \in [Manual -> Seq(EntryType)], closed' \subseteq Period, today' \in Day
  PROVE  LedgerInv'
<1>1. ExecutionsTypeOK'
  BY DEF LedgerInv, ExecutionsTypeOK
<1>2. (Rows /\ Paid /\ Replaced /\ JobsUnderWay /\ UnitsSuffice)'
  BY DEF LedgerInv, Rows, Paid, Replaced, JobsUnderWay, UnderWay, UnitsSuffice, Stamps
<1>3. ASSUME NEW c \in Connection PROVE PendingOK(c)'
  <2>1. CASE Quiet
    BY <2>1 DEF Quiet, PendingOK
  <2>2. CASE closed' = closed
    BY <2>2 DEF LedgerInv, PendingOK, Open
  <2> QED
    BY <2>1, <2>2
<1> QED
  BY <1>1, <1>2, <1>3 DEF LedgerInv

LEMMA ManualKeepsLedger ==
  ASSUME LedgerInv, NEW m \in Manual, RecordManual(m) \/ VoidManual(m)
  PROVE  LedgerInv'
<1>1. ManualOnly
  BY DEF RecordManual, VoidManual
<1>2. manual \in [Manual -> Seq(EntryType)] /\ closed \subseteq Period /\ today \in Day
  BY DEF LedgerInv, ExecutionsTypeOK
<1>3. PICK l \in Seq(EntryType) : manual' = [manual EXCEPT ![m] = l]
  <2>1. CASE RecordManual(m)
    <3>1. PICK amount \in Signed, day \in Day : manual' = [manual EXCEPT ![m] = <<Entry(amount, 0, day)>>]
      BY <2>1 DEF RecordManual
    <3>2. Entry(amount, 0, day) \in EntryType
      BY ExecutionsAssumption DEF Entry, EntryType
    <3>3. <<Entry(amount, 0, day)>> \in Seq(EntryType)
      BY <3>2
    <3> QED
      BY <3>1, <3>3
  <2>2. CASE VoidManual(m)
    <3>1. manual[m] \in Seq(EntryType) /\ Len(manual[m]) = 1
      BY <1>2, <2>2 DEF VoidManual
    <3>2. Undone(manual[m]) \in Seq(EntryType)
      BY <1>2, <3>1, UndoneTakesBack
    <3>3. manual' = [manual EXCEPT ![m] = Undone(manual[m])]
      BY <2>2 DEF VoidManual
    <3> QED
      BY <3>2, <3>3
  <2> QED
    BY <2>1, <2>2
<1>4. manual' \in [Manual -> Seq(EntryType)]
  BY <1>2, <1>3
<1> QED
  BY <1>1, <1>2, <1>4, OthersKeepLedger DEF ManualOnly

LEMMA PeriodKeepsLedger ==
  ASSUME LedgerInv, NEW p \in Period, ClosePeriod(p) \/ ReopenPeriod(p)
  PROVE  LedgerInv'
<1>1. manual \in [Manual -> Seq(EntryType)] /\ closed \subseteq Period /\ today \in Day
  BY DEF LedgerInv, ExecutionsTypeOK
<1> QED
  BY <1>1, OthersKeepLedger DEF ClosePeriod, ReopenPeriod

LEMMA DayKeepsLedger ==
  ASSUME LedgerInv, NextDay
  PROVE  LedgerInv'
<1>1. manual \in [Manual -> Seq(EntryType)] /\ closed \subseteq Period /\ today \in Day
  BY DEF LedgerInv, ExecutionsTypeOK
<1>2. today' \in Day
  BY <1>1, ExecutionsAssumption DEF NextDay, Day
<1> QED
  BY <1>1, <1>2, OthersKeepLedger DEF NextDay

LEMMA LedgerInit == Init => LedgerInv
<1> SUFFICES ASSUME Init PROVE LedgerInv
  OBVIOUS
<1> USE DEF Init
<1>1. RowOK(NoExecution) /\ Blank(NoExecution) /\ NoExecution.status = "NONE" /\ NoExecution.stamped = 0
  BY BlankRows DEF NoExecution
<1>2. \A e \in Execution : execution[e] = NoExecution
  OBVIOUS
<1>3. ExecutionsTypeOK
  <2>1. execution \in [Execution -> ExecutionType]
    BY <1>1 DEF RowOK
  <2>2. <<>> \in Seq(EntryType) /\ <<>> \in Seq(Int)
    OBVIOUS
  <2>3. ledger \in [Execution -> [Employee -> Seq(EntryType)]] /\ manual \in [Manual -> Seq(EntryType)]
    BY <2>2
  <2>4. 1 \in Day /\ 0 \in 0..NumExecutions
    BY ExecutionsAssumption DEF Day
  <2>5. pending \in [Connection -> [of: 0..NumExecutions, amount: Nat, share: Seq(Int)]]
    BY <2>2, <2>4 DEF Idle
  <2> QED
    BY <2>1, <2>3, <2>4, <2>5 DEF ExecutionsTypeOK
<1>4. Rows
  BY <1>1, <1>2 DEF Rows
<1>5. Paid
  <2>1. \A e \in Execution, w \in Employee : ledger[e][w] = <<>>
    OBVIOUS
  <2> QED
    BY <1>1, <1>2, <2>1 DEF Paid, PaidFor
<1>6. Replaced /\ JobsUnderWay
  BY <1>1, <1>2 DEF Replaced, JobsUnderWay, Blank
<1>7. \A c \in Connection : PendingOK(c)
  BY DEF PendingOK
<1> HIDE DEF Init
<1>8. UnitsSuffice
  <2> SUFFICES ASSUME NEW b \in Batch PROVE Stamps(b) <= Units[b]
    BY DEF UnitsSuffice
  <2>1. [e \in Execution |-> IF execution[e].job = b THEN execution[e].stamped ELSE 0] = [i \in 1..NumExecutions |-> 0]
    BY <1>1, <1>2 DEF Execution
  <2>2. Total([i \in 1..NumExecutions |-> 0], NumExecutions) = 0
    BY TotalZero, ExecutionsAssumption
  <2> QED
    BY <2>1, <2>2, ExecutionsAssumption DEF Stamps
<1> QED
  BY <1>3, <1>4, <1>5, <1>6, <1>7, <1>8 DEF LedgerInv

LEMMA LedgerStep ==
  ASSUME LedgerInv, [Next]_vars
  PROVE  LedgerInv'
<1>1. ASSUME NEW b \in Batch, BatchStep(b) PROVE LedgerInv'
  BY <1>1, BatchKeepsLedger, RemoveBatchKeepsLedger, RevertKeepsLedger DEF BatchStep
<1>2. ASSUME NEW t \in Task, TaskStep(t) PROVE LedgerInv'
  BY <1>2, TaskKeepsLedger
<1>3. ASSUME NEW e \in Execution, ExecutionStep(e) PROVE LedgerInv'
  BY <1>3, DraftKeepsLedger, VoidKeepsLedger, CorrectKeepsLedger DEF ExecutionStep
<1>4. ASSUME NEW c \in Connection, ConfirmWrites(c) \/ \E e \in Execution : ConfirmReads(c, e) PROVE LedgerInv'
  BY <1>4, WritingKeepsLedger, ReadingKeepsLedger
<1>5. ASSUME NEW m \in Manual, RecordManual(m) \/ VoidManual(m) PROVE LedgerInv'
  BY <1>5, ManualKeepsLedger
<1>6. ASSUME NEW p \in Period, ClosePeriod(p) \/ ReopenPeriod(p) PROVE LedgerInv'
  BY <1>6, PeriodKeepsLedger
<1>7. ASSUME UNCHANGED vars PROVE LedgerInv'
  <2>1. manual \in [Manual -> Seq(EntryType)] /\ closed \subseteq Period /\ today \in Day
    BY DEF LedgerInv, ExecutionsTypeOK
  <2> QED
    BY <1>7, <2>1, OthersKeepLedger DEF vars
<1> QED
  BY <1>1, <1>2, <1>3, <1>4, <1>5, <1>6, <1>7, DayKeepsLedger DEF Next

(***************************************************************************)
(* Rows, entries, funds and confirmations under way keep their types       *)
(* however many confirmations overlap: a confirmation only ever writes to  *)
(* an execution that is there, shares add up, stamps never run out.        *)
(***************************************************************************)
THEOREM LedgerInvariant == Spec => []LedgerInv
<1>1. LedgerInv /\ [Next]_vars => LedgerInv'
  BY LedgerStep
<1> QED
  BY <1>1, LedgerInit, PTL DEF Spec

THEOREM ExecutionsTypes == Spec => []ExecutionsTypeOK
<1>1. LedgerInv => ExecutionsTypeOK
  BY DEF LedgerInv
<1> QED
  BY <1>1, LedgerInvariant, PTL

-----------------------------------------------------------------------------
(* Who is paid, and that nothing is written into a closed period. *)

LEMMA EmptyAdds == Adds(<<>>, 0, 0)
<1>1. [i \in DOMAIN <<>> |-> <<>>[i].amount] = <<>> /\ [i \in DOMAIN <<>> |-> <<>>[i].units] = <<>>
  OBVIOUS
<1> QED
  BY <1>1, EmptyTotal DEF Adds

LEMMA OneAdds ==
  ASSUME NEW v \in EntryType
  PROVE  Adds(<<v>>, v.amount, v.units)
<1>1. v.amount \in Int /\ v.units \in Int
  BY DEF EntryType
<1>2. PICK l : l = <<v>>
  OBVIOUS
<1>3. DOMAIN l = 1..1 /\ Len(l) = 1 /\ l[1] = v
  BY <1>2
<1> DEFINE f == [i \in 1..1 |-> l[i].amount]
           g == [i \in 1..1 |-> l[i].units]
<1>4. f \in [1..1 -> Int] /\ f[1] = v.amount /\ g \in [1..1 -> Int] /\ g[1] = v.units
  BY <1>1, <1>3
<1> HIDE DEF f, g
<1>5. Total(f, 1) = v.amount /\ Total(g, 1) = v.units
  BY <1>4, TotalOne
<1>6. Adds(l, v.amount, v.units)
  BY <1>3, <1>5 DEF Adds, f, g
<1> QED
  BY <1>2, <1>6

LEMMA TwoAdd ==
  ASSUME NEW l \in Seq(EntryType), TakenBack(l)
  PROVE  Adds(l, 0, 0)
<1>1. Len(l) = 2 /\ DOMAIN l = 1..2
  BY DEF TakenBack
<1>2. l[1] \in EntryType /\ l[2] \in EntryType
  BY <1>1
<1>3. /\ l[1].amount \in Int /\ l[1].units \in Int /\ l[2].amount \in Int /\ l[2].units \in Int
      /\ l[2].amount = - l[1].amount /\ l[2].units = - l[1].units
  BY <1>2 DEF EntryType, TakenBack
<1> DEFINE f == [i \in 1..2 |-> l[i].amount]
           g == [i \in 1..2 |-> l[i].units]
<1>4. /\ f \in [1..2 -> Int] /\ f[1] = l[1].amount /\ f[2] = l[2].amount
      /\ g \in [1..2 -> Int] /\ g[1] = l[1].units /\ g[2] = l[2].units
  <2>1. \A i \in 1..2 : i = 1 \/ i = 2
    OBVIOUS
  <2> QED
    BY <1>3, <2>1
<1> HIDE DEF f, g
<1>5. Total(f, 2) = f[1] + f[2] /\ Total(g, 2) = g[1] + g[2]
  BY <1>4, TotalTwo
<1>6. Total(f, 2) = 0 /\ Total(g, 2) = 0
  BY <1>3, <1>4, <1>5
<1> QED
  BY <1>1, <1>6 DEF Adds, f, g

LEMMA LedgerInvMatches == LedgerInv => LedgerMatchesExecutions
<1> SUFFICES ASSUME LedgerInv, NEW e \in Execution
             PROVE  /\ Total(execution[e].share, Len(execution[e].share)) = execution[e].amount
                    /\ \A w \in Employee :
                         IF execution[e].status = "CONFIRMED" /\ Places(e, w) # {}
                         THEN \E i \in Places(e, w) :
                                Adds(ledger[e][w], execution[e].share[i],
                                     IF execution[e].job \in Batch
                                     THEN execution[e].qty * execution[e].share[i] ELSE 0)
                         ELSE Adds(ledger[e][w], 0, 0)
                    /\ execution[e].replaces # 0 =>
                         execution[execution[e].replaces].status \in {"VOIDED", "DELETED"}
  BY DEF LedgerMatchesExecutions
<1>1. RowOK(execution[e]) /\ execution[e] \in ExecutionType
  BY DEF LedgerInv, Rows, RowOK
<1>2. ASSUME NEW w \in Employee
      PROVE  IF execution[e].status = "CONFIRMED" /\ Places(e, w) # {}
             THEN \E i \in Places(e, w) :
                    Adds(ledger[e][w], execution[e].share[i],
                         IF execution[e].job \in Batch THEN execution[e].qty * execution[e].share[i] ELSE 0)
             ELSE Adds(ledger[e][w], 0, 0)
  <2>1. PaidFor(execution[e], w, ledger[e][w]) /\ ledger[e][w] \in Seq(EntryType)
    BY DEF LedgerInv, Paid, ExecutionsTypeOK
  <2>2. CASE execution[e].status = "CONFIRMED" /\ Places(e, w) # {}
    <3>1. PICK i \in DOMAIN execution[e].crew :
             execution[e].crew[i].who = w /\ ledger[e][w] = <<EntryOf(execution[e], i)>>
      BY <2>1, <2>2 DEF PaidFor, Places
    <3>2. PICK v : v = EntryOf(execution[e], i)
      OBVIOUS
    <3>3. v \in EntryType
      <4>1. Len(ledger[e][w]) = 1 /\ ledger[e][w][1] = v
        BY <3>1, <3>2
      <4> QED
        BY <2>1, <4>1
    <3>4. Adds(ledger[e][w], v.amount, v.units)
      BY <3>1, <3>2, <3>3, OneAdds
    <3>5. /\ v.amount = execution[e].share[i]
          /\ v.units = IF execution[e].job \in Batch THEN execution[e].qty * execution[e].share[i] ELSE 0
      BY <3>2 DEF EntryOf, Entry
    <3>6. i \in Places(e, w)
      BY <3>1 DEF Places
    <3> QED
      BY <2>2, <3>4, <3>5, <3>6
  <2>3. CASE ~(execution[e].status = "CONFIRMED" /\ Places(e, w) # {})
    <3>1. ledger[e][w] = <<>> \/ TakenBack(ledger[e][w])
      BY <1>1, <2>1, <2>3 DEF PaidFor, Places, ExecutionType
    <3>2. Adds(ledger[e][w], 0, 0)
      BY <2>1, <3>1, EmptyAdds, TwoAdd
    <3> QED
      BY <2>3, <3>2
  <2> QED
    BY <2>2, <2>3
<1> QED
  BY <1>1, <1>2 DEF RowOK, LedgerInv, Replaced

(***************************************************************************)
(* Everybody is paid for what is confirmed and for nothing else, to the    *)
(* last cent, however confirmations, voids, corrections and the reversal   *)
(* or removal of batches follow each other and however confirmations       *)
(* overlap.                                                                *)
(***************************************************************************)
THEOREM LedgerMatches == Spec => []LedgerMatchesExecutions
BY LedgerInvariant, LedgerInvMatches, PTL

\* What a step leaves of the ledger on a day.
KeepsDay(day) ==
  /\ \A e \in Execution, w \in Employee :
       Len(ledger'[e][w]) > Len(ledger[e][w]) => ledger'[e][w][Len(ledger'[e][w])].day # day
  /\ \A m \in Manual :
       Len(manual'[m]) > Len(manual[m]) => manual'[m][Len(manual'[m])].day # day

LEMMA NothingWritten ==
  ASSUME LedgerInv, UNCHANGED <<ledger, manual>>, NEW day
  PROVE  KeepsDay(day)
<1>1. ASSUME NEW e \in Execution, NEW w \in Employee PROVE ~(Len(ledger'[e][w]) > Len(ledger[e][w]))
  <2>1. Len(ledger[e][w]) \in Nat
    BY DEF LedgerInv, ExecutionsTypeOK
  <2> QED
    BY <2>1
<1>2. ASSUME NEW m \in Manual PROVE ~(Len(manual'[m]) > Len(manual[m]))
  <2>1. Len(manual[m]) \in Nat
    BY DEF LedgerInv, ExecutionsTypeOK
  <2> QED
    BY <2>1
<1> QED
  BY <1>1, <1>2 DEF KeepsDay

LEMMA CompensatedToday ==
  ASSUME LedgerInv, NEW E \in SUBSET Execution, \A e \in E : execution[e].status = "CONFIRMED",
         ledger' = Compensated(E), UNCHANGED manual,
         NEW day, E # {} => day # today
  PROVE  KeepsDay(day)
<1>1. today \in Day /\ ledger \in LedgerType
  BY DEF LedgerInv, ExecutionsTypeOK, LedgerType
<1>2. ASSUME NEW e \in Execution, NEW w \in Employee, Len(ledger'[e][w]) > Len(ledger[e][w])
      PROVE  ledger'[e][w][Len(ledger'[e][w])].day # day
  <2>1. ledger[e][w] \in Seq(EntryType) /\ Len(ledger[e][w]) \in Nat
    BY <1>1 DEF LedgerType
  <2>2. e \in E /\ Places(e, w) # {} /\ ledger'[e][w] = Undone(ledger[e][w])
    BY <1>2, <2>1 DEF Compensated
  <2>3. PICK i : ledger[e][w] = <<EntryOf(execution[e], i)>>
    BY <2>2 DEF LedgerInv, Paid, PaidFor, Places
  <2>4. Len(ledger[e][w]) = 1
    BY <2>3
  <2>5. Undone(ledger[e][w])[2].day = today /\ Len(Undone(ledger[e][w])) = 2
    BY <1>1, <2>1, <2>4, UndoneTakesBack DEF TakenBack
  <2> QED
    BY <2>2, <2>5
<1>3. ASSUME NEW m \in Manual PROVE ~(Len(manual'[m]) > Len(manual[m]))
  <2>1. Len(manual[m]) \in Nat
    BY DEF LedgerInv, ExecutionsTypeOK
  <2> QED
    BY <2>1
<1> QED
  BY <1>2, <1>3 DEF KeepsDay

LEMMA ConfirmedOnItsDay ==
  ASSUME LedgerInv, NEW c \in Connection, ConfirmWrites(c), NEW day, ~Open(day)
  PROVE  KeepsDay(day)
<1>1. PICK e : e = pending[c].of
  OBVIOUS
<1>2. pending[c] # Idle /\ manual' = manual
  BY <1>1, WritesAre
<1>3. CASE ~NothingPaid(e)
  BY <1>1, <1>2, <1>3, WritesAre, NothingWritten
<1>4. CASE NothingPaid(e)
  <2>1. PICK row : row = ConfirmedRow(c)
    OBVIOUS
  <2>2. /\ e \in Execution /\ RowOK(row) /\ row.status = "CONFIRMED"
        /\ row.day = execution[e].day
    BY <1>1, <1>2, <1>4, <2>1, ConfirmedRowOK
  <2>3. LedgerInv'
    BY WritingKeepsLedger
  <2>4. /\ ledger' = [ledger EXCEPT ![e] = PaidOut(c)]
        /\ execution' = [execution EXCEPT ![e] = ConfirmedRow(c)]
    BY <1>1, <1>4, WritesAre
  <2>5. execution'[e] = row /\ \A o \in Execution : o # e => ledger'[o] = ledger[o]
    BY <2>1, <2>2, <2>4 DEF LedgerInv, ExecutionsTypeOK
  <2>6. Open(row.day)
    BY <1>1, <1>2, <2>2 DEF LedgerInv, PendingOK
  <2>7. ASSUME NEW w \in Employee, Len(ledger'[e][w]) > Len(ledger[e][w])
        PROVE  ledger'[e][w][Len(ledger'[e][w])].day # day
    <3>1. PaidFor(row, w, ledger'[e][w])
      BY <2>2, <2>3, <2>5 DEF LedgerInv, Paid
    <3>2. ledger[e][w] = <<>> /\ ledger'[e][w] # <<>>
      BY <1>4, <2>7 DEF NothingPaid
    <3>3. PICK i : ledger'[e][w] = <<EntryOf(row, i)>>
      BY <2>2, <3>1, <3>2 DEF PaidFor
    <3>4. Len(ledger'[e][w]) = 1 /\ ledger'[e][w][1] = EntryOf(row, i)
      BY <3>3
    <3>5. EntryOf(row, i).day = row.day
      BY DEF EntryOf, Entry
    <3> QED
      BY <2>6, <3>4, <3>5
  <2>8. ASSUME NEW o \in Execution, NEW w \in Employee, o # e
        PROVE  ~(Len(ledger'[o][w]) > Len(ledger[o][w]))
    <3>1. Len(ledger[o][w]) \in Nat
      BY DEF LedgerInv, ExecutionsTypeOK
    <3> QED
      BY <2>5, <2>8, <3>1
  <2>9. ASSUME NEW m \in Manual PROVE ~(Len(manual'[m]) > Len(manual[m]))
    <3>1. Len(manual[m]) \in Nat
      BY DEF LedgerInv, ExecutionsTypeOK
    <3> QED
      BY <1>2, <3>1
  <2> QED
    BY <2>7, <2>8, <2>9 DEF KeepsDay
<1> QED
  BY <1>3, <1>4

LEMMA ManualOnOpenDays ==
  ASSUME LedgerInv, NEW m \in Manual, RecordManual(m) \/ VoidManual(m), NEW day, ~Open(day)
  PROVE  KeepsDay(day)
<1>1. manual \in [Manual -> Seq(EntryType)] /\ today \in Day /\ ledger' = ledger
  BY DEF LedgerInv, ExecutionsTypeOK, RecordManual, VoidManual, ManualOnly
<1>2. \A o \in Manual : o # m => manual'[o] = manual[o]
  BY <1>1 DEF RecordManual, VoidManual
<1>3. ASSUME Len(manual'[m]) > Len(manual[m]) PROVE manual'[m][Len(manual'[m])].day # day
  <2>1. CASE RecordManual(m)
    <3>1. PICK amount \in Signed, d \in Day : Open(d) /\ manual' = [manual EXCEPT ![m] = <<Entry(amount, 0, d)>>]
      BY <2>1 DEF RecordManual
    <3>2. manual'[m] = <<Entry(amount, 0, d)>>
      BY <1>1, <3>1
    <3>3. Len(manual'[m]) = 1 /\ manual'[m][1] = Entry(amount, 0, d)
      BY <3>2
    <3>4. manual'[m][1].day = d
      BY <3>3 DEF Entry
    <3> QED
      BY <3>1, <3>3, <3>4
  <2>2. CASE VoidManual(m)
    <3>1. manual'[m] = Undone(manual[m]) /\ Len(manual[m]) = 1 /\ manual[m] \in Seq(EntryType) /\ Open(today)
      BY <1>1, <2>2 DEF VoidManual
    <3>2. Undone(manual[m])[2].day = today /\ Len(Undone(manual[m])) = 2
      BY <1>1, <3>1, UndoneTakesBack DEF TakenBack
    <3> QED
      BY <3>1, <3>2
  <2> QED
    BY <2>1, <2>2
<1>4. ASSUME NEW o \in Manual, o # m PROVE ~(Len(manual'[o]) > Len(manual[o]))
  <2>1. Len(manual[o]) \in Nat
    BY <1>1
  <2> QED
    BY <1>2, <1>4, <2>1
<1>5. ASSUME NEW e \in Execution, NEW w \in Employee PROVE ~(Len(ledger'[e][w]) > Len(ledger[e][w]))
  <2>1. Len(ledger[e][w]) \in Nat
    BY DEF LedgerInv, ExecutionsTypeOK
  <2> QED
    BY <1>1, <2>1
<1> QED
  BY <1>3, <1>4, <1>5 DEF KeepsDay

LEMMA ClosedDayKept ==
  ASSUME LedgerInv, [Next]_vars, NEW day, ~Open(day)
  PROVE  KeepsDay(day)
<1>1. CASE UNCHANGED <<ledger, manual>>
  BY <1>1, NothingWritten
<1>2. ASSUME NEW b \in Batch, BatchStep(b) PROVE KeepsDay(day)
  <2>1. CASE RevertStart(b)
    <3> DEFINE gone == {e \in Execution : IsConfirmed(execution, e, b)}
    <3>1. /\ ledger' = Compensated(gone) /\ manual' = manual
          /\ gone # {} => Open(today)
          /\ gone \in SUBSET Execution /\ \A e \in gone : execution[e].status = "CONFIRMED"
      BY <2>1 DEF RevertStart, IsConfirmed
    <3> HIDE DEF gone
    <3>2. PICK E : E = gone
      OBVIOUS
    <3>3. E \in SUBSET Execution /\ (\A o \in E : execution[o].status = "CONFIRMED") /\ ledger' = Compensated(E)
      BY <3>1, <3>2
    <3>4. E # {} => day # today
      BY <3>1, <3>2
    <3> QED
      BY <3>1, <3>3, <3>4, CompensatedToday
  <2>2. CASE ~RevertStart(b)
    BY <1>1, <1>2, <2>2 DEF BatchStep, Start, Complete, CancelBatch, RemoveBatch, JobsOnly
  <2> QED
    BY <2>1, <2>2
<1>3. ASSUME NEW t \in Task, TaskStep(t) PROVE KeepsDay(day)
  BY <1>1, <1>3 DEF TaskStep, CreateTask, UpdateTask, CloseTask, ReopenTask, RemoveTask, JobsOnly
<1>4. ASSUME NEW e \in Execution, ExecutionStep(e) PROVE KeepsDay(day)
  <2>1. CASE Void(e) \/ \E f \in Execution : Correct(e, f)
    <3>1. /\ ledger' = Compensated({e}) /\ manual' = manual /\ Open(today) /\ execution[e].status = "CONFIRMED"
      BY <2>1 DEF Void, Correct, ExecutionsOnly
    <3>2. PICK E : E = {e}
      OBVIOUS
    <3>3. E \in SUBSET Execution /\ (\A o \in E : execution[o].status = "CONFIRMED") /\ ledger' = Compensated(E)
      BY <3>1, <3>2
    <3>4. day # today
      BY <3>1
    <3> QED
      BY <3>1, <3>3, <3>4, CompensatedToday
  <2>2. CASE ~(Void(e) \/ \E f \in Execution : Correct(e, f))
    BY <1>1, <1>4, <2>2 DEF ExecutionStep, Create, Patch, RemoveDraft, ExecutionsOnly
  <2> QED
    BY <2>1, <2>2
<1>5. ASSUME NEW c \in Connection, ConfirmWrites(c) \/ \E e \in Execution : ConfirmReads(c, e) PROVE KeepsDay(day)
  BY <1>1, <1>5, ConfirmedOnItsDay DEF ConfirmReads
<1>6. ASSUME NEW m \in Manual, RecordManual(m) \/ VoidManual(m) PROVE KeepsDay(day)
  BY <1>6, ManualOnOpenDays
<1>7. ASSUME NEW p \in Period, ClosePeriod(p) \/ ReopenPeriod(p) PROVE KeepsDay(day)
  BY <1>1, <1>7 DEF ClosePeriod, ReopenPeriod
<1>8. CASE NextDay \/ UNCHANGED vars
  BY <1>1, <1>8 DEF NextDay, vars
<1> QED
  BY <1>2, <1>3, <1>4, <1>5, <1>6, <1>7, <1>8 DEF Next

(***************************************************************************)
(* No step writes an entry into a closed period: not a confirmation that   *)
(* read the day as open before, not a void and not the reversal of a       *)
(* batch.                                                                  *)
(***************************************************************************)
THEOREM ClosedPeriodsStay == Spec => ClosedPeriodsStayAsTheyAre
<1> DEFINE Kept == \A day \in UNION {DaysOf[p] : p \in closed} : KeepsDay(day)
<1>1. LedgerInv /\ [Next]_vars => [Kept]_vars
  <2> SUFFICES ASSUME LedgerInv, [Next]_vars, NEW p \in closed, NEW day \in DaysOf[p]
               PROVE  KeepsDay(day)
    OBVIOUS
  <2>1. ~Open(day)
    BY DEF Open
  <2> QED
    BY <2>1, ClosedDayKept
<1>2. LedgerInv /\ [Next]_vars =>
        [\A day \in UNION {DaysOf[p] : p \in closed} :
           /\ \A e \in Execution, w \in Employee :
                Len(ledger'[e][w]) > Len(ledger[e][w]) => ledger'[e][w][Len(ledger'[e][w])].day # day
           /\ \A m \in Manual :
                Len(manual'[m]) > Len(manual[m]) => manual'[m][Len(manual'[m])].day # day]_vars
  BY <1>1 DEF KeepsDay
<1> QED
  BY <1>2, LedgerInvariant, PTL DEF Spec, ClosedPeriodsStayAsTheyAre

-----------------------------------------------------------------------------
(* Plan and fund, while no two confirmations overlap. *)

LEMMA LedgerTyped ==
  ASSUME LedgerInv
  PROVE  RowsTyped(execution) /\ status \in [Job -> JobStatus] /\ fund \in [Job -> Nat]
BY DEF LedgerInv, ExecutionsTypeOK, RowsTyped, JobStatus

LEMMA NotUnderWay ==
  ASSUME LedgerInv, NEW j, ~UnderWay(j)
  PROVE  \A e \in Execution : ~IsConfirmed(execution, e, j)
BY DEF LedgerInv, JobsUnderWay, IsConfirmed

\* Of the executions of the rows y, with the status and the fund as they are
\* after the step, job j is none or stays within its plan.
StaysWithin(y, j) ==
  \/ \A e \in Execution : ~IsConfirmed(y, e, j)
  \/ ConfirmedAmount(execution, j) <= fund'[j] /\ (j \in Batch /\ Takes(j) => Takes(j)')

LEMMA FewerKeepPlan ==
  ASSUME LedgerInv, LedgerInv', PlanInv, Quiet, pending' = pending, NEW y, y = execution',
         \A e \in Execution : y[e] = execution[e] \/ y[e].status # "CONFIRMED",
         \A j \in Job : StaysWithin(y, j)
  PROVE  PlanInv'
<1>1. PICK x : x = execution
  OBVIOUS
<1>2. RowsTyped(x) /\ RowsTyped(y) /\ fund' \in [Job -> Nat]
  BY <1>1 DEF LedgerInv, ExecutionsTypeOK, RowsTyped
<1>3. ASSUME NEW j \in Job
      PROVE  /\ ConfirmedAmount(y, j) <= fund'[j]
             /\ j \in Batch => ConfirmedQty(y, j) <= IF Takes(j)' THEN 2 * Units[j] ELSE 0
  <2>1. /\ ConfirmedAmount(x, j) \in Nat /\ ConfirmedAmount(y, j) \in Nat /\ fund'[j] \in Nat
        /\ ConfirmedQty(x, j) \in Nat /\ ConfirmedQty(y, j) \in Nat
        /\ j \in Batch => Units[j] \in Nat
    BY <1>2, SumsTyped, ExecutionsAssumption
  <2>2. CASE \A e \in Execution : ~IsConfirmed(y, e, j)
    <3>1. ConfirmedQty(y, j) = 0 /\ ConfirmedAmount(y, j) = 0
      BY <1>2, <2>2, NoneConfirmed
    <3> QED
      BY <2>1, <3>1
  <2>3. CASE ConfirmedAmount(execution, j) <= fund'[j] /\ (j \in Batch /\ Takes(j) => Takes(j)')
    <3>1. ConfirmedQty(y, j) <= ConfirmedQty(x, j) /\ ConfirmedAmount(y, j) <= ConfirmedAmount(x, j)
      <4>1. \A e \in Execution : y[e] = x[e] \/ y[e].status # "CONFIRMED"
        BY <1>1
      <4> QED
        BY <1>2, <4>1, FewerConfirmed
    <3>2. j \in Batch => ConfirmedQty(x, j) <= IF Takes(j) THEN 2 * Units[j] ELSE 0
      BY <1>1 DEF PlanInv, ConfirmedWithinPlan
    <3> QED
      BY <1>1, <2>1, <2>3, <3>1, <3>2
  <2> QED
    BY <2>2, <2>3 DEF StaysWithin
<1>4. ConfirmedWithinPlan'
  BY <1>3 DEF ConfirmedWithinPlan, Takes
<1>5. StampsMatch'
  <2> SUFFICES ASSUME NEW e \in Execution
               PROVE  y[e].stamped = IF y[e].status = "CONFIRMED" /\ y[e].job \in Batch THEN y[e].qty \div 2 ELSE 0
    BY DEF StampsMatch
  <2>1. RowOK(y[e])
    BY DEF LedgerInv, Rows
  <2> QED
    BY <2>1 DEF PlanInv, StampsMatch, RowOK
<1>6. \A c \in Connection : PendingFits(c)'
  BY DEF Quiet, PendingFits
<1> QED
  BY <1>4, <1>5, <1>6 DEF PlanInv

LEMMA SameJobsStayWithin ==
  ASSUME LedgerInv, PlanInv, NEW y, NEW j \in Job, status'[j] = status[j], fund'[j] = fund[j]
  PROVE  StaysWithin(y, j)
BY DEF StaysWithin, PlanInv, ConfirmedWithinPlan, Takes

LEMMA BatchKeepsPlan ==
  ASSUME LedgerInv, LedgerInv', PlanInv, NEW b \in Batch, BatchStep(b)
  PROVE  PlanInv'
<1>1. PICK y : y = execution'
  OBVIOUS
<1>2. b \in Job /\ status \in [Job -> JobStatus] /\ fund \in [Job -> Nat]
  BY LedgerTyped DEF Job
<1>3. Quiet /\ pending' = pending
  BY DEF BatchStep, Start, Complete, CancelBatch, RemoveBatch, RevertStart, JobsOnly
<1>4. \A j \in Job : j # b => StaysWithin(y, j)
  <2>1. \A j \in Job : j # b => status'[j] = status[j] /\ fund'[j] = fund[j]
    BY <1>2 DEF BatchStep, Start, Complete, CancelBatch, RemoveBatch, RevertStart
  <2> QED
    BY <2>1, SameJobsStayWithin
<1>5. CASE Start(b) \/ CancelBatch(b)
  <2>1. y = execution /\ ~UnderWay(b)
    BY <1>1, <1>5 DEF Start, CancelBatch, JobsOnly, UnderWay
  <2>2. StaysWithin(y, b)
    BY <2>1, NotUnderWay DEF StaysWithin
  <2> QED
    BY <1>1, <1>3, <1>4, <2>1, <2>2, FewerKeepPlan
<1>6. CASE Complete(b)
  <2>1. y = execution
    BY <1>1, <1>6 DEF Complete, JobsOnly
  <2>2. ConfirmedAmount(execution, b) <= fund[b] /\ fund' = fund
    BY <1>2, <1>6 DEF PlanInv, ConfirmedWithinPlan, Complete
  <2>3. Takes(b)'
    BY <1>2, <1>6 DEF Complete, Takes
  <2>4. StaysWithin(y, b)
    BY <2>2, <2>3 DEF StaysWithin
  <2> QED
    BY <1>1, <1>3, <1>4, <2>1, <2>4, FewerKeepPlan
<1>7. CASE RemoveBatch(b)
  <2> DEFINE gone == [NoExecution EXCEPT !.status = "DELETED"]
  <2>1. \A e \in Execution : y[e] = IF execution[e].job = b THEN gone ELSE execution[e]
    BY <1>1, <1>7 DEF RemoveBatch
  <2>2. gone.status = "DELETED"
    BY DEF NoExecution
  <2> HIDE DEF gone
  <2>3. \A e \in Execution : y[e] = execution[e] \/ y[e].status # "CONFIRMED"
    BY <2>1, <2>2
  <2>4. StaysWithin(y, b)
    BY <2>1, <2>2 DEF StaysWithin, IsConfirmed
  <2> QED
    BY <1>1, <1>3, <1>4, <2>3, <2>4, FewerKeepPlan
<1>8. CASE RevertStart(b)
  <2>1. \A e \in Execution :
          y[e] = IF IsConfirmed(execution, e, b) THEN Voided(execution[e])
                 ELSE IF execution[e].job = b /\ execution[e].status = "DRAFT" THEN NoExecution
                 ELSE execution[e]
    BY <1>1, <1>8 DEF RevertStart
  <2>2. \A e \in Execution : IsConfirmed(execution, e, b) => Voided(execution[e]).status # "CONFIRMED"
    BY VoidedRows DEF LedgerInv, Rows, IsConfirmed
  <2>3. \A e \in Execution : y[e] = execution[e] \/ y[e].status # "CONFIRMED"
    BY <2>1, <2>2 DEF NoExecution
  <2>4. StaysWithin(y, b)
    <3> SUFFICES ASSUME NEW e \in Execution PROVE ~IsConfirmed(y, e, b)
      BY DEF StaysWithin
    <3> QED
      BY <2>1, <2>2, <2>3 DEF IsConfirmed
  <2> QED
    BY <1>1, <1>3, <1>4, <2>3, <2>4, FewerKeepPlan
<1> QED
  BY <1>5, <1>6, <1>7, <1>8 DEF BatchStep

LEMMA TaskKeepsPlan ==
  ASSUME LedgerInv, LedgerInv', PlanInv, NEW t \in Task, TaskStep(t)
  PROVE  PlanInv'
<1>1. PICK y : y = execution'
  OBVIOUS
<1>2. t \in Job /\ t \notin Batch /\ status \in [Job -> JobStatus] /\ fund \in [Job -> Nat]
  BY LedgerTyped, ExecutionsAssumption DEF Job
<1>3. Quiet /\ pending' = pending /\ y = execution
  BY <1>1 DEF TaskStep, CreateTask, UpdateTask, CloseTask, ReopenTask, RemoveTask, JobsOnly
<1>4. \A j \in Job : j # t => StaysWithin(y, j)
  <2>1. \A j \in Job : j # t => status'[j] = status[j] /\ fund'[j] = fund[j]
    BY <1>2 DEF TaskStep, CreateTask, UpdateTask, CloseTask, ReopenTask, RemoveTask
  <2> QED
    BY <2>1, SameJobsStayWithin
<1>5. StaysWithin(y, t)
  <2>1. CASE CreateTask(t)
    <3>1. ~UnderWay(t)
      BY <1>2, <2>1 DEF CreateTask, UnderWay
    <3> QED
      BY <1>3, <3>1, NotUnderWay DEF StaysWithin
  <2>2. CASE UpdateTask(t)
    <3>1. PICK f \in Funds : f >= ConfirmedAmount(execution, t) /\ fund' = [fund EXCEPT ![t] = f]
      BY <2>2 DEF UpdateTask
    <3>2. fund'[t] = f /\ f \in Nat /\ ConfirmedAmount(execution, t) \in Nat
      BY <1>2, <3>1, LedgerTyped, SumsTyped, ExecutionsAssumption
    <3> QED
      BY <1>2, <3>1, <3>2 DEF StaysWithin
  <2>3. CASE CloseTask(t) \/ ReopenTask(t)
    <3>1. fund' = fund
      BY <2>3 DEF CloseTask, ReopenTask
    <3> QED
      BY <1>2, <3>1 DEF StaysWithin, PlanInv, ConfirmedWithinPlan
  <2>4. CASE RemoveTask(t)
    BY <1>3, <2>4 DEF RemoveTask, StaysWithin, IsConfirmed
  <2> QED
    BY <2>1, <2>2, <2>3, <2>4 DEF TaskStep
<1> QED
  BY <1>1, <1>3, <1>4, <1>5, FewerKeepPlan

LEMMA ExecutionKeepsPlan ==
  ASSUME LedgerInv, LedgerInv', PlanInv, NEW e \in Execution, ExecutionStep(e)
  PROVE  PlanInv'
<1>1. PICK y : y = execution'
  OBVIOUS
<1>2. ExecutionsOnly
  BY DEF ExecutionStep, Create, Patch, RemoveDraft, Void, Correct
<1>3. Quiet /\ pending' = pending /\ status' = status /\ fund' = fund
  BY <1>2 DEF ExecutionsOnly
<1>4. \A j \in Job : StaysWithin(y, j)
  BY <1>3, SameJobsStayWithin
<1>5. fund \in [Job -> Nat] /\ RowOK(execution[e]) /\ execution \in [Execution -> ExecutionType]
  BY LedgerTyped DEF LedgerInv, Rows, RowsTyped
<1>6. \A o \in Execution : y[o] = execution[o] \/ y[o].status # "CONFIRMED"
  <2>1. ASSUME NEW j \in Job, Create(e, j) PROVE \A o \in Execution : y[o] = execution[o] \/ y[o].status # "CONFIRMED"
    <3>1. 0 \in 0..NumExecutions
      BY ExecutionsAssumption
    <3>2. PICK row : Recorded(row, j, 0) /\ execution' = [execution EXCEPT ![e] = row]
      BY <1>5, <2>1, <3>1, RecordedRow DEF Create
    <3> QED
      BY <1>1, <1>5, <3>2 DEF Recorded
  <2>2. CASE Patch(e)
    <3>1. PICK j, r : j = execution[e].job /\ r = execution[e].replaces
      OBVIOUS
    <3>2. j \in Job /\ r \in 0..NumExecutions
      BY <1>5, <2>2, <3>1 DEF Patch, RowOK, ExecutionType
    <3>3. PICK row : Recorded(row, j, r) /\ execution' = [execution EXCEPT ![e] = row]
      BY <1>5, <2>2, <3>1, <3>2, RecordedRow DEF Patch
    <3> QED
      BY <1>1, <1>5, <3>3 DEF Recorded
  <2>3. CASE RemoveDraft(e)
    BY <1>1, <1>5, <2>3 DEF RemoveDraft, NoExecution
  <2>4. CASE Void(e)
    <3>1. Voided(execution[e]).status = "VOIDED"
      BY <1>5, <2>4, VoidedRows DEF Void
    <3> QED
      BY <1>1, <1>5, <2>4, <3>1 DEF Void
  <2>5. ASSUME NEW f \in Execution, Correct(e, f)
        PROVE  \A o \in Execution : y[o] = execution[o] \/ y[o].status # "CONFIRMED"
    <3>1. Voided(execution[e]).status = "VOIDED"
      BY <1>5, <2>5, VoidedRows DEF Correct
    <3>2. PICK x, j : x = [execution EXCEPT ![e] = Voided(@)] /\ j = execution[e].job
      OBVIOUS
    <3>3. j \in Job /\ e \in 0..NumExecutions
      BY <1>5, <2>5, <3>2, ExecutionsAssumption DEF Correct, RowOK, Execution
    <3>4. Record(x, f, j, e)
      BY <2>5, <3>2 DEF Correct
    <3>5. PICK row : Recorded(row, j, e) /\ execution' = [x EXCEPT ![f] = row]
      BY <1>5, <3>3, <3>4, RecordedRow
    <3> QED
      BY <1>1, <1>5, <3>1, <3>2, <3>5 DEF Recorded
  <2> QED
    BY <2>1, <2>2, <2>3, <2>4, <2>5 DEF ExecutionStep
<1> QED
  BY <1>1, <1>3, <1>4, <1>6, FewerKeepPlan

(***************************************************************************)
(* Two times the stamps of a batch is no more than its confirmed           *)
(* quantity, which counts halves of units.                                 *)
(***************************************************************************)
LEMMA StampsWithinQty ==
  ASSUME LedgerInv, StampsMatch, NEW b \in Batch
  PROVE  Stamps(b) \in Nat /\ 2 * Stamps(b) <= ConfirmedQty(execution, b)
<1>1. PICK x : x = execution
  OBVIOUS
<1>2. RowsTyped(x)
  BY <1>1, LedgerTyped
<1>3. \A e \in 1..NumExecutions : 2 * StampRows(x, b)[e] <= QtyRows(x, b)[e]
  <2> TAKE e \in 1..NumExecutions
  <2>1. e \in Execution /\ x[e].qty \in Nat
    BY <1>2 DEF Execution, RowsTyped, ExecutionType
  <2>2. x[e].stamped = IF x[e].status = "CONFIRMED" /\ x[e].job \in Batch THEN x[e].qty \div 2 ELSE 0
    BY <1>1, <2>1 DEF StampsMatch
  <2>3. PICK q \in Nat : q = x[e].qty
    BY <2>1
  <2>4. 2 * (q \div 2) <= q
    BY ONLY q \in Nat
  <2> QED
    BY <2>1, <2>2, <2>3, <2>4 DEF StampRows, QtyRows, IsConfirmed
<1>4. /\ NumExecutions \in Nat
      /\ StampRows(x, b) \in [1..NumExecutions -> Int] /\ QtyRows(x, b) \in [1..NumExecutions -> Int]
  BY <1>2, SumsTyped
<1>5. 2 * Total(StampRows(x, b), NumExecutions) <= Total(QtyRows(x, b), NumExecutions)
  BY ONLY <1>3, <1>4, TotalOfHalves
<1> QED
  BY <1>1, <1>2, <1>5, SumsTyped, StampsAre DEF StampsOf

LEMMA ReadingKeepsPlan ==
  ASSUME LedgerInv, PlanInv, NEW c \in Connection, NEW e \in Execution, ConfirmReads(c, e)
  PROVE  PlanInv'
<1>1. UNCHANGED <<execution, ledger, manual, status, fund, closed, today>>
  BY DEF ConfirmReads
<1>2. (ConfirmedWithinPlan /\ StampsMatch)'
  BY <1>1 DEF PlanInv, ConfirmedWithinPlan, StampsMatch, Takes
<1>3. pending \in [Connection -> [of: 0..NumExecutions, amount: Nat, share: Seq(Int)]]
  BY DEF LedgerInv, ExecutionsTypeOK
<1>4. PICK x : x = execution[e]
  OBVIOUS
<1>5. PICK amount, share :
        /\ Fits(execution, x.job, x.qty, amount)
        /\ pending' = [pending EXCEPT ![c] = [of |-> e, amount |-> amount, share |-> share]]
  BY <1>4 DEF ConfirmReads
<1>6. ASSUME NEW d \in Connection PROVE PendingFits(d)'
  <2>1. CASE d = c
    <3>1. pending'[d].of = e /\ pending'[d].amount = amount
      BY <1>3, <1>5, <2>1
    <3>2. x.status = "DRAFT" /\ Takes(x.job)
      BY <1>4 DEF ConfirmReads
    <3> QED
      BY <1>1, <1>4, <1>5, <3>1, <3>2 DEF PendingFits, Takes, Fits
  <2>2. CASE d # c
    <3>1. pending'[d] = pending[d] /\ PendingFits(d)
      BY <1>3, <1>5, <2>2 DEF PlanInv
    <3> QED
      BY <1>1, <3>1 DEF PendingFits, Takes, Fits
  <2> QED
    BY <2>1, <2>2
<1> QED
  BY <1>2, <1>6 DEF PlanInv

LEMMA WritingKeepsPlan ==
  ASSUME LedgerInv, LedgerInv', PlanInv, OneConfirms, NEW c \in Connection, ConfirmWrites(c)
  PROVE  PlanInv'
<1>1. PICK e : e = pending[c].of
  OBVIOUS
<1>2. /\ pending[c] # Idle /\ pending' = [pending EXCEPT ![c] = Idle]
      /\ UNCHANGED <<manual, status, fund, closed, today>>
  BY <1>1, WritesAre
<1>3. e \in Execution /\ execution[e].status = "DRAFT" /\ Takes(execution[e].job)
      /\ Fits(execution, execution[e].job, execution[e].qty, pending[c].amount)
  BY <1>1, <1>2 DEF PlanInv, PendingFits, LedgerInv, PendingOK
<1>4. NothingPaid(e)
  BY <1>3 DEF LedgerInv, Paid, PaidFor, NothingPaid
<1>5. execution' = [execution EXCEPT ![e] = ConfirmedRow(c)]
  BY <1>1, <1>4, WritesAre
<1>6. PICK row, job, qty, amount : /\ row = ConfirmedRow(c) /\ job = execution[e].job
                                   /\ qty = execution[e].qty /\ amount = pending[c].amount
  OBVIOUS
<1>7. /\ row.status = "CONFIRMED" /\ row.job = job /\ row.qty = qty /\ row.amount = amount
      /\ row.stamped = Stamped(e)
  BY <1>1, <1>2, <1>4, <1>6, ConfirmedRowOK
<1>8. PICK x, y : x = execution /\ y = execution'
  OBVIOUS
<1>9. RowsTyped(x) /\ RowsTyped(y) /\ job \in Job /\ qty \in Nat /\ amount \in Nat
  BY <1>3, <1>6, <1>8 DEF LedgerInv, ExecutionsTypeOK, RowsTyped, Rows, RowOK, ExecutionType
<1>10. y[e] = row /\ \A o \in Execution : o # e => y[o] = x[o]
  BY <1>3, <1>5, <1>6, <1>8, <1>9 DEF RowsTyped
<1>11. ASSUME NEW j \in Job
       PROVE  /\ ConfirmedAmount(y, j) <= fund'[j]
              /\ j \in Batch => ConfirmedQty(y, j) <= IF Takes(j)' THEN 2 * Units[j] ELSE 0
  <2>1. /\ ConfirmedQty(y, j) = ConfirmedQty(x, j) + (IF job = j THEN qty ELSE 0)
        /\ ConfirmedAmount(y, j) = ConfirmedAmount(x, j) + (IF job = j THEN amount ELSE 0)
    <3>1. x[e].status # "CONFIRMED" /\ y[e].status = "CONFIRMED"
      BY <1>3, <1>7, <1>8, <1>10
    <3>2. /\ ConfirmedQty(y, j) = ConfirmedQty(x, j) + (IF y[e].job = j THEN y[e].qty ELSE 0)
          /\ ConfirmedAmount(y, j) = ConfirmedAmount(x, j) + (IF y[e].job = j THEN y[e].amount ELSE 0)
      BY <1>3, <1>9, <1>10, <3>1, OneMoreConfirmed
    <3> QED
      BY <1>7, <1>10, <3>2
  <2>2. fund'[j] = fund[j] /\ (Takes(j)' <=> Takes(j))
    BY <1>2 DEF Takes
  <2>3. /\ ConfirmedAmount(x, j) <= fund[j]
        /\ j \in Batch => ConfirmedQty(x, j) <= IF Takes(j) THEN 2 * Units[j] ELSE 0
    BY <1>8 DEF PlanInv, ConfirmedWithinPlan
  <2>4. ConfirmedAmount(x, j) \in Nat /\ ConfirmedQty(x, j) \in Nat
    BY <1>9, SumsTyped
  <2>5. CASE job = j
    <3>1. /\ Takes(j)
          /\ j \in Batch => ConfirmedQty(x, j) + qty <= 2 * Units[j]
          /\ ConfirmedAmount(x, j) + amount <= fund[j]
      BY <1>3, <1>6, <1>8, <2>5 DEF Fits
    <3> QED
      BY <2>1, <2>2, <2>5, <3>1
  <2>6. CASE job # j
    BY <2>1, <2>2, <2>3, <2>4, <2>6
  <2> QED
    BY <2>5, <2>6
<1>12. ConfirmedWithinPlan'
  BY <1>8, <1>11 DEF ConfirmedWithinPlan, Takes
<1>13. Stamped(e) = IF job \in Batch THEN qty \div 2 ELSE 0
  <2>1. CASE job \notin Batch
    BY <1>6, <2>1 DEF Stamped
  <2>2. CASE job \in Batch
    <3>1. PICK s \in Nat, h \in Nat, u \in Nat, q \in Nat :
            s = Stamps(job) /\ h = qty \div 2 /\ u = Units[job] /\ q = ConfirmedQty(x, job)
      <4>1. Stamps(job) \in Nat /\ ConfirmedQty(x, job) \in Nat
        BY <1>9, <2>2, StampsWithinQty, SumsTyped DEF PlanInv
      <4>2. qty \div 2 \in Nat /\ Units[job] \in Nat
        BY <1>9, <2>2, ExecutionsAssumption
      <4> QED
        BY <4>1, <4>2
    <3>2. 2 * s <= q
      BY <1>8, <2>2, <3>1, StampsWithinQty DEF PlanInv
    <3>3. q + qty <= 2 * u
      BY <1>3, <1>6, <1>8, <2>2, <3>1 DEF Fits
    <3>4. 2 * h <= qty
      BY <1>9, <3>1
    <3>5. h <= u - s
      BY ONLY s \in Nat, h \in Nat, u \in Nat, q \in Nat, <1>9, <3>2, <3>3, <3>4
    <3>6. Stamped(e) = Least(h, u - s)
      BY <1>6, <2>2, <3>1 DEF Stamped
    <3> QED
      BY <2>2, <3>1, <3>5, <3>6 DEF Least
  <2> QED
    BY <2>1, <2>2
<1>14. StampsMatch'
  <2> SUFFICES ASSUME NEW o \in Execution
               PROVE  y[o].stamped = IF y[o].status = "CONFIRMED" /\ y[o].job \in Batch THEN y[o].qty \div 2 ELSE 0
    BY <1>8 DEF StampsMatch
  <2> QED
    BY <1>7, <1>8, <1>10, <1>13 DEF PlanInv, StampsMatch
<1>15. \A d \in Connection : PendingFits(d)'
  <2> TAKE d \in Connection
  <2>1. pending'[d] = Idle
    BY <1>2 DEF OneConfirms, LedgerInv, ExecutionsTypeOK
  <2> QED
    BY <2>1 DEF PendingFits, Idle
<1> QED
  BY <1>12, <1>14, <1>15 DEF PlanInv

LEMMA OthersKeepPlan ==
  ASSUME LedgerInv, PlanInv, UNCHANGED <<execution, status, fund, pending>>
  PROVE  PlanInv'
BY DEF PlanInv, ConfirmedWithinPlan, StampsMatch, PendingFits, Takes, Fits

LEMMA PlanStep ==
  ASSUME LedgerInv, LedgerInv', PlanInv, OneConfirms, [Next]_vars
  PROVE  PlanInv'
<1>1. ASSUME NEW b \in Batch, BatchStep(b) PROVE PlanInv'
  BY <1>1, BatchKeepsPlan
<1>2. ASSUME NEW t \in Task, TaskStep(t) PROVE PlanInv'
  BY <1>2, TaskKeepsPlan
<1>3. ASSUME NEW e \in Execution, ExecutionStep(e) PROVE PlanInv'
  BY <1>3, ExecutionKeepsPlan
<1>4. ASSUME NEW c \in Connection, ConfirmWrites(c) \/ \E e \in Execution : ConfirmReads(c, e) PROVE PlanInv'
  BY <1>4, WritingKeepsPlan, ReadingKeepsPlan
<1>5. ASSUME NEW m \in Manual, RecordManual(m) \/ VoidManual(m) PROVE PlanInv'
  BY <1>5, OthersKeepPlan DEF RecordManual, VoidManual, ManualOnly
<1>6. ASSUME NEW p \in Period, ClosePeriod(p) \/ ReopenPeriod(p) PROVE PlanInv'
  BY <1>6, OthersKeepPlan DEF ClosePeriod, ReopenPeriod
<1>7. CASE NextDay \/ UNCHANGED vars
  BY <1>7, OthersKeepPlan DEF NextDay, vars
<1> QED
  BY <1>1, <1>2, <1>3, <1>4, <1>5, <1>6, <1>7 DEF Next

LEMMA PlanInit == Init => PlanInv
<1> SUFFICES ASSUME Init PROVE PlanInv
  OBVIOUS
<1>1. LedgerInv
  BY LedgerInit
<1>2. PICK x : x = execution
  OBVIOUS
<1>3. RowsTyped(x) /\ fund \in [Job -> Nat] /\ \A j \in Job : fund[j] = 0
  BY <1>1, <1>2, LedgerTyped DEF Init
<1>4. \A e \in Execution : x[e] = NoExecution
  BY <1>2 DEF Init
<1>5. \A j \in Job : ConfirmedQty(x, j) = 0 /\ ConfirmedAmount(x, j) = 0
  <2> TAKE j \in Job
  <2>1. \A e \in Execution : ~IsConfirmed(x, e, j)
    BY <1>4 DEF IsConfirmed, NoExecution
  <2> QED
    BY <1>3, <2>1, NoneConfirmed
<1>6. ConfirmedWithinPlan
  BY <1>2, <1>3, <1>5, ExecutionsAssumption DEF ConfirmedWithinPlan
<1>7. StampsMatch
  BY <1>2, <1>4 DEF StampsMatch, NoExecution
<1>8. \A c \in Connection : PendingFits(c)
  BY DEF Init, PendingFits
<1> QED
  BY <1>6, <1>7, <1>8 DEF PlanInv

(***************************************************************************)
(* As long as no two confirmations overlap, the confirmed executions of a  *)
(* batch or a task stay within its plan and its fund, whatever else        *)
(* happens, and every whole unit of them is stamped.  Confirmations that   *)
(* overlap do break this: neither the batch nor the task is locked between *)
(* the sum that is read and the status that is written.                    *)
(***************************************************************************)
THEOREM PlanInvariant == Spec /\ []OneConfirms => []PlanInv
<1>1. LedgerInv /\ LedgerInv' /\ PlanInv /\ OneConfirms /\ [Next]_vars => PlanInv'
  BY PlanStep
<1> QED
  BY <1>1, PlanInit, LedgerInvariant, PTL DEF Spec

THEOREM StaysWithinPlan == Spec /\ []OneConfirms => []ConfirmedWithinPlan
<1>1. PlanInv => ConfirmedWithinPlan
  BY DEF PlanInv
<1> QED
  BY <1>1, PlanInvariant, PTL

THEOREM UnitsAreStamped == Spec /\ []OneConfirms => []StampsMatch
<1>1. PlanInv => StampsMatch
  BY DEF PlanInv
<1> QED
  BY <1>1, PlanInvariant, PTL

(***************************************************************************)
(* With one connection no two confirmations overlap: what the run checks.  *)
(***************************************************************************)
THEOREM OneConnection ==
  ASSUME \A c, d \in Connection : c = d
  PROVE  Spec => [](ConfirmedWithinPlan /\ StampsMatch)
<1>1. OneConfirms
  BY DEF OneConfirms
<1> QED
  BY <1>1, StaysWithinPlan, UnitsAreStamped, PTL
=============================================================================
