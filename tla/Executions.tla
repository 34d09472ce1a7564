----------------------------- MODULE Executions -----------------------------
(***************************************************************************)
(* Recorded labour: production executions against the labour fund of a     *)
(* started batch or of a work task, the payroll entries they lead to, the  *)
(* manual payroll entries, and the payroll periods that close days.        *)
(*                                                                         *)
(* Amounts are cents.  Quantities are halves of a unit, so that a quantity *)
(* can be a fraction; the code's tolerance of 0.005 is less than a cent    *)
(* and less than half a unit.  Which serial numbers an execution confirms  *)
(* means nothing ("units are interchangeable within a batch"): their       *)
(* number is kept.  A request is one step, except that confirming reads    *)
(* the fund in one step and pays in another: with several connections,     *)
(* confirmations overlap.                                                  *)
(***************************************************************************)
EXTENDS Sums, Sequences, FiniteSets

CONSTANTS NumExecutions,   \* how many executions can be recorded
          Batch, Task,     \* production orders and work tasks
          Units,           \* [Batch -> Nat], unitsPlanned
          TeamOnly,        \* the batches whose assembly has soloAllowed = false
          Rates,           \* what an assembly's labour may cost per unit
          Funds, Amounts,  \* what a task's fund and a piece of general work may be
          Qtys,            \* what an execution may have completed
          Employee,
          Crews,           \* who worked, with their weights: percents or hours
          NumDays,         \* days pass up to this one
          Period, DaysOf,  \* payroll periods and the days they cover
          Manual, Signed,  \* advances, bonuses and penalties; their signed amounts
          Connection,      \* requests that can run at the same time
          None

Execution == 1..NumExecutions
Job == Batch \cup Task
Day == 1..NumDays

\* A crew: who has which share of the work.
IsCrew(crew) ==
  /\ crew \in Seq([who: Employee, weight: Nat])
  /\ \A i, j \in DOMAIN crew : crew[i].who = crew[j].who => i = j
  /\ \E i \in DOMAIN crew : crew[i].weight > 0

ASSUME ExecutionsAssumption ==
  /\ NumExecutions \in Nat
  /\ Batch \cap Task = {}
  /\ Units \in [Batch -> Nat \ {0}]
  /\ Rates \subseteq Nat /\ Funds \subseteq Nat /\ Amounts \subseteq Nat /\ Qtys \subseteq Nat
  /\ \A crew \in Crews : IsCrew(crew)
  /\ NumDays \in Nat \ {0}
  /\ DaysOf \in [Period -> SUBSET Day]
  /\ Signed \subseteq Int
  /\ None \notin Job

VARIABLES execution,  \* production_executions with their allocations
          ledger,     \* payroll entries of an execution and employee, in order
          manual,     \* payroll entries of a manual entry: itself, its void
          status,     \* status of batches and tasks
          fund,       \* ProductionOrder.laborCostEur, WorkTask.fund
          closed,     \* CLOSED payroll periods
          today,
          pending     \* the confirmation a connection is in the middle of

vars == <<execution, ledger, manual, status, fund, closed, today, pending>>

\* No row yet.  A draft that is deleted leaves no trace, so that its number
\* may stand for the next one.
NoExecution == [status |-> "NONE", job |-> None, day |-> 1, qty |-> 0, amount |-> 0,
                crew |-> <<>>, share |-> <<>>, replaces |-> 0, stamped |-> 0]

\* No confirmation under way, for a connection.
Idle == [of |-> 0, amount |-> 0, share |-> <<>>]
Quiet == \A c \in Connection : pending[c] = Idle

-----------------------------------------------------------------------------
(* Amounts. *)

Weight(crew) == Total([i \in DOMAIN crew |-> crew[i].weight], Len(crew))

\* buildAllocationRows: every share but the last is rounded, the last is what
\* is left.
Shares(total, crew) ==
  LET last == Len(crew)
      near(i) == Nearest(total * crew[i].weight, Weight(crew))
      rounded == {f \in [1..(last - 1) -> 0..total] : \A i \in 1..(last - 1) : f[i] \in near(i)}
  IN  {[i \in 1..last |-> IF i < last THEN f[i] ELSE total - Total(f, last - 1)] : f \in rounded}

IsConfirmed(x, e, j) == x[e].status = "CONFIRMED" /\ x[e].job = j
ConfirmedQty(x, j) == Total([e \in Execution |-> IF IsConfirmed(x, e, j) THEN x[e].qty ELSE 0], NumExecutions)
ConfirmedAmount(x, j) ==
  Total([e \in Execution |-> IF IsConfirmed(x, e, j) THEN x[e].amount ELSE 0], NumExecutions)

\* What qty of batch j is worth; general work is worth what the user enters.
Worth(j, qty, amount) == IF j \in Batch THEN Nearest(qty * fund[j], 2 * Units[j]) ELSE {amount}

\* Mutant of Fits: only the money is compared.
FitsFundOnly(x, j, qty, amount) == ConfirmedAmount(x, j) + amount <= fund[j]

\* computeAndValidateProductAmount and assertGeneralFundAvailable: what is
\* confirmed, with this added, stays within the plan and the fund.
Fits(x, j, qty, amount) ==
  /\ j \in Batch => ConfirmedQty(x, j) + qty <= 2 * Units[j]
  /\ ConfirmedAmount(x, j) + amount <= fund[j]

\* getStartedProductionOrder, getOpenWorkTask
Takes(j) == status[j] \in (IF j \in Batch THEN {"IN_PROGRESS", "COMPLETED"} ELSE {"OPEN"})

\* assertDateNotClosed
Open(day) == \A p \in closed : day \notin DaysOf[p]

-----------------------------------------------------------------------------
Init ==
  /\ execution = [e \in Execution |-> NoExecution]
  /\ ledger = [e \in Execution |-> [w \in Employee |-> <<>>]]
  /\ manual = [m \in Manual |-> <<>>]
  /\ status = [j \in Job |-> IF j \in Batch THEN "PLANNED" ELSE "NONE"]
  /\ fund = [j \in Job |-> 0]
  /\ closed = {}
  /\ today = 1
  /\ pending = [c \in Connection |-> Idle]

(* Batches and tasks. *)

JobsOnly == Quiet /\ UNCHANGED <<execution, ledger, manual, closed, today, pending>>

\* start: the fund is frozen at the assembly's current rate.  Without stages
\* the batch is COMPLETED at once.
Start(b) ==
  /\ JobsOnly
  /\ status[b] = "PLANNED"
  /\ \E s \in {"IN_PROGRESS", "COMPLETED"}, rate \in Rates :
       /\ status' = [status EXCEPT ![b] = s]
       /\ fund' = [fund EXCEPT ![b] = rate * Units[b]]

\* advanceStage, the last stage
Complete(b) ==
  /\ JobsOnly
  /\ status[b] = "IN_PROGRESS"
  /\ status' = [status EXCEPT ![b] = "COMPLETED"]
  /\ UNCHANGED fund

CancelBatch(b) ==
  /\ JobsOnly
  /\ status[b] = "PLANNED"
  /\ status' = [status EXCEPT ![b] = "CANCELLED"]
  /\ UNCHANGED fund

\* ProductionOrdersService.remove: the executions go with the batch, their
\* payroll entries stay.
RemoveBatch(b) ==
  /\ Quiet
  /\ status[b] \in {"PLANNED", "CANCELLED"}
  /\ status' = [status EXCEPT ![b] = "DELETED"]
  /\ execution' = [e \in Execution |-> IF execution[e].job = b
                                       THEN [NoExecution EXCEPT !.status = "DELETED"] ELSE execution[e]]
  /\ UNCHANGED <<ledger, manual, fund, closed, today, pending>>

CreateTask(t) ==
  /\ JobsOnly
  /\ status[t] = "NONE"
  /\ status' = [status EXCEPT ![t] = "OPEN"]
  /\ fund' \in {[fund EXCEPT ![t] = f] : f \in Funds}

\* A fund is never lowered below what was confirmed.
UpdateTask(t) ==
  /\ JobsOnly
  /\ status[t] \in {"OPEN", "CLOSED"}
  /\ \E f \in Funds : f >= ConfirmedAmount(execution, t) /\ fund' = [fund EXCEPT ![t] = f]
  /\ UNCHANGED status

CloseTask(t) ==
  /\ JobsOnly
  /\ status[t] = "OPEN"
  /\ status' = [status EXCEPT ![t] = "CLOSED"]
  /\ UNCHANGED fund

ReopenTask(t) ==
  /\ JobsOnly
  /\ status[t] = "CLOSED"
  /\ status' = [status EXCEPT ![t] = "OPEN"]
  /\ UNCHANGED fund

RemoveTask(t) ==
  /\ JobsOnly
  /\ status[t] \in {"OPEN", "CLOSED"}
  /\ \A e \in Execution : execution[e].job # t
  /\ status' = [status EXCEPT ![t] = "NONE"]
  /\ fund' = [fund EXCEPT ![t] = 0]

-----------------------------------------------------------------------------
(* Executions. *)

ExecutionsOnly == Quiet /\ UNCHANGED <<manual, status, fund, closed, today, pending>>

\* A form for job j is accepted and written over row e of the executions x.
Record(x, e, j, replaces) ==
  /\ Takes(j)
  /\ \E day \in Day, qty \in Qtys, entered \in Amounts, crew \in Crews :
       /\ Open(day)
       /\ \E amount \in Worth(j, qty, entered) :
            /\ Fits(x, j, qty, amount)
            /\ \E share \in Shares(amount, crew) :
                 execution' = [x EXCEPT ![e] =
                   [status |-> "DRAFT", job |-> j, day |-> day, qty |-> qty, amount |-> amount,
                    crew |-> crew, share |-> share, replaces |-> replaces, stamped |-> 0]]

Create(e, j) ==
  /\ ExecutionsOnly
  /\ execution[e].status = "NONE"
  /\ Record(execution, e, j, 0)
  /\ UNCHANGED ledger

Patch(e) ==
  /\ ExecutionsOnly
  /\ execution[e].status = "DRAFT"
  /\ Record(execution, e, execution[e].job, execution[e].replaces)
  /\ UNCHANGED ledger

RemoveDraft(e) ==
  /\ ExecutionsOnly
  /\ execution[e].status = "DRAFT"
  /\ execution' = [execution EXCEPT ![e] = NoExecution]
  /\ UNCHANGED ledger

\* confirm, what it reads: the fund as it is now, less what is confirmed now.
ConfirmReads(c, e) ==
  LET x == execution[e]
  IN  /\ pending[c] = Idle
      /\ x.status = "DRAFT"
      /\ Open(x.day)
      /\ Takes(x.job)
      /\ x.job \in TeamOnly => Len(x.crew) >= 2
      /\ \E amount \in Worth(x.job, x.qty, x.amount) :
           /\ Fits(execution, x.job, x.qty, amount)
           /\ \E share \in Shares(amount, x.crew) :
                pending' = [pending EXCEPT ![c] = [of |-> e, amount |-> amount, share |-> share]]
      /\ UNCHANGED <<execution, ledger, manual, status, fund, closed, today>>

\* What employee w has of execution e: nothing, or one place in the crew.
Places(e, w) == {i \in DOMAIN execution[e].crew : execution[e].crew[i].who = w}

\* Units are counted in the share of the money: qty times share, over amount.
Entry(amount, units, day) == [amount |-> amount, units |-> units, day |-> day]

\* The stamps on a batch's units, and those that are still free.
Stamps(b) == Total([e \in Execution |-> IF execution[e].job = b THEN execution[e].stamped ELSE 0], NumExecutions)

\* Mutant of Stamped: a fraction of a unit counts as a unit.
StampedRoundedUp(e) ==
  LET x == execution[e]
  IN  IF x.job \in Batch THEN Least((x.qty + 1) \div 2, Units[x.job] - Stamps(x.job)) ELSE 0

\* stampConfirmedFinishedGoods: whole units, as many as are left unstamped.
Stamped(e) ==
  LET x == execution[e]
  IN  IF x.job \in Batch THEN Least(x.qty \div 2, Units[x.job] - Stamps(x.job)) ELSE 0

\* confirm, what it writes: an entry per allocation, at most one of each.
ConfirmWrites(c) ==
  LET e == pending[c].of
      share == pending[c].share
      x == execution[e]
      paid == [w \in Employee |->
                 ledger[e][w] \o [n \in 1..Cardinality(Places(e, w)) |->
                   LET i == CHOOSE i \in Places(e, w) : TRUE
                   IN  Entry(share[i], IF x.job \in Batch THEN x.qty * share[i] ELSE 0, x.day)]]
  IN  /\ pending[c] # Idle
      /\ pending' = [pending EXCEPT ![c] = Idle]
      /\ IF \A w \in Employee : ledger[e][w] = <<>>
         THEN /\ ledger' = [ledger EXCEPT ![e] = paid]
              /\ execution' = [execution EXCEPT ![e] =
                   [@ EXCEPT !.status = "CONFIRMED", !.amount = pending[c].amount,
                             !.share = share, !.stamped = Stamped(e)]]
         ELSE UNCHANGED <<ledger, execution>>
      /\ UNCHANGED <<manual, status, fund, closed, today>>

Voided(x) == [x EXCEPT !.status = "VOIDED", !.stamped = 0]

\* Mutant of Undone: the entry of the void takes no units back.
UndoneForgetsUnits(entries) == Append(entries, Entry(- entries[1].amount, 0, today))

\* Mutant of Undone: the entry is dated tomorrow.
UndoneTomorrow(entries) == Append(entries, Entry(- entries[1].amount, - entries[1].units, today + 1))

\* void_: the entry that takes back what the first one gave, dated now.
Undone(entries) == Append(entries, Entry(- entries[1].amount, - entries[1].units, today))

\* The ledger when the executions E are voided.
Compensated(E) ==
  [e \in Execution |->
     IF e \in E THEN [w \in Employee |-> IF Places(e, w) # {} THEN Undone(ledger[e][w]) ELSE ledger[e][w]]
     ELSE ledger[e]]

Void(e) ==
  /\ ExecutionsOnly
  /\ execution[e].status = "CONFIRMED"
  /\ Open(today)
  /\ execution' = [execution EXCEPT ![e] = Voided(@)]
  /\ ledger' = Compensated({e})

\* correct: e is voided and a draft f recorded in its place, with what e had
\* drawn available again.
Correct(e, f) ==
  /\ ExecutionsOnly
  /\ execution[e].status = "CONFIRMED"
  /\ execution[f].status = "NONE"
  /\ Open(today)
  /\ Record([execution EXCEPT ![e] = Voided(@)], f, execution[e].job, e)
  /\ ledger' = Compensated({e})

\* revertStart: drafts are deleted, confirmed executions voided, and the batch
\* loses its units and its fund.  A revert that is refused because a unit was
\* touched (FinishedGoods has that guard) is one that does not happen.
RevertStart(b) ==
  LET gone == {e \in Execution : IsConfirmed(execution, e, b)}
  IN  /\ Quiet
      /\ status[b] = "IN_PROGRESS"
      /\ gone # {} => Open(today)
      /\ execution' = [e \in Execution |->
                         IF e \in gone THEN Voided(execution[e])
                         ELSE IF execution[e].job = b /\ execution[e].status = "DRAFT" THEN NoExecution
                         ELSE execution[e]]
      /\ ledger' = Compensated(gone)
      /\ status' = [status EXCEPT ![b] = "PLANNED"]
      /\ fund' = [fund EXCEPT ![b] = 0]
      /\ UNCHANGED <<manual, closed, today, pending>>

-----------------------------------------------------------------------------
(* Manual entries, periods, days. *)

ManualOnly == Quiet /\ UNCHANGED <<execution, ledger, status, fund, closed, today, pending>>

RecordManual(m) ==
  /\ ManualOnly
  /\ manual[m] = <<>>
  /\ \E amount \in Signed, day \in Day :
       Open(day) /\ manual' = [manual EXCEPT ![m] = <<Entry(amount, 0, day)>>]

\* Mutant of VoidManual: only the day of the entry itself is looked up.
VoidManualOnAnyDay(m) ==
  /\ ManualOnly
  /\ Len(manual[m]) = 1
  /\ Open(manual[m][1].day)
  /\ manual' = [manual EXCEPT ![m] = Undone(@)]

\* voidManualEntry: once, and only while neither day is closed.
VoidManual(m) ==
  /\ ManualOnly
  /\ Len(manual[m]) = 1
  /\ Open(manual[m][1].day)
  /\ Open(today)
  /\ manual' = [manual EXCEPT ![m] = Undone(@)]

\* A period that was not created yet acts like an open one.
ClosePeriod(p) ==
  /\ Quiet
  /\ p \notin closed
  /\ closed' = closed \cup {p}
  /\ UNCHANGED <<execution, ledger, manual, status, fund, today, pending>>

ReopenPeriod(p) ==
  /\ Quiet
  /\ p \in closed
  /\ closed' = closed \ {p}
  /\ UNCHANGED <<execution, ledger, manual, status, fund, today, pending>>

NextDay ==
  /\ today < NumDays
  /\ today' = today + 1
  /\ UNCHANGED <<execution, ledger, manual, status, fund, closed, pending>>

BatchStep(b) == Start(b) \/ Complete(b) \/ CancelBatch(b) \/ RemoveBatch(b) \/ RevertStart(b)
TaskStep(t) == CreateTask(t) \/ UpdateTask(t) \/ CloseTask(t) \/ ReopenTask(t) \/ RemoveTask(t)
ExecutionStep(e) ==
  \/ \E j \in Job : Create(e, j)
  \/ Patch(e) \/ RemoveDraft(e) \/ Void(e)
  \/ \E f \in Execution : Correct(e, f)

Next ==
  \/ \E b \in Batch : BatchStep(b)
  \/ \E t \in Task : TaskStep(t)
  \/ \E e \in Execution : ExecutionStep(e)
  \/ \E c \in Connection : ConfirmWrites(c) \/ \E e \in Execution : ConfirmReads(c, e)
  \/ \E m \in Manual : RecordManual(m) \/ VoidManual(m)
  \/ \E p \in Period : ClosePeriod(p) \/ ReopenPeriod(p)
  \/ NextDay

Spec == Init /\ [][Next]_vars

-----------------------------------------------------------------------------
(* Properties. *)

EntryType == [amount: Int, units: Int, day: Day]
ExecutionType ==
  [status: {"NONE", "DRAFT", "CONFIRMED", "VOIDED", "DELETED"}, job: Job \cup {None}, day: Day,
   qty: Nat, amount: Nat, crew: Crews \cup {<<>>}, share: Seq(Int), replaces: 0..NumExecutions,
   stamped: Nat]

ExecutionsTypeOK ==
  /\ execution \in [Execution -> ExecutionType]
  /\ ledger \in [Execution -> [Employee -> Seq(EntryType)]]
  /\ manual \in [Manual -> Seq(EntryType)]
  /\ status \in [Job -> {"NONE", "PLANNED", "IN_PROGRESS", "COMPLETED", "CANCELLED", "DELETED", "OPEN", "CLOSED"}]
  /\ fund \in [Job -> Nat]
  /\ closed \subseteq Period /\ today \in Day
  /\ pending \in [Connection -> [of: 0..NumExecutions, amount: Nat, share: Seq(Int)]]

\* "sum of CONFIRMED executions for a batch never exceeds
\* unitsPlanned/laborCostEur" (production-executions.service.ts:560), also
\* when the batch is reverted and started again at another rate; likewise for
\* a task, whose fund can be changed.
ConfirmedWithinPlan ==
  \A j \in Job :
    /\ ConfirmedAmount(execution, j) <= fund[j]
    /\ j \in Batch => ConfirmedQty(execution, j) <= IF Takes(j) THEN 2 * Units[j] ELSE 0

\* Amounts and units of the entries add up to a and u.
Adds(entries, a, u) ==
  /\ Total([i \in DOMAIN entries |-> entries[i].amount], Len(entries)) = a
  /\ Total([i \in DOMAIN entries |-> entries[i].units], Len(entries)) = u

\* Everybody is paid for the executions that are confirmed, by their share,
\* and on balance nothing for any other: not for voided, replaced or deleted
\* ones and not for those of a reverted batch.  The shares add up.
LedgerMatchesExecutions ==
  \A e \in Execution :
    LET x == execution[e]
    IN  /\ Total(x.share, Len(x.share)) = x.amount
        /\ \A w \in Employee :
             IF x.status = "CONFIRMED" /\ Places(e, w) # {}
             THEN \E i \in Places(e, w) :
                    Adds(ledger[e][w], x.share[i], IF x.job \in Batch THEN x.qty * x.share[i] ELSE 0)
             ELSE Adds(ledger[e][w], 0, 0)
        /\ x.replaces # 0 => execution[x.replaces].status \in {"VOIDED", "DELETED"}

\* "enforced by ... confirmedQty + qtyCompleted <= unitsPlanned": there is a
\* unit for every whole unit an execution confirms, and it is let go when the
\* execution is voided (production-executions.service.ts:372).
StampsMatch ==
  \A e \in Execution :
    LET x == execution[e]
    IN  x.stamped = IF x.status = "CONFIRMED" /\ x.job \in Batch THEN x.qty \div 2 ELSE 0

\* A closed period stays as it is: whatever writes payroll entries, voids and
\* the reversal of a batch included, no day of it gets another one.
ClosedPeriodsStayAsTheyAre ==
  [][\A day \in UNION {DaysOf[p] : p \in closed} :
       /\ \A e \in Execution, w \in Employee :
            Len(ledger'[e][w]) > Len(ledger[e][w]) => ledger'[e][w][Len(ledger'[e][w])].day # day
       /\ \A m \in Manual :
            Len(manual'[m]) > Len(manual[m]) => manual'[m][Len(manual'[m])].day # day]_vars

\* What a customer order's reports count for a task: the entries found through
\* their allocation (getGeneralWorkPayrollEntries, getPayrollSummaryReport).
Reported(t) ==
  Total([e \in Execution |->
           IF execution[e].job # t THEN 0
           ELSE Total([i \in DOMAIN execution[e].crew |->
                         LET entries == ledger[e][execution[e].crew[i].who]
                         IN  IF entries = <<>> THEN 0 ELSE entries[1].amount], Len(execution[e].crew))],
        NumExecutions)

\* The pay "actually earned" on a task is that of its confirmed executions.
ReportsPayWhatIsConfirmed == \A t \in Task : Reported(t) = ConfirmedAmount(execution, t)
=============================================================================
