------------------------------- MODULE WorkBot -------------------------------
(***************************************************************************)
(* The Telegram bot workers and supervisors report work through.  What a   *)
(* chat is in the middle of is kept on the Employee or User row its chat   *)
(* id is paired with: the job picked, the number typed, the colleagues     *)
(* chosen and the percentages typed for them.  Buttons stay in a chat for  *)
(* good and an update may come again, so that any button can be tapped in  *)
(* any state.                                                              *)
(*                                                                         *)
(* A number is represented by the serial number of the message that typed  *)
(* it, percentages by the people they were typed for.  An update is one    *)
(* step, save the tap that confirms a submission: it reads the row, stores *)
(* the submission in a transaction, clears the row at once through another *)
(* connection, talks to Telegram, and commits.                             *)
(***************************************************************************)
EXTENDS Naturals, Sequences

CONSTANTS Worker,     \* the employees a submission can name
          Employee,   \* those of them that are paired with the bot
          Admin,      \* users that record the work of others
          Order, Task,
          Tap,        \* confirming taps of one chat handled at the same time
          MaxNumbers, \* numbers typed in a run
          None

Chat == Employee \cup Admin
Job == Order \cup Task
Prompt == {"percents", "summary"}

ASSUME WorkBotAssumption ==
  /\ Employee \subseteq Worker /\ Admin \cap Worker = {}
  /\ Order \cap Task = {} /\ None \notin Job
  /\ MaxNumbers \in Nat

VARIABLES session,  \* what a chat is in the middle of
          linked,   \* the chats that are paired
          open,     \* started orders and open work tasks
          tap,      \* what a confirming tap has read
          recorded, \* production executions recorded through the bot
          typed     \* the numbers typed so far: by whom, while which job was picked

vars == <<session, linked, open, tap, recorded, typed>>

Session == [parent: Job \cup {None}, qty: 0..MaxNumbers, crew: SUBSET Worker,
            split: SUBSET Worker, asking: SUBSET Prompt]

Empty == [parent |-> None, qty |-> 0, crew |-> {}, split |-> {}, asking |-> {}]

\* An employee takes part in what they submit.
Participants(c, s) == IF c \in Employee THEN {c} \cup s.crew ELSE s.crew

Complete(c, s) == s.qty # 0 /\ s.parent # None /\ Participants(c, s) # {}

NumTyped == Len(typed)
-----------------------------------------------------------------------------
(* Buttons and messages that only change the session of their chat. *)

Becomes(c, s) ==
  /\ c \in linked
  /\ session' = [session EXCEPT ![c] = s]
  /\ UNCHANGED <<linked, open, tap, recorded>>

\* Mutant of Pick: the number typed for the job picked before stays.
PickKeepsTheNumber(c, job) ==
  /\ job \in open
  /\ Becomes(c, [session[c] EXCEPT !.parent = job,
                                   !.crew = IF c \in Employee THEN {} ELSE @])
  /\ UNCHANGED typed

\* An order that is being produced or an open task is picked.  The crew an
\* administrator has chosen before stays.
Pick(c, job) ==
  /\ job \in open
  /\ Becomes(c, [session[c] EXCEPT !.parent = job, !.qty = 0,
                                   !.crew = IF c \in Employee THEN {} ELSE @])
  /\ UNCHANGED typed

\* A number is typed: the first one for the job, or one that replaces it.
TypeNumber(c) ==
  /\ session[c].asking = {}
  /\ session[c].qty # 0 \/ session[c].parent # None
  /\ NumTyped < MaxNumbers
  /\ typed' = Append(typed, [by |-> c, job |-> session[c].parent])
  /\ Becomes(c, [session[c] EXCEPT !.qty = NumTyped + 1])

\* As many numbers as there are participants, after they were asked for.
TypePercents(c) ==
  /\ "percents" \in session[c].asking /\ "summary" \notin session[c].asking
  /\ Participants(c, session[c]) # {}
  /\ Becomes(c, [session[c] EXCEPT !.split = Participants(c, session[c]),
                                   !.asking = @ \ {"percents"}])
  /\ UNCHANGED typed

EditPercents(c) ==
  /\ Becomes(c, [session[c] EXCEPT !.asking = @ \cup {"percents"}])
  /\ UNCHANGED typed

EditQty(c) == Becomes(c, [session[c] EXCEPT !.qty = 0]) /\ UNCHANGED typed

\* Mutant of Toggle: the colleague picker lists the employee as well.
ToggleAnyone(c, w) ==
  /\ Becomes(c, [session[c] EXCEPT !.crew = IF w \in @ THEN @ \ {w} ELSE @ \cup {w}])
  /\ UNCHANGED typed

Toggle(c, w) ==
  /\ w # c
  /\ Becomes(c, [session[c] EXCEPT !.crew = IF w \in @ THEN @ \ {w} ELSE @ \cup {w}])
  /\ UNCHANGED typed

Solo(e) ==
  /\ e \in Employee
  /\ Becomes(e, [session[e] EXCEPT !.crew = {}, !.split = {}])
  /\ UNCHANGED typed

\* The administrator's "done" only goes on to the choice of a job.
Done(e) ==
  /\ e \in Employee
  /\ Becomes(e, [session[e] EXCEPT !.split = {}])
  /\ UNCHANGED typed

Cancel(c) == Becomes(c, Empty) /\ UNCHANGED typed

AskSummary(a) ==
  /\ a \in Admin /\ session[a].asking = {} /\ session[a].qty = 0
  /\ session[a].parent = None /\ session[a].crew = {}
  /\ Becomes(a, [session[a] EXCEPT !.asking = {"summary"}])
  /\ UNCHANGED typed

AnswerSummary(a) ==
  /\ a \in Admin /\ "summary" \in session[a].asking
  /\ Becomes(a, [session[a] EXCEPT !.asking = @ \ {"summary"}])
  /\ UNCHANGED typed
-----------------------------------------------------------------------------
(* Confirming a submission. *)

Submission(c, s) ==
  [from |-> c, job |-> s.parent, qty |-> s.qty, crew |-> Participants(c, s),
   split |-> s.split, status |-> "SENDING"]

ConfirmReads(c, t) ==
  /\ c \in linked /\ tap[c][t] = None /\ Complete(c, session[c])
  /\ tap' = [tap EXCEPT ![c][t] = Submission(c, session[c])]
  /\ UNCHANGED <<session, linked, open, recorded, typed>>

\* Mutant of Create: what was pending stays until the next choice.
CreateKeepsThePending(c, t) ==
  /\ tap[c][t] # None
  /\ tap[c][t].job \in open
  /\ recorded' = Append(recorded, tap[c][t])
  /\ tap' = [tap EXCEPT ![c][t] = None]
  /\ UNCHANGED <<session, linked, open, typed>>

\* The execution is stored, not yet committed; the row is cleared for all to see.
Create(c, t) ==
  /\ tap[c][t] # None
  /\ tap[c][t].job \in open
  /\ recorded' = Append(recorded, tap[c][t])
  /\ session' = [session EXCEPT ![c] = Empty]
  /\ tap' = [tap EXCEPT ![c][t] = None]
  /\ UNCHANGED <<linked, open, typed>>

\* The job is over, or a limit of the fund or of the plan is passed: another
\* number is asked for.
Refuse(c, t) ==
  /\ tap[c][t] # None
  /\ session' = [session EXCEPT ![c].qty = 0]
  /\ tap' = [tap EXCEPT ![c][t] = None]
  /\ UNCHANGED <<linked, open, recorded, typed>>

\* Telegram cannot be reached: the error handler asks for another number, and
\* the transaction commits nonetheless.
Stumble(i) ==
  /\ recorded[i].status = "SENDING"
  /\ session' = [session EXCEPT ![recorded[i].from].qty = 0]
  /\ UNCHANGED <<linked, open, tap, recorded, typed>>

Moves(i, from, to) ==
  /\ recorded[i].status = from
  /\ recorded' = [recorded EXCEPT ![i].status = to]
  /\ UNCHANGED <<session, linked, open, tap, typed>>

Commit(i) == Moves(i, "SENDING", "DRAFT")

\* The error handler fails as well, or the transaction cannot be committed.
RollBack(i) == Moves(i, "SENDING", "LOST")

\* A supervisor approves a draft of a job that is still open, or rejects one.
Approve(i) == recorded[i].job \in open /\ Moves(i, "DRAFT", "CONFIRMED")
Reject(i) == Moves(i, "DRAFT", "REMOVED")
-----------------------------------------------------------------------------
(* Pairing, and the jobs' own life. *)

\* /start with a code from the office.  What the row still holds stays.
CompletePairing(c) ==
  /\ linked' = linked \cup {c}
  /\ UNCHANGED <<session, open, tap, recorded, typed>>

\* /unlink, from the chat of an employee
ConfirmUnlink(e) ==
  /\ e \in Employee \cap linked
  /\ linked' = linked \ {e}
  /\ session' = [session EXCEPT ![e] = Empty]
  /\ UNCHANGED <<open, tap, recorded, typed>>

\* From the office: of an employee's session only the order goes.
UnlinkTelegram(c) ==
  /\ linked' = linked \ {c}
  /\ session' = [session EXCEPT ![c].parent =
                   IF c \in Employee /\ @ \in Order THEN None ELSE @]
  /\ UNCHANGED <<open, tap, recorded, typed>>

CloseJob(job) ==
  /\ open' = open \ {job}
  /\ UNCHANGED <<session, linked, tap, recorded, typed>>

OpenJob(job) ==
  /\ open' = open \cup {job}
  /\ UNCHANGED <<session, linked, tap, recorded, typed>>
-----------------------------------------------------------------------------
Init ==
  /\ session = [c \in Chat |-> Empty]
  /\ linked = Chat /\ open = Job
  /\ tap = [c \in Chat |-> [t \in Tap |-> None]]
  /\ recorded = <<>> /\ typed = <<>>

Next ==
  \/ \E c \in Chat, job \in Job : Pick(c, job)
  \/ \E c \in Chat, w \in Worker : Toggle(c, w)
  \/ \E c \in Chat : TypeNumber(c) \/ TypePercents(c) \/ EditPercents(c)
                     \/ EditQty(c) \/ Cancel(c)
  \/ \E e \in Employee : Solo(e) \/ Done(e) \/ ConfirmUnlink(e)
  \/ \E a \in Admin : AskSummary(a) \/ AnswerSummary(a)
  \/ \E c \in Chat, t \in Tap : ConfirmReads(c, t) \/ Create(c, t) \/ Refuse(c, t)
  \/ \E i \in DOMAIN recorded : Stumble(i) \/ Commit(i) \/ RollBack(i)
                                \/ Approve(i) \/ Reject(i)
  \/ \E c \in Chat : CompletePairing(c) \/ UnlinkTelegram(c)
  \/ \E job \in Job : CloseJob(job) \/ OpenJob(job)

Spec == Init /\ [][Next]_vars
-----------------------------------------------------------------------------
(* What one row holds: nobody works along with themselves, a number has been *)
(* typed, only an administrator is asked for a name.                         *)
IsSession(c, s) ==
  /\ s \in Session
  /\ s.qty <= NumTyped
  /\ c \in Employee => c \notin s.crew /\ s.asking \subseteq {"percents"}

Typing == [by: Chat, job: Job \cup {None}]

Execution ==
  [from: Chat, job: Job, qty: 1..NumTyped, crew: (SUBSET Worker) \ {{}},
   split: SUBSET Worker, status: {"SENDING", "DRAFT", "CONFIRMED", "REMOVED", "LOST"}]

WorkBotTypeOK ==
  /\ session \in [Chat -> Session]
  /\ \A c \in Chat : IsSession(c, session[c])
  /\ linked \subseteq Chat /\ open \subseteq Job
  /\ tap \in [Chat -> [Tap -> Execution \cup {None}]]
  /\ \A c \in Chat, t \in Tap :
       tap[c][t] # None => tap[c][t].from = c /\ tap[c][t].status = "SENDING"
  /\ typed \in Seq(Typing) /\ NumTyped <= MaxNumbers
  /\ recorded \in Seq(Execution)

\* A number a person has typed is recorded as work once at most, whatever
\* buttons are tapped again, whichever updates come again and wherever a
\* submission fails, as long as two taps of one chat do not overlap between
\* reading the row and clearing it.  Recorded twice, the work is paid twice.
RecordedOnce ==
  \A i, j \in DOMAIN recorded : recorded[i].qty = recorded[j].qty => i = j

\* A recorded number was typed by that chat while that very job was picked:
\* units of one order never become units of another, nor euros of a task.
TypedForItsJob ==
  \A i \in DOMAIN recorded :
    typed[recorded[i].qty] = [by |-> recorded[i].from, job |-> recorded[i].job]

\* schema.prisma:3614-3621: percentages cover every current participant and
\* are cleared whenever the participants change, "since a stale map keyed by a
\* DIFFERENT set of ids would silently mis-split".
SplitsCoverTheCrew ==
  \A i \in DOMAIN recorded : recorded[i].split \in {{}, recorded[i].crew}
=============================================================================
