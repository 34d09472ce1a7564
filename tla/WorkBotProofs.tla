---------------------------- MODULE WorkBotProofs ----------------------------
(***************************************************************************)
(* Numbers typed in a chat are recorded once and for the job they were     *)
(* typed for.  The inductive invariant follows a number from the session   *)
(* that holds it, through the tap that has read it, to the execution that  *)
(* records it: wherever it is, it is known who typed it and for which job, *)
(* and once recorded it is in no session and in no tap.                    *)
(***************************************************************************)
EXTENDS WorkBot, TLAPS

\* Taps of one chat do not overlap between reading the row and clearing it.
OneTap == \A t, u \in Tap : t = u

\* The execution names the chat and the job its number was typed for.
Matches(x) == typed[x.qty] = [by |-> x.from, job |-> x.job]

SessionsMatch ==
  \A c \in Chat : session[c].qty # 0 =>
    /\ typed[session[c].qty].by = c
    /\ session[c].parent # None => typed[session[c].qty].job = session[c].parent

TapsMatch == \A c \in Chat, t \in Tap : tap[c][t] # None => Matches(tap[c][t])

RecordedMatch == \A i \in DOMAIN recorded : Matches(recorded[i])

RecordedIsGone ==
  /\ \A c \in Chat, i \in DOMAIN recorded : recorded[i].qty # session[c].qty
  /\ \A c \in Chat, t \in Tap, i \in DOMAIN recorded :
       tap[c][t] # None => recorded[i].qty # tap[c][t].qty

WorkBotInv == /\ WorkBotTypeOK /\ SessionsMatch /\ TapsMatch /\ RecordedMatch
              /\ RecordedIsGone /\ RecordedOnce

-----------------------------------------------------------------------------
LEMMA RecordedAre ==
  ASSUME WorkBotTypeOK
  PROVE  /\ NumTyped \in Nat /\ DOMAIN typed = 1..NumTyped
         /\ \A i \in DOMAIN recorded : recorded[i] \in Execution /\ recorded[i].qty \in 1..NumTyped
<1>1. typed \in Seq(Typing) /\ recorded \in Seq(Execution)
  BY DEF WorkBotTypeOK
<1>2. NumTyped \in Nat /\ DOMAIN typed = 1..NumTyped
  BY <1>1 DEF NumTyped
<1>3. \A i \in DOMAIN recorded : recorded[i] \in Execution
  BY <1>1
<1> QED BY <1>2, <1>3 DEF Execution

LEMMA SessionsAre ==
  ASSUME WorkBotTypeOK, NEW c \in Chat
  PROVE  /\ session[c] \in Session /\ session[c].qty \in 0..NumTyped
         /\ session[c].crew \in SUBSET Worker /\ session[c].split \in SUBSET Worker
         /\ session[c].asking \in SUBSET Prompt /\ session[c].parent \in Job \cup {None}
         /\ c \in Employee => c \notin session[c].crew /\ session[c].asking \subseteq {"percents"}
<1>1. session[c] \in Session /\ IsSession(c, session[c])
  BY DEF WorkBotTypeOK
<1>2. session[c].qty \in Nat
  BY <1>1 DEF Session
<1> QED BY <1>1, <1>2, RecordedAre DEF IsSession, Session

\* A step that at most clears the number or the job of one chat.
LEMMA QuietStep ==
  ASSUME WorkBotInv, NEW c \in Chat, NEW s, IsSession(c, s),
         s.qty = 0 \/ (s.qty = session[c].qty /\ s.parent \in {None, session[c].parent}),
         session' = [session EXCEPT ![c] = s],
         UNCHANGED <<tap, recorded, typed>>, linked' \subseteq Chat, open' \subseteq Job
  PROVE  WorkBotInv'
<1>1. /\ session' \in [Chat -> Session] /\ \A d \in Chat : IsSession(d, session'[d])
      /\ session'[c] = s /\ \A d \in Chat \ {c} : session'[d] = session[d]
  BY DEF WorkBotInv, WorkBotTypeOK, IsSession, NumTyped
<1>2. WorkBotTypeOK'
  BY <1>1 DEF WorkBotInv, WorkBotTypeOK, IsSession, NumTyped, Execution
<1>3. SessionsMatch'
  BY <1>1 DEF WorkBotInv, SessionsMatch
<1>4. TapsMatch' /\ RecordedMatch' /\ RecordedOnce'
  BY DEF WorkBotInv, TapsMatch, RecordedMatch, RecordedOnce, Matches
<1>5. \A i \in DOMAIN recorded : recorded[i].qty # 0
  BY RecordedAre DEF WorkBotInv
<1>6. RecordedIsGone'
  BY <1>1, <1>5 DEF WorkBotInv, RecordedIsGone
<1> QED BY <1>2, <1>3, <1>4, <1>6 DEF WorkBotInv

LEMMA InitInv == Init => WorkBotInv
<1> SUFFICES ASSUME Init PROVE WorkBotInv
  OBVIOUS
<1>1. \A c \in Chat : IsSession(c, Empty)
  BY WorkBotAssumption DEF IsSession, Empty, Session, NumTyped, Init
<1>2. WorkBotTypeOK
  BY <1>1, WorkBotAssumption DEF WorkBotTypeOK, Init, IsSession, NumTyped
<1> QED BY <1>2 DEF WorkBotInv, Init, Empty, SessionsMatch, TapsMatch, RecordedMatch,
                    RecordedIsGone, RecordedOnce
-----------------------------------------------------------------------------
LEMMA TypeNumberInv == ASSUME WorkBotInv, NEW c \in Chat, TypeNumber(c) PROVE WorkBotInv'
<1> DEFINE n == NumTyped + 1
           s == [session[c] EXCEPT !.qty = n]
           x == [by |-> c, job |-> session[c].parent]
<1>1. /\ NumTyped \in Nat /\ NumTyped' = n /\ typed' = Append(typed, x)
      /\ x \in Typing
      /\ typed \in Seq(Typing)
      /\ UNCHANGED <<tap, recorded, linked, open>> /\ session' = [session EXCEPT ![c] = s]
  BY SessionsAre DEF TypeNumber, Becomes, NumTyped, WorkBotInv, WorkBotTypeOK, Typing
<1>2. /\ typed' \in Seq(Typing) /\ typed'[n] = x
      /\ \A q \in 1..NumTyped : typed'[q] = typed[q]
  BY <1>1 DEF NumTyped
<1>3. /\ n <= MaxNumbers /\ n \in 1..MaxNumbers
  BY <1>1, WorkBotAssumption DEF TypeNumber, NumTyped
<1>4. /\ s \in Session /\ s.qty = n /\ s.parent = session[c].parent
      /\ s.crew = session[c].crew /\ s.asking = session[c].asking
  <2>1. n \in 0..MaxNumbers /\ session[c] \in Session
    BY <1>3, SessionsAre DEF WorkBotInv
  <2> QED BY <2>1 DEF Session
<1>5. /\ session' \in [Chat -> Session] /\ session'[c] = s
      /\ \A d \in Chat \ {c} : session'[d] = session[d]
  BY <1>1, <1>4 DEF WorkBotInv, WorkBotTypeOK
<1>6. \A d \in Chat : session[d].qty \in 0..NumTyped /\ IsSession(d, session[d])'
  <2> SUFFICES ASSUME NEW d \in Chat
               PROVE  session[d].qty \in 0..NumTyped /\ IsSession(d, session[d])'
    OBVIOUS
  <2>1. session[d].qty \in 0..NumTyped /\ IsSession(d, session[d])
    BY SessionsAre DEF WorkBotInv, WorkBotTypeOK
  <2>2. CASE d = c
    BY <1>1, <1>4, <1>5, <2>1, <2>2 DEF IsSession
  <2>3. CASE d # c
    BY <1>1, <1>5, <2>1, <2>3 DEF IsSession
  <2> QED BY <2>2, <2>3
<1>7. \A y \in Execution : y \in Execution'
  BY <1>1 DEF Execution
<1>8. /\ recorded \in Seq(Execution') /\ tap \in [Chat -> [Tap -> Execution' \cup {None}]]
  <2>1. recorded \in Seq(Execution) /\ tap \in [Chat -> [Tap -> Execution \cup {None}]]
    BY DEF WorkBotInv, WorkBotTypeOK
  <2> HIDE DEF n, s, x
  <2> QED BY <2>1, <1>7
<1>9. WorkBotTypeOK'
  <2>1. linked' \subseteq Chat /\ open' \subseteq Job
        /\ \A d \in Chat, t \in Tap :
             tap'[d][t] # None => tap'[d][t].from = d /\ tap'[d][t].status = "SENDING"
    BY <1>1 DEF WorkBotInv, WorkBotTypeOK
  <2> QED BY <1>1, <1>2, <1>3, <1>5, <1>6, <1>8, <2>1 DEF WorkBotTypeOK
<1>10. \A d \in Chat, t \in Tap : tap[d][t] # None => tap[d][t].qty \in 1..NumTyped
  BY DEF WorkBotInv, WorkBotTypeOK, Execution
<1>11. TapsMatch'
  BY <1>1, <1>2, <1>10 DEF WorkBotInv, TapsMatch, Matches
<1>12. RecordedMatch'
  BY <1>1, <1>2, RecordedAre DEF WorkBotInv, RecordedMatch, Matches
<1>13. RecordedOnce'
  BY <1>1 DEF WorkBotInv, RecordedOnce
<1>14. SessionsMatch'
  <2> SUFFICES ASSUME NEW d \in Chat, session'[d].qty # 0
               PROVE  /\ typed'[session'[d].qty].by = d
                      /\ session'[d].parent # None =>
                           typed'[session'[d].qty].job = session'[d].parent
    BY DEF SessionsMatch
  <2>1. CASE d = c
    <3>1. session'[c].qty = n /\ session'[c].parent = session[c].parent
      BY <1>4, <1>5
    <3> QED BY <1>2, <2>1, <3>1
  <2>2. CASE d # c
    <3>1. session'[d] = session[d] /\ session[d].qty \in 1..NumTyped
      BY <1>1, <1>5, <1>6, <2>2
    <3> QED BY <1>2, <3>1 DEF WorkBotInv, SessionsMatch
  <2> QED BY <2>1, <2>2
<1>15. RecordedIsGone'
  BY <1>1, <1>4, <1>5, RecordedAre DEF WorkBotInv, RecordedIsGone
<1> QED BY <1>9, <1>11, <1>12, <1>13, <1>14, <1>15 DEF WorkBotInv

LEMMA ConfirmReadsInv ==
  ASSUME WorkBotInv, NEW c \in Chat, NEW t \in Tap, ConfirmReads(c, t)
  PROVE  WorkBotInv'
<1> DEFINE x == Submission(c, session[c])
<1>1. /\ session[c] \in Session /\ session[c].qty # 0 /\ session[c].parent # None
      /\ session[c].qty \in 1..NumTyped
      /\ Participants(c, session[c]) \in (SUBSET Worker) \ {{}}
      /\ UNCHANGED <<session, linked, open, recorded, typed>>
  <2>1. session[c].qty # 0 /\ session[c].parent # None /\ Participants(c, session[c]) # {}
        /\ UNCHANGED <<session, linked, open, recorded, typed>>
    BY DEF ConfirmReads, Complete
  <2>2. Participants(c, session[c]) \subseteq Worker
    BY SessionsAre, WorkBotAssumption DEF Participants, WorkBotInv
  <2>3. session[c] \in Session /\ session[c].qty \in 0..NumTyped /\ NumTyped \in Nat
    BY SessionsAre, RecordedAre DEF WorkBotInv
  <2>4. session[c].qty \in 1..NumTyped
    BY <2>1, <2>3
  <2>5. Participants(c, session[c]) \in (SUBSET Worker) \ {{}}
    BY <2>1, <2>2
  <2> QED BY <2>1, <2>3, <2>4, <2>5
<1>2. x \in Execution /\ x.from = c /\ x.status = "SENDING" /\ x.qty = session[c].qty
      /\ x.job = session[c].parent
  BY <1>1 DEF Execution, Submission, Session
<1>3. \A d \in Chat, u \in Tap :
        \/ tap'[d][u] = tap[d][u]
        \/ d = c /\ u = t /\ tap'[d][u] = x
  BY DEF ConfirmReads, WorkBotInv, WorkBotTypeOK
<1>4. Matches(x)
  <2>1. typed[session[c].qty] \in Typing
    <3>0. typed \in Seq(Typing)
      BY DEF WorkBotInv, WorkBotTypeOK
    <3>1. \A q \in DOMAIN typed : typed[q] \in Typing
      BY <3>0
    <3> QED BY <1>1, <3>1, RecordedAre DEF WorkBotInv
  <2>2. /\ typed[session[c].qty].by = c
        /\ typed[session[c].qty].job = session[c].parent
    BY <1>1 DEF WorkBotInv, SessionsMatch
  <2> QED BY <1>2, <2>1, <2>2 DEF Matches, Typing
<1> HIDE DEF x
<1>5. tap' \in [Chat -> [Tap -> Execution \cup {None}]]
  BY <1>2 DEF ConfirmReads, WorkBotInv, WorkBotTypeOK, x
<1>6. WorkBotTypeOK'
  <2>1. \A d \in Chat, u \in Tap :
          tap'[d][u] # None => tap'[d][u].from = d /\ tap'[d][u].status = "SENDING"
    BY <1>2, <1>3 DEF WorkBotInv, WorkBotTypeOK
  <2>2. NumTyped' = NumTyped /\ Execution' = Execution
    BY <1>1 DEF NumTyped, Execution
  <2> QED BY <1>1, <1>5, <2>1, <2>2 DEF WorkBotInv, WorkBotTypeOK, IsSession
<1>7. TapsMatch'
  BY <1>1, <1>3, <1>4 DEF WorkBotInv, TapsMatch, Matches
<1>8. SessionsMatch' /\ RecordedMatch' /\ RecordedOnce'
  BY <1>1 DEF WorkBotInv, SessionsMatch, RecordedMatch, RecordedOnce, Matches
<1>9. RecordedIsGone'
  BY <1>1, <1>2, <1>3 DEF WorkBotInv, RecordedIsGone
<1> QED BY <1>6, <1>7, <1>8, <1>9 DEF WorkBotInv

\* Taking the number out of the session of a chat, with its tap gone.
LEMMA CreateInv ==
  ASSUME OneTap, WorkBotInv, NEW c \in Chat, NEW t \in Tap, Create(c, t)
  PROVE  WorkBotInv'
<1> DEFINE x == tap[c][t]
<1>1. /\ x \in Execution /\ x.from = c /\ x.status = "SENDING" /\ x # None
      /\ x.qty \in 1..NumTyped /\ Matches(x)
  BY DEF Create, WorkBotInv, WorkBotTypeOK, TapsMatch, Execution
<1>2. /\ recorded' = Append(recorded, x) /\ UNCHANGED <<linked, open, typed>>
      /\ session' = [session EXCEPT ![c] = Empty]
      /\ tap' = [tap EXCEPT ![c][t] = None]
      /\ recorded \in Seq(Execution)
  BY DEF Create, WorkBotInv, WorkBotTypeOK
<1>3. /\ recorded' \in Seq(Execution)
      /\ \A i \in DOMAIN recorded' : IF i \in DOMAIN recorded
                                       THEN recorded'[i] = recorded[i]
                                       ELSE i = Len(recorded) + 1 /\ recorded'[i] = x
  <2> HIDE DEF x
  <2> QED BY <1>1, <1>2
<1> HIDE DEF x
<1>4. /\ session'[c] = Empty /\ \A d \in Chat \ {c} : session'[d] = session[d]
      /\ session' \in [Chat -> Session] /\ IsSession(c, Empty)
  BY <1>2, WorkBotAssumption, RecordedAre DEF WorkBotInv, WorkBotTypeOK, Empty, Session, IsSession
<1>5. /\ \A d \in Chat, u \in Tap : tap'[d][u] # None => d # c /\ tap'[d][u] = tap[d][u]
      /\ tap' \in [Chat -> [Tap -> Execution \cup {None}]]
  BY <1>2 DEF OneTap, WorkBotInv, WorkBotTypeOK
<1>6. NumTyped' = NumTyped /\ Execution' = Execution
  BY <1>2 DEF NumTyped, Execution
<1>7. WorkBotTypeOK'
  <2>1. \A d \in Chat : IsSession(d, session[d])'
    BY <1>4, <1>6 DEF WorkBotInv, WorkBotTypeOK, IsSession
  <2>2. \A d \in Chat, u \in Tap :
          tap'[d][u] # None => tap'[d][u].from = d /\ tap'[d][u].status = "SENDING"
    BY <1>5 DEF WorkBotInv, WorkBotTypeOK
  <2> QED BY <1>2, <1>3, <1>4, <1>5, <1>6, <2>1, <2>2 DEF WorkBotInv, WorkBotTypeOK
<1>8. SessionsMatch'
  BY <1>2, <1>4 DEF WorkBotInv, SessionsMatch, Empty
<1>9. TapsMatch'
  BY <1>2, <1>5 DEF WorkBotInv, TapsMatch, Matches
<1>10. RecordedMatch'
  BY <1>1, <1>2, <1>3 DEF WorkBotInv, RecordedMatch, Matches
<1>11. \A i \in DOMAIN recorded : recorded[i].qty # x.qty
  BY <1>1 DEF WorkBotInv, RecordedIsGone, x
<1>12. RecordedOnce'
  BY <1>3, <1>11 DEF WorkBotInv, RecordedOnce
<1>13. \A d \in Chat \ {c} : session[d].qty # x.qty
  BY <1>1 DEF WorkBotInv, SessionsMatch, Matches
<1>14. \A d \in Chat \ {c}, u \in Tap : tap[d][u] # None => tap[d][u].qty # x.qty
  <2> SUFFICES ASSUME NEW d \in Chat \ {c}, NEW u \in Tap, tap[d][u] # None,
                      tap[d][u].qty = x.qty
               PROVE  FALSE
    OBVIOUS
  <2>1. tap[d][u].from = d /\ Matches(tap[d][u])
    BY DEF WorkBotInv, WorkBotTypeOK, TapsMatch
  <2>2. typed[x.qty].by = d /\ typed[x.qty].by = c
    BY <1>1, <2>1 DEF Matches
  <2> QED BY <2>2
<1>15. RecordedIsGone'
  <2>1. \A d \in Chat, i \in DOMAIN recorded' : recorded'[i].qty # session'[d].qty
    BY <1>1, <1>3, <1>4, <1>13, RecordedAre DEF WorkBotInv, RecordedIsGone, Empty
  <2>2. \A d \in Chat, u \in Tap, i \in DOMAIN recorded' :
          tap'[d][u] # None => recorded'[i].qty # tap'[d][u].qty
    BY <1>3, <1>5, <1>14 DEF WorkBotInv, RecordedIsGone
  <2> QED BY <2>1, <2>2 DEF RecordedIsGone
<1> QED BY <1>7, <1>8, <1>9, <1>10, <1>12, <1>15 DEF WorkBotInv

\* Giving a tap up and asking for another number.
LEMMA RefuseInv ==
  ASSUME WorkBotInv, NEW c \in Chat, NEW t \in Tap, Refuse(c, t)
  PROVE  WorkBotInv'
<1> DEFINE s == [session[c] EXCEPT !.qty = 0]
<1>1. /\ IsSession(c, s) /\ s \in Session /\ s.qty = 0
      /\ session' = [session EXCEPT ![c] = s] /\ UNCHANGED <<linked, open, recorded, typed>>
  <2>1. session[c] \in Session /\ IsSession(c, session[c]) /\ 0 \in 0..MaxNumbers
    BY WorkBotAssumption DEF WorkBotInv, WorkBotTypeOK
  <2>2. s \in Session /\ s.qty = 0 /\ s.crew = session[c].crew /\ s.asking = session[c].asking
    BY <2>1 DEF Session
  <2>3. IsSession(c, s)
    BY <2>1, <2>2, RecordedAre DEF IsSession, WorkBotInv
  <2> QED BY <2>2, <2>3 DEF Refuse
<1>2. /\ session'[c] = s /\ \A d \in Chat \ {c} : session'[d] = session[d]
      /\ session' \in [Chat -> Session]
  BY <1>1 DEF WorkBotInv, WorkBotTypeOK
<1>3. /\ \A d \in Chat, u \in Tap : tap'[d][u] # None => tap'[d][u] = tap[d][u]
      /\ tap' \in [Chat -> [Tap -> Execution \cup {None}]]
  BY DEF Refuse, WorkBotInv, WorkBotTypeOK
<1> HIDE DEF s
<1>4. NumTyped' = NumTyped /\ Execution' = Execution
  BY <1>1 DEF NumTyped, Execution
<1>5. WorkBotTypeOK'
  BY <1>1, <1>2, <1>3, <1>4 DEF WorkBotInv, WorkBotTypeOK, IsSession
<1>6. SessionsMatch'
  BY <1>1, <1>2 DEF WorkBotInv, SessionsMatch
<1>7. TapsMatch' /\ RecordedMatch' /\ RecordedOnce'
  BY <1>1, <1>3 DEF WorkBotInv, TapsMatch, RecordedMatch, RecordedOnce, Matches
<1>8. RecordedIsGone'
  BY <1>1, <1>2, <1>3, RecordedAre DEF WorkBotInv, RecordedIsGone
<1> QED BY <1>5, <1>6, <1>7, <1>8 DEF WorkBotInv

\* An execution moves on in its own life.
LEMMA MovesInv ==
  ASSUME WorkBotInv, NEW i \in DOMAIN recorded, NEW from, NEW to, Moves(i, from, to),
         to \in {"DRAFT", "CONFIRMED", "REMOVED", "LOST"}
  PROVE  WorkBotInv'
<1>1. /\ recorded \in Seq(Execution) /\ recorded[i] \in Execution
      /\ recorded' = [recorded EXCEPT ![i].status = to]
      /\ UNCHANGED <<session, linked, open, tap, typed>>
  BY RecordedAre DEF Moves, WorkBotInv, WorkBotTypeOK
<1>2. [recorded[i] EXCEPT !.status = to] \in Execution
  BY <1>1 DEF Execution
<1>3. /\ recorded' \in Seq(Execution) /\ DOMAIN recorded' = DOMAIN recorded
      /\ \A j \in DOMAIN recorded : /\ recorded'[j].qty = recorded[j].qty
                                   /\ recorded'[j].from = recorded[j].from
                                   /\ recorded'[j].job = recorded[j].job
  <2>1. \A j \in DOMAIN recorded : recorded[j] \in Execution
    BY <1>1
  <2>2. recorded' \in Seq(Execution)
    BY <1>1, <1>2
  <2> QED BY <1>1, <2>1, <2>2 DEF Execution
<1>4. WorkBotTypeOK'
  <2>1. NumTyped' = NumTyped /\ Execution' = Execution
    BY <1>1 DEF NumTyped, Execution
  <2> QED BY <1>1, <1>3, <2>1 DEF WorkBotInv, WorkBotTypeOK, IsSession
<1> QED BY <1>1, <1>3, <1>4 DEF WorkBotInv, SessionsMatch, TapsMatch, RecordedMatch, Matches,
                                RecordedIsGone, RecordedOnce
-----------------------------------------------------------------------------
LEMMA NextInv == ASSUME OneTap, WorkBotInv, [Next]_vars PROVE WorkBotInv'
<1> USE DEF WorkBotInv
<1>0. CASE UNCHANGED vars
  BY <1>0 DEF vars, WorkBotTypeOK, IsSession, NumTyped, Execution, SessionsMatch, TapsMatch,
     RecordedMatch, RecordedIsGone, RecordedOnce, Matches
<1>1. CASE \E c \in Chat, job \in Job : Pick(c, job)
  <2> PICK c \in Chat, job \in Job : Pick(c, job)
    BY <1>1
  <2> DEFINE s == [session[c] EXCEPT !.parent = job, !.qty = 0,
                                     !.crew = IF c \in Employee THEN {} ELSE @]
  <2>1. session[c] \in Session /\ 0 \in 0..MaxNumbers
    BY SessionsAre, WorkBotAssumption
  <2>2. s \in Session /\ s.qty = 0 /\ s.asking = session[c].asking
        /\ (c \in Employee => s.crew = {})
    BY <2>1 DEF Session
  <2>3. IsSession(c, s)
    BY <2>2, SessionsAre, RecordedAre DEF IsSession
  <2>4. /\ session' = [session EXCEPT ![c] = s] /\ UNCHANGED <<tap, recorded, typed>>
        /\ linked' \subseteq Chat /\ open' \subseteq Job
    BY DEF Pick, Becomes, WorkBotTypeOK
  <2> QED BY <2>2, <2>3, <2>4, QuietStep
<1>2. CASE \E c \in Chat : TypeNumber(c)
  BY <1>2, TypeNumberInv
<1>3. CASE \E c \in Chat, t \in Tap : ConfirmReads(c, t) \/ Create(c, t) \/ Refuse(c, t)
  BY <1>3, ConfirmReadsInv, CreateInv, RefuseInv
<1>4. CASE \E i \in DOMAIN recorded : Commit(i) \/ RollBack(i) \/ Approve(i) \/ Reject(i)
  BY <1>4, MovesInv DEF Commit, RollBack, Approve, Reject
<1>5. CASE \E c \in Chat : TypePercents(c) \/ EditPercents(c) \/ EditQty(c) \/ Cancel(c)
             \/ (\E w \in Worker : Toggle(c, w))
             \/ (c \in Employee /\ (Solo(c) \/ Done(c) \/ ConfirmUnlink(c)))
             \/ (c \in Admin /\ (AskSummary(c) \/ AnswerSummary(c)))
             \/ UnlinkTelegram(c)
  <2> PICK c \in Chat : \/ TypePercents(c) \/ EditPercents(c) \/ EditQty(c) \/ Cancel(c)
                        \/ \E w \in Worker : Toggle(c, w)
                        \/ c \in Employee /\ (Solo(c) \/ Done(c) \/ ConfirmUnlink(c))
                        \/ c \in Admin /\ (AskSummary(c) \/ AnswerSummary(c))
                        \/ UnlinkTelegram(c)
    BY <1>5
  <2>1. /\ session[c] \in Session /\ 0 \in 0..MaxNumbers /\ 0 <= NumTyped
        /\ IsSession(c, session[c])
    BY SessionsAre, RecordedAre, WorkBotAssumption DEF WorkBotTypeOK
  <2> DEFINE Keeps(s) == \/ s.qty = 0
                         \/ s.qty = session[c].qty /\ s.parent \in {None, session[c].parent}
  <2>2. UNCHANGED <<tap, recorded, typed>> /\ linked' \subseteq Chat /\ open' \subseteq Job
    BY DEF WorkBotTypeOK, TypePercents, EditPercents, EditQty, Cancel, Toggle, Solo, Done,
           ConfirmUnlink, AskSummary, AnswerSummary, UnlinkTelegram, Becomes
  <2>3. CASE TypePercents(c)
    <3> DEFINE s == [session[c] EXCEPT !.split = Participants(c, session[c]),
                                       !.asking = @ \ {"percents"}]
    <3>1. s \in Session /\ IsSession(c, s) /\ Keeps(s)
      BY <2>3, <2>1, WorkBotAssumption DEF Session, IsSession, Prompt, Participants, TypePercents
    <3>2. session' = [session EXCEPT ![c] = s]
      BY <2>3 DEF TypePercents, Becomes
    <3> QED BY <2>2, <3>1, <3>2, QuietStep
  <2>4. CASE EditPercents(c)
    <3> DEFINE s == [session[c] EXCEPT !.asking = @ \cup {"percents"}]
    <3>1. s \in Session /\ IsSession(c, s) /\ Keeps(s)
      BY <2>4, <2>1, WorkBotAssumption DEF Session, IsSession, Prompt, Participants, EditPercents
    <3>2. session' = [session EXCEPT ![c] = s]
      BY <2>4 DEF EditPercents, Becomes
    <3> QED BY <2>2, <3>1, <3>2, QuietStep
  <2>5. CASE EditQty(c)
    <3> DEFINE s == [session[c] EXCEPT !.qty = 0]
    <3>1. s \in Session /\ IsSession(c, s) /\ Keeps(s)
      BY <2>5, <2>1, WorkBotAssumption DEF Session, IsSession, Prompt, Participants, EditQty
    <3>2. session' = [session EXCEPT ![c] = s]
      BY <2>5 DEF EditQty, Becomes
    <3> QED BY <2>2, <3>1, <3>2, QuietStep
  <2>6. CASE c \in Employee /\ Solo(c)
    <3> DEFINE s == [session[c] EXCEPT !.crew = {}, !.split = {}]
    <3>1. s \in Session /\ IsSession(c, s) /\ Keeps(s)
      BY <2>6, <2>1, WorkBotAssumption DEF Session, IsSession, Prompt, Participants, Solo
    <3>2. session' = [session EXCEPT ![c] = s]
      BY <2>6 DEF Solo, Becomes
    <3> QED BY <2>2, <3>1, <3>2, QuietStep
  <2>7. CASE c \in Employee /\ Done(c)
    <3> DEFINE s == [session[c] EXCEPT !.split = {}]
    <3>1. s \in Session /\ IsSession(c, s) /\ Keeps(s)
      BY <2>7, <2>1, WorkBotAssumption DEF Session, IsSession, Prompt, Participants, Done
    <3>2. session' = [session EXCEPT ![c] = s]
      BY <2>7 DEF Done, Becomes
    <3> QED BY <2>2, <3>1, <3>2, QuietStep
  <2>8. CASE c \in Admin /\ AskSummary(c)
    <3> DEFINE s == [session[c] EXCEPT !.asking = {"summary"}]
    <3>1. s \in Session /\ IsSession(c, s) /\ Keeps(s)
      BY <2>8, <2>1, WorkBotAssumption DEF Session, IsSession, Prompt, Participants, AskSummary
    <3>2. session' = [session EXCEPT ![c] = s]
      BY <2>8 DEF AskSummary, Becomes
    <3> QED BY <2>2, <3>1, <3>2, QuietStep
  <2>9. CASE c \in Admin /\ AnswerSummary(c)
    <3> DEFINE s == [session[c] EXCEPT !.asking = @ \ {"summary"}]
    <3>1. s \in Session /\ IsSession(c, s) /\ Keeps(s)
      BY <2>9, <2>1, WorkBotAssumption DEF Session, IsSession, Prompt, Participants, AnswerSummary
    <3>2. session' = [session EXCEPT ![c] = s]
      BY <2>9 DEF AnswerSummary, Becomes
    <3> QED BY <2>2, <3>1, <3>2, QuietStep
  <2>10. CASE UnlinkTelegram(c)
    <3> DEFINE s == [session[c] EXCEPT !.parent =
                   IF c \in Employee /\ @ \in Order THEN None ELSE @]
    <3>1. s \in Session /\ IsSession(c, s) /\ Keeps(s)
      BY <2>10, <2>1, WorkBotAssumption DEF Session, IsSession, Prompt, Participants, UnlinkTelegram
    <3>2. session' = [session EXCEPT ![c] = s]
      BY <2>10 DEF UnlinkTelegram, Becomes
    <3> QED BY <2>2, <3>1, <3>2, QuietStep
  <2>11. CASE Cancel(c) \/ (c \in Employee /\ ConfirmUnlink(c))
    <3>1. Empty \in Session /\ IsSession(c, Empty) /\ Keeps(Empty)
      BY <2>1 DEF Session, IsSession, Empty
    <3>2. session' = [session EXCEPT ![c] = Empty]
      BY <2>11 DEF Cancel, ConfirmUnlink, Becomes
    <3> QED BY <2>2, <3>1, <3>2, QuietStep
  <2>12. CASE \E w \in Worker : Toggle(c, w)
    <3> PICK w \in Worker : Toggle(c, w)
      BY <2>12
    <3> DEFINE s == [session[c] EXCEPT !.crew = IF w \in @ THEN @ \ {w} ELSE @ \cup {w}]
    <3>1. s \in Session /\ IsSession(c, s) /\ Keeps(s)
      BY <2>1 DEF Session, IsSession, Toggle
    <3>2. session' = [session EXCEPT ![c] = s]
      BY DEF Toggle, Becomes
    <3> QED BY <2>2, <3>1, <3>2, QuietStep
  <2> QED BY <2>3, <2>4, <2>5, <2>6, <2>7, <2>8, <2>9, <2>10, <2>11, <2>12
<1>6. CASE (\E c \in Chat : CompletePairing(c)) \/ \E job \in Job : CloseJob(job) \/ OpenJob(job)
  <2>1. UNCHANGED <<session, tap, recorded, typed>> /\ linked' \subseteq Chat /\ open' \subseteq Job
    BY <1>6 DEF CompletePairing, CloseJob, OpenJob, WorkBotTypeOK
  <2> QED BY <2>1 DEF WorkBotTypeOK, IsSession, NumTyped, Execution, SessionsMatch, TapsMatch,
                RecordedMatch, RecordedIsGone, RecordedOnce, Matches
<1>7. CASE \E i \in DOMAIN recorded : Stumble(i)
  <2> PICK i \in DOMAIN recorded : Stumble(i)
    BY <1>7
  <2> DEFINE c == recorded[i].from
             s == [session[c] EXCEPT !.qty = 0]
  <2>1. c \in Chat /\ session[c] \in Session /\ IsSession(c, session[c]) /\ 0 <= NumTyped
    BY RecordedAre DEF Execution, WorkBotTypeOK
  <2>2. session' = [session EXCEPT ![c] = s] /\ UNCHANGED <<tap, recorded, typed>>
        /\ linked' \subseteq Chat /\ open' \subseteq Job
    BY DEF Stumble, WorkBotTypeOK
  <2> HIDE DEF c
  <2>3. s \in Session /\ IsSession(c, s) /\ s.qty = 0
    BY <2>1, WorkBotAssumption DEF Session, IsSession
  <2> QED BY <2>1, <2>2, <2>3, QuietStep
<1> QED BY <1>0, <1>1, <1>2, <1>3, <1>4, <1>5, <1>6, <1>7, Zenon DEF Next, Chat

\* The bot's rows, taps and submissions keep their types, and numbers are
\* recorded once, for the job they were typed for, when taps do not overlap.
THEOREM WorkBotInvariant == ASSUME OneTap PROVE Spec => []WorkBotInv
<1>1. OneTap /\ WorkBotInv /\ [Next]_vars => WorkBotInv'
  BY NextInv
<1> QED BY InitInv, <1>1, PTL DEF Spec

THEOREM WorkBotTypeCorrect == ASSUME OneTap PROVE Spec => []WorkBotTypeOK
<1>1. WorkBotInv => WorkBotTypeOK
  BY DEF WorkBotInv
<1> QED BY WorkBotInvariant, <1>1, PTL

\* No number a person typed is recorded, and paid, twice.
THEOREM NumbersRecordedOnce == ASSUME OneTap PROVE Spec => []RecordedOnce
<1>1. WorkBotInv => RecordedOnce
  BY DEF WorkBotInv
<1> QED BY WorkBotInvariant, <1>1, PTL

\* No number is recorded for a job other than the one it was typed for.
THEOREM NumbersTypedForTheirJob == ASSUME OneTap PROVE Spec => []TypedForItsJob
<1>1. WorkBotInv => TypedForItsJob
  <2> SUFFICES ASSUME WorkBotInv, NEW i \in DOMAIN recorded PROVE Matches(recorded[i])
    BY DEF TypedForItsJob, Matches
  <2> QED BY DEF WorkBotInv, RecordedMatch
<1> QED BY WorkBotInvariant, <1>1, PTL
=============================================================================
