---------------------- MODULE StockTransactionsProofs ----------------------
(***************************************************************************)
(* What holds of the reservation service however its requests interleave,  *)
(* for any number of connections, orders, products and requests.           *)
(*                                                                         *)
(* The invariants come in layers.  InOrder says how far every connection   *)
(* has come in the program of its request, and that the locks it holds are *)
(* those of the rows it has written so far.  Fits adds that no draft has   *)
(* more reserved than there is unless the committed row has as             *)
(* much.  Sound adds that the committed cells and the drafts count their   *)
(* holds right and that nobody undercuts a hold that another connection    *)
(* has read in order to end it.  RunsOnce says that a request runs at most *)
(* once.                                                                   *)
(***************************************************************************)
EXTENDS StockTransactions, StockRowsProofs, SequenceTheorems

\* No two requests that clash are under way at the same time.  Nothing in the
\* code sees to it, and without it the reservations really come apart.
HoldsEndedOnce ==
  \A t, u \in Tx :
    (t # u /\ running[t] # None /\ running[u] # None) => ~ EndTheSameHolds(running[t], running[u])
StatusWrittenOnce ==
  \A t, u \in Tx :
    (t # u /\ running[t] # None /\ running[u] # None) => ~ WriteTheSameStatus(running[t], running[u])

-----------------------------------------------------------------------------
(* How far a connection has come. *)

\* What is left of a program after its first k statements.
Rest(s, k) == SubSeq(s, k + 1, Len(s))

\* The statement that locks the row of line i has the number Shift(r) + i.
Shift(r) == IF r.kind = "give" THEN 1 ELSE IF r.kind = "start" THEN Len(r.lines) ELSE 0
Passed(r, k, p) == \E i \in DOMAIN r.lines : r.lines[i] = p /\ Shift(r) + i <= k
StatusPassed(r, k) ==
  \/ r.kind = "give" /\ k >= 1
  \/ r.kind = "start" /\ k = 2 * Len(r.lines) + 1
  \/ r.kind = "cancel" /\ k = 2

\* Statements that were not in the program when the request came in.
Ending(p, pre) ==
  \E op \in {"consume", "use"}, a \in Nat \ {0} :
    \/ \E s \in Source : pre = <<Stmt(op, p, s, a)>>
    \/ \E b \in Nat \ {0} : pre = <<Stmt(op, p, "STOCK", a), Stmt("consume", p, "PURCHASE", b)>>
Freeing(pre) ==
  \/ \E R \in SUBSET Row : pre = <<Releases(R)>>
  \/ \E p \in Product, s \in Source, a \in Nat \ {0} :
       \/ pre = <<Stmt("unhold", p, s, a)>>
       \/ \E R \in SUBSET Row : pre = <<Stmt("unhold", p, s, a), Releases(R)>>
Inserted(r, k, pre) ==
  \/ pre = <<>>
  \/ /\ r.kind = "arrive" /\ k \in DOMAIN r.lines
     /\ \E S \in (SUBSET Order) \ {{}}, n \in Int : pre = <<Turns(r.lines[k], S, n)>>
  \/ /\ r.kind = "start"
     /\ \E i \in DOMAIN r.lines : k = Len(r.lines) + i /\ Ending(r.lines[i], pre)
  \/ r.kind = "cancel" /\ k = 1 /\ Freeing(pre)

Inserts == Seq(Statement)

\* Connection t has executed k statements of its program and has pre to
\* execute before the others; it has locked what those k statements write.
Progress(t, k, pre) ==
  /\ todo[t] = pre \o Rest(Program(running[t]), k)
  /\ Inserted(running[t], k, pre)
  /\ running[t].kind # "cancel" =>
       \A p \in Product : cellOwner[p] = t <=> Passed(running[t], k, p)
  /\ \A d \in Doc : docOwner[d] = t <=> d = running[t].doc /\ StatusPassed(running[t], k)
  /\ \A d \in Doc : docOwner[d] = t => draftStatus[d] = StatusAfter(running[t])

AtWork(t) ==
  /\ running[t] \in Request
  /\ \E k \in 0..Len(Program(running[t])), pre \in Inserts : Progress(t, k, pre)

Idle(t) ==
  /\ running[t] = None /\ todo[t] = <<>> /\ seen[t] = NothingSeen
  /\ \A p \in Product : cellOwner[p] # t
  /\ \A d \in Doc : docOwner[d] # t

InOrder == TransactionsTypeOK /\ \A t \in Tx : Idle(t) \/ AtWork(t)

-----------------------------------------------------------------------------
(* The cells. *)

\* The order whose holds a request ends.
Ends(r) == IF r.kind \in {"start", "cancel"} THEN OrderOfRequest(r) ELSE NoOrder

\* A draft counts its holds right and lowers no hold of another order.
SoundDraft(t, p) ==
  /\ GoodCell(draft[p])
  /\ \A s \in Source, o \in Order :
       o # Ends(running[t]) => cell[p].hold[s][o] <= draft[p].hold[s][o]

\* What t is about to take off a hold is there.
CanEnd(t) ==
  At(t, {"unhold", "use"}) =>
    LET st == Head(todo[t])
    IN  st.n <= View(t, st.product).hold[st.source][OrderOfRequest(running[t])]

Sound ==
  /\ \A p \in Product : GoodCell(cell[p])
  /\ \A t \in Tx : CanEnd(t) /\ \A p \in Product : cellOwner[p] = t => SoundDraft(t, p)

-----------------------------------------------------------------------------
\* What the statements pre still close of the holds on p.
Owed(pre) == IF pre = <<>> THEN 0 ELSE IF Len(pre) = 1 THEN pre[1].n ELSE pre[1].n + pre[2].n

-----------------------------------------------------------------------------
(* Programs. *)

(***************************************************************************)
(* The first of some inserted statements, and the rest of a program.       *)
(***************************************************************************)
LEMMA Front ==
  ASSUME NEW S, NEW a \in Seq(S), NEW b \in Seq(S), a # <<>>
  PROVE  /\ a \o b # <<>>
         /\ Head(a \o b) = a[1]
         /\ Tail(a \o b) = Tail(a) \o b
<1>1. /\ a \o b \in Seq(S) /\ Len(a \o b) = Len(a) + Len(b)
      /\ \A i \in 1..Len(a) + Len(b) : (a \o b)[i] = IF i <= Len(a) THEN a[i] ELSE b[i - Len(a)]
  BY ConcatProperties
<1>2. Len(a) \in Nat \ {0} /\ Len(b) \in Nat
  BY EmptySeq, LenProperties
<1>3. a \o b # <<>>
  BY <1>1, <1>2, EmptySeq
<1>4. Head(a \o b) = a[1]
  BY <1>1, <1>2, <1>3
<1>5. /\ Tail(a) \in Seq(S) /\ Len(Tail(a)) = Len(a) - 1
      /\ \A i \in 1..Len(Tail(a)) : Tail(a)[i] = a[i + 1]
  BY HeadTailProperties
<1>6. /\ Tail(a \o b) \in Seq(S) /\ Len(Tail(a \o b)) = Len(a \o b) - 1
      /\ \A i \in 1..Len(Tail(a \o b)) : Tail(a \o b)[i] = (a \o b)[i + 1]
  BY <1>1, <1>3, HeadTailProperties
<1>7. /\ Tail(a) \o b \in Seq(S) /\ Len(Tail(a) \o b) = Len(Tail(a)) + Len(b)
      /\ \A i \in 1..Len(Tail(a)) + Len(b) :
           (Tail(a) \o b)[i] = IF i <= Len(Tail(a)) THEN Tail(a)[i] ELSE b[i - Len(Tail(a))]
  BY <1>5, ConcatProperties
<1>8. Tail(a \o b) = Tail(a) \o b
  <2>1. Len(Tail(a \o b)) = Len(Tail(a) \o b)
    BY <1>1, <1>2, <1>5, <1>6, <1>7
  <2>2. ASSUME NEW i \in 1..Len(Tail(a \o b))
        PROVE  Tail(a \o b)[i] = (Tail(a) \o b)[i]
    <3>1. i \in Nat /\ i >= 1 /\ i <= Len(a) + Len(b) - 1
      BY <1>1, <1>2, <1>6
    <3>2. Tail(a \o b)[i] = (a \o b)[i + 1]
      BY <1>6
    <3>3. CASE i + 1 <= Len(a)
      BY <3>1, <3>2, <3>3, <1>1, <1>2, <1>5, <1>7
    <3>4. CASE i + 1 > Len(a)
      BY <3>1, <3>2, <3>4, <1>1, <1>2, <1>5, <1>7
    <3> QED
      BY <3>1, <3>3, <3>4, <1>2
  <2> QED
    BY <2>1, <2>2, <1>6, <1>7, SeqEqual
<1> QED
  BY <1>3, <1>4, <1>8

LEMMA RestOfProgram ==
  ASSUME NEW S, NEW s \in Seq(S), NEW k \in 0..Len(s)
  PROVE  /\ Rest(s, k) \in Seq(S)
         /\ k < Len(s) => /\ Rest(s, k) # <<>>
                          /\ Head(Rest(s, k)) = s[k + 1]
                          /\ Tail(Rest(s, k)) = Rest(s, k + 1)
         /\ k = Len(s) => Rest(s, k) = <<>>
         /\ Rest(s, 0) = s
<1>1. Len(s) \in Nat /\ k \in Nat /\ k <= Len(s)
  BY LenProperties
<1>2. \A i \in 1..Len(s) : s[i] \in S
  BY ElementOfSeq
<1>3. \A i \in (k + 1)..Len(s) : s[i] \in S
  BY <1>1, <1>2
<1>4. /\ Rest(s, k) \in Seq(S)
      /\ Len(Rest(s, k)) = IF k + 1 <= Len(s) THEN Len(s) - (k + 1) + 1 ELSE 0
  BY <1>1, <1>3, SubSeqProperties DEF Rest
<1>5. k < Len(s) => Rest(s, k) # <<>>
  BY <1>1, <1>4, EmptySeq
<1>6. ASSUME k < Len(s)
      PROVE  Head(Rest(s, k)) = s[k + 1] /\ Tail(Rest(s, k)) = Rest(s, k + 1)
  <2>1. k + 1 \in 1..Len(s) /\ Len(s) \in (k + 1)..Len(s)
    BY <1>1, <1>6
  <2> QED
    BY <2>1, HeadTailOfSubSeq DEF Rest
<1>7. k = Len(s) => Rest(s, k) = <<>>
  BY <1>1, SubSeqEmpty DEF Rest
<1>8. Rest(s, 0) = s
  BY SubSeqFull DEF Rest
<1> QED
  BY <1>4, <1>5, <1>6, <1>7, <1>8

LEMMA StatementTypes ==
  /\ \A op \in Locking \cup Reading, p \in Product, s \in Source, n \in Int :
       Stmt(op, p, s, n) \in Statement
  /\ \A p \in Product, S \in SUBSET Order, n \in Int : Turns(p, S, n) \in Statement
  /\ \A R \in SUBSET Row : Releases(R) \in Statement
  /\ List \in Statement /\ SetStatus \in Statement
BY DEF Statement, Stmt, Turns, Releases, List, SetStatus

LEMMA SourceRows == Source = {"STOCK", "PURCHASE"}
BY DEF Source

LEMMA RequestLines ==
  ASSUME NEW r \in Request
  PROVE  /\ IsRequest(r)
         /\ Len(r.lines) \in Nat /\ DOMAIN r.lines = 1..Len(r.lines)
         /\ \A i \in 1..Len(r.lines) :
              r.lines[i] \in Product /\ r.qty[r.lines[i]] \in Nat
         /\ \A i, j \in 1..Len(r.lines) : r.lines[i] = r.lines[j] => i = j
         /\ r.kind \in Kind /\ r.qty \in [Product -> Nat]
<1>1. IsRequest(r)
  BY TransactionsAssumption
<1>2. PICK n \in Nat : r.lines \in [1..n -> Product]
  BY <1>1 DEF IsRequest, Lines
<1>3. Len(r.lines) = n /\ DOMAIN r.lines = 1..n
  BY <1>2
<1> QED
  BY <1>1, <1>2, <1>3 DEF IsRequest, Lines

LEMMA PerLineIs ==
  ASSUME NEW r \in Request, NEW op \in Locking \cup Reading, NEW sign \in Int
  PROVE  /\ PerLine(r, op, sign) \in Seq(Statement)
         /\ Len(PerLine(r, op, sign)) = Len(r.lines)
         /\ \A i \in 1..Len(r.lines) :
              PerLine(r, op, sign)[i] = Stmt(op, r.lines[i], "STOCK", sign * r.qty[r.lines[i]])
<1>1. /\ Len(r.lines) \in Nat /\ DOMAIN r.lines = 1..Len(r.lines)
      /\ \A i \in 1..Len(r.lines) : r.lines[i] \in Product /\ r.qty[r.lines[i]] \in Nat
  BY RequestLines
<1>2. ASSUME NEW i \in 1..Len(r.lines)
      PROVE  Stmt(op, r.lines[i], "STOCK", sign * r.qty[r.lines[i]]) \in Statement
  <2>1. sign * r.qty[r.lines[i]] \in Int
    BY <1>1
  <2> QED
    BY <1>1, <2>1, StatementTypes, SourceRows
<1> HIDE DEF Statement, Stmt
<1>3. PerLine(r, op, sign) \in [1..Len(r.lines) -> Statement]
  BY <1>1, <1>2 DEF PerLine
<1> QED
  BY <1>1, <1>3 DEF PerLine

(***************************************************************************)
(* The statements of a request, one by one.                                *)
(***************************************************************************)
LEMMA ProgramIs ==
  ASSUME NEW r \in Request
  PROVE  LET m == Len(r.lines)
             P == Program(r)
             line(op, i, n) == Stmt(op, r.lines[i], "STOCK", n)
             q(i) == r.qty[r.lines[i]]
         IN  /\ P \in Seq(Statement)
             /\ r.kind = "give" =>
                  Len(P) = m + 1 /\ P[1] = SetStatus /\ \A i \in 1..m : P[1 + i] = line("grant", i, q(i))
             /\ r.kind = "reserve" =>
                  Len(P) = m /\ \A i \in 1..m : P[i] = line("insist", i, q(i))
             /\ r.kind = "arrive" =>
                  Len(P) = m /\ \A i \in 1..m : P[i] = line("move", i, q(i))
             /\ r.kind = "issue" =>
                  Len(P) = m /\ \A i \in 1..m : P[i] = line("move", i, - q(i))
             /\ r.kind = "start" =>
                  /\ Len(P) = 2 * m + 1 /\ P[2 * m + 1] = SetStatus
                  /\ \A i \in 1..m : P[i] = line("check", i, q(i)) /\ P[m + i] = line("move", i, - q(i))
             /\ r.kind = "cancel" => Len(P) = 2 /\ P[1] = List /\ P[2] = SetStatus
<1> DEFINE m == Len(r.lines)
           q(i) == r.qty[r.lines[i]]
           S == Statement
<1>1. m \in Nat /\ (\A i \in 1..m : q(i) \in Nat) /\ r.kind \in Kind
  BY RequestLines
<1>2. ASSUME NEW op \in Locking \cup Reading
      PROVE  /\ PerLine(r, op, 1) \in Seq(S) /\ Len(PerLine(r, op, 1)) = m
             /\ \A i \in 1..m : PerLine(r, op, 1)[i] = Stmt(op, r.lines[i], "STOCK", q(i))
  <2>1. \A i \in 1..m : 1 * q(i) = q(i)
    BY <1>1
  <2> QED
    BY <2>1, PerLineIs
<1>3. /\ PerLine(r, "move", -1) \in Seq(S) /\ Len(PerLine(r, "move", -1)) = m
      /\ \A i \in 1..m : PerLine(r, "move", -1)[i] = Stmt("move", r.lines[i], "STOCK", - q(i))
  <2>1. \A i \in 1..m : (-1) * q(i) = - q(i)
    BY <1>1
  <2> QED
    BY <2>1, PerLineIs DEF Locking
<1>4. SetStatus \in S /\ List \in S
  BY StatementTypes
<1>5. {"grant", "insist", "move", "check"} \subseteq Locking \cup Reading
  BY DEF Locking, Reading
<1>6. <<SetStatus>> \in Seq(S) /\ Len(<<SetStatus>>) = 1 /\ <<SetStatus>>[1] = SetStatus
  BY <1>4
<1> HIDE DEF S, q, m
<1>7. CASE r.kind = "give"
  <2> DEFINE P == <<SetStatus>> \o PerLine(r, "grant", 1)
  <2>1. Program(r) = P
    BY <1>7 DEF Program
  <2>2. PerLine(r, "grant", 1) \in Seq(S) /\ Len(PerLine(r, "grant", 1)) = m
    BY <1>2, <1>5
  <2>3. P \in Seq(S) /\ Len(P) = 1 + m
        /\ \A i \in 1..1 + m : P[i] = IF i <= 1 THEN <<SetStatus>>[i] ELSE PerLine(r, "grant", 1)[i - 1]
    BY <2>2, <1>6, ConcatProperties
  <2>4. P[1] = SetStatus
    BY <2>3, <1>1, <1>6
  <2>5. ASSUME NEW i \in 1..m PROVE P[1 + i] = Stmt("grant", r.lines[i], "STOCK", q(i))
    <3>1. 1 + i \in 1..1 + m /\ ~ (1 + i <= 1) /\ 1 + i - 1 = i
      BY <1>1
    <3>2. P[1 + i] = PerLine(r, "grant", 1)[i]
      BY <2>3, <3>1
    <3> QED
      BY <3>2, <1>2, <1>5
  <2> HIDE DEF P
  <2> QED
    BY <1>1, <1>7, <2>1, <2>3, <2>4, <2>5 DEF S, q, m
<1>8. CASE r.kind \in {"reserve", "arrive", "issue"}
  <2>1. Program(r) = IF r.kind = "reserve" THEN PerLine(r, "insist", 1)
                     ELSE PerLine(r, "move", IF r.kind = "arrive" THEN 1 ELSE -1)
    BY <1>8 DEF Program
  <2> QED
    BY <1>2, <1>3, <1>5, <1>8, <2>1 DEF S, q, m
<1>9. CASE r.kind = "start"
  <2> DEFINE A == PerLine(r, "check", 1)
             B == PerLine(r, "move", -1)
             AB == A \o B
             P == AB \o <<SetStatus>>
  <2>1. Program(r) = P
    BY <1>9 DEF Program
  <2>2. /\ A \in Seq(S) /\ Len(A) = m
        /\ \A i \in 1..m : A[i] = Stmt("check", r.lines[i], "STOCK", q(i))
    BY <1>2, <1>5
  <2>3. /\ B \in Seq(S) /\ Len(B) = m
        /\ \A i \in 1..m : B[i] = Stmt("move", r.lines[i], "STOCK", - q(i))
    BY <1>3
  <2> HIDE DEF A, B
  <2>4. /\ AB \in Seq(S) /\ Len(AB) = Len(A) + Len(B)
        /\ \A i \in 1..Len(A) + Len(B) : AB[i] = IF i <= Len(A) THEN A[i] ELSE B[i - Len(A)]
    BY <2>2, <2>3, ConcatProperties
  <2> HIDE DEF AB
  <2>5. /\ AB \in Seq(S) /\ Len(AB) = m + m
        /\ \A i \in 1..m + m : AB[i] = IF i <= m THEN A[i] ELSE B[i - m]
    BY <2>2, <2>3, <2>4
  <2>6. /\ P \in Seq(S) /\ Len(P) = m + m + 1
        /\ \A i \in 1..m + m + 1 : P[i] = IF i <= m + m THEN AB[i] ELSE <<SetStatus>>[i - (m + m)]
    BY <2>5, <1>6, ConcatProperties
  <2>7. P[2 * m + 1] = SetStatus /\ Len(P) = 2 * m + 1
    BY <2>6, <1>1, <1>6
  <2>8. ASSUME NEW i \in 1..m
        PROVE  /\ P[i] = Stmt("check", r.lines[i], "STOCK", q(i))
               /\ P[m + i] = Stmt("move", r.lines[i], "STOCK", - q(i))
    <3>1. /\ i \in 1..m + m + 1 /\ i \in 1..m + m /\ i <= m /\ i <= m + m
          /\ m + i \in 1..m + m + 1 /\ m + i \in 1..m + m /\ ~ (m + i <= m) /\ m + i <= m + m
          /\ m + i - m = i
      BY <1>1
    <3>2. P[i] = AB[i] /\ P[m + i] = AB[m + i]
      BY <2>6, <3>1
    <3>3. AB[i] = A[i] /\ AB[m + i] = B[i]
      BY <1>1, <2>5, <3>1
    <3> QED
      BY <2>2, <2>3, <3>2, <3>3
  <2> HIDE DEF P
  <2> QED
    BY <1>1, <1>9, <2>1, <2>6, <2>7, <2>8 DEF S, q, m
<1>10. CASE r.kind = "cancel"
  <2>1. Program(r) = <<List, SetStatus>>
    BY <1>10 DEF Program
  <2> QED
    BY <1>4, <1>10, <2>1 DEF S, q, m
<1> QED
  BY <1>1, <1>7, <1>8, <1>9, <1>10 DEF Kind

-----------------------------------------------------------------------------
(* Where a connection is in its program. *)

LEMMA NextStatement ==
  ASSUME NEW t, NEW k \in 0..Len(Program(running[t])), NEW pre \in Inserts,
         running[t] \in Request, Progress(t, k, pre)
  PROVE  LET P == Program(running[t])
         IN  /\ pre = <<>> /\ k < Len(P) =>
                  todo[t] # <<>> /\ Head(todo[t]) = P[k + 1] /\ Tail(todo[t]) = Rest(P, k + 1)
             /\ pre = <<>> /\ k = Len(P) => todo[t] = <<>>
             /\ pre # <<>> =>
                  /\ todo[t] # <<>> /\ Head(todo[t]) = pre[1]
                  /\ Tail(todo[t]) = Tail(pre) \o Rest(P, k)
<1> DEFINE P == Program(running[t])
           S == Statement
<1>1. P \in Seq(S)
  BY ProgramIs
<1>2. todo[t] = pre \o Rest(P, k) /\ pre \in Seq(S)
  BY DEF Progress, Inserts
<1> HIDE DEF P, S
<1>3. k \in 0..Len(P)
  BY DEF P
<1>4. /\ Rest(P, k) \in Seq(S)
      /\ k < Len(P) => /\ Rest(P, k) # <<>>
                       /\ Head(Rest(P, k)) = P[k + 1]
                       /\ Tail(Rest(P, k)) = Rest(P, k + 1)
      /\ k = Len(P) => Rest(P, k) = <<>>
  BY <1>1, <1>3, RestOfProgram
<1>5. pre = <<>> => todo[t] = Rest(P, k)
  BY <1>2, <1>4, ConcatEmptySeq
<1>6. ASSUME pre # <<>>
      PROVE  todo[t] # <<>> /\ Head(todo[t]) = pre[1] /\ Tail(todo[t]) = Tail(pre) \o Rest(P, k)
  BY <1>2, <1>4, <1>6, Front
<1> QED
  BY <1>4, <1>5, <1>6 DEF P

\* Connection t has come to line i of its request and executes, next, the
\* statement op for that line, n units of it.
AtLine(t, k, pre, i, shift, op, n) ==
  /\ pre = <<>> /\ k + 1 = shift + i
  /\ i \in 1..Len(running[t].lines)
  /\ Head(todo[t]) = Stmt(op, running[t].lines[i], "STOCK", n)
  /\ Tail(todo[t]) = Rest(Program(running[t]), k + 1)
  /\ k + 1 \in 1..Len(Program(running[t]))
  
LEMMA InsertedOps ==
  ASSUME NEW r, NEW k, NEW pre, Inserted(r, k, pre), pre # <<>>
  PROVE  /\ pre[1].op \in {"turns", "releases", "unhold", "use", "consume"}
         /\ pre[1].op = "turns" => r.kind = "arrive"
         /\ pre[1].op \in {"use", "consume"} => r.kind = "start"
         /\ pre[1].op \in {"releases", "unhold"} => r.kind = "cancel"
         /\ r.kind = "arrive" => pre[1].op = "turns"
         /\ r.kind = "start" => pre[1].op \in {"use", "consume"}
         /\ r.kind = "cancel" => pre[1].op \in {"releases", "unhold"}
<1>1. \/ /\ r.kind = "arrive"
         /\ \E S, n : pre = <<Turns(r.lines[k], S, n)>>
      \/ /\ r.kind = "start"
         /\ \E p : Ending(p, pre)
      \/ r.kind = "cancel" /\ Freeing(pre)
  BY DEF Inserted
<1>2. \A p, S, n : Turns(p, S, n).op = "turns"
  BY DEF Turns
<1>3. \A op, p, s, n : Stmt(op, p, s, n).op = op
  BY DEF Stmt
<1>4. \A R : Releases(R).op = "releases"
  BY DEF Releases
<1>5. \A p : Ending(p, pre) => pre[1].op \in {"use", "consume"}
  BY <1>3 DEF Ending
<1>6. Freeing(pre) => pre[1].op \in {"releases", "unhold"}
  BY <1>3, <1>4 DEF Freeing
<1> QED
  BY <1>1, <1>2, <1>5, <1>6

(***************************************************************************)
(* The statement that comes next tells where in its program a connection   *)
(* is.                                                                     *)
(***************************************************************************)
LEMMA ProgramAt ==
  ASSUME NEW r \in Request, NEW j \in 1..Len(Program(r))
  PROVE  LET m == Len(r.lines)
             st == Program(r)[j]
             line(op, i, n) == st = Stmt(op, r.lines[i], "STOCK", n)
             q(i) == r.qty[r.lines[i]]
         IN  \/ r.kind = "give" /\ j = 1 /\ st = SetStatus
             \/ r.kind = "give" /\ \E i \in 1..m : j = 1 + i /\ line("grant", i, q(i))
             \/ r.kind = "reserve" /\ j \in 1..m /\ line("insist", j, q(j))
             \/ r.kind = "arrive" /\ j \in 1..m /\ line("move", j, q(j))
             \/ r.kind = "issue" /\ j \in 1..m /\ line("move", j, - q(j))
             \/ r.kind = "start" /\ j \in 1..m /\ line("check", j, q(j))
             \/ r.kind = "start" /\ \E i \in 1..m : j = m + i /\ line("move", i, - q(i))
             \/ r.kind = "start" /\ j = 2 * m + 1 /\ st = SetStatus
             \/ r.kind = "cancel" /\ j = 1 /\ st = List
             \/ r.kind = "cancel" /\ j = 2 /\ st = SetStatus
<1> DEFINE m == Len(r.lines)
           P == Program(r)
<1>1. m \in Nat /\ r.kind \in Kind
  BY RequestLines
<1>2. j \in Nat /\ 1 <= j /\ j <= Len(P)
  BY ProgramIs, LenProperties
<1>3. CASE r.kind = "give"
  <2>1. Len(P) = m + 1
    BY <1>3, ProgramIs
  <2>2. j = 1 \/ (j - 1 \in 1..m /\ j = 1 + (j - 1))
    BY <1>1, <1>2, <2>1
  <2> QED
    BY <1>3, <2>2, ProgramIs
<1>4. CASE r.kind \in {"reserve", "arrive", "issue"}
  <2>1. Len(P) = m
    BY <1>4, ProgramIs
  <2> QED
    BY <1>2, <1>4, <2>1, ProgramIs
<1>5. CASE r.kind = "start"
  <2>1. Len(P) = 2 * m + 1
    BY <1>5, ProgramIs
  <2>2. j \in 1..m \/ (j - m \in 1..m /\ j = m + (j - m)) \/ j = 2 * m + 1
    BY <1>1, <1>2, <2>1
  <2> QED
    BY <1>5, <2>2, ProgramIs
<1>6. CASE r.kind = "cancel"
  <2>1. Len(P) = 2
    BY <1>6, ProgramIs
  <2>2. j = 1 \/ j = 2
    BY <1>2, <2>1
  <2> QED
    BY <1>6, <2>2, ProgramIs
<1> QED
  BY <1>1, <1>3, <1>4, <1>5, <1>6 DEF Kind

LEMMA Ops ==
  /\ \A op, p, s, n : /\ Stmt(op, p, s, n).op = op /\ Stmt(op, p, s, n).product = p
                      /\ Stmt(op, p, s, n).source = s /\ Stmt(op, p, s, n).n = n
  /\ SetStatus.op = "status" /\ List.op = "list"
BY DEF Stmt, SetStatus, List

\* A statement of the program, and nothing inserted, comes next.
Straight(t, k, pre, ops) ==
  LET P == Program(running[t])
  IN  /\ pre = <<>> /\ k + 1 \in 1..Len(P)
      /\ Head(todo[t]) = P[k + 1] /\ Tail(todo[t]) = Rest(P, k + 1)
      /\ P[k + 1].op \in ops

LEMMA AtStraight ==
  ASSUME NEW t, NEW k \in 0..Len(Program(running[t])), NEW pre \in Inserts,
         running[t] \in Request, Progress(t, k, pre),
         NEW ops, At(t, ops), ops \cap {"turns", "releases", "unhold", "use", "consume"} = {}
  PROVE  Straight(t, k, pre, ops)
<1> DEFINE P == Program(running[t])
<1>1. Len(P) \in Nat
  BY ProgramIs, LenProperties
<1>2. todo[t] # <<>> /\ Head(todo[t]).op \in ops
  BY DEF At
<1>3. pre = <<>>
  <2>1. SUFFICES ASSUME pre # <<>> PROVE FALSE
    OBVIOUS
  <2>2. Head(todo[t]) = pre[1]
    BY <2>1, NextStatement
  <2>3. pre[1].op \in {"turns", "releases", "unhold", "use", "consume"}
    BY <2>1, InsertedOps DEF Progress
  <2> QED
    BY <1>2, <2>2, <2>3
<1>4. k # Len(P)
  BY <1>2, <1>3, NextStatement
<1>5. k < Len(P) /\ k + 1 \in 1..Len(P)
  BY <1>1, <1>4
<1> QED
  BY <1>2, <1>3, <1>5, NextStatement DEF Straight

LEMMA AtGrant ==
  ASSUME NEW t, NEW k \in 0..Len(Program(running[t])), NEW pre \in Inserts,
         running[t] \in Request, Progress(t, k, pre), At(t, {"grant", "insist"})
  PROVE  LET r == running[t]
             op == IF r.kind = "give" THEN "grant" ELSE "insist"
         IN  /\ r.kind \in {"give", "reserve"}
             /\ \E i \in 1..Len(r.lines) : AtLine(t, k, pre, i, Shift(r), op, r.qty[r.lines[i]])
<1>1. Straight(t, k, pre, {"grant", "insist"})
  BY AtStraight
<1> QED
  BY <1>1, ProgramAt, Ops DEF Straight, AtLine, Shift

LEMMA AtMove ==
  ASSUME NEW t, NEW k \in 0..Len(Program(running[t])), NEW pre \in Inserts,
         running[t] \in Request, Progress(t, k, pre), At(t, {"move"})
  PROVE  LET r == running[t]
             n(i) == IF r.kind = "arrive" THEN r.qty[r.lines[i]] ELSE - r.qty[r.lines[i]]
         IN  /\ r.kind \in {"arrive", "issue", "start"}
             /\ \E i \in 1..Len(r.lines) : AtLine(t, k, pre, i, Shift(r), "move", n(i))
<1>1. Straight(t, k, pre, {"move"})
  BY AtStraight
<1> DEFINE r == running[t]
           m == Len(r.lines)
           P == Program(r)
           q(i) == r.qty[r.lines[i]]
<1>2. m \in Nat /\ k \in Nat
  BY RequestLines, ProgramIs, LenProperties
<1>3. /\ pre = <<>> /\ k + 1 \in 1..Len(P)
      /\ Head(todo[t]) = P[k + 1] /\ Tail(todo[t]) = Rest(P, k + 1) /\ P[k + 1].op = "move"
  BY <1>1 DEF Straight
<1>4. \/ r.kind = "arrive" /\ k + 1 \in 1..m /\ P[k + 1] = Stmt("move", r.lines[k + 1], "STOCK", q(k + 1))
      \/ r.kind = "issue" /\ k + 1 \in 1..m /\ P[k + 1] = Stmt("move", r.lines[k + 1], "STOCK", - q(k + 1))
      \/ r.kind = "start" /\ \E i \in 1..m : k + 1 = m + i /\ P[k + 1] = Stmt("move", r.lines[i], "STOCK", - q(i))
  <2>1. r \in Request /\ k + 1 \in 1..Len(Program(r)) /\ Program(r)[k + 1].op = "move"
    BY <1>3
  <2> HIDE DEF r
  <2> QED
    BY <2>1, ProgramAt, Ops
<1>5. CASE r.kind = "start"
  BY <1>3, <1>4, <1>5 DEF AtLine, Shift
<1>6. CASE r.kind \in {"arrive", "issue"}
  <2>0. Shift(r) = 0
    BY <1>6 DEF Shift
  <2>1. k + 1 = Shift(r) + (k + 1)
    BY <1>2, <2>0
  <2> QED
    BY <1>3, <1>4, <1>6, <2>1 DEF AtLine
<1> QED
  BY <1>4, <1>5, <1>6

LEMMA AtCheck ==
  ASSUME NEW t, NEW k \in 0..Len(Program(running[t])), NEW pre \in Inserts,
         running[t] \in Request, Progress(t, k, pre), At(t, {"check"})
  PROVE  LET r == running[t]
         IN  /\ r.kind = "start"
             /\ \E i \in 1..Len(r.lines) : AtLine(t, k, pre, i, 0, "check", r.qty[r.lines[i]])
<1>1. Straight(t, k, pre, {"check"})
  BY AtStraight
<1> QED
  BY <1>1, ProgramAt, Ops DEF Straight, AtLine

LEMMA AtList ==
  ASSUME NEW t, NEW k \in 0..Len(Program(running[t])), NEW pre \in Inserts,
         running[t] \in Request, Progress(t, k, pre), At(t, {"list"})
  PROVE  /\ running[t].kind = "cancel" /\ k = 0 /\ pre = <<>>
         /\ Tail(todo[t]) = Rest(Program(running[t]), 1)
<1>1. Straight(t, k, pre, {"list"})
  BY AtStraight
<1> QED
  BY <1>1, ProgramAt, Ops DEF Straight

LEMMA AtStatus ==
  ASSUME NEW t, NEW k \in 0..Len(Program(running[t])), NEW pre \in Inserts,
         running[t] \in Request, Progress(t, k, pre), At(t, {"status"})
  PROVE  LET r == running[t]
         IN  /\ pre = <<>> /\ k + 1 \in 1..Len(Program(r))
             /\ Tail(todo[t]) = Rest(Program(r), k + 1)
             /\ \/ r.kind = "give" /\ k = 0
                \/ r.kind = "start" /\ k = 2 * Len(r.lines)
                \/ r.kind = "cancel" /\ k = 1
<1>1. Straight(t, k, pre, {"status"})
  BY AtStraight
<1> DEFINE r == running[t]
           m == Len(r.lines)
           P == Program(r)
<1>2. m \in Nat /\ k \in Nat
  BY RequestLines, ProgramIs, LenProperties
<1>3. /\ pre = <<>> /\ k + 1 \in 1..Len(P)
      /\ Tail(todo[t]) = Rest(P, k + 1) /\ P[k + 1].op = "status"
  BY <1>1 DEF Straight
<1>4. \/ r.kind = "give" /\ k + 1 = 1
      \/ r.kind = "start" /\ k + 1 = 2 * m + 1
      \/ r.kind = "cancel" /\ k + 1 = 2
  <2>1. r \in Request /\ k + 1 \in 1..Len(Program(r)) /\ Program(r)[k + 1].op = "status"
    BY <1>3
  <2> HIDE DEF r
  <2> QED
    BY <2>1, ProgramAt, Ops
<1>5. (k + 1 = 1 => k = 0) /\ (k + 1 = 2 * m + 1 => k = 2 * m) /\ (k + 1 = 2 => k = 1)
  BY <1>2
<1> QED
  BY <1>3, <1>4, <1>5

LEMMA AtEnd ==
  ASSUME NEW t, NEW k \in 0..Len(Program(running[t])), NEW pre \in Inserts,
         running[t] \in Request, Progress(t, k, pre), todo[t] = <<>>
  PROVE  pre = <<>> /\ k = Len(Program(running[t]))
<1>1. Len(Program(running[t])) \in Nat
  BY ProgramIs, LenProperties
<1>2. pre = <<>> /\ ~ (k < Len(Program(running[t])))
  <2>1. pre # <<>> => todo[t] # <<>>
    BY NextStatement
  <2>2. pre = <<>> /\ k < Len(Program(running[t])) => todo[t] # <<>>
    BY NextStatement
  <2> QED
    BY <2>1, <2>2
<1> QED
  BY <1>1, <1>2

LEMMA TailOfFew ==
  ASSUME NEW a, NEW b
  PROVE  /\ Tail(<<a>>) = <<>> /\ Tail(<<a, b>>) = <<b>>
         /\ <<a>>[1] = a /\ <<a, b>>[1] = a
         /\ <<a>> # <<>> /\ <<a, b>> # <<>>
         /\ <<a>> \o <<b>> = <<a, b>>
<1> DEFINE S == {a, b}
<1>1. <<a>> \in Seq(S) /\ <<b>> \in Seq(S) /\ <<a, b>> \in Seq(S)
  OBVIOUS
<1>2. /\ Len(<<a>>) = 1 /\ Len(<<b>>) = 1 /\ Len(<<a, b>>) = 2
      /\ <<a>>[1] = a /\ <<b>>[1] = b /\ <<a, b>>[1] = a /\ <<a, b>>[2] = b
  OBVIOUS
<1>3. <<a>> # <<>> /\ <<a, b>> # <<>>
  OBVIOUS
<1>4. Tail(<<a>>) = <<>>
  OBVIOUS
<1>5. Tail(<<a, b>>) = <<b>>
  OBVIOUS
<1>6. <<a>> \o <<b>> = <<a, b>>
  <2> HIDE DEF S
  <2>1. /\ <<a>> \o <<b>> \in Seq(S) /\ Len(<<a>> \o <<b>>) = 2
        /\ \A i \in 1..2 : (<<a>> \o <<b>>)[i] = IF i <= 1 THEN <<a>>[i] ELSE <<b>>[i - 1]
    BY <1>1, <1>2, ConcatProperties
  <2>2. \A i \in 1..2 : (<<a>> \o <<b>>)[i] = <<a, b>>[i]
    BY <1>2, <2>1
  <2> QED
    BY <1>1, <1>2, <2>1, <2>2, SeqEqual
<1> QED
  BY <1>2, <1>3, <1>4, <1>5, <1>6

LEMMA NothingBefore ==
  ASSUME NEW r \in Request, NEW k \in 0..Len(Program(r))
  PROVE  Rest(Program(r), k) \in Seq(Statement) /\ <<>> \o Rest(Program(r), k) = Rest(Program(r), k)
<1>1. Program(r) \in Seq(Statement)
  BY ProgramIs
<1>2. Rest(Program(r), k) \in Seq(Statement)
  BY <1>1, RestOfProgram
<1> QED
  BY <1>2, ConcatEmptySeq

LEMMA AtInserted ==
  ASSUME NEW t, NEW k \in 0..Len(Program(running[t])), NEW pre \in Inserts,
         running[t] \in Request, Progress(t, k, pre),
         At(t, {"turns", "releases", "unhold", "use", "consume"})
  PROVE  /\ pre # <<>> /\ Head(todo[t]) = pre[1]
         /\ Tail(todo[t]) = Tail(pre) \o Rest(Program(running[t]), k)
<1> DEFINE P == Program(running[t])
<1>1. Len(P) \in Nat
  BY ProgramIs, LenProperties
<1>2. todo[t] # <<>> /\ Head(todo[t]).op \in {"turns", "releases", "unhold", "use", "consume"}
  BY DEF At
<1>3. ASSUME pre = <<>> PROVE FALSE
  <2>0. k # Len(P)
    BY <1>2, <1>3, NextStatement
  <2>1. k < Len(P) /\ k + 1 \in 1..Len(P)
    BY <1>1, <2>0
  <2>2. Head(todo[t]) = P[k + 1]
    BY <1>3, <2>1, NextStatement
  <2>3. P[k + 1].op \in {"turns", "releases", "unhold", "use", "consume"}
    BY <1>2, <2>2
  <2>4. P[k + 1].op \in {"grant", "insist", "move", "check", "status", "list"}
    BY <2>1, ProgramAt, Ops
  <2> QED
    BY <2>3, <2>4
<1> QED
  BY <1>2, <1>3, NextStatement

LEMMA AtTurns ==
  ASSUME NEW t, NEW k \in 0..Len(Program(running[t])), NEW pre \in Inserts,
         running[t] \in Request, Progress(t, k, pre), At(t, {"turns"})
  PROVE  LET r == running[t]
         IN  /\ r.kind = "arrive" /\ k \in 1..Len(r.lines)
             /\ Tail(todo[t]) = Rest(Program(r), k)
             /\ \E S \in (SUBSET Order) \ {{}}, n \in Int :
                  pre = <<Turns(r.lines[k], S, n)>> /\ Head(todo[t]) = Turns(r.lines[k], S, n)
<1> DEFINE r == running[t]
           P == Program(r)
<1>0. /\ At(t, {"turns", "releases", "unhold", "use", "consume"})
      /\ Head(todo[t]).op = "turns"
  BY DEF At
<1>1. /\ pre # <<>> /\ Head(todo[t]) = pre[1] /\ pre[1].op = "turns"
      /\ Tail(todo[t]) = Tail(pre) \o Rest(P, k)
  BY <1>0, AtInserted
<1>2. r.kind = "arrive"
  BY <1>1, InsertedOps DEF Progress
<1>3. /\ k \in DOMAIN r.lines
      /\ \E S \in (SUBSET Order) \ {{}}, n \in Int : pre = <<Turns(r.lines[k], S, n)>>
  BY <1>1, <1>2 DEF Progress, Inserted
<1>4. Tail(pre) = <<>>
  BY <1>3
<1>5. Tail(todo[t]) = Rest(P, k)
  BY <1>1, <1>4, NothingBefore
<1> QED
  BY <1>1, <1>2, <1>3, <1>5, RequestLines, TailOfFew

LEMMA AtReleases ==
  ASSUME NEW t, NEW k \in 0..Len(Program(running[t])), NEW pre \in Inserts,
         running[t] \in Request, Progress(t, k, pre), At(t, {"releases"})
  PROVE  /\ running[t].kind = "cancel" /\ k = 1
         /\ Tail(todo[t]) = Rest(Program(running[t]), 1)
         /\ \E R \in SUBSET Row : pre = <<Releases(R)>> /\ Head(todo[t]) = Releases(R)
<1> DEFINE r == running[t]
           P == Program(r)
<1>0. /\ At(t, {"turns", "releases", "unhold", "use", "consume"})
      /\ Head(todo[t]).op = "releases"
  BY DEF At
<1>1. /\ pre # <<>> /\ Head(todo[t]) = pre[1] /\ pre[1].op = "releases"
      /\ Tail(todo[t]) = Tail(pre) \o Rest(P, k)
  BY <1>0, AtInserted
<1>2. r.kind = "cancel"
  BY <1>1, InsertedOps DEF Progress
<1>3. k = 1 /\ Freeing(pre)
  BY <1>1, <1>2 DEF Progress, Inserted
<1>4. \A p, s, a : Stmt("unhold", p, s, a).op # "releases"
  BY Ops
<1>5. \E R \in SUBSET Row : pre = <<Releases(R)>>
  BY <1>1, <1>3, <1>4, TailOfFew DEF Freeing
<1>6. Tail(pre) = <<>>
  BY <1>5
<1>7. Tail(todo[t]) = Rest(P, k)
  BY <1>1, <1>6, NothingBefore
<1> QED
  BY <1>1, <1>2, <1>3, <1>5, <1>7, TailOfFew

\* The head of the statements pre ends a of the hold on line i of the request,
\* and at most one more statement of that line follows.
EndingAt(t, k, pre, op, i, s, a) ==
  LET p == running[t].lines[i]
      rest == Rest(Program(running[t]), k)
  IN  /\ k = Len(running[t].lines) + i
      /\ Head(todo[t]) = Stmt(op, p, s, a)
      /\ \/ pre = <<Stmt(op, p, s, a)>> /\ Tail(todo[t]) = rest
         \/ \E b \in Nat \ {0} :
              /\ s = "STOCK"
              /\ pre = <<Stmt(op, p, s, a), Stmt("consume", p, "PURCHASE", b)>>
              /\ Tail(todo[t]) = <<Stmt("consume", p, "PURCHASE", b)>> \o rest

LEMMA AtEnding ==
  ASSUME NEW t, NEW k \in 0..Len(Program(running[t])), NEW pre \in Inserts,
         running[t] \in Request, Progress(t, k, pre), NEW op \in {"consume", "use"}, At(t, {op})
  PROVE  /\ running[t].kind = "start"
         /\ \E i \in 1..Len(running[t].lines), a \in Nat \ {0}, s \in Source :
              EndingAt(t, k, pre, op, i, s, a)
<1> DEFINE r == running[t]
           P == Program(r)
<1>0. /\ At(t, {"turns", "releases", "unhold", "use", "consume"})
      /\ Head(todo[t]).op = op
  BY DEF At
<1>1. /\ pre # <<>> /\ Head(todo[t]) = pre[1] /\ pre[1].op = op
      /\ Tail(todo[t]) = Tail(pre) \o Rest(P, k)
  BY <1>0, AtInserted
<1>2. r.kind = "start"
  BY <1>1, InsertedOps DEF Progress
<1>3. PICK i \in 1..Len(r.lines) : k = Len(r.lines) + i /\ Ending(r.lines[i], pre)
  BY <1>1, <1>2, RequestLines DEF Progress, Inserted
<1>4. PICK a \in Nat \ {0} :
        \/ \E s \in Source : pre = <<Stmt(op, r.lines[i], s, a)>>
        \/ \E b \in Nat \ {0} :
             pre = <<Stmt(op, r.lines[i], "STOCK", a), Stmt("consume", r.lines[i], "PURCHASE", b)>>
  <2>1. PICK op2 \in {"consume", "use"}, a \in Nat \ {0} :
          \/ \E s \in Source : pre = <<Stmt(op2, r.lines[i], s, a)>>
          \/ \E b \in Nat \ {0} :
               pre = <<Stmt(op2, r.lines[i], "STOCK", a), Stmt("consume", r.lines[i], "PURCHASE", b)>>
    BY <1>3 DEF Ending
  <2>2. pre[1].op = op2
    BY <2>1, Ops, TailOfFew
  <2> QED
    BY <1>1, <2>1, <2>2
<1>5. Rest(P, k) \in Seq(Statement) /\ <<>> \o Rest(P, k) = Rest(P, k)
  BY NothingBefore
<1>6. CASE \E s \in Source : pre = <<Stmt(op, r.lines[i], s, a)>>
  <2>1. PICK s \in Source : pre = <<Stmt(op, r.lines[i], s, a)>>
    BY <1>6
  <2>2. Tail(pre) = <<>> /\ pre[1] = Stmt(op, r.lines[i], s, a)
    BY <2>1, TailOfFew
  <2> QED
    BY <1>1, <1>2, <1>3, <1>5, <2>1, <2>2 DEF EndingAt
<1>7. CASE \E b \in Nat \ {0} :
             pre = <<Stmt(op, r.lines[i], "STOCK", a), Stmt("consume", r.lines[i], "PURCHASE", b)>>
  <2>1. PICK b \in Nat \ {0} :
          pre = <<Stmt(op, r.lines[i], "STOCK", a), Stmt("consume", r.lines[i], "PURCHASE", b)>>
    BY <1>7
  <2>2. /\ Tail(pre) = <<Stmt("consume", r.lines[i], "PURCHASE", b)>>
        /\ pre[1] = Stmt(op, r.lines[i], "STOCK", a)
    BY <2>1, TailOfFew
  <2> QED
    BY <1>1, <1>2, <1>3, <2>1, <2>2, SourceRows DEF EndingAt
<1> QED
  BY <1>4, <1>6, <1>7

LEMMA AtUnhold ==
  ASSUME NEW t, NEW k \in 0..Len(Program(running[t])), NEW pre \in Inserts,
         running[t] \in Request, Progress(t, k, pre), At(t, {"unhold"})
  PROVE  LET P == Program(running[t])
         IN  /\ running[t].kind = "cancel" /\ k = 1
             /\ \E p \in Product, s \in Source, a \in Nat \ {0} :
                  /\ Head(todo[t]) = Stmt("unhold", p, s, a)
                  /\ \/ pre = <<Stmt("unhold", p, s, a)>> /\ Tail(todo[t]) = Rest(P, 1)
                     \/ \E R \in SUBSET Row :
                          /\ pre = <<Stmt("unhold", p, s, a), Releases(R)>>
                          /\ Tail(todo[t]) = <<Releases(R)>> \o Rest(P, 1)
<1> DEFINE r == running[t]
           P == Program(r)
<1>0. /\ At(t, {"turns", "releases", "unhold", "use", "consume"})
      /\ Head(todo[t]).op = "unhold"
  BY DEF At
<1>1. /\ pre # <<>> /\ Head(todo[t]) = pre[1] /\ pre[1].op = "unhold"
      /\ Tail(todo[t]) = Tail(pre) \o Rest(P, k)
  BY <1>0, AtInserted
<1>2. r.kind = "cancel"
  BY <1>1, InsertedOps DEF Progress
<1>3. k = 1 /\ Freeing(pre)
  BY <1>1, <1>2 DEF Progress, Inserted
<1>4. \A R : Releases(R).op # "unhold"
  BY DEF Releases
<1>5. PICK p \in Product, s \in Source, a \in Nat \ {0} :
        \/ pre = <<Stmt("unhold", p, s, a)>>
        \/ \E R \in SUBSET Row : pre = <<Stmt("unhold", p, s, a), Releases(R)>>
  BY <1>1, <1>3, <1>4, TailOfFew DEF Freeing
<1>6. Rest(P, k) \in Seq(Statement) /\ <<>> \o Rest(P, k) = Rest(P, k)
  BY NothingBefore
<1>7. CASE pre = <<Stmt("unhold", p, s, a)>>
  <2>1. Tail(pre) = <<>> /\ pre[1] = Stmt("unhold", p, s, a)
    BY <1>7, TailOfFew
  <2> QED
    BY <1>1, <1>2, <1>3, <1>6, <1>7, <2>1
<1>8. CASE \E R \in SUBSET Row : pre = <<Stmt("unhold", p, s, a), Releases(R)>>
  <2>1. PICK R \in SUBSET Row : pre = <<Stmt("unhold", p, s, a), Releases(R)>>
    BY <1>8
  <2>2. Tail(pre) = <<Releases(R)>> /\ pre[1] = Stmt("unhold", p, s, a)
    BY <2>1, TailOfFew
  <2> QED
    BY <1>1, <1>2, <1>3, <2>1, <2>2
<1> QED
  BY <1>5, <1>7, <1>8

-----------------------------------------------------------------------------
(* Types of what the statements write. *)

LEMMA GrantTyped ==
  ASSUME NEW c \in IntCell, NEW s \in Source, NEW o \in Order, NEW n \in Int
  PROVE  /\ Granted(c, n) \in Nat /\ Grant(c, s, o, n) \in IntCell
         /\ Grant(c, s, o, n).qty = c.qty
         /\ Grant(c, s, o, n).reserved = c.reserved + Granted(c, n)
         /\ Granted(c, n) > 0 => c.reserved + Granted(c, n) <= c.qty
<1>1. c.qty \in Int /\ c.reserved \in Nat /\ c.hold \in [Source -> [Order -> Int]]
      /\ c.consumed \in [Order -> Int]
  BY DEF IntCell
<1>2. Granted(c, n) \in Nat /\ (Granted(c, n) > 0 => c.reserved + Granted(c, n) <= c.qty)
  BY <1>1 DEF Granted, Least, NonNegative, Available
<1>3. Adjusted(c.hold, s, o, Granted(c, n)) \in [Source -> [Order -> Int]]
  BY <1>1, <1>2 DEF Adjusted
<1>4. c.reserved + Granted(c, n) \in Nat
  BY <1>1, <1>2
<1> HIDE DEF Order, Source
<1> QED
  BY <1>1, <1>2, <1>3, <1>4 DEF Grant, IntCell

LEMMA MovedTyped ==
  ASSUME NEW c \in IntCell, NEW n \in Int
  PROVE  LET d == [c EXCEPT !.qty = @ + n]
         IN  d \in IntCell /\ d.qty = c.qty + n /\ d.reserved = c.reserved
BY DEF IntCell

LEMMA UnheldTyped ==
  ASSUME NEW c \in IntCell, NEW s \in Source, NEW o \in Order, NEW n \in Int
  PROVE  /\ Unheld(c, s, o, n) \in IntCell /\ Used(c, s, o, n) \in IntCell
         /\ Unheld(c, s, o, n) = [qty |-> c.qty, reserved |-> NonNegative(c.reserved - n),
                                 hold |-> Adjusted(c.hold, s, o, - n), consumed |-> c.consumed]
         /\ Used(c, s, o, n) = [qty |-> c.qty, reserved |-> NonNegative(c.reserved - n),
                               hold |-> Adjusted(c.hold, s, o, - n),
                               consumed |-> [c.consumed EXCEPT ![o] = @ + n]]
<1>1. /\ c.qty \in Int /\ c.reserved \in Nat /\ c.hold \in [Source -> [Order -> Int]]
      /\ c.consumed \in [Order -> Int]
      /\ c = [qty |-> c.qty, reserved |-> c.reserved, hold |-> c.hold, consumed |-> c.consumed]
  BY DEF IntCell
<1>2. NonNegative(c.reserved - n) \in Nat
  BY <1>1 DEF NonNegative
<1>3. /\ Adjusted(c.hold, s, o, - n) \in [Source -> [Order -> Int]]
      /\ Adjusted(c.hold, s, o, - n) = [c.hold EXCEPT ![s][o] = @ - n]
  <2>1. c.hold[s][o] \in Int /\ c.hold[s][o] + (- n) = c.hold[s][o] - n /\ c.hold[s][o] - n \in Int
    BY <1>1
  <2>2. Adjusted(c.hold, s, o, - n) = [c.hold EXCEPT ![s][o] = c.hold[s][o] - n]
    BY <2>1 DEF Adjusted
  <2> QED
    BY <1>1, <2>1, <2>2
<1>4. [c.consumed EXCEPT ![o] = @ + n] \in [Order -> Int]
  BY <1>1
<1> DEFINE N == NonNegative(c.reserved - n)
           H == Adjusted(c.hold, s, o, - n)
           C == [c.consumed EXCEPT ![o] = @ + n]
           u == [qty |-> c.qty, reserved |-> N, hold |-> H, consumed |-> c.consumed]
           w == [qty |-> c.qty, reserved |-> N, hold |-> H, consumed |-> C]
<1>5. Unheld(c, s, o, n) = u
  <2>1. Unheld(c, s, o, n) = [c EXCEPT !.reserved = N, !.hold = [c.hold EXCEPT ![s][o] = @ - n]]
    BY DEF Unheld
  <2> HIDE DEF N
  <2> QED
    BY <1>1, <1>3, <2>1
<1>6. Used(c, s, o, n) = w
  <2>1. Used(c, s, o, n) = [u EXCEPT !.consumed = [u.consumed EXCEPT ![o] = @ + n]]
    BY <1>5 DEF Used
  <2> HIDE DEF N, H
  <2> QED
    BY <2>1
<1>7. u \in IntCell /\ w \in IntCell
  <2> HIDE DEF N, H, C
  <2> QED
    BY <1>1, <1>2, <1>3, <1>4 DEF IntCell, N, H, C
<1> QED
  BY <1>5, <1>6, <1>7

LEMMA ViewTyped ==
  ASSUME TransactionsTypeOK, NEW t, NEW p \in Product
  PROVE  View(t, p) \in IntCell
BY DEF TransactionsTypeOK, View

LEMMA OrderOfTyped ==
  ASSUME NEW r \in Request, r.kind \in {"give", "reserve", "start", "cancel"}
  PROVE  OrderOfRequest(r) \in Order /\ (r.kind # "start" => OrderOfRequest(r) = r.doc)
<1>1. IsRequest(r) /\ \A b \in Batch : OrderOf[b] \in Order
  BY TransactionsAssumption
<1> QED
  BY <1>1 DEF IsRequest, OrderOfRequest

LEMMA DocTyped ==
  ASSUME NEW r \in Request, r.kind \in {"give", "start", "cancel"}
  PROVE  r.doc \in Doc /\ StatusAfter(r) \in OrderStatus \cup BatchStatus
<1>1. IsRequest(r)
  BY TransactionsAssumption
<1> QED
  BY <1>1 DEF IsRequest, Doc, StatusAfter, OrderStatus, BatchStatus

-----------------------------------------------------------------------------
(* The kinds of steps, and what they leave to the other connections. *)

\* The kinds of steps of a connection that goes on with its program.
Writes(t, p, c, s) == Lock(t, p, c) /\ Continue(t, s) /\ UNCHANGED seen
Reads(t, s) == /\ Read(t, s)
               /\ seen' \in [Tx -> [Product -> [Source -> Int]]]
               /\ \A u \in Tx \ {t} : seen'[u] = seen[u]

\* Everything but the stock row that a start has read and not yet compared.
settled == <<rows, cellOwner, docOwner, draft, draftStatus, running, todo, seen, waiting>>

\* A step of another connection leaves u what it has.
Undisturbed(u) ==
  /\ running'[u] = running[u] /\ todo'[u] = todo[u] /\ seen'[u] = seen[u]
  /\ \A p \in Product :
       /\ cellOwner'[p] = u <=> cellOwner[p] = u
       /\ cellOwner[p] = u => draft'[p] = draft[p] /\ cell'[p] = cell[p]
  /\ \A d \in Doc :
       /\ docOwner'[d] = u <=> docOwner[d] = u
       /\ docOwner[d] = u => draftStatus'[d] = draftStatus[d] /\ status'[d] = status[d]

LEMMA NotNone ==
  /\ \A t \in Tx : t # None
  /\ \A r \in Request : r # None
BY TransactionsAssumption

\* To read a stock row and not yet compare it is to settle nothing.
LEMMA ReadStockSettlesNothing ==
  /\ UNCHANGED vars => UNCHANGED settled
  /\ \A t \in Tx : ReadStock(t) => UNCHANGED settled
BY DEF ReadStock, vars, settled, rows

LEMMA WritesTyped ==
  ASSUME TransactionsTypeOK, NEW t \in Tx, NEW p \in Product, NEW c \in IntCell,
         NEW s \in Seq(Statement), Writes(t, p, c, s)
  PROVE  /\ TransactionsTypeOK'
         /\ cellOwner[p] \in {None, t}
         /\ cellOwner' = [cellOwner EXCEPT ![p] = t] /\ draft' = [draft EXCEPT ![p] = c]
         /\ todo' = [todo EXCEPT ![t] = s]
         /\ UNCHANGED <<cell, status, docOwner, draftStatus, running, waiting, seen>>
         /\ \A u \in Tx \ {t} : Undisturbed(u)
<1> USE NotNone
<1> HIDE DEF Statement, IntCell
<1>1. /\ cellOwner[p] \in {None, t}
      /\ cellOwner' = [cellOwner EXCEPT ![p] = t] /\ draft' = [draft EXCEPT ![p] = c]
      /\ todo' = [todo EXCEPT ![t] = s] /\ shelf' = [shelf EXCEPT ![t] = None]
      /\ UNCHANGED <<cell, status, docOwner, draftStatus, running, waiting, seen>>
  BY DEF Writes, Lock, Continue
<1>2. TransactionsTypeOK'
  BY <1>1 DEF TransactionsTypeOK
<1>3. \A u \in Tx \ {t} : Undisturbed(u)
  BY <1>1 DEF TransactionsTypeOK, Undisturbed
<1> QED
  BY <1>1, <1>2, <1>3

LEMMA ReadsTyped ==
  ASSUME TransactionsTypeOK, NEW t \in Tx, NEW s \in Seq(Statement), Reads(t, s)
  PROVE  /\ TransactionsTypeOK'
         /\ todo' = [todo EXCEPT ![t] = s]
         /\ UNCHANGED <<cell, status, cellOwner, docOwner, draft, draftStatus, running, waiting>>
         /\ \A u \in Tx \ {t} : Undisturbed(u)
<1> HIDE DEF Statement, IntCell
<1>1. /\ todo' = [todo EXCEPT ![t] = s] /\ shelf' = [shelf EXCEPT ![t] = None]
      /\ seen' \in [Tx -> [Product -> [Source -> Int]]]
      /\ \A u \in Tx \ {t} : seen'[u] = seen[u]
      /\ UNCHANGED <<cell, status, cellOwner, docOwner, draft, draftStatus, running, waiting>>
  BY DEF Reads, Read, Continue
<1>2. TransactionsTypeOK'
  BY <1>1 DEF TransactionsTypeOK
<1>3. \A u \in Tx \ {t} : Undisturbed(u)
  BY <1>1 DEF TransactionsTypeOK, Undisturbed
<1> QED
  BY <1>1, <1>2, <1>3

-----------------------------------------------------------------------------
(* Progress through a program. *)

LEMMA PassedLine ==
  ASSUME NEW r \in Request, r.kind # "cancel", NEW i \in 1..Len(r.lines), NEW k \in Nat,
         k + 1 = Shift(r) + i
  PROVE  /\ \A q \in Product : Passed(r, k + 1, q) <=> q = r.lines[i] \/ Passed(r, k, q)
         /\ ~ Passed(r, k, r.lines[i])
         /\ StatusPassed(r, k + 1) <=> StatusPassed(r, k)
<1> DEFINE m == Len(r.lines)
<1>1. /\ m \in Nat /\ DOMAIN r.lines = 1..m
      /\ \A h, j \in 1..m : r.lines[h] = r.lines[j] => h = j
  BY RequestLines
<1>2. Shift(r) \in Nat /\ (r.kind = "give" => Shift(r) = 1) /\ (r.kind = "start" => Shift(r) = m)
  BY <1>1 DEF Shift
<1> HIDE DEF m
<1>3. \A j \in 1..m : Shift(r) + j <= k + 1 <=> j = i \/ Shift(r) + j <= k
  BY <1>1, <1>2 DEF m
<1>4. ~ (Shift(r) + i <= k)
  BY <1>1, <1>2 DEF m
<1>5. StatusPassed(r, k + 1) <=> StatusPassed(r, k)
  BY <1>1, <1>2 DEF StatusPassed, m
<1>6. ~ Passed(r, k, r.lines[i])
  BY <1>1, <1>4 DEF Passed, m
<1>7. \A q \in Product : Passed(r, k + 1, q) <=> q = r.lines[i] \/ Passed(r, k, q)
  BY <1>1, <1>3 DEF Passed, m
<1> QED
  BY <1>5, <1>6, <1>7

LEMMA WritesProgress ==
  ASSUME TransactionsTypeOK, NEW t \in Tx, running[t] \in Request,
         NEW k, NEW pre, Progress(t, k, pre),
         NEW p \in Product, NEW c, NEW s, Writes(t, p, c, s),
         NEW k2, NEW pre2, s = pre2 \o Rest(Program(running[t]), k2),
         Inserted(running[t], k2, pre2),
         running[t].kind # "cancel" =>
           \A q \in Product : Passed(running[t], k2, q) <=> q = p \/ Passed(running[t], k, q),
         StatusPassed(running[t], k2) <=> StatusPassed(running[t], k)
  PROVE  Progress(t, k2, pre2)'
<1>1. /\ cellOwner' = [cellOwner EXCEPT ![p] = t] /\ todo' = [todo EXCEPT ![t] = s]
      /\ UNCHANGED <<docOwner, draftStatus, running>>
  BY DEF Writes, Lock, Continue
<1>2. todo'[t] = s /\ \A q \in Product : cellOwner'[q] = t <=> q = p \/ cellOwner[q] = t
  BY <1>1 DEF TransactionsTypeOK
<1> QED
  BY <1>1, <1>2 DEF Progress

LEMMA ReadsProgress ==
  ASSUME TransactionsTypeOK, NEW t \in Tx, running[t] \in Request,
         NEW k, NEW pre, Progress(t, k, pre),
         NEW s, Reads(t, s),
         NEW k2, NEW pre2, s = pre2 \o Rest(Program(running[t]), k2),
         Inserted(running[t], k2, pre2),
         running[t].kind # "cancel" =>
           \A q \in Product : Passed(running[t], k2, q) <=> Passed(running[t], k, q),
         StatusPassed(running[t], k2) <=> StatusPassed(running[t], k)
  PROVE  Progress(t, k2, pre2)'
<1>1. /\ todo' = [todo EXCEPT ![t] = s]
      /\ UNCHANGED <<cellOwner, docOwner, draftStatus, running>>
  BY DEF Reads, Read, Continue
<1>2. todo'[t] = s
  BY <1>1 DEF TransactionsTypeOK
<1> QED
  BY <1>1, <1>2 DEF Progress

LEMMA RestIsNext ==
  ASSUME NEW r \in Request, NEW k \in Nat, k \in 0..Len(Program(r))
  PROVE  Rest(Program(r), k) = <<>> \o Rest(Program(r), k) /\ <<>> \in Inserts
         /\ Rest(Program(r), k) \in Seq(Statement)
BY NothingBefore, EmptySeq DEF Inserts

LEMMA ProgramLength ==
  ASSUME NEW r \in Request
  PROVE  Len(Program(r)) \in Nat /\ \A k \in 0..Len(Program(r)) : k \in Nat
BY ProgramIs, LenProperties

\* The connection t is at k and pre in its program and goes on to k2 and pre2.
OnWay(t, k, pre) ==
  /\ TransactionsTypeOK /\ t \in Tx /\ running[t] \in Request
  /\ k \in 0..Len(Program(running[t])) /\ pre \in Inserts /\ Progress(t, k, pre)

LEMMA GrantStep ==
  ASSUME NEW t, NEW k, NEW pre, OnWay(t, k, pre), GrantStatement(t)
  PROVE  LET r == running[t]
         IN  /\ r.kind \in {"give", "reserve"} /\ r.doc \in Order
             /\ \E i \in 1..Len(r.lines) :
                  LET p == r.lines[i]
                      c == Grant(View(t, p), "STOCK", r.doc, r.qty[p])
                  IN  /\ p \in Product /\ r.qty[p] \in Nat
                      /\ k + 1 = Shift(r) + i /\ pre = <<>>
                      /\ k + 1 \in 0..Len(Program(r))
                      /\ ~ Passed(r, k, p) /\ cellOwner[p] # t
                      /\ r.kind = "reserve" => Granted(View(t, p), r.qty[p]) = r.qty[p]
                      /\ c \in IntCell
                      /\ Rest(Program(r), k + 1) \in Seq(Statement)
                      /\ Writes(t, p, c, Rest(Program(r), k + 1))
                      /\ Progress(t, k + 1, <<>>)'
<1> DEFINE r == running[t]
           P == Program(r)
           op == IF r.kind = "give" THEN "grant" ELSE "insist"
<1> USE DEF OnWay
<1>1. r \in Request /\ Len(P) \in Nat /\ k \in Nat
  BY ProgramLength
<1>2. At(t, {"grant", "insist"})
  BY DEF GrantStatement
<1>3. /\ r.kind \in {"give", "reserve"}
      /\ \E i \in 1..Len(r.lines) : AtLine(t, k, pre, i, Shift(r), op, r.qty[r.lines[i]])
  BY <1>2, AtGrant
<1>4. PICK i \in 1..Len(r.lines) : AtLine(t, k, pre, i, Shift(r), op, r.qty[r.lines[i]])
  BY <1>3
<1> DEFINE p == r.lines[i]
           st == Head(todo[t])
           c == Grant(View(t, p), "STOCK", r.doc, r.qty[p])
<1>5. p \in Product /\ r.qty[p] \in Nat
  BY <1>1, RequestLines
<1>6. r.doc \in Order
  BY <1>1, <1>3, OrderOfTyped
<1>7. /\ pre = <<>> /\ k + 1 = Shift(r) + i /\ k + 1 \in 1..Len(P)
      /\ st = Stmt(op, p, "STOCK", r.qty[p]) /\ Tail(todo[t]) = Rest(P, k + 1)
  BY <1>4 DEF AtLine
<1>8. st.product = p /\ st.n = r.qty[p] /\ st.op = op
  BY <1>7, Ops
<1>9. /\ st.op = "insist" => Granted(View(t, st.product), st.n) = st.n
      /\ Write(t, st.product, Grant(View(t, st.product), "STOCK", r.doc, st.n))
  BY DEF GrantStatement
<1>10. Writes(t, p, c, Rest(P, k + 1)) /\ (r.kind = "reserve" => Granted(View(t, p), r.qty[p]) = r.qty[p])
  BY <1>7, <1>8, <1>9 DEF Write, Writes
<1>11. c \in IntCell
  BY <1>5, <1>6, ViewTyped, GrantTyped, SourceRows
<1>12. k + 1 \in 0..Len(P) /\ k + 1 \in Nat
  BY <1>1, <1>7
<1>13. /\ \A q \in Product : Passed(r, k + 1, q) <=> q = p \/ Passed(r, k, q)
       /\ ~ Passed(r, k, p)
       /\ StatusPassed(r, k + 1) <=> StatusPassed(r, k)
  BY <1>1, <1>3, <1>7, PassedLine
<1>14. Rest(P, k + 1) \in Seq(Statement) /\ Rest(P, k + 1) = <<>> \o Rest(P, k + 1)
  BY <1>1, <1>12, RestIsNext
<1>15. Inserted(r, k + 1, <<>>)
  BY DEF Inserted
<1> HIDE DEF c, P, p
<1>16. Progress(t, k + 1, <<>>)'
  BY <1>1, <1>5, <1>10, <1>13, <1>14, <1>15, WritesProgress DEF P
<1>17. cellOwner[p] # t
  BY <1>3, <1>5, <1>13 DEF Progress
<1> QED
  BY <1>3, <1>5, <1>6, <1>7, <1>10, <1>11, <1>12, <1>13, <1>14, <1>16, <1>17 DEF c, P, p

LEMMA ClosingsAre ==
  ASSUME NEW p \in Product, NEW a \in [Source -> Int]
  PROVE  /\ Closings(p, a) \in Inserts
         /\ Closings(p, a) # <<>> => Ending(p, Closings(p, a)) /\ Closings(p, a)[1].op = "consume"
         /\ (a["STOCK"] >= 0 /\ a["PURCHASE"] >= 0) => Owed(Closings(p, a)) = a["STOCK"] + a["PURCHASE"]
<1> DEFINE x == Stmt("consume", p, "STOCK", a["STOCK"])
           y == Stmt("consume", p, "PURCHASE", a["PURCHASE"])
           C == Closings(p, a)
<1>1. a["STOCK"] \in Int /\ a["PURCHASE"] \in Int /\ "STOCK" \in Source /\ "PURCHASE" \in Source
  BY DEF Source
<1>2. x \in Statement /\ y \in Statement
  BY <1>1, StatementTypes DEF Reading
<1>3. x.n = a["STOCK"] /\ y.n = a["PURCHASE"] /\ x.op = "consume" /\ y.op = "consume"
  BY Ops
<1>4. C = (IF a["STOCK"] > 0 THEN <<x>> ELSE <<>>) \o (IF a["PURCHASE"] > 0 THEN <<y>> ELSE <<>>)
  BY DEF Closings
<1> HIDE DEF x, y, C
<1>5. /\ <<x>> \in Inserts /\ <<y>> \in Inserts /\ <<x, y>> \in Inserts /\ <<>> \in Inserts
      /\ Len(<<x>>) = 1 /\ Len(<<y>>) = 1 /\ Len(<<x, y>>) = 2 /\ <<x, y>>[2] = y
  BY <1>2 DEF Inserts
<1>6. <<x>> \o <<y>> = <<x, y>> /\ <<>> \o <<y>> = <<y>> /\ <<x>> \o <<>> = <<x>> /\ <<>> \o <<>> = <<>>
  BY <1>5, TailOfFew, ConcatEmptySeq, EmptySeq DEF Inserts
<1>7. /\ <<x>>[1] = x /\ <<y>>[1] = y /\ <<x, y>>[1] = x
      /\ <<x>> # <<>> /\ <<y>> # <<>> /\ <<x, y>> # <<>>
  BY TailOfFew
<1>8. CASE a["STOCK"] > 0 /\ a["PURCHASE"] > 0
  <2>1. C = <<x, y>>
    BY <1>4, <1>6, <1>8
  <2>2. a["STOCK"] \in Nat \ {0} /\ a["PURCHASE"] \in Nat \ {0}
    BY <1>1, <1>8
  <2>3. Ending(p, <<x, y>>)
    BY <2>2 DEF Ending, x, y
  <2>4. Owed(<<x, y>>) = a["STOCK"] + a["PURCHASE"]
    BY <1>3, <1>5, <1>7 DEF Owed
  <2> QED
    BY <1>3, <1>5, <1>7, <2>1, <2>3, <2>4 DEF C
<1>9. CASE a["STOCK"] > 0 /\ ~ (a["PURCHASE"] > 0)
  <2>1. C = <<x>>
    BY <1>4, <1>6, <1>9
  <2>2. a["STOCK"] \in Nat \ {0}
    BY <1>1, <1>9
  <2>3. Ending(p, <<x>>)
    BY <1>1, <2>2 DEF Ending, x
  <2>4. Owed(<<x>>) = a["STOCK"]
    BY <1>3, <1>5, <1>7 DEF Owed
  <2>5. a["PURCHASE"] >= 0 => a["STOCK"] = a["STOCK"] + a["PURCHASE"]
    BY <1>1, <1>9
  <2> QED
    BY <1>3, <1>5, <1>7, <2>1, <2>3, <2>4, <2>5 DEF C
<1>10. CASE ~ (a["STOCK"] > 0) /\ a["PURCHASE"] > 0
  <2>1. C = <<y>>
    BY <1>4, <1>6, <1>10
  <2>2. a["PURCHASE"] \in Nat \ {0}
    BY <1>1, <1>10
  <2>3. Ending(p, <<y>>)
    BY <1>1, <2>2 DEF Ending, y
  <2>4. Owed(<<y>>) = a["PURCHASE"]
    BY <1>3, <1>5, <1>7 DEF Owed
  <2>5. a["STOCK"] >= 0 => a["PURCHASE"] = a["STOCK"] + a["PURCHASE"]
    BY <1>1, <1>10
  <2> QED
    BY <1>3, <1>5, <1>7, <2>1, <2>3, <2>4, <2>5 DEF C
<1>11. CASE ~ (a["STOCK"] > 0) /\ ~ (a["PURCHASE"] > 0)
  <2>1. C = <<>>
    BY <1>4, <1>6, <1>11
  <2>2. a["STOCK"] >= 0 /\ a["PURCHASE"] >= 0 => a["STOCK"] + a["PURCHASE"] = 0
    BY <1>1, <1>11
  <2> QED
    BY <1>5, <2>1, <2>2 DEF C, Owed
<1> QED
  BY <1>8, <1>9, <1>10, <1>11

\* What a movement of n brings about, before the program goes on.
AfterMove(t, p, n) ==
  CASE n > 0 /\ InProduction(t) # {} -> <<Turns(p, InProduction(t), n)>>
    [] running[t].kind = "start" -> Closings(p, seen[t][p])
    [] OTHER -> <<>>

LEMMA MoveStep ==
  ASSUME NEW t, NEW k, NEW pre, OnWay(t, k, pre), Move(t)
  PROVE  LET r == running[t]
         IN  /\ r.kind \in {"arrive", "issue", "start"}
             /\ \E i \in 1..Len(r.lines), pre2 \in Inserts :
                  LET p == r.lines[i]
                      n == IF r.kind = "arrive" THEN r.qty[p] ELSE - r.qty[p]
                      c == [View(t, p) EXCEPT !.qty = @ + n]
                      s == pre2 \o Rest(Program(r), k + 1)
                  IN  /\ p \in Product /\ r.qty[p] \in Nat /\ n \in Int
                      /\ k + 1 = Shift(r) + i /\ pre = <<>>
                      /\ k + 1 \in 0..Len(Program(r))
                      /\ ~ Passed(r, k, p) /\ cellOwner[p] # t
                      /\ pre2 = AfterMove(t, p, n)
                      /\ c \in IntCell
                      /\ s \in Seq(Statement)
                      /\ Writes(t, p, c, s)
                      /\ Progress(t, k + 1, pre2)'
<1> DEFINE r == running[t]
           P == Program(r)
           n(i) == IF r.kind = "arrive" THEN r.qty[r.lines[i]] ELSE - r.qty[r.lines[i]]
<1> USE DEF OnWay
<1>1. r \in Request /\ Len(P) \in Nat /\ k \in Nat
  BY ProgramLength
<1>2. At(t, {"move"})
  BY DEF Move
<1>3. /\ r.kind \in {"arrive", "issue", "start"}
      /\ \E i \in 1..Len(r.lines) : AtLine(t, k, pre, i, Shift(r), "move", n(i))
  BY <1>2, AtMove
<1>4. PICK i \in 1..Len(r.lines) : AtLine(t, k, pre, i, Shift(r), "move", n(i))
  BY <1>3
<1> DEFINE p == r.lines[i]
           st == Head(todo[t])
           c == [View(t, p) EXCEPT !.qty = @ + n(i)]
<1>6. PICK pre2 : pre2 = AfterMove(t, p, n(i))
  OBVIOUS
<1> DEFINE s == pre2 \o Rest(P, k + 1)
<1>5. p \in Product /\ r.qty[p] \in Nat /\ n(i) \in Int
  BY <1>1, RequestLines
<1>7. /\ pre = <<>> /\ k + 1 = Shift(r) + i /\ k + 1 \in 1..Len(P)
      /\ st = Stmt("move", p, "STOCK", n(i)) /\ Tail(todo[t]) = Rest(P, k + 1)
  BY <1>4 DEF AtLine
<1>8. st.product = p /\ st.n = n(i)
  BY <1>7, Ops
<1> HIDE DEF n
<1>9. /\ Lock(t, st.product, [View(t, st.product) EXCEPT !.qty = @ + st.n])
      /\ Continue(t, AfterMove(t, st.product, st.n) \o Tail(todo[t]))
      /\ UNCHANGED seen
  BY DEF Move, AfterMove
<1>10. Writes(t, p, c, s)
  BY <1>6, <1>7, <1>8, <1>9 DEF Writes
<1>11. c \in IntCell
  BY <1>5, ViewTyped, MovedTyped
<1>12. k + 1 \in 0..Len(P) /\ k + 1 \in Nat
  BY <1>1, <1>7
<1>13. /\ \A q \in Product : Passed(r, k + 1, q) <=> q = p \/ Passed(r, k, q)
       /\ ~ Passed(r, k, p)
       /\ StatusPassed(r, k + 1) <=> StatusPassed(r, k)
  BY <1>1, <1>3, <1>7, PassedLine
<1>14. Rest(P, k + 1) \in Seq(Statement) /\ <<>> \in Inserts
  BY <1>1, <1>12, RestIsNext
<1>15. pre2 \in Inserts /\ Inserted(r, k + 1, pre2)
  <2>1. CASE n(i) > 0 /\ InProduction(t) # {}
    <3>2. InProduction(t) \in (SUBSET Order) \ {{}}
      BY <2>1 DEF InProduction
    <3>0. r.kind # "arrive" => n(i) = - r.qty[p]
      BY DEF n
    <3>3. r.kind = "arrive"
      BY <1>5, <2>1, <3>0
    <3>1. pre2 = <<Turns(p, InProduction(t), n(i))>>
      BY <1>6, <2>1, <3>3 DEF AfterMove
    <3>4. k + 1 = i /\ k + 1 \in DOMAIN r.lines
      <4>1. Shift(r) = 0 /\ DOMAIN r.lines = 1..Len(r.lines) /\ Len(r.lines) \in Nat
        BY <1>1, <3>3, RequestLines DEF Shift
      <4> QED
        BY <1>1, <1>7, <4>1
    <3>5. Turns(p, InProduction(t), n(i)) \in Statement
      BY <1>5, <3>2, StatementTypes
    <3>6. pre2 \in Inserts
      BY <3>1, <3>5 DEF Inserts
    <3>7. pre2 = <<Turns(r.lines[k + 1], InProduction(t), n(i))>>
      BY <3>1, <3>4
    <3> QED
      BY <1>5, <3>2, <3>3, <3>4, <3>6, <3>7 DEF Inserted
  <2>2. CASE ~ (n(i) > 0 /\ InProduction(t) # {}) /\ r.kind = "start"
    <3>1. pre2 = Closings(p, seen[t][p])
      BY <1>6, <2>2 DEF AfterMove
    <3>2. seen[t][p] \in [Source -> Int]
      BY <1>5 DEF TransactionsTypeOK
    <3>3. pre2 \in Inserts /\ (pre2 # <<>> => Ending(p, pre2))
      BY <1>5, <3>1, <3>2, ClosingsAre
    <3>4. k + 1 = Len(r.lines) + i /\ i \in DOMAIN r.lines
      BY <1>1, <1>7, <2>2, RequestLines DEF Shift
    <3> QED
      BY <2>2, <3>3, <3>4 DEF Inserted
  <2>3. CASE ~ (n(i) > 0 /\ InProduction(t) # {}) /\ r.kind # "start"
    <3>1. pre2 = <<>>
      BY <1>6, <2>3 DEF AfterMove
    <3> QED
      BY <1>14, <3>1 DEF Inserted
  <2> QED
    BY <2>1, <2>2, <2>3
<1> HIDE DEF c, P, p
<1>16. s \in Seq(Statement)
  BY <1>14, <1>15, ConcatProperties DEF Inserts
<1>19. s = pre2 \o Rest(Program(running[t]), k + 1)
  BY DEF P
<1> HIDE DEF s
<1>17. Progress(t, k + 1, pre2)'
  BY <1>1, <1>5, <1>10, <1>13, <1>15, <1>19, WritesProgress
<1>18. cellOwner[p] # t
  BY <1>3, <1>5, <1>13 DEF Progress
<1> QED
  BY <1>3, <1>5, <1>6, <1>7, <1>10, <1>11, <1>12, <1>13, <1>15, <1>16, <1>17, <1>18 DEF c, P, p, n, s

LEMMA OldestIsFirst ==
  ASSUME NEW S, S \subseteq Order, S # {}
  PROVE  Oldest(S) \in S /\ \A o \in S : Oldest(S) <= o
<1> DEFINE R == {ss \in Nat \X Nat : ss[1] < ss[2]}
<1>1. IsWellFoundedOn(R, Nat)
  BY NatLessThanWellFounded DEF OpToRel
<1>2. S \subseteq Nat
  BY OrderRows
<1> HIDE DEF R
<1>3. PICK m \in S : \A y \in S : ~ (<<y, m>> \in R)
  BY <1>1, <1>2, WFMin
<1>4. \A y \in S : m <= y
  <2>1. SUFFICES ASSUME NEW y \in S PROVE m <= y
    OBVIOUS
  <2>2. m \in Nat /\ y \in Nat /\ ~ (<<y, m>> \in R)
    BY <1>2, <1>3
  <2> QED
    BY <2>2 DEF R
<1>5. \E o \in S : \A other \in S : o <= other
  BY <1>4
<1> QED
  BY <1>5 DEF Oldest

\* One turn of a top-up of p, at k in the program of t: of the orders S the
\* oldest, o, asks for want out of the n units left; then comes pre2.
TurnOf(t, k, pre, S, n, o, want, pre2) ==
  LET p == running[t].lines[k]
      c == Grant(View(t, p), "PURCHASE", o, want)
      left == n - Granted(View(t, p), want)
      s == pre2 \o Rest(Program(running[t]), k)
  IN  /\ pre = <<Turns(p, S, n)>>
      /\ o \in S /\ \A x \in S : o <= x
      /\ want = Least(n, Outstanding(View(t, p), o, Need[o][p]))
      /\ pre2 = IF S \ {o} = {} THEN <<>> ELSE <<Turns(p, S \ {o}, left)>>
      /\ c \in IntCell /\ left \in Int
      /\ s \in Seq(Statement)
      /\ Writes(t, p, c, s)
      /\ Progress(t, k, pre2)'

LEMMA TurnStep ==
  ASSUME NEW t, NEW k, NEW pre, OnWay(t, k, pre), TopUpTurn(t)
  PROVE  LET r == running[t]
             p == r.lines[k]
         IN  /\ r.kind = "arrive" /\ k \in 1..Len(r.lines) /\ p \in Product /\ r.qty[p] \in Nat
             /\ cellOwner[p] = t
             /\ \E S \in (SUBSET Order) \ {{}}, n \in Int, o \in Order, want \in Int, pre2 \in Inserts :
                  TurnOf(t, k, pre, S, n, o, want, pre2)
<1> DEFINE r == running[t]
           P == Program(r)
           p == r.lines[k]
<1> USE DEF OnWay
<1>1. r \in Request /\ Len(P) \in Nat /\ k \in Nat
  BY ProgramLength
<1>2. At(t, {"turns"})
  BY DEF TopUpTurn
<1>3. /\ r.kind = "arrive" /\ k \in 1..Len(r.lines)
      /\ Tail(todo[t]) = Rest(P, k)
      /\ \E S \in (SUBSET Order) \ {{}}, n \in Int :
           pre = <<Turns(p, S, n)>> /\ Head(todo[t]) = Turns(p, S, n)
  BY <1>2, AtTurns
<1>4. PICK S \in (SUBSET Order) \ {{}}, n \in Int :
        pre = <<Turns(p, S, n)>> /\ Head(todo[t]) = Turns(p, S, n)
  BY <1>3
<1>5. p \in Product /\ r.qty[p] \in Nat
  BY <1>1, <1>3, RequestLines
<1>6. PICK o \in S : o = Oldest(S) /\ \A x \in S : o <= x
  BY OldestIsFirst
<1> DEFINE st == Head(todo[t])
           v == View(t, p)
<1>7. st.product = p /\ st.orders = S /\ st.n = n
  BY <1>4 DEF Turns
<1>8. v \in IntCell
  BY <1>5, ViewTyped
<1>9. PICK want : want = Least(n, Outstanding(v, o, Need[o][p]))
  OBVIOUS
<1>10. o \in Order /\ want \in Int
  <2>1. o \in Order /\ Need[o][p] \in Nat
    BY <1>5, TransactionsAssumption
  <2>2. Outstanding(v, o, Need[o][p]) \in Int
    <3>1. v.hold["STOCK"][o] \in Int /\ v.hold["PURCHASE"][o] \in Int /\ v.consumed[o] \in Int
      BY <1>8, <2>1, SourceRows DEF IntCell
    <3>2. Held(v, o) \in Int
      BY <3>1 DEF Held
    <3>3. Need[o][p] - (Held(v, o) + v.consumed[o]) \in Int
      BY <2>1, <3>1, <3>2
    <3> QED
      BY <3>3 DEF Outstanding, NonNegative
  <2> QED
    BY <1>9, <2>1, <2>2 DEF Least
<1> DEFINE c == Grant(v, "PURCHASE", o, want)
           left == n - Granted(v, want)
<1>11. PICK pre2 : pre2 = IF S \ {o} = {} THEN <<>> ELSE <<Turns(p, S \ {o}, left)>>
  OBVIOUS
<1> DEFINE s == pre2 \o Rest(P, k)
<1>12. /\ Lock(t, p, c) /\ Continue(t, s) /\ UNCHANGED seen
  <2>1. /\ Lock(t, p, Grant(v, "PURCHASE", Oldest(S), Least(n, Outstanding(v, Oldest(S), Need[Oldest(S)][p]))))
        /\ LET w == Least(n, Outstanding(v, Oldest(S), Need[Oldest(S)][p]))
               others == S \ {Oldest(S)}
               next == IF others = {} THEN <<>> ELSE <<Turns(p, others, n - Granted(v, w))>>
           IN  Continue(t, next \o Tail(todo[t]))
        /\ UNCHANGED seen
    BY <1>7 DEF TopUpTurn
  <2> QED
    BY <1>3, <1>6, <1>9, <1>11, <2>1
<1>13. Writes(t, p, c, s)
  BY <1>12 DEF Writes
<1>14. c \in IntCell /\ left \in Int
  <2>1. Granted(v, want) \in Nat /\ c \in IntCell
    BY <1>8, <1>10, GrantTyped, SourceRows
  <2> HIDE DEF v
  <2> QED
    BY <2>1
<1>15. pre2 \in Inserts /\ Inserted(r, k, pre2)
  <2>1. CASE S \ {o} = {}
    BY <1>1, <1>11, <2>1, RestIsNext DEF Inserted
  <2>2. CASE S \ {o} # {}
    <3>1. S \ {o} \in (SUBSET Order) \ {{}}
      BY <2>2
    <3> HIDE DEF left
    <3>2. pre2 = <<Turns(p, S \ {o}, left)>>
      BY <1>11, <2>2
    <3>3. Turns(p, S \ {o}, left) \in Statement
      BY <1>5, <1>14, <3>1, StatementTypes
    <3>4. k \in DOMAIN r.lines
      BY <1>1, <1>3, RequestLines
    <3>5. pre2 \in Inserts
      BY <3>2, <3>3 DEF Inserts
    <3>6. Inserted(r, k, pre2)
      BY <1>3, <1>14, <3>1, <3>2, <3>4 DEF Inserted
    <3> QED
      BY <3>5, <3>6
  <2> QED
    BY <2>1, <2>2
<1>16. Rest(P, k) \in Seq(Statement)
  BY <1>1, RestIsNext
<1>17. s \in Seq(Statement)
  BY <1>15, <1>16, ConcatProperties DEF Inserts
<1>18. Passed(r, k, p)
  BY <1>1, <1>3, RequestLines DEF Passed, Shift
<1>19. cellOwner[p] = t
  BY <1>3, <1>5, <1>18 DEF Progress
<1> HIDE DEF c
<1>20. Progress(t, k, pre2)'
  <2>1. s = pre2 \o Rest(Program(running[t]), k)
    OBVIOUS
  <2>2. \A q \in Product : Passed(r, k, q) <=> q = p \/ Passed(r, k, q)
    BY <1>18
  <2> HIDE DEF s, P, p
  <2> QED
    BY <1>1, <1>5, <1>13, <1>15, <2>1, <2>2, WritesProgress
<1>21. TurnOf(t, k, pre, S, n, o, want, pre2)
  BY <1>4, <1>6, <1>9, <1>11, <1>13, <1>14, <1>17, <1>20 DEF TurnOf, c
<1>22. pre2 \in Inserts /\ o \in Order /\ want \in Int
  BY <1>10, <1>15
<1> QED
  BY <1>3, <1>5, <1>19, <1>21, <1>22

LEMMA CheckStep ==
  ASSUME NEW t, NEW k, NEW pre, OnWay(t, k, pre), Check(t)
  PROVE  LET r == running[t]
         IN  /\ r.kind = "start" /\ OrderOf[r.doc] \in Order
             /\ \E i \in 1..Len(r.lines) :
                  LET p == r.lines[i]
                  IN  /\ p \in Product /\ r.qty[p] \in Nat /\ cellOwner[p] # t
                      /\ seen' = [seen EXCEPT ![t][p] = Closing(View(t, p), OrderOf[r.doc], r.qty[p])]
             /\ k + 1 \in 0..Len(Program(r))
             /\ Rest(Program(r), k + 1) \in Seq(Statement)
             /\ Reads(t, Rest(Program(r), k + 1))
             /\ k + 1 \in 1..Len(r.lines) /\ pre = <<>>
             /\ Progress(t, k + 1, <<>>)'
<1> DEFINE r == running[t]
           P == Program(r)
           m == Len(r.lines)
<1> USE DEF OnWay
<1>1. r \in Request /\ Len(P) \in Nat /\ k \in Nat /\ m \in Nat
  BY ProgramLength, RequestLines
<1>2. At(t, {"check"})
  BY DEF Check
<1>3. r.kind = "start" /\ \E i \in 1..m : AtLine(t, k, pre, i, 0, "check", r.qty[r.lines[i]])
  BY <1>2, AtCheck
<1>4. PICK i \in 1..m : AtLine(t, k, pre, i, 0, "check", r.qty[r.lines[i]])
  BY <1>3
<1> DEFINE p == r.lines[i]
           st == Head(todo[t])
           o == OrderOf[r.doc]
<1>5. p \in Product /\ r.qty[p] \in Nat
  BY <1>1, RequestLines
<1>6. o \in Order /\ OrderOfRequest(r) = o
  BY <1>1, <1>3, OrderOfTyped DEF OrderOfRequest
<1>7. /\ pre = <<>> /\ k + 1 = i /\ k + 1 \in 1..Len(P)
      /\ st = Stmt("check", p, "STOCK", r.qty[p]) /\ Tail(todo[t]) = Rest(P, k + 1)
  BY <1>1, <1>4 DEF AtLine
<1>8. st.product = p /\ st.n = r.qty[p]
  BY <1>7, Ops
<1>9. /\ seen' = [seen EXCEPT ![t][p] = Closing(View(t, p), o, r.qty[p])]
      /\ Read(t, Rest(P, k + 1))
  BY <1>6, <1>7, <1>8 DEF Check
<1>10. Closing(View(t, p), o, r.qty[p]) \in [Source -> Int]
  <2>1. View(t, p) \in IntCell
    BY <1>5, ViewTyped
  <2>2. View(t, p).hold["STOCK"][o] \in Int /\ View(t, p).hold["PURCHASE"][o] \in Int
    BY <1>6, <2>1, SourceRows DEF IntCell
  <2>3. PICK n \in Nat, x, y \in Int :
          n = r.qty[p] /\ x = View(t, p).hold["STOCK"][o] /\ y = View(t, p).hold["PURCHASE"][o]
    BY <1>5, <2>2
  <2>4. Least(n, x) \in Int /\ \A m2 \in Int : Least(n - m2, y) \in Int
    BY ONLY n \in Nat, x \in Int, y \in Int DEF Least
  <2>5. Closing(View(t, p), o, r.qty[p])
          = [s \in Source |-> IF s = "STOCK" THEN Least(n, x) ELSE Least(n - Least(n, x), y)]
    BY <2>3 DEF Closing
  <2> QED
    BY ONLY <2>4, <2>5
<1>11. Reads(t, Rest(P, k + 1))
  <2>1. seen' \in [Tx -> [Product -> [Source -> Int]]]
    BY <1>9, <1>10 DEF TransactionsTypeOK
  <2>2. \A u \in Tx \ {t} : seen'[u] = seen[u]
    BY <1>9 DEF TransactionsTypeOK
  <2> QED
    BY <1>9, <2>1, <2>2 DEF Reads
<1>12. k + 1 \in 0..Len(P) /\ k + 1 \in Nat /\ k + 1 <= m
  BY <1>1, <1>7
<1>13. \A j \in Nat, q \in Product : j <= m => ~ Passed(r, j, q) /\ ~ StatusPassed(r, j)
  BY <1>1, <1>3, RequestLines DEF Passed, StatusPassed, Shift
<1>14. /\ \A q \in Product : Passed(r, k + 1, q) <=> Passed(r, k, q)
       /\ ~ Passed(r, k, p)
       /\ StatusPassed(r, k + 1) <=> StatusPassed(r, k)
  <2>1. k <= m
    BY <1>1, <1>12
  <2> QED
    BY <1>1, <1>5, <1>12, <1>13, <2>1
<1>15. Rest(P, k + 1) \in Seq(Statement) /\ Rest(P, k + 1) = <<>> \o Rest(P, k + 1)
  BY <1>1, <1>12, RestIsNext
<1>16. Inserted(r, k + 1, <<>>)
  BY DEF Inserted
<1> HIDE DEF P, p
<1>17. Progress(t, k + 1, <<>>)'
  BY <1>1, <1>11, <1>14, <1>15, <1>16, ReadsProgress DEF P
<1>18. cellOwner[p] # t
  BY <1>3, <1>5, <1>14 DEF Progress
<1> QED
  BY <1>3, <1>5, <1>6, <1>7, <1>9, <1>11, <1>12, <1>15, <1>17, <1>18 DEF P, p

\* What inserted statements, that come next, take off a hold is there.
Backed(t, pre) ==
  (pre # <<>> /\ pre[1].op \in {"unhold", "use"}) =>
     pre[1].n <= View(t, pre[1].product).hold[pre[1].source][OrderOfRequest(running[t])]

LEMMA CanEndBacked ==
  ASSUME NEW t, NEW k, NEW pre, OnWay(t, k, pre)
  PROVE  CanEnd(t) <=> Backed(t, pre)
<1> USE DEF OnWay
<1>1. CASE pre # <<>>
  <2>1. todo[t] # <<>> /\ Head(todo[t]) = pre[1] /\ running[t] # None
    BY <1>1, NextStatement, NotNone
  <2> QED
    BY <1>1, <2>1 DEF CanEnd, Backed, At
<1>2. CASE pre = <<>>
  <2>1. SUFFICES ASSUME At(t, {"unhold", "use"}) PROVE FALSE
    BY <1>2 DEF CanEnd, Backed
  <2>2. At(t, {"turns", "releases", "unhold", "use", "consume"})
    BY <2>1 DEF At
  <2> QED
    BY <1>2, <2>2, AtInserted
<1> QED
  BY <1>1, <1>2

LEMMA ListStep ==
  ASSUME NEW t, NEW k, NEW pre, OnWay(t, k, pre), ListHolds(t)
  PROVE  LET r == running[t]
         IN  /\ r.kind = "cancel" /\ k = 0 /\ pre = <<>> /\ 1 \in 0..Len(Program(r))
             /\ \E pre2 \in Inserts :
                  LET s == pre2 \o Rest(Program(r), 1)
                  IN  /\ Backed(t, pre2) /\ UNCHANGED seen
                      /\ s \in Seq(Statement) /\ Reads(t, s)
                      /\ Progress(t, 1, pre2)'
<1> DEFINE r == running[t]
           P == Program(r)
<1> USE DEF OnWay
<1>1. r \in Request /\ Len(P) \in Nat /\ k \in Nat
  BY ProgramLength
<1>2. At(t, {"list"})
  BY DEF ListHolds
<1>3. r.kind = "cancel" /\ k = 0 /\ pre = <<>> /\ Tail(todo[t]) = Rest(P, 1)
  BY <1>2, AtList
<1>4. Len(P) = 2 /\ 1 \in 0..Len(P) /\ r.doc \in Order
  BY <1>1, <1>3, ProgramIs, OrderOfTyped
<1> DEFINE held(p, s) == View(t, p).hold[s][r.doc]
           all == {[product |-> h[1], source |-> h[2], n |-> held(h[1], h[2])] :
                     h \in {j \in Product \X Source : held(j[1], j[2]) > 0}}
<1>5. PICK found : found = all
  OBVIOUS
<1>6. PICK pre2 : pre2 = IF found = {} THEN <<>> ELSE <<Releases(found)>>
  OBVIOUS
<1>7. found \subseteq Row
  <2>1. ASSUME NEW p \in Product, NEW s \in Source
        PROVE  [product |-> p, source |-> s, n |-> held(p, s)] \in Row
    <3>1. View(t, p) \in IntCell
      BY ViewTyped
    <3>2. held(p, s) \in Int
      BY <1>4, <3>1 DEF IntCell
    <3> HIDE DEF held
    <3> QED
      BY <3>2 DEF Row
  <2> HIDE DEF held
  <2> QED
    BY <1>5, <2>1
<1>8. pre2 \in Inserts /\ Inserted(r, 1, pre2) /\ Backed(t, pre2)
  <2>1. CASE found = {}
    <3>1. pre2 = <<>>
      BY <1>6, <2>1
    <3> QED
      BY <3>1, EmptySeq DEF Inserts, Inserted, Backed
  <2>2. CASE found # {}
    <3>1. pre2 = <<Releases(found)>>
      BY <1>6, <2>2
    <3>2. Releases(found) \in Statement
      BY <1>7, StatementTypes
    <3>3. pre2 \in Inserts
      BY <3>1, <3>2 DEF Inserts
    <3>4. Freeing(pre2)
      BY <1>7, <3>1 DEF Freeing
    <3>5. pre2[1].op = "releases"
      BY <3>1 DEF Releases
    <3> QED
      BY <1>3, <3>3, <3>4, <3>5 DEF Inserted, Backed
  <2> QED
    BY <2>1, <2>2
<1> DEFINE s == pre2 \o Rest(P, 1)
<1>9. Rest(P, 1) \in Seq(Statement)
  BY <1>1, <1>4, NothingBefore
<1>10. s \in Seq(Statement)
  BY <1>8, <1>9, ConcatProperties DEF Inserts
<1>11. Read(t, s) /\ UNCHANGED seen
  BY <1>3, <1>5, <1>6 DEF ListHolds
<1>12. Reads(t, s)
  BY <1>11 DEF Reads, TransactionsTypeOK
<1>13. s = pre2 \o Rest(Program(running[t]), 1)
  OBVIOUS
<1>14. StatusPassed(r, 1) <=> StatusPassed(r, k)
  BY <1>3 DEF StatusPassed
<1> HIDE DEF s, P
<1>15. Progress(t, 1, pre2)'
  BY <1>1, <1>3, <1>8, <1>12, <1>13, <1>14, ReadsProgress
<1> QED
  BY <1>3, <1>4, <1>8, <1>10, <1>11, <1>12, <1>15 DEF s, P

LEMMA ReleaseStep ==
  ASSUME NEW t, NEW k, NEW pre, OnWay(t, k, pre), ReadRelease(t)
  PROVE  LET r == running[t]
         IN  /\ r.kind = "cancel" /\ k = 1
             /\ \E pre2 \in Inserts :
                  LET s == pre2 \o Rest(Program(r), 1)
                  IN  /\ Backed(t, pre2) /\ UNCHANGED seen
                      /\ s \in Seq(Statement) /\ Reads(t, s)
                      /\ Progress(t, 1, pre2)'
<1> DEFINE r == running[t]
           P == Program(r)
<1> USE DEF OnWay
<1>1. r \in Request /\ Len(P) \in Nat /\ k \in Nat
  BY ProgramLength
<1>2. At(t, {"releases"})
  BY DEF ReadRelease
<1>3. r.kind = "cancel" /\ k = 1 /\ Tail(todo[t]) = Rest(P, 1)
  BY <1>2, AtReleases
<1>4. PICK R \in SUBSET Row : Head(todo[t]) = Releases(R)
  BY <1>2, AtReleases
<1>5. r.doc \in Order /\ OrderOfRequest(r) = r.doc
  BY <1>1, <1>3, OrderOfTyped
<1>6. Head(todo[t]).rows = R
  BY <1>4 DEF Releases
<1>7. PICK row \in R :
        LET others == R \ {row}
            actual == Actual(t, row.product, row.source, row.n)
            write == IF actual <= 0 THEN <<>> ELSE <<Stmt("unhold", row.product, row.source, actual)>>
            next == IF others = {} THEN <<>> ELSE <<Releases(others)>>
        IN  Read(t, write \o (next \o Rest(P, 1))) /\ UNCHANGED seen
  BY <1>3, <1>6 DEF ReadRelease
<1>8. row.product \in Product /\ row.source \in Source /\ row.n \in Int
  BY <1>4 DEF Row
<1>9. PICK actual : actual = Actual(t, row.product, row.source, row.n)
  OBVIOUS
<1>10. /\ actual \in Int
       /\ actual <= View(t, row.product).hold[row.source][r.doc]
  <2>1. View(t, row.product).hold[row.source][r.doc] \in Int
    BY <1>5, <1>8, ViewTyped DEF IntCell
  <2> QED
    BY <1>5, <1>8, <1>9, <2>1 DEF Actual, Least
<1> DEFINE others == R \ {row}
           x == Stmt("unhold", row.product, row.source, actual)
           y == Releases(others)
           write == IF actual <= 0 THEN <<>> ELSE <<x>>
           next == IF others = {} THEN <<>> ELSE <<y>>
<1>11. others \in SUBSET Row /\ y \in Statement /\ x \in Statement
  BY <1>4, <1>8, <1>10, StatementTypes DEF Locking
<1>12. PICK pre2 : pre2 = write \o next
  OBVIOUS
<1>13. /\ <<x>> \o <<y>> = <<x, y>> /\ <<>> \o <<y>> = <<y>> /\ <<x>> \o <<>> = <<x>> /\ <<>> \o <<>> = <<>>
       /\ <<x>>[1] = x /\ <<y>>[1] = y /\ <<x, y>>[1] = x
       /\ <<x>> \in Inserts /\ <<y>> \in Inserts /\ <<x, y>> \in Inserts /\ <<>> \in Inserts
  <2> HIDE DEF x, y
  <2>1. <<x>> \in Seq(Statement) /\ <<y>> \in Seq(Statement) /\ <<x, y>> \in Seq(Statement)
    BY <1>11
  <2> QED
    BY <2>1, TailOfFew, ConcatEmptySeq, EmptySeq DEF Inserts
<1>14. pre2 \in {<<>>, <<x>>, <<y>>, <<x, y>>}
  <2> HIDE DEF x, y
  <2> QED
    BY <1>12, <1>13
<1>15. pre2 \in {<<x>>, <<x, y>>} => actual \in Nat \ {0}
  <2> HIDE DEF x, y
  <2>1. <<>> # <<x>> /\ <<>> # <<x, y>> /\ x # y => <<y>> # <<x>> /\ <<y>> # <<x, y>>
    BY TailOfFew
  <2>2. x # y
    BY Ops DEF x, y, Releases
  <2>3. ASSUME actual <= 0 PROVE pre2 \notin {<<x>>, <<x, y>>}
    <3>1. pre2 = <<>> \/ pre2 = <<y>>
      BY <1>12, <1>13, <2>3
    <3> QED
      BY <2>2, <3>1, TailOfFew, <1>13
  <2> QED
    BY <1>10, <2>3
<1>16. Inserted(r, 1, pre2)
  <2>1. pre2 # <<>> => Freeing(pre2)
    <3>1. CASE pre2 = <<x>> \/ pre2 = <<x, y>>
      BY <1>8, <1>11, <1>15, <3>1 DEF Freeing
    <3>2. CASE pre2 = <<y>>
      BY <1>11, <3>2 DEF Freeing
    <3> QED
      BY <1>14, <3>1, <3>2
  <2> QED
    BY <1>3, <2>1 DEF Inserted
<1>17. Backed(t, pre2)
  <2>1. CASE pre2 = <<x>> \/ pre2 = <<x, y>>
    <3>1. pre2[1] = x
      BY <1>13, <2>1
    <3>2. x.product = row.product /\ x.source = row.source /\ x.n = actual
      BY Ops
    <3> HIDE DEF x
    <3> QED
      BY <1>5, <1>10, <3>1, <3>2 DEF Backed
  <2>2. CASE pre2 = <<y>>
    <3>1. pre2[1].op = "releases"
      BY <1>13, <2>2 DEF Releases
    <3> QED
      BY <3>1 DEF Backed
  <2>3. CASE pre2 = <<>>
    BY <2>3 DEF Backed
  <2> QED
    BY <1>14, <2>1, <2>2, <2>3
<1>18. Rest(P, 1) \in Seq(Statement)
  BY <1>1, <1>3, NothingBefore
<1> DEFINE s == pre2 \o Rest(P, 1)
<1>19. pre2 \in Inserts /\ s \in Seq(Statement) /\ s = write \o (next \o Rest(P, 1))
  <2> HIDE DEF x, y, P
  <2>1. pre2 \in Seq(Statement) /\ write \in Seq(Statement) /\ next \in Seq(Statement)
    BY <1>13, <1>14 DEF Inserts
  <2> DEFINE rest == Rest(P, 1)
  <2>2. rest \in Seq(Statement)
    BY <1>18
  <2>3. pre2 \in Inserts
    BY <1>13, <1>14
  <2> HIDE DEF write, next, rest
  <2>4. pre2 \o rest \in Seq(Statement)
    BY <2>1, <2>2, ConcatProperties
  <2>5. (write \o next) \o rest = write \o (next \o rest)
    BY <2>1, <2>2, ConcatAssociative
  <2> QED
    BY <1>12, <2>3, <2>4, <2>5 DEF rest
<1>20. Read(t, s) /\ UNCHANGED seen
  BY <1>7, <1>9, <1>19
<1>21. Reads(t, s)
  BY <1>20 DEF Reads, TransactionsTypeOK
<1>22. s = pre2 \o Rest(Program(running[t]), 1)
  OBVIOUS
<1> HIDE DEF s, P
<1>23. Progress(t, 1, pre2)'
  BY <1>1, <1>3, <1>16, <1>21, <1>22, ReadsProgress
<1> QED
  BY <1>3, <1>17, <1>19, <1>20, <1>21, <1>23 DEF s, P

LEMMA ConsumeReadStep ==
  ASSUME NEW t, NEW k, NEW pre, OnWay(t, k, pre), ReadConsume(t)
  PROVE  LET r == running[t]
         IN  /\ r.kind = "start"
             /\ \E i \in 1..Len(r.lines) : k = Len(r.lines) + i
             /\ \E pre2 \in Inserts :
                  LET s == pre2 \o Rest(Program(r), k)
                  IN  /\ Backed(t, pre2) /\ Owed(pre2) <= Owed(pre) /\ UNCHANGED seen
                      /\ s \in Seq(Statement) /\ Reads(t, s)
                      /\ Progress(t, k, pre2)'
<1> DEFINE r == running[t]
           P == Program(r)
           m == Len(r.lines)
<1> USE DEF OnWay
<1>1. r \in Request /\ Len(P) \in Nat /\ k \in Nat
  BY ProgramLength
<1>2. At(t, {"consume"})
  BY DEF ReadConsume
<1>3. r.kind = "start"
  BY <1>2, AtEnding
<1>4. PICK i \in 1..m, a \in Nat \ {0}, src \in Source : EndingAt(t, k, pre, "consume", i, src, a)
  BY <1>2, AtEnding
<1> DEFINE p == r.lines[i]
           o == OrderOfRequest(r)
<1>5. p \in Product /\ o \in Order
  BY <1>1, <1>3, RequestLines, OrderOfTyped
<1>6. PICK actual : actual = Actual(t, p, src, a)
  OBVIOUS
<1>7. /\ actual \in Int /\ actual <= a
      /\ actual <= View(t, p).hold[src][o]
  <2>1. View(t, p).hold[src][o] \in Int
    BY <1>5, ViewTyped DEF IntCell
  <2> QED
    BY <1>6, <2>1 DEF Actual, Least
<1>0. /\ k = m + i
      /\ Head(todo[t]) = Stmt("consume", p, src, a)
      /\ \/ pre = <<Stmt("consume", p, src, a)>> /\ Tail(todo[t]) = Rest(P, k)
         \/ \E b \in Nat \ {0} :
              /\ src = "STOCK"
              /\ pre = <<Stmt("consume", p, src, a), Stmt("consume", p, "PURCHASE", b)>>
              /\ Tail(todo[t]) = <<Stmt("consume", p, "PURCHASE", b)>> \o Rest(P, k)
  BY <1>4 DEF EndingAt
<1> DEFINE x == Stmt("use", p, src, actual)
           y == Stmt("consume", p, src, a)
           write == IF actual <= 0 THEN <<>> ELSE <<x>>
<1>8. Read(t, write \o Tail(todo[t])) /\ UNCHANGED seen
  BY <1>0, <1>6, Ops DEF ReadConsume
<1>9. Rest(P, k) \in Seq(Statement) /\ <<>> \o Rest(P, k) = Rest(P, k) /\ <<>> \in Inserts
  BY <1>1, RestIsNext
<1>10. x \in Statement /\ x.n = actual /\ y.n = a /\ x.op = "use" /\ x.product = p /\ x.source = src
  BY <1>5, <1>7, StatementTypes, Ops DEF Locking
<1>11. PICK more \in Seq(Statement), z \in Statement, b \in Nat \ {0} :
         /\ Tail(todo[t]) = more \o Rest(P, k)
         /\ z = Stmt("consume", p, "PURCHASE", b)
         /\ z.n = b /\ z.op = "consume"
         /\ \/ pre = <<y>> /\ more = <<>>
            \/ src = "STOCK" /\ pre = <<y, z>> /\ more = <<z>>
  <2>1. \A b \in Nat \ {0} :
          LET z == Stmt("consume", p, "PURCHASE", b)
          IN  z \in Statement /\ <<z>> \in Seq(Statement) /\ z.n = b /\ z.op = "consume"
    <3>0. SUFFICES ASSUME NEW b \in Nat \ {0}
                   PROVE  LET z == Stmt("consume", p, "PURCHASE", b)
                          IN  z \in Statement /\ <<z>> \in Seq(Statement) /\ z.n = b /\ z.op = "consume"
      OBVIOUS
    <3> DEFINE z == Stmt("consume", p, "PURCHASE", b)
    <3>1. z.n = b /\ z.op = "consume"
      BY Ops
    <3>2. z \in Statement
      <4>1. b \in Int /\ "consume" \in Locking \cup Reading /\ "PURCHASE" \in Source
        BY SourceRows DEF Reading
      <4> QED
        BY <1>5, <4>1, StatementTypes
    <3> HIDE DEF z
    <3>3. <<z>> \in Seq(Statement)
      BY <3>2
    <3> QED
      BY <3>1, <3>2, <3>3 DEF z
  <2>2. CASE pre = <<y>> /\ Tail(todo[t]) = Rest(P, k)
    <3>1. 1 \in Nat \ {0} /\ <<>> \in Seq(Statement) /\ Tail(todo[t]) = <<>> \o Rest(P, k)
      BY <1>9, <2>2 DEF Inserts
    <3> DEFINE z1 == Stmt("consume", p, "PURCHASE", 1)
    <3>2. z1 \in Statement /\ z1.n = 1 /\ z1.op = "consume"
      BY <2>1, <3>1
    <3> QED
      BY <2>2, <3>1, <3>2
  <2>3. CASE \E b \in Nat \ {0} :
               /\ src = "STOCK" /\ pre = <<y, Stmt("consume", p, "PURCHASE", b)>>
               /\ Tail(todo[t]) = <<Stmt("consume", p, "PURCHASE", b)>> \o Rest(P, k)
    <3>1. PICK b \in Nat \ {0} :
               /\ src = "STOCK" /\ pre = <<y, Stmt("consume", p, "PURCHASE", b)>>
               /\ Tail(todo[t]) = <<Stmt("consume", p, "PURCHASE", b)>> \o Rest(P, k)
      BY <2>3
    <3> DEFINE z1 == Stmt("consume", p, "PURCHASE", b)
    <3>2. z1 \in Statement /\ <<z1>> \in Seq(Statement) /\ z1.n = b /\ z1.op = "consume"
      BY <2>1
    <3>3. /\ Tail(todo[t]) = <<z1>> \o Rest(P, k)
          /\ src = "STOCK" /\ pre = <<y, z1>>
      BY <3>1
    <3> QED
      BY <3>2, <3>3
  <2> QED
    BY <1>0, <2>2, <2>3
<1>12. PICK pre2 : pre2 = write \o more
  OBVIOUS
<1> DEFINE s == pre2 \o Rest(P, k)
<1>13. /\ <<x>> \in Seq(Statement) /\ <<z>> \in Seq(Statement) /\ <<x, z>> \in Seq(Statement)
       /\ <<>> \in Seq(Statement)
       /\ <<x>> \o <<z>> = <<x, z>> /\ <<>> \o <<z>> = <<z>> /\ <<x>> \o <<>> = <<x>> /\ <<>> \o <<>> = <<>>
       /\ <<x>>[1] = x /\ <<z>>[1] = z /\ <<x, z>>[1] = x /\ <<x, z>>[2] = z
       /\ <<x>> # <<>> /\ <<z>> # <<>> /\ <<x, z>> # <<>>
       /\ Len(<<x>>) = 1 /\ Len(<<z>>) = 1 /\ Len(<<x, z>>) = 2
  <2> HIDE DEF x
  <2>1. <<x>> \in Seq(Statement) /\ <<z>> \in Seq(Statement) /\ <<x, z>> \in Seq(Statement)
        /\ <<x, z>>[2] = z /\ Len(<<x>>) = 1 /\ Len(<<z>>) = 1 /\ Len(<<x, z>>) = 2
    BY <1>10, <1>11
  <2> QED
    BY <1>9, <2>1, TailOfFew, ConcatEmptySeq, EmptySeq DEF Inserts
<1>14. /\ pre = <<y>> => Owed(pre) = a
       /\ pre = <<y, z>> => Owed(pre) = a + b
  <2>0. y.n = a /\ z.n = b
    BY <1>10, <1>11
  <2> HIDE DEF y
  <2>1. <<y>>[1] = y /\ <<y, z>>[1] = y /\ <<y>> # <<>> /\ <<y, z>> # <<>>
    BY TailOfFew
  <2>2. Len(<<y>>) = 1 /\ Len(<<y, z>>) = 2 /\ <<y, z>>[2] = z
    OBVIOUS
  <2>3. Owed(<<y>>) = a
    BY <2>0, <2>1, <2>2 DEF Owed
  <2>4. Owed(<<y, z>>) = a + b
    BY <2>0, <2>1, <2>2 DEF Owed
  <2> QED
    BY <2>3, <2>4
<1>15. \/ actual <= 0 /\ more = <<>> /\ pre2 = <<>>
       \/ actual <= 0 /\ more = <<z>> /\ pre2 = <<z>>
       \/ actual \in Nat \ {0} /\ more = <<>> /\ pre2 = <<x>>
       \/ actual \in Nat \ {0} /\ more = <<z>> /\ pre2 = <<x, z>> /\ src = "STOCK"
  <2>1. actual <= 0 \/ actual \in Nat \ {0}
    BY <1>7
  <2>2. more = <<>> \/ (more = <<z>> /\ src = "STOCK")
    BY <1>11
  <2>3. actual <= 0 => pre2 = <<>> \o more
    BY <1>12
  <2>4. actual \in Nat \ {0} => pre2 = <<x>> \o more
    BY <1>12
  <2> HIDE DEF x, y, write
  <2> QED
    BY <1>13, <2>1, <2>2, <2>3, <2>4
<1>16. more = <<z>> => pre = <<y, z>>
  <2> HIDE DEF y
  <2> QED
    BY <1>11, <1>13
<1>17. /\ Ending(p, pre2) \/ pre2 = <<>>
       /\ Owed(pre2) <= Owed(pre)
       /\ Backed(t, pre2)
  <2>1. CASE actual <= 0 /\ more = <<>> /\ pre2 = <<>>
    <3>1. Owed(pre2) = 0 /\ Owed(pre) \in Nat
      BY <1>11, <1>14, <2>1 DEF Owed
    <3> QED
      BY <2>1, <3>1 DEF Backed
  <2>2. CASE actual <= 0 /\ more = <<z>> /\ pre2 = <<z>>
    <3>1. Ending(p, pre2)
      BY <1>11, <2>2, SourceRows DEF Ending
    <3>2. Owed(pre2) = b /\ Owed(pre) = a + b
      BY <1>11, <1>13, <1>14, <1>16, <2>2 DEF Owed
    <3>3. pre2[1].op = "consume"
      BY <1>11, <1>13, <2>2
    <3> QED
      BY <3>1, <3>2, <3>3 DEF Backed
  <2>3. CASE actual \in Nat \ {0} /\ more = <<>> /\ pre2 = <<x>>
    <3>1. Ending(p, pre2)
      BY <2>3 DEF Ending
    <3>2. Owed(pre2) = actual /\ Owed(pre) >= a
      <4> HIDE DEF x, y
      <4>1. Owed(pre2) = actual
        BY <1>10, <1>13, <2>3 DEF Owed
      <4> QED
        BY <1>11, <1>14, <4>1
    <3>3. pre2[1] = x
      BY <1>13, <2>3
    <3>4. a <= Owed(pre) /\ Owed(pre) \in Int
      BY <1>11, <1>14
    <3> HIDE DEF x
    <3> QED
      BY <1>7, <1>10, <3>1, <3>2, <3>3, <3>4 DEF Backed
  <2>4. CASE actual \in Nat \ {0} /\ more = <<z>> /\ pre2 = <<x, z>> /\ src = "STOCK"
    <3>1. Ending(p, pre2)
      BY <1>11, <2>4 DEF Ending
    <3>2. Owed(pre2) = actual + b /\ Owed(pre) = a + b
      <4> HIDE DEF x, y
      <4> QED
        BY <1>10, <1>11, <1>13, <1>14, <1>16, <2>4 DEF Owed
    <3>3. pre2[1] = x
      BY <1>13, <2>4
    <3> HIDE DEF x
    <3> QED
      BY <1>7, <1>10, <3>1, <3>2, <3>3 DEF Backed
  <2> QED
    BY <1>15, <2>1, <2>2, <2>3, <2>4
<1>18. Inserted(r, k, pre2)
  BY <1>0, <1>1, <1>3, <1>17, RequestLines DEF Inserted
<1>19. pre2 \in Inserts /\ s \in Seq(Statement) /\ s = write \o (more \o Rest(P, k))
  <2> HIDE DEF x, y, P
  <2>1. write \in Seq(Statement)
    BY <1>13
  <2> HIDE DEF write
  <2>2. pre2 \in Seq(Statement)
    BY <1>11, <1>12, <2>1, ConcatProperties
  <2>3. pre2 \o Rest(P, k) \in Seq(Statement)
    BY <1>9, <2>2, ConcatProperties
  <2>4. (write \o more) \o Rest(P, k) = write \o (more \o Rest(P, k))
    <3> DEFINE rest == Rest(P, k)
               S == Statement
    <3>1. write \in Seq(S) /\ more \in Seq(S) /\ rest \in Seq(S)
      BY <1>9, <1>11, <2>1
    <3> HIDE DEF rest, S
    <3>2. (write \o more) \o rest = write \o (more \o rest)
      BY ONLY <3>1, ConcatAssociative, SMT
    <3> QED
      BY <3>2 DEF rest
  <2> QED
    BY <1>12, <2>2, <2>3, <2>4 DEF Inserts
<1>20. Read(t, s) /\ UNCHANGED seen
  BY <1>8, <1>11, <1>19
<1>21. Reads(t, s)
  BY <1>20 DEF Reads, TransactionsTypeOK
<1>22. s = pre2 \o Rest(Program(running[t]), k)
  OBVIOUS
<1> HIDE DEF s, P
<1>23. Progress(t, k, pre2)'
  BY <1>1, <1>18, <1>21, <1>22, ReadsProgress
<1> QED
  BY <1>0, <1>3, <1>17, <1>19, <1>20, <1>21, <1>23 DEF s, P

\* What t makes of a cell when it ends n of the hold of its order.
Shortened(t, c, s, n) ==
  IF running[t].kind = "start" THEN Used(c, s, OrderOfRequest(running[t]), n)
  ELSE Unheld(c, s, OrderOfRequest(running[t]), n)

LEMMA HoldStep ==
  ASSUME NEW t, NEW k, NEW pre, OnWay(t, k, pre), WriteHold(t)
  PROVE  LET r == running[t]
         IN  /\ r.kind \in {"start", "cancel"} /\ OrderOfRequest(r) \in Order
             /\ \E p \in Product, src \in Source, a \in Nat \ {0}, pre2 \in Inserts :
                  LET c == Shortened(t, View(t, p), src, a)
                      s == pre2 \o Rest(Program(r), k)
                  IN  /\ r.kind = "start" =>
                           /\ \E i \in 1..Len(r.lines) : p = r.lines[i] /\ k = Len(r.lines) + i
                           /\ Owed(pre) = a + Owed(pre2) /\ cellOwner[p] = t
                      /\ Head(todo[t]).product = p /\ Head(todo[t]).source = src
                      /\ Head(todo[t]).n = a /\ At(t, {"unhold", "use"})
                      /\ pre2 # <<>> => pre2[1].op \notin {"unhold", "use"}
                      /\ c \in IntCell /\ s \in Seq(Statement)
                      /\ Writes(t, p, c, s)
                      /\ Progress(t, k, pre2)'
<1> DEFINE r == running[t]
           P == Program(r)
           m == Len(r.lines)
           o == OrderOfRequest(r)
<1> USE DEF OnWay
<1>1. r \in Request /\ Len(P) \in Nat /\ k \in Nat /\ m \in Nat
  BY ProgramLength, RequestLines
<1>2. At(t, {"unhold", "use"})
  BY DEF WriteHold
<1>3. Rest(P, k) \in Seq(Statement) /\ <<>> \o Rest(P, k) = Rest(P, k) /\ <<>> \in Inserts
  BY <1>1, RestIsNext
<1>4. CASE Head(todo[t]).op = "use"
  <2>1. At(t, {"use"})
    BY <1>2, <1>4 DEF At
  <2>2. r.kind = "start"
    BY <2>1, AtEnding
  <2>3. PICK i \in 1..m, a \in Nat \ {0}, src \in Source : EndingAt(t, k, pre, "use", i, src, a)
    BY <2>1, AtEnding
  <2> DEFINE p == r.lines[i]
             c == Shortened(t, View(t, p), src, a)
  <2>4. p \in Product /\ o \in Order
    BY <1>1, <2>2, RequestLines, OrderOfTyped
  <2>5. /\ k = m + i /\ Head(todo[t]) = Stmt("use", p, src, a)
        /\ \/ pre = <<Stmt("use", p, src, a)>> /\ Tail(todo[t]) = Rest(P, k)
           \/ \E b \in Nat \ {0} :
                /\ src = "STOCK"
                /\ pre = <<Stmt("use", p, src, a), Stmt("consume", p, "PURCHASE", b)>>
                /\ Tail(todo[t]) = <<Stmt("consume", p, "PURCHASE", b)>> \o Rest(P, k)
    BY <2>3 DEF EndingAt
  <2>6. /\ Head(todo[t]).product = p /\ Head(todo[t]).source = src /\ Head(todo[t]).n = a
    BY <2>5, Ops
  <2>7. Write(t, p, c)
    BY <1>4, <2>2, <2>6 DEF WriteHold, Shortened
  <2>8. c \in IntCell
    BY <2>2, <2>4, ViewTyped, UnheldTyped DEF Shortened
  <2>9. Passed(r, k, p) /\ cellOwner[p] = t
    <3>1. Passed(r, k, p)
      BY <1>1, <2>2, <2>5, RequestLines DEF Passed, Shift
    <3> QED
      BY <2>2, <2>4, <3>1 DEF Progress
  <2>10. ASSUME NEW pre2 \in Inserts, Tail(todo[t]) = pre2 \o Rest(P, k), Inserted(r, k, pre2),
                Owed(pre) = a + Owed(pre2), pre2 # <<>> => pre2[1].op \notin {"unhold", "use"}
         PROVE  /\ pre2 \o Rest(P, k) \in Seq(Statement)
                /\ Writes(t, p, c, pre2 \o Rest(P, k))
                /\ Progress(t, k, pre2)'
    <3> DEFINE s == pre2 \o Rest(P, k)
    <3>1. s \in Seq(Statement)
      BY <1>3, ConcatProperties DEF Inserts
    <3>2. Writes(t, p, c, s)
      BY <2>7, <2>10 DEF Write, Writes
    <3>3. s = pre2 \o Rest(Program(running[t]), k)
      OBVIOUS
    <3> HIDE DEF s, P, c, p
    <3>4. Progress(t, k, pre2)'
      BY <1>1, <2>4, <2>9, <2>10, <3>2, <3>3, WritesProgress
    <3> QED
      BY <3>1, <3>2, <3>4 DEF s
  <2>11. CASE pre = <<Stmt("use", p, src, a)>> /\ Tail(todo[t]) = Rest(P, k)
    <3>1. Owed(pre) = a /\ Owed(<<>>) = 0
      <4>1. pre # <<>> /\ Len(pre) = 1 /\ pre[1].n = a
        BY <2>11, TailOfFew, Ops
      <4> QED
        BY <4>1 DEF Owed
    <3>2. a = a + 0
      OBVIOUS
    <3>3. Inserted(r, k, <<>>)
      BY DEF Inserted
    <3>4. /\ <<>> \o Rest(P, k) \in Seq(Statement)
          /\ Writes(t, p, c, <<>> \o Rest(P, k))
          /\ Progress(t, k, <<>>)'
      BY <1>3, <2>10, <2>11, <3>1, <3>2, <3>3
    <3> HIDE DEF c, p, P
    <3> QED
      BY <1>2, <1>3, <2>2, <2>4, <2>5, <2>6, <2>8, <2>9, <3>1, <3>2, <3>4 DEF c, p, P
  <2>12. CASE \E b \in Nat \ {0} :
                /\ src = "STOCK"
                /\ pre = <<Stmt("use", p, src, a), Stmt("consume", p, "PURCHASE", b)>>
                /\ Tail(todo[t]) = <<Stmt("consume", p, "PURCHASE", b)>> \o Rest(P, k)
    <3>1. PICK b \in Nat \ {0} :
                /\ src = "STOCK"
                /\ pre = <<Stmt("use", p, src, a), Stmt("consume", p, "PURCHASE", b)>>
                /\ Tail(todo[t]) = <<Stmt("consume", p, "PURCHASE", b)>> \o Rest(P, k)
      BY <2>12
    <3> DEFINE x == Stmt("use", p, src, a)
               z == Stmt("consume", p, "PURCHASE", b)
    <3>2. x.n = a /\ z.n = b /\ z.op = "consume"
      BY Ops
    <3>3. z \in Statement
      <4>1. b \in Int /\ "consume" \in Locking \cup Reading /\ "PURCHASE" \in Source
        BY SourceRows DEF Reading
      <4> QED
        BY <2>4, <4>1, StatementTypes
    <3>4. Inserted(r, k, <<z>>)
      <4>1. Ending(p, <<z>>)
        BY SourceRows DEF Ending
      <4>2. <<z>> # <<>> /\ i \in DOMAIN r.lines
        BY <1>1, RequestLines, TailOfFew
      <4> HIDE DEF z
      <4> QED
        BY <2>2, <2>5, <4>1, <4>2 DEF Inserted
    <3> HIDE DEF x, z
    <3>5. <<z>> \in Inserts /\ <<z>>[1] = z /\ <<x, z>>[1] = x /\ <<x, z>>[2] = z
          /\ Len(<<z>>) = 1 /\ Len(<<x, z>>) = 2 /\ <<z>> # <<>> /\ <<x, z>> # <<>>
      BY <3>3 DEF Inserts
    <3>6. Owed(pre) = a + b /\ Owed(<<z>>) = b
      BY <3>1, <3>2, <3>5 DEF Owed, x, z
    <3>7. <<z>>[1].op \notin {"unhold", "use"}
      BY <3>2, <3>5
    <3>8. Tail(todo[t]) = <<z>> \o Rest(P, k)
      BY <3>1 DEF z
    <3>9. PICK pre2 : pre2 = <<z>>
      OBVIOUS
    <3>10. /\ pre2 \o Rest(P, k) \in Seq(Statement)
           /\ Writes(t, p, c, pre2 \o Rest(P, k))
           /\ Progress(t, k, pre2)'
      BY <2>10, <3>4, <3>5, <3>6, <3>7, <3>8, <3>9
    <3> HIDE DEF c, p, P
    <3> QED
      BY <1>2, <2>2, <2>4, <2>5, <2>6, <2>8, <2>9, <3>5, <3>6, <3>7, <3>9, <3>10 DEF c, p, P
  <2> QED
    BY <2>5, <2>11, <2>12
<1>5. CASE Head(todo[t]).op = "unhold"
  <2>1. At(t, {"unhold"})
    BY <1>2, <1>5 DEF At
  <2>2. r.kind = "cancel" /\ k = 1
    BY <2>1, AtUnhold
  <2>3. PICK p \in Product, src \in Source, a \in Nat \ {0} :
          /\ Head(todo[t]) = Stmt("unhold", p, src, a)
          /\ \/ pre = <<Stmt("unhold", p, src, a)>> /\ Tail(todo[t]) = Rest(P, 1)
             \/ \E R \in SUBSET Row :
                  /\ pre = <<Stmt("unhold", p, src, a), Releases(R)>>
                  /\ Tail(todo[t]) = <<Releases(R)>> \o Rest(P, 1)
    BY <2>1, AtUnhold
  <2> DEFINE c == Shortened(t, View(t, p), src, a)
  <2>4. o \in Order
    BY <1>1, <2>2, OrderOfTyped
  <2>5. /\ Head(todo[t]).product = p /\ Head(todo[t]).source = src /\ Head(todo[t]).n = a
    BY <2>3, Ops
  <2>6. Write(t, p, c)
    BY <1>5, <2>2, <2>5 DEF WriteHold, Shortened
  <2>7. c \in IntCell
    BY <2>2, <2>4, ViewTyped, UnheldTyped DEF Shortened
  <2>8. \E pre2 \in Inserts :
          /\ Tail(todo[t]) = pre2 \o Rest(P, k) /\ Inserted(r, k, pre2)
          /\ pre2 # <<>> => pre2[1].op \notin {"unhold", "use"}
    <3>1. CASE Tail(todo[t]) = Rest(P, 1)
      BY <1>3, <2>2, <3>1 DEF Inserted
    <3>2. CASE \E R \in SUBSET Row : Tail(todo[t]) = <<Releases(R)>> \o Rest(P, 1)
      <4>1. PICK R \in SUBSET Row : Tail(todo[t]) = <<Releases(R)>> \o Rest(P, 1)
        BY <3>2
      <4>2. <<Releases(R)>> \in Inserts
        <5>1. Releases(R) \in Statement
          BY StatementTypes
        <5> QED
          BY <5>1 DEF Inserts
      <4>3. Inserted(r, 1, <<Releases(R)>>)
        BY <2>2 DEF Inserted, Freeing
      <4>4. <<Releases(R)>>[1].op = "releases"
        BY DEF Releases
      <4> QED
        BY <2>2, <4>1, <4>2, <4>3, <4>4
    <3> QED
      BY <2>3, <3>1, <3>2
  <2>9. PICK pre2 \in Inserts :
          /\ Tail(todo[t]) = pre2 \o Rest(P, k) /\ Inserted(r, k, pre2)
          /\ pre2 # <<>> => pre2[1].op \notin {"unhold", "use"}
    BY <2>8
  <2> DEFINE s == pre2 \o Rest(P, k)
  <2>10. s \in Seq(Statement)
    BY <1>3, ConcatProperties DEF Inserts
  <2>11. Writes(t, p, c, s)
    BY <2>6, <2>9 DEF Write, Writes
  <2>12. s = pre2 \o Rest(Program(running[t]), k)
    OBVIOUS
  <2> HIDE DEF s, P, c
  <2>13. Progress(t, k, pre2)'
    BY <1>1, <2>2, <2>9, <2>11, <2>12, WritesProgress
  <2> QED
    BY <1>2, <2>2, <2>4, <2>5, <2>7, <2>9, <2>10, <2>11, <2>13 DEF s, P, c
<1> QED
  BY <1>2, <1>4, <1>5 DEF At

LEMMA StatusStep ==
  ASSUME NEW t, NEW k, NEW pre, OnWay(t, k, pre), WriteStatus(t)
  PROVE  LET r == running[t]
         IN  /\ r.kind \in {"give", "start", "cancel"} /\ r.doc \in Doc
             /\ pre = <<>> /\ k + 1 \in 0..Len(Program(r))
             /\ r.kind = "cancel" => k = 1
             /\ docOwner[r.doc] \in {None, t} /\ ~ StatusPassed(r, k)
             /\ r.kind # "cancel" => \A p \in Product : Passed(r, k + 1, p) <=> Passed(r, k, p)
             /\ docOwner' = [docOwner EXCEPT ![r.doc] = t]
             /\ draftStatus' = [draftStatus EXCEPT ![r.doc] = StatusAfter(r)]
             /\ UNCHANGED <<cell, status, cellOwner, draft, running, seen, waiting>>
             /\ TransactionsTypeOK'
             /\ \A u \in Tx \ {t} : Undisturbed(u)
             /\ Progress(t, k + 1, <<>>)'
<1> DEFINE r == running[t]
           P == Program(r)
           m == Len(r.lines)
           S == Statement
<1> USE DEF OnWay
<1>1. r \in Request /\ Len(P) \in Nat /\ k \in Nat /\ m \in Nat /\ DOMAIN r.lines = 1..m
  BY ProgramLength, RequestLines
<1>2. At(t, {"status"})
  BY DEF WriteStatus
<1>3. /\ pre = <<>> /\ k + 1 \in 1..Len(P)
      /\ Tail(todo[t]) = Rest(P, k + 1)
      /\ \/ r.kind = "give" /\ k = 0
         \/ r.kind = "start" /\ k = 2 * m
         \/ r.kind = "cancel" /\ k = 1
  BY <1>2, AtStatus
<1>4. r.kind \in {"give", "start", "cancel"} /\ r.doc \in Doc /\ StatusAfter(r) \in OrderStatus \cup BatchStatus
  BY <1>1, <1>3, DocTyped
<1>5. k + 1 \in 0..Len(P)
  BY <1>1, <1>3
<1>6. Rest(P, k + 1) \in Seq(S) /\ Rest(P, k + 1) = <<>> \o Rest(P, k + 1)
  BY <1>1, <1>5, RestIsNext
<1>7. ~ StatusPassed(r, k) /\ StatusPassed(r, k + 1)
  BY <1>1, <1>3 DEF StatusPassed
<1>8. ASSUME r.kind # "cancel", NEW p \in Product PROVE Passed(r, k + 1, p) <=> Passed(r, k, p)
  <2>1. CASE r.kind = "give"
    <3>1. Shift(r) = 1 /\ \A i \in 1..m : ~ (1 + i <= k + 1) /\ ~ (1 + i <= k)
      BY <1>1, <1>3, <2>1 DEF Shift
    <3> QED
      BY <1>1, <3>1 DEF Passed
  <2>2. CASE r.kind = "start"
    <3>1. Shift(r) = m
      BY <2>2 DEF Shift
    <3>2. \A i \in 1..m : m + i <= k + 1 /\ m + i <= k
      BY <1>1, <1>3, <2>2
    <3> QED
      BY <1>1, <3>1, <3>2 DEF Passed
  <2> QED
    BY <1>3, <1>8, <2>1, <2>2
<1>9. /\ docOwner[r.doc] \in {None, t}
      /\ docOwner' = [docOwner EXCEPT ![r.doc] = t]
      /\ draftStatus' = [draftStatus EXCEPT ![r.doc] = StatusAfter(r)]
      /\ todo' = [todo EXCEPT ![t] = Rest(P, k + 1)]
      /\ UNCHANGED <<cell, status, cellOwner, draft, running, shelf, seen, waiting>>
  BY <1>3 DEF WriteStatus
<1> HIDE DEF S, P, m
<1> USE NotNone
<1>10. TransactionsTypeOK'
  <2> HIDE DEF IntCell, OrderStatus, BatchStatus
  <2> QED
    BY <1>4, <1>6, <1>9 DEF TransactionsTypeOK, S
<1>11. \A u \in Tx \ {t} : Undisturbed(u)
  BY <1>4, <1>9 DEF TransactionsTypeOK, Undisturbed
<1>12. todo'[t] = <<>> \o Rest(P, k + 1)
  BY <1>6, <1>9 DEF TransactionsTypeOK
<1>13. /\ \A d \in Doc : docOwner'[d] = t <=> d = r.doc
       /\ \A d \in Doc : docOwner'[d] = t => draftStatus'[d] = StatusAfter(r)
  BY <1>4, <1>7, <1>9 DEF TransactionsTypeOK, Progress
<1>14. Progress(t, k + 1, <<>>)'
  BY <1>7, <1>8, <1>9, <1>12, <1>13 DEF Progress, Inserted, P
<1> QED
  BY <1>3, <1>4, <1>5, <1>7, <1>8, <1>9, <1>10, <1>11, <1>14 DEF P

LEMMA EndStep ==
  ASSUME TransactionsTypeOK, NEW t \in Tx, EmptyHanded(t), waiting' = waiting,
         NEW C \in [Product -> IntCell], NEW D \in [Doc -> OrderStatus \cup BatchStatus],
         cell' = C, status' = D,
         \A p \in Product : cellOwner[p] # t => C[p] = cell[p],
         \A d \in Doc : docOwner[d] # t => D[d] = status[d],
         draft' = [p \in Product |-> IF cellOwner[p] = t THEN C[p] ELSE draft[p]],
         draftStatus' = [d \in Doc |-> IF docOwner[d] = t THEN D[d] ELSE draftStatus[d]]
  PROVE  TransactionsTypeOK' /\ Idle(t)' /\ \A u \in Tx \ {t} : Undisturbed(u)
<1> USE NotNone
<1> HIDE DEF IntCell, OrderStatus, BatchStatus
<1>0. NothingSeen \in [Product -> [Source -> Int]] /\ <<>> \in Seq(Statement)
  BY DEF NothingSeen
<1>1. /\ cellOwner' = [p \in Product |-> IF cellOwner[p] = t THEN None ELSE cellOwner[p]]
      /\ docOwner' = [d \in Doc |-> IF docOwner[d] = t THEN None ELSE docOwner[d]]
      /\ running' = [running EXCEPT ![t] = None]
      /\ todo' = [todo EXCEPT ![t] = <<>>] /\ shelf' = [shelf EXCEPT ![t] = None]
      /\ seen' = [seen EXCEPT ![t] = NothingSeen]
  BY DEF EmptyHanded
<1> HIDE DEF NothingSeen, Statement
<1>2. TransactionsTypeOK'
  <2>1. /\ draft' \in [Product -> IntCell] /\ draftStatus' \in [Doc -> OrderStatus \cup BatchStatus]
        /\ cell' \in [Product -> IntCell] /\ status' \in [Doc -> OrderStatus \cup BatchStatus]
        /\ cellOwner' \in [Product -> Tx \cup {None}] /\ docOwner' \in [Doc -> Tx \cup {None}]
    BY <1>1 DEF TransactionsTypeOK
  <2>2. /\ running' \in [Tx -> Request \cup {None}] /\ todo' \in [Tx -> Seq(Statement)]
        /\ seen' \in [Tx -> [Product -> [Source -> Int]]] /\ waiting' \subseteq Request
        /\ shelf' \in [Tx -> StockRow \cup {None}]
    BY <1>0, <1>1 DEF TransactionsTypeOK
  <2>3. \A p \in Product : cellOwner'[p] = None => draft'[p] = cell'[p]
    BY <1>1 DEF TransactionsTypeOK
  <2>4. \A d \in Doc : docOwner'[d] = None => draftStatus'[d] = status'[d]
    BY <1>1 DEF TransactionsTypeOK
  <2> QED
    BY <2>1, <2>2, <2>3, <2>4 DEF TransactionsTypeOK
<1>3. Idle(t)'
  BY <1>1 DEF TransactionsTypeOK, Idle
<1>4. \A u \in Tx \ {t} : Undisturbed(u)
  BY <1>1 DEF TransactionsTypeOK, Undisturbed
<1> QED
  BY <1>2, <1>3, <1>4

LEMMA RollBackStep ==
  ASSUME TransactionsTypeOK, NEW t \in Tx, RollBack(t)
  PROVE  /\ TransactionsTypeOK' /\ Idle(t)' /\ \A u \in Tx \ {t} : Undisturbed(u)
         /\ cell' = cell /\ status' = status
<1>1. /\ EmptyHanded(t) /\ waiting' = waiting /\ cell' = cell /\ status' = status
      /\ draft' = [p \in Product |-> IF cellOwner[p] = t THEN cell[p] ELSE draft[p]]
      /\ draftStatus' = [d \in Doc |-> IF docOwner[d] = t THEN status[d] ELSE draftStatus[d]]
  BY DEF RollBack
<1>2. cell \in [Product -> IntCell] /\ status \in [Doc -> OrderStatus \cup BatchStatus]
  BY DEF TransactionsTypeOK
<1> QED
  BY <1>1, <1>2, EndStep

LEMMA CommitStep ==
  ASSUME TransactionsTypeOK, NEW t \in Tx, Commit(t)
  PROVE  /\ TransactionsTypeOK' /\ Idle(t)' /\ \A u \in Tx \ {t} : Undisturbed(u)
         /\ cell' = [p \in Product |-> IF cellOwner[p] = t THEN draft[p] ELSE cell[p]]
         /\ status' = [d \in Doc |-> IF docOwner[d] = t THEN draftStatus[d] ELSE status[d]]
         /\ running[t] # None /\ todo[t] = <<>>
<1> DEFINE C == [p \in Product |-> IF cellOwner[p] = t THEN draft[p] ELSE cell[p]]
           D == [d \in Doc |-> IF docOwner[d] = t THEN draftStatus[d] ELSE status[d]]
<1>1. /\ EmptyHanded(t) /\ waiting' = waiting /\ cell' = C /\ status' = D
      /\ draft' = draft /\ draftStatus' = draftStatus
      /\ running[t] # None /\ todo[t] = <<>>
  BY DEF Commit, View, StatusView
<1>2. C \in [Product -> IntCell] /\ D \in [Doc -> OrderStatus \cup BatchStatus]
  BY DEF TransactionsTypeOK
<1>3. /\ draft' = [p \in Product |-> IF cellOwner[p] = t THEN C[p] ELSE draft[p]]
      /\ draftStatus' = [d \in Doc |-> IF docOwner[d] = t THEN D[d] ELSE draftStatus[d]]
  BY <1>1 DEF TransactionsTypeOK
<1>4. /\ \A p \in Product : cellOwner[p] # t => C[p] = cell[p]
      /\ \A d \in Doc : docOwner[d] # t => D[d] = status[d]
  OBVIOUS
<1> HIDE DEF C, D
<1>5. TransactionsTypeOK' /\ Idle(t)' /\ \A u \in Tx \ {t} : Undisturbed(u)
  BY <1>1, <1>2, <1>3, <1>4, EndStep
<1> QED
  BY <1>1, <1>5 DEF C, D

LEMMA BeginStep ==
  ASSUME TransactionsTypeOK, NEW t \in Tx, Idle(t), Begin(t)
  PROVE  \E r \in Request :
           /\ Admitted(r) /\ running' = [running EXCEPT ![t] = r]
           /\ UNCHANGED <<cell, status, cellOwner, docOwner, draft, draftStatus, seen>>
           /\ TransactionsTypeOK' /\ Progress(t, 0, <<>>)'
           /\ \A u \in Tx \ {t} : Undisturbed(u)
<1>1. waiting \subseteq Request
  BY DEF TransactionsTypeOK
<1>2. PICK r \in waiting :
        /\ Admitted(r)
        /\ running' = [running EXCEPT ![t] = r]
        /\ todo' = [todo EXCEPT ![t] = Program(r)]
        /\ waiting' = waiting \ {r}
  BY DEF Begin
<1>3. UNCHANGED <<cell, status, cellOwner, docOwner, draft, draftStatus, shelf, seen>>
  BY DEF Begin
<1>4. r \in Request /\ Program(r) \in Seq(Statement) /\ Len(Program(r)) \in Nat
  BY <1>1, ProgramIs, ProgramLength
<1>5. Program(r) = <<>> \o Rest(Program(r), 0)
  <2>1. 0 \in 0..Len(Program(r))
    BY <1>4
  <2>2. Rest(Program(r), 0) = Program(r)
    BY <1>4, <2>1, RestOfProgram
  <2> QED
    BY <1>4, <2>1, <2>2, NothingBefore
<1> HIDE DEF Statement, IntCell, OrderStatus, BatchStatus
<1>6. TransactionsTypeOK'
  BY <1>2, <1>3, <1>4 DEF TransactionsTypeOK
<1>7. \A u \in Tx \ {t} : Undisturbed(u)
  BY <1>2, <1>3 DEF TransactionsTypeOK, Undisturbed
<1>8. running'[t] = r /\ todo'[t] = Program(r)
  BY <1>2 DEF TransactionsTypeOK
<1>9. ~ StatusPassed(r, 0) /\ \A p \in Product : r.kind # "cancel" => ~ Passed(r, 0, p)
  <2>1. /\ Len(r.lines) \in Nat /\ DOMAIN r.lines = 1..Len(r.lines)
    BY <1>4, RequestLines
  <2>2. Shift(r) \in Nat
    BY <2>1 DEF Shift
  <2>3. \A i \in DOMAIN r.lines : ~ (Shift(r) + i <= 0)
    BY <2>1, <2>2
  <2> QED
    BY <2>1, <2>3 DEF StatusPassed, Passed
<1>10. Progress(t, 0, <<>>)'
  BY <1>3, <1>5, <1>8, <1>9 DEF Progress, Inserted, Idle
<1> QED
  BY <1>2, <1>3, <1>4, <1>6, <1>7, <1>10

-----------------------------------------------------------------------------
(* Every connection executes its program in order. *)

LEMMA OthersGoOn ==
  ASSUME NEW u \in Tx, Undisturbed(u)
  PROVE  /\ Idle(u) => Idle(u)'
         /\ \A k, pre : Progress(u, k, pre) => Progress(u, k, pre)'
         /\ AtWork(u) => AtWork(u)'
<1>1. Idle(u) => Idle(u)'
  BY DEF Undisturbed, Idle
<1>2. ASSUME NEW k, NEW pre, Progress(u, k, pre) PROVE Progress(u, k, pre)'
  BY <1>2 DEF Undisturbed, Progress
<1>3. AtWork(u) => AtWork(u)'
  BY <1>2 DEF Undisturbed, AtWork
<1> QED
  BY <1>1, <1>2, <1>3

LEMMA WorkGoesOn ==
  ASSUME NEW t \in Tx, running[t] \in Request, running' = running,
         NEW k \in 0..Len(Program(running[t])), NEW pre \in Inserts, Progress(t, k, pre)'
  PROVE  AtWork(t)'
BY DEF AtWork

LEMMA Working ==
  ASSUME InOrder, NEW t \in Tx, running[t] # None
  PROVE  running[t] \in Request /\ \E k, pre : OnWay(t, k, pre)
BY DEF InOrder, Idle, AtWork, OnWay

(***************************************************************************)
(* A step of connection t: what every step has in common.                  *)
(***************************************************************************)
LEMMA StepsInOrder ==
  ASSUME InOrder, NEW t \in Tx, Begin(t) \/ Statements(t) \/ BreakDeadlock(t) \/ Fail(t)
  PROVE  TransactionsTypeOK' /\ (Idle(t) \/ AtWork(t))' /\ \A u \in Tx \ {t} : Undisturbed(u)
<1> DEFINE Goal == TransactionsTypeOK' /\ (Idle(t) \/ AtWork(t))' /\ \A u \in Tx \ {t} : Undisturbed(u)
<1>0. TransactionsTypeOK
  BY DEF InOrder
<1>1. CASE Begin(t)
  <2>1. running[t] = None
    BY <1>1 DEF Begin
  <2>2. Idle(t)
    BY <2>1, NotNone DEF InOrder, AtWork
  <2>3. PICK r \in Request :
          /\ running' = [running EXCEPT ![t] = r]
          /\ TransactionsTypeOK' /\ Progress(t, 0, <<>>)'
          /\ \A u \in Tx \ {t} : Undisturbed(u)
    BY <1>0, <1>1, <2>2, BeginStep
  <2>4. running'[t] = r
    BY <1>0, <2>3 DEF TransactionsTypeOK
  <2>5. 0 \in 0..Len(Program(r)) /\ <<>> \in Inserts
    BY ProgramLength, EmptySeq DEF Inserts
  <2>6. AtWork(t)'
    BY <2>3, <2>4, <2>5 DEF AtWork
  <2> QED
    BY <2>3, <2>6
<1>2. CASE GrantTooSmall(t) \/ CheckFails(t) \/ BreakDeadlock(t) \/ Fail(t)
  BY <1>0, <1>2, RollBackStep DEF GrantTooSmall, CheckFails, BreakDeadlock, Fail
<1>3. CASE Commit(t)
  BY <1>0, <1>3, CommitStep
<1>4. CASE \/ GrantStatement(t) \/ Move(t) \/ TopUpTurn(t) \/ Check(t) \/ ListHolds(t)
           \/ ReadRelease(t) \/ ReadConsume(t) \/ WriteHold(t) \/ WriteStatus(t)
  <2>1. running[t] # None
    BY <1>4 DEF GrantStatement, Move, TopUpTurn, Check, ListHolds, ReadRelease, ReadConsume,
                WriteHold, WriteStatus, At
  <2>2. PICK k, pre : OnWay(t, k, pre)
    BY <2>1, Working
  <2>3. running[t] \in Request /\ k \in 0..Len(Program(running[t])) /\ k \in Nat
    BY <2>2, ProgramLength DEF OnWay
  <2>4. ASSUME NEW p \in Product, NEW c \in IntCell, NEW s \in Seq(Statement), Writes(t, p, c, s),
               NEW k2 \in 0..Len(Program(running[t])), NEW pre2 \in Inserts, Progress(t, k2, pre2)'
        PROVE  Goal
    <3>1. TransactionsTypeOK' /\ running' = running /\ \A u \in Tx \ {t} : Undisturbed(u)
      BY <1>0, <2>4, WritesTyped
    <3> QED
      BY <2>3, <2>4, <3>1, WorkGoesOn
  <2>5. ASSUME NEW s \in Seq(Statement), Reads(t, s),
               NEW k2 \in 0..Len(Program(running[t])), NEW pre2 \in Inserts, Progress(t, k2, pre2)'
        PROVE  Goal
    <3>1. TransactionsTypeOK' /\ running' = running /\ \A u \in Tx \ {t} : Undisturbed(u)
      BY <1>0, <2>5, ReadsTyped
    <3> QED
      BY <2>3, <2>5, <3>1, WorkGoesOn
  <2>6. <<>> \in Inserts
    BY EmptySeq DEF Inserts
  <2>7. CASE GrantStatement(t)
    <3>1. PICK p \in Product, c \in IntCell, s \in Seq(Statement) :
            Writes(t, p, c, s) /\ k + 1 \in 0..Len(Program(running[t])) /\ Progress(t, k + 1, <<>>)'
      BY <2>2, <2>7, GrantStep
    <3> QED
      BY <2>4, <2>6, <3>1
  <2>8. CASE Move(t)
    <3>1. PICK p \in Product, c \in IntCell, s \in Seq(Statement), pre2 \in Inserts :
            Writes(t, p, c, s) /\ k + 1 \in 0..Len(Program(running[t])) /\ Progress(t, k + 1, pre2)'
      <4>1. PICK i \in 1..Len(running[t].lines), pre2 \in Inserts :
              LET p == running[t].lines[i]
                  n == IF running[t].kind = "arrive" THEN running[t].qty[p] ELSE - running[t].qty[p]
                  c == [View(t, p) EXCEPT !.qty = @ + n]
                  s == pre2 \o Rest(Program(running[t]), k + 1)
              IN  /\ p \in Product /\ running[t].qty[p] \in Nat /\ n \in Int /\ pre2 = AfterMove(t, p, n)
                  /\ c \in IntCell /\ s \in Seq(Statement) /\ Writes(t, p, c, s)
                  /\ k + 1 \in 0..Len(Program(running[t])) /\ Progress(t, k + 1, pre2)'
        BY <2>2, <2>8, MoveStep
      <4> DEFINE p == running[t].lines[i]
                 n == IF running[t].kind = "arrive" THEN running[t].qty[p] ELSE - running[t].qty[p]
                 c == [View(t, p) EXCEPT !.qty = @ + n]
                 s == pre2 \o Rest(Program(running[t]), k + 1)
      <4>2. /\ p \in Product /\ c \in IntCell /\ s \in Seq(Statement) /\ Writes(t, p, c, s)
            /\ k + 1 \in 0..Len(Program(running[t])) /\ Progress(t, k + 1, pre2)'
        BY <4>1
      <4> HIDE DEF p, n, c, s
      <4> QED
        BY <4>2
    <3> QED
      BY <2>4, <3>1
  <2>9. CASE TopUpTurn(t)
    <3> DEFINE p == running[t].lines[k]
    <3>1. p \in Product
      BY <2>2, <2>9, TurnStep
    <3>2. PICK S \in (SUBSET Order) \ {{}}, n \in Int, o \in Order, want \in Int, pre2 \in Inserts :
            TurnOf(t, k, pre, S, n, o, want, pre2)
      BY <2>2, <2>9, TurnStep
    <3>3. PICK c \in IntCell, s \in Seq(Statement) : Writes(t, p, c, s) /\ Progress(t, k, pre2)'
      BY <3>2 DEF TurnOf
    <3> QED
      BY <2>3, <2>4, <3>1, <3>3
  <2>10. CASE Check(t)
    <3>1. PICK s \in Seq(Statement) :
            Reads(t, s) /\ k + 1 \in 0..Len(Program(running[t])) /\ Progress(t, k + 1, <<>>)'
      BY <2>2, <2>10, CheckStep
    <3> QED
      BY <2>5, <2>6, <3>1
  <2>11. CASE ListHolds(t)
    <3>1. PICK s \in Seq(Statement), pre2 \in Inserts :
            Reads(t, s) /\ 1 \in 0..Len(Program(running[t])) /\ Progress(t, 1, pre2)'
      BY <2>2, <2>11, ListStep
    <3> QED
      BY <2>5, <3>1
  <2>12. CASE ReadRelease(t)
    <3>1. PICK s \in Seq(Statement), pre2 \in Inserts : k = 1 /\ Reads(t, s) /\ Progress(t, 1, pre2)'
      BY <2>2, <2>12, ReleaseStep
    <3> QED
      BY <2>3, <2>5, <3>1
  <2>13. CASE ReadConsume(t)
    <3>1. PICK s \in Seq(Statement), pre2 \in Inserts : Reads(t, s) /\ Progress(t, k, pre2)'
      BY <2>2, <2>13, ConsumeReadStep
    <3> QED
      BY <2>3, <2>5, <3>1
  <2>14. CASE WriteHold(t)
    <3>1. PICK p \in Product, c \in IntCell, s \in Seq(Statement), pre2 \in Inserts :
            Writes(t, p, c, s) /\ Progress(t, k, pre2)'
      BY <2>2, <2>14, HoldStep
    <3> QED
      BY <2>3, <2>4, <3>1
  <2>15. CASE WriteStatus(t)
    <3>1. /\ k + 1 \in 0..Len(Program(running[t])) /\ running' = running
          /\ TransactionsTypeOK' /\ Progress(t, k + 1, <<>>)'
          /\ \A u \in Tx \ {t} : Undisturbed(u)
      BY <2>2, <2>15, StatusStep
    <3>2. AtWork(t)'
      BY <2>3, <2>6, <3>1, WorkGoesOn
    <3> QED
      BY <3>1, <3>2 DEF Goal
  <2> QED
    BY <1>4, <2>7, <2>8, <2>9, <2>10, <2>11, <2>12, <2>13, <2>14, <2>15 DEF Goal
<1>5. CASE ReadStock(t)
  <2>1. UNCHANGED settled
    BY <1>5, ReadStockSettlesNothing
  <2>2. \A u \in Tx : Undisturbed(u)
    BY <2>1 DEF settled, rows, Undisturbed
  <2>3. (Idle(t) \/ AtWork(t))'
    BY <2>2, OthersGoOn DEF InOrder
  <2>4. TransactionsTypeOK'
    <3>1. running[t] # None /\ At(t, {"check"})
      BY <1>5 DEF ReadStock, At
    <3>2. PICK k, pre : OnWay(t, k, pre)
      BY <3>1, Working
    <3>3. \E i \in 1..Len(running[t].lines) : AtLine(t, k, pre, i, 0, "check", running[t].qty[running[t].lines[i]])
      BY <3>1, <3>2, AtCheck DEF OnWay
    <3>4. Head(todo[t]).product \in Product
      BY <3>2, <3>3, RequestLines, Ops DEF OnWay, AtLine
    <3>5. View(t, Head(todo[t]).product) \in IntCell
      BY <1>0, <3>4, ViewTyped
    <3>6. shelf' \in [Tx -> StockRow \cup {None}]
      BY <1>0, <1>5, <3>5 DEF ReadStock, TransactionsTypeOK, IntCell, StockRow
    <3> QED
      BY <1>0, <2>1, <3>6 DEF settled, rows, TransactionsTypeOK
  <2> QED
    BY <2>2, <2>3, <2>4 DEF Goal
<1> QED
  BY <1>1, <1>2, <1>3, <1>4, <1>5 DEF Statements

LEMMA InOrderStutter == InOrder /\ UNCHANGED vars => InOrder'
<1>1. SUFFICES ASSUME InOrder, UNCHANGED vars PROVE InOrder'
  OBVIOUS
<1>2. TransactionsTypeOK'
  BY <1>1 DEF InOrder, TransactionsTypeOK, vars
<1>3. \A u \in Tx : Undisturbed(u)
  BY <1>1 DEF vars, Undisturbed
<1> QED
  BY <1>1, <1>2, <1>3, OthersGoOn DEF InOrder

LEMMA InOrderStep == InOrder /\ [Next]_vars => InOrder'
<1>1. SUFFICES ASSUME InOrder, Next PROVE InOrder'
  BY InOrderStutter
<1>2. PICK t \in Tx : Begin(t) \/ Statements(t) \/ BreakDeadlock(t) \/ Fail(t)
  BY <1>1 DEF Next
<1>3. TransactionsTypeOK' /\ (Idle(t) \/ AtWork(t))' /\ \A u \in Tx \ {t} : Undisturbed(u)
  BY <1>1, <1>2, StepsInOrder
<1>4. \A u \in Tx \ {t} : (Idle(u) \/ AtWork(u))'
  BY <1>1, <1>3, OthersGoOn DEF InOrder
<1> QED
  BY <1>3, <1>4 DEF InOrder

LEMMA InOrderInit == Init => InOrder
<1> SUFFICES ASSUME Init PROVE InOrder
  OBVIOUS
<1> USE DEF Init
<1>1. /\ Supply \in [Product -> Nat] /\ \A d \in Doc : d \notin Batch => d \in Order
  BY TransactionsAssumption DEF Doc
<1>2. ASSUME NEW p \in Product PROVE [EmptyCell EXCEPT !.qty = Supply[p]] \in IntCell
  <2>1. Supply[p] \in Int
    BY <1>1
  <2>2. EmptyCell \in IntCell
    BY DEF EmptyCell, IntCell
  <2> HIDE DEF EmptyCell
  <2> QED
    BY <2>1, <2>2 DEF IntCell
<1>3. TransactionsTypeOK
  <2>1. cell \in [Product -> IntCell] /\ draft = cell
    BY <1>2
  <2>2. status \in [Doc -> OrderStatus \cup BatchStatus] /\ draftStatus = status
    BY DEF OrderStatus, BatchStatus
  <2>3. NothingSeen \in [Product -> [Source -> Int]] /\ <<>> \in Seq(Statement)
    BY DEF NothingSeen
  <2> HIDE DEF IntCell, OrderStatus, BatchStatus, NothingSeen, Statement
  <2>4. /\ cellOwner \in [Product -> Tx \cup {None}] /\ docOwner \in [Doc -> Tx \cup {None}]
        /\ running \in [Tx -> Request \cup {None}] /\ todo \in [Tx -> Seq(Statement)]
        /\ shelf \in [Tx -> StockRow \cup {None}]
        /\ seen \in [Tx -> [Product -> [Source -> Int]]] /\ waiting \subseteq Request
    BY <2>3
  <2> QED
    BY <2>1, <2>2, <2>4 DEF TransactionsTypeOK
<1>4. \A t \in Tx : Idle(t)
  BY NotNone DEF Idle
<1> QED
  BY <1>3, <1>4 DEF InOrder

(***************************************************************************)
(* TransactionsTypeOK: the types of the transactions' state, whatever the  *)
(* requests are and however they interleave; a row that nobody has locked  *)
(* has no draft that differs from what is committed.                       *)
(***************************************************************************)
THEOREM TransactionsTypes == Spec => []TransactionsTypeOK
<1>1. InOrder => TransactionsTypeOK
  BY DEF InOrder
<1> QED
  BY <1>1, InOrderInit, InOrderStep, PTL DEF Spec

-----------------------------------------------------------------------------
(* What is reserved fits. *)

\* The draft d of a row with the committed cell c reserves no more than there
\* is, unless it reserves no more than was reserved before.
FitsDraft(c, d) == d.reserved > c.reserved => d.reserved <= d.qty
Fits == \A p \in Product : FitsDraft(cell[p], draft[p])

LEMMA FitsWrite ==
  ASSUME TransactionsTypeOK, Fits, NEW t \in Tx, NEW p \in Product, NEW c \in IntCell,
         NEW s \in Seq(Statement), Writes(t, p, c, s), FitsDraft(cell[p], c)
  PROVE  Fits'
<1>1. draft' = [draft EXCEPT ![p] = c] /\ cell' = cell
  BY WritesTyped
<1> QED
  BY <1>1 DEF Fits, TransactionsTypeOK

LEMMA FitsEnd ==
  ASSUME TransactionsTypeOK, Fits, NEW t \in Tx, RollBack(t) \/ Commit(t)
  PROVE  Fits'
<1>1. CASE RollBack(t)
  <2>1. /\ cell' = cell
        /\ draft' = [p \in Product |-> IF cellOwner[p] = t THEN cell[p] ELSE draft[p]]
    BY <1>1 DEF RollBack
  <2>2. \A p \in Product : cell[p].reserved \in Nat
    BY DEF TransactionsTypeOK, IntCell
  <2> QED
    BY <2>1, <2>2 DEF Fits, FitsDraft
<1>2. CASE Commit(t)
  <2>1. /\ cell' = [p \in Product |-> IF cellOwner[p] = t THEN draft[p] ELSE cell[p]]
        /\ draft' = draft
    BY <1>2 DEF Commit, View
  <2>2. \A p \in Product : draft[p].reserved \in Nat
    BY DEF TransactionsTypeOK, IntCell
  <2> QED
    BY <2>1, <2>2 DEF Fits, FitsDraft
<1> QED
  BY <1>1, <1>2

LEMMA FitsStep == InOrder /\ Fits /\ [Next]_vars => Fits'
<1> SUFFICES ASSUME InOrder, Fits, [Next]_vars PROVE Fits'
  OBVIOUS
<1>0. TransactionsTypeOK
  BY DEF InOrder
<1>1. ASSUME cell' = cell, draft' = draft PROVE Fits'
  BY <1>1 DEF Fits
<1>2. CASE UNCHANGED settled
  BY <1>1, <1>2 DEF settled, rows
<1>3. CASE Next
  <2>1. PICK t \in Tx : Begin(t) \/ Statements(t) \/ BreakDeadlock(t) \/ Fail(t)
    BY <1>3 DEF Next
  <2>2. CASE Begin(t) \/ Check(t) \/ ListHolds(t) \/ ReadRelease(t) \/ ReadConsume(t) \/ WriteStatus(t)
    BY <1>1, <2>2 DEF Begin, Check, ListHolds, ReadRelease, ReadConsume, WriteStatus, Read, Continue
  <2>3. CASE \/ GrantTooSmall(t) \/ CheckFails(t) \/ BreakDeadlock(t) \/ Fail(t) \/ Commit(t)
    BY <1>0, <2>3, FitsEnd DEF GrantTooSmall, CheckFails, BreakDeadlock, Fail
  <2>4. CASE GrantStatement(t) \/ Move(t) \/ TopUpTurn(t) \/ WriteHold(t)
    <3>1. running[t] # None
      BY <2>4 DEF GrantStatement, Move, TopUpTurn, WriteHold, At
    <3>2. PICK k, pre : OnWay(t, k, pre)
      BY <3>1, Working
    <3>3. ASSUME NEW p \in Product
          PROVE  /\ View(t, p) \in IntCell /\ View(t, p).reserved \in Nat /\ View(t, p).qty \in Int
                 /\ cell[p].reserved \in Nat
                 /\ FitsDraft(cell[p], View(t, p))
                 /\ cellOwner[p] # t => View(t, p) = cell[p]
      BY <1>0, ViewTyped DEF Fits, FitsDraft, View, TransactionsTypeOK, IntCell
    <3>4. ASSUME NEW p \in Product, NEW src \in Source, NEW o \in Order, NEW n \in Int
          PROVE  FitsDraft(cell[p], Grant(View(t, p), src, o, n))
      <4>1. /\ Granted(View(t, p), n) \in Nat
            /\ Grant(View(t, p), src, o, n).qty = View(t, p).qty
            /\ Grant(View(t, p), src, o, n).reserved = View(t, p).reserved + Granted(View(t, p), n)
            /\ Granted(View(t, p), n) > 0 => View(t, p).reserved + Granted(View(t, p), n) <= View(t, p).qty
        BY <3>3, GrantTyped
      <4> QED
        BY <3>3, <4>1 DEF FitsDraft
    <3>5. CASE GrantStatement(t)
      <4>1. PICK i \in 1..Len(running[t].lines) :
              LET p == running[t].lines[i]
                  c == Grant(View(t, p), "STOCK", running[t].doc, running[t].qty[p])
                  s == Rest(Program(running[t]), k + 1)
              IN  /\ p \in Product /\ running[t].qty[p] \in Nat
                  /\ c \in IntCell /\ s \in Seq(Statement) /\ Writes(t, p, c, s)
        BY <3>2, <3>5, GrantStep
      <4>2. running[t].doc \in Order
        BY <3>2, <3>5, GrantStep
      <4> QED
        BY <1>0, <3>4, <4>1, <4>2, FitsWrite, SourceRows
    <3>6. CASE Move(t)
      <4>1. PICK i \in 1..Len(running[t].lines), pre2 \in Inserts :
              LET p == running[t].lines[i]
                  n == IF running[t].kind = "arrive" THEN running[t].qty[p] ELSE - running[t].qty[p]
                  c == [View(t, p) EXCEPT !.qty = @ + n]
                  s == pre2 \o Rest(Program(running[t]), k + 1)
              IN  /\ p \in Product /\ n \in Int /\ cellOwner[p] # t
                  /\ c \in IntCell /\ s \in Seq(Statement) /\ Writes(t, p, c, s)
        BY <3>2, <3>6, MoveStep
      <4> DEFINE p == running[t].lines[i]
                 n == IF running[t].kind = "arrive" THEN running[t].qty[p] ELSE - running[t].qty[p]
                 c == [View(t, p) EXCEPT !.qty = @ + n]
      <4>2. p \in Product /\ n \in Int /\ cellOwner[p] # t /\ View(t, p) \in IntCell /\ View(t, p) = cell[p]
        BY <3>3, <4>1
      <4>3. c.reserved = cell[p].reserved
        BY <4>2, MovedTyped
      <4>4. FitsDraft(cell[p], c)
        BY <3>3, <4>2, <4>3 DEF FitsDraft
      <4> QED
        BY <1>0, <4>1, <4>4, FitsWrite
    <3>7. CASE TopUpTurn(t)
      <4> DEFINE p == running[t].lines[k]
      <4>1. p \in Product
        BY <3>2, <3>7, TurnStep
      <4>2. PICK S \in (SUBSET Order) \ {{}}, n \in Int, o \in Order, want \in Int, pre2 \in Inserts :
              TurnOf(t, k, pre, S, n, o, want, pre2)
        BY <3>2, <3>7, TurnStep
      <4>3. PICK s \in Seq(Statement) :
              /\ Grant(View(t, p), "PURCHASE", o, want) \in IntCell
              /\ Writes(t, p, Grant(View(t, p), "PURCHASE", o, want), s)
        BY <4>2 DEF TurnOf
      <4> HIDE DEF p
      <4> QED
        BY <1>0, <3>4, <4>1, <4>3, FitsWrite, SourceRows
    <3>8. CASE WriteHold(t)
      <4>1. PICK p \in Product, src \in Source, a \in Nat \ {0}, pre2 \in Inserts :
              LET c == Shortened(t, View(t, p), src, a)
                  s == pre2 \o Rest(Program(running[t]), k)
              IN  c \in IntCell /\ s \in Seq(Statement) /\ Writes(t, p, c, s)
        BY <3>2, <3>8, HoldStep
      <4>2. OrderOfRequest(running[t]) \in Order
        BY <3>2, <3>8, HoldStep
      <4> DEFINE c == Shortened(t, View(t, p), src, a)
      <4>3. c.qty = View(t, p).qty /\ c.reserved = NonNegative(View(t, p).reserved - a)
        BY <3>3, <4>2, UnheldTyped DEF Shortened
      <4> HIDE DEF c
      <4>4. c.reserved <= View(t, p).reserved /\ c.reserved \in Nat
        BY <3>3, <4>3 DEF NonNegative
      <4>5. FitsDraft(cell[p], c)
        BY <3>3, <4>3, <4>4 DEF FitsDraft
      <4> QED
        BY <1>0, <4>1, <4>5, FitsWrite DEF c
    <3> QED
      BY <2>4, <3>5, <3>6, <3>7, <3>8
  <2> QED
    BY <1>2, <2>1, <2>2, <2>3, <2>4, ReadStockSettlesNothing DEF Statements
<1> QED
  BY <1>2, <1>3, ReadStockSettlesNothing

(***************************************************************************)
(* GrantsFitCommitted: whatever runs at the same time, a transaction that  *)
(* leaves more of a row reserved than it found leaves no more reserved     *)
(* than there is (stock-reservation.service.ts:53).  A transaction writes  *)
(* the row as it is under its lock; only a grant raises the total.         *)
(***************************************************************************)
THEOREM GrantsFitTheRow == Spec => GrantsFitCommitted
<1> DEFINE Fitting == \A p \in Product :
             cell'[p].reserved > cell[p].reserved => cell'[p].reserved <= cell'[p].qty
<1>1. Init => Fits
  <2> SUFFICES ASSUME Init PROVE Fits
    OBVIOUS
  <2>1. TransactionsTypeOK /\ draft = cell
    BY InOrderInit DEF InOrder, Init
  <2>2. \A p \in Product : cell[p].reserved \in Nat
    BY <2>1 DEF TransactionsTypeOK, IntCell
  <2> QED
    BY <2>1, <2>2 DEF Fits, FitsDraft
<1>2. ASSUME InOrder, Fits, [Next]_vars PROVE Fitting \/ UNCHANGED vars
  <2>0. TransactionsTypeOK
    BY <1>2 DEF InOrder
  <2>1. \A p \in Product : cell[p].reserved \in Nat
    BY <2>0 DEF TransactionsTypeOK, IntCell
  <2>2. ASSUME cell' = cell PROVE Fitting
    BY <2>1, <2>2
  <2>3. SUFFICES ASSUME Next PROVE Fitting
    BY <1>2
  <2>4. PICK t \in Tx : Begin(t) \/ Statements(t) \/ BreakDeadlock(t) \/ Fail(t)
    BY <2>3 DEF Next
  <2>5. CASE Commit(t)
    <3>1. cell' = [p \in Product |-> IF cellOwner[p] = t THEN draft[p] ELSE cell[p]]
      BY <2>5 DEF Commit, View
    <3> QED
      BY <1>2, <2>1, <3>1 DEF Fits, FitsDraft
  <2>6. CASE ~ Commit(t)
    <3>1. cell' = cell
      BY <2>4, <2>6 DEF Statements, Begin, GrantStatement, GrantTooSmall, Move, TopUpTurn, ReadStock, rows, Check, CheckFails,
           ListHolds, ReadRelease, ReadConsume, WriteHold, WriteStatus, BreakDeadlock, Fail,
           RollBack, Write, Read, Continue
    <3> QED
      BY <2>2, <3>1
  <2> QED
    BY <2>5, <2>6
<1>3. InOrder /\ Fits /\ [Next]_vars => [Fitting]_vars
  BY <1>2
<1>4. Spec => [][Fitting]_vars
  BY <1>1, <1>3, FitsStep, InOrderInit, InOrderStep, PTL DEF Spec
<1> QED
  BY <1>4 DEF GrantsFitCommitted

-----------------------------------------------------------------------------
(* The committed totals. *)

LEMMA GoodIsTyped ==
  ASSUME NEW c, GoodCell(c)
  PROVE  c \in Cell /\ c \in IntCell /\ \A s \in Source, o \in Order : c.hold[s][o] \in Nat
BY DEF GoodCell, Cell, IntCell

\* The UPDATEs do what release and consume promise if the hold is there.
LEMMA EndsWhatIsThere ==
  ASSUME NEW c, GoodCell(c), NEW s \in Source, NEW o \in Order, NEW n \in Nat, n <= c.hold[s][o]
  PROVE  Unheld(c, s, o, n) = Release(c, s, o, n) /\ Used(c, s, o, n) = Consume(c, s, o, n)
<1>1. c \in IntCell /\ c.hold[s][o] \in Nat
  BY GoodIsTyped
<1>2. Released(c, s, o, n) = n
  BY <1>1 DEF Released, NonNegative, Least
<1>3. Unheld(c, s, o, n) = Release(c, s, o, n)
  <2>1. Unheld(c, s, o, n) = [qty |-> c.qty, reserved |-> NonNegative(c.reserved - n),
                              hold |-> Adjusted(c.hold, s, o, - n), consumed |-> c.consumed]
    BY <1>1, UnheldTyped
  <2> QED
    BY <1>2, <2>1 DEF Release
<1> QED
  BY <1>2, <1>3 DEF Used, Consume

\* What is written into the row of p goes on counting the holds right.
SoundCell(t, p, c) ==
  /\ GoodCell(c)
  /\ \A s \in Source, o \in Order :
       o # Ends(running[t]) => cell[p].hold[s][o] <= c.hold[s][o]

LEMMA SoundView ==
  ASSUME InOrder, Sound, NEW t \in Tx, NEW p \in Product
  PROVE  SoundCell(t, p, View(t, p)) /\ GoodCell(View(t, p))
<1>1. GoodCell(cell[p]) /\ (cellOwner[p] = t => SoundDraft(t, p))
  BY DEF Sound
<1>2. \A s \in Source, o \in Order : cell[p].hold[s][o] \in Nat
  BY <1>1, GoodIsTyped
<1> QED
  BY <1>1, <1>2 DEF SoundCell, SoundDraft, View

LEMMA SoundGrant ==
  ASSUME InOrder, Sound, NEW t \in Tx, NEW p \in Product,
         NEW s \in Source, NEW o \in Order, NEW n \in Int
  PROVE  SoundCell(t, p, Grant(View(t, p), s, o, n))
<1> DEFINE v == View(t, p)
           c == Grant(v, s, o, n)
<1>1. GoodCell(v) /\ SoundCell(t, p, v)
  BY SoundView
<1>2. GoodCell(c)
  BY <1>1, GrantGood
<1>3. v \in Cell /\ v.hold \in [Source -> [Order -> Nat]] /\ Granted(v, n) \in Nat
  BY <1>1, GrantedBounds DEF GoodCell, Cell
<1>4. c.hold = Adjusted(v.hold, s, o, Granted(v, n)) /\ v.hold[s][o] + Granted(v, n) \in Nat
  BY <1>3 DEF Grant
<1>5. ASSUME NEW z \in Source, NEW x \in Order PROVE v.hold[z][x] <= c.hold[z][x]
  <2>1. /\ c.hold[s][o] = v.hold[s][o] + Granted(v, n)
        /\ <<z, x>> # <<s, o>> => c.hold[z][x] = v.hold[z][x]
    BY <1>3, <1>4, AdjustedRows
  <2>2. v.hold[z][x] \in Nat
    BY <1>3
  <2> HIDE DEF v, c
  <2> QED
    BY <1>3, <2>1, <2>2
<1>6. ASSUME NEW z \in Source, NEW x \in Order
      PROVE  /\ cell[p].hold[z][x] \in Nat /\ v.hold[z][x] \in Nat /\ c.hold[z][x] \in Nat
  BY <1>1, <1>2, GoodIsTyped DEF Sound
<1> HIDE DEF v, c
<1>7. ASSUME NEW z \in Source, NEW x \in Order, x # Ends(running[t])
      PROVE  cell[p].hold[z][x] <= c.hold[z][x]
  <2>1. cell[p].hold[z][x] <= v.hold[z][x] /\ v.hold[z][x] <= c.hold[z][x]
    BY <1>1, <1>5, <1>7 DEF SoundCell
  <2> QED
    BY <1>6, <2>1
<1> QED
  BY <1>2, <1>7 DEF SoundCell, c, v

LEMMA SoundMove ==
  ASSUME InOrder, Sound, NEW t \in Tx, NEW p \in Product, NEW n \in Int
  PROVE  SoundCell(t, p, [View(t, p) EXCEPT !.qty = @ + n])
<1> DEFINE v == View(t, p)
           c == [v EXCEPT !.qty = @ + n]
<1>1. GoodCell(v) /\ SoundCell(t, p, v)
  BY SoundView
<1>2. v \in Cell
  BY <1>1 DEF GoodCell
<1> HIDE DEF v
<1>3. c \in Cell /\ c.hold = v.hold /\ c.reserved = v.reserved
  BY <1>2 DEF Cell
<1> HIDE DEF c
<1>4. GoodCell(c)
  BY <1>1, <1>3 DEF GoodCell, Matched, Held
<1>5. SoundCell(t, p, c)
  BY <1>1, <1>3, <1>4 DEF SoundCell
<1> QED
  BY <1>5 DEF c, v

LEMMA SoundShortened ==
  ASSUME InOrder, Sound, NEW t \in Tx, NEW p \in Product, running[t] \in Request,
         running[t].kind \in {"start", "cancel"},
         NEW s \in Source, NEW n \in Nat, n <= View(t, p).hold[s][OrderOfRequest(running[t])]
  PROVE  SoundCell(t, p, Shortened(t, View(t, p), s, n))
<1> DEFINE v == View(t, p)
           o == OrderOfRequest(running[t])
           c == Shortened(t, v, s, n)
<1>1. GoodCell(v) /\ SoundCell(t, p, v) /\ o \in Order
  BY SoundView, OrderOfTyped
<1>2. v \in Cell /\ v.hold \in [Source -> [Order -> Nat]] /\ v \in IntCell
  BY <1>1, GoodIsTyped DEF GoodCell, Cell
<1>3. GoodCell(c)
  <2>1. /\ Unheld(v, s, o, n) = Release(v, s, o, n)
        /\ Used(v, s, o, n) = Consume(v, s, o, n)
    BY <1>1, EndsWhatIsThere
  <2>2. GoodCell(Release(v, s, o, n)) /\ GoodCell(Consume(v, s, o, n))
    BY <1>1, ReleaseGood, ConsumeGood
  <2> QED
    BY <2>1, <2>2 DEF Shortened
<1>4. c.hold = Adjusted(v.hold, s, o, - n)
  BY <1>1, <1>2, UnheldTyped DEF Shortened
<1>5. o = Ends(running[t])
  BY DEF Ends
<1>6. ASSUME NEW z \in Source, NEW x \in Order, x # o
      PROVE  c.hold[z][x] = v.hold[z][x]
  <2>1. v.hold[s][o] \in Nat /\ n <= v.hold[s][o]
    BY <1>1, <1>2
  <2>2. v.hold[s][o] + (- n) \in Nat
    <3> HIDE DEF v, o
    <3> QED
      BY <2>1
  <2>3. <<z, x>> # <<s, o>>
    BY <1>6
  <2> QED
    BY <1>1, <1>2, <1>4, <2>2, <2>3, AdjustedRows
<1> HIDE DEF c, v, o
<1>7. SoundCell(t, p, c)
  BY <1>1, <1>3, <1>5, <1>6 DEF SoundCell
<1> QED
  BY <1>7 DEF c, v, o

LEMMA CanEndBackedNow == \A t, k, pre : OnWay(t, k, pre) => (CanEnd(t) <=> Backed(t, pre))
BY CanEndBacked

LEMMA CanEndBackedNext == (\A t, k, pre : OnWay(t, k, pre) => (CanEnd(t) <=> Backed(t, pre)))'
BY CanEndBackedNow, PTL

LEMMA CanEndNext ==
  ASSUME NEW t \in Tx, TransactionsTypeOK', running[t] \in Request, running' = running,
         NEW k \in 0..Len(Program(running[t])), NEW pre \in Inserts, Progress(t, k, pre)'
  PROVE  /\ CanEnd(t)' <=> Backed(t, pre)'
         /\ (pre # <<>> => pre[1].op \notin {"unhold", "use"}) => CanEnd(t)'
<1>1. OnWay(t, k, pre)'
  BY DEF OnWay
<1>2. CanEnd(t)' <=> Backed(t, pre)'
  BY <1>1, CanEndBackedNext
<1>3. (pre # <<>> => pre[1].op \notin {"unhold", "use"}) => Backed(t, pre)'
  BY DEF Backed
<1> QED
  BY <1>2, <1>3

\* The statement that comes next takes something off a hold.
LEMMA AtHold ==
  ASSUME InOrder, NEW u \in Tx, At(u, {"unhold", "use"})
  PROVE  LET r == running[u]
             st == Head(todo[u])
         IN  /\ r \in Request /\ r.kind \in {"start", "cancel"} /\ OrderOfRequest(r) \in Order
             /\ st.product \in Product /\ st.source \in Source /\ st.n \in Nat \ {0}
             /\ r.kind = "cancel" => OrderOfRequest(r) = r.doc
             /\ r.kind = "start" => cellOwner[st.product] = u
<1> DEFINE r == running[u]
           st == Head(todo[u])
<1>1. PICK k, pre : OnWay(u, k, pre)
  BY Working DEF At
<1> USE <1>1 DEF OnWay
<1>2. CASE st.op = "unhold"
  <2>1. At(u, {"unhold"})
    BY <1>2 DEF At
  <2>2. r.kind = "cancel"
    BY <2>1, AtUnhold
  <2>4. PICK p \in Product, s \in Source, a \in Nat \ {0} :
          /\ st = Stmt("unhold", p, s, a)
          /\ \/ pre = <<Stmt("unhold", p, s, a)>> /\ Tail(todo[u]) = Rest(Program(r), 1)
             \/ \E R \in SUBSET Row :
                  /\ pre = <<Stmt("unhold", p, s, a), Releases(R)>>
                  /\ Tail(todo[u]) = <<Releases(R)>> \o Rest(Program(r), 1)
    BY <2>1, AtUnhold
  <2>3. OrderOfRequest(r) \in Order /\ OrderOfRequest(r) = r.doc
    BY <2>2, OrderOfTyped
  <2> QED
    BY <2>2, <2>3, <2>4, Ops
<1>3. CASE st.op = "use"
  <2>1. At(u, {"use"})
    BY <1>3 DEF At
  <2>2. r.kind = "start"
    BY <2>1, AtEnding
  <2>3. PICK i \in 1..Len(r.lines), a \in Nat \ {0}, s \in Source : EndingAt(u, k, pre, "use", i, s, a)
    BY <2>1, AtEnding
  <2>4. k = Len(r.lines) + i /\ st = Stmt("use", r.lines[i], s, a)
    BY <2>3 DEF EndingAt
  <2>5. OrderOfRequest(r) \in Order
    BY <2>2, OrderOfTyped
  <2>6. r.lines[i] \in Product /\ DOMAIN r.lines = 1..Len(r.lines) /\ Len(r.lines) \in Nat
    BY RequestLines
  <2>7. Passed(r, k, r.lines[i])
    BY <2>2, <2>4, <2>6 DEF Passed, Shift
  <2>8. cellOwner[r.lines[i]] = u
    BY <2>2, <2>6, <2>7 DEF Progress
  <2> QED
    BY SMTT(30), <2>2, <2>4, <2>5, <2>6, <2>8, Ops
<1> QED
  BY <1>2, <1>3 DEF At

LEMMA EndsApart ==
  ASSUME InOrder, HoldsEndedOnce, NEW t \in Tx, NEW u \in Tx, t # u, running[t] # None,
         At(u, {"unhold", "use"}), cellOwner[Head(todo[u]).product] # u
  PROVE  OrderOfRequest(running[u]) # Ends(running[t])
<1>1. SUFFICES ASSUME OrderOfRequest(running[u]) = Ends(running[t]) PROVE FALSE
  OBVIOUS
<1>2. /\ running[u] \in Request /\ running[u].kind = "cancel"
      /\ OrderOfRequest(running[u]) \in Order /\ OrderOfRequest(running[u]) = running[u].doc
  BY AtHold
<1>3. NoOrder \notin Order
  BY OrderRows DEF NoOrder
<1>4. running[t].kind \in {"start", "cancel"} /\ Ends(running[t]) = OrderOfRequest(running[t])
  BY <1>1, <1>2, <1>3 DEF Ends
<1>5. EndTheSameHolds(running[u], running[t])
  BY <1>1, <1>2, <1>4 DEF EndTheSameHolds
<1>6. running[u] # None
  BY <1>2, NotNone
<1> QED
  BY <1>5, <1>6 DEF HoldsEndedOnce

LEMMA CanEndKept ==
  ASSUME InOrder, Sound, NEW u \in Tx, running'[u] = running[u], todo'[u] = todo[u],
         \A p \in Product : View(u, p)' = View(u, p)
  PROVE  CanEnd(u)'
<1> DEFINE st == Head(todo[u])
           o == OrderOfRequest(running[u])
<1>1. PICK p : p = st.product
  OBVIOUS
<1>2. SUFFICES ASSUME At(u, {"unhold", "use"}) PROVE st.n <= View(u, p)'.hold[st.source][o]
  BY <1>1 DEF CanEnd, At
<1>3. p \in Product
  BY <1>1, <1>2, AtHold
<1>4. st.n <= View(u, p).hold[st.source][o]
  BY <1>1, <1>2 DEF Sound, CanEnd
<1>5. View(u, p)' = View(u, p)
  BY <1>3
<1> HIDE DEF st, o
<1> QED
  BY <1>4, <1>5

LEMMA SoundRollBack ==
  ASSUME InOrder, Sound, NEW t \in Tx, RollBack(t)
  PROVE  Sound'
<1>1. /\ TransactionsTypeOK' /\ Idle(t)' /\ cell' = cell /\ status' = status
      /\ \A u \in Tx \ {t} : Undisturbed(u)
  BY RollBackStep DEF InOrder
<1>2. \A u \in Tx : (CanEnd(u) /\ \A p \in Product : cellOwner[p] = u => SoundDraft(u, p))'
  <2>1. CanEnd(t)' /\ \A p \in Product : cellOwner'[p] # t
    BY <1>1 DEF Idle, CanEnd, At
  <2>2. ASSUME NEW u \in Tx \ {t}
        PROVE  (CanEnd(u) /\ \A p \in Product : cellOwner[p] = u => SoundDraft(u, p))'
    <3>1. \A p \in Product : View(u, p)' = View(u, p)
      BY <1>1 DEF Undisturbed, View
    <3>2. At(u, {"unhold", "use"})' = At(u, {"unhold", "use"}) /\ running'[u] = running[u] /\ todo'[u] = todo[u]
      BY <1>1 DEF Undisturbed, At
    <3>3. CanEnd(u)'
      BY <3>1, <3>2, CanEndKept
    <3>4. ASSUME NEW p \in Product, cellOwner'[p] = u PROVE SoundDraft(u, p)'
      <4>1. draft'[p] = draft[p] /\ cell'[p] = cell[p] /\ SoundDraft(u, p)
        BY <1>1, <3>4 DEF Undisturbed, Sound
      <4> QED
        BY <3>2, <4>1 DEF SoundDraft
    <3> QED
      BY <3>3, <3>4
  <2> QED
    BY <2>1, <2>2
<1> QED
  BY <1>1, <1>2 DEF Sound

LEMMA SoundCommit ==
  ASSUME InOrder, Sound, HoldsEndedOnce, NEW t \in Tx, Commit(t)
  PROVE  Sound'
<1>1. /\ TransactionsTypeOK' /\ Idle(t)' /\ \A u \in Tx \ {t} : Undisturbed(u)
      /\ cell' = [p \in Product |-> IF cellOwner[p] = t THEN draft[p] ELSE cell[p]]
      /\ running[t] # None
  BY CommitStep DEF InOrder
<1>2. \A p \in Product : GoodCell(cell'[p])
  BY <1>1 DEF Sound, SoundDraft
<1>3. CanEnd(t)' /\ \A p \in Product : cellOwner'[p] # t
  BY <1>1 DEF Idle, CanEnd, At
<1>4. ASSUME NEW u \in Tx \ {t}
      PROVE  (CanEnd(u) /\ \A p \in Product : cellOwner[p] = u => SoundDraft(u, p))'
  <2>1. At(u, {"unhold", "use"})' = At(u, {"unhold", "use"}) /\ running'[u] = running[u] /\ todo'[u] = todo[u]
    BY <1>1 DEF Undisturbed, At
  <2>2. CanEnd(u)'
    <3> DEFINE st == Head(todo[u])
               p == st.product
               o == OrderOfRequest(running[u])
    <3>1. SUFFICES ASSUME At(u, {"unhold", "use"})
                   PROVE  st.n <= View(u, p)'.hold[st.source][o]
      BY <2>1 DEF CanEnd
    <3>2. p \in Product /\ st.source \in Source /\ st.n \in Nat \ {0} /\ o \in Order
      BY <3>1, AtHold
    <3>3. st.n <= View(u, p).hold[st.source][o]
      BY <3>1 DEF Sound, CanEnd
    <3>4. CASE cellOwner[p] = u
      <4>1. View(u, p)' = View(u, p)
        BY <1>1, <3>2, <3>4 DEF Undisturbed, View
      <4> HIDE DEF st, p, o
      <4> QED
        BY <3>3, <4>1
    <3>5. CASE cellOwner[p] = t
      <4>1. View(u, p) = cell[p] /\ View(u, p)' = draft[p]
        BY <1>1, <3>2, <3>5 DEF Undisturbed, View
      <4>2. o # Ends(running[t])
        BY <1>1, <3>1, <3>5, EndsApart
      <4>3. cell[p].hold[st.source][o] <= draft[p].hold[st.source][o]
        BY <3>2, <3>5, <4>2 DEF Sound, SoundDraft
      <4>4. cell[p].hold[st.source][o] \in Nat /\ draft[p].hold[st.source][o] \in Nat
        BY <3>2, <3>5, GoodIsTyped DEF Sound, SoundDraft
      <4> HIDE DEF st, p, o
      <4> QED
        BY <3>2, <3>3, <4>1, <4>3, <4>4
    <3>6. CASE cellOwner[p] \notin {t, u}
      <4>1. View(u, p) = cell[p] /\ View(u, p)' = cell[p]
        BY <1>1, <3>2, <3>6 DEF Undisturbed, View
      <4> QED
        BY <3>3, <4>1
    <3> QED
      BY <3>4, <3>5, <3>6
  <2>3. ASSUME NEW p \in Product, cellOwner'[p] = u PROVE SoundDraft(u, p)'
    <3>1. draft'[p] = draft[p] /\ cell'[p] = cell[p] /\ SoundDraft(u, p)
      BY <1>1, <2>3 DEF Undisturbed, Sound
    <3> QED
      BY <2>1, <3>1 DEF SoundDraft
  <2> QED
    BY <2>2, <2>3
<1> QED
  BY <1>2, <1>3, <1>4 DEF Sound


LEMMA SoundWrite ==
  ASSUME InOrder, Sound, NEW t \in Tx, NEW p \in Product, NEW c \in IntCell, NEW s \in Seq(Statement),
         Writes(t, p, c, s), SoundCell(t, p, c), CanEnd(t)'
  PROVE  Sound'
<1>1. /\ cellOwner[p] \in {None, t}
      /\ cellOwner' = [cellOwner EXCEPT ![p] = t] /\ draft' = [draft EXCEPT ![p] = c]
      /\ UNCHANGED <<cell, running>>
      /\ \A u \in Tx \ {t} : Undisturbed(u)
  BY WritesTyped DEF InOrder
<1>2. ASSUME NEW q \in Product, NEW u \in Tx, cellOwner'[q] = u PROVE SoundDraft(u, q)'
  <2>1. CASE q = p
    <3>1. u = t /\ draft'[q] = c
      BY <1>1, <1>2, <2>1 DEF InOrder, TransactionsTypeOK
    <3> QED
      BY <1>1, <2>1, <3>1 DEF SoundCell, SoundDraft
  <2>2. CASE q # p
    <3>1. cellOwner[q] = u /\ draft'[q] = draft[q]
      BY <1>1, <1>2, <2>2 DEF InOrder, TransactionsTypeOK
    <3>2. SoundDraft(u, q)
      BY <3>1 DEF Sound
    <3> QED
      BY <1>1, <3>1, <3>2 DEF SoundDraft
  <2> QED
    BY <2>1, <2>2
<1>3. ASSUME NEW u \in Tx \ {t} PROVE CanEnd(u)'
  <2>1. \A q \in Product : View(u, q)' = View(u, q)
    BY <1>1 DEF Undisturbed, View
  <2> QED
    BY <1>1, <2>1, CanEndKept DEF Undisturbed
<1> QED
  BY <1>1, <1>2, <1>3 DEF Sound

LEMMA SoundRead ==
  ASSUME InOrder, Sound, NEW t \in Tx, UNCHANGED <<cell, cellOwner, draft>>,
         \A u \in Tx \ {t} : Undisturbed(u), CanEnd(t)',
         running'[t] = running[t] \/ \A p \in Product : cellOwner[p] # t
  PROVE  Sound'
<1>1. ASSUME NEW q \in Product, NEW u \in Tx, cellOwner'[q] = u PROVE SoundDraft(u, q)'
  <2>1. SoundDraft(u, q) /\ running'[u] = running[u]
    BY <1>1 DEF Sound, Undisturbed
  <2> QED
    BY <2>1 DEF SoundDraft
<1>2. ASSUME NEW u \in Tx \ {t} PROVE CanEnd(u)'
  <2>1. \A q \in Product : View(u, q)' = View(u, q)
    BY DEF View
  <2> QED
    BY <2>1, CanEndKept DEF Undisturbed
<1> QED
  BY <1>1, <1>2 DEF Sound

LEMMA SoundWriteStep ==
  ASSUME InOrder, Sound, NEW t \in Tx, NEW k, NEW pre, OnWay(t, k, pre),
         NEW p \in Product, NEW c \in IntCell, NEW s \in Seq(Statement),
         Writes(t, p, c, s), SoundCell(t, p, c),
         NEW k2 \in 0..Len(Program(running[t])), NEW pre2 \in Inserts, Progress(t, k2, pre2)',
         pre2 # <<>> => pre2[1].op \notin {"unhold", "use"}
  PROVE  Sound'
<1>1. TransactionsTypeOK' /\ running' = running
  BY WritesTyped DEF InOrder
<1>2. CanEnd(t)'
  BY <1>1, CanEndNext DEF OnWay
<1> QED
  BY <1>2, SoundWrite

LEMMA SoundReadStep ==
  ASSUME InOrder, Sound, NEW t \in Tx, NEW k, NEW pre, OnWay(t, k, pre),
         NEW s \in Seq(Statement), Reads(t, s),
         NEW k2 \in 0..Len(Program(running[t])), NEW pre2 \in Inserts, Progress(t, k2, pre2)',
         Backed(t, pre2)
  PROVE  Sound'
<1>1. /\ TransactionsTypeOK' /\ running' = running /\ UNCHANGED <<cell, cellOwner, draft>>
      /\ \A u \in Tx \ {t} : Undisturbed(u)
  BY ReadsTyped DEF InOrder
<1>2. Backed(t, pre2)'
  BY <1>1 DEF Backed, View
<1>3. CanEnd(t)'
  BY <1>1, <1>2, CanEndNext DEF OnWay
<1> QED
  BY <1>1, <1>3, SoundRead

LEMMA MoveIsUnbacked ==
  ASSUME TransactionsTypeOK, NEW t \in Tx, NEW p \in Product, NEW n \in Int,
         running[t].kind = "start" => n <= 0,
         NEW pre, pre = AfterMove(t, p, n), pre # <<>>
  PROVE  pre[1].op \notin {"unhold", "use"}
<1>0. n > 0 => running[t].kind # "start"
  OBVIOUS
<1>1. CASE n > 0 /\ InProduction(t) # {}
  <2>1. pre = <<Turns(p, InProduction(t), n)>>
    BY <1>0, <1>1 DEF AfterMove
  <2> QED
    BY <2>1 DEF Turns
<1>2. CASE ~ (n > 0 /\ InProduction(t) # {})
  <2>1. pre = Closings(p, seen[t][p])
    BY <1>2 DEF AfterMove
  <2>2. seen[t][p] \in [Source -> Int]
    BY DEF TransactionsTypeOK
  <2>3. pre[1].op = "consume"
    BY <2>1, <2>2, ClosingsAre
  <2> QED
    BY <2>3
<1> QED
  BY <1>1, <1>2

LEMMA SoundStep == InOrder /\ Sound /\ HoldsEndedOnce /\ [Next]_vars => Sound'
<1> SUFFICES ASSUME InOrder, Sound, HoldsEndedOnce, [Next]_vars PROVE Sound'
  OBVIOUS
<1>0. TransactionsTypeOK
  BY DEF InOrder
<1>1. CASE UNCHANGED settled
  <2>1. \A u \in Tx : running'[u] = running[u] /\ todo'[u] = todo[u] /\ \A p \in Product : View(u, p)' = View(u, p)
    BY <1>1 DEF settled, rows, View
  <2>2. \A u \in Tx : CanEnd(u)'
    BY <2>1, CanEndKept
  <2> QED
    BY <1>1, <2>2 DEF Sound, SoundDraft, settled, rows
<1>2. CASE Next
  <2>1. PICK t \in Tx : Begin(t) \/ Statements(t) \/ BreakDeadlock(t) \/ Fail(t)
    BY <1>2 DEF Next
  <2>2. CASE Begin(t)
    <3>1. Idle(t)
      BY <2>2, NotNone DEF Begin, InOrder, AtWork
    <3>2. PICK r \in Request :
            /\ running' = [running EXCEPT ![t] = r]
            /\ UNCHANGED <<cell, status, cellOwner, docOwner, draft, draftStatus, seen>>
            /\ TransactionsTypeOK' /\ Progress(t, 0, <<>>)'
            /\ \A u \in Tx \ {t} : Undisturbed(u)
      BY <1>0, <2>2, <3>1, BeginStep
    <3>3. running'[t] = r /\ 0 \in 0..Len(Program(r)) /\ <<>> \in Inserts
      BY <1>0, <3>2, ProgramLength, EmptySeq DEF TransactionsTypeOK, Inserts
    <3>4. OnWay(t, 0, <<>>)'
      BY <3>2, <3>3 DEF OnWay
    <3>5. CanEnd(t)'
      BY <3>4, CanEndBackedNext DEF Backed
    <3> QED
      BY <3>1, <3>2, <3>5, SoundRead DEF Idle
  <2>3. CASE GrantTooSmall(t) \/ CheckFails(t) \/ BreakDeadlock(t) \/ Fail(t)
    BY <2>3, SoundRollBack DEF GrantTooSmall, CheckFails, BreakDeadlock, Fail
  <2>4. CASE Commit(t)
    BY <2>4, SoundCommit
  <2>5. CASE \/ GrantStatement(t) \/ Move(t) \/ TopUpTurn(t) \/ Check(t) \/ ListHolds(t)
             \/ ReadRelease(t) \/ ReadConsume(t) \/ WriteHold(t) \/ WriteStatus(t)
    <3>1. running[t] # None
      BY <2>5 DEF GrantStatement, Move, TopUpTurn, Check, ListHolds, ReadRelease, ReadConsume,
                  WriteHold, WriteStatus, At
    <3>2. PICK k, pre : OnWay(t, k, pre)
      BY <3>1, Working
    <3>3. /\ running[t] \in Request /\ k \in 0..Len(Program(running[t])) /\ k \in Nat
          /\ <<>> \in Inserts /\ Backed(t, <<>>)
      BY <3>2, ProgramLength, EmptySeq DEF OnWay, Inserts, Backed
    <3>4. CASE GrantStatement(t)
      <4>1. PICK i \in 1..Len(running[t].lines) :
              LET p == running[t].lines[i]
                  c == Grant(View(t, p), "STOCK", running[t].doc, running[t].qty[p])
                  s == Rest(Program(running[t]), k + 1)
              IN  /\ p \in Product /\ running[t].qty[p] \in Nat
                  /\ c \in IntCell /\ s \in Seq(Statement) /\ Writes(t, p, c, s)
                  /\ k + 1 \in 0..Len(Program(running[t])) /\ Progress(t, k + 1, <<>>)'
        BY <3>2, <3>4, GrantStep
      <4> DEFINE p == running[t].lines[i]
                 c == Grant(View(t, p), "STOCK", running[t].doc, running[t].qty[p])
                 s == Rest(Program(running[t]), k + 1)
      <4>2. running[t].doc \in Order
        BY <3>2, <3>4, GrantStep
      <4>3. SoundCell(t, p, c)
        BY <4>1, <4>2, SoundGrant, SourceRows
      <4> QED
        BY <3>2, <3>3, <4>1, <4>3, SoundWriteStep
    <3>5. CASE Move(t)
      <4>1. PICK i \in 1..Len(running[t].lines), pre2 \in Inserts :
              LET p == running[t].lines[i]
                  n == IF running[t].kind = "arrive" THEN running[t].qty[p] ELSE - running[t].qty[p]
                  c == [View(t, p) EXCEPT !.qty = @ + n]
                  s == pre2 \o Rest(Program(running[t]), k + 1)
              IN  /\ p \in Product /\ running[t].qty[p] \in Nat /\ n \in Int /\ pre2 = AfterMove(t, p, n)
                  /\ c \in IntCell /\ s \in Seq(Statement) /\ Writes(t, p, c, s)
                  /\ k + 1 \in 0..Len(Program(running[t])) /\ Progress(t, k + 1, pre2)'
        BY <3>2, <3>5, MoveStep
      <4> DEFINE p == running[t].lines[i]
                 n == IF running[t].kind = "arrive" THEN running[t].qty[p] ELSE - running[t].qty[p]
                 c == [View(t, p) EXCEPT !.qty = @ + n]
                 s == pre2 \o Rest(Program(running[t]), k + 1)
      <4>2. /\ p \in Product /\ n \in Int /\ pre2 = AfterMove(t, p, n)
            /\ c \in IntCell /\ s \in Seq(Statement) /\ Writes(t, p, c, s)
            /\ k + 1 \in 0..Len(Program(running[t])) /\ Progress(t, k + 1, pre2)'
        BY <4>1
      <4>5. running[t].kind = "start" => n <= 0
        <5>1. running[t].qty[p] \in Nat
          BY <4>1
        <5> QED
          BY ONLY <5>1
      <4> HIDE DEF n
      <4>3. SoundCell(t, p, c)
        BY <4>2, SoundMove
      <4>4. pre2 # <<>> => pre2[1].op \notin {"unhold", "use"}
        BY <1>0, <4>2, <4>5, MoveIsUnbacked
      <4> HIDE DEF p, c, s
      <4> QED
        BY <3>2, <4>2, <4>3, <4>4, SoundWriteStep
    <3>6. CASE TopUpTurn(t)
      <4> DEFINE p == running[t].lines[k]
      <4>1. p \in Product
        BY <3>2, <3>6, TurnStep
      <4>2. PICK S \in (SUBSET Order) \ {{}}, n \in Int, o \in Order, want \in Int, pre2 \in Inserts :
              TurnOf(t, k, pre, S, n, o, want, pre2)
        BY <3>2, <3>6, TurnStep
      <4> DEFINE c == Grant(View(t, p), "PURCHASE", o, want)
                 s == pre2 \o Rest(Program(running[t]), k)
      <4>3. /\ c \in IntCell /\ s \in Seq(Statement) /\ Writes(t, p, c, s) /\ Progress(t, k, pre2)'
            /\ pre2 = IF S \ {o} = {} THEN <<>> ELSE <<Turns(p, S \ {o}, n - Granted(View(t, p), want))>>
        BY <4>2 DEF TurnOf
      <4>4. pre2 # <<>> => pre2[1].op \notin {"unhold", "use"}
        BY <4>3 DEF Turns
      <4>5. SoundCell(t, p, c)
        BY <4>1, SoundGrant, SourceRows
      <4> HIDE DEF p, c, s
      <4> QED
        BY <3>2, <3>3, <4>1, <4>3, <4>4, <4>5, SoundWriteStep
    <3>7. CASE Check(t)
      <4>1. PICK s \in Seq(Statement) :
              Reads(t, s) /\ k + 1 \in 0..Len(Program(running[t])) /\ Progress(t, k + 1, <<>>)'
        BY <3>2, <3>7, CheckStep
      <4> QED
        BY <3>2, <3>3, <4>1, SoundReadStep
    <3>8. CASE ListHolds(t)
      <4>1. PICK s \in Seq(Statement), pre2 \in Inserts :
              Backed(t, pre2) /\ Reads(t, s) /\ 1 \in 0..Len(Program(running[t])) /\ Progress(t, 1, pre2)'
        BY <3>2, <3>8, ListStep
      <4> QED
        BY <3>2, <4>1, SoundReadStep
    <3>9. CASE ReadRelease(t)
      <4>1. PICK s \in Seq(Statement), pre2 \in Inserts :
              k = 1 /\ Backed(t, pre2) /\ Reads(t, s) /\ Progress(t, 1, pre2)'
        BY <3>2, <3>9, ReleaseStep
      <4> QED
        BY <3>2, <3>3, <4>1, SoundReadStep
    <3>10. CASE ReadConsume(t)
      <4>1. PICK s \in Seq(Statement), pre2 \in Inserts :
              Backed(t, pre2) /\ Reads(t, s) /\ Progress(t, k, pre2)'
        BY <3>2, <3>10, ConsumeReadStep
      <4> QED
        BY <3>2, <3>3, <4>1, SoundReadStep
    <3>11. CASE WriteHold(t)
      <4>1. PICK p \in Product, src \in Source, a \in Nat \ {0}, pre2 \in Inserts :
              LET c == Shortened(t, View(t, p), src, a)
                  s == pre2 \o Rest(Program(running[t]), k)
              IN  /\ Head(todo[t]).product = p /\ Head(todo[t]).source = src
                  /\ Head(todo[t]).n = a /\ At(t, {"unhold", "use"})
                  /\ pre2 # <<>> => pre2[1].op \notin {"unhold", "use"}
                  /\ c \in IntCell /\ s \in Seq(Statement) /\ Writes(t, p, c, s)
                  /\ Progress(t, k, pre2)'
        BY <3>2, <3>11, HoldStep
      <4> DEFINE c == Shortened(t, View(t, p), src, a)
                 s == pre2 \o Rest(Program(running[t]), k)
      <4>2. running[t].kind \in {"start", "cancel"}
        BY <3>2, <3>11, HoldStep
      <4>3. a <= View(t, p).hold[src][OrderOfRequest(running[t])]
        BY <4>1 DEF Sound, CanEnd
      <4>4. SoundCell(t, p, c)
        BY <3>3, <4>2, <4>3, SoundShortened
      <4> HIDE DEF c, s
      <4> QED
        BY <3>2, <3>3, <4>1, <4>4, SoundWriteStep DEF c, s
    <3>12. CASE WriteStatus(t)
      <4>1. /\ k + 1 \in 0..Len(Program(running[t])) /\ running' = running
            /\ UNCHANGED <<cell, cellOwner, draft>>
            /\ TransactionsTypeOK' /\ Progress(t, k + 1, <<>>)'
            /\ \A u \in Tx \ {t} : Undisturbed(u)
        BY <3>2, <3>12, StatusStep
      <4>2. CanEnd(t)'
        BY <3>3, <4>1, CanEndNext
      <4> QED
        BY <4>1, <4>2, SoundRead
    <3> QED
      BY <2>5, <3>4, <3>5, <3>6, <3>7, <3>8, <3>9, <3>10, <3>11, <3>12
  <2> QED
    BY <1>1, <2>1, <2>2, <2>3, <2>4, <2>5, ReadStockSettlesNothing DEF Statements
<1> QED
  BY <1>1, <1>2, ReadStockSettlesNothing

LEMMA EmptyCellGood ==
  ASSUME NEW n \in Int
  PROVE  GoodCell([EmptyCell EXCEPT !.qty = n])
<1> DEFINE c == [EmptyCell EXCEPT !.qty = n]
           none == [o \in Order |-> 0]
<1>1. EmptyCell \in Cell
  BY DEF EmptyCell, Cell
<1>2. c \in Cell /\ c.reserved = EmptyCell.reserved /\ c.hold = EmptyCell.hold
  BY <1>1 DEF Cell
<1>3. c.reserved = 0 /\ \A s \in Source, o \in Order : c.hold[s][o] = 0
  BY <1>2 DEF EmptyCell
<1> HIDE DEF c
<1>4. [o \in Order |-> Held(c, o)] = none
  <2>1. \A o \in Order : Held(c, o) = 0
    BY <1>3, SourceRows DEF Held
  <2> QED
    BY <2>1
<1>5. Total(none, NumOrders) = 0
  <2>1. none \in [1..NumOrders -> Int] /\ \A i \in 1..NumOrders : none[i] = 0
    BY OrderRows
  <2> HIDE DEF none
  <2> QED
    BY <2>1, OrderRows, TotalZero
<1> QED
  BY <1>2, <1>3, <1>4, <1>5 DEF GoodCell, Matched, c

LEMMA SoundInit == Init => Sound
<1> SUFFICES ASSUME Init PROVE Sound
  OBVIOUS
<1>1. \A p \in Product : Supply[p] \in Int
  BY TransactionsAssumption
<1>2. \A p \in Product : GoodCell(cell[p])
  BY <1>1, EmptyCellGood DEF Init
<1>3. \A t \in Tx : running[t] = None /\ \A p \in Product : cellOwner[p] # t
  BY NotNone DEF Init
<1> QED
  BY <1>2, <1>3 DEF Sound, CanEnd, At

(***************************************************************************)
(* CommittedTotalsMatch: as long as no two transactions end the same hold  *)
(* at the same time, the committed reservedQty of a row is the sum of the  *)
(* committed reservations, none of them negative.  The UPDATE of release   *)
(* and consume subtracts an amount that was read before the lock; it is    *)
(* right because nobody else can lower that hold in between.               *)
(***************************************************************************)
THEOREM CommittedTotals == Spec /\ []HoldsEndedOnce => []CommittedTotalsMatch
<1>1. Sound => CommittedTotalsMatch
  <2> SUFFICES ASSUME Sound, NEW p \in Product
               PROVE  /\ cell[p].reserved = Total([o \in Order |-> Held(cell[p], o)], NumOrders)
                      /\ \A s \in Source, o \in Order : cell[p].hold[s][o] >= 0
    BY DEF CommittedTotalsMatch
  <2>1. GoodCell(cell[p])
    BY DEF Sound
  <2>2. \A s \in Source, o \in Order : cell[p].hold[s][o] \in Nat
    BY <2>1, GoodIsTyped
  <2> QED
    BY <2>1, <2>2 DEF GoodCell, Matched
<1> QED
  BY <1>1, InOrderInit, InOrderStep, SoundInit, SoundStep, PTL DEF Spec

-----------------------------------------------------------------------------
(* Requests that do not clash. *)

\* A request runs once.
RunsOnce ==
  \A t \in Tx : running[t] # None =>
    /\ running[t] \in Request \ waiting
    /\ \A u \in Tx : running[u] = running[t] => u = t

LEMMA RunsOnceStep == InOrder /\ RunsOnce /\ [Next]_vars => RunsOnce'
<1> SUFFICES ASSUME InOrder, RunsOnce, [Next]_vars PROVE RunsOnce'
  OBVIOUS
<1>0. running \in [Tx -> Request \cup {None}] /\ waiting \subseteq Request
  BY DEF InOrder, TransactionsTypeOK
<1>1. CASE UNCHANGED <<running, waiting>>
  BY <1>1 DEF RunsOnce
<1>2. ASSUME NEW t \in Tx, running' = [running EXCEPT ![t] = None], waiting' = waiting PROVE RunsOnce'
  BY <1>0, <1>2 DEF RunsOnce
<1>3. ASSUME NEW t \in Tx, Begin(t) PROVE RunsOnce'
  <2>1. PICK r \in waiting : running' = [running EXCEPT ![t] = r] /\ waiting' = waiting \ {r}
    BY <1>3 DEF Begin
  <2>2. r \in Request /\ r # None
    BY <1>0, <2>1, NotNone
  <2> QED
    BY <1>0, <2>1, <2>2 DEF RunsOnce
<1>4. CASE UNCHANGED settled
  BY <1>1, <1>4 DEF settled
<1>5. CASE Next
  <2>1. PICK t \in Tx : Begin(t) \/ Statements(t) \/ BreakDeadlock(t) \/ Fail(t)
    BY <1>5 DEF Next
  <2>2. CASE GrantTooSmall(t) \/ CheckFails(t) \/ BreakDeadlock(t) \/ Fail(t) \/ Commit(t)
    <3>1. running' = [running EXCEPT ![t] = None] /\ waiting' = waiting
      BY <2>2 DEF GrantTooSmall, CheckFails, BreakDeadlock, Fail, Commit, RollBack, EmptyHanded
    <3> QED
      BY <1>2, <3>1
  <2>3. CASE \/ GrantStatement(t) \/ Move(t) \/ TopUpTurn(t) \/ Check(t) \/ ListHolds(t)
             \/ ReadRelease(t) \/ ReadConsume(t) \/ WriteHold(t) \/ WriteStatus(t)
    <3>1. UNCHANGED <<running, waiting>>
      BY <2>3 DEF GrantStatement, Move, TopUpTurn, Check, ListHolds, ReadRelease, ReadConsume, WriteHold,
                  WriteStatus, Write, Read, Continue
    <3> QED
      BY <1>1, <3>1
  <2> QED
    BY <1>3, <1>4, <2>1, <2>2, <2>3, ReadStockSettlesNothing DEF Statements
<1> QED
  BY <1>4, <1>5, ReadStockSettlesNothing

(***************************************************************************)
(* Requests that do not clash satisfy the hypotheses on the behaviour.     *)
(***************************************************************************)
THEOREM ApartRequests == Apart => (Spec => []HoldsEndedOnce /\ []StatusWrittenOnce)
<1> SUFFICES ASSUME Apart PROVE Spec => []HoldsEndedOnce /\ []StatusWrittenOnce
  OBVIOUS
<1>1. Init => RunsOnce
  BY DEF Init, RunsOnce
<1>2. RunsOnce => HoldsEndedOnce /\ StatusWrittenOnce
  BY DEF RunsOnce, HoldsEndedOnce, StatusWrittenOnce, Apart
<1> QED
  BY <1>1, <1>2, InOrderInit, InOrderStep, RunsOnceStep, PTL DEF Spec

(***************************************************************************)
(* So the committed totals match whenever the requests are of that kind.   *)
(***************************************************************************)
THEOREM TotalsOfApartRequests == Apart => (Spec => []CommittedTotalsMatch)
BY ApartRequests, CommittedTotals, PTL

-----------------------------------------------------------------------------
(***************************************************************************)
(* The requests, executed statement by statement and side by side, keep    *)
(* the promise of Reservations, which executes them one after the other.   *)
(*                                                                         *)
(* The refinement mapping is the identity on what is committed: a COMMIT   *)
(* is a step of the promise, every other statement stutters.  The proof    *)
(* needs to know, when a connection commits, what the drafts it has        *)
(* written are.  Effective says it all along the way: the draft of a row   *)
(* is what the request, so far as it has come, makes of the committed row  *)
(* as it is now.  That is stable, because the row is locked from the first *)
(* write on, and because what is read before a lock is taken, the statuses *)
(* and the holds to be ended, changes only in ways the promise allows.     *)
(***************************************************************************)

(* The effect of a request so far. *)

\* c with n taken from the stock, a[s] taken off the holds of order o and
\* used more consumed.
Ended(c, o, a, n, used) ==
  [qty |-> c.qty - n,
   reserved |-> c.reserved - (a["STOCK"] + a["PURCHASE"]),
   hold |-> [s \in Source |-> [c.hold[s] EXCEPT ![o] = @ - a[s]]],
   consumed |-> [c.consumed EXCEPT ![o] = @ + used]]
Within(a, c, o) == a \in [Source -> Nat] /\ \A s \in Source : a[s] <= c.hold[s][o]

\* The turns of topUp for an arrival of n, nobody preferred, one after the other.
Rounds(c, need, n) ==
  LET arrived == [cell |-> c, left |-> n]
      first == IF NoOrder \in Order THEN Turn(arrived, need, NoOrder) ELSE arrived
      served[k \in 0..NumOrders] ==
        IF k = 0 THEN first
        ELSE IF k = NoOrder THEN served[k - 1] ELSE Turn(served[k - 1], need, k)
  IN  served
NeedOf(O, p) == [o \in Order |-> IF o \in O THEN Need[o][p] ELSE 0]
Arrived(c, n) == [c EXCEPT !.qty = @ + n]

\* F can pass for the orders in production that wait for p.
Serving(F, p) ==
  \A o \in Order :
    /\ status[o] = "IN_PRODUCTION" /\ Need[o][p] > 0 => o \in F
    /\ o \in F => status[o] \in {"IN_PRODUCTION", "CANCELLED"}

OwedOf(r, k, p, pre) ==
  IF \E i \in DOMAIN r.lines : r.lines[i] = p /\ k = Len(r.lines) + i THEN Owed(pre) ELSE 0
Turned(r, k, p, pre) == r.kind = "arrive" /\ pre # <<>> /\ r.lines[k] = p

\* The cell c was given n more of p and some of the turns of the top-up.
ArriveEffect(r, k, p, pre, c, d, F) ==
  LET n == r.qty[p]
      turns == Rounds(Arrived(c, n), NeedOf(F, p), n)
  IN  IF Turned(r, k, p, pre)
      THEN /\ n > 0
           /\ \E j \in 0..NumOrders :
                pre[1].orders = {o \in F : o > j} /\ turns[j] = [cell |-> d, left |-> pre[1].n]
      ELSE d = Moved(c, NeedOf(F, p), n, NoOrder)

\* a of the holds were closed, and what is still to be closed keeps within
\* what was taken.
StartEffect(r, k, p, pre, c, d, a) ==
  /\ Within(a, c, OrderOf[r.doc])
  /\ a["STOCK"] + a["PURCHASE"] + OwedOf(r, k, p, pre) <= r.qty[p]
  /\ d = Ended(c, OrderOf[r.doc], a, r.qty[p], a["STOCK"] + a["PURCHASE"])

\* d is what the request r has made of the committed cell c of p when it has
\* come to k and pre in its program.
Effect(r, k, p, pre, c, d) ==
  /\ r.kind \in {"give", "reserve"} => d = Grant(c, "STOCK", r.doc, r.qty[p])
  /\ r.kind = "reserve" => Granted(c, r.qty[p]) = r.qty[p]
  /\ r.kind = "issue" => d = [c EXCEPT !.qty = @ - r.qty[p]]
  /\ r.kind = "arrive" =>
       \E F \in SUBSET Order : Serving(F, p) /\ ArriveEffect(r, k, p, pre, c, d, F)
  /\ r.kind = "start" => \E a \in [Source -> Nat] : StartEffect(r, k, p, pre, c, d, a)
  /\ r.kind = "cancel" =>
       \E a \in [Source -> Nat] : Within(a, c, r.doc) /\ d = Ended(c, r.doc, a, 0, 0)

\* A start closes no more than it takes.
SeenFits(t) ==
  running[t] # None /\ running[t].kind = "start" =>
    \A i \in DOMAIN running[t].lines :
      LET a == seen[t][running[t].lines[i]]
      IN  a \in [Source -> Nat] /\ a["STOCK"] + a["PURCHASE"] <= running[t].qty[running[t].lines[i]]

\* Connection t is at k and pre in its program, and what it has written is
\* what the request makes of the committed rows.
InEffect(t, k, pre) ==
  /\ OnWay(t, k, pre)
  /\ Admitted(running[t])
  /\ \A p \in Product : cellOwner[p] = t => Effect(running[t], k, p, pre, cell[p], draft[p])

EffectiveFor(t) == SeenFits(t) /\ (running[t] # None => \E k, pre : InEffect(t, k, pre))
Effective == \A t \in Tx : EffectiveFor(t)

-----------------------------------------------------------------------------
(* The top-up, turn by turn. *)

LEMMA GrantNothing ==
  ASSUME NEW c \in Cell, NEW s \in Source, NEW o \in Order, NEW n \in Int, n <= 0
  PROVE  Grant(c, s, o, n) = c /\ Granted(c, n) = 0
<1>1. /\ c.reserved \in Nat /\ c.hold \in [Source -> [Order -> Nat]]
      /\ c = [qty |-> c.qty, reserved |-> c.reserved, hold |-> c.hold, consumed |-> c.consumed]
  BY DEF Cell
<1>2. Granted(c, n) = 0
  BY DEF Granted
<1>3. c.hold[s][o] + 0 = c.hold[s][o] /\ c.reserved + 0 = c.reserved
  BY <1>1
<1>4. Adjusted(c.hold, s, o, 0) = c.hold
  BY <1>1, <1>3 DEF Adjusted
<1> QED
  BY <1>1, <1>2, <1>3, <1>4 DEF Grant

LEMMA TurnIdle ==
  ASSUME NEW c \in Cell, NEW a \in ArrivalsFrom(c), NEW need \in [Order -> Nat], NEW o \in Order, need[o] = 0
  PROVE  Turn(a, need, o) = a
<1> DEFINE want == Least(a.left, Outstanding(a.cell, o, need[o]))
<1>1. a.cell \in Cell /\ a.left \in Int /\ a = [cell |-> a.cell, left |-> a.left]
  BY DEF ArrivalsFrom
<1>2. Outstanding(a.cell, o, need[o]) = 0
  <2>1. Held(a.cell, o) \in Nat /\ a.cell.consumed[o] \in Nat
    BY <1>1, HeldNat DEF Cell
  <2> QED
    BY <2>1 DEF Outstanding, NonNegative
<1>3. want \in Int /\ want <= 0
  BY <1>1, <1>2 DEF Least
<1>4. Turn(a, need, o) = [cell |-> Grant(a.cell, "PURCHASE", o, want), left |-> a.left - Granted(a.cell, want)]
  BY DEF Turn
<1> HIDE DEF want
<1>5. Grant(a.cell, "PURCHASE", o, want) = a.cell /\ Granted(a.cell, want) = 0
  BY <1>1, <1>3, GrantNothing, SourceRows
<1>6. a.left - 0 = a.left
  BY <1>1
<1> QED
  BY <1>1, <1>4, <1>5, <1>6

\* R[k] is what comes of an arrival of n at c after the turns of k orders.
TurnByTurn(R, c, need, n) ==
  /\ \A k \in 0..NumOrders : R[k] \in ArrivalsFrom(c)
  /\ R[0] = [cell |-> c, left |-> n]
  /\ \A k \in 1..NumOrders : R[k] = Turn(R[k - 1], need, k)

LEMMA RoundsAre ==
  ASSUME NEW c, GoodCell(c), NEW need \in [Order -> Nat], NEW n \in Int
  PROVE  /\ TurnByTurn(Rounds(c, need, n), c, need, n)
         /\ TopUp(c, need, n, NoOrder) = Rounds(c, need, n)[NumOrders].cell
<1> DEFINE S == ArrivalsFrom(c)
           arrived == [cell |-> c, left |-> n]
           first == IF NoOrder \in Order THEN Turn(arrived, need, NoOrder) ELSE arrived
           N == NumOrders
           g == [y \in S \X (1..N) |-> Turn(y[1], need, y[2])]
           P(h) == h = [k \in 0..N |-> IF k = 0 THEN first
                                       ELSE IF k = NoOrder THEN h[k - 1]
                                       ELSE Turn(h[k - 1], need, k)]
           chosen == CHOOSE h : P(h)
<1>1. c \in Cell /\ c.reserved \in Nat
  BY DEF GoodCell, Cell
<1>2. Order = 1..N /\ N \in Nat
  BY OrderRows
<1>3. arrived \in S
  BY <1>1 DEF ArrivalsFrom, Grew
<1>4. first = arrived
  BY <1>2 DEF NoOrder
<1>5. \A x \in S, k \in 1..N : Turn(x, need, k) \in S
  BY <1>1, <1>2, TurnKeeps
<1>6. \A x \in S, k \in 1..N : g[<<x, k>>] = Turn(x, need, k) /\ g[<<x, k>>] \in S
  <2> HIDE DEF S
  <2> QED
    BY <1>5
<1> HIDE DEF g, S
<1>7. PICK h : Unfolds(h, g, S, arrived, N)
  <2>1. Steps(g, S, N)
    BY <1>6 DEF Steps
  <2> HIDE DEF arrived, N
  <2> QED
    BY <1>2, <1>3, <2>1, RecursionExists
<1>8. P(h)
  <2>1. /\ h \in [0..N -> S] /\ h[0] = arrived
        /\ \A k \in 1..N : h[k] = g[<<h[k - 1], k>>]
    BY <1>7 DEF Unfolds
  <2>2. ASSUME NEW k \in 1..N PROVE h[k] = Turn(h[k - 1], need, k) /\ k # NoOrder
    <3>1. k - 1 \in 0..N /\ k # NoOrder
      BY <1>2 DEF NoOrder
    <3>2. h[k - 1] \in S
      BY <2>1, <3>1
    <3> QED
      BY <2>1, <3>1, <3>2, <1>6
  <2> HIDE DEF first
  <2> QED
    BY <1>2, <1>4, <2>1, <2>2
<1>9. P(chosen)
  BY <1>8
<1>10. Rounds(c, need, n) = chosen
  BY DEF Rounds
<1>11. TopUp(c, need, n, NoOrder) = chosen[N].cell
  BY DEF TopUp
<1> HIDE DEF chosen
<1>12. chosen[0] = arrived /\ \A k \in 1..N : chosen[k] = Turn(chosen[k - 1], need, k)
  <2>1. \A k \in 1..N : k # NoOrder /\ k # 0 /\ k \in 0..N
    BY <1>2 DEF NoOrder
  <2> HIDE DEF first
  <2> QED
    BY <1>2, <1>4, <1>9, <2>1
<1>13. \A k \in 0..N : chosen[k] \in S
  <2>1. chosen[0] \in S /\ \A k \in 1..N : chosen[k - 1] \in S => chosen[k] \in S
    BY <1>3, <1>5, <1>12
  <2> HIDE DEF N
  <2> QED
    BY <1>2, <2>1, StaysIn
<1> QED
  BY <1>10, <1>11, <1>12, <1>13 DEF S, TurnByTurn

\* Nobody who waits is passed over between two turns.
LEMMA RoundsIdle ==
  ASSUME NEW c, GoodCell(c), NEW need \in [Order -> Nat], NEW n \in Int,
         NEW i \in 0..NumOrders, NEW j \in 0..NumOrders, i <= j,
         \A k \in Order : i < k /\ k <= j => need[k] = 0
  PROVE  Rounds(c, need, n)[j] = Rounds(c, need, n)[i]
<1> DEFINE R == Rounds(c, need, n)
           T == {m \in Nat : i + m <= j => R[i + m] = R[i]}
<1> HIDE DEF T, R, Order
<1>0. TurnByTurn(R, c, need, n)
  BY RoundsAre DEF R
<1>1. /\ c \in Cell /\ i \in Nat /\ j \in Nat /\ NumOrders \in Nat /\ Order = 1..NumOrders
      /\ \A k \in 0..NumOrders : R[k] \in ArrivalsFrom(c)
      /\ \A k \in 1..NumOrders : R[k] = Turn(R[k - 1], need, k)
  BY <1>0, OrderRows DEF GoodCell, TurnByTurn
<1>2. 0 \in T
  BY <1>1 DEF T
<1>3. ASSUME NEW m \in Nat, m \in T PROVE m + 1 \in T
  <2>1. SUFFICES ASSUME i + (m + 1) <= j PROVE R[i + (m + 1)] = R[i]
    BY DEF T
  <2>2. PICK k : k = i + (m + 1)
    OBVIOUS
  <2>3. k \in Order /\ i < k /\ k <= j /\ k - 1 = i + m /\ i + m <= j /\ k - 1 \in 0..NumOrders
    BY <1>1, <2>1, <2>2
  <2>4. R[k - 1] = R[i] /\ need[k] = 0 /\ R[k - 1] \in ArrivalsFrom(c)
    BY <1>1, <1>3, <2>3 DEF T
  <2>5. Turn(R[k - 1], need, k) = R[k - 1]
    <3>1. c \in Cell /\ k \in Order
      BY <1>1, <2>3
    <3> QED
      BY <2>4, <3>1, TurnIdle
  <2> QED
    BY <1>1, <2>2, <2>3, <2>4, <2>5
<1>4. \A m \in Nat : m \in T
  BY <1>2, <1>3, SetInduction
<1>5. j - i \in Nat /\ i + (j - i) = j
  BY <1>1
<1> QED
  BY <1>4, <1>5 DEF T, R

-----------------------------------------------------------------------------
(* Holds that are ended, a part at a time. *)

\* e is c with a[s] taken off the holds of order o.
EndedRows(e, c, o, a, n, used) ==
  /\ e.qty = c.qty - n
  /\ e.reserved = c.reserved - (a["STOCK"] + a["PURCHASE"])
  /\ \A s \in Source, x \in Order : e.hold[s][x] = IF x = o THEN c.hold[s][x] - a[s] ELSE c.hold[s][x]
  /\ e.hold \in [Source -> [Order -> Nat]]
  /\ \A x \in Order : e.consumed[x] = IF x = o THEN c.consumed[x] + used ELSE c.consumed[x]
  /\ e.consumed \in [Order -> Nat]
  /\ e = [qty |-> e.qty, reserved |-> e.reserved, hold |-> e.hold, consumed |-> e.consumed]

LEMMA EndedTyped ==
  ASSUME NEW c, GoodCell(c), NEW o \in Order, NEW a \in [Source -> Nat], Within(a, c, o),
         NEW n \in Int, NEW used \in Nat
  PROVE  EndedRows(Ended(c, o, a, n, used), c, o, a, n, used)
<1>1. c \in Cell /\ c.hold \in [Source -> [Order -> Nat]] /\ c.consumed \in [Order -> Nat]
  BY DEF GoodCell, Cell
<1> DEFINE h == [s \in Source |-> [c.hold[s] EXCEPT ![o] = @ - a[s]]]
           k == [c.consumed EXCEPT ![o] = @ + used]
<1>2. \A s \in Source : c.hold[s] \in [Order -> Nat] /\ a[s] \in Nat /\ c.hold[s][o] - a[s] \in Nat
  BY <1>1 DEF Within
<1>3. /\ \A s \in Source, x \in Order : h[s][x] = IF x = o THEN c.hold[s][x] - a[s] ELSE c.hold[s][x]
      /\ h \in [Source -> [Order -> Nat]]
  BY <1>1, <1>2
<1>4. /\ \A x \in Order : k[x] = IF x = o THEN c.consumed[x] + used ELSE c.consumed[x]
      /\ k \in [Order -> Nat]
  BY <1>1
<1> HIDE DEF h, k
<1>5. Ended(c, o, a, n, used) = [qty |-> c.qty - n, reserved |-> c.reserved - (a["STOCK"] + a["PURCHASE"]),
                                hold |-> h, consumed |-> k]
  BY DEF Ended, h, k
<1> QED
  BY <1>3, <1>4, <1>5 DEF EndedRows

\* What is ended of the holds of order o in c, to begin with.
NothingOf == [s \in Source |-> 0]

LEMMA EndedNothing ==
  ASSUME NEW c, GoodCell(c), NEW o \in Order
  PROVE  /\ NothingOf \in [Source -> Nat] /\ Within(NothingOf, c, o)
         /\ NothingOf["STOCK"] + NothingOf["PURCHASE"] = 0
         /\ \A n \in Int : Ended(c, o, NothingOf, n, 0) = [c EXCEPT !.qty = @ - n]
         /\ Ended(c, o, NothingOf, 0, 0) = c
<1> DEFINE none == NothingOf
<1>1. /\ c \in Cell /\ c.qty \in Int /\ c.reserved \in Nat
      /\ c.hold \in [Source -> [Order -> Nat]] /\ c.consumed \in [Order -> Nat]
      /\ c = [qty |-> c.qty, reserved |-> c.reserved, hold |-> c.hold, consumed |-> c.consumed]
  BY DEF GoodCell, Cell
<1>2. /\ none \in [Source -> Nat] /\ Within(none, c, o) /\ none["STOCK"] + none["PURCHASE"] = 0
      /\ \A s \in Source : none[s] = 0
  BY <1>1, SourceRows DEF Within, NothingOf
<1> HIDE DEF none
<1>3. ASSUME NEW n \in Int
      PROVE  Ended(c, o, none, n, 0) = [c EXCEPT !.qty = @ - n] /\ (n = 0 => Ended(c, o, none, n, 0) = c)
  <2> DEFINE e == Ended(c, o, none, n, 0)
  <2>1. EndedRows(e, c, o, none, n, 0)
    BY <1>2, EndedTyped
  <2> HIDE DEF e
  <2>2. /\ \A s \in Source, x \in Order : c.hold[s][x] - none[s] = c.hold[s][x]
        /\ \A x \in Order : c.consumed[x] + 0 = c.consumed[x]
    BY <1>1, <1>2
  <2>3. /\ e.hold \in [Source -> [Order -> Nat]] /\ \A s \in Source, x \in Order : e.hold[s][x] = c.hold[s][x]
        /\ e.consumed \in [Order -> Nat] /\ \A x \in Order : e.consumed[x] = c.consumed[x]
    BY <2>1, <2>2 DEF EndedRows
  <2>4. e.hold = c.hold /\ e.consumed = c.consumed
    <3>1. \A s \in Source : e.hold[s] = c.hold[s]
      BY <1>1, <2>3
    <3> QED
      BY <1>1, <2>3, <3>1
  <2>5. e.qty = c.qty - n /\ e.reserved = c.reserved
    BY <1>1, <1>2, <2>1 DEF EndedRows
  <2>6. e = [qty |-> e.qty, reserved |-> e.reserved, hold |-> e.hold, consumed |-> e.consumed]
    BY <2>1 DEF EndedRows
  <2>7. e = [c EXCEPT !.qty = @ - n] /\ (n = 0 => e = c)
    BY <1>1, <2>4, <2>5, <2>6
  <2> QED
    BY <2>7 DEF e
<1>4. 0 \in Int
  OBVIOUS
<1>5. /\ \A n \in Int : Ended(c, o, none, n, 0) = [c EXCEPT !.qty = @ - n]
      /\ Ended(c, o, none, 0, 0) = c
  BY <1>3, <1>4
<1> QED
  BY <1>2, <1>5 DEF none

\* m more of the holds in s are ended, b of them altogether.
EndedByMore(c, o, a, n, used, s, m, b) ==
  /\ b \in [Source -> Nat] /\ Within(b, c, o)
  /\ b["STOCK"] + b["PURCHASE"] = a["STOCK"] + a["PURCHASE"] + m
  /\ Unheld(Ended(c, o, a, n, used), s, o, m) = Ended(c, o, b, n, used)
  /\ Used(Ended(c, o, a, n, used), s, o, m) = Ended(c, o, b, n, used + m)

LEMMA EndedMore ==
  ASSUME NEW c, GoodCell(c), NEW o \in Order, NEW a \in [Source -> Nat], Within(a, c, o),
         NEW n \in Int, NEW used \in Nat, GoodCell(Ended(c, o, a, n, used)),
         NEW s \in Source, NEW m \in Nat, m <= Ended(c, o, a, n, used).hold[s][o]
  PROVE  EndedByMore(c, o, a, n, used, s, m, [a EXCEPT ![s] = @ + m])
<1> DEFINE d == Ended(c, o, a, n, used)
           b == [a EXCEPT ![s] = @ + m]
<1>0. EndedRows(d, c, o, a, n, used) /\ GoodCell(d) /\ m <= d.hold[s][o]
  BY EndedTyped
<1>4. /\ a["STOCK"] \in Nat /\ a["PURCHASE"] \in Nat /\ (s = "STOCK" \/ s = "PURCHASE")
      /\ b["STOCK"] = (IF s = "STOCK" THEN a["STOCK"] + m ELSE a["STOCK"])
      /\ b["PURCHASE"] = (IF s = "PURCHASE" THEN a["PURCHASE"] + m ELSE a["PURCHASE"])
      /\ b[s] = a[s] + m /\ \A z \in Source : z # s => b[z] = a[z]
  BY SourceRows
<1>5. b \in [Source -> Nat]
  OBVIOUS
<1> HIDE DEF d, b
<1>1. /\ c \in Cell /\ c.qty \in Int /\ c.reserved \in Nat
      /\ c.hold \in [Source -> [Order -> Nat]] /\ c.consumed \in [Order -> Nat]
  BY DEF GoodCell, Cell
<1>2. /\ d.qty = c.qty - n
      /\ d.reserved = c.reserved - (a["STOCK"] + a["PURCHASE"])
      /\ \A z \in Source, x \in Order : d.hold[z][x] = IF x = o THEN c.hold[z][x] - a[z] ELSE c.hold[z][x]
      /\ d.hold \in [Source -> [Order -> Nat]]
      /\ \A x \in Order : d.consumed[x] = IF x = o THEN c.consumed[x] + used ELSE c.consumed[x]
      /\ d.consumed \in [Order -> Nat]
  BY <1>0 DEF EndedRows
<1>3. d \in IntCell /\ d.reserved \in Nat
  BY <1>0, GoodIsTyped DEF GoodCell, Cell
<1>6. b["STOCK"] + b["PURCHASE"] = a["STOCK"] + a["PURCHASE"] + m
  BY <1>4
<1>7. Within(b, c, o)
  <2>1. ASSUME NEW z \in Source PROVE b[z] <= c.hold[z][o]
    <3>1. a[z] \in Nat /\ c.hold[z][o] \in Nat /\ a[z] <= c.hold[z][o] /\ d.hold[z][o] = c.hold[z][o] - a[z]
      BY <1>1, <1>2 DEF Within
    <3>2. z = s => b[z] = a[z] + m /\ m <= d.hold[z][o]
      BY <1>0, <1>4
    <3> QED
      BY <1>4, <3>1, <3>2
  <2> QED
    BY <1>5, <2>1 DEF Within
<1>8. NonNegative(d.reserved - m) = c.reserved - (b["STOCK"] + b["PURCHASE"])
  <2>1. d.hold[s][o] <= d.reserved /\ d.hold[s][o] \in Nat
    BY <1>0, <1>2, HoldWithinReserved
  <2>2. NonNegative(d.reserved - m) = d.reserved - m
    BY <1>0, <1>3, <2>1 DEF NonNegative
  <2> QED
    BY <1>1, <1>2, <1>4, <1>6, <2>2
<1> DEFINE h == Adjusted(d.hold, s, o, - m)
<1>9. /\ h \in [Source -> [Order -> Nat]]
      /\ \A z \in Source, x \in Order : h[z][x] = IF x = o THEN c.hold[z][x] - b[z] ELSE c.hold[z][x]
  <2>1. d.hold[s][o] + (- m) \in Nat /\ d.hold[s][o] + (- m) = d.hold[s][o] - m /\ - m \in Int
    BY <1>0, <1>2
  <2>2. /\ h \in [Source -> [Order -> Nat]] /\ h[s][o] = d.hold[s][o] + (- m)
        /\ \A z \in Source, x \in Order : <<z, x>> # <<s, o>> => h[z][x] = d.hold[z][x]
    <3>1. ASSUME NEW v \in Int, v = - m
          PROVE  /\ Adjusted(d.hold, s, o, v) \in [Source -> [Order -> Nat]]
                 /\ Adjusted(d.hold, s, o, v)[s][o] = d.hold[s][o] + v
                 /\ \A z \in Source, x \in Order :
                      <<z, x>> # <<s, o>> => Adjusted(d.hold, s, o, v)[z][x] = d.hold[z][x]
      <4>1. d.hold[s][o] + v \in Nat
        BY <2>1, <3>1
      <4> QED
        <5> DEFINE g == d.hold
        <5>1. g \in [Source -> [Order -> Nat]] /\ g[s][o] + v \in Nat
          BY <1>2, <4>1
        <5> HIDE DEF g
        <5>2. /\ Adjusted(g, s, o, v) \in [Source -> [Order -> Nat]]
              /\ Adjusted(g, s, o, v)[s][o] = g[s][o] + v
              /\ \A z \in Source, x \in Order :
                    <<z, x>> # <<s, o>> => Adjusted(g, s, o, v)[z][x] = g[z][x]
          BY SMTT(30), <3>1, <5>1, AdjustedRows
        <5> QED
          BY <5>2 DEF g
    <3> QED
      BY <2>1, <3>1
  <2> HIDE DEF h
  <2>3. ASSUME NEW z \in Source, NEW x \in Order
        PROVE  h[z][x] = IF x = o THEN c.hold[z][x] - b[z] ELSE c.hold[z][x]
    <3>1. a[z] \in Nat /\ c.hold[z][x] \in Nat
      BY <1>1
    <3>2. CASE z = s /\ x = o
      BY <1>2, <1>4, <2>1, <2>2, <3>1, <3>2
    <3>3. CASE z # s /\ x = o
      BY <1>2, <1>4, <2>2, <3>3
    <3>4. CASE x # o
      BY <1>2, <2>2, <3>4
    <3> QED
      BY <3>2, <3>3, <3>4
  <2> QED
    BY <2>2, <2>3
<1> DEFINE k == [d.consumed EXCEPT ![o] = @ + m]
<1>10. /\ k \in [Order -> Nat]
       /\ \A x \in Order : k[x] = IF x = o THEN c.consumed[x] + (used + m) ELSE c.consumed[x]
  <2>1. k \in [Order -> Nat] /\ \A x \in Order : k[x] = IF x = o THEN d.consumed[x] + m ELSE d.consumed[x]
    BY <1>2
  <2> HIDE DEF k
  <2>2. c.consumed[o] + used + m = c.consumed[o] + (used + m)
    BY <1>1
  <2> QED
    BY <1>2, <2>1, <2>2
<1> DEFINE e == Ended(c, o, b, n, used)
           f == Ended(c, o, b, n, used + m)
<1>11. /\ Unheld(d, s, o, m) = [qty |-> d.qty, reserved |-> NonNegative(d.reserved - m),
                               hold |-> h, consumed |-> d.consumed]
       /\ Used(d, s, o, m) = [qty |-> d.qty, reserved |-> NonNegative(d.reserved - m),
                             hold |-> h, consumed |-> k]
  BY SMTT(30), <1>3, UnheldTyped
<1>15. used + m \in Nat
  OBVIOUS
<1>16. EndedRows(e, c, o, b, n, used) /\ EndedRows(f, c, o, b, n, used + m)
  BY <1>5, <1>7, <1>15, EndedTyped
<1> HIDE DEF h, k, e, f
<1>17. h = e.hold /\ h = f.hold
  <2>1. \A z \in Source : h[z] = e.hold[z] /\ h[z] = f.hold[z]
    BY <1>9, <1>16 DEF EndedRows
  <2> QED
    BY <1>9, <1>16, <2>1 DEF EndedRows
<1>18. d.consumed = e.consumed /\ k = f.consumed
  <2>1. \A x \in Order : d.consumed[x] = e.consumed[x] /\ k[x] = f.consumed[x]
    BY <1>2, <1>10, <1>16 DEF EndedRows
  <2> QED
    BY <1>2, <1>10, <1>16, <2>1 DEF EndedRows
<1>19. Unheld(d, s, o, m) = e /\ Used(d, s, o, m) = f
  BY <1>2, <1>8, <1>11, <1>16, <1>17, <1>18 DEF EndedRows
<1> QED
  BY <1>5, <1>6, <1>7, <1>19 DEF e, f, d, b, EndedByMore

\* The effect of a start or a cancellation, in the words of the promise.
LEMMA EndedIs ==
  ASSUME NEW c, GoodCell(c), NEW o \in Order, NEW a \in [Source -> Nat], Within(a, c, o), NEW n \in Int
  PROVE  /\ Ended(c, o, a, n, a["STOCK"] + a["PURCHASE"]) =
              Consume(Consume([c EXCEPT !.qty = @ - n], "STOCK", o, a["STOCK"]), "PURCHASE", o, a["PURCHASE"])
         /\ Ended(c, o, a, 0, 0) =
              Release(Release(c, "STOCK", o, a["STOCK"]), "PURCHASE", o, a["PURCHASE"])
<1> DEFINE none == NothingOf
           b == [none EXCEPT !["STOCK"] = @ + a["STOCK"]]
           x == a["STOCK"]
           y == a["PURCHASE"]
<1>1. "STOCK" \in Source /\ "PURCHASE" \in Source /\ x \in Nat /\ y \in Nat
  BY SourceRows
<1>2. /\ none \in [Source -> Nat] /\ Within(none, c, o) /\ none["STOCK"] + none["PURCHASE"] = 0
      /\ \A m \in Int : Ended(c, o, none, m, 0) = [c EXCEPT !.qty = @ - m]
      /\ Ended(c, o, none, 0, 0) = c
  BY EndedNothing
<1>3. /\ b \in [Source -> Nat] /\ b["STOCK"] = x /\ b["PURCHASE"] = 0
      /\ a = [b EXCEPT !["PURCHASE"] = @ + y]
  <2>1. b = [s \in Source |-> IF s = "STOCK" THEN x ELSE 0]
    <3>1. 0 + x = x
      BY <1>1
    <3> QED
      BY <3>1, SourceRows DEF NothingOf
  <2>2. /\ b \in [Source -> Nat] /\ b["STOCK"] = x /\ b["PURCHASE"] = 0
    <3>1. "STOCK" # "PURCHASE"
      OBVIOUS
    <3> HIDE DEF b, x
    <3> QED
      BY <1>1, <2>1, <3>1
  <2> HIDE DEF b
  <2>3. [b EXCEPT !["PURCHASE"] = @ + y] \in [Source -> Nat]
    BY <1>1, <2>2
  <2>4. ASSUME NEW s \in Source PROVE a[s] = [b EXCEPT !["PURCHASE"] = @ + y][s]
    <3>1. 0 + y = y
      BY <1>1
    <3> QED
      BY <1>1, <2>2, <3>1, SourceRows
  <2> QED
    BY <2>2, <2>3, <2>4
<1>4. x <= c.hold["STOCK"][o] /\ y <= c.hold["PURCHASE"][o]
  BY <1>1 DEF Within
<1> HIDE DEF none, b, x, y
<1>5. ASSUME NEW m \in Int
      PROVE  /\ Used(Used([c EXCEPT !.qty = @ - m], "STOCK", o, x), "PURCHASE", o, y) = Ended(c, o, a, m, x + y)
             /\ m = 0 => Unheld(Unheld(c, "STOCK", o, x), "PURCHASE", o, y) = Ended(c, o, a, 0, 0)
             /\ Consume(Consume([c EXCEPT !.qty = @ - m], "STOCK", o, x), "PURCHASE", o, y) =
                  Used(Used([c EXCEPT !.qty = @ - m], "STOCK", o, x), "PURCHASE", o, y)
             /\ m = 0 => Release(Release(c, "STOCK", o, x), "PURCHASE", o, y) =
                           Unheld(Unheld(c, "STOCK", o, x), "PURCHASE", o, y)
  <2> DEFINE d == Ended(c, o, none, m, 0)
  <2>1. d = [c EXCEPT !.qty = @ - m] /\ (m = 0 => d = c)
    BY <1>2
  <2>2. GoodCell(d) /\ d.hold = c.hold
    <3>1. c \in Cell
      BY DEF GoodCell
    <3>2. d \in Cell /\ d.hold = c.hold /\ d.reserved = c.reserved
      <4> HIDE DEF d
      <4> QED
        BY <2>1, <3>1 DEF Cell
    <3> HIDE DEF d
    <3> QED
      BY <3>2 DEF GoodCell, Matched, Held
  <2>3. x <= d.hold["STOCK"][o]
    BY <1>4, <2>2
  <2>4. b = [none EXCEPT !["STOCK"] = @ + x]
    BY DEF b, x
  <2>5. /\ Within(b, c, o)
        /\ Unheld(d, "STOCK", o, x) = Ended(c, o, b, m, 0)
        /\ Used(d, "STOCK", o, x) = Ended(c, o, b, m, 0 + x)
    <3>1. 0 \in Nat /\ GoodCell(Ended(c, o, none, m, 0)) /\ x <= Ended(c, o, none, m, 0).hold["STOCK"][o]
      BY <2>2, <2>3
    <3>2. EndedByMore(c, o, none, m, 0, "STOCK", x, [none EXCEPT !["STOCK"] = @ + x])
      BY <1>1, <1>2, <3>1, EndedMore
    <3> QED
      BY <2>4, <3>2 DEF EndedByMore
  <2>6. /\ Unheld(d, "STOCK", o, x) = Release(d, "STOCK", o, x)
        /\ Used(d, "STOCK", o, x) = Consume(d, "STOCK", o, x)
    BY <1>1, <2>2, <2>3, EndsWhatIsThere
  <2> DEFINE e == Ended(c, o, b, m, 0)
             f == Ended(c, o, b, m, x)
  <2> HIDE DEF d
  <2>7. 0 + x = x
    BY <1>1
  <2>8. e = Release(d, "STOCK", o, x) /\ f = Consume(d, "STOCK", o, x) /\ GoodCell(e) /\ GoodCell(f)
    BY <1>1, <2>2, <2>5, <2>6, <2>7, ReleaseGood, ConsumeGood
  <2>9. y <= e.hold["PURCHASE"][o] /\ y <= f.hold["PURCHASE"][o]
    <3>1. /\ e.hold["PURCHASE"][o] = c.hold["PURCHASE"][o] - b["PURCHASE"]
          /\ f.hold["PURCHASE"][o] = c.hold["PURCHASE"][o] - b["PURCHASE"]
      <4>1. EndedRows(e, c, o, b, m, 0) /\ EndedRows(f, c, o, b, m, x)
        BY <1>1, <1>3, <2>5, EndedTyped
      <4> QED
        BY <1>1, <4>1 DEF EndedRows
    <3>2. c.hold["PURCHASE"][o] \in Nat
      BY <1>1, GoodIsTyped
    <3> HIDE DEF e, f
    <3> QED
      BY <1>1, <1>3, <1>4, <3>1, <3>2
  <2>10. Unheld(e, "PURCHASE", o, y) = Ended(c, o, a, m, 0)
    <3>1. EndedByMore(c, o, b, m, 0, "PURCHASE", y, [b EXCEPT !["PURCHASE"] = @ + y])
      <4>1. 0 \in Nat /\ GoodCell(Ended(c, o, b, m, 0)) /\ y <= Ended(c, o, b, m, 0).hold["PURCHASE"][o]
        BY <2>8, <2>9
      <4> QED
        BY <1>1, <1>3, <2>5, <4>1, EndedMore
    <3> QED
      BY <1>3, <3>1 DEF EndedByMore
  <2>11. Used(f, "PURCHASE", o, y) = Ended(c, o, a, m, x + y)
    <3>1. EndedByMore(c, o, b, m, x, "PURCHASE", y, [b EXCEPT !["PURCHASE"] = @ + y])
      <4>1. GoodCell(Ended(c, o, b, m, x)) /\ y <= Ended(c, o, b, m, x).hold["PURCHASE"][o]
        BY <2>8, <2>9
      <4> QED
        BY <1>1, <1>3, <2>5, <4>1, EndedMore
    <3> QED
      BY <1>3, <3>1 DEF EndedByMore
  <2> HIDE DEF e, f
  <2>12. /\ Unheld(e, "PURCHASE", o, y) = Release(e, "PURCHASE", o, y)
         /\ Used(f, "PURCHASE", o, y) = Consume(f, "PURCHASE", o, y)
    BY <1>1, <2>8, <2>9, EndsWhatIsThere
  <2> QED
    BY <2>1, <2>6, <2>8, <2>10, <2>11, <2>12
<1>6. /\ Consume(Consume([c EXCEPT !.qty = @ - n], "STOCK", o, x), "PURCHASE", o, y) = Ended(c, o, a, n, x + y)
      /\ Release(Release(c, "STOCK", o, x), "PURCHASE", o, y) = Ended(c, o, a, 0, 0)
  <2>1. 0 \in Int
    OBVIOUS
  <2> QED
    BY <1>5, <2>1
<1> QED
  BY <1>6 DEF x, y

-----------------------------------------------------------------------------
(* What keeps a row in effect. *)

\* The program goes on from k and pre to k2 and pre2 elsewhere than in the
\* row of q.
Passes(r, k, pre, k2, pre2, q) ==
  /\ ~ Turned(r, k, q, pre) /\ ~ Turned(r, k2, q, pre2)
  /\ r.kind = "start" =>
       /\ OwedOf(r, k, q, pre) \in Int /\ OwedOf(r, k2, q, pre2) \in Int
       /\ OwedOf(r, k2, q, pre2) <= OwedOf(r, k, q, pre)

LEMMA EffectKept ==
  ASSUME NEW r \in Request, NEW k, NEW pre, NEW k2, NEW pre2, NEW q \in Product, NEW c, NEW d,
         Effect(r, k, q, pre, c, d), Passes(r, k, pre, k2, pre2, q)
  PROVE  Effect(r, k2, q, pre2, c, d)
<1>1. ASSUME r.kind = "arrive", NEW F \in SUBSET Order, ArriveEffect(r, k, q, pre, c, d, F)
      PROVE  ArriveEffect(r, k2, q, pre2, c, d, F)
  BY <1>1 DEF Passes, ArriveEffect
<1>2. ASSUME r.kind = "start", NEW a \in [Source -> Nat], StartEffect(r, k, q, pre, c, d, a)
      PROVE  StartEffect(r, k2, q, pre2, c, d, a)
  <2>1. a["STOCK"] + a["PURCHASE"] \in Int /\ r.qty[q] \in Int
    BY SourceRows, RequestLines
  <2>2. /\ a["STOCK"] + a["PURCHASE"] + OwedOf(r, k, q, pre) <= r.qty[q]
        /\ OwedOf(r, k, q, pre) \in Int /\ OwedOf(r, k2, q, pre2) \in Int
        /\ OwedOf(r, k2, q, pre2) <= OwedOf(r, k, q, pre)
    BY <1>2 DEF StartEffect, Passes
  <2>3. a["STOCK"] + a["PURCHASE"] + OwedOf(r, k2, q, pre2) <= r.qty[q]
    <3> DEFINE x == a["STOCK"] + a["PURCHASE"]
    <3> HIDE DEF x
    <3> QED
      BY <2>1, <2>2 DEF x
  <2> QED
    BY <1>2, <2>3 DEF StartEffect
<1> QED
  BY <1>1, <1>2 DEF Effect

\* The effect depends on nothing but the statuses.
LEMMA EffectNext ==
  ASSUME NEW r, NEW k, NEW q, NEW pre, NEW c, NEW d, Effect(r, k, q, pre, c, d),
         \A F \in SUBSET Order : Serving(F, q) => Serving(F, q)'
  PROVE  Effect(r, k, q, pre, c, d)'
BY DEF Effect

LEMMA OwedNat ==
  ASSUME NEW r \in Request, r.kind = "start", NEW k, NEW pre, Inserted(r, k, pre), NEW q
  PROVE  Owed(pre) \in Nat /\ OwedOf(r, k, q, pre) \in Nat
<1>1. CASE pre = <<>>
  BY <1>1 DEF Owed, OwedOf
<1>2. CASE pre # <<>>
  <2>1. PICK p : Ending(p, pre)
    BY <1>2 DEF Inserted
  <2>2. PICK op \in {"consume", "use"}, a \in Nat \ {0} :
          \/ \E s \in Source : pre = <<Stmt(op, p, s, a)>>
          \/ \E b \in Nat \ {0} : pre = <<Stmt(op, p, "STOCK", a), Stmt("consume", p, "PURCHASE", b)>>
    BY <2>1 DEF Ending
  <2>3. ASSUME NEW s \in Source, pre = <<Stmt(op, p, s, a)>> PROVE Owed(pre) = a
    <3>1. Stmt(op, p, s, a).n = a
      BY DEF Stmt
    <3> HIDE DEF Stmt
    <3> QED
      BY <2>3, <3>1 DEF Owed
  <2>4. ASSUME NEW b \in Nat \ {0}, pre = <<Stmt(op, p, "STOCK", a), Stmt("consume", p, "PURCHASE", b)>>
        PROVE  Owed(pre) = a + b
    <3> DEFINE x == Stmt(op, p, "STOCK", a)
               y == Stmt("consume", p, "PURCHASE", b)
    <3>1. x.n = a /\ y.n = b
      BY DEF Stmt
    <3> HIDE DEF x, y
    <3>2. Owed(<<x, y>>) = a + b
      BY <3>1 DEF Owed
    <3> QED
      BY <2>4, <3>2 DEF x, y
  <2>5. Owed(pre) \in Nat
    BY <2>2, <2>3, <2>4
  <2> QED
    BY <2>5 DEF OwedOf
<1> QED
  BY <1>1, <1>2

\* A connection goes on in effect when it writes the row of p, ...
LEMMA WriteInEffect ==
  ASSUME NEW t, NEW k, NEW pre, InEffect(t, k, pre), EffectiveFor(t),
         NEW p \in Product, NEW c \in IntCell, NEW s \in Seq(Statement), Writes(t, p, c, s),
         NEW k2 \in 0..Len(Program(running[t])), NEW pre2 \in Inserts, Progress(t, k2, pre2)',
         \A q \in Product : q # p /\ cellOwner[q] = t => Passes(running[t], k, pre, k2, pre2, q),
         Effect(running[t], k2, p, pre2, cell[p], c)
  PROVE  EffectiveFor(t)'
<1> USE DEF OnWay
<1>0. OnWay(t, k, pre) /\ t \in Tx /\ running[t] \in Request /\ TransactionsTypeOK
  BY DEF InEffect
<1>1. /\ TransactionsTypeOK'
      /\ cellOwner' = [cellOwner EXCEPT ![p] = t] /\ draft' = [draft EXCEPT ![p] = c]
      /\ UNCHANGED <<cell, status, running, seen>>
  BY <1>0, WritesTyped
<1>2. PICK r \in Request : r = running[t]
  BY <1>0
<1>3. r = running'[t] /\ Admitted(r)'
  <2>1. Admitted(r)
    BY <1>2 DEF InEffect
  <2> QED
    BY <1>1, <1>2, <2>1 DEF Admitted
<1>4. ASSUME NEW q \in Product, cellOwner'[q] = t
      PROVE  Effect(r, k2, q, pre2, cell[q], draft'[q])
  <2>1. CASE q = p
    <3>1. draft'[p] = c
      BY <1>0, <1>1 DEF TransactionsTypeOK
    <3> QED
      BY <1>2, <2>1, <3>1
  <2>2. CASE q # p
    <3>1. cellOwner[q] = t /\ draft'[q] = draft[q]
      BY <1>0, <1>1, <1>4, <2>2 DEF TransactionsTypeOK
    <3>2. Effect(r, k, q, pre, cell[q], draft[q]) /\ Passes(r, k, pre, k2, pre2, q)
      BY <1>2, <2>2, <3>1 DEF InEffect
    <3>3. Effect(r, k2, q, pre2, cell[q], draft[q])
      BY <3>2, EffectKept
    <3> QED
      BY <3>1, <3>3
  <2> QED
    BY <2>1, <2>2
<1>5. ASSUME NEW q \in Product, cellOwner'[q] = t
      PROVE  Effect(r, k2, q, pre2, cell[q], draft[q])'
  <2>1. PICK x, y : x = cell[q] /\ y = draft'[q]
    OBVIOUS
  <2>2. Effect(r, k2, q, pre2, x, y)
    BY <1>4, <1>5, <2>1
  <2>3. \A F \in SUBSET Order : Serving(F, q) => Serving(F, q)'
    BY <1>1 DEF Serving
  <2>4. Effect(r, k2, q, pre2, x, y)'
    BY <2>2, <2>3, EffectNext
  <2> QED
    BY <1>1, <2>1, <2>4
<1>6. (SeenFits(t) /\ running[t] # None)'
  BY <1>0, <1>1, NotNone DEF EffectiveFor, SeenFits
<1>7. OnWay(t, k2, pre2)'
  BY <1>0, <1>1
<1>8. InEffect(t, k2, pre2)'
  BY <1>3, <1>5, <1>7 DEF InEffect
<1> QED
  BY <1>6, <1>8 DEF EffectiveFor

\* ... when it writes no row of stock, ...
LEMMA ReadInEffect ==
  ASSUME NEW t, NEW k, NEW pre, InEffect(t, k, pre), TransactionsTypeOK',
         UNCHANGED <<cell, status, cellOwner, draft, running>>, SeenFits(t)',
         NEW k2 \in 0..Len(Program(running[t])), NEW pre2 \in Inserts, Progress(t, k2, pre2)',
         \A q \in Product : cellOwner[q] = t => Passes(running[t], k, pre, k2, pre2, q)
  PROVE  EffectiveFor(t)'
<1>0. OnWay(t, k, pre) /\ t \in Tx /\ running[t] \in Request
  BY DEF InEffect, OnWay
<1>1. PICK r \in Request : r = running[t]
  BY <1>0
<1>2. r = running'[t] /\ Admitted(r)'
  <2>1. Admitted(r)
    BY <1>1 DEF InEffect
  <2> QED
    BY <1>1, <2>1 DEF Admitted
<1>3. ASSUME NEW q \in Product, cellOwner'[q] = t
      PROVE  Effect(r, k2, q, pre2, cell[q], draft[q])'
  <2>1. PICK x, y : x = cell[q] /\ y = draft[q]
    OBVIOUS
  <2>2. Effect(r, k, q, pre, x, y) /\ Passes(r, k, pre, k2, pre2, q)
    BY <1>1, <1>3, <2>1 DEF InEffect
  <2>3. Effect(r, k2, q, pre2, x, y)
    BY <2>2, EffectKept
  <2>4. \A F \in SUBSET Order : Serving(F, q) => Serving(F, q)'
    BY DEF Serving
  <2>5. Effect(r, k2, q, pre2, x, y)'
    BY <2>3, <2>4, EffectNext
  <2> QED
    BY <2>1, <2>5
<1>4. OnWay(t, k2, pre2)'
  BY <1>0 DEF OnWay
<1>5. InEffect(t, k2, pre2)'
  BY <1>2, <1>3, <1>4 DEF InEffect
<1> QED
  BY <1>5 DEF EffectiveFor

\* ... and when another connection makes a step that leaves what it serves.
LEMMA OthersInEffect ==
  ASSUME NEW u \in Tx, Undisturbed(u), TransactionsTypeOK', EffectiveFor(u),
         \A q \in Product, F \in SUBSET Order : cellOwner[q] = u /\ Serving(F, q) => Serving(F, q)',
         \A r \in Request : r = running[u] /\ Admitted(r) => Admitted(r)'
  PROVE  EffectiveFor(u)'
<1>1. SeenFits(u)'
  BY DEF EffectiveFor, SeenFits, Undisturbed
<1>2. ASSUME running'[u] # None PROVE (\E k, pre : InEffect(u, k, pre))'
  <2>1. running[u] # None
    BY <1>2 DEF Undisturbed
  <2>2. PICK k, pre : InEffect(u, k, pre)
    BY <2>1 DEF EffectiveFor
  <2>3. PICK r \in Request : r = running[u]
    BY <2>2 DEF InEffect, OnWay
  <2>4. r = running'[u] /\ Admitted(r)'
    BY <2>2, <2>3 DEF InEffect, Undisturbed
  <2>5. OnWay(u, k, pre)'
    <3>1. Progress(u, k, pre)'
      BY <2>2, OthersGoOn DEF InEffect, OnWay
    <3> QED
      BY <2>2, <2>3, <2>4, <3>1 DEF InEffect, OnWay
  <2>6. ASSUME NEW q \in Product, cellOwner'[q] = u
        PROVE  Effect(r, k, q, pre, cell[q], draft[q])'
    <3>1. cellOwner[q] = u /\ draft'[q] = draft[q] /\ cell'[q] = cell[q]
      BY <2>6 DEF Undisturbed
    <3>2. PICK x, y : x = cell[q] /\ y = draft[q]
      OBVIOUS
    <3>3. Effect(r, k, q, pre, x, y)
      BY <2>2, <2>3, <3>1, <3>2 DEF InEffect
    <3>4. Effect(r, k, q, pre, x, y)'
      BY <3>1, <3>3, EffectNext
    <3> QED
      BY <3>1, <3>2, <3>4
  <2>7. InEffect(u, k, pre)'
    BY <2>4, <2>5, <2>6 DEF InEffect
  <2> QED
    BY <2>7
<1> QED
  BY <1>1, <1>2 DEF EffectiveFor

\* What another connection commits leaves it that, too: an order is given to
\* production together with the rows of everything it needs.
LEMMA CommitLeavesServing ==
  ASSUME InOrder, NEW t \in Tx, Commit(t), NEW q \in Product, cellOwner[q] # t,
         NEW F \in SUBSET Order, Serving(F, q)
  PROVE  Serving(F, q)'
<1>0. TransactionsTypeOK
  BY DEF InOrder
<1>1. running[t] # None /\ todo[t] = <<>>
      /\ status' = [d \in Doc |-> IF docOwner[d] = t THEN draftStatus[d] ELSE status[d]]
  BY <1>0, CommitStep
<1>2. PICK k, pre : OnWay(t, k, pre)
  BY <1>1, Working
<1>3. PICK r \in Request : r = running[t]
  BY <1>1, Working
<1>4. k = Len(Program(r))
  BY <1>1, <1>2, <1>3, AtEnd DEF OnWay
<1>5. /\ \A d \in Doc : docOwner[d] = t => d = r.doc /\ draftStatus[d] = StatusAfter(r) /\ StatusPassed(r, k)
      /\ r.kind # "cancel" => ~ Passed(r, k, q)
  BY <1>2, <1>3 DEF OnWay, Progress
<1>6. IsRequest(r) /\ r.kind \in Kind /\ Batch \cap Order = {}
  BY RequestLines, TransactionsAssumption
<1>7. r.kind \in {"give", "reserve", "arrive", "issue"} =>
        \A i \in DOMAIN r.lines : Shift(r) + i <= k
  <2>1. /\ Len(r.lines) \in Nat /\ DOMAIN r.lines = 1..Len(r.lines)
        /\ r.kind = "give" => Len(Program(r)) = Len(r.lines) + 1
        /\ r.kind \in {"reserve", "arrive", "issue"} => Len(Program(r)) = Len(r.lines)
    BY RequestLines, ProgramIs
  <2> QED
    BY <1>4, <2>1 DEF Shift
<1>8. r.kind = "give" => ~ Handles(r, q)
  BY <1>5, <1>7 DEF Passed, Handles
<1>9. ASSUME NEW o \in Order, docOwner[o] = t
      PROVE  /\ status'[o] \in {"IN_PRODUCTION", "CANCELLED"}
             /\ status'[o] = "IN_PRODUCTION" => Need[o][q] <= 0
  <2>1. o \in Doc
    BY DEF Doc
  <2>2. o = r.doc /\ status'[o] = StatusAfter(r) /\ StatusPassed(r, k)
    BY <1>1, <1>5, <1>9, <2>1
  <2>3. r.kind \in {"give", "cancel"}
    BY <1>6, <2>2 DEF StatusPassed, IsRequest
  <2>4. Need[o][q] \in Nat
    BY TransactionsAssumption
  <2> QED
    BY <1>6, <1>8, <2>2, <2>3, <2>4 DEF StatusAfter, IsRequest
<1>10. ASSUME NEW o \in Order, docOwner[o] # t
       PROVE  status'[o] = status[o]
  BY <1>1, <1>10 DEF Doc
<1>11. \A o \in Order : Need[o][q] \in Nat
  BY TransactionsAssumption
<1> QED
  BY <1>9, <1>10, <1>11 DEF Serving

LEMMA CommitLeavesAdmitted ==
  ASSUME InOrder, StatusWrittenOnce, NEW t \in Tx, Commit(t), NEW u \in Tx \ {t},
         NEW r \in Request, r = running[u], Admitted(r)
  PROVE  Admitted(r)'
<1>0. TransactionsTypeOK
  BY DEF InOrder
<1>1. running[t] # None /\ todo[t] = <<>>
      /\ status' = [d \in Doc |-> IF docOwner[d] = t THEN draftStatus[d] ELSE status[d]]
  BY <1>0, CommitStep
<1>2. PICK k, pre : OnWay(t, k, pre)
  BY <1>1, Working
<1>3. r # None /\ u # t
  BY NotNone
<1>4. ASSUME r.kind \in {"give", "start", "cancel"}
      PROVE  r.doc \in Doc /\ docOwner[r.doc] # t
  <2>1. r.doc \in Doc
    BY <1>4, DocTyped
  <2>2. ASSUME docOwner[r.doc] = t PROVE FALSE
    <3>1. r.doc = running[t].doc /\ StatusPassed(running[t], k)
      BY <1>2, <2>1, <2>2 DEF OnWay, Progress
    <3>2. running[t].kind \in {"give", "start", "cancel"}
      BY <3>1 DEF StatusPassed
    <3>3. WriteTheSameStatus(running[t], running[u])
      BY <1>4, <3>1, <3>2 DEF WriteTheSameStatus
    <3> QED
      BY <1>1, <1>3, <3>3 DEF StatusWrittenOnce
  <2> QED
    BY <2>1, <2>2
<1>5. r.kind \in {"give", "start", "cancel"} => status'[r.doc] = status[r.doc]
  BY <1>1, <1>4
<1> QED
  BY <1>5 DEF Admitted

LEMMA PassesElsewhere ==
  ASSUME NEW r \in Request, NEW k, NEW pre, NEW k2, NEW pre2, NEW q, Inserted(r, k, pre),
         r.kind = "arrive" => /\ pre = <<>> \/ r.lines[k] # q
                              /\ pre2 = <<>> \/ r.lines[k2] # q,
         r.kind = "start" => OwedOf(r, k2, q, pre2) = 0
  PROVE  Passes(r, k, pre, k2, pre2, q)
<1>1. ~ Turned(r, k, q, pre) /\ ~ Turned(r, k2, q, pre2)
  BY DEF Turned
<1>2. r.kind = "start" => OwedOf(r, k, q, pre) \in Nat
  BY OwedNat
<1> QED
  BY <1>1, <1>2 DEF Passes

-----------------------------------------------------------------------------
(* The effect of every statement. *)

LEMMA GrantInEffect ==
  ASSUME NEW t, NEW k, NEW pre, InEffect(t, k, pre), EffectiveFor(t), GrantStatement(t)
  PROVE  EffectiveFor(t)'
<1> DEFINE r == running[t]
<1>1. OnWay(t, k, pre) /\ r \in Request /\ Inserted(r, k, pre)
  BY DEF InEffect, OnWay, Progress
<1>2. r.kind \in {"give", "reserve"} /\ r.doc \in Order
  BY <1>1, GrantStep
<1>3. PICK i \in 1..Len(r.lines) :
        LET p == r.lines[i]
            c == Grant(View(t, p), "STOCK", r.doc, r.qty[p])
        IN  /\ p \in Product /\ cellOwner[p] # t
            /\ k + 1 \in 0..Len(Program(r))
            /\ r.kind = "reserve" => Granted(View(t, p), r.qty[p]) = r.qty[p]
            /\ c \in IntCell
            /\ Rest(Program(r), k + 1) \in Seq(Statement)
            /\ Writes(t, p, c, Rest(Program(r), k + 1))
            /\ Progress(t, k + 1, <<>>)'
  BY <1>1, GrantStep
<1> DEFINE p == r.lines[i]
           c == Grant(View(t, p), "STOCK", r.doc, r.qty[p])
<1>4. View(t, p) = cell[p]
  BY <1>3 DEF View
<1>5. Effect(r, k + 1, p, <<>>, cell[p], c)
  BY <1>2, <1>3, <1>4 DEF Effect
<1>6. \A q \in Product : Passes(r, k, pre, k + 1, <<>>, q)
  BY <1>1, <1>2, PassesElsewhere
<1>7. <<>> \in Inserts
  BY EmptySeq DEF Inserts
<1> HIDE DEF c, p
<1>8. /\ p \in Product /\ c \in IntCell /\ k + 1 \in 0..Len(Program(r))
      /\ Rest(Program(r), k + 1) \in Seq(Statement)
      /\ Writes(t, p, c, Rest(Program(r), k + 1)) /\ Progress(t, k + 1, <<>>)'
  BY <1>3 DEF c, p
<1> QED
  BY <1>5, <1>6, <1>7, <1>8, WriteInEffect

(***************************************************************************)
(* What is taken from two holds in turn is no more than was wanted.        *)
(***************************************************************************)
LEMMA TwoShares ==
  ASSUME NEW n \in Nat, NEW a \in Nat, NEW b \in Nat, NEW x, NEW y,
         x = Least(n, a), y = Least(n - x, b)
  PROVE  x \in Nat /\ y \in Nat /\ x + y <= n
<1>1. x \in Nat /\ x <= n
  BY DEF Least
<1>2. n - x \in Nat
  BY <1>1
<1>3. y \in Nat /\ y <= n - x
  BY <1>2 DEF Least
<1> QED
  BY <1>1, <1>3

LEMMA CheckInEffect ==
  ASSUME InOrder, Sound, NEW t, NEW k, NEW pre, InEffect(t, k, pre), EffectiveFor(t), Check(t)
  PROVE  EffectiveFor(t)'
<1> DEFINE r == running[t]
<1>1. OnWay(t, k, pre) /\ r \in Request /\ Inserted(r, k, pre) /\ TransactionsTypeOK /\ t \in Tx
  BY DEF InEffect, OnWay, Progress
<1>2. /\ r.kind = "start" /\ OrderOf[r.doc] \in Order
      /\ k + 1 \in 0..Len(Program(r))
      /\ Rest(Program(r), k + 1) \in Seq(Statement)
      /\ Reads(t, Rest(Program(r), k + 1))
      /\ Progress(t, k + 1, <<>>)'
  BY <1>1, CheckStep
<1>3. PICK i \in 1..Len(r.lines) :
        LET p == r.lines[i]
        IN  /\ p \in Product /\ r.qty[p] \in Nat
            /\ seen' = [seen EXCEPT ![t][p] = Closing(View(t, p), OrderOf[r.doc], r.qty[p])]
  BY <1>1, CheckStep
<1>4. TransactionsTypeOK' /\ UNCHANGED <<cell, status, cellOwner, draft, running>>
  BY <1>1, <1>2, ReadsTyped
<1>5. SeenFits(t)'
  <2> DEFINE p == r.lines[i]
             n == r.qty[p]
             v == View(t, p)
             a == Closing(v, OrderOf[r.doc], n)
             x == Least(n, v.hold["STOCK"][OrderOf[r.doc]])
             y == Least(n - x, v.hold["PURCHASE"][OrderOf[r.doc]])
  <2>1. GoodCell(v)
    BY <1>1, <1>3, SoundView
  <2>2. v.hold["STOCK"][OrderOf[r.doc]] \in Nat /\ v.hold["PURCHASE"][OrderOf[r.doc]] \in Nat /\ n \in Nat
    BY <1>2, <1>3, <2>1, GoodIsTyped, SourceRows
  <2>3. x \in Nat /\ y \in Nat /\ x + y <= n
    <3> HIDE DEF v, n, p
    <3>1. PICK a1, b1 \in Nat : a1 = v.hold["STOCK"][OrderOf[r.doc]] /\ b1 = v.hold["PURCHASE"][OrderOf[r.doc]]
      BY <2>2
    <3>2. x = Least(n, a1) /\ y = Least(n - x, b1)
      BY <3>1
    <3> HIDE DEF x, y
    <3>3. n \in Nat /\ a1 \in Nat /\ b1 \in Nat
      BY <2>2
    <3> QED
      BY <3>2, <3>3, TwoShares
  <2>4. a = [s \in Source |-> IF s = "STOCK" THEN x ELSE y]
    BY DEF Closing
  <2> HIDE DEF x, y
  <2>5. a \in [Source -> Nat] /\ a["STOCK"] + a["PURCHASE"] <= n
    <3> HIDE DEF a
    <3> QED
      BY <2>3, <2>4, SourceRows
  <2>6. \A j \in DOMAIN r.lines : r.lines[j] \in Product
    BY <1>1, RequestLines
  <2>7. seen' = [seen EXCEPT ![t][p] = a] /\ p \in Product
    BY <1>3
  <2>8. \A q \in Product : seen'[t][q] = IF q = p THEN a ELSE seen[t][q]
    <3> HIDE DEF a, p
    <3> QED
      BY <1>1, <2>7 DEF TransactionsTypeOK
  <2>9. \A j \in DOMAIN r.lines :
          LET b == seen[t][r.lines[j]]
          IN  b \in [Source -> Nat] /\ b["STOCK"] + b["PURCHASE"] <= r.qty[r.lines[j]]
    BY <1>1, <1>2, NotNone DEF EffectiveFor, SeenFits
  <2> HIDE DEF a
  <2>10. \A j \in DOMAIN r.lines :
           LET b == seen'[t][r.lines[j]]
           IN  b \in [Source -> Nat] /\ b["STOCK"] + b["PURCHASE"] <= r.qty[r.lines[j]]
    BY <2>5, <2>6, <2>8, <2>9
  <2> QED
    BY <1>4, <2>10 DEF SeenFits
<1>6. \A q \in Product : Passes(r, k, pre, k + 1, <<>>, q)
  BY <1>1, <1>2, PassesElsewhere DEF OwedOf, Owed
<1>7. <<>> \in Inserts
  BY EmptySeq DEF Inserts
<1> QED
  BY <1>2, <1>4, <1>5, <1>6, <1>7, ReadInEffect

LEMMA SeenKept ==
  ASSUME NEW t, EffectiveFor(t), UNCHANGED <<running, seen>>
  PROVE  SeenFits(t)'
BY DEF EffectiveFor, SeenFits

LEMMA ListInEffect ==
  ASSUME NEW t, NEW k, NEW pre, InEffect(t, k, pre), EffectiveFor(t), ListHolds(t) \/ ReadRelease(t)
  PROVE  EffectiveFor(t)'
<1> DEFINE r == running[t]
<1>1. OnWay(t, k, pre) /\ r \in Request /\ Inserted(r, k, pre) /\ TransactionsTypeOK /\ t \in Tx
  BY DEF InEffect, OnWay, Progress
<1>2. /\ r.kind = "cancel" /\ 1 \in 0..Len(Program(r))
      /\ \E pre2 \in Inserts :
           LET s == pre2 \o Rest(Program(r), 1)
           IN  UNCHANGED seen /\ s \in Seq(Statement) /\ Reads(t, s) /\ Progress(t, 1, pre2)'
  <2>1. CASE ListHolds(t)
    BY <1>1, <2>1, ListStep
  <2>2. CASE ReadRelease(t)
    BY <1>1, <2>2, ReleaseStep DEF OnWay
  <2> QED
    BY <2>1, <2>2
<1>3. PICK pre2 \in Inserts, s \in Seq(Statement) : UNCHANGED seen /\ Reads(t, s) /\ Progress(t, 1, pre2)'
  BY <1>2
<1>4. TransactionsTypeOK' /\ UNCHANGED <<cell, status, cellOwner, draft, running>>
  BY <1>1, <1>3, ReadsTyped
<1>5. \A q \in Product : Passes(r, k, pre, 1, pre2, q)
  BY <1>2 DEF Passes, Turned
<1>6. SeenFits(t)'
  BY <1>3, <1>4, SeenKept
<1> QED
  BY <1>2, <1>3, <1>4, <1>5, <1>6, ReadInEffect

LEMMA ConsumeReadInEffect ==
  ASSUME NEW t, NEW k, NEW pre, InEffect(t, k, pre), EffectiveFor(t), ReadConsume(t)
  PROVE  EffectiveFor(t)'
<1> DEFINE r == running[t]
<1>1. /\ OnWay(t, k, pre) /\ r \in Request /\ Inserted(r, k, pre) /\ TransactionsTypeOK /\ t \in Tx
      /\ k \in 0..Len(Program(r))
  BY DEF InEffect, OnWay, Progress
<1>2. /\ r.kind = "start"
      /\ \E pre2 \in Inserts :
           LET s == pre2 \o Rest(Program(r), k)
           IN  /\ Owed(pre2) <= Owed(pre) /\ UNCHANGED seen
               /\ s \in Seq(Statement) /\ Reads(t, s) /\ Progress(t, k, pre2)'
  BY <1>1, ConsumeReadStep
<1>3. PICK pre2 \in Inserts, s \in Seq(Statement) :
        Owed(pre2) <= Owed(pre) /\ UNCHANGED seen /\ Reads(t, s) /\ Progress(t, k, pre2)'
  BY <1>2
<1>4. TransactionsTypeOK' /\ UNCHANGED <<cell, status, cellOwner, draft, running>>
  BY <1>1, <1>3, ReadsTyped
<1>5. Inserted(r, k, pre2)
  BY <1>3, <1>4 DEF Progress
<1>6. ASSUME NEW q \in Product PROVE Passes(r, k, pre, k, pre2, q)
  <2>1. OwedOf(r, k, q, pre) \in Nat /\ OwedOf(r, k, q, pre2) \in Nat
    BY <1>1, <1>2, <1>5, OwedNat
  <2>2. OwedOf(r, k, q, pre2) <= OwedOf(r, k, q, pre)
    BY <1>3 DEF OwedOf
  <2> QED
    BY <1>2, <2>1, <2>2 DEF Passes, Turned
<1>7. SeenFits(t)'
  BY <1>3, <1>4, SeenKept
<1> QED
  BY <1>1, <1>3, <1>4, <1>6, <1>7, ReadInEffect

LEMMA StatusInEffect ==
  ASSUME NEW t, NEW k, NEW pre, InEffect(t, k, pre), EffectiveFor(t), WriteStatus(t)
  PROVE  EffectiveFor(t)'
<1> DEFINE r == running[t]
<1>1. OnWay(t, k, pre) /\ r \in Request /\ Inserted(r, k, pre)
  BY DEF InEffect, OnWay, Progress
<1>2. /\ r.kind \in {"give", "start", "cancel"} /\ pre = <<>> /\ k + 1 \in 0..Len(Program(r))
      /\ UNCHANGED <<cell, status, cellOwner, draft, running, seen, waiting>>
      /\ TransactionsTypeOK' /\ Progress(t, k + 1, <<>>)'
  BY <1>1, StatusStep
<1>3. \A q \in Product : Passes(r, k, pre, k + 1, <<>>, q)
  BY <1>1, <1>2, PassesElsewhere DEF OwedOf, Owed
<1>4. SeenFits(t)'
  BY <1>2, SeenKept
<1>5. <<>> \in Inserts
  BY EmptySeq DEF Inserts
<1> QED
  BY <1>2, <1>3, <1>4, <1>5, ReadInEffect

LEMMA HoldInEffect ==
  ASSUME InOrder, Sound, NEW t, NEW k, NEW pre, InEffect(t, k, pre), EffectiveFor(t), WriteHold(t)
  PROVE  EffectiveFor(t)'
<1> DEFINE r == running[t]
           o == OrderOfRequest(r)
<1>1. /\ OnWay(t, k, pre) /\ r \in Request /\ Inserted(r, k, pre) /\ TransactionsTypeOK /\ t \in Tx
      /\ k \in 0..Len(Program(r))
  BY DEF InEffect, OnWay, Progress
<1>2. /\ r.kind \in {"start", "cancel"} /\ o \in Order
      /\ \E p \in Product, src \in Source, m \in Nat \ {0}, pre2 \in Inserts :
           LET c == Shortened(t, View(t, p), src, m)
               s == pre2 \o Rest(Program(r), k)
           IN  /\ r.kind = "start" =>
                    /\ \E i \in 1..Len(r.lines) : p = r.lines[i] /\ k = Len(r.lines) + i
                    /\ Owed(pre) = m + Owed(pre2) /\ cellOwner[p] = t
               /\ Head(todo[t]).product = p /\ Head(todo[t]).source = src
               /\ Head(todo[t]).n = m /\ At(t, {"unhold", "use"})
               /\ c \in IntCell /\ s \in Seq(Statement)
               /\ Writes(t, p, c, s)
               /\ Progress(t, k, pre2)'
  BY <1>1, HoldStep
<1>3. PICK p \in Product, src \in Source, m \in Nat \ {0}, pre2 \in Inserts :
           LET c == Shortened(t, View(t, p), src, m)
               s == pre2 \o Rest(Program(r), k)
           IN  /\ r.kind = "start" =>
                    /\ \E i \in 1..Len(r.lines) : p = r.lines[i] /\ k = Len(r.lines) + i
                    /\ Owed(pre) = m + Owed(pre2) /\ cellOwner[p] = t
               /\ Head(todo[t]).product = p /\ Head(todo[t]).source = src
               /\ Head(todo[t]).n = m /\ At(t, {"unhold", "use"})
               /\ c \in IntCell /\ s \in Seq(Statement)
               /\ Writes(t, p, c, s)
               /\ Progress(t, k, pre2)'
  BY <1>2
<1> DEFINE v == View(t, p)
           c == Shortened(t, v, src, m)
           s == pre2 \o Rest(Program(r), k)
<1>4. /\ c \in IntCell /\ s \in Seq(Statement) /\ Writes(t, p, c, s) /\ Progress(t, k, pre2)'
      /\ r.kind = "start" =>
           /\ \E i \in 1..Len(r.lines) : p = r.lines[i] /\ k = Len(r.lines) + i
           /\ Owed(pre) = m + Owed(pre2) /\ cellOwner[p] = t
  BY <1>3
<1>5. m <= v.hold[src][o] /\ GoodCell(v) /\ GoodCell(cell[p]) /\ m \in Nat
  <2>1. CanEnd(t)
    BY <1>1 DEF Sound
  <2>2. m <= v.hold[src][o]
    BY <1>3, <2>1 DEF CanEnd
  <2> QED
    BY <1>1, <2>2, SoundView DEF Sound
<1> HIDE DEF v, s
<1>6. cellOwner[p] = t => v = draft[p] /\ Effect(r, k, p, pre, cell[p], v)
  BY DEF InEffect, View, v
<1>7. running' = running
  BY <1>1, <1>4, WritesTyped
<1>8. Inserted(r, k, pre2)
  BY <1>4, <1>7 DEF Progress
<1>9. CASE r.kind = "start"
  <2>1. o = OrderOf[r.doc] /\ c = Used(v, src, o, m)
    BY <1>9 DEF OrderOfRequest, Shortened
  <2>2. PICK a \in [Source -> Nat] : StartEffect(r, k, p, pre, cell[p], v, a)
    BY <1>4, <1>6, <1>9 DEF Effect
  <2> DEFINE w == a["STOCK"] + a["PURCHASE"]
             b == [a EXCEPT ![src] = @ + m]
  <2>3. /\ Within(a, cell[p], o) /\ w + OwedOf(r, k, p, pre) <= r.qty[p]
        /\ v = Ended(cell[p], o, a, r.qty[p], w)
    BY <2>1, <2>2 DEF StartEffect
  <2>4. w \in Nat /\ r.qty[p] \in Nat /\ r.qty[p] \in Int
    BY <1>1, SourceRows, RequestLines
  <2> HIDE DEF w, b, c, o
  <2>5. EndedByMore(cell[p], o, a, r.qty[p], w, src, m, b)
    <3>1. GoodCell(Ended(cell[p], o, a, r.qty[p], w)) /\ m <= Ended(cell[p], o, a, r.qty[p], w).hold[src][o]
      BY <1>5, <2>3
    <3> QED
      BY <1>2, <1>5, <2>3, <2>4, <3>1, EndedMore DEF b
  <2>6. /\ b \in [Source -> Nat] /\ Within(b, cell[p], o) /\ b["STOCK"] + b["PURCHASE"] = w + m
        /\ c = Ended(cell[p], o, b, r.qty[p], w + m)
    BY <2>1, <2>3, <2>5 DEF EndedByMore, w
  <2>7. /\ DOMAIN r.lines = 1..Len(r.lines) /\ Len(r.lines) \in Nat
        /\ \A i, j \in 1..Len(r.lines) : r.lines[i] = r.lines[j] => i = j
    BY <1>1, RequestLines
  <2>8. PICK i \in 1..Len(r.lines) : p = r.lines[i] /\ k = Len(r.lines) + i
    BY <1>4, <1>9
  <2>9. OwedOf(r, k, p, pre) = Owed(pre) /\ OwedOf(r, k, p, pre2) = Owed(pre2)
    BY <2>7, <2>8 DEF OwedOf
  <2>10. Owed(pre) \in Nat /\ Owed(pre2) \in Nat
    BY <1>1, <1>8, <1>9, OwedNat
  <2>11. (w + m) + OwedOf(r, k, p, pre2) <= r.qty[p]
    BY <1>4, <1>5, <1>9, <2>3, <2>4, <2>9, <2>10
  <2>12. StartEffect(r, k, p, pre2, cell[p], c, b)
    BY <2>1, <2>6, <2>11 DEF StartEffect
  <2>13. Effect(r, k, p, pre2, cell[p], c)
    BY <1>9, <2>6, <2>12 DEF Effect
  <2>14. ASSUME NEW q \in Product, q # p PROVE Passes(r, k, pre, k, pre2, q)
    <3>1. OwedOf(r, k, q, pre2) = 0
      BY <2>7, <2>8, <2>14 DEF OwedOf
    <3> QED
      BY <1>1, <1>9, <3>1, PassesElsewhere
  <2> QED
    BY <1>1, <1>4, <2>13, <2>14, WriteInEffect
<1>10. CASE r.kind = "cancel"
  <2>1. o = r.doc /\ c = Unheld(v, src, o, m)
    BY <1>10 DEF OrderOfRequest, Shortened
  <2> HIDE DEF c, o
  <2>2. PICK a \in [Source -> Nat] : Within(a, cell[p], o) /\ v = Ended(cell[p], o, a, 0, 0)
    <3>1. CASE cellOwner[p] = t
      BY <1>6, <1>10, <2>1, <3>1 DEF Effect
    <3>2. CASE cellOwner[p] # t
      <4>1. v = cell[p]
        BY <3>2 DEF v, View
      <4>2. /\ NothingOf \in [Source -> Nat] /\ Within(NothingOf, cell[p], o)
            /\ Ended(cell[p], o, NothingOf, 0, 0) = cell[p]
        BY <1>2, <1>5, EndedNothing
      <4> QED
        BY <4>1, <4>2
    <3> QED
      BY <3>1, <3>2
  <2> DEFINE b == [a EXCEPT ![src] = @ + m]
  <2>3. EndedByMore(cell[p], o, a, 0, 0, src, m, b)
    <3>1. /\ GoodCell(Ended(cell[p], o, a, 0, 0)) /\ m <= Ended(cell[p], o, a, 0, 0).hold[src][o]
          /\ 0 \in Int /\ 0 \in Nat
      BY <1>5, <2>2
    <3> QED
      BY <1>2, <1>5, <2>2, <3>1, EndedMore
  <2> HIDE DEF b
  <2>4. b \in [Source -> Nat] /\ Within(b, cell[p], o) /\ c = Ended(cell[p], o, b, 0, 0)
    BY <2>1, <2>2, <2>3 DEF EndedByMore
  <2>5. Effect(r, k, p, pre2, cell[p], c)
    BY <1>10, <2>1, <2>4 DEF Effect
  <2>6. \A q \in Product : Passes(r, k, pre, k, pre2, q)
    BY <1>10 DEF Passes, Turned
  <2> QED
    BY <1>1, <1>4, <2>5, <2>6, WriteInEffect
<1> QED
  BY <1>2, <1>9, <1>10

LEMMA ArrivedGood ==
  ASSUME NEW c, GoodCell(c), NEW q \in Int
  PROVE  GoodCell(Arrived(c, q))
<1> DEFINE a == Arrived(c, q)
<1>1. c \in Cell
  BY DEF GoodCell
<1>2. a \in Cell /\ a.hold = c.hold /\ a.reserved = c.reserved
  BY <1>1 DEF Arrived, Cell
<1> HIDE DEF a
<1>3. GoodCell(a)
  BY <1>2 DEF GoodCell, Matched, Held
<1> QED
  BY <1>3 DEF a

LEMMA NeedOfTyped ==
  ASSUME NEW F, NEW p \in Product
  PROVE  /\ NeedOf(F, p) \in [Order -> Nat]
         /\ \A o \in Order : NeedOf(F, p)[o] = IF o \in F THEN Need[o][p] ELSE 0
<1>1. \A o \in Order : Need[o][p] \in Nat
  BY TransactionsAssumption
<1> QED
  BY <1>1 DEF NeedOf

\* Nobody waits: the arrival stays as it is.
LEMMA NobodyServed ==
  ASSUME NEW c, GoodCell(c), NEW p \in Product, NEW q \in Nat
  PROVE  Moved(c, NeedOf({}, p), q, NoOrder) = Arrived(c, q)
<1> DEFINE need == NeedOf({}, p)
           a == Arrived(c, q)
<1>1. GoodCell(a)
  BY ArrivedGood
<1>2. need \in [Order -> Nat] /\ \A k \in Order : need[k] = 0
  BY NeedOfTyped
<1>3. 0 \in 0..NumOrders /\ NumOrders \in 0..NumOrders /\ 0 <= NumOrders /\ q \in Int
  BY OrderRows
<1> HIDE DEF need, a, Order
<1>4. Rounds(a, need, q)[NumOrders] = Rounds(a, need, q)[0]
  BY <1>1, <1>2, <1>3, RoundsIdle
<1>5. Rounds(a, need, q)[0] = [cell |-> a, left |-> q] /\ TopUp(a, need, q, NoOrder) = Rounds(a, need, q)[NumOrders].cell
  BY <1>1, <1>2, <1>3, RoundsAre DEF TurnByTurn
<1>6. TopUp(a, need, q, NoOrder) = a
  BY <1>4, <1>5
<1> QED
  BY <1>6 DEF Moved, Arrived, a, need

LEMMA MoveInEffect ==
  ASSUME InOrder, Sound, NEW t, NEW k, NEW pre, InEffect(t, k, pre), EffectiveFor(t), Move(t)
  PROVE  EffectiveFor(t)'
<1> DEFINE r == running[t]
<1>1. /\ OnWay(t, k, pre) /\ r \in Request /\ Inserted(r, k, pre) /\ TransactionsTypeOK /\ t \in Tx
      /\ k \in 0..Len(Program(r)) /\ k \in Nat
  BY ProgramLength DEF InEffect, OnWay, Progress
<1>2. r.kind \in {"arrive", "issue", "start"}
  BY <1>1, MoveStep
<1>3. PICK i \in 1..Len(r.lines), pre2 \in Inserts :
        LET p == r.lines[i]
            n == IF r.kind = "arrive" THEN r.qty[p] ELSE - r.qty[p]
            c == [View(t, p) EXCEPT !.qty = @ + n]
            s == pre2 \o Rest(Program(r), k + 1)
        IN  /\ p \in Product /\ r.qty[p] \in Nat /\ n \in Int
            /\ k + 1 = Shift(r) + i /\ pre = <<>>
            /\ k + 1 \in 0..Len(Program(r))
            /\ cellOwner[p] # t
            /\ pre2 = AfterMove(t, p, n)
            /\ c \in IntCell
            /\ s \in Seq(Statement)
            /\ Writes(t, p, c, s)
            /\ Progress(t, k + 1, pre2)'
  BY <1>1, MoveStep
<1> DEFINE p == r.lines[i]
           q == r.qty[p]
           n == IF r.kind = "arrive" THEN q ELSE - q
           c == [View(t, p) EXCEPT !.qty = @ + n]
           s == pre2 \o Rest(Program(r), k + 1)
<1>4. /\ p \in Product /\ q \in Nat /\ n \in Int /\ k + 1 = Shift(r) + i /\ pre = <<>>
      /\ k + 1 \in 0..Len(Program(r)) /\ cellOwner[p] # t /\ pre2 = AfterMove(t, p, n)
      /\ c \in IntCell /\ s \in Seq(Statement) /\ Writes(t, p, c, s) /\ Progress(t, k + 1, pre2)'
  BY <1>3
<1>5. View(t, p) = cell[p] /\ GoodCell(cell[p]) /\ cell[p].qty \in Int
  BY <1>4 DEF View, Sound, GoodCell, Cell
<1>6. /\ DOMAIN r.lines = 1..Len(r.lines) /\ Len(r.lines) \in Nat
      /\ \A x, y \in 1..Len(r.lines) : r.lines[x] = r.lines[y] => x = y
  BY <1>1, RequestLines
<1>7. c = [cell[p] EXCEPT !.qty = @ + n]
  BY <1>5
<1> HIDE DEF c, s, n, q
<1>8. CASE r.kind = "issue"
  <2>1. Effect(r, k + 1, p, pre2, cell[p], c)
    <3>1. c = [cell[p] EXCEPT !.qty = @ - q]
      BY <1>4, <1>5, <1>7, <1>8 DEF n
    <3> QED
      BY <1>8, <3>1 DEF Effect, q
  <2>2. \A x \in Product : Passes(r, k, pre, k + 1, pre2, x)
    BY <1>1, <1>8, PassesElsewhere
  <2> QED
    BY <1>4, <2>1, <2>2, WriteInEffect
<1>9. CASE r.kind = "start"
  <2> DEFINE o == OrderOf[r.doc]
             a == seen[t][p]
  <2>1. o \in Order /\ o = OrderOfRequest(r)
    BY <1>1, <1>9, OrderOfTyped DEF OrderOfRequest
  <2>2. k + 1 = Len(r.lines) + i
    BY <1>4, <1>9 DEF Shift
  <2>3. pre2 = Closings(p, a)
    <3>1. ~ (n > 0)
      BY <1>4, <1>9 DEF n
    <3> QED
      BY <1>4, <1>9, <3>1 DEF AfterMove
  <2>4. a \in [Source -> Nat] /\ a["STOCK"] + a["PURCHASE"] <= q
    BY <1>1, <1>6, <1>9, NotNone DEF EffectiveFor, SeenFits, q
  <2>5. a \in [Source -> Int] /\ a["STOCK"] >= 0 /\ a["PURCHASE"] >= 0
    BY <2>4, SourceRows
  <2> HIDE DEF a, o
  <2>6. Owed(pre2) = a["STOCK"] + a["PURCHASE"]
    BY <1>4, <2>3, <2>5, ClosingsAre
  <2>7. OwedOf(r, k + 1, p, pre2) = a["STOCK"] + a["PURCHASE"]
    BY <1>6, <2>2, <2>6 DEF OwedOf
  <2>8. /\ NothingOf \in [Source -> Nat] /\ Within(NothingOf, cell[p], o)
        /\ NothingOf["STOCK"] + NothingOf["PURCHASE"] = 0
        /\ Ended(cell[p], o, NothingOf, q, 0) = [cell[p] EXCEPT !.qty = @ - q]
    <3>1. q \in Int
      BY <1>4
    <3> QED
      BY <1>5, <2>1, <3>1, EndedNothing
  <2>9. c = [cell[p] EXCEPT !.qty = @ - q]
    BY <1>4, <1>5, <1>7, <1>9 DEF n
  <2>10. 0 + OwedOf(r, k + 1, p, pre2) <= q
    BY <1>4, <2>4, <2>7, SourceRows
  <2>11. StartEffect(r, k + 1, p, pre2, cell[p], c, NothingOf)
    BY <2>8, <2>9, <2>10 DEF StartEffect, o, q
  <2>12. Effect(r, k + 1, p, pre2, cell[p], c)
    BY <1>9, <2>8, <2>11 DEF Effect
  <2>13. ASSUME NEW x \in Product, x # p PROVE Passes(r, k, pre, k + 1, pre2, x)
    <3>1. OwedOf(r, k + 1, x, pre2) = 0
      BY <1>6, <2>2, <2>13 DEF OwedOf
    <3> QED
      BY <1>1, <1>9, <3>1, PassesElsewhere
  <2> QED
    BY <1>4, <2>12, <2>13, WriteInEffect
<1>10. CASE r.kind = "arrive"
  <2> DEFINE F == InProduction(t)
  <2>1. n = q /\ k + 1 = i /\ c = Arrived(cell[p], q)
    BY <1>4, <1>6, <1>7, <1>10 DEF n, Shift, Arrived
  <2>2. F \in SUBSET Order /\ Serving(F, p)
    <3>1. \A d \in Doc : docOwner[d] # t
      BY <1>1, <1>10 DEF OnWay, Progress, StatusPassed
    <3>2. \A o \in Order : o \in F <=> status[o] = "IN_PRODUCTION"
      BY <3>1 DEF InProduction, StatusView, Doc
    <3> HIDE DEF F
    <3>3. Serving(F, p)
      BY <3>2 DEF Serving
    <3> QED
      BY <3>3 DEF F, InProduction
  <2>3. pre2 = IF q > 0 /\ F # {} THEN <<Turns(p, F, q)>> ELSE <<>>
    BY <1>4, <1>10, <2>1 DEF AfterMove
  <2>4. ArriveEffect(r, k + 1, p, pre2, cell[p], c, F)
    <3> HIDE DEF F
    <3>1. CASE q > 0 /\ F # {}
      <4>1. pre2 = <<Turns(p, F, q)>> /\ pre2 # <<>>
        BY <2>3, <3>1, EmptySeq
      <4>2. pre2[1].orders = F /\ pre2[1].n = q
        BY <4>1 DEF Turns
      <4>3. Turned(r, k + 1, p, pre2)
        BY <1>10, <2>1, <4>1 DEF Turned
      <4>4. 0 \in 0..NumOrders /\ F = {o \in F : o > 0}
        <5>1. \A o \in F : o > 0
          BY <2>2, OrderRows
        <5> QED
          BY <5>1, OrderRows
      <4>5. GoodCell(Arrived(cell[p], q)) /\ NeedOf(F, p) \in [Order -> Nat] /\ q \in Int
        <5>1. GoodCell(Arrived(cell[p], q))
          BY <1>4, <1>5, ArrivedGood
        <5>2. NeedOf(F, p) \in [Order -> Nat]
          BY <1>4, NeedOfTyped
        <5> QED
          BY <1>4, <5>1, <5>2
      <4>6. Rounds(Arrived(cell[p], q), NeedOf(F, p), q)[0] = [cell |-> c, left |-> q]
        BY <2>1, <4>5, RoundsAre DEF TurnByTurn
      <4> QED
        BY <3>1, <4>2, <4>3, <4>4, <4>6 DEF ArriveEffect, q
    <3>2. CASE ~ (q > 0 /\ F # {})
      <4>1. pre2 = <<>>
        BY <2>3, <3>2
      <4>2. ~ Turned(r, k + 1, p, pre2)
        BY <4>1 DEF Turned
      <4>3. c = Moved(cell[p], NeedOf(F, p), q, NoOrder)
        <5>1. CASE q > 0
          <6>1. F = {}
            BY <3>2, <5>1
          <6> QED
            BY <1>4, <1>5, <2>1, <6>1, NobodyServed
        <5>2. CASE ~ (q > 0)
          BY <2>1, <5>2 DEF Moved, Arrived
        <5> QED
          BY <5>1, <5>2
      <4> QED
        BY <4>2, <4>3 DEF ArriveEffect, q
    <3> QED
      BY <3>1, <3>2
  <2>5. Effect(r, k + 1, p, pre2, cell[p], c)
    BY <1>10, <2>2, <2>4 DEF Effect
  <2>6. ASSUME NEW x \in Product, x # p PROVE Passes(r, k, pre, k + 1, pre2, x)
    <3>1. r.lines[k + 1] # x
      BY <2>1, <2>6
    <3> QED
      BY <1>1, <1>4, <1>10, <3>1, PassesElsewhere
  <2> QED
    BY <1>4, <2>5, <2>6, WriteInEffect
<1> QED
  BY <1>2, <1>8, <1>9, <1>10

\* After turn j the cell is d and n of the arrival is left.
RoundIs(c, F, p, q, j, d, n) == Rounds(c, NeedOf(F, p), q)[j] = [cell |-> d, left |-> n]

\* The next turn of the rounds is that of the oldest order that is left.
LEMMA NextTurn ==
  ASSUME NEW c, GoodCell(c), NEW F \in SUBSET Order, NEW p \in Product, NEW q \in Int,
         NEW j \in 0..NumOrders, NEW d, NEW n \in Int, RoundIs(c, F, p, q, j, d, n),
         NEW o \in F, o > j, \A x \in F : x > j => o <= x
  PROVE  RoundIs(c, F, p, q, o, Grant(d, "PURCHASE", o, Least(n, Outstanding(d, o, Need[o][p]))),
                 n - Granted(d, Least(n, Outstanding(d, o, Need[o][p]))))
<1> USE DEF RoundIs
<1> DEFINE need == NeedOf(F, p)
           R == Rounds(c, need, q)
           a == [cell |-> d, left |-> n]
<1>1. /\ Order = 1..NumOrders /\ NumOrders \in Nat /\ o \in Order /\ o \in 1..NumOrders
      /\ o - 1 \in 0..NumOrders /\ j <= o - 1
  BY OrderRows
<1>2. need \in [Order -> Nat] /\ \A x \in Order : need[x] = IF x \in F THEN Need[x][p] ELSE 0
  BY NeedOfTyped
<1>3. \A x \in Order : j < x /\ x <= o - 1 => need[x] = 0
  <2>1. ASSUME NEW x \in Order, j < x, x <= o - 1 PROVE x \notin F
    BY <1>1, <2>1
  <2> QED
    BY <1>2, <2>1
<1> HIDE DEF need, R, Order
<1>4. R[o - 1] = R[j]
  <2>1. PICK m \in 0..NumOrders : m = o - 1
    BY <1>1
  <2>2. j <= m /\ \A x \in Order : j < x /\ x <= m => need[x] = 0
    BY <1>1, <1>3, <2>1
  <2>3. Rounds(c, need, q)[m] = Rounds(c, need, q)[j]
    BY <1>2, <2>2, RoundsIdle
  <2> QED
    BY <2>1, <2>3 DEF R
<1>5. TurnByTurn(R, c, need, q)
  BY <1>2, RoundsAre DEF R
<1>6. R[o] = Turn(R[o - 1], need, o)
  BY <1>1, <1>5 DEF TurnByTurn
<1>7. R[o - 1] = a /\ need[o] = Need[o][p]
  BY <1>1, <1>2, <1>4 DEF R, need
<1>8. R[o] = Turn(a, need, o)
  BY <1>6, <1>7
<1>9. a.cell = d /\ a.left = n
  OBVIOUS
<1>10. Turn(a, need, o) =
           [cell |-> Grant(d, "PURCHASE", o, Least(n, Outstanding(d, o, Need[o][p]))),
            left |-> n - Granted(d, Least(n, Outstanding(d, o, Need[o][p])))]
  BY <1>7, <1>9 DEF Turn
<1> QED
  BY <1>8, <1>10 DEF R, need

\* When nobody is left, the top-up is done.
LEMMA LastTurn ==
  ASSUME NEW c, GoodCell(c), NEW F \in SUBSET Order, NEW p \in Product, NEW q \in Int,
         NEW j \in 0..NumOrders, \A x \in F : x <= j
  PROVE  TopUp(c, NeedOf(F, p), q, NoOrder) = Rounds(c, NeedOf(F, p), q)[j].cell
<1> DEFINE need == NeedOf(F, p)
<1>1. need \in [Order -> Nat] /\ \A x \in Order : need[x] = IF x \in F THEN Need[x][p] ELSE 0
  BY NeedOfTyped
<1>2. \A x \in Order : j < x /\ x <= NumOrders => need[x] = 0
  <2>1. ASSUME NEW x \in Order, j < x PROVE x \notin F
    BY <2>1, OrderRows
  <2> QED
    BY <1>1, <2>1
<1>3. NumOrders \in 0..NumOrders /\ j <= NumOrders
  BY OrderRows
<1> HIDE DEF need, Order
<1>4. Rounds(c, need, q)[NumOrders] = Rounds(c, need, q)[j]
  BY <1>1, <1>2, <1>3, RoundsIdle
<1>5. TopUp(c, need, q, NoOrder) = Rounds(c, need, q)[NumOrders].cell
  BY <1>1, RoundsAre
<1> QED
  BY <1>4, <1>5 DEF need

LEMMA TurnInEffect ==
  ASSUME InOrder, Sound, NEW t, NEW k, NEW pre, InEffect(t, k, pre), EffectiveFor(t), TopUpTurn(t)
  PROVE  EffectiveFor(t)'
<1> DEFINE r == running[t]
           p == r.lines[k]
           q == r.qty[p]
<1>1. /\ OnWay(t, k, pre) /\ r \in Request /\ Inserted(r, k, pre) /\ TransactionsTypeOK /\ t \in Tx
      /\ k \in 0..Len(Program(r))
  BY DEF InEffect, OnWay, Progress
<1>2. /\ r.kind = "arrive" /\ k \in 1..Len(r.lines) /\ p \in Product /\ q \in Nat
      /\ cellOwner[p] = t
  BY <1>1, TurnStep
<1>3. PICK S \in (SUBSET Order) \ {{}}, n \in Int, o \in Order, want \in Int, pre2 \in Inserts :
        TurnOf(t, k, pre, S, n, o, want, pre2)
  BY <1>1, TurnStep
<1> DEFINE d == View(t, p)
           e == Grant(d, "PURCHASE", o, want)
           left == n - Granted(d, want)
           s == pre2 \o Rest(Program(r), k)
<1>4. /\ pre = <<Turns(p, S, n)>> /\ o \in S /\ \A x \in S : o <= x
      /\ want = Least(n, Outstanding(d, o, Need[o][p]))
      /\ pre2 = IF S \ {o} = {} THEN <<>> ELSE <<Turns(p, S \ {o}, left)>>
      /\ e \in IntCell /\ left \in Int /\ s \in Seq(Statement)
      /\ Writes(t, p, e, s) /\ Progress(t, k, pre2)'
  BY <1>3 DEF TurnOf
<1>5. d = draft[p] /\ GoodCell(cell[p]) /\ Effect(r, k, p, pre, cell[p], d)
  BY <1>1, <1>2 DEF View, Sound, InEffect
<1> HIDE DEF d, e, left, s, p, q
<1>6. pre # <<>> /\ pre[1].orders = S /\ pre[1].n = n
  BY <1>4 DEF Turns
<1>7. Turned(r, k, p, pre)
  BY <1>2, <1>6 DEF Turned, p
<1>8. PICK F \in SUBSET Order : Serving(F, p) /\ ArriveEffect(r, k, p, pre, cell[p], d, F)
  BY <1>2, <1>5 DEF Effect
<1> DEFINE a == Arrived(cell[p], q)
           R == Rounds(a, NeedOf(F, p), q)
<1>9. q > 0 /\ \E j \in 0..NumOrders : pre[1].orders = {x \in F : x > j} /\ R[j] = [cell |-> d, left |-> pre[1].n]
  BY <1>7, <1>8 DEF ArriveEffect, q
<1>10. PICK j \in 0..NumOrders : S = {x \in F : x > j} /\ R[j] = [cell |-> d, left |-> n]
  BY <1>6, <1>9
<1>11. GoodCell(a) /\ q \in Int
  <2>1. q \in Int
    BY <1>2
  <2> QED
    BY <1>5, <2>1, ArrivedGood
<1> HIDE DEF a, R
<1>12. R[o] = [cell |-> e, left |-> left]
  <2>1. o \in F /\ o > j /\ \A x \in F : x > j => o <= x
    BY <1>4, <1>10
  <2>2. R[o] = [cell |-> Grant(d, "PURCHASE", o, Least(n, Outstanding(d, o, Need[o][p]))),
                left |-> n - Granted(d, Least(n, Outstanding(d, o, Need[o][p])))]
    <3>1. Rounds(a, NeedOf(F, p), q)[j] = [cell |-> d, left |-> n]
      BY <1>10 DEF R
    <3>2. p \in Product /\ GoodCell(a) /\ q \in Int
      BY <1>2, <1>11
    <3> QED
      <4>1. /\ GoodCell(a) /\ p \in Product /\ q \in Int
            /\ RoundIs(a, F, p, q, j, d, n)
            /\ o \in F /\ o > j /\ \A x \in F : x > j => o <= x
        BY <2>1, <3>1, <3>2 DEF RoundIs
      <4>2. RoundIs(a, F, p, q, o, Grant(d, "PURCHASE", o, Least(n, Outstanding(d, o, Need[o][p]))),
                    n - Granted(d, Least(n, Outstanding(d, o, Need[o][p]))))
        BY <4>1, NextTurn
      <4> QED
        BY <4>2 DEF R, RoundIs
  <2> QED
    BY <1>4, <2>2 DEF e, left
<1>13. o \in 0..NumOrders /\ S \ {o} = {x \in F : x > o}
  <2>1. \A x \in Order : x \in Int /\ x \in 0..NumOrders
    BY OrderRows
  <2>2. ASSUME NEW x PROVE x \in S \ {o} <=> x \in F /\ x > o
    <3>1. x \in S \ {o} => x \in F /\ x > o
      BY <1>4, <1>10, <2>1
    <3>2. x \in F /\ x > o => x \in S /\ x # o
      <4>1. o > j /\ o \in Int /\ j \in Int
        BY <1>4, <1>10, <2>1
      <4> QED
        BY <1>10, <2>1, <4>1
    <3> QED
      BY <3>1, <3>2
  <2> QED
    BY <2>1, <2>2
<1>14. ArriveEffect(r, k, p, pre2, cell[p], e, F)
  <2>1. CASE S \ {o} = {}
    <3>1. pre2 = <<>>
      BY <1>4, <2>1
    <3>2. \A x \in F : x <= o
      <4>1. \A x \in F : ~ (x > o)
        BY <1>13, <2>1
      <4> QED
        BY <4>1, OrderRows
    <3>3. TopUp(a, NeedOf(F, p), q, NoOrder) = e
      BY <1>2, <1>11, <1>12, <1>13, <3>2, LastTurn DEF R
    <3>4. Moved(cell[p], NeedOf(F, p), q, NoOrder) = e
      BY <1>9, <3>3 DEF Moved, a, Arrived
    <3>5. ~ Turned(r, k, p, pre2)
      BY <3>1 DEF Turned
    <3> QED
      BY <3>4, <3>5 DEF ArriveEffect, q
  <2>2. CASE S \ {o} # {}
    <3>1. pre2 = <<Turns(p, S \ {o}, left)>> /\ pre2 # <<>>
      BY <1>4, <2>2, EmptySeq
    <3>2. pre2[1].orders = S \ {o} /\ pre2[1].n = left
      BY <3>1 DEF Turns
    <3>3. Turned(r, k, p, pre2)
      BY <1>2, <3>1 DEF Turned, p
    <3> QED
      BY <1>9, <1>12, <1>13, <3>2, <3>3 DEF ArriveEffect, q, a, R
  <2> QED
    BY <2>1, <2>2
<1>15. Effect(r, k, p, pre2, cell[p], e)
  BY <1>2, <1>8, <1>14 DEF Effect
<1>16. ASSUME NEW x \in Product, x # p PROVE Passes(r, k, pre, k, pre2, x)
  <2>1. r.lines[k] # x
    BY <1>16 DEF p
  <2> QED
    BY <1>1, <1>2, <2>1, PassesElsewhere
<1> QED
  BY <1>1, <1>2, <1>4, <1>15, <1>16, WriteInEffect

-----------------------------------------------------------------------------
(* Every step keeps the effects. *)

LEMMA EffectiveInit == Init => Effective
BY NotNone DEF Init, Effective, EffectiveFor, SeenFits

LEMMA BeginInEffect ==
  ASSUME InOrder, NEW t \in Tx, Begin(t)
  PROVE  EffectiveFor(t)'
<1>0. TransactionsTypeOK
  BY DEF InOrder
<1>1. running[t] = None
  BY DEF Begin
<1>2. Idle(t)
  BY <1>1, NotNone DEF InOrder, AtWork
<1>3. PICK r \in Request :
        /\ Admitted(r) /\ running' = [running EXCEPT ![t] = r]
        /\ UNCHANGED <<cell, status, cellOwner, docOwner, draft, draftStatus, seen>>
        /\ TransactionsTypeOK' /\ Progress(t, 0, <<>>)'
  BY <1>0, <1>2, BeginStep
<1>4. running'[t] = r /\ seen'[t] = NothingSeen /\ \A p \in Product : cellOwner'[p] # t
  BY <1>0, <1>2, <1>3 DEF TransactionsTypeOK, Idle
<1>5. SeenFits(t)'
  <2>1. ASSUME NEW i \in DOMAIN r.lines
        PROVE  LET a == NothingSeen[r.lines[i]]
               IN  a \in [Source -> Nat] /\ a["STOCK"] + a["PURCHASE"] <= r.qty[r.lines[i]]
    <3>1. r.lines[i] \in Product /\ r.qty[r.lines[i]] \in Nat
      BY <2>1, RequestLines
    <3>2. NothingSeen[r.lines[i]] = [s \in Source |-> 0]
      BY <3>1 DEF NothingSeen
    <3> QED
      BY <3>1, <3>2, SourceRows
  <2> QED
    BY <1>4, <2>1 DEF SeenFits
<1>6. OnWay(t, 0, <<>>)'
  <2>1. 0 \in 0..Len(Program(r)) /\ <<>> \in Inserts
    BY ProgramLength, EmptySeq DEF Inserts
  <2> QED
    BY <1>3, <1>4, <2>1 DEF OnWay
<1>7. Admitted(r)'
  BY <1>3 DEF Admitted
<1>8. InEffect(t, 0, <<>>)'
  BY <1>4, <1>6, <1>7 DEF InEffect
<1> QED
  BY <1>5, <1>8 DEF EffectiveFor

LEMMA EndInEffect ==
  ASSUME NEW t \in Tx, Idle(t)'
  PROVE  EffectiveFor(t)'
BY DEF Idle, EffectiveFor, SeenFits

LEMMA OwnStepInEffect ==
  ASSUME InOrder, Sound, Effective, NEW t \in Tx, Begin(t) \/ Statements(t) \/ BreakDeadlock(t) \/ Fail(t)
  PROVE  EffectiveFor(t)'
<1>0. TransactionsTypeOK /\ EffectiveFor(t)
  BY DEF InOrder, Effective
<1>1. CASE Begin(t)
  BY <1>1, BeginInEffect
<1>2. CASE GrantTooSmall(t) \/ CheckFails(t) \/ BreakDeadlock(t) \/ Fail(t)
  <2>1. Idle(t)'
    BY <1>0, <1>2, RollBackStep DEF GrantTooSmall, CheckFails, BreakDeadlock, Fail
  <2> QED
    BY <2>1, EndInEffect
<1>3. CASE Commit(t)
  <2>1. Idle(t)'
    BY <1>0, <1>3, CommitStep
  <2> QED
    BY <2>1, EndInEffect
<1>4. CASE \/ GrantStatement(t) \/ Move(t) \/ TopUpTurn(t) \/ Check(t) \/ ListHolds(t)
           \/ ReadRelease(t) \/ ReadConsume(t) \/ WriteHold(t) \/ WriteStatus(t)
  <2>1. running[t] # None
    BY <1>4 DEF GrantStatement, Move, TopUpTurn, Check, ListHolds, ReadRelease, ReadConsume,
                WriteHold, WriteStatus, At
  <2>2. PICK k, pre : InEffect(t, k, pre)
    BY <1>0, <2>1 DEF EffectiveFor
  <2> QED
    BY <1>0, <1>4, <2>2, GrantInEffect, MoveInEffect, TurnInEffect, CheckInEffect, ListInEffect,
       ConsumeReadInEffect, HoldInEffect, StatusInEffect
<1>5. CASE ReadStock(t)
  <2>1. UNCHANGED settled
    BY <1>5, ReadStockSettlesNothing
  <2>2. TransactionsTypeOK'
    BY <1>5, StepsInOrder DEF Statements
  <2>3. Undisturbed(t)
    BY <2>1 DEF settled, rows, Undisturbed
  <2>4. \A q \in Product, F \in SUBSET Order : Serving(F, q) => Serving(F, q)'
    BY <2>1 DEF settled, rows, Serving
  <2>5. \A r \in Request : Admitted(r) => Admitted(r)'
    BY <2>1 DEF settled, rows, Admitted
  <2> QED
    BY <1>0, <2>2, <2>3, <2>4, <2>5, OthersInEffect
<1> QED
  BY <1>1, <1>2, <1>3, <1>4, <1>5 DEF Statements

LEMMA EffectiveStep == InOrder /\ Sound /\ Effective /\ StatusWrittenOnce /\ [Next]_vars => Effective'
<1> SUFFICES ASSUME InOrder, Sound, Effective, StatusWrittenOnce, [Next]_vars PROVE Effective'
  OBVIOUS
<1>0. TransactionsTypeOK'
  BY InOrderStep DEF InOrder
<1>1. ASSUME NEW u \in Tx, Undisturbed(u), status' = status PROVE EffectiveFor(u)'
  <2>1. \A q \in Product, F \in SUBSET Order : cellOwner[q] = u /\ Serving(F, q) => Serving(F, q)'
    BY <1>1 DEF Serving
  <2>2. \A r \in Request : r = running[u] /\ Admitted(r) => Admitted(r)'
    BY <1>1 DEF Admitted
  <2>3. EffectiveFor(u)
    BY DEF Effective
  <2> QED
    BY <1>0, <1>1, <2>1, <2>2, <2>3, OthersInEffect
<1>2. CASE UNCHANGED vars
  <2>1. \A u \in Tx : Undisturbed(u)
    BY <1>2 DEF vars, Undisturbed
  <2>2. status' = status
    BY <1>2 DEF vars
  <2> QED
    BY <1>1, <2>1, <2>2 DEF Effective
<1>3. CASE Next
  <2>1. PICK t \in Tx : Begin(t) \/ Statements(t) \/ BreakDeadlock(t) \/ Fail(t)
    BY <1>3 DEF Next
  <2>2. EffectiveFor(t)' /\ \A u \in Tx \ {t} : Undisturbed(u)
    BY <2>1, OwnStepInEffect, StepsInOrder
  <2>3. ASSUME NEW u \in Tx \ {t} PROVE EffectiveFor(u)'
    <3>1. CASE Commit(t)
      <4>1. \A q \in Product, F \in SUBSET Order : cellOwner[q] = u /\ Serving(F, q) => Serving(F, q)'
        BY <3>1, CommitLeavesServing
      <4>2. \A r \in Request : r = running[u] /\ Admitted(r) => Admitted(r)'
        BY <3>1, CommitLeavesAdmitted
      <4>3. EffectiveFor(u)
        BY DEF Effective
      <4> QED
        BY <1>0, <2>2, <4>1, <4>2, <4>3, OthersInEffect
    <3>2. CASE ~ Commit(t)
      <4>1. status' = status
        BY <2>1, <3>2 DEF Statements, Begin, GrantStatement, GrantTooSmall, Move, TopUpTurn, ReadStock, rows, Check, CheckFails,
             ListHolds, ReadRelease, ReadConsume, WriteHold, WriteStatus, BreakDeadlock, Fail,
             RollBack, Write, Read, Continue
      <4> QED
        BY <1>1, <2>2, <4>1
    <3> QED
      BY <3>1, <3>2
  <2> QED
    BY <2>2, <2>3 DEF Effective
<1> QED
  BY <1>2, <1>3

-----------------------------------------------------------------------------
(* The refinement. *)

\* The promise is stated with the same operators.
LEMMA PromiseOperators ==
  /\ Promise!Order = Order /\ Promise!NoOrder = NoOrder
  /\ \A c, s, o, n : Promise!Grant(c, s, o, n) = Grant(c, s, o, n)
  /\ \A c, n : Promise!Granted(c, n) = Granted(c, n)
  /\ \A c, s, o, n : Promise!Release(c, s, o, n) = Release(c, s, o, n)
  /\ \A c, s, o, n : Promise!Consume(c, s, o, n) = Consume(c, s, o, n)
  /\ \A c, need, n, o : Promise!Moved(c, need, n, o) = Moved(c, need, n, o)
  /\ \A O, p : Promise!NeedOf(O, p) = NeedOf(O, p)
  /\ \A r, p : Promise!Handles(r, p) = Handles(r, p)
<1>1. Promise!Order = Order /\ Promise!NoOrder = NoOrder
  BY DEF Promise!Order, Order, Promise!NoOrder, NoOrder
<1>2. \A a, b : Promise!Least(a, b) = Least(a, b)
  BY DEF Promise!Least, Least
<1>3. \A a : Promise!NonNegative(a) = NonNegative(a)
  BY DEF Promise!NonNegative, NonNegative
<1>4. \A c : Promise!Available(c) = Available(c)
  BY DEF Promise!Available, Available
<1>5. \A c, n : Promise!Granted(c, n) = Granted(c, n)
  BY <1>2, <1>3, <1>4 DEF Promise!Granted, Granted
<1>6. \A h, s, o, d : Promise!Adjusted(h, s, o, d) = Adjusted(h, s, o, d)
  BY DEF Promise!Adjusted, Adjusted
<1>7. \A c, s, o, n : Promise!Grant(c, s, o, n) = Grant(c, s, o, n)
  BY <1>5, <1>6 DEF Promise!Grant, Grant
<1>8. \A c, s, o, n : Promise!Released(c, s, o, n) = Released(c, s, o, n)
  BY <1>2, <1>3 DEF Promise!Released, Released
<1>9. \A c, s, o, n : Promise!Release(c, s, o, n) = Release(c, s, o, n)
  BY <1>3, <1>6, <1>8 DEF Promise!Release, Release
<1>10. \A c, s, o, n : Promise!Consume(c, s, o, n) = Consume(c, s, o, n)
  BY <1>8, <1>9 DEF Promise!Consume, Consume
<1>11. \A c, o, n : Promise!Outstanding(c, o, n) = Outstanding(c, o, n)
  BY <1>3 DEF Promise!Outstanding, Outstanding, Promise!Held, Held
<1>12. \A a, need, o : Promise!Turn(a, need, o) = Turn(a, need, o)
  BY <1>2, <1>5, <1>7, <1>11 DEF Promise!Turn, Turn
<1>13. \A c, need, n, o : Promise!TopUp(c, need, n, o) = TopUp(c, need, n, o)
  BY DEF Promise!TopUp, TopUp, Promise!Turn, Turn, Promise!NoOrder, NoOrder, Promise!Order, Order, Promise!Outstanding, Outstanding, Promise!Held, Held, Promise!Least, Least, Promise!NonNegative, NonNegative, Promise!Grant, Grant, Promise!Granted, Granted, Promise!Available, Available, Promise!Adjusted, Adjusted
<1>14. \A c, need, n, o : Promise!Moved(c, need, n, o) = Moved(c, need, n, o)
  BY <1>13 DEF Promise!Moved, Moved
<1>15. \A O, p : Promise!NeedOf(O, p) = NeedOf(O, p)
  BY <1>1 DEF Promise!NeedOf, NeedOf
<1>16. \A r, p : Promise!Handles(r, p) = Handles(r, p)
  BY DEF Promise!Handles, Handles
<1> QED
  BY <1>1, <1>5, <1>7, <1>9, <1>10, <1>14, <1>15, <1>16

\* What a connection writes is, when it commits, what its request promises.
LEMMA CommitKeepsPromise ==
  ASSUME InOrder, Sound, Effective, NEW t \in Tx, Commit(t)
  PROVE  Promise!Next
<1>0. TransactionsTypeOK
  BY DEF InOrder
<1>1. /\ running[t] # None /\ todo[t] = <<>>
      /\ cell' = [p \in Product |-> IF cellOwner[p] = t THEN draft[p] ELSE cell[p]]
      /\ status' = [d \in Doc |-> IF docOwner[d] = t THEN draftStatus[d] ELSE status[d]]
  BY <1>0, CommitStep
<1>2. PICK k, pre : InEffect(t, k, pre)
  BY <1>1 DEF Effective, EffectiveFor
<1>3. PICK r \in Request : r = running[t]
  BY <1>2 DEF InEffect, OnWay
<1>4. pre = <<>> /\ k = Len(Program(r))
  BY <1>1, <1>2, <1>3, AtEnd DEF InEffect, OnWay
<1>5. /\ Admitted(r)
      /\ r.kind # "cancel" => \A p \in Product : cellOwner[p] = t <=> Passed(r, k, p)
      /\ \A d \in Doc : docOwner[d] = t <=> d = r.doc /\ StatusPassed(r, k)
      /\ \A d \in Doc : docOwner[d] = t => draftStatus[d] = StatusAfter(r)
  BY <1>2, <1>3 DEF InEffect, OnWay, Progress
<1>6. ASSUME NEW p \in Product
      PROVE  /\ cellOwner[p] = t => Effect(r, k, p, <<>>, cell[p], cell'[p])
             /\ cellOwner[p] # t => cell'[p] = cell[p]
  <2>1. cellOwner[p] = t => cell'[p] = draft[p] /\ Effect(r, k, p, <<>>, cell[p], draft[p])
    BY <1>1, <1>2, <1>3, <1>4 DEF InEffect
  <2> QED
    BY <1>1, <2>1
<1>7. cell' = [p \in Product |-> cell'[p]]
  BY <1>1
<1>8. /\ Len(r.lines) \in Nat /\ DOMAIN r.lines = 1..Len(r.lines) /\ r.kind \in Kind
      /\ r.kind = "give" => k = Len(r.lines) + 1
      /\ r.kind \in {"reserve", "arrive", "issue"} => k = Len(r.lines)
      /\ r.kind = "start" => k = 2 * Len(r.lines) + 1
      /\ r.kind = "cancel" => k = 2
  BY <1>4, RequestLines, ProgramIs
<1>9. r.kind # "cancel" => \A p \in Product : cellOwner[p] = t <=> Handles(r, p)
  <2>1. r.kind # "cancel" => \A i \in DOMAIN r.lines : Shift(r) + i <= k
    BY <1>8 DEF Shift, Kind
  <2> QED
    BY <1>5, <2>1 DEF Passed, Handles
<1>10. StatusPassed(r, k) <=> r.kind \in {"give", "start", "cancel"}
  BY <1>8 DEF StatusPassed
<1>11. r.kind \in {"give", "start", "cancel"} => status' = [status EXCEPT ![r.doc] = StatusAfter(r)]
  <2>1. ASSUME r.kind \in {"give", "start", "cancel"}
        PROVE  status' = [status EXCEPT ![r.doc] = StatusAfter(r)]
    <3>1. r.doc \in Doc
      BY <2>1, DocTyped
    <3>2. \A d \in Doc : status'[d] = IF d = r.doc THEN StatusAfter(r) ELSE status[d]
      BY <1>1, <1>5, <1>10, <2>1, <3>1
    <3>3. status \in [Doc -> OrderStatus \cup BatchStatus]
      BY <1>0 DEF TransactionsTypeOK
    <3> QED
      BY <1>1, <3>1, <3>2, <3>3
  <2> QED
    BY <2>1
<1>12. r.kind \notin {"give", "start", "cancel"} => status' = status
  <2>1. ASSUME r.kind \notin {"give", "start", "cancel"} PROVE status' = status
    <3>1. \A d \in Doc : status'[d] = status[d]
      BY <1>1, <1>5, <1>10, <2>1
    <3>2. status \in [Doc -> OrderStatus \cup BatchStatus]
      BY <1>0 DEF TransactionsTypeOK
    <3> QED
      BY <1>1, <3>1, <3>2
  <2> QED
    BY <2>1
<1>13. r.kind # "cancel" => Promise!OnlyLines(r)
  BY <1>6, <1>9, PromiseOperators DEF Promise!OnlyLines
<1>14. \A p \in Product : GoodCell(cell[p])
  BY DEF Sound
<1>15. ASSUME r.kind \in {"give", "reserve"} PROVE Promise!Granting(r)
  <2>1. ASSUME NEW p \in Product, Handles(r, p)
        PROVE  cell'[p] = Grant(cell[p], "STOCK", r.doc, r.qty[p])
    <3>1. Effect(r, k, p, <<>>, cell[p], cell'[p])
      BY <1>6, <1>9, <1>15, <2>1
    <3> QED
      BY <1>15, <3>1 DEF Effect
  <2> QED
    BY <2>1, PromiseOperators DEF Promise!Granting
<1>16. CASE r.kind = "give"
  <2>1. status[r.doc] = "NEW" /\ StatusAfter(r) = "IN_PRODUCTION"
    BY <1>5, <1>16 DEF Admitted, StatusAfter
  <2>2. Promise!Give(r)
    BY <1>11, <1>13, <1>15, <1>16, <2>1 DEF Promise!Give
  <2> QED
    BY <1>7, <2>2 DEF Promise!Next
<1>17. CASE r.kind = "reserve"
  <2>1. ASSUME NEW p \in Product, Handles(r, p)
        PROVE  Granted(cell[p], r.qty[p]) = r.qty[p]
    <3>1. Effect(r, k, p, <<>>, cell[p], cell'[p])
      BY <1>6, <1>9, <1>17, <2>1
    <3> QED
      BY <1>17, <3>1 DEF Effect
  <2>2. Promise!Reserve(r)
    BY <1>12, <1>13, <1>15, <1>17, <2>1, PromiseOperators DEF Promise!Reserve
  <2> QED
    BY <1>7, <2>2 DEF Promise!Next
<1>18. CASE r.kind = "issue"
  <2>1. ASSUME NEW p \in Product, Handles(r, p)
        PROVE  cell'[p] = [cell[p] EXCEPT !.qty = @ - r.qty[p]]
    <3>1. Effect(r, k, p, <<>>, cell[p], cell'[p])
      BY <1>6, <1>9, <1>18, <2>1
    <3> QED
      BY <1>18, <3>1 DEF Effect
  <2>2. Promise!Issue(r)
    BY <1>12, <1>13, <1>18, <2>1, PromiseOperators DEF Promise!Issue
  <2> QED
    BY <1>7, <2>2 DEF Promise!Next
<1>19. CASE r.kind = "arrive"
  <2>1. ASSUME NEW p \in Product, Handles(r, p)
        PROVE  \E late \in SUBSET Promise!InStatus("CANCELLED") :
                 cell'[p] = Moved(cell[p], NeedOf(Promise!InStatus("IN_PRODUCTION") \cup late, p), r.qty[p], NoOrder)
    <3>1. Effect(r, k, p, <<>>, cell[p], cell'[p])
      BY <1>6, <1>9, <1>19, <2>1
    <3>2. PICK F \in SUBSET Order :
            Serving(F, p) /\ cell'[p] = Moved(cell[p], NeedOf(F, p), r.qty[p], NoOrder)
      BY <1>19, <3>1 DEF Effect, ArriveEffect, Turned
    <3> DEFINE late == {o \in F : status[o] = "CANCELLED"}
               G == Promise!InStatus("IN_PRODUCTION") \cup late
    <3>3. late \in SUBSET Promise!InStatus("CANCELLED")
      BY PromiseOperators DEF Promise!InStatus
    <3>4. \A o \in Order : o \in G <=> status[o] = "IN_PRODUCTION" \/ (o \in F /\ status[o] = "CANCELLED")
      BY PromiseOperators DEF Promise!InStatus
    <3> HIDE DEF late, G
    <3>5. NeedOf(F, p) = NeedOf(G, p)
      <4>1. ASSUME NEW o \in Order PROVE NeedOf(F, p)[o] = NeedOf(G, p)[o]
        <5>1. Need[o][p] \in Nat
          BY TransactionsAssumption
        <5>2. Need[o][p] > 0 => (o \in F <=> o \in G)
          BY <3>2, <3>4 DEF Serving
        <5> QED
          BY <5>1, <5>2, NeedOfTyped
      <4> QED
        BY <4>1 DEF NeedOf
    <3> QED
      BY <3>2, <3>3, <3>5 DEF G
  <2>2. \A p \in Product : Promise!Handles(r, p) =>
          \E late \in SUBSET Promise!InStatus("CANCELLED") :
            cell'[p] = Promise!Moved(cell[p], Promise!NeedOf(Promise!InStatus("IN_PRODUCTION") \cup late, p),
                                     r.qty[p], Promise!NoOrder)
    BY <2>1, PromiseOperators
  <2>3. Promise!Arrive(r)
    BY <1>12, <1>13, <1>19, <2>2 DEF Promise!Arrive
  <2> QED
    BY <1>7, <2>3 DEF Promise!Next
<1>20. CASE r.kind = "start"
  <2> DEFINE o == OrderOf[r.doc]
  <2>0. o \in Order
    BY <1>20, OrderOfTyped DEF OrderOfRequest
  <2>1. ASSUME NEW p \in Product, Handles(r, p)
        PROVE  Promise!Taken(cell[p], cell'[p], o, r.qty[p])
    <3>1. Effect(r, k, p, <<>>, cell[p], cell'[p])
      BY <1>6, <1>9, <1>20, <2>1
    <3>2. PICK a \in [Source -> Nat] : StartEffect(r, k, p, <<>>, cell[p], cell'[p], a)
      BY <1>20, <3>1 DEF Effect
    <3> DEFINE x == a["STOCK"]
               y == a["PURCHASE"]
               q == r.qty[p]
    <3>3. x \in Nat /\ y \in Nat /\ q \in Nat /\ q \in Int
      BY SourceRows, RequestLines
    <3>4. Within(a, cell[p], o) /\ x + y + 0 <= q /\ cell'[p] = Ended(cell[p], o, a, q, x + y)
      BY <3>2 DEF StartEffect, OwedOf, Owed
    <3> HIDE DEF q, o
    <3>5. cell'[p] = Consume(Consume([cell[p] EXCEPT !.qty = @ - q], "STOCK", o, x), "PURCHASE", o, y)
      BY <1>14, <2>0, <3>3, <3>4, EndedIs
    <3> HIDE DEF x, y
    <3>6. x \in 0..q /\ y \in 0..q /\ x + y <= q
      BY <3>3, <3>4
    <3> QED
      BY <3>5, <3>6, PromiseOperators DEF Promise!Taken, q
  <2>2. status[r.doc] = "PLANNED" /\ StatusAfter(r) = "IN_PROGRESS"
    BY <1>5, <1>20 DEF Admitted, StatusAfter
  <2>3. Promise!Start(r)
    BY <1>11, <1>13, <1>20, <2>1, <2>2, PromiseOperators DEF Promise!Start
  <2> QED
    BY <1>7, <2>3 DEF Promise!Next
<1>21. CASE r.kind = "cancel"
  <2> DEFINE o == r.doc
  <2>0. o \in Order
    BY <1>21, OrderOfTyped
  <2>1. ASSUME NEW p \in Product
        PROVE  Promise!Freed(cell[p], cell'[p], o)
    <3>1. PICK a \in [Source -> Nat] : Within(a, cell[p], o) /\ cell'[p] = Ended(cell[p], o, a, 0, 0)
      <4>1. CASE cellOwner[p] = t
        BY <1>6, <1>21, <4>1 DEF Effect
      <4>2. CASE cellOwner[p] # t
        <5>1. /\ NothingOf \in [Source -> Nat] /\ Within(NothingOf, cell[p], o)
              /\ Ended(cell[p], o, NothingOf, 0, 0) = cell[p]
          BY <1>14, <2>0, EndedNothing
        <5> QED
          BY <1>6, <4>2, <5>1
      <4> QED
        BY <4>1, <4>2
    <3> DEFINE x == a["STOCK"]
               y == a["PURCHASE"]
    <3> HIDE DEF o
    <3>2. cell'[p] = Release(Release(cell[p], "STOCK", o, x), "PURCHASE", o, y)
      <4>1. 0 \in Int
        OBVIOUS
      <4> QED
        BY <1>14, <2>0, <3>1, <4>1, EndedIs
    <3>3. x \in 0..cell[p].hold["STOCK"][o] /\ y \in 0..cell[p].hold["PURCHASE"][o]
      <4>1. /\ x \in Nat /\ y \in Nat
            /\ x <= cell[p].hold["STOCK"][o] /\ y <= cell[p].hold["PURCHASE"][o]
        BY <3>1, SourceRows DEF Within
      <4>2. cell[p].hold["STOCK"][o] \in Nat /\ cell[p].hold["PURCHASE"][o] \in Nat
        BY <1>14, <2>0, GoodIsTyped, SourceRows
      <4> HIDE DEF x, y
      <4> QED
        BY <4>1, <4>2
    <3> HIDE DEF x, y
    <3> QED
      BY <3>2, <3>3, PromiseOperators DEF Promise!Freed
  <2>2. status[r.doc] # "CANCELLED" /\ StatusAfter(r) = "CANCELLED"
    BY <1>5, <1>21 DEF Admitted, StatusAfter
  <2>3. Promise!Cancel(r)
    BY <1>11, <1>21, <2>1, <2>2, PromiseOperators DEF Promise!Cancel
  <2> QED
    BY <1>7, <2>3 DEF Promise!Next
<1> QED
  BY <1>8, <1>16, <1>17, <1>18, <1>19, <1>20, <1>21 DEF Kind

LEMMA PromiseInit == Init => Promise!Init
BY DEF Init, Promise!Init, Promise!EmptyCell, EmptyCell, Promise!Source, Source, Promise!Order, Order, Doc

LEMMA PromiseStep ==
  InOrder /\ Sound /\ Effective /\ [Next]_vars => [Promise!Next]_(Promise!vars)
<1> SUFFICES ASSUME InOrder, Sound, Effective, [Next]_vars
             PROVE  Promise!Next \/ UNCHANGED <<cell, status>>
  BY DEF Promise!vars
<1>1. CASE UNCHANGED vars
  BY <1>1 DEF vars
<1>2. CASE Next
  <2>1. PICK t \in Tx : Begin(t) \/ Statements(t) \/ BreakDeadlock(t) \/ Fail(t)
    BY <1>2 DEF Next
  <2>2. CASE Commit(t)
    BY <2>2, CommitKeepsPromise
  <2>3. CASE ~ Commit(t)
    BY <2>1, <2>3 DEF Statements, Begin, GrantStatement, GrantTooSmall, Move, TopUpTurn, ReadStock, rows, Check, CheckFails,
       ListHolds, ReadRelease, ReadConsume, WriteHold, WriteStatus, BreakDeadlock, Fail,
       RollBack, Write, Read, Continue
  <2> QED
    BY <2>2, <2>3
<1> QED
  BY <1>1, <1>2

(***************************************************************************)
(* OneAfterTheOther: the requests, whose statements interleave, refine the *)
(* service that executes one request at a time.  The committed rows change *)
(* with a COMMIT only, and what it makes of them is what the request       *)
(* promises for the rows as they are then, although it acted on what it    *)
(* read before: on stock it locked at once, on orders in production that   *)
(* may have been cancelled since, on holds that nobody else ends.  It      *)
(* needs both hypotheses: of two cancellations or starts that read the     *)
(* same status, the second one would change what is no longer there.       *)
(***************************************************************************)
THEOREM TransactionsRefine ==
  Spec /\ []HoldsEndedOnce /\ []StatusWrittenOnce => OneAfterTheOther
BY InOrderInit, InOrderStep, SoundInit, SoundStep, EffectiveInit, EffectiveStep, PromiseInit, PromiseStep, PTL
   DEF Spec, OneAfterTheOther, Promise!Spec

(***************************************************************************)
(* And requests that do not clash are executed one after the other.        *)
(***************************************************************************)
THEOREM ApartRequestsRefine == Apart => (Spec => OneAfterTheOther)
BY ApartRequests, TransactionsRefine, PTL
=============================================================================
