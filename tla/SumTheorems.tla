----------------------------- MODULE SumTheorems -----------------------------
(***************************************************************************)
(* Facts about sums of rows, for every number of rows.                     *)
(***************************************************************************)
EXTENDS Sums, WellFoundedInduction, TLAPS

(***************************************************************************)
(* Induction over the natural numbers stated for a set, not an operator,   *)
(* so that it can be instantiated: the smallest number outside S would     *)
(* have a predecessor inside S.                                            *)
(***************************************************************************)
LEMMA SetInduction ==
  ASSUME NEW S, 0 \in S, \A n \in Nat : n \in S => n + 1 \in S
  PROVE  \A n \in Nat : n \in S
<1> DEFINE T == Nat \ S
           R == {ss \in Nat \X Nat : ss[1] < ss[2]}
<1>1. SUFFICES ASSUME T # {} PROVE FALSE
  OBVIOUS
<1>2. IsWellFoundedOn(R, Nat)
  BY NatLessThanWellFounded DEF OpToRel
<1> HIDE DEF R
<1>3. PICK m \in T : \A y \in T : ~ (<<y, m>> \in R)
  BY <1>1, <1>2, WFMin, T \subseteq Nat
<1>4. m # 0 /\ m - 1 \in Nat /\ m - 1 < m
  OBVIOUS
<1>5. m - 1 \in T
  BY <1>4
<1>6. <<m - 1, m>> \in R
  BY <1>4 DEF R
<1> QED
  BY <1>3, <1>5, <1>6

(***************************************************************************)
(* A function defined by recursion over 0..n exists: g gives the value at  *)
(* k from the value at k - 1.  Stated with definitions, which the provers  *)
(* instantiate without expanding them.                                     *)
(***************************************************************************)
Steps(g, S, n) == \A s \in S, k \in 1..n : g[<<s, k>>] \in S
Unfolds(f, g, S, s0, n) ==
  /\ f \in [0..n -> S]
  /\ f[0] = s0
  /\ \A k \in 1..n : f[k] = g[<<f[k - 1], k>>]

LEMMA RecursionExists ==
  ASSUME NEW S, NEW s0 \in S, NEW n \in Nat, NEW g, Steps(g, S, n)
  PROVE  \E f : Unfolds(f, g, S, s0, n)
<1> USE DEF Steps, Unfolds
<1> DEFINE Solves(f, m) == /\ f \in [0..m -> S]
                           /\ f[0] = s0
                           /\ \A k \in 1..m : f[k] = g[<<f[k - 1], k>>]
           Good == {m \in Nat : m <= n => \E f : Solves(f, m)}
<1>1. 0 \in Good
  <2>1. Solves([k \in 0..0 |-> s0], 0)
    OBVIOUS
  <2> QED
    BY <2>1
<1>2. ASSUME NEW m \in Nat, m \in Good
      PROVE  m + 1 \in Good
  <2>1. SUFFICES ASSUME m + 1 <= n PROVE \E f : Solves(f, m + 1)
    OBVIOUS
  <2>2. PICK f : Solves(f, m)
    BY <1>2, <2>1
  <2> DEFINE h == [k \in 0..(m + 1) |-> IF k = m + 1 THEN g[<<f[m], m + 1>>] ELSE f[k]]
  <2>3. g[<<f[m], m + 1>>] \in S
    BY <2>1, <2>2
  <2>4. h \in [0..(m + 1) -> S]
    BY <2>2, <2>3
  <2>5. h[0] = s0
    BY <2>2
  <2>6. \A k \in 1..(m + 1) : h[k] = g[<<h[k - 1], k>>]
    BY <2>2
  <2> HIDE DEF h
  <2> QED
    BY <2>4, <2>5, <2>6
<1> HIDE DEF Good
<1>3. n \in Good
  BY <1>1, <1>2, SetInduction
<1> QED
  BY <1>3 DEF Good

(***************************************************************************)
(* Running(f, n) is the function its recursive definition describes.       *)
(***************************************************************************)
LEMMA RunningDef ==
  ASSUME NEW n \in Nat, NEW f \in [1..n -> Int]
  PROVE  /\ Running(f, n) \in [0..n -> Int]
         /\ Running(f, n)[0] = 0
         /\ \A k \in 1..n : Running(f, n)[k] = Running(f, n)[k - 1] + f[k]
<1> DEFINE Z == Int
           g == [x \in Z \X (1..n) |-> x[1] + f[x[2]]]
           P(h) == h = [k \in 0..n |-> IF k = 0 THEN 0 ELSE h[k - 1] + f[k]]
<1>1. \A s \in Z, k \in 1..n : g[<<s, k>>] = s + f[k] /\ g[<<s, k>>] \in Z
  OBVIOUS
<1>2. \E h : Unfolds(h, g, Z, 0, n)
  <2>1. 0 \in Z
    OBVIOUS
  <2> HIDE DEF g, Z
  <2>2. Steps(g, Z, n)
    BY <1>1 DEF Steps
  <2> QED
    BY <2>1, <2>2, RecursionExists
<1> HIDE DEF g
<1>3. PICK h \in [0..n -> Int] : \A k \in 0..n : h[k] = IF k = 0 THEN 0 ELSE h[k - 1] + f[k]
  <2>1. PICK h : /\ h \in [0..n -> Z]
                 /\ h[0] = 0
                 /\ \A k \in 1..n : h[k] = g[<<h[k - 1], k>>]
    BY <1>2 DEF Unfolds
  <2>2. ASSUME NEW k \in 1..n PROVE h[k] = h[k - 1] + f[k]
    <3>1. k - 1 \in 0..n
      OBVIOUS
    <3>2. h[k - 1] \in Z
      BY <2>1, <3>1
    <3> QED
      BY <3>2, <2>1, <1>1
  <2>3. ASSUME NEW k \in 0..n PROVE h[k] = IF k = 0 THEN 0 ELSE h[k - 1] + f[k]
    BY <2>1, <2>2
  <2>4. h \in [0..n -> Int]
    BY <2>1
  <2> QED
    BY <2>3, <2>4
<1>4. P(h)
  BY <1>3
<1>5. P(Running(f, n))
  BY <1>4 DEF Running
<1> DEFINE r == Running(f, n)
<1>6. r = [k \in 0..n |-> IF k = 0 THEN 0 ELSE r[k - 1] + f[k]]
  BY <1>5
<1> HIDE DEF r
<1>7. r[0] = 0 /\ \A k \in 1..n : r[k] = r[k - 1] + f[k]
  BY <1>6
<1>8. \A k \in 0..n : r[k] \in Int
  <2> DEFINE S == {k \in Nat : k \in 0..n => r[k] \in Int}
  <2>1. 0 \in S
    BY <1>7
  <2>2. ASSUME NEW k \in Nat, k \in S PROVE k + 1 \in S
    <3>1. SUFFICES ASSUME k + 1 \in 0..n PROVE r[k + 1] \in Int
      OBVIOUS
    <3>2. k + 1 \in 1..n /\ k \in 0..n /\ (k + 1) - 1 = k
      BY <3>1
    <3>3. r[k + 1] = r[k] + f[k + 1]
      BY <1>7, <3>2
    <3> QED
      BY <2>2, <3>2, <3>3
  <2> HIDE DEF S
  <2>3. \A k \in Nat : k \in S
    BY <2>1, <2>2, SetInduction
  <2> QED
    BY <2>3 DEF S
<1>9. r \in [0..n -> Int]
  BY <1>6, <1>8
<1> QED
  BY <1>7, <1>9 DEF r

(***************************************************************************)
(* Any function that satisfies the recursion is the running total.         *)
(***************************************************************************)
LEMMA RunningUnique ==
  ASSUME NEW n \in Nat, NEW f \in [1..n -> Int],
         NEW r \in [0..n -> Int], r[0] = 0,
         \A k \in 1..n : r[k] = r[k - 1] + f[k]
  PROVE  \A k \in 0..n : Running(f, n)[k] = r[k]
<1> DEFINE t == Running(f, n)
           S == {k \in Nat : k \in 0..n => t[k] = r[k]}
<1>1. /\ t \in [0..n -> Int]
      /\ t[0] = 0
      /\ \A k \in 1..n : t[k] = t[k - 1] + f[k]
  BY RunningDef
<1> HIDE DEF t
<1>2. 0 \in S
  BY <1>1
<1>3. ASSUME NEW k \in Nat, k \in S PROVE k + 1 \in S
  <2>1. SUFFICES ASSUME k + 1 \in 0..n PROVE t[k + 1] = r[k + 1]
    OBVIOUS
  <2>2. k + 1 \in 1..n /\ k \in 0..n /\ (k + 1) - 1 = k
    BY <2>1
  <2>3. t[k + 1] = t[k] + f[k + 1] /\ r[k + 1] = r[k] + f[k + 1]
    BY <1>1, <2>2
  <2> QED
    BY <1>3, <2>2, <2>3
<1> HIDE DEF S
<1>4. \A k \in Nat : k \in S
  BY <1>2, <1>3, SetInduction
<1> QED
  BY <1>4 DEF S, t

(***************************************************************************)
(* A sum of integers is an integer; a sum of naturals a natural.           *)
(***************************************************************************)
LEMMA TotalInt ==
  ASSUME NEW n \in Nat, NEW f \in [1..n -> Int]
  PROVE  Total(f, n) \in Int
BY RunningDef DEF Total

LEMMA TotalNat ==
  ASSUME NEW n \in Nat, NEW f \in [1..n -> Nat]
  PROVE  Total(f, n) \in Nat
<1> DEFINE r == Running(f, n)
           S == {k \in Nat : k \in 0..n => r[k] \in Nat}
<1>1. /\ r \in [0..n -> Int]
      /\ r[0] = 0
      /\ \A k \in 1..n : r[k] = r[k - 1] + f[k]
  <2>1. f \in [1..n -> Int]
    OBVIOUS
  <2> QED
    BY <2>1, RunningDef
<1> HIDE DEF r
<1>2. 0 \in S
  BY <1>1
<1>3. ASSUME NEW k \in Nat, k \in S PROVE k + 1 \in S
  <2>1. SUFFICES ASSUME k + 1 \in 0..n PROVE r[k + 1] \in Nat
    OBVIOUS
  <2>2. k + 1 \in 1..n /\ k \in 0..n /\ (k + 1) - 1 = k
    BY <2>1
  <2>3. r[k + 1] = r[k] + f[k + 1]
    BY <1>1, <2>2
  <2> QED
    BY <1>3, <2>2, <2>3
<1> HIDE DEF S
<1>4. \A k \in Nat : k \in S
  BY <1>2, <1>3, SetInduction
<1> QED
  BY <1>4 DEF S, r, Total

(***************************************************************************)
(* The sum of rows that are all zero is zero.                              *)
(***************************************************************************)
LEMMA TotalZero ==
  ASSUME NEW n \in Nat
  PROVE  Total([i \in 1..n |-> 0], n) = 0
<1> DEFINE r == [k \in 0..n |-> 0]
           f == [i \in 1..n |-> 0]
<1>1. r \in [0..n -> Int] /\ r[0] = 0 /\ f \in [1..n -> Int]
  OBVIOUS
<1>2. \A k \in 1..n : r[k] = r[k - 1] + f[k]
  OBVIOUS
<1>3. \A k \in 0..n : Running(f, n)[k] = r[k]
  BY <1>1, <1>2, RunningUnique
<1> QED
  BY <1>3 DEF Total

(***************************************************************************)
(* Changing one row by d changes the sum by d: what an UPDATE of one row   *)
(* does to the aggregate over the table.                                   *)
(***************************************************************************)
LEMMA TotalUpdate ==
  ASSUME NEW n \in Nat, NEW f \in [1..n -> Int], NEW e \in [1..n -> Int],
         NEW i \in 1..n, NEW d \in Int,
         e[i] = f[i] + d, \A j \in 1..n : j # i => e[j] = f[j]
  PROVE  Total(e, n) = Total(f, n) + d
<1> DEFINE s == Running(f, n)
           r == [k \in 0..n |-> IF k >= i THEN s[k] + d ELSE s[k]]
<1>1. /\ s \in [0..n -> Int]
      /\ s[0] = 0
      /\ \A k \in 1..n : s[k] = s[k - 1] + f[k]
  BY RunningDef
<1> HIDE DEF s
<1>2. r \in [0..n -> Int] /\ r[0] = 0
  <2>1. \A k \in 0..n : s[k] \in Int /\ s[k] + d \in Int
    <3>1. \A k \in 0..n : s[k] \in Int
      BY <1>1
    <3> QED
      BY <3>1
  <2>2. 0 \in 0..n /\ ~ (0 >= i)
    OBVIOUS
  <2> QED
    BY <1>1, <2>1, <2>2
<1>3. ASSUME NEW k \in 1..n PROVE r[k] = r[k - 1] + e[k]
  <2>1. k - 1 \in 0..n /\ k \in 0..n
    OBVIOUS
  <2>2. s[k] = s[k - 1] + f[k] /\ s[k] \in Int /\ s[k - 1] \in Int
    BY <1>1, <2>1
  <2>3. CASE k = i
    BY <2>1, <2>2, <2>3
  <2>4. CASE k > i
    <3>1. k - 1 >= i /\ k >= i /\ k # i
      BY <2>4
    <3>2. r[k] = s[k] + d /\ r[k - 1] = s[k - 1] + d
      BY <2>1, <3>1
    <3>3. e[k] = f[k] /\ f[k] \in Int
      BY <3>1
    <3> HIDE DEF r
    <3> QED
      BY <2>2, <3>2, <3>3
  <2>5. CASE k < i
    BY <2>1, <2>2, <2>5
  <2> QED
    BY <2>3, <2>4, <2>5
<1> HIDE DEF r
<1>4. \A k \in 0..n : Running(e, n)[k] = r[k]
  BY <1>2, <1>3, RunningUnique
<1>5. n \in 0..n /\ n >= i
  OBVIOUS
<1> QED
  BY <1>4, <1>5 DEF r, s, Total

(***************************************************************************)
(* Rows that agree have the same sum.                                      *)
(***************************************************************************)
LEMMA TotalEqual ==
  ASSUME NEW n \in Nat, NEW f \in [1..n -> Int], NEW e \in [1..n -> Int],
         \A j \in 1..n : e[j] = f[j]
  PROVE  Total(e, n) = Total(f, n)
<1>1. e = f
  OBVIOUS
<1> QED
  BY <1>1

(***************************************************************************)
(* A row of a table of naturals is at most the sum of the table.           *)
(***************************************************************************)
LEMMA RowWithinTotal ==
  ASSUME NEW n \in Nat, NEW f \in [1..n -> Nat], NEW i \in 1..n
  PROVE  f[i] <= Total(f, n)
<1> DEFINE e == [f EXCEPT ![i] = 0]
<1>1. e \in [1..n -> Nat] /\ e[i] = f[i] + (- f[i]) /\ \A j \in 1..n : j # i => e[j] = f[j]
  OBVIOUS
<1> HIDE DEF e
<1>2. f \in [1..n -> Int] /\ e \in [1..n -> Int] /\ - f[i] \in Int
  BY <1>1
<1>3. Total(e, n) = Total(f, n) + (- f[i])
  BY <1>1, <1>2, TotalUpdate
<1>4. Total(e, n) \in Nat /\ Total(f, n) \in Nat
  BY <1>1, TotalNat
<1> QED
  BY <1>3, <1>4

(***************************************************************************)
(* What holds of the first element of a sequence of states and is kept by  *)
(* each step holds of all of them.                                         *)
(***************************************************************************)
LEMMA StaysIn ==
  ASSUME NEW S, NEW n \in Nat, NEW h, h[0] \in S,
         \A k \in 1..n : h[k - 1] \in S => h[k] \in S
  PROVE  \A k \in 0..n : h[k] \in S
<1> DEFINE T == {k \in Nat : k \in 0..n => h[k] \in S}
<1>1. 0 \in T
  OBVIOUS
<1>2. ASSUME NEW k \in Nat, k \in T PROVE k + 1 \in T
  <2>1. SUFFICES ASSUME k + 1 \in 0..n PROVE h[k + 1] \in S
    OBVIOUS
  <2>2. k + 1 \in 1..n /\ k \in 0..n /\ (k + 1) - 1 = k
    BY <2>1
  <2> QED
    BY <1>2, <2>2
<1> HIDE DEF T
<1>3. \A k \in Nat : k \in T
  BY <1>1, <1>2, SetInduction
<1> QED
  BY <1>3 DEF T

(***************************************************************************)
(* The sum of the rows 1..n + 1 is that of the first n and the last.       *)
(***************************************************************************)
LEMMA TotalSplit ==
  ASSUME NEW n \in Nat, NEW f \in [1..(n + 1) -> Int], NEW g \in [1..n -> Int],
         \A i \in 1..n : g[i] = f[i]
  PROVE  Total(f, n + 1) = Total(g, n) + f[n + 1]
<1>0. PICK m \in Nat : m = n + 1
  OBVIOUS
<1> DEFINE r == Running(f, m)
           s == [k \in 0..n |-> r[k]]
<1>1. /\ r \in [0..m -> Int] /\ r[0] = 0
      /\ \A k \in 1..m : r[k] = r[k - 1] + f[k]
  <2>1. f \in [1..m -> Int]
    BY <1>0
  <2> QED
    BY <2>1, RunningDef
<1> HIDE DEF r
<1>2. s \in [0..n -> Int] /\ s[0] = 0
  BY <1>0, <1>1
<1>3. \A k \in 1..n : s[k] = s[k - 1] + g[k]
  <2> TAKE k \in 1..n
  <2>1. k - 1 \in 0..n /\ k \in 0..n /\ k \in 1..m
    BY <1>0
  <2> QED
    BY <1>1, <2>1
<1>4. s[n] = r[n]
  OBVIOUS
<1> HIDE DEF s
<1>5. \A k \in 0..n : Running(g, n)[k] = s[k]
  BY ONLY <1>2, <1>3, n \in Nat, g \in [1..n -> Int], RunningUnique
<1>6. r[m] = r[n] + f[m]
  BY <1>0, <1>1
<1>7. Total(f, m) = Total(g, n) + f[m]
  BY <1>4, <1>5, <1>6 DEF Total, r
<1> QED
  BY <1>0, <1>7

LEMMA TotalNone ==
  ASSUME NEW f \in [1..0 -> Int]
  PROVE  Total(f, 0) = 0
<1>1. PICK n \in Nat : n = 0
  OBVIOUS
<1>2. f \in [1..n -> Int]
  BY <1>1
<1>3. Running(f, n)[0] = 0
  BY <1>2, RunningDef
<1> QED
  BY <1>1, <1>3 DEF Total

LEMMA TotalOne ==
  ASSUME NEW f \in [1..1 -> Int]
  PROVE  Total(f, 1) = f[1]
<1>1. PICK n \in Nat : n = 1
  OBVIOUS
<1>2. f \in [1..n -> Int]
  BY <1>1
<1> DEFINE r == Running(f, n)
<1>3. r[0] = 0 /\ \A k \in 1..n : r[k] = r[k - 1] + f[k]
  BY <1>2, RunningDef
<1> HIDE DEF r
<1>4. r[1] = r[0] + f[1] /\ f[1] \in Int
  BY <1>1, <1>3
<1> QED
  BY <1>1, <1>3, <1>4 DEF Total, r

LEMMA TotalTwo ==
  ASSUME NEW f \in [1..2 -> Int]
  PROVE  Total(f, 2) = f[1] + f[2]
<1>1. PICK n \in Nat : n = 2
  OBVIOUS
<1>2. f \in [1..n -> Int]
  BY <1>1
<1> DEFINE r == Running(f, n)
<1>3. r[0] = 0 /\ \A k \in 1..n : r[k] = r[k - 1] + f[k]
  BY <1>2, RunningDef
<1> HIDE DEF r
<1>4. r[1] = r[0] + f[1] /\ r[2] = r[1] + f[2] /\ f[1] \in Int /\ f[2] \in Int
  BY <1>1, <1>3
<1> QED
  BY <1>1, <1>3, <1>4 DEF Total, r

(***************************************************************************)
(* Rows that are no greater have a sum that is no greater; rows of which   *)
(* twice is no greater, a sum of which twice is no greater.                *)
(***************************************************************************)
LEMMA TotalMonotone ==
  ASSUME NEW n \in Nat, NEW f \in [1..n -> Int], NEW g \in [1..n -> Int],
         \A i \in 1..n : g[i] <= f[i]
  PROVE  Total(g, n) <= Total(f, n)
<1> DEFINE r == Running(f, n)
           s == Running(g, n)
           S == {k \in Nat : k \in 0..n => s[k] <= r[k]}
<1>1. /\ r \in [0..n -> Int] /\ r[0] = 0
      /\ \A k \in 1..n : r[k] = r[k - 1] + f[k]
  BY RunningDef
<1>2. /\ s \in [0..n -> Int] /\ s[0] = 0
      /\ \A k \in 1..n : s[k] = s[k - 1] + g[k]
  BY RunningDef
<1> HIDE DEF r, s
<1>3. 0 \in S
  BY <1>1, <1>2
<1>4. ASSUME NEW k \in Nat, k \in S PROVE k + 1 \in S
  <2>1. SUFFICES ASSUME k + 1 \in 0..n PROVE s[k + 1] <= r[k + 1]
    OBVIOUS
  <2>2. k + 1 \in 1..n /\ k \in 0..n /\ (k + 1) - 1 = k
    BY <2>1
  <2>3. r[k + 1] = r[k] + f[k + 1] /\ s[k + 1] = s[k] + g[k + 1]
    BY <1>1, <1>2, <2>2
  <2>4. r[k] \in Int /\ s[k] \in Int /\ f[k + 1] \in Int /\ g[k + 1] \in Int
    BY <1>1, <1>2, <2>2
  <2>5. s[k] <= r[k] /\ g[k + 1] <= f[k + 1]
    BY <1>4, <2>2
  <2> QED
    BY <2>3, <2>4, <2>5
<1> HIDE DEF S
<1>5. n \in S
  BY <1>3, <1>4, SetInduction
<1> QED
  BY <1>5 DEF S, Total, r, s

LEMMA TotalOfHalves ==
  ASSUME NEW n \in Nat, NEW f \in [1..n -> Int], NEW g \in [1..n -> Int],
         \A i \in 1..n : 2 * g[i] <= f[i]
  PROVE  2 * Total(g, n) <= Total(f, n)
<1> DEFINE r == Running(f, n)
           s == Running(g, n)
           S == {k \in Nat : k \in 0..n => 2 * s[k] <= r[k]}
<1>1. /\ r \in [0..n -> Int] /\ r[0] = 0
      /\ \A k \in 1..n : r[k] = r[k - 1] + f[k]
  BY RunningDef
<1>2. /\ s \in [0..n -> Int] /\ s[0] = 0
      /\ \A k \in 1..n : s[k] = s[k - 1] + g[k]
  BY RunningDef
<1> HIDE DEF r, s
<1>3. 0 \in S
  BY <1>1, <1>2
<1>4. ASSUME NEW k \in Nat, k \in S PROVE k + 1 \in S
  <2>1. SUFFICES ASSUME k + 1 \in 0..n PROVE 2 * s[k + 1] <= r[k + 1]
    OBVIOUS
  <2>2. k + 1 \in 1..n /\ k \in 0..n /\ (k + 1) - 1 = k
    BY <2>1
  <2>3. r[k + 1] = r[k] + f[k + 1] /\ s[k + 1] = s[k] + g[k + 1]
    BY <1>1, <1>2, <2>2
  <2>4. r[k] \in Int /\ s[k] \in Int /\ f[k + 1] \in Int /\ g[k + 1] \in Int
    BY <1>1, <1>2, <2>2
  <2>5. 2 * s[k] <= r[k] /\ 2 * g[k + 1] <= f[k + 1]
    BY <1>4, <2>2
  <2>6. PICK a \in Int, b \in Int, c \in Int, d \in Int :
          a = r[k] /\ b = s[k] /\ c = f[k + 1] /\ d = g[k + 1]
    BY <2>4
  <2>7. 2 * (b + d) <= a + c
    <3>1. 2 * b <= a /\ 2 * d <= c
      BY <2>5, <2>6
    <3> QED
      BY ONLY <3>1, a \in Int, b \in Int, c \in Int, d \in Int
  <2> QED
    BY <2>3, <2>6, <2>7
<1> HIDE DEF S
<1>5. n \in S
  BY <1>3, <1>4, SetInduction
<1> QED
  BY <1>5 DEF S, Total, r, s

(***************************************************************************)
(* The total of the sums is the sum of the totals.                         *)
(***************************************************************************)
LEMMA TotalPlus ==
  ASSUME NEW n \in Nat, NEW f \in [1..n -> Int], NEW g \in [1..n -> Int], NEW h \in [1..n -> Int],
         \A i \in 1..n : h[i] = f[i] + g[i]
  PROVE  Total(h, n) = Total(f, n) + Total(g, n)
<1> DEFINE r == Running(f, n)
           s == Running(g, n)
           w == [k \in 0..n |-> r[k] + s[k]]
<1>1. /\ r \in [0..n -> Int] /\ r[0] = 0 /\ \A k \in 1..n : r[k] = r[k - 1] + f[k]
      /\ s \in [0..n -> Int] /\ s[0] = 0 /\ \A k \in 1..n : s[k] = s[k - 1] + g[k]
  BY RunningDef
<1> HIDE DEF r, s
<1>2. w \in [0..n -> Int] /\ w[0] = 0
  BY <1>1
<1>3. \A k \in 1..n : w[k] = w[k - 1] + h[k]
  <2> TAKE k \in 1..n
  <2>1. k \in 0..n /\ k - 1 \in 0..n
    OBVIOUS
  <2>2. w[k] = r[k] + s[k] /\ w[k - 1] = r[k - 1] + s[k - 1]
    BY <2>1
  <2> HIDE DEF w
  <2>3. r[k - 1] \in Int /\ s[k - 1] \in Int /\ f[k] \in Int /\ g[k] \in Int
    BY <1>1, <2>1
  <2> QED
    BY <1>1, <2>2, <2>3
<1>4. w[n] = r[n] + s[n] /\ n \in 0..n
  OBVIOUS
<1> HIDE DEF w
<1>5. \A k \in 0..n : Running(h, n)[k] = w[k]
  BY <1>2, <1>3, RunningUnique
<1> QED
  BY <1>4, <1>5 DEF Total, r, s

(***************************************************************************)
(* All rows but one are 0.                                                 *)
(***************************************************************************)
LEMMA TotalSingle ==
  ASSUME NEW n \in Nat, NEW f \in [1..n -> Int], NEW i \in 1..n,
         \A j \in 1..n : j # i => f[j] = 0
  PROVE  Total(f, n) = f[i]
<1>1. PICK z : z = [j \in 1..n |-> 0]
  OBVIOUS
<1>2. z \in [1..n -> Int] /\ Total(z, n) = 0 /\ \A j \in 1..n : z[j] = 0
  BY <1>1, TotalZero
<1>3. PICK d \in Int : d = f[i]
  OBVIOUS
<1>4. f[i] = z[i] + d /\ \A j \in 1..n : j # i => f[j] = z[j]
  BY <1>2, <1>3
<1>5. Total(f, n) = Total(z, n) + d
  BY <1>2, <1>4, TotalUpdate
<1> QED
  BY <1>2, <1>3, <1>5

(***************************************************************************)
(* All rows but two, or but three, are 0.                                  *)
(***************************************************************************)
LEMMA TotalOfTwo ==
  ASSUME NEW n \in Nat, NEW f \in [1..n -> Int], NEW i \in 1..n, NEW j \in 1..n, i # j,
         \A k \in 1..n : k \notin {i, j} => f[k] = 0
  PROVE  Total(f, n) = f[i] + f[j]
<1>1. PICK e : e = [f EXCEPT ![j] = 0]
  OBVIOUS
<1>2. e \in [1..n -> Int] /\ e[i] = f[i] /\ \A k \in 1..n : k # i => e[k] = 0
  BY <1>1
<1>3. PICK d \in Int : d = f[j]
  OBVIOUS
<1>4. e \in [1..n -> Int] /\ f[j] = e[j] + d
  BY <1>1, <1>2, <1>3
<1>5. \A k \in 1..n : k # j => f[k] = e[k]
  BY <1>1
<1>6. Total(f, n) = Total(e, n) + d
  BY <1>4, <1>5, TotalUpdate
<1>7. Total(e, n) = e[i]
  BY <1>2, TotalSingle
<1>8. Total(e, n) = f[i] /\ f[i] \in Int
  BY <1>2, <1>7
<1> QED
  BY <1>3, <1>6, <1>8

LEMMA TotalOfThree ==
  ASSUME NEW n \in Nat, NEW f \in [1..n -> Int], NEW i \in 1..n, NEW j \in 1..n, NEW m \in 1..n,
         i # j, i # m, j # m,
         \A k \in 1..n : k \notin {i, j, m} => f[k] = 0
  PROVE  Total(f, n) = f[i] + f[j] + f[m]
<1>1. PICK e : e = [f EXCEPT ![m] = 0]
  OBVIOUS
<1>2. e \in [1..n -> Int] /\ e[i] = f[i] /\ e[j] = f[j] /\ \A k \in 1..n : k \notin {i, j} => e[k] = 0
  BY <1>1
<1>3. PICK d \in Int : d = f[m]
  OBVIOUS
<1>4. /\ e \in [1..n -> Int] /\ f \in [1..n -> Int] /\ m \in 1..n /\ d \in Int
      /\ f[m] = e[m] + d /\ \A k \in 1..n : k # m => f[k] = e[k]
  BY <1>1, <1>2, <1>3
<1>5. Total(f, n) = Total(e, n) + d
  BY SMTT(30), <1>4, TotalUpdate
<1>6. Total(e, n) = e[i] + e[j]
  BY <1>2, TotalOfTwo
<1>7. f[i] \in Int /\ f[j] \in Int
  OBVIOUS
<1> QED
  BY <1>2, <1>3, <1>5, <1>6, <1>7

(***************************************************************************)
(* Rows copied to other places, each to one of its own, where the other    *)
(* places are 0.                                                           *)
(***************************************************************************)
Renumbers(place, g, h, m, n) ==
  /\ place \in [1..m -> 1..n] /\ g \in [1..m -> Int] /\ h \in [1..n -> Int]
  /\ \A j, k \in 1..m : place[j] = place[k] => j = k
  /\ \A k \in 1..m : h[place[k]] = g[k]
  /\ \A x \in 1..n : (\E k \in 1..m : place[k] = x) \/ h[x] = 0

LEMMA TotalRenumbered ==
  ASSUME NEW m \in Nat, NEW n \in Nat, NEW place, NEW g, NEW h, Renumbers(place, g, h, m, n)
  PROVE  Total(h, n) = Total(g, m)
<1> DEFINE S == {k \in Nat : \A p, e, f : Renumbers(p, e, f, k, n) => Total(f, n) = Total(e, k)}
<1>1. 0 \in S
  <2> SUFFICES ASSUME NEW p, NEW e, NEW f, Renumbers(p, e, f, 0, n) PROVE Total(f, n) = Total(e, 0)
    OBVIOUS
  <2>1. e \in [1..0 -> Int] /\ f \in [1..n -> Int] /\ \A x \in 1..n : f[x] = 0
    BY DEF Renumbers
  <2>2. f = [x \in 1..n |-> 0]
    BY <2>1
  <2> QED
    BY <2>1, <2>2, TotalNone, TotalZero
<1>2. ASSUME NEW k \in Nat, k \in S PROVE k + 1 \in S
  <2> SUFFICES ASSUME NEW p, NEW e, NEW f, Renumbers(p, e, f, k + 1, n)
               PROVE  Total(f, n) = Total(e, k + 1)
    OBVIOUS
  <2>1. /\ p \in [1..(k + 1) -> 1..n] /\ e \in [1..(k + 1) -> Int] /\ f \in [1..n -> Int]
        /\ \A i, j \in 1..(k + 1) : p[i] = p[j] => i = j
        /\ \A i \in 1..(k + 1) : f[p[i]] = e[i]
        /\ \A x \in 1..n : (\E i \in 1..(k + 1) : p[i] = x) \/ f[x] = 0
    BY DEF Renumbers
  <2>2. k + 1 \in 1..(k + 1) /\ \A i \in 1..k : i \in 1..(k + 1) /\ i # k + 1
    OBVIOUS
  <2>3. PICK last \in 1..n : last = p[k + 1]
    BY <2>1, <2>2
  <2>4. PICK d \in Int : d = e[k + 1]
    BY <2>1, <2>2
  <2>5. PICK q : q = [i \in 1..k |-> p[i]]
    OBVIOUS
  <2>6. PICK c : c = [i \in 1..k |-> e[i]]
    OBVIOUS
  <2>7. PICK b : b = [x \in 1..n |-> IF x = last THEN 0 ELSE f[x]]
    OBVIOUS
  <2>8. q \in [1..k -> 1..n] /\ c \in [1..k -> Int] /\ b \in [1..n -> Int]
    BY <2>1, <2>2, <2>5, <2>6, <2>7
  <2>9. \A i, j \in 1..k : q[i] = q[j] => i = j
    BY <2>1, <2>2, <2>5
  <2>10. \A i \in 1..k : b[q[i]] = c[i]
    BY <2>1, <2>2, <2>3, <2>5, <2>6, <2>7
  <2>11. ASSUME NEW x \in 1..n PROVE (\E i \in 1..k : q[i] = x) \/ b[x] = 0
    <3>1. CASE x = last
      BY <2>7, <3>1
    <3>2. CASE x # last /\ \E i \in 1..(k + 1) : p[i] = x
      <4>1. PICK i \in 1..(k + 1) : p[i] = x
        BY <3>2
      <4>2. i \in 1..k
        BY <2>3, <3>2, <4>1
      <4> QED
        BY <2>5, <4>1, <4>2
    <3>3. CASE x # last /\ f[x] = 0
      BY <2>7, <3>3
    <3> QED
      BY <2>1, <3>1, <3>2, <3>3
  <2>12. Renumbers(q, c, b, k, n)
    BY <2>8, <2>9, <2>10, <2>11 DEF Renumbers
  <2>13. Total(b, n) = Total(c, k)
    BY <1>2, <2>12
  <2>14. f[last] = b[last] + d /\ \A x \in 1..n : x # last => f[x] = b[x]
    BY <2>1, <2>2, <2>3, <2>4, <2>7
  <2>15. Total(f, n) = Total(b, n) + d
    <3> HIDE DEF S
    <3>1. f \in [1..n -> Int] /\ b \in [1..n -> Int]
      BY <2>1, <2>8
    <3> QED
      BY <2>14, <3>1, TotalUpdate
  <2>16. \A i \in 1..k : c[i] = e[i]
    BY <2>6
  <2>17. Total(e, k + 1) = Total(c, k) + e[k + 1]
    BY <2>1, <2>8, <2>16, TotalSplit
  <2> QED
    BY <2>4, <2>13, <2>15, <2>17
<1> HIDE DEF S
<1>3. m \in S
  BY <1>1, <1>2, SetInduction
<1> QED
  BY <1>3 DEF S
=============================================================================
