-------------------------------- MODULE Sums --------------------------------
(***************************************************************************)
(* Sums over the rows of a table, as the services and the database compute *)
(* them: rows are numbered 1..n (orders in creation order, warehouses,     *)
(* production batches).  Written as a recursive function, so that the      *)
(* facts of SumTheorems can be proved about it for every n.                *)
(***************************************************************************)
EXTENDS Integers

\* The running totals 0, f[1], f[1] + f[2], ... of the rows 1..n.
Running(f, n) ==
  LET upTo[k \in 0..n] == IF k = 0 THEN 0 ELSE upTo[k - 1] + f[k]
  IN  upTo

\* SUM(f) over the rows 1..n.
Total(f, n) == Running(f, n)[n]

\* LEAST(a, b) and GREATEST(n, 0) of the SQL statements, Math.min and
\* Math.max(n, 0) of the TypeScript.
Least(a, b) == IF a <= b THEN a ELSE b
NonNegative(n) == IF n >= 0 THEN n ELSE 0

\* What Math.round makes of a quotient: the nearest unit (a cent, a thousandth).
\* Of two equally near ones floating point picks either.
Nearest(n, d) == {k \in {n \div d, n \div d + 1} : 2 * (k * d - n) <= d /\ 2 * (n - k * d) <= d}
=============================================================================
