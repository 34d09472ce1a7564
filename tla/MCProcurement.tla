--------------------------- MODULE MCProcurement ---------------------------
(***************************************************************************)
(* Small instances of Procurement for TLC.                                 *)
(***************************************************************************)
EXTENDS Procurement, TLC

CONSTANTS c1, c2, q1, q2, \* connections and purchase requests
          r1, r2          \* a requirement of customer order 1, one of order 2

ForEach == r1 :> 1 @@ r2 :> 2
Needs == r1 :> 1 @@ r2 :> 3

Line1(qty, needs, stocked) == [qty |-> qty, needs |-> needs, stocked |-> stocked]

\* A product for both customer orders, and an article not yet in Products.
BothForms == {<<Line1(2, {r1, r2}, TRUE)>>, <<Line1(1, {}, FALSE)>>}
SharedForm == {<<Line1(2, {r1, r2}, TRUE)>>}

\* An order of a product for customer order 1 and of an article not yet in
\* Products.
TwoLines == {<<[qty |-> 1, need |-> r1, stocked |-> TRUE], [qty |-> 2, need |-> None, stocked |-> FALSE]>>}
OneLine == {<<[qty |-> 1, need |-> None, stocked |-> TRUE]>>}

\* Connections are alike, and so are requests.
Alike == Permutations(Connection) \cup Permutations(Request)
=============================================================================
