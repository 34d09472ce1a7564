---------------------------- MODULE MCInventory ----------------------------
(***************************************************************************)
(* Small instances of Inventory for TLC.                                   *)
(***************************************************************************)
EXTENDS Inventory

CONSTANT steel           \* a product

\* The component lists of the runs: so many of the product per unit.
OnePerUnit == {[p \in Product |-> 1]}
TwoPerUnit == {[p \in Product |-> 2]}

NarrowStock == -1..3
=============================================================================
