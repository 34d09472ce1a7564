---------------------------- MODULE MCProduction ----------------------------
(***************************************************************************)
(* Small instances of Production for TLC.                                  *)
(***************************************************************************)
EXTENDS Production

CONSTANT steel           \* a product

\* The component lists of the runs: so many of the product per unit.
OnePerUnit == {[p \in Product |-> 1]}
=============================================================================
