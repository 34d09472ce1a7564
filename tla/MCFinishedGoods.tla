-------------------------- MODULE MCFinishedGoods --------------------------
(***************************************************************************)
(* Small instances of FinishedGoods for TLC: one unit of assembly 2 is     *)
(* made from one unit of assembly 1.                                       *)
(***************************************************************************)
EXTENDS FinishedGoods

FrameInPallet == <<<<0, 0>>, <<1, 0>>>>
=============================================================================
