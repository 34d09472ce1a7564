----------------------------- MODULE MCWorkBot ------------------------------
(* Small instances of WorkBot. *)
EXTENDS WorkBot, TLC
=============================================================================
