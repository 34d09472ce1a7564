---------------------------- MODULE MCExecutions ----------------------------
(* Small instances of Executions. *)
EXTENDS Executions, TLC

CONSTANTS batch, task, ann, bob

Share(who, weight) == [who |-> who, weight |-> weight]

\* Bob has done twice as much as Ann.
Both == {<<Share(bob, 2), Share(ann, 1)>>}
OneUnit == batch :> 1
FirstDay == [p \in Period |-> {1}]
=============================================================================
