------------------------------- MODULE MCMockNode -------------------------------
(* Instances of MockNode for TLC: how many outside calls. *)
EXTENDS MockNode

Calls == [submit |-> 3, hold |-> 1, reset |-> 1]
================================================================================
