------------------------------- MODULE MCLiveGraph -------------------------------
(* Two tests of two targets, one executed twice and one once, and a buffer of two events. *)
EXTENDS LiveGraph, TLC

CONSTANTS t1, t2, x1, x2, x3, a, b

TaskOf == [x \in Executions |-> IF x = x3 THEN t2 ELSE t1]

\* The executions of the first test may be exchanged.
Alike == Permutations({x1, x2})

TargetOf == [t \in Tests |-> IF t = t1 THEN a ELSE b]

=============================================================================
