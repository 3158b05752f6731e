-------------------------- MODULE MCExecutionAgent --------------------------
(* Runs of ExecutionAgent for model checking. *)
EXTENDS ExecutionAgent, TLC

CONSTANTS slot, t1, t2, t3

\* All task ids share their first eight characters.
MCSlots == {slot}
MCSlot == [t \in Tasks |-> slot]

Symmetry == Permutations(Requests) \cup Permutations({t1, t2})

=============================================================================
