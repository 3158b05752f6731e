----------------------------- MODULE TaskQueue -----------------------------
(***************************************************************************)
(* What the platform is promised of the tasks it submits to AQE: they are  *)
(* answered in order, a task is acknowledged only once it is answered, and *)
(* an acknowledgement is never taken back.  Answering again, before or     *)
(* after the acknowledgement, is allowed: delivery is at least once.       *)
(*                                                                         *)
(* ByoaAdapter refines this specification (RefinesTaskQueue there).        *)
(***************************************************************************)
EXTENDS Naturals

CONSTANT N          \* the number of tasks in the topic

VARIABLES
  answered,         \* the tasks that have an answer
  acknowledged      \* 1..acknowledged are the tasks that are never delivered again

queueVars == <<answered, acknowledged>>

Init == answered = {} /\ acknowledged = 0

Answer(i) ==
  /\ i \notin answered
  /\ 1..(i - 1) \subseteq answered
  /\ answered' = answered \cup {i}
  /\ UNCHANGED acknowledged

Acknowledge ==
  /\ acknowledged + 1 \in answered
  /\ acknowledged' = acknowledged + 1
  /\ UNCHANGED answered

Next == (\E i \in 1..N : Answer(i)) \/ Acknowledge

Spec == Init /\ [][Next]_queueVars

=============================================================================
