----------------------------- MODULE OracleGate -----------------------------
(***************************************************************************)
(* What the quality-engineering workflow promises whoever starts it,       *)
(* whatever the agents, the network and the workers do: a run drafts at    *)
(* most MaxDrafts candidate suites, hands its draft to the executor only   *)
(* after the Quality Oracle granted that very draft, drafts nothing once   *)
(* its draft is granted, and is reported as promoted only after an         *)
(* execution.                                                              *)
(*                                                                         *)
(* A run whose history was written before the gate existed starts out with *)
(* a granted draft: replay must not change what such a run already did.    *)
(*                                                                         *)
(* QEWorkflow refines this specification (QEWorkflow!RefinesGate).         *)
(***************************************************************************)
EXTENDS Naturals

CONSTANTS
  Workflows,   \* identifiers of workflow runs
  MaxDrafts    \* candidates a run may draft

VARIABLES
  stage,       \* [Workflows -> Stages]
  drafts,      \* [Workflows -> 0..MaxDrafts]: drafts received so far
  granted      \* [Workflows -> SUBSET 1..MaxDrafts]: drafts the Oracle granted

gateVars == <<stage, drafts, granted>>

Stages == {"drafting", "executing", "promoted", "ended"}

Init ==
  \E grandfathered \in SUBSET Workflows :
    /\ stage = [w \in Workflows |-> "drafting"]
    /\ drafts = [w \in Workflows |-> IF w \in grandfathered THEN 1 ELSE 0]
    /\ granted = [w \in Workflows |-> IF w \in grandfathered THEN {1} ELSE {}]

Draft(w) ==
  /\ stage[w] = "drafting"
  /\ drafts[w] < MaxDrafts
  /\ drafts[w] \notin granted[w]
  /\ drafts' = [drafts EXCEPT ![w] = @ + 1]
  /\ UNCHANGED <<stage, granted>>

Grant(w) ==
  /\ stage[w] = "drafting"
  /\ drafts[w] > 0
  /\ granted' = [granted EXCEPT ![w] = @ \cup {drafts[w]}]
  /\ UNCHANGED <<stage, drafts>>

\* What executes is the last draft.
Execute(w) ==
  /\ stage[w] = "drafting"
  /\ drafts[w] \in granted[w]
  /\ stage' = [stage EXCEPT ![w] = "executing"]
  /\ UNCHANGED <<drafts, granted>>

Promote(w) ==
  /\ stage[w] = "executing"
  /\ stage' = [stage EXCEPT ![w] = "promoted"]
  /\ UNCHANGED <<drafts, granted>>

\* Rejection, error, cancellation, incomplete contract, or a failed suite.
End(w) ==
  /\ stage[w] \in {"drafting", "executing"}
  /\ stage' = [stage EXCEPT ![w] = "ended"]
  /\ UNCHANGED <<drafts, granted>>

Next ==
  \E w \in Workflows : Draft(w) \/ Grant(w) \/ Execute(w) \/ Promote(w) \/ End(w)

Spec == Init /\ [][Next]_gateVars

=============================================================================
