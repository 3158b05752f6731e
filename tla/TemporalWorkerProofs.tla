------------------------ MODULE TemporalWorkerProofs ------------------------
(***************************************************************************)
(* Proofs about the workflows of temporal_worker/workflow.py:              *)
(* QEWorkflow, for any set of runs, and FleetCampaign, for any requests,   *)
(* ids and size of a batch.                                                *)
(***************************************************************************)
EXTENDS QEWorkflow, FleetCampaign, FiniteSetTheorems, TLAPS

-----------------------------------------------------------------------------
(* Runs *)

\* Activities whose retry policy allows a single attempt.
SingleAttempt == GenerationCalls \cup {"review_generated_tests"}

\* The awaits in which the executor may be at work for the run.
ExecutionPhase == {"execute_and_repair", "workflow_completed", "closed"}

\* A run past the gate is legacy or holds an approval of its current draft.
PastGateApproved ==
  \A w \in Workflows :
    awaiting[w] \in {"test_execution_started", "execute_and_repair"} =>
      \/ request[w].legacy
      \/ draft[w] \in approved[w]

\* No other run has an approval, and a legacy run executes what it had.
NotYetApproved ==
  \A w \in Workflows :
    /\ awaiting[w] \notin ExecutionPhase \cup {"test_execution_started"} => approved[w] = {}
    /\ request[w].legacy => awaiting[w] \in {"execute_and_repair", "closed"} /\ draft[w] = 1

\* A single-attempt request of an open run is the one the run waits for.
SingleAttemptsAwaited ==
  \A call \in calls :
    call.activity \in SingleAttempt =>
      \/ awaiting[call.workflow] = "closed"
      \/ running[call.workflow] /\ call = CurrentCall(call.workflow)

\* An executor request exists only from dispatch on.
ExecutionsInPhase ==
  \A call \in calls :
    call.activity = "execute_and_repair" =>
      awaiting[call.workflow] \in ExecutionPhase

\* How many drafts a run has when it waits for a generation.
DraftCounted ==
  \A w \in Workflows :
    /\ awaiting[w] \in {"workflow_started", "agent_discovery_started",
                        "discover_agent", "source_analysis_started",
                        "analyze_source", "test_generation_started",
                        "generate_tests"} => draft[w] = 0
    /\ awaiting[w] \in {"repair_generation_started", "regenerate_tests"} => draft[w] = 1
    /\ awaiting[w] \in {"oracle_review_started", "review_generated_tests",
                        "test_execution_started", "execute_and_repair"} => draft[w] > 0

\* Attempts stay within the policy, and a running attempt has been counted.
AttemptsBounded ==
  \A w \in Workflows :
    /\ awaiting[w] # "closed" => attempt[w] <= MaxAttempts(awaiting[w])
    /\ running[w] => attempt[w] > 0
    /\ awaiting[w] # "closed" /\ ~running[w] => attempt[w] < MaxAttempts(awaiting[w])
    /\ awaiting[w] = "closed" => ~running[w]

(* Control: where a run is, with how many drafts and attempts. *)
ControlInv == TypeOK /\ DraftCounted /\ AttemptsBounded

LEMMA AfterStageType ==
  ASSUME NEW w \in Workflows
  PROVE  AfterStage(w) \in AgentCalls \cup {"agent_discovery_started",
                            "source_analysis_started", "test_generation_started"}
BY DEF AfterStage, AfterDiscovery, AgentCalls, GenerationCalls

LEMMA ControlStep == ControlInv /\ [Next]_vars => ControlInv'
<1> SUFFICES ASSUME ControlInv, [Next]_vars PROVE ControlInv'
  OBVIOUS
<1> USE DEF ControlInv, TypeOK, DraftCounted, AttemptsBounded, Request, Awaits,
            Outcomes, Calls, StageEvents, AgentCalls, GenerationCalls,
            MaxAttempts, ReviewAttempts, CurrentCall,
            Await, Close, Results, Replied
<1>1. ASSUME NEW w \in Workflows, Dispatch(w) PROVE ControlInv'
  BY <1>1, SMTT(30) DEF Dispatch
<1>2. ASSUME NEW w \in Workflows, StageRecorded(w) PROVE ControlInv'
  <2>1. TypeOK'
    BY <1>2, AfterStageType DEF StageRecorded
  <2>2. DraftCounted'
    BY <1>2, AfterStageType DEF StageRecorded, AfterStage, AfterDiscovery
  <2>3. AttemptsBounded'
    BY <1>2, AfterStageType DEF StageRecorded, AfterStage, AfterDiscovery
  <2>4. QED
    BY <2>1, <2>2, <2>3
<1>3. ASSUME NEW w \in Workflows, Discovered(w) PROVE ControlInv'
  BY <1>3 DEF Discovered, AfterDiscovery
<1>4. ASSUME NEW w \in Workflows, Analyzed(w) PROVE ControlInv'
  BY <1>4 DEF Analyzed
<1>5. ASSUME NEW w \in Workflows, Generated(w) PROVE ControlInv'
  BY <1>5 DEF Generated
<1>6. ASSUME NEW w \in Workflows, Regenerated(w) PROVE ControlInv'
  BY <1>6 DEF Regenerated
<1>7. ASSUME NEW w \in Workflows, GenerationUnusable(w) PROVE ControlInv'
  BY <1>7 DEF GenerationUnusable
<1>8. ASSUME NEW w \in Workflows, Approved(w) PROVE ControlInv'
  BY <1>8 DEF Approved
<1>9. ASSUME NEW w \in Workflows, Rejected(w) PROVE ControlInv'
  <2>1. CASE draft[w] < ReviewAttempts(w) /\ Await(w, "repair_generation_started")
    BY <1>9, <2>1 DEF Rejected
  <2>2. CASE Close(w, "failed")
    BY <1>9, <2>2 DEF Rejected
  <2>3. QED
    BY <1>9, <2>1, <2>2 DEF Rejected
<1>10. ASSUME NEW w \in Workflows, Executed(w) PROVE ControlInv'
  <2> PICK passed \in BOOLEAN :
        /\ successful' = [successful EXCEPT ![w] = passed]
        /\ \/ request[w].legacy /\ Close(w, IF passed THEN "passed" ELSE "unsuccessful")
           \/ ~request[w].legacy /\ Await(w, "workflow_completed")
    BY <1>10 DEF Executed
  <2>1. CASE Close(w, IF passed THEN "passed" ELSE "unsuccessful")
    BY <1>10, <2>1 DEF Executed
  <2>2. CASE Await(w, "workflow_completed")
    BY <1>10, <2>2 DEF Executed
  <2>3. QED
    BY <2>1, <2>2
<1>11. ASSUME NEW w \in Workflows, AttemptFails(w) PROVE ControlInv'
  <2>1. CASE Retry(w)
    BY <1>11, <2>1 DEF AttemptFails, Retry
  <2>2. CASE Raise(w)
    BY <1>11, <2>2 DEF AttemptFails, Raise
  <2>3. QED
    BY <1>11, <2>1, <2>2 DEF AttemptFails, RetryOrRaise
<1>12. ASSUME NEW w \in Workflows, AttemptRefused(w) PROVE ControlInv'
  BY <1>12 DEF AttemptRefused
<1>13. ASSUME NEW w \in Workflows, AttemptTimesOut(w) PROVE ControlInv'
  <2>1. CASE Retry(w)
    BY <1>13, <2>1 DEF AttemptTimesOut, Retry
  <2>2. CASE Raise(w)
    BY <1>13, <2>2 DEF AttemptTimesOut, Raise
  <2>3. QED
    BY <1>13, <2>1, <2>2 DEF AttemptTimesOut, RetryOrRaise
<1>14. ASSUME NEW w \in Workflows, Cancel(w) PROVE ControlInv'
  BY <1>14 DEF Cancel
<1>15. ASSUME NEW w \in Workflows, Completed(w) PROVE ControlInv'
  BY <1>15 DEF Completed
<1>16. ASSUME NEW w \in Workflows, ReportedRequirements(w) PROVE ControlInv'
  BY <1>16 DEF ReportedRequirements
<1>17. ASSUME NEW call \in calls, OrphanEnds(call) PROVE ControlInv'
  BY <1>17 DEF OrphanEnds
<1>18. CASE UNCHANGED vars
  BY <1>18 DEF vars
<1>19. QED
  BY <1>1, <1>2, <1>3, <1>4, <1>5, <1>6, <1>7, <1>8, <1>9, <1>10, <1>11, <1>12, <1>13, <1>14, <1>15, <1>16, <1>17, <1>18 DEF Next, AttemptEnds, Resume

(* Approval: what the executor works on. *)
ApprovalInv ==
  OnlyApprovedExecutes /\ PastGateApproved /\ NotYetApproved /\ ExecutionsInPhase

LEMMA ApprovalStep == ControlInv /\ ApprovalInv /\ [Next]_vars => ApprovalInv'
<1> SUFFICES ASSUME ControlInv /\ ApprovalInv, [Next]_vars PROVE ApprovalInv'
  OBVIOUS
<1> USE DEF ControlInv, ApprovalInv, TypeOK, OnlyApprovedExecutes, PastGateApproved,
            NotYetApproved, ExecutionsInPhase, ExecutionPhase, Calls, AgentCalls, GenerationCalls,
            StageEvents, CurrentCall, Await, Close, Results, Replied
<1>1. ASSUME NEW w \in Workflows, Dispatch(w) PROVE ApprovalInv'
  BY <1>1 DEF Dispatch
<1>2. ASSUME NEW w \in Workflows, StageRecorded(w) PROVE ApprovalInv'
  BY <1>2 DEF StageRecorded, AfterStage, AfterDiscovery
<1>3. ASSUME NEW w \in Workflows, Discovered(w) PROVE ApprovalInv'
  BY <1>3 DEF Discovered, AfterDiscovery
<1>4. ASSUME NEW w \in Workflows, Analyzed(w) PROVE ApprovalInv'
  BY <1>4 DEF Analyzed
<1>5. ASSUME NEW w \in Workflows, Generated(w) PROVE ApprovalInv'
  BY <1>5 DEF Generated
<1>6. ASSUME NEW w \in Workflows, Regenerated(w) PROVE ApprovalInv'
  BY <1>6 DEF Regenerated
<1>7. ASSUME NEW w \in Workflows, GenerationUnusable(w) PROVE ApprovalInv'
  BY <1>7 DEF GenerationUnusable
<1>8. ASSUME NEW w \in Workflows, Approved(w) PROVE ApprovalInv'
  BY <1>8 DEF Approved
<1>9. ASSUME NEW w \in Workflows, Rejected(w) PROVE ApprovalInv'
  BY <1>9 DEF Rejected
<1>10. ASSUME NEW w \in Workflows, Executed(w) PROVE ApprovalInv'
  BY <1>10 DEF Executed
<1>11. ASSUME NEW w \in Workflows, AttemptFails(w) PROVE ApprovalInv'
  BY <1>11 DEF AttemptFails, RetryOrRaise, Retry, Raise
<1>12. ASSUME NEW w \in Workflows, AttemptRefused(w) PROVE ApprovalInv'
  BY <1>12 DEF AttemptRefused
<1>13. ASSUME NEW w \in Workflows, AttemptTimesOut(w) PROVE ApprovalInv'
  BY <1>13 DEF AttemptTimesOut, RetryOrRaise, Retry, Raise
<1>14. ASSUME NEW w \in Workflows, Cancel(w) PROVE ApprovalInv'
  BY <1>14 DEF Cancel
<1>15. ASSUME NEW w \in Workflows, Completed(w) PROVE ApprovalInv'
  BY <1>15 DEF Completed
<1>16. ASSUME NEW w \in Workflows, ReportedRequirements(w) PROVE ApprovalInv'
  BY <1>16 DEF ReportedRequirements
<1>17. ASSUME NEW call \in calls, OrphanEnds(call) PROVE ApprovalInv'
  BY <1>17 DEF OrphanEnds
<1>18. CASE UNCHANGED vars
  BY <1>18 DEF vars, CurrentCall
<1>19. QED
  BY <1>1, <1>2, <1>3, <1>4, <1>5, <1>6, <1>7, <1>8, <1>9, <1>10, <1>11, <1>12, <1>13, <1>14, <1>15, <1>16, <1>17, <1>18 DEF Next, AttemptEnds, Resume

(* Exclusion: which requests may be in service together. *)
ExclusionInv == SingleAttemptsAwaited /\ GenerationIsExclusive

LEMMA ExclusionStep == ControlInv /\ ApprovalInv /\ ExclusionInv /\ [Next]_vars => ExclusionInv'
<1> SUFFICES ASSUME ControlInv /\ ApprovalInv /\ ExclusionInv, [Next]_vars PROVE ExclusionInv'
  OBVIOUS
<1> USE DEF ControlInv, ApprovalInv, ExclusionInv, TypeOK, AttemptsBounded, MaxAttempts,
            ExecutionsInPhase, ExecutionPhase, SingleAttemptsAwaited, SingleAttempt,
            GenerationIsExclusive, Calls, AgentCalls, GenerationCalls,
            CurrentCall, Await, Close, Results, Replied
<1>1. ASSUME NEW w \in Workflows, Dispatch(w) PROVE ExclusionInv'
  BY <1>1 DEF Dispatch
<1>2. ASSUME NEW w \in Workflows, StageRecorded(w) PROVE ExclusionInv'
  BY <1>2 DEF StageRecorded
<1>3. ASSUME NEW w \in Workflows, Discovered(w) PROVE ExclusionInv'
  BY <1>3 DEF Discovered
<1>4. ASSUME NEW w \in Workflows, Analyzed(w) PROVE ExclusionInv'
  BY <1>4 DEF Analyzed
<1>5. ASSUME NEW w \in Workflows, Generated(w) PROVE ExclusionInv'
  BY <1>5 DEF Generated
<1>6. ASSUME NEW w \in Workflows, Regenerated(w) PROVE ExclusionInv'
  BY <1>6 DEF Regenerated
<1>7. ASSUME NEW w \in Workflows, GenerationUnusable(w) PROVE ExclusionInv'
  BY <1>7 DEF GenerationUnusable
<1>8. ASSUME NEW w \in Workflows, Approved(w) PROVE ExclusionInv'
  BY <1>8 DEF Approved
<1>9. ASSUME NEW w \in Workflows, Rejected(w) PROVE ExclusionInv'
  BY <1>9 DEF Rejected
<1>10. ASSUME NEW w \in Workflows, Executed(w) PROVE ExclusionInv'
  BY <1>10 DEF Executed
<1>11. ASSUME NEW w \in Workflows, AttemptFails(w) PROVE ExclusionInv'
  BY <1>11 DEF AttemptFails, RetryOrRaise, Retry, Raise
<1>12. ASSUME NEW w \in Workflows, AttemptRefused(w) PROVE ExclusionInv'
  BY <1>12 DEF AttemptRefused
<1>13. ASSUME NEW w \in Workflows, AttemptTimesOut(w) PROVE ExclusionInv'
  BY <1>13 DEF AttemptTimesOut, RetryOrRaise, Retry, Raise
<1>14. ASSUME NEW w \in Workflows, Cancel(w) PROVE ExclusionInv'
  BY <1>14 DEF Cancel
<1>15. ASSUME NEW w \in Workflows, Completed(w) PROVE ExclusionInv'
  BY <1>15 DEF Completed
<1>16. ASSUME NEW w \in Workflows, ReportedRequirements(w) PROVE ExclusionInv'
  BY <1>16 DEF ReportedRequirements
<1>17. ASSUME NEW call \in calls, OrphanEnds(call) PROVE ExclusionInv'
  BY <1>17 DEF OrphanEnds
<1>18. CASE UNCHANGED vars
  BY <1>18 DEF vars, CurrentCall
<1>19. QED
  BY <1>1, <1>2, <1>3, <1>4, <1>5, <1>6, <1>7, <1>8, <1>9, <1>10, <1>11, <1>12, <1>13, <1>14, <1>15, <1>16, <1>17, <1>18 DEF Next, AttemptEnds, Resume

IInv == ControlInv /\ ApprovalInv /\ ExclusionInv

LEMMA InitIInv == Init => IInv
BY DEF Init, IInv, ControlInv, ApprovalInv, ExclusionInv, TypeOK, DraftCounted,
       AttemptsBounded, MaxAttempts, OnlyApprovedExecutes, PastGateApproved,
       NotYetApproved, ExecutionPhase, ExecutionsInPhase, SingleAttemptsAwaited, GenerationIsExclusive,
       Request, Awaits, AgentCalls, GenerationCalls, StageEvents, Outcomes

LEMMA IInvStep == IInv /\ [Next]_vars => IInv'
BY ControlStep, ApprovalStep, ExclusionStep DEF IInv

LEMMA IInvInvariant == Spec => []IInv
BY InitIInv, IInvStep, PTL DEF Spec

\* Every variable of the workflow keeps its type, whatever the set of runs.
THEOREM TypeCorrect == Spec => []TypeOK
<1>1. IInv => TypeOK
  BY DEF IInv, ControlInv
<1>2. QED
  BY IInvInvariant, <1>1, PTL

\* The executor is only ever handed drafts the Oracle approved in that run
\* (the oracle gate of QualityEngineeringWorkflow.run).
THEOREM GateHolds == Spec => []OnlyApprovedExecutes
<1>1. IInv => OnlyApprovedExecutes
  BY DEF IInv, ApprovalInv
<1>2. QED
  BY IInvInvariant, <1>1, PTL

\* While an agent generates for a run, nothing else is done with that run's
\* drafts (the single-attempt retry policies of generation and review).
THEOREM GenerationExcludes == Spec => []GenerationIsExclusive
<1>1. IInv => GenerationIsExclusive
  BY DEF IInv, ExclusionInv
<1>2. QED
  BY IInvInvariant, <1>1, PTL

-----------------------------------------------------------------------------
(* What is left of a run *)

\* How many activities may follow, the current one included: a second draft has its own.
Ahead(activity, drafts) ==
  CASE activity = "workflow_started" -> 16
    [] activity = "agent_discovery_started" -> 15
    [] activity = "discover_agent" -> 14
    [] activity = "source_analysis_started" -> 13
    [] activity = "analyze_source" -> 12
    [] activity = "test_generation_started" -> 11
    [] activity = "generate_tests" -> 10
    [] activity = "oracle_review_started" -> IF drafts = 1 THEN 9 ELSE 5
    [] activity = "review_generated_tests" -> IF drafts = 1 THEN 8 ELSE 4
    [] activity = "repair_generation_started" -> 7
    [] activity = "regenerate_tests" -> 6
    [] activity = "test_execution_started" -> 3
    [] activity = "execute_and_repair" -> 2
    [] OTHER -> 1

\* An attempt takes two steps, its dispatch and its end; an activity has two at most.
StepsLeft(w) ==
  IF awaiting[w] = "closed" THEN 0
  ELSE 5 * Ahead(awaiting[w], draft[w]) - 2 * attempt[w] + IF running[w] THEN 1 ELSE 0

OfRun(w) == <<awaiting[w], attempt[w], running[w], draft[w], outcome[w]>>

\* A run starts with at most 80; then it is where it was, or has fewer left than it had.
RunProgresses ==
  /\ \A w \in Workflows : StepsLeft(w) <= 80
  /\ [][\A w \in Workflows : OfRun(w)' = OfRun(w) \/ StepsLeft(w)' \in 0..StepsLeft(w) - 1]_vars

(***************************************************************************)
(* No schedule of workers, agents, failures and timeouts keeps a run going *)
(* for ever: each of its steps is one of at most 80 (the retry policies,   *)
(* the bound on reviews, workflow.py:57-226).  Together with fairness this *)
(* is EveryRunSettles.                                                     *)
(***************************************************************************)
THEOREM RunsProgress == Spec => RunProgresses
<1> DEFINE Stays(w) == OfRun(w)' = OfRun(w)
           Goes(w) == StepsLeft(w)' \in 0..StepsLeft(w) - 1
<1>1. \A activity, drafts : Ahead(activity, drafts) \in 1..16
  BY DEF Ahead
<1>2. ControlInv /\ [Next]_vars => \A w \in Workflows : Stays(w) \/ Goes(w)
  <2> SUFFICES ASSUME ControlInv, [Next]_vars, NEW w \in Workflows PROVE Stays(w) \/ Goes(w)
    OBVIOUS
  <2> USE DEF ControlInv, TypeOK
  <2> DEFINE here == Ahead(awaiting[w], draft[w])
             there == Ahead(awaiting'[w], draft'[w])
  <2>0. /\ here \in 1..16 /\ there \in 1..16 /\ attempt[w] \in 0..2 /\ running[w] \in BOOLEAN
        /\ awaiting[w] # "closed" =>
             StepsLeft(w) = 5 * here - 2 * attempt[w] + IF running[w] THEN 1 ELSE 0
        /\ awaiting'[w] # "closed" =>
             StepsLeft(w)' = 5 * there - 2 * attempt'[w] + IF running'[w] THEN 1 ELSE 0
        /\ awaiting'[w] = "closed" => StepsLeft(w)' = 0
    BY <1>1 DEF StepsLeft
  <2> HIDE DEF here, there
  <2>1. ASSUME NEW v \in Workflows, v # w, Dispatch(v) \/ AttemptEnds(v) \/ Cancel(v)
        PROVE  Stays(w)
    BY <2>1 DEF Dispatch, AttemptEnds, Resume, Cancel, StageRecorded, Completed, ReportedRequirements,
                Discovered, Analyzed, Generated, Regenerated, GenerationUnusable, Approved, Rejected,
                Executed, AttemptFails, AttemptRefused, AttemptTimesOut, RetryOrRaise, Retry, Raise,
                Replied, Await, Close, Results, OfRun
  <2>2. CASE Dispatch(w)
    <3>1. /\ awaiting'[w] = awaiting[w] /\ awaiting[w] # "closed" /\ draft'[w] = draft[w]
          /\ attempt'[w] = attempt[w] + 1 /\ attempt'[w] \in 0..2
          /\ running[w] = FALSE /\ running'[w] = TRUE
      BY <2>2, ControlStep DEF Dispatch, Results
    <3>2. there = here
      BY <3>1 DEF here, there
    <3> QED
      BY <2>0, <3>1, <3>2
  <2>3. ASSUME NEW how \in Outcomes, awaiting[w] # "closed", Close(w, how) PROVE Goes(w)
    <3>1. awaiting'[w] = "closed"
      BY <2>3 DEF Close
    <3> QED
      BY <2>0, <2>3, <3>1
  <2>4. ASSUME NEW activity \in Awaits \ {"closed"}, awaiting[w] # "closed", running[w],
               Await(w, activity), Ahead(activity, draft'[w]) < Ahead(awaiting[w], draft[w])
        PROVE  Goes(w)
    <3>1. awaiting'[w] = activity /\ attempt'[w] = 0 /\ running'[w] = FALSE /\ running[w] = TRUE
      BY <2>4 DEF Await
    <3>2. there < here
      BY <2>4, <3>1 DEF here, there
    <3> QED
      BY <2>0, <2>4, <3>1, <3>2
  <2>5. ASSUME Retry(w), running[w], awaiting[w] # "closed", UNCHANGED <<draft>> PROVE Goes(w)
    <3>1. /\ awaiting'[w] = awaiting[w] /\ draft'[w] = draft[w] /\ attempt'[w] = attempt[w]
          /\ running[w] = TRUE /\ running'[w] = FALSE
      BY <2>5 DEF Retry
    <3>2. there = here
      BY <3>1 DEF here, there
    <3> QED
      BY <2>0, <2>5, <3>1, <3>2
  <2>6. awaiting[w] = "closed" => ~running[w]
    BY DEF AttemptsBounded
  <2>7. CASE Resume(w)
    <3> USE DEF Replied, Results, Ahead, Awaits, StageEvents, AgentCalls, GenerationCalls, Outcomes
    <3>1. CASE StageRecorded(w)
      <4>1. /\ AfterStage(w) \in Awaits \ {"closed"} /\ awaiting[w] # "closed" /\ running[w]
            /\ Await(w, AfterStage(w)) /\ UNCHANGED draft
        BY <2>6, <3>1, AfterStageType DEF StageRecorded
      <4>2. Ahead(AfterStage(w), draft'[w]) < Ahead(awaiting[w], draft[w])
        BY <3>1, <4>1 DEF StageRecorded, AfterStage, AfterDiscovery
      <4> QED
        BY <2>4, <4>1, <4>2
    <3>2. CASE Completed(w) \/ ReportedRequirements(w) \/ GenerationUnusable(w)
      BY <2>3, <3>2 DEF Completed, ReportedRequirements, GenerationUnusable
    <3>3. CASE Discovered(w)
      BY <2>4, <3>3 DEF Discovered, AfterDiscovery
    <3>4. CASE Analyzed(w)
      BY <2>4, <3>4 DEF Analyzed
    <3>5. CASE Generated(w)
      BY <2>4, <3>5 DEF Generated, DraftCounted
    <3>6. CASE Regenerated(w)
      BY <2>4, <3>6 DEF Regenerated, DraftCounted
    <3>7. CASE Approved(w)
      BY <2>4, <3>7 DEF Approved
    <3>8. CASE Rejected(w)
      BY <2>3, <2>4, <3>8 DEF Rejected, ReviewAttempts, DraftCounted
    <3>9. CASE Executed(w)
      BY <2>3, <2>4, <3>9 DEF Executed
    <3> QED
      BY <2>7, <3>1, <3>2, <3>3, <3>4, <3>5, <3>6, <3>7, <3>8, <3>9 DEF Resume
  <2>8. CASE AttemptFails(w) \/ AttemptRefused(w) \/ AttemptTimesOut(w)
    BY <2>3, <2>5, <2>6, <2>8 DEF AttemptFails, AttemptRefused, AttemptTimesOut, RetryOrRaise, Raise,
                                  Results, Outcomes
  <2>9. CASE Cancel(w)
    BY <2>3, <2>9 DEF Cancel, Outcomes
  <2>10. CASE (\E call \in calls : OrphanEnds(call)) \/ UNCHANGED vars
    BY <2>10 DEF OrphanEnds, Results, vars, OfRun
  <2> QED
    BY <2>1, <2>2, <2>7, <2>8, <2>9, <2>10 DEF Next, AttemptEnds
<1>3. IInv => ControlInv
  BY DEF IInv
<1>4. Init => \A w \in Workflows : StepsLeft(w) <= 80
  BY <1>1 DEF Init, StepsLeft
<1> QED
  BY <1>2, <1>3, <1>4, IInvInvariant, PTL DEF Spec, RunProgresses

-----------------------------------------------------------------------------
(* Refinement of OracleGate. *)

LEMMA GateInit == Init => Gate!Init
<1> SUFFICES ASSUME Init PROVE Gate!Init
  OBVIOUS
<1> DEFINE grandfathered == {w \in Workflows : request[w].legacy}
<1>1. \A w \in Workflows : GateStage(w) = "drafting"
  BY DEF Init, GateStage, StageOf, Request
<1>2. \A w \in Workflows : draft[w] = IF w \in grandfathered THEN 1 ELSE 0
  BY DEF Init, Request
<1>3. draft = [w \in Workflows |-> IF w \in grandfathered THEN 1 ELSE 0]
  BY <1>2 DEF Init
<1>4. \A w \in Workflows : Granted(w) = IF w \in grandfathered THEN {1} ELSE {}
  BY DEF Init, Granted, Request
<1>5. grandfathered \in SUBSET Workflows
  OBVIOUS
<1>6. QED
  BY <1>1, <1>3, <1>4, <1>5 DEF Gate!Init

(***************************************************************************)
(* A step that leaves drafts, grants and the stage of every other run      *)
(* alone is a step of the gate as soon as it is one for its own run.       *)
(***************************************************************************)
GateFrame(w) ==
  /\ \A v \in Workflows \ {w} : GateStage(v)' = GateStage(v)
  /\ request' = request
  /\ draft \in [Workflows -> 0..2]
  /\ approved \in [Workflows -> SUBSET (1..2)]

StageBecomes(w, from, to) ==
  /\ draft' = draft
  /\ approved' = approved
  /\ GateStage(w) \in from
  /\ GateStage(w)' = to

\* The six ways in which a step of run w may look to the gate.
GateMove(w) ==
  \/ StageBecomes(w, {"drafting", "executing"}, "ended")
  \/ StageBecomes(w, {"drafting"}, "executing") /\ draft[w] \in Granted(w)
  \/ StageBecomes(w, {"executing"}, "promoted")
  \/ /\ GateStage(w) = "drafting" /\ GateStage(w)' = "drafting"
     /\ draft[w] > 0 /\ draft' = draft
     /\ approved' = [approved EXCEPT ![w] = @ \cup {draft[w]}]
  \/ /\ GateStage(w) = "drafting" /\ GateStage(w)' = "drafting"
     /\ draft[w] < 2 /\ draft[w] \notin Granted(w) /\ approved' = approved
     /\ draft' = [draft EXCEPT ![w] = @ + 1]
  \/ draft' = draft /\ approved' = approved /\ GateStage(w)' = GateStage(w)

LEMMA FrameStep ==
  ASSUME NEW w \in Workflows, GateFrame(w),
         GateMove(w)
  PROVE  [Gate!Next]_Gate!gateVars
<1> DEFINE Stages == [v \in Workflows |-> GateStage(v)]
           Grants == [v \in Workflows |-> Granted(v)]
<1>1. ASSUME NEW to, GateStage(w)' = to PROVE Stages' = [Stages EXCEPT ![w] = to]
  <2>1. \A v \in Workflows : StageOf(awaiting'[v], attempt'[v], outcome'[v]) = [Stages EXCEPT ![w] = to][v]
    BY <1>1, SMT DEF GateFrame, GateStage
  <2>2. Stages' = [v \in Workflows |-> StageOf(awaiting'[v], attempt'[v], outcome'[v])]
    BY DEF GateStage
  <2>3. Stages' = [v \in Workflows |-> [Stages EXCEPT ![w] = to][v]]
    BY <2>1, <2>2, Zenon
  <2>4. [Stages EXCEPT ![w] = to] = [v \in Workflows |-> [Stages EXCEPT ![w] = to][v]]
    OBVIOUS
  <2>5. QED
    BY <2>3, <2>4, Zenon
<1>2. Stages[w] = GateStage(w) /\ Grants[w] = Granted(w)
  OBVIOUS
<1>3. ASSUME approved' = approved PROVE Grants' = Grants
  BY <1>3 DEF GateFrame, Granted
<1>4. ASSUME approved' = [approved EXCEPT ![w] = @ \cup {draft[w]}]
      PROVE  Grants' = [Grants EXCEPT ![w] = @ \cup {draft[w]}]
  <2>1. \A v \in Workflows : approved'[v] = IF v = w THEN approved[w] \cup {draft[w]} ELSE approved[v]
    BY <1>4 DEF GateFrame
  <2>2. \A v \in Workflows :
          approved'[v] \cup (IF request'[v].legacy THEN {1} ELSE {}) =
            IF v = w THEN Granted(w) \cup {draft[w]} ELSE Granted(v)
    BY <2>1 DEF GateFrame, Granted
  <2>3. Grants' = [v \in Workflows |-> approved'[v] \cup (IF request'[v].legacy THEN {1} ELSE {})]
    BY DEF Granted
  <2>4. [Grants EXCEPT ![w] = @ \cup {draft[w]}] =
          [v \in Workflows |-> IF v = w THEN Granted(w) \cup {draft[w]} ELSE Granted(v)]
    OBVIOUS
  <2> QED
    BY <2>2, <2>3, <2>4, Zenon
<1> HIDE DEF Stages, Grants
<1>5. CASE StageBecomes(w, {"drafting", "executing"}, "ended")
  BY <1>1, <1>2, <1>3, <1>5 DEF StageBecomes, Stages, Grants, Gate!Next, Gate!End
<1>6. CASE StageBecomes(w, {"drafting"}, "executing") /\ draft[w] \in Granted(w)
  BY <1>1, <1>2, <1>3, <1>6 DEF StageBecomes, Stages, Grants, Gate!Next, Gate!Execute
<1>7. CASE StageBecomes(w, {"executing"}, "promoted")
  BY <1>1, <1>2, <1>3, <1>7 DEF StageBecomes, Stages, Grants, Gate!Next, Gate!Promote
<1>8. CASE /\ GateStage(w) = "drafting" /\ GateStage(w)' = "drafting"
           /\ draft[w] > 0 /\ draft' = draft
           /\ approved' = [approved EXCEPT ![w] = @ \cup {draft[w]}]
  <2>1. Stages' = Stages
    BY <1>1, <1>2, <1>8 DEF Stages
  <2>2. QED
    BY <1>2, <1>4, <1>8, <2>1 DEF Stages, Grants, Gate!Next, Gate!Grant
<1>9. CASE /\ GateStage(w) = "drafting" /\ GateStage(w)' = "drafting"
           /\ draft[w] < 2 /\ draft[w] \notin Granted(w) /\ approved' = approved
           /\ draft' = [draft EXCEPT ![w] = @ + 1]
  <2>1. Stages' = Stages
    BY <1>1, <1>2, <1>9 DEF Stages
  <2>2. QED
    BY <1>2, <1>3, <1>9, <2>1 DEF Stages, Grants, Gate!Next, Gate!Draft
<1>10. CASE draft' = draft /\ approved' = approved /\ GateStage(w)' = GateStage(w)
  BY <1>1, <1>2, <1>3, <1>10 DEF Stages, Grants, Gate!gateVars
<1>11. QED
  BY <1>5, <1>6, <1>7, <1>8, <1>9, <1>10 DEF GateMove


LEMMA GateStep == IInv /\ [Next]_vars => [Gate!Next]_Gate!gateVars
<1> SUFFICES ASSUME IInv, [Next]_vars PROVE [Gate!Next]_Gate!gateVars
  OBVIOUS
<1>0. ASSUME NEW w \in Workflows, GateFrame(w), GateMove(w)
      PROVE [Gate!Next]_Gate!gateVars
  BY <1>0, FrameStep
<1> USE DEF IInv, ControlInv, ApprovalInv, PastGateApproved, NotYetApproved, ExecutionPhase, Granted,
            TypeOK, AttemptsBounded, DraftCounted, GateFrame, GateMove, StageBecomes, GateStage, StageOf, AgentCalls, GenerationCalls, StageEvents, Awaits,
            Request, Await, Close, Results, Replied
<1>1. ASSUME NEW w \in Workflows, Dispatch(w) PROVE GateFrame(w) /\ GateMove(w)
  BY <1>1 DEF Dispatch
<1>2. ASSUME NEW w \in Workflows, StageRecorded(w) PROVE GateFrame(w) /\ GateMove(w)
  BY <1>2 DEF StageRecorded, AfterStage, AfterDiscovery
<1>3. ASSUME NEW w \in Workflows, Discovered(w) PROVE GateFrame(w) /\ GateMove(w)
  BY <1>3 DEF Discovered, AfterDiscovery
<1>4. ASSUME NEW w \in Workflows, Analyzed(w) PROVE GateFrame(w) /\ GateMove(w)
  BY <1>4 DEF Analyzed
<1>5. ASSUME NEW w \in Workflows, Generated(w) PROVE GateFrame(w) /\ GateMove(w)
  BY <1>5 DEF Generated
<1>6. ASSUME NEW w \in Workflows, Regenerated(w) PROVE GateFrame(w) /\ GateMove(w)
  BY <1>6 DEF Regenerated
<1>7. ASSUME NEW w \in Workflows, GenerationUnusable(w) PROVE GateFrame(w) /\ GateMove(w)
  BY <1>7 DEF GenerationUnusable
<1>8. ASSUME NEW w \in Workflows, Approved(w) PROVE GateFrame(w) /\ GateMove(w)
  BY <1>8 DEF Approved
<1>9. ASSUME NEW w \in Workflows, Rejected(w) PROVE GateFrame(w) /\ GateMove(w)
  BY <1>9 DEF Rejected
<1>10. ASSUME NEW w \in Workflows, Executed(w) PROVE GateFrame(w) /\ GateMove(w)
  BY <1>10 DEF Executed
<1>11. ASSUME NEW w \in Workflows, AttemptFails(w) PROVE GateFrame(w) /\ GateMove(w)
  BY <1>11 DEF AttemptFails, RetryOrRaise, Retry, Raise
<1>12. ASSUME NEW w \in Workflows, AttemptRefused(w) PROVE GateFrame(w) /\ GateMove(w)
  BY <1>12 DEF AttemptRefused
<1>13. ASSUME NEW w \in Workflows, AttemptTimesOut(w) PROVE GateFrame(w) /\ GateMove(w)
  BY <1>13 DEF AttemptTimesOut, RetryOrRaise, Retry, Raise
<1>14. ASSUME NEW w \in Workflows, Cancel(w) PROVE GateFrame(w) /\ GateMove(w)
  BY <1>14 DEF Cancel
<1>15. ASSUME NEW w \in Workflows, Completed(w) PROVE GateFrame(w) /\ GateMove(w)
  BY <1>15 DEF Completed
<1>16. ASSUME NEW w \in Workflows, ReportedRequirements(w) PROVE GateFrame(w) /\ GateMove(w)
  BY <1>16 DEF ReportedRequirements
<1>17. CASE (\E call \in calls : OrphanEnds(call)) \/ UNCHANGED vars
  BY <1>17 DEF OrphanEnds, vars, Gate!gateVars
<1>18. ASSUME NEW w \in Workflows, Dispatch(w) \/ AttemptEnds(w) \/ Cancel(w)
       PROVE  GateFrame(w) /\ GateMove(w)
  <2>1. CASE Resume(w)
    BY <2>1, <1>2, <1>3, <1>4, <1>5, <1>6, <1>7, <1>8, <1>9, <1>10, <1>15, <1>16 DEF Resume
  <2> QED
    BY <1>18, <2>1, <1>1, <1>11, <1>12, <1>13, <1>14 DEF AttemptEnds
<1>19. QED
  BY <1>0, <1>17, <1>18 DEF Next

\* Whatever the agents, the network and the workers do, a run keeps the promise
\* stated in OracleGate.
THEOREM Refinement == Spec => RefinesGate
<1>1. QED
  BY GateInit, GateStep, IInvInvariant, PTL DEF Spec, RefinesGate, Gate!Spec

-----------------------------------------------------------------------------
(* Campaigns *)

ChildDone == {"passed", "failed"}

\* The children that have left "waiting" are those of the chunks started so far.
ChunksInOrder ==
  \A c \in Ids, i \in 1..Agents : child[c][i] # "waiting" <=> i <= started[c]

\* What is open lies within one chunk: all before some k is done.
OneChunkOpen ==
  \A c \in Ids :
    \E k \in 0..Agents :
      /\ k <= started[c]
      /\ started[c] <= k + MaxConcurrency
      /\ \A i \in 1..k : child[c][i] \in ChildDone

\* A campaign that is not running has gathered, and one that completed ran all.
\* So has one with a task in hand that goes on after a chunk.
ClosedGathered ==
  \A c \in Ids :
    /\ status[c] # "running" => Gathered(c)
    /\ status[c] = "completed" => started[c] = Agents
    /\ resumed[c] => Gathered(c) /\ status[c] = "running"

\* What a campaign that was asked to stop has reached, and with a task in hand may reach.
WithinLimit(c) ==
  /\ started[c] <= allowed[c].started
  /\ status[c] = "completed" => allowed[c].complete
  /\ resumed[c] => ChunkEnd(c) <= allowed[c].started
  /\ resumed[c] /\ started[c] = Agents => allowed[c].complete

Stopping == \A c \in Ids : canceling[c] => WithinLimit(c)

CampaignInv == CampaignTypeOK /\ ChunksInOrder /\ OneChunkOpen /\ ClosedGathered /\ Stopping

LEMMA CampaignInvInit == CampaignInit => CampaignInv
<1> SUFFICES ASSUME CampaignInit PROVE CampaignInv
  OBVIOUS
<1> USE ConstantsAssumption
<1>1. CampaignTypeOK
  BY DEF CampaignInit, CampaignTypeOK, Statuses, Idle, ChildStates, Places, Limits
<1>2. ChunksInOrder
  BY DEF CampaignInit, ChunksInOrder, Idle
<1>3. OneChunkOpen
  <2> SUFFICES ASSUME NEW c \in Ids
               PROVE  /\ 0 <= started[c] /\ started[c] <= 0 + MaxConcurrency
                      /\ \A i \in 1..0 : child[c][i] \in ChildDone
    BY DEF OneChunkOpen
  <2>1. QED
    BY DEF CampaignInit
<1>4. ClosedGathered
  BY DEF CampaignInit, ClosedGathered, Gathered
<1>5. Stopping
  BY DEF CampaignInit, Stopping
<1>6. QED
  BY <1>1, <1>2, <1>3, <1>4, <1>5 DEF CampaignInv

\* A campaign's next chunk starts right after the previous one, within the bound.
LEMMA ChunkEndBounds ==
  ASSUME CampaignTypeOK, NEW c \in Ids, started[c] < Agents
  PROVE  /\ ChunkEnd(c) \in 0..Agents
         /\ started[c] < ChunkEnd(c)
         /\ ChunkEnd(c) <= started[c] + MaxConcurrency
BY ConstantsAssumption DEF ChunkEnd, CampaignTypeOK

LEMMA NextChunkStep ==
  ASSUME CampaignInv, NEW c \in Ids, NextChunk(c)
  PROVE  CampaignInv'
<1> USE ConstantsAssumption, ChunkEndBounds DEF CampaignInv, NextChunk, temporal
<1>1. CampaignTypeOK'
  BY DEF CampaignTypeOK, ChildStates
<1>2. ChunksInOrder'
  BY DEF CampaignTypeOK, ChunksInOrder
<1>3. OneChunkOpen'
  <2>1. ASSUME NEW d \in Ids \ {c}
        PROVE  started'[d] = started[d] /\ child'[d] = child[d]
    BY DEF CampaignTypeOK
  <2>2. \A i \in 1..started[c] : child'[c][i] \in ChildDone
    BY DEF CampaignTypeOK, ClosedGathered, Gathered, ChildDone
  <2>3. started'[c] = ChunkEnd(c) /\ started[c] \in 0..Agents
    BY DEF CampaignTypeOK
  <2>4. ChunkEnd(c) \in 0..Agents /\ started[c] < ChunkEnd(c)
        /\ ChunkEnd(c) <= started[c] + MaxConcurrency
    BY ChunkEndBounds
  <2> SUFFICES ASSUME NEW d \in Ids
               PROVE  \E k \in 0..Agents :
                        /\ k <= started'[d]
                        /\ started'[d] <= k + MaxConcurrency
                        /\ \A i \in 1..k : child'[d][i] \in ChildDone
    BY DEF OneChunkOpen
  <2>5. CASE d = c
    <3> HIDE DEF NextChunk, CampaignInv
    <3>1. /\ started[c] <= started'[c]
          /\ started'[c] <= started[c] + MaxConcurrency
          /\ \A i \in 1..started[c] : child'[c][i] \in ChildDone
      BY <2>2, <2>3, <2>4
    <3>2. QED
      BY <2>3, <2>5, <3>1
  <2>6. CASE d # c
    BY <2>1, <2>6 DEF OneChunkOpen
  <2>7. QED
    BY <2>5, <2>6
<1>4. ClosedGathered'
  BY DEF CampaignTypeOK, ClosedGathered, Gathered
<1>5. Stopping'
  <2> SUFFICES ASSUME NEW d \in Ids, canceling[d] PROVE WithinLimit(d)'
    BY DEF Stopping
  <2>1. WithinLimit(d)
    BY DEF Stopping
  <2>2. CASE d = c
    <3>1. /\ started'[c] = ChunkEnd(c) /\ resumed'[c] = FALSE
          /\ allowed'[c] = allowed[c] /\ status'[c] = "running"
          /\ ChunkEnd(c) <= allowed[c].started
      BY <2>1, <2>2 DEF CampaignTypeOK, WithinLimit
    <3> QED
      BY <2>2, <3>1 DEF WithinLimit
  <2>3. CASE d # c
    BY <2>1, <2>3 DEF CampaignTypeOK, WithinLimit, ChunkEnd
  <2> QED
    BY <2>2, <2>3
<1>6. QED
  BY <1>1, <1>2, <1>3, <1>4, <1>5

LEMMA StartStep ==
  ASSUME CampaignInv, NEW r \in Requests, Start(r)
  PROVE  CampaignInv'
<1> USE ConstantsAssumption DEF CampaignInv, Start, Goto
<1>1. CampaignTypeOK'
  BY DEF CampaignTypeOK, Statuses, Idle, ChildStates, Places, CampaignRequest, Limits
<1>2. ChunksInOrder'
  BY DEF CampaignTypeOK, ChunksInOrder, Idle, CampaignRequest
<1>3. OneChunkOpen'
  <2>1. ASSUME NEW d \in Ids
        PROVE  \/ started'[d] = started[d] /\ child'[d] = child[d]
               \/ started'[d] = 0
    BY DEF CampaignTypeOK
  <2>2. ASSUME NEW d \in Ids, started'[d] = 0
        PROVE  /\ 0 <= started'[d] /\ started'[d] <= 0 + MaxConcurrency
               /\ \A i \in 1..0 : child'[d][i] \in ChildDone
    BY <2>2
  <2>3. QED
    BY <2>1, <2>2 DEF OneChunkOpen
<1>4. ClosedGathered'
  BY DEF CampaignTypeOK, ClosedGathered, Gathered, CampaignRequest
<1>5. Stopping'
  BY DEF CampaignTypeOK, Stopping, WithinLimit, ChunkEnd, CampaignRequest
<1>6. QED
  BY <1>1, <1>2, <1>3, <1>4, <1>5

LEMMA ChildStepStep ==
  ASSUME CampaignInv, NEW c \in Ids, NEW i \in 1..Agents, ChildStep(c, i)
  PROVE  CampaignInv'
<1> USE ConstantsAssumption DEF CampaignInv, temporal
<1>1. PICK state \in {"passed", "failed", "reporting"} :
        SetChild(c, i, state) /\ child[c][i] \in {"running", "reporting"}
  BY DEF ChildStep, ChildReturns, ChildRaises, FailureReported
<1> USE <1>1 DEF SetChild
<1>2. CampaignTypeOK'
  BY DEF CampaignTypeOK, ChildStates
<1>3. ChunksInOrder'
  BY DEF CampaignTypeOK, ChunksInOrder
<1>4. OneChunkOpen'
  <2>1. ASSUME NEW d \in Ids, NEW j \in 1..Agents, child[d][j] \in ChildDone
        PROVE  child'[d][j] \in ChildDone
    BY <2>1 DEF CampaignTypeOK, ChildDone
  <2>2. UNCHANGED started /\ \A d \in Ids : started[d] \in 0..Agents
    BY DEF CampaignTypeOK
  <2>3. \A k \in 0..Agents : \A j \in 1..k : j \in 1..Agents
    OBVIOUS
  <2> HIDE DEF CampaignInv, SetChild
  <2>4. OneChunkOpen
    BY DEF CampaignInv
  <2>5. QED
    BY <2>1, <2>2, <2>3, <2>4 DEF OneChunkOpen
<1>5. ClosedGathered'
  <2>1. ASSUME NEW d \in Ids, NEW j \in 1..Agents, child[d][j] \in ChildDone
        PROVE  child'[d][j] \in ChildDone
    BY <2>1 DEF CampaignTypeOK, ChildDone
  <2>2. \A d \in Ids : started[d] \in 0..Agents
    BY DEF CampaignTypeOK
  <2>3. QED
    BY <2>1, <2>2 DEF ClosedGathered, Gathered, ChildDone
<1>6. Stopping'
  BY DEF Stopping, WithinLimit, ChunkEnd
<1>7. QED
  BY <1>2, <1>3, <1>4, <1>5, <1>6

\* While a task is in hand no child is open, so what it may do is within the limit.
LEMMA CancelActiveStep ==
  ASSUME CampaignInv, NEW r \in Requests, NEW c \in Ids, CancelActive(r, c)
  PROVE  CampaignInv'
<1> USE ConstantsAssumption DEF CampaignInv, CancelActive, campaign
<1>1. CampaignTypeOK'
  <2>1. ChunkEnd(c) \in 0..Agents
    BY DEF ChunkEnd, CampaignTypeOK
  <2>2. Limit(c) \in Limits
    BY <2>1 DEF Limit, Limits, CampaignTypeOK
  <2> QED
    BY <2>2 DEF CampaignTypeOK, Goto, Places
<1>2. ASSUME resumed[c] PROVE Open(c) = {}
  <2>1. \A i \in 1..started[c] : child[c][i] \in {"passed", "failed"}
    BY <1>2 DEF ClosedGathered, Gathered
  <2>2. ASSUME NEW i \in 1..Agents PROVE child[c][i] \notin {"running", "reporting"}
    <3>1. CASE i <= started[c]
      BY <2>1, <3>1 DEF CampaignTypeOK
    <3>2. CASE ~(i <= started[c])
      BY <3>2 DEF ChunksInOrder
    <3> QED
      BY <3>1, <3>2
  <2> QED
    BY <2>2 DEF Open
<1>3. ASSUME NEW d \in Ids, canceling'[d] PROVE WithinLimit(d)'
  <2>1. CASE d = c /\ ~canceling[c]
    <3>1. allowed'[c] = Limit(c) /\ status'[c] = "running" /\ started'[c] = started[c] /\ resumed'[c] = resumed[c]
      BY <2>1 DEF CampaignTypeOK
    <3>2. ChunkEnd(c)' = ChunkEnd(c) /\ started[c] <= ChunkEnd(c) /\ started[c] \in 0..Agents
      BY DEF ChunkEnd, CampaignTypeOK
    <3>3. started[c] <= Limit(c).started
      BY <3>2 DEF Limit
    <3>4. resumed[c] => ChunkEnd(c) <= Limit(c).started /\ (started[c] = Agents => Limit(c).complete)
      <4> SUFFICES ASSUME resumed[c]
                   PROVE  ChunkEnd(c) <= Limit(c).started /\ (started[c] = Agents => Limit(c).complete)
        OBVIOUS
      <4> HIDE DEF CampaignInv, CancelActive
      <4>1. Limit(c).started = ChunkEnd(c) /\ ChunkEnd(c) \in Int
        BY <1>2, <3>2 DEF Limit, ChunkEnd
      <4>2. ASSUME started[c] = Agents PROVE Limit(c).complete
        BY <1>2, <4>2 DEF Limit
      <4> QED
        BY <4>1, <4>2
    <3> QED
      BY <2>1, <3>1, <3>2, <3>3, <3>4 DEF WithinLimit
  <2>2. CASE d # c \/ canceling[c]
    <3>1. canceling[d] /\ allowed'[d] = allowed[d]
      BY <1>3, <2>2 DEF CampaignTypeOK
    <3> QED
      BY <3>1 DEF Stopping, WithinLimit, ChunkEnd
  <2> QED
    BY <2>1, <2>2
<1>4. QED
  BY <1>1, <1>3 DEF ChunksInOrder, OneChunkOpen, ClosedGathered, Gathered, Stopping

LEMMA CloseStep ==
  ASSUME CampaignInv, NEW c \in Ids, Complete(c) \/ Canceled(c)
  PROVE  CampaignInv'
<1> USE DEF CampaignInv, CloseCampaign
<1>1. PICK how \in {"completed", "canceled"} :
        /\ CloseCampaign(c, how) /\ Gathered(c)
        /\ how = "completed" => started[c] = Agents /\ resumed[c]
  BY DEF Complete, Canceled, ClosedGathered
<1>2. CampaignTypeOK'
  BY <1>1 DEF CampaignTypeOK, Statuses
<1>3. ChunksInOrder' /\ OneChunkOpen'
  BY <1>1 DEF ChunksInOrder, OneChunkOpen
<1>4. ClosedGathered'
  BY <1>1 DEF CampaignTypeOK, ClosedGathered, Gathered
<1>5. Stopping'
  BY <1>1 DEF CampaignTypeOK, Stopping, WithinLimit, ChunkEnd
<1> QED
  BY <1>2, <1>3, <1>4, <1>5

LEMMA CampaignInvStep == CampaignInv /\ [CampaignNext]_campaignVars => CampaignInv'
<1> SUFFICES ASSUME CampaignInv, [CampaignNext]_campaignVars PROVE CampaignInv'
  OBVIOUS
<1> USE ConstantsAssumption DEF temporal, campaign
<1>1. ASSUME UNCHANGED <<status, started, child>>, CampaignTypeOK', Stopping',
             \A c \in Ids : resumed'[c] => Gathered(c) /\ status[c] = "running"
      PROVE  CampaignInv'
  BY <1>1 DEF CampaignInv, ChunksInOrder, OneChunkOpen, ClosedGathered, Gathered
<1>2. ASSUME UNCHANGED <<status, campaign, canceling, allowed>>, CampaignTypeOK' PROVE CampaignInv'
  BY <1>1, <1>2 DEF CampaignInv, ClosedGathered, Stopping, WithinLimit, ChunkEnd
<1>3. ASSUME NEW r \in Requests, List(r) PROVE CampaignInv'
  BY <1>2, <1>3 DEF List, CampaignInv, CampaignTypeOK, Goto, Places, Active
<1>4. ASSUME NEW r \in Requests, NEW c \in Ids, CancelActive(r, c) PROVE CampaignInv'
  BY <1>4, CancelActiveStep
<1>5. ASSUME NEW r \in Requests, CancelTooLate(r) PROVE CampaignInv'
  BY <1>2, <1>5 DEF CancelTooLate, CampaignInv, CampaignTypeOK, Goto, Places
<1>6. ASSUME NEW r \in Requests, Start(r) PROVE CampaignInv'
  BY <1>6, StartStep
<1>7. ASSUME NEW r \in Requests, RequestFails(r) PROVE CampaignInv'
  BY <1>2, <1>7 DEF RequestFails, CampaignInv, CampaignTypeOK, Goto, Places
<1>8. ASSUME NEW c \in Ids, Index(c) PROVE CampaignInv'
  BY <1>2, <1>8 DEF Index, CampaignInv, CampaignTypeOK
<1>9. ASSUME NEW c \in Ids, GatherReturns(c) PROVE CampaignInv'
  <2>1. CampaignTypeOK' /\ \A d \in Ids : resumed'[d] = (d = c \/ resumed[d])
    BY <1>9 DEF GatherReturns, CampaignInv, CampaignTypeOK
  <2>2. Stopping'
    BY <1>9, <2>1 DEF GatherReturns, CampaignInv, Stopping, WithinLimit, ChunkEnd
  <2> QED
    BY <1>1, <1>9, <2>1, <2>2 DEF GatherReturns, CampaignInv, ClosedGathered
<1>10. ASSUME NEW c \in Ids, RaiseCancellation(c) PROVE CampaignInv'
  <2>1. CampaignTypeOK'
    BY <1>10 DEF RaiseCancellation, CampaignInv, CampaignTypeOK
  <2>2. Stopping'
    BY <1>10 DEF RaiseCancellation, CampaignInv, Stopping, WithinLimit, ChunkEnd
  <2> QED
    BY <1>1, <1>10, <2>1, <2>2 DEF RaiseCancellation, CampaignInv, ClosedGathered
<1>11. ASSUME NEW c \in Ids, NextChunk(c) PROVE CampaignInv'
  BY <1>11, NextChunkStep
<1>12. ASSUME NEW c \in Ids, Complete(c) \/ Canceled(c) PROVE CampaignInv'
  BY <1>12, CloseStep
<1>13. ASSUME NEW c \in Ids, NEW i \in 1..Agents, ChildStep(c, i) PROVE CampaignInv'
  BY <1>13, ChildStepStep
<1>14. CASE UNCHANGED campaignVars
  BY <1>2, <1>14 DEF campaignVars, CampaignInv, CampaignTypeOK
<1>15. QED
  BY <1>3, <1>4, <1>5, <1>6, <1>7, <1>8, <1>9, <1>10, <1>11, <1>12, <1>13, <1>14
     DEF CampaignNext, Serve, Run

LEMMA CampaignInvariant == CampaignSpec => []CampaignInv
BY CampaignInvInit, CampaignInvStep, PTL DEF CampaignSpec

\* The campaigns and the requests of the API keep their types (workflow.py:237-300,
\* api.py:57-127).
THEOREM CampaignTypeCorrect == CampaignSpec => []CampaignTypeOK
BY CampaignInvariant, PTL DEF CampaignInv

\* A campaign never has more open children than its max_concurrency.
THEOREM CampaignBounded == CampaignSpec => []ChildrenBounded
<1>1. CampaignInv => ChildrenBounded
  <2> SUFFICES ASSUME CampaignInv, NEW c \in Ids
               PROVE  Cardinality(Open(c)) <= MaxConcurrency
    BY DEF ChildrenBounded
  <2>1. PICK k \in 0..Agents :
          /\ k <= started[c]
          /\ started[c] <= k + MaxConcurrency
          /\ \A i \in 1..k : child[c][i] \in ChildDone
    BY DEF CampaignInv, OneChunkOpen
  <2>2. started[c] \in Int /\ MaxConcurrency \in Int /\ Agents \in Int
    BY ConstantsAssumption DEF CampaignInv, CampaignTypeOK
  <2>3. Open(c) \subseteq (k + 1)..started[c]
    <3> SUFFICES ASSUME NEW i \in 1..Agents, child[c][i] \in {"running", "reporting"}
                 PROVE  i \in (k + 1)..started[c]
      BY DEF Open
    <3>1. i <= started[c]
      BY DEF CampaignInv, ChunksInOrder
    <3>2. ~(i <= k)
      BY <2>1 DEF ChildDone
    <3>3. QED
      BY <2>2, <3>1, <3>2
  <2>4. /\ IsFiniteSet((k + 1)..started[c])
        /\ Cardinality((k + 1)..started[c]) = IF k + 1 > started[c] THEN 0 ELSE started[c] - (k + 1) + 1
    BY <2>2, FS_Interval
  <2>5. Cardinality(Open(c)) <= Cardinality((k + 1)..started[c])
    BY <2>3, <2>4, FS_Subset
  <2>6. Cardinality(Open(c)) \in Nat
    BY <2>3, <2>4, FS_Subset, FS_CardinalityType
  <2>7. QED
    BY <2>1, <2>2, <2>4, <2>5, <2>6, ConstantsAssumption
<1>2. QED
  BY CampaignInvariant, <1>1, PTL

\* A closed campaign has no open child, a completed one an outcome for each agent.
THEOREM SummaryHolds == CampaignSpec => []SummaryComplete
<1>1. CampaignInv => SummaryComplete
  <2> SUFFICES ASSUME CampaignInv, NEW c \in Ids, status[c] # "running"
               PROVE  /\ Open(c) = {}
                      /\ status[c] = "completed" =>
                           \A i \in 1..Agents : child[c][i] \in {"passed", "failed"}
    BY DEF SummaryComplete
  <2>1. \A i \in 1..started[c] : child[c][i] \in {"passed", "failed"}
    BY DEF CampaignInv, ClosedGathered, Gathered
  <2>2. ASSUME NEW i \in 1..Agents PROVE child[c][i] \notin {"running", "reporting"}
    <3>1. CASE i <= started[c]
      BY <2>1, <3>1, ConstantsAssumption DEF CampaignInv, CampaignTypeOK
    <3>2. CASE ~(i <= started[c])
      BY <3>2 DEF CampaignInv, ChunksInOrder
    <3>3. QED
      BY <3>1, <3>2
  <2>3. status[c] = "completed" => started[c] = Agents
    BY DEF CampaignInv, ClosedGathered
  <2>4. QED
    BY <2>1, <2>2, <2>3 DEF Open
<1>2. QED
  BY CampaignInvariant, <1>1, PTL

(***************************************************************************)
(* A campaign asked to stop while a child is open starts no child more and *)
(* does not complete; asked between two chunks, it starts one at most.     *)
(***************************************************************************)
THEOREM CancellationHolds == CampaignSpec => []CancellationSticks
<1>1. CampaignInv => CancellationSticks
  BY DEF CampaignInv, Stopping, WithinLimit, CancellationSticks
<1>2. QED
  BY CampaignInvariant, <1>1, PTL

\* The steps that a child has before it.
ChildAhead(state) ==
  CASE state = "waiting" -> 3 [] state = "running" -> 2 [] state = "reporting" -> 1 [] OTHER -> 0

OfCampaign(c) == <<status[c], started[c], child[c], resumed[c], caught[c]>>

Rests(c) == OfCampaign(c)' = OfCampaign(c)

\* A task after a chunk is taken, or the cancellation is raised: the one is answered
\* with a chunk or the close, the other happens once.
Turns(c) ==
  /\ <<status[c], started[c], child[c]>>' = <<status[c], started[c], child[c]>>
  /\ \/ ~resumed[c] /\ resumed'[c] /\ caught'[c] = caught[c]
     \/ ~caught[c] /\ caught'[c] /\ resumed'[c] = resumed[c]

Starts(c) == status[c] # "running" /\ status'[c] = "running"

Closes(c) == status[c] = "running" /\ status'[c] # "running"

\* Some children have gone on, and none has gone back.
ChildrenGoOn(c) ==
  /\ \A i \in 1..Agents : ChildAhead(child'[c][i]) <= ChildAhead(child[c][i])
  /\ \E i \in 1..Agents : ChildAhead(child'[c][i]) < ChildAhead(child[c][i])

CampaignProgresses ==
  [][\A c \in Ids : Rests(c) \/ Turns(c) \/ Starts(c) \/ Closes(c) \/ ChildrenGoOn(c)]_campaignVars

(***************************************************************************)
(* From its start to its close, a campaign takes children further and none *)
(* back, at most three steps for each agent: no child is run again,        *)
(* whatever it raised (workflow.py:247-297).  Between two of these steps   *)
(* it takes one task, and once it may be told to stop.  Together with      *)
(* fairness this is EveryCampaignCloses.                                   *)
(***************************************************************************)
THEOREM CampaignsProgress == CampaignSpec => CampaignProgresses
<1>0. \A state \in ChildStates : ChildAhead(state) \in Nat /\ ChildAhead(state) <= ChildAhead(state)
  BY DEF ChildAhead
<1>1. CampaignInv /\ [CampaignNext]_campaignVars
        => \A c \in Ids : Rests(c) \/ Turns(c) \/ Starts(c) \/ Closes(c) \/ ChildrenGoOn(c)
  <2> SUFFICES ASSUME CampaignInv, [CampaignNext]_campaignVars, NEW c \in Ids
               PROVE  Rests(c) \/ Turns(c) \/ Starts(c) \/ Closes(c) \/ ChildrenGoOn(c)
    OBVIOUS
  <2> DEFINE A == Rests(c) \/ Turns(c) \/ Starts(c) \/ Closes(c) \/ ChildrenGoOn(c)
  <2> USE DEF CampaignInv, CampaignTypeOK, temporal, campaign, Rests, OfCampaign
  <2>1. CASE UNCHANGED <<status, campaign>>
    BY <2>1
  <2>2. ASSUME NEW r \in Requests, Start(r) PROVE A
    <3>1. req[r].id \in Ids
      BY DEF CampaignRequest
    <3> QED
      BY <2>2, <3>1 DEF Start, Starts
  <2>3. ASSUME NEW d \in Ids, NextChunk(d) PROVE A
    <3>1. CASE d # c
      BY <2>3, <3>1 DEF NextChunk
    <3>2. CASE d = c
      <4>1. /\ ChunkEnd(c) \in 0..Agents /\ started[c] \in 0..Agents /\ Agents \in Nat
            /\ started[c] + 1 \in started[c] + 1..ChunkEnd(c) /\ started[c] + 1 \in 1..Agents
        BY <2>3, <3>2, ChunkEndBounds, ConstantsAssumption DEF NextChunk
      <4>2. ASSUME NEW i \in 1..Agents
            PROVE  IF i \in started[c] + 1..ChunkEnd(c)
                   THEN child[c][i] = "waiting" /\ child'[c][i] = "running"
                   ELSE child'[c][i] = child[c][i]
        <5>1. child'[c][i] = IF i \in started[c] + 1..ChunkEnd(c) THEN "running" ELSE child[c][i]
          BY <2>3, <3>2 DEF NextChunk
        <5>2. i \in started[c] + 1..ChunkEnd(c) => ~(i <= started[c])
          BY <4>1
        <5> QED
          BY <5>1, <5>2 DEF ChunksInOrder
      <4>3. ChildAhead("running") < ChildAhead("waiting") /\ ChildAhead("running") <= ChildAhead("waiting")
        BY DEF ChildAhead
      <4>4. ASSUME NEW i \in 1..Agents PROVE ChildAhead(child'[c][i]) <= ChildAhead(child[c][i])
        <5>1. child[c][i] \in ChildStates
          OBVIOUS
        <5> QED
          BY <1>0, <5>1, <4>2, <4>3, Zenon
      <4>5. ChildAhead(child'[c][started[c] + 1]) < ChildAhead(child[c][started[c] + 1])
        BY <4>1, <4>2, <4>3, Zenon
      <4> QED
        BY <4>1, <4>4, <4>5, Zenon DEF ChildrenGoOn
    <3> QED
      BY <3>1, <3>2
  <2>6. ASSUME NEW d \in Ids, GatherReturns(d) \/ RaiseCancellation(d) PROVE A
    BY <2>6 DEF GatherReturns, RaiseCancellation, Turns
  <2>4. ASSUME NEW d \in Ids, Complete(d) \/ Canceled(d) PROVE A
    BY <2>4 DEF Complete, Canceled, CloseCampaign, Closes
  <2>5. ASSUME NEW d \in Ids, NEW i \in 1..Agents, ChildStep(d, i) PROVE A
    <3>1. PICK state \in {"passed", "failed", "reporting"} :
            /\ SetChild(d, i, state) /\ child[d][i] \in {"running", "reporting"}
            /\ state = "reporting" => child[d][i] = "running"
      BY <2>5 DEF ChildStep, ChildReturns, ChildRaises, FailureReported
    <3>2. CASE d # c
      BY <3>1, <3>2 DEF SetChild
    <3>3. CASE d = c
      <4>1. child'[c][i] = state /\ \A j \in 1..Agents : j # i => child'[c][j] = child[c][j]
        BY <3>1, <3>3 DEF SetChild
      <4>2. ChildAhead(state) < ChildAhead(child[c][i])
        BY <3>1, <3>3 DEF ChildAhead
      <4>3. ChildAhead(state) <= ChildAhead(child[c][i])
        BY <3>1, <3>3 DEF ChildAhead
      <4>4. ASSUME NEW j \in 1..Agents PROVE ChildAhead(child'[c][j]) <= ChildAhead(child[c][j])
        <5>1. child[c][j] \in ChildStates
          OBVIOUS
        <5> QED
          BY <1>0, <5>1, <4>1, <4>3, Zenon
      <4> QED
        BY <4>1, <4>2, <4>4, Zenon DEF ChildrenGoOn
    <3> QED
      BY <3>2, <3>3
  <2> QED
    BY <2>1, <2>2, <2>3, <2>4, <2>5, <2>6
       DEF CampaignNext, Serve, Run, List, CancelActive, CancelTooLate, RequestFails, Index, campaignVars
<1> QED
  BY <1>1, CampaignInvariant, PTL DEF CampaignSpec, CampaignProgresses

=============================================================================
