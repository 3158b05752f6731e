----------------------------- MODULE QEWorkflow -----------------------------
(***************************************************************************)
(* QualityEngineeringWorkflow.run (temporal_worker/workflow.py) and the    *)
(* activities it awaits (temporal_worker/activities.py).                   *)
(*                                                                         *)
(* The workflow is a durable coroutine that awaits one activity at a time. *)
(* An activity is attempted by a worker, up to the maximum of its retry    *)
(* policy; an attempt posts one request to an agent.  An attempt that      *)
(* times out (lost worker, start-to-close or heartbeat timeout) or is      *)
(* cancelled does not stop the agent, which goes on serving the request:   *)
(* calls holds the requests agents are still serving, whether or not the   *)
(* workflow still waits for them.                                          *)
(*                                                                         *)
(* Payloads are abstracted to what decides the control flow.  A candidate  *)
(* suite is the number of the generation reply that named it.              *)
(***************************************************************************)
EXTENDS Naturals, FiniteSets

CONSTANT
  Workflows    \* identifiers of workflow runs

VARIABLES
  request,     \* [Workflows -> Request]: what the run was started with
  awaiting,    \* [Workflows -> Awaits]: the activity run() is suspended on
  attempt,     \* [Workflows -> 0..2]: attempts of that activity so far
  running,     \* [Workflows -> BOOLEAN]: is an attempt with a worker now?
  draft,       \* [Workflows -> 0..2]: candidate named by `generated`
  compiled,    \* [Workflows -> BOOLEAN]: deterministic_candidate
  approved,    \* [Workflows -> SUBSET 1..2]: drafts the Oracle approved (history)
  successful,  \* [Workflows -> BOOLEAN]: execution_result["successful"]
  outcome,     \* [Workflows -> Outcomes]: how the run closed
  calls        \* requests that agents are serving

vars == <<request, awaiting, attempt, running, draft, compiled, approved,
          successful, outcome, calls>>

(***************************************************************************)
(* card: the request names an agent card, so discovery runs.               *)
(* source: it names a source repository, so analysis runs.                 *)
(* legacy: its history predates the workflow.patched() markers.            *)
(***************************************************************************)
Request == [card : BOOLEAN, source : BOOLEAN, legacy : BOOLEAN]

\* Events posted by record_stage, each awaited like any other activity.
StageEvents ==
  {"workflow_started", "agent_discovery_started", "source_analysis_started",
   "test_generation_started", "oracle_review_started",
   "repair_generation_started", "test_execution_started",
   "workflow_completed", "requirements_reported"}

GenerationCalls == {"generate_tests", "regenerate_tests"}

AgentCalls ==
  {"discover_agent", "analyze_source", "review_generated_tests",
   "execute_and_repair"} \cup GenerationCalls

Awaits == StageEvents \cup AgentCalls \cup {"closed"}

Outcomes == {"none", "requirements_needed", "passed", "unsuccessful",
             "failed", "canceled"}

Calls == [workflow : Workflows, activity : AgentCalls, attempt : 1..2, draft : 0..2]

\* Mutant: the default retry policy on every activity.
BugRetriesEverything(activity) == 2

\* RetryPolicy(maximum_attempts) of each execute_activity call.
MaxAttempts(activity) ==
  IF activity \in {"discover_agent", "analyze_source", "execute_and_repair"}
  THEN 2 ELSE 1

\* A deterministic candidate gets one review, any other one gets two.
ReviewAttempts(w) == IF compiled[w] THEN 1 ELSE 2

CurrentCall(w) ==
  [workflow |-> w, activity |-> awaiting[w], attempt |-> attempt[w],
   draft |-> draft[w]]

Init ==
  /\ request \in [Workflows -> Request]
  /\ awaiting = [w \in Workflows |->
       IF request[w].legacy THEN "execute_and_repair" ELSE "workflow_started"]
  /\ attempt = [w \in Workflows |-> 0]
  /\ running = [w \in Workflows |-> FALSE]
  /\ draft = [w \in Workflows |-> IF request[w].legacy THEN 1 ELSE 0]
  /\ compiled = [w \in Workflows |-> FALSE]
  /\ approved = [w \in Workflows |-> {}]
  /\ successful = [w \in Workflows |-> FALSE]
  /\ outcome = [w \in Workflows |-> "none"]
  /\ calls = {}

-----------------------------------------------------------------------------
(* run() moves on to its next activity, or returns or raises. *)

Await(w, activity) ==
  /\ awaiting' = [awaiting EXCEPT ![w] = activity]
  /\ attempt' = [attempt EXCEPT ![w] = 0]
  /\ running' = [running EXCEPT ![w] = FALSE]
  /\ UNCHANGED outcome

Close(w, how) ==
  /\ awaiting' = [awaiting EXCEPT ![w] = "closed"]
  /\ attempt' = [attempt EXCEPT ![w] = 0]
  /\ running' = [running EXCEPT ![w] = FALSE]
  /\ outcome' = [outcome EXCEPT ![w] = how]

Results == <<draft, compiled, approved, successful>>

\* The stage after discovery, or after the start when there is no card.
AfterDiscovery(w) ==
  IF request[w].source THEN "source_analysis_started" ELSE "test_generation_started"

-----------------------------------------------------------------------------
(* Attempts. *)

\* Mutant: a second worker may take an attempt that is already running.
BugDispatchesTwice(w) ==
  /\ awaiting[w] # "closed"
  /\ attempt' = [attempt EXCEPT ![w] = @ + 1]
  /\ running' = [running EXCEPT ![w] = TRUE]
  /\ calls' = IF awaiting[w] \in AgentCalls
              THEN calls \cup {[CurrentCall(w) EXCEPT !.attempt = @ + 1]}
              ELSE calls
  /\ UNCHANGED <<request, awaiting, outcome, Results>>

\* A worker takes the scheduled attempt and posts it to the agent.
Dispatch(w) ==
  /\ awaiting[w] # "closed"
  /\ ~running[w]
  /\ attempt' = [attempt EXCEPT ![w] = @ + 1]
  /\ running' = [running EXCEPT ![w] = TRUE]
  /\ calls' = IF awaiting[w] \in AgentCalls
              THEN calls \cup {[CurrentCall(w) EXCEPT !.attempt = @ + 1]}
              ELSE calls
  /\ UNCHANGED <<request, awaiting, outcome, Results>>

\* The attempt's reply reaches the workflow; the agent is done with the request.
Replied(w, activity) ==
  /\ awaiting[w] = activity
  /\ running[w]
  /\ calls' = calls \ {CurrentCall(w)}
  /\ UNCHANGED request

\* After a failed attempt: once more if the policy allows it ...
Retry(w) ==
  /\ attempt[w] < MaxAttempts(awaiting[w])
  /\ running' = [running EXCEPT ![w] = FALSE]
  /\ UNCHANGED <<awaiting, attempt, outcome>>

\* ... else execute_activity raises, and run() with it.
Raise(w) ==
  /\ attempt[w] = MaxAttempts(awaiting[w])
  /\ Close(w, "failed")

RetryOrRaise(w) == Retry(w) \/ Raise(w)

\* The agent answered 5xx or could not be reached: retryable.
AttemptFails(w) ==
  /\ awaiting[w] \in AgentCalls
  /\ running[w]
  /\ calls' = calls \ {CurrentCall(w)}
  /\ RetryOrRaise(w)
  /\ UNCHANGED <<request, Results>>

\* A 4xx answer, or a reply below 500 that is not JSON, is non-retryable.  (The
\* executor's 4xx answers are results, see Executed; its reply may still not be JSON.)
AttemptRefused(w) ==
  /\ awaiting[w] \in AgentCalls
  /\ running[w]
  /\ calls' = calls \ {CurrentCall(w)}
  /\ Close(w, "failed")
  /\ UNCHANGED <<request, Results>>

(***************************************************************************)
(* The server times the attempt out, or the worker's own connection breaks *)
(* or times out.  The agent is not told.  A stage event has an attempt     *)
(* too: its activity swallows HTTP errors, but nothing swallows the        *)
(* timeout of the activity itself.                                         *)
(***************************************************************************)
AttemptTimesOut(w) ==
  /\ running[w]
  /\ RetryOrRaise(w)
  /\ UNCHANGED <<request, calls, Results>>

\* Cancellation of the run (by its fleet, or an operator) abandons the attempt.
Cancel(w) ==
  /\ awaiting[w] # "closed"
  /\ Close(w, "canceled")
  /\ UNCHANGED <<request, calls, Results>>

\* An agent finishes a request nobody waits for any more.
OrphanEnds(call) ==
  /\ call \in calls
  /\ ~(running[call.workflow] /\ call = CurrentCall(call.workflow))
  /\ calls' = calls \ {call}
  /\ UNCHANGED <<request, awaiting, attempt, running, outcome, Results>>

-----------------------------------------------------------------------------
(* What run() does with each reply. *)

\* The activity that follows a stage event; the last two events end the run.
AfterStage(w) ==
  CASE awaiting[w] = "workflow_started" /\ request[w].card -> "agent_discovery_started"
    [] awaiting[w] = "workflow_started" /\ ~request[w].card -> AfterDiscovery(w)
    [] awaiting[w] = "agent_discovery_started" -> "discover_agent"
    [] awaiting[w] = "source_analysis_started" -> "analyze_source"
    [] awaiting[w] = "test_generation_started" -> "generate_tests"
    [] awaiting[w] = "oracle_review_started" -> "review_generated_tests"
    [] awaiting[w] = "repair_generation_started" -> "regenerate_tests"
    [] OTHER -> "execute_and_repair"

\* record_workflow_stage returned; delivered or not makes no difference.
StageRecorded(w) ==
  /\ awaiting[w] \in StageEvents \ {"workflow_completed", "requirements_reported"}
  /\ Replied(w, awaiting[w])
  /\ Await(w, AfterStage(w))
  /\ UNCHANGED Results

\* run() returns after its last stage event.
Completed(w) ==
  /\ Replied(w, "workflow_completed")
  /\ Close(w, IF successful[w] THEN "passed" ELSE "unsuccessful")
  /\ UNCHANGED Results

ReportedRequirements(w) ==
  /\ Replied(w, "requirements_reported")
  /\ Close(w, "requirements_needed")
  /\ UNCHANGED Results

\* Discovery found an executable scenario, or only ones lacking a contract.
Discovered(w) ==
  /\ Replied(w, "discover_agent")
  /\ \E executable \in BOOLEAN :
       Await(w, IF executable THEN AfterDiscovery(w) ELSE "requirements_reported")
  /\ UNCHANGED Results

Analyzed(w) ==
  /\ Replied(w, "analyze_source")
  /\ Await(w, "test_generation_started")
  /\ UNCHANGED Results

\* The generator names a stored candidate; the first one fixes the method.
Generated(w) ==
  /\ Replied(w, "generate_tests")
  /\ Await(w, "oracle_review_started")
  /\ draft' = [draft EXCEPT ![w] = @ + 1]
  /\ \E deterministic \in BOOLEAN :
       compiled' = [compiled EXCEPT ![w] = deterministic]
  /\ UNCHANGED <<approved, successful>>

\* Mutant: a regeneration does not count towards the review attempts.
BugRegenerationUncounted(w) ==
  /\ Replied(w, "regenerate_tests")
  /\ Await(w, "oracle_review_started")
  /\ UNCHANGED Results

\* Mutant: the second draft goes to the executor without a review of its own.
BugRegeneratedUnreviewed(w) ==
  /\ Replied(w, "regenerate_tests")
  /\ Await(w, "test_execution_started")
  /\ draft' = [draft EXCEPT ![w] = @ + 1]
  /\ UNCHANGED <<compiled, approved, successful>>

Regenerated(w) ==
  /\ Replied(w, "regenerate_tests")
  /\ Await(w, "oracle_review_started")
  /\ draft' = [draft EXCEPT ![w] = @ + 1]
  /\ UNCHANGED <<compiled, approved, successful>>

\* A reply that is not SUCCESS, or names no object_path, raises.
GenerationUnusable(w) ==
  /\ \E activity \in GenerationCalls : Replied(w, activity)
  /\ Close(w, "failed")
  /\ UNCHANGED Results

Approved(w) ==
  /\ Replied(w, "review_generated_tests")
  /\ approved' = [approved EXCEPT ![w] = @ \cup {draft[w]}]
  /\ Await(w, "test_execution_started")
  /\ UNCHANGED <<draft, compiled, successful>>

\* Mutant: the last rejection falls through to execution.
BugLastRejectionExecutes(w) ==
  /\ Replied(w, "review_generated_tests")
  /\ Await(w, IF draft[w] < ReviewAttempts(w)
              THEN "repair_generation_started" ELSE "test_execution_started")
  /\ UNCHANGED Results

\* The draft's number is the number of reviews made, this one included.
Rejected(w) ==
  /\ Replied(w, "review_generated_tests")
  /\ \/ draft[w] < ReviewAttempts(w) /\ Await(w, "repair_generation_started")
     \/ draft[w] >= ReviewAttempts(w) /\ Close(w, "failed")
  /\ UNCHANGED Results

\* 200, and equally 404, 409 and 422, whose bodies lack `successful`.
Executed(w) ==
  /\ Replied(w, "execute_and_repair")
  /\ \E passed \in BOOLEAN :
       /\ successful' = [successful EXCEPT ![w] = passed]
       /\ \/ request[w].legacy /\ Close(w, IF passed THEN "passed" ELSE "unsuccessful")
          \/ ~request[w].legacy /\ Await(w, "workflow_completed")
  /\ UNCHANGED <<draft, compiled, approved>>

-----------------------------------------------------------------------------
\* run() resumes on a reply.
Resume(w) ==
  \/ StageRecorded(w)
  \/ Completed(w)
  \/ ReportedRequirements(w)
  \/ Discovered(w)
  \/ Analyzed(w)
  \/ Generated(w)
  \/ Regenerated(w)
  \/ GenerationUnusable(w)
  \/ Approved(w)
  \/ Rejected(w)
  \/ Executed(w)

\* Every way in which an attempt ends.
AttemptEnds(w) ==
  \/ Resume(w)
  \/ AttemptFails(w)
  \/ AttemptRefused(w)
  \/ AttemptTimesOut(w)

Next ==
  \/ \E w \in Workflows : Dispatch(w) \/ AttemptEnds(w) \/ Cancel(w)
  \/ \E call \in calls : OrphanEnds(call)

Spec == Init /\ [][Next]_vars

(***************************************************************************)
(* Fairness.  Workers poll the task queue, so a scheduled attempt is       *)
(* eventually dispatched.  Every activity has a start-to-close timeout, so *)
(* an attempt ends, one way or another.  A request nobody waits for ends   *)
(* too: the agents retry so often and no more, and their clients give up   *)
(* on a peer that falls silent.  (That no peer answers without end, a few  *)
(* bytes at a time, is assumed.)  Nothing obliges anyone to cancel.        *)
(***************************************************************************)
Fairness ==
  /\ \A w \in Workflows : WF_vars(Dispatch(w)) /\ WF_vars(AttemptEnds(w))
  /\ WF_vars(\E call \in calls : OrphanEnds(call))

FairSpec == Spec /\ Fairness

-----------------------------------------------------------------------------
(* Correctness *)

\* Type correctness of every variable of the workflow.
TypeOK ==
  /\ request \in [Workflows -> Request]
  /\ awaiting \in [Workflows -> Awaits]
  /\ attempt \in [Workflows -> 0..2]
  /\ running \in [Workflows -> BOOLEAN]
  /\ draft \in [Workflows -> 0..2]
  /\ compiled \in [Workflows -> BOOLEAN]
  /\ approved \in [Workflows -> SUBSET (1..2)]
  /\ successful \in [Workflows -> BOOLEAN]
  /\ outcome \in [Workflows -> Outcomes]
  /\ calls \subseteq Calls

(***************************************************************************)
(* The executor never works, for a run or for what a timed-out or          *)
(* cancelled attempt of it left behind, on a draft other than one the      *)
(* Quality Oracle approved in that run.  Runs whose history predates the   *)
(* gate are exempt (workflow.py:152-214).                                  *)
(***************************************************************************)
OnlyApprovedExecutes ==
  \A call \in calls :
    call.activity = "execute_and_repair" =>
      \/ request[call.workflow].legacy
      \/ call.draft \in approved[call.workflow]

(***************************************************************************)
(* "Generation persists a new artifact and is not safe to replay"          *)
(* (workflow.py:143-145): while an agent is generating for a run, no agent *)
(* generates, reviews or executes for the same run, not even on behalf of  *)
(* an attempt the workflow has given up.                                   *)
(***************************************************************************)
GenerationIsExclusive ==
  \A c, d \in calls :
    /\ c.workflow = d.workflow
    /\ c.activity \in GenerationCalls
    /\ d.activity \in GenerationCalls \cup {"review_generated_tests", "execute_and_repair"}
    => c = d

(***************************************************************************)
(* Every run closes, stays closed, and leaves no agent working for it:     *)
(* each retry policy and each timeout is bounded (workflow.py:57-226).     *)
(***************************************************************************)
EveryRunSettles ==
  \A w \in Workflows :
    <>[](/\ awaiting[w] = "closed"
         /\ \A call \in calls : call.workflow # w)

(***************************************************************************)
(* The docstring of record_workflow_stage promises telemetry "without      *)
(* making observability a workflow dependency" (activities.py:86): no step *)
(* may fail a run while it merely waits for a stage event to be recorded.  *)
(***************************************************************************)
TelemetryNeverFailsRun ==
  [][\A w \in Workflows :
       awaiting[w] \in StageEvents => outcome'[w] # "failed"]_vars

-----------------------------------------------------------------------------
(* Refinement *)

(***************************************************************************)
(* Where a run stands, as its starter may see it.  A position says nothing *)
(* of what the Oracle granted: a run executes from the dispatch of its     *)
(* execution on, and the gate asks of that step that its draft is granted. *)
(***************************************************************************)
StageOf(activity, attempts, how) ==
  IF activity = "closed"
  THEN IF how = "passed" THEN "promoted" ELSE "ended"
  ELSE IF \/ activity = "execute_and_repair" /\ attempts > 0
          \/ activity = "workflow_completed"
  THEN "executing"
  ELSE "drafting"

GateStage(w) == StageOf(awaiting[w], attempt[w], outcome[w])

\* The drafts the Oracle approved, or the one that was executing before there was a gate.
Granted(w) == approved[w] \cup (IF request[w].legacy THEN {1} ELSE {})

Gate == INSTANCE OracleGate WITH
          MaxDrafts <- 2,
          stage <- [w \in Workflows |-> GateStage(w)],
          drafts <- draft,
          granted <- [w \in Workflows |-> Granted(w)]

\* The workflow implements the promise stated in OracleGate.
RefinesGate == Gate!Spec

=============================================================================
