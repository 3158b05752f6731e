------------------------- MODULE ReviewedGeneration -------------------------
(***************************************************************************)
(* Generations (GenerationCalls), each of the suite of one task, and the   *)
(* reviews of what they generated (OracleReview), as workflows ask for     *)
(* them one after the other (temporal_worker/workflow.py:145-183).  Runs   *)
(* that reuse a suite review its task too.  Each of the two agents has its *)
(* own bound on the posts of a call.                                       *)
(***************************************************************************)
EXTENDS OracleReview

CONSTANT GeneratorAttempts

ASSUME GeneratorAssumption ==
  /\ GeneratorAttempts \in Nat
  /\ None \notin {"clean", "flawed", "compiled", "error", "SUCCESS"}

VARIABLES
  ready,       \* the tasks of which a workflow was answered SUCCESS
  \* GenerationCalls
  posting, posted, response, stage, candidate, suite, object, row, reply

generationVars == <<posting, posted, response, stage, candidate, suite, object, row, reply>>
allVars == <<vars, ready, generationVars>>

Generation == INSTANCE GenerationCalls WITH
  Callers <- Tasks, MaxAttempts <- GeneratorAttempts,
  call <- posting, attempt <- posted, status <- response

ReviewedInit == Init /\ Generation!Init /\ ready = {}

Generates(t) ==
  /\ t \notin ready
  /\ Generation!Generate(t)
  /\ UNCHANGED <<vars, ready>>

\* The workflow has the answer; nothing reads what is forgotten here any more.
Answered(t) ==
  /\ t \notin ready /\ reply[t] = "SUCCESS"
  /\ ready' = ready \cup {t}
  /\ posting' = [posting EXCEPT ![t] = "idle"]
  /\ posted' = [posted EXCEPT ![t] = 0]
  /\ response' = [response EXCEPT ![t] = "none"]
  /\ UNCHANGED <<vars, stage, candidate, suite, object, row, reply>>

Reviews(r) ==
  /\ Task[r] \in ready
  /\ Review(r)
  /\ UNCHANGED <<ready, generationVars>>

ReviewedNext ==
  \/ \E t \in Tasks : Generates(t) \/ Answered(t)
  \/ \E r \in Callers : Reviews(r)

ReviewedSpec == ReviewedInit /\ [][ReviewedNext]_allVars

-----------------------------------------------------------------------------
(***************************************************************************)
(* What costs a review has passed the quality gate ("Enforce deterministic *)
(* suite quality before spending an Oracle review",                        *)
(* test_generation/app.py:774), or is what a contract compiles to and cost *)
(* no candidate: whichever of the generations failed at which step, no     *)
(* candidate with issues and no text of an error is stored under the task  *)
(* that is reviewed, and the row of that task is there.                    *)
(***************************************************************************)
OnlyGatedReviewed ==
  \A r \in Callers :
    pc[r] # "asked" \/ answer[r] # None =>
      /\ row[Task[r]]
      /\ \/ object[Task[r]] = "clean" /\ candidate[Task[r]] \in {1, 2}
         \/ object[Task[r]] = "compiled" /\ candidate[Task[r]] = 0

\* The agent has not worked on a generation, or on a review, in a step.
GenerationRests(t) ==
  /\ stage'[t] = stage[t] /\ candidate'[t] = candidate[t]
  /\ posting'[t] = posting[t] /\ posted'[t] = posted[t]

ReviewRests(r) == pc'[r] = pc[r] /\ call'[r] = call[r] /\ attempt'[r] = attempt[r]

(***************************************************************************)
(* Work runs out: whatever providers answer and however often they ask to  *)
(* wait, each step of a generation or of a review, abandoned or not, uses  *)
(* up one of finitely many candidates, stages, posts and pauses.           *)
(***************************************************************************)
WorkRunsOut ==
  [][/\ \A t \in Tasks \ ready' : GenerationRests(t) \/ Generation!GenerationForward(t)
     /\ \A r \in Callers : ReviewRests(r) \/ ReviewForward(r)]_allVars

-----------------------------------------------------------------------------
(* What comments of the code say, and the code does not do: a post has no  *)
(* bound that would keep the agent within the deadline of the activity.    *)

(***************************************************************************)
(* "Retry transient Gemini throttling and service failures within the      *)
(* activity deadline" (test_generation/app.py:627).                        *)
(***************************************************************************)
RetriesWithinDeadline ==
  \A t \in Tasks : Generation!Abandoned(t) => posting[t] # "pausing"

(***************************************************************************)
(* "Leave one minute for persistence and graph publication inside          *)
(* Temporal's ten-minute generation activity deadline"                     *)
(* (test_generation/app.py:67-68).                                         *)
(***************************************************************************)
PersistsWithinDeadline ==
  \A t \in Tasks : Generation!Abandoned(t) => stage[t] \notin {"storing", "inserting"}

=============================================================================
