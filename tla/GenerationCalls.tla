-------------------------- MODULE GenerationCalls --------------------------
(***************************************************************************)
(* generate_tests_and_persist of agents/test_generation/app.py for         *)
(* requests that find no suite to reuse (SuitePipeline has those that do): *)
(* a suite that a declared contract compiles to, or the active artifact,   *)
(* the knowledge of the product and at most two candidates of a model, the *)
(* second with what the quality gate says of the first; then the object,   *)
(* the row and the answer.                                                 *)
(*                                                                         *)
(* Up to three calls to a model (ModelCalls): one for the embedding of the *)
(* query, one for each candidate.  The activity that waits for the answer  *)
(* may give up at any time; the agent goes on, and is not told.            *)
(***************************************************************************)
EXTENDS ModelCalls

CONSTANT None

VARIABLES
  stage,       \* [Callers -> Stages]
  candidate,   \* [Callers -> 0..2]: candidates that were asked for
  suite,       \* [Callers -> Suites]: test_code
  object,      \* [Callers -> Suites]: what is stored under the path of the task
  row,         \* [Callers -> BOOLEAN]: test_runs has a row of the task
  reply        \* [Callers -> Replies]: what the activity got

vars == <<callVars, stage, candidate, suite, object, row, reply>>

Stages == {"compiling", "metadata", "artifact", "embedding", "searching", "asking", "inspecting",
           "returned", "storing", "inserting", "done"}

\* A candidate without issues, or with; what a contract compiles to; a text that begins with
\* "# Error:".
Suites == {None, "clean", "flawed", "compiled", "error"}

Replies == {None, "SUCCESS", "FAILED"}

Init ==
  /\ CallInit
  /\ stage = [g \in Callers |-> "compiling"]
  /\ candidate = [g \in Callers |-> 0]
  /\ suite = [g \in Callers |-> None]
  /\ object = [g \in Callers |-> None]
  /\ row = [g \in Callers |-> FALSE]
  /\ reply = [g \in Callers |-> None]

Enter(g, s) == stage' = [stage EXCEPT ![g] = s]

\* An activity that gave up is not told.
Reply(g, r) ==
  /\ Enter(g, "done")
  /\ reply' = [reply EXCEPT ![g] = IF @ = None THEN r ELSE @]

Holds(g, s) == suite' = [suite EXCEPT ![g] = s]

\* The scenarios of the request declare a contract, or they do not.
Compile(g) ==
  /\ stage[g] = "compiling"
  /\ \/ Holds(g, "compiled") /\ Enter(g, "returned")
     \/ Enter(g, "metadata") /\ UNCHANGED suite
  /\ UNCHANGED <<callVars, candidate, object, row, reply>>

\* No suite to reuse can be looked up, or a latency or a status of the contract is no number:
\* outside of every try.
CompileRaises(g) ==
  /\ stage[g] = "compiling"
  /\ Reply(g, "FAILED")
  /\ UNCHANGED <<callVars, candidate, suite, object, row>>

\* _get_artifact_metadata: without an active artifact, the knowledge base does without.
Metadata(g) ==
  /\ stage[g] = "metadata"
  /\ \/ Enter(g, "artifact") /\ UNCHANGED callVars
     \/ Enter(g, "embedding") /\ StartCall(g)
  /\ UNCHANGED <<candidate, suite, object, row, reply>>

\* _fetch_artifact, and get_embedding for the query.
Artifact(g) ==
  /\ stage[g] = "artifact"
  /\ Enter(g, "embedding") /\ StartCall(g)
  /\ UNCHANGED <<candidate, suite, object, row, reply>>

Call(g) ==
  /\ stage[g] \in {"embedding", "asking"}
  /\ CallStep(g)
  /\ UNCHANGED <<stage, candidate, suite, object, row, reply>>

\* The database, the store, Qdrant, a call that raised, a response that is an error or has no
\* content: "# Error: Failed during generation pipeline".
Fail(g) ==
  /\ \/ stage[g] \in {"metadata", "artifact", "searching"}
     \/ stage[g] \in {"embedding", "asking"} /\ call[g] \in {"answered", "raised"}
  /\ Holds(g, "error") /\ Enter(g, "returned")
  /\ UNCHANGED <<callVars, candidate, object, row, reply>>

Embedded(g) ==
  /\ stage[g] = "embedding"
  /\ call[g] = "answered" /\ status[g] = "ok"
  /\ Enter(g, "searching")
  /\ UNCHANGED <<callVars, candidate, suite, object, row, reply>>

\* retrieve_knowledge has searched, and the first candidate is asked for.
Search(g) ==
  /\ stage[g] = "searching"
  /\ StartCall(g)
  /\ candidate' = [candidate EXCEPT ![g] = 1]
  /\ Enter(g, "asking")
  /\ UNCHANGED <<suite, object, row, reply>>

\* inspect_test_code finds issues, or none.
Drafted(g) ==
  /\ stage[g] = "asking"
  /\ call[g] = "answered" /\ status[g] = "ok"
  /\ \E s \in {"clean", "flawed"} : Holds(g, s)
  /\ Enter(g, "inspecting")
  /\ UNCHANGED <<callVars, candidate, object, row, reply>>

\* The text of a model may begin with "# Error:" itself.
Accept(g) ==
  /\ stage[g] = "inspecting"
  /\ suite[g] = "clean"
  /\ \E s \in {"clean", "error"} : Holds(g, s)
  /\ Enter(g, "returned")
  /\ UNCHANGED <<callVars, candidate, object, row, reply>>

AskAgain(g) ==
  /\ stage[g] = "inspecting"
  /\ suite[g] = "flawed" /\ candidate[g] = 1
  /\ StartCall(g)
  /\ candidate' = [candidate EXCEPT ![g] = 2]
  /\ Enter(g, "asking")
  /\ UNCHANGED <<suite, object, row, reply>>

\* Mutant: the second candidate is returned with its issues, which nothing else looks at.
BugReturnsSecond(g) ==
  /\ stage[g] = "inspecting"
  /\ suite[g] = "flawed" /\ candidate[g] = 2
  /\ Enter(g, "returned")
  /\ UNCHANGED <<callVars, candidate, suite, object, row, reply>>

\* "# Error: Generated suite failed deterministic quality gate after regeneration".
GiveUp(g) ==
  /\ stage[g] = "inspecting"
  /\ suite[g] = "flawed" /\ candidate[g] = 2
  /\ Holds(g, "error") /\ Enter(g, "returned")
  /\ UNCHANGED <<callVars, candidate, object, row, reply>>

\* What begins with "# Error:" is answered as a failure, which is all that generate_tests says.
Check(g) ==
  /\ stage[g] = "returned"
  /\ IF suite[g] = "error"
     THEN Reply(g, "FAILED")
     ELSE Enter(g, "storing") /\ UNCHANGED reply
  /\ UNCHANGED <<callVars, candidate, suite, object, row>>

\* _store_test_artifact.
Store(g) ==
  /\ stage[g] = "storing"
  /\ object' = [object EXCEPT ![g] = suite[g]]
  /\ Enter(g, "inserting")
  /\ UNCHANGED <<callVars, candidate, suite, row, reply>>

\* _create_test_run_metadata_in_postgres, an event that may be lost, and the answer.
Insert(g) ==
  /\ stage[g] = "inserting"
  /\ row' = [row EXCEPT ![g] = TRUE]
  /\ Reply(g, "SUCCESS")
  /\ UNCHANGED <<callVars, candidate, suite, object>>

\* The store or the database fails; what was stored stays.
PersistenceFails(g) ==
  /\ stage[g] \in {"storing", "inserting"}
  /\ Reply(g, "FAILED")
  /\ UNCHANGED <<callVars, candidate, suite, object, row>>

\* The start_to_close_timeout of the activity, and the end of its own post.
GivesUp(g) ==
  /\ stage[g] # "done" /\ reply[g] = None
  /\ reply' = [reply EXCEPT ![g] = "FAILED"]
  /\ UNCHANGED <<callVars, stage, candidate, suite, object, row>>

Generate(g) ==
  \/ Compile(g) \/ CompileRaises(g) \/ Metadata(g) \/ Artifact(g) \/ Call(g) \/ Fail(g)
  \/ Embedded(g) \/ Search(g) \/ Drafted(g) \/ Accept(g) \/ AskAgain(g) \/ GiveUp(g)
  \/ Check(g) \/ Store(g) \/ Insert(g) \/ PersistenceFails(g) \/ GivesUp(g)

Next == \E g \in Callers : Generate(g)

Spec == Init /\ [][Next]_vars

-----------------------------------------------------------------------------
(* Correctness *)

\* Type correctness of the generations, and of their calls.
TypeOK ==
  /\ CallsTypeOK
  /\ stage \in [Callers -> Stages]
  /\ candidate \in [Callers -> 0..2]
  /\ suite \in [Callers -> Suites]
  /\ object \in [Callers -> Suites]
  /\ row \in [Callers -> BOOLEAN]
  /\ reply \in [Callers -> Replies]

StageRank ==
  [compiling |-> 10, metadata |-> 9, artifact |-> 8, embedding |-> 7, searching |-> 6,
   asking |-> 5, inspecting |-> 4, returned |-> 3, storing |-> 2, inserting |-> 1, done |-> 0]

\* A step of a generation uses up a candidate, a stage, or a post or pause of its call.
GenerationForward(g) ==
  \/ candidate'[g] > candidate[g] /\ candidate'[g] <= 2
  \/ candidate'[g] = candidate[g] /\ StageRank[stage'[g]] < StageRank[stage[g]]
  \/ candidate'[g] = candidate[g] /\ stage'[g] = stage[g] /\ CallForward(g)

\* Its activity has given up, and the agent goes on.
Abandoned(g) == stage[g] # "done" /\ reply[g] # None

=============================================================================
