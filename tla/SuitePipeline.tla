--------------------------- MODULE SuitePipeline ---------------------------
(***************************************************************************)
(* How a test suite gets from the generation agent to the catalog:         *)
(* generate_tests_and_persist of agents/test_generation/app.py, the review *)
(* of agents/quality_oracle/app.py, and the executor's _load and _persist, *)
(* which share the rows of test_runs and the objects of the store.         *)
(*                                                                         *)
(* A run is a workflow (temporal_worker/workflow.py:138-234).  Runs with   *)
(* one fingerprint share a catalogued suite: the second may review and     *)
(* execute the suite while the first repairs it.  Retries of activities    *)
(* are those of QEWorkflow, publication and overlapping requests of one    *)
(* run those of ExecutionAgent; here every activity has one attempt.       *)
(*                                                                         *)
(* A source stands for the text of a suite: what models write is numbered, *)
(* what is compiled is the same for the same inputs.  A suite is known by  *)
(* its task, which has two objects: the candidate, and the repaired one.   *)
(***************************************************************************)
EXTENDS Naturals

CONSTANTS
  Runs,
  Fingerprint,   \* [Runs -> Fingerprints]: the stable inputs of a run
  Contract,      \* [Runs -> Contracts]: its scenarios and its URL, as they are compiled
  MaxTasks,      \* bound on the candidates that are stored
  MaxSources,    \* bound on the texts that models write
  None

Fingerprints == {Fingerprint[r] : r \in Runs}

Contracts == {Contract[r] : r \in Runs}

Sources == 1..MaxSources \cup Contracts

Tasks == 1..MaxTasks

Paths == Tasks \X {"candidate", "repaired"}

Verdicts == [status : {"PENDING", "PASSED", "FAILED"}, catalog : BOOLEAN]

Pending == [status |-> "PENDING", catalog |-> FALSE]

Rows == [fingerprint : Fingerprints, path : Paths, verdict : Verdicts]

ASSUME ConstantsAssumption ==
  /\ MaxTasks \in Nat
  /\ MaxSources \in Nat
  /\ None \notin Nat \cup Contracts \cup Paths \cup Rows

VARIABLES
  compiled,    \* SUBSET Fingerprints: declared contracts, compiled without a model
  sources,     \* number of texts that models wrote so far
  object,      \* [Paths -> Sources \cup {None}]: the object store
  row,         \* [Tasks -> Rows \cup {None}]: test_runs
  pc,          \* [Runs -> Places]
  left,        \* [Runs -> 0..2]: reviews that are left; 2 before the first
  task,        \* [Runs -> Tasks \cup {None}]: task_id of the suite in hand
  path,        \* [Runs -> Paths \cup {None}]: object_path of the suite in hand
  source,      \* [Runs -> Sources \cup {None}]: what the current agent has read
  reused,      \* [Runs -> BOOLEAN]: the suite is one that was found
  linked,      \* [Runs -> BOOLEAN]: its row had a catalog link when it was loaded
  repaired,    \* [Runs -> BOOLEAN]: the executor repaired it
  verdict,     \* [Runs -> Verdicts]: what _persist will write
  approved,    \* [Runs -> SUBSET Sources]: what the Oracle approved for the run
  rejected,    \* [Runs -> SUBSET Tasks]: the suites it rejected
  published    \* the sources in the catalog

stores == <<object, row, published>>
suite == <<task, path, reused>>
reviews == <<left, approved, rejected>>
execution == <<linked, repaired, verdict>>
vars == <<compiled, sources, stores, pc, suite, source, reviews, execution>>

Working == {"lookup", "drafting", "storing", "registering", "reading", "judging", "selecting",
            "loading", "executing", "uploading", "updating"}

Places == Working \cup {"failed", "refused", "completed"}

\* The scenarios of a request, which are in its fingerprint, say whether it is compiled.
Compiles(r) == Fingerprint[r] \in compiled

Init ==
  /\ compiled \in SUBSET Fingerprints
  /\ sources = 0
  /\ object = [p \in Paths |-> None]
  /\ row = [t \in Tasks |-> None]
  /\ pc = [r \in Runs |-> "lookup"]
  /\ left = [r \in Runs |-> 2]
  /\ task = [r \in Runs |-> None]
  /\ path = [r \in Runs |-> None]
  /\ source = [r \in Runs |-> None]
  /\ reused = [r \in Runs |-> FALSE]
  /\ linked = [r \in Runs |-> FALSE]
  /\ repaired = [r \in Runs |-> FALSE]
  /\ verdict = [r \in Runs |-> Pending]
  /\ approved = [r \in Runs |-> {}]
  /\ rejected = [r \in Runs |-> {}]
  /\ published = {}

Goto(r, place) == pc' = [pc EXCEPT ![r] = place]

\* A model writes a text that nobody wrote before.
Writes(r) ==
  /\ sources < MaxSources
  /\ sources' = sources + 1
  /\ source' = [source EXCEPT ![r] = sources + 1]

-----------------------------------------------------------------------------
(* Generation *)

\* Mutant: a candidate that is not executed yet is reused.
BugReusesPending(r) ==
  {t \in Tasks : /\ row[t] # None
                 /\ row[t].verdict.status # "FAILED"
                 /\ row[t].fingerprint = Fingerprint[r]}

\* _find_reusable_test.  The fingerprint leaves the feedback of the Oracle out.
Reusable(r) ==
  {t \in Tasks : /\ row[t] # None
                 /\ row[t].verdict = [status |-> "PASSED", catalog |-> TRUE]
                 /\ row[t].fingerprint = Fingerprint[r]}

\* The query takes the one that completed last: any of them may be.
Reuse(r) ==
  /\ pc[r] = "lookup"
  /\ \E t \in Reusable(r) :
       /\ task' = [task EXCEPT ![r] = t]
       /\ path' = [path EXCEPT ![r] = row[t].path]
  /\ reused' = [reused EXCEPT ![r] = TRUE]
  /\ Goto(r, "reading")
  /\ UNCHANGED <<sources, stores, source, execution, reviews>>

NothingReusable(r) ==
  /\ pc[r] = "lookup"
  /\ Reusable(r) = {}
  /\ reused' = [reused EXCEPT ![r] = FALSE]
  /\ Goto(r, "drafting")
  /\ UNCHANGED <<sources, stores, source, execution, task, path, reviews>>

\* generate_tests: the contract compiler, which writes the same text every time, or the
\* model and its quality gate.
Draft(r) ==
  /\ pc[r] = "drafting"
  /\ \/ /\ Compiles(r)
        /\ source' = [source EXCEPT ![r] = Contract[r]]
        /\ UNCHANGED sources
     \/ ~Compiles(r) /\ Writes(r)
  /\ Goto(r, "storing")
  /\ UNCHANGED <<stores, execution, suite, reviews>>

\* "# Error", of the model or of the gate.
DraftFails(r) ==
  /\ pc[r] = "drafting"
  /\ ~Compiles(r)
  /\ Goto(r, "failed")
  /\ UNCHANGED <<sources, stores, source, execution, suite, reviews>>

\* _store_test_artifact, under a new task id: ids are numbered as they are given.
Store(r) ==
  /\ pc[r] = "storing"
  /\ \E t \in Tasks :
       /\ object[<<t, "candidate">>] = None
       /\ \A u \in 1..t - 1 : object[<<u, "candidate">>] # None
       /\ object' = [object EXCEPT ![<<t, "candidate">>] = source[r]]
       /\ task' = [task EXCEPT ![r] = t]
       /\ path' = [path EXCEPT ![r] = <<t, "candidate">>]
  /\ Goto(r, "registering")
  /\ UNCHANGED <<sources, row, published, source, execution, reused, reviews>>

\* _create_test_run_metadata_in_postgres.
Register(r) ==
  /\ pc[r] = "registering"
  /\ row' = [row EXCEPT ![task[r]] =
       [fingerprint |-> Fingerprint[r], path |-> path[r], verdict |-> Pending]]
  /\ Goto(r, "reading")
  /\ UNCHANGED <<sources, object, published, source, execution, suite, reviews>>

\* Mutant: the row is written first; the upload fails, and the row stays.
BugRegistersFirst(r) ==
  /\ pc[r] = "storing"
  /\ \E t \in Tasks :
       /\ row[t] = None
       /\ row' = [row EXCEPT ![t] =
            [fingerprint |-> Fingerprint[r], path |-> <<t, "candidate">>, verdict |-> Pending]]
  /\ Goto(r, "failed")
  /\ UNCHANGED <<sources, object, published, source, execution, suite, reviews>>

\* The store or the database fails; what was stored stays.
PersistenceFails(r) ==
  /\ pc[r] \in {"storing", "registering"}
  /\ Goto(r, "failed")
  /\ UNCHANGED <<sources, stores, source, execution, suite, reviews>>

-----------------------------------------------------------------------------
(* Review *)

\* Mutant: the attempts start again with the suite that was generated again.
BugCountsAnew(r) ==
  /\ pc[r] = "reading"
  /\ source' = [source EXCEPT ![r] = object[path[r]]]
  /\ left' = [left EXCEPT ![r] = IF Compiles(r) /\ ~reused[r] THEN 0 ELSE 1]
  /\ Goto(r, "judging")
  /\ UNCHANGED <<sources, stores, execution, suite, approved, rejected>>

\* The Oracle reads the object that the generation agent named.  One review for a suite
\* that was compiled, as a reused one does not say it is; else two.
ReadForReview(r) ==
  /\ pc[r] = "reading"
  /\ source' = [source EXCEPT ![r] = object[path[r]]]
  /\ left' = [left EXCEPT ![r] = IF @ = 2 /\ Compiles(r) /\ ~reused[r] THEN 0 ELSE @ - 1]
  /\ Goto(r, "judging")
  /\ UNCHANGED <<sources, stores, execution, suite, approved, rejected>>

\* 502, 413, or no answer: the review fails closed.
ReviewFails(r) ==
  /\ pc[r] \in {"reading", "judging"}
  /\ Goto(r, "failed")
  /\ UNCHANGED <<sources, stores, source, execution, suite, reviews>>

Approve(r) ==
  /\ pc[r] = "judging"
  /\ approved' = [approved EXCEPT ![r] = @ \cup {source[r]}]
  /\ Goto(r, "selecting")
  /\ UNCHANGED <<sources, stores, source, execution, suite, left, rejected>>

\* A rejection that ends in one place as long as reviews are left, and in another then.
Rejection(r, again, last) ==
  /\ pc[r] = "judging"
  /\ rejected' = [rejected EXCEPT ![r] = @ \cup {task[r]}]
  /\ Goto(r, IF left[r] > 0 THEN again ELSE last)
  /\ UNCHANGED <<sources, stores, source, execution, suite, left, approved>>

\* Mutant: the last rejection executes the suite.
BugExecutesRejected(r) == Rejection(r, "lookup", "selecting")

\* Mutant: the status of the second review is not looked at again.
BugReviewsForever(r) == Rejection(r, "lookup", "reading")

\* The first of two rejections asks for another suite, with feedback.
Reject(r) == Rejection(r, "lookup", "refused")

-----------------------------------------------------------------------------
(* Execution *)

\* _load selects the row of the task, and downloads the object it names.
Select(r) ==
  /\ pc[r] = "selecting"
  /\ path' = [path EXCEPT ![r] = row[task[r]].path]
  /\ linked' = [linked EXCEPT ![r] = row[task[r]].verdict.catalog]
  /\ repaired' = [repaired EXCEPT ![r] = FALSE]
  /\ Goto(r, "loading")
  /\ UNCHANGED <<sources, stores, task, source, reused, verdict, reviews>>

Load(r) ==
  /\ pc[r] = "loading"
  /\ source' = [source EXCEPT ![r] = object[path[r]]]
  /\ Goto(r, "executing")
  /\ UNCHANGED <<sources, stores, suite, execution, reviews>>

\* Failed executions are repaired and executed again; what the last repair wrote counts.
Repair(r) ==
  /\ pc[r] = "executing"
  /\ ~repaired[r]
  /\ Writes(r)
  /\ repaired' = [repaired EXCEPT ![r] = TRUE]
  /\ UNCHANGED <<stores, pc, linked, verdict, suite, reviews>>

\* The last execution, passed or not.  One with an outcome keeps the link of the row, or is
\* published; of the two files of a publication, only the first may succeed.
Conclude(r) ==
  /\ pc[r] = "executing"
  /\ \E passed, outcome, link \in BOOLEAN :
       /\ passed => outcome
       /\ link => outcome
       /\ outcome /\ linked[r] => link
       /\ verdict' = [verdict EXCEPT ![r] =
            [status |-> IF passed THEN "PASSED" ELSE "FAILED", catalog |-> link]]
       /\ published' \in IF linked[r] \/ ~outcome THEN {published}
                         ELSE {published \cup {source[r]}} \cup (IF link THEN {} ELSE {published})
  /\ Goto(r, IF repaired[r] THEN "uploading" ELSE "updating")
  /\ UNCHANGED <<sources, object, row, source, linked, repaired, suite, reviews>>

Upload(r) ==
  /\ pc[r] = "uploading"
  /\ object' = [object EXCEPT ![<<task[r], "repaired">>] = source[r]]
  /\ Goto(r, "updating")
  /\ UNCHANGED <<sources, row, published, source, execution, suite, reviews>>

\* The UPDATE of _persist.
Update(r) ==
  /\ pc[r] = "updating"
  /\ row' = [row EXCEPT ![task[r]].verdict = verdict[r],
                        ![task[r]].path = IF repaired[r] THEN <<task[r], "repaired">> ELSE @]
  /\ Goto(r, "completed")
  /\ UNCHANGED <<sources, object, published, source, execution, suite, reviews>>

\* The agent does not answer; what was published or uploaded stays.
ExecutionFails(r) ==
  /\ pc[r] \in {"selecting", "loading", "executing", "uploading", "updating"}
  /\ Goto(r, "failed")
  /\ UNCHANGED <<sources, stores, source, execution, suite, reviews>>

Generate(r) ==
  \/ Reuse(r) \/ NothingReusable(r) \/ Draft(r) \/ DraftFails(r)
  \/ Store(r) \/ Register(r) \/ PersistenceFails(r)

Review(r) == ReadForReview(r) \/ ReviewFails(r) \/ Approve(r) \/ Reject(r)

Execute(r) ==
  \/ Select(r) \/ Load(r) \/ Repair(r) \/ Conclude(r) \/ Upload(r) \/ Update(r)
  \/ ExecutionFails(r)

Step(r) == (Generate(r) \/ Review(r) \/ Execute(r)) /\ UNCHANGED compiled

Next == \E r \in Runs : Step(r)

Spec == Init /\ [][Next]_vars

\* Every activity has a timeout, so a run takes its next step.
Fairness == \A r \in Runs : WF_vars(Step(r))

FairSpec == Spec /\ Fairness

-----------------------------------------------------------------------------
(* Correctness *)

\* Type correctness of the store, the rows and the runs.
TypeOK ==
  /\ compiled \subseteq Fingerprints
  /\ sources \in 0..MaxSources
  /\ object \in [Paths -> Sources \cup {None}]
  /\ row \in [Tasks -> Rows \cup {None}]
  /\ pc \in [Runs -> Places]
  /\ left \in [Runs -> 0..2]
  /\ task \in [Runs -> Tasks \cup {None}]
  /\ path \in [Runs -> Paths \cup {None}]
  /\ source \in [Runs -> Sources \cup {None}]
  /\ reused \in [Runs -> BOOLEAN]
  /\ linked \in [Runs -> BOOLEAN]
  /\ repaired \in [Runs -> BOOLEAN]
  /\ verdict \in [Runs -> Verdicts]
  /\ approved \in [Runs -> SUBSET Sources]
  /\ rejected \in [Runs -> SUBSET Tasks]
  /\ published \subseteq Sources

(***************************************************************************)
(* A row names an object that is there, whichever of the two writes of a   *)
(* generation or of an execution failed (test_generation/app.py:1094-1102, *)
(* test_execution/app.py:339-372).                                         *)
(***************************************************************************)
RowsResolve == \A t \in Tasks : row[t] # None => object[row[t].path] # None

(***************************************************************************)
(* A suite that a run generated itself is first executed as the Oracle     *)
(* approved it in that run: nobody writes its object or moves its row in   *)
(* between (workflow.py:171-228, test_execution/app.py:293-327).           *)
(***************************************************************************)
GeneratedAsApproved ==
  \A r \in Runs :
    pc[r] = "executing" /\ ~reused[r] /\ ~repaired[r] => source[r] \in approved[r]

(***************************************************************************)
(* The lookup ignores the Oracle's feedback (app.py:1047-1076), so a suite *)
(* that was rejected can come back to the same run.  Then another run had  *)
(* it approved, as it was generated, and executed it: a rejection is only  *)
(* ever set against an approval of the same suite, and no run gets its own *)
(* rejected candidate, or one that was not executed, for a new one.        *)
(***************************************************************************)
RejectedReturnsApproved ==
  \A r \in Runs :
    pc[r] = "judging" /\ task[r] \in rejected[r] =>
      /\ reused[r] /\ row[task[r]].verdict # Pending
      /\ \E q \in Runs \ {r} : object[<<task[r], "candidate">>] \in approved[q]

\* Every run ends: completed, refused by the Oracle, or failed.
RunsEnd == \A r \in Runs : <>(pc[r] \in {"failed", "refused", "completed"})

-----------------------------------------------------------------------------
(* What documents of the repository say, and the code does not do. *)

(***************************************************************************)
(* "The oracle reads the immutable test artifact from RustFS"              *)
(* (README.md:428-429): an object never changes.  The repaired object of a *)
(* task is written again by every run that repairs the suite.              *)
(***************************************************************************)
ArtifactsImmutable ==
  [][\A p \in Paths : object[p] # None => object'[p] = object[p]]_vars

(***************************************************************************)
(* "If Oracle feedback is present, regenerate the complete suite and       *)
(* correct every cited issue" (test_generation/app.py:1248).  The lookup   *)
(* comes before the prompt and may return the suite that was rejected.     *)
(***************************************************************************)
FeedbackAnswered == \A r \in Runs : pc[r] = "judging" => task[r] \notin rejected[r]

(***************************************************************************)
(* "AQE does not publish unreviewed model output ... into the regression   *)
(* catalog" (docs/pitch.md:48).  The repair model's output is.             *)
(***************************************************************************)
OnlyReviewedPublished == published \subseteq UNION {approved[r] : r \in Runs}

=============================================================================
