--------------------------- MODULE ExecutionAgent ---------------------------
(***************************************************************************)
(* The test execution agent (agents/test_execution/app.py): it runs and    *)
(* repairs a stored candidate, publishes what deserves it in the GitHub    *)
(* catalog (utils/github_test_catalog.py) and records the result in the    *)
(* test_runs table and the object store.                                   *)
(*                                                                         *)
(* Requests are served concurrently, by one or several replicas, and       *)
(* nothing serialises the requests of one task: Temporal retries an        *)
(* attempt whose heartbeat timed out while the agent still works on it,    *)
(* and a person may confirm a finding at any time.  Each step below is     *)
(* one request's code between two awaits, hence one effect on a shared     *)
(* store.  A failed effect may have been applied: the answer was lost.     *)
(*                                                                         *)
(* A path in the catalog is abstracted to what can make two paths differ:  *)
(* root, the part fixed by the task (type, agent, version, revision, eight *)
(* characters of the task id), and the part read from the code (suite id   *)
(* and layer).  A catalog that is not configured behaves like one that     *)
(* cannot be reached: publish_test returns no link.                        *)
(***************************************************************************)
EXTENDS Naturals

CONSTANTS
  Requests,           \* requests to run a test, retries included
  Tasks,              \* task ids that may have a row in test_runs
  Executable,         \* tasks whose test_type is this agent's mode
  MaxRepairAttempts,
  Slots,              \* the part of a path that the task fixes
  Slot,               \* [Tasks -> Slots]
  Suites,             \* the part of a path that the code fixes
  None                \* SQL NULL, Python None, no such file

Roots == {"generated-tests", "generated-findings"}

Paths == [root : Roots, slot : Slots, suite : Suites]

\* The n-th repair made by a request; the generator's own code is by None.
Codes == [task : Tasks, by : Requests \cup {None}, n : 0..MaxRepairAttempts, suite : Suites]

Published == [code : Codes, by : Requests]

Row == [status : {"PENDING", "PASSED", "FAILED"}, code : Codes,
        object : {"generated", "repairs"}, catalog : Paths \cup {None},
        confirmed : BOOLEAN]

ASSUME ConstantsAssumption ==
  /\ Executable \subseteq Tasks
  /\ MaxRepairAttempts \in Nat
  /\ Slot \in [Tasks -> Slots]
  /\ None \notin Requests \cup Paths \cup Codes \cup Published \cup Row

VARIABLES
  (* Shared stores. *)
  rows,        \* [Tasks -> Row \cup {None}]: the test_runs table
  generated,   \* [Tasks -> Codes \cup {None}]: the generator's objects
  repairs,     \* [Tasks -> Codes \cup {None}]: artifacts/repairs/<task>/test_code.py
  branch,      \* does the catalog branch exist?
  suites,      \* [Paths -> Published \cup {None}]: test files of the catalog
  manifests,   \* [Paths -> Requests \cup {None}]: their metadata files, by author
  (* The request and the local variables of run(). *)
  req,         \* [Requests -> Request]
  pc,          \* [Requests -> Places]
  object,      \* [Requests -> {"generated", "repairs"}]: object_name read from the row
  snapshot,    \* [Requests -> Paths \cup {None}]: target["test_catalog"]
  code,        \* [Requests -> Codes \cup {None}]
  attempt,     \* [Requests -> 0..MaxRepairAttempts]: attempt_number
  repaired,    \* [Requests -> BOOLEAN]
  verdict,     \* [Requests -> Verdicts \cup {"none"}]: of the last execution
  catalog,     \* [Requests -> Paths \cup {None}]: link to persist
  (* History. *)
  ran          \* executions so far, as <<code, verdict>>

stores == <<rows, generated, repairs, branch, suites, manifests>>
locals == <<object, snapshot, code, attempt, repaired, verdict, catalog>>
vars == <<stores, req, pc, locals, ran>>

\* confirm: finding_disposition is confirmed_product_defect, with evidence.
Request == [task : Tasks, repair : BOOLEAN, confirm : BOOLEAN]

\* asserted: some assertions failed, no error occurred.  errored: neither passed nor
\* asserted, as when the quality gate refuses the code or the execution times out.
Verdicts == {"passed", "asserted", "errored"}

Publishing == {"branching", "creating_branch", "creating_suite", "creating_manifest"}

Working == {"loading", "executing", "repairing", "concluding", "uploading",
            "recording"} \cup Publishing

Ended == {"answered", "refused", "broken", "lost"}

Places == {"sent"} \cup Working \cup Ended

Task(r) == req[r].task

Init ==
  /\ rows = [t \in Tasks |-> None]
  /\ generated = [t \in Tasks |-> None]
  /\ repairs = [t \in Tasks |-> None]
  /\ branch = FALSE
  /\ suites = [p \in Paths |-> None]
  /\ manifests = [p \in Paths |-> None]
  /\ req \in [Requests -> Request]
  /\ pc = [r \in Requests |-> "sent"]
  /\ object = [r \in Requests |-> "generated"]
  /\ snapshot = [r \in Requests |-> None]
  /\ code = [r \in Requests |-> None]
  /\ attempt = [r \in Requests |-> 0]
  /\ repaired = [r \in Requests |-> FALSE]
  /\ verdict = [r \in Requests |-> "none"]
  /\ catalog = [r \in Requests |-> None]
  /\ ran = {}

Goto(r, place) == pc' = [pc EXCEPT ![r] = place]

-----------------------------------------------------------------------------
\* The generator, or candidate_fixture, stores code and inserts its row.  (Until an
\* execution is recorded, nothing below depends on the raw_code of the row.)
Register(t) ==
  /\ rows[t] = None
  /\ \E s \in Suites :
       LET source == [task |-> t, by |-> None, n |-> 0, suite |-> s] IN
       /\ generated' = [generated EXCEPT ![t] = source]
       /\ rows' = [rows EXCEPT ![t] =
            [status |-> "PENDING", code |-> source, object |-> "generated",
             catalog |-> None, confirmed |-> FALSE]]
  /\ UNCHANGED <<repairs, branch, suites, manifests, req, pc, locals, ran>>

\* _load: the SELECT.
Select(r) ==
  /\ pc[r] = "sent"
  /\ rows[Task(r)] # None
  /\ object' = [object EXCEPT ![r] = rows[Task(r)].object]
  /\ snapshot' = [snapshot EXCEPT ![r] = rows[Task(r)].catalog]
  /\ Goto(r, "loading")
  /\ UNCHANGED <<stores, req, code, attempt, repaired, verdict, catalog, ran>>

\* _load: an unknown task is a KeyError, answered 404.
Unknown(r) ==
  /\ pc[r] = "sent"
  /\ rows[Task(r)] = None
  /\ Goto(r, "refused")
  /\ UNCHANGED <<stores, req, locals, ran>>

\* _load: the download, and the check of the mode.
Download(r) ==
  /\ pc[r] = "loading"
  /\ Task(r) \in Executable
  /\ code' = [code EXCEPT ![r] =
       IF object[r] = "repairs" THEN repairs[Task(r)] ELSE generated[Task(r)]]
  /\ Goto(r, "executing")
  /\ UNCHANGED <<stores, req, object, snapshot, attempt, repaired, verdict, catalog, ran>>

\* A test of another mode is a ValueError, answered 409.
WrongMode(r) ==
  /\ pc[r] = "loading"
  /\ Task(r) \notin Executable
  /\ Goto(r, "refused")
  /\ UNCHANGED <<stores, req, locals, ran>>

-----------------------------------------------------------------------------
\* Mutant: the bound on repair attempts is forgotten.
BugRepairsUnbounded(r, v) == v # "passed" /\ req[r].repair

\* The loop goes on to a repair after an execution with verdict v.
WantsRepair(r, v) ==
  v # "passed" /\ req[r].repair /\ attempt[r] < MaxRepairAttempts

\* execute_code: what a suite does against a live target is up to the target.
Execute(r) ==
  /\ pc[r] = "executing"
  /\ \E v \in Verdicts :
       /\ verdict' = [verdict EXCEPT ![r] = v]
       /\ ran' = ran \cup {<<code[r], v>>}
       /\ Goto(r, IF WantsRepair(r, v) THEN "repairing" ELSE "concluding")
  /\ UNCHANGED <<stores, req, object, snapshot, code, attempt, repaired, catalog>>

\* The s-suite the model proposes for request r's next attempt.
Candidate(r, s) ==
  [task |-> Task(r), by |-> r, n |-> attempt[r] + 1, suite |-> s]

\* Mutant: the loop ends on a repair, instead of on an execution.
BugEndsOnRepair(r) ==
  /\ pc[r] = "repairing"
  /\ \E s \in Suites : code' = [code EXCEPT ![r] = Candidate(r, s)]
  /\ repaired' = [repaired EXCEPT ![r] = TRUE]
  /\ attempt' = [attempt EXCEPT ![r] = @ + 1]
  /\ Goto(r, IF attempt[r] + 1 < MaxRepairAttempts THEN "executing" ELSE "concluding")
  /\ UNCHANGED <<stores, req, object, snapshot, verdict, catalog, ran>>

\* RepairClient.repair returned a candidate.
Repair(r) ==
  /\ pc[r] = "repairing"
  /\ \E s \in Suites : code' = [code EXCEPT ![r] = Candidate(r, s)]
  /\ repaired' = [repaired EXCEPT ![r] = TRUE]
  /\ attempt' = [attempt EXCEPT ![r] = @ + 1]
  /\ Goto(r, "executing")
  /\ UNCHANGED <<stores, req, object, snapshot, verdict, catalog, ran>>

\* No model is configured, or it answered nothing.
NoCandidate(r) ==
  /\ pc[r] = "repairing"
  /\ Goto(r, "concluding")
  /\ UNCHANGED <<stores, req, locals, ran>>

\* catalog_outcome.
Outcome(r) ==
  IF verdict[r] = "passed" THEN "generated-tests"
  ELSE IF req[r].confirm /\ verdict[r] = "asserted" THEN "generated-findings"
  ELSE "none"

\* After the loop: reuse the link that _load found, publish, or neither.
Conclude(r) ==
  /\ pc[r] = "concluding"
  /\ \/ /\ Outcome(r) = "none"
        /\ Goto(r, "uploading")
        /\ UNCHANGED catalog
     \/ /\ Outcome(r) # "none"
        /\ snapshot[r] # None
        /\ catalog' = [catalog EXCEPT ![r] = snapshot[r]]
        /\ Goto(r, "uploading")
     \/ /\ Outcome(r) # "none"
        /\ snapshot[r] = None
        /\ Goto(r, "branching")
        /\ UNCHANGED catalog
  /\ UNCHANGED <<stores, req, object, snapshot, code, attempt, repaired, verdict, ran>>

-----------------------------------------------------------------------------
(* publish_test. *)

\* catalog_path, for the code of request r.
Path(r) == [root |-> Outcome(r), slot |-> Slot[Task(r)], suite |-> code[r].suite]

GetBranch(r) ==
  /\ pc[r] = "branching"
  /\ Goto(r, IF branch THEN "creating_suite" ELSE "creating_branch")
  /\ UNCHANGED <<stores, req, locals, ran>>

\* GitHub refuses to create a ref that exists: see PublicationFails.
CreateBranch(r) ==
  /\ pc[r] = "creating_branch"
  /\ ~branch
  /\ branch' = TRUE
  /\ \E answered \in BOOLEAN :
       Goto(r, IF answered THEN "creating_suite" ELSE "uploading")
  /\ UNCHANGED <<rows, generated, repairs, suites, manifests, req, locals, ran>>

\* Mutant: create_file replaces a suite that exists.
BugReplacesSuite(r) ==
  /\ pc[r] = "creating_suite"
  /\ suites' = [suites EXCEPT ![Path(r)] = [code |-> code[r], by |-> r]]
  /\ \E answered \in BOOLEAN :
       Goto(r, IF answered THEN "creating_manifest" ELSE "uploading")
  /\ UNCHANGED <<rows, generated, repairs, branch, manifests, req, locals, ran>>

\* create_file refuses a path that exists: see PublicationFails.
CreateSuite(r) ==
  /\ pc[r] = "creating_suite"
  /\ suites[Path(r)] = None
  /\ suites' = [suites EXCEPT ![Path(r)] = [code |-> code[r], by |-> r]]
  /\ \E answered \in BOOLEAN :
       Goto(r, IF answered THEN "creating_manifest" ELSE "uploading")
  /\ UNCHANGED <<rows, generated, repairs, branch, manifests, req, locals, ran>>

CreateManifest(r) ==
  /\ pc[r] = "creating_manifest"
  /\ manifests[Path(r)] = None
  /\ manifests' = [manifests EXCEPT ![Path(r)] = r]
  /\ \E answered \in BOOLEAN :
       catalog' = [catalog EXCEPT ![r] = IF answered THEN Path(r) ELSE None]
  /\ Goto(r, "uploading")
  /\ UNCHANGED <<rows, generated, repairs, branch, suites, req, object, snapshot, code,
                 attempt, repaired, verdict, ran>>

\* Mutant: a failed publication is started over.
BugRepublishes(r) ==
  /\ pc[r] \in Publishing
  /\ Goto(r, "branching")
  /\ UNCHANGED <<stores, req, locals, ran>>

\* Any error of the catalog is caught and leaves the run without a link.
PublicationFails(r) ==
  /\ pc[r] \in Publishing
  /\ Goto(r, "uploading")
  /\ UNCHANGED <<stores, req, locals, ran>>

-----------------------------------------------------------------------------
(* _persist. *)

Upload(r) ==
  /\ pc[r] = "uploading"
  /\ repairs' = IF repaired[r] THEN [repairs EXCEPT ![Task(r)] = code[r]] ELSE repairs
  /\ Goto(r, "recording")
  /\ UNCHANGED <<rows, generated, branch, suites, manifests, req, locals, ran>>

\* Mutant: the link is the path of the suite, published or not.
BugAssumesPublished(r) ==
  [rows[Task(r)] EXCEPT
     !.status = IF verdict[r] = "passed" THEN "PASSED" ELSE "FAILED",
     !.code = code[r],
     !.object = IF repaired[r] THEN "repairs" ELSE @,
     !.catalog = IF Outcome(r) # "none" THEN Path(r) ELSE None,
     !.confirmed = req[r].confirm]

\* The UPDATE replaces the link, by NULL if there is none.
Updated(r) ==
  [rows[Task(r)] EXCEPT
     !.status = IF verdict[r] = "passed" THEN "PASSED" ELSE "FAILED",
     !.code = code[r],
     !.object = IF repaired[r] THEN "repairs" ELSE @,
     !.catalog = catalog[r],
     !.confirmed = req[r].confirm]

Record(r) ==
  /\ pc[r] = "recording"
  /\ rows' = [rows EXCEPT ![Task(r)] = Updated(r)]
  /\ \E answered \in BOOLEAN : Goto(r, IF answered THEN "answered" ELSE "broken")
  /\ UNCHANGED <<generated, repairs, branch, suites, manifests, req, locals, ran>>

\* The database, the object store, the sandbox or the model raises; answered 500
\* (404 or 409 if what it raises is a KeyError or a ValueError).
Breaks(r) ==
  /\ pc[r] \in {"sent", "loading", "executing", "repairing", "uploading", "recording"}
  /\ Goto(r, "broken")
  /\ UNCHANGED <<stores, req, locals, ran>>

\* The same, when the upload went through but its answer was lost.
UploadUnanswered(r) ==
  /\ pc[r] = "uploading"
  /\ repaired[r]
  /\ repairs' = [repairs EXCEPT ![Task(r)] = code[r]]
  /\ Goto(r, "broken")
  /\ UNCHANGED <<rows, generated, branch, suites, manifests, req, locals, ran>>

\* The replica that serves r stops.
ReplicaStops(r) ==
  /\ pc[r] \in Working
  /\ Goto(r, "lost")
  /\ UNCHANGED <<stores, req, locals, ran>>

-----------------------------------------------------------------------------
Accept(r) == Select(r) \/ Unknown(r)

Publication(r) ==
  GetBranch(r) \/ CreateBranch(r) \/ CreateSuite(r) \/ CreateManifest(r) \/ PublicationFails(r)

Persistence(r) == Upload(r) \/ Record(r) \/ UploadUnanswered(r)

Serve(r) ==
  \/ Download(r) \/ WrongMode(r)
  \/ Execute(r) \/ Repair(r) \/ NoCandidate(r) \/ Conclude(r)
  \/ Publication(r)
  \/ Persistence(r)
  \/ Breaks(r)

Next ==
  \/ \E t \in Tasks : Register(t)
  \/ \E r \in Requests : Accept(r) \/ Serve(r) \/ ReplicaStops(r)

Spec == Init /\ [][Next]_vars

-----------------------------------------------------------------------------
(* Correctness *)

\* Type correctness of every variable of the agent and of its stores.
TypeOK ==
  /\ rows \in [Tasks -> Row \cup {None}]
  /\ generated \in [Tasks -> Codes \cup {None}]
  /\ repairs \in [Tasks -> Codes \cup {None}]
  /\ branch \in BOOLEAN
  /\ suites \in [Paths -> Published \cup {None}]
  /\ manifests \in [Paths -> Requests \cup {None}]
  /\ req \in [Requests -> Request]
  /\ pc \in [Requests -> Places]
  /\ object \in [Requests -> {"generated", "repairs"}]
  /\ snapshot \in [Requests -> Paths \cup {None}]
  /\ code \in [Requests -> Codes \cup {None}]
  /\ attempt \in [Requests -> 0..MaxRepairAttempts]
  /\ repaired \in [Requests -> BOOLEAN]
  /\ verdict \in [Requests -> Verdicts \cup {"none"}]
  /\ catalog \in [Requests -> Paths \cup {None}]
  /\ ran \subseteq Codes \X Verdicts

(***************************************************************************)
(* What the stores say of a code, some execution of that very code said:   *)
(* a suite in generated-tests passed, a reproducer in generated-findings   *)
(* failed by assertions alone and was published for a confirmed finding,   *)
(* and the status of a row is that of its raw_code (app.py:390-457).       *)
(***************************************************************************)
RecordsWhatRan ==
  /\ \A p \in Paths :
       suites[p] # None =>
         \/ p.root = "generated-tests" /\ <<suites[p].code, "passed">> \in ran
         \/ /\ p.root = "generated-findings"
            /\ <<suites[p].code, "asserted">> \in ran
            /\ req[suites[p].by].confirm
  /\ \A t \in Tasks :
       rows[t] # None /\ rows[t].status # "PENDING" =>
         \E v \in Verdicts :
           <<rows[t].code, v>> \in ran /\ (v = "passed" <=> rows[t].status = "PASSED")

(***************************************************************************)
(* The link in a row leads to a suite and its metadata, published by one   *)
(* request, for that row's task: not to a file of another task whose path  *)
(* collides, nor to half a publication (github_test_catalog.py:117-144).   *)
(***************************************************************************)
LinksResolve ==
  \A t \in Tasks :
    rows[t] # None /\ rows[t].catalog # None =>
      LET published == suites[rows[t].catalog] IN
      /\ published # None
      /\ published.code.task = t
      /\ manifests[rows[t].catalog] = published.by

\* The most steps that request r may still take.
StepsLeft(r) ==
  CASE pc[r] = "sent"              -> 11 + 2 * MaxRepairAttempts
    [] pc[r] = "loading"           -> 10 + 2 * MaxRepairAttempts
    [] pc[r] = "executing"         -> 9 + 2 * (MaxRepairAttempts - attempt[r])
    [] pc[r] = "repairing"         -> 8 + 2 * (MaxRepairAttempts - attempt[r])
    [] pc[r] = "concluding"        -> 7
    [] pc[r] = "branching"         -> 6
    [] pc[r] = "creating_branch"   -> 5
    [] pc[r] = "creating_suite"    -> 4
    [] pc[r] = "creating_manifest" -> 3
    [] pc[r] = "uploading"         -> 2
    [] pc[r] = "recording"         -> 1
    [] OTHER                       -> 0

(***************************************************************************)
(* The repair loop and the publication are bounded (app.py:390-448),       *)
(* whatever other requests do and whatever fails: each step of a request   *)
(* uses up one of the steps it had left, so it ends, or stays where a call *)
(* of its own does not return.                                             *)
(***************************************************************************)
RequestsProgress ==
  [][\A r \in Requests : pc'[r] # pc[r] => StepsLeft(r)' \in Nat /\ StepsLeft(r)' < StepsLeft(r)]_vars

-----------------------------------------------------------------------------
(* Refinement *)

\* A path of the catalog, and a row, as readers of the catalog see them.
EntryOf(suite, manifest) ==
  IF suite = None THEN None
  ELSE [task |-> suite.code.task, author |-> suite.by,
        files |-> IF manifest = suite.by THEN "both" ELSE "suite"]

LinkOf(row) == IF row = None THEN None ELSE row.catalog

Catalog == INSTANCE TestCatalog WITH
  Authors <- Requests,
  entries <- [p \in Paths |-> EntryOf(suites[p], manifests[p])],
  links <- [t \in Tasks |-> LinkOf(rows[t])]

\* The agent, its concurrent requests and their failures implement TestCatalog.
RefinesCatalog == Catalog!Spec

-----------------------------------------------------------------------------
(* What documents and scripts of the repository say, and the code does not do. *)

Quiet == \A r \in Requests : pc[r] \notin Working

(***************************************************************************)
(* "The resulting GitHub URL is written back to the PostgreSQL run record" *)
(* (README.md:97): a record that says PASSED and has its link does not     *)
(* lose the link to another PASSED result.                                 *)
(***************************************************************************)
LinkKept ==
  [][\A t \in Tasks :
       /\ rows[t] # None
       /\ rows[t].status = "PASSED"
       /\ rows[t].catalog # None
       /\ rows'[t].status = "PASSED"
       => rows'[t].catalog # None]_vars

(***************************************************************************)
(* run-agent-catalog.py:86-87 refuses to run a catalog in which a suite    *)
(* has no metadata file beside it.                                         *)
(***************************************************************************)
SuitesDescribed ==
  Quiet => \A p \in Paths : suites[p] # None => manifests[p] # None

(***************************************************************************)
(* Confirmed defects, as assertion failures, are "published to             *)
(* generated-findings/" (README.md:99-103), not linked to a suite that CI  *)
(* expects to pass.                                                        *)
(***************************************************************************)
FindingsInFindings ==
  \A t \in Tasks :
    /\ rows[t] # None
    /\ rows[t].status = "FAILED"
    /\ rows[t].catalog # None
    => rows[t].catalog.root = "generated-findings"

(***************************************************************************)
(* "Store final repaired source", then "persist final result"              *)
(* (docs/architecture.md:231-232): the repaired source that a row points   *)
(* at is the one whose result it records.                                  *)
(***************************************************************************)
RowMatchesObject ==
  Quiet =>
    \A t \in Tasks :
      rows[t] # None /\ rows[t].object = "repairs" => repairs[t] = rows[t].code

=============================================================================
