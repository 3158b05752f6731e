------------------------ MODULE ExecutionAgentProofs ------------------------
(***************************************************************************)
(* Proofs about ExecutionAgent, for any number of requests, tasks, paths   *)
(* and repair attempts.                                                    *)
(***************************************************************************)
EXTENDS ExecutionAgent, TLAPS

\* Where a request has run the code it holds.
Judged == {"repairing", "concluding", "uploading", "recording"} \cup Publishing

\* Where a request has code.
Loaded == {"executing"} \cup Judged

\* The stores hold, under a task's name, code of that task.
StoresConsistent ==
  \A t \in Tasks :
    /\ rows[t] # None => generated[t] # None /\ rows[t].code.task = t
    /\ rows[t] # None /\ rows[t].object = "repairs" => repairs[t] # None
    /\ generated[t] # None => generated[t].task = t
    /\ repairs[t] # None => repairs[t].task = t

\* A request works on code of its task, whose row exists, within the repair bound.
WorkConsistent ==
  \A r \in Requests :
    /\ pc[r] \in Working => rows[Task(r)] # None
    /\ pc[r] = "loading" /\ object[r] = "repairs" => repairs[Task(r)] # None
    /\ pc[r] \in Loaded => code[r] # None /\ code[r].task = Task(r)
    /\ pc[r] = "recording" /\ repaired[r] => repairs[Task(r)] # None
    /\ pc[r] = "repairing" => attempt[r] < MaxRepairAttempts
    /\ pc[r] \in Publishing => Outcome(r) # "none"

StoreInv == TypeOK /\ StoresConsistent /\ WorkConsistent

\* A request that has judged its code ran it with the verdict it holds.
JudgedRan ==
  \A r \in Requests : pc[r] \in Judged => <<code[r], verdict[r]>> \in ran

RanInv == RecordsWhatRan /\ JudgedRan

\* p is a described suite of task t.
Resolves(p, t) ==
  /\ suites[p] # None
  /\ suites[p].code.task = t
  /\ manifests[p] = suites[p].by

\* A suite whose metadata file r is about to write is r's, and undescribed.
HalfPublished ==
  \A r \in Requests :
    pc[r] = "creating_manifest" =>
      suites[Path(r)] = [code |-> code[r], by |-> r] /\ manifests[Path(r)] = None

\* No metadata file precedes its suite.
SuiteFirst == \A p \in Paths : manifests[p] # None => suites[p] # None

\* The links that requests carry resolve, as those in the rows do.
CarriedResolve ==
  \A r \in Requests :
    /\ snapshot[r] # None => Resolves(snapshot[r], Task(r))
    /\ catalog[r] # None => Resolves(catalog[r], Task(r))

RowsResolve ==
  \A t \in Tasks :
    rows[t] # None /\ rows[t].catalog # None => Resolves(rows[t].catalog, t)

LinkInv == HalfPublished /\ SuiteFirst /\ CarriedResolve /\ RowsResolve

IInv == StoreInv /\ RanInv /\ LinkInv

\* What _persist writes.
LEMMA UpdatedRow ==
  ASSUME StoreInv, NEW r \in Requests, pc[r] = "recording"
  PROVE  /\ Updated(r) \in Row
         /\ Updated(r).status = IF verdict[r] = "passed" THEN "PASSED" ELSE "FAILED"
         /\ Updated(r).code = code[r]
         /\ Updated(r).object = IF repaired[r] THEN "repairs" ELSE rows[Task(r)].object
         /\ Updated(r).catalog = catalog[r]
<1>1. rows[Task(r)] \in Row /\ code[r] \in Codes /\ Task(r) \in Tasks
  BY DEF StoreInv, TypeOK, WorkConsistent, Working, Loaded, Judged, Task, Request
<1>2. catalog[r] \in Paths \cup {None} /\ repaired[r] \in BOOLEAN /\ req[r].confirm \in BOOLEAN
  BY DEF StoreInv, TypeOK, Request
<1>3. QED
  BY <1>1, <1>2 DEF Updated, Row

LEMMA StoreStep == StoreInv /\ [Next]_vars => StoreInv'
<1> SUFFICES ASSUME StoreInv, [Next]_vars PROVE StoreInv'
  OBVIOUS
<1> USE ConstantsAssumption DEF StoreInv, TypeOK, StoresConsistent, WorkConsistent, Task, Outcome,
        Request, Row, Codes, Published, Verdicts, Paths, Roots, Goto, stores, locals, Places, Working, Publishing, Ended, Judged, Loaded
<1>1. ASSUME NEW t \in Tasks, Register(t) PROVE StoreInv'
  BY <1>1 DEF Register
<1>2. ASSUME NEW r \in Requests, Select(r) PROVE StoreInv'
  BY <1>2 DEF Select
<1>3. ASSUME NEW r \in Requests, Download(r) PROVE StoreInv'
  BY <1>3 DEF Download
<1>4. ASSUME NEW r \in Requests, Execute(r) PROVE StoreInv'
  BY <1>4 DEF Execute, WantsRepair
<1>5. ASSUME NEW r \in Requests, Repair(r) PROVE StoreInv'
  BY <1>5 DEF Repair, Candidate
<1>6. ASSUME NEW r \in Requests, Conclude(r) PROVE StoreInv'
  <2>1. CASE Outcome(r) = "none" /\ Goto(r, "uploading") /\ UNCHANGED catalog
    BY <1>6, <2>1 DEF Conclude
  <2>2. CASE catalog' = [catalog EXCEPT ![r] = snapshot[r]] /\ Goto(r, "uploading")
    BY <1>6, <2>2 DEF Conclude
  <2>3. CASE Outcome(r) # "none" /\ Goto(r, "branching") /\ UNCHANGED catalog
    BY <1>6, <2>3 DEF Conclude
  <2>4. QED
    BY <1>6, <2>1, <2>2, <2>3 DEF Conclude
<1>7. ASSUME NEW r \in Requests, CreateBranch(r) PROVE StoreInv'
  BY <1>7 DEF CreateBranch
<1>8. ASSUME NEW r \in Requests, CreateSuite(r) PROVE StoreInv'
  BY <1>8 DEF CreateSuite, Path
<1>9. ASSUME NEW r \in Requests, CreateManifest(r) PROVE StoreInv'
  BY <1>9 DEF CreateManifest, Path
<1>10. ASSUME NEW r \in Requests, Upload(r) PROVE StoreInv'
  BY <1>10 DEF Upload
<1>11. ASSUME NEW r \in Requests, Record(r) PROVE StoreInv'
  <2>1. Updated(r) \in Row
    BY <1>11, UpdatedRow DEF Record
  <2>2. Updated(r).code = code[r]
    BY <1>11, UpdatedRow DEF Record
  <2>3. Updated(r).object = IF repaired[r] THEN "repairs" ELSE rows[Task(r)].object
    BY <1>11, UpdatedRow DEF Record
  <2> HIDE DEF Row, Codes, Paths, Published
  <2>4. TypeOK'
    BY <1>11, <2>1 DEF Record
  <2>5. StoresConsistent'
    BY <1>11, <2>1, <2>2, <2>3 DEF Record
  <2>6. WorkConsistent'
    BY <1>11, <2>1 DEF Record
  <2>7. QED
    BY <2>4, <2>5, <2>6
<1>12. ASSUME NEW r \in Requests, UploadUnanswered(r) PROVE StoreInv'
  BY <1>12 DEF UploadUnanswered
<1>13. ASSUME NEW r \in Requests, Unknown(r) PROVE StoreInv'
  BY <1>13 DEF Unknown
<1>14. ASSUME NEW r \in Requests, WrongMode(r) PROVE StoreInv'
  BY <1>14 DEF WrongMode
<1>15. ASSUME NEW r \in Requests, NoCandidate(r) PROVE StoreInv'
  BY <1>15 DEF NoCandidate
<1>16. ASSUME NEW r \in Requests, GetBranch(r) PROVE StoreInv'
  BY <1>16 DEF GetBranch
<1>17. ASSUME NEW r \in Requests, PublicationFails(r) PROVE StoreInv'
  BY <1>17 DEF PublicationFails
<1>18. ASSUME NEW r \in Requests, Breaks(r) PROVE StoreInv'
  BY <1>18 DEF Breaks
<1>19. ASSUME NEW r \in Requests, ReplicaStops(r) PROVE StoreInv'
  BY <1>19 DEF ReplicaStops
<1>20. CASE UNCHANGED vars
  BY <1>20 DEF vars
<1>21. QED
  BY <1>1, <1>2, <1>3, <1>4, <1>5, <1>6, <1>7, <1>8, <1>9, <1>10, <1>11, <1>12, <1>13, <1>14, <1>15, <1>16, <1>17, <1>18, <1>19, <1>20
     DEF Next, Accept, Serve, Publication, Persistence

LEMMA RanStep == StoreInv /\ RanInv /\ [Next]_vars => RanInv'
<1> SUFFICES ASSUME StoreInv /\ RanInv, [Next]_vars PROVE RanInv'
  OBVIOUS
<1> USE DEF StoreInv, TypeOK, WorkConsistent, RanInv, RecordsWhatRan, JudgedRan, Task, Outcome, Goto, stores, locals, Places, Working, Publishing, Ended, Judged, Loaded
<1>1. ASSUME NEW t \in Tasks, Register(t) PROVE RanInv'
  BY <1>1 DEF Register
<1>2. ASSUME NEW r \in Requests, Select(r) PROVE RanInv'
  BY <1>2 DEF Select
<1>3. ASSUME NEW r \in Requests, Download(r) PROVE RanInv'
  BY <1>3 DEF Download
<1>4. ASSUME NEW r \in Requests, Execute(r) PROVE RanInv'
  BY <1>4 DEF Execute, WantsRepair
<1>5. ASSUME NEW r \in Requests, Repair(r) PROVE RanInv'
  BY <1>5, ZenonT(60) DEF Repair, Candidate
<1>6. ASSUME NEW r \in Requests, Conclude(r) PROVE RanInv'
  BY <1>6, ZenonT(60) DEF Conclude
<1>7. ASSUME NEW r \in Requests, CreateBranch(r) PROVE RanInv'
  BY <1>7, ZenonT(60) DEF CreateBranch
<1>8. ASSUME NEW r \in Requests, CreateSuite(r) PROVE RanInv'
  <2>1. <<code[r], verdict[r]>> \in ran
    BY <1>8 DEF CreateSuite
  <2>2. \/ Outcome(r) = "generated-tests" /\ verdict[r] = "passed"
        \/ Outcome(r) = "generated-findings" /\ verdict[r] = "asserted" /\ req[r].confirm
    BY <1>8 DEF CreateSuite
  <2>3. Path(r).root = Outcome(r)
    BY DEF Path
  <2> HIDE DEF Outcome
  <2>4. QED
    BY <1>8, <2>1, <2>2, <2>3 DEF CreateSuite
<1>9. ASSUME NEW r \in Requests, CreateManifest(r) PROVE RanInv'
  BY <1>9 DEF CreateManifest
<1>10. ASSUME NEW r \in Requests, Upload(r) PROVE RanInv'
  BY <1>10 DEF Upload
<1>11. ASSUME NEW r \in Requests, Record(r) PROVE RanInv'
  <2>1. <<code[r], verdict[r]>> \in ran /\ verdict[r] \in Verdicts
    BY <1>11 DEF Record
  <2>2. /\ Updated(r).code = code[r]
        /\ Updated(r).status = IF verdict[r] = "passed" THEN "PASSED" ELSE "FAILED"
    BY <1>11, UpdatedRow DEF Record
  <2>3. QED
    BY <1>11, <2>1, <2>2, ZenonT(60) DEF Record
<1>12. ASSUME NEW r \in Requests, UploadUnanswered(r) PROVE RanInv'
  BY <1>12 DEF UploadUnanswered
<1>13. ASSUME NEW r \in Requests, Unknown(r) PROVE RanInv'
  BY <1>13, ZenonT(60) DEF Unknown
<1>14. ASSUME NEW r \in Requests, WrongMode(r) PROVE RanInv'
  BY <1>14 DEF WrongMode
<1>15. ASSUME NEW r \in Requests, NoCandidate(r) PROVE RanInv'
  BY <1>15 DEF NoCandidate
<1>16. ASSUME NEW r \in Requests, GetBranch(r) PROVE RanInv'
  BY <1>16 DEF GetBranch
<1>17. ASSUME NEW r \in Requests, PublicationFails(r) PROVE RanInv'
  BY <1>17 DEF PublicationFails
<1>18. ASSUME NEW r \in Requests, Breaks(r) PROVE RanInv'
  BY <1>18 DEF Breaks
<1>19. ASSUME NEW r \in Requests, ReplicaStops(r) PROVE RanInv'
  BY <1>19 DEF ReplicaStops
<1>20. CASE UNCHANGED vars
  BY <1>20 DEF vars
<1>21. QED
  BY <1>1, <1>2, <1>3, <1>4, <1>5, <1>6, <1>7, <1>8, <1>9, <1>10, <1>11, <1>12, <1>13, <1>14, <1>15, <1>16, <1>17, <1>18, <1>19, <1>20
     DEF Next, Accept, Serve, Publication, Persistence

\* Files of the catalog are never replaced or removed.
FilesKept ==
  \A p \in Paths :
    /\ suites[p] # None => suites'[p] = suites[p]
    /\ manifests[p] # None => manifests'[p] = manifests[p]

LEMMA FilesStep == StoreInv /\ [Next]_vars => FilesKept
<1> SUFFICES ASSUME StoreInv, [Next]_vars PROVE FilesKept
  OBVIOUS
<1> USE DEF StoreInv, TypeOK, FilesKept, stores
<1>1. CASE UNCHANGED <<suites, manifests>>
  BY <1>1
<1>2. ASSUME NEW r \in Requests, CreateSuite(r) PROVE FilesKept
  BY <1>2 DEF CreateSuite
<1>3. ASSUME NEW r \in Requests, CreateManifest(r) PROVE FilesKept
  BY <1>3 DEF CreateManifest
<1>4. QED
  BY <1>1, <1>2, <1>3 DEF Next, Accept, Serve, Publication, Persistence, vars, Register,
     Select, Unknown, Download, WrongMode, Execute, Repair, NoCandidate, Conclude, GetBranch,
     CreateBranch, PublicationFails, Upload, Record, UploadUnanswered, Breaks, ReplicaStops

\* A request that publishes has a path.
LEMMA PathType ==
  ASSUME StoreInv, NEW r \in Requests, pc[r] \in Publishing
  PROVE  Path(r) \in Paths
<1>1. Slot[Task(r)] \in Slots
  BY ConstantsAssumption DEF StoreInv, TypeOK, Task, Request
<1>2. code[r].suite \in Suites
  BY DEF StoreInv, TypeOK, WorkConsistent, Loaded, Judged, Publishing, Codes
<1>3. Outcome(r) \in Roots
  BY DEF StoreInv, WorkConsistent, Outcome, Roots
<1>4. QED
  BY <1>1, <1>2, <1>3 DEF Path, Paths

\* Between its two files, a publication is recognisably its request's.
LEMMA HalfIsOwn ==
  ASSUME StoreInv, HalfPublished, NEW r \in Requests, pc[r] = "creating_manifest"
  PROVE  /\ Path(r) \in Paths
         /\ suites[Path(r)] # None
         /\ suites[Path(r)].by = r
         /\ suites[Path(r)].code.task = Task(r)
         /\ manifests[Path(r)] = None
<1>1. Path(r) \in Paths
  BY PathType DEF Publishing
<1>2. suites[Path(r)] = [code |-> code[r], by |-> r] /\ manifests[Path(r)] = None
  BY DEF HalfPublished
<1>3. code[r] \in Codes /\ code[r].task = Task(r)
  BY DEF StoreInv, TypeOK, WorkConsistent, Loaded, Judged, Publishing
<1>4. [code |-> code[r], by |-> r] \in Published
  BY <1>3 DEF Published
<1>5. QED
  BY <1>1, <1>2, <1>3, <1>4, ConstantsAssumption

LEMMA FirstStep == StoreInv /\ HalfPublished /\ SuiteFirst /\ [Next]_vars => SuiteFirst'
<1> SUFFICES ASSUME StoreInv /\ HalfPublished /\ SuiteFirst, [Next]_vars PROVE SuiteFirst'
  OBVIOUS
<1> USE DEF SuiteFirst, stores
<1>1. CASE UNCHANGED <<suites, manifests>>
  BY <1>1
<1>2. ASSUME NEW r \in Requests, CreateSuite(r) PROVE SuiteFirst'
  BY <1>2, ConstantsAssumption DEF CreateSuite, StoreInv, TypeOK
<1>3. ASSUME NEW r \in Requests, CreateManifest(r) PROVE SuiteFirst'
  <2>1. suites[Path(r)] # None
    BY <1>3, HalfIsOwn DEF CreateManifest, StoreInv, TypeOK
  <2>2. QED
    BY <1>3, <2>1 DEF CreateManifest, StoreInv, TypeOK
<1>4. QED
  BY <1>1, <1>2, <1>3 DEF Next, Accept, Serve, Publication, Persistence, vars, Register,
     Select, Unknown, Download, WrongMode, Execute, Repair, NoCandidate, Conclude, GetBranch,
     CreateBranch, PublicationFails, Upload, Record, UploadUnanswered, Breaks, ReplicaStops

LEMMA HalfStep == StoreInv /\ SuiteFirst /\ HalfPublished /\ [Next]_vars => HalfPublished'
<1> SUFFICES ASSUME StoreInv /\ SuiteFirst /\ HalfPublished, [Next]_vars PROVE HalfPublished'
  OBVIOUS
<1> USE DEF StoreInv, TypeOK, SuiteFirst, HalfPublished, Task, Path, Outcome, Goto, stores, locals, Places, Working, Publishing, Ended, Judged, Loaded
<1>1. ASSUME NEW t \in Tasks, Register(t) PROVE HalfPublished'
  BY <1>1 DEF Register
<1>2. ASSUME NEW r \in Requests, Select(r) PROVE HalfPublished'
  BY <1>2 DEF Select
<1>3. ASSUME NEW r \in Requests, Download(r) PROVE HalfPublished'
  BY <1>3 DEF Download
<1>4. ASSUME NEW r \in Requests, Execute(r) PROVE HalfPublished'
  BY <1>4 DEF Execute, WantsRepair
<1>5. ASSUME NEW r \in Requests, Repair(r) PROVE HalfPublished'
  BY <1>5 DEF Repair, Candidate
<1>6. ASSUME NEW r \in Requests, Conclude(r) PROVE HalfPublished'
  BY <1>6 DEF Conclude
<1>7. ASSUME NEW r \in Requests, CreateBranch(r) PROVE HalfPublished'
  BY <1>7 DEF CreateBranch
<1>8. ASSUME NEW r \in Requests, CreateSuite(r) PROVE HalfPublished'
  <2> SUFFICES ASSUME NEW q \in Requests, pc'[q] = "creating_manifest"
               PROVE  suites'[Path(q)] = [code |-> code[q], by |-> q] /\ manifests[Path(q)] = None
    BY <1>8 DEF CreateSuite
  <2>1. CASE q = r
    <3>1. Path(r) \in Paths
      BY <1>8, PathType DEF CreateSuite
    <3>2. suites[Path(r)] = None /\ suites'[Path(r)] = [code |-> code[r], by |-> r]
      BY <1>8, <3>1 DEF CreateSuite
    <3>3. QED
      BY <2>1, <3>1, <3>2
  <2>2. CASE q # r
    <3> HIDE DEF Path, Outcome
    <3>1. pc[q] = "creating_manifest"
      BY <1>8, <2>2 DEF CreateSuite
    <3>2. Path(q) # Path(r) /\ Path(q) \in Paths
      BY <1>8, <3>1, HalfIsOwn DEF CreateSuite
    <3>3. QED
      BY <1>8, <3>1, <3>2 DEF CreateSuite
  <2>3. QED
    BY <2>1, <2>2
<1>9. ASSUME NEW r \in Requests, CreateManifest(r) PROVE HalfPublished'
  <2> SUFFICES ASSUME NEW q \in Requests, pc'[q] = "creating_manifest"
               PROVE  suites[Path(q)] = [code |-> code[q], by |-> q] /\ manifests'[Path(q)] = None
    BY <1>9 DEF CreateManifest
  <2>1. q # r /\ pc[q] = "creating_manifest"
    BY <1>9 DEF CreateManifest
  <2> HIDE DEF Path, Outcome
  <2>2. Path(q) # Path(r) /\ Path(q) \in Paths /\ Path(r) \in Paths
    BY <1>9, <2>1, HalfIsOwn DEF CreateManifest
  <2>3. QED
    BY <1>9, <2>1, <2>2 DEF CreateManifest
<1>10. ASSUME NEW r \in Requests, Upload(r) PROVE HalfPublished'
  BY <1>10 DEF Upload
<1>11. ASSUME NEW r \in Requests, Record(r) PROVE HalfPublished'
  BY <1>11 DEF Record, Updated
<1>12. ASSUME NEW r \in Requests, UploadUnanswered(r) PROVE HalfPublished'
  BY <1>12 DEF UploadUnanswered
<1>13. ASSUME NEW r \in Requests, Unknown(r) PROVE HalfPublished'
  BY <1>13 DEF Unknown
<1>14. ASSUME NEW r \in Requests, WrongMode(r) PROVE HalfPublished'
  BY <1>14 DEF WrongMode
<1>15. ASSUME NEW r \in Requests, NoCandidate(r) PROVE HalfPublished'
  BY <1>15 DEF NoCandidate
<1>16. ASSUME NEW r \in Requests, GetBranch(r) PROVE HalfPublished'
  BY <1>16 DEF GetBranch
<1>17. ASSUME NEW r \in Requests, PublicationFails(r) PROVE HalfPublished'
  BY <1>17 DEF PublicationFails
<1>18. ASSUME NEW r \in Requests, Breaks(r) PROVE HalfPublished'
  BY <1>18 DEF Breaks
<1>19. ASSUME NEW r \in Requests, ReplicaStops(r) PROVE HalfPublished'
  BY <1>19 DEF ReplicaStops
<1>20. CASE UNCHANGED vars
  BY <1>20 DEF vars
<1>21. QED
  BY <1>1, <1>2, <1>3, <1>4, <1>5, <1>6, <1>7, <1>8, <1>9, <1>10, <1>11, <1>12, <1>13, <1>14, <1>15, <1>16, <1>17, <1>18, <1>19, <1>20
     DEF Next, Accept, Serve, Publication, Persistence

\* Where the links after a step come from.
LinkSources ==
  /\ UNCHANGED req
  /\ \A q \in Requests :
       \/ snapshot'[q] = snapshot[q]
       \/ rows[Task(q)] # None /\ snapshot'[q] = rows[Task(q)].catalog
  /\ \A q \in Requests :
       \/ catalog'[q] \in {None, catalog[q], snapshot[q]}
       \/ CreateManifest(q) /\ catalog'[q] = Path(q)
  /\ \A u \in Tasks :
       \/ rows'[u] = None
       \/ rows[u] # None /\ rows'[u] = rows[u]
       \/ rows'[u].catalog = None
       \/ \E q \in Requests : Task(q) = u /\ rows'[u].catalog = catalog[q]

LEMMA LinkSourcesStep == StoreInv /\ [Next]_vars => LinkSources
<1> SUFFICES ASSUME StoreInv, [Next]_vars PROVE LinkSources
  OBVIOUS
<1> USE DEF StoreInv, TypeOK, LinkSources, Goto, stores, locals, Places, Working, Publishing, Ended, Judged, Loaded
<1>1. ASSUME NEW t \in Tasks, Register(t) PROVE LinkSources
  BY <1>1 DEF Register
<1>2. ASSUME NEW r \in Requests, Select(r) PROVE LinkSources
  BY <1>2 DEF Select
<1>3. ASSUME NEW r \in Requests, Download(r) PROVE LinkSources
  BY <1>3 DEF Download
<1>4. ASSUME NEW r \in Requests, Execute(r) PROVE LinkSources
  BY <1>4 DEF Execute, WantsRepair
<1>5. ASSUME NEW r \in Requests, Repair(r) PROVE LinkSources
  BY <1>5 DEF Repair, Candidate
<1>6. ASSUME NEW r \in Requests, Conclude(r) PROVE LinkSources
  BY <1>6 DEF Conclude
<1>7. ASSUME NEW r \in Requests, CreateBranch(r) PROVE LinkSources
  BY <1>7 DEF CreateBranch
<1>8. ASSUME NEW r \in Requests, CreateSuite(r) PROVE LinkSources
  BY <1>8 DEF CreateSuite, Path
<1>9. ASSUME NEW r \in Requests, CreateManifest(r) PROVE LinkSources
  <2>1. /\ UNCHANGED <<req, snapshot, rows>>
        /\ \A q \in Requests \ {r} : catalog'[q] = catalog[q]
        /\ catalog'[r] = None \/ catalog'[r] = Path(r)
    BY <1>9 DEF CreateManifest
  <2>2. QED
    BY <1>9, <2>1
<1>10. ASSUME NEW r \in Requests, Upload(r) PROVE LinkSources
  BY <1>10 DEF Upload
<1>11. ASSUME NEW r \in Requests, Record(r) PROVE LinkSources
  <2>1. Updated(r).catalog = catalog[r]
    BY <1>11, UpdatedRow DEF Record
  <2>2. QED
    BY <1>11, <2>1 DEF Record, Task
<1>12. ASSUME NEW r \in Requests, UploadUnanswered(r) PROVE LinkSources
  BY <1>12 DEF UploadUnanswered
<1>13. ASSUME NEW r \in Requests, Unknown(r) PROVE LinkSources
  BY <1>13 DEF Unknown
<1>14. ASSUME NEW r \in Requests, WrongMode(r) PROVE LinkSources
  BY <1>14 DEF WrongMode
<1>15. ASSUME NEW r \in Requests, NoCandidate(r) PROVE LinkSources
  BY <1>15 DEF NoCandidate
<1>16. ASSUME NEW r \in Requests, GetBranch(r) PROVE LinkSources
  BY <1>16 DEF GetBranch
<1>17. ASSUME NEW r \in Requests, PublicationFails(r) PROVE LinkSources
  BY <1>17 DEF PublicationFails
<1>18. ASSUME NEW r \in Requests, Breaks(r) PROVE LinkSources
  BY <1>18 DEF Breaks
<1>19. ASSUME NEW r \in Requests, ReplicaStops(r) PROVE LinkSources
  BY <1>19 DEF ReplicaStops
<1>20. CASE UNCHANGED vars
  BY <1>20 DEF vars
<1>21. QED
  BY <1>1, <1>2, <1>3, <1>4, <1>5, <1>6, <1>7, <1>8, <1>9, <1>10, <1>11, <1>12, <1>13, <1>14, <1>15, <1>16, <1>17, <1>18, <1>19, <1>20
     DEF Next, Accept, Serve, Publication, Persistence

\* A link that resolves goes on resolving.
LEMMA ResolvesStable ==
  ASSUME StoreInv, FilesKept, NEW p \in Paths, NEW t, Resolves(p, t)
  PROVE  suites'[p] # None /\ suites'[p].code.task = t /\ manifests'[p] = suites'[p].by
<1>1. suites[p] \in Published
  BY DEF StoreInv, TypeOK, Resolves
<1>2. manifests[p] # None
  BY <1>1, ConstantsAssumption DEF Resolves, Published
<1>3. QED
  BY <1>2 DEF FilesKept, Resolves

\* CreateManifest makes its request's link resolve.
LEMMA ManifestResolves ==
  ASSUME StoreInv, HalfPublished, NEW r \in Requests, CreateManifest(r)
  PROVE  LET p == Path(r) IN
         suites'[p] # None /\ suites'[p].code.task = Task(r) /\ manifests'[p] = suites'[p].by
BY HalfIsOwn DEF CreateManifest, StoreInv, TypeOK

LEMMA ResolveStep ==
  StoreInv /\ LinkInv /\ [Next]_vars => CarriedResolve' /\ RowsResolve'
<1> SUFFICES ASSUME StoreInv, LinkInv, [Next]_vars PROVE CarriedResolve' /\ RowsResolve'
  OBVIOUS
<1>1. LinkSources /\ FilesKept
  BY LinkSourcesStep, FilesStep
<1>2. \A q \in Requests : Task(q) \in Tasks /\ Task(q)' = Task(q)
  BY <1>1 DEF StoreInv, TypeOK, Request, Task, LinkSources
<1>3. ASSUME NEW q \in Requests, snapshot'[q] # None
      PROVE  Resolves(snapshot[q], Task(q))'
  <2>1. snapshot'[q] \in Paths /\ Resolves(snapshot'[q], Task(q))
    BY <1>1, <1>2, <1>3 DEF LinkSources, LinkInv, CarriedResolve, RowsResolve, StoreInv, TypeOK, Row
  <2>2. QED
    BY <1>1, <1>2, <2>1, ResolvesStable DEF Resolves
<1>4. ASSUME NEW q \in Requests, catalog'[q] # None
      PROVE  Resolves(catalog[q], Task(q))'
  <2>1. CASE catalog'[q] \in {catalog[q], snapshot[q]}
    <3>1. catalog'[q] \in Paths /\ Resolves(catalog'[q], Task(q))
      BY <1>4, <2>1 DEF LinkInv, CarriedResolve, StoreInv, TypeOK
    <3>2. QED
      BY <1>1, <1>2, <3>1, ResolvesStable DEF Resolves
  <2>2. CASE CreateManifest(q) /\ catalog'[q] = Path(q)
    BY <1>2, <2>2, ManifestResolves DEF LinkInv, Resolves
  <2>3. QED
    BY <1>1, <1>4, <2>1, <2>2 DEF LinkSources
<1>5. ASSUME NEW u \in Tasks, rows'[u] # None, rows'[u].catalog # None
      PROVE  Resolves(rows[u].catalog, u)'
  <2>1. rows'[u].catalog \in Paths /\ Resolves(rows'[u].catalog, u)
    BY <1>1, <1>5 DEF LinkSources, LinkInv, CarriedResolve, RowsResolve, StoreInv, TypeOK, Row
  <2>2. QED
    BY <1>1, <2>1, ResolvesStable DEF Resolves
<1>6. QED
  BY <1>3, <1>4, <1>5 DEF CarriedResolve, RowsResolve

LEMMA LinkStep == StoreInv /\ LinkInv /\ [Next]_vars => LinkInv'
BY FirstStep, HalfStep, ResolveStep DEF LinkInv

LEMMA InitIInv == Init => IInv
<1> SUFFICES ASSUME Init PROVE IInv
  OBVIOUS
<1>1. StoreInv
  <2>1. TypeOK
    <3>1. /\ rows \in [Tasks -> Row \cup {None}]
          /\ generated \in [Tasks -> Codes \cup {None}]
          /\ repairs \in [Tasks -> Codes \cup {None}]
          /\ suites \in [Paths -> Published \cup {None}]
          /\ manifests \in [Paths -> Requests \cup {None}]
          /\ snapshot \in [Requests -> Paths \cup {None}]
          /\ code \in [Requests -> Codes \cup {None}]
          /\ catalog \in [Requests -> Paths \cup {None}]
      BY DEF Init
    <3>2. 0 \in 0..MaxRepairAttempts
      BY ConstantsAssumption
    <3>3. QED
      BY <3>1, <3>2 DEF Init, TypeOK, Places
  <2>2. StoresConsistent
    BY DEF Init, StoresConsistent
  <2>3. WorkConsistent
    BY DEF Init, WorkConsistent, Working, Publishing, Loaded, Judged
  <2>4. QED
    BY <2>1, <2>2, <2>3 DEF StoreInv
<1>2. RanInv
  BY DEF Init, RanInv, RecordsWhatRan, JudgedRan, Judged, Publishing
<1>3. LinkInv
  BY DEF Init, LinkInv, HalfPublished, SuiteFirst, CarriedResolve, RowsResolve
<1>4. QED
  BY <1>1, <1>2, <1>3 DEF IInv

LEMMA IInvStep == IInv /\ [Next]_vars => IInv'
BY StoreStep, RanStep, LinkStep DEF IInv

LEMMA IInvInvariant == Spec => []IInv
BY InitIInv, IInvStep, PTL DEF Spec

\* Every variable of the agent and of its stores keeps its type.
THEOREM TypeCorrect == Spec => []TypeOK
<1>1. IInv => TypeOK
  BY DEF IInv, StoreInv
<1>2. QED
  BY IInvInvariant, <1>1, PTL

\* What is published or recorded of a code, an execution of that code said.
THEOREM RecordsHold == Spec => []RecordsWhatRan
<1>1. IInv => RecordsWhatRan
  BY DEF IInv, RanInv
<1>2. QED
  BY IInvInvariant, <1>1, PTL

\* A link in a row leads to a described suite of that row's task, whatever requests
\* run together and wherever they fail.
THEOREM LinksHold == Spec => []LinksResolve
<1>1. IInv => LinksResolve
  BY DEF IInv, LinkInv, RowsResolve, Resolves, LinksResolve
<1>2. QED
  BY IInvInvariant, <1>1, PTL

-----------------------------------------------------------------------------
(* Progress. *)

\* The request that moves, and no other, has fewer steps left.
LEMMA StepsDecrease ==
  ASSUME StoreInv, StoreInv', [Next]_vars, NEW r \in Requests, pc'[r] # pc[r]
  PROVE  StepsLeft(r)' \in Nat /\ StepsLeft(r)' < StepsLeft(r)
<1> USE ConstantsAssumption DEF StoreInv, TypeOK, StepsLeft, Goto, stores, locals, Places, Working, Publishing, Ended
<1>1. MaxRepairAttempts \in Nat /\ attempt[r] \in 0 .. MaxRepairAttempts
  OBVIOUS
<1>2. CASE Accept(r)
  BY <1>1, <1>2 DEF Accept, Select, Unknown
<1>3. CASE Download(r) \/ WrongMode(r)
  BY <1>1, <1>3 DEF Download, WrongMode
<1>4. CASE Execute(r)
  BY <1>1, <1>4 DEF Execute, WantsRepair
<1>5. CASE Repair(r) \/ NoCandidate(r)
  <2>1. pc[r] = "repairing"
    BY <1>5 DEF Repair, NoCandidate
  <2>2. CASE Repair(r)
    <3>1. pc'[r] = "executing" /\ attempt'[r] = attempt[r] + 1 /\ attempt'[r] \in 0 .. MaxRepairAttempts
      BY <2>2 DEF Repair
    <3>2. QED
      BY <1>1, <2>1, <3>1
  <2>3. CASE NoCandidate(r)
    BY <1>1, <2>1, <2>3 DEF NoCandidate
  <2>4. QED
    BY <1>5, <2>2, <2>3
<1>6. CASE Conclude(r)
  BY <1>6 DEF Conclude
<1>7. CASE Publication(r)
  BY <1>7 DEF Publication, GetBranch, CreateBranch, CreateSuite, CreateManifest, PublicationFails
<1>8. CASE Persistence(r)
  BY <1>8 DEF Persistence, Upload, Record, UploadUnanswered
<1>9. CASE Breaks(r) \/ ReplicaStops(r)
  BY <1>1, <1>9 DEF Breaks, ReplicaStops
<1>10. Accept(r) \/ Serve(r) \/ ReplicaStops(r)
  <2>1. CASE \E t \in Tasks : Register(t)
    BY <2>1 DEF Register
  <2>2. CASE \E s \in Requests : Accept(s) \/ Serve(s) \/ ReplicaStops(s)
    <3>1. PICK s \in Requests : Accept(s) \/ Serve(s) \/ ReplicaStops(s)
      BY <2>2
    <3>2. \E v : pc' = [pc EXCEPT ![s] = v]
      BY <3>1 DEF Accept, Select, Unknown, Serve, Download, WrongMode, Execute, Repair, NoCandidate,
           Conclude, Publication, GetBranch, CreateBranch, CreateSuite, CreateManifest,
           PublicationFails, Persistence, Upload, Record, UploadUnanswered, Breaks, ReplicaStops
    <3>3. s = r
      BY <3>2
    <3>4. QED
      BY <3>1, <3>3
  <2>3. CASE UNCHANGED vars
    BY <2>3 DEF vars
  <2>4. QED
    BY <2>1, <2>2, <2>3 DEF Next
<1>11. QED
  BY <1>2, <1>3, <1>4, <1>5, <1>6, <1>7, <1>8, <1>9, <1>10 DEF Serve

\* Every request takes a bounded number of steps, whatever runs beside it and fails.
THEOREM Progress == Spec => RequestsProgress
<1>1. IInv /\ IInv' /\ [Next]_vars =>
        [\A r \in Requests : pc'[r] # pc[r] => StepsLeft(r)' \in Nat /\ StepsLeft(r)' < StepsLeft(r)]_vars
  BY StepsDecrease DEF IInv
<1>2. QED
  BY IInvInvariant, <1>1, PTL DEF Spec, RequestsProgress

-----------------------------------------------------------------------------
(* Refinement of TestCatalog. *)

\* Changing a function at one point.
LEMMA ExceptAt ==
  ASSUME NEW S, NEW f, NEW g, NEW a \in S, NEW v,
         f = [x \in S |-> f[x]], g = [x \in S |-> g[x]],
         g[a] = v, \A x \in S \ {a} : g[x] = f[x]
  PROVE  g = [f EXCEPT ![a] = v]
OBVIOUS

LEMMA CatalogInit == Init => Catalog!Init
BY DEF Init, Catalog!Init, EntryOf, LinkOf

LEMMA CatalogStep == IInv /\ [Next]_vars => [Catalog!Next]_Catalog!catalogVars
<1> SUFFICES ASSUME IInv, [Next]_vars PROVE [Catalog!Next]_Catalog!catalogVars
  OBVIOUS
<1> DEFINE entries == [p \in Paths |-> EntryOf(suites[p], manifests[p])]
           links == [t \in Tasks |-> LinkOf(rows[t])]
<1>1. /\ entries' = [p \in Paths |-> EntryOf(suites'[p], manifests'[p])]
      /\ links' = [t \in Tasks |-> LinkOf(rows'[t])]
  OBVIOUS
<1>2. StoreInv /\ HalfPublished
  BY DEF IInv, LinkInv
<1>3. CASE UNCHANGED <<suites, manifests, rows>>
  BY <1>1, <1>3 DEF Catalog!catalogVars
<1>4. ASSUME NEW t \in Tasks, Register(t) PROVE UNCHANGED <<entries, links>>
  <2>1. \A u \in Tasks : LinkOf(rows'[u]) = LinkOf(rows[u])
    BY <1>2, <1>4, ConstantsAssumption DEF Register, LinkOf, StoreInv, TypeOK
  <2>2. QED
    BY <1>1, <1>4, <2>1 DEF Register
<1>5. ASSUME NEW r \in Requests, CreateSuite(r) PROVE Catalog!Publish(Path(r), Task(r), r)
  <2> DEFINE new == [task |-> Task(r), author |-> r, files |-> "suite"]
             suite == [code |-> code[r], by |-> r]
  <2>1. Path(r) \in Paths /\ code[r] \in Codes /\ code[r].task = Task(r)
    BY <1>2, <1>5, PathType DEF CreateSuite, Publishing, StoreInv, TypeOK, WorkConsistent, Loaded, Judged
  <2>2. suite # None /\ manifests[Path(r)] # r
    BY <1>5, <2>1, ConstantsAssumption DEF CreateSuite, IInv, LinkInv, SuiteFirst, Published
  <2>3. EntryOf(suite, manifests[Path(r)]) = new
    BY <2>1, <2>2 DEF EntryOf
  <2> HIDE DEF new, suite
  <2>4. entries'[Path(r)] = new /\ \A p \in Paths \ {Path(r)} : entries'[p] = entries[p]
    BY <1>1, <1>2, <1>5, <2>1, <2>3 DEF CreateSuite, StoreInv, TypeOK, suite
  <2>5. entries' = [entries EXCEPT ![Path(r)] = new]
    BY <1>1, <2>1, <2>4, ExceptAt
  <2>6. entries[Path(r)] = None /\ links' = links
    BY <1>1, <1>5, <2>1 DEF CreateSuite, EntryOf
  <2>7. QED
    BY <2>5, <2>6 DEF Catalog!Publish, new
<1>6. ASSUME NEW r \in Requests, CreateManifest(r) PROVE Catalog!Describe(Path(r))
  <2> DEFINE old == [task |-> Task(r), author |-> r, files |-> "suite"]
             new == [task |-> Task(r), author |-> r, files |-> "both"]
  <2>1. /\ Path(r) \in Paths /\ suites[Path(r)] # None /\ suites[Path(r)].by = r
        /\ suites[Path(r)].code.task = Task(r) /\ manifests[Path(r)] # r
    BY <1>2, <1>6, HalfIsOwn, ConstantsAssumption DEF CreateManifest
  <2>2. entries[Path(r)] = old
    BY <2>1 DEF EntryOf
  <2>3. manifests'[Path(r)] = r /\ UNCHANGED <<suites, rows>>
    BY <1>2, <1>6, <2>1 DEF CreateManifest, StoreInv, TypeOK
  <2>4. entries'[Path(r)] = new
    BY <1>1, <2>1, <2>3 DEF EntryOf
  <2>5. \A p \in Paths \ {Path(r)} : entries'[p] = entries[p]
    BY <1>1, <1>2, <1>6, <2>3 DEF CreateManifest, StoreInv, TypeOK
  <2>6. entries' = [entries EXCEPT ![Path(r)] = new]
    BY <1>1, <2>1, <2>4, <2>5, ExceptAt
  <2>7. new = [old EXCEPT !.files = "both"]
    OBVIOUS
  <2>8. old \in Catalog!Entries
    BY <1>2 DEF Catalog!Entries, Task, StoreInv, TypeOK, Request
  <2>9. links' = links
    BY <1>1, <2>3
  <2>10. entries' = [entries EXCEPT ![Path(r)].files = "both"]
    <3> HIDE DEF entries, old, new
    <3>1. QED
      BY <2>2, <2>6, <2>7
  <2>11. entries[Path(r)] \in Catalog!Entries /\ entries[Path(r)].files = "suite"
    BY <2>2, <2>8
  <2>12. QED
    BY <2>9, <2>10, <2>11 DEF Catalog!Describe
<1>7. ASSUME NEW r \in Requests, Record(r)
      PROVE  Catalog!Unlink(Task(r)) \/ \E p \in Paths : Catalog!Link(Task(r), p)
  <2>1. /\ Task(r) \in Tasks /\ Updated(r) \in Row /\ Updated(r) # None
        /\ Updated(r).catalog = catalog[r]
    BY <1>2, <1>7, UpdatedRow, ConstantsAssumption DEF Record, StoreInv, TypeOK, Request, Task
  <2>2. entries' = entries
    BY <1>1, <1>7 DEF Record
  <2>3. links'[Task(r)] = catalog[r] /\ \A t \in Tasks \ {Task(r)} : links'[t] = links[t]
    BY <1>1, <1>2, <1>7, <2>1 DEF Record, LinkOf, StoreInv, TypeOK
  <2>4. links' = [links EXCEPT ![Task(r)] = catalog[r]]
    BY <1>1, <2>1, <2>3, ExceptAt
  <2>5. CASE catalog[r] = None
    BY <2>2, <2>4, <2>5 DEF Catalog!Unlink
  <2>6. CASE catalog[r] # None
    <3>1. catalog[r] \in Paths /\ Resolves(catalog[r], Task(r))
      BY <1>2, <2>6 DEF IInv, LinkInv, CarriedResolve, StoreInv, TypeOK
    <3>2. suites[catalog[r]] \in Published
      BY <1>2, <3>1 DEF Resolves, StoreInv, TypeOK
    <3>3. entries[catalog[r]] = [task |-> Task(r), author |-> suites[catalog[r]].by, files |-> "both"]
      BY <3>1 DEF EntryOf, Resolves
    <3>4. Catalog!Linkable(catalog[r], Task(r))
      BY <2>1, <3>2, <3>3 DEF Catalog!Linkable, Catalog!Entries, Published
    <3>5. QED
      BY <2>2, <2>4, <3>1, <3>4 DEF Catalog!Link
  <2>7. QED
    BY <2>5, <2>6
<1>8. QED
  <2> HIDE DEF entries, links
  <2>1. ASSUME NEW r \in Requests, CreateSuite(r) \/ CreateManifest(r) \/ Record(r)
        PROVE  Catalog!Next
    BY <1>2, <1>5, <1>6, <1>7, <2>1, PathType, HalfIsOwn
       DEF Catalog!Next, CreateSuite, CreateManifest, Publishing, Task, StoreInv, TypeOK, Request
  <2>2. CASE UNCHANGED <<suites, manifests, rows>> \/ UNCHANGED <<entries, links>>
    BY <1>3, <2>2 DEF Catalog!catalogVars, entries, links
  <2>3. QED
    BY <1>4, <2>1, <2>2
       DEF Next, Accept, Serve, Publication, Persistence, vars, stores,
       Select, Unknown, Download, WrongMode, Execute, Repair, NoCandidate, Conclude, GetBranch,
       CreateBranch, PublicationFails, Upload, UploadUnanswered, Breaks, ReplicaStops

\* Whatever runs together and fails, readers of the catalog see TestCatalog.
THEOREM Refinement == Spec => RefinesCatalog
<1>1. QED
  BY CatalogInit, CatalogStep, IInvInvariant, PTL DEF Spec, RefinesCatalog, Catalog!Spec

=============================================================================
