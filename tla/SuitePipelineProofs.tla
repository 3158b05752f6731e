------------------------ MODULE SuitePipelineProofs ------------------------
(***************************************************************************)
(* The invariants of SuitePipeline, for any number of runs, tasks and      *)
(* sources.                                                                *)
(*                                                                         *)
(* RowsResolve rests on the order of the two writes: an object is written  *)
(* before the row that names it, and neither is ever removed (Grounded).   *)
(*                                                                         *)
(* GeneratedAsApproved rests on ownership: from Store on, the task of a    *)
(* suite that a run generated is the task of no other run, since new tasks *)
(* are stored under ids that are not in use, and only a row that passed is *)
(* reused (Owned).  So its row and its candidate stay as they are, from    *)
(* the review to the execution (AsReviewed).                               *)
(*                                                                         *)
(* RejectedReturnsApproved rests on the same ownership: the first run to   *)
(* execute a suite is the one that generated it, and approved it (Vetted). *)
(***************************************************************************)
EXTENDS SuitePipeline, TLAPS

Reviewing == {"reading", "judging"}

Executing == {"selecting", "loading", "executing", "uploading", "updating"}

\* What a run has in hand, at each place.
HeldBy(r) ==
  /\ pc[r] \in {"lookup", "drafting", "storing", "registering", "reading"} => left[r] # 0
  /\ pc[r] = "drafting" => ~reused[r]
  /\ pc[r] = "storing" => source[r] # None /\ ~reused[r]
  /\ pc[r] = "registering" =>
       /\ task[r] # None /\ ~reused[r] /\ source[r] # None
       /\ path[r] = <<task[r], "candidate">>
  /\ pc[r] \in Reviewing \cup Executing =>
       /\ task[r] # None /\ path[r] # None
       /\ row[task[r]] # None
  /\ pc[r] \in {"judging", "executing", "uploading", "updating"} => source[r] # None
  /\ task[r] # None => object[<<task[r], "candidate">>] # None
  /\ path[r] # None => object[path[r]] # None
  /\ pc[r] = "updating" /\ repaired[r] => object[<<task[r], "repaired">>] # None

Held == \A r \in Runs : HeldBy(r)

\* Every row has its candidate, and the object that it names.
Grounded ==
  \A t \in Tasks : row[t] # None => /\ object[<<t, "candidate">>] # None
                                    /\ object[row[t].path] # None

\* A run that has stored a suite of its own, and has not executed it.
Own(r) ==
  /\ pc[r] \in {"registering", "reading", "judging", "selecting", "loading", "executing"}
  /\ ~reused[r]

\* Its task is its alone, and the row of it is new.
Owned ==
  \A r \in Runs :
    Own(r) =>
      /\ \A q \in Runs \ {r} : task[q] # task[r]
      /\ path[r] = <<task[r], "candidate">>
      /\ row[task[r]] # None =>
           row[task[r]].verdict = Pending /\ row[task[r]].path = path[r]

\* What it executes is what was reviewed.
AsReviewed ==
  \A r \in Runs :
    Own(r) =>
      /\ pc[r] = "judging" => source[r] = object[path[r]]
      /\ pc[r] \in {"selecting", "loading"} => object[path[r]] \in approved[r]
      /\ pc[r] = "executing" /\ ~repaired[r] => source[r] \in approved[r]

IInv == TypeOK /\ Held /\ Grounded /\ Owned /\ AsReviewed

\* Where a run is whose suite was approved, if it was.
Past == Executing \cup {"failed", "completed"}

\* A suite that was executed had been approved, as it was generated, in a run that went on.
Vetted ==
  \A t \in Tasks :
    row[t] # None /\ row[t].verdict # Pending =>
      \E q \in Runs : object[<<t, "candidate">>] \in approved[q] /\ pc[q] \in Past

\* A suite that a run generates is new to it, and executed only if approved; one that it
\* reuses was executed, and no execution ends with the verdict of a new row.
NewTo(r) ==
  /\ \A t \in rejected[r] : object[<<t, "candidate">>] # None
  /\ pc[r] \in {"registering", "reading", "judging"} /\ ~reused[r] => task[r] \notin rejected[r]
  /\ pc[r] \in Executing /\ ~reused[r] => object[<<task[r], "candidate">>] \in approved[r]
  /\ pc[r] \in Reviewing \cup Executing /\ reused[r] => row[task[r]].verdict # Pending
  /\ pc[r] \in {"uploading", "updating"} => verdict[r] # Pending

RInv == Vetted /\ \A r \in Runs : NewTo(r)

-----------------------------------------------------------------------------
USE DEF stores, suite, reviews, execution, Goto

\* An object is a path, and paths of different tasks or kinds are different.
LEMMA PathFacts ==
  /\ \A t \in Tasks : <<t, "candidate">> \in Paths /\ <<t, "repaired">> \in Paths
  /\ \A t, u \in Tasks : /\ <<t, "candidate">> # <<u, "repaired">>
                          /\ <<t, "candidate">> = <<u, "candidate">> => t = u
BY DEF Paths

LEMMA ConstantFacts ==
  /\ MaxSources \in Nat
  /\ None \notin Tasks \cup Nat
  /\ None \notin Sources
  /\ \A n \in 1..MaxSources : n \in Sources
  /\ \A r \in Runs : Contract[r] \in Sources
BY ConstantsAssumption DEF Tasks, Sources, Contracts

\* What a row is made of.
LEMMA RowFacts ==
  /\ \A x \in Rows : /\ x.path \in Paths /\ x.verdict \in Verdicts
                    /\ x.verdict.catalog \in BOOLEAN /\ x # None
  /\ \A p \in Paths : p # None
  /\ \A f \in Fingerprints, p \in Paths, v \in Verdicts :
       [fingerprint |-> f, path |-> p, verdict |-> v] \in Rows
  /\ \A x \in Rows, p \in Paths, v \in Verdicts : [x EXCEPT !.verdict = v, !.path = p] \in Rows
  /\ Pending \in Verdicts
BY ConstantsAssumption DEF Rows, Verdicts, Pending

LEMMA Initially == Init => IInv
<1>1. SUFFICES ASSUME Init PROVE IInv
  OBVIOUS
<1>2. TypeOK
  BY <1>1, ConstantsAssumption DEF Init, TypeOK, Places, Working, Verdicts, Pending
<1>3. Held /\ Grounded /\ Owned /\ AsReviewed
  BY <1>1 DEF Init, Held, HeldBy, Grounded, Owned, Own, AsReviewed, Reviewing, Executing
<1> QED
  BY <1>2, <1>3 DEF IInv

\* The steps of a generation keep the invariant.
LEMMA GenerateSteps ==
  ASSUME IInv, NEW r \in Runs, Generate(r), UNCHANGED compiled
  PROVE  IInv'
<1> USE ConstantFacts, PathFacts DEF IInv
<1>1. CASE Reuse(r)
  <2>1. TypeOK'
    BY <1>1 DEF Reuse, Reusable, TypeOK, Held, HeldBy, Places, Working, Rows, Verdicts, Pending, Fingerprints, Reviewing, Executing
  <2>2. Held'
    <3>1. SUFFICES ASSUME NEW q \in Runs PROVE HeldBy(q)'
      BY DEF Held
    <3>2. HeldBy(q) /\ HeldBy(r)
      BY DEF Held
    <3>3. CASE q = r
      <4>1. PICK t \in Reusable(r) : /\ task' = [task EXCEPT ![r] = t]
                                     /\ path' = [path EXCEPT ![r] = row[t].path]
        BY <1>1 DEF Reuse
      <4>2. /\ t \in Tasks /\ row[t] \in Rows
            /\ object[<<t, "candidate">>] # None /\ object[row[t].path] # None
        BY <4>1 DEF Reusable, Grounded, TypeOK
      <4>3. row[t].path \in Paths /\ row[t].path # None /\ t # None /\ row[t] # None
        BY <4>2, RowFacts
      <4>4. task'[r] = t /\ path'[r] = row[t].path /\ pc'[r] = "reading"
        BY <1>1, <4>1 DEF Reuse, TypeOK
      <4> QED
        BY <1>1, <3>2, <3>3, <4>2, <4>3, <4>4 DEF Reuse, TypeOK, HeldBy, Reviewing, Executing
    <3>4. CASE q # r
      BY <1>1, <2>1, <3>2, <3>4 DEF Reuse, TypeOK, HeldBy, Reviewing, Executing
    <3> QED
      BY <3>3, <3>4
  <2>3. Grounded'
    BY <1>1, <2>1 DEF Reuse, Reusable, TypeOK, Held, HeldBy, Grounded, Rows, Reviewing, Executing
  <2>4. Owned'
    BY <1>1, <2>1 DEF Reuse, Reusable, TypeOK, Held, HeldBy, Grounded, Owned, Own, Rows, Pending, Reviewing, Executing
  <2>5. AsReviewed'
    BY <1>1, <2>1 DEF Reuse, Reusable, TypeOK, Held, HeldBy, Grounded, Owned, Own, AsReviewed, Rows, Reviewing, Executing
  <2> QED
    BY <2>1, <2>2, <2>3, <2>4, <2>5
<1>2. CASE NothingReusable(r)
  <2>1. TypeOK'
    BY <1>2 DEF NothingReusable, TypeOK, Held, HeldBy, Places, Working, Rows, Verdicts, Pending, Fingerprints, Reviewing, Executing
  <2>2. Held'
    <3>1. SUFFICES ASSUME NEW q \in Runs PROVE HeldBy(q)'
      BY DEF Held
    <3>2. HeldBy(q) /\ HeldBy(r)
      BY DEF Held
    <3>3. CASE q = r
      BY <1>2, <2>1, <3>2, <3>3 DEF NothingReusable, TypeOK, HeldBy, Grounded, Rows, Reviewing, Executing
    <3>4. CASE q # r
      BY <1>2, <2>1, <3>2, <3>4 DEF NothingReusable, TypeOK, HeldBy, Reviewing, Executing
    <3> QED
      BY <3>3, <3>4
  <2>3. Grounded'
    BY <1>2, <2>1 DEF NothingReusable, TypeOK, Held, HeldBy, Grounded, Rows, Reviewing, Executing
  <2>4. Owned'
    BY <1>2, <2>1 DEF NothingReusable, TypeOK, Held, HeldBy, Grounded, Owned, Own, Rows, Pending, Reviewing, Executing
  <2>5. AsReviewed'
    BY <1>2, <2>1 DEF NothingReusable, TypeOK, Held, HeldBy, Grounded, Owned, Own, AsReviewed, Rows, Reviewing, Executing
  <2> QED
    BY <2>1, <2>2, <2>3, <2>4, <2>5
<1>3. CASE Draft(r)
  <2>1. TypeOK'
    <3>1. source' = [source EXCEPT ![r] = source'[r]] /\ source'[r] \in Sources
      BY <1>3 DEF Draft, Writes, TypeOK
    <3>2. source' \in [Runs -> Sources \cup {None}]
      BY <3>1 DEF TypeOK
    <3>3. sources' \in 0..MaxSources
      BY <1>3 DEF Draft, Writes, TypeOK
    <3>4. pc' \in [Runs -> Places]
      BY <1>3 DEF Draft, TypeOK, Places, Working
    <3> QED
      BY <1>3, <3>2, <3>3, <3>4 DEF Draft, TypeOK
  <2>2. Held'
    <3>1. SUFFICES ASSUME NEW q \in Runs PROVE HeldBy(q)'
      BY DEF Held
    <3>2. HeldBy(q) /\ HeldBy(r)
      BY DEF Held
    <3>3. CASE q = r
      BY <1>3, <2>1, <3>2, <3>3 DEF Draft, Writes, TypeOK, HeldBy, Grounded, Rows, Reviewing, Executing
    <3>4. CASE q # r
      BY <1>3, <2>1, <3>2, <3>4 DEF Draft, Writes, TypeOK, HeldBy, Reviewing, Executing
    <3> QED
      BY <3>3, <3>4
  <2>3. Grounded'
    BY <1>3, <2>1 DEF Draft, Writes, TypeOK, Held, HeldBy, Grounded, Rows, Reviewing, Executing
  <2>4. Owned'
    BY <1>3, <2>1 DEF Draft, Writes, TypeOK, Held, HeldBy, Grounded, Owned, Own, Rows, Pending, Reviewing, Executing
  <2>5. AsReviewed'
    BY <1>3, <2>1 DEF Draft, Writes, TypeOK, Held, HeldBy, Grounded, Owned, Own, AsReviewed, Rows, Reviewing, Executing
  <2> QED
    BY <2>1, <2>2, <2>3, <2>4, <2>5
<1>4. CASE DraftFails(r)
  <2>1. TypeOK'
    BY <1>4 DEF DraftFails, TypeOK, Held, HeldBy, Places, Working, Rows, Verdicts, Pending, Fingerprints, Reviewing, Executing
  <2>2. Held'
    <3>1. SUFFICES ASSUME NEW q \in Runs PROVE HeldBy(q)'
      BY DEF Held
    <3>2. HeldBy(q) /\ HeldBy(r)
      BY DEF Held
    <3>3. CASE q = r
      BY <1>4, <2>1, <3>2, <3>3 DEF DraftFails, TypeOK, HeldBy, Grounded, Rows, Reviewing, Executing
    <3>4. CASE q # r
      BY <1>4, <2>1, <3>2, <3>4 DEF DraftFails, TypeOK, HeldBy, Reviewing, Executing
    <3> QED
      BY <3>3, <3>4
  <2>3. Grounded'
    BY <1>4, <2>1 DEF DraftFails, TypeOK, Held, HeldBy, Grounded, Rows, Reviewing, Executing
  <2>4. Owned'
    BY <1>4, <2>1 DEF DraftFails, TypeOK, Held, HeldBy, Grounded, Owned, Own, Rows, Pending, Reviewing, Executing
  <2>5. AsReviewed'
    BY <1>4, <2>1 DEF DraftFails, TypeOK, Held, HeldBy, Grounded, Owned, Own, AsReviewed, Rows, Reviewing, Executing
  <2> QED
    BY <2>1, <2>2, <2>3, <2>4, <2>5
<1>5. CASE Store(r)
  <2>1. TypeOK'
    <3>1. PICK t \in Tasks :
             /\ object[<<t, "candidate">>] = None
             /\ object' = [object EXCEPT ![<<t, "candidate">>] = source[r]]
             /\ task' = [task EXCEPT ![r] = t]
             /\ path' = [path EXCEPT ![r] = <<t, "candidate">>]
      BY <1>5 DEF Store
    <3>2. <<t, "candidate">> \in Paths /\ source[r] \in Sources
      BY <1>5 DEF Store, TypeOK, Held, HeldBy
    <3>3. /\ object' \in [Paths -> Sources \cup {None}]
          /\ task' \in [Runs -> Tasks \cup {None}]
          /\ path' \in [Runs -> Paths \cup {None}]
      BY <3>1, <3>2 DEF TypeOK
    <3>4. pc' \in [Runs -> Places]
      BY <1>5 DEF Store, TypeOK, Places, Working
    <3> QED
      BY <1>5, <3>3, <3>4 DEF Store, TypeOK
  <2>2. Held'
    <3>1. SUFFICES ASSUME NEW q \in Runs PROVE HeldBy(q)'
      BY DEF Held
    <3>2. HeldBy(q) /\ HeldBy(r)
      BY DEF Held
    <3>3. CASE q = r
      BY <1>5, <2>1, <3>2, <3>3 DEF Store, TypeOK, HeldBy, Grounded, Rows, Reviewing, Executing
    <3>4. CASE q # r
      BY <1>5, <2>1, <3>2, <3>4 DEF Store, TypeOK, HeldBy, Reviewing, Executing
    <3> QED
      BY <3>3, <3>4
  <2>3. Grounded'
    BY <1>5, <2>1, ZenonT(60) DEF Store, TypeOK, Held, HeldBy, Grounded, Rows, Reviewing, Executing
  <2>4. Owned'
    <3>1. PICK t \in Tasks :
             /\ object[<<t, "candidate">>] = None
             /\ object' = [object EXCEPT ![<<t, "candidate">>] = source[r]]
             /\ task' = [task EXCEPT ![r] = t]
             /\ path' = [path EXCEPT ![r] = <<t, "candidate">>]
      BY <1>5 DEF Store
    <3>2. <<t, "candidate">> \in Paths /\ source[r] \in Sources
      BY <1>5 DEF Store, TypeOK, Held, HeldBy
    <3>3. row[t] = None
      BY <3>1 DEF Grounded
    <3>4. \A q \in Runs : task[q] # t
      BY <3>1 DEF Held, HeldBy
    <3>5. /\ task'[r] = t /\ path'[r] = <<t, "candidate">> /\ pc'[r] = "registering"
          /\ \A q \in Runs \ {r} : task'[q] = task[q] /\ path'[q] = path[q] /\ pc'[q] = pc[q]
      BY <1>5, <3>1 DEF Store, TypeOK
    <3> QED
      BY <1>5, <3>1, <3>3, <3>4, <3>5 DEF Store, TypeOK, Owned, Own
  <2>5. AsReviewed'
    <3>1. PICK t \in Tasks :
             /\ object[<<t, "candidate">>] = None
             /\ object' = [object EXCEPT ![<<t, "candidate">>] = source[r]]
             /\ task' = [task EXCEPT ![r] = t]
             /\ path' = [path EXCEPT ![r] = <<t, "candidate">>]
      BY <1>5 DEF Store
    <3>2. <<t, "candidate">> \in Paths /\ source[r] \in Sources
      BY <1>5 DEF Store, TypeOK, Held, HeldBy
    <3>3. row[t] = None
      BY <3>1 DEF Grounded
    <3>4. \A q \in Runs : task[q] # t
      BY <3>1 DEF Held, HeldBy
    <3>5. /\ task'[r] = t /\ path'[r] = <<t, "candidate">> /\ pc'[r] = "registering"
          /\ \A q \in Runs \ {r} : task'[q] = task[q] /\ path'[q] = path[q] /\ pc'[q] = pc[q]
      BY <1>5, <3>1 DEF Store, TypeOK
    <3>6. \A q \in Runs \ {r} : Own(q) => path[q] # <<t, "candidate">> /\ path[q] \in Paths
      <4>1. SUFFICES ASSUME NEW q \in Runs \ {r}, Own(q)
                     PROVE  path[q] # <<t, "candidate">> /\ path[q] \in Paths
        OBVIOUS
      <4>2. task[q] \in Tasks
        BY <4>1 DEF Own, TypeOK, Held, HeldBy, Reviewing, Executing
      <4>3. path[q] = <<task[q], "candidate">>
        BY <4>1 DEF Owned
      <4> QED
        BY <3>4, <4>2, <4>3
    <3>7. \A p \in Paths : p # <<t, "candidate">> => object'[p] = object[p]
      BY <3>1 DEF TypeOK
    <3> QED
      BY <1>5, <3>5, <3>6, <3>7 DEF Store, TypeOK, Own, AsReviewed
  <2> QED
    BY <2>1, <2>2, <2>3, <2>4, <2>5
<1>6. CASE Register(r)
  <2>1. TypeOK'
    <3>1. task[r] \in Tasks /\ path[r] \in Paths
      <4>1. task[r] \in Tasks
        BY <1>6 DEF Register, TypeOK, Held, HeldBy
      <4>2. path[r] = <<task[r], "candidate">>
        BY <1>6 DEF Register, Held, HeldBy
      <4> QED
        BY <4>1, <4>2
    <3>2. Fingerprint[r] \in Fingerprints
      BY DEF Fingerprints
    <3>3. row' \in [Tasks -> Rows \cup {None}]
      BY <1>6, <3>1, <3>2, RowFacts DEF Register, TypeOK
    <3>4. pc' \in [Runs -> Places]
      BY <1>6 DEF Register, TypeOK, Places, Working
    <3> QED
      BY <1>6, <3>3, <3>4 DEF Register, TypeOK
  <2>2. Held'
    <3>1. SUFFICES ASSUME NEW q \in Runs PROVE HeldBy(q)'
      BY DEF Held
    <3>2. HeldBy(q) /\ HeldBy(r)
      BY DEF Held
    <3>3. task[r] \in Tasks
      BY <1>6, <3>2 DEF Register, TypeOK, HeldBy, Reviewing, Executing
    <3>6. row'[task[r]] \in Rows
      <4>1. /\ path[r] \in Paths /\ Fingerprint[r] \in Fingerprints
        <5>1. path[r] = <<task[r], "candidate">>
          BY <1>6, <3>2 DEF Register, HeldBy
        <5> QED
          BY <3>3, <5>1 DEF Fingerprints
      <4> QED
        BY <1>6, <3>3, <4>1, RowFacts DEF Register, TypeOK
    <3>5. row'[task[r]] # None
      BY <3>6, RowFacts
    <3>4. \A t \in Tasks : row[t] # None => row'[t] # None
      BY <1>6, <2>1, <3>3, <3>5 DEF Register, TypeOK
    <3>7. CASE q = r
      BY <1>6, <3>2, <3>3, <3>5, <3>7, RowFacts DEF Register, TypeOK, HeldBy, Reviewing, Executing
    <3>8. CASE q # r
      BY <1>6, <3>2, <3>4, <3>8 DEF Register, TypeOK, HeldBy, Reviewing, Executing
    <3> QED
      BY <3>7, <3>8
  <2>3. Grounded'
    BY <1>6, <2>1 DEF Register, TypeOK, Held, HeldBy, Grounded, Rows, Reviewing, Executing
  <2>4. Owned'
    BY <1>6, <2>1 DEF Register, TypeOK, Held, HeldBy, Grounded, Owned, Own, Rows, Pending, Reviewing, Executing
  <2>5. AsReviewed'
    BY <1>6, <2>1 DEF Register, TypeOK, Held, HeldBy, Grounded, Owned, Own, AsReviewed, Rows, Reviewing, Executing
  <2> QED
    BY <2>1, <2>2, <2>3, <2>4, <2>5
<1>7. CASE PersistenceFails(r)
  <2>1. TypeOK'
    BY <1>7 DEF PersistenceFails, TypeOK, Held, HeldBy, Places, Working, Rows, Verdicts, Pending, Fingerprints, Reviewing, Executing
  <2>2. Held'
    <3>1. SUFFICES ASSUME NEW q \in Runs PROVE HeldBy(q)'
      BY DEF Held
    <3>2. HeldBy(q) /\ HeldBy(r)
      BY DEF Held
    <3>3. CASE q = r
      BY <1>7, <2>1, <3>2, <3>3 DEF PersistenceFails, TypeOK, HeldBy, Grounded, Rows, Reviewing, Executing
    <3>4. CASE q # r
      BY <1>7, <2>1, <3>2, <3>4 DEF PersistenceFails, TypeOK, HeldBy, Reviewing, Executing
    <3> QED
      BY <3>3, <3>4
  <2>3. Grounded'
    BY <1>7, <2>1 DEF PersistenceFails, TypeOK, Held, HeldBy, Grounded, Rows, Reviewing, Executing
  <2>4. Owned'
    BY <1>7, <2>1 DEF PersistenceFails, TypeOK, Held, HeldBy, Grounded, Owned, Own, Rows, Pending, Reviewing, Executing
  <2>5. AsReviewed'
    BY <1>7, <2>1 DEF PersistenceFails, TypeOK, Held, HeldBy, Grounded, Owned, Own, AsReviewed, Rows, Reviewing, Executing
  <2> QED
    BY <2>1, <2>2, <2>3, <2>4, <2>5
<1> QED
  BY <1>1, <1>2, <1>3, <1>4, <1>5, <1>6, <1>7 DEF Generate

\* The steps of a review keep the invariant.
LEMMA ReviewSteps ==
  ASSUME IInv, NEW r \in Runs, Review(r), UNCHANGED compiled
  PROVE  IInv'
<1> USE ConstantFacts, PathFacts DEF IInv
<1>1. CASE ReadForReview(r)
  <2>1. TypeOK'
    <3>1. left[r] \in {1, 2} /\ path[r] \in Paths /\ object[path[r]] \in Sources
      <4>1. left[r] \in {1, 2}
        <5>1. left[r] \in 0..2
          BY DEF TypeOK
        <5>2. left[r] # 0
          BY <1>1 DEF ReadForReview, Held, HeldBy
        <5> QED
          BY <5>1, <5>2
      <4>2. path[r] \in Paths /\ object[path[r]] # None
        BY <1>1 DEF ReadForReview, TypeOK, Held, HeldBy, Reviewing
      <4> QED
        BY <4>1, <4>2 DEF TypeOK
    <3>2. left' \in [Runs -> 0..2]
      BY <1>1, <3>1 DEF ReadForReview, TypeOK
    <3>3. source' \in [Runs -> Sources \cup {None}] /\ pc' \in [Runs -> Places]
      BY <1>1, <3>1 DEF ReadForReview, TypeOK, Places, Working
    <3> QED
      BY <1>1, <3>2, <3>3 DEF ReadForReview, TypeOK
  <2>2. Held'
    <3>1. SUFFICES ASSUME NEW q \in Runs PROVE HeldBy(q)'
      BY DEF Held
    <3>2. HeldBy(q) /\ HeldBy(r)
      BY DEF Held
    <3>3. CASE q = r
      BY <1>1, <2>1, <3>2, <3>3 DEF ReadForReview, TypeOK, HeldBy, Grounded, Rows, Reviewing, Executing
    <3>4. CASE q # r
      BY <1>1, <2>1, <3>2, <3>4 DEF ReadForReview, TypeOK, HeldBy, Reviewing, Executing
    <3> QED
      BY <3>3, <3>4
  <2>3. Grounded'
    BY <1>1, <2>1 DEF ReadForReview, TypeOK, Held, HeldBy, Grounded, Rows, Reviewing, Executing
  <2>4. Owned'
    BY <1>1, <2>1 DEF ReadForReview, TypeOK, Held, HeldBy, Grounded, Owned, Own, Rows, Pending, Reviewing, Executing
  <2>5. AsReviewed'
    BY <1>1, <2>1 DEF ReadForReview, TypeOK, Held, HeldBy, Grounded, Owned, Own, AsReviewed, Rows, Reviewing, Executing
  <2> QED
    BY <2>1, <2>2, <2>3, <2>4, <2>5
<1>2. CASE ReviewFails(r)
  <2>1. TypeOK'
    BY <1>2 DEF ReviewFails, TypeOK, Held, HeldBy, Places, Working, Rows, Verdicts, Pending, Fingerprints, Reviewing, Executing
  <2>2. Held'
    <3>1. SUFFICES ASSUME NEW q \in Runs PROVE HeldBy(q)'
      BY DEF Held
    <3>2. HeldBy(q) /\ HeldBy(r)
      BY DEF Held
    <3>3. CASE q = r
      BY <1>2, <2>1, <3>2, <3>3 DEF ReviewFails, TypeOK, HeldBy, Grounded, Rows, Reviewing, Executing
    <3>4. CASE q # r
      BY <1>2, <2>1, <3>2, <3>4 DEF ReviewFails, TypeOK, HeldBy, Reviewing, Executing
    <3> QED
      BY <3>3, <3>4
  <2>3. Grounded'
    BY <1>2, <2>1 DEF ReviewFails, TypeOK, Held, HeldBy, Grounded, Rows, Reviewing, Executing
  <2>4. Owned'
    BY <1>2, <2>1 DEF ReviewFails, TypeOK, Held, HeldBy, Grounded, Owned, Own, Rows, Pending, Reviewing, Executing
  <2>5. AsReviewed'
    BY <1>2, <2>1 DEF ReviewFails, TypeOK, Held, HeldBy, Grounded, Owned, Own, AsReviewed, Rows, Reviewing, Executing
  <2> QED
    BY <2>1, <2>2, <2>3, <2>4, <2>5
<1>3. CASE Approve(r)
  <2>1. TypeOK'
    <3>1. source[r] \in Sources
      BY <1>3 DEF Approve, TypeOK, Held, HeldBy
    <3>2. approved' \in [Runs -> SUBSET Sources]
      BY <1>3, <3>1 DEF Approve, TypeOK
    <3>3. pc' \in [Runs -> Places]
      BY <1>3 DEF Approve, TypeOK, Places, Working
    <3> QED
      BY <1>3, <3>2, <3>3 DEF Approve, TypeOK
  <2>2. Held'
    <3>1. SUFFICES ASSUME NEW q \in Runs PROVE HeldBy(q)'
      BY DEF Held
    <3>2. HeldBy(q) /\ HeldBy(r)
      BY DEF Held
    <3>3. CASE q = r
      BY <1>3, <2>1, <3>2, <3>3 DEF Approve, TypeOK, HeldBy, Grounded, Rows, Reviewing, Executing
    <3>4. CASE q # r
      BY <1>3, <2>1, <3>2, <3>4 DEF Approve, TypeOK, HeldBy, Reviewing, Executing
    <3> QED
      BY <3>3, <3>4
  <2>3. Grounded'
    BY <1>3, <2>1 DEF Approve, TypeOK, Held, HeldBy, Grounded, Rows, Reviewing, Executing
  <2>4. Owned'
    BY <1>3, <2>1 DEF Approve, TypeOK, Held, HeldBy, Grounded, Owned, Own, Rows, Pending, Reviewing, Executing
  <2>5. AsReviewed'
    BY <1>3, <2>1 DEF Approve, TypeOK, Held, HeldBy, Grounded, Owned, Own, AsReviewed, Rows, Reviewing, Executing
  <2> QED
    BY <2>1, <2>2, <2>3, <2>4, <2>5
<1>4. CASE Reject(r)
  <2>1. TypeOK'
    <3>1. task[r] \in Tasks
      BY <1>4 DEF Reject, Rejection, TypeOK, Held, HeldBy, Reviewing
    <3>2. rejected' \in [Runs -> SUBSET Tasks]
      BY <1>4, <3>1 DEF Reject, Rejection, TypeOK
    <3>3. pc' \in [Runs -> Places]
      BY <1>4 DEF Reject, Rejection, TypeOK, Places, Working
    <3> QED
      BY <1>4, <3>2, <3>3 DEF Reject, Rejection, TypeOK
  <2>2. Held'
    <3>1. SUFFICES ASSUME NEW q \in Runs PROVE HeldBy(q)'
      BY DEF Held
    <3>2. HeldBy(q) /\ HeldBy(r)
      BY DEF Held
    <3>3. CASE q = r
      BY <1>4, <2>1, <3>2, <3>3 DEF Reject, Rejection, TypeOK, HeldBy, Grounded, Rows, Reviewing, Executing
    <3>4. CASE q # r
      BY <1>4, <2>1, <3>2, <3>4 DEF Reject, Rejection, TypeOK, HeldBy, Reviewing, Executing
    <3> QED
      BY <3>3, <3>4
  <2>3. Grounded'
    BY <1>4, <2>1 DEF Reject, Rejection, TypeOK, Held, HeldBy, Grounded, Rows, Reviewing, Executing
  <2>4. Owned'
    BY <1>4, <2>1 DEF Reject, Rejection, TypeOK, Held, HeldBy, Grounded, Owned, Own, Rows, Pending, Reviewing, Executing
  <2>5. AsReviewed'
    BY <1>4, <2>1 DEF Reject, Rejection, TypeOK, Held, HeldBy, Grounded, Owned, Own, AsReviewed, Rows, Reviewing, Executing
  <2> QED
    BY <2>1, <2>2, <2>3, <2>4, <2>5
<1> QED
  BY <1>1, <1>2, <1>3, <1>4 DEF Review

\* The steps of a execution keep the invariant.
LEMMA ExecuteSteps ==
  ASSUME IInv, NEW r \in Runs, Execute(r), UNCHANGED compiled
  PROVE  IInv'
<1> USE ConstantFacts, PathFacts DEF IInv
<1>1. CASE Select(r)
  <2>1. TypeOK'
    BY <1>1, ZenonT(60) DEF Select, TypeOK, Held, HeldBy, Places, Working, Rows, Verdicts, Pending, Fingerprints, Reviewing, Executing
  <2>2. Held'
    <3>1. SUFFICES ASSUME NEW q \in Runs PROVE HeldBy(q)'
      BY DEF Held
    <3>2. HeldBy(q) /\ HeldBy(r)
      BY DEF Held
    <3>3. /\ task[r] \in Tasks /\ row[task[r]] \in Rows /\ row[task[r]] # None
          /\ row[task[r]].path \in Paths /\ object[row[task[r]].path] # None
      BY <1>1, <3>2, RowFacts DEF Select, TypeOK, HeldBy, Grounded, Reviewing, Executing
    <3>4. path'[r] = row[task[r]].path /\ path'[r] # None /\ pc'[r] = "loading"
      BY <1>1, <3>3, RowFacts DEF Select, TypeOK
    <3>5. CASE q = r
      BY <1>1, <3>2, <3>3, <3>4, <3>5 DEF Select, TypeOK, HeldBy, Reviewing, Executing
    <3>6. CASE q # r
      BY <1>1, <3>2, <3>6 DEF Select, TypeOK, HeldBy, Reviewing, Executing
    <3> QED
      BY <3>5, <3>6
  <2>3. Grounded'
    BY <1>1, <2>1 DEF Select, TypeOK, Held, HeldBy, Grounded, Rows, Reviewing, Executing
  <2>4. Owned'
    <3>1. task' = task /\ row' = row
      BY <1>1 DEF Select
    <3>2. \A q \in Runs : Own(q)' => Own(q)
      BY <1>1 DEF Select, TypeOK, Own
    <3>3. ASSUME NEW q \in Runs, Own(q) PROVE path'[q] = path[q]
      <4>1. CASE q = r
        BY <1>1, <3>3, <4>1 DEF Select, TypeOK, Held, HeldBy, Owned, Executing
      <4>2. CASE q # r
        BY <1>1, <4>2 DEF Select, TypeOK
      <4> QED
        BY <4>1, <4>2
    <3> QED
      BY <3>1, <3>2, <3>3 DEF Owned
  <2>5. AsReviewed'
    BY <1>1, <2>1, ZenonT(60) DEF Select, TypeOK, Held, HeldBy, Grounded, Owned, Own, AsReviewed, Rows, Reviewing, Executing
  <2> QED
    BY <2>1, <2>2, <2>3, <2>4, <2>5
<1>2. CASE Load(r)
  <2>1. TypeOK'
    BY <1>2 DEF Load, TypeOK, Held, HeldBy, Places, Working, Rows, Verdicts, Pending, Fingerprints, Reviewing, Executing
  <2>2. Held'
    <3>1. SUFFICES ASSUME NEW q \in Runs PROVE HeldBy(q)'
      BY DEF Held
    <3>2. HeldBy(q) /\ HeldBy(r)
      BY DEF Held
    <3>3. CASE q = r
      BY <1>2, <2>1, <3>2, <3>3 DEF Load, TypeOK, HeldBy, Grounded, Rows, Reviewing, Executing
    <3>4. CASE q # r
      BY <1>2, <2>1, <3>2, <3>4 DEF Load, TypeOK, HeldBy, Reviewing, Executing
    <3> QED
      BY <3>3, <3>4
  <2>3. Grounded'
    BY <1>2, <2>1 DEF Load, TypeOK, Held, HeldBy, Grounded, Rows, Reviewing, Executing
  <2>4. Owned'
    BY <1>2, <2>1 DEF Load, TypeOK, Held, HeldBy, Grounded, Owned, Own, Rows, Pending, Reviewing, Executing
  <2>5. AsReviewed'
    BY <1>2, <2>1 DEF Load, TypeOK, Held, HeldBy, Grounded, Owned, Own, AsReviewed, Rows, Reviewing, Executing
  <2> QED
    BY <2>1, <2>2, <2>3, <2>4, <2>5
<1>3. CASE Repair(r)
  <2>1. TypeOK'
    BY <1>3 DEF Repair, Writes, TypeOK, Held, HeldBy, Places, Working, Rows, Verdicts, Pending, Fingerprints, Reviewing, Executing
  <2>2. Held'
    <3>1. SUFFICES ASSUME NEW q \in Runs PROVE HeldBy(q)'
      BY DEF Held
    <3>2. HeldBy(q) /\ HeldBy(r)
      BY DEF Held
    <3>3. CASE q = r
      BY <1>3, <2>1, <3>2, <3>3 DEF Repair, Writes, TypeOK, HeldBy, Grounded, Rows, Reviewing, Executing
    <3>4. CASE q # r
      BY <1>3, <2>1, <3>2, <3>4 DEF Repair, Writes, TypeOK, HeldBy, Reviewing, Executing
    <3> QED
      BY <3>3, <3>4
  <2>3. Grounded'
    BY <1>3, <2>1 DEF Repair, Writes, TypeOK, Held, HeldBy, Grounded, Rows, Reviewing, Executing
  <2>4. Owned'
    BY <1>3, <2>1 DEF Repair, Writes, TypeOK, Held, HeldBy, Grounded, Owned, Own, Rows, Pending, Reviewing, Executing
  <2>5. AsReviewed'
    BY <1>3, <2>1 DEF Repair, Writes, TypeOK, Held, HeldBy, Grounded, Owned, Own, AsReviewed, Rows, Reviewing, Executing
  <2> QED
    BY <2>1, <2>2, <2>3, <2>4, <2>5
<1>4. CASE Conclude(r)
  <2>1. TypeOK'
    <3>1. source[r] \in Sources
      BY <1>4 DEF Conclude, TypeOK, Held, HeldBy
    <3>2. PICK passed \in BOOLEAN, outcome \in BOOLEAN, link \in BOOLEAN :
             /\ verdict' = [verdict EXCEPT ![r] =
                  [status |-> IF passed THEN "PASSED" ELSE "FAILED", catalog |-> link]]
             /\ published' \in IF linked[r] \/ ~outcome THEN {published}
                               ELSE {published \cup {source[r]}} \cup (IF link THEN {} ELSE {published})
      BY <1>4 DEF Conclude
    <3>3. [status |-> IF passed THEN "PASSED" ELSE "FAILED", catalog |-> link] \in Verdicts
      BY DEF Verdicts
    <3>4. verdict' \in [Runs -> Verdicts]
      BY <3>2, <3>3 DEF TypeOK
    <3>5. published' \subseteq Sources
      BY <3>1, <3>2 DEF TypeOK
    <3>6. pc' \in [Runs -> Places]
      BY <1>4 DEF Conclude, TypeOK, Places, Working
    <3> QED
      BY <1>4, <3>4, <3>5, <3>6 DEF Conclude, TypeOK
  <2>2. Held'
    <3>1. SUFFICES ASSUME NEW q \in Runs PROVE HeldBy(q)'
      BY DEF Held
    <3>2. HeldBy(q) /\ HeldBy(r)
      BY DEF Held
    <3>3. CASE q = r
      BY <1>4, <2>1, <3>2, <3>3 DEF Conclude, Verdicts, TypeOK, HeldBy, Grounded, Rows, Reviewing, Executing
    <3>4. CASE q # r
      BY <1>4, <2>1, <3>2, <3>4 DEF Conclude, Verdicts, TypeOK, HeldBy, Reviewing, Executing
    <3> QED
      BY <3>3, <3>4
  <2>3. Grounded'
    BY <1>4, <2>1 DEF Conclude, Verdicts, TypeOK, Held, HeldBy, Grounded, Rows, Reviewing, Executing
  <2>4. Owned'
    BY <1>4, <2>1 DEF Conclude, Verdicts, TypeOK, Held, HeldBy, Grounded, Owned, Own, Rows, Pending, Reviewing, Executing
  <2>5. AsReviewed'
    BY <1>4, <2>1 DEF Conclude, Verdicts, TypeOK, Held, HeldBy, Grounded, Owned, Own, AsReviewed, Rows, Reviewing, Executing
  <2> QED
    BY <2>1, <2>2, <2>3, <2>4, <2>5
<1>5. CASE Upload(r)
  <2>1. TypeOK'
    BY <1>5 DEF Upload, TypeOK, Held, HeldBy, Places, Working, Rows, Verdicts, Pending, Fingerprints, Reviewing, Executing
  <2>2. Held'
    <3>1. SUFFICES ASSUME NEW q \in Runs PROVE HeldBy(q)'
      BY DEF Held
    <3>2. HeldBy(q) /\ HeldBy(r)
      BY DEF Held
    <3>3. CASE q = r
      BY <1>5, <2>1, <3>2, <3>3 DEF Upload, TypeOK, HeldBy, Grounded, Rows, Reviewing, Executing
    <3>4. CASE q # r
      BY <1>5, <2>1, <3>2, <3>4 DEF Upload, TypeOK, HeldBy, Reviewing, Executing
    <3> QED
      BY <3>3, <3>4
  <2>3. Grounded'
    BY <1>5, <2>1 DEF Upload, TypeOK, Held, HeldBy, Grounded, Rows, Reviewing, Executing
  <2>4. Owned'
    BY <1>5, <2>1 DEF Upload, TypeOK, Held, HeldBy, Grounded, Owned, Own, Rows, Pending, Reviewing, Executing
  <2>5. AsReviewed'
    BY <1>5, <2>1 DEF Upload, TypeOK, Held, HeldBy, Grounded, Owned, Own, AsReviewed, Rows, Reviewing, Executing
  <2> QED
    BY <2>1, <2>2, <2>3, <2>4, <2>5
<1>6. CASE Update(r)
  <2>1. TypeOK'
    <3>1. task[r] \in Tasks /\ row[task[r]] \in Rows
      BY <1>6 DEF Update, TypeOK, Held, HeldBy, Executing
    <3>2. verdict[r] \in Verdicts
      BY DEF TypeOK
    <3> DEFINE p == IF repaired[r] THEN <<task[r], "repaired">> ELSE row[task[r]].path
               x == [row[task[r]] EXCEPT !.verdict = verdict[r], !.path = p]
    <3>3. p \in Paths
      BY <3>1, RowFacts
    <3>4. row' = [row EXCEPT ![task[r]] = x]
      BY <1>6, <3>1 DEF Update, TypeOK
    <3>5. x \in Rows
      BY <3>1, <3>2, <3>3, RowFacts
    <3>6. row' \in [Tasks -> Rows \cup {None}]
      BY <3>4, <3>5 DEF TypeOK
    <3>7. pc' \in [Runs -> Places]
      BY <1>6 DEF Update, TypeOK, Places
    <3> QED
      BY <1>6, <3>6, <3>7 DEF Update, TypeOK
  <2>2. Held'
    <3>1. task[r] \in Tasks /\ row[task[r]] \in Rows
      BY <1>6 DEF Update, TypeOK, Held, HeldBy, Executing
    <3>2. verdict[r] \in Verdicts
      BY DEF TypeOK
    <3> DEFINE p == IF repaired[r] THEN <<task[r], "repaired">> ELSE row[task[r]].path
               x == [row[task[r]] EXCEPT !.verdict = verdict[r], !.path = p]
    <3>3. p \in Paths
      BY <3>1, RowFacts
    <3>4. row' = [row EXCEPT ![task[r]] = x]
      BY <1>6, <3>1 DEF Update, TypeOK
    <3>5. x \in Rows
      BY <3>1, <3>2, <3>3, RowFacts
    <3> HIDE DEF x
    <3>6. \A t \in Tasks : row[t] # None => row'[t] # None
      BY <3>1, <3>4, <3>5, RowFacts DEF TypeOK
    <3>7. SUFFICES ASSUME NEW q \in Runs PROVE HeldBy(q)'
      BY DEF Held
    <3>8. HeldBy(q)
      BY DEF Held
    <3> QED
      BY <1>6, <3>6, <3>8 DEF Update, TypeOK, HeldBy, Reviewing, Executing
  <2>3. Grounded'
    BY <1>6, <2>1 DEF Update, TypeOK, Held, HeldBy, Grounded, Rows, Reviewing, Executing
  <2>4. Owned'
    <3>1. task[r] \in Tasks
      BY <1>6 DEF Update, TypeOK, Held, HeldBy, Executing
    <3>2. \A t \in Tasks \ {task[r]} : row'[t] = row[t]
      BY <1>6, <3>1 DEF Update, TypeOK
    <3>3. \A q \in Runs : Own(q) => task[q] \in Tasks \ {task[r]}
      BY <1>6, ZenonT(60) DEF Update, TypeOK, Held, HeldBy, Owned, Own, Reviewing, Executing
    <3>4. \A q \in Runs : Own(q)' => Own(q)
      BY <1>6 DEF Update, TypeOK, Own
    <3>5. task' = task /\ path' = path
      BY <1>6 DEF Update
    <3>6. SUFFICES ASSUME NEW q \in Runs, Own(q)
                   PROVE  /\ \A p \in Runs \ {q} : task[p] # task[q]
                          /\ path[q] = <<task[q], "candidate">>
                          /\ row'[task[q]] # None =>
                               row'[task[q]].verdict = Pending /\ row'[task[q]].path = path[q]
      BY <3>4, <3>5 DEF Owned
    <3> QED
      BY <3>2, <3>3, <3>6 DEF Owned
  <2>5. AsReviewed'
    BY <1>6, <2>1 DEF Update, TypeOK, Held, HeldBy, Grounded, Owned, Own, AsReviewed, Rows, Reviewing, Executing
  <2> QED
    BY <2>1, <2>2, <2>3, <2>4, <2>5
<1>7. CASE ExecutionFails(r)
  <2>1. TypeOK'
    BY <1>7 DEF ExecutionFails, TypeOK, Held, HeldBy, Places, Working, Rows, Verdicts, Pending, Fingerprints, Reviewing, Executing
  <2>2. Held'
    <3>1. SUFFICES ASSUME NEW q \in Runs PROVE HeldBy(q)'
      BY DEF Held
    <3>2. HeldBy(q) /\ HeldBy(r)
      BY DEF Held
    <3>3. CASE q = r
      BY <1>7, <2>1, <3>2, <3>3 DEF ExecutionFails, TypeOK, HeldBy, Grounded, Rows, Reviewing, Executing
    <3>4. CASE q # r
      BY <1>7, <2>1, <3>2, <3>4 DEF ExecutionFails, TypeOK, HeldBy, Reviewing, Executing
    <3> QED
      BY <3>3, <3>4
  <2>3. Grounded'
    BY <1>7, <2>1 DEF ExecutionFails, TypeOK, Held, HeldBy, Grounded, Rows, Reviewing, Executing
  <2>4. Owned'
    BY <1>7, <2>1 DEF ExecutionFails, TypeOK, Held, HeldBy, Grounded, Owned, Own, Rows, Pending, Reviewing, Executing
  <2>5. AsReviewed'
    BY <1>7, <2>1 DEF ExecutionFails, TypeOK, Held, HeldBy, Grounded, Owned, Own, AsReviewed, Rows, Reviewing, Executing
  <2> QED
    BY <2>1, <2>2, <2>3, <2>4, <2>5
<1> QED
  BY <1>1, <1>2, <1>3, <1>4, <1>5, <1>6, <1>7 DEF Execute

\* The invariant holds: the first three theorems follow from it.
LEMMA Inductive == Spec => []IInv
<1>1. Init => IInv
  BY Initially
<1>2. IInv /\ [Next]_vars => IInv'
  <2>1. SUFFICES ASSUME IInv, [Next]_vars PROVE IInv'
    OBVIOUS
  <2>2. CASE UNCHANGED vars
    BY <2>1, <2>2 DEF vars, IInv, TypeOK, Held, HeldBy, Grounded, Owned, Own, AsReviewed
  <2>3. ASSUME NEW r \in Runs, Step(r) PROVE IInv'
    BY <2>1, <2>3, GenerateSteps, ReviewSteps, ExecuteSteps DEF Step
  <2> QED
    BY <2>1, <2>2, <2>3 DEF Next
<1> QED
  BY <1>1, <1>2, PTL DEF Spec

\* The store, the rows and the runs keep their types.
THEOREM TypeCorrect == Spec => []TypeOK
<1>1. IInv => TypeOK
  BY DEF IInv
<1> QED
  BY <1>1, Inductive, PTL

\* Whichever write of a generation or of an execution fails, no row names an object that
\* is not there.
THEOREM NoDanglingRow == Spec => []RowsResolve
<1>1. IInv => RowsResolve
  BY DEF IInv, Grounded, RowsResolve
<1> QED
  BY <1>1, Inductive, PTL

\* However many runs share a fingerprint, a suite that a run generated is first executed as
\* it was approved in that run.
THEOREM ExecutedAsApproved == Spec => []GeneratedAsApproved
<1>1. IInv => GeneratedAsApproved
  BY DEF IInv, AsReviewed, Own, GeneratedAsApproved
<1> QED
  BY <1>1, Inductive, PTL

-----------------------------------------------------------------------------
(***************************************************************************)
(* RejectedReturnsApproved: what is stored, executed or approved stays so  *)
(* (Lasting), so whoever reuses a suite after its first execution finds    *)
(* the approval of the run that generated it (Vetted).                     *)
(***************************************************************************)

\* What a step leaves as it is: candidates, executed rows, approvals, and other runs.
Lasting(r) ==
  /\ \A t \in Tasks : object[<<t, "candidate">>] # None =>
       object'[<<t, "candidate">>] = object[<<t, "candidate">>]
  /\ \A t \in Tasks : row[t] # None /\ row[t].verdict # Pending =>
       row'[t] # None /\ row'[t].verdict # Pending
  /\ \A q \in Runs : /\ approved[q] \subseteq approved'[q]
                     /\ pc[q] \in Past => pc'[q] \in Past
  /\ \A q \in Runs \ {r} : /\ pc'[q] = pc[q] /\ task'[q] = task[q] /\ reused'[q] = reused[q]
                           /\ verdict'[q] = verdict[q] /\ rejected'[q] = rejected[q]

LEMMA StepsLast ==
  ASSUME IInv, IInv', RInv, NEW r \in Runs, Step(r)
  PROVE  Lasting(r)
<1> USE ConstantFacts, PathFacts DEF IInv, TypeOK
<1>1. \A q \in Runs : approved[q] \subseteq approved'[q] /\ (pc[q] \in Past => pc'[q] \in Past)
  <2>1. CASE Generate(r)
    BY <2>1 DEF Generate, Reuse, NothingReusable, Draft, DraftFails, Store, Register,
       PersistenceFails, Past, Executing
  <2>2. CASE Review(r)
    BY <2>2 DEF Review, ReadForReview, ReviewFails, Approve, Reject, Rejection, Past, Executing
  <2>3. CASE Execute(r)
    BY <2>3 DEF Execute, Select, Load, Repair, Conclude, Upload, Update, ExecutionFails, Past,
       Executing
  <2> QED
    BY <2>1, <2>2, <2>3 DEF Step
<1>2. ASSUME NEW q \in Runs \ {r}
      PROVE  /\ pc'[q] = pc[q] /\ task'[q] = task[q] /\ reused'[q] = reused[q]
             /\ verdict'[q] = verdict[q] /\ rejected'[q] = rejected[q]
  <2>1. CASE Generate(r)
    <3>1. CASE Reuse(r) \/ NothingReusable(r)
      BY <1>2, <3>1 DEF Reuse, NothingReusable
    <3>2. CASE Draft(r) \/ DraftFails(r) \/ PersistenceFails(r)
      BY <1>2, <3>2 DEF Draft, DraftFails, PersistenceFails
    <3>3. CASE Store(r) \/ Register(r)
      BY <1>2, <3>3 DEF Store, Register
    <3> QED
      BY <2>1, <3>1, <3>2, <3>3 DEF Generate
  <2>2. CASE Review(r)
    <3>1. CASE Reject(r)
      BY <1>2, <3>1 DEF Reject, Rejection
    <3>2. CASE ReadForReview(r) \/ ReviewFails(r) \/ Approve(r)
      BY <1>2, <3>2 DEF ReadForReview, ReviewFails, Approve
    <3> QED
      BY <2>2, <3>1, <3>2 DEF Review
  <2>3. CASE Execute(r)
    BY <1>2, <2>3 DEF Execute, Select, Load, Repair, Conclude, Upload, Update, ExecutionFails
  <2> QED
    BY <2>1, <2>2, <2>3 DEF Step
<1>3. ASSUME NEW t \in Tasks, object[<<t, "candidate">>] # None
      PROVE  object'[<<t, "candidate">>] = object[<<t, "candidate">>]
  <2>1. CASE object' = object
    BY <2>1
  <2>2. CASE Store(r)
    BY <1>3, <2>2 DEF Store
  <2>3. CASE Upload(r)
    <3>0. pc[r] = "uploading"
      BY <2>3 DEF Upload
    <3>1. task[r] \in Tasks
      BY ONLY IInv, <3>0 DEF IInv, TypeOK, Held, HeldBy, Executing
    <3>2. <<task[r], "repaired">> # <<t, "candidate">> /\ <<t, "candidate">> \in Paths
      BY <3>1
    <3> QED
      BY <2>3, <3>2 DEF Upload
  <2> QED
    BY <2>1, <2>2, <2>3 DEF Step, Generate, Reuse, NothingReusable, Draft, DraftFails, Register,
       PersistenceFails, Review, ReadForReview, ReviewFails, Approve, Reject, Rejection, Execute,
       Select, Load, Repair, Conclude, Update, ExecutionFails
<1>4. ASSUME NEW t \in Tasks, row[t] # None, row[t].verdict # Pending
      PROVE  row'[t] # None /\ row'[t].verdict # Pending
  <2>1. CASE row' = row
    BY <1>4, <2>1
  <2>2. CASE Register(r)
    <3>1. pc[r] = "registering" /\ ~reused[r] /\ task[r] \in Tasks
      BY <2>2 DEF Register, Held, HeldBy
    <3>2. row[task[r]] # None => row[task[r]].verdict = Pending
      BY <3>1 DEF Owned, Own
    <3>3. task[r] # t
      BY <1>4, <3>2
    <3> QED
      BY <1>4, <2>2, <3>1, <3>3 DEF Register
  <2>3. CASE Update(r)
    <3>1. CASE task[r] # t
      BY <1>4, <2>3, <3>1 DEF Update
    <3>2. CASE task[r] = t
      <4>1. verdict[r] # Pending /\ row[t] \in Rows
        BY <1>4, <2>3 DEF Update, RInv, NewTo
      <4> DEFINE p == IF repaired[r] THEN <<t, "repaired">> ELSE row[t].path
      <4>2. row'[t] = [row[t] EXCEPT !.verdict = verdict[r], !.path = p]
        BY <1>4, <2>3, <3>2 DEF Update
      <4>3. p \in Paths /\ verdict[r] \in Verdicts
        BY <1>4, <4>1, RowFacts
      <4> HIDE DEF p
      <4>4. row'[t] \in Rows
        <5>1. [row[t] EXCEPT !.verdict = verdict[r], !.path = p] \in Rows
          BY <4>1, <4>3, RowFacts, Zenon
        <5> QED
          BY <4>2, <5>1, Zenon
      <4>5. row'[t].verdict = verdict[r]
        BY <4>1, <4>2 DEF Rows
      <4> QED
        BY <4>1, <4>4, <4>5, RowFacts
    <3> QED
      BY <3>1, <3>2
  <2> QED
    BY <2>1, <2>2, <2>3 DEF Step, Generate, Reuse, NothingReusable, Draft, DraftFails, Store,
       PersistenceFails, Review, ReadForReview, ReviewFails, Approve, Reject, Rejection, Execute,
       Select, Load, Repair, Conclude, Upload, ExecutionFails
<1> QED
  BY <1>1, <1>2, <1>3, <1>4 DEF Lasting

\* A row that is executed for the first time is that of a suite its run had approved.
LEMMA VettedStep ==
  ASSUME IInv, IInv', RInv, NEW r \in Runs, Step(r)
  PROVE  Vetted'
<1>1. Lasting(r)
  BY StepsLast
<1>2. SUFFICES ASSUME NEW t \in Tasks, row'[t] # None, row'[t].verdict # Pending
               PROVE  \E q \in Runs : object'[<<t, "candidate">>] \in approved'[q] /\ pc'[q] \in Past
  BY DEF Vetted
<1>3. ASSUME NEW q \in Runs, object[<<t, "candidate">>] # None,
             object[<<t, "candidate">>] \in approved[q], pc[q] \in Past
      PROVE  object'[<<t, "candidate">>] \in approved'[q] /\ pc'[q] \in Past
  BY <1>1, <1>3 DEF Lasting
<1>4. row[t] # None => object[<<t, "candidate">>] # None
  BY DEF IInv, Grounded
<1>5. CASE row[t] # None /\ row[t].verdict # Pending
  BY <1>3, <1>4, <1>5 DEF RInv, Vetted
<1>6. CASE ~(row[t] # None /\ row[t].verdict # Pending)
  <2>1. row' # row
    BY <1>2, <1>6
  <2>2. Register(r) \/ Update(r)
    BY <2>1 DEF Step, Generate, Reuse, NothingReusable, Draft, DraftFails, Store,
       PersistenceFails, Review, ReadForReview, ReviewFails, Approve, Reject, Rejection, Execute,
       Select, Load, Repair, Conclude, Upload, ExecutionFails
  <2>3. CASE Register(r)
    <3>1. task[r] \in Tasks
      BY <2>3 DEF Register, IInv, TypeOK, Held, HeldBy
    <3>2. row'[t] = row[t] \/ row'[t].verdict = Pending
      BY <2>3, <3>1 DEF Register, IInv, TypeOK
    <3> QED
      BY <1>2, <1>6, <3>2
  <2>4. CASE Update(r)
    <3>1. task[r] \in Tasks /\ row[task[r]] # None /\ pc[r] \in Executing
      BY <2>4 DEF Update, IInv, TypeOK, Held, HeldBy, Executing
    <3>2. t = task[r]
      BY <1>2, <1>6, <2>4, <3>1 DEF Update, IInv, TypeOK
    <3>3. object[<<t, "candidate">>] \in approved[r]
      BY <1>6, <3>1, <3>2 DEF RInv, NewTo
    <3> QED
      BY <1>3, <1>4, <3>1, <3>2, <3>3 DEF Past
  <2> QED
    BY <2>2, <2>3, <2>4
<1> QED
  BY <1>5, <1>6

\* The run that takes a step.
LEMMA NewToStep ==
  ASSUME IInv, IInv', RInv, NEW r \in Runs, Step(r)
  PROVE  NewTo(r)'
<1> USE ConstantFacts, PathFacts DEF IInv, TypeOK
<1>1. NewTo(r) /\ HeldBy(r) /\ HeldBy(r)'
  BY DEF RInv, Held
<1>2. Lasting(r)
  BY StepsLast
<1>3. \A t \in rejected'[r] : object'[<<t, "candidate">>] # None
  <2>1. \A t \in rejected[r] : object'[<<t, "candidate">>] # None
    BY <1>1, <1>2 DEF Lasting, NewTo
  <2>2. CASE rejected'[r] = rejected[r]
    BY <2>1, <2>2
  <2>3. CASE Reject(r)
    <3>1. rejected'[r] = rejected[r] \cup {task[r]} /\ object' = object
      BY <2>3 DEF Reject, Rejection
    <3>2. object[<<task[r], "candidate">>] # None
      BY <1>1, <2>3 DEF Reject, Rejection, HeldBy, Reviewing
    <3> QED
      BY <2>1, <3>1, <3>2
  <2> QED
    BY <2>2, <2>3 DEF Step, Generate, Reuse, NothingReusable, Draft, DraftFails, Store, Register,
       PersistenceFails, Review, ReadForReview, ReviewFails, Approve, Execute,
       Select, Load, Repair, Conclude, Upload, Update, ExecutionFails
<1> DEFINE Rest ==
      /\ pc[r] \in {"registering", "reading", "judging"} /\ ~reused[r] => task[r] \notin rejected[r]
      /\ pc[r] \in Executing /\ ~reused[r] => object[<<task[r], "candidate">>] \in approved[r]
      /\ pc[r] \in Reviewing \cup Executing /\ reused[r] => row[task[r]].verdict # Pending
      /\ pc[r] \in {"uploading", "updating"} => verdict[r] # Pending
<1> SUFFICES Rest'
  BY <1>3 DEF NewTo
<1>4. CASE Generate(r)
  <2>1. CASE Reuse(r)
    <3>1. PICK t \in Reusable(r) : task' = [task EXCEPT ![r] = t]
      BY <2>1 DEF Reuse
    <3>2. task'[r] = t /\ row'[t].verdict # Pending /\ pc'[r] = "reading" /\ reused'[r]
      BY <2>1, <3>1 DEF Reuse, Reusable, Pending
    <3> QED
      BY <3>2 DEF Reviewing, Executing
  <2>2. CASE Store(r)
    <3>1. PICK t \in Tasks : object[<<t, "candidate">>] = None /\ task' = [task EXCEPT ![r] = t]
      BY <2>2 DEF Store
    <3>2. t \notin rejected[r]
      BY <1>1, <3>1 DEF NewTo
    <3>3. task'[r] = t /\ rejected' = rejected /\ pc'[r] = "registering" /\ ~reused'[r]
      BY <1>1, <2>2, <3>1 DEF Store, HeldBy
    <3> QED
      BY <3>2, <3>3 DEF Reviewing, Executing
  <2>3. CASE Register(r)
    BY <1>1, <2>3 DEF Register, NewTo, HeldBy, Reviewing, Executing
  <2>4. CASE NothingReusable(r) \/ Draft(r) \/ DraftFails(r) \/ PersistenceFails(r)
    BY <2>4 DEF NothingReusable, Draft, DraftFails, PersistenceFails, Reviewing, Executing
  <2> QED
    BY <1>4, <2>1, <2>2, <2>3, <2>4 DEF Generate
<1>5. CASE Review(r)
  <2>1. CASE Approve(r)
    <3>1. approved'[r] = approved[r] \cup {source[r]} /\ UNCHANGED <<object, row, task, path, reused>>
      BY <2>1 DEF Approve
    <3>3. pc[r] = "judging" /\ pc'[r] = "selecting" /\ verdict' = verdict
      BY <2>1 DEF Approve
    <3>2. ~reused[r] => object[<<task[r], "candidate">>] = source[r]
      BY ONLY IInv, <3>3 DEF IInv, Owned, Own, AsReviewed
    <3>4. reused[r] => row[task[r]].verdict # Pending
      BY <1>1, <3>3 DEF NewTo, Reviewing
    <3> HIDE DEF IInv, TypeOK
    <3> QED
      BY <3>1, <3>2, <3>3, <3>4 DEF Executing
  <2>2. CASE ReadForReview(r) \/ ReviewFails(r) \/ Reject(r)
    BY <1>1, <2>2 DEF ReadForReview, ReviewFails, Reject, Rejection, NewTo, Reviewing, Executing
  <2> QED
    BY <1>5, <2>1, <2>2 DEF Review
<1>6. CASE Execute(r)
  <2>1. pc[r] \in Executing /\ task' = task /\ reused' = reused /\ approved' = approved
    BY <1>6 DEF Execute, Select, Load, Repair, Conclude, Upload, Update, ExecutionFails, Executing
  <2>2. task[r] \in Tasks /\ object[<<task[r], "candidate">>] # None /\ row[task[r]] # None
    BY <1>1, <2>1 DEF HeldBy
  <2>3. ~reused[r] => object'[<<task[r], "candidate">>] \in approved[r]
    BY <1>1, <1>2, <2>1, <2>2 DEF NewTo, Lasting
  <2>4. reused[r] => row'[task[r]].verdict # Pending
    BY <1>1, <1>2, <2>1, <2>2 DEF NewTo, Lasting
  <2>5. pc'[r] \in {"uploading", "updating"} => verdict'[r] # Pending
    BY <1>1, <1>6 DEF Execute, Select, Load, Repair, Conclude, Upload, Update, ExecutionFails,
       NewTo, Pending
  <2>6. pc'[r] \in Executing \cup {"failed", "completed"}
    BY <1>6 DEF Execute, Select, Load, Repair, Conclude, Upload, Update, ExecutionFails, Executing
  <2> QED
    BY <2>1, <2>3, <2>4, <2>5, <2>6 DEF Executing
<1> QED
  BY <1>4, <1>5, <1>6 DEF Step

\* A suite that the Oracle rejected comes back to the same run only as one that another run
\* had approved and executed, for any number of runs, fingerprints and candidates, whatever
\* is compiled.
THEOREM RejectedOnlyReused == Spec => []RejectedReturnsApproved
<1>1. Init => RInv
  BY DEF Init, RInv, Vetted, NewTo, Reviewing, Executing
<1>2. IInv /\ IInv' /\ RInv /\ [Next]_vars => RInv'
  <2>1. SUFFICES ASSUME IInv, IInv', RInv, [Next]_vars PROVE RInv'
    OBVIOUS
  <2>2. CASE UNCHANGED vars
    BY <2>1, <2>2 DEF vars, RInv, Vetted, NewTo
  <2>3. ASSUME NEW r \in Runs, Step(r) PROVE RInv'
    <3>1. ASSUME NEW q \in Runs \ {r} PROVE NewTo(q)'
      <4>1. NewTo(q) /\ HeldBy(q) /\ Lasting(r)
        BY <2>1, <2>3, StepsLast DEF RInv, IInv, Held
      <4>2. /\ pc'[q] = pc[q] /\ task'[q] = task[q] /\ reused'[q] = reused[q]
            /\ verdict'[q] = verdict[q] /\ rejected'[q] = rejected[q]
            /\ approved[q] \subseteq approved'[q] /\ rejected[q] \subseteq Tasks
        BY <2>1, <3>1, <4>1 DEF Lasting, IInv, TypeOK
      <4>3. \A t \in rejected[q] : object'[<<t, "candidate">>] # None
        BY <4>1, <4>2 DEF Lasting, NewTo
      <4>4. pc[q] \in Reviewing \cup Executing =>
              /\ task[q] \in Tasks /\ row[task[q]] # None
              /\ object'[<<task[q], "candidate">>] = object[<<task[q], "candidate">>]
        BY <2>1, <3>1, <4>1 DEF HeldBy, Lasting, IInv, TypeOK
      <4>5. pc[q] \in Reviewing \cup Executing /\ reused[q] => row'[task[q]].verdict # Pending
        BY <4>1, <4>4 DEF NewTo, Lasting
      <4> QED
        BY <4>1, <4>2, <4>3, <4>4, <4>5 DEF NewTo
    <3> QED
      BY <2>1, <2>3, <3>1, NewToStep, VettedStep DEF RInv
  <2> QED
    BY <2>1, <2>2, <2>3 DEF Next
<1>3. IInv /\ RInv => RejectedReturnsApproved
  <2> SUFFICES ASSUME IInv, RInv, NEW r \in Runs, pc[r] = "judging", task[r] \in rejected[r]
               PROVE  /\ reused[r] /\ row[task[r]].verdict # Pending
                      /\ \E q \in Runs \ {r} : object[<<task[r], "candidate">>] \in approved[q]
    BY DEF RejectedReturnsApproved
  <2>1. reused[r] /\ row[task[r]].verdict # Pending
    BY DEF RInv, NewTo, Reviewing
  <2>2. task[r] \in Tasks /\ row[task[r]] # None
    BY DEF IInv, TypeOK, Held, HeldBy, Reviewing
  <2>3. PICK q \in Runs : object[<<task[r], "candidate">>] \in approved[q] /\ pc[q] \in Past
    BY <2>1, <2>2 DEF RInv, Vetted
  <2>4. q # r
    BY <2>3 DEF Past, Executing
  <2> QED
    BY <2>1, <2>3, <2>4
<1> QED
  BY <1>1, <1>2, <1>3, Inductive, PTL DEF Spec

-----------------------------------------------------------------------------
(* What is left of a run *)

\* How many steps may follow, with n reviews left, repaired or not.
Ahead(place, n, mended) ==
  CASE place = "lookup" -> 6 * n + 6
    [] place = "drafting" -> 6 * n + 5
    [] place = "storing" -> 6 * n + 4
    [] place = "registering" -> 6 * n + 3
    [] place = "reading" -> 6 * n + 2
    [] place = "judging" -> 6 * n + 7
    [] place = "selecting" -> 6
    [] place = "loading" -> 5
    [] place = "executing" -> IF mended THEN 3 ELSE 4
    [] place = "uploading" -> 2
    [] place = "updating" -> 1
    [] OTHER -> 0

StepsLeft(r) == Ahead(pc[r], left[r], repaired[r])

OfRun(r) == <<pc[r], left[r], task[r], path[r], source[r], reused[r], linked[r], repaired[r],
              verdict[r], approved[r], rejected[r]>>

\* A run starts with 18 steps; then it is where it was, or has fewer steps left than it had.
RunProgresses ==
  /\ \A r \in Runs : StepsLeft(r) = 18
  /\ [][\A r \in Runs : OfRun(r)' = OfRun(r) \/ StepsLeft(r)' \in 0..StepsLeft(r) - 1]_vars

(***************************************************************************)
(* Whatever fails, and whoever else reuses or repairs the same suite, a    *)
(* run is not kept going for ever: each of its steps is one of at most 18  *)
(* (the bound on reviews, workflow.py:169-206, and on repairs,             *)
(* test_execution/app.py:389-457).  Together with fairness this is         *)
(* RunsEnd.                                                                *)
(***************************************************************************)
THEOREM RunsProgress == Spec => RunProgresses
<1> DEFINE Stays(r) == OfRun(r)' = OfRun(r)
           Goes(r) == StepsLeft(r)' \in 0..StepsLeft(r) - 1
<1>1. ASSUME IInv, IInv', NEW r \in Runs, Step(r)
      PROVE  Goes(r)
  <2>1. /\ pc[r] \in Places /\ left[r] \in 0..2 /\ repaired[r] \in BOOLEAN
        /\ pc'[r] \in Places /\ left'[r] \in 0..2 /\ repaired'[r] \in BOOLEAN
    BY <1>1 DEF IInv, TypeOK
  <2>2. /\ pc[r] \in {"lookup", "drafting", "storing", "registering", "reading"} => left[r] # 0
        /\ pc' = [pc EXCEPT ![r] = pc'[r]]
    BY <1>1 DEF IInv, TypeOK, Held, HeldBy, Step, Generate, Review, Execute, Reuse, NothingReusable, Draft,
       DraftFails, Store, Register, PersistenceFails, ReadForReview, ReviewFails, Approve, Reject,
       Rejection, Select, Load, Repair, Conclude, Upload, Update, ExecutionFails
  <2> USE DEF StepsLeft, Ahead, TypeOK, IInv
  <2>3. CASE Generate(r)
    BY <1>1, <2>1, <2>2, <2>3 DEF Generate, Reuse, NothingReusable, Draft, DraftFails, Store, Register,
       PersistenceFails
  <2>4. CASE Review(r)
    <3>1. CASE ReadForReview(r)
      <4>1. pc[r] = "reading" /\ pc'[r] = "judging" /\ left[r] \in 1..2 /\ left'[r] \in 0..left[r] - 1
        BY <1>1, <2>1, <2>2, <3>1 DEF ReadForReview
      <4>2. StepsLeft(r) = 6 * left[r] + 2 /\ StepsLeft(r)' = 6 * left'[r] + 7
        BY <4>1
      <4> QED
        BY <4>1, <4>2
    <3>2. CASE ReviewFails(r) \/ Approve(r)
      BY <1>1, <2>1, <2>2, <3>2 DEF ReviewFails, Approve
    <3>3. CASE Reject(r)
      <4>1. /\ pc[r] = "judging" /\ left'[r] = left[r]
            /\ pc'[r] = IF left[r] > 0 THEN "lookup" ELSE "refused"
        BY <1>1, <2>1, <2>2, <3>3 DEF Reject, Rejection
      <4> QED
        BY <2>1, <4>1
    <3> QED
      BY <2>4, <3>1, <3>2, <3>3 DEF Review
  <2>5. CASE Execute(r)
    BY <1>1, <2>1, <2>2, <2>5 DEF Execute, Select, Load, Repair, Conclude, Upload, Update,
       ExecutionFails
  <2> QED
    BY <1>1, <2>3, <2>4, <2>5 DEF Step
<1>2. ASSUME IInv, NEW r \in Runs, NEW q \in Runs \ {r}, Step(q)
      PROVE  Stays(r)
  <2> USE DEF OfRun, TypeOK, IInv
  <2>1. CASE Generate(q)
    BY <1>2, <2>1 DEF Generate, Reuse, NothingReusable, Draft, DraftFails, Store, Register,
       PersistenceFails, Writes
  <2>2. CASE Review(q)
    BY <1>2, <2>2 DEF Review, ReadForReview, ReviewFails, Approve, Reject, Rejection
  <2>3. CASE Execute(q)
    BY <1>2, <2>3 DEF Execute, Select, Load, Repair, Conclude, Upload, Update, ExecutionFails, Writes
  <2> QED
    BY <1>2, <2>1, <2>2, <2>3 DEF Step
<1>3. IInv /\ IInv' /\ [Next]_vars => \A r \in Runs : Stays(r) \/ Goes(r)
  <2> SUFFICES ASSUME IInv, IInv', [Next]_vars, NEW r \in Runs PROVE Stays(r) \/ Goes(r)
    OBVIOUS
  <2> HIDE DEF Stays, Goes
  <2>1. CASE UNCHANGED vars
    BY <2>1 DEF vars, OfRun, Stays
  <2> QED
    BY <1>1, <1>2, <2>1 DEF Next
<1>4. Init => \A r \in Runs : StepsLeft(r) = 18
  <2>1. Init => \A r \in Runs : pc[r] = "lookup" /\ left[r] = 2
    <3> SUFFICES ASSUME Init, NEW r \in Runs PROVE pc[r] = "lookup" /\ left[r] = 2
      OBVIOUS
    <3>1. pc = [q \in Runs |-> "lookup"] /\ left = [q \in Runs |-> 2]
      BY Zenon DEF Init
    <3> QED
      BY <3>1
  <2>2. \A mended : Ahead("lookup", 2, mended) = 18
    BY DEF Ahead
  <2> QED
    BY <2>1, <2>2 DEF StepsLeft
<1> QED
  BY <1>3, <1>4, Inductive, PTL DEF Spec, RunProgresses

=============================================================================
