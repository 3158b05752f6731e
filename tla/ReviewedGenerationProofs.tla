---------------------- MODULE ReviewedGenerationProofs ----------------------
(***************************************************************************)
(* The properties of ReviewedGeneration and of the reviews in it, for any  *)
(* number of generations and of concurrent reviews, any configuration of   *)
(* the agents, any answers of the models, and any bounds on attempts.      *)
(*                                                                         *)
(* FailsClosed rests on Reviewed: what is being judged came with a         *)
(* response that was no error, and from the judgement on it does not       *)
(* change.  OnlyGatedReviewed rests on Gated, what test_code may be by how *)
(* far a generation is, and on Awaited: a review has the answer of the     *)
(* generation before it.  WorkRunsOut rests on Counted: who posts or       *)
(* pauses has attempts left.                                               *)
(***************************************************************************)
EXTENDS ReviewedGeneration, TLAPS

\* A call in this state, after so many attempts of so many, has one left.
HasLeft(state, made, attempts) ==
  /\ state = "posting" => made < attempts
  /\ state = "pausing" => made + 1 < attempts

Counted == \A c \in Callers : HasLeft(call[c], attempt[c], MaxAttempts)

\* What the Oracle knows when it approves.
Approvable(r) ==
  /\ status[r] = "ok"
  /\ Unreserved(content[r]) \/ (content[r] = Nothing /\ Unreserved(reasoning[r]))

ReviewedBy(r) ==
  /\ pc[r] = "judging" => status[r] = "ok"
  /\ pc[r] = "approving" => Approvable(r)
  /\ answer[r] = "APPROVED" =>
       pc[r] = "done" /\ Approvable(r) /\ evidence[Task[r]] # None

Reviewed == \A r \in Callers : ReviewedBy(r)

IInv == TypeOK /\ Counted /\ Reviewed

-----------------------------------------------------------------------------
(* Calls *)

\* A step of a call leaves it its attempts and uses one up; so does a call that starts.
LEMMA Counts ==
  ASSUME CallsTypeOK, Counted, NEW r \in Callers, CallStep(r) \/ StartCall(r)
  PROVE  CallsTypeOK' /\ Counted'
<1> USE CallsAssumption DEF CallGoto, CallStates, Statuses, CallsTypeOK, Counted, HasLeft
<1>1. CASE Post(r)
  BY <1>1 DEF Post
<1>2. CASE PostRaises(r)
  BY <1>2 DEF PostRaises
<1>3. CASE Pause(r)
  <2>1. attempt[r] + 1 < MaxAttempts
    BY <1>3 DEF Pause
  <2> QED
    BY <1>3, <2>1 DEF Pause
<1>4. CASE StartCall(r)
  BY <1>4 DEF StartCall
<1> QED
  BY <1>1, <1>2, <1>3, <1>4 DEF CallStep

LEMMA CountsDown ==
  ASSUME CallsTypeOK, Counted, NEW r \in Callers, CallStep(r)
  PROVE  CallForward(r)
<1> USE CallsAssumption DEF CallGoto, CallStates, Statuses, CallsTypeOK, Counted, HasLeft,
                            CallForward, CallLeft
<1>1. CASE Post(r)
  BY <1>1 DEF Post
<1>2. CASE PostRaises(r)
  BY <1>2 DEF PostRaises
<1>3. CASE Pause(r)
  BY <1>3 DEF Pause
<1> QED
  BY <1>1, <1>2, <1>3 DEF CallStep

-----------------------------------------------------------------------------
(* Reviews *)

LEMMA Initially == Init => IInv
<1>1. SUFFICES ASSUME Init PROVE IInv
  OBVIOUS
<1>2. TypeOK
  BY <1>1, CallsAssumption DEF Init, CallInit, TypeOK, CallsTypeOK, CallStates, Statuses, Places, Answers, Contents
<1>3. Counted
  BY <1>1 DEF Init, CallInit, Counted, HasLeft
<1>4. Reviewed
  BY <1>1, ReviewAssumption DEF Init, Reviewed, ReviewedBy
<1> QED
  BY <1>2, <1>3, <1>4 DEF IInv

\* The steps of a review that are none of its call leave it alone.
LEMMA CountsStand ==
  ASSUME CallsTypeOK, Counted, UNCHANGED callVars
  PROVE  CallsTypeOK' /\ Counted'
BY DEF callVars, CallsTypeOK, Counted

LEMMA ReviewSteps ==
  ASSUME IInv, NEW r \in Callers, Review(r)
  PROVE  IInv'
<1> USE ReviewAssumption DEF IInv, Goto, Answer
<1>1. CallsTypeOK /\ Counted
  BY DEF TypeOK
<1>2. CASE Ask(r)
  <2>1. CallsTypeOK' /\ Counted'
    BY <1>1, <1>2, CountsStand DEF Ask
  <2>2. TypeOK'
    BY <1>2, <2>1 DEF Ask, TypeOK, Places, Answers
  <2>3. Reviewed'
    <3>1. SUFFICES ASSUME NEW q \in Callers PROVE ReviewedBy(q)'
      BY DEF Reviewed
    <3>2. ReviewedBy(q) /\ ReviewedBy(r)
      BY DEF Reviewed
    <3>3. CASE q = r
      BY <1>2, <3>2, <3>3 DEF Ask, ReviewedBy, Approvable, TypeOK, CallsTypeOK, callVars
    <3>4. CASE q # r
      BY <1>2, <3>2, <3>4 DEF Ask, ReviewedBy, Approvable, TypeOK, CallsTypeOK, callVars
    <3> QED
      BY <3>3, <3>4
  <2> QED
    BY <2>1, <2>2, <2>3
<1>3. CASE Read(r)
  <2>1. CallsTypeOK' /\ Counted'
    BY <1>1, <1>3, Counts DEF Read
  <2>2. TypeOK'
    BY <1>3, <2>1 DEF Read, TypeOK, Places, Answers
  <2>3. Reviewed'
    <3>1. SUFFICES ASSUME NEW q \in Callers PROVE ReviewedBy(q)'
      BY DEF Reviewed
    <3>2. ReviewedBy(q) /\ ReviewedBy(r)
      BY DEF Reviewed
    <3>3. CASE q = r
      BY <1>3, <3>2, <3>3 DEF Read, ReviewedBy, Approvable, TypeOK, CallsTypeOK, callVars, StartCall
    <3>4. CASE q # r
      BY <1>3, <3>2, <3>4 DEF Read, ReviewedBy, Approvable, TypeOK, CallsTypeOK, callVars, StartCall
    <3> QED
      BY <3>3, <3>4
  <2> QED
    BY <2>1, <2>2, <2>3
<1>4. CASE ReadFails(r)
  <2>1. CallsTypeOK' /\ Counted'
    BY <1>1, <1>4, CountsStand DEF ReadFails
  <2>2. TypeOK'
    BY <1>4, <2>1 DEF ReadFails, TypeOK, Places, Answers
  <2>3. Reviewed'
    <3>1. SUFFICES ASSUME NEW q \in Callers PROVE ReviewedBy(q)'
      BY DEF Reviewed
    <3>2. ReviewedBy(q) /\ ReviewedBy(r)
      BY DEF Reviewed
    <3>3. CASE q = r
      BY <1>4, <3>2, <3>3 DEF ReadFails, ReviewedBy, Approvable, TypeOK, CallsTypeOK, callVars
    <3>4. CASE q # r
      BY <1>4, <3>2, <3>4 DEF ReadFails, ReviewedBy, Approvable, TypeOK, CallsTypeOK, callVars
    <3> QED
      BY <3>3, <3>4
  <2> QED
    BY <2>1, <2>2, <2>3
<1>5. CASE Reason(r)
  <2>1. CallsTypeOK' /\ Counted'
    BY <1>1, <1>5, Counts DEF Reason
  <2>2. TypeOK'
    BY <1>5, <2>1 DEF Reason, TypeOK, Places, Answers
  <2>3. Reviewed'
    <3>1. SUFFICES ASSUME NEW q \in Callers PROVE ReviewedBy(q)'
      BY DEF Reviewed
    <3>2. ReviewedBy(q) /\ ReviewedBy(r)
      BY DEF Reviewed
    <3>3. CASE q = r
      BY <1>5, <3>2, <3>3 DEF Reason, ReviewedBy, Approvable, TypeOK, CallsTypeOK, callVars, CallStep, Post, PostRaises, Pause, CallGoto
    <3>4. CASE q # r
      BY <1>5, <3>2, <3>4 DEF Reason, ReviewedBy, Approvable, TypeOK, CallsTypeOK, callVars, CallStep, Post, PostRaises, Pause, CallGoto
    <3> QED
      BY <3>3, <3>4
  <2> QED
    BY <2>1, <2>2, <2>3
<1>6. CASE Receive(r)
  <2>1. CallsTypeOK' /\ Counted'
    BY <1>1, <1>6, CountsStand DEF Receive
  <2>2. TypeOK'
    <3>1. PICK c \in Contents : content' = [content EXCEPT ![r] = c]
      BY <1>6 DEF Receive
    <3>2. PICK d \in Contents : reasoning' = [reasoning EXCEPT ![r] = d]
      BY <1>6 DEF Receive, Contents
    <3> QED
      BY <1>6, <2>1, <3>1, <3>2 DEF Receive, TypeOK, Places
  <2>3. Reviewed'
    <3>1. SUFFICES ASSUME NEW q \in Callers PROVE ReviewedBy(q)'
      BY DEF Reviewed
    <3>2. ReviewedBy(q) /\ ReviewedBy(r)
      BY DEF Reviewed
    <3>3. CASE q = r
      BY <1>6, <3>2, <3>3 DEF Receive, ReviewedBy, Approvable, TypeOK, CallsTypeOK, callVars
    <3>4. CASE q # r
      BY <1>6, <3>2, <3>4 DEF Receive, ReviewedBy, Approvable, TypeOK, CallsTypeOK, callVars
    <3> QED
      BY <3>3, <3>4
  <2> QED
    BY <2>1, <2>2, <2>3
<1>7. CASE ReasonFails(r)
  <2>1. CallsTypeOK' /\ Counted'
    BY <1>1, <1>7, CountsStand DEF ReasonFails
  <2>2. TypeOK'
    BY <1>7, <2>1 DEF ReasonFails, TypeOK, Places, Answers
  <2>3. Reviewed'
    <3>1. SUFFICES ASSUME NEW q \in Callers PROVE ReviewedBy(q)'
      BY DEF Reviewed
    <3>2. ReviewedBy(q) /\ ReviewedBy(r)
      BY DEF Reviewed
    <3>3. CASE q = r
      BY <1>7, <3>2, <3>3 DEF ReasonFails, ReviewedBy, Approvable, TypeOK, CallsTypeOK, callVars
    <3>4. CASE q # r
      BY <1>7, <3>2, <3>4 DEF ReasonFails, ReviewedBy, Approvable, TypeOK, CallsTypeOK, callVars
    <3> QED
      BY <3>3, <3>4
  <2> QED
    BY <2>1, <2>2, <2>3
<1>8. CASE Judge(r)
  <2>1. CallsTypeOK' /\ Counted'
    BY <1>1, <1>8, CountsStand DEF Judge
  <2>2. TypeOK'
    BY <1>8, <2>1 DEF Judge, TypeOK, Places, Answers
  <2>3. Reviewed'
    <3>1. SUFFICES ASSUME NEW q \in Callers PROVE ReviewedBy(q)'
      BY DEF Reviewed
    <3>2. ReviewedBy(q) /\ ReviewedBy(r)
      BY DEF Reviewed
    <3>3. CASE q = r
      BY <1>8, <3>2, <3>3 DEF Judge, ReviewedBy, Approvable, TypeOK, CallsTypeOK, callVars, Parses, ReviewText, Unreserved, Contents
    <3>4. CASE q # r
      BY <1>8, <3>2, <3>4 DEF Judge, ReviewedBy, Approvable, TypeOK, CallsTypeOK, callVars, Parses, ReviewText, Unreserved, Contents
    <3> QED
      BY <3>3, <3>4
  <2> QED
    BY <2>1, <2>2, <2>3
<1>9. CASE Decide(r)
  <2>1. CallsTypeOK' /\ Counted'
    BY <1>1, <1>9, CountsStand DEF Decide
  <2>2. TypeOK'
    BY <1>9, <2>1 DEF Decide, TypeOK, Places, Answers, Decision
  <2>3. Reviewed'
    <3>1. SUFFICES ASSUME NEW q \in Callers PROVE ReviewedBy(q)'
      BY DEF Reviewed
    <3>2. ReviewedBy(q) /\ ReviewedBy(r)
      BY DEF Reviewed
    <3>3. CASE q = r
      BY <1>9, <3>2, <3>3 DEF Decide, ReviewedBy, Approvable, TypeOK, CallsTypeOK, callVars, Decision
    <3>4. CASE q # r
      BY <1>9, <3>2, <3>4 DEF Decide, ReviewedBy, Approvable, TypeOK, CallsTypeOK, callVars, Decision
    <3> QED
      BY <3>3, <3>4
  <2> QED
    BY <2>1, <2>2, <2>3
<1>10. CASE EvidenceFails(r)
  <2>1. CallsTypeOK' /\ Counted'
    BY <1>1, <1>10, CountsStand DEF EvidenceFails
  <2>2. TypeOK'
    BY <1>10, <2>1 DEF EvidenceFails, TypeOK, Places, Answers
  <2>3. Reviewed'
    <3>1. SUFFICES ASSUME NEW q \in Callers PROVE ReviewedBy(q)'
      BY DEF Reviewed
    <3>2. ReviewedBy(q) /\ ReviewedBy(r)
      BY DEF Reviewed
    <3>3. CASE q = r
      BY <1>10, <3>2, <3>3 DEF EvidenceFails, ReviewedBy, Approvable, TypeOK, CallsTypeOK, callVars
    <3>4. CASE q # r
      BY <1>10, <3>2, <3>4 DEF EvidenceFails, ReviewedBy, Approvable, TypeOK, CallsTypeOK, callVars
    <3> QED
      BY <3>3, <3>4
  <2> QED
    BY <2>1, <2>2, <2>3
<1>11. CASE GivesUp(r)
  <2>1. CallsTypeOK' /\ Counted'
    BY <1>1, <1>11, CountsStand DEF GivesUp
  <2>2. TypeOK'
    BY <1>11, <2>1 DEF GivesUp, TypeOK, Answers
  <2>3. Reviewed'
    <3>1. SUFFICES ASSUME NEW q \in Callers PROVE ReviewedBy(q)'
      BY DEF Reviewed
    <3>2. ReviewedBy(q) /\ ReviewedBy(r)
      BY DEF Reviewed
    <3> QED
      BY <1>11, <3>2 DEF GivesUp, ReviewedBy, Approvable, TypeOK, CallsTypeOK, callVars
  <2> QED
    BY <2>1, <2>2, <2>3
<1> QED
  BY <1>2, <1>3, <1>4, <1>5, <1>6, <1>7, <1>8, <1>9, <1>10, <1>11 DEF Review

\* The inductive invariant holds of every behaviour.
LEMMA Inductive == Spec => []IInv
<1>1. Init => IInv
  BY Initially
<1>2. IInv /\ [Next]_vars => IInv'
  <2>1. SUFFICES ASSUME IInv, [Next]_vars PROVE IInv'
    OBVIOUS
  <2>2. CASE UNCHANGED vars
    BY <2>1, <2>2, CountsStand DEF vars, callVars, IInv, TypeOK, Counted, Reviewed, ReviewedBy, Approvable
  <2>3. ASSUME NEW r \in Callers, Review(r) PROVE IInv'
    BY <2>1, <2>3, ReviewSteps
  <2> QED
    BY <2>1, <2>2, <2>3 DEF Next
<1> QED
  BY <1>1, <1>2, PTL DEF Spec

\* The reviews and their calls keep their types.
THEOREM TypeCorrect == Spec => []TypeOK
<1>1. IInv => TypeOK
  BY DEF IInv
<1> QED
  BY <1>1, Inductive, PTL

\* An activity that has not given up is told APPROVED only on an unreserved approval, of
\* which there is evidence.
THEOREM Closed == Spec => []FailsClosed
<1>1. IInv => FailsClosed
  BY DEF IInv, Reviewed, ReviewedBy, Approvable, FailsClosed
<1> QED
  BY <1>1, Inductive, PTL

\* A step of a review uses up a place, or a post or pause; an activity that gives up does not.
LEMMA ReviewMoves ==
  ASSUME IInv, NEW r \in Callers, Review(r), NEW q \in Callers
  PROVE  ReviewRests(q) \/ ReviewForward(q)
<1> USE DEF IInv, TypeOK, CallsTypeOK, Goto, ReviewRests, callVars
<1>1. CASE Reason(r)
  <2>1. CallForward(r)
    BY <1>1, CountsDown DEF Reason
  <2>2. q # r => call'[q] = call[q] /\ attempt'[q] = attempt[q]
    BY <1>1 DEF Reason, CallStep, Post, PostRaises, Pause, CallGoto
  <2> QED
    BY <1>1, <2>1, <2>2 DEF Reason, ReviewForward
<1>2. CASE Ask(r)
  BY <1>2 DEF Ask, ReviewForward, PlaceRank
<1>3. CASE Read(r)
  BY <1>3 DEF Read, StartCall, CallGoto, ReviewForward, PlaceRank
<1>4. CASE ReadFails(r)
  BY <1>4 DEF ReadFails, ReviewForward, PlaceRank
<1>5. CASE Receive(r)
  BY <1>5 DEF Receive, ReviewForward, PlaceRank
<1>6. CASE ReasonFails(r)
  BY <1>6 DEF ReasonFails, ReviewForward, PlaceRank
<1>7. CASE Judge(r)
  BY <1>7 DEF Judge, ReviewForward, PlaceRank
<1>8. CASE Decide(r)
  BY <1>8 DEF Decide, ReviewForward, PlaceRank
<1>9. CASE EvidenceFails(r)
  BY <1>9 DEF EvidenceFails, ReviewForward, PlaceRank
<1>10. CASE GivesUp(r)
  BY <1>10 DEF GivesUp
<1> QED
  BY <1>1, <1>2, <1>3, <1>4, <1>5, <1>6, <1>7, <1>8, <1>9, <1>10 DEF Review

-----------------------------------------------------------------------------
(* The generations before the reviews *)

(***************************************************************************)
(* The reviews within ReviewedGeneration are those of OracleReview: what   *)
(* holds of these holds of them.                                           *)
(***************************************************************************)
THEOREM ReviewsAsSpecified == ReviewedSpec => Spec
<1>1. ReviewedInit => Init
  BY DEF ReviewedInit
<1>2. [ReviewedNext]_allVars => [Next]_vars
  BY DEF ReviewedNext, Generates, Answered, Reviews, allVars, Next
<1> QED
  BY <1>1, <1>2, PTL DEF ReviewedSpec, Spec

\* A suite that may be reviewed, and the candidates it took.
Reviewable(s, asked) == (s = "clean" /\ asked \in {1, 2}) \/ (s = "compiled" /\ asked = 0)

GatedBy(t) ==
  /\ stage[t] \in {"compiling", "metadata", "artifact", "embedding", "searching"} =>
       candidate[t] = 0
  /\ stage[t] \in {"asking", "inspecting"} => candidate[t] \in {1, 2}
  /\ stage[t] = "inspecting" => suite[t] \in {"clean", "flawed"}
  /\ stage[t] = "returned" => suite[t] = "error" \/ Reviewable(suite[t], candidate[t])
  /\ stage[t] \in {"storing", "inserting"} => Reviewable(suite[t], candidate[t])
  /\ stage[t] = "inserting" => object[t] = suite[t]
  /\ row[t] => stage[t] = "done" /\ Reviewable(object[t], candidate[t])
  /\ reply[t] = "SUCCESS" => row[t]
  /\ t \in ready => reply[t] = "SUCCESS"

Gated == \A t \in Tasks : GatedBy(t)

PostsLeft == \A t \in Tasks : HasLeft(posting[t], posted[t], GeneratorAttempts)

GenerationInv == Generation!TypeOK /\ ready \subseteq Tasks /\ PostsLeft /\ Gated

LEMMA GenerationInit == ReviewedInit => GenerationInv
BY GeneratorAssumption
   DEF ReviewedInit, Generation!Init, Generation!CallInit, GenerationInv, Gated, GatedBy,
       PostsLeft, HasLeft, Generation!TypeOK, Generation!CallsTypeOK, Generation!CallStates,
       Generation!Statuses, Generation!Stages, Generation!Suites, Generation!Replies

\* What a call of a generation may do.
LEMMA GenerationCall ==
  ASSUME GenerationInv, NEW t \in Tasks, Generation!CallStep(t) \/ Generation!StartCall(t)
  PROVE  Generation!CallsTypeOK' /\ PostsLeft'
<1> USE GeneratorAssumption
    DEF GenerationInv, Generation!TypeOK, Generation!CallGoto, Generation!CallStates,
        Generation!Statuses, Generation!CallsTypeOK, PostsLeft, HasLeft
<1>1. CASE Generation!Post(t)
  BY <1>1 DEF Generation!Post
<1>2. CASE Generation!PostRaises(t)
  BY <1>2 DEF Generation!PostRaises
<1>3. CASE Generation!Pause(t)
  <2>1. posted[t] + 1 < GeneratorAttempts
    BY <1>3 DEF Generation!Pause
  <2> QED
    BY <1>3, <2>1 DEF Generation!Pause
<1>4. CASE Generation!StartCall(t)
  BY <1>4 DEF Generation!StartCall
<1> QED
  BY <1>1, <1>2, <1>3, <1>4 DEF Generation!CallStep

LEMMA GenerationCountsDown ==
  ASSUME GenerationInv, NEW t \in Tasks, Generation!CallStep(t)
  PROVE  Generation!CallForward(t)
<1> USE GeneratorAssumption
    DEF GenerationInv, Generation!TypeOK, Generation!CallGoto, Generation!CallStates,
        Generation!Statuses, Generation!CallsTypeOK, PostsLeft, HasLeft,
        Generation!CallForward, Generation!CallLeft
<1>1. CASE Generation!Post(t)
  BY <1>1 DEF Generation!Post
<1>2. CASE Generation!PostRaises(t)
  BY <1>2 DEF Generation!PostRaises
<1>3. CASE Generation!Pause(t)
  BY <1>3 DEF Generation!Pause
<1> QED
  BY <1>1, <1>2, <1>3 DEF Generation!CallStep

\* The calls of a generation keep their types and their attempts, and those of others rest.
LEMMA GenerationCalling ==
  ASSUME GenerationInv, NEW t \in Tasks, Generation!Generate(t)
  PROVE  /\ Generation!CallsTypeOK' /\ PostsLeft'
         /\ \A u \in Tasks \ {t} : posting'[u] = posting[u] /\ posted'[u] = posted[u]
<1>1. CASE UNCHANGED Generation!callVars
  BY <1>1 DEF GenerationInv, Generation!TypeOK, Generation!callVars, Generation!CallsTypeOK,
              PostsLeft
<1>2. CASE Generation!CallStep(t) \/ Generation!StartCall(t)
  <2>1. \A u \in Tasks \ {t} : posting'[u] = posting[u] /\ posted'[u] = posted[u]
    BY <1>2 DEF GenerationInv, Generation!TypeOK, Generation!CallsTypeOK, Generation!CallStep,
                Generation!StartCall, Generation!Post, Generation!PostRaises, Generation!Pause,
                Generation!CallGoto
  <2> QED
    BY <1>2, <2>1, GenerationCall
<1> QED
  BY <1>1, <1>2
     DEF Generation!Generate, Generation!Compile, Generation!CompileRaises, Generation!Metadata,
         Generation!Artifact, Generation!Call, Generation!Fail, Generation!Embedded,
         Generation!Search, Generation!Drafted, Generation!Accept, Generation!AskAgain,
         Generation!GiveUp, Generation!Check, Generation!Store, Generation!Insert,
         Generation!PersistenceFails, Generation!GivesUp

\* A step of a generation keeps its types, and the suite what it may be.
LEMMA GenerationSteps ==
  ASSUME GenerationInv, NEW t \in Tasks \ ready, Generation!Generate(t), UNCHANGED ready
  PROVE  GenerationInv'
<1> USE GeneratorAssumption
    DEF Generation!Enter, Generation!Reply, Generation!Holds, Reviewable
<1>1. Generation!CallsTypeOK' /\ PostsLeft'
  BY GenerationCalling
<1>2. /\ stage \in [Tasks -> Generation!Stages] /\ candidate \in [Tasks -> 0..2]
      /\ suite \in [Tasks -> Generation!Suites] /\ object \in [Tasks -> Generation!Suites]
      /\ row \in [Tasks -> BOOLEAN] /\ reply \in [Tasks -> Generation!Replies]
      /\ ready \subseteq Tasks
  BY DEF GenerationInv, Generation!TypeOK
<1>3. GatedBy(t)
  BY DEF GenerationInv, Gated
<1>4. SUFFICES /\ stage' \in [Tasks -> Generation!Stages] /\ candidate' \in [Tasks -> 0..2]
               /\ suite' \in [Tasks -> Generation!Suites] /\ object' \in [Tasks -> Generation!Suites]
               /\ row' \in [Tasks -> BOOLEAN] /\ reply' \in [Tasks -> Generation!Replies]
               /\ GatedBy(t)'
               /\ \A u \in Tasks \ {t} :
                    /\ stage'[u] = stage[u] /\ candidate'[u] = candidate[u]
                    /\ suite'[u] = suite[u] /\ object'[u] = object[u]
                    /\ row'[u] = row[u] /\ reply'[u] = reply[u]
  BY <1>1, <1>2 DEF GenerationInv, Generation!TypeOK, Gated, GatedBy
<1>5. CASE Generation!Compile(t)
  BY <1>2, <1>3, <1>5
     DEF Generation!Compile, GatedBy, Generation!Stages, Generation!Suites, Generation!Replies
<1>6. CASE Generation!CompileRaises(t)
  BY <1>2, <1>3, <1>6
     DEF Generation!CompileRaises, GatedBy, Generation!Stages, Generation!Suites, Generation!Replies
<1>7. CASE Generation!Metadata(t)
  BY <1>2, <1>3, <1>7
     DEF Generation!Metadata, GatedBy, Generation!Stages, Generation!Suites, Generation!Replies
<1>8. CASE Generation!Artifact(t)
  BY <1>2, <1>3, <1>8
     DEF Generation!Artifact, GatedBy, Generation!Stages, Generation!Suites, Generation!Replies
<1>9. CASE Generation!Call(t)
  BY <1>2, <1>3, <1>9
     DEF Generation!Call, GatedBy, Generation!Stages, Generation!Suites, Generation!Replies
<1>10. CASE Generation!Fail(t)
  BY <1>2, <1>3, <1>10
     DEF Generation!Fail, GatedBy, Generation!Stages, Generation!Suites, Generation!Replies
<1>11. CASE Generation!Embedded(t)
  BY <1>2, <1>3, <1>11
     DEF Generation!Embedded, GatedBy, Generation!Stages, Generation!Suites, Generation!Replies
<1>12. CASE Generation!Search(t)
  BY <1>2, <1>3, <1>12
     DEF Generation!Search, GatedBy, Generation!Stages, Generation!Suites, Generation!Replies
<1>13. CASE Generation!Drafted(t)
  BY <1>2, <1>3, <1>13
     DEF Generation!Drafted, GatedBy, Generation!Stages, Generation!Suites, Generation!Replies
<1>14. CASE Generation!Accept(t)
  BY <1>2, <1>3, <1>14
     DEF Generation!Accept, GatedBy, Generation!Stages, Generation!Suites, Generation!Replies
<1>15. CASE Generation!AskAgain(t)
  BY <1>2, <1>3, <1>15
     DEF Generation!AskAgain, GatedBy, Generation!Stages, Generation!Suites, Generation!Replies
<1>16. CASE Generation!GiveUp(t)
  BY <1>2, <1>3, <1>16
     DEF Generation!GiveUp, GatedBy, Generation!Stages, Generation!Suites, Generation!Replies
<1>17. CASE Generation!Check(t)
  BY <1>2, <1>3, <1>17
     DEF Generation!Check, GatedBy, Generation!Stages, Generation!Suites, Generation!Replies
<1>18. CASE Generation!Store(t)
  BY <1>2, <1>3, <1>18
     DEF Generation!Store, GatedBy, Generation!Stages, Generation!Suites, Generation!Replies
<1>19. CASE Generation!Insert(t)
  BY <1>2, <1>3, <1>19
     DEF Generation!Insert, GatedBy, Generation!Stages, Generation!Suites, Generation!Replies
<1>20. CASE Generation!PersistenceFails(t)
  BY <1>2, <1>3, <1>20
     DEF Generation!PersistenceFails, GatedBy, Generation!Stages, Generation!Suites, Generation!Replies
<1>21. CASE Generation!GivesUp(t)
  BY <1>2, <1>3, <1>21
     DEF Generation!GivesUp, GatedBy, Generation!Stages, Generation!Suites, Generation!Replies
<1> QED
  BY <1>5, <1>6, <1>7, <1>8, <1>9, <1>10, <1>11, <1>12, <1>13, <1>14, <1>15, <1>16, <1>17, <1>18, <1>19, <1>20, <1>21 DEF Generation!Generate

LEMMA GenerationInductive == ReviewedSpec => []GenerationInv
<1>1. GenerationInv /\ [ReviewedNext]_allVars => GenerationInv'
  <2> SUFFICES ASSUME GenerationInv, [ReviewedNext]_allVars PROVE GenerationInv'
    OBVIOUS
  <2>1. ASSUME NEW t \in Tasks, Generates(t) PROVE GenerationInv'
    BY <2>1, GenerationSteps DEF Generates
  <2>2. ASSUME NEW t \in Tasks, Answered(t) PROVE GenerationInv'
    BY <2>2, GeneratorAssumption
       DEF Answered, GenerationInv, Gated, GatedBy, PostsLeft, HasLeft, Generation!TypeOK,
           Generation!CallsTypeOK, Generation!CallStates, Generation!Statuses
  <2>3. CASE UNCHANGED <<ready, generationVars>>
    BY <2>3 DEF generationVars, GenerationInv, Gated, GatedBy, PostsLeft, Generation!TypeOK,
                Generation!CallsTypeOK
  <2> QED
    BY <2>1, <2>2, <2>3 DEF ReviewedNext, Reviews, allVars
<1> QED
  BY <1>1, GenerationInit, PTL DEF ReviewedSpec

\* The generations and their calls keep their types.
THEOREM GenerationTypeCorrect == ReviewedSpec => []Generation!TypeOK
<1>1. GenerationInv => Generation!TypeOK
  BY DEF GenerationInv
<1> QED
  BY <1>1, GenerationInductive, PTL

\* A review that has begun had its generation answered.
Awaited == \A r \in Callers : pc[r] # "asked" \/ answer[r] # None => Task[r] \in ready

LEMMA AwaitedAlways == ReviewedSpec => []Awaited
<1>1. ReviewedInit => Awaited
  BY DEF ReviewedInit, Init, Awaited
<1>2. TypeOK /\ Awaited /\ [ReviewedNext]_allVars => Awaited'
  <2> SUFFICES ASSUME TypeOK, Awaited, [ReviewedNext]_allVars PROVE Awaited'
    OBVIOUS
  <2>1. ASSUME NEW r \in Callers, Reviews(r) PROVE Awaited'
    <3>1. \A q \in Callers \ {r} : pc'[q] = pc[q] /\ answer'[q] = answer[q]
      BY <2>1 DEF Reviews, Review, Ask, Read, ReadFails, Reason, Receive, ReasonFails, Judge,
                  Decide, EvidenceFails, GivesUp, Goto, Answer, TypeOK
    <3> QED
      BY <2>1, <3>1 DEF Reviews, Awaited
  <2>2. CASE UNCHANGED vars /\ ready \subseteq ready'
    BY <2>2 DEF vars, Awaited
  <2> QED
    BY <2>1, <2>2 DEF ReviewedNext, Generates, Answered, allVars
<1> QED
  BY <1>1, <1>2, ReviewsAsSpecified, TypeCorrect, PTL DEF ReviewedSpec

\* What is reviewed is a candidate in which the gate found nothing, or what a contract
\* compiles to.
THEOREM GenerationGated == ReviewedSpec => []OnlyGatedReviewed
<1>1. GenerationInv /\ Awaited => OnlyGatedReviewed
  BY ReviewAssumption DEF GenerationInv, Gated, GatedBy, Reviewable, Awaited, OnlyGatedReviewed
<1> QED
  BY <1>1, GenerationInductive, AwaitedAlways, PTL

\* A step of a generation uses up a candidate, a stage, or a post or pause.
LEMMA GenerationMoves ==
  ASSUME GenerationInv, NEW t \in Tasks, Generation!Generate(t), NEW u \in Tasks
  PROVE  GenerationRests(u) \/ Generation!GenerationForward(u)
<1> USE DEF Generation!Enter, Generation!Reply, Generation!callVars, GenerationRests
<1>1. /\ stage \in [Tasks -> Generation!Stages] /\ candidate \in [Tasks -> 0..2]
      /\ Generation!CallsTypeOK
  BY DEF GenerationInv, Generation!TypeOK
<1>2. CASE u # t
  <2>1. stage'[u] = stage[u] /\ candidate'[u] = candidate[u]
    BY <1>1, <1>2
       DEF Generation!Generate, Generation!Compile, Generation!CompileRaises,
           Generation!Metadata, Generation!Artifact, Generation!Call, Generation!Fail,
           Generation!Embedded, Generation!Search, Generation!Drafted, Generation!Accept,
           Generation!AskAgain, Generation!GiveUp, Generation!Check, Generation!Store,
           Generation!Insert, Generation!PersistenceFails, Generation!GivesUp
  <2> QED
    BY <1>2, <2>1, GenerationCalling
<1>3. CASE u = t /\ Generation!Call(t)
  BY <1>1, <1>3, GenerationCountsDown DEF Generation!Call, Generation!GenerationForward
<1>4. CASE u = t /\ Generation!GivesUp(t)
  BY <1>1, <1>4 DEF Generation!GivesUp
<1>5. CASE u = t /\ (Generation!Search(t) \/ Generation!AskAgain(t))
  BY <1>1, <1>5 DEF Generation!Search, Generation!AskAgain, Generation!GenerationForward,
                    GenerationInv, Gated, GatedBy
<1>6. CASE u = t /\ Generation!Compile(t)
  BY <1>1, <1>6 DEF Generation!Compile, Generation!GenerationForward, Generation!StageRank
<1>7. CASE u = t /\ Generation!CompileRaises(t)
  BY <1>1, <1>7 DEF Generation!CompileRaises, Generation!GenerationForward, Generation!StageRank
<1>8. CASE u = t /\ Generation!Metadata(t)
  BY <1>1, <1>8 DEF Generation!Metadata, Generation!GenerationForward, Generation!StageRank
<1>9. CASE u = t /\ Generation!Artifact(t)
  BY <1>1, <1>9 DEF Generation!Artifact, Generation!GenerationForward, Generation!StageRank
<1>10. CASE u = t /\ Generation!Fail(t)
  BY <1>1, <1>10 DEF Generation!Fail, Generation!GenerationForward, Generation!StageRank
<1>11. CASE u = t /\ Generation!Embedded(t)
  BY <1>1, <1>11 DEF Generation!Embedded, Generation!GenerationForward, Generation!StageRank
<1>12. CASE u = t /\ Generation!Drafted(t)
  BY <1>1, <1>12 DEF Generation!Drafted, Generation!GenerationForward, Generation!StageRank
<1>13. CASE u = t /\ Generation!Accept(t)
  BY <1>1, <1>13 DEF Generation!Accept, Generation!GenerationForward, Generation!StageRank
<1>14. CASE u = t /\ Generation!GiveUp(t)
  BY <1>1, <1>14 DEF Generation!GiveUp, Generation!GenerationForward, Generation!StageRank
<1>15. CASE u = t /\ Generation!Check(t)
  BY <1>1, <1>15 DEF Generation!Check, Generation!GenerationForward, Generation!StageRank
<1>16. CASE u = t /\ Generation!Store(t)
  BY <1>1, <1>16 DEF Generation!Store, Generation!GenerationForward, Generation!StageRank
<1>17. CASE u = t /\ Generation!Insert(t)
  BY <1>1, <1>17 DEF Generation!Insert, Generation!GenerationForward, Generation!StageRank
<1>18. CASE u = t /\ Generation!PersistenceFails(t)
  BY <1>1, <1>18 DEF Generation!PersistenceFails, Generation!GenerationForward, Generation!StageRank
<1> QED
  BY <1>2, <1>3, <1>4, <1>5, <1>6, <1>7, <1>8, <1>9, <1>10, <1>11, <1>12, <1>13, <1>14, <1>15, <1>16, <1>17, <1>18 DEF Generation!Generate

\* Work runs out.
THEOREM RunsOut == ReviewedSpec => WorkRunsOut
<1> DEFINE Moves ==
      /\ \A t \in Tasks \ ready' : GenerationRests(t) \/ Generation!GenerationForward(t)
      /\ \A r \in Callers : ReviewRests(r) \/ ReviewForward(r)
<1>1. IInv /\ GenerationInv /\ [ReviewedNext]_allVars => Moves
  <2> SUFFICES ASSUME IInv, GenerationInv, [ReviewedNext]_allVars PROVE Moves
    OBVIOUS
  <2>1. ASSUME NEW t \in Tasks, Generates(t) PROVE Moves
    BY <2>1, GenerationMoves DEF Generates, vars, callVars, ReviewRests
  <2>2. ASSUME NEW t \in Tasks, Answered(t) PROVE Moves
    BY <2>2 DEF Answered, vars, callVars, ReviewRests, GenerationRests, GenerationInv,
                Generation!TypeOK, Generation!CallsTypeOK
  <2>3. ASSUME NEW r \in Callers, Reviews(r) PROVE Moves
    BY <2>3, ReviewMoves DEF Reviews, generationVars, GenerationRests
  <2>4. CASE UNCHANGED allVars
    BY <2>4 DEF allVars, vars, callVars, generationVars, ReviewRests, GenerationRests
  <2> QED
    BY <2>1, <2>2, <2>3, <2>4 DEF ReviewedNext
<1>2. ReviewedSpec => []IInv
  BY ReviewsAsSpecified, Inductive, PTL
<1> QED
  BY <1>1, <1>2, GenerationInductive, PTL DEF ReviewedSpec, WorkRunsOut

=============================================================================
