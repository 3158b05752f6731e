---------------------------- MODULE OracleReview ----------------------------
(***************************************************************************)
(* review_generated_test of agents/quality_oracle/app.py: reviews that run *)
(* at the same time, the model calls they make (ModelCalls), the evidence  *)
(* they write, and what the activities that wait for them get.             *)
(*                                                                         *)
(* Several reviews may be of one task: runs that share a suite review it   *)
(* independently (SuitePipeline).                                          *)
(*                                                                         *)
(* What a model answers is abstracted to what parse_review and             *)
(* review_content tell apart.  The environment of the agents (which        *)
(* provider, endpoint and model each has) is any of Environments.  The     *)
(* activity that waits for a review may give up at any time; the agent     *)
(* goes on, and is not told.                                               *)
(***************************************************************************)
EXTENDS ModelCalls

CONSTANTS
  Tasks,
  Task,           \* [Callers -> Tasks]: the task of a review
  HighImpact,     \* reviews of which is_high_impact holds
  Environments,   \* a set of records: see Environment
  Texts,          \* a set of records: see Text
  None,
  Nothing         \* no content

\* What os.getenv gives the two agents; None is unset or empty.
Environment(Name) ==
  [generatorProvider : {"GEMINI", "SELF_HOSTED"}, generatorEndpoint : Name, generatorModel : Name,
   geminiModel : Name,
   provider : {"GEMINI", "SELF_HOSTED", None}, endpoint : Name, model : Name,
   requireIndependent : BOOLEAN]

\* A text that a model wrote.  One that is no JSON object is None.
Text ==
  [decision : {"APPROVED", "REJECTED", "OTHER"}, typed : BOOLEAN, summary : BOOLEAN,
   issues : BOOLEAN, gaps : BOOLEAN, citations : BOOLEAN]

Contents == Texts \cup {None, Nothing}

ASSUME ReviewAssumption ==
  /\ Task \in [Callers -> Tasks]
  /\ HighImpact \subseteq Callers
  /\ Texts \subseteq Text
  /\ \A e \in Environments : e \in Environment({e.generatorEndpoint, e.generatorModel,
       e.geminiModel, e.endpoint, e.model})
  /\ None \notin Texts /\ Nothing \notin Texts
  /\ None \notin {"APPROVED", "REJECTED", "DECLINED", "FAILED"}

VARIABLES
  environment,   \* of the two agents
  pc,            \* [Callers -> Places]
  content,       \* [Callers -> Contents]: the final content of the response
  reasoning,     \* [Callers -> Contents]: its reasoning_content
  evidence,      \* [Tasks -> {"APPROVED", "REJECTED", None}]: review.json of a task
  answer         \* [Callers -> Answers]: what the activity got

vars == <<callVars, environment, pc, content, reasoning, evidence, answer>>

Places == {"asked", "reading", "reasoning", "judging", "approving", "rejecting", "done"}

\* A rejection by policy names no evidence.
Answers == {None, "APPROVED", "REJECTED", "DECLINED", "FAILED"}

Init ==
  /\ CallInit
  /\ environment \in Environments
  /\ pc = [r \in Callers |-> "asked"]
  /\ content = [r \in Callers |-> Nothing]
  /\ reasoning = [r \in Callers |-> Nothing]
  /\ evidence = [t \in Tasks |-> None]
  /\ answer = [r \in Callers |-> None]

Goto(r, place) == pc' = [pc EXCEPT ![r] = place]

\* An activity that gave up has failed, whatever the agent answers.
Answer(r, a) == answer' = [answer EXCEPT ![r] = IF @ = None THEN a ELSE @]

-----------------------------------------------------------------------------
(* Configuration *)

Or(x, y) == IF x = None THEN y ELSE x

\* PROVIDER, ENDPOINT, MODEL.
Provider == Or(environment.provider, environment.generatorProvider)

Endpoint == Or(environment.endpoint, environment.generatorEndpoint)

Model == Or(environment.model, environment.generatorModel)

IndependentlyConfigured ==
  /\ \E x \in {environment.provider, environment.endpoint, environment.model} : x # None
  /\ <<Provider, Endpoint, Model>> #
       <<environment.generatorProvider, environment.generatorEndpoint, environment.generatorModel>>

\* The models that are asked, by the generation agent and by the Oracle.
GeneratorModel ==
  IF environment.generatorProvider = "GEMINI"
  THEN <<"GEMINI", environment.geminiModel>>
  ELSE <<environment.generatorEndpoint, environment.generatorModel>>

OracleModel ==
  IF Provider = "GEMINI" THEN <<"GEMINI", Or(Model, "gemini-2.5-pro")>> ELSE <<Endpoint, Model>>

-----------------------------------------------------------------------------
(* What a response says *)

\* Mutant: the gaps of an approval are not looked at.
BugForgivesGaps(text) ==
  /\ text \notin {None, Nothing}
  /\ text.decision # "OTHER" /\ text.typed /\ text.summary
  /\ text.decision = "APPROVED" => ~text.issues /\ text.citations

\* parse_review returns, and does not raise.
Parses(text) ==
  /\ text \notin {None, Nothing}
  /\ text.decision # "OTHER" /\ text.typed /\ text.summary
  /\ text.decision = "APPROVED" => ~text.issues /\ ~text.gaps /\ text.citations

\* review_content: the final content, or else reasoning that is a review by itself.
\* A Gemini response has no reasoning, and without text it raises.
ReviewText(r) ==
  IF content[r] = Nothing /\ Parses(reasoning[r]) THEN reasoning[r] ELSE content[r]

-----------------------------------------------------------------------------
(* One review *)

\* A high-impact review needs an independent model.
Ask(r) ==
  /\ pc[r] = "asked"
  /\ IF r \in HighImpact /\ environment.requireIndependent /\ ~IndependentlyConfigured
     THEN Answer(r, "DECLINED") /\ Goto(r, "done")
     ELSE Goto(r, "reading") /\ UNCHANGED answer
  /\ UNCHANGED <<callVars, environment, content, reasoning, evidence>>

\* The source is read; without an endpoint, or a source in bounds, the review fails.
Read(r) ==
  /\ pc[r] = "reading"
  /\ Provider = "SELF_HOSTED" => Endpoint # None
  /\ StartCall(r)
  /\ Goto(r, "reasoning")
  /\ UNCHANGED <<environment, content, reasoning, evidence, answer>>

ReadFails(r) ==
  /\ pc[r] = "reading"
  /\ Answer(r, "FAILED")
  /\ Goto(r, "done")
  /\ UNCHANGED <<callVars, environment, content, reasoning, evidence>>

\* _post_with_retries.
Reason(r) ==
  /\ pc[r] = "reasoning"
  /\ CallStep(r)
  /\ UNCHANGED <<environment, pc, content, reasoning, evidence, answer>>

Receive(r) ==
  /\ pc[r] = "reasoning"
  /\ call[r] = "answered" /\ status[r] = "ok"
  /\ \E c \in Contents : content' = [content EXCEPT ![r] = c]
  /\ \E c \in IF Provider = "GEMINI" THEN {Nothing} ELSE Contents :
       reasoning' = [reasoning EXCEPT ![r] = c]
  /\ Goto(r, "judging")
  /\ UNCHANGED <<callVars, environment, evidence, answer>>

\* raise_for_status, or a call that raised: 502, "failed closed".
ReasonFails(r) ==
  /\ pc[r] = "reasoning"
  /\ call[r] = "raised" \/ (call[r] = "answered" /\ status[r] # "ok")
  /\ Answer(r, "FAILED")
  /\ Goto(r, "done")
  /\ UNCHANGED <<callVars, environment, content, reasoning, evidence>>

\* parse_review, or the exception that it or review_content raises.
Judge(r) ==
  /\ pc[r] = "judging"
  /\ LET text == ReviewText(r) IN
       IF Parses(text)
       THEN Goto(r, IF text.decision = "APPROVED" THEN "approving" ELSE "rejecting")
            /\ UNCHANGED answer
       ELSE Goto(r, "done") /\ Answer(r, "FAILED")
  /\ UNCHANGED <<callVars, environment, content, reasoning, evidence>>

Decision(r) == IF pc[r] = "approving" THEN "APPROVED" ELSE "REJECTED"

\* The evidence is written, and the decision answered.
Decide(r) ==
  /\ pc[r] \in {"approving", "rejecting"}
  /\ evidence' = [evidence EXCEPT ![Task[r]] = Decision(r)]
  /\ Answer(r, Decision(r))
  /\ Goto(r, "done")
  /\ UNCHANGED <<callVars, environment, content, reasoning>>

\* The store fails: no evidence, and no decision.
EvidenceFails(r) ==
  /\ pc[r] \in {"approving", "rejecting"}
  /\ Answer(r, "FAILED")
  /\ Goto(r, "done")
  /\ UNCHANGED <<callVars, environment, content, reasoning, evidence>>

\* The start_to_close_timeout of the activity, and the end of its own post.
GivesUp(r) ==
  /\ pc[r] # "done" /\ answer[r] = None
  /\ answer' = [answer EXCEPT ![r] = "FAILED"]
  /\ UNCHANGED <<callVars, environment, pc, content, reasoning, evidence>>

Review(r) ==
  \/ Ask(r) \/ Read(r) \/ ReadFails(r) \/ Reason(r) \/ Receive(r) \/ ReasonFails(r)
  \/ Judge(r) \/ Decide(r) \/ EvidenceFails(r) \/ GivesUp(r)

Next == \E r \in Callers : Review(r)

Spec == Init /\ [][Next]_vars

-----------------------------------------------------------------------------
(* Correctness *)

\* Type correctness of the reviews, and of their calls.
TypeOK ==
  /\ CallsTypeOK
  /\ environment \in Environments
  /\ pc \in [Callers -> Places]
  /\ content \in [Callers -> Contents]
  /\ reasoning \in [Callers -> Contents]
  /\ evidence \in [Tasks -> {"APPROVED", "REJECTED", None}]
  /\ answer \in [Callers -> Answers]

\* An approval without reservations that cites evidence.
Unreserved(text) ==
  /\ text \in Texts
  /\ text.decision = "APPROVED" /\ text.typed /\ text.citations
  /\ ~text.issues /\ ~text.gaps

PlaceRank ==
  [asked |-> 5, reading |-> 4, reasoning |-> 3, judging |-> 2, approving |-> 1, rejecting |-> 1,
   done |-> 0]

\* A step of a review uses up a place, or a post or pause of its call.
ReviewForward(r) ==
  \/ PlaceRank[pc'[r]] < PlaceRank[pc[r]]
  \/ pc'[r] = pc[r] /\ CallForward(r)

(***************************************************************************)
(* The Oracle fails closed (README.md:430-432, agents/quality_oracle       *)
(* README): an activity that has not given up is told APPROVED only on a   *)
(* response that was no error and in which a model approved without        *)
(* reservations; what it wrote as final content, if anything, is that      *)
(* approval; and evidence was stored.                                      *)
(***************************************************************************)
FailsClosed ==
  \A r \in Callers :
    answer[r] = "APPROVED" =>
      /\ status[r] = "ok"
      /\ \/ Unreserved(content[r])
         \/ content[r] = Nothing /\ Unreserved(reasoning[r])
      /\ evidence[Task[r]] # None

-----------------------------------------------------------------------------
(* What documents of the repository say, and the code does not do. *)

(***************************************************************************)
(* "Generation and oracle review cannot use the same effective model for   *)
(* high-impact tests" (quality_oracle/app.py:206).                         *)
(***************************************************************************)
IndependentModel ==
  \A r \in HighImpact :
    pc[r] = "reasoning" /\ environment.requireIndependent => OracleModel # GeneratorModel

(***************************************************************************)
(* "It returns structured APPROVED or REJECTED evidence" (README.md:430):  *)
(* the evidence_path of an answer names evidence of that decision.         *)
(***************************************************************************)
EvidenceAsAnswered ==
  \A r \in Callers : answer[r] \in {"APPROVED", "REJECTED"} => evidence[Task[r]] = answer[r]

=============================================================================
