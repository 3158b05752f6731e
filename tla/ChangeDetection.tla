-------------------------- MODULE ChangeDetection --------------------------
(***************************************************************************)
(* The change detection agent (agents/change_detection/app.py):            *)
(* detect_and_update() captures the page, has a test generated and         *)
(* executed, and publishes the outcome in three independent steps: a       *)
(* result event, a commit task, and a cached answer.                       *)
(*                                                                         *)
(* Every request is about the same page and specifications, which come     *)
(* from the environment: there is one cache key.  What matters of the      *)
(* page is how often it changed; a test stands for the version of the page *)
(* that it was generated from.                                             *)
(***************************************************************************)
EXTENDS Naturals, Sequences

CONSTANTS
  Requests,      \* detections and dry runs that are asked for
  Dry,           \* the requests to /v1/candidate-smoke
  MaxVersion,    \* bound on the changes of the page
  None

VARIABLES
  page,      \* version of the target page
  cache,     \* Redis, final_result:<key>: a result, or None
  events,    \* topic qe.event.test_result: sequence of [page, passed]
  tasks,     \* topic qe.task.commit: sequence of the versions tested
  pc,        \* [Requests -> Places]
  asked,     \* [Requests -> Versions]: the page when the request arrived
  seen,      \* [Requests -> Versions]: the page that was captured
  passed,    \* [Requests -> BOOLEAN]: test_passed
  result     \* [Requests -> Results \cup {None}]: the answer, or final_result so far

topics == <<events, tasks>>
locals == <<asked, seen, passed, result>>
vars == <<page, cache, events, tasks, pc, asked, seen, passed, result>>

Versions == 0..MaxVersion

\* pending: SUCCESS_PENDING_COMMIT; unpublished: SUCCESS_BUT_COMMIT_FAILED.
Results == [status : {"FAILURE", "SUCCESS", "pending", "unpublished"}, page : Versions]

ASSUME ConstantsAssumption ==
  /\ Dry \subseteq Requests
  /\ MaxVersion \in Nat
  /\ None \notin Results

Steps == {"connecting", "lookup", "capturing", "generating", "executing",
          "reporting", "publishing", "caching"}

Places == Steps \cup {"idle", "answered", "lost"}

Init ==
  /\ page = 0
  /\ cache = None
  /\ events = <<>>
  /\ tasks = <<>>
  /\ pc = [r \in Requests |-> "idle"]
  /\ asked = [r \in Requests |-> 0]
  /\ seen = [r \in Requests |-> 0]
  /\ passed = [r \in Requests |-> FALSE]
  /\ result = [r \in Requests |-> None]

Goto(r, place) == pc' = [pc EXCEPT ![r] = place]

Answer(r, status, version) ==
  /\ Goto(r, "answered")
  /\ result' = [result EXCEPT ![r] = [status |-> status, page |-> version]]

-----------------------------------------------------------------------------
\* Mutant: a dry run may be answered from the cache.
BugSharesCache(r) ==
  /\ pc[r] = "idle"
  /\ asked' = [asked EXCEPT ![r] = page]
  /\ Goto(r, "connecting")
  /\ UNCHANGED <<page, cache, topics, seen, passed, result>>

\* A dry run needs neither Kafka nor Redis.
Ask(r) ==
  /\ pc[r] = "idle"
  /\ asked' = [asked EXCEPT ![r] = page]
  /\ Goto(r, IF r \in Dry THEN "capturing" ELSE "connecting")
  /\ UNCHANGED <<page, cache, topics, seen, passed, result>>

\* candidate_smoke_endpoint: not a candidate's id.
Refuse(r) ==
  /\ pc[r] = "idle"
  /\ r \in Dry
  /\ Answer(r, "FAILURE", page)
  /\ UNCHANGED <<page, cache, topics, asked, seen, passed>>

Connect(r) ==
  /\ pc[r] = "connecting"
  /\ Goto(r, "lookup")
  /\ UNCHANGED <<page, cache, topics, locals>>

\* _ensure_clients_ready: the producer does not start.
ConnectFails(r) ==
  /\ pc[r] = "connecting"
  /\ Answer(r, "FAILURE", page)
  /\ UNCHANGED <<page, cache, topics, asked, seen, passed>>

CacheHit(r) ==
  /\ pc[r] = "lookup"
  /\ cache # None
  /\ Goto(r, "answered")
  /\ result' = [result EXCEPT ![r] = cache]
  /\ UNCHANGED <<page, cache, topics, asked, seen, passed>>

\* No result, or Redis does not answer.
CacheMiss(r) ==
  /\ pc[r] = "lookup"
  /\ Goto(r, "capturing")
  /\ UNCHANGED <<page, cache, topics, locals>>

Capture(r) ==
  /\ pc[r] = "capturing"
  /\ seen' = [seen EXCEPT ![r] = page]
  /\ Goto(r, "generating")
  /\ UNCHANGED <<page, cache, topics, asked, passed, result>>

Generate(r) ==
  /\ pc[r] = "generating"
  /\ Goto(r, "executing")
  /\ UNCHANGED <<page, cache, topics, locals>>

\* The capture or the generation agent fails: neither reported nor cached.
CallFails(r) ==
  /\ pc[r] \in {"capturing", "generating"}
  /\ Answer(r, "FAILURE", page)
  /\ UNCHANGED <<page, cache, topics, asked, seen, passed>>

\* Mutant: a dry run goes on to report.
BugReportsDryRun(r) ==
  /\ pc[r] = "executing"
  /\ \E verdict \in BOOLEAN : passed' = [passed EXCEPT ![r] = verdict]
  /\ Goto(r, "reporting")
  /\ UNCHANGED <<page, cache, topics, asked, seen, result>>

\* The verdict of the execution agent; a call that fails counts as a failed test.
Execute(r) ==
  /\ pc[r] = "executing"
  /\ \E verdict \in BOOLEAN :
       /\ passed' = [passed EXCEPT ![r] = verdict]
       /\ IF r \in Dry
          THEN Answer(r, IF verdict THEN "SUCCESS" ELSE "FAILURE", seen[r])
          ELSE Goto(r, "reporting") /\ UNCHANGED result
  /\ UNCHANGED <<page, cache, topics, asked, seen>>

-----------------------------------------------------------------------------
\* A sender may see an error although the broker has the message.
Sent(topic, message, acknowledged) ==
  \/ topic' = Append(topic, message)
  \/ ~acknowledged /\ UNCHANGED topic

\* Mutant: the commit task is sent whatever the verdict.
BugCommitsFailures(r) ==
  /\ pc[r] = "reporting"
  /\ \E acknowledged \in BOOLEAN :
       Sent(events, [page |-> seen[r], passed |-> passed[r]], acknowledged)
  /\ Goto(r, "publishing")
  /\ UNCHANGED <<page, cache, tasks, asked, seen, passed, result>>

\* An error while sending the event is logged, and no more.
Report(r) ==
  /\ pc[r] = "reporting"
  /\ \E acknowledged \in BOOLEAN :
       Sent(events, [page |-> seen[r], passed |-> passed[r]], acknowledged)
  /\ IF passed[r]
     THEN Goto(r, "publishing") /\ UNCHANGED result
     ELSE /\ Goto(r, "caching")
          /\ result' = [result EXCEPT ![r] = [status |-> "FAILURE", page |-> seen[r]]]
  /\ UNCHANGED <<page, cache, tasks, asked, seen, passed>>

\* Mutant: the answer does not look at what became of the commit task.
BugPromisesCommit(r) ==
  /\ pc[r] = "publishing"
  /\ \E acknowledged \in BOOLEAN : Sent(tasks, seen[r], acknowledged)
  /\ result' = [result EXCEPT ![r] = [status |-> "pending", page |-> seen[r]]]
  /\ Goto(r, "caching")
  /\ UNCHANGED <<page, cache, events, asked, seen, passed>>

Publish(r) ==
  /\ pc[r] = "publishing"
  /\ \E acknowledged \in BOOLEAN :
       /\ Sent(tasks, seen[r], acknowledged)
       /\ result' = [result EXCEPT ![r] =
            [status |-> IF acknowledged THEN "pending" ELSE "unpublished", page |-> seen[r]]]
  /\ Goto(r, "caching")
  /\ UNCHANGED <<page, cache, events, asked, seen, passed>>

\* The answer is cached, whatever it is, unless Redis fails.
Cache(r) ==
  /\ pc[r] = "caching"
  /\ cache' \in {cache, result[r]}
  /\ Goto(r, "answered")
  /\ UNCHANGED <<page, topics, locals>>

-----------------------------------------------------------------------------
\* The cached answer has an hour to live.
Expire ==
  /\ cache # None
  /\ cache' = None
  /\ UNCHANGED <<page, topics, pc, locals>>

PageChanges ==
  /\ page < MaxVersion
  /\ page' = page + 1
  /\ UNCHANGED <<cache, topics, pc, locals>>

\* The process stops, with all its requests.
Crash ==
  /\ \E r \in Requests : pc[r] \in Steps
  /\ pc' = [r \in Requests |-> IF pc[r] \in Steps THEN "lost" ELSE pc[r]]
  /\ UNCHANGED <<page, cache, topics, locals>>

Step(r) ==
  \/ Connect(r) \/ ConnectFails(r) \/ CacheHit(r) \/ CacheMiss(r)
  \/ Capture(r) \/ Generate(r) \/ CallFails(r) \/ Execute(r)
  \/ Report(r) \/ Publish(r) \/ Cache(r)

Next ==
  \/ \E r \in Requests : Ask(r) \/ Refuse(r) \/ Step(r)
  \/ Expire \/ PageChanges \/ Crash

Spec == Init /\ [][Next]_vars

-----------------------------------------------------------------------------
(* Correctness *)

\* Type correctness of the topics, the cache and the requests.
TypeOK ==
  /\ page \in Versions
  /\ cache \in Results \cup {None}
  /\ events \in Seq([page : Versions, passed : BOOLEAN])
  /\ tasks \in Seq(Versions)
  /\ pc \in [Requests -> Places]
  /\ asked \in [Requests -> Versions]
  /\ seen \in [Requests -> Versions]
  /\ passed \in [Requests -> BOOLEAN]
  /\ result \in [Requests -> Results \cup {None}]

Published(version) == \E i \in 1..Len(tasks) : tasks[i] = version

Promises(answer) == answer # None /\ answer.status = "pending"

(***************************************************************************)
(* "Pending commit", in an answer or in the cache that answers others for  *)
(* an hour, means that the broker has the task (app.py:226-244): whichever *)
(* of the effects failed, and whatever ran at the same time.               *)
(***************************************************************************)
PromisesKept ==
  /\ \A r \in Requests : Promises(result[r]) => Published(result[r].page)
  /\ Promises(cache) => Published(cache.page)

(***************************************************************************)
(* A dry run does not write the cache and sends nothing, however it ends   *)
(* (app.py:135, 185-195; the card's side_effect_isolation).                *)
(***************************************************************************)
DryRunsLeaveNoTrace ==
  [][\A r \in Dry : pc'[r] # pc[r] /\ pc'[r] # "lost" => UNCHANGED <<cache, events, tasks>>]_vars

(***************************************************************************)
(* An answer is about the page as the request found it, or as it was later *)
(* on, or else it is the answer that another detection gave to itself and  *)
(* to the cache; a dry run is never answered by another request.  Unless   *)
(* it says FAILURE, whoever gave it executed a test of that page, and the  *)
(* test passed (app.py:135-160, 217-253).                                  *)
(***************************************************************************)
AnswersFounded ==
  \A r \in Requests : pc[r] = "answered" =>
    \E s \in Requests :
      /\ s = r \/ ({r, s} \cap Dry = {} /\ result[s] = result[r])
      /\ asked[s] <= result[r].page
      /\ result[r].status # "FAILURE" => passed[s] /\ seen[s] = result[r].page

-----------------------------------------------------------------------------
(* What documents of the repository say, and the code does not do. *)

(***************************************************************************)
(* "Consumes change signals, captures the appropriate target context"      *)
(* (agents/change_detection/README.md:3): an answer is about the page as   *)
(* it was when the request arrived, or later.  The cache answers for an    *)
(* hour from what an earlier request saw.                                  *)
(***************************************************************************)
AnswersAreFresh ==
  \A r \in Requests : pc[r] = "answered" => asked[r] <= result[r].page

=============================================================================
