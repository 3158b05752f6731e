--------------------------- MODULE FleetCampaign ---------------------------
(***************************************************************************)
(* Fleet campaigns: POST /v1/qe-runs/batch (temporal_worker/api.py) and    *)
(* FleetQualityEngineeringWorkflow.run (temporal_worker/workflow.py).      *)
(*                                                                         *)
(* A campaign is a Temporal workflow that runs one QEWorkflow per agent as *)
(* a child, in chunks.  Of a child, this module keeps whether it runs and  *)
(* how it ended: QEWorkflow shows that it ends (EveryRunSettles there).    *)
(*                                                                         *)
(* The API finds active campaigns in Temporal's visibility store, which    *)
(* the service updates after the fact (indexed).  Each step of a request   *)
(* is its code between two awaits, hence one call of the Temporal service. *)
(*                                                                         *)
(* run() advances in workflow tasks.  A request to cancel is in none that  *)
(* a worker already has; the next one raises it in run(), which awaits     *)
(* asyncio.gather: gather cancels its children, and raises when all are    *)
(* done, although execute() turns the error of each into an outcome.       *)
(***************************************************************************)
EXTENDS Naturals, FiniteSets

CONSTANTS
  Requests,         \* POSTs of a batch
  Ids,              \* workflow ids, chosen by the caller or by the API
  Prefixed,         \* those that start with qe-fleet-
  Agents,           \* number of runs in a batch, at most 50
  MaxConcurrency    \* clamped by the API and the workflow to 1..5

ASSUME ConstantsAssumption ==
  /\ Prefixed \subseteq Ids
  /\ Agents \in 1..50
  /\ MaxConcurrency \in 1..5

VARIABLES
  (* The Temporal service. *)
  status,      \* [Ids -> Statuses]: of the latest run of that workflow id
  canceling,   \* [Ids -> BOOLEAN]: its cancellation was requested
  indexed,     \* [Ids -> Statuses]: what the visibility store says of it
  (* FleetQualityEngineeringWorkflow.run. *)
  started,     \* [Ids -> 0..Agents]: children in the chunks started so far
  child,       \* [Ids -> [1..Agents -> ChildStates]]
  resumed,     \* [Ids -> BOOLEAN]: a worker has a task in which gather returned
  caught,      \* [Ids -> BOOLEAN]: the cancellation was raised in run()
  allowed,     \* history: how far a campaign was, or had to be, when it was asked to stop
  (* start_batch. *)
  req,         \* [Requests -> CampaignRequest]
  pc,          \* [Requests -> Places]
  doomed       \* [Requests -> SUBSET Ids]: active_workflows not cancelled yet

temporal == <<status, canceling, indexed>>
campaign == <<started, child, resumed, caught>>
campaignVars == <<temporal, campaign, allowed, req, pc, doomed>>

Statuses == {"absent", "running", "completed", "canceled"}

\* reporting: it raised, and its failure is being sent to the live graph.
ChildStates == {"waiting", "running", "reporting", "passed", "failed"}

\* countable: int() accepts the max_concurrency that was sent.
CampaignRequest == [id : Ids, replace : BOOLEAN, countable : BOOLEAN]

Places == {"sent", "canceling", "starting", "accepted", "rejected", "failed"}

Limits == [started : 0..Agents, complete : BOOLEAN]

Idle == [i \in 1..Agents |-> "waiting"]

CampaignInit ==
  /\ status = [c \in Ids |-> "absent"]
  /\ canceling = [c \in Ids |-> FALSE]
  /\ indexed = [c \in Ids |-> "absent"]
  /\ started = [c \in Ids |-> 0]
  /\ child = [c \in Ids |-> Idle]
  /\ resumed = [c \in Ids |-> FALSE]
  /\ caught = [c \in Ids |-> FALSE]
  /\ allowed = [c \in Ids |-> [started |-> Agents, complete |-> TRUE]]
  /\ req \in [Requests -> CampaignRequest]
  /\ pc = [r \in Requests |-> "sent"]
  /\ doomed = [r \in Requests |-> {}]

\* The children of c that have not returned.
Open(c) == {i \in 1..Agents : child[c][i] \in {"running", "reporting"}}

\* Mutant: the chunk is the rest of the batch.
BugOneChunk(c) == Agents

\* Mutant: the end of the last chunk is not clipped to the batch.
BugUnclipped(c) == started[c] + MaxConcurrency

\* Where the next chunk of c ends.
ChunkEnd(c) ==
  IF started[c] + MaxConcurrency < Agents THEN started[c] + MaxConcurrency ELSE Agents

-----------------------------------------------------------------------------
(* start_batch *)

\* active_fleet_workflow_ids
Active == {c \in Prefixed : indexed[c] = "running"}

Goto(r, place) == pc' = [pc EXCEPT ![r] = place]

\* 409, unless the request replaces what is active.
List(r) ==
  /\ pc[r] = "sent"
  /\ \/ Active # {} /\ ~req[r].replace /\ Goto(r, "rejected") /\ UNCHANGED doomed
     \/ Active = {} /\ Goto(r, "starting") /\ UNCHANGED doomed
     \/ /\ Active # {}
        /\ req[r].replace
        /\ Goto(r, "canceling")
        /\ doomed' = [doomed EXCEPT ![r] = Active]
  /\ UNCHANGED <<temporal, campaign, allowed, req>>

\* What a campaign may still reach: while a child is open nothing, and else a chunk.
Limit(c) ==
  IF Open(c) # {} THEN [started |-> started[c], complete |-> FALSE]
  ELSE [started |-> ChunkEnd(c), complete |-> started[c] = Agents]

\* cancel() requests cancellation and does not wait for it ...
CancelActive(r, c) ==
  /\ pc[r] = "canceling"
  /\ c \in doomed[r]
  /\ status[c] = "running"
  /\ canceling' = [canceling EXCEPT ![c] = TRUE]
  /\ allowed' = [allowed EXCEPT ![c] = IF canceling[c] THEN @ ELSE Limit(c)]
  /\ doomed' = [doomed EXCEPT ![r] = @ \ {c}]
  /\ Goto(r, IF doomed[r] = {c} THEN "starting" ELSE "canceling")
  /\ UNCHANGED <<status, indexed, campaign, req>>

\* ... and raises for a campaign that closed since it was listed.
CancelTooLate(r) ==
  /\ pc[r] = "canceling"
  /\ \E c \in doomed[r] : status[c] # "running"
  /\ Goto(r, "failed")
  /\ UNCHANGED <<temporal, campaign, allowed, req, doomed>>

\* Temporal starts no second run of an id that is running.
Start(r) ==
  LET c == req[r].id IN
  /\ pc[r] = "starting"
  /\ req[r].countable
  /\ status[c] # "running"
  /\ status' = [status EXCEPT ![c] = "running"]
  /\ canceling' = [canceling EXCEPT ![c] = FALSE]
  /\ started' = [started EXCEPT ![c] = 0]
  /\ child' = [child EXCEPT ![c] = Idle]
  /\ resumed' = [resumed EXCEPT ![c] = FALSE]
  /\ caught' = [caught EXCEPT ![c] = FALSE]
  /\ allowed' = [allowed EXCEPT ![c] = [started |-> Agents, complete |-> TRUE]]
  /\ \E answered \in BOOLEAN : Goto(r, IF answered THEN "accepted" ELSE "failed")
  /\ UNCHANGED <<indexed, req, doomed>>

\* A call raises: no service, an id that is running, a max_concurrency not a number.
RequestFails(r) ==
  /\ pc[r] \in {"sent", "canceling", "starting"}
  /\ Goto(r, "failed")
  /\ UNCHANGED <<temporal, campaign, allowed, req, doomed>>

\* The visibility store catches up with campaign c.
Index(c) ==
  /\ indexed[c] # status[c]
  /\ indexed' = [indexed EXCEPT ![c] = status[c]]
  /\ UNCHANGED <<status, canceling, campaign, allowed, req, pc, doomed>>

-----------------------------------------------------------------------------
(* FleetQualityEngineeringWorkflow.run *)

\* Mutant: the loop goes on as soon as one child of the chunk is done.
BugFirstCompleted(c) ==
  started[c] = 0 \/ \E i \in 1..started[c] : child[c][i] \in {"passed", "failed"}

\* asyncio.gather returned: every child of the chunks started so far is done.
Gathered(c) == \A i \in 1..started[c] : child[c][i] \in {"passed", "failed"}

\* Mutant: cancelled children are outcomes like others, and the loop goes on.
BugSwallowsCancellation(c) ==
  /\ status[c] = "running"
  /\ ~resumed[c]
  /\ Gathered(c)
  /\ resumed' = [resumed EXCEPT ![c] = TRUE]
  /\ UNCHANGED <<temporal, started, child, caught, allowed, req, pc, doomed>>

\* A worker gets the task that ends a chunk, or the first one, before any request to stop.
GatherReturns(c) ==
  /\ status[c] = "running"
  /\ ~canceling[c]
  /\ ~resumed[c]
  /\ Gathered(c)
  /\ resumed' = [resumed EXCEPT ![c] = TRUE]
  /\ UNCHANGED <<temporal, started, child, caught, allowed, req, pc, doomed>>

\* It answers the task with the next chunk, asked to stop in the meantime or not.
NextChunk(c) ==
  /\ status[c] = "running"
  /\ resumed[c]
  /\ started[c] < Agents
  /\ child' = [child EXCEPT ![c] =
       [i \in 1..Agents |-> IF i \in started[c] + 1..ChunkEnd(c) THEN "running" ELSE @[i]]]
  /\ started' = [started EXCEPT ![c] = ChunkEnd(c)]
  /\ resumed' = [resumed EXCEPT ![c] = FALSE]
  /\ UNCHANGED <<temporal, caught, allowed, req, pc, doomed>>

\* The next task raises the cancellation in run(), and in its children.
RaiseCancellation(c) ==
  /\ status[c] = "running"
  /\ canceling[c]
  /\ ~resumed[c]
  /\ ~caught[c]
  /\ caught' = [caught EXCEPT ![c] = TRUE]
  /\ UNCHANGED <<temporal, started, child, resumed, allowed, req, pc, doomed>>

SetChild(c, i, state) ==
  /\ child' = [child EXCEPT ![c][i] = state]
  /\ UNCHANGED <<temporal, started, resumed, caught, allowed, req, pc, doomed>>

\* The child workflow returned, successful or not.
ChildReturns(c, i) ==
  /\ child[c][i] = "running"
  /\ SetChild(c, i, "passed") \/ SetChild(c, i, "failed")

\* It could not start, failed or was cancelled.  (A history older than the
\* patch fleet-failure-graph-events-v1 reports nothing.)
ChildRaises(c, i) ==
  /\ child[c][i] = "running"
  /\ SetChild(c, i, "reporting") \/ SetChild(c, i, "failed")

\* Mutant: a child that failed is run again.
BugRerunsChild(c, i) ==
  /\ child[c][i] = "reporting"
  /\ SetChild(c, i, "running")

\* record_workflow_stage returned or raised: it makes no difference here.
FailureReported(c, i) ==
  /\ child[c][i] = "reporting"
  /\ SetChild(c, i, "failed")

CloseCampaign(c, how) ==
  /\ status[c] = "running"
  /\ status' = [status EXCEPT ![c] = how]
  /\ resumed' = [resumed EXCEPT ![c] = FALSE]
  /\ UNCHANGED <<canceling, indexed, started, child, caught, allowed, req, pc, doomed>>

\* The service may also refuse this of a campaign that was asked to stop.
Complete(c) == resumed[c] /\ started[c] = Agents /\ CloseCampaign(c, "completed")

\* gather raises once all its children are done, whatever became of them.
Canceled(c) == caught[c] /\ Gathered(c) /\ CloseCampaign(c, "canceled")

-----------------------------------------------------------------------------
Serve(r) ==
  \/ List(r)
  \/ \E c \in Ids : CancelActive(r, c)
  \/ CancelTooLate(r)
  \/ Start(r)
  \/ RequestFails(r)

ChildStep(c, i) == ChildReturns(c, i) \/ ChildRaises(c, i) \/ FailureReported(c, i)

Run(c) ==
  \/ GatherReturns(c)
  \/ NextChunk(c)
  \/ RaiseCancellation(c)
  \/ Complete(c)
  \/ Canceled(c)
  \/ \E i \in 1..Agents : ChildStep(c, i)

CampaignNext ==
  \/ \E r \in Requests : Serve(r)
  \/ \E c \in Ids : Index(c) \/ Run(c)

CampaignSpec == CampaignInit /\ [][CampaignNext]_campaignVars

\* Workers poll for workflow tasks, and every child settles.
FairCampaignSpec == CampaignSpec /\ \A c \in Ids : WF_campaignVars(Run(c))

-----------------------------------------------------------------------------
(* Correctness *)

\* Type correctness of the service, the campaigns and the requests.
CampaignTypeOK ==
  /\ status \in [Ids -> Statuses]
  /\ canceling \in [Ids -> BOOLEAN]
  /\ indexed \in [Ids -> Statuses]
  /\ started \in [Ids -> 0..Agents]
  /\ child \in [Ids -> [1..Agents -> ChildStates]]
  /\ resumed \in [Ids -> BOOLEAN]
  /\ caught \in [Ids -> BOOLEAN]
  /\ allowed \in [Ids -> Limits]
  /\ req \in [Requests -> CampaignRequest]
  /\ pc \in [Requests -> Places]
  /\ doomed \in [Requests -> SUBSET Prefixed]

\* No campaign has more than max_concurrency children open (workflow.py:291-297).
ChildrenBounded == \A c \in Ids : Cardinality(Open(c)) <= MaxConcurrency

(***************************************************************************)
(* A campaign never closes over an open child, and one that completes has  *)
(* an outcome for every agent: its summary, which gates a release, leaves  *)
(* none out (workflow.py:289-308).                                         *)
(***************************************************************************)
SummaryComplete ==
  \A c \in Ids :
    /\ status[c] # "running" => Open(c) = {}
    /\ status[c] = "completed" =>
         \A i \in 1..Agents : child[c][i] \in {"passed", "failed"}

(***************************************************************************)
(* A campaign that is asked to stop while a child is open starts no child  *)
(* more and does not complete, even if all its children then fail and      *)
(* execute() turns every failure into an outcome (workflow.py:262-297).    *)
(* Asked between two chunks, it may start the next one, as cancel()        *)
(* (api.py:120) does not wait for the task in hand, and no other; it       *)
(* completes only if it had run them all.                                  *)
(***************************************************************************)
CancellationSticks ==
  \A c \in Ids :
    canceling[c] =>
      /\ started[c] <= allowed[c].started
      /\ status[c] = "completed" => allowed[c].complete

\* A campaign that started closes: no child can hold it up (workflow.py:291-308).
EveryCampaignCloses == \A c \in Ids : status[c] = "running" ~> status[c] # "running"

(***************************************************************************)
(* "One durable fleet workflow whose child runs are bounded to protect     *)
(* Qwen and serialize catalog writes" (docs/testing-agents.md:58-60):      *)
(* campaigns that were started, taken together, keep within the bound.     *)
(***************************************************************************)
FleetBounded ==
  Cardinality(UNION {{<<c, i>> : i \in Open(c)} : c \in Ids}) <= MaxConcurrency

=============================================================================
