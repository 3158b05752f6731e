# AQE: verification project

TLA+ models of AQE (Agentic Quality Engineering), model-checked with TLC, with
safety properties and refinements proved with TLAPS. Source paths are relative
to `src/` of the repository; `workflow.py` and `api.py` are in
`temporal_worker/`, and an agent's `app.py` is in its directory under `agents/`.

## 1. The system

AQE generates pytest suites for agents and websites, has an independent model
review them, runs and repairs them in a sandbox, and publishes what is worth
keeping in a GitHub catalog that CI runs. A Temporal workflow drives the agents,
which are HTTP services; they share PostgreSQL (`test_runs`,
`active_artifacts`), an S3 object store (RustFS), Qdrant, Redis and Kafka.

```
 frontend, BYOA adapter -> workflow API -> Temporal: fleet campaign -> child runs
                                             |  (activities, HTTP)
   discovery (diagnostics) <- source analysis <- generation <- oracle -> execution
                                                     |            |         |
                                                test_runs   object store  GitHub catalog
 change detection -> capture, generation, execution
                  -> Kafka -> GitHub commit -> a file on GitHub
 knowledge ingestion, artifact management -> Qdrant, object store, active_artifacts
 generation, execution -> live graph events (diagnostics)
```

| Component | State it keeps | What is hard | What makes it correct | Modelled by |
|---|---|---|---|---|
| QE workflow (`workflow.py`, `activities.py`) | its position, the candidate, the review | timeouts and retries of activities whose agents do not stop; cancellation; replay of old histories | only the draft that was approved executes; generation is never repeated or overlapped; every run closes | `QEWorkflow` |
| Fleet campaign (`workflow.py`, `api.py`) | chunks started, outcomes | check-then-start, late visibility, a cancellation that arrives while a worker starts the next chunk, errors turned into outcomes | bounded children, no agent left out, a cancelled campaign starts no chunk but the one in hand, every campaign closes | `FleetCampaign` |
| Test execution | a row, two objects per task | concurrent requests for a task, lost answers, stops between effects, stale reads | records say what really ran; links lead to published suites | `ExecutionAgent` |
| Catalog (`utils/github_test_catalog.py`) | branch, suites, metadata | two commits that are not atomic, paths that collide | append-only, described, linked only when complete | `ExecutionAgent`, `TestCatalog` |
| Generation | rows, candidates | two writes, concurrent runs with one fingerprint, reuse of a suite under repair or of one that was rejected, retried model calls nobody waits for | rows resolve; what executes first is what was approved; no candidate is reviewed that the quality gate did not pass; the work ends | `SuitePipeline`, `GenerationCalls` |
| Quality oracle | review evidence | retries nobody waits for any more, malformed answers, every configuration | fails closed | `OracleReview`, `ModelCalls` |
| Change detection | Redis entry, two topics | three effects of which each may fail, a shared cache, concurrent requests | an answer is founded, "pending commit" is true, a dry run leaves no trace | `ChangeDetection` |
| GitHub commit | a consumer, one file | redelivery, cancellation, abandoned writes, conflicts | the file holds what passed, and the last of it | `GitHubCommit`, `ChangePipeline` |
| Knowledge ingestion, artifact management | Qdrant points, objects, `active_artifacts` | delete then put, three stores without a transaction | active versions are stored, a source is found whole, sources do not touch | `KnowledgeBase` |
| BYOA adapter | Kafka offsets | redelivery, rebalance in the middle of a task, a failure in a failure handler | nothing is skipped, duplicates have a cause | `ByoaAdapter` |
| Diagnostics | event buffer, observed targets | cyclic peers, errors nothing catches; late events, executions that overlap, a bounded buffer, restarts | discovery is complete within its bounds and ends; the graph is consistent | `AgentDiscovery`, `LiveGraph` |
| Others | see section 6 | | | |

`PROJECT.json` lists every component with its sources and status, and every
hazard at its line, with the properties that would show it, or why none does.

## 2. Modules

| Module | Models |
|---|---|
| `OracleGate` | Abstract: a run drafts at most two suites, executes its last draft and only if that very draft was granted, drafts nothing after a grant, and is promoted only after an execution. |
| `QEWorkflow` | `QualityEngineeringWorkflow.run` and its activities. |
| `TestCatalog` | Abstract: suites are published once and described by their publisher, and records link to described suites of their own task. |
| `ExecutionAgent` | The execution agent, `publish_test`, the rows and objects they touch. |
| `FleetCampaign` | The batch endpoint and `FleetQualityEngineeringWorkflow.run`. |
| `TaskQueue` | Abstract: tasks are answered in order, and acknowledged after their answer. |
| `ByoaAdapter` | A group of adapters that consume one partition. |
| `ChangeDetection`, `GitHubCommit` | The two agents; `ChangePipeline` composes them over the topic of commit tasks. |
| `SuitePipeline` | Generation, review and execution of a suite over one `test_runs` table. |
| `ModelCalls` | The retry loop around a model provider, used by the next two. |
| `GenerationCalls` | One generation: a compiled suite, or the calls for the embedding and at most two candidates; then its object, row and answer. |
| `OracleReview` | Concurrent reviews. `ReviewedGeneration` composes it with `GenerationCalls`, one generation for each task: a review follows the generation of its task, answered `SUCCESS`. |
| `KnowledgeBase` | Every ingestion of the two agents that write knowledge. |
| `AgentDiscovery`, `LiveGraph` | Discovery from agent cards; events and graph. |
| `MC...` | Constant values and symmetry for TLC. |
| `...Proofs` | Theorems about the module of that name. Four are about several: `TemporalWorkerProofs` (`QEWorkflow`, `FleetCampaign`), `ReviewedGenerationProofs` (also `OracleReview`, `GenerationCalls`), `DiagnosticsProofs` (`LiveGraph`, `AgentDiscovery`), `ChangePipelineProofs` (also `ChangeDetection`, `GitHubCommit`). |

Where the modules meet: `QEWorkflow` shows that two attempts of
`execute_and_repair` may be in the execution agent at once; `ExecutionAgent` takes
concurrent requests of one task as given. `FleetCampaign` takes from `QEWorkflow`
that a child ends (`EveryRunSettles`). `SuitePipeline` takes one attempt per
activity and one publication per execution, since retries are in `QEWorkflow` and
overlapping requests of a task in `ExecutionAgent`; what it adds is that runs share
suites by their fingerprint. What a review decides is free there, and is
the subject of `OracleReview`. The abstract modules are specifications, not
translations, so `map` has no entry for them, nor for refinement mappings.

### QEWorkflow

`run()` is a coroutine that awaits one activity at a time, so its program
counter is `awaiting`, and `attempt` and `running` are Temporal's record of that
activity. A worker takes a scheduled attempt (`Dispatch`) and posts it to an
agent; `calls` holds the requests agents work on. An attempt ends with a reply
(`Resume` has one disjunct per kind of reply), with a retryable error
(`AttemptFails`), with a non-retryable one (`AttemptRefused`), or by a timeout
(`AttemptTimesOut`), after which the agent goes on: the request stays in `calls`
until `OrphanEnds`. Cancellation closes the run and leaves the request behind
too. `MaxAttempts` is the table of retry policies. Stage events are awaited like
agents, as in the code. `request.legacy` stands for a history older than every
`workflow.patched` marker; it starts where the gate would have been. The two
`test_generation_started` events have different names in the model, as have the
two `workflow_completed` ones, because the program counter must tell them apart. What the Oracle decided is kept in
`approved`, the drafts it approved, and nowhere in the program counter: that no
position after the review is reached with another draft is what is to be shown.

### ExecutionAgent

One request of `run_tests` or `confirm_finding` is a process; its steps are the
code between two awaits, so each has one effect on one store. `Breaks`,
`PublicationFails` and `ReplicaStops` may strike wherever the code awaits, and
every external effect may also be applied without its answer coming back. A code
is identified by its task, the request that repaired it and the number of that
repair, so that a property can tell which code ran. A path of the catalog has a
root, a part fixed by the task and a part read from the code.

### FleetCampaign

A request of `start_batch` lists, cancels one by one, and starts. The list comes
from `indexed`, which follows `status` whenever `Index` lets it. A worker gets the
task in which `gather` returned (`GatherReturns`, `resumed`) and answers it with
the next chunk or with the end of the campaign. `cancel()` may return in between:
`CancelActive` only sets `canceling`, the task in hand is answered all the same, and
the cancellation is raised in `run()` by the next one (`RaiseCancellation`,
`caught`). A child that raises reports to the live graph first, and only when all
children are done does `gather` raise. `allowed` is a history variable: how far a
campaign was, or had to be, when it was first asked to stop.

### ByoaAdapter

`consume()` of each adapter is a process: it fetches, handles, sends the result,
commits. The group coordinator gives the partition to one consumer, and may take
it away in any step (`Rebalance`); the old owner works on and commits only if it
still has the partition. A message that is no JSON object raises in the handler
of the exception as well, and ends `consume()` for good while the process stays
healthy ("stopped"), as an error of the broker does. What a task does besides its
answer is kept only for `qe.run`, which starts a workflow.

### SuitePipeline

A run is a program counter through generation, review and execution. Texts that
models write are numbered as they are written; what a declared contract compiles to
is the same for the same scenarios and URL (`Contract`), and whether a fingerprint
is compiled is decided by the inputs that are part of it (`compiled`). A suite is
known by its task, so a text that is compiled again is another suite with the same
text. `Reuse` takes any catalogued suite that passed with the same fingerprint,
which does not include the feedback of the Oracle; `Store` and `Register` are the
two writes of a generation, either of which may fail; `Repair`, `Upload` and `Update`
those of the executor.

### ModelCalls, GenerationCalls, OracleReview, ReviewedGeneration

A call is posts and pauses, bounded in number. It has no clock: the timeouts of the
HTTP client are per operation, so the code bounds neither a post nor a call in time.
What is known of time is that the activity that waits may give up in any state
(`GivesUp`); the agent is not told and goes on. A generation compiles its suite, or
asks for an embedding and at most two candidates with the quality gate after each
(`Drafted`, `Accept`, `AskAgain`, `GiveUp`); `Check`, `Store` and `Insert` are the way
to its answer. A review makes one call; its answer is a record of what
`parse_review` tests (the decision, its types, issues, gaps, citations), and what the
environment variables configure is part of the initial state. An answer nobody
waits for is a failure for the workflow, whatever it says. `ReviewedGeneration`
makes a review wait for the generation of its task, and shares with it what is
stored under the task.

### ChangeDetection, GitHubCommit, ChangePipeline

`detect_and_update()` is a process whose three effects (event, task, cache) each
may fail alone. The page is a counter of its versions, and a test stands for the
version it was made from. The cache may expire in any state. The commit agent is
one background consumer: `Join` at the committed offset or at the end, `Deliver`,
`GetContents`, `Write`; cancelling it leaves a call that GitHub may still carry out
(`abandoned`). `AutoCommit` commits the position, in hand or not.

### KnowledgeBase

An ingestion is one request that walks through the steps of its kind (`Steps`),
each one call to one store. Records are `[by, index]`; two ingestions that use the
same point ids replace each other's records (`SamePoints`), those with the same
source label are deleted together (`Source`). Every step may fail, with or without
its effect.

### AgentDiscovery, LiveGraph

The queue, the visited set and the result of `discover_agents` are the variables;
one turn of its loop is a step, and each of the two reads of a card may fail. An
address that cannot be parsed, or a card whose skills or peers are null, raises
outside of the `try` and ends the discovery without a result (`Abort`). `LiveGraph`
has a reporter for each generation of a test and for each of its executions, which
may overlap; posts that are lost, taken, or outlive the time their reporter waits;
the bounded deque with the newest event first, and the set of observed targets, both
lost in a restart. `earlier` is a history variable: the reporters of a test that were
done when an execution of it began.

## 3. Runs

States are distinct states found by TLC.

| Run | Instance | States | Checks |
|---|---|---|---|
| `qe` | 1 run, every request, fair | 1,358 | `TypeOK`, `OnlyApprovedExecutes`, `GenerationIsExclusive`, `RefinesGate`, `EveryRunSettles` |
| `exec` | 2 requests, 3 tasks (two with one slot, one of another mode), 1 repair | 1.0 M | `TypeOK`, `RecordsWhatRan`, `LinksResolve`, `RefinesCatalog`, `RequestsProgress` |
| `fleet` | 2 requests, 2 ids (one without the prefix), 3 agents, chunks of 2, fair | 808,095 | `CampaignTypeOK`, `ChildrenBounded`, `SummaryComplete`, `CancellationSticks`, `EveryCampaignCloses` |
| `fleet_overlap` | 2 requests, 2 ids, 2 agents, chunks of 1 | | violates `FleetBounded` |
| `byoa` | 2 adapters, 4 tasks, one of each kind, 3 disruptions, fair | 108,585 | `NothingSkipped`, `DuplicatesBounded`, `RefinesTaskQueue`, `AnsweredWhileConsuming` |
| `change` | 2 detections and a dry run, a page that changes twice | 1.5 M | `PromisesKept`, `AnswersFounded`, `DryRunsLeaveNoTrace` |
| `pipeline` | 2 detections, 1 change, 2 disruptions of the commit agent | 3.5 M | `FilePassed`, `FileHoldsLast` |
| `suite` | 2 runs with one fingerprint, compiled or not, 4 tasks, 6 texts, fair | 304,941 | `TypeOK`, `RowsResolve`, `GeneratedAsApproved`, `RejectedReturnsApproved`, `RunsEnd` |
| `model` | 1 generation of 3 attempts a call, 2 reviews of one suite with 2, 5 configurations | 805,474 | `FailsClosed`, `OnlyGatedReviewed`, `WorkRunsOut` |
| `knowledge` | 6 requests at once: the ontology twice, a product, a document, a smoke, a candidate | 3.5 M | `ActiveResolves`, `WholeVersions`, `SuccessIsComplete`, `SourcesKeptApart` |
| `discovery` | 5 cards, every graph within `MCGraphs`, depth 2, 4 agents, fair | 84,321 | `FindsAllWithin`, `DiscoveryEnds` |
| `graph` | 2 tests of different targets, one with 2 executions, one with 1, a buffer of 2 | 3.4 M | `TargetsShown`, `StatusGoesForward` |

Every property has a mutant in `PROJECT.json`: a change of one definition, such as
a plausible bug would make, with which TLC refutes the property in the same run.
Deadlock is not checked: runs, requests, campaigns and discoveries end, and then
the system rightly stops.

**Bounds.** Attempts, drafts, repairs and chunks are bounded by the code itself.
The other bounds:

- `qe`: runs share nothing, so one run shows what there is to see.
- `exec`: two requests suffice for one to read, work and write while the other
  does the same, including a stop in between. Two tasks in one slot give the
  collision of paths; one repair gives a repaired and an unrepaired execution, and
  both ends of the loop.
- `fleet`: three agents in chunks of two give a full chunk and a short one.
- `byoa`: `MaxDisruptions` counts crashes, rebalances and errors; three let both
  adapters lose the partition and one of them a second time. The message that
  cannot be read is behind the others, so that the others are reached.
- `change`, `pipeline`: `MaxVersion` bounds the changes of the page: two give an
  answer that is old when a cached one is newer. `MaxDisruptions` bounds starts,
  cancellations, failures and crashes of the consumer; two give an abandoned write
  and its successor's.
- `suite`: `MaxTasks` and `MaxSources` bound what is stored and written, at as many
  as the two runs can need: each drafts twice and repairs once, so neither bound ever
  holds a run up.
- `model`: three attempts a call in the generation, two in a review: a first, a last
  and one between them. Two reviews of one task replace each other's evidence.
- `knowledge`: records are numbered; of two ingestions of the ontology one has two
  records and the other one, so that one can leave a rest of the other. `Width` is the
  width of the column an artifact's name must fit.
- `graph`: a buffer of two drops events of both tests while they are needed; of two
  executions of one test each may be before, after or beside the other.

The proofs lift these bounds for most safety properties.

**Symmetry** is used in `exec`, `change`, `pipeline` and `graph`, which check no
liveness, over requests or executions that the specification treats alike.
`RefinesCatalog`, `RequestsProgress`, `DryRunsLeaveNoTrace` and `StatusGoesForward`
are stated step by step and are symmetric in the set that is permuted.

**Fairness.** Weak fairness only, and never of a step that succeeds: what is fair
is that a process takes its next step, and failing is one.

- `QEWorkflow`: workers poll, so a scheduled attempt is dispatched; every activity
  has a start-to-close timeout, so an attempt ends; agents retry a bounded number of
  times (`WorkRunsOut`) and their clients give up on a peer that falls silent, so an
  abandoned request ends. Nobody has to cancel.
- `FleetCampaign`: each campaign's steps; that a child ends is `EveryRunSettles`.
  The visibility store is not assumed to catch up.
- `ByoaAdapter`: a consumer takes its next step, since brokers and clients have
  timeouts; the partition is assigned; a process that ended is restarted.
- `SuitePipeline`: each run takes its next step, as its activities have timeouts.
- `AgentDiscovery`: the coroutine goes on, as each operation of a read has a timeout
  of 8 seconds.

The timeouts of the HTTP clients are per operation. That no peer answers for ever, a
few bytes at a time, is an assumption about peers and not about the code. In
`QEWorkflow`, `FleetCampaign` and `SuitePipeline` only what Temporal no longer waits
for depends on it.

`ExecutionAgent` needs none: `RequestsProgress` says of each step of a request that
it uses up one of finitely many.

## 4. Where documents and code disagree

`fleet_overlap` shows a bug: `start_batch` checks for an active campaign in the
visibility store and then starts a new one, and it does not wait for campaigns that
it cancels, so two run at once and together exceed the bound (`FleetBounded`).
Each campaign keeps to the bound on its own (`ChildrenBounded`).

The modules also state, under "What documents of the repository say, and the code
does not do", sentences that quote a document or a script, each of which TLC
refutes when it is added to the configuration of its module's run:

| Definition | What happens instead |
|---|---|
| `QEWorkflow!TelemetryNeverFailsRun` | the stage activity swallows HTTP errors, but not its own timeout, and has one attempt |
| `ExecutionAgent!LinkKept` | the `UPDATE` of a result replaces the link, even by `NULL` |
| `ExecutionAgent!SuitesDescribed` | a suite and its metadata are two commits |
| `ExecutionAgent!FindingsInFindings` | a link found at the start is reused for any outcome |
| `ExecutionAgent!RowMatchesObject` | repaired source has one key for all requests of a task, and is written before the row |
| `ByoaAdapter!EveryTaskAnswered` | an error of the broker ends `consume()` for good |
| `ByoaAdapter!SubmittedOnce` | a workflow id that closed is started again on redelivery |
| `ChangeDetection!AnswersAreFresh` | the cache answers for an hour from what an earlier request saw |
| `SuitePipeline!ArtifactsImmutable` | the repaired object of a task is written again |
| `SuitePipeline!OnlyReviewedPublished` | repaired source is published without a review |
| `SuitePipeline!FeedbackAnswered` | the lookup comes before the prompt, leaves the feedback of the Oracle out, and returns the rejected suite |
| `ReviewedGeneration!RetriesWithinDeadline` | posts are bounded in number and not in time: the agent still pauses and posts after the activity gave up |
| `ReviewedGeneration!PersistsWithinDeadline` | for the same reason it stores a suite, and its row, for nobody |
| `OracleReview!IndependentModel` | independence is judged by the variables that are set, not by the model that is asked |
| `OracleReview!EvidenceAsAnswered` | evidence is stored under the task, and a later review replaces it |
| `KnowledgeBase!OneVersionPerSource` | two ingestions that overlap both delete, then both put |
| `KnowledgeBase!DocumentsSurvive` | documents carry the label of the product, and go with the next product ingestion |
| `KnowledgeBase!VersionDescribesContents` | the row and the points are written in two steps |

`SubmittedOnce`, `EveryTaskAnswered`, `EvidenceAsAnswered`, `FeedbackAnswered` and the
two of `ReviewedGeneration` tell a reader what not to rely on: `DuplicatesBounded`,
`AnsweredWhileConsuming`, `FailsClosed`, `RejectedReturnsApproved` and `WorkRunsOut` say
what holds instead.

## 5. Proofs

`tlapm` proves every obligation, for any values of the constants within the
assumptions of the modules. `QEWorkflow` has none. The others say that the markers
(`None`, `Nothing`) differ from the values they stand beside, that bounds are natural
numbers, and that functions have their types (`ConstantsAssumption`,
`PipelineAssumption`, `CallsAssumption`, `ReviewAssumption`, `GeneratorAssumption`,
`IngestionsAssumption`, `GraphAssumption`); `FleetCampaign` takes the ranges that
`start_batch` enforces, `AgentDiscovery` those to which `agent_discovery` clamps its
bounds (`DiscoveryAssumption`), and `ByoaAdapter` that there are finitely many
adapters.

**TemporalWorkerProofs**, of a run: `TypeCorrect`, `GateHolds`
(`OnlyApprovedExecutes`), `GenerationExcludes` (`GenerationIsExclusive`),
`Refinement` (`RefinesGate`), `RunsProgress`. `OnlyApprovedExecutes` speaks of
requests in flight, which says nothing of the step that makes one, so the invariant
adds that a run that awaits the execution holds an approved draft (or is a legacy
run), and that the numbers of drafts and of reviews agree at each position. For
exclusion it adds that a request in flight comes from the current activity or from
one the workflow cannot return to, and that generation is attempted once. The
refinement maps the position to a stage (`StageOf`) and the drafts that were approved
to the grants of the gate. A position alone means no grant: a run executes from the
dispatch of its execution on, and that this step is one of the gate's needs the
invariant, that the draft in hand is among the approved. For each action it is
shown which step of the gate it is, or that it stutters. `RunsProgress` counts the steps
that a run can still take, activities ahead and attempts of each, from at most 80.

Of a campaign: `CampaignTypeCorrect`, `CampaignBounded` (`ChildrenBounded`),
`SummaryHolds` (`SummaryComplete`), `CancellationHolds` (`CancellationSticks`),
`CampaignsProgress`. The children that left "waiting" are exactly those of the
chunks started so far; there is a k such that all children up to k are done and no
more than `MaxConcurrency` were started after it; a campaign that is not running
has no open child. Hence the open children lie in an interval of at most
`MaxConcurrency` numbers. That a campaign keeps to what was `allowed` when it was asked
to stop rests on what may be in hand then: a task that starts a chunk is in hand only
when no child is open, and the chunk it starts is the last, since `GatherReturns`
meets the request. `CampaignsProgress` says that between its start and its
close a campaign takes children further and none back.

**ExecutionAgentProofs**: `TypeCorrect`, `RecordsHold`, `LinksHold`, `Refinement`,
`Progress`. The invariant says, for each position of a request, what its locals are
known to mean: from the conclusion on, that its code ran with its verdict; while it
creates the metadata, that the suite at its path is its own; once it holds a link,
that the link leads to a suite of its task, described by its publisher. What makes
it inductive is that suites and metadata, once created, never change, so a link
read long ago still resolves.

**ByoaAdapterProofs**: `AtLeastOnce` (`NothingSkipped`), `Refinement`
(`RefinesTaskQueue`), `Duplicates` (`DuplicatesBounded`). A consumer that is busy
never works beyond the first uncommitted message, and answers come in order. For
the bound on duplicates the invariant `Tally` counts: answers of a task, together
with the adapters that are about to give one, are at most the disruptions, and one
more once the task is behind the offset or behind the position of the owner.

**ChangePipelineProofs**: `TypeCorrect`, `Promised`, `Founded` (`AnswersFounded`),
`Isolation`, `Passed`, `OnlyPassedOnGitHub` (`FilePassed`), `LastCommitted`
(`FileHoldsLast`). Topics only grow, so a promise once kept stays kept. An answer is
traced to the request that gave it: a cached result is one that some detection gave
to itself and keeps. Whatever the commit agent has read, holds, or abandoned comes
from the topic, whose tasks passed; undisturbed, nobody writes the file between its
read and its write.

**SuitePipelineProofs**: `TypeCorrect`, `NoDanglingRow`, `ExecutedAsApproved`,
`RejectedOnlyReused`. Rows rest on the order of the two writes (`Grounded`).
`GeneratedAsApproved` rests on ownership: from `Store` on, the task of a suite that
a run generated is the task of no other run (`Owned`), so its row and candidate
stay as they are from the review to the execution (`AsReviewed`).
`RejectedReturnsApproved` rests on `Vetted`: a suite with a verdict had been
approved, as it was generated, in a run that went on to execute it. A run that comes
back to a suite it rejected found it by its verdict (`NewTo`), and that run was not
its own, since it is still before its review. `RunsProgress` counts the steps of a run, from 18.

**ReviewedGenerationProofs**: `TypeCorrect`, `Closed` (`FailsClosed`), of
`OracleReview`; `ReviewsAsSpecified` says that the composition only delays its steps,
so they hold there too. What is being judged came with a response that was no
error, and an approval with an unreserved text and evidence (`Reviewed`). Of the
composition, `GenerationTypeCorrect`, `GenerationGated` (`OnlyGatedReviewed`) and
`RunsOut` (`WorkRunsOut`). `Gated` says what a suite in hand is at each stage:
after the gate it is a candidate without issues, what a contract compiled to, or the
text of an error, and the last is never stored; a review has asked only once the
generation of its task was answered (`Awaited`), after which neither object nor row
changes. A call that posts has made fewer posts than it may (`HasLeft`, the same
argument for both agents), so each of its steps counts down.

**DiagnosticsProofs**, of the live graph: `GraphTypeCorrect`, `TargetsAreShown`
(`TargetsShown`), `StatusGoes` (`StatusGoesForward`). No posted event says more than
its reporter has reached, the one it waits for is its newest, and what was done when
an execution began posts nothing any more (`Posted`); an event on top of the buffer moves the others one position down and
may drop the last, so what is shown of another test was shown before.

Of the discovery: `FindsAll` (`FindsAllWithin`), `Advances`. The agents within a
depth are a recursive function of the depth, so what is needed of it is proved by
induction: the two lemmas `Induction` and `Recursion` are stated over sets and
functions, which the provers can instantiate, and rest on the library's theorem that
the order of the naturals is well-founded. `ReachedIsLeast` says
that whatever holds the roots and is closed under links, depth by depth, holds what
is reached, and `ReachedByMore` that more links reach no less. The invariant is that the queue is in the order of depths and holds at most two of them,
that what is queued or visited is within its depth, and that what follows a visited
agent is visited or queued no deeper than it is due (`Due`). So the first visit of an
agent is by one of its shortest ways, and skipping it later loses nothing. `Advances`
says that a turn visits one agent more, of at most `MaxAgents`, or shortens the
queue, or ends the discovery with an error, so a graph with cycles does not keep it going.

**KnowledgeBaseProofs**: `TypeCorrect`, `RowsName` (`ActiveResolves`), `Whole`
(`WholeVersions`), `Promised` (`SuccessIsComplete`), `KeptApart`
(`SourcesKeptApart`). `Kept` says of every request what is stored of it at each of
its steps; the rest follows from types, since records are put by one call and deleted
by label.

**Only model-checked:** liveness, which rests on fairness and `ENABLED`:
`EveryRunSettles`, `EveryCampaignCloses`, `AnsweredWhileConsuming`, `RunsEnd`,
`DiscoveryEnds`. Of all but `AnsweredWhileConsuming`, the part that needs no fairness
is proved: the steps that a run, a campaign or a discovery can take are finitely
many (`RunsProgress`, `CampaignsProgress`, `Advances`). What is left to TLC is that
none of them is stuck before its end.

## 6. Not modelled

- **Contents**: prompts, generated code, reviews, summaries, what is extracted from
  documents. What code does against a target is a nondeterministic verdict; the
  AST quality gate is one of its causes in the executor, and a nondeterministic
  answer in the generator.
- **Workflow histories** with only some of the patch markers, connection pools, and
  the health, card and metrics endpoints.
- **Reporting service**: its one effect is an `UPDATE` of the row whose id is the hash
  that the detection agent uses as cache key, and no row has such an id, so it
  changes nothing. The events it reads are in `ChangeDetection`.
- **Webpage capture**: a read-through cache around one capture. `ChangeDetection` takes
  a capture as a call that may fail.
- **GitHub connector, analysis, agent builder and dbt builder**: they keep no state
  between requests.
- **Diagnostics**: fleet scans, healing and contract probes read cards and keep
  nothing but an observed target; scenarios derived from cards are data.
- **Ontology and target helpers**: tables and pure classification of text.
- **Evaluation and release scripts**: sequential batch scripts that keep no state.
  What one of them requires of the catalog is `SuitesDescribed`.
- **Metrics, frontend, deployment**: no core logic.
