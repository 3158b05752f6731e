---------------------------- MODULE ByoaAdapter ----------------------------
(***************************************************************************)
(* The BYOA adapter (byoa_adapter/app.py): consume() reads JSON-RPC tasks  *)
(* from a Kafka topic, starts workflows (temporal_worker/api.py) or posts  *)
(* to the execution agent, publishes a result, and commits the offset.     *)
(*                                                                         *)
(* One partition of the topic, read by one group of adapters.  Kafka gives *)
(* the partition to one consumer at a time, but may take it away while the *)
(* consumer is still busy with a message: a qe.validate may take 900       *)
(* seconds, longer than Kafka waits between two polls.  A consumer that    *)
(* gets the partition starts at the committed offset.                      *)
(***************************************************************************)
EXTENDS Naturals, FiniteSets

CONSTANTS
  Adapters,         \* replicas of the adapter
  N,                \* messages in the partition, numbered from 1
  Kind,             \* [1..N -> Kinds]
  MaxDisruptions,   \* bound on crashes, rebalances and errors of the broker
  None

\* run: qe.run with a workflow_id chosen by the platform.  dispatch: qe.validate or
\* qe.repair.  refused: handle() answers without calling anyone.  poison: not a JSON
\* object, so that the handler of the exception raises as well.
Kinds == {"run", "dispatch", "refused", "poison"}

ASSUME ConstantsAssumption ==
  /\ N \in Nat
  /\ Kind \in [1..N -> Kinds]
  /\ MaxDisruptions \in Nat
  /\ None \notin Adapters
  /\ IsFiniteSet(Adapters)

VARIABLES
  committed,    \* committed offset, as the number of messages before it
  owner,        \* the adapter that has the partition
  position,     \* [Adapters -> 0..N]: offset up to which the consumer has read
  pc,           \* [Adapters -> Places]
  message,      \* [Adapters -> 0..N]: the message in hand
  answers,      \* [1..N -> Nat]: results published for a task
  workflow,     \* [1..N -> Workflows]: the workflow that a task names, in Temporal
  disruptions

vars == <<committed, owner, position, pc, message, answers, workflow, disruptions>>
broker == <<committed, owner, position>>

\* stopped: consume() has ended; the process is up and reports itself healthy.
Places == {"polling", "handling", "sending", "committing", "stopped", "down"}

Consuming == {"polling", "handling", "sending", "committing"}

Workflows == [open : BOOLEAN, starts : Nat]

Init ==
  /\ committed = 0
  /\ owner = None
  /\ position = [a \in Adapters |-> 0]
  /\ pc = [a \in Adapters |-> "polling"]
  /\ message = [a \in Adapters |-> 0]
  /\ answers = [i \in 1..N |-> 0]
  /\ workflow = [i \in 1..N |-> [open |-> FALSE, starts |-> 0]]
  /\ disruptions = 0

Goto(a, place) == pc' = [pc EXCEPT ![a] = place]

Disrupt == disruptions < MaxDisruptions /\ disruptions' = disruptions + 1

-----------------------------------------------------------------------------
\* The group coordinator gives the partition to a.
Assign(a) ==
  /\ owner = None
  /\ pc[a] \in Consuming
  /\ owner' = a
  /\ position' = [position EXCEPT ![a] = committed]
  /\ UNCHANGED <<committed, pc, message, answers, workflow, disruptions>>

\* The owner missed a poll or a heartbeat, or another consumer joined.
Rebalance ==
  /\ owner # None
  /\ Disrupt
  /\ owner' = None
  /\ UNCHANGED <<committed, position, pc, message, answers, workflow>>

\* Mutant: offsets are committed automatically, as messages are read.
BugAutoCommits(a) ==
  /\ pc[a] = "polling"
  /\ owner = a
  /\ position[a] < N
  /\ Kind[position[a] + 1] # "poison"
  /\ position' = [position EXCEPT ![a] = @ + 1]
  /\ committed' = position[a] + 1
  /\ message' = [message EXCEPT ![a] = position[a] + 1]
  /\ Goto(a, "handling")
  /\ UNCHANGED <<owner, answers, workflow, disruptions>>

\* The next message reaches the loop.
Fetch(a) ==
  /\ pc[a] = "polling"
  /\ owner = a
  /\ position[a] < N
  /\ Kind[position[a] + 1] # "poison"
  /\ position' = [position EXCEPT ![a] = @ + 1]
  /\ message' = [message EXCEPT ![a] = position[a] + 1]
  /\ Goto(a, "handling")
  /\ UNCHANGED <<committed, owner, answers, workflow, disruptions>>

\* consume() ends, with an exception: the consumer leaves the group.
Stop(a) ==
  /\ Goto(a, "stopped")
  /\ owner' = IF owner = a THEN None ELSE owner

FetchPoison(a) ==
  /\ pc[a] = "polling"
  /\ owner = a
  /\ position[a] < N
  /\ Kind[position[a] + 1] = "poison"
  /\ Stop(a)
  /\ UNCHANGED <<committed, position, message, answers, workflow, disruptions>>

-----------------------------------------------------------------------------
(* handle(): whatever happens, there is a result to send. *)

\* start_run: Temporal starts a workflow unless one of that id is open.
StartRun(a) ==
  /\ pc[a] = "handling"
  /\ Kind[message[a]] = "run"
  /\ ~workflow[message[a]].open
  /\ workflow' = [workflow EXCEPT ![message[a]] = [open |-> TRUE, starts |-> @.starts + 1]]
  /\ Goto(a, "sending")
  /\ UNCHANGED <<committed, owner, position, message, answers, disruptions>>

\* Mutant: a failure is not answered.
BugDropsFailure(a) ==
  /\ pc[a] = "handling"
  /\ Goto(a, IF Kind[message[a]] = "refused" THEN "sending" ELSE "polling")
  /\ UNCHANGED <<broker, message, answers, workflow, disruptions>>

\* The other ends: an answer of the execution agent, a refusal, or an error, which is
\* turned into a result too (among them Temporal's refusal of an id that is open).
Handled(a) ==
  /\ pc[a] = "handling"
  /\ Goto(a, "sending")
  /\ UNCHANGED <<broker, message, answers, workflow, disruptions>>

Send(a) ==
  /\ pc[a] = "sending"
  /\ answers' = [answers EXCEPT ![message[a]] = @ + 1]
  /\ Goto(a, "committing")
  /\ UNCHANGED <<broker, message, workflow, disruptions>>

\* send_and_wait raises; the result may have been published.
SendFails(a) ==
  /\ pc[a] = "sending"
  /\ Disrupt
  /\ \E published \in {0, 1} : answers' = [answers EXCEPT ![message[a]] = @ + published]
  /\ Stop(a)
  /\ UNCHANGED <<committed, position, message, workflow>>

\* commit() commits the position of the partition, if a has it.
Commit(a) ==
  /\ pc[a] = "committing"
  /\ committed' = IF owner = a THEN position[a] ELSE committed
  /\ Goto(a, "polling")
  /\ UNCHANGED <<owner, position, message, answers, workflow, disruptions>>

\* Mutant: the result is sent again when its offset cannot be committed.
BugResends(a) ==
  /\ pc[a] = "committing"
  /\ IF owner = a THEN Disrupt ELSE UNCHANGED disruptions
  /\ Goto(a, "sending")
  /\ UNCHANGED <<broker, message, answers, workflow>>

\* The broker fails, or the group has moved on (CommitFailedError).
CommitFails(a) ==
  /\ pc[a] = "committing"
  /\ IF owner = a THEN Disrupt ELSE UNCHANGED disruptions
  /\ Stop(a)
  /\ UNCHANGED <<committed, position, message, answers, workflow>>

-----------------------------------------------------------------------------
Crash(a) ==
  /\ pc[a] # "down"
  /\ Disrupt
  /\ Goto(a, "down")
  /\ owner' = IF owner = a THEN None ELSE owner
  /\ UNCHANGED <<committed, position, message, answers, workflow>>

\* Kubernetes restarts a process that ended.  It does not end one that is "stopped".
Restart(a) ==
  /\ pc[a] = "down"
  /\ Goto(a, "polling")
  /\ UNCHANGED <<broker, message, answers, workflow, disruptions>>

WorkflowCloses(i) ==
  /\ workflow[i].open
  /\ workflow' = [workflow EXCEPT ![i].open = FALSE]
  /\ UNCHANGED <<broker, pc, message, answers, disruptions>>

Consume(a) ==
  \/ Fetch(a) \/ FetchPoison(a)
  \/ StartRun(a) \/ Handled(a)
  \/ Send(a) \/ SendFails(a)
  \/ Commit(a) \/ CommitFails(a)

Next ==
  \/ \E a \in Adapters : Assign(a) \/ Consume(a) \/ Crash(a) \/ Restart(a)
  \/ Rebalance
  \/ \E i \in 1..N : WorkflowCloses(i)

Spec == Init /\ [][Next]_vars

\* Clients and brokers have timeouts, so a consumer takes its next step; the group
\* assigns its partition; a process that ended is restarted.
Fairness ==
  /\ \A a \in Adapters : WF_vars(Consume(a)) /\ WF_vars(Restart(a))
  /\ WF_vars(\E a \in Adapters : Assign(a))

FairSpec == Spec /\ Fairness

-----------------------------------------------------------------------------
(* Correctness *)

\* Type correctness of the partition, the adapters and the workflows they start.
TypeOK ==
  /\ committed \in 0..N
  /\ owner \in Adapters \cup {None}
  /\ position \in [Adapters -> 0..N]
  /\ pc \in [Adapters -> Places]
  /\ message \in [Adapters -> 0..N]
  /\ answers \in [1..N -> Nat]
  /\ workflow \in [1..N -> Workflows]
  /\ disruptions \in 0..MaxDisruptions

(***************************************************************************)
(* A committed offset never passes a task without a published result,      *)
(* whoever commits and however often the partition moved (app.py:126-127). *)
(***************************************************************************)
NothingSkipped == \A i \in 1..committed : answers[i] > 0

(***************************************************************************)
(* A task is answered more than once only because something went wrong:    *)
(* at most once more for each crash, rebalance or broker error.            *)
(***************************************************************************)
DuplicatesBounded == \A i \in 1..N : answers[i] <= 1 + disruptions

(***************************************************************************)
(* Every task is answered in the end, unless each consume() ended before   *)
(* it read past that task: no failure to handle a task holds up the others *)
(* or is passed over in silence (app.py:115-127).                          *)
(***************************************************************************)
AnsweredWhileConsuming ==
  \A i \in 1..N :
    <>(answers[i] > 0 \/ \A a \in Adapters : pc[a] = "stopped" /\ position[a] <= i)

Queue == INSTANCE TaskQueue WITH
  answered <- {i \in 1..N : answers[i] > 0},
  acknowledged <- committed

\* Several adapters, crashes and rebalances implement an ordered task queue.
RefinesTaskQueue == Queue!Spec

-----------------------------------------------------------------------------
(* What documents of the repository say, and the code does not do. *)

(***************************************************************************)
(* "At-least-once delivery" (docs/pitch.md:82-84): a task that is a JSON   *)
(* object is answered.  An error of the broker ends consume() for good,    *)
(* while /health goes on to say healthy.                                   *)
(***************************************************************************)
EveryTaskAnswered == \A i \in 1..N : Kind[i] # "poison" => <>(answers[i] > 0)

(***************************************************************************)
(* "Caller may supply workflow_id ... Enables idempotent caller-controlled *)
(* submission" (docs/architecture.md:252): one task starts one workflow.   *)
(***************************************************************************)
SubmittedOnce == \A i \in 1..N : workflow[i].starts <= 1

=============================================================================
