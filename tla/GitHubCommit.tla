---------------------------- MODULE GitHubCommit ----------------------------
(***************************************************************************)
(* The GitHub commit agent (agents/github_commit/app.py): a background     *)
(* consumer of qe.task.commit that writes each test to one file of the     *)
(* repository, with a read (get_contents) and a conditional write          *)
(* (update_file with the sha that was read, or create_file).               *)
(*                                                                         *)
(* One replica, as it is deployed.  The calls to GitHub run in threads:    *)
(* cancelling the consumer, or the end of the process, abandons a request  *)
(* that is under way, and GitHub may still carry it out.  Offsets are      *)
(* committed automatically, and a group without one starts at the end.     *)
(* A sha is that of the content: it stands for the test in the file.       *)
(*                                                                         *)
(* ChangePipeline composes this agent with the one that sends its tasks,   *)
(* and states what it assumes of the constants.                            *)
(***************************************************************************)
EXTENDS Naturals, Sequences

CONSTANTS
  Tests,           \* what the file may contain
  MaxDisruptions,  \* bound on errors, cancellations and crashes
  None

VARIABLES
  tasks,        \* topic qe.task.commit: the tests to commit
  committed,    \* committed offset of the group, or None
  position,     \* tasks delivered to the consumer, or None without a partition
  consumer,     \* state of consumer_task, see Consumers
  read,         \* the file when the task in hand read it
  abandoned,    \* set of [test, read]: writes under way that nobody waits for
  file,         \* the test in the file on GitHub, or None
  started,      \* number of "consumer started successfully" replies
  disruptions

group == <<committed, position>>
github == <<abandoned, file>>
vars == <<tasks, committed, position, consumer, read, abandoned, file, started, disruptions>>

\* down: no process.  stopping: cancelled or failed, closing the Kafka consumer.
\* ended: the process has no consumer.
Active == {"joining", "polling", "reading", "writing"}

Consumers == Active \cup {"down", "stopping", "ended"}

Init ==
  /\ tasks = <<>>
  /\ committed = None
  /\ position = None
  /\ consumer = "joining"
  /\ read = None
  /\ abandoned = {}
  /\ file = None
  /\ started = 0
  /\ disruptions = 0

Disrupt == disruptions < MaxDisruptions /\ disruptions' = disruptions + 1

-----------------------------------------------------------------------------
\* start(): nothing, while a consumer task is not done; it may be stopping.
Execute ==
  /\ consumer # "down"
  /\ Disrupt
  /\ consumer' = IF consumer = "ended" THEN "joining" ELSE consumer
  /\ started' = started + 1
  /\ UNCHANGED <<tasks, group, read, github>>

\* The consumer gets its partition.
Join ==
  /\ consumer = "joining"
  /\ consumer' = "polling"
  /\ position' = IF committed = None THEN Len(tasks) ELSE committed
  /\ UNCHANGED <<tasks, committed, read, github, started, disruptions>>

\* Every five seconds, the offset of what was delivered so far.
AutoCommit ==
  /\ consumer \in Active
  /\ position # None
  /\ committed' = position
  /\ UNCHANGED <<tasks, position, consumer, read, github, started, disruptions>>

\* async for msg in self.consumer.
Deliver ==
  /\ consumer = "polling"
  /\ position < Len(tasks)
  /\ position' = position + 1
  /\ consumer' = "reading"
  /\ UNCHANGED <<tasks, committed, read, github, started, disruptions>>

\* Mutant: the file is read for the first task only.
BugReadsOnce ==
  /\ consumer = "reading"
  /\ read' = IF position = 1 THEN file ELSE read
  /\ consumer' = "writing"
  /\ UNCHANGED <<tasks, group, github, started, disruptions>>

\* get_contents: the file, or UnknownObjectException.
GetContents ==
  /\ consumer = "reading"
  /\ read' = file
  /\ consumer' = "writing"
  /\ UNCHANGED <<tasks, group, github, started, disruptions>>

\* External: GitHub writes the file if it is still the one that was read.
Write(w) == file' = IF file = w.read THEN w.test ELSE file

InHand == [test |-> tasks[position], read |-> read]

\* update_file or create_file; a conflict is logged, and the task dropped.
WriteFile ==
  /\ consumer = "writing"
  /\ Write(InHand)
  /\ consumer' = "polling"
  /\ UNCHANGED <<tasks, group, read, abandoned, started, disruptions>>

\* A call to GitHub fails, which drops the task; GitHub may carry out the write.
GitHubFails ==
  /\ consumer \in {"reading", "writing"}
  /\ Disrupt
  /\ abandoned' \in {abandoned} \cup
       IF consumer = "writing" THEN {abandoned \cup {InHand}} ELSE {}
  /\ consumer' = "polling"
  /\ UNCHANGED <<tasks, group, read, file, started>>

-----------------------------------------------------------------------------
\* The thread goes on with the write that the task waited for.
Abandon ==
  abandoned' = IF consumer = "writing" THEN abandoned \cup {InHand} ELSE abandoned

AbandonedWrite ==
  \E w \in abandoned :
    /\ Write(w)
    /\ abandoned' = abandoned \ {w}
    /\ UNCHANGED <<tasks, group, consumer, read, started, disruptions>>

\* tasks.cancel, or the end of the lifespan: stop().
Cancel ==
  /\ consumer \in Active
  /\ Disrupt
  /\ Abandon
  /\ consumer' = "stopping"
  /\ UNCHANGED <<tasks, group, read, file, started>>

\* The loop fails (the broker, a task that is not JSON), and nothing starts another.
LoopFails ==
  /\ consumer \in {"joining", "polling"}
  /\ Disrupt
  /\ consumer' = "stopping"
  /\ UNCHANGED <<tasks, group, read, github, started>>

\* consumer.stop() commits what was delivered, if it can, and leaves the group.
Stopped ==
  /\ consumer = "stopping"
  /\ consumer' = "ended"
  /\ committed' \in {committed} \cup IF position = None THEN {} ELSE {position}
  /\ position' = None
  /\ UNCHANGED <<tasks, read, github, started, disruptions>>

Crash ==
  /\ consumer # "down"
  /\ Disrupt
  /\ Abandon
  /\ consumer' = "down"
  /\ position' = None
  /\ UNCHANGED <<tasks, committed, read, file, started>>

\* The process starts again, and the lifespan calls start().
Restart ==
  /\ consumer = "down"
  /\ consumer' = "joining"
  /\ UNCHANGED <<tasks, group, read, github, started, disruptions>>

Consume == Join \/ Deliver \/ GetContents \/ WriteFile \/ GitHubFails \/ Stopped

Agent ==
  \/ Consume
  \/ Execute \/ AutoCommit \/ Cancel \/ LoopFails \/ Crash \/ Restart \/ AbandonedWrite

-----------------------------------------------------------------------------
(* Correctness *)

\* Type correctness of the topic, the consumer and the file.
TypeOK ==
  /\ tasks \in Seq(Tests)
  /\ committed \in 0..Len(tasks) \cup {None}
  /\ position \in 0..Len(tasks) \cup {None}
  /\ consumer \in Consumers
  /\ read \in Tests \cup {None}
  /\ abandoned \subseteq [test : Tests, read : Tests \cup {None}]
  /\ file \in Tests \cup {None}
  /\ started \in 0..MaxDisruptions
  /\ disruptions \in 0..MaxDisruptions

(***************************************************************************)
(* Between two tasks the file holds the test of the last one, as long as   *)
(* no call failed and no consumer was cancelled or crashed: no task is     *)
(* lost to a conflict with another of this agent (app.py:82-101).          *)
(***************************************************************************)
HoldsLast ==
  disruptions = 0 /\ consumer = "polling" /\ file # None => file = tasks[position]

=============================================================================
