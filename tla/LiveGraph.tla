-------------------------------- MODULE LiveGraph --------------------------------
(***************************************************************************)
(* The live graph of tests: the events that the generation agent           *)
(* (agents/test_generation/app.py:1103-1119) and the execution agents      *)
(* (agents/test_execution/app.py:81-94) post, the buffer of the            *)
(* diagnostics agent and the graph it shows                                *)
(* (agents/diagnostics/app.py, graph_event, _base_graph).                  *)
(*                                                                         *)
(* A reporter waits for the answer to its event, with a timeout of three   *)
(* seconds, and goes on without one; the request may then still arrive.    *)
(* The handler awaits nothing, so an event is taken in one step. The       *)
(* buffer and the targets observed are in memory. Stage events of          *)
(* workflows share the buffer and are like the events of one more test.    *)
(***************************************************************************)
EXTENDS Naturals, Sequences

CONSTANTS Tests,
          Executions, \* requests to execute a test; each is of one test and runs once
          Task,       \* the test that an execution is of
          Target,     \* the agent that each test validates
          MaxEvents,  \* the length of the buffer
          None

\* A test is reported by its generation, and by each of its executions.
Reporters == Tests \cup Executions

TestOf(r) == IF r \in Tests THEN r ELSE Task[r]

Ended == {"passed", "failed"}

Event == [by : Reporters, status : {"queued", "running"} \cup Ended]

ASSUME GraphAssumption ==
  /\ MaxEvents \in Nat \ {0}
  /\ Tests \cap Executions = {} /\ Task \in [Executions -> Tests]
  /\ None \notin Event

VARIABLES stage,    \* how far a reporter is
          waiting,  \* the event a reporter waits for, or None
          earlier,  \* of an execution: the reporters of its test that were done when it began
          flight,   \* the events posted and not taken
          events,   \* the buffer, the newest first
          observed  \* the targets observed

vars == <<stage, waiting, earlier, flight, events, observed>>

Init == /\ stage = [r \in Reporters |-> "none"]
        /\ waiting = [r \in Reporters |-> None]
        /\ earlier = [x \in Executions |-> {}]
        /\ flight = {}
        /\ events = << >>
        /\ observed = {}

-----------------------------------------------------------------------------
(* The tests and their reporters *)

Post(r, status) ==
  LET e == [by |-> r, status |-> status]
  IN  /\ stage' = [stage EXCEPT ![r] = status]
      /\ waiting' = [waiting EXCEPT ![r] = e]
      /\ flight' = flight \cup {e}
      /\ UNCHANGED <<events, observed>>

\* The row of the suite is stored; the generation is answered after its event.
Generated(t) == /\ stage[t] = "none"
                /\ Post(t, "queued")
                /\ UNCHANGED earlier

\* A reporter that posts nothing any more and waits for nothing.
Done(r) == waiting[r] = None /\ stage[r] \in {"queued", "stopped"} \cup Ended

\* The suite is loaded from its row. Nothing keeps executions of one test apart: a retry of the
\* activity, the confirmation of a finding and runs that reuse a suite overlap.
Started(x) == /\ stage[x] = "none" /\ stage[Task[x]] = "queued"
              /\ earlier' = [earlier EXCEPT ![x] =
                   {r \in Reporters : TestOf(r) = Task[x] /\ Done(r)}]
              /\ Post(x, "running")

Completed(x) == /\ waiting[x] = None
                /\ stage[x] = "running"
                /\ \E status \in Ended : Post(x, status)
                /\ UNCHANGED earlier

\* The execution raises, in a repair or at its persistence, or its process stops: nothing is
\* posted.
Stopped(x) == /\ waiting[x] = None
              /\ stage[x] = "running"
              /\ stage' = [stage EXCEPT ![x] = "stopped"]
              /\ UNCHANGED <<waiting, earlier, flight, events, observed>>

\* The time is up, and the request is under way.
GoesOn(r) == /\ waiting[r] # None
             /\ waiting' = [waiting EXCEPT ![r] = None]
             /\ UNCHANGED <<stage, earlier, flight, events, observed>>

Answered(e) == waiting' = [waiting EXCEPT ![e.by] = IF @ = e THEN None ELSE @]

\* No connection, or the answer is an error.
Lost(e) == /\ flight' = flight \ {e}
           /\ Answered(e)
           /\ UNCHANGED <<stage, earlier, events, observed>>

-----------------------------------------------------------------------------
(* The diagnostics agent *)

\* Mutant: a full buffer makes room at the wrong end.
BugDropsNewest(e) ==
  IF Len(events) < MaxEvents THEN <<e>> \o events ELSE <<e>> \o Tail(events)

\* appendleft on a deque with maxlen.
AppendLeft(e) ==
  IF Len(events) < MaxEvents THEN <<e>> \o events
  ELSE <<e>> \o SubSeq(events, 1, MaxEvents - 1)

\* Mutant: the target is observed when its test is generated.
BugObservesOnce(e) ==
  IF e.status = "queued" THEN observed \cup {Target[TestOf(e.by)]} ELSE observed

Observe(e) == observed \cup {Target[TestOf(e.by)]}

Take(e) == /\ flight' = flight \ {e}
           /\ events' = AppendLeft(e)
           /\ observed' = Observe(e)
           /\ Answered(e)
           /\ UNCHANGED <<stage, earlier>>

Restart == /\ events' = << >>
           /\ observed' = {}
           /\ UNCHANGED <<stage, waiting, earlier, flight>>

\* The graph: of the events of a test, the nodes of the newest win.
Newest(seq) == {n \in DOMAIN seq : \A m \in 1 .. n - 1 : TestOf(seq[m].by) # TestOf(seq[n].by)}

-----------------------------------------------------------------------------
Execution(x) == Started(x) \/ Completed(x) \/ Stopped(x)

Deliver(e) == Take(e) \/ Lost(e)

Next == \/ \E t \in Tests : Generated(t)
        \/ \E x \in Executions : Execution(x)
        \/ \E r \in Reporters : GoesOn(r)
        \/ \E e \in flight : Deliver(e)
        \/ Restart

Spec == Init /\ [][Next]_vars

-----------------------------------------------------------------------------
(* Properties *)

(***************************************************************************)
(* Every edge that validates a target leads to a node: whatever events the *)
(* buffer has dropped and the agent has lost, the target of a test that is *)
(* shown is observed (diagnostics/app.py:572-597).                         *)
(***************************************************************************)
TargetsShown == \A n \in DOMAIN events : Target[TestOf(events[n].by)] \in observed

Stages == [queued |-> 0, running |-> 1, passed |-> 2, failed |-> 2]

\* The one was posted before the other, by the same reporter or by one that was done.
Before(e, f) == \/ e.by = f.by /\ Stages[e.status] < Stages[f.status]
                \/ f.by \in Executions /\ e.by \in earlier[f.by]

\* An event that its reporter no longer waits for.
Late(e) == e \in flight /\ waiting[e.by] # e

(***************************************************************************)
(* "The graph reports queued -> running -> passed|failed for each          *)
(* generated test" (docs/testing-agents.md:322): what is shown of a test   *)
(* never goes back to an event of the same execution, or of a generation   *)
(* or an execution that was done before, whatever events were lost,        *)
(* dropped from the full buffer or forgotten.  The one exception is an     *)
(* event that arrives after its reporter went on without an answer: it     *)
(* goes on top of the later ones (diagnostics/app.py:55, 398-402,          *)
(* 585-597).  Executions that overlap have no order: the graph shows       *)
(* whichever of them reported last.                                        *)
(***************************************************************************)
StatusGoesForward ==
  [][\A n \in Newest(events), m \in Newest(events') :
       LET old == events[n]
           new == events'[m]
       IN  TestOf(old.by) = TestOf(new.by) => ~Before(new, old) \/ Late(new)]_vars
=============================================================================
