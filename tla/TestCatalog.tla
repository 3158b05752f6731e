---------------------------- MODULE TestCatalog ----------------------------
(***************************************************************************)
(* What the catalog of generated tests promises its readers, which are the *)
(* CI jobs that run it, the release evidence and the reuse of suites:      *)
(* a published suite is never replaced or removed, only the request that   *)
(* published a suite describes it, once, and a run record only ever links  *)
(* to a described suite of its own task.                                   *)
(*                                                                         *)
(* ExecutionAgent refines this specification (RefinesCatalog there).       *)
(***************************************************************************)
CONSTANTS
  Paths,      \* where suites may be published
  Tasks,      \* test runs, whose records link to suites
  Authors,    \* requests that publish
  None        \* no suite, no link

VARIABLES
  entries,    \* [Paths -> Entries \cup {None}]
  links       \* [Tasks -> Paths \cup {None}]

catalogVars == <<entries, links>>

\* files: the suite alone, or the suite with its author's metadata beside it.
Entries == [task : Tasks, author : Authors, files : {"suite", "both"}]

Init ==
  /\ entries = [p \in Paths |-> None]
  /\ links = [t \in Tasks |-> None]

Publish(p, t, a) ==
  /\ entries[p] = None
  /\ entries' = [entries EXCEPT ![p] = [task |-> t, author |-> a, files |-> "suite"]]
  /\ UNCHANGED links

Describe(p) ==
  /\ entries[p] \in Entries
  /\ entries[p].files = "suite"
  /\ entries' = [entries EXCEPT ![p].files = "both"]
  /\ UNCHANGED links

\* p holds a described suite of t.
Linkable(p, t) == entries[p] \in Entries /\ entries[p].task = t /\ entries[p].files = "both"

Link(t, p) ==
  /\ Linkable(p, t)
  /\ links' = [links EXCEPT ![t] = p]
  /\ UNCHANGED entries

\* Readers must not rely on a link to stay: see LinkKept in ExecutionAgent.
Unlink(t) ==
  /\ links' = [links EXCEPT ![t] = None]
  /\ UNCHANGED entries

Next ==
  \/ \E p \in Paths, t \in Tasks, a \in Authors : Publish(p, t, a)
  \/ \E p \in Paths : Describe(p)
  \/ \E t \in Tasks, p \in Paths : Link(t, p)
  \/ \E t \in Tasks : Unlink(t)

Spec == Init /\ [][Next]_catalogVars

=============================================================================
