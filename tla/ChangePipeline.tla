--------------------------- MODULE ChangePipeline ---------------------------
(***************************************************************************)
(* The change pipeline: the change detection agent and the GitHub commit   *)
(* agent, which consumes the tasks that the first one sends.               *)
(***************************************************************************)
EXTENDS ChangeDetection

CONSTANT MaxDisruptions   \* bound on what goes wrong in the commit agent

ASSUME PipelineAssumption ==
  /\ MaxDisruptions \in Nat
  /\ None \notin Nat

VARIABLES committed, position, consumer, read, abandoned, file, started, disruptions

agentVars == <<committed, position, consumer, read, abandoned, file, started, disruptions>>
pipelineVars == <<vars, agentVars>>

Commits == INSTANCE GitHubCommit WITH Tests <- Versions

PipelineInit == Init /\ Commits!Init

Detect == Next /\ UNCHANGED agentVars

Commit ==
  /\ Commits!Agent
  /\ UNCHANGED <<page, cache, events, pc, asked, seen, passed, result>>

PipelineNext == Detect \/ Commit

PipelineSpec == PipelineInit /\ [][PipelineNext]_pipelineVars

-----------------------------------------------------------------------------
(***************************************************************************)
(* The file holds a test that passed in a detection, and that had been     *)
(* published: "only quality-gated passing tests are cataloged"             *)
(* (agents/github_commit/README.md:15).                                    *)
(***************************************************************************)
FilePassed ==
  file # None =>
    /\ Published(file)
    /\ \E r \in Requests \ Dry : passed[r] /\ seen[r] = file

(***************************************************************************)
(* Whatever detections send while it works, the commit agent, undisturbed, *)
(* leaves the test of its last task in the file, rather than lose it to a  *)
(* conflict with its own earlier write (github_commit/app.py:82-101).      *)
(***************************************************************************)
FileHoldsLast == Commits!HoldsLast

=============================================================================
