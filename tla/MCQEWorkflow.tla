---------------------------- MODULE MCQEWorkflow ----------------------------
(* Runs of QEWorkflow for model checking. *)
EXTENDS QEWorkflow
=============================================================================
