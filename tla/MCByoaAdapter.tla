--------------------------- MODULE MCByoaAdapter ---------------------------
(* Tasks of ByoaAdapter for model checking. *)
EXTENDS ByoaAdapter

\* A workflow, a task for the execution agent, one that is refused, and a message that
\* cannot be read.
MCKind == <<"run", "dispatch", "refused", "poison">>

=============================================================================
