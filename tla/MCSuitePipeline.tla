--------------------------- MODULE MCSuitePipeline ---------------------------
(* Two runs with one fingerprint: each may reuse what the other has in the catalog, *)
(* repair it, or be regenerated after a rejection.                                  *)
EXTENDS SuitePipeline

CONSTANTS r1, r2, contract

MCFingerprint == [r \in Runs |-> "inputs"]

MCContract == [r \in Runs |-> contract]

=============================================================================
