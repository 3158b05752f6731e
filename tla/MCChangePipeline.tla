-------------------------- MODULE MCChangePipeline --------------------------
\* Two detections, interchangeable.
EXTENDS ChangePipeline, TLC

Symmetry == Permutations(Requests)

=============================================================================
