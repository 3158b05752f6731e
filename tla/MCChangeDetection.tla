------------------------- MODULE MCChangeDetection -------------------------
\* Two detections and a dry run, interchangeable within their kind.
EXTENDS ChangeDetection, TLC

CONSTANTS r1, r2, d1

MCRequests == {r1, r2, d1}
MCDry == {d1}

Symmetry == Permutations({r1, r2})

=============================================================================
