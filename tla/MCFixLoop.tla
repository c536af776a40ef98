------------------------------ MODULE MCFixLoop ------------------------------
(***************************************************************************)
(* Instances of FixLoop for TLC.                                           *)
(***************************************************************************)
EXTENDS FixLoop, TLC

CONSTANTS r1, r2, r3, w1, w2

TwoRuns == {r1, r2}
ThreeRuns == {r1, r2, r3}
OneWorker == {w1}
TwoWorkers == {w1, w2}

\* Runs are interchangeable, and so are threads.
Interchangeable == Permutations(ThreeRuns) \cup Permutations(TwoWorkers)
=============================================================================
