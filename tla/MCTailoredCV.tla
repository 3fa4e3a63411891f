--------------------------- MODULE MCTailoredCV ---------------------------
(* Small instances of TailoredCV: two requests, two overlapping            *)
(* invocations, two different input snapshots.                             *)
EXTENDS TailoredCV, TLC

CONSTANTS s1, s2, w1, w2, i1, i2

OneSession == {s1}
TwoSessions == {s1, s2}
OneWorker == {w1}
TwoWorkers == {w1, w2}
OneInput == {i1}
TwoInputs == {i1, i2}

Symmetry == Permutations(TwoSessions) \cup Permutations(TwoWorkers)
              \cup Permutations(TwoInputs)
==========================================================================
