---------------------------- MODULE MCCVImport ----------------------------
(* Small instances of CVImport: two upload requests, two overlapping       *)
(* invocations, two contents.                                              *)
EXTENDS CVImport, TLC

CONSTANTS s1, s2, w1, w2, f1, f2, f3, h1, h2

OneSession == {s1}
TwoSessions == {s1, s2}
OneWorker == {w1}
TwoWorkers == {w1, w2}
TwoFiles == {f1, f2}
ThreeFiles == {f1, f2, f3}
OneHash == {h1}
TwoHashes == {h1, h2}

AllTroubles == Troubles
CrashOnly == {"crash"}
NoFaults == {"crash", "overlap"}

Symmetry == Permutations(TwoSessions) \cup Permutations(TwoWorkers)
              \cup Permutations(ThreeFiles) \cup Permutations(TwoHashes)
===========================================================================
