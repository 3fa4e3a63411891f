--------------------------- MODULE MCPublication ---------------------------
(* Small instances of Publication: two overlapping requests, a publication *)
(* and its successor, photos of two kinds.                                 *)
EXTENDS Publication, TLC

CONSTANTS s1, s2, p1, p2, jpg, png, l1, l2, a1, a2

TwoSessions == {s1, s2}
OnePub == {p1}
TwoPubs == {p1, p2}
OneExt == {jpg}
TwoExts == {jpg, png}
OneLook == {l1}
TwoLooks == {l1, l2}
OneAgent == {a1}
TwoAgents == {a1, a2}

Symmetry == Permutations(TwoSessions) \cup Permutations(TwoPubs)
              \cup Permutations(TwoExts) \cup Permutations(TwoLooks)
              \cup Permutations(TwoAgents)
============================================================================
