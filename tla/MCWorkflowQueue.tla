------------------------- MODULE MCWorkflowQueue -------------------------
(* Small instances of WorkflowQueue: two processes, which is what a        *)
(* rolling deployment has, and up to three keys.                           *)
EXTENDS WorkflowQueue, TLC

CONSTANTS p1, p2, k1, k2, k3

TwoProcs == {p1, p2}

OneKey == {k1}
OneKind == k1 :> "probe"

TwoKeys == {k1, k2}
TwoKinds == k1 :> "probe" @@ k2 :> "probe_failure"

ThreeKeys == {k1, k2, k3}
ThreeKinds == TwoKinds @@ k3 :> "unregistered"

ProcSymmetry == Permutations(TwoProcs)
==========================================================================
