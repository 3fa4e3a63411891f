--------------------------- MODULE VersionedStore ---------------------------
(* What a compare-and-write store promises its clients: one value with a    *)
(* revision, and a save that takes effect only over the very revision its   *)
(* client has seen, and is then the next one.  No saved value is replaced   *)
(* by a client that has not seen it.                                        *)
EXTENDS Naturals

CONSTANTS Clients, Values, Initial

VARIABLES
  value,     \* what is stored
  revision,  \* how often it was replaced
  seen       \* the revision a client has seen

Init ==
  /\ value = Initial
  /\ revision = 0
  /\ seen = [c \in Clients |-> 0]

(* A client reads, or is answered with, the revision that is stored.       *)
See(c) ==
  /\ seen' = [seen EXCEPT ![c] = revision]
  /\ UNCHANGED <<value, revision>>

Save(c) ==
  /\ seen[c] = revision
  /\ value' \in Values \ {value}
  /\ revision' = revision + 1
  /\ UNCHANGED seen

Next == \E c \in Clients : See(c) \/ Save(c)

Spec == Init /\ [][Next]_<<value, revision, seen>>
=============================================================================
