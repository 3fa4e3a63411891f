------------------------------ MODULE BaseState ------------------------------
(* The base CV of one Consultant: load_base and save_base of                *)
(* backend/cv_state/service.py over one JSON file, under the lock of        *)
(* exclusive_profile_write.  That lock has two layers: a lock among the     *)
(* threads of one process, and flock() among processes.  On the deployed    *)
(* file system (NFS) flock() is granted to a process that has it already;   *)
(* the module assumes no more than that.                                    *)
(*                                                                         *)
(* A state stands for its canonical JSON, which its content hash tells      *)
(* apart from any other.                                                    *)
EXTENDS Naturals

CONSTANTS
  Tasks,        \* clients: one request of each is in progress at a time
  Processes,    \* server processes
  Home,         \* the process that serves a client's requests
  States,       \* CV states
  Empty,        \* the state of a Consultant without a file
  None,         \* nobody
  MaxRevision   \* bound on saves

ASSUME BaseStateAssumption ==
  /\ Home \in [Tasks -> Processes]
  /\ Empty \in States
  /\ None \notin Tasks /\ None \notin Processes
  /\ MaxRevision \in Nat

VARIABLES
  file,     \* cv_state.json: its revision and state
  thread,   \* who holds the thread lock of a process
  flock,    \* the process that holds the file lock
  at,       \* what a request does next
  wants,    \* the state it saves
  current,  \* the artifact it loaded under the lock, or saved
  seen      \* the revision its client has seen: expected_revision

vars == <<file, thread, flock, at, wants, current, seen>>

Artifacts == [revision : Nat, state : States]
Fresh == [revision |-> 0, state |-> Empty]

Init ==
  /\ file = Fresh
  /\ thread = [p \in Processes |-> None]
  /\ flock = None
  /\ at = [c \in Tasks |-> "idle"]
  /\ wants = [c \in Tasks |-> Empty]
  /\ current = [c \in Tasks |-> Fresh]
  /\ seen = [c \in Tasks |-> 0]

Goto(c, next) == at' = [at EXCEPT ![c] = next]

(* GET: load_base takes no lock; the file is always a whole document.      *)
LoadBase(c) ==
  /\ at[c] = "idle"
  /\ seen' = [seen EXCEPT ![c] = file.revision]
  /\ UNCHANGED <<file, thread, flock, at, wants, current>>

(* PUT with the revision the client has seen.                              *)
BeginSave(c, s) ==
  /\ at[c] = "idle"
  /\ wants' = [wants EXCEPT ![c] = s]
  /\ Goto(c, "thread")
  /\ UNCHANGED <<file, thread, flock, current, seen>>

(* Mutant of TakeThreadLock: flock() alone.                                *)
SkipThreadLock(c) ==
  /\ at[c] = "thread"
  /\ thread' = [thread EXCEPT ![Home[c]] = c]
  /\ Goto(c, "flock")
  /\ UNCHANGED <<file, flock, wants, current, seen>>

TakeThreadLock(c) ==
  /\ at[c] = "thread"
  /\ thread[Home[c]] = None
  /\ thread' = [thread EXCEPT ![Home[c]] = c]
  /\ Goto(c, "flock")
  /\ UNCHANGED <<file, flock, wants, current, seen>>

TakeFileLock(c) ==
  /\ at[c] = "flock"
  /\ flock \in {None, Home[c]}
  /\ flock' = Home[c]
  /\ Goto(c, "compare")
  /\ UNCHANGED <<file, thread, wants, current, seen>>

(* Under the lock: a revision the client has not seen is refused with 409,  *)
(* the content that is there already is answered as it is.                  *)
Compare(c) ==
  /\ at[c] = "compare"
  /\ current' = [current EXCEPT ![c] = file]
  /\ \/ seen[c] # file.revision /\ Goto(c, "refuse")
     \/ seen[c] = file.revision /\ wants[c] = file.state /\ Goto(c, "answer")
     \/ seen[c] = file.revision /\ wants[c] # file.state /\ Goto(c, "write")
  /\ UNCHANGED <<file, thread, flock, wants, seen>>

(* _atomic_write_json replaces the whole file, or fails and leaves it.     *)
Write(c) ==
  LET new == [revision |-> current[c].revision + 1, state |-> wants[c]] IN
  /\ at[c] = "write"
  /\ file.revision < MaxRevision
  /\ file' = new
  /\ current' = [current EXCEPT ![c] = new]
  /\ Goto(c, "answer")
  /\ UNCHANGED <<thread, flock, wants, seen>>

WriteFails(c) ==
  /\ at[c] = "write"
  /\ Goto(c, "refuse")
  /\ UNCHANGED <<file, thread, flock, wants, current, seen>>

(* Both locks are released and the client is answered: with the artifact,   *)
(* or with an error that tells it no revision.                             *)
Release(c) ==
  /\ at[c] \in {"answer", "refuse"}
  /\ thread' = [thread EXCEPT ![Home[c]] = None]
  /\ flock' = None
  /\ seen' = [seen EXCEPT ![c] =
                IF at[c] = "answer" THEN current[c].revision ELSE @]
  /\ Goto(c, "idle")
  /\ UNCHANGED <<file, wants, current>>

(* A process dies at any point of its requests; the system releases its     *)
(* locks, and the clients are not answered.                                *)
Crash(p) ==
  /\ thread' = [thread EXCEPT ![p] = None]
  /\ flock' = IF flock = p THEN None ELSE flock
  /\ at' = [c \in Tasks |-> IF Home[c] = p THEN "idle" ELSE at[c]]
  /\ UNCHANGED <<file, wants, current, seen>>

Next ==
  \/ \E c \in Tasks :
       \/ LoadBase(c)
       \/ \E s \in States : BeginSave(c, s)
       \/ TakeThreadLock(c) \/ TakeFileLock(c)
       \/ Compare(c) \/ Write(c) \/ WriteFails(c) \/ Release(c)
  \/ \E p \in Processes : Crash(p)

Spec == Init /\ [][Next]_vars

---------------------------------------------------------------------------
(* Properties.                                                             *)

Holding == {"compare", "write", "answer", "refuse"}

TypeOK ==
  /\ file \in Artifacts
  /\ thread \in [Processes -> Tasks \cup {None}]
  /\ flock \in Processes \cup {None}
  /\ at \in [Tasks -> {"idle", "thread", "flock"} \cup Holding]
  /\ wants \in [Tasks -> States]
  /\ current \in [Tasks -> Artifacts]
  /\ seen \in [Tasks -> Nat]

(* Who compares and writes has both layers of the lock, so that what it     *)
(* compared with is still there when it writes and when it answers          *)
(* (exclusive_profile_write around the whole of save_base).                 *)
ComparedIsStored ==
  /\ TypeOK
  /\ \A c \in Tasks : at[c] \in Holding \cup {"flock"} => thread[Home[c]] = c
  /\ \A c \in Tasks : at[c] \in Holding => flock = Home[c]
  /\ \A c \in Tasks : at[c] \in {"write", "answer"} => current[c] = file
  /\ \A c \in Tasks : at[c] = "write" =>
       seen[c] = file.revision /\ wants[c] # file.state

Store == INSTANCE VersionedStore
  WITH Clients <- Tasks, Values <- States, Initial <- Empty,
       value <- file.state, revision <- file.revision

(* save_base is a versioned store: no save replaces a revision its client   *)
(* has not seen, between threads, processes and crashes (STALE_WRITE_       *)
(* MESSAGE; save_base's docstring).                                        *)
ImplementsStore == Store!Spec
=============================================================================
