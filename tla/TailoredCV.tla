---------------------------- MODULE TailoredCV ----------------------------
(***************************************************************************)
(* The tailored CV of one Application (tailored_cv/service.py, handler.py):*)
(* requesting a generation, the background invocations that produce it,    *)
(* saving an edit against a revision, and the terminal transition of the   *)
(* Application that deletes the row.  Requests are transactions holding    *)
(* row locks; invocations are those of WorkflowQueue, seen from here: a    *)
(* run is claimed, may be requeued while its first invocation still lives, *)
(* and ends succeeded or failed after the handler returned or raised.      *)
(***************************************************************************)
EXTENDS Naturals

CONSTANTS
  Sessions,      \* concurrent requests
  Workers,       \* handler invocations that can be alive at once
  Inputs,        \* input snapshots, told apart by their hash
  None,
  MaxAttempts,   \* bound on generation_attempt + 1
  MaxEdited,     \* bound on the revision an edit makes
  MaxOverlaps,   \* bound on requeues of a run whose invocation is alive
  MaxCrashes,    \* bound on invocations that die with their process
  MaxFaults,     \* bound on failing statements of the handler
  MaxTroubles    \* bound on the three together, see Troubles

(* The documents that edits leave, each known by the revision it made.     *)
Edits == 1..MaxEdited

ASSUME NoneAssumption ==
  None \notin Sessions /\ None \notin Inputs /\ Edits \cap (Inputs \cup {None}) = {}
ASSUME BoundAssumption ==
  /\ {MaxAttempts, MaxEdited, MaxOverlaps, MaxCrashes, MaxFaults,
   MaxTroubles} \subseteq Nat
  /\ MaxAttempts # 0

Attempts == 0..(MaxAttempts - 1)

VARIABLES
  terminal,      \* the Application has reached a terminal status
  \* the tailored_cvs row
  exists, status, attempt, inputHash, revision, content,
  \* workflow_runs, by the attempt in their idempotency key
  runStatus, runHash,
  \* row locks and the requests that hold them
  appLock, cvLock, op, pc, seenTerminal, seenRevision, seenContent, created,
  misled,        \* history: the reply to its save named another's revision
  \* the invocations
  phase, runOf, snapshot,
  \* history: an edit since the last request, the attempts whose outcome the
  \* row has received; and the bounds' counters
  editedSince, landed, overlaps, crashes, faults

row      == <<exists, status, attempt, inputHash, revision, content>>
runs     == <<runStatus, runHash>>
requests == <<appLock, cvLock, op, pc, seenTerminal, seenRevision, seenContent, created,
              misled>>
workers  == <<phase, runOf, snapshot>>
history  == <<editedSince, landed>>
counters == <<overlaps, crashes, faults>>
vars     == <<terminal, row, runs, requests, workers, history, counters>>

(* What a CV document was made from: nothing yet, the snapshot of a        *)
(* generation, or an edit.                                                 *)
Documents == Inputs \cup {None} \cup Edits

Ops == {"none", "generate", "save", "transition"}
PCs == {"idle", "start", "locked", "ready", "reply"}
RunStatuses == {"absent", "queued", "running", "succeeded", "failed"}
Phases == {"none", "check", "generate", "invalid", "store", "raised", "returned"}

Active(n) == runStatus[n] \in {"queued", "running"}

TypeOK ==
  /\ terminal \in BOOLEAN
  /\ exists \in BOOLEAN
  /\ status \in {"generating", "ready", "failed"}
  /\ attempt \in Attempts
  /\ inputHash \in Inputs \cup {None}
  /\ revision \in Nat
  /\ content \in Documents
  /\ runStatus \in [Attempts -> RunStatuses]
  /\ runHash \in [Attempts -> Inputs \cup {None}]
  /\ appLock \in Sessions \cup {None}
  /\ cvLock \in Sessions \cup {None}
  /\ op \in [Sessions -> Ops]
  /\ pc \in [Sessions -> PCs]
  /\ seenTerminal \in [Sessions -> BOOLEAN]
  /\ seenRevision \in [Sessions -> Nat]
  /\ seenContent \in [Sessions -> Documents]
  /\ created \in [Sessions -> BOOLEAN]
  /\ misled \in [Sessions -> BOOLEAN]
  /\ phase \in [Workers -> Phases]
  /\ runOf \in [Workers -> Attempts]
  /\ snapshot \in [Workers -> Inputs \cup {None}]
  /\ editedSince \in BOOLEAN
  /\ landed \subseteq Attempts
  /\ overlaps \in 0..MaxOverlaps
  /\ crashes \in 0..MaxCrashes
  /\ faults \in 0..MaxFaults

Init ==
  /\ terminal = FALSE
  /\ exists = FALSE
  /\ status = "generating"
  /\ attempt = 0
  /\ inputHash = None
  /\ revision = 0
  /\ content = None
  /\ runStatus = [n \in Attempts |-> "absent"]
  /\ runHash = [n \in Attempts |-> None]
  /\ appLock = None
  /\ cvLock = None
  /\ op = [s \in Sessions |-> "none"]
  /\ pc = [s \in Sessions |-> "idle"]
  /\ seenTerminal = [s \in Sessions |-> FALSE]
  /\ seenRevision = [s \in Sessions |-> 0]
  /\ seenContent = [s \in Sessions |-> None]
  /\ created = [s \in Sessions |-> FALSE]
  /\ misled = [s \in Sessions |-> FALSE]
  /\ phase = [w \in Workers |-> "none"]
  /\ runOf = [w \in Workers |-> 0]
  /\ snapshot = [w \in Workers |-> None]
  /\ editedSince = FALSE
  /\ landed = {}
  /\ overlaps = 0
  /\ crashes = 0
  /\ faults = 0

--------------------------------------------------------------------------
(* Requests.                                                               *)

At(s, o, where) == op[s] = o /\ pc[s] = where

Goto(s, where) == pc' = [pc EXCEPT ![s] = where]

(* Commit or rollback: the request is answered and its locks are free.     *)
EndRequest(s) ==
  /\ op' = [op EXCEPT ![s] = "none"]
  /\ pc' = [pc EXCEPT ![s] = "idle"]
  /\ seenTerminal' = [seenTerminal EXCEPT ![s] = FALSE]
  /\ seenRevision' = [seenRevision EXCEPT ![s] = 0]
  /\ seenContent' = [seenContent EXCEPT ![s] = None]
  /\ created' = [created EXCEPT ![s] = FALSE]
  /\ misled' = [misled EXCEPT ![s] = FALSE]
  /\ appLock' = IF appLock = s THEN None ELSE appLock
  /\ cvLock' = IF cvLock = s THEN None ELSE cvLock

Refuse(s) ==
  /\ EndRequest(s)
  /\ UNCHANGED <<terminal, row, runs, workers, history, counters>>

(* Everything but the requests stays as it is. *)
OnlyRequests == UNCHANGED <<terminal, row, runs, workers, history, counters>>

(* A request for the Application, whose status counts under its lock, or   *)
(* the editor with the document it has loaded.                             *)
Begin(s, o) ==
  /\ pc[s] = "idle"
  /\ o = "save" => exists
  /\ op' = [op EXCEPT ![s] = o]
  /\ seenRevision' = [seenRevision EXCEPT ![s] = IF o = "save" THEN revision ELSE 0]
  /\ seenContent' = [seenContent EXCEPT ![s] = IF o = "save" THEN content ELSE None]
  /\ Goto(s, "start")
  /\ UNCHANGED <<appLock, cvLock, seenTerminal, created, misled>>
  /\ OnlyRequests

(* lock_application: FOR UPDATE and reload. *)
LockApplication(s) ==
  /\ At(s, "generate", "start") \/ At(s, "transition", "start")
  /\ appLock = None
  /\ appLock' = s
  /\ seenTerminal' = [seenTerminal EXCEPT ![s] = terminal]
  /\ Goto(s, "locked")
  /\ UNCHANGED <<cvLock, op, seenRevision, seenContent, created, misled>>
  /\ OnlyRequests

RefuseTerminal(s) ==
  /\ At(s, "generate", "locked") \/ At(s, "transition", "locked")
  /\ seenTerminal[s]
  /\ Refuse(s)

(* build_input_snapshot, then _get_or_create and lock_tailored; a missing  *)
(* profile or photo refuses instead.                                       *)
PrepareGeneration(s) ==
  /\ At(s, "generate", "locked") /\ ~seenTerminal[s]
  /\ exists => cvLock = None
  /\ created' = [created EXCEPT ![s] = ~exists]
  /\ cvLock' = s
  /\ Goto(s, "ready")
  /\ UNCHANGED <<appLock, op, seenTerminal, seenRevision, seenContent, misled>>
  /\ OnlyRequests

RefuseUntailorable(s) ==
  /\ At(s, "generate", "locked") /\ ~seenTerminal[s]
  /\ Refuse(s)

InFlight == exists /\ status = "generating" /\ Active(attempt)

(* The run of an identical request is joined, a different one refused.     *)
JoinOrRefuse(s) ==
  /\ At(s, "generate", "ready") /\ ~created[s] /\ InFlight
  /\ Refuse(s)

NextAttempt(s) == IF created[s] THEN 0 ELSE attempt + 1

(* Mutant of StartGeneration: a generation in flight is not looked for.    *)
StartGenerationUnchecked(s) ==
  /\ At(s, "generate", "ready")
  /\ NextAttempt(s) \in Attempts
  /\ exists' = TRUE
  /\ status' = "generating"
  /\ attempt' = NextAttempt(s)
  /\ inputHash' \in Inputs
  /\ runStatus' = [runStatus EXCEPT ![NextAttempt(s)] = "queued"]
  /\ runHash' = [runHash EXCEPT ![NextAttempt(s)] = inputHash']
  /\ editedSince' = FALSE
  /\ EndRequest(s)
  /\ UNCHANGED <<terminal, revision, content, workers, landed, counters>>

(* A new attempt: row and run become visible in the one commit of enqueue. *)
(* The snapshot is what the profile, the base CV and the posting, which    *)
(* are edited elsewhere, were when it was built: any of Inputs.            *)
StartGeneration(s) ==
  /\ At(s, "generate", "ready")
  /\ created[s] \/ ~InFlight
  /\ NextAttempt(s) \in Attempts
  /\ exists' = TRUE
  /\ status' = "generating"
  /\ attempt' = NextAttempt(s)
  /\ inputHash' \in Inputs
  /\ runStatus' = [runStatus EXCEPT ![NextAttempt(s)] = "queued"]
  /\ runHash' = [runHash EXCEPT ![NextAttempt(s)] = inputHash']
  /\ editedSince' = FALSE
  /\ EndRequest(s)
  /\ UNCHANGED <<terminal, revision, content, workers, landed, counters>>

(* The bound: no attempt is left. *)
BeyondBound(s) ==
  /\ At(s, "generate", "ready") /\ NextAttempt(s) \notin Attempts
  /\ Refuse(s)

(* The terminal transition deletes the row, which waits for its lock.  A   *)
(* row that is gone has the values of Init, but for the attempt, which     *)
(* tells its runs apart.                                                   *)
ReachTerminal(s) ==
  /\ At(s, "transition", "locked") /\ ~seenTerminal[s]
  /\ cvLock = None
  /\ terminal' = TRUE
  /\ exists' = FALSE
  /\ status' = "generating"
  /\ inputHash' = None
  /\ revision' = 0
  /\ content' = None
  /\ editedSince' = FALSE
  /\ EndRequest(s)
  /\ UNCHANGED <<attempt, runs, workers, landed, counters>>

(* save_state: lock_tailored answers 404 when the row is gone.             *)
LockForSave(s) ==
  /\ At(s, "save", "start") /\ exists
  /\ cvLock = None
  /\ cvLock' = s
  /\ Goto(s, "ready")
  /\ UNCHANGED <<appLock, op, seenTerminal, seenRevision, seenContent, created,
                 misled>>
  /\ OnlyRequests

SaveNotFound(s) ==
  /\ At(s, "save", "start") /\ ~exists
  /\ Refuse(s)

(* Mid-generation, or a stale revision.                                    *)
SaveRefused(s) ==
  /\ At(s, "save", "ready")
  /\ InFlight \/ seenRevision[s] # revision
  /\ Refuse(s)

(* What is stored already is a no-op, answered with what the lock showed.  *)
SaveUnchanged(s) ==
  /\ At(s, "save", "ready") /\ ~InFlight
  /\ seenRevision[s] = revision /\ seenContent[s] = content
  /\ Refuse(s)

(* The document of the editor of s is the next revision; the commit frees  *)
(* the row, and the reply is still to be made.                             *)
StoreEdit(s) ==
  /\ revision < MaxEdited
  /\ content' = revision + 1
  /\ revision' = revision + 1
  /\ editedSince' = TRUE
  /\ seenRevision' = [seenRevision EXCEPT ![s] = revision + 1]
  /\ seenContent' = [seenContent EXCEPT ![s] = revision + 1]
  /\ misled' = [misled EXCEPT ![s] = FALSE]
  /\ cvLock' = None
  /\ Goto(s, "reply")
  /\ UNCHANGED <<terminal, exists, status, attempt, inputHash, runs, appLock,
                 op, seenTerminal, created, workers, landed, counters>>

(* Mutant of SaveEdit: the revision the editor loaded is not compared.     *)
SaveEditUnseen(s) == At(s, "save", "ready") /\ ~InFlight /\ StoreEdit(s)

SaveEdit(s) ==
  /\ At(s, "save", "ready")
  /\ ~InFlight
  /\ seenRevision[s] = revision
  /\ StoreEdit(s)

(* db.refresh after the commit: the reply is the row as it is by now, and  *)
(* the editor, which keeps its own document, saves it against that         *)
(* revision next.                                                          *)
Reply(s) ==
  /\ At(s, "save", "reply") /\ exists
  /\ misled' = [misled EXCEPT ![s] = revision # seenRevision[s]]
  /\ seenRevision' = [seenRevision EXCEPT ![s] = revision]
  /\ Goto(s, "start")
  /\ UNCHANGED <<appLock, cvLock, op, seenTerminal, seenContent, created>>
  /\ OnlyRequests

(* The row was deleted in the gap: db.refresh raises.                      *)
ReplyNotFound(s) == At(s, "save", "reply") /\ ~exists /\ Refuse(s)

SaveBeyondBound(s) == At(s, "save", "ready") /\ revision >= MaxEdited /\ Refuse(s)

--------------------------------------------------------------------------
(* Invocations.                                                            *)

OnlyWorkers == UNCHANGED <<terminal, requests>>

Enter(w, ph) == phase' = [phase EXCEPT ![w] = ph]

Claim(w) ==
  /\ phase[w] = "none"
  /\ \E n \in Attempts :
       /\ runStatus[n] = "queued"
       /\ runStatus' = [runStatus EXCEPT ![n] = "running"]
       /\ runOf' = [runOf EXCEPT ![w] = n]
  /\ Enter(w, "check")
  /\ UNCHANGED <<row, runHash, snapshot, history, counters>> /\ OnlyWorkers

Current(n) == attempt = n /\ inputHash = runHash[n] /\ status = "generating"

(* The handler observes: deleted, superseded or landed, or its own to do.  *)
CheckCurrent(w) ==
  /\ phase[w] = "check"
  /\ Enter(w, CASE ~exists -> "raised"
                [] exists /\ ~Current(runOf[w]) -> "returned"
                [] exists /\ Current(runOf[w]) -> "generate")
  /\ UNCHANGED <<row, runs, runOf, snapshot, history, counters>> /\ OnlyWorkers

(* record_stage committed, so input_snapshot is read from the row as it is *)
(* now; the model call yields a document, none, or an exception.           *)
Generate(w) ==
  /\ phase[w] = "generate"
  /\ IF exists
     THEN /\ snapshot' = [snapshot EXCEPT ![w] = inputHash]
          /\ \E ph \in {"store", "invalid"} : Enter(w, ph)
     ELSE Enter(w, "raised") /\ UNCHANGED snapshot
  /\ UNCHANGED <<row, runs, runOf, history, counters>> /\ OnlyWorkers

(* Mutant of Owns: the UPDATE only asks for a generating row.              *)
OwnsAnyGenerating(w) == exists /\ status = "generating"

(* Mutant of Owns: whether the attempt was decided already is not asked.   *)
OwnsWithoutStatus(w) ==
  exists /\ attempt = runOf[w] /\ inputHash = runHash[runOf[w]]

(* The row is the invocation's to write: no request holds its lock, and    *)
(* the WHERE clause of the UPDATE finds it.                                *)
Owns(w) == exists /\ Current(runOf[w])

(* History: the attempt of w has had its effect on the row.                *)
Land(w) == landed' = IF Owns(w) THEN landed \cup {runOf[w]} ELSE landed

(* Mutant of RecordFailure: the row is left to the run's own failure.      *)
RecordFailureOnRunOnly(w) ==
  /\ phase[w] = "invalid"
  /\ Enter(w, "raised")
  /\ UNCHANGED <<row, runs, runOf, snapshot, history, counters>>
  /\ OnlyWorkers

(* record_generation_failure, then the exception goes on to the runner.    *)
RecordFailure(w) ==
  /\ phase[w] = "invalid"
  /\ exists => cvLock = None
  /\ status' = IF Owns(w) THEN "failed" ELSE status
  /\ Enter(w, "raised")
  /\ Land(w)
  /\ UNCHANGED <<exists, attempt, inputHash, revision, content, runs, runOf,
                 snapshot, editedSince, counters>>
  /\ OnlyWorkers

(* The one conditional UPDATE of commit_generated_state_once.              *)
StoreGenerated(w) ==
  /\ content' = IF Owns(w) THEN snapshot[w] ELSE content
  /\ revision' = IF Owns(w) THEN revision + 1 ELSE revision
  /\ status' = IF Owns(w) THEN "ready" ELSE status
  /\ Land(w)
  /\ UNCHANGED <<exists, attempt, inputHash>>

(* An UPDATE without effect is followed by _reload, which raises when the  *)
(* row is gone.                                                            *)
CommitGenerated(w) ==
  /\ phase[w] = "store"
  /\ exists => cvLock = None
  /\ StoreGenerated(w)
  /\ Enter(w, IF exists THEN "returned" ELSE "raised")
  /\ UNCHANGED <<runs, runOf, snapshot, editedSince, counters>> /\ OnlyWorkers

(* A bound of 2 admits an overlap with a fault, or a crash.                *)
Troubles == overlaps + faults + 2 * crashes

(* A statement fails: a record_stage or the commit (perhaps after it took  *)
(* effect), whose exception the handler does not record on the row, or the *)
(* failure record itself, whose exception it swallows.                     *)
HandlerFault(w) ==
  /\ \/ phase[w] \in {"check", "generate", "invalid", "store"} /\ UNCHANGED <<row, landed>>
     \/ phase[w] = "store" /\ cvLock = None /\ StoreGenerated(w)
  /\ Enter(w, "raised")
  /\ faults < MaxFaults /\ Troubles < MaxTroubles /\ faults' = faults + 1
  /\ UNCHANGED <<runs, runOf, snapshot, editedSince, overlaps, crashes>> /\ OnlyWorkers

(* The runner's terminal write: succeeded stands, failed can be upgraded.  *)
Finish(w) ==
  /\ phase[w] \in {"raised", "returned"}
  /\ runStatus' = [runStatus EXCEPT ![runOf[w]] =
       IF @ = "succeeded" \/ phase[w] = "returned" THEN "succeeded" ELSE "failed"]
  /\ Enter(w, "none")
  /\ runOf' = [runOf EXCEPT ![w] = 0]
  /\ snapshot' = [snapshot EXCEPT ![w] = None]
  /\ UNCHANGED <<row, runHash, history, counters>> /\ OnlyWorkers

Crash(w) ==
  /\ phase[w] # "none"
  /\ crashes < MaxCrashes /\ Troubles + 1 < MaxTroubles /\ crashes' = crashes + 1
  /\ Enter(w, "none")
  /\ runOf' = [runOf EXCEPT ![w] = 0]
  /\ snapshot' = [snapshot EXCEPT ![w] = None]
  /\ UNCHANGED <<row, runs, history, overlaps, faults>> /\ OnlyWorkers

Invoked(n) == \E w \in Workers : phase[w] # "none" /\ runOf[w] = n

(* recover_interrupted after a crash.                                      *)
Recover(n) ==
  /\ runStatus[n] = "running" /\ ~Invoked(n)
  /\ runStatus' = [runStatus EXCEPT ![n] = "queued"]
  /\ UNCHANGED <<row, runHash, workers, history, counters>> /\ OnlyWorkers

(* recover_interrupted after a lost lock session, with the invocation of   *)
(* the old leader still alive.                                             *)
RecoverAlive(n) ==
  /\ runStatus[n] = "running" /\ Invoked(n)
  /\ overlaps < MaxOverlaps /\ Troubles < MaxTroubles /\ overlaps' = overlaps + 1
  /\ runStatus' = [runStatus EXCEPT ![n] = "queued"]
  /\ UNCHANGED <<row, runHash, workers, history, crashes, faults>> /\ OnlyWorkers

(* A request fails or dies before its commit. *)
Abort(s) == pc[s] # "idle" /\ Refuse(s)

--------------------------------------------------------------------------
RequestStep(s) ==
  \/ LockApplication(s) \/ RefuseTerminal(s) \/ PrepareGeneration(s)
  \/ RefuseUntailorable(s) \/ JoinOrRefuse(s) \/ StartGeneration(s)
  \/ BeyondBound(s) \/ ReachTerminal(s) \/ LockForSave(s) \/ SaveNotFound(s)
  \/ SaveRefused(s) \/ SaveUnchanged(s) \/ SaveEdit(s) \/ SaveBeyondBound(s)
  \/ Reply(s) \/ ReplyNotFound(s)

WorkerStep(w) ==
  \/ Claim(w) \/ CheckCurrent(w) \/ Generate(w) \/ RecordFailure(w)
  \/ CommitGenerated(w) \/ Finish(w)

Next ==
  \/ \E s \in Sessions :
       RequestStep(s) \/ Abort(s) \/ \E o \in Ops \ {"none"} : Begin(s, o)
  \/ \E w \in Workers : WorkerStep(w) \/ HandlerFault(w) \/ Crash(w)
  \/ \E n \in Attempts : Recover(n) \/ RecoverAlive(n)

Spec == Init /\ [][Next]_vars

(* Requests are executed on and invocations too, a leader recovers what a  *)
(* crash interrupted; a row lock that keeps being released is obtained.    *)
FairSpec ==
  /\ Spec
  /\ \A s \in Sessions : WF_vars(RequestStep(s))
  /\ \A w \in Workers : SF_vars(WorkerStep(w))
  /\ \A n \in Attempts : WF_vars(Recover(n))

--------------------------------------------------------------------------
(* Properties.                                                             *)

(* Two runs are never both active with their outcome still to come, however *)
(* requests, retries and requeues interleave: a second paid model call is  *)
(* not started beside the first (request_generation; cv-artifacts.md G5).  *)
(* And a row that says generating is backed by an active run, so that a    *)
(* client polling it is not polling for ever - unless a statement of the   *)
(* handler failed, which leaves the row to the next request                *)
(* (_run_is_active).                                                       *)
OneGenerationInFlight ==
  /\ TypeOK
  /\ \A m, n \in Attempts :
       Active(m) /\ Active(n) /\ {m, n} \cap landed = {} => m = n
  /\ faults = 0 /\ exists /\ status = "generating" => Active(attempt)

(* An attempt's outcome reaches the row once, with two invocations of its  *)
(* run alive and after edits or later attempts (commit_generated_state_once).*)
LandsOnce ==
  [][\A w \in Workers :
       phase[w] \in {"store", "invalid"} /\ phase'[w] # phase[w]
         /\ <<status, revision, content>>' # <<status, revision, content>>
       => runOf[w] \notin landed]_vars

(* A generated document was made from the inputs its attempt was approved  *)
(* for, also when a superseded invocation finishes late (G6); and a        *)
(* terminal Application has no tailored CV and never gets one again.       *)
ApprovedInputsOnly ==
  /\ exists /\ status = "ready" /\ content \in Inputs => content = inputHash
  /\ terminal => ~exists

(* "An edit during a generation is refused rather than silently lost": a   *)
(* generation does not overwrite an edit accepted after it was requested.  *)
EditsSurvive ==
  [][(content \in Edits /\ content' \in Inputs) => ~editedSince]_vars

(* The same, as long as not both a statement of the handler failed and a   *)
(* run was requeued under a live invocation; and an accepted edit replaces *)
(* exactly the document its author was looking at: no save, and no         *)
(* generation, comes between (expected_revision) - unless one did between  *)
(* the commit of the author's last save and the re-reading of the row for  *)
(* its reply, which then named the other's revision (cv-artifacts.md,      *)
(* "Known defect").                                                        *)
EditsSurviveUnlessBoth ==
  [][/\ content \in Edits /\ content' \in Inputs /\ (faults = 0 \/ overlaps = 0)
          => ~editedSince
     /\ \A s \in Sessions :
          At(s, "save", "ready") /\ revision' # revision /\ ~misled[s]
            => seenContent[s] = content]_vars

(* A requested generation ends: the row becomes ready or failed, or goes.  *)
GenerationEnds ==
  (exists /\ status = "generating") ~> (~exists \/ status # "generating")
==========================================================================
