----------------------------- MODULE CVImport -----------------------------
(***************************************************************************)
(* The durable CV import of one Consultant (cv_importer/) and the saves of *)
(* the same profile.md by the profile editor and the chat patcher          *)
(* (super_cv/service.py).  A request stores the upload, decides under the  *)
(* row lock whether it joins, is refused, reconciles a stuck attempt or    *)
(* starts a new one; invocations of the attempt's run extract, merge into  *)
(* profile.md under the profile lock and finalize the row.  Files and      *)
(* database commit separately, so every step between the two is a step of  *)
(* its own here, and a process can die after each.                         *)
(***************************************************************************)
EXTENDS Naturals, Sequences, FiniteSets

CONSTANTS
  Sessions,      \* concurrent upload requests
  Workers,       \* handler invocations that can be alive at once
  Files,         \* names of transient uploads (uuid4)
  Hashes,        \* contents of uploads, told apart by their hash
  Edit,          \* what a save by the profile editor puts into profile.md
  None,
  MaxAttempts,   \* bound on attempt + 1
  MaxEdits,      \* bound on saves by the profile editor
  Allowed,       \* the kinds of trouble that may happen, once each
  MaxTroubles    \* bound on how many of them happen

ASSUME NoneAssumption == None \notin Sessions \cup Workers \cup Files \cup Hashes
ASSUME BoundAssumption ==
  {MaxAttempts, MaxEdits, MaxTroubles} \subseteq Nat /\ MaxAttempts # 0

(* A process dies, a run is requeued under a live invocation, a terminal   *)
(* commit fails, the clean-up of an upload fails, a statement fails after  *)
(* it took effect, a merge is unusable.                                    *)
Troubles == {"crash", "overlap", "fault", "cleanup", "ambiguous", "fallback"}

Attempts == 0..(MaxAttempts - 1)

ASSUME EditAssumption == Edit \notin Attempts

VARIABLES
  \* the cv_imports row
  status, attempt, inputHash, sourceRef,
  \* workflow_runs, by the attempt in their idempotency key
  runStatus,
  \* the profile volume: uploads, and profile.md as what was put into it
  files, profile, marker,
  \* requests
  rowLock, pc, upload, hash, stuckRef,
  \* invocations
  profileLock, phase, runOf, source, base, outcome,
  \* the editor's copy of the profile
  seen,
  \* history: uploads abandoned in a window the code accepts; the bounds
  strays, edits, trouble

row      == <<status, attempt, inputHash, sourceRef>>
volume   == <<files, profile, marker>>
requests == <<rowLock, pc, upload, hash, stuckRef>>
workers  == <<profileLock, phase, runOf, source, base, outcome>>
counters == <<edits, trouble>>
vars == <<row, runStatus, volume, requests, workers, seen, strays, counters>>

(* What has been put into profile.md: the extraction of an attempt, or an  *)
(* edit.  Merging and editing append; nothing else is known of a merge.    *)
Contributions == Attempts \cup {Edit}

Statuses == {"absent", "processing", "succeeded", "failed"}
RunStatuses == {"absent", "queued", "running", "succeeded", "failed"}
PCs == {"idle", "saved", "locked", "reconcile", "cleanup", "clear", "drop", "new", "accept"}
Phases == {"none", "check", "extract", "lock", "reread", "merge", "commit",
           "fail", "cleanup", "clear", "finish"}

Active(n) == runStatus[n] \in {"queued", "running"}

TypeOK ==
  /\ status \in Statuses
  /\ attempt \in Attempts
  /\ inputHash \in Hashes \cup {None}
  /\ sourceRef \in Files \cup {None}
  /\ runStatus \in [Attempts -> RunStatuses]
  /\ files \subseteq Files
  /\ profile \in Seq(Contributions)
  /\ marker \in Attempts \cup {None}
  /\ rowLock \in Sessions \cup {None}
  /\ pc \in [Sessions -> PCs]
  /\ upload \in [Sessions -> Files \cup {None}]
  /\ hash \in [Sessions -> Hashes \cup {None}]
  /\ stuckRef \in [Sessions -> Files \cup {None}]
  /\ profileLock \in Workers \cup {None}
  /\ phase \in [Workers -> Phases]
  /\ runOf \in [Workers -> Attempts]
  /\ source \in [Workers -> Files \cup {None}]
  /\ base \in [Workers -> Seq(Contributions)]
  /\ outcome \in [Workers -> {"raised", "returned"}]
  /\ seen \in Seq(Contributions)
  /\ strays \subseteq Files
  /\ edits \in 0..MaxEdits
  /\ trouble \subseteq Troubles

(* A new Consultant, or one whose profile exists already (an edit stands   *)
(* for its content).                                                       *)
Init ==
  /\ status = "absent"
  /\ attempt = 0
  /\ inputHash = None
  /\ sourceRef = None
  /\ runStatus = [n \in Attempts |-> "absent"]
  /\ files = {}
  /\ profile \in {<<>>, <<Edit>>}
  /\ marker = None
  /\ rowLock = None
  /\ pc = [s \in Sessions |-> "idle"]
  /\ upload = [s \in Sessions |-> None]
  /\ hash = [s \in Sessions |-> None]
  /\ stuckRef = [s \in Sessions |-> None]
  /\ profileLock = None
  /\ phase = [w \in Workers |-> "none"]
  /\ runOf = [w \in Workers |-> 0]
  /\ source = [w \in Workers |-> None]
  /\ base = [w \in Workers |-> <<>>]
  /\ outcome = [w \in Workers |-> "raised"]
  /\ seen = <<>>
  /\ strays = {}
  /\ edits = 0
  /\ trouble = {}

Trouble(k) ==
  /\ k \in Allowed \ trouble /\ Cardinality(trouble) < MaxTroubles
  /\ trouble' = trouble \cup {k}

--------------------------------------------------------------------------
(* Requests.                                                               *)

Goto(s, where) == pc' = [pc EXCEPT ![s] = where]

(* The request is answered or dead; its transaction is over.               *)
EndRequest(s) ==
  /\ Goto(s, "idle")
  /\ upload' = [upload EXCEPT ![s] = None]
  /\ hash' = [hash EXCEPT ![s] = None]
  /\ stuckRef' = [stuckRef EXCEPT ![s] = None]
  /\ rowLock' = IF rowLock = s THEN None ELSE rowLock

Elsewhere == UNCHANGED <<workers, seen>>

Fresh(f) ==
  /\ f \notin files \cup strays \cup {sourceRef}
  /\ \A s \in Sessions : f \notin {upload[s], stuckRef[s]}
  /\ \A w \in Workers : f # source[w]

(* save_upload: the file is on the volume before any row names it.         *)
SaveUpload(s) ==
  /\ pc[s] = "idle"
  /\ \E f \in Files, h \in Hashes :
       /\ Fresh(f)
       /\ files' = files \cup {f}
       /\ upload' = [upload EXCEPT ![s] = f]
       /\ hash' = [hash EXCEPT ![s] = h]
  /\ Goto(s, "saved")
  /\ UNCHANGED <<row, runStatus, profile, marker, rowLock, stuckRef, strays, counters>>
  /\ Elsewhere

(* _get_or_create and _lock: a second first import waits for the first.    *)
LockRow(s) ==
  /\ pc[s] = "saved" /\ rowLock = None
  /\ rowLock' = s
  /\ Goto(s, "locked")
  /\ UNCHANGED <<row, runStatus, volume, upload, hash, stuckRef, strays, counters>>
  /\ Elsewhere

InFlight == status = "processing" /\ Active(attempt)

(* The identical upload joins, a different one is refused: either way the  *)
(* request's own file is redundant.                                        *)
JoinOrRefuse(s) ==
  /\ pc[s] = "locked" /\ InFlight
  /\ files' = files \ {upload[s]}
  /\ EndRequest(s)
  /\ UNCHANGED <<row, runStatus, profile, marker, strays, counters>> /\ Elsewhere

(* Mutant of IsStuckAndMerged: the marker is not looked at.                *)
IsStuckAndMergedNever(s) == FALSE

(* _try_reconcile_stuck_attempt: the stuck attempt's own key is on disk.   *)
IsStuckAndMerged(s) ==
  status = "processing" /\ inputHash = hash[s] /\ marker = attempt

ReadMarker(s) ==
  /\ pc[s] = "locked" /\ ~InFlight
  /\ Goto(s, IF IsStuckAndMerged(s) THEN "reconcile" ELSE "new")
  /\ UNCHANGED <<row, runStatus, volume, rowLock, upload, hash, stuckRef, strays, counters>>
  /\ Elsewhere

(* Row and run are published by one commit. *)
CommitReconciled(s) ==
  /\ pc[s] = "reconcile"
  /\ status' = "succeeded"
  /\ runStatus' = [runStatus EXCEPT ![attempt] = "succeeded"]
  /\ stuckRef' = [stuckRef EXCEPT ![s] = sourceRef]
  /\ rowLock' = None
  /\ Goto(s, "cleanup")
  /\ UNCHANGED <<attempt, inputHash, sourceRef, volume, upload, hash, strays, counters>>
  /\ Elsewhere

(* finish_upload_cleanup of the reconciled attempt, then its own upload.   *)
DeleteStuckUpload(s) ==
  /\ pc[s] = "cleanup"
  /\ \/ /\ files' = files \ {stuckRef[s]}
        /\ Goto(s, IF stuckRef[s] = None THEN "drop" ELSE "clear")
        /\ UNCHANGED trouble
     \/ /\ stuckRef[s] \in files
        /\ Trouble("cleanup")
        /\ Goto(s, "drop")
        /\ UNCHANGED files
  /\ UNCHANGED <<row, runStatus, profile, marker, rowLock, upload, hash, stuckRef, strays, edits>>
  /\ Elsewhere

(* Mutant of CleanRef: the reference is cleared whatever it names by now.  *)
CleanRefAlways(f) == None

(* clear_source_ref_if_matches. *)
CleanRef(f) == IF sourceRef = f THEN None ELSE sourceRef

ClearStuckRef(s) ==
  /\ pc[s] = "clear" /\ rowLock = None
  /\ sourceRef' = CleanRef(stuckRef[s])
  /\ Goto(s, "drop")
  /\ UNCHANGED <<status, attempt, inputHash, runStatus, volume, rowLock, upload, hash,
                 stuckRef, strays, counters>>
  /\ Elsewhere

DropOwnUpload(s) ==
  /\ pc[s] = "drop"
  /\ files' = files \ {upload[s]}
  /\ EndRequest(s)
  /\ UNCHANGED <<row, runStatus, profile, marker, strays, counters>> /\ Elsewhere

(* A new attempt first deletes what the previous one left; a delete that   *)
(* fails strands the file, because the reference is overwritten next.      *)
DropPreviousUpload(s) ==
  /\ pc[s] = "new"
  /\ \/ files' = files \ {sourceRef} /\ UNCHANGED <<strays, trouble>>
     \/ /\ sourceRef \in files
        /\ Trouble("cleanup")
        /\ strays' = strays \cup {sourceRef}
        /\ UNCHANGED files
  /\ Goto(s, "accept")
  /\ UNCHANGED <<row, runStatus, profile, marker, rowLock, upload, hash, stuckRef, edits>>
  /\ Elsewhere

NextAttempt == IF status = "absent" THEN 0 ELSE attempt + 1

(* The row and its run become visible in the one commit of enqueue.        *)
Accept(s) ==
  /\ pc[s] = "accept" /\ NextAttempt \in Attempts
  /\ status' = "processing"
  /\ attempt' = NextAttempt
  /\ inputHash' = hash[s]
  /\ sourceRef' = upload[s]
  /\ runStatus' = [runStatus EXCEPT ![NextAttempt] = "queued"]
  /\ EndRequest(s)
  /\ UNCHANGED <<volume, strays, counters>> /\ Elsewhere

(* An exception before the commit: rollback, and the route deletes the     *)
(* upload.  It also stands for an attempt beyond the bound.                *)
RequestFault(s) ==
  /\ pc[s] \in {"saved", "locked", "reconcile", "new", "accept"}
  /\ files' = files \ {upload[s]}
  /\ EndRequest(s)
  /\ UNCHANGED <<row, runStatus, profile, marker, strays, counters>> /\ Elsewhere

(* The process dies: nobody deletes the upload it had saved.               *)
RequestCrash(s) ==
  /\ pc[s] # "idle"
  /\ Trouble("crash")
  /\ strays' = strays \cup {upload[s]}
  /\ EndRequest(s)
  /\ UNCHANGED <<row, runStatus, volume, edits>>
  /\ Elsewhere

--------------------------------------------------------------------------
(* Invocations.                                                            *)

Upstairs == UNCHANGED <<requests, seen, strays>>

Enter(w, ph) == phase' = [phase EXCEPT ![w] = ph]

(* Mutant of Unlocked: a lock that outlives its holder.                    *)
UnlockedNever(w) == profileLock

Unlocked(w) == IF profileLock = w THEN None ELSE profileLock

(* The try block is left: locks are released, the upload is cleaned up.    *)
Leave(w, out) ==
  /\ Enter(w, "cleanup")
  /\ outcome' = [outcome EXCEPT ![w] = out]
  /\ profileLock' = Unlocked(w)

Claim(w) ==
  /\ phase[w] = "none"
  /\ \E n \in Attempts :
       /\ runStatus[n] = "queued"
       /\ runStatus' = [runStatus EXCEPT ![n] = "running"]
       /\ runOf' = [runOf EXCEPT ![w] = n]
  /\ Enter(w, "check")
  /\ UNCHANGED <<row, volume, profileLock, source, base, outcome, counters>> /\ Upstairs

Current(n) == attempt = n /\ status = "processing"

(* A superseded or landed attempt is left alone, before anything is held.  *)
Check(w) ==
  /\ phase[w] = "check"
  /\ IF Current(runOf[w])
     THEN /\ source' = [source EXCEPT ![w] = sourceRef]
          /\ Enter(w, "extract")
          /\ UNCHANGED outcome
     ELSE /\ outcome' = [outcome EXCEPT ![w] = "returned"]
          /\ Enter(w, "finish")
          /\ UNCHANGED source
  /\ UNCHANGED <<row, runStatus, volume, profileLock, runOf, base, counters>> /\ Upstairs

(* Text and experience are extracted, or an error is classified.           *)
Extract(w) ==
  /\ phase[w] = "extract"
  /\ \/ source[w] \in files /\ Enter(w, "lock")
     \/ Enter(w, "fail")
  /\ UNCHANGED <<row, runStatus, volume, profileLock, runOf, source, base, outcome, counters>>
  /\ Upstairs

(* exclusive_profile_write. *)
LockProfile(w) ==
  /\ phase[w] = "lock" /\ profileLock = None
  /\ profileLock' = w
  /\ Enter(w, "reread")
  /\ UNCHANGED <<row, runStatus, volume, runOf, source, base, outcome, counters>> /\ Upstairs

(* Mutant of AlreadyWritten: profile.md is not asked for this attempt.     *)
AlreadyWrittenNever(w) == FALSE

(* The marker is compared exactly. *)
AlreadyWritten(w) == marker = runOf[w]

(* Under the lock: superseded or landed meanwhile, already written by a    *)
(* dead sibling, or to be merged into the profile as it is now.            *)
Reread(w) ==
  /\ phase[w] = "reread"
  /\ \/ /\ ~Current(runOf[w])
        /\ Leave(w, "returned")
        /\ UNCHANGED base
     \/ /\ Current(runOf[w]) /\ AlreadyWritten(w)
        /\ Enter(w, "commit")
        /\ UNCHANGED <<base, outcome, profileLock>>
     \/ /\ Current(runOf[w]) /\ ~AlreadyWritten(w)
        /\ base' = [base EXCEPT ![w] = profile]
        /\ Enter(w, "merge")
        /\ UNCHANGED <<outcome, profileLock>>
  /\ UNCHANGED <<row, runStatus, volume, runOf, source, counters>> /\ Upstairs

(* write_profile: merge into what was read, write content and marker with  *)
(* one rename; or validation or the model call fails.                      *)
Merge(w) ==
  /\ phase[w] = "merge"
  /\ \/ /\ profile' = Append(base[w], runOf[w])
        /\ marker' = runOf[w]
        /\ Enter(w, "commit")
        /\ UNCHANGED profileLock
     \/ /\ Enter(w, "fail")
        /\ profileLock' = Unlocked(w)
        /\ UNCHANGED <<profile, marker>>
  /\ base' = [base EXCEPT ![w] = <<>>]
  /\ UNCHANGED <<row, runStatus, files, runOf, source, outcome, counters>> /\ Upstairs

(* The merger's answer is no YAML mapping: the extraction is written alone.*)
MergeFallback(w) ==
  /\ phase[w] = "merge" /\ base[w] # <<>>
  /\ Trouble("fallback")
  /\ profile' = <<runOf[w]>>
  /\ marker' = runOf[w]
  /\ Enter(w, "commit")
  /\ base' = [base EXCEPT ![w] = <<>>]
  /\ UNCHANGED <<row, runStatus, files, profileLock, runOf, source, outcome, edits>>
  /\ Upstairs

(* write_profile raises after the rename (style.md, the statistics).       *)
MergeAmbiguous(w) ==
  /\ phase[w] = "merge"
  /\ Trouble("ambiguous")
  /\ profile' = Append(base[w], runOf[w])
  /\ marker' = runOf[w]
  /\ Enter(w, "fail")
  /\ profileLock' = Unlocked(w)
  /\ base' = [base EXCEPT ![w] = <<>>]
  /\ UNCHANGED <<row, runStatus, files, runOf, source, outcome, edits>>
  /\ Upstairs

(* The guarded UPDATE of both terminal commits. *)
Conclude(w, st) == status' = IF Current(runOf[w]) THEN st ELSE status

(* commit_import_success_once, before the lock is released. *)
Commit(w) ==
  /\ phase[w] = "commit" /\ rowLock = None
  /\ Conclude(w, "succeeded")
  /\ Leave(w, "returned")
  /\ UNCHANGED <<attempt, inputHash, sourceRef, runStatus, volume, runOf, source, base, counters>>
  /\ Upstairs

(* Mutant of CommitFault: recorded like any other failure.                 *)
CommitFaultRecorded(w) ==
  /\ phase[w] = "commit"
  /\ Trouble("fault")
  /\ Enter(w, "fail")
  /\ profileLock' = Unlocked(w)
  /\ UNCHANGED <<row, runStatus, volume, runOf, source, base, outcome, edits>>
  /\ Upstairs

(* _FinalizeCommitFailed: nothing is recorded, the row stays processing.   *)
CommitFault(w) ==
  /\ phase[w] = "commit"
  /\ Trouble("fault")
  /\ Leave(w, "raised")
  /\ UNCHANGED <<row, runStatus, volume, runOf, source, base, edits>>
  /\ Upstairs

(* The same when the commit, or only the reload after it, had succeeded.   *)
CommitAmbiguous(w) ==
  /\ phase[w] = "commit" /\ rowLock = None
  /\ Trouble("ambiguous")
  /\ Conclude(w, "succeeded")
  /\ Leave(w, "raised")
  /\ UNCHANGED <<attempt, inputHash, sourceRef, runStatus, volume, runOf, source, base, edits>>
  /\ Upstairs

(* _record_failure, whose own exception is swallowed. *)
Fail(w) ==
  /\ phase[w] = "fail"
  /\ \/ rowLock = None /\ Conclude(w, "failed") /\ UNCHANGED trouble
     \/ Trouble("fault") /\ UNCHANGED status
  /\ Leave(w, "raised")
  /\ UNCHANGED <<attempt, inputHash, sourceRef, runStatus, volume, runOf, source, base, edits>>
  /\ Upstairs

(* finish_upload_cleanup: the file first, then, if it is confirmed gone,   *)
(* the reference to it.                                                    *)
DeleteSource(w) ==
  /\ phase[w] = "cleanup"
  /\ \/ /\ files' = files \ {source[w]}
        /\ Enter(w, IF source[w] = None THEN "finish" ELSE "clear")
        /\ UNCHANGED trouble
     \/ /\ source[w] \in files
        /\ Trouble("cleanup")
        /\ Enter(w, "finish")
        /\ UNCHANGED files
  /\ UNCHANGED <<row, runStatus, profile, marker, profileLock, runOf, source, base, outcome, edits>>
  /\ Upstairs

ClearSourceRef(w) ==
  /\ phase[w] = "clear"
  /\ \/ rowLock = None /\ sourceRef' = CleanRef(source[w]) /\ UNCHANGED trouble
     \/ Trouble("cleanup") /\ UNCHANGED sourceRef
  /\ Enter(w, "finish")
  /\ UNCHANGED <<status, attempt, inputHash, runStatus, volume, profileLock, runOf, source,
                 base, outcome, edits>>
  /\ Upstairs

Gone(w) ==
  /\ Enter(w, "none")
  /\ runOf' = [runOf EXCEPT ![w] = 0]
  /\ source' = [source EXCEPT ![w] = None]
  /\ base' = [base EXCEPT ![w] = <<>>]
  /\ outcome' = [outcome EXCEPT ![w] = "raised"]
  /\ profileLock' = Unlocked(w)

(* The runner's terminal write: succeeded stands, failed can be upgraded.  *)
Finish(w) ==
  /\ phase[w] = "finish"
  /\ runStatus' = [runStatus EXCEPT ![runOf[w]] =
       IF @ = "succeeded" \/ outcome[w] = "returned" THEN "succeeded" ELSE "failed"]
  /\ Gone(w)
  /\ UNCHANGED <<row, volume, counters>> /\ Upstairs

(* A process dies; the operating system releases its profile lock.         *)
Crash(w) ==
  /\ phase[w] # "none"
  /\ Trouble("crash")
  /\ Gone(w)
  /\ UNCHANGED <<row, runStatus, volume, edits>>
  /\ Upstairs

Invoked(n) == \E w \in Workers : phase[w] # "none" /\ runOf[w] = n

(* recover_interrupted after a crash.                                      *)
Recover(n) ==
  /\ runStatus[n] = "running" /\ ~Invoked(n)
  /\ runStatus' = [runStatus EXCEPT ![n] = "queued"]
  /\ UNCHANGED <<row, volume, workers, counters>> /\ Upstairs

(* recover_interrupted while the invocation of the old leader is alive.    *)
RecoverAlive(n) ==
  /\ runStatus[n] = "running" /\ Invoked(n)
  /\ Trouble("overlap")
  /\ runStatus' = [runStatus EXCEPT ![n] = "queued"]
  /\ UNCHANGED <<row, volume, workers, edits>>
  /\ Upstairs

--------------------------------------------------------------------------
(* The profile editor and the chat patcher.                                *)

LoadProfile ==
  /\ profile # <<>> /\ seen # profile /\ edits < MaxEdits
  /\ seen' = profile
  /\ UNCHANGED <<row, runStatus, volume, requests, workers, strays, counters>>

(* Mutant of SaveProfile: compared before, not under, the lock.            *)
SaveProfileUnlocked ==
  /\ seen # <<>> /\ seen = profile
  /\ edits < MaxEdits /\ edits' = edits + 1
  /\ profile' = Append(seen, Edit)
  /\ seen' = <<>>
  /\ UNCHANGED <<row, runStatus, files, marker, requests, workers, strays, trouble>>

(* save_profile: revision and content hash are compared under the lock;    *)
(* the loaded metadata, and with it the marker, is written back.           *)
SaveProfile ==
  /\ profileLock = None
  /\ seen # <<>> /\ seen = profile
  /\ edits < MaxEdits /\ edits' = edits + 1
  /\ profile' = Append(seen, Edit)
  /\ seen' = <<>>
  /\ UNCHANGED <<row, runStatus, files, marker, requests, workers, strays, trouble>>

--------------------------------------------------------------------------
RequestStep(s) ==
  \/ LockRow(s) \/ JoinOrRefuse(s) \/ ReadMarker(s) \/ CommitReconciled(s)
  \/ DeleteStuckUpload(s) \/ ClearStuckRef(s) \/ DropOwnUpload(s)
  \/ DropPreviousUpload(s) \/ Accept(s) \/ RequestFault(s)

WorkerStep(w) ==
  \/ Claim(w) \/ Check(w) \/ Extract(w) \/ LockProfile(w) \/ Reread(w) \/ Merge(w)
  \/ MergeFallback(w) \/ MergeAmbiguous(w) \/ Commit(w) \/ CommitFault(w)
  \/ CommitAmbiguous(w) \/ Fail(w) \/ DeleteSource(w) \/ ClearSourceRef(w) \/ Finish(w)

Next ==
  \/ \E s \in Sessions : SaveUpload(s) \/ RequestStep(s) \/ RequestCrash(s)
  \/ \E w \in Workers : WorkerStep(w) \/ Crash(w)
  \/ \E n \in Attempts : Recover(n) \/ RecoverAlive(n)
  \/ LoadProfile \/ SaveProfile

Spec == Init /\ [][Next]_vars

(* Requests and invocations are executed on, locks that are released again *)
(* and again are obtained, and a leader recovers what a crash interrupted. *)
FairSpec ==
  /\ Spec
  /\ \A s \in Sessions : SF_vars(RequestStep(s))
  /\ \A w \in Workers : SF_vars(WorkerStep(w))
  /\ \A n \in Attempts : WF_vars(Recover(n))

--------------------------------------------------------------------------
(* Properties.                                                             *)

Merged(n) == \E i \in 1..Len(profile) : profile[i] = n

(* An attempt is merged into profile.md once, whatever overlapping or      *)
(* recovered invocations of its run do (cv-import.md G3).                  *)
MergedOnce ==
  \A i, j \in 1..Len(profile) : profile[i] = profile[j] /\ profile[i] # Edit => i = j

Extends(p, q) == Len(p) <= Len(q) /\ SubSeq(q, 1, Len(p)) = p

(* No import and no edit loses what the profile held, unless the merger's  *)
(* answer could not be used (exclusive_profile_write, save_profile).       *)
NothingLost ==
  []["fallback" \notin trouble' => Extends(profile, profile')]_vars

(* A failure is never recorded for an attempt whose content is on disk:    *)
(* the next identical upload would merge it again (G3, G4).                *)
FailedIsNotMerged == status = "failed" => ~Merged(attempt)

(* The same when no process died, no run was requeued under a live         *)
(* invocation and no statement failed after taking effect; failing commits *)
(* are included.                                                           *)
FailedIsNotMergedUndisturbed ==
  trouble \cap {"crash", "overlap", "ambiguous"} = {} => FailedIsNotMerged

(* The retry of a stuck upload whose content is on disk starts no new      *)
(* attempt, unless an overlapping invocation writes while it is decided.   *)
StuckIsReconciled ==
  []["overlap" \notin trouble /\ status = "processing" /\ attempt' # attempt /\ inputHash' = inputHash
       => ~Merged(attempt)]_vars

(* Row, run and upload directory tell one story (G5, G7).  A succeeded      *)
(* import has no failed run.  The file of an accepted upload is there until *)
(* its run is invoked, also when the clean-up of an earlier attempt comes   *)
(* late.  And an upload on the volume is always named by the row, by the    *)
(* request that stored it or by an invocation that will delete it, except   *)
(* in the two windows the code accepts (strays).                           *)
RecordsAgree ==
  /\ TypeOK
  /\ trouble \cap {"overlap", "ambiguous"} = {} /\ status = "succeeded" =>
       runStatus[attempt] # "failed"
  /\ trouble \cap {"crash", "overlap"} = {} /\ status = "processing"
       /\ runStatus[attempt] = "queued" => sourceRef \in files
  /\ files \subseteq {sourceRef} \cup strays \cup {upload[s] : s \in Sessions}
                        \cup {source[w] : w \in Workers}

(* An accepted import ends, in spite of crashes and overlapping            *)
(* invocations (without faults: after a failed finalizing commit it is      *)
(* the next upload that ends it).                                          *)
ImportEnds == status = "processing" ~> status # "processing"
==========================================================================
