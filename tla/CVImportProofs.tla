--------------------------- MODULE CVImportProofs ---------------------------
(* Theorems about CVImport, for any requests, invocations, uploads, kinds   *)
(* and numbers of trouble.                                                 *)
EXTENDS CVImport, TLAPS

---------------------------------------------------------------------------
LEMMA Constants ==
  /\ MaxAttempts \in Nat /\ MaxEdits \in Nat /\ 0 \in Attempts /\ Attempts \subseteq Nat
  /\ None \notin Sessions /\ None \notin Workers /\ None \notin Files /\ None \notin Hashes
  BY BoundAssumption, NoneAssumption DEF Attempts

(* A request has its upload until it ends, and the row lock while it is     *)
(* decided.                                                                *)
HasUpload == \A s \in Sessions : pc[s] # "idle" => upload[s] \in Files
RowHolder ==
  \A s \in Sessions : pc[s] \in {"locked", "reconcile", "new", "accept"} => rowLock = s

(* What was found under the row lock stays so: nothing is in flight, and    *)
(* what is reconciled is stuck.                                            *)
Settled ==
  \A s \in Sessions :
    /\ pc[s] \in {"reconcile", "new", "accept"} => ~InFlight
    /\ pc[s] = "reconcile" => status = "processing"

(* Runs belong to attempts that were accepted, invocations to runs.         *)
Accepted ==
  \A n \in Attempts : runStatus[n] # "absent" => n <= attempt /\ status # "absent"
HasRun == \A w \in Workers : phase[w] # "none" => runStatus[runOf[w]] # "absent"

(* profile.md holds accepted attempts only, and the marker of the current   *)
(* one when that is among them; and who merges holds the lock, merges into  *)
(* what is there, and has not been there before.                           *)
LockHeld ==
  \A w \in Workers : phase[w] \in {"reread", "merge", "commit"} => profileLock = w
MergedAccepted ==
  \A n \in Attempts : Merged(n) => n <= attempt /\ status # "absent"
Marked == status = "processing" /\ Merged(attempt) => marker = attempt
MergesNew ==
  \A w \in Workers :
    phase[w] = "merge" => base[w] = profile /\ ~Merged(runOf[w]) /\ ~Merged(attempt)

ProfileInv == MergedOnce /\ LockHeld /\ MergedAccepted /\ Marked /\ MergesNew

RequestsInv == HasUpload /\ RowHolder /\ Settled
RunsInv == Accepted /\ HasRun

(* A step of a request, of an invocation, and of neither.                  *)
Asks(s) == SaveUpload(s) \/ RequestStep(s) \/ RequestCrash(s)
Works(w) == WorkerStep(w) \/ Crash(w)
Others ==
  \/ \E n \in Attempts : Recover(n) \/ RecoverAlive(n)
  \/ LoadProfile \/ SaveProfile

LEMMA NextParts ==
  Next <=> \/ \E s \in Sessions : Asks(s)
           \/ \E w \in Workers : Works(w)
           \/ Others
  BY DEF Next, Asks, Works, Others

LEMMA AskTypes ==
  ASSUME TypeOK, HasUpload, NEW s \in Sessions, Asks(s)
  PROVE  TypeOK'
  <1> USE Constants
      DEF TypeOK, row, volume, requests, workers, counters, Elsewhere, Goto, EndRequest, PCs,
          Trouble, Statuses, RunStatuses
  <1>1. CASE SaveUpload(s)
    BY <1>1 DEF SaveUpload
  <1>2. CASE LockRow(s)
    BY <1>2 DEF LockRow
  <1>3. CASE JoinOrRefuse(s)
    BY <1>3 DEF JoinOrRefuse
  <1>4. CASE ReadMarker(s)
    BY <1>4 DEF ReadMarker
  <1>5. CASE CommitReconciled(s)
    BY <1>5 DEF CommitReconciled
  <1>6. CASE DeleteStuckUpload(s)
    BY <1>6 DEF DeleteStuckUpload, Troubles
  <1>7. CASE ClearStuckRef(s)
    BY <1>7 DEF ClearStuckRef, CleanRef
  <1>8. CASE DropOwnUpload(s)
    BY <1>8 DEF DropOwnUpload
  <1>9. CASE DropPreviousUpload(s)
    BY <1>9 DEF DropPreviousUpload, Troubles
  <1>10. CASE Accept(s)
    BY <1>10 DEF Accept
  <1>11. CASE RequestFault(s)
    BY <1>11 DEF RequestFault
  <1>12. CASE RequestCrash(s)
    BY <1>12 DEF RequestCrash, HasUpload, Troubles
  <1>13. QED
    BY <1>1, <1>2, <1>3, <1>4, <1>5, <1>6, <1>7, <1>8, <1>9, <1>10, <1>11, <1>12
    DEF Asks, RequestStep

LEMMA Entered ==
  ASSUME TypeOK, NEW w \in Workers, NEW ph \in Phases, Enter(w, ph)
  PROVE  /\ phase' \in [Workers -> Phases] /\ phase'[w] = ph
         /\ \A v \in Workers : v # w => phase'[v] = phase[v]
  BY DEF TypeOK, Enter

LEMMA WorkTypes ==
  ASSUME TypeOK, NEW w \in Workers, Works(w)
  PROVE  TypeOK'
  <1> USE Constants
      DEF TypeOK, row, volume, requests, workers, counters, Upstairs, Enter, Leave, Gone,
          Unlocked, Phases, Trouble, Conclude
  <1>1. CASE Claim(w)
    BY <1>1 DEF Claim, RunStatuses
  <1>2. CASE Check(w)
    <2>1. CASE Current(runOf[w])
      <3>1. source' = [source EXCEPT ![w] = sourceRef] /\ Enter(w, "extract")
        BY <1>2, <2>1 DEF Check
      <3>2. source' \in [Workers -> Files \cup {None}] /\ phase' \in [Workers -> Phases]
        BY <3>1
      <3>3. QED
        BY <1>2, <2>1, <3>2 DEF Check
    <2>2. CASE ~Current(runOf[w])
      BY <1>2, <2>2 DEF Check
    <2>3. QED
      BY <2>1, <2>2
  <1>3. CASE Extract(w)
    BY <1>3 DEF Extract
  <1>4. CASE LockProfile(w)
    BY <1>4 DEF LockProfile
  <1>5. CASE Reread(w)
    <2>1. CASE ~Current(runOf[w])
      BY <1>5, <2>1 DEF Reread
    <2>2. CASE Current(runOf[w]) /\ AlreadyWritten(w)
      BY <1>5, <2>2 DEF Reread
    <2>3. CASE Current(runOf[w]) /\ ~AlreadyWritten(w)
      <3>1. base' = [base EXCEPT ![w] = profile] /\ Enter(w, "merge")
        BY <1>5, <2>3 DEF Reread
      <3>2. base' \in [Workers -> Seq(Contributions)] /\ phase' \in [Workers -> Phases]
        BY <3>1
      <3>3. QED
        BY <1>5, <2>3, <3>2 DEF Reread
    <2>4. QED
      BY <2>1, <2>2, <2>3
  <1>6. Append(base[w], runOf[w]) \in Seq(Contributions)
        /\ <<runOf[w]>> \in Seq(Contributions) /\ <<>> \in Seq(Contributions)
    BY DEF Contributions
  <1>7. CASE Merge(w)
    <2>1. \/ profile' = Append(base[w], runOf[w]) /\ marker' = runOf[w]
          \/ UNCHANGED <<profile, marker>>
      BY <1>7 DEF Merge
    <2>2. \/ Enter(w, "commit") /\ UNCHANGED profileLock
          \/ Enter(w, "fail") /\ profileLock' = Unlocked(w)
      BY <1>7 DEF Merge
    <2>3. base' = [base EXCEPT ![w] = <<>>]
      BY <1>7 DEF Merge
    <2>4. UNCHANGED <<row, runStatus, files, runOf, source, outcome, counters, requests, seen,
                      strays>>
      BY <1>7 DEF Merge
    <2>5. profile' \in Seq(Contributions) /\ marker' \in Attempts \cup {None}
      <3>1. CASE profile' = Append(base[w], runOf[w]) /\ marker' = runOf[w]
        <4>1. profile' \in Seq(Contributions)
          BY <1>6, <3>1
        <4>2. marker' \in Attempts \cup {None}
          BY <3>1
        <4>3. QED
          BY <4>1, <4>2
      <3>2. CASE UNCHANGED <<profile, marker>>
        BY <3>2
      <3>3. QED
        BY <2>1, <3>1, <3>2
    <2>6. base' \in [Workers -> Seq(Contributions)]
      BY <1>6, <2>3
    <2>7. phase' \in [Workers -> Phases] /\ profileLock' \in Workers \cup {None}
      <3>1. CASE Enter(w, "commit") /\ UNCHANGED profileLock
        BY <3>1
      <3>2. CASE Enter(w, "fail") /\ profileLock' = Unlocked(w)
        BY <3>2
      <3>3. QED
        BY <2>2, <3>1, <3>2
    <2>8. QED
      BY <2>4, <2>5, <2>6, <2>7
  <1>8. CASE MergeFallback(w)
    BY <1>6, <1>8 DEF MergeFallback, Troubles
  <1>9. CASE MergeAmbiguous(w)
    BY <1>6, <1>9 DEF MergeAmbiguous, Troubles
  <1>10. CASE Commit(w)
    BY <1>10 DEF Commit, Statuses
  <1>11. CASE CommitFault(w)
    BY <1>11 DEF CommitFault, Troubles
  <1>12. CASE CommitAmbiguous(w)
    BY <1>12 DEF CommitAmbiguous, Statuses, Troubles
  <1>13. CASE Fail(w)
    BY <1>13 DEF Fail, Statuses, Troubles
  <1>14. CASE DeleteSource(w)
    BY <1>14 DEF DeleteSource, Troubles
  <1>15. CASE ClearSourceRef(w)
    BY <1>15 DEF ClearSourceRef, CleanRef, Troubles
  <1>16. CASE Finish(w)
    BY <1>6, <1>16 DEF Finish, RunStatuses
  <1>17. CASE Crash(w)
    BY <1>6, <1>17 DEF Crash, Troubles
  <1>18. QED
    BY <1>1, <1>2, <1>3, <1>4, <1>5, <1>7, <1>8, <1>9, <1>10, <1>11, <1>12, <1>13, <1>14,
       <1>15, <1>16, <1>17
    DEF Works, WorkerStep

LEMMA OtherTypes ==
  ASSUME TypeOK, Others
  PROVE  TypeOK'
  <1> USE Constants DEF TypeOK, row, volume, requests, workers, counters, Upstairs, Trouble
  <1>1. ASSUME NEW n \in Attempts, Recover(n) \/ RecoverAlive(n) PROVE TypeOK'
    <2>1. runStatus' \in [Attempts -> RunStatuses]
      BY <1>1 DEF Recover, RecoverAlive, RunStatuses
    <2>2. trouble' \subseteq Troubles
      BY <1>1 DEF Recover, RecoverAlive, Troubles
    <2>3. QED
      BY <1>1, <2>1, <2>2 DEF Recover, RecoverAlive
  <1>2. CASE LoadProfile
    BY <1>2 DEF LoadProfile
  <1>3. CASE SaveProfile
    <2>1. Append(seen, Edit) \in Seq(Contributions) /\ <<>> \in Seq(Contributions)
      BY DEF Contributions
    <2>2. edits' \in 0..MaxEdits
      BY <1>3 DEF SaveProfile
    <2>3. QED
      BY <1>3, <2>1, <2>2 DEF SaveProfile
  <1>4. QED
    BY <1>1, <1>2, <1>3 DEF Others

---------------------------------------------------------------------------
(* What the steps of the one actor leave to the others.                    *)
LEMMA AskFrame ==
  ASSUME TypeOK, RowHolder, NEW s \in Sessions, Asks(s)
  PROVE  /\ UNCHANGED <<workers, profile, marker, seen, edits>>
         /\ \A d \in Sessions : d # s =>
              /\ pc'[d] = pc[d] /\ upload'[d] = upload[d] /\ hash'[d] = hash[d]
              /\ stuckRef'[d] = stuckRef[d]
              /\ rowLock = d => rowLock' = d
         /\ trouble \subseteq trouble' /\ trouble' \subseteq trouble \cup {"cleanup", "crash"}
  <1> USE Constants
      DEF TypeOK, row, volume, requests, workers, counters, Elsewhere, Goto, EndRequest,
          Trouble
  <1>1. UNCHANGED <<workers, profile, marker, seen, edits>>
    BY DEF Asks, RequestStep, SaveUpload, LockRow, JoinOrRefuse, ReadMarker,
           CommitReconciled, DeleteStuckUpload, ClearStuckRef, DropOwnUpload,
           DropPreviousUpload, Accept, RequestFault, RequestCrash
  <1>2. trouble \subseteq trouble' /\ trouble' \subseteq trouble \cup {"cleanup", "crash"}
    BY DEF Asks, RequestStep, SaveUpload, LockRow, JoinOrRefuse, ReadMarker,
           CommitReconciled, DeleteStuckUpload, ClearStuckRef, DropOwnUpload,
           DropPreviousUpload, Accept, RequestFault, RequestCrash
  <1>3. ASSUME NEW d \in Sessions, d # s
        PROVE  /\ pc'[d] = pc[d] /\ upload'[d] = upload[d] /\ hash'[d] = hash[d]
               /\ stuckRef'[d] = stuckRef[d]
               /\ rowLock = d => rowLock' = d
    <2>1. CASE EndRequest(s)
      BY <1>3, <2>1
    <2>2. CASE SaveUpload(s)
      BY <1>3, <2>2 DEF SaveUpload
    <2>3. CASE LockRow(s) \/ ReadMarker(s)
      BY <1>3, <2>3 DEF LockRow, ReadMarker
    <2>4. CASE CommitReconciled(s)
      BY <1>3, <2>4 DEF CommitReconciled, RowHolder
    <2>5. CASE DeleteStuckUpload(s) \/ ClearStuckRef(s)
      BY <1>3, <2>5 DEF DeleteStuckUpload, ClearStuckRef
    <2>6. CASE DropPreviousUpload(s)
      BY <1>3, <2>6 DEF DropPreviousUpload
    <2>7. QED
      BY <2>1, <2>2, <2>3, <2>4, <2>5, <2>6
      DEF Asks, RequestStep, JoinOrRefuse, DropOwnUpload, Accept, RequestFault, RequestCrash
  <1>4. QED
    BY <1>1, <1>2, <1>3

LEMMA WorkFrame ==
  ASSUME TypeOK, NEW w \in Workers, Works(w)
  PROVE  /\ UNCHANGED <<requests, seen, strays, attempt, inputHash>>
         /\ \A v \in Workers : v # w =>
              /\ phase'[v] = phase[v] /\ runOf'[v] = runOf[v] /\ source'[v] = source[v]
              /\ base'[v] = base[v] /\ outcome'[v] = outcome[v]
              /\ profileLock = v => profileLock' = v
         /\ trouble \subseteq trouble'
  <1> USE DEF row, volume, workers, counters, Upstairs, Trouble
  <1>1. /\ UNCHANGED <<requests, seen, strays, attempt, inputHash>>
        /\ trouble \subseteq trouble'
    BY DEF Works, WorkerStep, Claim, Check, Extract, LockProfile, Reread, Merge,
           MergeFallback, MergeAmbiguous, Commit, CommitFault, CommitAmbiguous, Fail,
           DeleteSource, ClearSourceRef, Finish, Crash
  <1>2. ASSUME NEW v \in Workers, v # w
        PROVE  /\ phase'[v] = phase[v] /\ runOf'[v] = runOf[v] /\ source'[v] = source[v]
               /\ base'[v] = base[v] /\ outcome'[v] = outcome[v]
               /\ profileLock = v => profileLock' = v
    <2> USE <1>2, Constants DEF TypeOK, Enter, Leave, Unlocked, Gone
    <2>1. CASE Claim(w) \/ Check(w) \/ Extract(w) \/ LockProfile(w)
      BY <2>1 DEF Claim, Check, Extract, LockProfile
    <2>2. CASE Reread(w)
      BY <2>2 DEF Reread
    <2>3. CASE Merge(w) \/ MergeFallback(w) \/ MergeAmbiguous(w)
      BY <2>3 DEF Merge, MergeFallback, MergeAmbiguous
    <2>4. CASE Commit(w) \/ CommitFault(w) \/ CommitAmbiguous(w) \/ Fail(w)
      BY <2>4 DEF Commit, CommitFault, CommitAmbiguous, Fail
    <2>5. CASE DeleteSource(w) \/ ClearSourceRef(w) \/ Finish(w) \/ Crash(w)
      BY <2>5 DEF DeleteSource, ClearSourceRef, Finish, Crash
    <2>6. QED
      BY <2>1, <2>2, <2>3, <2>4, <2>5 DEF Works, WorkerStep
  <1>3. QED
    BY <1>1, <1>2

(* An invocation decides at most the attempt it belongs to, when no request *)
(* has the row; no run becomes active by it.                               *)
LEMMA WorkRuns ==
  ASSUME TypeOK, RunsInv, NEW w \in Workers, Works(w)
  PROVE  /\ \/ status' = status
            \/ /\ rowLock = None /\ Current(runOf[w]) /\ phase[w] \in {"commit", "fail"}
               /\ status' \in {"succeeded", "failed"}
         /\ \A n \in Attempts :
              /\ Active(n)' => Active(n)
              /\ runStatus'[n] = "absent" <=> runStatus[n] = "absent"
         /\ phase'[w] # "none" => runStatus'[runOf'[w]] # "absent"
  <1> USE DEF row, volume, workers, counters, Upstairs
  <1>1. \/ status' = status
        \/ /\ rowLock = None /\ Current(runOf[w]) /\ phase[w] \in {"commit", "fail"}
           /\ status' \in {"succeeded", "failed"}
    BY DEF Works, WorkerStep, Claim, Check, Extract, LockProfile, Reread, Merge,
           MergeFallback, MergeAmbiguous, Commit, CommitFault, CommitAmbiguous, Fail,
           DeleteSource, ClearSourceRef, Finish, Crash, Conclude
  <1>2. ASSUME NEW n \in Attempts, runStatus[n] = "queued",
               runStatus' = [runStatus EXCEPT ![n] = "running"],
               runOf' = [runOf EXCEPT ![w] = n]
        PROVE  /\ \A m \in Attempts :
                    /\ Active(m)' => Active(m)
                    /\ runStatus'[m] = "absent" <=> runStatus[m] = "absent"
               /\ runStatus'[runOf'[w]] # "absent"
    BY <1>2 DEF TypeOK, Active
  <1>3. CASE Claim(w)
    BY <1>1, <1>2, <1>3 DEF Claim
  <1>4. CASE Finish(w)
    <2>1. runOf[w] \in Attempts /\ runStatus[runOf[w]] # "absent"
      BY <1>4 DEF Finish, RunsInv, HasRun, TypeOK
    <2>2. \A n \in Attempts :
            /\ n # runOf[w] => runStatus'[n] = runStatus[n]
            /\ n = runOf[w] => runStatus'[n] \in {"succeeded", "failed"}
      BY <1>4, <2>1 DEF Finish, TypeOK
    <2>3. phase'[w] = "none"
      BY <1>4 DEF Finish, Gone, Enter, TypeOK
    <2>4. QED
      BY <1>1, <2>1, <2>2, <2>3 DEF Active
  <1>5. CASE UNCHANGED runStatus /\ (phase[w] = "none" => phase'[w] = "none")
             /\ (phase'[w] # "none" => runOf'[w] = runOf[w])
    BY <1>1, <1>5 DEF Active, RunsInv, HasRun
  <1>6. Claim(w) \/ Finish(w) \/ UNCHANGED runStatus
    BY DEF Works, WorkerStep, Check, Extract, LockProfile, Reread, Merge,
           MergeFallback, MergeAmbiguous, Commit, CommitFault, CommitAmbiguous, Fail,
           DeleteSource, ClearSourceRef, Crash
  <1>7. Claim(w) \/ (phase[w] # "none" /\ (runOf' = runOf \/ phase'[w] = "none"))
    BY DEF Works, WorkerStep, Check, Extract, LockProfile, Reread, Merge,
           MergeFallback, MergeAmbiguous, Commit, CommitFault, CommitAmbiguous, Fail,
           DeleteSource, ClearSourceRef, Finish, Crash, Gone, Enter, TypeOK
  <1>8. QED
    BY <1>3, <1>4, <1>5, <1>6, <1>7

(* The two requests that write the row and the runs.                       *)
LEMMA AskRuns ==
  ASSUME TypeOK, NEW s \in Sessions, Asks(s)
  PROVE  \/ UNCHANGED <<status, attempt, inputHash, runStatus>>
         \/ CommitReconciled(s)
         \/ Accept(s)
  BY DEF row, volume, Asks, RequestStep, SaveUpload, LockRow, JoinOrRefuse, ReadMarker,
         DeleteStuckUpload, ClearStuckRef, DropOwnUpload, DropPreviousUpload, RequestFault,
         RequestCrash

(* A new attempt has no run yet, and a number above all that have one.      *)
LEMMA NewAttempt ==
  ASSUME TypeOK, RunsInv, NEW s \in Sessions, Accept(s)
  PROVE  /\ NextAttempt \in Attempts /\ attempt' = NextAttempt /\ status' = "processing"
         /\ runStatus' = [runStatus EXCEPT ![NextAttempt] = "queued"]
         /\ \A n \in Attempts :
              runStatus[n] # "absent" => n <= NextAttempt /\ n # NextAttempt /\ n <= attempt
         /\ status # "absent" => NextAttempt = attempt + 1
  <1>1. /\ NextAttempt \in Attempts /\ attempt' = NextAttempt /\ status' = "processing"
        /\ runStatus' = [runStatus EXCEPT ![NextAttempt] = "queued"]
    BY DEF Accept
  <1>2. status # "absent" => NextAttempt = attempt + 1
    BY DEF NextAttempt
  <1>3. ASSUME NEW n \in Attempts, runStatus[n] # "absent"
        PROVE  n <= NextAttempt /\ n # NextAttempt /\ n <= attempt
    <2>1. n <= attempt /\ status # "absent"
      BY <1>3 DEF RunsInv, Accepted
    <2>2. n \in Nat /\ attempt \in Nat
      BY Constants DEF TypeOK
    <2>3. QED
      BY <1>2, <2>1, <2>2
  <1>4. QED
    BY <1>1, <1>2, <1>3

LEMMA AskRequests ==
  ASSUME TypeOK, RequestsInv, RunsInv, NEW s \in Sessions, Asks(s)
  PROVE  RequestsInv' /\ RunsInv'
  <1> USE Constants DEF row, volume, requests, workers, counters, Elsewhere, Goto, EndRequest
  <1>0. /\ \A d \in Sessions :
             /\ pc[d] # "idle" => upload[d] \in Files
             /\ pc[d] \in {"locked", "reconcile", "new", "accept"} => rowLock = d
             /\ pc[d] \in {"reconcile", "new", "accept"} => ~InFlight
             /\ pc[d] = "reconcile" => status = "processing"
        /\ pc \in [Sessions -> PCs] /\ upload \in [Sessions -> Files \cup {None}]
    BY DEF RequestsInv, HasUpload, RowHolder, Settled, TypeOK
  <1>1. \/ UNCHANGED <<status, attempt, runStatus>>
        \/ (CommitReconciled(s) \/ Accept(s)) /\ rowLock = s
    BY <1>0, AskRuns DEF CommitReconciled, Accept
  <1>2. ASSUME NEW d \in Sessions, d # s
        PROVE  /\ pc'[d] # "idle" => upload'[d] \in Files
               /\ pc'[d] \in {"locked", "reconcile", "new", "accept"} => rowLock' = d
               /\ pc'[d] \in {"reconcile", "new", "accept"} => ~InFlight'
               /\ pc'[d] = "reconcile" => status' = "processing"
    <2>1. /\ pc'[d] = pc[d] /\ upload'[d] = upload[d]
          /\ rowLock = d => rowLock' = d
      BY <1>2, AskFrame DEF RequestsInv
    <2>2. CASE UNCHANGED <<status, attempt, runStatus>>
      BY <1>0, <2>1, <2>2 DEF InFlight, Active
    <2>3. CASE rowLock = s
      BY <1>0, <1>2, <2>1, <2>3
    <2>4. QED
      BY <1>1, <2>2, <2>3
  <1>3. /\ pc'[s] # "idle" => upload'[s] \in Files
        /\ pc'[s] \in {"locked", "reconcile", "new", "accept"} => rowLock' = s
        /\ pc'[s] \in {"reconcile", "new", "accept"} => ~InFlight'
        /\ pc'[s] = "reconcile" => status' = "processing"
    <2>1. CASE EndRequest(s)
      BY <1>0, <2>1
    <2>2. CASE SaveUpload(s)
      BY <1>0, <2>2 DEF SaveUpload
    <2>3. CASE LockRow(s)
      BY <1>0, <2>3 DEF LockRow
    <2>4. CASE ReadMarker(s)
      <3>1. UNCHANGED InFlight /\ ~InFlight /\ UNCHANGED <<status, upload, rowLock>>
        BY <2>4 DEF ReadMarker, InFlight, Active
      <3>2. /\ pc[s] = "locked"
            /\ pc'[s] = IF IsStuckAndMerged(s) THEN "reconcile" ELSE "new"
        BY <1>0, <2>4 DEF ReadMarker
      <3>3. QED
        BY <1>0, <3>1, <3>2 DEF IsStuckAndMerged
    <2>5. CASE CommitReconciled(s) \/ DeleteStuckUpload(s) \/ ClearStuckRef(s)
      <3>1. pc'[s] \in {"cleanup", "clear", "drop"} /\ pc[s] # "idle" /\ upload' = upload
        BY <1>0, <2>5 DEF CommitReconciled, DeleteStuckUpload, ClearStuckRef
      <3>2. QED
        BY <1>0, <3>1
    <2>6. CASE DropPreviousUpload(s)
      BY <1>0, <2>6 DEF DropPreviousUpload, InFlight, Active
    <2>7. QED
      BY <2>1, <2>2, <2>3, <2>4, <2>5, <2>6
      DEF Asks, RequestStep, JoinOrRefuse, DropOwnUpload, Accept, RequestFault, RequestCrash
  <1>4. RequestsInv'
    BY <1>2, <1>3 DEF RequestsInv, HasUpload, RowHolder, Settled
  <1>5. RunsInv'
    <2>1. UNCHANGED <<phase, runOf>> /\ runOf \in [Workers -> Attempts]
      BY AskFrame DEF RequestsInv, TypeOK
    <2>2. CASE UNCHANGED <<status, attempt, runStatus>>
      BY <2>1, <2>2 DEF RunsInv, Accepted, HasRun
    <2>3. CASE CommitReconciled(s)
      <3>1. status' = "succeeded" /\ UNCHANGED attempt /\ attempt \in Attempts
            /\ runStatus' = [runStatus EXCEPT ![attempt] = "succeeded"]
        BY <2>3 DEF CommitReconciled, TypeOK
      <3>2. \A n \in Attempts : n = attempt => n <= attempt
        BY <3>1
      <3>3. QED
        BY <2>1, <3>1, <3>2 DEF RunsInv, Accepted, HasRun, TypeOK
    <2>4. CASE Accept(s)
      <3>1. \A n \in Attempts : n = NextAttempt => n <= NextAttempt
        BY <2>4, NewAttempt
      <3>2. /\ NextAttempt \in Attempts /\ attempt' = NextAttempt /\ status' = "processing"
            /\ runStatus'[NextAttempt] = "queued"
            /\ \A n \in Attempts : n # NextAttempt => runStatus'[n] = runStatus[n]
            /\ \A n \in Attempts : runStatus[n] # "absent" => n <= NextAttempt
        BY <2>4, NewAttempt DEF TypeOK
      <3>3. Accepted'
        BY <3>1, <3>2 DEF Accepted
      <3>4. HasRun'
        BY <2>1, <3>2 DEF RunsInv, HasRun
      <3>5. QED
        BY <3>3, <3>4 DEF RunsInv
    <2>5. QED
      BY <1>1, <2>2, <2>3, <2>4
  <1>6. QED
    BY <1>4, <1>5

LEMMA OtherRuns ==
  ASSUME TypeOK, RunsInv, Others
  PROVE  /\ UNCHANGED <<row, files, requests, strays, workers, marker>>
         /\ \A n \in Attempts :
              /\ Active(n)' <=> Active(n)
              /\ runStatus'[n] = "absent" <=> runStatus[n] = "absent"
  <1> USE DEF row, volume, requests, workers, counters, Upstairs
  <1>1. ASSUME NEW n \in Attempts, Recover(n) \/ RecoverAlive(n)
        PROVE  \A m \in Attempts :
                 /\ Active(m)' <=> Active(m)
                 /\ runStatus'[m] = "absent" <=> runStatus[m] = "absent"
    BY <1>1 DEF Recover, RecoverAlive, Active, TypeOK
  <1>2. CASE LoadProfile \/ SaveProfile
    BY <1>2 DEF LoadProfile, SaveProfile, Active
  <1>3. QED
    BY <1>1, <1>2 DEF Others, Recover, RecoverAlive

LEMMA RequestsStep ==
  ASSUME TypeOK, RequestsInv, RunsInv, [Next]_vars
  PROVE  RequestsInv' /\ RunsInv'
  <1> USE DEF row, requests, workers
  <1>1. /\ \A n \in Attempts : runStatus[n] # "absent" => n <= attempt /\ status # "absent"
        /\ \A w \in Workers : runOf[w] \in Attempts
        /\ \A w \in Workers : phase[w] # "none" => runStatus[runOf[w]] # "absent"
        /\ attempt \in Attempts
    BY DEF RunsInv, Accepted, HasRun, TypeOK
  <1>2. ASSUME NEW w \in Workers, Works(w) PROVE RequestsInv' /\ RunsInv'
    <2>1. /\ UNCHANGED <<requests, attempt>>
          /\ \A v \in Workers : v # w => phase'[v] = phase[v] /\ runOf'[v] = runOf[v]
      BY <1>2, WorkFrame
    <2>2. /\ \/ status' = status
             \/ rowLock = None /\ Current(runOf[w]) /\ status' \in {"succeeded", "failed"}
          /\ \A n \in Attempts :
               /\ Active(n)' => Active(n)
               /\ runStatus'[n] = "absent" <=> runStatus[n] = "absent"
          /\ phase'[w] # "none" => runStatus'[runOf'[w]] # "absent"
      BY <1>2, WorkRuns
    <2>3. InFlight' => InFlight
      BY <1>1, <2>1, <2>2 DEF InFlight
    <2>4. RequestsInv'
      BY <2>1, <2>2, <2>3, Constants DEF RequestsInv, HasUpload, RowHolder, Settled
    <2>5. RunsInv'
      BY <1>1, <2>1, <2>2 DEF RunsInv, Accepted, HasRun
    <2>6. QED
      BY <2>4, <2>5
  <1>3. CASE Others
    <2>1. /\ UNCHANGED <<row, requests, workers>>
          /\ \A n \in Attempts :
               /\ Active(n)' <=> Active(n)
               /\ runStatus'[n] = "absent" <=> runStatus[n] = "absent"
      BY <1>3, OtherRuns
    <2>2. InFlight' <=> InFlight
      BY <1>1, <2>1 DEF InFlight
    <2>3. QED
      BY <1>1, <2>1, <2>2 DEF RequestsInv, HasUpload, RowHolder, Settled, RunsInv, Accepted, HasRun
  <1>4. CASE UNCHANGED vars
    BY <1>4
    DEF vars, RequestsInv, HasUpload, RowHolder, Settled, RunsInv, Accepted, HasRun,
        InFlight, Active
  <1>5. QED
    BY <1>2, <1>3, <1>4, AskRequests, NextParts

---------------------------------------------------------------------------
(* profile.md.                                                             *)
LEMMA Grows ==
  ASSUME NEW S, NEW p \in Seq(S), NEW x \in S
  PROVE  LET q == Append(p, x)
         IN /\ q \in Seq(S) /\ Len(q) = Len(p) + 1 /\ Len(p) \in Nat
            /\ \A i \in 1..Len(p) : q[i] = p[i]
            /\ q[Len(p) + 1] = x
            /\ Extends(p, q) /\ Extends(p, p)
  BY DEF Extends

(* What one more contribution changes.                                     *)
LEMMA Appended ==
  ASSUME TypeOK, MergedOnce, NEW x \in Contributions, x = Edit \/ ~Merged(x),
         profile' = Append(profile, x)
  PROVE  /\ MergedOnce' /\ Extends(profile, profile')
         /\ \A n \in Attempts : Merged(n)' <=> Merged(n) \/ n = x
  <1>1. /\ Len(profile') = Len(profile) + 1 /\ Len(profile) \in Nat
        /\ \A i \in 1..Len(profile) : profile'[i] = profile[i]
        /\ profile'[Len(profile) + 1] = x
        /\ Extends(profile, profile')
    BY Grows DEF TypeOK
  <1>2. \A i \in 1..Len(profile') :
          i \in 1..Len(profile) \/ i = Len(profile) + 1
    BY <1>1
  <1>3. ASSUME NEW i \in 1..Len(profile'), NEW j \in 1..Len(profile'),
               profile'[i] = profile'[j], profile'[i] # Edit
        PROVE  i = j
    <2>1. CASE i \in 1..Len(profile) /\ j \in 1..Len(profile)
      BY <1>1, <1>3, <2>1 DEF MergedOnce
    <2>2. CASE i \in 1..Len(profile) /\ j = Len(profile) + 1
      BY <1>1, <1>3, <2>2 DEF Merged
    <2>3. CASE j \in 1..Len(profile) /\ i = Len(profile) + 1
      BY <1>1, <1>3, <2>3 DEF Merged
    <2>4. QED
      BY <1>2, <2>1, <2>2, <2>3
  <1>4. ASSUME NEW n \in Attempts PROVE Merged(n)' <=> Merged(n) \/ n = x
    <2>1. Len(profile) + 1 \in 1..Len(profile')
          /\ \A i \in 1..Len(profile) : i \in 1..Len(profile')
      BY <1>1
    <2>2. QED
      BY <1>1, <1>2, <2>1 DEF Merged
  <1>5. QED
    BY <1>1, <1>3, <1>4 DEF MergedOnce

LEMMA Replaced ==
  ASSUME NEW x, profile' = <<x>>
  PROVE  MergedOnce' /\ \A n \in Attempts : Merged(n)' <=> n = x
  <1>1. Len(profile') = 1 /\ profile'[1] = x /\ 1..1 = {1}
    OBVIOUS
  <1>2. QED
    BY <1>1 DEF MergedOnce, Merged

(* The three writes of an import.                                          *)
Writes(w) ==
  /\ phase[w] = "merge" /\ phase'[w] \in {"commit", "fail"} /\ status' = status
  /\ marker' = runOf[w]
  /\ \/ profile' = Append(base[w], runOf[w])
     \/ profile' = <<runOf[w]>> /\ "fallback" \in trouble'

LEMMA WorkProfile ==
  ASSUME TypeOK, LockHeld, NEW w \in Workers, Works(w)
  PROVE  /\ UNCHANGED <<profile, marker>> \/ Writes(w)
         /\ phase'[w] \in {"reread", "merge", "commit"} => profileLock' = w
         /\ phase'[w] = "merge" =>
              /\ phase[w] = "reread" /\ Current(runOf[w]) /\ marker # runOf[w]
              /\ base'[w] = profile /\ runOf'[w] = runOf[w]
              /\ UNCHANGED <<profile, status>>
  <1> USE DEF row, volume, counters, Upstairs, Enter
  <1>0. /\ phase \in [Workers -> Phases] /\ base \in [Workers -> Seq(Contributions)]
        /\ phase[w] \in {"reread", "merge", "commit"} => profileLock = w
    BY DEF TypeOK, LockHeld
  <1>1. CASE Claim(w) \/ Extract(w) \/ LockProfile(w)
    BY <1>0, <1>1 DEF Claim, Extract, LockProfile
  <1>2. CASE Check(w)
    BY <1>0, <1>2 DEF Check
  <1>3. CASE Reread(w)
    <2>1. CASE ~Current(runOf[w])
      BY <1>0, <1>3, <2>1 DEF Reread, Leave
    <2>2. CASE Current(runOf[w]) /\ AlreadyWritten(w)
      BY <1>0, <1>3, <2>2 DEF Reread
    <2>3. CASE Current(runOf[w]) /\ ~AlreadyWritten(w)
      BY <1>0, <1>3, <2>3 DEF Reread, AlreadyWritten
    <2>4. QED
      BY <2>1, <2>2, <2>3
  <1>4. CASE Merge(w)
    BY <1>0, <1>4 DEF Merge, Writes
  <1>5. CASE MergeFallback(w)
    BY <1>0, <1>5 DEF MergeFallback, Writes, Trouble
  <1>6. CASE MergeAmbiguous(w)
    BY <1>0, <1>6 DEF MergeAmbiguous, Writes
  <1>7. CASE Commit(w) \/ CommitFault(w) \/ CommitAmbiguous(w) \/ Fail(w)
    BY <1>0, <1>7 DEF Commit, CommitFault, CommitAmbiguous, Fail, Leave
  <1>8. CASE DeleteSource(w) \/ ClearSourceRef(w)
    BY <1>0, <1>8 DEF DeleteSource, ClearSourceRef
  <1>9. CASE Finish(w) \/ Crash(w)
    BY <1>0, <1>9 DEF Finish, Crash, Gone
  <1>10. QED
    BY <1>1, <1>2, <1>3, <1>4, <1>5, <1>6, <1>7, <1>8, <1>9 DEF Works, WorkerStep

LEMMA AskProfileStep ==
  ASSUME TypeOK, RequestsInv, RunsInv, ProfileInv, NEW s \in Sessions, Asks(s)
  PROVE  ProfileInv'
  <1> USE DEF workers
  <1>1. UNCHANGED <<workers, profile, marker>>
    BY AskFrame DEF RequestsInv
  <1>2. MergedOnce' /\ LockHeld' /\ \A n : Merged(n)' <=> Merged(n)
    BY <1>1 DEF ProfileInv, MergedOnce, LockHeld, Merged
  <1>3. CASE UNCHANGED <<status, attempt>>
    BY <1>1, <1>2, <1>3 DEF ProfileInv, MergedAccepted, Marked, MergesNew
  <1>4. CASE CommitReconciled(s)
    <2>1. status' = "succeeded" /\ UNCHANGED attempt
      BY <1>4 DEF CommitReconciled
    <2>2. QED
      BY <1>1, <1>2, <2>1 DEF ProfileInv, MergedAccepted, Marked, MergesNew
  <1>5. CASE Accept(s)
    <2>1. attempt' = NextAttempt /\ status' = "processing" /\ NextAttempt \in Attempts
          /\ (status # "absent" => NextAttempt = attempt + 1)
      BY <1>5, NewAttempt
    <2>2. ASSUME NEW n \in Attempts, Merged(n) PROVE n <= NextAttempt /\ n # NextAttempt
      <3>1. n <= attempt /\ NextAttempt = attempt + 1
        BY <2>1, <2>2 DEF ProfileInv, MergedAccepted
      <3>2. n \in Nat /\ attempt \in Nat
        BY Constants DEF TypeOK
      <3>3. QED
        BY <3>1, <3>2
    <2>3. ~Merged(NextAttempt)
      BY <2>1, <2>2
    <2>4. QED
      BY <1>1, <1>2, <2>1, <2>2, <2>3 DEF ProfileInv, MergedAccepted, Marked, MergesNew
  <1>6. QED
    BY <1>3, <1>4, <1>5, AskRuns

LEMMA WorkProfileStep ==
  ASSUME TypeOK, RunsInv, ProfileInv, NEW w \in Workers, Works(w)
  PROVE  ProfileInv'
  <1>0. /\ \A v \in Workers :
             phase[v] \in {"reread", "merge", "commit"} => profileLock = v
        /\ \A v \in Workers :
             phase[v] = "merge" =>
               base[v] = profile /\ ~Merged(runOf[v]) /\ ~Merged(attempt)
        /\ \A n \in Attempts : Merged(n) => n <= attempt /\ status # "absent"
        /\ status = "processing" /\ Merged(attempt) => marker = attempt
        /\ attempt \in Attempts /\ \A v \in Workers : runOf[v] \in Attempts
        /\ \A v \in Workers :
             phase[v] # "none" => runOf[v] <= attempt /\ status # "absent"
    BY DEF ProfileInv, LockHeld, MergesNew, MergedAccepted, Marked, TypeOK, RunsInv, Accepted,
           HasRun
  <1>1. /\ UNCHANGED attempt
        /\ \A v \in Workers : v # w =>
             /\ phase'[v] = phase[v] /\ runOf'[v] = runOf[v] /\ base'[v] = base[v]
             /\ profileLock = v => profileLock' = v
    BY WorkFrame
  <1>2. /\ UNCHANGED <<profile, marker>> \/ Writes(w)
        /\ phase'[w] \in {"reread", "merge", "commit"} => profileLock' = w
        /\ phase'[w] = "merge" =>
              /\ phase[w] = "reread" /\ Current(runOf[w]) /\ marker # runOf[w]
              /\ base'[w] = profile /\ runOf'[w] = runOf[w]
              /\ UNCHANGED <<profile, status>>
    BY WorkProfile DEF ProfileInv
  <1>3. status' = status \/ status' \in {"succeeded", "failed"}
    BY WorkRuns
  <1>4. LockHeld'
    BY <1>0, <1>1, <1>2 DEF LockHeld
  <1>5. CASE UNCHANGED <<profile, marker>>
    <2>1. MergedOnce' /\ \A n : Merged(n)' <=> Merged(n)
      BY <1>5 DEF ProfileInv, MergedOnce, Merged
    <2>2. MergedAccepted' /\ Marked'
      BY <1>0, <1>1, <1>3, <1>5, <2>1 DEF MergedAccepted, Marked
    <2>3. ASSUME phase'[w] = "merge"
          PROVE  base'[w] = profile' /\ ~Merged(runOf'[w]) /\ ~Merged(attempt)
      BY <1>0, <1>2, <2>3 DEF Current
    <2>4. MergesNew'
      BY <1>0, <1>1, <1>5, <2>1, <2>3 DEF MergesNew
    <2>5. QED
      BY <1>4, <2>1, <2>2, <2>4 DEF ProfileInv
  <1>6. CASE Writes(w)
    <2>1. /\ phase[w] = "merge" /\ phase'[w] \in {"commit", "fail"} /\ status' = status
          /\ marker' = runOf[w]
          /\ profile' = Append(profile, runOf[w]) \/ profile' = <<runOf[w]>>
      BY <1>0, <1>6 DEF Writes
    <2>2. MergedOnce' /\ \A n \in Attempts : Merged(n)' => Merged(n) \/ n = runOf[w]
      <3>1. runOf[w] \in Contributions /\ ~Merged(runOf[w]) /\ MergedOnce
        BY <1>0, <2>1 DEF Contributions, ProfileInv
      <3>2. QED
        BY <2>1, <3>1, Appended, Replaced
    <2>3. MergedAccepted' /\ Marked'
      BY <1>0, <1>1, <2>1, <2>2 DEF MergedAccepted, Marked
    <2>4. MergesNew'
      BY <1>0, <1>1, <2>1 DEF MergesNew
    <2>5. QED
      BY <1>4, <2>2, <2>3, <2>4 DEF ProfileInv
  <1>7. QED
    BY <1>2, <1>5, <1>6

LEMMA OtherProfileStep ==
  ASSUME TypeOK, RunsInv, ProfileInv, Others
  PROVE  ProfileInv'
  <1> USE DEF row, workers
  <1>1. UNCHANGED <<status, attempt, workers, marker>>
    BY OtherRuns
  <1>2. CASE UNCHANGED profile
    BY <1>1, <1>2
    DEF ProfileInv, MergedOnce, LockHeld, MergedAccepted, Marked, MergesNew, Merged
  <1>3. CASE SaveProfile
    <2>1. profileLock = None /\ profile' = Append(profile, Edit)
      BY <1>3 DEF SaveProfile
    <2>2. MergedOnce' /\ \A n \in Attempts : Merged(n)' <=> Merged(n)
      BY <2>1, Appended, EditAssumption DEF ProfileInv, Contributions
    <2>3. \A w \in Workers : phase[w] # "merge"
      BY <2>1, Constants DEF ProfileInv, LockHeld
    <2>4. attempt \in Attempts
      BY DEF TypeOK
    <2>5. QED
      BY <1>1, <2>2, <2>3, <2>4
      DEF ProfileInv, LockHeld, MergedAccepted, Marked, MergesNew
  <1>4. QED
    BY <1>2, <1>3 DEF Others, Recover, RecoverAlive, LoadProfile, volume

---------------------------------------------------------------------------
(* As long as no run is requeued under a live invocation, an invocation is  *)
(* the only one of its run, which is running, and works on an attempt that  *)
(* is undecided; and what a request decided about a stuck attempt holds     *)
(* when it acts on it.                                                     *)
Alone ==
  "overlap" \notin trouble =>
    /\ \A w \in Workers : phase[w] # "none" => runStatus[runOf[w]] = "running"
    /\ \A v, w \in Workers :
         phase[v] # "none" /\ phase[w] # "none" /\ v # w => runOf[v] # runOf[w]

Undecided ==
  "overlap" \notin trouble =>
    \A w \in Workers :
      phase[w] \in {"extract", "lock", "reread", "merge", "commit", "fail"}
        /\ runOf[w] = attempt => status = "processing"

NotMergedBefore ==
  "overlap" \notin trouble /\ status = "processing" =>
    \A s \in Sessions :
      pc[s] \in {"new", "accept"} /\ inputHash = hash[s] => ~Merged(attempt)

AloneInv == Alone /\ Undecided /\ NotMergedBefore

LEMMA WorkAlone ==
  ASSUME TypeOK, RunsInv, Alone, Undecided, NEW w \in Workers, Works(w)
  PROVE  Alone' /\ Undecided'
  <1> USE DEF row, volume, workers, counters, Upstairs
  <1>1. /\ UNCHANGED attempt
        /\ \A v \in Workers : v # w => phase'[v] = phase[v] /\ runOf'[v] = runOf[v]
        /\ trouble \subseteq trouble'
    BY WorkFrame
  <1>2. /\ \A v \in Workers : runOf[v] \in Attempts
        /\ runStatus \in [Attempts -> RunStatuses] /\ phase \in [Workers -> Phases]
        /\ runOf \in [Workers -> Attempts]
    BY DEF TypeOK
  <1>3. CASE "overlap" \in trouble
    BY <1>1, <1>3 DEF Alone, Undecided
  <1>4. ASSUME "overlap" \notin trouble
        PROVE  /\ \A v \in Workers : phase[v] # "none" => runStatus[runOf[v]] = "running"
               /\ \A u, v \in Workers :
                    phase[u] # "none" /\ phase[v] # "none" /\ u # v => runOf[u] # runOf[v]
               /\ \A v \in Workers :
                    phase[v] \in {"extract", "lock", "reread", "merge", "commit", "fail"}
                      /\ runOf[v] = attempt => status = "processing"
    BY <1>4 DEF Alone, Undecided
  <1>5. ASSUME "overlap" \notin trouble PROVE Alone'
    <2>1. CASE Claim(w)
      <3>1. PICK n \in Attempts :
              /\ runStatus[n] = "queued" /\ runStatus' = [runStatus EXCEPT ![n] = "running"]
              /\ runOf' = [runOf EXCEPT ![w] = n]
        BY <2>1 DEF Claim
      <3>2. \A v \in Workers : phase[v] # "none" => runOf[v] # n
        BY <1>4, <1>5, <3>1
      <3>3. runOf'[w] = n /\ runStatus'[n] = "running"
            /\ \A m \in Attempts : m # n => runStatus'[m] = runStatus[m]
        BY <1>2, <3>1
      <3>4. QED
        BY <1>1, <1>2, <1>4, <1>5, <3>2, <3>3 DEF Alone
    <2>2. CASE Finish(w)
      <3>1. phase[w] # "none" /\ phase'[w] = "none"
            /\ \A n \in Attempts : n # runOf[w] => runStatus'[n] = runStatus[n]
        BY <1>2, <2>2 DEF Finish, Gone, Enter
      <3>2. QED
        BY <1>1, <1>2, <1>4, <1>5, <3>1 DEF Alone
    <2>3. CASE UNCHANGED runStatus /\ phase[w] # "none"
               /\ (UNCHANGED runOf \/ phase'[w] = "none")
      BY <1>1, <1>4, <1>5, <2>3 DEF Alone
    <2>4. \/ Claim(w) \/ Finish(w)
          \/ UNCHANGED runStatus /\ phase[w] # "none" /\ (UNCHANGED runOf \/ phase'[w] = "none")
      BY <1>2 DEF Works, WorkerStep, Check, Extract, LockProfile, Reread, Merge,
             MergeFallback, MergeAmbiguous, Commit, CommitFault, CommitAmbiguous, Fail,
             DeleteSource, ClearSourceRef, Crash, Gone, Enter
    <2>5. QED
      BY <2>1, <2>2, <2>3, <2>4
  <1>6. ASSUME "overlap" \notin trouble PROVE Undecided'
    <2>1. CASE status' = status
      <3>1. phase'[w] \in {"extract", "lock", "reread", "merge", "commit", "fail"} =>
              /\ runOf' = runOf
              /\ \/ phase[w] = "check" /\ Current(runOf[w])
                 \/ phase[w] \in {"extract", "lock", "reread", "merge", "commit", "fail"}
        <4> USE <1>2 DEF Enter, Leave
        <4>1. CASE Claim(w) \/ Check(w) \/ Extract(w) \/ LockProfile(w)
          BY <4>1 DEF Claim, Check, Extract, LockProfile
        <4>2. CASE Reread(w)
          BY <4>2 DEF Reread
        <4>3. CASE Merge(w) \/ MergeFallback(w) \/ MergeAmbiguous(w)
          BY <4>3 DEF Merge, MergeFallback, MergeAmbiguous
        <4>4. CASE Commit(w) \/ CommitFault(w) \/ CommitAmbiguous(w) \/ Fail(w)
          BY <4>4 DEF Commit, CommitFault, CommitAmbiguous, Fail
        <4>5. CASE DeleteSource(w) \/ ClearSourceRef(w) \/ Finish(w) \/ Crash(w)
          BY <4>5 DEF DeleteSource, ClearSourceRef, Finish, Crash, Gone
        <4>6. QED
          BY <4>1, <4>2, <4>3, <4>4, <4>5 DEF Works, WorkerStep
      <3>2. QED
        BY <1>1, <1>4, <1>6, <2>1, <3>1 DEF Undecided, Current
    <2>2. CASE status' # status
      <3>1. Current(runOf[w]) /\ phase[w] \in {"commit", "fail"}
        BY <2>2, WorkRuns
      <3>2. phase'[w] = "cleanup"
        BY <1>2, <2>2, <3>1
        DEF Works, WorkerStep, Claim, Check, Extract, LockProfile, Reread, Merge,
            MergeFallback, MergeAmbiguous, Commit, CommitFault, CommitAmbiguous, Fail,
            DeleteSource, ClearSourceRef, Finish, Crash, Leave, Enter
      <3>3. \A v \in Workers : v # w /\ phase[v] # "none" => runOf[v] # attempt
        BY <1>4, <1>6, <3>1 DEF Current
      <3>4. QED
        BY <1>1, <3>2, <3>3 DEF Undecided
    <2>3. QED
      BY <2>1, <2>2
  <1>7. QED
    BY <1>3, <1>5, <1>6

LEMMA AskAlone ==
  ASSUME TypeOK, RequestsInv, RunsInv, Alone, Undecided, NEW s \in Sessions, Asks(s)
  PROVE  Alone' /\ Undecided'
  <1> USE DEF workers
  <1>1. UNCHANGED <<phase, runOf>> /\ trouble \subseteq trouble'
        /\ (\A v \in Workers : runOf[v] \in Attempts) /\ attempt \in Attempts
        /\ runStatus \in [Attempts -> RunStatuses]
    BY AskFrame DEF RequestsInv, TypeOK
  <1>2. CASE "overlap" \in trouble
    BY <1>1, <1>2 DEF Alone, Undecided
  <1>3. CASE UNCHANGED <<status, attempt, inputHash, runStatus>>
    BY <1>1, <1>3 DEF Alone, Undecided
  <1>4. CASE "overlap" \notin trouble /\ CommitReconciled(s)
    <2>1. status = "processing" /\ ~Active(attempt) /\ UNCHANGED attempt
          /\ runStatus' = [runStatus EXCEPT ![attempt] = "succeeded"]
      BY <1>4 DEF CommitReconciled, RequestsInv, Settled, InFlight
    <2>2. \A v \in Workers : phase[v] # "none" => runOf[v] # attempt
      BY <1>4, <2>1 DEF Alone, Active
    <2>3. QED
      BY <1>1, <1>4, <2>1, <2>2 DEF Alone, Undecided
  <1>5. CASE "overlap" \notin trouble /\ Accept(s)
    <2>1. /\ attempt' = NextAttempt /\ NextAttempt \in Attempts
          /\ runStatus' = [runStatus EXCEPT ![NextAttempt] = "queued"]
          /\ \A v \in Workers : phase[v] # "none" => runOf[v] # NextAttempt
      BY <1>1, <1>5, NewAttempt DEF RunsInv, HasRun
    <2>2. QED
      BY <1>1, <1>5, <2>1 DEF Alone, Undecided
  <1>6. QED
    BY <1>2, <1>3, <1>4, <1>5, AskRuns

LEMMA OtherAlone ==
  ASSUME TypeOK, RunsInv, Alone, Undecided, Others
  PROVE  Alone' /\ Undecided'
  <1> USE DEF row, workers
  <1>1. UNCHANGED <<status, attempt, phase, runOf>>
    BY OtherRuns
  <1>2. trouble \subseteq trouble'
    BY DEF Others, Recover, RecoverAlive, LoadProfile, SaveProfile, counters, Trouble
  <1>3. CASE UNCHANGED runStatus
    BY <1>1, <1>2, <1>3 DEF Alone, Undecided
  <1>4. ASSUME NEW n \in Attempts, Recover(n) PROVE Alone' /\ Undecided'
    <2>1. \A m \in Attempts : m # n => runStatus'[m] = runStatus[m]
      BY <1>4 DEF Recover, TypeOK
    <2>2. \A w \in Workers : runOf[w] \in Attempts /\ (phase[w] # "none" => runOf[w] # n)
      BY <1>4 DEF Recover, Invoked, TypeOK
    <2>3. Alone'
      BY <1>1, <1>2, <2>1, <2>2 DEF Alone
    <2>4. Undecided'
      BY <1>1, <1>2 DEF Undecided
    <2>5. QED
      BY <2>3, <2>4
  <1>5. ASSUME NEW n \in Attempts, RecoverAlive(n) PROVE Alone' /\ Undecided'
    BY <1>5 DEF RecoverAlive, Trouble, Alone, Undecided
  <1>6. QED
    BY <1>3, <1>4, <1>5 DEF Others, LoadProfile, SaveProfile

LEMMA AskNotMerged ==
  ASSUME TypeOK, RequestsInv, RunsInv, ProfileInv, NotMergedBefore, NEW s \in Sessions, Asks(s)
  PROVE  NotMergedBefore'
  <1>0. pc \in [Sessions -> PCs]
    BY DEF TypeOK
  <1>1. /\ UNCHANGED profile /\ trouble \subseteq trouble'
        /\ \A d \in Sessions : d # s => pc'[d] = pc[d] /\ hash'[d] = hash[d]
    BY AskFrame DEF RequestsInv
  <1>2. \A n : Merged(n)' <=> Merged(n)
    BY <1>1 DEF Merged
  <1>3. \/ UNCHANGED <<status, attempt, inputHash>>
        \/ \A d \in Sessions : pc[d] \in {"new", "accept"} => d = s
    <2>1. \A d \in Sessions :
            pc[d] \in {"locked", "reconcile", "new", "accept"} => rowLock = d
      BY DEF RequestsInv, RowHolder
    <2>2. QED
      BY <2>1, AskRuns DEF CommitReconciled, Accept
  <1>4. pc'[s] \in {"new", "accept"} =>
          /\ UNCHANGED <<status, attempt, inputHash, hash>>
          /\ \/ pc[s] \in {"new", "accept"}
             \/ ~IsStuckAndMerged(s)
    <2> USE <1>0 DEF row, Goto
    <2>1. CASE EndRequest(s)
      BY <2>1 DEF EndRequest
    <2>2. CASE SaveUpload(s) \/ LockRow(s) \/ ReadMarker(s) \/ DropPreviousUpload(s)
      BY <2>2 DEF SaveUpload, LockRow, ReadMarker, DropPreviousUpload
    <2>3. CASE CommitReconciled(s) \/ DeleteStuckUpload(s) \/ ClearStuckRef(s)
      BY <2>3 DEF CommitReconciled, DeleteStuckUpload, ClearStuckRef
    <2>4. QED
      BY <2>1, <2>2, <2>3
      DEF Asks, RequestStep, JoinOrRefuse, DropOwnUpload, Accept, RequestFault, RequestCrash
  <1>5. status = "processing" /\ Merged(attempt) => marker = attempt
    BY DEF ProfileInv, Marked
  <1>6. ASSUME "overlap" \notin trouble', status' = "processing",
               NEW d \in Sessions, pc'[d] \in {"new", "accept"}, inputHash' = hash'[d]
        PROVE  ~Merged(attempt)'
    <2>1. CASE d = s
      BY <1>1, <1>2, <1>4, <1>5, <1>6, <2>1 DEF NotMergedBefore, IsStuckAndMerged
    <2>2. CASE d # s
      BY <1>1, <1>2, <1>3, <1>6, <2>2 DEF NotMergedBefore
    <2>3. QED
      BY <2>1, <2>2
  <1>7. QED
    BY <1>6 DEF NotMergedBefore

LEMMA WorkNotMerged ==
  ASSUME TypeOK, RequestsInv, RunsInv, ProfileInv, Alone, NotMergedBefore,
         NEW w \in Workers, Works(w)
  PROVE  NotMergedBefore'
  <1> USE DEF requests
  <1>1. UNCHANGED <<requests, attempt, inputHash>> /\ trouble \subseteq trouble'
        /\ attempt \in Attempts
    BY WorkFrame DEF TypeOK
  <1>2. status' = status \/ status' \in {"succeeded", "failed"}
    BY WorkRuns
  <1>3. CASE UNCHANGED profile
    BY <1>1, <1>2, <1>3 DEF NotMergedBefore, Merged
  <1>4. CASE Writes(w)
    <2>1. /\ phase[w] = "merge"
          /\ \A n \in Attempts : Merged(n)' => Merged(n) \/ n = runOf[w]
      <3>1. phase[w] = "merge" /\ runOf[w] \in Contributions /\ ~Merged(runOf[w])
            /\ (profile' = Append(profile, runOf[w]) \/ profile' = <<runOf[w]>>) /\ MergedOnce
        BY <1>4 DEF Writes, ProfileInv, MergesNew, TypeOK, Contributions
      <3>2. QED
        BY <3>1, Appended, Replaced
    <2>2. ASSUME "overlap" \notin trouble, status = "processing",
                 NEW s \in Sessions, pc[s] \in {"new", "accept"}
          PROVE  runOf[w] # attempt
      BY <2>1, <2>2 DEF Alone, RequestsInv, Settled, InFlight, Active
    <2>3. QED
      BY <1>1, <1>2, <2>1, <2>2 DEF NotMergedBefore
  <1>5. QED
    BY <1>3, <1>4, WorkProfile DEF ProfileInv

LEMMA OtherNotMerged ==
  ASSUME TypeOK, RunsInv, ProfileInv, NotMergedBefore, Others
  PROVE  NotMergedBefore'
  <1> USE DEF row, requests
  <1>1. UNCHANGED <<row, requests>> /\ attempt \in Attempts
    BY OtherRuns DEF TypeOK
  <1>2. trouble \subseteq trouble'
    BY DEF Others, Recover, RecoverAlive, LoadProfile, SaveProfile, counters, Trouble
  <1>3. \A n \in Attempts : Merged(n)' <=> Merged(n)
    <2>1. CASE SaveProfile
      <3>1. profile' = Append(profile, Edit)
        BY <2>1 DEF SaveProfile
      <3>2. QED
        BY <3>1, Appended, EditAssumption DEF ProfileInv, Contributions
    <2>2. CASE UNCHANGED profile
      BY <2>2 DEF Merged
    <2>3. QED
      BY <2>1, <2>2 DEF Others, Recover, RecoverAlive, LoadProfile, volume
  <1>4. QED
    BY <1>1, <1>2, <1>3 DEF NotMergedBefore

---------------------------------------------------------------------------
(* As long as also nobody dies and no statement fails after taking effect,  *)
(* a running run has its invocation, and an invocation that can still       *)
(* record a failure has not been in profile.md.                            *)
Calm == trouble \cap {"crash", "overlap", "ambiguous"} = {}

Early == {"check", "extract", "lock", "reread", "merge", "fail"}

RunningInvoked ==
  Calm => \A n \in Attempts : runStatus[n] = "running" => Invoked(n)

NotYetMerged ==
  Calm =>
    /\ \A n \in Attempts : runStatus[n] \in {"absent", "queued"} => ~Merged(n)
    /\ \A w \in Workers : phase[w] \in Early => ~Merged(runOf[w])

FailedInv == RunningInvoked /\ NotYetMerged /\ FailedIsNotMergedUndisturbed

LEMMA WorkCalm ==
  ASSUME TypeOK, NEW w \in Workers, Works(w), Calm'
  PROVE  /\ Calm
         /\ \/ Claim(w) \/ Finish(w)
            \/ /\ UNCHANGED <<runStatus, runOf>> /\ phase[w] # "none" /\ phase'[w] # "none"
               /\ phase'[w] \in Early => phase[w] \in Early /\ UNCHANGED profile
         /\ status' = "failed" => status = "failed" \/ phase[w] = "fail"
  <1> USE DEF row, volume, workers, counters, Upstairs
  <1>1. trouble \subseteq trouble' /\ phase \in [Workers -> Phases]
    BY WorkFrame DEF TypeOK
  <1>2. Calm
    BY <1>1 DEF Calm
  <1>3. /\ ~(\E k \in {"crash", "ambiguous"} : Trouble(k))
    BY DEF Calm, Trouble
  <1>4. status' = "failed" => status = "failed" \/ phase[w] = "fail"
    BY DEF Works, WorkerStep, Claim, Check, Extract, LockProfile, Reread, Merge,
           MergeFallback, MergeAmbiguous, Commit, CommitFault, CommitAmbiguous, Fail,
           DeleteSource, ClearSourceRef, Finish, Crash, Conclude
  <1> USE <1>1 DEF Enter, Leave, Early
  <1>5. CASE Check(w) \/ Extract(w) \/ LockProfile(w)
    BY <1>2, <1>4, <1>5 DEF Check, Extract, LockProfile
  <1>6. CASE Reread(w)
    BY <1>2, <1>4, <1>6 DEF Reread
  <1>7. CASE Merge(w) \/ MergeFallback(w)
    BY <1>2, <1>4, <1>7 DEF Merge, MergeFallback
  <1>8. CASE Commit(w) \/ CommitFault(w) \/ Fail(w)
    BY <1>2, <1>4, <1>8 DEF Commit, CommitFault, Fail
  <1>9. CASE DeleteSource(w) \/ ClearSourceRef(w)
    BY <1>2, <1>4, <1>9 DEF DeleteSource, ClearSourceRef
  <1>10. CASE Claim(w) \/ Finish(w)
    BY <1>2, <1>4, <1>10
  <1>11. CASE MergeAmbiguous(w) \/ CommitAmbiguous(w) \/ Crash(w)
    BY <1>3, <1>11 DEF MergeAmbiguous, CommitAmbiguous, Crash
  <1>12. QED
    BY <1>5, <1>6, <1>7, <1>8, <1>9, <1>10, <1>11 DEF Works, WorkerStep

LEMMA WorkFailed ==
  ASSUME TypeOK, RunsInv, ProfileInv, Alone, Undecided, FailedInv,
         NEW w \in Workers, Works(w)
  PROVE  FailedInv'
  <1> SUFFICES ASSUME Calm' PROVE FailedInv'
    BY DEF FailedInv, RunningInvoked, NotYetMerged, FailedIsNotMergedUndisturbed, Calm
  <1>1. /\ Calm /\ "overlap" \notin trouble
        /\ \/ Claim(w) \/ Finish(w)
           \/ /\ UNCHANGED <<runStatus, runOf>> /\ phase[w] # "none" /\ phase'[w] # "none"
              /\ phase'[w] \in Early => phase[w] \in Early /\ UNCHANGED profile
        /\ status' = "failed" => status = "failed" \/ phase[w] = "fail"
    BY WorkCalm DEF Calm
  <1>2. /\ UNCHANGED attempt
        /\ \A v \in Workers : v # w => phase'[v] = phase[v] /\ runOf'[v] = runOf[v]
    BY WorkFrame
  <1>3. /\ \A v \in Workers : phase[v] # "none" => runStatus[runOf[v]] = "running"
        /\ \A u, v \in Workers :
             phase[u] # "none" /\ phase[v] # "none" /\ u # v => runOf[u] # runOf[v]
        /\ \A v \in Workers :
             phase[v] \in {"extract", "lock", "reread", "merge", "commit", "fail"}
               /\ runOf[v] = attempt => status = "processing"
        /\ \A n \in Attempts : runStatus[n] = "running" => Invoked(n)
        /\ \A n \in Attempts : runStatus[n] \in {"absent", "queued"} => ~Merged(n)
        /\ \A v \in Workers : phase[v] \in Early => ~Merged(runOf[v])
        /\ status = "failed" => ~Merged(attempt)
    BY <1>1
    DEF Alone, Undecided, FailedInv, RunningInvoked, NotYetMerged,
        FailedIsNotMergedUndisturbed, FailedIsNotMerged, Calm
  <1>4. /\ (\A v \in Workers : runOf[v] \in Attempts) /\ attempt \in Attempts
        /\ runStatus \in [Attempts -> RunStatuses] /\ phase \in [Workers -> Phases]
        /\ runOf \in [Workers -> Attempts]
    BY DEF TypeOK
  <1>5. status' # status => Current(runOf[w]) /\ phase[w] \in {"commit", "fail"}
    BY WorkRuns
  <1>6. CASE Claim(w)
    <2>1. PICK n \in Attempts :
            /\ runStatus[n] = "queued" /\ runStatus' = [runStatus EXCEPT ![n] = "running"]
            /\ runOf' = [runOf EXCEPT ![w] = n]
      BY <1>6 DEF Claim
    <2>2. /\ phase[w] = "none" /\ phase'[w] = "check" /\ UNCHANGED <<status, profile>>
      BY <1>4, <1>6 DEF Claim, Enter, row, volume
    <2>3. runOf'[w] = n /\ runStatus'[n] = "running"
          /\ \A m \in Attempts : m # n => runStatus'[m] = runStatus[m]
      BY <1>4, <2>1
    <2>4. \A m : Merged(m)' <=> Merged(m)
      BY <2>2 DEF Merged
    <2>5. RunningInvoked'
      BY <1>2, <1>3, <2>2, <2>3 DEF RunningInvoked, Invoked
    <2>6. NotYetMerged'
      BY <1>2, <1>3, <2>1, <2>2, <2>3, <2>4 DEF NotYetMerged
    <2>7. QED
      BY <1>2, <1>3, <2>2, <2>4, <2>5, <2>6
      DEF FailedInv, FailedIsNotMergedUndisturbed, FailedIsNotMerged
  <1>7. CASE Finish(w)
    <2>1. /\ phase[w] # "none" /\ phase'[w] = "none" /\ UNCHANGED <<status, profile>>
          /\ \A n \in Attempts :
               /\ n # runOf[w] => runStatus'[n] = runStatus[n]
               /\ n = runOf[w] => runStatus'[n] \in {"succeeded", "failed"}
      BY <1>4, <1>7 DEF Finish, Gone, Enter, row, volume
    <2>2. \A m : Merged(m)' <=> Merged(m)
      BY <2>1 DEF Merged
    <2>3. RunningInvoked'
      BY <1>2, <1>3, <2>1 DEF RunningInvoked, Invoked
    <2>4. NotYetMerged'
      BY <1>2, <1>3, <2>1, <2>2 DEF NotYetMerged, Early
    <2>5. QED
      BY <1>2, <1>3, <2>1, <2>2, <2>3, <2>4
      DEF FailedInv, FailedIsNotMergedUndisturbed, FailedIsNotMerged
  <1>8. ASSUME UNCHANGED <<runStatus, runOf>>, phase[w] # "none", phase'[w] # "none",
               phase'[w] \in Early => phase[w] \in Early /\ UNCHANGED profile
        PROVE  FailedInv'
    <2>1. RunningInvoked'
      BY <1>2, <1>3, <1>8 DEF RunningInvoked, Invoked
    <2>2. CASE UNCHANGED profile
      <3>1. \A m : Merged(m)' <=> Merged(m)
        BY <2>2 DEF Merged
      <3>2. NotYetMerged'
        BY <1>2, <1>3, <1>8, <3>1 DEF NotYetMerged
      <3>3. status' = "failed" => ~Merged(attempt)
        BY <1>1, <1>3, <1>5 DEF Early, Current
      <3>4. QED
        BY <1>2, <2>1, <3>1, <3>2, <3>3
        DEF FailedInv, FailedIsNotMergedUndisturbed, FailedIsNotMerged
    <2>3. CASE Writes(w)
      <3>1. phase'[w] \notin Early \/ UNCHANGED profile
        BY <1>8, <2>3 DEF Writes
      <3>2. phase[w] = "merge" /\ UNCHANGED status
        BY <2>3 DEF Writes
      <3>3. \A n \in Attempts : Merged(n)' => Merged(n) \/ n = runOf[w]
        <4>1. /\ runOf[w] \in Contributions /\ ~Merged(runOf[w]) /\ MergedOnce
              /\ (profile' = Append(profile, runOf[w]) \/ profile' = <<runOf[w]>>)
          BY <1>4, <2>3 DEF Writes, ProfileInv, MergesNew, Contributions
        <4>2. QED
          BY <4>1, Appended, Replaced
      <3>4. CASE phase'[w] \notin Early
        <4>1. NotYetMerged'
          BY <1>2, <1>3, <1>4, <1>8, <3>2, <3>3, <3>4 DEF NotYetMerged, Early
        <4>2. status' = "failed" => ~Merged(attempt)'
          BY <1>2, <1>3, <1>4, <3>2, <3>3
        <4>3. QED
          BY <2>1, <4>1, <4>2 DEF FailedInv, FailedIsNotMergedUndisturbed, FailedIsNotMerged
      <3>5. QED
        BY <1>8, <2>2, <3>4
    <2>4. QED
      BY <2>2, <2>3, WorkProfile DEF ProfileInv
  <1>9. QED
    BY <1>1, <1>6, <1>7, <1>8

LEMMA AskFailed ==
  ASSUME TypeOK, RequestsInv, RunsInv, ProfileInv, FailedInv, NEW s \in Sessions, Asks(s)
  PROVE  FailedInv'
  <1> SUFFICES ASSUME Calm' PROVE FailedInv'
    BY DEF FailedInv, RunningInvoked, NotYetMerged, FailedIsNotMergedUndisturbed, Calm
  <1> USE DEF workers
  <1>1. /\ UNCHANGED <<phase, runOf, profile>> /\ Calm
        /\ attempt \in Attempts /\ runStatus \in [Attempts -> RunStatuses]
    BY AskFrame DEF RequestsInv, Calm, TypeOK
  <1>2. (\A m : Merged(m)' <=> Merged(m)) /\ (\A m : Invoked(m)' <=> Invoked(m))
    BY <1>1 DEF Merged, Invoked
  <1>3. /\ \A n \in Attempts : runStatus[n] = "running" => Invoked(n)
        /\ \A n \in Attempts : runStatus[n] \in {"absent", "queued"} => ~Merged(n)
        /\ \A v \in Workers : phase[v] \in Early => ~Merged(runOf[v])
        /\ status = "failed" => ~Merged(attempt)
    BY <1>1
    DEF FailedInv, RunningInvoked, NotYetMerged, FailedIsNotMergedUndisturbed,
        FailedIsNotMerged, Calm
  <1> USE DEF FailedInv, RunningInvoked, NotYetMerged, FailedIsNotMergedUndisturbed,
              FailedIsNotMerged
  <1>4. CASE UNCHANGED <<status, attempt, inputHash, runStatus>>
    BY <1>1, <1>2, <1>3, <1>4
  <1>5. CASE CommitReconciled(s)
    <2>1. status' = "succeeded"
          /\ runStatus' = [runStatus EXCEPT ![attempt] = "succeeded"]
      BY <1>5 DEF CommitReconciled
    <2>2. \A n \in Attempts : runStatus'[n] # "succeeded" => runStatus'[n] = runStatus[n]
      BY <1>1, <2>1
    <2>3. QED
      BY <1>1, <1>2, <1>3, <2>1, <2>2
  <1>6. CASE Accept(s)
    <2>1. /\ attempt' = NextAttempt /\ status' = "processing" /\ NextAttempt \in Attempts
          /\ runStatus' = [runStatus EXCEPT ![NextAttempt] = "queued"]
          /\ \A n \in Attempts : runStatus[n] # "absent" => n # NextAttempt
      BY <1>6, NewAttempt
    <2>2. ~Merged(NextAttempt)
      BY <1>3, <2>1 DEF TypeOK
    <2>3. \A n \in Attempts :
            /\ n # NextAttempt => runStatus'[n] = runStatus[n]
            /\ n = NextAttempt => runStatus'[n] = "queued"
      BY <1>1, <2>1
    <2>4. QED
      BY <1>1, <1>2, <1>3, <2>1, <2>2, <2>3
  <1>7. QED
    BY <1>4, <1>5, <1>6, AskRuns

LEMMA OtherFailed ==
  ASSUME TypeOK, RunsInv, ProfileInv, FailedInv, Others
  PROVE  FailedInv'
  <1> SUFFICES ASSUME Calm' PROVE FailedInv'
    BY DEF FailedInv, RunningInvoked, NotYetMerged, FailedIsNotMergedUndisturbed, Calm
  <1> USE DEF row, workers
  <1>1. UNCHANGED <<status, attempt, phase, runOf>> /\ attempt \in Attempts
        /\ \A w \in Workers : runOf[w] \in Attempts
    BY OtherRuns DEF TypeOK
  <1>2. Calm
    BY DEF Others, Recover, RecoverAlive, LoadProfile, SaveProfile, counters, Trouble, Calm
  <1>3. UNCHANGED runStatus
    BY <1>2
    DEF Others, Recover, RecoverAlive, LoadProfile, SaveProfile, FailedInv, RunningInvoked,
        Trouble, Calm
  <1>4. \A n \in Attempts : Merged(n)' <=> Merged(n)
    <2>1. CASE SaveProfile
      <3>1. profile' = Append(profile, Edit)
        BY <2>1 DEF SaveProfile
      <3>2. QED
        BY <3>1, Appended, EditAssumption DEF ProfileInv, Contributions
    <2>2. CASE UNCHANGED profile
      BY <2>2 DEF Merged
    <2>3. QED
      BY <2>1, <2>2 DEF Others, Recover, RecoverAlive, LoadProfile, volume
  <1>5. \A n : Invoked(n)' <=> Invoked(n)
    BY <1>1 DEF Invoked
  <1>6. QED
    BY <1>1, <1>2, <1>3, <1>4, <1>5
    DEF FailedInv, RunningInvoked, NotYetMerged, FailedIsNotMergedUndisturbed,
        FailedIsNotMerged, Calm

---------------------------------------------------------------------------
(* The inductive invariant.                                                *)
IInv == TypeOK /\ RequestsInv /\ RunsInv /\ ProfileInv /\ AloneInv /\ FailedInv

LEMMA InitInv == Init => IInv
  <1> SUFFICES ASSUME Init PROVE IInv
    OBVIOUS
  <1>1. TypeOK
    <2>1. <<>> \in Seq(Contributions) /\ <<Edit>> \in Seq(Contributions)
      BY DEF Contributions
    <2>2. 0 \in 0..MaxEdits
      BY Constants
    <2>3. QED
      BY <2>1, <2>2, Constants DEF Init, TypeOK, Statuses, RunStatuses, PCs, Phases
  <1>2. RequestsInv /\ RunsInv
    BY DEF Init, RequestsInv, HasUpload, RowHolder, Settled, RunsInv, Accepted, HasRun
  <1>3. MergedOnce /\ \A n \in Attempts : ~Merged(n)
    <2>1. \A i \in 1..Len(profile) : i = 1 /\ profile[i] = Edit
      <3>1. CASE profile = <<>>
        BY <3>1
      <3>2. CASE profile = <<Edit>>
        BY <3>2
      <3>3. QED
        BY <3>1, <3>2 DEF Init
    <2>2. QED
      BY <2>1, EditAssumption DEF MergedOnce, Merged
  <1>4. ProfileInv
    BY <1>3, Constants DEF Init, ProfileInv, LockHeld, MergedAccepted, Marked, MergesNew
  <1>5. AloneInv
    BY <1>3 DEF Init, AloneInv, Alone, Undecided, NotMergedBefore
  <1>6. FailedInv
    <2>1. RunningInvoked /\ FailedIsNotMergedUndisturbed
      BY DEF Init, RunningInvoked, FailedIsNotMergedUndisturbed, FailedIsNotMerged
    <2>2. NotYetMerged
      BY <1>3 DEF Init, NotYetMerged, Early
    <2>3. QED
      BY <2>1, <2>2 DEF FailedInv
  <1>7. QED
    BY <1>1, <1>2, <1>4, <1>5, <1>6 DEF IInv

LEMMA InvStep ==
  ASSUME IInv, [Next]_vars
  PROVE  IInv'
  <1>1. RequestsInv' /\ RunsInv'
    BY RequestsStep DEF IInv
  <1>2. ASSUME NEW s \in Sessions, Asks(s) PROVE IInv'
    BY <1>1, <1>2, AskTypes, AskProfileStep, AskAlone, AskNotMerged, AskFailed
    DEF IInv, AloneInv, RequestsInv
  <1>3. ASSUME NEW w \in Workers, Works(w) PROVE IInv'
    BY <1>1, <1>3, WorkTypes, WorkProfileStep, WorkAlone, WorkNotMerged, WorkFailed
    DEF IInv, AloneInv
  <1>4. CASE Others
    BY <1>1, <1>4, OtherTypes, OtherProfileStep, OtherAlone, OtherNotMerged, OtherFailed
    DEF IInv, AloneInv
  <1>5. CASE UNCHANGED vars
    <2> USE <1>5 DEF IInv, vars, row, volume, requests, workers, counters
    <2>1. TypeOK'
      BY DEF TypeOK
    <2>2. ProfileInv'
      BY DEF ProfileInv, MergedOnce, LockHeld, MergedAccepted, Marked, MergesNew, Merged
    <2>3. AloneInv'
      BY DEF AloneInv, Alone, Undecided, NotMergedBefore, Merged
    <2>4. FailedInv'
      BY DEF FailedInv, RunningInvoked, NotYetMerged, FailedIsNotMergedUndisturbed,
             FailedIsNotMerged, Calm, Merged, Invoked
    <2>5. QED
      BY <1>1, <2>1, <2>2, <2>3, <2>4
  <1>6. QED
    BY <1>2, <1>3, <1>4, <1>5, NextParts

LEMMA Invariance == Spec => []IInv
  BY InitInv, InvStep, PTL DEF Spec

---------------------------------------------------------------------------
(* No attempt is merged into profile.md twice, whatever invocations of its  *)
(* run overlap, die, or fail after taking effect (import_cv's re-read of    *)
(* the marker under the profile lock).                                     *)
THEOREM EachAttemptMergesOnce == Spec => []MergedOnce
  BY Invariance, PTL DEF IInv, ProfileInv

(* While nobody dies, no run is requeued under a live invocation and no     *)
(* statement fails after taking effect, a failure is recorded only for an   *)
(* attempt that is not in profile.md - a failing finalizing commit leaves   *)
(* the row processing instead (_FinalizeCommitFailed).                     *)
THEOREM FailureMeansNotMerged == Spec => []FailedIsNotMergedUndisturbed
  BY Invariance, PTL DEF IInv, FailedInv

(* Unless a run is requeued under a live invocation, the same upload is not *)
(* imported by a new attempt while the stuck one is in profile.md: what     *)
(* _try_reconcile_stuck_attempt read under the row lock still holds when    *)
(* the new attempt is committed.                                           *)
THEOREM StuckUploadsAreReconciled == Spec => StuckIsReconciled
  <1>1. ASSUME IInv, [Next]_vars,
               "overlap" \notin trouble, status = "processing", attempt' # attempt,
               inputHash' = inputHash
        PROVE  ~Merged(attempt)
    <2>1. PICK s \in Sessions : Asks(s)
      BY <1>1, WorkFrame, OtherRuns, NextParts DEF IInv, vars, row
    <2>2. Accept(s)
      BY <1>1, <2>1, AskRuns DEF IInv, CommitReconciled
    <2>3. pc[s] = "accept" /\ inputHash = hash[s]
      BY <1>1, <2>2 DEF Accept
    <2>4. QED
      BY <1>1, <2>3 DEF IInv, AloneInv, NotMergedBefore
  <1>2. IInv /\ [Next]_vars =>
          ["overlap" \notin trouble /\ status = "processing" /\ attempt' # attempt
             /\ inputHash' = inputHash => ~Merged(attempt)]_vars
    BY <1>1
  <1>3. QED
    BY <1>2, Invariance, PTL DEF Spec, StuckIsReconciled

(* Only what an unusable answer of the merger makes the fallback write can  *)
(* take something out of profile.md: an import merges into what it read     *)
(* under the lock, a save by the editor into what it was shown.            *)
THEOREM NothingIsLost == Spec => NothingLost
  <1>1. ASSUME IInv, [Next]_vars, "fallback" \notin trouble'
        PROVE  Extends(profile, profile')
    <2>0. TypeOK /\ RequestsInv /\ ProfileInv /\ MergedOnce /\ profile \in Seq(Contributions)
      BY <1>1 DEF IInv, ProfileInv, TypeOK
    <2>1. CASE UNCHANGED profile
      BY <2>0, <2>1, Grows, EditAssumption DEF Contributions
    <2>2. ASSUME NEW s \in Sessions, Asks(s) PROVE Extends(profile, profile')
      BY <2>0, <2>1, <2>2, AskFrame DEF RequestsInv
    <2>3. ASSUME NEW w \in Workers, Works(w) PROVE Extends(profile, profile')
      <3>1. UNCHANGED profile \/ Writes(w)
        BY <2>0, <2>3, WorkProfile DEF ProfileInv
      <3>2. CASE Writes(w)
        <4>1. profile' = Append(profile, runOf[w]) /\ ~Merged(runOf[w])
          BY <1>1, <2>0, <3>2 DEF Writes, ProfileInv, MergesNew
        <4>2. runOf[w] \in Contributions
          BY <2>0 DEF TypeOK, Contributions
        <4>3. QED
          BY <2>0, <4>1, <4>2, Appended
      <3>3. QED
        BY <2>1, <3>1, <3>2
    <2>4. CASE Others
      <3>1. UNCHANGED profile \/ profile' = Append(profile, Edit)
        <4>1. CASE SaveProfile
          BY <4>1 DEF SaveProfile
        <4>2. QED
          BY <2>4, <4>1 DEF Others, Recover, RecoverAlive, LoadProfile, volume
      <3>2. QED
        BY <2>0, <2>1, <3>1, Appended DEF Contributions
    <2>5. CASE UNCHANGED vars
      BY <2>1, <2>5 DEF vars, volume
    <2>6. QED
      BY <1>1, <2>2, <2>3, <2>4, <2>5, NextParts
  <1>2. IInv /\ [Next]_vars => ["fallback" \notin trouble' => Extends(profile, profile')]_vars
    BY <1>1
  <1>3. QED
    BY <1>2, Invariance, PTL DEF Spec, NothingLost

---------------------------------------------------------------------------
(* Row, run and upload directory (RecordsAgree).                           *)

(* Until its request ends, an upload is on the volume and nobody else's.    *)
UploadsApart ==
  \A s \in Sessions : pc[s] # "idle" =>
    /\ upload[s] \in files /\ upload[s] # sourceRef
    /\ \A d \in Sessions : stuckRef[d] # upload[s] /\ (d # s => upload[d] # upload[s])
    /\ \A w \in Workers : source[w] # upload[s]

(* Every file has a name, and a name that is about to be dropped has no     *)
(* file any more.                                                          *)
FilesNamed ==
  /\ files \subseteq {sourceRef} \cup strays \cup {upload[s] : s \in Sessions}
  /\ \A s \in Sessions :
       /\ pc[s] = "accept" => sourceRef \notin files \/ sourceRef \in strays
       /\ pc[s] = "clear" => stuckRef[s] \notin files
       /\ pc[s] = "idle" => upload[s] = None
  /\ \A w \in Workers : phase[w] = "clear" => source[w] \notin files

Undying == trouble \cap {"crash", "overlap"} = {}

(* The file of a queued import is there, and out of reach of every clean-up *)
(* that is still to come.                                                  *)
QueuedHasFile ==
  Undying =>
    /\ \A n \in Attempts : runStatus[n] = "running" => Invoked(n)
    /\ status = "processing" /\ runStatus[attempt] = "queued" =>
       /\ sourceRef \in files
       /\ \A s \in Sessions : stuckRef[s] # sourceRef
       /\ \A w \in Workers : source[w] # sourceRef

Certain == trouble \cap {"overlap", "ambiguous"} = {}

(* Whoever finishes the run of a succeeded import returned.                 *)
SucceededReturns ==
  Certain /\ status = "succeeded" =>
    /\ runStatus[attempt] # "failed"
    /\ \A w \in Workers :
         runOf[w] = attempt /\ phase[w] \in {"cleanup", "clear", "finish"} => outcome[w] = "returned"

(* What a step of a request does to files and to what names them.           *)
Saves(s) ==
  /\ pc[s] = "idle" /\ pc'[s] = "saved" /\ Fresh(upload'[s])
  /\ files' = files \cup {upload'[s]} /\ upload'[s] \in Files
  /\ stuckRef'[s] = stuckRef[s] /\ UNCHANGED <<sourceRef, strays>>
Ends(s) ==
  /\ pc[s] # "idle" /\ pc'[s] = "idle" /\ upload'[s] = None /\ stuckRef'[s] = None
  /\ \/ files' = files \ {upload[s]} /\ strays' = strays /\ sourceRef' = sourceRef
     \/ files' = files /\ strays' = strays \cup {upload[s]} /\ sourceRef' = sourceRef
     \/ Accept(s) /\ UNCHANGED <<files, strays>> /\ sourceRef' = upload[s]
Passes(s) ==
  /\ pc[s] # "idle" /\ upload'[s] = upload[s]
  /\ \/ /\ pc'[s] \notin {"idle", "accept", "clear"} /\ UNCHANGED <<files, sourceRef, strays>>
        /\ stuckRef'[s] = stuckRef[s] \/ (CommitReconciled(s) /\ stuckRef'[s] = sourceRef)
     \/ /\ pc[s] = "cleanup" /\ pc'[s] \in {"drop", "clear"}
        /\ files' = files \ {stuckRef[s]} /\ UNCHANGED <<sourceRef, strays>>
        /\ stuckRef'[s] = stuckRef[s]
     \/ /\ pc[s] = "clear" /\ pc'[s] = "drop" /\ rowLock = None
        /\ sourceRef' = CleanRef(stuckRef[s]) /\ UNCHANGED <<files, strays>>
        /\ stuckRef'[s] = stuckRef[s]
     \/ /\ pc[s] = "new" /\ pc'[s] = "accept" /\ sourceRef' = sourceRef
        /\ \/ files' = files \ {sourceRef} /\ strays' = strays
           \/ files' = files /\ strays' = strays \cup {sourceRef}
        /\ stuckRef'[s] = stuckRef[s]

LEMMA AskFiles ==
  ASSUME TypeOK, NEW s \in Sessions, Asks(s)
  PROVE  Saves(s) \/ Ends(s) \/ Passes(s)
  <1> USE Constants DEF row, volume, Goto, EndRequest
  <1>0. /\ pc \in [Sessions -> PCs] /\ upload \in [Sessions -> Files \cup {None}]
        /\ stuckRef \in [Sessions -> Files \cup {None}]
    BY DEF TypeOK
  <1>1. CASE SaveUpload(s)
    <2>1. PICK f \in Files : /\ Fresh(f) /\ files' = files \cup {f}
                             /\ upload' = [upload EXCEPT ![s] = f]
      BY <1>1 DEF SaveUpload
    <2>2. upload'[s] = f
      BY <1>0, <2>1
    <2>3. QED
      BY <1>0, <1>1, <2>1, <2>2 DEF SaveUpload, Saves
  <1>3. CASE LockRow(s) \/ ReadMarker(s)
    BY <1>0, <1>3 DEF LockRow, ReadMarker, Passes
  <1>4. CASE CommitReconciled(s)
    BY <1>0, <1>4 DEF CommitReconciled, Passes
  <1>5. CASE DeleteStuckUpload(s)
    BY <1>0, <1>5 DEF DeleteStuckUpload, Passes
  <1>6. CASE ClearStuckRef(s) \/ DropPreviousUpload(s)
    BY <1>0, <1>6 DEF ClearStuckRef, DropPreviousUpload, Passes
  <1>7. CASE EndRequest(s)
    <2>1. pc'[s] = "idle" /\ upload'[s] = None /\ stuckRef'[s] = None
      BY <1>0, <1>7
    <2>3. CASE JoinOrRefuse(s) \/ DropOwnUpload(s) \/ RequestFault(s)
      BY <2>1, <2>3 DEF JoinOrRefuse, DropOwnUpload, RequestFault, Ends
    <2>4. CASE Accept(s)
      BY <2>1, <2>4 DEF Accept, Ends
    <2>5. CASE RequestCrash(s)
      BY <2>1, <2>5 DEF RequestCrash, Ends
    <2>6. QED
      BY <2>3, <2>4, <2>5, <1>1, <1>3, <1>4, <1>5, <1>6 DEF Asks, RequestStep
  <1>8. QED
    BY <1>1, <1>3, <1>4, <1>5, <1>6, <1>7
    DEF Asks, RequestStep, JoinOrRefuse, DropOwnUpload, Accept, RequestFault, RequestCrash

LEMMA AskApart ==
  ASSUME TypeOK, RowHolder, UploadsApart, NEW s \in Sessions, Asks(s)
  PROVE  UploadsApart'
  <1>1. /\ Saves(s) \/ Ends(s) \/ Passes(s)
        /\ UNCHANGED source
        /\ \A d \in Sessions : d # s =>
             pc'[d] = pc[d] /\ upload'[d] = upload[d] /\ stuckRef'[d] = stuckRef[d]
    BY AskFiles, AskFrame DEF workers
  <1>2. \A d \in Sessions : pc[d] # "idle" =>
          /\ upload[d] \in files /\ upload[d] # sourceRef /\ upload[d] # None
          /\ \A e \in Sessions : stuckRef[e] # upload[d] /\ (e # d => upload[e] # upload[d])
          /\ \A w \in Workers : source[w] # upload[d]
    BY Constants DEF UploadsApart, TypeOK
  <1>3. CASE Saves(s)
    <2>1. /\ upload'[s] \notin files /\ upload'[s] # sourceRef
          /\ \A d \in Sessions : upload'[s] # upload[d] /\ upload'[s] # stuckRef[d]
          /\ \A w \in Workers : upload'[s] # source[w]
      BY <1>3 DEF Saves, Fresh
    <2>2. QED
      BY <1>1, <1>2, <1>3, <2>1 DEF UploadsApart, Saves
  <1>4. CASE Ends(s)
    BY <1>1, <1>2, <1>4 DEF UploadsApart, Ends
  <1>5. CASE Passes(s)
    BY <1>1, <1>2, <1>5 DEF UploadsApart, Passes, CleanRef
  <1>6. QED
    BY <1>1, <1>3, <1>4, <1>5

LEMMA AskNamed ==
  ASSUME TypeOK, RowHolder, UploadsApart, FilesNamed, NEW s \in Sessions, Asks(s)
  PROVE  FilesNamed'
  <1>1. /\ Saves(s) \/ Ends(s) \/ Passes(s)
        /\ UNCHANGED <<source, phase>>
        /\ \A d \in Sessions : d # s =>
             /\ pc'[d] = pc[d] /\ upload'[d] = upload[d] /\ stuckRef'[d] = stuckRef[d]
    BY AskFiles, AskFrame DEF workers
  <1>2. /\ \A f \in files : f = sourceRef \/ f \in strays \/ \E d \in Sessions : f = upload[d]
        /\ \A d \in Sessions :
             /\ pc[d] = "accept" => rowLock = d /\ (sourceRef \notin files \/ sourceRef \in strays)
             /\ pc[d] = "clear" => stuckRef[d] \notin files
        /\ \A w \in Workers : phase[w] = "clear" => source[w] \notin files
        /\ None \notin Sessions
    BY Constants DEF FilesNamed, RowHolder
  <1>3. (\A d \in Sessions : pc[d] = "idle" => upload[d] = None) /\ None \notin files
    BY Constants DEF FilesNamed, TypeOK
  <1>4. CASE Saves(s)
    <2>1. /\ upload'[s] # sourceRef
          /\ \A d \in Sessions : upload'[s] # stuckRef[d]
          /\ \A w \in Workers : upload'[s] # source[w]
      BY <1>4 DEF Saves, Fresh
    <2>2. QED
      BY <1>1, <1>2, <1>3, <1>4, <2>1 DEF FilesNamed, Saves
  <1>5. CASE Ends(s)
    BY <1>1, <1>2, <1>3, <1>5 DEF FilesNamed, Ends, Accept
  <1>6. CASE Passes(s)
    BY <1>1, <1>2, <1>3, <1>6 DEF FilesNamed, Passes, CleanRef, CommitReconciled
  <1>7. QED
    BY <1>1, <1>4, <1>5, <1>6

(* What a step of an invocation does to them.                              *)
Holds(w) ==
  /\ phase'[w] # "clear" /\ UNCHANGED <<files, sourceRef>>
  /\ \/ source'[w] = source[w] \/ source'[w] = None
     \/ /\ phase[w] = "check" /\ Current(runOf[w]) /\ source'[w] = sourceRef
Cleans(w) ==
  /\ source'[w] = source[w]
  /\ \/ phase[w] = "cleanup" /\ files' = files \ {source[w]} /\ sourceRef' = sourceRef
     \/ /\ phase[w] = "clear" /\ phase'[w] # "clear" /\ files' = files
        /\ rowLock = None /\ sourceRef' = CleanRef(source[w])

LEMMA WorkFiles ==
  ASSUME TypeOK, NEW w \in Workers, Works(w)
  PROVE  Holds(w) \/ Cleans(w)
  <1> USE DEF row, volume
  <1>0. /\ phase \in [Workers -> Phases] /\ source \in [Workers -> Files \cup {None}]
    BY DEF TypeOK
  <1>1. CASE Claim(w) \/ Extract(w) \/ LockProfile(w)
    BY <1>0, <1>1 DEF Claim, Extract, LockProfile, Holds, Enter
  <1>2. CASE Check(w)
    BY <1>0, <1>2 DEF Check, Holds, Enter
  <1>3. CASE Reread(w)
    BY <1>0, <1>3 DEF Reread, Leave, Holds, Enter
  <1>4. CASE Merge(w) \/ MergeFallback(w) \/ MergeAmbiguous(w)
    BY <1>0, <1>4 DEF Merge, MergeFallback, MergeAmbiguous, Holds, Enter
  <1>5. CASE Commit(w) \/ CommitFault(w) \/ CommitAmbiguous(w) \/ Fail(w)
    BY <1>0, <1>5 DEF Commit, CommitFault, CommitAmbiguous, Fail, Leave, Holds, Enter
  <1>6. CASE DeleteSource(w)
    BY <1>0, <1>6 DEF DeleteSource, Holds, Cleans, Enter
  <1>7. CASE ClearSourceRef(w)
    BY <1>0, <1>7 DEF ClearSourceRef, Holds, Cleans, Enter
  <1>8. CASE Finish(w) \/ Crash(w)
    BY <1>0, <1>8 DEF Finish, Crash, Gone, Holds, Enter
  <1>9. QED
    BY <1>1, <1>2, <1>3, <1>4, <1>5, <1>6, <1>7, <1>8 DEF Works, WorkerStep

LEMMA WorkApart ==
  ASSUME TypeOK, RowHolder, UploadsApart, FilesNamed, NEW w \in Workers, Works(w)
  PROVE  UploadsApart' /\ FilesNamed'
  <1>1. /\ Holds(w) \/ Cleans(w)
        /\ UNCHANGED <<pc, upload, stuckRef, strays, rowLock>>
        /\ \A v \in Workers : v # w => phase'[v] = phase[v] /\ source'[v] = source[v]
    BY WorkFiles, WorkFrame DEF requests
  <1>2. \A s \in Sessions :
          /\ pc[s] # "idle" =>
               /\ upload[s] \in files /\ upload[s] # sourceRef /\ upload[s] # None
               /\ \A e \in Sessions : stuckRef[e] # upload[s] /\ (e # s => upload[e] # upload[s])
               /\ \A v \in Workers : source[v] # upload[s]
          /\ pc[s] = "accept" => rowLock = s
    BY Constants DEF UploadsApart, TypeOK, RowHolder
  <1>3. UploadsApart'
    BY <1>1, <1>2 DEF UploadsApart, Holds, Cleans, CleanRef
  <1>4. \A v \in Workers : phase'[v] = "clear" => source'[v] \notin files'
    BY <1>1 DEF FilesNamed, Holds, Cleans
  <1>5. FilesNamed'
    BY <1>1, <1>2, <1>4, Constants DEF FilesNamed, Holds, Cleans, CleanRef
  <1>6. QED
    BY <1>3, <1>5

LEMMA AskQueued ==
  ASSUME TypeOK, RequestsInv, RunsInv, UploadsApart, QueuedHasFile,
         NEW s \in Sessions, Asks(s)
  PROVE  QueuedHasFile'
  <1> SUFFICES ASSUME Undying' PROVE QueuedHasFile'
    BY DEF QueuedHasFile
  <1>1. /\ Saves(s) \/ Ends(s) \/ Passes(s)
        /\ UNCHANGED <<source, phase, runOf>>
        /\ \A d \in Sessions : d # s => stuckRef'[d] = stuckRef[d]
        /\ trouble \subseteq trouble'
    BY AskFiles, AskFrame DEF workers, RequestsInv
  <1>2. Undying
    BY <1>1 DEF Undying
  <1>3. \A n : Invoked(n)' <=> Invoked(n)
    BY <1>1 DEF Invoked
  <1>4. /\ \A n \in Attempts : runStatus[n] = "running" => Invoked(n)
        /\ status = "processing" /\ runStatus[attempt] = "queued" =>
             /\ sourceRef \in files
             /\ \A d \in Sessions : stuckRef[d] # sourceRef
             /\ \A w \in Workers : source[w] # sourceRef
    BY <1>2 DEF QueuedHasFile
  <1>5. /\ pc[s] # "idle" =>
             /\ upload[s] \in files /\ upload[s] # sourceRef /\ upload[s] # None
             /\ \A e \in Sessions : stuckRef[e] # upload[s]
             /\ \A v \in Workers : source[v] # upload[s]
        /\ pc[s] \in {"reconcile", "new", "accept"} => ~InFlight
        /\ attempt \in Attempts /\ runStatus \in [Attempts -> RunStatuses]
    BY Constants DEF UploadsApart, TypeOK, RequestsInv, Settled
  <1>6. CASE Accept(s)
    <2>1. /\ UNCHANGED files /\ sourceRef' = upload[s] /\ pc[s] # "idle"
          /\ stuckRef'[s] = None
      BY <1>6 DEF Accept, EndRequest, volume, TypeOK
    <2>2. /\ NextAttempt \in Attempts
          /\ runStatus' = [runStatus EXCEPT ![NextAttempt] = "queued"]
      BY <1>6, NewAttempt
    <2>3. \A n \in Attempts : runStatus'[n] = "running" => runStatus[n] = "running"
      BY <1>5, <2>2
    <2>4. QED
      BY <1>1, <1>3, <1>4, <1>5, <2>1, <2>3 DEF QueuedHasFile
  <1>7. CASE CommitReconciled(s)
    <2>1. /\ status' = "succeeded"
          /\ runStatus' = [runStatus EXCEPT ![attempt] = "succeeded"]
      BY <1>7 DEF CommitReconciled
    <2>2. \A n \in Attempts : runStatus'[n] = "running" => runStatus[n] = "running"
      BY <1>5, <2>1
    <2>3. QED
      BY <1>3, <1>4, <2>1, <2>2 DEF QueuedHasFile
  <1>8. CASE UNCHANGED <<status, attempt, runStatus>> /\ ~Accept(s) /\ ~CommitReconciled(s)
    <2>1. ASSUME status = "processing", runStatus[attempt] = "queued"
          PROVE  /\ sourceRef' \in files'
                 /\ \A d \in Sessions : stuckRef'[d] # sourceRef'
                 /\ \A w \in Workers : source'[w] # sourceRef'
      <3>1. InFlight /\ sourceRef \in files /\ sourceRef # None
        BY <1>4, <2>1, Constants DEF InFlight, Active, TypeOK
      <3>2. CASE Saves(s)
        BY <1>1, <1>4, <2>1, <3>1, <3>2 DEF Saves
      <3>3. CASE Ends(s)
        BY <1>1, <1>4, <1>5, <1>8, <2>1, <3>1, <3>3 DEF Ends
      <3>4. CASE Passes(s)
        BY <1>1, <1>4, <1>5, <1>8, <2>1, <3>1, <3>4 DEF Passes, CleanRef
      <3>5. QED
        BY <1>1, <3>2, <3>3, <3>4
    <2>2. QED
      BY <1>3, <1>4, <1>8, <2>1 DEF QueuedHasFile
  <1>9. QED
    BY <1>6, <1>7, <1>8, AskRuns

LEMMA WorkQueued ==
  ASSUME TypeOK, RunsInv, Alone, QueuedHasFile, NEW w \in Workers, Works(w)
  PROVE  QueuedHasFile'
  <1> SUFFICES ASSUME Undying' PROVE QueuedHasFile'
    BY DEF QueuedHasFile
  <1>1. /\ Holds(w) \/ Cleans(w)
        /\ UNCHANGED <<stuckRef, attempt>>
        /\ \A v \in Workers : v # w =>
             phase'[v] = phase[v] /\ runOf'[v] = runOf[v] /\ source'[v] = source[v]
        /\ trouble \subseteq trouble'
    BY WorkFiles, WorkFrame DEF requests
  <1>2. Undying /\ "overlap" \notin trouble
    BY <1>1 DEF Undying
  <1>3. status' = "processing" => status = "processing"
    BY WorkRuns
  <1>4. /\ \A n \in Attempts : runStatus[n] = "running" => Invoked(n)
        /\ status = "processing" /\ runStatus[attempt] = "queued" =>
             /\ sourceRef \in files
             /\ \A d \in Sessions : stuckRef[d] # sourceRef
             /\ \A v \in Workers : source[v] # sourceRef
    BY <1>2 DEF QueuedHasFile
  <1>5. /\ attempt \in Attempts /\ runStatus \in [Attempts -> RunStatuses]
        /\ runOf \in [Workers -> Attempts] /\ phase \in [Workers -> Phases]
    BY DEF TypeOK
  <1>6. /\ \A n \in Attempts : runStatus'[n] = "queued" => runStatus[n] = "queued"
        /\ \A n \in Attempts : runStatus'[n] = "running" => Invoked(n)'
    <2> USE DEF row, volume
    <2>1. CASE Claim(w)
      <3>1. PICK n \in Attempts :
              /\ runStatus[n] = "queued" /\ runStatus' = [runStatus EXCEPT ![n] = "running"]
              /\ runOf' = [runOf EXCEPT ![w] = n]
        BY <2>1 DEF Claim
      <3>2. phase[w] = "none" /\ phase'[w] = "check" /\ runOf'[w] = n
        BY <1>5, <2>1, <3>1 DEF Claim, Enter
      <3>3. \A m \in Attempts : runStatus'[m] = IF m = n THEN "running" ELSE runStatus[m]
        BY <1>5, <3>1
      <3>4. QED
        BY <1>1, <1>4, <3>2, <3>3 DEF Invoked
    <2>2. CASE Finish(w)
      <3>1. \A n \in Attempts :
              /\ n # runOf[w] => runStatus'[n] = runStatus[n]
              /\ n = runOf[w] => runStatus'[n] \in {"succeeded", "failed"}
        BY <1>5, <2>2 DEF Finish
      <3>2. QED
        BY <1>1, <1>4, <3>1 DEF Invoked
    <2>3. CASE Crash(w)
      BY <2>3 DEF Crash, Trouble, Undying
    <2>4. CASE UNCHANGED <<runStatus, runOf>> /\ phase'[w] # "none"
      BY <1>1, <1>4, <2>4 DEF Invoked
    <2>5. QED
      BY <1>5, <2>1, <2>2, <2>3, <2>4
      DEF Works, WorkerStep, Check, Extract, LockProfile, Reread, Merge,
          MergeFallback, MergeAmbiguous, Commit, CommitFault, CommitAmbiguous, Fail,
          DeleteSource, ClearSourceRef, Enter, Leave
  <1>7. ASSUME status = "processing", runStatus[attempt] = "queued"
        PROVE  /\ sourceRef' \in files'
               /\ \A d \in Sessions : stuckRef'[d] # sourceRef'
               /\ \A v \in Workers : source'[v] # sourceRef'
    <2>1. sourceRef \in files /\ sourceRef # None
      BY <1>4, <1>7, Constants DEF TypeOK
    <2>2. ~(phase[w] = "check" /\ Current(runOf[w]))
      BY <1>2, <1>7 DEF Alone, Current
    <2>3. CASE Holds(w)
      BY <1>1, <1>4, <1>7, <2>1, <2>2, <2>3 DEF Holds
    <2>4. CASE Cleans(w)
      BY <1>1, <1>4, <1>7, <2>1, <2>4 DEF Cleans, CleanRef
    <2>5. QED
      BY <1>1, <2>3, <2>4
  <1>8. QED
    BY <1>1, <1>3, <1>5, <1>6, <1>7 DEF QueuedHasFile

LEMMA OtherQueued ==
  ASSUME TypeOK, RunsInv, QueuedHasFile, Others
  PROVE  QueuedHasFile'
  <1> SUFFICES ASSUME Undying' PROVE QueuedHasFile'
    BY DEF QueuedHasFile
  <1>1. UNCHANGED <<row, files, requests, workers>>
    BY OtherRuns
  <1>2. Undying
    BY DEF Others, Recover, RecoverAlive, LoadProfile, SaveProfile, counters, Trouble, Undying
  <1>3. UNCHANGED runStatus
    BY <1>2
    DEF Others, Recover, RecoverAlive, LoadProfile, SaveProfile, QueuedHasFile, Trouble, Undying
  <1>4. QED
    BY <1>1, <1>2, <1>3 DEF row, requests, workers, QueuedHasFile, Invoked

LEMMA AskReturns ==
  ASSUME TypeOK, RequestsInv, RunsInv, Alone, SucceededReturns, NEW s \in Sessions, Asks(s)
  PROVE  SucceededReturns'
  <1> SUFFICES ASSUME Certain' PROVE SucceededReturns'
    BY DEF SucceededReturns, Certain
  <1>1. /\ UNCHANGED <<runOf, phase, outcome>> /\ Certain
    BY AskFrame DEF RequestsInv, workers, Certain
  <1>2. CASE UNCHANGED <<status, attempt, runStatus>>
    BY <1>1, <1>2 DEF SucceededReturns, Certain
  <1>3. CASE CommitReconciled(s)
    <2>1. /\ runStatus'[attempt] = "succeeded" /\ UNCHANGED attempt
          /\ runStatus[attempt] # "running"
      BY <1>3 DEF CommitReconciled, TypeOK, RequestsInv, Settled, InFlight, Active
    <2>2. \A w \in Workers : runOf[w] = attempt => phase[w] = "none"
      BY <1>1, <2>1 DEF Alone, Certain
    <2>3. QED
      BY <1>1, <2>1, <2>2 DEF SucceededReturns
  <1>4. CASE Accept(s)
    BY <1>4 DEF Accept, SucceededReturns
  <1>5. QED
    BY <1>2, <1>3, <1>4, AskRuns

LEMMA WorkReturns ==
  ASSUME TypeOK, RunsInv, Alone, Undecided, SucceededReturns, NEW w \in Workers, Works(w)
  PROVE  SucceededReturns'
  <1> SUFFICES ASSUME Certain', status' = "succeeded" PROVE SucceededReturns'
    BY DEF SucceededReturns, Certain
  <1> USE DEF row, counters
  <1>1. /\ UNCHANGED attempt
        /\ \A v \in Workers : v # w =>
             phase'[v] = phase[v] /\ runOf'[v] = runOf[v] /\ outcome'[v] = outcome[v]
        /\ trouble \subseteq trouble'
    BY WorkFrame
  <1>2. Certain /\ "overlap" \notin trouble
    BY <1>1 DEF Certain
  <1>3. /\ attempt \in Attempts /\ runStatus \in [Attempts -> RunStatuses]
        /\ runOf \in [Workers -> Attempts] /\ phase \in [Workers -> Phases]
        /\ outcome \in [Workers -> {"raised", "returned"}]
    BY DEF TypeOK
  <1>4. /\ \A v \in Workers : phase[v] # "none" => runStatus[runOf[v]] = "running"
        /\ \A u, v \in Workers :
             phase[u] # "none" /\ phase[v] # "none" /\ u # v => runOf[u] # runOf[v]
        /\ phase[w] \in {"extract", "lock", "reread", "merge", "commit", "fail"}
             /\ runOf[w] = attempt => status = "processing"
    BY <1>2 DEF Alone, Undecided
  <1>5. CASE status # "succeeded"
    <2>1. Commit(w) /\ Current(runOf[w])
      BY <1>5
      DEF Works, WorkerStep, Claim, Check, Extract, LockProfile, Reread, Merge,
          MergeFallback, MergeAmbiguous, Commit, CommitFault, CommitAmbiguous, Fail,
          DeleteSource, ClearSourceRef, Finish, Crash, Conclude, Certain, Trouble
    <2>2. /\ UNCHANGED <<runStatus, runOf>> /\ phase[w] = "commit" /\ outcome'[w] = "returned"
      BY <1>3, <2>1 DEF Commit, Leave
    <2>3. runOf[w] = attempt /\ runStatus[attempt] = "running"
      BY <1>4, <2>1, <2>2 DEF Current
    <2>4. QED
      BY <1>1, <1>4, <2>2, <2>3 DEF SucceededReturns
  <1>6. CASE status = "succeeded"
    <2>1. /\ runStatus[attempt] # "failed"
          /\ \A v \in Workers :
               runOf[v] = attempt /\ phase[v] \in {"cleanup", "clear", "finish"}
                 => outcome[v] = "returned"
      BY <1>2, <1>6 DEF SucceededReturns, Certain
    <2>2. CASE Claim(w)
      <3>1. PICK n \in Attempts :
              runStatus' = [runStatus EXCEPT ![n] = "running"]
        BY <2>2 DEF Claim
      <3>2. phase'[w] = "check" /\ runStatus'[attempt] # "failed"
        BY <1>3, <2>1, <2>2, <3>1 DEF Claim, Enter
      <3>3. QED
        BY <1>1, <2>1, <3>2 DEF SucceededReturns
    <2>3. CASE Finish(w)
      <3>1. phase'[w] = "none" /\ phase[w] = "finish"
        BY <1>3, <2>3 DEF Finish, Gone, Enter
      <3>2. runStatus'[attempt] # "failed"
        BY <1>3, <2>1, <2>3, <3>1 DEF Finish
      <3>3. QED
        BY <1>1, <2>1, <3>1, <3>2 DEF SucceededReturns
    <2>4. CASE Crash(w)
      <3>1. phase'[w] = "none" /\ UNCHANGED runStatus
        BY <1>3, <2>4 DEF Crash, Gone, Enter
      <3>2. QED
        BY <1>1, <2>1, <3>1 DEF SucceededReturns
    <2>5. ASSUME UNCHANGED <<runStatus, runOf>>,
                 \/ phase'[w] \notin {"cleanup", "clear", "finish"}
                 \/ outcome'[w] = "returned"
                 \/ phase[w] \in {"commit", "fail"}
                 \/ phase[w] \in {"cleanup", "clear"} /\ UNCHANGED outcome
          PROVE  SucceededReturns'
      <3>1. runOf[w] = attempt => phase[w] \notin {"commit", "fail"}
        BY <1>4, <1>6
      <3>2. QED
        BY <1>1, <2>1, <2>5, <3>1 DEF SucceededReturns
    <2>6. CASE Check(w) \/ Extract(w) \/ LockProfile(w)
      BY <1>3, <2>5, <2>6 DEF Check, Extract, LockProfile, Enter
    <2>7. CASE Reread(w)
      BY <1>3, <2>5, <2>7 DEF Reread, Enter, Leave
    <2>8. CASE Merge(w) \/ MergeFallback(w) \/ MergeAmbiguous(w)
      BY <1>3, <2>5, <2>8 DEF Merge, MergeFallback, MergeAmbiguous, Enter
    <2>9. CASE Commit(w) \/ CommitFault(w) \/ CommitAmbiguous(w) \/ Fail(w)
      BY <2>5, <2>9 DEF Commit, CommitFault, CommitAmbiguous, Fail
    <2>10. CASE DeleteSource(w) \/ ClearSourceRef(w)
      BY <2>5, <2>10 DEF DeleteSource, ClearSourceRef
    <2>11. QED
      BY <2>2, <2>3, <2>4, <2>6, <2>7, <2>8, <2>9, <2>10 DEF Works, WorkerStep
  <1>7. QED
    BY <1>5, <1>6

LEMMA OtherReturns ==
  ASSUME TypeOK, RunsInv, SucceededReturns, Others
  PROVE  SucceededReturns'
  <1>1. UNCHANGED <<row, workers>>
    BY OtherRuns
  <1>2. trouble \subseteq trouble'
    BY DEF Others, Recover, RecoverAlive, LoadProfile, SaveProfile, counters, Trouble
  <1>3. \A n \in Attempts : runStatus'[n] = "failed" => runStatus[n] = "failed"
    BY DEF Others, Recover, RecoverAlive, LoadProfile, SaveProfile, TypeOK
  <1>4. QED
    BY <1>1, <1>2, <1>3 DEF row, workers, SucceededReturns, Certain, TypeOK

RecordsInv == UploadsApart /\ FilesNamed /\ QueuedHasFile /\ SucceededReturns

LEMMA InitRecords == Init => RecordsInv
  BY DEF Init, RecordsInv, UploadsApart, FilesNamed, QueuedHasFile, SucceededReturns

LEMMA RecordsStep ==
  ASSUME IInv, RecordsInv, [Next]_vars
  PROVE  RecordsInv'
  <1>0. TypeOK /\ RequestsInv /\ RowHolder /\ RunsInv /\ Alone /\ Undecided
    BY DEF IInv, RequestsInv, AloneInv
  <1> USE <1>0 DEF RecordsInv
  <1>1. ASSUME NEW s \in Sessions, Asks(s) PROVE RecordsInv'
    BY <1>1, AskApart, AskNamed, AskQueued, AskReturns
  <1>2. ASSUME NEW w \in Workers, Works(w) PROVE RecordsInv'
    BY <1>2, WorkApart, WorkQueued, WorkReturns
  <1>3. CASE Others
    <2>1. UNCHANGED <<row, files, requests, strays, workers>>
      BY <1>3, OtherRuns
    <2>2. UploadsApart' /\ FilesNamed'
      BY <2>1 DEF row, requests, workers, UploadsApart, FilesNamed
    <2>3. QED
      BY <1>3, <2>2, OtherQueued, OtherReturns
  <1>4. CASE UNCHANGED vars
    BY <1>4
    DEF vars, row, volume, requests, workers, counters, UploadsApart, FilesNamed,
        QueuedHasFile, SucceededReturns, Undying, Certain, Invoked
  <1>5. QED
    BY <1>1, <1>2, <1>3, <1>4, NextParts

(* Row, run and upload directory tell one story: a succeeded import has no  *)
(* failed run, the file of a queued import is there, and every file on the  *)
(* volume has a name, whatever clean-up comes late (finish_upload_cleanup,  *)
(* clear_source_ref_if_matches).                                           *)
THEOREM RecordsStayInStep == Spec => []RecordsAgree
  <1>1. IInv /\ RecordsInv => RecordsAgree
    BY DEF IInv, RecordsInv, FilesNamed, QueuedHasFile, Undying, SucceededReturns, Certain,
        RecordsAgree
  <1>2. Init => RecordsInv
    BY InitRecords
  <1>3. IInv /\ RecordsInv /\ [Next]_vars => RecordsInv'
    BY RecordsStep
  <1>4. QED
    BY <1>1, <1>2, <1>3, Invariance, PTL DEF Spec
=============================================================================
