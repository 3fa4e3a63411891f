--------------------------- MODULE TailoredCVProofs ---------------------------
(* Theorems about TailoredCV, for any requests, invocations and inputs and  *)
(* any bounds.                                                             *)
EXTENDS TailoredCV, TLAPS

---------------------------------------------------------------------------
(* The inductive invariant.                                                *)

(* Requests: under the Application lock the copy of its status is true, and *)
(* so is what was found of the row; under the row lock nobody else writes   *)
(* it; and whoever has the stored revision has the stored document, unless  *)
(* it comes from a reply that was read after the lock was gone.             *)
RequestInv(s) ==
  /\ pc[s] = "locked" =>
       op[s] \in {"generate", "transition"} /\ appLock = s /\ seenTerminal[s] = terminal
  /\ pc[s] = "ready" => cvLock = s /\ op[s] \in {"generate", "save"}
  /\ At(s, "generate", "ready") => appLock = s /\ ~terminal /\ created[s] = ~exists
  /\ At(s, "save", "ready") => exists
  /\ pc[s] = "reply" => ~misled[s]
  /\ op[s] = "save" =>
       /\ exists \/ terminal
       /\ exists =>
            /\ seenRevision[s] <= revision
            /\ seenRevision[s] = revision /\ ~misled[s] => seenContent[s] = content

RequestsInv == \A s \in Sessions : RequestInv(s)

(* Runs: attempts are counted up, and stay with the row or end it; what is  *)
(* active and has not landed is the current attempt; it has landed exactly  *)
(* when the row is decided.                                                 *)
Attempted ==
  \A n \in Attempts : runStatus[n] # "absent" => n <= attempt /\ (exists \/ terminal)
OnlyCurrent == \A n \in Attempts : Active(n) /\ n \notin landed => n = attempt
Decided == exists => (status = "generating" <=> attempt \notin landed)
LandedRan == \A n \in landed : runStatus[n] # "absent"
Hashes == exists => inputHash = runHash[attempt]
Backed == faults = 0 /\ exists /\ status = "generating" => Active(attempt)
RowInv ==
  Attempted /\ OnlyCurrent /\ Decided /\ LandedRan /\ Hashes /\ Backed
    /\ ApprovedInputsOnly

(* Invocations: who has come to an end leaves no generating row behind, but *)
(* for a fault; who is about to store has the inputs of its attempt, unless *)
(* the attempt is superseded.                                              *)
WorkerInv(w) ==
  phase[w] # "none" =>
    /\ runStatus[runOf[w]] # "absent"
    /\ phase[w] = "returned" \/ (phase[w] = "raised" /\ faults = 0) =>
         ~(exists /\ attempt = runOf[w] /\ status = "generating")
    /\ phase[w] = "store" /\ exists /\ attempt = runOf[w] => snapshot[w] = inputHash

WorkersInv == \A w \in Workers : WorkerInv(w)

(* Without an overlap a run has one invocation, and it is running.         *)
AloneInv ==
  overlaps = 0 =>
    \A w \in Workers : phase[w] # "none" =>
      /\ runStatus[runOf[w]] = "running"
      /\ \A v \in Workers : phase[v] # "none" /\ runOf[v] = runOf[w] => v = w

(* An edit is accepted into a generating row only after a fault, and then   *)
(* only an overlap leaves somebody to overwrite it.                         *)
EditInv ==
  editedSince /\ exists /\ status = "generating" =>
    /\ faults # 0
    /\ overlaps = 0 =>
         /\ ~Active(attempt)
         /\ \A w \in Workers : phase[w] # "none" => runOf[w] # attempt

Inv == TypeOK /\ RequestsInv /\ RowInv /\ WorkersInv /\ AloneInv /\ EditInv

---------------------------------------------------------------------------
(* The two halves of TypeOK.                                               *)
RequestTypes ==
  /\ appLock \in Sessions \cup {None}
  /\ cvLock \in Sessions \cup {None}
  /\ op \in [Sessions -> Ops]
  /\ pc \in [Sessions -> PCs]
  /\ seenTerminal \in [Sessions -> BOOLEAN]
  /\ seenRevision \in [Sessions -> Nat]
  /\ seenContent \in [Sessions -> Documents]
  /\ created \in [Sessions -> BOOLEAN]
  /\ misled \in [Sessions -> BOOLEAN]

OtherTypes ==
  /\ terminal \in BOOLEAN
  /\ exists \in BOOLEAN
  /\ status \in {"generating", "ready", "failed"}
  /\ attempt \in Attempts
  /\ inputHash \in Inputs \cup {None}
  /\ revision \in Nat
  /\ content \in Documents
  /\ runStatus \in [Attempts -> RunStatuses]
  /\ runHash \in [Attempts -> Inputs \cup {None}]
  /\ phase \in [Workers -> Phases]
  /\ runOf \in [Workers -> Attempts]
  /\ snapshot \in [Workers -> Inputs \cup {None}]
  /\ editedSince \in BOOLEAN
  /\ landed \subseteq Attempts
  /\ overlaps \in 0..MaxOverlaps
  /\ crashes \in 0..MaxCrashes
  /\ faults \in 0..MaxFaults

LEMMA Constants ==
  /\ MaxAttempts \in Nat /\ 0 \in Attempts /\ Attempts \subseteq Nat
  /\ MaxOverlaps \in Nat /\ MaxCrashes \in Nat /\ MaxFaults \in Nat /\ MaxEdited \in Nat
  BY BoundAssumption DEF Attempts

LEMMA CountsUp ==
  ASSUME NEW m \in Nat, NEW k \in 0..m, k < m
  PROVE  k + 1 \in 0..m
  OBVIOUS

LEMMA InitInv == Init => Inv
  <1> SUFFICES ASSUME Init PROVE Inv
    OBVIOUS
  <1> USE Constants, NoneAssumption DEF Init
  <1>1. TypeOK
    <2>1. RequestTypes
      BY DEF RequestTypes, Documents, Ops, PCs
    <2>2. OtherTypes
      <3>1. 0 \in 0..MaxOverlaps /\ 0 \in 0..MaxCrashes /\ 0 \in 0..MaxFaults
        OBVIOUS
      <3>2. /\ runStatus \in [Attempts -> RunStatuses]
            /\ runHash \in [Attempts -> Inputs \cup {None}]
            /\ phase \in [Workers -> Phases]
            /\ runOf \in [Workers -> Attempts]
            /\ snapshot \in [Workers -> Inputs \cup {None}]
        BY DEF RunStatuses, Phases
      <3>3. QED
        BY <3>1, <3>2 DEF OtherTypes, Documents
    <2>3. QED
      BY <2>1, <2>2 DEF TypeOK, RequestTypes, OtherTypes
  <1>2. RequestsInv
    BY DEF RequestsInv, RequestInv, At
  <1>3. RowInv
    BY DEF RowInv, Attempted, OnlyCurrent, Decided, LandedRan, Hashes, Backed, Active,
           ApprovedInputsOnly
  <1>4. WorkersInv /\ AloneInv /\ EditInv
    BY DEF WorkersInv, WorkerInv, AloneInv, EditInv
  <1>5. QED
    BY <1>1, <1>2, <1>3, <1>4 DEF Inv

---------------------------------------------------------------------------
(* Who ends a request, and who only moves one on.                          *)
Moves(s) ==
  \/ \E o \in Ops \ {"none"} : Begin(s, o)
  \/ LockApplication(s) \/ PrepareGeneration(s) \/ LockForSave(s) \/ Reply(s)
Refusals(s) ==
  \/ RefuseTerminal(s) \/ RefuseUntailorable(s) \/ JoinOrRefuse(s) \/ BeyondBound(s)
  \/ SaveNotFound(s) \/ SaveRefused(s) \/ SaveUnchanged(s) \/ SaveBeyondBound(s)
  \/ ReplyNotFound(s) \/ Abort(s)
Writes(s) == StartGeneration(s) \/ ReachTerminal(s) \/ SaveEdit(s)
Works(w) == WorkerStep(w) \/ HandlerFault(w) \/ Crash(w)

LEMMA NextParts ==
  ASSUME Next
  PROVE  \/ \E s \in Sessions : Moves(s) \/ Refusals(s) \/ Writes(s)
         \/ \E w \in Workers : Works(w)
         \/ \E n \in Attempts : Recover(n) \/ RecoverAlive(n)
  BY DEF Next, RequestStep, Moves, Refusals, Writes, Works

LEMMA EndTypes ==
  ASSUME TypeOK, NEW s \in Sessions, EndRequest(s)
  PROVE  RequestTypes'
  BY DEF TypeOK, EndRequest, RequestTypes, Ops, PCs, Documents

LEMMA MoveTypes ==
  ASSUME TypeOK, NEW s \in Sessions, Moves(s)
  PROVE  RequestTypes'
  <1> USE DEF TypeOK, RequestTypes, Goto, PCs, Ops, Documents
  <1>1. ASSUME NEW o \in Ops \ {"none"}, Begin(s, o) PROVE RequestTypes'
    BY <1>1 DEF Begin, OnlyRequests, row
  <1>2. CASE LockApplication(s)
    BY <1>2 DEF LockApplication
  <1>3. CASE PrepareGeneration(s)
    BY <1>3 DEF PrepareGeneration
  <1>4. CASE LockForSave(s)
    BY <1>4 DEF LockForSave
  <1>5. CASE Reply(s)
    BY <1>5 DEF Reply, OnlyRequests, row
  <1>6. QED
    BY <1>1, <1>2, <1>3, <1>4, <1>5 DEF Moves

(* Where a save leaves its request: with the edit, and without the lock.    *)
LEMMA SaveTypes ==
  ASSUME TypeOK, NEW s \in Sessions, SaveEdit(s)
  PROVE  RequestTypes'
  <1>1. revision + 1 \in Documents /\ revision + 1 \in Nat
    BY Constants DEF SaveEdit, StoreEdit, TypeOK, Documents, Edits
  <1>2. QED
    BY <1>1 DEF TypeOK, RequestTypes, SaveEdit, StoreEdit, Goto, PCs

LEMMA WriteTypes ==
  ASSUME TypeOK, NEW s \in Sessions, Writes(s)
  PROVE  OtherTypes'
  <1> USE DEF OtherTypes, workers, counters, runs
  <1>1. CASE StartGeneration(s)
    BY <1>1 DEF TypeOK, StartGeneration, RunStatuses
  <1>2. CASE ReachTerminal(s)
    BY <1>2 DEF TypeOK, ReachTerminal, Documents
  <1>3. CASE SaveEdit(s)
    <2>1. revision + 1 \in Documents /\ revision + 1 \in Nat
      BY <1>3, Constants DEF SaveEdit, StoreEdit, TypeOK, Documents, Edits
    <2>2. QED
      BY <1>3, <2>1 DEF TypeOK, SaveEdit, StoreEdit
  <1>4. QED
    BY <1>1, <1>2, <1>3 DEF Writes

LEMMA WorkTypes ==
  ASSUME TypeOK, NEW w \in Workers, Works(w)
  PROVE  OtherTypes'
  <1> USE Constants
      DEF TypeOK, OtherTypes, OnlyWorkers, row, runs, history, counters, Enter, Phases,
          RunStatuses
  <1>1. CASE Claim(w)
    BY <1>1 DEF Claim
  <1>2. CASE CheckCurrent(w)
    <2>1. phase' \in [Workers -> Phases]
      BY <1>2 DEF CheckCurrent
    <2>2. QED
      BY <1>2, <2>1 DEF CheckCurrent
  <1>3. CASE Generate(w)
    BY <1>3 DEF Generate
  <1>4. CASE RecordFailure(w)
    BY <1>4 DEF RecordFailure, Land
  <1>5. ASSUME StoreGenerated(w)
        PROVE  /\ content' \in Documents /\ revision' \in Nat
               /\ status' \in {"generating", "ready", "failed"} /\ landed' \subseteq Attempts
               /\ UNCHANGED <<exists, attempt, inputHash>>
    <2>1. snapshot[w] \in Documents /\ runOf[w] \in Attempts /\ revision + 1 \in Nat
      BY DEF Documents
    <2>2. /\ content' \in {snapshot[w], content} /\ revision' \in {revision + 1, revision}
          /\ status' \in {"ready", status} /\ landed' \in {landed \cup {runOf[w]}, landed}
          /\ UNCHANGED <<exists, attempt, inputHash>>
      BY <1>5 DEF StoreGenerated, Land
    <2>3. QED
      BY <2>1, <2>2
  <1>6. CASE CommitGenerated(w)
    BY <1>5, <1>6 DEF CommitGenerated
  <1>7. CASE HandlerFault(w)
    <2>1. faults' \in 0..MaxFaults
      BY <1>7, CountsUp DEF HandlerFault
    <2>2. phase' \in [Workers -> Phases]
      BY <1>7 DEF HandlerFault
    <2>3. \/ UNCHANGED <<row, landed>>
          \/ StoreGenerated(w)
      BY <1>7 DEF HandlerFault
    <2>4. UNCHANGED <<runs, runOf, snapshot, editedSince, overlaps, crashes, terminal>>
      BY <1>7 DEF HandlerFault
    <2>5. QED
      BY <1>5, <2>1, <2>2, <2>3, <2>4
  <1>8. CASE Finish(w)
    BY <1>8 DEF Finish
  <1>9. CASE Crash(w)
    BY <1>9 DEF Crash
  <1>10. QED
    BY <1>1, <1>2, <1>3, <1>4, <1>6, <1>7, <1>8, <1>9 DEF Works, WorkerStep

LEMMA StepTypes ==
  ASSUME TypeOK, [Next]_vars
  PROVE  TypeOK'
  <1> USE DEF row, runs, requests, workers, history, counters
  <1>1. ASSUME NEW s \in Sessions, Moves(s) PROVE TypeOK'
    <2>1. UNCHANGED <<terminal, row, runs, workers, history, counters>>
      BY <1>1
      DEF Moves, Begin, LockApplication, PrepareGeneration, LockForSave, Reply, OnlyRequests
    <2>2. QED
      BY <1>1, <2>1, MoveTypes DEF TypeOK, RequestTypes
  <1>2. ASSUME NEW s \in Sessions, Refusals(s) PROVE TypeOK'
    <2>1. Refuse(s)
      BY <1>2
      DEF Refusals, RefuseTerminal, RefuseUntailorable, JoinOrRefuse, BeyondBound,
          SaveNotFound, SaveRefused, SaveUnchanged, SaveBeyondBound, ReplyNotFound, Abort
    <2>2. QED
      BY <2>1, EndTypes DEF Refuse, TypeOK, RequestTypes
  <1>3. ASSUME NEW s \in Sessions, Writes(s) PROVE TypeOK'
    <2>1. EndRequest(s) \/ SaveEdit(s)
      BY <1>3 DEF Writes, StartGeneration, ReachTerminal
    <2>2. QED
      BY <1>3, <2>1, EndTypes, SaveTypes, WriteTypes DEF TypeOK, RequestTypes, OtherTypes
  <1>4. ASSUME NEW w \in Workers, Works(w) PROVE TypeOK'
    <2>1. UNCHANGED requests
      BY <1>4
      DEF Works, WorkerStep, Claim, CheckCurrent, Generate, RecordFailure,
          CommitGenerated, Finish, HandlerFault, Crash, OnlyWorkers
    <2>2. QED
      BY <1>4, <2>1, WorkTypes DEF TypeOK, OtherTypes
  <1>5. ASSUME NEW n \in Attempts, Recover(n) \/ RecoverAlive(n) PROVE TypeOK'
    <2>1. runStatus' \in [Attempts -> RunStatuses]
      BY <1>5 DEF Recover, RecoverAlive, TypeOK, RunStatuses
    <2>2. overlaps' \in 0..MaxOverlaps
      BY <1>5, Constants, CountsUp DEF Recover, RecoverAlive, TypeOK
    <2>3. UNCHANGED <<terminal, requests, row, runHash, workers, history, crashes,
                      faults>>
      BY <1>5 DEF Recover, RecoverAlive, OnlyWorkers
    <2>4. QED
      BY <2>1, <2>2, <2>3 DEF TypeOK
  <1>6. CASE UNCHANGED vars
    BY <1>6 DEF vars, TypeOK
  <1>7. QED
    BY <1>1, <1>2, <1>3, <1>4, <1>5, <1>6, NextParts

---------------------------------------------------------------------------
(* Requests.                                                               *)

(* A request that is over.                                                 *)
LEMMA Ended ==
  ASSUME TypeOK, NEW s \in Sessions, EndRequest(s)
  PROVE  RequestInv(s)'
  BY DEF TypeOK, EndRequest, RequestInv, At

(* The others, when one of them ends.                                      *)
LEMMA EndKeeps ==
  ASSUME TypeOK, NEW s \in Sessions, NEW d \in Sessions, d # s, EndRequest(s)
  PROVE  /\ pc'[d] = pc[d] /\ op'[d] = op[d] /\ seenTerminal'[d] = seenTerminal[d]
         /\ created'[d] = created[d] /\ seenRevision'[d] = seenRevision[d]
         /\ seenContent'[d] = seenContent[d] /\ misled'[d] = misled[d]
         /\ appLock = d => appLock' = d
         /\ cvLock = d => cvLock' = d
  BY DEF TypeOK, EndRequest

(* And when one of them moves on.                                          *)
LEMMA MoveKeeps ==
  ASSUME TypeOK, NEW s \in Sessions, NEW d \in Sessions, d # s, Moves(s),
         RequestInv(s), RequestInv(d)
  PROVE  /\ pc'[d] = pc[d] /\ op'[d] = op[d] /\ seenTerminal'[d] = seenTerminal[d]
         /\ created'[d] = created[d] /\ seenRevision'[d] = seenRevision[d]
         /\ seenContent'[d] = seenContent[d] /\ misled'[d] = misled[d]
         /\ appLock = d => appLock' = d
         /\ pc[d] = "ready" => cvLock' = d
  <1> USE NoneAssumption
  <1>1. ASSUME NEW o \in Ops \ {"none"}, Begin(s, o) PROVE UNCHANGED <<appLock, cvLock>>
    BY <1>1 DEF Begin
  <1>2. ASSUME PrepareGeneration(s), pc[d] = "ready" PROVE FALSE
    BY <1>2 DEF PrepareGeneration, RequestInv, At
  <1>3. ASSUME LockForSave(s), pc[d] = "ready" PROVE FALSE
    BY <1>3 DEF LockForSave, RequestInv
  <1>4. /\ appLock = d => appLock' = d
        /\ pc[d] = "ready" => cvLock' = d
    BY <1>1, <1>2, <1>3
    DEF Moves, LockApplication, PrepareGeneration, LockForSave, Reply, RequestInv
  <1>5. QED
    BY <1>4
    DEF TypeOK, Moves, Begin, LockApplication, PrepareGeneration, LockForSave, Reply, Goto

(* And when one of them saves, with the row's lock.                        *)
LEMMA SaveKeeps ==
  ASSUME TypeOK, NEW s \in Sessions, NEW d \in Sessions, d # s, SaveEdit(s),
         RequestInv(s), RequestInv(d)
  PROVE  /\ pc'[d] = pc[d] /\ op'[d] = op[d] /\ seenTerminal'[d] = seenTerminal[d]
         /\ created'[d] = created[d] /\ seenRevision'[d] = seenRevision[d]
         /\ seenContent'[d] = seenContent[d] /\ misled'[d] = misled[d]
         /\ appLock' = appLock /\ pc[d] # "ready"
  BY DEF TypeOK, SaveEdit, StoreEdit, Goto, RequestInv, At

(* A step of an invocation writes no request, and a document comes with the *)
(* next revision.                                                          *)
LEMMA WorkKeeps ==
  ASSUME TypeOK, NEW w \in Workers, Works(w)
  PROVE  /\ UNCHANGED <<requests, terminal, exists, attempt, inputHash>>
         /\ \/ UNCHANGED <<revision, content>>
            \/ /\ revision' = revision + 1 /\ cvLock = None /\ exists
               /\ phase[w] = "store" /\ Current(runOf[w])
  <1> USE DEF row, runs, history, counters, OnlyWorkers
  <1>1. ASSUME StoreGenerated(w)
        PROVE  /\ UNCHANGED <<exists, attempt, inputHash>>
               /\ \/ UNCHANGED <<revision, content>>
                  \/ revision' = revision + 1 /\ exists /\ Current(runOf[w])
    BY <1>1 DEF StoreGenerated, Owns
  <1>2. CASE CommitGenerated(w)
    BY <1>1, <1>2 DEF CommitGenerated
  <1>3. CASE HandlerFault(w)
    BY <1>1, <1>3 DEF HandlerFault
  <1>4. QED
    BY <1>2, <1>3
    DEF Works, WorkerStep, Claim, CheckCurrent, Generate, RecordFailure, Finish, Crash

(* The row is not without its lock, once it exists: a request that creates  *)
(* it holds the Application lock as well.                                  *)
LEMMA RequestsStep ==
  ASSUME Inv, [Next]_vars
  PROVE  RequestsInv'
  <1> USE DEF row, runs, requests, workers, history, counters
  <1>0. TypeOK /\ RequestsInv /\ (terminal => ~exists)
    BY DEF Inv, RowInv, ApprovedInputsOnly
  <1>1. CASE UNCHANGED <<requests, terminal, exists, revision, content>>
    BY <1>0, <1>1 DEF RequestsInv, RequestInv, At
  <1>2. ASSUME NEW s \in Sessions, Moves(s) PROVE RequestsInv'
    <2>1. UNCHANGED <<terminal, exists, revision, content>>
      BY <1>2
      DEF Moves, Begin, LockApplication, PrepareGeneration, LockForSave, Reply, OnlyRequests
    <2>2. RequestInv(s)'
      <3>0. RequestInv(s)
        BY <1>0 DEF RequestsInv
      <3>1. ASSUME NEW o \in Ops \ {"none"}, Begin(s, o) PROVE RequestInv(s)'
        BY <1>0, <2>1, <3>1 DEF Begin, Goto, TypeOK, RequestInv, At
      <3>2. CASE LockApplication(s)
        BY <1>0, <2>1, <3>0, <3>2 DEF LockApplication, Goto, TypeOK, RequestInv, At
      <3>3. CASE PrepareGeneration(s)
        BY <1>0, <2>1, <3>0, <3>3 DEF PrepareGeneration, Goto, TypeOK, RequestInv, At
      <3>4. CASE LockForSave(s)
        BY <1>0, <2>1, <3>0, <3>4 DEF LockForSave, Goto, TypeOK, RequestInv, At
      <3>5. CASE Reply(s)
        <4>1. /\ pc'[s] = "start" /\ op'[s] = "save" /\ exists /\ ~misled[s]
              /\ seenRevision'[s] = revision /\ revision \in Nat
              /\ seenContent'[s] = seenContent[s]
          BY <1>0, <3>0, <3>5 DEF Reply, Goto, TypeOK, RequestInv, At
        <4>2. misled'[s] = (revision # seenRevision[s])
          BY <1>0, <3>5 DEF Reply, TypeOK
        <4>3. ~misled'[s] => seenContent[s] = content
          BY <3>0, <4>1, <4>2, <3>5 DEF RequestInv, Reply, At
        <4>4. revision <= revision
          BY <4>1
        <4>5. QED
          BY <2>1, <4>1, <4>3, <4>4 DEF RequestInv, At
      <3>6. QED
        BY <1>2, <3>1, <3>2, <3>3, <3>4, <3>5 DEF Moves
    <2>3. ASSUME NEW d \in Sessions, d # s PROVE RequestInv(d)'
      <3>1. RequestInv(s) /\ RequestInv(d)
        BY <1>0 DEF RequestsInv
      <3>2. QED
        BY <1>0, <1>2, <2>1, <2>3, <3>1, MoveKeeps DEF RequestInv, At
    <2>4. QED
      BY <2>2, <2>3 DEF RequestsInv
  <1>3. ASSUME NEW s \in Sessions, Refusals(s) \/ StartGeneration(s) \/ ReachTerminal(s)
        PROVE  RequestsInv'
    <2>1. EndRequest(s)
      BY <1>3
      DEF Refusals, RefuseTerminal, RefuseUntailorable, JoinOrRefuse, BeyondBound,
          SaveNotFound, SaveRefused, SaveUnchanged, SaveBeyondBound, ReplyNotFound, Abort,
          Refuse, StartGeneration, ReachTerminal
    <2>2. RequestInv(s)'
      BY <1>0, <2>1, Ended
    <2>3. ASSUME NEW d \in Sessions, d # s PROVE RequestInv(d)'
      <3>0. RequestInv(d) /\ RequestInv(s) /\ seenRevision[d] \in Nat /\ revision \in Nat
        BY <1>0 DEF RequestsInv, TypeOK
      <3>1. /\ pc'[d] = pc[d] /\ op'[d] = op[d] /\ seenTerminal'[d] = seenTerminal[d]
            /\ created'[d] = created[d] /\ seenRevision'[d] = seenRevision[d]
            /\ seenContent'[d] = seenContent[d] /\ misled'[d] = misled[d]
            /\ appLock = d => appLock' = d
            /\ cvLock = d => cvLock' = d
        BY <1>0, <2>1, <2>3, EndKeeps
      <3>2. CASE Refusals(s)
        <4>1. UNCHANGED <<terminal, exists, revision, content>>
          BY <3>2
          DEF Refusals, RefuseTerminal, RefuseUntailorable, JoinOrRefuse, BeyondBound,
              SaveNotFound, SaveRefused, SaveUnchanged, SaveBeyondBound, ReplyNotFound,
              Abort, Refuse
        <4>2. QED
          BY <3>0, <3>1, <4>1 DEF RequestInv, At
      <3>3. CASE StartGeneration(s)
        <4>1. appLock = s /\ ~terminal /\ exists' /\ UNCHANGED <<terminal, revision, content>>
          BY <3>0, <3>3 DEF StartGeneration, RequestInv
        <4>2. QED
          BY <2>3, <3>0, <3>1, <4>1 DEF RequestInv, At
      <3>4. CASE ReachTerminal(s)
        <4>1. appLock = s /\ cvLock = None /\ terminal' /\ ~exists'
          BY <3>0, <3>4 DEF ReachTerminal, RequestInv, At
        <4>2. QED
          BY NoneAssumption, <2>3, <3>0, <3>1, <4>1 DEF RequestInv, At
      <3>5. QED
        BY <1>3, <3>2, <3>3, <3>4
    <2>4. QED
      BY <2>2, <2>3 DEF RequestsInv
  <1>4. ASSUME NEW s \in Sessions, SaveEdit(s) PROVE RequestsInv'
    <2>0. RequestInv(s) /\ pc[s] = "ready" /\ op[s] = "save"
      BY <1>0, <1>4 DEF RequestsInv, SaveEdit, At
    <2>1. /\ revision' = revision + 1 /\ revision \in Nat /\ exists
          /\ UNCHANGED <<terminal, exists>>
      BY <1>0, <1>4, <2>0 DEF SaveEdit, StoreEdit, RequestInv, At, TypeOK
    <2>2. /\ pc'[s] = "reply" /\ op'[s] = "save" /\ content' = revision + 1
          /\ seenRevision'[s] = revision + 1 /\ seenContent'[s] = revision + 1
          /\ ~misled'[s]
      BY <1>0, <1>4, <2>0 DEF SaveEdit, StoreEdit, Goto, TypeOK
    <2>3. RequestInv(s)'
      BY <2>1, <2>2 DEF RequestInv, At
    <2>4. ASSUME NEW d \in Sessions, d # s PROVE RequestInv(d)'
      <3>1. RequestInv(d) /\ seenRevision[d] \in Nat
        BY <1>0 DEF RequestsInv, TypeOK
      <3>2. seenRevision[d] <= revision => seenRevision[d] <= revision + 1
                                           /\ seenRevision[d] # revision + 1
        BY <2>1, <3>1
      <3>3. /\ pc'[d] = pc[d] /\ op'[d] = op[d] /\ seenTerminal'[d] = seenTerminal[d]
            /\ created'[d] = created[d] /\ seenRevision'[d] = seenRevision[d]
            /\ misled'[d] = misled[d] /\ appLock' = appLock /\ pc[d] # "ready"
        BY <1>0, <1>4, <2>0, <2>4, <3>1, SaveKeeps
      <3>4. QED
        BY <2>1, <3>1, <3>2, <3>3 DEF RequestInv, At
    <2>5. QED
      BY <2>3, <2>4 DEF RequestsInv
  <1>5. ASSUME NEW w \in Workers, Works(w) PROVE RequestsInv'
    <2>1. /\ UNCHANGED <<requests, terminal, exists>>
          /\ UNCHANGED <<revision, content>> \/ revision' = revision + 1
      BY <1>0, <1>5, WorkKeeps
    <2>2. CASE UNCHANGED <<revision, content>>
      BY <1>1, <2>1, <2>2
    <2>3. CASE revision' = revision + 1
      <3>1. ASSUME NEW d \in Sessions PROVE RequestInv(d)'
        <4>1. RequestInv(d) /\ seenRevision[d] \in Nat /\ revision \in Nat
          BY <1>0 DEF RequestsInv, TypeOK
        <4>2. seenRevision[d] <= revision => seenRevision[d] <= revision + 1
                                             /\ seenRevision[d] # revision + 1
          BY <4>1
        <4>3. QED
          BY <2>1, <2>3, <4>1, <4>2 DEF RequestInv, At
      <3>2. QED
        BY <3>1 DEF RequestsInv
    <2>4. QED
      BY <2>1, <2>2, <2>3
  <1>6. QED
    BY <1>1, <1>2, <1>3, <1>4, <1>5, NextParts
    DEF Writes, vars, Recover, RecoverAlive, OnlyWorkers

---------------------------------------------------------------------------
(* The row, the runs and the invocations.                                  *)
Core == RowInv /\ WorkersInv /\ AloneInv /\ EditInv

LEMMA CoreFrame ==
  ASSUME Core, UNCHANGED <<terminal, row, runs, workers, history, counters>>
  PROVE  Core'
  <1> USE DEF row, runs, workers, history, counters
  <1>1. RowInv'
    BY DEF Core, RowInv, Attempted, OnlyCurrent, Decided, LandedRan, Hashes, Backed,
           Active, ApprovedInputsOnly
  <1>2. WorkersInv'
    BY DEF Core, WorkersInv, WorkerInv
  <1>3. AloneInv' /\ EditInv'
    BY DEF Core, AloneInv, EditInv, Active
  <1>4. QED
    BY <1>1, <1>2, <1>3 DEF Core

(* A new attempt is really new: no run, no invocation and no outcome has its *)
(* number, and whatever is still active has had its effect.                *)
LEMMA StartIsNew ==
  ASSUME TypeOK, RequestsInv, Core, NEW s \in Sessions, StartGeneration(s)
  PROVE  /\ NextAttempt(s) \in Attempts /\ NextAttempt(s) \notin landed /\ ~terminal
         /\ \A m \in Attempts : Active(m) => m \in landed
         /\ \A m \in Attempts :
              runStatus[m] # "absent" => m <= NextAttempt(s) /\ m # NextAttempt(s)
         /\ \A w \in Workers : phase[w] # "none" => runOf[w] # NextAttempt(s)
  <1> DEFINE n == NextAttempt(s)
  <1>1. /\ n \in Attempts /\ ~terminal /\ created[s] = ~exists /\ (created[s] \/ ~InFlight)
        /\ Attempts \subseteq Nat /\ attempt \in Attempts
        /\ n = IF created[s] THEN 0 ELSE attempt + 1
    BY Constants
    DEF TypeOK, RequestsInv, RequestInv, StartGeneration, At, NextAttempt
  <1>2. \A m \in Attempts :
          runStatus[m] # "absent" => m <= attempt /\ (exists \/ terminal)
    BY DEF Core, RowInv, Attempted
  <1>3. ASSUME NEW m \in Attempts, runStatus[m] # "absent" PROVE m <= n /\ m # n
    <2>1. exists /\ m <= attempt
      BY <1>1, <1>2, <1>3
    <2>2. n = attempt + 1
      BY <1>1, <2>1
    <2>3. m \in Nat /\ attempt \in Nat
      BY <1>1
    <2> HIDE DEF n
    <2>4. QED
      BY <2>1, <2>2, <2>3
  <1>4. \A m \in Attempts : Active(m) => m \in landed
    <2>1. CASE exists
      <3>1. status # "generating" \/ ~Active(attempt)
        BY <1>1, <2>1 DEF InFlight
      <3>2. QED
        BY <2>1, <3>1 DEF Core, RowInv, OnlyCurrent, Decided
    <2>2. CASE ~exists
      BY <1>1, <1>2, <2>2 DEF Active
    <2>3. QED
      BY <2>1, <2>2
  <1>5. n \notin landed
    BY <1>3 DEF Core, RowInv, LandedRan, TypeOK
  <1>6. \A w \in Workers : phase[w] # "none" => runOf[w] # n
    BY <1>3 DEF Core, WorkersInv, WorkerInv, TypeOK
  <1>7. QED
    BY <1>1, <1>3, <1>4, <1>5, <1>6

LEMMA StartStep ==
  ASSUME TypeOK, RequestsInv, Core, NEW s \in Sessions, StartGeneration(s)
  PROVE  Core'
  <1> DEFINE n == NextAttempt(s)
  <1> USE DEF workers, counters
  <1>1. /\ n \in Attempts /\ n \notin landed /\ ~terminal
        /\ \A m \in Attempts : Active(m) => m \in landed
        /\ \A m \in Attempts : runStatus[m] # "absent" => m <= n /\ m # n
        /\ \A w \in Workers : phase[w] # "none" => runOf[w] # n
    BY StartIsNew
  <1>2. /\ exists' = TRUE /\ status' = "generating" /\ attempt' = n
        /\ inputHash' \in Inputs /\ editedSince' = FALSE
        /\ runStatus' = [runStatus EXCEPT ![n] = "queued"]
        /\ runHash' = [runHash EXCEPT ![n] = inputHash']
        /\ UNCHANGED <<terminal, workers, landed, counters>>
    BY DEF StartGeneration
  <1> HIDE DEF n
  <1>3. /\ runStatus'[n] = "queued" /\ runHash'[n] = inputHash'
        /\ \A m \in Attempts : m # n => runStatus'[m] = runStatus[m]
    BY <1>1, <1>2 DEF TypeOK
  <1>4. n <= n /\ landed \subseteq Attempts
    BY <1>1, Constants DEF TypeOK
  <1>5. RowInv'
    <2>1. Attempted'
      BY <1>1, <1>2, <1>3, <1>4 DEF Attempted
    <2>2. OnlyCurrent'
      BY <1>1, <1>2, <1>3 DEF OnlyCurrent, Active
    <2>3. LandedRan'
      BY <1>1, <1>2, <1>3, <1>4 DEF Core, RowInv, LandedRan
    <2>4. Decided' /\ Hashes' /\ Backed' /\ ApprovedInputsOnly'
      BY <1>1, <1>2, <1>3 DEF Decided, Hashes, Backed, ApprovedInputsOnly, Active
    <2>5. QED
      BY <2>1, <2>2, <2>3, <2>4 DEF RowInv
  <1>6. WorkersInv'
    BY <1>1, <1>2, <1>3 DEF Core, WorkersInv, WorkerInv, TypeOK
  <1>7. AloneInv'
    BY <1>1, <1>2, <1>3 DEF Core, AloneInv, TypeOK
  <1>8. EditInv'
    BY <1>2 DEF EditInv
  <1>9. QED
    BY <1>5, <1>6, <1>7, <1>8 DEF Core

LEMMA TerminalStep ==
  ASSUME TypeOK, Core, NEW s \in Sessions, ReachTerminal(s)
  PROVE  Core'
  <1> USE DEF runs, workers, counters
  <1>1. /\ terminal' = TRUE /\ exists' = FALSE
        /\ UNCHANGED <<attempt, runs, workers, landed, counters>>
    BY DEF ReachTerminal
  <1>2. RowInv'
    BY <1>1 DEF Core, RowInv, Attempted, OnlyCurrent, Decided, LandedRan, Hashes,
                Backed, Active, ApprovedInputsOnly
  <1>3. WorkersInv'
    BY <1>1 DEF Core, WorkersInv, WorkerInv
  <1>4. AloneInv' /\ EditInv'
    BY <1>1 DEF Core, AloneInv, EditInv
  <1>5. QED
    BY <1>2, <1>3, <1>4 DEF Core

(* An edit of a generating row was accepted because its run is over, which  *)
(* is a fault's doing; without an overlap its invocation is over as well.   *)
LEMMA SaveStep ==
  ASSUME TypeOK, RequestsInv, Core, NEW s \in Sessions, SaveEdit(s)
  PROVE  Core'
  <1> USE DEF runs, workers, counters
  <1>1. /\ content' \in Edits /\ ~InFlight
        /\ UNCHANGED <<terminal, exists, status, attempt, inputHash, runs, workers,
                       landed, counters>>
    BY Constants DEF SaveEdit, StoreEdit, TypeOK, Edits
  <1>2. RowInv'
    BY <1>1, NoneAssumption
    DEF Core, RowInv, Attempted, OnlyCurrent, Decided, LandedRan, Hashes, Backed,
        Active, ApprovedInputsOnly
  <1>3. WorkersInv'
    BY <1>1 DEF Core, WorkersInv, WorkerInv
  <1>4. AloneInv'
    BY <1>1 DEF Core, AloneInv
  <1>5. ASSUME exists, status = "generating" PROVE ~Active(attempt) /\ faults # 0
    BY <1>1, <1>5 DEF InFlight, Core, RowInv, Backed
  <1>6. ASSUME exists, status = "generating", overlaps = 0, NEW w \in Workers,
               phase[w] # "none"
        PROVE  runOf[w] # attempt
    BY <1>5, <1>6 DEF Core, AloneInv, Active
  <1>7. EditInv'
    BY <1>1, <1>5, <1>6 DEF EditInv, Active
  <1>8. QED
    BY <1>2, <1>3, <1>4, <1>7 DEF Core

LEMMA ClaimStep ==
  ASSUME TypeOK, Core, NEW w \in Workers, Claim(w)
  PROVE  Core'
  <1> USE DEF row, history, counters
  <1>1. PICK n \in Attempts :
          /\ runStatus[n] = "queued"
          /\ runStatus' = [runStatus EXCEPT ![n] = "running"]
          /\ runOf' = [runOf EXCEPT ![w] = n]
    BY DEF Claim
  <1>2. /\ phase[w] = "none" /\ phase' = [phase EXCEPT ![w] = "check"]
        /\ UNCHANGED <<terminal, row, runHash, snapshot, history, counters>>
    BY DEF Claim, Enter, OnlyWorkers
  <1>3. /\ runStatus'[n] = "running"
        /\ \A m \in Attempts : m # n => runStatus'[m] = runStatus[m]
        /\ runOf'[w] = n /\ phase'[w] = "check"
        /\ \A v \in Workers : v # w => runOf'[v] = runOf[v] /\ phase'[v] = phase[v]
    BY <1>1, <1>2 DEF TypeOK
  <1>4. \A m \in Attempts : /\ Active(m)' <=> Active(m)
                            /\ runStatus'[m] = "absent" <=> runStatus[m] = "absent"
    BY <1>1, <1>3 DEF Active
  <1>5. attempt \in Attempts /\ landed \subseteq Attempts /\ runOf \in [Workers -> Attempts]
    BY DEF TypeOK
  <1>6. RowInv'
    <2>1. Attempted' /\ OnlyCurrent' /\ LandedRan'
      BY <1>2, <1>4, <1>5 DEF Core, RowInv, Attempted, OnlyCurrent, LandedRan
    <2>2. Decided' /\ Hashes' /\ Backed' /\ ApprovedInputsOnly'
      BY <1>2, <1>4, <1>5 DEF Core, RowInv, Decided, Hashes, Backed, ApprovedInputsOnly
    <2>3. QED
      BY <2>1, <2>2 DEF RowInv
  <1>7. WorkersInv'
    <2>1. WorkerInv(w)'
      BY <1>3 DEF WorkerInv
    <2>2. ASSUME NEW v \in Workers, v # w PROVE WorkerInv(v)'
      BY <1>2, <1>3, <1>4, <1>5, <2>2 DEF Core, WorkersInv, WorkerInv
    <2>3. QED
      BY <2>1, <2>2 DEF WorkersInv
  <1>8. AloneInv'
    BY <1>1, <1>2, <1>3, <1>5 DEF Core, AloneInv
  <1>9. EditInv'
    BY <1>1, <1>2, <1>3, <1>4, <1>5 DEF Core, EditInv, Active
  <1>10. QED
    BY <1>6, <1>7, <1>8, <1>9 DEF Core

---------------------------------------------------------------------------
(* What the steps of a handler have in common: the runs, and which          *)
(* invocation has which run, stay; the row is left alone or receives the    *)
(* outcome of an attempt that it was generating; and who is done leaves no   *)
(* generating row of its attempt, or there was a fault.                     *)
Receives(w) ==
  /\ Owns(w) /\ status' \in {"ready", "failed"} /\ landed' = landed \cup {runOf[w]}
  /\ status' = "ready" => content' = snapshot[w] /\ phase[w] = "store"
  /\ UNCHANGED <<exists, attempt, inputHash>>

HandlerStep(w, ph) ==
  /\ phase[w] # "none" /\ phase' = [phase EXCEPT ![w] = ph]
  /\ UNCHANGED <<terminal, runs, runOf, editedSince, overlaps>>
  /\ UNCHANGED <<row, landed>> \/ Receives(w)
  /\ \A v \in Workers : v # w => snapshot'[v] = snapshot[v]
  /\ faults' = faults \/ faults' # 0
  /\ ph = "returned" \/ (ph = "raised" /\ faults' = 0) =>
       ~(exists' /\ attempt' = runOf[w] /\ status' = "generating")
  /\ ph = "store" => snapshot'[w] = inputHash'
  /\ ph # "none" /\ (faults # 0 => faults' # 0)

LEMMA HandlerKeeps ==
  ASSUME TypeOK, Core, NEW w \in Workers, NEW ph, HandlerStep(w, ph)
  PROVE  Core'
  <1> USE DEF row, runs
  <1>1. /\ phase'[w] = ph /\ phase[w] # "none" /\ ph # "none"
        /\ \A v \in Workers : v # w => phase'[v] = phase[v] /\ snapshot'[v] = snapshot[v]
        /\ \A v \in Workers : phase'[v] # "none" <=> phase[v] # "none"
        /\ UNCHANGED <<terminal, runs, runOf, editedSince, overlaps>>
        /\ faults # 0 => faults' # 0
    BY DEF HandlerStep, TypeOK
  <1>2. /\ UNCHANGED <<exists, attempt, inputHash>>
        /\ status' = "generating" => status = "generating"
    BY DEF HandlerStep, Receives
  <1>3. attempt \in Attempts /\ runOf[w] \in Attempts
    BY DEF TypeOK
  <1>4. \/ UNCHANGED <<row, landed>>
        \/ /\ exists /\ attempt = runOf[w] /\ status = "generating"
           /\ status' \in {"ready", "failed"} /\ landed' = landed \cup {attempt}
           /\ runStatus[attempt] # "absent"
           /\ status' = "ready" => content' = inputHash
    BY DEF HandlerStep, Receives, Owns, Current, Core, WorkersInv, WorkerInv
  <1>5. RowInv'
    <2>1. Attempted' /\ Hashes' /\ Backed'
      BY <1>1, <1>2 DEF Core, RowInv, Attempted, Hashes, Backed, Active
    <2>2. OnlyCurrent' /\ Decided' /\ LandedRan'
      BY <1>1, <1>2, <1>3, <1>4
      DEF Core, RowInv, OnlyCurrent, Decided, LandedRan, Active
    <2>3. ApprovedInputsOnly'
      BY <1>1, <1>2, <1>4 DEF Core, RowInv, ApprovedInputsOnly
    <2>4. QED
      BY <2>1, <2>2, <2>3 DEF RowInv
  <1>6. WorkersInv'
    <2>1. WorkerInv(w)'
      BY <1>1, <1>2 DEF HandlerStep, Core, WorkersInv, WorkerInv
    <2>2. ASSUME NEW v \in Workers, v # w PROVE WorkerInv(v)'
      BY <1>1, <1>2, <2>2 DEF Core, WorkersInv, WorkerInv
    <2>3. QED
      BY <2>1, <2>2 DEF WorkersInv
  <1>7. AloneInv'
    BY <1>1 DEF Core, AloneInv
  <1>8. EditInv'
    BY <1>1, <1>2 DEF Core, EditInv, Active
  <1>9. QED
    BY <1>5, <1>6, <1>7, <1>8 DEF Core

(* The WHERE clause misses the row exactly when the attempt is not being    *)
(* generated any more.                                                     *)
LEMMA OwnsOrNot ==
  ASSUME Core, NEW w \in Workers
  PROVE  Owns(w) <=> exists /\ attempt = runOf[w] /\ status = "generating"
  BY DEF Core, RowInv, Hashes, Owns, Current

LEMMA Stores ==
  ASSUME Core, NEW w \in Workers, phase[w] = "store", StoreGenerated(w)
  PROVE  /\ UNCHANGED <<row, landed>> \/ Receives(w)
         /\ UNCHANGED <<exists, attempt, inputHash>>
         /\ ~(exists' /\ attempt' = runOf[w] /\ status' = "generating")
  BY OwnsOrNot DEF StoreGenerated, Land, Receives, row

LEMMA HandlerSteps ==
  ASSUME TypeOK, Core, NEW w \in Workers,
         \/ CheckCurrent(w) \/ Generate(w) \/ RecordFailure(w) \/ CommitGenerated(w)
         \/ HandlerFault(w)
  PROVE  \E ph \in Phases : HandlerStep(w, ph)
  <1> USE DEF OnlyWorkers, Enter, runs, row, history, counters, Phases
  <1>1. CASE CheckCurrent(w)
    <2> DEFINE ph == CASE ~exists -> "raised"
                       [] exists /\ ~Current(runOf[w]) -> "returned"
                       [] exists /\ Current(runOf[w]) -> "generate"
    <2>1. \/ ph = "raised" /\ ~exists
          \/ ph = "returned" /\ ~Owns(w)
          \/ ph = "generate"
      BY DEF Owns
    <2>2. /\ phase[w] = "check" /\ phase' = [phase EXCEPT ![w] = ph]
          /\ UNCHANGED <<terminal, row, runs, runOf, snapshot, history, counters>>
      BY <1>1 DEF CheckCurrent
    <2> HIDE DEF ph
    <2>3. HandlerStep(w, ph)
      BY <2>1, <2>2, OwnsOrNot DEF HandlerStep
    <2>4. QED
      BY <2>1, <2>3
  <1>2. CASE Generate(w)
    <2>1. /\ phase[w] = "generate"
          /\ UNCHANGED <<terminal, row, runs, runOf, history, counters>>
      BY <1>2 DEF Generate
    <2>2. CASE exists
      <3>1. PICK ph \in {"store", "invalid"} : phase' = [phase EXCEPT ![w] = ph]
        BY <1>2, <2>2 DEF Generate
      <3>2. snapshot' = [snapshot EXCEPT ![w] = inputHash]
        BY <1>2, <2>2 DEF Generate
      <3>3. HandlerStep(w, ph)
        BY <2>1, <3>1, <3>2 DEF HandlerStep, TypeOK
      <3>4. QED
        BY <3>3
    <2>3. CASE ~exists
      <3>1. phase' = [phase EXCEPT ![w] = "raised"] /\ UNCHANGED snapshot
        BY <1>2, <2>3 DEF Generate
      <3>2. HandlerStep(w, "raised")
        BY <2>1, <2>3, <3>1 DEF HandlerStep
      <3>3. QED
        BY <3>2
    <2>4. QED
      BY <2>2, <2>3
  <1>3. CASE RecordFailure(w)
    <2>1. /\ phase[w] = "invalid" /\ phase' = [phase EXCEPT ![w] = "raised"]
          /\ UNCHANGED <<terminal, runs, runOf, snapshot, editedSince, counters>>
          /\ UNCHANGED <<exists, attempt, inputHash, revision, content>>
          /\ status' = IF Owns(w) THEN "failed" ELSE status
          /\ landed' = IF Owns(w) THEN landed \cup {runOf[w]} ELSE landed
      BY <1>3 DEF RecordFailure, Land
    <2>2. UNCHANGED <<row, landed>> \/ Receives(w)
      BY <2>1 DEF Receives
    <2>3. ~(exists' /\ attempt' = runOf[w] /\ status' = "generating")
      BY <2>1, OwnsOrNot
    <2>4. HandlerStep(w, "raised")
      BY <2>1, <2>2, <2>3 DEF HandlerStep
    <2>5. QED
      BY <2>4
  <1>4. CASE CommitGenerated(w)
    <2>1. /\ phase[w] = "store" /\ StoreGenerated(w)
          /\ UNCHANGED <<terminal, runs, runOf, snapshot, editedSince, counters>>
      BY <1>4 DEF CommitGenerated
    <2>2. PICK ph \in {"returned", "raised"} : phase' = [phase EXCEPT ![w] = ph]
      BY <1>4 DEF CommitGenerated
    <2>3. HandlerStep(w, ph)
      BY <2>1, <2>2, Stores DEF HandlerStep
    <2>4. QED
      BY <2>3
  <1>5. CASE HandlerFault(w)
    <2>1. /\ phase[w] # "none" /\ phase' = [phase EXCEPT ![w] = "raised"]
          /\ UNCHANGED <<terminal, runs, runOf, snapshot, editedSince, overlaps>>
          /\ UNCHANGED <<row, landed>> \/ (phase[w] = "store" /\ StoreGenerated(w))
      BY <1>5 DEF HandlerFault
    <2>2. faults' # 0
      BY <1>5 DEF HandlerFault, TypeOK
    <2>3. UNCHANGED <<row, landed>> \/ Receives(w)
      BY <2>1, Stores
    <2>4. HandlerStep(w, "raised")
      BY <2>1, <2>2, <2>3 DEF HandlerStep
    <2>5. QED
      BY <2>4
  <1>6. QED
    BY <1>1, <1>2, <1>3, <1>4, <1>5

---------------------------------------------------------------------------
(* What is left: the runner's own writes.                                  *)

(* An invocation ends, with or without its run, which nobody waits for now. *)
LEMMA FinishStep ==
  ASSUME TypeOK, Core, NEW w \in Workers, Finish(w)
  PROVE  Core'
  <1> DEFINE n == runOf[w]
  <1> USE DEF row, history, counters
  <1>1. /\ phase[w] \in {"raised", "returned"} /\ n \in Attempts
        /\ attempt \in Attempts /\ landed \subseteq Attempts
        /\ runStatus'[n] \in {"succeeded", "failed"}
        /\ \A m \in Attempts : m # n => runStatus'[m] = runStatus[m]
        /\ phase'[w] = "none"
        /\ \A v \in Workers :
             v # w => runOf'[v] = runOf[v] /\ phase'[v] = phase[v] /\ snapshot'[v] = snapshot[v]
        /\ UNCHANGED <<terminal, row, runHash, history, counters>>
    BY DEF Finish, Enter, OnlyWorkers, TypeOK
  <1>2. runStatus[n] # "absent"
    BY <1>1 DEF Core, WorkersInv, WorkerInv
  <1>3. faults = 0 => ~(exists /\ attempt = n /\ status = "generating")
    BY <1>1 DEF Core, WorkersInv, WorkerInv
  <1> HIDE DEF n
  <1>4. \A m \in Attempts : /\ Active(m)' <=> Active(m) /\ m # n
                            /\ runStatus'[m] = "absent" <=> runStatus[m] = "absent"
    BY <1>1, <1>2 DEF Active
  <1>5. RowInv'
    <2>1. Attempted' /\ OnlyCurrent' /\ LandedRan'
      BY <1>1, <1>4 DEF Core, RowInv, Attempted, OnlyCurrent, LandedRan
    <2>2. Decided' /\ Hashes' /\ ApprovedInputsOnly'
      BY <1>1 DEF Core, RowInv, Decided, Hashes, ApprovedInputsOnly
    <2>3. Backed'
      BY <1>1, <1>3, <1>4 DEF Core, RowInv, Backed
    <2>4. QED
      BY <2>1, <2>2, <2>3 DEF RowInv
  <1>6. WorkersInv'
    <2>1. ASSUME NEW v \in Workers, v # w PROVE WorkerInv(v)'
      BY <1>1, <1>4, <2>1 DEF Core, WorkersInv, WorkerInv, TypeOK
    <2>2. WorkerInv(w)'
      BY <1>1 DEF WorkerInv
    <2>3. QED
      BY <2>1, <2>2 DEF WorkersInv
  <1>7. AloneInv'
    <2>1. ASSUME overlaps = 0, NEW v \in Workers, phase'[v] # "none"
          PROVE  v # w /\ runOf[v] \in Attempts /\ runOf[v] # n
      BY <1>1, <2>1 DEF Core, AloneInv, TypeOK, n
    <2>2. QED
      BY <1>1, <2>1 DEF Core, AloneInv
  <1>8. EditInv'
    BY <1>1, <1>4 DEF Core, EditInv
  <1>9. QED
    BY <1>5, <1>6, <1>7, <1>8 DEF Core

LEMMA CrashStep ==
  ASSUME TypeOK, Core, NEW w \in Workers, Crash(w)
  PROVE  Core'
  <1> USE DEF row, runs, history
  <1>1. /\ phase'[w] = "none"
        /\ \A v \in Workers :
             v # w => runOf'[v] = runOf[v] /\ phase'[v] = phase[v] /\ snapshot'[v] = snapshot[v]
        /\ UNCHANGED <<terminal, row, runs, history, overlaps, faults>>
    BY DEF Crash, Enter, OnlyWorkers, TypeOK
  <1>2. RowInv'
    BY <1>1 DEF Core, RowInv, Attempted, OnlyCurrent, Decided, LandedRan, Hashes,
                Backed, Active, ApprovedInputsOnly
  <1>3. WorkersInv'
    BY <1>1 DEF Core, WorkersInv, WorkerInv
  <1>4. AloneInv' /\ EditInv'
    BY <1>1 DEF Core, AloneInv, EditInv, Active
  <1>5. QED
    BY <1>2, <1>3, <1>4 DEF Core

(* A run is queued again: with its invocation gone, or counted as overlap.  *)
LEMMA RecoverStep ==
  ASSUME TypeOK, Core, NEW n \in Attempts, Recover(n) \/ RecoverAlive(n)
  PROVE  Core'
  <1> USE DEF row, history, workers
  <1>1. /\ runStatus[n] = "running" /\ runStatus'[n] = "queued"
        /\ \A m \in Attempts : m # n => runStatus'[m] = runStatus[m]
        /\ UNCHANGED <<terminal, row, runHash, workers, history, faults>>
    BY DEF Recover, RecoverAlive, OnlyWorkers, TypeOK, counters
  <1>2. \/ overlaps' = overlaps /\ ~Invoked(n)
        \/ overlaps' # 0
    BY BoundAssumption DEF Recover, RecoverAlive, counters, TypeOK
  <1>3. \A m \in Attempts : /\ Active(m)' <=> Active(m)
                            /\ runStatus'[m] = "absent" <=> runStatus[m] = "absent"
    BY <1>1 DEF Active
  <1>4. attempt \in Attempts /\ landed \subseteq Attempts /\ runOf \in [Workers -> Attempts]
    BY DEF TypeOK
  <1>5. RowInv'
    <2>1. Attempted' /\ OnlyCurrent' /\ LandedRan'
      BY <1>1, <1>3, <1>4 DEF Core, RowInv, Attempted, OnlyCurrent, LandedRan
    <2>2. Decided' /\ Hashes' /\ Backed' /\ ApprovedInputsOnly'
      BY <1>1, <1>3, <1>4 DEF Core, RowInv, Decided, Hashes, Backed, ApprovedInputsOnly
    <2>3. QED
      BY <2>1, <2>2 DEF RowInv
  <1>6. WorkersInv'
    BY <1>1, <1>3, <1>4 DEF Core, WorkersInv, WorkerInv
  <1>7. AloneInv'
    BY <1>1, <1>2, <1>4 DEF Core, AloneInv, Invoked
  <1>8. EditInv'
    BY <1>1, <1>2, <1>3, <1>4 DEF Core, EditInv
  <1>9. QED
    BY <1>5, <1>6, <1>7, <1>8 DEF Core

LEMMA InvStep == Inv /\ [Next]_vars => Inv'
  <1> SUFFICES ASSUME Inv, [Next]_vars PROVE Inv'
    OBVIOUS
  <1>1. TypeOK /\ RequestsInv /\ Core
    BY DEF Inv, Core
  <1>2. TypeOK' /\ RequestsInv'
    BY <1>1, StepTypes, RequestsStep
  <1>3. ASSUME UNCHANGED <<terminal, row, runs, workers, history, counters>> PROVE Core'
    BY <1>1, <1>3, CoreFrame
  <1>4. ASSUME NEW s \in Sessions, Writes(s) PROVE Core'
    BY <1>1, <1>4, StartStep, TerminalStep, SaveStep DEF Writes
  <1>5. ASSUME NEW w \in Workers, Works(w) PROVE Core'
    <2>1. CASE CheckCurrent(w) \/ Generate(w) \/ RecordFailure(w) \/ CommitGenerated(w)
                 \/ HandlerFault(w)
      BY <1>1, <2>1, HandlerSteps, HandlerKeeps
    <2>2. QED
      BY <1>1, <1>5, <2>1, ClaimStep, FinishStep, CrashStep DEF Works, WorkerStep
  <1>6. ASSUME NEW n \in Attempts, Recover(n) \/ RecoverAlive(n) PROVE Core'
    BY <1>1, <1>6, RecoverStep
  <1>7. ASSUME NEW s \in Sessions, Moves(s) \/ Refusals(s)
        PROVE  UNCHANGED <<terminal, row, runs, workers, history, counters>>
    BY <1>7
    DEF Moves, Begin, LockApplication, PrepareGeneration, LockForSave, Reply, OnlyRequests,
        Refusals, RefuseTerminal, RefuseUntailorable, JoinOrRefuse, BeyondBound,
        SaveNotFound, SaveRefused, SaveUnchanged, SaveBeyondBound, ReplyNotFound, Abort,
        Refuse
  <1>8. ASSUME UNCHANGED vars PROVE Core'
    BY <1>3, <1>8 DEF vars
  <1>9. Core'
    BY <1>3, <1>4, <1>5, <1>6, <1>7, <1>8, NextParts
  <1>10. QED
    BY <1>2, <1>9 DEF Inv, Core

LEMMA Invariance == Spec => []Inv
  BY InitInv, InvStep, PTL DEF Spec

---------------------------------------------------------------------------
(* The theorems.                                                           *)

(* Two runs are never both active with their outcome still to come, and a   *)
(* generating row is backed by an active run unless a statement of the      *)
(* handler failed (request_generation, _run_is_active).                     *)
THEOREM OneRunAtATime == Spec => []OneGenerationInFlight
  <1>1. Inv => OneGenerationInFlight
    BY DEF Inv, RowInv, OnlyCurrent, Backed, OneGenerationInFlight
  <1>2. QED
    BY <1>1, Invariance, PTL

(* A document that was generated is made from the inputs its attempt was    *)
(* approved for, and a terminal Application has no tailored CV               *)
(* (commit_generated_state_once, transition_application).                   *)
THEOREM OnlyApprovedInputs == Spec => []ApprovedInputsOnly
  <1>1. Inv => ApprovedInputsOnly
    BY DEF Inv, RowInv
  <1>2. QED
    BY <1>1, Invariance, PTL

(* An attempt's outcome reaches the row at most once, however many          *)
(* invocations of its run are alive (commit_generated_state_once,           *)
(* record_generation_failure).                                              *)
THEOREM OutcomesLandOnce == Spec => LandsOnce
  <1> DEFINE A == \A w \in Workers :
       phase[w] \in {"store", "invalid"} /\ phase'[w] # phase[w]
         /\ <<status, revision, content>>' # <<status, revision, content>>
       => runOf[w] \notin landed
  <1>1. ASSUME Inv, [Next]_vars PROVE [A]_vars
    <2> SUFFICES ASSUME NEW w \in Workers, phase[w] \in {"store", "invalid"},
                        phase'[w] # phase[w],
                        <<status, revision, content>>' # <<status, revision, content>>
                 PROVE  runOf[w] \notin landed
      OBVIOUS
    <2>1. TypeOK /\ Core
      BY <1>1 DEF Inv, Core
    <2> USE DEF row, runs, workers, history, counters
    <2>2. PICK v \in Workers : Works(v)
      BY <1>1, NextParts
      DEF vars, Moves, Begin, LockApplication, PrepareGeneration, LockForSave, Reply,
          OnlyRequests, Refusals, RefuseTerminal, RefuseUntailorable, JoinOrRefuse,
          BeyondBound, SaveNotFound, SaveRefused, SaveUnchanged, SaveBeyondBound,
          ReplyNotFound, Abort, Refuse, Writes, StartGeneration, ReachTerminal, SaveEdit, StoreEdit,
          Recover, RecoverAlive
    <2>3. v = w
      BY <2>1, <2>2
      DEF Works, WorkerStep, Claim, CheckCurrent, Generate, RecordFailure,
          CommitGenerated, HandlerFault, Finish, Crash, Enter, TypeOK
    <2>4. \E ph \in Phases : HandlerStep(w, ph)
      BY <2>1, <2>2, <2>3, HandlerSteps
      DEF Works, WorkerStep, Claim, Finish, Crash
    <2>5. Owns(w)
      BY <2>4 DEF HandlerStep, Receives
    <2>6. QED
      BY <2>1, <2>5, OwnsOrNot DEF Core, RowInv, Decided
  <1>2. QED
    BY <1>1, Invariance, PTL DEF Spec, LandsOnce

(* A generation overwrites an edit accepted after its request only when     *)
(* both a statement of the handler failed and its run was requeued alive;   *)
(* and an accepted edit replaces the document its author was looking at,    *)
(* unless the reply to the author's last save named another's revision      *)
(* (save_state, expected_revision; cv-artifacts.md, "Known defect").        *)
THEOREM EditsAreNotLost == Spec => EditsSurviveUnlessBoth
  <1> DEFINE A == /\ content \in Edits /\ content' \in Inputs
                       /\ (faults = 0 \/ overlaps = 0) => ~editedSince
                  /\ \A s \in Sessions :
                       At(s, "save", "ready") /\ revision' # revision /\ ~misled[s]
                         => seenContent[s] = content
  <1>1. ASSUME Inv, [Next]_vars PROVE [A]_vars
    <2>1. TypeOK /\ RequestsInv /\ EditInv
      BY <1>1 DEF Inv
    <2> USE NoneAssumption
    <2> USE DEF row, runs, workers, history, counters
    <2>2. \/ UNCHANGED <<revision, content>>
          \/ \E s \in Sessions : SaveEdit(s) \/ ReachTerminal(s)
          \/ \E w \in Workers : Works(w)
      BY <1>1, NextParts
      DEF vars, Moves, Begin, LockApplication, PrepareGeneration, LockForSave, Reply,
          OnlyRequests, Refusals, RefuseTerminal, RefuseUntailorable, JoinOrRefuse,
          BeyondBound, SaveNotFound, SaveRefused, SaveUnchanged, SaveBeyondBound,
          ReplyNotFound, Abort, Refuse, Writes, StartGeneration, Recover, RecoverAlive
    <2>3. CASE UNCHANGED <<revision, content>>
      BY <2>3
    <2>4. ASSUME NEW s \in Sessions, SaveEdit(s) PROVE A
      <3>1. content' \in Edits
        BY <2>1, <2>4, Constants DEF SaveEdit, StoreEdit, TypeOK, Edits
      <3>2. cvLock = s /\ (misled[s] \/ seenContent[s] = content)
        BY <2>1, <2>4 DEF SaveEdit, RequestsInv, RequestInv, At
      <3>3. \A d \in Sessions : At(d, "save", "ready") => d = s
        BY <2>1, <3>2 DEF RequestsInv, RequestInv, At
      <3>4. QED
        BY <3>1, <3>2, <3>3
    <2>5. ASSUME NEW s \in Sessions, ReachTerminal(s) PROVE A
      <3>1. content' = None /\ cvLock = None
        BY <2>5 DEF ReachTerminal
      <3>2. \A d \in Sessions : ~At(d, "save", "ready")
        BY <2>1, <3>1 DEF RequestsInv, RequestInv, At
      <3>3. QED
        BY <3>1, <3>2
    <2>6. ASSUME NEW w \in Workers, Works(w) PROVE A
      <3>1. \/ UNCHANGED <<revision, content>>
            \/ cvLock = None /\ exists /\ phase[w] = "store" /\ Current(runOf[w])
        BY <2>1, <2>6, WorkKeeps
      <3>2. CASE UNCHANGED <<revision, content>>
        BY <3>2
      <3>3. CASE cvLock = None /\ exists /\ phase[w] = "store" /\ Current(runOf[w])
        <4>1. editedSince => faults # 0 /\ overlaps # 0
          BY <2>1, <3>3 DEF EditInv, Current
        <4>2. \A d \in Sessions : ~At(d, "save", "ready")
          BY <2>1, <3>3, NoneAssumption DEF RequestsInv, RequestInv, At
        <4>3. QED
          BY <4>1, <4>2
      <3>4. QED
        BY <3>1, <3>2, <3>3
    <2>7. QED
      BY <2>2, <2>3, <2>4, <2>5, <2>6
  <1>2. QED
    BY <1>1, Invariance, PTL DEF Spec, EditsSurviveUnlessBoth
=============================================================================
