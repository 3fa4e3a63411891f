--------------------------- MODULE BaseStateProofs ---------------------------
(* Theorems about BaseState, for any clients, processes and states and any  *)
(* bound on saves: the compare and the write of a save are one step as far  *)
(* as the file is concerned, and so it is a versioned store.                *)
EXTENDS BaseState, TLAPS

(* Two requests that are past the thread lock of one process are the same.  *)
LEMMA OneThread ==
  ASSUME ComparedIsStored, NEW c \in Tasks, NEW d \in Tasks, Home[c] = Home[d],
         at[c] \in Holding \cup {"flock"}, at[d] \in Holding \cup {"flock"}
  PROVE  c = d
  BY DEF ComparedIsStored

(* Two requests that hold the file lock are the same, although flock() is   *)
(* granted again to the process that has it.                               *)
LEMMA OneHolder ==
  ASSUME ComparedIsStored, NEW c \in Tasks, NEW d \in Tasks,
         at[c] \in Holding, at[d] \in Holding
  PROVE  c = d
  <1>1. Home[c] = Home[d]
    BY DEF ComparedIsStored
  <1>2. QED
    BY <1>1, OneThread

LEMMA InitCompared == Init => ComparedIsStored
  BY BaseStateAssumption
  DEF Init, ComparedIsStored, TypeOK, Fresh, Artifacts, Holding

LEMMA StepTypes ==
  ASSUME TypeOK, [Next]_vars
  PROVE  TypeOK'
  <1> USE BaseStateAssumption DEF TypeOK, Holding
  <1>1. ASSUME NEW c \in Tasks, LoadBase(c) PROVE TypeOK'
    BY <1>1 DEF LoadBase, Artifacts
  <1>2. ASSUME NEW c \in Tasks, NEW s \in States, BeginSave(c, s) PROVE TypeOK'
    BY <1>2 DEF BeginSave, Goto
  <1>3. ASSUME NEW c \in Tasks, TakeThreadLock(c) PROVE TypeOK'
    BY <1>3 DEF TakeThreadLock, Goto
  <1>4. ASSUME NEW c \in Tasks, TakeFileLock(c) PROVE TypeOK'
    BY <1>4 DEF TakeFileLock, Goto
  <1>5. ASSUME NEW c \in Tasks, Compare(c) PROVE TypeOK'
    BY <1>5 DEF Compare, Goto
  <1>6. ASSUME NEW c \in Tasks, Write(c) PROVE TypeOK'
    BY <1>6 DEF Write, Goto, Artifacts
  <1>7. ASSUME NEW c \in Tasks, WriteFails(c) PROVE TypeOK'
    BY <1>7 DEF WriteFails, Goto
  <1>8. ASSUME NEW c \in Tasks, Release(c) PROVE TypeOK'
    BY <1>8 DEF Release, Goto, Artifacts
  <1>9. ASSUME NEW p \in Processes, Crash(p) PROVE TypeOK'
    BY <1>9 DEF Crash
  <1>10. CASE UNCHANGED vars
    BY <1>10 DEF vars
  <1>11. QED
    BY <1>1, <1>2, <1>3, <1>4, <1>5, <1>6, <1>7, <1>8, <1>9, <1>10 DEF Next

(* The parts of ComparedIsStored that speak of the locks and the copies.    *)
Rest(c) ==
  /\ at[c] \in Holding \cup {"flock"} => thread[Home[c]] = c
  /\ at[c] \in Holding => flock = Home[c]
  /\ at[c] \in {"write", "answer"} => current[c] = file
  /\ at[c] = "write" => seen[c] = file.revision /\ wants[c] # file.state

LEMMA Parts == ComparedIsStored <=> TypeOK /\ \A c \in Tasks : Rest(c)
  BY DEF ComparedIsStored, Rest

LEMMA StepRest ==
  ASSUME ComparedIsStored, [Next]_vars, NEW d \in Tasks
  PROVE  Rest(d)'
  <1> USE BaseStateAssumption DEF TypeOK, Holding
  <1>0. TypeOK /\ Rest(d) /\ Home[d] \in Processes
    BY Parts
  <1>1. ASSUME NEW c \in Tasks, LoadBase(c) PROVE Rest(d)'
    BY <1>0, <1>1 DEF LoadBase, Rest
  <1>2. ASSUME NEW c \in Tasks, NEW s \in States, BeginSave(c, s) PROVE Rest(d)'
    BY <1>0, <1>2 DEF BeginSave, Goto, Rest
  <1>3. ASSUME NEW c \in Tasks, TakeThreadLock(c) PROVE Rest(d)'
    BY <1>0, <1>3 DEF TakeThreadLock, Goto, Rest
  <1>4. ASSUME NEW c \in Tasks, TakeFileLock(c) PROVE Rest(d)'
    <2>1. CASE d = c
      BY <1>0, <1>4, <2>1 DEF TakeFileLock, Goto, Rest
    <2>2. CASE d # c
      <3>1. at'[d] = at[d]
        BY <1>0, <1>4, <2>2 DEF TakeFileLock, Goto
      <3>2. at[d] \in Holding => flock' = Home[d]
        BY <1>0, <1>4, <2>2, OneThread DEF TakeFileLock, Rest
      <3>3. QED
        BY <1>0, <1>4, <3>1, <3>2 DEF TakeFileLock, Rest
    <2>3. QED
      BY <2>1, <2>2
  <1>5. ASSUME NEW c \in Tasks, Compare(c) PROVE Rest(d)'
    BY <1>0, <1>5 DEF Compare, Goto, Rest
  <1>6. ASSUME NEW c \in Tasks, Write(c) PROVE Rest(d)'
    <2>1. CASE d = c
      BY <1>0, <1>6, <2>1 DEF Write, Goto, Rest
    <2>2. CASE d # c
      <3>1. at'[d] = at[d] /\ at[d] \notin Holding
        BY <1>0, <1>6, <2>2, OneHolder DEF Write, Goto
      <3>2. QED
        BY <1>0, <1>6, <3>1 DEF Write, Rest
    <2>3. QED
      BY <2>1, <2>2
  <1>7. ASSUME NEW c \in Tasks, WriteFails(c) PROVE Rest(d)'
    BY <1>0, <1>7 DEF WriteFails, Goto, Rest
  <1>8. ASSUME NEW c \in Tasks, Release(c) PROVE Rest(d)'
    <2>1. CASE d = c
      BY <1>0, <1>8, <2>1 DEF Release, Goto, Rest
    <2>2. CASE d # c
      <3>1. at'[d] = at[d] /\ at[d] \notin Holding
        BY <1>0, <1>8, <2>2, OneHolder DEF Release, Goto
      <3>2. at[d] = "flock" => thread'[Home[d]] = thread[Home[d]]
        BY <1>0, <1>8, <2>2, OneThread DEF Release
      <3>3. QED
        BY <1>0, <3>1, <3>2 DEF Rest
    <2>3. QED
      BY <2>1, <2>2
  <1>9. ASSUME NEW p \in Processes, Crash(p) PROVE Rest(d)'
    BY <1>0, <1>9 DEF Crash, Rest
  <1>10. CASE UNCHANGED vars
    BY <1>0, <1>10 DEF vars, Rest
  <1>11. QED
    BY <1>1, <1>2, <1>3, <1>4, <1>5, <1>6, <1>7, <1>8, <1>9, <1>10 DEF Next

(* What a save compared with under the lock is what is stored when it       *)
(* writes and when it answers, between threads, processes and crashes       *)
(* (save_base within exclusive_profile_write).                             *)
THEOREM ComparisonHolds == Spec => []ComparedIsStored
  <1>1. ComparedIsStored /\ [Next]_vars => ComparedIsStored'
    <2> SUFFICES ASSUME ComparedIsStored, [Next]_vars PROVE ComparedIsStored'
      OBVIOUS
    <2>1. TypeOK'
      BY Parts, StepTypes
    <2>2. \A d \in Tasks : Rest(d)'
      BY StepRest
    <2>3. QED
      BY <2>1, <2>2 DEF ComparedIsStored, Rest
  <1>2. QED
    BY InitCompared, <1>1, PTL DEF Spec

LEMMA StoreStep ==
  ASSUME ComparedIsStored, [Next]_vars
  PROVE  [Store!Next]_(<<file.state, file.revision, seen>>)
  <1> USE DEF ComparedIsStored, TypeOK, Artifacts
  <1>1. ASSUME NEW c \in Tasks, LoadBase(c) PROVE Store!See(c)
    BY <1>1 DEF LoadBase, Store!See
  <1>2. ASSUME NEW c \in Tasks, Write(c) PROVE Store!Save(c)
    <2>1. seen[c] = file.revision /\ wants[c] # file.state /\ current[c] = file
      BY <1>2 DEF Write
    <2>2. file' = [revision |-> file.revision + 1, state |-> wants[c]]
      BY <1>2, <2>1 DEF Write
    <2>3. wants[c] \in States
      OBVIOUS
    <2>4. QED
      BY <1>2, <2>1, <2>2, <2>3 DEF Write, Store!Save
  <1>3. ASSUME NEW c \in Tasks, Release(c)
        PROVE  Store!See(c) \/ UNCHANGED <<file, seen>>
    <2>1. CASE at[c] = "answer"
      <3>1. seen' = [seen EXCEPT ![c] = file.revision]
        BY <1>3, <2>1 DEF Release, Goto
      <3>2. QED
        BY <1>3, <3>1 DEF Release, Store!See
    <2>2. CASE at[c] = "refuse"
      <3>1. seen' = seen
        BY <1>3, <2>2 DEF Release, Goto
      <3>2. QED
        BY <1>3, <3>1 DEF Release
    <2>3. QED
      BY <1>3, <2>1, <2>2 DEF Release
  <1>4. \/ UNCHANGED <<file, seen>>
        \/ \E c \in Tasks : Store!See(c) \/ Store!Save(c)
    BY <1>1, <1>2, <1>3
    DEF Next, vars, BeginSave, TakeThreadLock, TakeFileLock, Compare, WriteFails,
        Crash
  <1>5. QED
    BY <1>4 DEF Store!Next

(* save_base implements a versioned store: no save replaces a revision that *)
(* its client has not seen (save_base's docstring, STALE_WRITE_MESSAGE).    *)
THEOREM SavesAreCompareAndWrite == Spec => ImplementsStore
  <1>1. Init => Store!Init
    BY DEF Init, Store!Init, Fresh
  <1>2. QED
    BY <1>1, ComparisonHolds, StoreStep, PTL DEF Spec, ImplementsStore, Store!Spec
=============================================================================
