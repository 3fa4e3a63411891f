-------------------------- MODULE JobDecisionsProofs --------------------------
(* Theorems about JobDecisions, for any number of requests, Jobs,           *)
(* Consultants and Applications.                                           *)
EXTENDS JobDecisions, TLAPS

(* Who is past lock_job or _lock_and_reload holds the row, and its copy of  *)
(* it is true; who goes on to the pair saw the Job open; a request about an *)
(* Application is about one that exists.                                   *)
JobHolder(s) ==
  /\ pc[s] \in {"job", "link", "pair"} =>
       jobLock[JobOf(s)] = s /\ seenOpen[s] = jobOpen[JobOf(s)]
  /\ pc[s] \in {"link", "pair"} => seenOpen[s]

AppHolder(s) ==
  /\ req[s].op \in {"transition", "attach"} =>
       AppOf(s) \in Apps /\ appStatus[AppOf(s)] # "absent"
  /\ req[s].op = "transition" => req[s].to \in AppStatuses
  /\ req[s].op = "attach" => req[s].to \in Artifacts
  /\ pc[s] = "app" =>
       /\ req[s].op \in {"transition", "attach"}
       /\ appLock[AppOf(s)] = s /\ seenStatus[s] = appStatus[AppOf(s)]

HolderInv == \A s \in Sessions : JobHolder(s) /\ AppHolder(s)

(* An Application has a pair exactly when it has a status.                 *)
AppInv == \A a \in Apps : appPair[a] = None <=> appStatus[a] = "absent"

Inv == OneDecisionPerPair /\ DerivedRowsFollow /\ AppInv /\ HolderInv

---------------------------------------------------------------------------
LEMMA PairFields ==
  ASSUME TypeOK, NEW s \in Sessions
  PROVE  /\ PairOf(s) \in Pairs /\ JobOf(s) \in Jobs /\ ConsOf(s) \in Consultants
         /\ PairOf(s)[1] = JobOf(s) /\ PairOf(s)[2] = ConsOf(s)
         /\ req[s].app \in Apps \cup {None} /\ req[s].op \in Ops
         /\ req[s].to \in AppStatuses \cup Artifacts \cup {"on", "off", "-"}
  BY DEF TypeOK, Calls, Pairs, PairOf, JobOf, ConsOf

LEMMA NoRequestIsRequest ==
  ASSUME JobDecisionsAssumption
  PROVE  NoRequest \in Calls /\ NoRequest.op = "close_job"
  <1>1. (CHOOSE p \in Pairs : TRUE) \in Pairs
    <2>1. PICK j \in Jobs, c \in Consultants : TRUE
      BY DEF JobDecisionsAssumption
    <2>2. <<j, c>> \in Pairs
      BY DEF Pairs
    <2>3. QED
      BY <2>2
  <1>2. QED
    BY <1>1 DEF NoRequest, Calls, Ops

(* Only a live status can be left, and what is reached from the first is    *)
(* the second or terminal.                                                 *)
LEMMA RankGrows ==
  ASSUME NEW x \in AppStatuses, NEW y \in AppStatuses, Rank(x) > Rank(y)
  PROVE  y \in Live
  BY DEF AppStatuses, Live, TerminalStatuses, Rank

LEMMA InitInv ==
  ASSUME JobDecisionsAssumption, Init
  PROVE  Inv
  BY NoRequestIsRequest
  DEF Init, Inv, OneDecisionPerPair, TypeOK, DerivedRowsFollow, AppInv, HolderInv,
      JobHolder, AppHolder, JobDecisionsAssumption, PCs, AppStatuses, TerminalStatuses,
      Live, LiveApps

---------------------------------------------------------------------------
(* Types.                                                                  *)
LockTypes ==
  /\ jobLock \in [Jobs -> Sessions \cup {None}]
  /\ userLock \in [Consultants -> Sessions \cup {None}]
  /\ userShare \in [Consultants -> SUBSET Sessions]
  /\ pairLock \in [Pairs -> Sessions \cup {None}]
  /\ appLock \in [Apps -> Sessions \cup {None}]

SessionTypes ==
  /\ pc \in [Sessions -> PCs]
  /\ req \in [Sessions -> Calls]
  /\ seenOpen \in [Sessions -> BOOLEAN]
  /\ seenStatus \in [Sessions -> AppStatuses \cup {"absent"}]
  /\ newPair \in [Sessions -> BOOLEAN]

TableTypes ==
  /\ jobOpen \in [Jobs -> BOOLEAN]
  /\ looking \in [Consultants -> BOOLEAN]
  /\ pairRows \subseteq Pairs
  /\ rejected \subseteq Pairs
  /\ matches \subseteq Pairs
  /\ appPair \in [Apps -> Pairs \cup {None}]
  /\ appStatus \in [Apps -> AppStatuses \cup {"absent"}]
  /\ artifacts \in [Apps -> SUBSET Artifacts]

LEMMA EndTypes ==
  ASSUME JobDecisionsAssumption, TypeOK, NEW s \in Sessions, EndTransaction(s)
  PROVE  LockTypes' /\ SessionTypes'
  BY NoRequestIsRequest
  DEF TypeOK, EndTransaction, Goto, LockTypes, SessionTypes, PCs

LEMMA StepTypes ==
  ASSUME JobDecisionsAssumption, Inv, NEW s \in Sessions,
         (\E r \in Calls : Begin(s, r)) \/ Step(s) \/ Abort(s)
  PROVE  TypeOK'
  <1> USE DEF tables, locks, session
  <1>0. TypeOK /\ JobHolder(s) /\ AppHolder(s)
    BY DEF Inv, OneDecisionPerPair, HolderInv
  <1>1. PairOf(s) \in Pairs /\ JobOf(s) \in Jobs /\ ConsOf(s) \in Consultants
    BY <1>0, PairFields
  <1>2. ASSUME NEW r \in Calls, Begin(s, r) PROVE TypeOK'
    <2>1. r.pair[1] \in Jobs /\ r.app \in Apps \cup {None}
      BY DEF Calls, Pairs
    <2>2. jobOpen[r.pair[1]] \in BOOLEAN
          /\ (r.app # None => appStatus[r.app] \in AppStatuses \cup {"absent"})
      BY <1>0, <2>1 DEF TypeOK
    <2>3. QED
      BY <1>0, <1>2, <2>2 DEF TypeOK, Begin, Goto, PCs
  <1>3. CASE LockUser(s)
    BY <1>0, <1>1, <1>3 DEF TypeOK, LockUser, Goto, PCs
  <1>4. CASE LockJob(s)
    BY <1>0, <1>1, <1>4 DEF TypeOK, LockJob, Goto, PCs
  <1>5. CASE MaterializePair(s)
    <2>1. userShare' \in [Consultants -> SUBSET Sessions]
      BY <1>0, <1>1, <1>5 DEF TypeOK, MaterializePair
    <2>2. newPair' \in [Sessions -> BOOLEAN]
      BY <1>0, <1>5 DEF TypeOK, MaterializePair
    <2>3. QED
      BY <1>0, <1>5, <2>1, <2>2 DEF TypeOK, MaterializePair, Goto, PCs
  <1>6. CASE LockPair(s)
    BY <1>0, <1>1, <1>6 DEF TypeOK, LockPair, Goto, PCs
  <1>7. CASE LockApplication(s)
    <2>1. AppOf(s) \in Apps
      BY <1>0, <1>7 DEF LockApplication, At, AppHolder
    <2>2. QED
      BY <1>0, <1>7, <2>1 DEF TypeOK, LockApplication, Goto, PCs
  <1>8. CASE \/ RefuseClosed(s) \/ ApplyRefused(s) \/ ApplyBeyondBound(s)
             \/ RejectRefused(s) \/ TransitionRefused(s) \/ AttachRefused(s) \/ Abort(s)
    <2>1. EndTransaction(s) /\ UNCHANGED tables
      BY <1>8
      DEF RefuseClosed, ApplyRefused, ApplyBeyondBound, RejectRefused, TransitionRefused,
          AttachRefused, Abort, Refuse
    <2>2. QED
      BY <1>0, <2>1, EndTypes DEF TypeOK, LockTypes, SessionTypes
  <1>9. CASE \/ ApplyInsert(s) \/ RejectInsert(s) \/ WithdrawReview(s) \/ CloseJob(s)
             \/ ReadScore(s) \/ SetLooking(s) \/ Transition(s) \/ Attach(s)
    <2> USE DEF TypeOK, TableTypes
    <2>1. EndTransaction(s)
      BY <1>9
      DEF ApplyInsert, RejectInsert, WithdrawReview, CloseJob, ReadScore, SetLooking,
          Transition, Attach
    <2>2. CASE ApplyInsert(s)
      <3>1. TableTypes'
        BY <1>0, <1>1, <2>2 DEF ApplyInsert, CommitPairRow, AppStatuses, Live
      <3>2. QED
        BY <1>0, <2>1, <3>1, EndTypes DEF LockTypes, SessionTypes
    <2>3. CASE RejectInsert(s)
      <3>1. TableTypes'
        BY <1>0, <1>1, <2>3 DEF RejectInsert, CommitPairRow
      <3>2. QED
        BY <1>0, <2>1, <3>1, EndTypes DEF LockTypes, SessionTypes
    <2>4. CASE WithdrawReview(s) \/ CloseJob(s) \/ ReadScore(s) \/ SetLooking(s)
      <3>1. TableTypes'
        BY <1>0, <1>1, <2>4 DEF WithdrawReview, CloseJob, ReadScore, SetLooking
      <3>2. QED
        BY <1>0, <2>1, <3>1, EndTypes DEF LockTypes, SessionTypes
    <2>5. CASE Transition(s) \/ Attach(s)
      <3>1. TableTypes'
        BY <1>0, <1>1, <2>5 DEF Transition, Attach, At, AppHolder
      <3>2. QED
        BY <1>0, <2>1, <3>1, EndTypes DEF LockTypes, SessionTypes
    <2>6. QED
      BY <1>9, <2>2, <2>3, <2>4, <2>5
  <1>10. QED
    BY <1>2, <1>3, <1>4, <1>5, <1>6, <1>7, <1>8, <1>9 DEF Step

---------------------------------------------------------------------------
(* A step of one session leaves every other its place, its copies and its   *)
(* locks.                                                                  *)
LEMMA OthersKeep ==
  ASSUME JobDecisionsAssumption, Inv, NEW s \in Sessions, NEW d \in Sessions, d # s,
         (\E r \in Calls : Begin(s, r)) \/ Step(s) \/ Abort(s)
  PROVE  /\ pc'[d] = pc[d] /\ req'[d] = req[d]
         /\ seenOpen'[d] = seenOpen[d] /\ seenStatus'[d] = seenStatus[d]
         /\ \A j \in Jobs : jobLock[j] = d => jobLock'[j] = d
         /\ \A a \in Apps : appLock[a] = d => appLock'[a] = d
  <1> USE DEF tables, locks, session, Goto
  <1>0. TypeOK /\ d # None
    BY DEF Inv, OneDecisionPerPair, JobDecisionsAssumption
  <1>1. CASE EndTransaction(s)
    BY <1>0, <1>1 DEF EndTransaction, TypeOK
  <1>2. CASE \E r \in Calls : Begin(s, r)
    BY <1>0, <1>2 DEF Begin, TypeOK
  <1>3. CASE LockUser(s) \/ MaterializePair(s) \/ LockPair(s)
    BY <1>0, <1>3 DEF LockUser, MaterializePair, LockPair, TypeOK
  <1>4. CASE LockJob(s)
    BY <1>0, <1>4 DEF LockJob, TypeOK
  <1>5. CASE LockApplication(s)
    BY <1>0, <1>5 DEF LockApplication, TypeOK
  <1>6. QED
    BY <1>1, <1>2, <1>3, <1>4, <1>5
    DEF Step, Abort, Refuse, RefuseClosed, ApplyRefused, ApplyInsert, ApplyBeyondBound,
        RejectRefused, RejectInsert, WithdrawReview, CloseJob, ReadScore, SetLooking,
        TransitionRefused, Transition, AttachRefused, Attach

(* A Job is closed only by who holds it, and never opened again; a status   *)
(* changes only from absent, or under the lock, from what the holder saw.   *)
LEMMA RowsChange ==
  ASSUME JobDecisionsAssumption, Inv, NEW s \in Sessions,
         (\E r \in Calls : Begin(s, r)) \/ Step(s) \/ Abort(s)
  PROVE  /\ \A j \in Jobs : \/ jobOpen'[j] = jobOpen[j]
                            \/ jobLock[j] = s
         /\ \A a \in Apps :
              \/ appStatus'[a] = appStatus[a] /\ appPair'[a] = appPair[a]
              \/ /\ appStatus[a] = "absent" /\ appStatus'[a] = "applied"
                 /\ ApplyInsert(s) /\ appPair'[a] = PairOf(s)
              \/ /\ Transition(s) /\ a = AppOf(s) /\ appLock[a] = s
                 /\ appPair'[a] = appPair[a]
                 /\ appStatus[a] \in Live /\ appStatus'[a] \in AppStatuses
                 /\ Rank(appStatus'[a]) > Rank(appStatus[a])
  <1> USE DEF tables, locks, session, Goto
  <1>0. TypeOK /\ JobHolder(s) /\ AppHolder(s) /\ AppInv
    BY DEF Inv, OneDecisionPerPair, HolderInv
  <1>1. CASE ApplyInsert(s)
    BY <1>0, <1>1 DEF ApplyInsert, TypeOK, AppInv
  <1>2. CASE CloseJob(s)
    BY <1>0, <1>2, PairFields DEF CloseJob, At, TypeOK, JobHolder
  <1>3. CASE Transition(s)
    <2>1. /\ AppOf(s) \in Apps /\ appLock[AppOf(s)] = s
          /\ seenStatus[s] = appStatus[AppOf(s)] /\ appStatus[AppOf(s)] \in AppStatuses
          /\ req[s].to \in AppStatuses /\ Rank(req[s].to) > Rank(seenStatus[s])
      BY <1>0, <1>3 DEF Transition, At, AppHolder, TypeOK
    <2>2. appStatus[AppOf(s)] \in Live
      BY <2>1, RankGrows
    <2>3. QED
      BY <1>0, <1>3, <2>1, <2>2 DEF Transition, TypeOK
  <1>4. CASE UNCHANGED <<jobOpen, appStatus, appPair>>
    BY <1>4
  <1>5. QED
    BY <1>1, <1>2, <1>3, <1>4
    DEF Step, Abort, Refuse, Begin, LockUser, LockJob, MaterializePair, LockPair,
        LockApplication, RefuseClosed, ApplyRefused, ApplyBeyondBound,
        RejectRefused, RejectInsert, WithdrawReview, ReadScore, SetLooking,
        TransitionRefused, AttachRefused, Attach

LEMMA HolderStep ==
  ASSUME JobDecisionsAssumption, Inv, NEW s \in Sessions,
         (\E r \in Calls : Begin(s, r)) \/ Step(s) \/ Abort(s)
  PROVE  HolderInv'
  <1> USE DEF tables, locks, session, Goto
  <1>0. TypeOK /\ HolderInv /\ AppInv
    BY DEF Inv, OneDecisionPerPair
  <1>1. ASSUME NEW d \in Sessions, d # s PROVE JobHolder(d)' /\ AppHolder(d)'
    <2>1. /\ pc'[d] = pc[d] /\ req'[d] = req[d]
          /\ seenOpen'[d] = seenOpen[d] /\ seenStatus'[d] = seenStatus[d]
          /\ \A j \in Jobs : jobLock[j] = d => jobLock'[j] = d
          /\ \A a \in Apps : appLock[a] = d => appLock'[a] = d
      BY <1>1, OthersKeep
    <2>2. JobOf(d) \in Jobs /\ JobHolder(d) /\ AppHolder(d)
      BY <1>0, PairFields DEF HolderInv
    <2>3. JobHolder(d)'
      BY <1>1, <2>1, <2>2, RowsChange DEF JobHolder, JobOf
    <2>4. \A a \in Apps : appStatus[a] # "absent" =>
            /\ appStatus'[a] # "absent"
            /\ appLock[a] = d => appStatus'[a] = appStatus[a]
      BY <1>1, RowsChange DEF AppStatuses, Live, TerminalStatuses
    <2>5. AppHolder(d)'
      BY <2>1, <2>2, <2>4 DEF AppHolder, AppOf
    <2>6. QED
      BY <2>3, <2>5
  <1>2. JobHolder(s)' /\ AppHolder(s)'
    <2>0. JobHolder(s) /\ AppHolder(s) /\ JobOf(s) \in Jobs
      BY <1>0, PairFields DEF HolderInv
    <2>1. CASE EndTransaction(s)
      <3>1. pc'[s] = "idle" /\ req'[s].op = "close_job"
        BY <1>0, <2>1, NoRequestIsRequest DEF EndTransaction, TypeOK
      <3>2. QED
        BY <3>1 DEF JobHolder, AppHolder
    <2>2. ASSUME NEW r \in Calls, Begin(s, r)
          PROVE  JobHolder(s)' /\ AppHolder(s)'
      <3>1. pc'[s] = "start" /\ req'[s] = r /\ UNCHANGED tables
        BY <1>0, <2>2 DEF Begin, TypeOK
      <3>2. r.op \in {"transition", "attach"} =>
              /\ r.app \in Apps /\ appPair[r.app] = r.pair /\ r.pair \in Pairs
        BY <2>2 DEF Begin, Calls
      <3>3. r.op \in {"transition", "attach"} => appStatus[r.app] # "absent"
        BY <1>0, <3>2 DEF AppInv, JobDecisionsAssumption
      <3>4. /\ r.op = "transition" => r.to \in AppStatuses
            /\ r.op = "attach" => r.to \in Artifacts
        BY <2>2 DEF Begin
      <3>5. QED
        BY <3>1, <3>2, <3>3, <3>4 DEF JobHolder, AppHolder, AppOf
    <2>3. CASE LockUser(s)
      BY <1>0, <2>0, <2>3 DEF LockUser, TypeOK, JobHolder, AppHolder, JobOf, AppOf
    <2>4. CASE LockJob(s)
      BY <1>0, <2>0, <2>4 DEF LockJob, TypeOK, JobHolder, AppHolder, JobOf, AppOf
    <2>5. CASE MaterializePair(s)
      BY <1>0, <2>0, <2>5 DEF MaterializePair, At, TypeOK, JobHolder, AppHolder, JobOf, AppOf
    <2>6. CASE LockPair(s)
      BY <1>0, <2>0, <2>6 DEF LockPair, At, TypeOK, JobHolder, AppHolder, JobOf, AppOf
    <2>7. CASE LockApplication(s)
      BY <1>0, <2>0, <2>7 DEF LockApplication, At, TypeOK, JobHolder, AppHolder, JobOf, AppOf
    <2>8. QED
      BY <2>1, <2>2, <2>3, <2>4, <2>5, <2>6, <2>7
      DEF Step, Abort, Refuse, RefuseClosed, ApplyRefused, ApplyInsert, ApplyBeyondBound,
          RejectRefused, RejectInsert, WithdrawReview, CloseJob, ReadScore, SetLooking,
          TransitionRefused, Transition, AttachRefused, Attach
  <1>3. QED
    BY <1>1, <1>2 DEF HolderInv

---------------------------------------------------------------------------
(* OneDecisionPerPair, said of the Applications.                           *)
Exclusive ==
  /\ \A a \in Apps : appStatus[a] \in Live => appPair[a] \notin rejected
  /\ \A a, b \in Apps :
       appStatus[a] \in Live /\ appStatus[b] \in Live /\ appPair[a] = appPair[b] => a = b

LEMMA ExclusiveIsOne ==
  /\ OneDecisionPerPair => Exclusive
  /\ TypeOK /\ Exclusive => OneDecisionPerPair
  BY DEF OneDecisionPerPair, Exclusive, LiveApps

LEMMA DecisionStep ==
  ASSUME JobDecisionsAssumption, Inv, NEW s \in Sessions,
         (\E r \in Calls : Begin(s, r)) \/ Step(s) \/ Abort(s)
  PROVE  OneDecisionPerPair' /\ AppInv'
  <1> USE DEF tables, locks, session
  <1>0. TypeOK /\ AppInv /\ PairOf(s) \in Pairs /\ Exclusive
    BY PairFields, ExclusiveIsOne DEF Inv, OneDecisionPerPair
  <1>1. TypeOK'
    BY StepTypes
  <1>2. AppInv'
    <2>1. \A a \in Apps : appPair[a] = None <=> appStatus[a] = "absent"
      BY <1>0 DEF AppInv
    <2>2. None # PairOf(s) /\ "absent" \notin AppStatuses /\ "absent" \notin Live
      BY <1>0 DEF JobDecisionsAssumption, AppStatuses, Live, TerminalStatuses
    <2>3. QED
      BY <2>1, <2>2, RowsChange DEF AppInv
  <1>3. Exclusive'
    <2>1. CASE ApplyInsert(s)
      <3>1. /\ PairOf(s) \notin rejected /\ LiveApps(PairOf(s)) = {} /\ rejected' = rejected
        BY <2>1 DEF ApplyInsert
      <3>2. PICK n \in Apps :
              /\ appPair[n] = None
              /\ appPair' = [appPair EXCEPT ![n] = PairOf(s)]
              /\ appStatus' = [appStatus EXCEPT ![n] = "applied"]
        BY <2>1 DEF ApplyInsert
      <3>3. \A a \in Apps : a # n => appPair'[a] = appPair[a] /\ appStatus'[a] = appStatus[a]
        BY <1>0, <3>2 DEF TypeOK
      <3>4. appPair'[n] = PairOf(s)
        BY <1>0, <3>2 DEF TypeOK
      <3>5. QED
        BY <1>0, <3>1, <3>3, <3>4 DEF LiveApps, Exclusive
    <2>2. CASE RejectInsert(s)
      BY <1>0, <2>2 DEF RejectInsert, LiveApps, Exclusive
    <2>3. CASE WithdrawReview(s)
      BY <1>0, <2>3 DEF WithdrawReview, Exclusive
    <2>4. CASE Transition(s)
      <3>1. \A a \in Apps : appPair'[a] = appPair[a]
                            /\ (appStatus'[a] \in Live => appStatus[a] \in Live)
        <4>1. ~ApplyInsert(s)
          BY <2>4 DEF Transition, ApplyInsert, At
        <4>2. QED
          BY <4>1, RowsChange
      <3>2. rejected' = rejected
        BY <2>4 DEF Transition
      <3>3. QED
        BY <1>0, <3>1, <3>2 DEF LiveApps, Exclusive
    <2>5. CASE UNCHANGED <<rejected, appPair, appStatus>>
      BY <1>0, <2>5 DEF LiveApps, Exclusive
    <2>6. QED
      BY <2>1, <2>2, <2>3, <2>4, <2>5
      DEF Step, Abort, Refuse, Begin, LockUser, LockJob, MaterializePair, LockPair,
          LockApplication, RefuseClosed, ApplyRefused, ApplyBeyondBound,
          RejectRefused, CloseJob, ReadScore, SetLooking, TransitionRefused,
          AttachRefused, Attach
  <1>4. QED
    BY <1>1, <1>2, <1>3 DEF OneDecisionPerPair, Exclusive, LiveApps

LEMMA DerivedStep ==
  ASSUME JobDecisionsAssumption, Inv, NEW s \in Sessions,
         (\E r \in Calls : Begin(s, r)) \/ Step(s) \/ Abort(s)
  PROVE  DerivedRowsFollow'
  <1> USE DEF tables, locks, session
  <1>0. /\ TypeOK /\ JobHolder(s) /\ AppHolder(s) /\ AppInv
        /\ \A p \in matches : p \in Pairs /\ jobOpen[p[1]] /\ looking[p[2]]
        /\ \A p \in Pairs : p[1] \in Jobs /\ p[2] \in Consultants
        /\ \A a \in Apps : appStatus[a] \in TerminalStatuses => artifacts[a] = {}
    BY DEF Inv, OneDecisionPerPair, HolderInv, DerivedRowsFollow, TypeOK, Pairs
  <1>1. /\ PairOf(s) \in Pairs /\ JobOf(s) \in Jobs /\ ConsOf(s) \in Consultants
        /\ PairOf(s)[1] = JobOf(s) /\ PairOf(s)[2] = ConsOf(s)
    BY <1>0, PairFields
  <1>2. \A p \in matches' : jobOpen'[p[1]] /\ looking'[p[2]]
    <2>1. CASE CloseJob(s)
      BY <1>0, <1>1, <2>1 DEF CloseJob, TypeOK
    <2>2. CASE ReadScore(s)
      <3>1. seenOpen[s] = jobOpen[JobOf(s)]
        BY <1>0, <2>2 DEF ReadScore, At, JobHolder
      <3>2. QED
        BY <1>0, <1>1, <2>2, <3>1 DEF ReadScore
    <2>3. CASE SetLooking(s)
      BY <1>0, <1>1, <2>3 DEF SetLooking, TypeOK
    <2>4. CASE UNCHANGED <<jobOpen, looking, matches>>
      BY <1>0, <2>4
    <2>5. QED
      BY <2>1, <2>2, <2>3, <2>4
      DEF Step, Abort, Refuse, Begin, LockUser, LockJob, MaterializePair, LockPair,
          LockApplication, RefuseClosed, ApplyRefused, ApplyBeyondBound, ApplyInsert,
          RejectRefused, RejectInsert, WithdrawReview, TransitionRefused, Transition,
          AttachRefused, Attach
  <1>3. \A a \in Apps : appStatus'[a] \in TerminalStatuses => artifacts'[a] = {}
    <2>1. CASE Transition(s)
      <3>1. AppOf(s) \in Apps
        BY <1>0, <2>1 DEF Transition, At, AppHolder
      <3>2. QED
        BY <1>0, <2>1, <3>1 DEF Transition, TypeOK
    <2>2. CASE Attach(s)
      <3>1. AppOf(s) \in Apps /\ appStatus[AppOf(s)] \in Live
        BY <1>0, <2>2 DEF Attach, At, AppHolder
      <3>2. QED
        BY <1>0, <2>2, <3>1 DEF Attach, TypeOK, Live, TerminalStatuses
    <2>3. CASE ApplyInsert(s)
      <3>1. \A a \in Apps : appStatus'[a] = appStatus[a] \/ appStatus'[a] = "applied"
        BY <1>0, <2>3 DEF ApplyInsert, TypeOK
      <3>2. artifacts' = artifacts
        BY <2>3 DEF ApplyInsert
      <3>3. QED
        BY <1>0, <3>1, <3>2 DEF TerminalStatuses
    <2>4. CASE UNCHANGED <<appStatus, artifacts>>
      BY <1>0, <2>4
    <2>5. QED
      BY <2>1, <2>2, <2>3, <2>4
      DEF Step, Abort, Refuse, Begin, LockUser, LockJob, MaterializePair, LockPair,
          LockApplication, RefuseClosed, ApplyRefused, ApplyBeyondBound,
          RejectRefused, RejectInsert, WithdrawReview, TransitionRefused, AttachRefused,
          CloseJob, ReadScore, SetLooking
  <1>4. QED
    BY <1>2, <1>3 DEF DerivedRowsFollow

LEMMA InvStep ==
  ASSUME JobDecisionsAssumption, Inv, [Next]_vars
  PROVE  Inv'
  <1>1. ASSUME NEW s \in Sessions,
               (\E r \in Calls : Begin(s, r)) \/ Step(s) \/ Abort(s)
        PROVE  Inv'
    BY <1>1, HolderStep, DecisionStep, DerivedStep DEF Inv
  <1>2. CASE UNCHANGED vars
    BY <1>2
    DEF vars, tables, locks, session, Inv, OneDecisionPerPair, TypeOK, DerivedRowsFollow,
        AppInv, HolderInv, JobHolder, AppHolder, JobOf, AppOf, LiveApps
  <1>3. QED
    BY <1>1, <1>2 DEF Next

LEMMA InvHolds == Spec => []Inv
  <1>1. Init => Inv
    BY JobDecisionsAssumption, InitInv
  <1>2. Inv /\ [Next]_vars => Inv'
    BY JobDecisionsAssumption, InvStep
  <1>3. QED
    BY <1>1, <1>2, PTL DEF Spec

(* Apply and Reject exclude each other, and a pair has at most one live     *)
(* Application, whatever requests overlap (lock_job, ensure_no_live_        *)
(* application, _lock_and_reload).                                         *)
THEOREM DecisionsExclude == Spec => []OneDecisionPerPair
  <1>1. Inv => OneDecisionPerPair
    BY DEF Inv
  <1>2. QED
    BY <1>1, InvHolds, PTL

(* No score is cached for a closed Job or an unwilling Consultant, and a    *)
(* terminal Application has no artifact (read_score, close_job,             *)
(* set_consultant_looking, transition).                                    *)
THEOREM DerivedRowsAreBacked == Spec => []DerivedRowsFollow
  <1>1. Inv => DerivedRowsFollow
    BY DEF Inv
  <1>2. QED
    BY <1>1, InvHolds, PTL

(* A closed Job takes no decision, whatever the request read before, and a  *)
(* status only advances (ensure_job_is_open after lock_job, transition).    *)
THEOREM ClosedJobsAreDecided == Spec => NoDecisionOnClosedJob
  <1> DEFINE Step1 ==
        /\ \A p \in rejected' \ rejected : jobOpen[p[1]]
        /\ \A a \in Apps :
             \/ appStatus'[a] = appStatus[a]
             \/ appStatus[a] = "absent" /\ jobOpen[appPair'[a][1]]
             \/ appStatus[a] # "absent" /\ Rank(appStatus'[a]) > Rank(appStatus[a])
  <1>1. ASSUME Inv, NEW s \in Sessions,
               (\E r \in Calls : Begin(s, r)) \/ Step(s) \/ Abort(s)
        PROVE  Step1
    <2> USE DEF tables, locks, session
    <2>0. TypeOK /\ JobHolder(s) /\ PairOf(s)[1] = JobOf(s)
      BY <1>1, PairFields DEF Inv, OneDecisionPerPair, HolderInv
    <2>1. pc[s] = "pair" => jobOpen[JobOf(s)]
      BY <2>0 DEF JobHolder
    <2>2. \A p \in rejected' \ rejected : p = PairOf(s) /\ pc[s] = "pair"
      <3>1. RejectInsert(s) \/ rejected' \subseteq rejected
        BY <1>1
        DEF Step, Abort, Refuse, Begin, LockUser, LockJob, MaterializePair, LockPair,
            LockApplication, RefuseClosed, ApplyRefused, ApplyBeyondBound, ApplyInsert,
            RejectRefused, WithdrawReview, CloseJob, ReadScore, SetLooking,
            TransitionRefused, Transition, AttachRefused, Attach
      <3>2. QED
        BY <3>1 DEF RejectInsert, At
    <2>3. ApplyInsert(s) => pc[s] = "pair"
      BY DEF ApplyInsert, At
    <2>4. QED
      BY <1>1, <2>0, <2>1, <2>2, <2>3, RowsChange, JobDecisionsAssumption DEF Live
  <1>2. Inv /\ [Next]_vars => [Step1]_vars
    BY <1>1 DEF Next
  <1>3. QED
    BY <1>2, InvHolds, PTL DEF Spec, NoDecisionOnClosedJob
=============================================================================
