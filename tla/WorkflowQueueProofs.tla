----------------------- MODULE WorkflowQueueProofs -----------------------
(***************************************************************************)
(* Theorems about WorkflowQueue for any number of processes and keys and   *)
(* any bounds.  The inductive invariant is built in layers, each proved    *)
(* inductive relative to the ones before it: types, the shape of a         *)
(* process, what rows say, who may lead, and what a running row needs.     *)
(***************************************************************************)
EXTENDS WorkflowQueue, TLAPS

(* A thread has a claimed run exactly while it is past claim_next, and it  *)
(* lives inside an awaited or a cancelled cycle.                           *)
ThreadInv ==
  \A p \in Procs :
    /\ job[p] = None <=> phase[p] \in {"none", "claiming"}
    /\ phase[p] # "none" => sup[p] \in {"busy", "detached"}

(* Effects are committed on accepted rows only, and mark_succeeded is only *)
(* reached behind a stored result_ref.                                     *)
RowInv ==
  /\ ExactlyOnceEffect
  /\ SucceededIsComplete
  /\ \A k \in Keys : status[k] = "absent" => resultRef[k] = "null"
  /\ \A p \in Procs : job[p] # None => status[job[p]] # "absent"
  /\ \A p \in Procs : phase[p] = "effected" => resultRef[job[p]] = "stored"

(* A process works only as leader, and the flag is_leader tells the truth  *)
(* about the advisory lock as long as no session was lost.                 *)
LeaderInv ==
  /\ \A p \in Procs : sup[p] \in {"recover", "busy", "detached"} => isLeader[p]
  /\ losses = 0 => \A p \in Procs : isLeader[p] => lockHolder = p

THEOREM StepTypeOK == TypeOK /\ [Next]_vars => TypeOK'
<1> SUFFICES ASSUME TypeOK, [Next]_vars PROVE TypeOK'
  OBVIOUS
<1> USE KindAssumption, NoneAssumption, BoundAssumption
<1>1. ASSUME NEW k \in Keys, Enqueue(k) PROVE TypeOK'
  BY <1>1 DEF TypeOK, Enqueue, procVars, budgets, Statuses
<1>2. ASSUME NEW p \in Procs, SupStep(p) PROVE TypeOK'
  <2>1. CASE Start(p)
    BY <2>1 DEF TypeOK, Start, rows, budgets, SupStates
  <2>2. CASE VerifyAlive(p)
    BY <2>2 DEF TypeOK, VerifyAlive, BeginCycle, rows, budgets, SupStates, Phases
  <2>3. CASE StandDown(p)
    BY <2>3 DEF TypeOK, StandDown, rows, budgets
  <2>4. CASE Acquire(p)
    BY <2>4 DEF TypeOK, Acquire, rows, budgets, SupStates
  <2>5. CASE Recover(p)
    BY <2>5 DEF TypeOK, Recover, RecoverInterruptedRows, BeginCycle, budgets,
                SupStates, Phases, Statuses, Stages
  <2>6. CASE LeaveLoop(p)
    BY <2>6 DEF TypeOK, LeaveLoop, rows, budgets, SupStates
  <2>7. CASE Release(p)
    BY <2>7 DEF TypeOK, Release, rows, budgets, SupStates
  <2>8. CASE ProcessExit(p)
    BY <2>8 DEF TypeOK, ProcessExit, Gone, rows, budgets, SupStates, Phases
  <2>9. QED
    BY <1>2, <2>1, <2>2, <2>3, <2>4, <2>5, <2>6, <2>7, <2>8 DEF SupStep
<1>3. ASSUME NEW p \in Procs, ThreadStep(p) PROVE TypeOK'
  <2> USE DEF ThreadFrame, NoFault
  <2>1. CASE ClaimNext(p)
    BY <2>1 DEF TypeOK, ClaimNext, ClaimRow, Dispatch, Phases, ErrorCodes,
                Statuses, Stages, Kinds
  <2>2. CASE NothingToClaim(p)
    BY <2>2 DEF TypeOK, NothingToClaim, EndCycle, rows, SupStates, Phases
  <2>3. CASE RecordStage(p)
    BY <2>3 DEF TypeOK, RecordStage, RecordStageRow, Goto, Phases, Stages
  <2>4. CASE CommitEffect(p)
    <3>1. CommitResultRefOnceRow(job[p]) => effects' \in [Keys -> Nat]
      <4>1. CASE job[p] \in Keys
        BY <4>1 DEF TypeOK, CommitResultRefOnceRow
      <4>2. CASE job[p] = None
        BY <4>2 DEF TypeOK, CommitResultRefOnceRow
      <4>3. QED
        BY <4>1, <4>2 DEF TypeOK
    <3>2. phase' \in [Procs -> Phases]
      BY <2>4 DEF TypeOK, CommitEffect, Goto, Phases
    <3>3. QED
      BY <2>4, <3>1, <3>2 DEF TypeOK, CommitEffect, CommitResultRefOnceRow, Goto, Refs
  <2>5. CASE MarkSucceeded(p)
    BY <2>5 DEF TypeOK, MarkSucceeded, MarkSucceededRow, EndCycle, SupStates,
                Phases, Statuses, Stages, Refs
  <2>6. CASE MarkFailed(p)
    BY <2>6 DEF TypeOK, MarkFailed, MarkFailedRow, EndCycle, SupStates, Phases,
                Statuses, ErrorCodes
  <2>7. QED
    BY <1>3, <2>1, <2>2, <2>3, <2>4, <2>5, <2>6 DEF ThreadStep
<1>4. ASSUME NEW p \in Procs, EnvStep(p) PROVE TypeOK'
  <2> USE DEF ThreadFrame, Fault, Escape
  <2>1. CASE Stop(p)
    BY <2>1 DEF TypeOK, Stop, rows
  <2>2. CASE Detach(p)
    BY <2>2 DEF TypeOK, Detach, rows, budgets, SupStates
  <2>3. CASE Crash(p)
    BY <2>3 DEF TypeOK, Crash, Gone, rows, SupStates, Phases
  <2>4. CASE LoseSession(p)
    BY <2>4 DEF TypeOK, LoseSession, rows, procVars
  <2>5. CASE RecoverFault(p)
    BY <2>5 DEF TypeOK, RecoverFault, RecoverInterruptedRows, rows, SupStates,
                Statuses, Stages
  <2>6. CASE ClaimFault(p)
    BY <2>6 DEF TypeOK, ClaimFault, ClaimRow, EndCycle, rows, SupStates, Phases,
                Statuses, Stages
  <2>7. CASE HandlerFault(p)
    BY <2>7 DEF TypeOK, HandlerFault, RecordStageRow, CommitResultRefOnceRow,
                Goto, rows, Phases, ErrorCodes, Stages, Refs
  <2>8. CASE MarkFault(p)
    BY <2>8 DEF TypeOK, MarkFault, MarkSucceededRow, MarkFailedRow, EndCycle,
                rows, SupStates, Phases, Statuses, Stages, ErrorCodes, Refs
  <2>9. QED
    BY <1>4, <2>1, <2>2, <2>3, <2>4, <2>5, <2>6, <2>7, <2>8 DEF EnvStep
<1>5. CASE UNCHANGED vars
  BY <1>5 DEF TypeOK, vars, rows, procVars, budgets
<1>6. QED
  BY <1>1, <1>2, <1>3, <1>4, <1>5 DEF Next
THEOREM StepThreadInv == TypeOK /\ ThreadInv /\ [Next]_vars => ThreadInv'
<1> SUFFICES ASSUME TypeOK, ThreadInv, [Next]_vars PROVE ThreadInv'
  OBVIOUS
<1> USE KindAssumption, NoneAssumption, BoundAssumption DEF TypeOK, ThreadInv
<1>1. ASSUME NEW k \in Keys, Enqueue(k) PROVE ThreadInv'
  BY <1>1 DEF Enqueue, procVars, budgets
<1>2. ASSUME NEW p \in Procs, SupStep(p) PROVE ThreadInv'
  <2>1. CASE Start(p)
    BY <2>1 DEF Start, rows, budgets
  <2>2. CASE VerifyAlive(p)
    BY <2>2 DEF VerifyAlive, BeginCycle, rows, budgets
  <2>3. CASE StandDown(p)
    BY <2>3 DEF StandDown, rows, budgets
  <2>4. CASE Acquire(p)
    BY <2>4 DEF Acquire, rows, budgets
  <2>5. CASE Recover(p)
    BY <2>5 DEF Recover, RecoverInterruptedRows, BeginCycle, budgets
  <2>6. CASE LeaveLoop(p)
    BY <2>6 DEF LeaveLoop, rows, budgets
  <2>7. CASE Release(p)
    BY <2>7 DEF Release, rows, budgets
  <2>8. CASE ProcessExit(p)
    BY <2>8 DEF ProcessExit, Gone, rows, budgets
  <2>9. QED
    BY <1>2, <2>1, <2>2, <2>3, <2>4, <2>5, <2>6, <2>7, <2>8 DEF SupStep
<1>3. ASSUME NEW p \in Procs, ThreadStep(p) PROVE ThreadInv'
  <2> USE DEF ThreadFrame, NoFault
  <2>1. CASE ClaimNext(p)
    BY <2>1 DEF ClaimNext, ClaimRow, Dispatch, Oldest, Queued, Kinds
  <2>2. CASE NothingToClaim(p)
    BY <2>2 DEF NothingToClaim, EndCycle, rows
  <2>3. CASE RecordStage(p)
    BY <2>3 DEF RecordStage, RecordStageRow, Goto
  <2>4. CASE CommitEffect(p)
    BY <2>4 DEF CommitEffect, CommitResultRefOnceRow, Goto, Refs
  <2>5. CASE MarkSucceeded(p)
    BY <2>5 DEF MarkSucceeded, MarkSucceededRow, EndCycle
  <2>6. CASE MarkFailed(p)
    BY <2>6 DEF MarkFailed, MarkFailedRow, EndCycle, ErrorCodes
  <2>7. QED
    BY <1>3, <2>1, <2>2, <2>3, <2>4, <2>5, <2>6 DEF ThreadStep
<1>4. ASSUME NEW p \in Procs, EnvStep(p) PROVE ThreadInv'
  <2> USE DEF ThreadFrame, Fault, Escape
  <2>1. CASE Stop(p)
    BY <2>1 DEF Stop, rows
  <2>2. CASE Detach(p)
    BY <2>2 DEF Detach, rows, budgets
  <2>3. CASE Crash(p)
    BY <2>3 DEF Crash, Gone, rows
  <2>4. CASE LoseSession(p)
    BY <2>4 DEF LoseSession, rows, procVars
  <2>5. CASE RecoverFault(p)
    BY <2>5 DEF RecoverFault, RecoverInterruptedRows, rows
  <2>6. CASE ClaimFault(p)
    BY <2>6 DEF ClaimFault, ClaimRow, EndCycle, Oldest, Queued, rows
  <2>7. CASE HandlerFault(p)
    BY <2>7 DEF HandlerFault, RecordStageRow, CommitResultRefOnceRow, Goto, rows, Refs
  <2>8. CASE MarkFault(p)
    BY <2>8 DEF MarkFault, MarkSucceededRow, MarkFailedRow, EndCycle, rows, ErrorCodes
  <2>9. QED
    BY <1>4, <2>1, <2>2, <2>3, <2>4, <2>5, <2>6, <2>7, <2>8 DEF EnvStep
<1>5. CASE UNCHANGED vars
  BY <1>5 DEF vars, rows, procVars, budgets
<1>6. QED
  BY <1>1, <1>2, <1>3, <1>4, <1>5 DEF Next

THEOREM StepRowInv == TypeOK /\ ThreadInv /\ RowInv /\ [Next]_vars => RowInv'
<1> SUFFICES ASSUME TypeOK, ThreadInv, RowInv, [Next]_vars PROVE RowInv'
  OBVIOUS
<1> USE KindAssumption, NoneAssumption, BoundAssumption DEF TypeOK, ThreadInv, RowInv, ExactlyOnceEffect, SucceededIsComplete
<1>1. ASSUME NEW k \in Keys, Enqueue(k) PROVE RowInv'
  BY <1>1 DEF Enqueue, procVars, budgets
<1>2. ASSUME NEW p \in Procs, SupStep(p) PROVE RowInv'
  <2>1. CASE Start(p)
    BY <2>1 DEF Start, rows, budgets
  <2>2. CASE VerifyAlive(p)
    BY <2>2 DEF VerifyAlive, BeginCycle, rows, budgets
  <2>3. CASE StandDown(p)
    BY <2>3 DEF StandDown, rows, budgets
  <2>4. CASE Acquire(p)
    BY <2>4 DEF Acquire, rows, budgets
  <2>5. CASE Recover(p)
    BY <2>5 DEF Recover, RecoverInterruptedRows, BeginCycle, budgets
  <2>6. CASE LeaveLoop(p)
    BY <2>6 DEF LeaveLoop, rows, budgets
  <2>7. CASE Release(p)
    BY <2>7 DEF Release, rows, budgets
  <2>8. CASE ProcessExit(p)
    BY <2>8 DEF ProcessExit, Gone, rows, budgets
  <2>9. QED
    BY <1>2, <2>1, <2>2, <2>3, <2>4, <2>5, <2>6, <2>7, <2>8 DEF SupStep
<1>3. ASSUME NEW p \in Procs, ThreadStep(p) PROVE RowInv'
  <2> USE DEF ThreadFrame, NoFault
  <2>1. CASE ClaimNext(p)
    BY <2>1 DEF ClaimNext, ClaimRow, Dispatch, Oldest, Queued, Kinds
  <2>2. CASE NothingToClaim(p)
    BY <2>2 DEF NothingToClaim, EndCycle, rows
  <2>3. CASE RecordStage(p)
    BY <2>3 DEF RecordStage, RecordStageRow, Goto
  <2>4. CASE CommitEffect(p)
    BY <2>4 DEF CommitEffect, CommitResultRefOnceRow, Goto, Refs
  <2>5. CASE MarkSucceeded(p)
    BY <2>5 DEF MarkSucceeded, MarkSucceededRow, EndCycle
  <2>6. CASE MarkFailed(p)
    BY <2>6 DEF MarkFailed, MarkFailedRow, EndCycle, ErrorCodes
  <2>7. QED
    BY <1>3, <2>1, <2>2, <2>3, <2>4, <2>5, <2>6 DEF ThreadStep
<1>4. ASSUME NEW p \in Procs, EnvStep(p) PROVE RowInv'
  <2> USE DEF ThreadFrame, Fault, Escape
  <2>1. CASE Stop(p)
    BY <2>1 DEF Stop, rows
  <2>2. CASE Detach(p)
    BY <2>2 DEF Detach, rows, budgets
  <2>3. CASE Crash(p)
    BY <2>3 DEF Crash, Gone, rows
  <2>4. CASE LoseSession(p)
    BY <2>4 DEF LoseSession, rows, procVars
  <2>5. CASE RecoverFault(p)
    BY <2>5 DEF RecoverFault, RecoverInterruptedRows, rows
  <2>6. CASE ClaimFault(p)
    BY <2>6 DEF ClaimFault, ClaimRow, EndCycle, Oldest, Queued, rows
  <2>7. CASE HandlerFault(p)
    BY <2>7 DEF HandlerFault, RecordStageRow, CommitResultRefOnceRow, Goto, rows, Refs
  <2>8. CASE MarkFault(p)
    BY <2>8 DEF MarkFault, MarkSucceededRow, MarkFailedRow, EndCycle, rows, ErrorCodes
  <2>9. QED
    BY <1>4, <2>1, <2>2, <2>3, <2>4, <2>5, <2>6, <2>7, <2>8 DEF EnvStep
<1>5. CASE UNCHANGED vars
  BY <1>5 DEF vars, rows, procVars, budgets
<1>6. QED
  BY <1>1, <1>2, <1>3, <1>4, <1>5 DEF Next

THEOREM StepLeaderInv == TypeOK /\ ThreadInv /\ LeaderInv /\ [Next]_vars => LeaderInv'
<1> SUFFICES ASSUME TypeOK, ThreadInv, LeaderInv, [Next]_vars PROVE LeaderInv'
  OBVIOUS
<1> USE KindAssumption, NoneAssumption, BoundAssumption DEF TypeOK, ThreadInv, LeaderInv
<1>1. ASSUME NEW k \in Keys, Enqueue(k) PROVE LeaderInv'
  BY <1>1 DEF Enqueue, procVars, budgets
<1>2. ASSUME NEW p \in Procs, SupStep(p) PROVE LeaderInv'
  <2>1. CASE Start(p)
    BY <2>1 DEF Start, rows, budgets
  <2>2. CASE VerifyAlive(p)
    BY <2>2 DEF VerifyAlive, BeginCycle, rows, budgets
  <2>3. CASE StandDown(p)
    BY <2>3 DEF StandDown, rows, budgets
  <2>4. CASE Acquire(p)
    BY <2>4 DEF Acquire, rows, budgets
  <2>5. CASE Recover(p)
    BY <2>5 DEF Recover, RecoverInterruptedRows, BeginCycle, budgets
  <2>6. CASE LeaveLoop(p)
    BY <2>6 DEF LeaveLoop, rows, budgets
  <2>7. CASE Release(p)
    BY <2>7 DEF Release, rows, budgets
  <2>8. CASE ProcessExit(p)
    BY <2>8 DEF ProcessExit, Gone, rows, budgets
  <2>9. QED
    BY <1>2, <2>1, <2>2, <2>3, <2>4, <2>5, <2>6, <2>7, <2>8 DEF SupStep
<1>3. ASSUME NEW p \in Procs, ThreadStep(p) PROVE LeaderInv'
  <2> USE DEF ThreadFrame, NoFault
  <2>1. CASE ClaimNext(p)
    BY <2>1 DEF ClaimNext, ClaimRow, Dispatch, Oldest, Queued, Kinds
  <2>2. CASE NothingToClaim(p)
    BY <2>2 DEF NothingToClaim, EndCycle, rows
  <2>3. CASE RecordStage(p)
    BY <2>3 DEF RecordStage, RecordStageRow, Goto
  <2>4. CASE CommitEffect(p)
    BY <2>4 DEF CommitEffect, CommitResultRefOnceRow, Goto, Refs
  <2>5. CASE MarkSucceeded(p)
    BY <2>5 DEF MarkSucceeded, MarkSucceededRow, EndCycle
  <2>6. CASE MarkFailed(p)
    BY <2>6 DEF MarkFailed, MarkFailedRow, EndCycle, ErrorCodes
  <2>7. QED
    BY <1>3, <2>1, <2>2, <2>3, <2>4, <2>5, <2>6 DEF ThreadStep
<1>4. ASSUME NEW p \in Procs, EnvStep(p) PROVE LeaderInv'
  <2> USE DEF ThreadFrame, Fault, Escape
  <2>1. CASE Stop(p)
    BY <2>1 DEF Stop, rows
  <2>2. CASE Detach(p)
    BY <2>2 DEF Detach, rows, budgets
  <2>3. CASE Crash(p)
    BY <2>3 DEF Crash, Gone, rows
  <2>4. CASE LoseSession(p)
    BY <2>4 DEF LoseSession, rows, procVars
  <2>5. CASE RecoverFault(p)
    BY <2>5 DEF RecoverFault, RecoverInterruptedRows, rows
  <2>6. CASE ClaimFault(p)
    BY <2>6 DEF ClaimFault, ClaimRow, EndCycle, Oldest, Queued, rows
  <2>7. CASE HandlerFault(p)
    BY <2>7 DEF HandlerFault, RecordStageRow, CommitResultRefOnceRow, Goto, rows, Refs
  <2>8. CASE MarkFault(p)
    BY <2>8 DEF MarkFault, MarkSucceededRow, MarkFailedRow, EndCycle, rows, ErrorCodes
  <2>9. QED
    BY <1>4, <2>1, <2>2, <2>3, <2>4, <2>5, <2>6, <2>7, <2>8 DEF EnvStep
<1>5. CASE UNCHANGED vars
  BY <1>5 DEF vars, rows, procVars, budgets
<1>6. QED
  BY <1>1, <1>2, <1>3, <1>4, <1>5 DEF Next

THEOREM StepNoStrandedRun == TypeOK /\ ThreadInv /\ LeaderInv /\ NoStrandedRun /\ [Next]_vars => NoStrandedRun'
<1> SUFFICES ASSUME TypeOK, ThreadInv, LeaderInv, NoStrandedRun, [Next]_vars PROVE NoStrandedRun'
  OBVIOUS
<1> USE KindAssumption, NoneAssumption, BoundAssumption DEF TypeOK, ThreadInv, LeaderInv, NoStrandedRun
<1>1. ASSUME NEW k \in Keys, Enqueue(k) PROVE NoStrandedRun'
  BY <1>1 DEF Enqueue, procVars, budgets
<1>2. ASSUME NEW p \in Procs, SupStep(p) PROVE NoStrandedRun'
  <2>1. CASE Start(p)
    BY <2>1 DEF Start, rows, budgets
  <2>2. CASE VerifyAlive(p)
    BY <2>2 DEF VerifyAlive, BeginCycle, rows, budgets
  <2>3. CASE StandDown(p)
    BY <2>3 DEF StandDown, rows, budgets
  <2>4. CASE Acquire(p)
    BY <2>4 DEF Acquire, rows, budgets
  <2>5. CASE Recover(p)
    BY <2>5 DEF Recover, RecoverInterruptedRows, BeginCycle, budgets
  <2>6. CASE LeaveLoop(p)
    BY <2>6 DEF LeaveLoop, rows, budgets
  <2>7. CASE Release(p)
    BY <2>7 DEF Release, rows, budgets
  <2>8. CASE ProcessExit(p)
    BY <2>8 DEF ProcessExit, Gone, rows, budgets
  <2>9. QED
    BY <1>2, <2>1, <2>2, <2>3, <2>4, <2>5, <2>6, <2>7, <2>8 DEF SupStep
<1>3. ASSUME NEW p \in Procs, ThreadStep(p) PROVE NoStrandedRun'
  <2> USE DEF ThreadFrame, NoFault
  <2>1. CASE ClaimNext(p)
    BY <2>1 DEF ClaimNext, ClaimRow, Dispatch, Oldest, Queued, Kinds
  <2>2. CASE NothingToClaim(p)
    BY <2>2 DEF NothingToClaim, EndCycle, rows
  <2>3. CASE RecordStage(p)
    BY <2>3 DEF RecordStage, RecordStageRow, Goto
  <2>4. CASE CommitEffect(p)
    BY <2>4 DEF CommitEffect, CommitResultRefOnceRow, Goto, Refs
  <2>5. CASE MarkSucceeded(p)
    BY <2>5 DEF MarkSucceeded, MarkSucceededRow, EndCycle
  <2>6. CASE MarkFailed(p)
    BY <2>6 DEF MarkFailed, MarkFailedRow, EndCycle, ErrorCodes
  <2>7. QED
    BY <1>3, <2>1, <2>2, <2>3, <2>4, <2>5, <2>6 DEF ThreadStep
<1>4. ASSUME NEW p \in Procs, EnvStep(p) PROVE NoStrandedRun'
  <2> USE DEF ThreadFrame, Fault, Escape
  <2>1. CASE Stop(p)
    BY <2>1 DEF Stop, rows
  <2>2. CASE Detach(p)
    BY <2>2 DEF Detach, rows, budgets
  <2>3. CASE Crash(p)
    BY <2>3 DEF Crash, Gone, rows
  <2>4. CASE LoseSession(p)
    BY <2>4 DEF LoseSession, rows, procVars
  <2>5. CASE RecoverFault(p)
    BY <2>5 DEF RecoverFault, RecoverInterruptedRows, rows
  <2>6. CASE ClaimFault(p)
    BY <2>6 DEF ClaimFault, ClaimRow, EndCycle, Oldest, Queued, rows
  <2>7. CASE HandlerFault(p)
    BY <2>7 DEF HandlerFault, RecordStageRow, CommitResultRefOnceRow, Goto, rows, Refs
  <2>8. CASE MarkFault(p)
    BY <2>8 DEF MarkFault, MarkSucceededRow, MarkFailedRow, EndCycle, rows, ErrorCodes
  <2>9. QED
    BY <1>4, <2>1, <2>2, <2>3, <2>4, <2>5, <2>6, <2>7, <2>8 DEF EnvStep
<1>5. CASE UNCHANGED vars
  BY <1>5 DEF vars, rows, procVars, budgets
<1>6. QED
  BY <1>1, <1>2, <1>3, <1>4, <1>5 DEF Next

--------------------------------------------------------------------------
(* The inductive invariant of the queue. *)
QueueInv == TypeOK /\ ThreadInv /\ RowInv /\ LeaderInv /\ NoStrandedRun

THEOREM QueueInvariant == Spec => []QueueInv
<1>1. Init => QueueInv
  BY KindAssumption, NoneAssumption, BoundAssumption
  DEF Init, QueueInv, TypeOK, ThreadInv, RowInv, LeaderInv, NoStrandedRun,
      ExactlyOnceEffect, SucceededIsComplete, Statuses, Stages, Refs, SupStates,
      Phases
<1>2. QueueInv /\ [Next]_vars => QueueInv'
  BY StepTypeOK, StepThreadInv, StepRowInv, StepLeaderInv, StepNoStrandedRun
  DEF QueueInv
<1>3. QED
  BY <1>1, <1>2, PTL DEF Spec

(* Types: every variable keeps its range in every reachable state.         *)
THEOREM TypeCorrect == Spec => []TypeOK
BY QueueInvariant, PTL DEF QueueInv

(* commit_result_ref_once gives at-least-once invocation an exactly-once   *)
(* effect, for any number of processes, losses of the lock and faults.     *)
THEOREM EffectsExactlyOnce == Spec => []ExactlyOnceEffect
<1>1. QueueInv => ExactlyOnceEffect
  BY DEF QueueInv, RowInv
<1>2. QED
  BY <1>1, QueueInvariant, PTL

(* A succeeded row has its effect, the final stage and no error.           *)
THEOREM SuccessIsComplete == Spec => []SucceededIsComplete
<1>1. QueueInv => SucceededIsComplete
  BY DEF QueueInv, RowInv
<1>2. QED
  BY <1>1, QueueInvariant, PTL

(* Shutdown, grace expiry and restart alone never let two processes invoke *)
(* handlers at once.                                                       *)
THEOREM OneInvoker == Spec => []NoConcurrentInvocation
<1>1. QueueInv => NoConcurrentInvocation
  BY NoneAssumption
  DEF QueueInv, TypeOK, ThreadInv, LeaderInv, NoConcurrentInvocation, Invoking
<1>2. QED
  BY <1>1, QueueInvariant, PTL

(* A recovered leader has no interrupted run behind it.                    *)
THEOREM NothingStranded == Spec => []NoStrandedRun
BY QueueInvariant, PTL DEF QueueInv

(* Terminal rows are final but for the upgrade of failed to succeeded.     *)
THEOREM TerminalRowsAreFinal == Spec => TerminalIsFinal
<1> DEFINE Final == \A k \in Keys :
             /\ status[k] = "succeeded" => status'[k] = "succeeded"
             /\ status[k] = "failed" => status'[k] \in Terminal
<1>1. ASSUME TypeOK, [Next]_vars PROVE Final
  <2> USE <1>1 DEF TypeOK, Terminal
  <2>1. ASSUME NEW k \in Keys, Enqueue(k) PROVE Final
    BY <2>1 DEF Enqueue
  <2>2. ASSUME NEW p \in Procs, SupStep(p) PROVE Final
    BY <2>2 DEF SupStep, Start, VerifyAlive, StandDown, Acquire, Recover,
                RecoverInterruptedRows, LeaveLoop, Release, ProcessExit, rows
  <2>3. ASSUME NEW p \in Procs, ThreadStep(p) PROVE Final
    <3>1. CASE ClaimNext(p)
      BY <3>1 DEF ClaimNext, ClaimRow, Oldest, Queued
    <3>2. CASE MarkSucceeded(p)
      BY <3>2 DEF MarkSucceeded, MarkSucceededRow
    <3>3. CASE MarkFailed(p)
      BY <3>3 DEF MarkFailed, MarkFailedRow
    <3>4. CASE NothingToClaim(p) \/ RecordStage(p) \/ CommitEffect(p)
      BY <3>4 DEF NothingToClaim, RecordStage, RecordStageRow, CommitEffect,
                  CommitResultRefOnceRow, rows
    <3>5. QED
      BY <2>3, <3>1, <3>2, <3>3, <3>4 DEF ThreadStep
  <2>4. ASSUME NEW p \in Procs, EnvStep(p) PROVE Final
    <3>1. CASE ClaimFault(p)
      BY <3>1 DEF ClaimFault, ClaimRow, Oldest, Queued, rows
    <3>2. CASE MarkFault(p)
      BY <3>2 DEF MarkFault, MarkSucceededRow, MarkFailedRow, rows
    <3>3. CASE RecoverFault(p)
      BY <3>3 DEF RecoverFault, RecoverInterruptedRows, rows
    <3>4. CASE HandlerFault(p)
      BY <3>4 DEF HandlerFault, RecordStageRow, CommitResultRefOnceRow, rows
    <3>5. CASE Stop(p) \/ Detach(p) \/ Crash(p) \/ LoseSession(p)
      BY <3>5 DEF Stop, Detach, Crash, LoseSession, rows
    <3>6. QED
      BY <2>4, <3>1, <3>2, <3>3, <3>4, <3>5 DEF EnvStep
  <2>5. CASE UNCHANGED vars
    BY <2>5 DEF vars, rows
  <2>6. QED
    BY <2>1, <2>2, <2>3, <2>4, <2>5 DEF Next
<1>2. QED
  BY <1>1, TypeCorrect, PTL DEF Spec, TerminalIsFinal

--------------------------------------------------------------------------
(* The queue implements the ledger: each step is a step of JobLedger or    *)
(* leaves outcome and performed as they are.                               *)
LEMMA LedgerUnmoved ==
  status' = status /\ resultRef' = resultRef => UNCHANGED Ledger!ledgerVars
BY DEF Ledger!ledgerVars

THEOREM QueueImplementsLedger == Spec => ImplementsLedger
<1>1. Init => Ledger!LedgerInit
  BY DEF Init, Ledger!LedgerInit
<1>2. ASSUME QueueInv, [Next]_vars PROVE [Ledger!LedgerNext]_(Ledger!ledgerVars)
  <2> DEFINE Step == [Ledger!LedgerNext]_(Ledger!ledgerVars)
             Out == [k \in Keys |-> IF status[k] \in {"queued", "running"}
                                    THEN "accepted" ELSE status[k]]
             Per == {k \in Keys : resultRef[k] = "stored"}
  <2> USE <1>2 DEF QueueInv, TypeOK
  <2>1. ASSUME NEW k \in Keys, Enqueue(k) PROVE Step
    <3>1. Ledger!Accept(k)
      BY <2>1 DEF Enqueue, Ledger!Accept
    <3>2. QED
      BY <3>1 DEF Ledger!LedgerNext
  <2>2. ASSUME NEW k \in Keys, Oldest(k), ClaimRow(k) PROVE Step
    BY <2>2 DEF Oldest, Queued, ClaimRow, Ledger!ledgerVars
  <2>3. ASSUME NEW k \in Keys, NEW s, RecordStageRow(k, s) PROVE Step
    BY <2>3, LedgerUnmoved DEF RecordStageRow
  <2>4. ASSUME NEW k \in Keys, status[k] # "absent", CommitResultRefOnceRow(k)
        PROVE Step
    <3>1. CASE resultRef[k] = "stored"
      BY <2>4, <3>1, LedgerUnmoved DEF CommitResultRefOnceRow
    <3>2. CASE resultRef[k] = "null"
      <4>1. status[k] # "succeeded"
        BY <3>2 DEF RowInv, ExactlyOnceEffect, SucceededIsComplete
      <4>2. Ledger!Perform(k)
        BY <2>4, <3>2, <4>1
        DEF CommitResultRefOnceRow, Ledger!Perform, Statuses, Refs
      <4>3. QED
        BY <4>2 DEF Ledger!LedgerNext
    <3>3. QED
      BY <3>1, <3>2 DEF Refs
  <2>5. ASSUME NEW k \in Keys, status[k] # "absent", resultRef[k] = "stored",
               MarkSucceededRow(k)
        PROVE Step
    <3>1. CASE status[k] = "succeeded"
      BY <2>5, <3>1, LedgerUnmoved DEF MarkSucceededRow
    <3>2. CASE status[k] # "succeeded"
      <4>1. Ledger!Succeed(k)
        BY <2>5, <3>2 DEF MarkSucceededRow, Ledger!Succeed, Statuses
      <4>2. QED
        BY <4>1 DEF Ledger!LedgerNext
    <3>3. QED
      BY <3>1, <3>2
  <2>6. ASSUME NEW k \in Keys, NEW c, status[k] # "absent", MarkFailedRow(k, c)
        PROVE Step
    <3>1. CASE status[k] \in {"succeeded", "failed"}
      BY <2>6, <3>1, LedgerUnmoved DEF MarkFailedRow
    <3>2. CASE status[k] \in {"queued", "running"}
      <4>1. Ledger!Fail(k)
        BY <2>6, <3>2 DEF MarkFailedRow, Ledger!Fail
      <4>2. QED
        BY <4>1 DEF Ledger!LedgerNext
    <3>3. QED
      BY <2>6, <3>1, <3>2 DEF Statuses
  <2>7. ASSUME RecoverInterruptedRows PROVE Step
    BY <2>7 DEF RecoverInterruptedRows, Ledger!ledgerVars
  <2>8. ASSUME UNCHANGED rows PROVE Step
    BY <2>8, LedgerUnmoved DEF rows
  <2>9. ASSUME NEW p \in Procs, phase[p] \notin {"none", "claiming"}
        PROVE job[p] \in Keys /\ status[job[p]] # "absent"
    BY <2>9 DEF ThreadInv, RowInv
  <2>10. ASSUME NEW p \in Procs, SupStep(p) PROVE Step
    BY <2>10, <2>7, <2>8 DEF SupStep, Start, VerifyAlive, StandDown, Acquire,
                             Recover, LeaveLoop, Release, ProcessExit
  <2>11. ASSUME NEW p \in Procs, ThreadStep(p) PROVE Step
    <3>1. CASE ClaimNext(p)
      BY <3>1, <2>2 DEF ClaimNext
    <3>2. CASE NothingToClaim(p)
      BY <3>2, <2>8 DEF NothingToClaim
    <3>3. CASE RecordStage(p)
      BY <3>3, <2>3, <2>9 DEF RecordStage
    <3>4. CASE CommitEffect(p)
      BY <3>4, <2>4, <2>9 DEF CommitEffect
    <3>5. CASE MarkSucceeded(p)
      BY <3>5, <2>5, <2>9 DEF MarkSucceeded, RowInv
    <3>6. CASE MarkFailed(p)
      BY <3>6, <2>6, <2>9 DEF MarkFailed, ErrorCodes
    <3>7. QED
      BY <2>11, <3>1, <3>2, <3>3, <3>4, <3>5, <3>6 DEF ThreadStep
  <2>12. ASSUME NEW p \in Procs, EnvStep(p) PROVE Step
    <3>1. CASE Stop(p) \/ Detach(p) \/ Crash(p) \/ LoseSession(p)
      BY <3>1, <2>8 DEF Stop, Detach, Crash, LoseSession
    <3>2. CASE RecoverFault(p)
      BY <3>2, <2>7, <2>8 DEF RecoverFault
    <3>3. CASE ClaimFault(p)
      BY <3>3, <2>2, <2>8 DEF ClaimFault
    <3>4. CASE HandlerFault(p)
      BY <3>4, <2>3, <2>4, <2>8, <2>9 DEF HandlerFault
    <3>5. CASE MarkFault(p)
      BY <3>5, <2>5, <2>6, <2>8, <2>9 DEF MarkFault, RowInv, ErrorCodes
    <3>6. QED
      BY <2>12, <3>1, <3>2, <3>3, <3>4, <3>5 DEF EnvStep
  <2>13. CASE UNCHANGED vars
    BY <2>13, <2>8 DEF vars
  <2>14. QED
    BY <2>1, <2>10, <2>11, <2>12, <2>13 DEF Next
<1>3. QED
  BY <1>1, <1>2, QueueInvariant, PTL DEF Spec, ImplementsLedger, Ledger!LedgerSpec

==========================================================================
