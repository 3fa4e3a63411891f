-------------------------- MODULE WorkflowQueue --------------------------
(***************************************************************************)
(* The durable work queue of backend/workflows: the `workflow_runs` table  *)
(* (service.py), the advisory-lock leadership (leader.py), the supervised  *)
(* loop and its one worker thread per process (runner.py) and the built-in *)
(* handlers (handlers/probe.py).  Processes crash, restart, are asked to   *)
(* stop while a handler runs, lose their lock session without noticing,    *)
(* and database statements fail before or after their commit.              *)
(***************************************************************************)
EXTENDS Naturals

CONSTANTS
  Procs,        \* application processes (ECS tasks) running a WorkflowRunner
  Keys,         \* idempotency keys; one row each
  Kind,         \* workflow type of the run enqueued under a key
  MaxCreated,   \* created_at ranges over 1..MaxCreated
  None,         \* no process / no run
  MaxCrashes,   \* bound on process crashes (SIGKILL)
  MaxLosses,    \* bound on lost lock sessions
  MaxFaults,    \* bound on failing statements whose exception is handled
  MaxEscapes,   \* bound on failing statements whose exception leaves run_once
  MaxStops      \* bound on graceful shutdowns

Kinds == {"probe", "probe_failure", "unregistered"}

ASSUME KindAssumption == Kind \in [Keys -> Kinds]
ASSUME NoneAssumption == None \notin Procs /\ None \notin Keys
ASSUME BoundAssumption ==
  /\ MaxCreated \in Nat \ {0}
  /\ MaxCrashes \in Nat
  /\ MaxLosses \in Nat
  /\ MaxFaults \in Nat
  /\ MaxEscapes \in Nat
  /\ MaxStops \in Nat

VARIABLES
  \* the table, one entry per idempotency key ("absent" = no row)
  status, stage, resultRef, errorCode, createdAt,
  effects,      \* how often the business effect of a key was committed
  \* Postgres: whose session holds the advisory lock
  lockHolder,
  \* per process: the supervisor task, the leader flags, the worker thread
  sup, isLeader, recovered, stopping, phase, job,
  \* how much of each budget is used
  crashes, losses, faults, escapes, stops

rows     == <<status, stage, resultRef, errorCode, createdAt, effects>>
procVars == <<sup, isLeader, recovered, stopping, phase, job>>
budgets  == <<crashes, losses, faults, escapes, stops>>
vars     == <<rows, lockHolder, procVars, budgets>>

Statuses   == {"absent", "queued", "running", "succeeded", "failed"}
Stages     == {"none", "started", "working", "done", "requeued_after_restart"}
Refs       == {"null", "stored"}
ErrorCodes == {"no_handler", "probe_failed", "unexpected_error"}

(* The supervisor: no process; at the top of the loop; leading but not yet *)
(* recovered; awaiting the worker thread; out of the loop; cancelled while *)
(* its thread still runs; released the lock and about to exit.             *)
SupStates == {"down", "check", "recover", "busy", "exited", "detached", "left"}

(* The worker thread: none; in claim_next; handler entered; after its      *)
(* record_stage; after its effect; or an exception about to be recorded.   *)
Phases == {"none", "claiming", "handling", "working", "effected"} \cup ErrorCodes

TypeOK ==
  /\ status \in [Keys -> Statuses]
  /\ stage \in [Keys -> Stages]
  /\ resultRef \in [Keys -> Refs]
  /\ errorCode \in [Keys -> ErrorCodes \cup {"none"}]
  /\ createdAt \in [Keys -> 0..MaxCreated]
  /\ effects \in [Keys -> Nat]
  /\ lockHolder \in Procs \cup {None}
  /\ sup \in [Procs -> SupStates]
  /\ isLeader \in [Procs -> BOOLEAN]
  /\ recovered \in [Procs -> BOOLEAN]
  /\ stopping \in [Procs -> BOOLEAN]
  /\ phase \in [Procs -> Phases]
  /\ job \in [Procs -> Keys \cup {None}]
  /\ crashes \in 0..MaxCrashes
  /\ losses \in 0..MaxLosses
  /\ faults \in 0..MaxFaults
  /\ escapes \in 0..MaxEscapes
  /\ stops \in 0..MaxStops

Init ==
  /\ status = [k \in Keys |-> "absent"]
  /\ stage = [k \in Keys |-> "none"]
  /\ resultRef = [k \in Keys |-> "null"]
  /\ errorCode = [k \in Keys |-> "none"]
  /\ createdAt = [k \in Keys |-> 0]
  /\ effects = [k \in Keys |-> 0]
  /\ lockHolder = None
  /\ sup = [p \in Procs |-> "down"]
  /\ isLeader = [p \in Procs |-> FALSE]
  /\ recovered = [p \in Procs |-> FALSE]
  /\ stopping = [p \in Procs |-> FALSE]
  /\ phase = [p \in Procs |-> "none"]
  /\ job = [p \in Procs |-> None]
  /\ crashes = 0
  /\ losses = 0
  /\ faults = 0
  /\ escapes = 0
  /\ stops = 0

--------------------------------------------------------------------------
(* The table: one operator per statement of service.py.                    *)

(* enqueue: a key that has a row (found by the lookup, or by the unique    *)
(* index when two requests race) is joined, which leaves the table as it   *)
(* is.  created_at is the start of the inserting transaction, so it need   *)
(* not follow the order of the commits.                                    *)
Enqueue(k) ==
  /\ status[k] = "absent"
  /\ \E t \in 1..MaxCreated : createdAt' = [createdAt EXCEPT ![k] = t]
  /\ status' = [status EXCEPT ![k] = "queued"]
  /\ UNCHANGED <<stage, resultRef, errorCode, effects, lockHolder, procVars, budgets>>

Queued == {k \in Keys : status[k] = "queued"}

Oldest(k) == k \in Queued /\ \A j \in Queued : createdAt[k] <= createdAt[j]

(* Mutant of ClaimRow: status and stage written the wrong way round.       *)
ClaimRowSwapped(k) ==
  /\ status' = [status EXCEPT ![k] = "started"]
  /\ stage' = [stage EXCEPT ![k] = "running"]
  /\ UNCHANGED <<resultRef, errorCode, createdAt, effects>>

ClaimRow(k) ==
  /\ status' = [status EXCEPT ![k] = "running"]
  /\ stage' = [stage EXCEPT ![k] = "started"]
  /\ UNCHANGED <<resultRef, errorCode, createdAt, effects>>

(* Mutant of RecordStageRow: no WHERE status = 'running'.                  *)
RecordStageRowAlways(k, s) ==
  /\ stage' = [stage EXCEPT ![k] = s]
  /\ UNCHANGED <<status, resultRef, errorCode, createdAt, effects>>

RecordStageRow(k, s) ==
  /\ stage' = [stage EXCEPT ![k] = IF status[k] = "running" THEN s ELSE @]
  /\ UNCHANGED <<status, resultRef, errorCode, createdAt, effects>>

(* Mutant of CommitResultRefOnceRow: the effect before the conditional     *)
(* update that should claim it.                                            *)
CommitResultRefAgainRow(k) ==
  /\ resultRef' = [resultRef EXCEPT ![k] = "stored"]
  /\ effects' = [effects EXCEPT ![k] = @ + 1]
  /\ UNCHANGED <<status, stage, errorCode, createdAt>>

(* commit_result_ref_once: UPDATE ... WHERE result_ref IS NULL.            *)
CommitResultRefOnceRow(k) ==
  /\ resultRef' = [resultRef EXCEPT ![k] = "stored"]
  /\ effects' = [effects EXCEPT ![k] = IF resultRef[k] = "null" THEN @ + 1 ELSE @]
  /\ UNCHANGED <<status, stage, errorCode, createdAt>>

(* stage_succeeded; the handlers that reach it return their result_ref.    *)
MarkSucceededRow(k) ==
  /\ status' = [status EXCEPT ![k] = "succeeded"]
  /\ stage' = [stage EXCEPT ![k] = IF status[k] # "succeeded" THEN "done" ELSE @]
  /\ errorCode' = [errorCode EXCEPT ![k] = IF status[k] # "succeeded" THEN "none" ELSE @]
  /\ resultRef' = [resultRef EXCEPT ![k] = IF status[k] # "succeeded" THEN "stored" ELSE @]
  /\ UNCHANGED <<createdAt, effects>>

MarkFailedRow(k, code) ==
  /\ status' = [status EXCEPT ![k] = IF @ # "succeeded" THEN "failed" ELSE @]
  /\ errorCode' = [errorCode EXCEPT ![k] = IF status[k] # "succeeded" THEN code ELSE @]
  /\ UNCHANGED <<stage, resultRef, createdAt, effects>>

(* Mutant of RecoverInterruptedRows: requeues whatever has not succeeded.  *)
RecoverUnfinishedRows ==
  /\ status' = [k \in Keys |-> IF status[k] \in {"running", "failed"}
                               THEN "queued" ELSE status[k]]
  /\ stage' = [k \in Keys |-> IF status[k] \in {"running", "failed"}
                              THEN "requeued_after_restart" ELSE stage[k]]
  /\ UNCHANGED <<resultRef, errorCode, createdAt, effects>>

RecoverInterruptedRows ==
  /\ status' = [k \in Keys |-> IF status[k] = "running" THEN "queued" ELSE status[k]]
  /\ stage' = [k \in Keys |-> IF status[k] = "running"
                              THEN "requeued_after_restart" ELSE stage[k]]
  /\ UNCHANGED <<resultRef, errorCode, createdAt, effects>>

--------------------------------------------------------------------------
(* The supervisor task.                                                    *)

Fault == faults < MaxFaults /\ faults' = faults + 1 /\ UNCHANGED escapes

Escape == escapes < MaxEscapes /\ escapes' = escapes + 1 /\ UNCHANGED faults

NoFault == UNCHANGED <<faults, escapes>>

Start(p) ==
  /\ sup[p] = "down"
  /\ sup' = [sup EXCEPT ![p] = "check"]
  /\ UNCHANGED <<rows, lockHolder, isLeader, recovered, stopping, phase, job, budgets>>

(* The await of asyncio.to_thread(self._run_once_in_session) begins.       *)
BeginCycle(p) ==
  /\ sup' = [sup EXCEPT ![p] = "busy"]
  /\ phase' = [phase EXCEPT ![p] = "claiming"]

(* verify() finds the lock session alive.                                  *)
VerifyAlive(p) ==
  /\ sup[p] = "check" /\ ~stopping[p]
  /\ isLeader[p] /\ lockHolder = p
  /\ \/ recovered[p] /\ BeginCycle(p)
     \/ ~recovered[p] /\ sup' = [sup EXCEPT ![p] = "recover"] /\ UNCHANGED phase
  /\ UNCHANGED <<rows, lockHolder, isLeader, recovered, stopping, job, budgets>>

(* verify() finds the lock session dead: stand down.                       *)
StandDown(p) ==
  /\ sup[p] = "check" /\ ~stopping[p]
  /\ isLeader[p] /\ lockHolder # p
  /\ isLeader' = [isLeader EXCEPT ![p] = FALSE]
  /\ recovered' = [recovered EXCEPT ![p] = FALSE]
  /\ UNCHANGED <<rows, lockHolder, sup, stopping, phase, job, budgets>>

(* Mutant of Acquire: a new leader starts consuming without recovery.      *)
AcquireWithoutRecovery(p) ==
  /\ sup[p] = "check" /\ ~stopping[p]
  /\ ~isLeader[p] /\ lockHolder = None
  /\ lockHolder' = p
  /\ isLeader' = [isLeader EXCEPT ![p] = TRUE]
  /\ recovered' = [recovered EXCEPT ![p] = TRUE]
  /\ BeginCycle(p)
  /\ UNCHANGED <<rows, stopping, job, budgets>>

(* pg_try_advisory_lock succeeds; when it does not, or the database is     *)
(* unreachable, the loop idles and tries again.                            *)
Acquire(p) ==
  /\ sup[p] = "check" /\ ~stopping[p]
  /\ ~isLeader[p] /\ lockHolder = None
  /\ lockHolder' = p
  /\ isLeader' = [isLeader EXCEPT ![p] = TRUE]
  /\ recovered' = [recovered EXCEPT ![p] = FALSE]
  /\ sup' = [sup EXCEPT ![p] = "recover"]
  /\ UNCHANGED <<rows, stopping, phase, job, budgets>>

Recover(p) ==
  /\ sup[p] = "recover"
  /\ RecoverInterruptedRows
  /\ recovered' = [recovered EXCEPT ![p] = TRUE]
  /\ BeginCycle(p)
  /\ UNCHANGED <<lockHolder, isLeader, stopping, job, budgets>>

(* Mutant of RecoverFault: proceeds past a failed recovery.                *)
RecoverFaultIgnored(p) ==
  /\ sup[p] = "recover"
  /\ UNCHANGED rows
  /\ recovered' = [recovered EXCEPT ![p] = TRUE]
  /\ BeginCycle(p)
  /\ Fault
  /\ UNCHANGED <<lockHolder, isLeader, stopping, job, crashes, losses, stops>>

(* A failed recovery blocks consumption until a later cycle recovers; its  *)
(* UPDATE may have been committed before the error was seen.               *)
RecoverFault(p) ==
  /\ sup[p] = "recover"
  /\ RecoverInterruptedRows \/ UNCHANGED rows
  /\ sup' = [sup EXCEPT ![p] = "check"]
  /\ Fault
  /\ UNCHANGED <<lockHolder, isLeader, recovered, stopping, phase, job,
                 crashes, losses, stops>>

(* stop() sets the event; the loop is left only at its top.                *)
Stop(p) ==
  /\ sup[p] \in {"check", "recover", "busy"} /\ ~stopping[p]
  /\ stops < MaxStops /\ stops' = stops + 1
  /\ stopping' = [stopping EXCEPT ![p] = TRUE]
  /\ UNCHANGED <<rows, lockHolder, sup, isLeader, recovered, phase, job,
                 crashes, losses, faults, escapes>>

LeaveLoop(p) ==
  /\ sup[p] = "check" /\ stopping[p]
  /\ sup' = [sup EXCEPT ![p] = "exited"]
  /\ UNCHANGED <<rows, lockHolder, isLeader, recovered, stopping, phase, job, budgets>>

(* stop() within its grace period, or the done callback after it.          *)
Release(p) ==
  /\ sup[p] = "exited"
  /\ lockHolder' = IF lockHolder = p THEN None ELSE lockHolder
  /\ isLeader' = [isLeader EXCEPT ![p] = FALSE]
  /\ sup' = [sup EXCEPT ![p] = "left"]
  /\ UNCHANGED <<rows, recovered, stopping, phase, job, budgets>>

(* Mutant of Detach: leadership is given up when the grace period ends.    *)
DetachAndRelease(p) ==
  /\ sup[p] = "busy" /\ stopping[p]
  /\ sup' = [sup EXCEPT ![p] = "detached"]
  /\ lockHolder' = IF lockHolder = p THEN None ELSE lockHolder
  /\ isLeader' = [isLeader EXCEPT ![p] = FALSE]
  /\ UNCHANGED <<rows, recovered, stopping, phase, job, budgets>>

(* The grace period ran out and the teardown of the event loop cancels the *)
(* supervisor: its thread goes on, and leadership is retained.             *)
Detach(p) ==
  /\ sup[p] = "busy" /\ stopping[p]
  /\ sup' = [sup EXCEPT ![p] = "detached"]
  /\ UNCHANGED <<rows, lockHolder, isLeader, recovered, stopping, phase, job, budgets>>

(* Everything a process holds goes away with it.                           *)
Gone(p) ==
  /\ sup' = [sup EXCEPT ![p] = "down"]
  /\ isLeader' = [isLeader EXCEPT ![p] = FALSE]
  /\ recovered' = [recovered EXCEPT ![p] = FALSE]
  /\ stopping' = [stopping EXCEPT ![p] = FALSE]
  /\ phase' = [phase EXCEPT ![p] = "none"]
  /\ job' = [job EXCEPT ![p] = None]
  /\ lockHolder' = IF lockHolder = p THEN None ELSE lockHolder

(* The interpreter joins its worker thread before it exits.                *)
ProcessExit(p) ==
  /\ sup[p] = "left" \/ (sup[p] = "detached" /\ phase[p] = "none")
  /\ Gone(p)
  /\ UNCHANGED <<rows, budgets>>

Crash(p) ==
  /\ sup[p] # "down"
  /\ crashes < MaxCrashes /\ crashes' = crashes + 1
  /\ Gone(p)
  /\ UNCHANGED <<rows, losses, faults, escapes, stops>>

(* Postgres drops the lock session; the process does not notice.           *)
LoseSession(p) ==
  /\ lockHolder = p
  /\ losses < MaxLosses /\ losses' = losses + 1
  /\ lockHolder' = None
  /\ UNCHANGED <<rows, procVars, crashes, faults, escapes, stops>>

--------------------------------------------------------------------------
(* The worker thread: run_once.                                            *)

Goto(p, ph) == phase' = [phase EXCEPT ![p] = ph] /\ UNCHANGED <<sup, job>>

(* run_once returns or raises: the await in _supervise ends.               *)
EndCycle(p) ==
  /\ phase' = [phase EXCEPT ![p] = "none"]
  /\ job' = [job EXCEPT ![p] = None]
  /\ sup' = [sup EXCEPT ![p] = IF @ = "busy" THEN "check" ELSE @]

ThreadFrame == UNCHANGED <<lockHolder, isLeader, recovered, stopping, crashes, losses, stops>>

(* The first thing the thread does with the claimed run.                   *)
Dispatch(k) == CASE Kind[k] = "probe"         -> "handling"
                 [] Kind[k] = "probe_failure" -> "probe_failed"
                 [] Kind[k] = "unregistered"  -> "no_handler"

ClaimNext(p) ==
  /\ phase[p] = "claiming"
  /\ \E k \in Keys :
       /\ Oldest(k)
       /\ ClaimRow(k)
       /\ job' = [job EXCEPT ![p] = k]
       /\ phase' = [phase EXCEPT ![p] = Dispatch(k)]
  /\ NoFault /\ UNCHANGED sup /\ ThreadFrame

NothingToClaim(p) ==
  /\ phase[p] = "claiming"
  /\ Queued = {}
  /\ EndCycle(p)
  /\ NoFault /\ UNCHANGED rows /\ ThreadFrame

(* claim_next raises, before or after its commit took effect.              *)
ClaimFault(p) ==
  /\ phase[p] = "claiming"
  /\ \/ UNCHANGED rows
     \/ \E k \in Keys : Oldest(k) /\ ClaimRow(k)
  /\ EndCycle(p)
  /\ Escape /\ ThreadFrame

(* handle_probe: record_stage, then the atomic business commit.            *)
RecordStage(p) ==
  /\ phase[p] = "handling"
  /\ RecordStageRow(job[p], "working")
  /\ Goto(p, "working")
  /\ NoFault /\ ThreadFrame

CommitEffect(p) ==
  /\ phase[p] = "working"
  /\ CommitResultRefOnceRow(job[p])
  /\ Goto(p, "effected")
  /\ NoFault /\ ThreadFrame

(* A statement of the handler fails: run_once rolls back and records it.   *)
(* The failing statement may have been committed.                          *)
HandlerFault(p) ==
  /\ \/ phase[p] \in {"handling", "working"} /\ UNCHANGED rows
     \/ phase[p] = "handling" /\ RecordStageRow(job[p], "working")
     \/ phase[p] = "working" /\ CommitResultRefOnceRow(job[p])
  /\ Goto(p, "unexpected_error")
  /\ Fault /\ ThreadFrame

MarkSucceeded(p) ==
  /\ phase[p] = "effected"
  /\ MarkSucceededRow(job[p])
  /\ EndCycle(p)
  /\ NoFault /\ ThreadFrame

MarkFailed(p) ==
  /\ phase[p] \in ErrorCodes
  /\ MarkFailedRow(job[p], phase[p])
  /\ EndCycle(p)
  /\ NoFault /\ ThreadFrame

(* The terminal write itself raises, before or after its commit: nothing   *)
(* in run_once catches that, and the supervisor goes on to its next cycle. *)
MarkFault(p) ==
  /\ \/ phase[p] \in ErrorCodes \cup {"effected"} /\ UNCHANGED rows
     \/ phase[p] = "effected" /\ MarkSucceededRow(job[p])
     \/ phase[p] \in ErrorCodes /\ MarkFailedRow(job[p], phase[p])
  /\ EndCycle(p)
  /\ Escape /\ ThreadFrame

--------------------------------------------------------------------------
SupStep(p) ==
  \/ Start(p) \/ VerifyAlive(p) \/ StandDown(p) \/ Acquire(p) \/ Recover(p)
  \/ LeaveLoop(p) \/ Release(p) \/ ProcessExit(p)

ThreadStep(p) ==
  \/ ClaimNext(p) \/ NothingToClaim(p) \/ RecordStage(p) \/ CommitEffect(p)
  \/ MarkSucceeded(p) \/ MarkFailed(p)

EnvStep(p) ==
  \/ Stop(p) \/ Detach(p) \/ Crash(p) \/ LoseSession(p)
  \/ RecoverFault(p) \/ ClaimFault(p) \/ HandlerFault(p) \/ MarkFault(p)

Next ==
  \/ \E k \in Keys : Enqueue(k)
  \/ \E p \in Procs : SupStep(p) \/ ThreadStep(p) \/ EnvStep(p)

Spec == Init /\ [][Next]_vars

(* The supervisor keeps cycling, its thread keeps running and ECS keeps    *)
(* restarting a stopped task; nothing obliges a fault, a crash, a stop or  *)
(* a caller to happen.                                                     *)
Fairness == \A p \in Procs : WF_vars(SupStep(p)) /\ WF_vars(ThreadStep(p))

FairSpec == Spec /\ Fairness
--------------------------------------------------------------------------
(* Properties.                                                             *)

Terminal == {"succeeded", "failed"}

Invoking(p) == job[p] # None

(* The business effect of a key is committed at most once, whatever        *)
(* re-queues and concurrent invocations happen, and a stored result_ref    *)
(* says that it was (commit_result_ref_once, G3).                          *)
ExactlyOnceEffect ==
  \A k \in Keys : effects[k] = IF resultRef[k] = "stored" THEN 1 ELSE 0

(* A row that says succeeded is backed by a durable effect and carries     *)
(* nothing of an earlier failed or stale invocation: no error, and no      *)
(* stage a late record_stage left behind (stage_succeeded, G4).            *)
SucceededIsComplete ==
  \A k \in Keys : status[k] = "succeeded" =>
    effects[k] = 1 /\ stage[k] = "done" /\ errorCode[k] = "none"

(* A process whose handler thread is alive keeps the leadership until the  *)
(* thread ends - also when it is told to stop and the grace period runs    *)
(* out - so no two processes invoke handlers, unless Postgres dropped a    *)
(* lock session (WorkflowRunner.stop, G7).                                 *)
NoConcurrentInvocation ==
  losses = 0 => \A p, q \in Procs : Invoking(p) /\ Invoking(q) => p = q

(* Once a leader has recovered, a running row has a live invocation behind *)
(* it: an interrupted run is never left running under a leader that will   *)
(* not look at it again.  Not so after a lost lock session or an error     *)
(* that escaped run_once.                                                  *)
NoStrandedRun ==
  losses = 0 /\ escapes = 0 =>
    \A p \in Procs : isLeader[p] /\ recovered[p] =>
      \A k \in Keys : status[k] = "running" => \E q \in Procs : job[q] = k

(* A terminal row is never claimed, requeued or rewritten: succeeded is    *)
(* the last word, and the only thing that can happen to failed is that an  *)
(* invocation that finished late upgrades it (mark_succeeded, G4).         *)
TerminalIsFinal ==
  [][\A k \in Keys :
       /\ status[k] = "succeeded" => status'[k] = "succeeded"
       /\ status[k] = "failed" => status'[k] \in Terminal]_vars

(* Accepted work is eventually decided: every queued run ends succeeded or *)
(* failed, through crashes, restarts, shutdowns in mid-handler and handled *)
(* errors.                                                                 *)
EventuallyTerminal ==
  \A k \in Keys : status[k] = "queued" ~> status[k] \in Terminal

(* The queue keeps the promises of JobLedger.                              *)
Ledger == INSTANCE JobLedger WITH
  outcome   <- [k \in Keys |-> IF status[k] \in {"queued", "running"}
                               THEN "accepted" ELSE status[k]],
  performed <- {k \in Keys : resultRef[k] = "stored"}

ImplementsLedger == Ledger!LedgerSpec

==========================================================================
