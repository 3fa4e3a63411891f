---------------------------- MODULE JobLedger ----------------------------
(***************************************************************************)
(* What `workflow_runs` promises to the domain services that enqueue work: *)
(* acceptance is a durable row per idempotency key, the business effect of *)
(* a key happens at most once, `succeeded` is only ever claimed for an     *)
(* effect that happened and is never taken back, and `failed` may still be *)
(* corrected into `succeeded` by an invocation that finished late          *)
(* (docs/architecture/areas/workflows.md, G2-G4).  Nothing is said about   *)
(* leaders, locks, threads or restarts: WorkflowQueue implements this.     *)
(***************************************************************************)
CONSTANT Keys               \* the idempotency keys

VARIABLES outcome,          \* what the row of a key says
          performed         \* the keys whose business effect is durable

ledgerVars == <<outcome, performed>>

Outcomes == {"absent", "accepted", "succeeded", "failed"}

LedgerTypeOK ==
  /\ outcome \in [Keys -> Outcomes]
  /\ performed \in SUBSET Keys

LedgerInit ==
  /\ outcome = [k \in Keys |-> "absent"]
  /\ performed = {}

Accept(k) ==
  /\ outcome[k] = "absent"
  /\ outcome' = [outcome EXCEPT ![k] = "accepted"]
  /\ UNCHANGED performed

Perform(k) ==
  /\ outcome[k] \in {"accepted", "failed"}
  /\ k \notin performed
  /\ performed' = performed \cup {k}
  /\ UNCHANGED outcome

Succeed(k) ==
  /\ outcome[k] \in {"accepted", "failed"}
  /\ k \in performed
  /\ outcome' = [outcome EXCEPT ![k] = "succeeded"]
  /\ UNCHANGED performed

Fail(k) ==
  /\ outcome[k] = "accepted"
  /\ outcome' = [outcome EXCEPT ![k] = "failed"]
  /\ UNCHANGED performed

LedgerNext ==
  \E k \in Keys : Accept(k) \/ Perform(k) \/ Succeed(k) \/ Fail(k)

LedgerSpec == LedgerInit /\ [][LedgerNext]_ledgerVars
==========================================================================
