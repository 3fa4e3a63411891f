--------------------------- MODULE JobDecisions ---------------------------
(***************************************************************************)
(* The decisions about a (Job, Consultant) pair: Apply, Reject and its     *)
(* withdrawal, the transitions of an Application, closing the Job, opting  *)
(* out of the search and the write-through score cache (jobs/service.py,   *)
(* applications/service.py, matching/cache.py, tenancy/routes.py).  Each   *)
(* request is one PostgreSQL transaction that takes row locks in the order *)
(* of its code, works on copies its ORM session loaded, and writes when it *)
(* commits; the foreign keys of an INSERT take a shared lock on the        *)
(* Consultant's row.                                                       *)
(***************************************************************************)
EXTENDS Naturals

CONSTANTS
  Sessions,      \* concurrent requests, one database session each
  Jobs,
  Consultants,
  Apps,          \* identities of Application rows; bounds how many there are
  None

Pairs == Jobs \X Consultants

ASSUME JobDecisionsAssumption ==
  /\ None \notin Sessions /\ None \notin Apps /\ None \notin Pairs
  /\ Jobs # {} /\ Consultants # {}

Live == {"applied", "submitted"}
TerminalStatuses == {"closed", "withdrawn"}
AppStatuses == Live \cup TerminalStatuses

(* What lives and dies with an Application. *)
Artifacts == {"tailored_cv", "publication"}

Ops == {"apply", "reject", "withdraw_review", "close_job", "read_score",
        "set_looking", "transition", "attach"}

(* Those that look at the status of the Job again.                         *)
JobOps == {"apply", "reject", "close_job", "read_score"}

VARIABLES
  \* committed rows
  jobOpen,       \* jobs.status = 'open'
  looking,       \* users.actively_looking
  pairRows,      \* job_decision_pairs
  rejected,      \* job_reviews
  matches,       \* job_consultant_matches
  appPair,       \* the pair of an Application, or None if there is no row
  appStatus,
  artifacts,     \* the TailoredCV and the active publication of an Application
  \* row locks, each held to the end of the transaction
  jobLock, userLock, userShare, pairLock, appLock,
  \* per session
  pc,
  req,           \* the request: operation and arguments
  seenOpen,      \* the session's copy of the Job
  seenStatus,    \* the session's copy of the Application
  newPair        \* has the session an uncommitted job_decision_pairs row?

tables  == <<jobOpen, looking, pairRows, rejected, matches, appPair, appStatus, artifacts>>
locks   == <<jobLock, userLock, userShare, pairLock, appLock>>
session == <<pc, req, seenOpen, seenStatus, newPair>>
vars    == <<tables, locks, session>>

PCs == {"idle", "start", "user", "job", "link", "pair", "app"}

Calls ==
  [op : Ops, pair : Pairs, app : Apps \cup {None},
   to : AppStatuses \cup Artifacts \cup {"on", "off", "-"}]

NoRequest == [op |-> "close_job", pair |-> CHOOSE p \in Pairs : TRUE, app |-> None, to |-> "-"]

TypeOK ==
  /\ jobOpen \in [Jobs -> BOOLEAN]
  /\ looking \in [Consultants -> BOOLEAN]
  /\ pairRows \subseteq Pairs
  /\ rejected \subseteq Pairs
  /\ matches \subseteq Pairs
  /\ appPair \in [Apps -> Pairs \cup {None}]
  /\ appStatus \in [Apps -> AppStatuses \cup {"absent"}]
  /\ artifacts \in [Apps -> SUBSET Artifacts]
  /\ jobLock \in [Jobs -> Sessions \cup {None}]
  /\ userLock \in [Consultants -> Sessions \cup {None}]
  /\ userShare \in [Consultants -> SUBSET Sessions]
  /\ pairLock \in [Pairs -> Sessions \cup {None}]
  /\ appLock \in [Apps -> Sessions \cup {None}]
  /\ pc \in [Sessions -> PCs]
  /\ req \in [Sessions -> Calls]
  /\ seenOpen \in [Sessions -> BOOLEAN]
  /\ seenStatus \in [Sessions -> AppStatuses \cup {"absent"}]
  /\ newPair \in [Sessions -> BOOLEAN]

Init ==
  /\ jobOpen = [j \in Jobs |-> TRUE]
  /\ looking = [c \in Consultants |-> TRUE]
  /\ pairRows = {}
  /\ rejected = {}
  /\ matches = {}
  /\ appPair = [a \in Apps |-> None]
  /\ appStatus = [a \in Apps |-> "absent"]
  /\ artifacts = [a \in Apps |-> {}]
  /\ jobLock = [j \in Jobs |-> None]
  /\ userLock = [c \in Consultants |-> None]
  /\ userShare = [c \in Consultants |-> {}]
  /\ pairLock = [p \in Pairs |-> None]
  /\ appLock = [a \in Apps |-> None]
  /\ pc = [s \in Sessions |-> "idle"]
  /\ req = [s \in Sessions |-> NoRequest]
  /\ seenOpen = [s \in Sessions |-> FALSE]
  /\ seenStatus = [s \in Sessions |-> "absent"]
  /\ newPair = [s \in Sessions |-> FALSE]

JobOf(s)  == req[s].pair[1]
ConsOf(s) == req[s].pair[2]
PairOf(s) == req[s].pair
AppOf(s)  == req[s].app

LiveApps(p) == {a \in Apps : appPair[a] = p /\ appStatus[a] \in Live}

Rank(st) == CASE st = "applied" -> 0
              [] st = "submitted" -> 1
              [] st \in TerminalStatuses -> 2

At(s, where, ops) == pc[s] = where /\ req[s].op \in ops

Goto(s, where) == pc' = [pc EXCEPT ![s] = where]

(* The transaction is over, committed or rolled back: its locks are free.  *)
EndTransaction(s) ==
  /\ Goto(s, "idle")
  /\ newPair' = [newPair EXCEPT ![s] = FALSE]
  /\ req' = [req EXCEPT ![s] = NoRequest]
  /\ seenOpen' = [seenOpen EXCEPT ![s] = FALSE]
  /\ seenStatus' = [seenStatus EXCEPT ![s] = "absent"]
  /\ jobLock' = [j \in Jobs |-> IF jobLock[j] = s THEN None ELSE jobLock[j]]
  /\ userLock' = [c \in Consultants |-> IF userLock[c] = s THEN None ELSE userLock[c]]
  /\ userShare' = [c \in Consultants |-> userShare[c] \ {s}]
  /\ pairLock' = [p \in Pairs |-> IF pairLock[p] = s THEN None ELSE pairLock[p]]
  /\ appLock' = [a \in Apps |-> IF appLock[a] = s THEN None ELSE appLock[a]]

CommitPairRow(s) ==
  pairRows' = IF newPair[s] THEN pairRows \cup {PairOf(s)} ELSE pairRows

Refuse(s) == EndTransaction(s) /\ UNCHANGED tables

--------------------------------------------------------------------------
(* The route loads the Job or the Application before the service locks it. *)
Begin(s, r) ==
  /\ pc[s] = "idle"
  /\ r.op \in {"transition", "attach"} <=> r.app # None
  /\ CASE r.op = "transition"  -> r.to \in AppStatuses
       [] r.op = "attach"      -> r.to \in Artifacts
       [] r.op = "set_looking" -> r.to \in {"on", "off"}
       [] OTHER                -> r.to = "-"
  /\ r.app # None => appPair[r.app] = r.pair
  /\ req' = [req EXCEPT ![s] = r]
  /\ seenOpen' = [seenOpen EXCEPT ![s] = r.op \in JobOps /\ jobOpen[r.pair[1]]]
  /\ seenStatus' = [seenStatus EXCEPT ![s] =
                      IF r.app = None THEN "absent" ELSE appStatus[r.app]]
  /\ Goto(s, "start")
  /\ UNCHANGED <<tables, locks, newPair>>

CanLockUser(s, c)  == userLock[c] \in {None, s} /\ userShare[c] \subseteq {s}
CanShareUser(s, c) == userLock[c] \in {None, s}

(* SELECT ... FOR UPDATE of the Consultant, first in read_score.           *)
LockUser(s) ==
  /\ At(s, "start", {"read_score", "set_looking"})
  /\ CanLockUser(s, ConsOf(s))
  /\ userLock' = [userLock EXCEPT ![ConsOf(s)] = s]
  /\ Goto(s, "user")
  /\ UNCHANGED <<tables, jobLock, userShare, pairLock, appLock,
                 req, seenOpen, seenStatus, newPair>>

(* Mutant of LockJob: FOR UPDATE without populate_existing.                *)
LockJobStale(s) ==
  /\ \/ At(s, "start", {"apply", "reject", "close_job"})
     \/ At(s, "user", {"read_score"})
  /\ jobLock[JobOf(s)] \in {None, s}
  /\ jobLock' = [jobLock EXCEPT ![JobOf(s)] = s]
  /\ Goto(s, "job")
  /\ UNCHANGED <<tables, userLock, userShare, pairLock, appLock,
                 req, seenOpen, seenStatus, newPair>>

(* lock_job: take the row lock and reload the session's copy.              *)
LockJob(s) ==
  /\ \/ At(s, "start", {"apply", "reject", "close_job"})
     \/ At(s, "user", {"read_score"})
  /\ jobLock[JobOf(s)] \in {None, s}
  /\ jobLock' = [jobLock EXCEPT ![JobOf(s)] = s]
  /\ seenOpen' = [seenOpen EXCEPT ![s] = jobOpen[JobOf(s)]]
  /\ Goto(s, "job")
  /\ UNCHANGED <<tables, userLock, userShare, pairLock, appLock,
                 req, seenStatus, newPair>>

(* ensure_job_is_open refuses; otherwise materialize_decision_pair inserts *)
(* the pair row if it is missing, whose foreign key share-locks the user.  *)
RefuseClosed(s) ==
  /\ At(s, "job", {"apply", "reject"})
  /\ ~seenOpen[s]
  /\ Refuse(s)

MaterializePair(s) ==
  /\ At(s, "job", {"apply", "reject"})
  /\ seenOpen[s]
  /\ \/ /\ PairOf(s) \in pairRows
        /\ UNCHANGED <<userShare, newPair>>
     \/ /\ PairOf(s) \notin pairRows
        /\ CanShareUser(s, ConsOf(s))
        /\ userShare' = [userShare EXCEPT ![ConsOf(s)] = @ \cup {s}]
        /\ newPair' = [newPair EXCEPT ![s] = TRUE]
  /\ Goto(s, "link")
  /\ UNCHANGED <<tables, jobLock, userLock, pairLock, appLock,
                 req, seenOpen, seenStatus>>

LockPair(s) ==
  /\ At(s, "link", {"apply", "reject"})
  /\ pairLock[PairOf(s)] \in {None, s}
  /\ pairLock' = [pairLock EXCEPT ![PairOf(s)] = s]
  /\ Goto(s, "pair")
  /\ UNCHANGED <<tables, jobLock, userLock, userShare, appLock,
                 req, seenOpen, seenStatus, newPair>>

--------------------------------------------------------------------------
(* apply, under the Job and the pair lock: a rejected pair is refused, the *)
(* partial unique index turns a repeat into the existing Application.      *)
ApplyRefused(s) ==
  /\ At(s, "pair", {"apply"})
  /\ PairOf(s) \in rejected \/ LiveApps(PairOf(s)) # {}
  /\ Refuse(s)

ApplyInsert(s) ==
  /\ At(s, "pair", {"apply"})
  /\ PairOf(s) \notin rejected
  /\ LiveApps(PairOf(s)) = {}
  /\ CanShareUser(s, ConsOf(s))
  /\ \E a \in Apps :
       /\ appPair[a] = None
       /\ appPair' = [appPair EXCEPT ![a] = PairOf(s)]
       /\ appStatus' = [appStatus EXCEPT ![a] = "applied"]
  /\ CommitPairRow(s)
  /\ EndTransaction(s)
  /\ UNCHANGED <<jobOpen, looking, rejected, matches, artifacts>>

(* The bound: no identity is left for another row.                         *)
ApplyBeyondBound(s) ==
  /\ At(s, "pair", {"apply"})
  /\ \A a \in Apps : appPair[a] # None
  /\ Refuse(s)

(* record_review: refused for a live pair, idempotent for a rejected one.  *)
RejectRefused(s) ==
  /\ At(s, "pair", {"reject"})
  /\ PairOf(s) \in rejected \/ LiveApps(PairOf(s)) # {}
  /\ Refuse(s)

(* Mutant of RejectInsert: no ensure_no_live_application.                  *)
RejectInsertAlways(s) ==
  /\ At(s, "pair", {"reject"})
  /\ CanShareUser(s, ConsOf(s))
  /\ rejected' = rejected \cup {PairOf(s)}
  /\ CommitPairRow(s)
  /\ EndTransaction(s)
  /\ UNCHANGED <<jobOpen, looking, matches, appPair, appStatus, artifacts>>

RejectInsert(s) ==
  /\ At(s, "pair", {"reject"})
  /\ PairOf(s) \notin rejected
  /\ LiveApps(PairOf(s)) = {}
  /\ CanShareUser(s, ConsOf(s))
  /\ rejected' = rejected \cup {PairOf(s)}
  /\ CommitPairRow(s)
  /\ EndTransaction(s)
  /\ UNCHANGED <<jobOpen, looking, matches, appPair, appStatus, artifacts>>

(* withdraw_review takes no lock. *)
WithdrawReview(s) ==
  /\ At(s, "start", {"withdraw_review"})
  /\ rejected' = rejected \ {PairOf(s)}
  /\ EndTransaction(s)
  /\ UNCHANGED <<jobOpen, looking, pairRows, matches, appPair, appStatus, artifacts>>

(* close_job: once closed, always closed; its cached scores go with it.    *)
CloseJob(s) ==
  /\ At(s, "job", {"close_job"})
  /\ IF seenOpen[s]
     THEN /\ jobOpen' = [jobOpen EXCEPT ![JobOf(s)] = FALSE]
          /\ matches' = {p \in matches : p[1] # JobOf(s)}
     ELSE UNCHANGED <<jobOpen, matches>>
  /\ EndTransaction(s)
  /\ UNCHANGED <<looking, pairRows, rejected, appPair, appStatus, artifacts>>

(* read_score: eligibility under both locks; a computed score is cached    *)
(* unless an input is missing.                                             *)
ReadScore(s) ==
  /\ At(s, "job", {"read_score"})
  /\ \/ /\ seenOpen[s] /\ looking[ConsOf(s)]
        /\ matches' = matches \cup {PairOf(s)}
     \/ UNCHANGED matches
  /\ EndTransaction(s)
  /\ UNCHANGED <<jobOpen, looking, pairRows, rejected, appPair, appStatus, artifacts>>

(* Opting out deletes the Consultant's scores in the same transaction.     *)
SetLooking(s) ==
  /\ At(s, "user", {"set_looking"})
  /\ looking' = [looking EXCEPT ![ConsOf(s)] = (req[s].to = "on")]
  /\ matches' = IF req[s].to = "on" THEN matches
                ELSE {p \in matches : p[2] # ConsOf(s)}
  /\ EndTransaction(s)
  /\ UNCHANGED <<jobOpen, pairRows, rejected, appPair, appStatus, artifacts>>

--------------------------------------------------------------------------
(* Mutant of LockApplication: FOR UPDATE without populate_existing.        *)
LockApplicationStale(s) ==
  /\ At(s, "start", {"transition", "attach"})
  /\ appLock[AppOf(s)] \in {None, s}
  /\ appLock' = [appLock EXCEPT ![AppOf(s)] = s]
  /\ Goto(s, "app")
  /\ UNCHANGED <<tables, jobLock, userLock, userShare, pairLock,
                 req, seenOpen, seenStatus, newPair>>

(* _lock_and_reload. *)
LockApplication(s) ==
  /\ At(s, "start", {"transition", "attach"})
  /\ appLock[AppOf(s)] \in {None, s}
  /\ appLock' = [appLock EXCEPT ![AppOf(s)] = s]
  /\ seenStatus' = [seenStatus EXCEPT ![s] = appStatus[AppOf(s)]]
  /\ Goto(s, "app")
  /\ UNCHANGED <<tables, jobLock, userLock, userShare, pairLock,
                 req, seenOpen, newPair>>

TransitionRefused(s) ==
  /\ At(s, "app", {"transition"})
  /\ Rank(req[s].to) <= Rank(seenStatus[s])
  /\ Refuse(s)

(* transition: strictly upwards; a terminal status revokes the publication *)
(* and deletes the TailoredCV in the same commit.                          *)
Transition(s) ==
  /\ At(s, "app", {"transition"})
  /\ Rank(req[s].to) > Rank(seenStatus[s])
  /\ appStatus' = [appStatus EXCEPT ![AppOf(s)] = req[s].to]
  /\ artifacts' = [artifacts EXCEPT ![AppOf(s)] =
                     IF req[s].to \in TerminalStatuses THEN {} ELSE @]
  /\ EndTransaction(s)
  /\ UNCHANGED <<jobOpen, looking, pairRows, rejected, matches, appPair>>

(* request_generation and publish_for_application, as far as they decide   *)
(* under the Application lock whether the Application may have them.       *)
AttachRefused(s) ==
  /\ At(s, "app", {"attach"})
  /\ seenStatus[s] \in TerminalStatuses
  /\ Refuse(s)

Attach(s) ==
  /\ At(s, "app", {"attach"})
  /\ seenStatus[s] \in Live
  /\ artifacts' = [artifacts EXCEPT ![AppOf(s)] = @ \cup {req[s].to}]
  /\ EndTransaction(s)
  /\ UNCHANGED <<jobOpen, looking, pairRows, rejected, matches, appPair, appStatus>>

--------------------------------------------------------------------------
(* The request fails, its process dies before its commit, or PostgreSQL    *)
(* makes it the victim of a cycle of lock waits (read_score locks the      *)
(* Consultant and then the Job, Apply and Reject the other way round).     *)
Abort(s) == pc[s] # "idle" /\ Refuse(s)

Step(s) ==
  \/ LockUser(s) \/ LockJob(s) \/ RefuseClosed(s) \/ MaterializePair(s)
  \/ LockPair(s) \/ ApplyRefused(s) \/ ApplyInsert(s) \/ ApplyBeyondBound(s)
  \/ RejectRefused(s) \/ RejectInsert(s) \/ WithdrawReview(s) \/ CloseJob(s)
  \/ ReadScore(s) \/ SetLooking(s) \/ LockApplication(s)
  \/ TransitionRefused(s) \/ Transition(s) \/ AttachRefused(s) \/ Attach(s)

Next ==
  \E s \in Sessions :
    \/ \E r \in Calls : Begin(s, r)
    \/ Step(s)
    \/ Abort(s)

Spec == Init /\ [][Next]_vars

--------------------------------------------------------------------------
(* Properties.                                                             *)

(* A pair has at most one decision that stands.  Apply and Reject exclude   *)
(* each other although they write different tables (lock_job, lock_pair,    *)
(* ensure_no_live_application), and at most one Application is live,        *)
(* through re-applying after a terminal status and through transitions      *)
(* decided on old copies.                                                  *)
OneDecisionPerPair ==
  /\ TypeOK
  /\ \A p \in rejected : LiveApps(p) = {}
  /\ \A a, b \in Apps :
       appStatus[a] \in Live /\ appStatus[b] \in Live /\ appPair[a] = appPair[b] => a = b

(* What is derived goes with what it was derived from: no cached score for  *)
(* a closed Job or for a Consultant who opted out, however read_score races *)
(* close_job and set_consultant_looking; neither a TailoredCV nor a         *)
(* publication of a terminal Application, also when a generation or a       *)
(* publication raced the transition.                                       *)
DerivedRowsFollow ==
  /\ \A p \in matches : jobOpen[p[1]] /\ looking[p[2]]
  /\ \A a \in Apps : appStatus[a] \in TerminalStatuses => artifacts[a] = {}

(* No new Application and no new Reject on a Job that is closed when they   *)
(* commit, whatever the request had read before; and an Application only    *)
(* moves to a strictly higher rank.                                        *)
NoDecisionOnClosedJob ==
  [][/\ \A p \in rejected' \ rejected : jobOpen[p[1]]
     /\ \A a \in Apps :
          \/ appStatus'[a] = appStatus[a]
          \/ appStatus[a] = "absent" /\ jobOpen[appPair'[a][1]]
          \/ appStatus[a] # "absent" /\ Rank(appStatus'[a]) > Rank(appStatus[a])]_vars
==========================================================================
