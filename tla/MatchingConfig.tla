--------------------------- MODULE MatchingConfig ---------------------------
(* The matching configuration of one Consultant: the request and the        *)
(* handler of the matching_config workflow                                  *)
(* (backend/matching/config_generation.py), the two files it leaves         *)
(* (config_reader.py), and the erasure of the account                       *)
(* (backend/privacy/service.py) with the other writers of the profile       *)
(* directory (cv_state.exclusive_profile_write) it meets there.             *)
(*                                                                         *)
(* Runs are numbered in the order they are accepted.  created_at is the     *)
(* time the accepting transaction began, which is before it waited for the  *)
(* account's lock: stamps may be in another order than runs.  The claiming, *)
(* marking and recovery of runs are those of WorkflowQueue.                 *)
EXTENDS Naturals, FiniteSets

CONSTANTS
  Requests,    \* POST requests in progress at a time
  Workers,     \* handler invocations at a time
  MaxRuns,     \* bound on runs accepted
  MaxClock,    \* bound on requests that begin
  MaxCrashes,  \* bound on crashes and failing saves
  MaxOverlaps, \* bound on runs queued again under a live invocation
  MaxTroubles  \* bound on the two together

MatchingConfigAssumption ==
  MaxRuns \in Nat \ {0} /\ MaxClock \in Nat /\ MaxCrashes \in Nat /\ MaxOverlaps \in Nat
  /\ MaxTroubles \in Nat

VARIABLES
  status,    \* workflow_runs.status, "none" before the row
  stamp,     \* created_at
  clock,     \* transactions begun
  asked,     \* the stamp of a request that waits for the account, or 0
  on, at,    \* the run an invocation is for, and what it does next
  primary,   \* matching_config.yaml: the run that wrote it, or 0
  backup,    \* matching_config.backup.yaml
  dir,       \* whether the profile directory is there, with its other files
  account,   \* the users row: live or gone
  eraser,    \* what an erasure does next
  writer,    \* what another writer of the directory does next
  crashes, overlaps,
  saves,     \* history: how often a run saved its configuration
  wiped      \* history: what the last rmtree met (see RemoveDirectory)

files == <<primary, backup, dir>>
queue == <<status, stamp, clock, asked>>
bounds == <<crashes, overlaps>>
vars == <<queue, on, at, files, account, eraser, writer, bounds, saves, wiped>>

Runs == 1..MaxRuns

Init ==
  /\ status = [n \in Runs |-> "none"]
  /\ stamp = [n \in Runs |-> 0]
  /\ clock = 0
  /\ asked = [r \in Requests |-> 0]
  /\ on = [w \in Workers |-> 1]
  /\ at = [w \in Workers |-> "idle"]
  /\ primary = 0 /\ backup = 0
  /\ dir = TRUE
  /\ account = "live"
  /\ eraser = "idle"
  /\ writer = "idle"
  /\ crashes = 0 /\ overlaps = 0
  /\ saves = [n \in Runs |-> 0]
  /\ wiped = "no"

---------------------------------------------------------------------------
(* Locks and lookups.                                                      *)

Accepted == {n \in Runs : status[n] # "none"}

(* _latest, by created_at.                                                 *)
IsLatest(n) == \A m \in Accepted : stamp[m] <= stamp[n]

(* Mutant of UserLocked: the second look does not lock the account.        *)
OnlyErasureLocks == eraser # "idle"

(* The account's row is locked FOR UPDATE by an erasure until it commits,   *)
(* and by an invocation from its second look until it marks its run.       *)
UserLocked ==
  \/ eraser # "idle"
  \/ \E w \in Workers : at[w] \in {"lock", "backup", "replace", "mark"}

(* exclusive_profile_write on the profile; a base CV has a lock of its own. *)
ProfileLocked ==
  \/ writer = "profile"
  \/ \E w \in Workers : at[w] \in {"backup", "replace", "mark"}

(* load_config: the backup stands in for a missing file.                   *)
Loaded == IF primary # 0 THEN primary ELSE backup

Goto(w, next) == at' = [at EXCEPT ![w] = next]

---------------------------------------------------------------------------
(* POST /api/matching/{username}/config.                                   *)

BeginRequest(r) ==
  /\ asked[r] = 0
  /\ account = "live"
  /\ clock < MaxClock
  /\ clock' = clock + 1
  /\ asked' = [asked EXCEPT ![r] = clock + 1]
  /\ UNCHANGED <<status, stamp, on, at, files, account, eraser, writer, bounds, saves, wiped>>

(* Under the account's lock: a request that is known or a latest run that   *)
(* is not over is answered, and an account that is gone is an error; else   *)
(* the request is a run.                                                   *)
RequestConfig(r) ==
  /\ asked[r] # 0
  /\ ~UserLocked
  /\ \/ /\ \/ account = "gone"
           \/ \E n \in Accepted : IsLatest(n) /\ status[n] \in {"queued", "running"}
        /\ UNCHANGED <<status, stamp>>
     \/ /\ account = "live"
        /\ ~ \E n \in Accepted : IsLatest(n) /\ status[n] \in {"queued", "running"}
        /\ LET n == Cardinality(Accepted) + 1 IN
           /\ n \in Runs
           /\ status' = [status EXCEPT ![n] = "queued"]
           /\ stamp' = [stamp EXCEPT ![n] = asked[r]]
  /\ asked' = [asked EXCEPT ![r] = 0]
  /\ UNCHANGED <<clock, on, at, files, account, eraser, writer, bounds, saves, wiped>>

---------------------------------------------------------------------------
(* The workflow run.                                                       *)

Claim(w, n) ==
  /\ at[w] = "idle"
  /\ status[n] = "queued"
  /\ status' = [status EXCEPT ![n] = "running"]
  /\ on' = [on EXCEPT ![w] = n]
  /\ Goto(w, "check")
  /\ UNCHANGED <<stamp, clock, asked, files, account, eraser, writer, bounds, saves, wiped>>

(* handle_config's first look: the account is gone, the run is superseded,  *)
(* its configuration is there already, or it is to be generated.  (The one  *)
(* that is there is marked in this transaction, the superseded one by the   *)
(* runner.)                                                                *)
FirstCheck(w) ==
  /\ at[w] = "check"
  /\ ~UserLocked
  /\ \/ account = "gone" /\ Goto(w, "fail")
     \/ account = "live" /\ ~IsLatest(on[w]) /\ Goto(w, "return")
     \/ account = "live" /\ IsLatest(on[w]) /\ Loaded = on[w] /\ Goto(w, "return")
     \/ account = "live" /\ IsLatest(on[w]) /\ Loaded # on[w] /\ Goto(w, "generate")
  /\ UNCHANGED <<queue, on, files, account, eraser, writer, bounds, saves, wiped>>

(* bootstrap_config without persisting: the model's answer is valid or not, *)
(* and so is the profile it reads.                                         *)
Generate(w) ==
  /\ at[w] = "generate"
  /\ Goto(w, "recheck") \/ Goto(w, "fail")
  /\ UNCHANGED <<queue, on, files, account, eraser, writer, bounds, saves, wiped>>

(* Mutant of SecondCheck: whether a newer run exists is not asked again.   *)
RecheckAccountOnly(w) ==
  /\ at[w] = "recheck"
  /\ ~UserLocked
  /\ \/ account = "gone" /\ Goto(w, "fail")
     \/ account = "live" /\ Goto(w, "lock")
  /\ UNCHANGED <<queue, on, files, account, eraser, writer, bounds, saves, wiped>>

(* The second look, from which the account stays locked.                   *)
SecondCheck(w) ==
  /\ at[w] = "recheck"
  /\ ~UserLocked
  /\ \/ account = "gone" /\ Goto(w, "fail")
     \/ account = "live" /\ ~IsLatest(on[w]) /\ Goto(w, "return")
     \/ account = "live" /\ IsLatest(on[w]) /\ Goto(w, "lock")
  /\ UNCHANGED <<queue, on, files, account, eraser, writer, bounds, saves, wiped>>

(* The profile lock, which makes the directory when there is none.  A       *)
(* configuration this run wrote before is not written again.               *)
LockProfile(w) ==
  /\ at[w] = "lock"
  /\ ~ProfileLocked
  /\ dir' = TRUE
  /\ \/ Loaded = on[w] /\ Goto(w, "mark")
     \/ Loaded # on[w] /\ primary # 0 /\ Goto(w, "backup")
     \/ Loaded # on[w] /\ primary = 0 /\ Goto(w, "replace")
  /\ UNCHANGED <<queue, on, primary, backup, account, eraser, writer, bounds, saves, wiped>>

(* save_config: the file that is there becomes the backup, and then the new *)
(* one takes its place; each of the two is atomic.                         *)
SaveBackup(w) ==
  /\ at[w] = "backup"
  /\ backup' = primary
  /\ Goto(w, "replace")
  /\ UNCHANGED <<queue, on, primary, dir, account, eraser, writer, bounds, saves, wiped>>

SaveConfig(w) ==
  /\ at[w] = "replace"
  /\ primary' = on[w]
  /\ saves' = [saves EXCEPT ![on[w]] = @ + 1]
  /\ Goto(w, "mark")
  /\ UNCHANGED <<queue, on, backup, dir, account, eraser, writer, bounds, wiped>>

(* An OSError or a failing statement between the account's lock and the     *)
(* mark: the locks are released and what is on disk stays.  Of a failing    *)
(* mark the handler does not know whether it took effect.                   *)
SaveFails(w) ==
  /\ at[w] \in {"lock", "backup", "replace", "mark"}
  /\ crashes < MaxCrashes /\ crashes + overlaps < MaxTroubles
  /\ crashes' = crashes + 1
  /\ dir' = (dir \/ at[w] = "lock")
  /\ \/ UNCHANGED status
     \/ at[w] = "mark" /\ status' = [status EXCEPT ![on[w]] = "succeeded"]
  /\ Goto(w, "fail")
  /\ UNCHANGED <<stamp, clock, asked, on, primary, backup, account, eraser, writer,
                 overlaps, saves, wiped>>

(* mark_succeeded, by the handler under its locks or by the runner; it also *)
(* overwrites a failure.                                                   *)
MarkSucceeded(w) ==
  /\ at[w] \in {"mark", "return"}
  /\ status' = [status EXCEPT ![on[w]] = "succeeded"]
  /\ Goto(w, "idle")
  /\ UNCHANGED <<stamp, clock, asked, on, files, account, eraser, writer, bounds, saves, wiped>>

(* mark_failed leaves a success alone.                                     *)
MarkFailed(w) ==
  /\ at[w] = "fail"
  /\ status' = [status EXCEPT ![on[w]] = IF @ = "succeeded" THEN @ ELSE "failed"]
  /\ Goto(w, "idle")
  /\ UNCHANGED <<stamp, clock, asked, on, files, account, eraser, writer, bounds, saves, wiped>>

(* A new leader queues running runs again: those whose invocation is gone,  *)
(* and those whose invocation outlived the leadership it was started under. *)
Recover(n) ==
  LET live == \E w \in Workers : at[w] # "idle" /\ on[w] = n IN
  /\ status[n] = "running"
  /\ live => overlaps < MaxOverlaps /\ crashes + overlaps < MaxTroubles
  /\ overlaps' = IF live THEN overlaps + 1 ELSE overlaps
  /\ status' = [status EXCEPT ![n] = "queued"]
  /\ UNCHANGED <<stamp, clock, asked, on, at, files, account, eraser, writer, crashes, saves, wiped>>

(* The process dies: its transactions are rolled back, its locks released,  *)
(* and the files stay as they are.                                         *)
Crash ==
  /\ crashes < MaxCrashes /\ crashes + overlaps < MaxTroubles
  /\ crashes' = crashes + 1
  /\ asked' = [r \in Requests |-> 0]
  /\ at' = [w \in Workers |-> "idle"]
  /\ eraser' = "idle"
  /\ writer' = "idle"
  /\ UNCHANGED <<status, stamp, clock, on, files, account, overlaps, saves, wiped>>

---------------------------------------------------------------------------
(* The erasure and the other writers.                                      *)

BeginErasure ==
  /\ account = "live"
  /\ ~UserLocked
  /\ eraser' = "remove"
  /\ UNCHANGED <<queue, on, at, files, account, writer, bounds, saves, wiped>>

(* rmtree, under the account's lock and no profile lock: "clean", or        *)
(* "raced" when another writer was past its access check; an error leaves   *)
(* some of the files behind ("left"), is reported, and does not stop the    *)
(* erasure.                                                                 *)
RemoveDirectory ==
  /\ eraser = "remove"
  /\ \/ /\ primary' = 0 /\ backup' = 0 /\ dir' = FALSE
        /\ wiped' = IF writer = "idle" THEN "clean" ELSE "raced"
     \/ /\ dir
        /\ primary' \in {0, primary} /\ backup' \in {0, backup}
        /\ wiped' = "left"
        /\ UNCHANGED dir
  /\ eraser' = "commit"
  /\ UNCHANGED <<queue, on, at, account, writer, bounds, saves>>

CommitErasure ==
  /\ eraser = "commit"
  /\ account' = "gone"
  /\ eraser' = "idle"
  /\ UNCHANGED <<queue, on, at, files, writer, bounds, saves, wiped>>

(* save_base, the profile editor and the import: access is checked, which   *)
(* an erasure that has not committed does not refuse; taking the lock makes *)
(* the directory.                                                          *)
BeginWrite ==
  /\ account = "live"
  /\ writer = "idle"
  /\ writer' = "mkdir"
  /\ wiped' = IF eraser = "commit" /\ wiped = "clean" THEN "raced" ELSE wiped
  /\ UNCHANGED <<queue, on, at, files, account, eraser, bounds, saves>>

MakeDirectory ==
  /\ writer = "mkdir"
  /\ writer' = "base" \/ (writer' = "profile" /\ ~ProfileLocked)
  /\ dir' = TRUE
  /\ UNCHANGED <<queue, on, at, primary, backup, account, eraser, bounds, saves, wiped>>

(* The write is refused or fails, as a base CV's does when the directory    *)
(* was removed since; _atomic_write_profile and the import make it again.   *)
Write ==
  /\ writer \in {"base", "profile"}
  /\ writer' = "idle"
  /\ UNCHANGED dir \/ (writer = "profile" /\ dir' = TRUE)
  /\ UNCHANGED <<queue, on, at, primary, backup, account, eraser, bounds, saves, wiped>>

Next ==
  \/ \E r \in Requests : BeginRequest(r) \/ RequestConfig(r)
  \/ \E w \in Workers :
       \/ \E n \in Runs : Claim(w, n)
       \/ FirstCheck(w) \/ Generate(w) \/ SecondCheck(w) \/ LockProfile(w)
       \/ SaveBackup(w) \/ SaveConfig(w) \/ SaveFails(w)
       \/ MarkSucceeded(w) \/ MarkFailed(w)
  \/ \E n \in Runs : Recover(n)
  \/ Crash
  \/ BeginErasure \/ RemoveDirectory \/ CommitErasure
  \/ BeginWrite \/ MakeDirectory \/ Write

Spec == Init /\ [][Next]_vars

---------------------------------------------------------------------------
(* Properties.                                                             *)

TypeOK ==
  /\ status \in [Runs -> {"none", "queued", "running", "succeeded", "failed"}]
  /\ stamp \in [Runs -> 0..MaxClock]
  /\ clock \in 0..MaxClock
  /\ asked \in [Requests -> 0..MaxClock]
  /\ on \in [Workers -> Runs]
  /\ at \in [Workers -> {"idle", "check", "generate", "recheck", "lock", "backup",
                         "replace", "mark", "return", "fail"}]
  /\ primary \in 0..MaxRuns /\ backup \in 0..MaxRuns
  /\ dir \in BOOLEAN
  /\ account \in {"live", "gone"}
  /\ eraser \in {"idle", "remove", "commit"}
  /\ writer \in {"idle", "mkdir", "base", "profile"}
  /\ crashes \in 0..MaxCrashes /\ overlaps \in 0..MaxOverlaps
  /\ saves \in [Runs -> Nat]
  /\ wiped \in {"no", "clean", "left", "raced"}

(* A run accepted after another one, with the older stamp: its transaction  *)
(* had begun first.                                                        *)
OutOfOrder(n) == \E m \in Accepted : m < n /\ stamp[m] > stamp[n]

(* The newest configuration stands, written once: a superseded, a repeated  *)
(* and an overlapping invocation write nothing (handle_config, "the         *)
(* explicit request is the newest"), also when one crashed between the file *)
(* and the mark; and a run that succeeded had written its configuration or  *)
(* a later request took its place - or an earlier one whose transaction     *)
(* began later, which _latest takes for the newer.                         *)
NewestConfigStands ==
  /\ wiped = "no" => \A n \in Runs : saves[n] <= 1
  /\ primary # 0 =>
       \A n \in Runs : saves[n] # 0 => stamp[n] <= stamp[primary]
  /\ primary # 0 /\ backup # 0 => stamp[backup] <= stamp[primary]
  /\ \A n \in Runs : status[n] = "succeeded" =>
       saves[n] # 0 \/ OutOfOrder(n) \/ \E m \in Accepted : m > n

(* A configuration, once saved, can be loaded until an erasure begins to    *)
(* remove it, whatever crashes or fails; and an erased account has no       *)
(* configuration, nor a directory, but for an error of rmtree, which is     *)
(* reported, or another writer that was past its access check while the     *)
(* erasure ran: it makes the directory again.  A configuration run, at      *)
(* whatever step the erasure meets it, does not (handle_config's second     *)
(* look keeps the account's row locked to its end).                         *)
FilesFollowTheAccount ==
  /\ TypeOK
  /\ wiped = "no" /\ (\E n \in Runs : saves[n] # 0) => Loaded # 0
  /\ account = "gone" => \/ wiped \in {"left", "raced"}
                         \/ Loaded = 0 /\ ~dir
=============================================================================
