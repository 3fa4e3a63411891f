---------------------------- MODULE Publication ----------------------------
(***************************************************************************)
(* The published CV of one Application (cv_publish/): publish and          *)
(* republish under the Application lock, extend and revoke without it, the *)
(* end of the Application, the daily purge, the count and notification of  *)
(* opened links, and the erasure of the Consultant (privacy/).  A          *)
(* publication is a row and, on the volume, a copy of the Consultant's     *)
(* photo.  The two commit separately, so every step between them is a step *)
(* of its own, and a request may end after any.                            *)
(***************************************************************************)
EXTENDS Naturals, FiniteSets

CONSTANTS
  Sessions,     \* concurrent requests, the purge loop included
  Pubs,         \* ids of publications (uuid4)
  Exts,         \* extensions of photo files
  Agents,       \* talent agents an opened link can be notified to
  Looks,        \* what a photo shows
  None,
  MaxPublishes, \* bound on minted tokens
  MaxOpens,     \* bound on opened links
  MaxUpsets,    \* bound on replaced profile photos, on requests that end
                \* between two steps and on failing deletions, together
  MaxEvents     \* bound on opened links and upsets together

ASSUME NoneAssumption == None \notin Sessions \cup Pubs \cup Exts \cup Agents
ASSUME BoundAssumption == 
  {MaxPublishes, MaxOpens, MaxUpsets, MaxEvents} \subseteq Nat

Photos == [ext : Exts, look : Looks]
Copies == [pub : Pubs, ext : Exts, look : Looks]

ASSUME PhotoAssumption == None \notin Photos

(* What a purge or an erasure has read of a row: its id and photo_path; and *)
(* whose notification of which publication an erasure deletes.             *)
Names == [pub : Pubs, ext : Exts \cup {None}]
Notes == [pub : Pubs, user : Agents]

VARIABLES
  app,       \* the Application row: live, ended, or gone
  rows,      \* cv_publications
  notices,   \* today's cv_viewed notifications, by publication and user
  portrait,  \* the Consultant's profile photo
  disk,      \* the photo copies of publications
  stuck,     \* history: those of them that a deletion failed on
  appLock, rowLock,
  pc, target, origin, token, who, photo, count, doomed,
  \* history: ids taken, tokens minted, the token last answered, opens
  \* recorded and whom they were to be notified to, what happened that the
  \* code does not repair; the bounds
  used, minted, latest, opened, found, mishaps, opens, upsets

tables  == <<app, rows, notices>>
volume  == <<portrait, disk, stuck>>
locks   == <<appLock, rowLock>>
copies  == <<target, origin, token, who, photo, count, doomed>>
history == <<used, minted, latest, opened, found, mishaps>>
bounds  == <<opens, upsets>>
vars == <<tables, volume, locks, pc, copies, history, bounds>>

Rows == [token : 0..MaxPublishes, photo : Photos \cup {None},
         expired : BOOLEAN, revoked : BOOLEAN, views : 0..MaxOpens]

ASSUME RowAssumption == None \notin Rows

Publishing == {"snapshot", "copy", "store"}
Opening == {"open", "check", "notify"}
Purging == {"purgePhotos", "purgeRows"}
Erasing == {"erasePhotos", "eraseRows", "eraseApplication"}
PCs == {"idle", "extend", "revoke", "end"} \cup Publishing \cup Opening \cup Purging \cup Erasing

(* A request ended with its files changed and its rows not; an open ended  *)
(* between its count and its notification; a purge chose a row that a      *)
(* publish was about to store; an erasure overlapped a publish or an open; *)
(* two opens of a publication overlapped.                                  *)
Mishaps == {"abort", "silence", "overtaken", "erasure", "opens"}

TypeOK ==
  /\ app \in {"live", "ended", "gone"}
  /\ rows \in [Pubs -> Rows \cup {None}]
  /\ notices \in [Pubs -> [Agents -> Nat]]
  /\ portrait \in Photos \cup {None}
  /\ disk \subseteq Copies
  /\ stuck \subseteq Copies
  /\ appLock \in Sessions \cup {None}
  /\ rowLock \in [Pubs -> Sessions \cup {None}]
  /\ pc \in [Sessions -> PCs]
  /\ target \in [Sessions -> Pubs \cup {None}]
  /\ origin \in [Sessions -> {"new", "active"}]
  /\ token \in [Sessions -> 0..MaxPublishes]
  /\ who \in [Sessions -> Agents \cup {None}]
  /\ photo \in [Sessions -> Photos \cup {None}]
  /\ count \in [Sessions -> 0..MaxOpens]
  /\ doomed \in [Sessions -> SUBSET (Names \cup Notes)]
  /\ used \subseteq Pubs
  /\ minted \in 0..MaxPublishes
  /\ latest \in 0..MaxPublishes
  /\ opened \in [Pubs -> Nat]
  /\ found \in [Pubs -> SUBSET Agents]
  /\ mishaps \subseteq Mishaps
  /\ opens \in 0..MaxOpens
  /\ upsets \in 0..MaxUpsets

Init ==
  /\ app = "live"
  /\ rows = [p \in Pubs |-> None]
  /\ notices = [p \in Pubs |-> [a \in Agents |-> 0]]
  /\ portrait \in Photos \cup {None}
  /\ disk = {}
  /\ stuck = {}
  /\ appLock = None
  /\ rowLock = [p \in Pubs |-> None]
  /\ pc = [s \in Sessions |-> "idle"]
  /\ target = [s \in Sessions |-> None]
  /\ origin = [s \in Sessions |-> "new"]
  /\ token = [s \in Sessions |-> 0]
  /\ who = [s \in Sessions |-> None]
  /\ photo = [s \in Sessions |-> None]
  /\ count = [s \in Sessions |-> 0]
  /\ doomed = [s \in Sessions |-> {}]
  /\ used = {}
  /\ minted = 0
  /\ latest = 0
  /\ opened = [p \in Pubs |-> 0]
  /\ found = [p \in Pubs |-> {}]
  /\ mishaps = {}
  /\ opens = 0
  /\ upsets = 0

Stored(p) == rows[p] # None
Active(p) == Stored(p) /\ ~rows[p].revoked
Serveable(p) == Active(p) /\ ~rows[p].expired
Unlocked(p) == rowLock[p] = None
Running(steps) == {s \in Sessions : pc[s] \in steps}
PhotoOf(p) == {f \in disk : f.pub = p}
Path(p) == IF rows[p].photo = None THEN None ELSE rows[p].photo.ext
NameOf(p) == [pub |-> p, ext |-> Path(p)]
(* Files are deleted by name, whatever they show.                          *)
Named(f, names) == [pub |-> f.pub, ext |-> f.ext] \in names
Without(names) == {f \in disk : ~Named(f, names)}

Upset == upsets < MaxUpsets /\ opens + upsets < MaxEvents /\ upsets' = upsets + 1

(* _delete_photo, of all files with these names: an OSError is logged and  *)
(* swallowed, and the file stays.                                          *)
Delete(names) ==
  \E kept \in SUBSET {f \in disk : Named(f, names)} :
    /\ disk' = Without(names) \cup kept
    /\ stuck' = (stuck \cap disk') \cup kept
    /\ (kept = {} /\ UNCHANGED upsets) \/ (kept # {} /\ Upset)

(* Mutant of ApplicationFree: FOR UPDATE is missing, nobody waits.         *)
ApplicationFreeAlways == TRUE

ApplicationFree == appLock = None

Goto(s, where) == pc' = [pc EXCEPT ![s] = where]

(* The request is answered or dead: its transaction is over.               *)
EndRequest(s) ==
  /\ Goto(s, "idle")
  /\ target' = [target EXCEPT ![s] = None]
  /\ origin' = [origin EXCEPT ![s] = "new"]
  /\ token' = [token EXCEPT ![s] = 0]
  /\ who' = [who EXCEPT ![s] = None]
  /\ photo' = [photo EXCEPT ![s] = None]
  /\ count' = [count EXCEPT ![s] = 0]
  /\ doomed' = [doomed EXCEPT ![s] = {}]
  /\ appLock' = IF appLock = s THEN None ELSE appLock
  /\ rowLock' = [p \in Pubs |-> IF rowLock[p] = s THEN None ELSE rowLock[p]]

--------------------------------------------------------------------------
(* Publish and republish: publish_for_application.                         *)

(* The Application lock, a live Application, its active publication or a   *)
(* new id, and a fresh token.  Revocations do not take this lock, but one  *)
(* between the lock and the read is the same as one before the lock.       *)
BeginPublish(s) ==
  /\ pc[s] = "idle"
  /\ app = "live" /\ ApplicationFree
  /\ minted < MaxPublishes
  /\ \E p \in Pubs :
       /\ \/ /\ Active(p)
             /\ origin' = [origin EXCEPT ![s] = "active"]
             /\ UNCHANGED used
          \/ /\ p \notin used /\ \A q \in Pubs : ~Active(q)
             /\ used' = used \cup {p}
             /\ origin' = [origin EXCEPT ![s] = "new"]
       /\ target' = [target EXCEPT ![s] = p]
  /\ minted' = minted + 1
  /\ token' = [token EXCEPT ![s] = minted + 1]
  /\ appLock' = s
  /\ mishaps' = mishaps \cup {m \in {"erasure"} : Running(Erasing) # {}}
  /\ Goto(s, "snapshot")
  /\ UNCHANGED <<tables, volume, rowLock, who, photo, count, doomed, latest, opened, found, bounds>>

(* Mutant of Cleared: a copy with another extension stays.                 *)
ClearedNothing(s) == disk

Cleared(s) == disk \ PhotoOf(target[s])

(* The CV shows a photo and there is one: the copies of this publication   *)
(* are cleared first.                                                      *)
ClearPhotos(s) ==
  /\ pc[s] = "snapshot" /\ portrait # None
  /\ photo' = [photo EXCEPT ![s] = portrait]
  /\ disk' = Cleared(s)
  /\ stuck' = stuck \cap disk'
  /\ Goto(s, "copy")
  /\ UNCHANGED <<tables, portrait, locks, target, origin, token, who, count, doomed, history, bounds>>

SourceExists(s) == portrait # None /\ portrait.ext = photo[s].ext

(* copyfile takes what the profile photo shows by now.                     *)
CopyPhoto(s) ==
  /\ pc[s] = "copy"
  /\ SourceExists(s)
  /\ disk' = disk \cup {[pub |-> target[s], ext |-> portrait.ext, look |-> portrait.look]}
  /\ photo' = [photo EXCEPT ![s] = portrait]
  /\ Goto(s, "store")
  /\ UNCHANGED <<tables, portrait, stuck, locks, target, origin, token, who, count, doomed, history,
                 bounds>>

(* The profile photo was replaced meanwhile: copyfile raises.              *)
PhotoVanished(s) ==
  /\ pc[s] = "copy"
  /\ ~SourceExists(s)
  /\ mishaps' = mishaps \cup {"abort"}
  /\ EndRequest(s)
  /\ UNCHANGED <<tables, volume, used, minted, latest, opened, found, bounds>>

(* The CV shows no photo, or there is none: a republish deletes the copy   *)
(* its row names.                                                          *)
PublishWithoutPhoto(s) ==
  /\ pc[s] = "snapshot"
  /\ Delete({NameOf(p) : p \in {q \in {target[s]} : origin[s] = "active" /\ Stored(q)}})
  /\ Goto(s, "store")
  /\ UNCHANGED <<tables, portrait, locks, copies, history, opens>>

NewRow(s) ==
  [token |-> token[s], photo |-> photo[s], expired |-> FALSE, revoked |-> FALSE, views |-> 0]

(* Mutant of Republished: the row is written as it was read, unrevoked.    *)
RepublishedWhole(s) ==
  [rows[target[s]] EXCEPT !.token = token[s], !.photo = photo[s],
                          !.expired = FALSE, !.revoked = FALSE]

(* Mutant of Republished: a republish keeps its link.                      *)
RepublishedSameLink(s) ==
  [rows[target[s]] EXCEPT !.photo = photo[s], !.expired = FALSE]

(* Mutant of Republished: photo_path is only set when the row is new.      *)
RepublishedOldPhoto(s) ==
  [rows[target[s]] EXCEPT !.token = token[s], !.expired = FALSE]

(* The UPDATE writes what publishing changed, and leaves `revoked` and the *)
(* views alone.                                                            *)
Republished(s) ==
  [rows[target[s]] EXCEPT !.token = token[s], !.photo = photo[s], !.expired = FALSE]

(* The INSERT of a new row, against the unique index of active rows.       *)
StoreNew(s) ==
  /\ pc[s] = "store" /\ origin[s] = "new"
  /\ \A p \in Pubs : ~Active(p)
  /\ rows' = [rows EXCEPT ![target[s]] = NewRow(s)]
  /\ latest' = token[s]
  /\ EndRequest(s)
  /\ UNCHANGED <<app, notices, volume, used, minted, opened, found, mishaps, bounds>>

(* The row may have been revoked since it was read; the link answered is   *)
(* then dead.                                                              *)
StoreAgain(s) ==
  /\ pc[s] = "store" /\ origin[s] = "active"
  /\ Stored(target[s]) /\ Unlocked(target[s])
  /\ rows' = [rows EXCEPT ![target[s]] = Republished(s)]
  /\ latest' = token[s]
  /\ EndRequest(s)
  /\ UNCHANGED <<app, notices, volume, used, minted, opened, found, mishaps, bounds>>

--------------------------------------------------------------------------
(* Extend, revoke, and the end of the Application.                         *)

(* The route has read the row and refuses one that is not served.          *)
BeginExtend(s, p) ==
  /\ pc[s] = "idle" /\ Serveable(p)
  /\ target' = [target EXCEPT ![s] = p]
  /\ Goto(s, "extend")
  /\ UNCHANGED <<tables, volume, locks, origin, token, who, photo, count, doomed, history, bounds>>

Extend(s) ==
  /\ pc[s] = "extend"
  /\ Stored(target[s]) /\ Unlocked(target[s])
  /\ rows' = [rows EXCEPT ![target[s]].expired = FALSE]
  /\ EndRequest(s)
  /\ UNCHANGED <<app, notices, volume, history, bounds>>

BeginRevoke(s, p) ==
  /\ pc[s] = "idle" /\ Active(p)
  /\ target' = [target EXCEPT ![s] = p]
  /\ Goto(s, "revoke")
  /\ UNCHANGED <<tables, volume, locks, origin, token, who, photo, count, doomed, history, bounds>>

Revoke(s) ==
  /\ pc[s] = "revoke"
  /\ Stored(target[s]) /\ Unlocked(target[s])
  /\ rows' = [rows EXCEPT ![target[s]].revoked = TRUE]
  /\ EndRequest(s)
  /\ UNCHANGED <<app, notices, volume, history, bounds>>

(* transition to a terminal status: the Application lock, then             *)
(* disable_for_application looks the active publication up.                *)
BeginEnd(s) ==
  /\ pc[s] = "idle"
  /\ app = "live" /\ ApplicationFree
  /\ appLock' = s
  /\ \/ \E p \in Pubs : Active(p) /\ target' = [target EXCEPT ![s] = p]
     \/ (\A p \in Pubs : ~Active(p)) /\ UNCHANGED target
  /\ Goto(s, "end")
  /\ UNCHANGED <<tables, volume, rowLock, origin, token, who, photo, count, doomed, history, bounds>>

(* One commit publishes the status and the revocation.                     *)
EndApplication(s) ==
  /\ pc[s] = "end"
  /\ \/ /\ target[s] = None
        /\ UNCHANGED rows
     \/ /\ target[s] # None /\ Stored(target[s]) /\ Unlocked(target[s])
        /\ rows' = [rows EXCEPT ![target[s]].revoked = TRUE]
  /\ app' = "ended"
  /\ EndRequest(s)
  /\ UNCHANGED <<notices, volume, history, bounds>>

(* The row was deleted after it was read: the UPDATE finds nothing and the *)
(* transaction is rolled back.                                             *)
RowVanished(s) ==
  /\ pc[s] \in {"store", "extend", "revoke", "end", "open", "check"}
  /\ origin[s] = "active" \/ pc[s] # "store"
  /\ target[s] # None /\ ~Stored(target[s])
  /\ mishaps' = mishaps \cup {m \in {"abort"} : pc[s] = "store"}
  /\ EndRequest(s)
  /\ UNCHANGED <<tables, volume, used, minted, latest, opened, found, bounds>>

(* expires_at passes.                                                      *)
Expire(p) ==
  /\ Stored(p) /\ ~rows[p].expired
  /\ rows' = [rows EXCEPT ![p].expired = TRUE]
  /\ UNCHANGED <<app, notices, volume, locks, pc, copies, history, bounds>>

--------------------------------------------------------------------------
(* An opened link: record_view, and the notification once a day.           *)

BeginOpen(s, p) ==
  /\ pc[s] = "idle" /\ Serveable(p)
  /\ opens < MaxOpens /\ opens + upsets < MaxEvents
  /\ opens' = opens + 1
  /\ target' = [target EXCEPT ![s] = p]
  /\ count' = [count EXCEPT ![s] = rows[p].views]
  /\ mishaps' = mishaps \cup {m \in {"erasure"} : Running(Erasing) # {}}
                        \cup {m \in {"opens"} : \E t \in Running(Opening) : target[t] = p}
  /\ Goto(s, "open")
  /\ UNCHANGED <<tables, volume, locks, origin, token, who, photo, doomed, used, minted,
                 latest, opened, found, upsets>>

(* The count is computed from the row as the request loaded it.            *)
CountView(s) ==
  /\ pc[s] = "open"
  /\ Stored(target[s]) /\ Unlocked(target[s])
  /\ rows' = [rows EXCEPT ![target[s]].views = count[s] + 1]
  /\ opened' = [opened EXCEPT ![target[s]] = @ + 1]
  /\ Goto(s, "check")
  /\ UNCHANGED <<app, notices, volume, locks, copies, used, minted, latest, found, mishaps, bounds>>

(* Mutant of AlreadyNotified: the dedupe key is looked up for any user.    *)
AlreadyNotifiedAnybody(p, a) == \E b \in Agents : notices[p][b] > 0

(* The dedupe key of a publication and a day counts for one user.          *)
AlreadyNotified(p, a) == notices[p][a] > 0

(* The commit has expired the row, so it is read again; then the agent who *)
(* is assigned to the Consultant by now, or else the publisher, is looked  *)
(* up, and the dedupe key.                                                 *)
CheckNotice(s, a) ==
  /\ pc[s] = "check" /\ Stored(target[s])
  /\ found' = [found EXCEPT ![target[s]] = @ \cup {a}]
  /\ \/ /\ ~AlreadyNotified(target[s], a)
        /\ who' = [who EXCEPT ![s] = a]
        /\ Goto(s, "notify")
        /\ UNCHANGED <<locks, target, origin, token, photo, count, doomed>>
     \/ /\ AlreadyNotified(target[s], a)
        /\ EndRequest(s)
  /\ UNCHANGED <<tables, volume, used, minted, latest, opened, mishaps, bounds>>

(* The Consultant is unassigned and the publisher's account is gone.       *)
NobodyToNotify(s) ==
  /\ pc[s] = "check" /\ Stored(target[s])
  /\ EndRequest(s)
  /\ UNCHANGED <<tables, volume, history, bounds>>

Notify(s) ==
  /\ pc[s] = "notify"
  /\ notices' = [notices EXCEPT ![target[s]][who[s]] = @ + 1]
  /\ EndRequest(s)
  /\ UNCHANGED <<app, rows, volume, history, bounds>>

--------------------------------------------------------------------------
(* The purge of revoked rows.                                              *)

BeginPurge(s) ==
  /\ pc[s] = "idle"
  /\ \E p \in Pubs : Stored(p) /\ rows[p].revoked
  /\ doomed' = [doomed EXCEPT ![s] = {NameOf(p) : p \in {q \in Pubs : Stored(q) /\ rows[q].revoked}}]
  /\ mishaps' = mishaps \cup {m \in {"overtaken"} :
                  \E t \in Running(Publishing) : Stored(target[t]) /\ rows[target[t]].revoked}
  /\ Goto(s, "purgePhotos")
  /\ UNCHANGED <<tables, volume, locks, target, origin, token, who, photo, count, used, minted, latest, opened, found, bounds>>

PurgePhotos(s) ==
  /\ pc[s] = "purgePhotos"
  /\ Delete(doomed[s])
  /\ Goto(s, "purgeRows")
  /\ UNCHANGED <<tables, portrait, locks, copies, history, opens>>

(* Deleting a row that is gone already is only a warning.                  *)
PurgeRows(s) ==
  /\ pc[s] = "purgeRows"
  /\ \A n \in doomed[s] : Unlocked(n.pub)
  /\ rows' = [p \in Pubs |-> IF \E n \in doomed[s] : n.pub = p THEN None ELSE rows[p]]
  /\ EndRequest(s)
  /\ UNCHANGED <<app, notices, volume, history, bounds>>

--------------------------------------------------------------------------
(* The erasure of the Consultant: erase_consultant, one transaction that   *)
(* locks the user first.                                                   *)

BeginErase(s) ==
  /\ pc[s] = "idle"
  /\ app # "gone" /\ Running(Erasing) = {}
  /\ doomed' = [doomed EXCEPT ![s] = {NameOf(p) : p \in {q \in Pubs : Stored(q)}}]
  /\ mishaps' = mishaps \cup {m \in {"erasure"} : Running(Publishing \cup Opening) # {}}
  /\ Goto(s, "erasePhotos")
  /\ UNCHANGED <<tables, volume, locks, target, origin, token, who, photo, count, used, minted, latest, opened, found, bounds>>

ErasePhotos(s) ==
  /\ pc[s] = "erasePhotos"
  /\ Delete(doomed[s])
  /\ Goto(s, "eraseRows")
  /\ UNCHANGED <<tables, portrait, locks, copies, history, opens>>

NoticesOfConsultant == {n \in Notes : notices[n.pub][n.user] > 0}

(* DELETE of the publications there are by now: their rows are locked, and *)
(* still read by others, until the commit.  The notifications go next.     *)
EraseRows(s) ==
  /\ pc[s] = "eraseRows"
  /\ rowLock' = [p \in Pubs |-> IF Stored(p) THEN s ELSE rowLock[p]]
  /\ doomed' = [doomed EXCEPT ![s] = NoticesOfConsultant]
  /\ Goto(s, "eraseApplication")
  /\ UNCHANGED <<tables, volume, appLock, target, origin, token, who, photo, count, history, bounds>>

(* DELETE of the Application waits for its lock and takes later            *)
(* publications with it (ON DELETE CASCADE); the profile directory is      *)
(* removed, and all of it is committed.                                    *)
EraseApplication(s) ==
  /\ pc[s] = "eraseApplication"
  /\ ApplicationFree
  /\ app' = "gone"
  /\ rows' = [p \in Pubs |-> None]
  /\ notices' = [p \in Pubs |-> [a \in Agents |->
                    IF [pub |-> p, user |-> a] \in doomed[s] THEN 0 ELSE notices[p][a]]]
  /\ portrait' = None
  /\ EndRequest(s)
  /\ UNCHANGED <<disk, stuck, history, bounds>>

(* Nothing follows an erasure.                                             *)
Erased ==
  /\ app = "gone" /\ Running(PCs \ {"idle"}) = {}
  /\ UNCHANGED vars

--------------------------------------------------------------------------
(* The profile photo: an upload removes the old file, then stores its own. *)

RemovePortrait ==
  /\ app # "gone" /\ portrait # None /\ Upset
  /\ portrait' = None
  /\ UNCHANGED <<tables, disk, stuck, locks, pc, copies, history, opens>>

StorePortrait ==
  /\ app # "gone" /\ portrait = None
  /\ portrait' \in Photos
  /\ UNCHANGED <<tables, disk, stuck, locks, pc, copies, history, bounds>>

--------------------------------------------------------------------------
(* Requests that end between two steps.                                    *)

LeavesFiles(s) == pc[s] \in {"copy", "store", "purgeRows", "eraseRows", "eraseApplication"}

EndsWith(s) ==
  {m \in {"abort"} : LeavesFiles(s)} \cup {m \in {"silence"} : pc[s] \in {"check", "notify"}}

(* A process dies, or a statement fails.                                   *)
Abort(s) ==
  /\ pc[s] # "idle" /\ Upset
  /\ mishaps' = mishaps \cup EndsWith(s)
  /\ EndRequest(s)
  /\ UNCHANGED <<tables, volume, used, minted, latest, opened, found, opens>>

(* Whose lock the next statement of s waits for.                           *)
WaitsFor(s, t) ==
  \/ pc[s] = "store" /\ origin[s] = "active" /\ rowLock[target[s]] = t
  \/ pc[s] = "end" /\ target[s] # None /\ rowLock[target[s]] = t
  \/ pc[s] = "eraseApplication" /\ appLock = t

(* PostgreSQL ends one of two transactions that wait for each other.       *)
DeadlockVictim(s) ==
  /\ \E t \in Sessions : WaitsFor(s, t) /\ WaitsFor(t, s)
  /\ mishaps' = mishaps \cup EndsWith(s)
  /\ EndRequest(s)
  /\ UNCHANGED <<tables, volume, used, minted, latest, opened, found, bounds>>

PublishStep(s) ==
  \/ BeginPublish(s) \/ ClearPhotos(s) \/ CopyPhoto(s) \/ PhotoVanished(s)
  \/ PublishWithoutPhoto(s) \/ StoreNew(s) \/ StoreAgain(s)

ManageStep(s) ==
  \/ \E p \in Pubs : BeginExtend(s, p) \/ BeginRevoke(s, p)
  \/ Extend(s) \/ Revoke(s) \/ BeginEnd(s) \/ EndApplication(s)

OpenStep(s) ==
  \/ \E p \in Pubs : BeginOpen(s, p)
  \/ CountView(s) \/ NobodyToNotify(s) \/ Notify(s)
  \/ \E a \in Agents : CheckNotice(s, a)

DeleteStep(s) ==
  \/ BeginPurge(s) \/ PurgePhotos(s) \/ PurgeRows(s)
  \/ BeginErase(s) \/ ErasePhotos(s) \/ EraseRows(s) \/ EraseApplication(s)

Next ==
  \/ \E s \in Sessions :
       PublishStep(s) \/ ManageStep(s) \/ OpenStep(s) \/ DeleteStep(s)
         \/ RowVanished(s) \/ Abort(s) \/ DeadlockVictim(s)
  \/ \E p \in Pubs : Expire(p)
  \/ RemovePortrait \/ StorePortrait \/ Erased

Spec == Init /\ [][Next]_vars

--------------------------------------------------------------------------
(* What the code promises.                                                 *)

(* A closed, withdrawn or erased Application has no publication that could *)
(* be served: publish and transition share the Application lock, and the   *)
(* transition revokes in its own commit.                                   *)
EndedIsNotServed == app # "live" => \A p \in Pubs : ~Active(p)

(* A revoked publication is never served again, not even when a republish  *)
(* that read it before stores it after: the UPDATE leaves revoked alone.   *)
RevokedIsFinal ==
  [][\A p \in Pubs : Stored(p) /\ rows[p].revoked => ~Active(p)']_vars

(* Whatever link opens a CV is the one the last publish answered: every    *)
(* publish invalidates the links before it.                                *)
LinkIsLatest == \A p \in Pubs : Active(p) => rows[p].token = latest

Settled == \A s \in Sessions : ~LeavesFiles(s)

(* The photo of a publication is on the volume and is the one that was     *)
(* frozen when it was stored, whatever happened to the profile photo since *)
(* and whatever else was published, purged or extended.  It takes a        *)
(* request that changed the files and then failed to break this.           *)
ServedPhotoIsFrozen ==
  Settled /\ "abort" \notin mishaps =>
    \A p \in Pubs : Active(p) /\ rows[p].photo # None =>
      [pub |-> p, ext |-> rows[p].photo.ext, look |-> rows[p].photo.look] \in disk

Unnoticed(p) == \A a \in Agents : notices[p][a] = 0

(* An erasure deletes rows and photo files, and the notifications that     *)
(* name the Consultant.                                                    *)
ErasureIsComplete ==
  app = "gone" => disk = {} /\ \A p \in Pubs : ~Stored(p) /\ Unnoticed(p)

(* No photo is left behind without a row that names it, so that a purge or *)
(* an erasure will find it, but where a deletion was tried and failed      *)
(* (_delete_photo); and an erasure leaves no row and no notification, and  *)
(* no photo but those.  It takes a request that failed halfway, a purge    *)
(* that overtook a republish, or an erasure that overlapped a publish or   *)
(* an open to break this.                                                  *)
NothingIsLeftBehind ==
  /\ TypeOK
  /\ Settled /\ mishaps \subseteq {"opens", "silence"} =>
       /\ \A f \in disk \ stuck :
            Stored(f.pub) /\ rows[f.pub].photo = [ext |-> f.ext, look |-> f.look]
       /\ app = "gone" => disk \subseteq stuck /\ \A p \in Pubs : ~Stored(p) /\ Unnoticed(p)

(* No open is counted twice, and opens of a publication that do not        *)
(* overlap are all counted.  Whoever such opens found to be the one to     *)
(* notify, the Consultant's agent of that moment, has one notification of  *)
(* the day, unless a request ended before, and nobody has a second one:    *)
(* each agent has one of their own if the agent changes between two opens. *)
OpensAreRecorded ==
  \A p \in Pubs :
    /\ Stored(p) => rows[p].views <= opened[p]
    /\ "opens" \notin mishaps =>
         /\ Stored(p) => rows[p].views = opened[p]
         /\ \A a \in Agents : notices[p][a] <= IF a \in found[p] THEN 1 ELSE 0
         /\ (/\ Stored(p) /\ "silence" \notin mishaps
             /\ \A s \in Running(Opening) : target[s] # p) =>
              \A a \in found[p] : notices[p][a] = 1
=============================================================================
