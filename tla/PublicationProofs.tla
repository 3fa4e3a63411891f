------------------------- MODULE PublicationProofs -------------------------
(***************************************************************************)
(* Theorems about Publication for any number of requests, publications and *)
(* photos and any bounds.  First, who holds the Application lock knows the *)
(* only publication that can be served, and nobody else changes which that *)
(* is, except by revoking or deleting it.  Then, what rows, photo files,   *)
(* opened links and notifications have to do with each other between the   *)
(* steps of the requests that change them.                                 *)
(***************************************************************************)
EXTENDS Publication, TLAPS

(* A request that works on a publication has one.                          *)
TargetInv ==
  \A s \in Sessions :
    pc[s] \in Publishing \cup Opening \cup {"extend", "revoke"} => target[s] \in Pubs

(* Views are counted for opened links only.                                *)
ViewInv ==
  /\ \A p \in Pubs : Stored(p) => rows[p].views <= opens
  /\ \A s \in Sessions : pc[s] = "open" => count[s] < opens

(* Requests of the kinds that take the Application lock hold it, and the   *)
(* Application lives as long as they do.                                   *)
LockInv ==
  \A s \in Sessions : pc[s] \in Publishing \cup {"end"} => appLock = s /\ app = "live"

(* One publication is active, the holder knows which, and a new id is      *)
(* stored by nobody else.                                                  *)
HolderInv ==
  /\ \A p \in Pubs : Stored(p) => p \in used
  /\ \A p, q \in Pubs : Active(p) /\ Active(q) => p = q
  /\ \A s \in Sessions : pc[s] \in Publishing \cup {"end"} =>
       \A p \in Pubs : Active(p) => p = target[s]
  /\ \A s \in Sessions : pc[s] \in Publishing /\ origin[s] = "new" =>
       target[s] \in used /\ ~Stored(target[s])

(* An open goes on to notify somebody, or is over: the agent has the notice *)
(* of the day, or there is none.                                           *)
Asked(s) ==
  \E a \in Agents : CheckNotice(s, a) /\ ~AlreadyNotified(target[s], a)

Answered(s) ==
  NobodyToNotify(s) \/ \E a \in Agents : CheckNotice(s, a) /\ AlreadyNotified(target[s], a)

--------------------------------------------------------------------------
(* Types.                                                                  *)

(* What a deletion leaves: all other files, and what it failed on, which is *)
(* on the record.                                                          *)
LEMMA DeleteDeletes ==
  ASSUME NEW names, Delete(names)
  PROVE  /\ \A f \in disk : ~Named(f, names) => f \in disk'
         /\ \A f \in disk' \ stuck' : f \in disk \ stuck /\ ~Named(f, names)
<1>1. PICK kept \in SUBSET {f \in disk : Named(f, names)} :
        disk' = Without(names) \cup kept /\ stuck' = (stuck \cap disk') \cup kept
  BY DEF Delete
<1>2. kept \subseteq disk
  OBVIOUS
<1>3. QED
  BY <1>1, <1>2 DEF Without

LEMMA DeleteKeepsTypes ==
  ASSUME TypeOK, NEW names, Delete(names)
  PROVE  disk' \subseteq Copies /\ stuck' \subseteq Copies /\ upsets' \in 0..MaxUpsets
<1>1. PICK kept \in SUBSET {f \in disk : Named(f, names)} :
        /\ disk' = Without(names) \cup kept /\ stuck' = (stuck \cap disk') \cup kept
        /\ UNCHANGED upsets \/ Upset
  BY DEF Delete
<1>2. kept \subseteq disk
  OBVIOUS
<1>3. upsets' \in 0..MaxUpsets
  BY <1>1, BoundAssumption DEF Upset, TypeOK
<1>4. QED
  BY <1>1, <1>2, <1>3 DEF Without, TypeOK

(* Whatever ends a request leaves its variables in their ranges.           *)
LEMMA EndKeepsTypes ==
  ASSUME TypeOK, NEW s \in Sessions, EndRequest(s)
  PROVE  /\ pc' \in [Sessions -> PCs]
         /\ target' \in [Sessions -> Pubs \cup {None}]
         /\ origin' \in [Sessions -> {"new", "active"}]
         /\ token' \in [Sessions -> 0..MaxPublishes]
         /\ photo' \in [Sessions -> Photos \cup {None}]
         /\ count' \in [Sessions -> 0..MaxOpens]
         /\ who' \in [Sessions -> Agents \cup {None}]
         /\ doomed' \in [Sessions -> SUBSET (Names \cup Notes)]
         /\ appLock' \in Sessions \cup {None}
         /\ rowLock' \in [Pubs -> Sessions \cup {None}]
<1> USE BoundAssumption DEF TypeOK, EndRequest, Goto
<1>1. pc' \in [Sessions -> PCs]
  BY DEF PCs
<1>2. 0 \in 0..MaxPublishes /\ 0 \in 0..MaxOpens
  OBVIOUS
<1>3. QED
  BY <1>1, <1>2

(* A stored row is a row.                                                  *)
LEMMA StoredIsRow ==
  ASSUME TypeOK, NEW p \in Pubs, Stored(p)
  PROVE  rows[p] \in Rows
  BY DEF TypeOK, Stored

LEMMA PublishTypes ==
  ASSUME TypeOK, TargetInv, NEW s \in Sessions, PublishStep(s)
  PROVE  TypeOK'
<1> USE BoundAssumption DEF tables, volume, locks, copies, history, bounds
<1>1. CASE BeginPublish(s)
  <2>1. PICK p \in Pubs :
          /\ \/ origin' = [origin EXCEPT ![s] = "active"] /\ UNCHANGED used
             \/ /\ used' = used \cup {p}
                /\ origin' = [origin EXCEPT ![s] = "new"]
          /\ target' = [target EXCEPT ![s] = p]
    BY <1>1 DEF BeginPublish
  <2>2. /\ origin' \in [Sessions -> {"new", "active"}]
        /\ used' \subseteq Pubs
        /\ target' \in [Sessions -> Pubs \cup {None}]
    BY <2>1 DEF TypeOK
  <2>3. minted + 1 \in 0..MaxPublishes
    BY <1>1 DEF BeginPublish, TypeOK
  <2>4. /\ minted' \in 0..MaxPublishes
        /\ token' \in [Sessions -> 0..MaxPublishes]
        /\ appLock' \in Sessions \cup {None}
    BY <1>1, <2>3 DEF BeginPublish, TypeOK
  <2>5. mishaps' \subseteq Mishaps
    BY <1>1 DEF BeginPublish, TypeOK, Mishaps
  <2>6. pc' \in [Sessions -> PCs]
    BY <1>1 DEF BeginPublish, TypeOK, Goto, PCs, Publishing
  <2>7. QED
    BY <1>1, <2>2, <2>4, <2>5, <2>6 DEF TypeOK, BeginPublish
<1>2. CASE ClearPhotos(s)
  BY <1>2 DEF TypeOK, ClearPhotos, Cleared, Goto, PCs, Publishing
<1>3. CASE CopyPhoto(s)
  <2>1. [pub |-> target[s], ext |-> portrait.ext, look |-> portrait.look] \in Copies
    BY <1>3 DEF CopyPhoto, SourceExists, TypeOK, TargetInv, Copies, Photos, Publishing
  <2>2. QED
    BY <1>3, <2>1 DEF TypeOK, CopyPhoto, SourceExists, Goto, PCs, Publishing
<1>4. CASE PhotoVanished(s)
  BY <1>4, EndKeepsTypes DEF TypeOK, PhotoVanished, Mishaps
<1>5. CASE PublishWithoutPhoto(s)
  BY <1>5, DeleteKeepsTypes DEF TypeOK, PublishWithoutPhoto, Goto, PCs, Publishing
<1>6. CASE StoreNew(s)
  <2>1. NewRow(s) \in Rows
    BY <1>6 DEF NewRow, Rows, TypeOK
  <2>2. QED
    BY <1>6, <2>1, EndKeepsTypes DEF TypeOK, StoreNew
<1>7. CASE StoreAgain(s)
  <2>1. rows[target[s]] \in Rows
    BY <1>7, StoredIsRow DEF StoreAgain, TargetInv, Publishing
  <2>2. Republished(s) \in Rows
    BY <2>1 DEF Republished, Rows, TypeOK
  <2>3. QED
    BY <1>7, <2>2, EndKeepsTypes DEF TypeOK, StoreAgain
<1>8. QED
  BY <1>1, <1>2, <1>3, <1>4, <1>5, <1>6, <1>7 DEF PublishStep

LEMMA ManageTypes ==
  ASSUME TypeOK, TargetInv, NEW s \in Sessions, ManageStep(s)
  PROVE  TypeOK'
<1> USE DEF tables, volume, locks, copies, history, bounds
<1>1. CASE \E p \in Pubs : BeginExtend(s, p) \/ BeginRevoke(s, p)
  <2>1. PICK p \in Pubs : BeginExtend(s, p) \/ BeginRevoke(s, p)
    BY <1>1
  <2>2. pc' \in [Sessions -> PCs]
    BY <2>1 DEF TypeOK, BeginExtend, BeginRevoke, Goto, PCs
  <2>3. target' \in [Sessions -> Pubs \cup {None}]
    BY <2>1 DEF TypeOK, BeginExtend, BeginRevoke
  <2>4. QED
    BY <2>1, <2>2, <2>3 DEF TypeOK, BeginExtend, BeginRevoke
<1>2. CASE Extend(s)
  <2>1. rows[target[s]] \in Rows
    BY <1>2, StoredIsRow DEF Extend, TargetInv
  <2>2. [rows[target[s]] EXCEPT !.expired = FALSE] \in Rows
    BY <2>1 DEF Rows
  <2>3. QED
    BY <1>2, <2>2, EndKeepsTypes DEF TypeOK, Extend
<1>3. CASE Revoke(s)
  <2>1. rows[target[s]] \in Rows
    BY <1>3, StoredIsRow DEF Revoke, TargetInv
  <2>2. [rows[target[s]] EXCEPT !.revoked = TRUE] \in Rows
    BY <2>1 DEF Rows
  <2>3. QED
    BY <1>3, <2>2, EndKeepsTypes DEF TypeOK, Revoke
<1>4. CASE BeginEnd(s)
  BY <1>4 DEF TypeOK, BeginEnd, Goto, PCs
<1>5. CASE EndApplication(s)
  <2>1. rows' \in [Pubs -> Rows \cup {None}]
    <3>1. CASE target[s] = None
      BY <1>5, <3>1 DEF TypeOK, EndApplication
    <3>2. CASE target[s] # None
      <4>1. rows[target[s]] \in Rows /\ target[s] \in Pubs
        BY <1>5, <3>2, StoredIsRow DEF EndApplication, TypeOK
      <4>2. [rows[target[s]] EXCEPT !.revoked = TRUE] \in Rows
        BY <4>1 DEF Rows
      <4>3. QED
        BY <1>5, <3>2, <4>1, <4>2 DEF TypeOK, EndApplication
    <3>3. QED
      BY <3>1, <3>2
  <2>2. QED
    BY <1>5, <2>1, EndKeepsTypes DEF TypeOK, EndApplication
<1>6. QED
  BY <1>1, <1>2, <1>3, <1>4, <1>5 DEF ManageStep

LEMMA OpenTypes ==
  ASSUME TypeOK, TargetInv, ViewInv, NEW s \in Sessions, OpenStep(s)
  PROVE  TypeOK'
<1> USE BoundAssumption DEF tables, volume, locks, copies, history, bounds
<1>1. CASE \E p \in Pubs : BeginOpen(s, p)
  <2>1. PICK p \in Pubs : BeginOpen(s, p)
    BY <1>1
  <2>2. rows[p].views \in 0..MaxOpens
    BY <2>1, StoredIsRow DEF BeginOpen, Serveable, Active, Rows
  <2>3. opens + 1 \in 0..MaxOpens
    BY <2>1 DEF BeginOpen, TypeOK
  <2>4. mishaps' \subseteq Mishaps
    BY <2>1 DEF BeginOpen, TypeOK, Mishaps
  <2>5. pc' \in [Sessions -> PCs]
    BY <2>1 DEF BeginOpen, TypeOK, Goto, PCs, Opening
  <2>6. target' \in [Sessions -> Pubs \cup {None}] /\ count' \in [Sessions -> 0..MaxOpens]
    BY <2>1, <2>2 DEF BeginOpen, TypeOK
  <2>7. QED
    BY <2>1, <2>3, <2>4, <2>5, <2>6 DEF TypeOK, BeginOpen
<1>2. CASE CountView(s)
  <2>1. target[s] \in Pubs /\ rows[target[s]] \in Rows
    BY <1>2, StoredIsRow DEF CountView, TargetInv, Opening
  <2>2. count[s] + 1 \in 0..MaxOpens
    BY <1>2 DEF CountView, ViewInv, TypeOK
  <2>3. [rows[target[s]] EXCEPT !.views = count[s] + 1] \in Rows
    BY <2>1, <2>2 DEF Rows
  <2>4. rows' \in [Pubs -> Rows \cup {None}]
    BY <1>2, <2>1, <2>3 DEF TypeOK, CountView
  <2>5. pc' \in [Sessions -> PCs] /\ opened' \in [Pubs -> Nat]
    BY <1>2, <2>1 DEF TypeOK, CountView, Goto, PCs, Opening
  <2>6. QED
    BY <1>2, <2>4, <2>5 DEF TypeOK, CountView
<1>3. ASSUME NEW a \in Agents, CheckNotice(s, a)
      PROVE  TypeOK'
  <2>1. found' \in [Pubs -> SUBSET Agents]
    BY <1>3 DEF TypeOK, CheckNotice
  <2>2. CASE ~AlreadyNotified(target[s], a)
    <3>1. pc' \in [Sessions -> PCs]
      BY <1>3, <2>2 DEF TypeOK, CheckNotice, Goto, PCs, Opening
    <3>2. who' \in [Sessions -> Agents \cup {None}]
      BY <1>3, <2>2 DEF TypeOK, CheckNotice
    <3>3. QED
      BY <1>3, <2>1, <2>2, <3>1, <3>2 DEF TypeOK, CheckNotice
  <2>3. CASE AlreadyNotified(target[s], a)
    BY <1>3, <2>1, <2>3, EndKeepsTypes DEF TypeOK, CheckNotice
  <2>4. QED
    BY <2>2, <2>3
<1>4. CASE NobodyToNotify(s)
  BY <1>4, EndKeepsTypes DEF TypeOK, NobodyToNotify
<1>5. CASE Notify(s)
  <2>1. notices' \in [Pubs -> [Agents -> Nat]]
    <3>1. target[s] \in Pubs /\ notices[target[s]] \in [Agents -> Nat]
      BY <1>5 DEF Notify, TypeOK, TargetInv, Opening
    <3>2. [notices[target[s]] EXCEPT ![who[s]] = @ + 1] \in [Agents -> Nat]
      <4>1. CASE who[s] \in Agents
        BY <3>1, <4>1
      <4>2. CASE who[s] \notin Agents
        BY <3>1, <4>2
      <4>3. QED
        BY <4>1, <4>2
    <3>3. QED
      BY <1>5, <3>1, <3>2 DEF Notify, TypeOK
  <2>2. QED
    BY <1>5, <2>1, EndKeepsTypes DEF TypeOK, Notify
<1>6. QED
  BY <1>1, <1>2, <1>3, <1>4, <1>5 DEF OpenStep

(* What is read of a stored row names it.                                  *)
LEMMA NamesOfRows ==
  ASSUME TypeOK, NEW p \in Pubs, Stored(p)
  PROVE  NameOf(p) \in Names
<1>1. rows[p].photo \in Photos \cup {None}
  BY StoredIsRow DEF Rows
<1>2. Path(p) \in Exts \cup {None}
  BY <1>1 DEF Path, Photos
<1>3. QED
  BY <1>2 DEF NameOf, Names

LEMMA DeleteTypes ==
  ASSUME TypeOK, NEW s \in Sessions, DeleteStep(s)
  PROVE  TypeOK'
<1> USE DEF tables, volume, locks, copies, history, bounds
<1>1. CASE BeginPurge(s)
  <2>1. {NameOf(p) : p \in {q \in Pubs : Stored(q) /\ rows[q].revoked}} \subseteq Names
    BY NamesOfRows
  <2>2. doomed' \in [Sessions -> SUBSET (Names \cup Notes)]
    BY <1>1, <2>1 DEF BeginPurge, TypeOK
  <2>3. mishaps' \subseteq Mishaps
    BY <1>1 DEF BeginPurge, TypeOK, Mishaps
  <2>4. pc' \in [Sessions -> PCs]
    BY <1>1 DEF BeginPurge, TypeOK, Goto, PCs, Purging
  <2>5. QED
    BY <1>1, <2>2, <2>3, <2>4 DEF TypeOK, BeginPurge
<1>2. CASE PurgePhotos(s)
  BY <1>2, DeleteKeepsTypes DEF TypeOK, PurgePhotos, Goto, PCs, Purging
<1>3. CASE PurgeRows(s)
  <2>1. rows' \in [Pubs -> Rows \cup {None}]
    BY <1>3 DEF PurgeRows, TypeOK
  <2>2. QED
    BY <1>3, <2>1, EndKeepsTypes DEF TypeOK, PurgeRows
<1>4. CASE BeginErase(s)
  <2>1. {NameOf(p) : p \in {q \in Pubs : Stored(q)}} \subseteq Names
    BY NamesOfRows
  <2>2. doomed' \in [Sessions -> SUBSET (Names \cup Notes)]
    BY <1>4, <2>1 DEF BeginErase, TypeOK
  <2>3. mishaps' \subseteq Mishaps
    BY <1>4 DEF BeginErase, TypeOK, Mishaps
  <2>4. pc' \in [Sessions -> PCs]
    BY <1>4 DEF BeginErase, TypeOK, Goto, PCs, Erasing
  <2>5. QED
    BY <1>4, <2>2, <2>3, <2>4 DEF TypeOK, BeginErase
<1>5. CASE ErasePhotos(s)
  BY <1>5, DeleteKeepsTypes DEF TypeOK, ErasePhotos, Goto, PCs, Erasing
<1>6. CASE EraseRows(s)
  <2>1. NoticesOfConsultant \subseteq Notes
    BY DEF NoticesOfConsultant
  <2>2. doomed' \in [Sessions -> SUBSET (Names \cup Notes)] /\ rowLock' \in [Pubs -> Sessions \cup {None}]
    BY <1>6, <2>1 DEF EraseRows, TypeOK
  <2>3. pc' \in [Sessions -> PCs]
    BY <1>6 DEF EraseRows, TypeOK, Goto, PCs, Erasing
  <2>4. QED
    BY <1>6, <2>2, <2>3 DEF TypeOK, EraseRows
<1>7. CASE EraseApplication(s)
  <2>1. /\ rows' \in [Pubs -> Rows \cup {None}]
        /\ notices' \in [Pubs -> [Agents -> Nat]]
    BY <1>7 DEF EraseApplication, TypeOK
  <2>2. QED
    BY <1>7, <2>1, EndKeepsTypes DEF TypeOK, EraseApplication
<1>8. QED
  BY <1>1, <1>2, <1>3, <1>4, <1>5, <1>6, <1>7 DEF DeleteStep

LEMMA StepTypes ==
  ASSUME TypeOK, TargetInv, ViewInv, [Next]_vars
  PROVE  TypeOK'
<1> USE BoundAssumption DEF tables, volume, locks, copies, history, bounds
<1>1. ASSUME NEW s \in Sessions, RowVanished(s)
      PROVE  TypeOK'
  BY <1>1, EndKeepsTypes DEF TypeOK, RowVanished, Mishaps
<1>2. ASSUME NEW s \in Sessions, Abort(s)
      PROVE  TypeOK'
  <2>1. upsets' \in 0..MaxUpsets
    BY <1>2 DEF TypeOK, Abort, Upset
  <2>2. mishaps' \subseteq Mishaps
    BY <1>2 DEF TypeOK, Abort, Mishaps, EndsWith
  <2>3. QED
    BY <1>2, <2>1, <2>2, EndKeepsTypes DEF TypeOK, Abort
<1>3. ASSUME NEW s \in Sessions, DeadlockVictim(s)
      PROVE  TypeOK'
  BY <1>3, EndKeepsTypes DEF TypeOK, DeadlockVictim, Mishaps, EndsWith
<1>4. ASSUME NEW p \in Pubs, Expire(p)
      PROVE  TypeOK'
  <2>1. [rows[p] EXCEPT !.expired = TRUE] \in Rows
    BY <1>4, StoredIsRow DEF Expire, Rows
  <2>2. rows' \in [Pubs -> Rows \cup {None}]
    BY <1>4, <2>1 DEF TypeOK, Expire
  <2>3. QED
    BY <1>4, <2>2 DEF TypeOK, Expire
<1>5. CASE RemovePortrait
  BY <1>5 DEF TypeOK, RemovePortrait, Upset
<1>6. CASE StorePortrait
  BY <1>6 DEF TypeOK, StorePortrait
<1>7. CASE UNCHANGED vars
  BY <1>7 DEF TypeOK, vars
<1>8. QED
  BY <1>1, <1>2, <1>3, <1>4, <1>5, <1>6, <1>7, PublishTypes, ManageTypes, OpenTypes, DeleteTypes
     DEF Next, Erased

--------------------------------------------------------------------------
(* Who works on what.                                                      *)

Working == Publishing \cup Opening \cup {"extend", "revoke"}

(* What s ends is over, and no other request notices.                      *)
LEMMA EndTouchesOnlyItself ==
  ASSUME TypeOK, NEW s \in Sessions, EndRequest(s), NEW t \in Sessions
  PROVE  /\ pc'[s] = "idle"
         /\ t # s => /\ pc'[t] = pc[t]
                     /\ target'[t] = target[t]
                     /\ origin'[t] = origin[t]
                     /\ count'[t] = count[t]
                     /\ appLock = t => appLock' = t
  BY DEF TypeOK, EndRequest, Goto

LEMMA PublishTargets ==
  ASSUME TypeOK, TargetInv, NEW s \in Sessions, PublishStep(s)
  PROVE  TargetInv'
<1> SUFFICES ASSUME NEW t \in Sessions, pc'[t] \in Working
             PROVE  target'[t] \in Pubs
  BY DEF TargetInv, Working
<1> USE DEF Working, Publishing, Opening
<1>1. CASE BeginPublish(s)
  BY <1>1 DEF TypeOK, TargetInv, BeginPublish, Goto
<1>2. CASE ClearPhotos(s) \/ CopyPhoto(s) \/ PublishWithoutPhoto(s)
  BY <1>2 DEF TypeOK, TargetInv, ClearPhotos, CopyPhoto, PublishWithoutPhoto, Goto, copies
<1>3. CASE PhotoVanished(s) \/ StoreNew(s) \/ StoreAgain(s)
  BY <1>3, EndTouchesOnlyItself DEF TargetInv, PhotoVanished, StoreNew, StoreAgain
<1>4. QED
  BY <1>1, <1>2, <1>3 DEF PublishStep

LEMMA ManageTargets ==
  ASSUME TypeOK, TargetInv, NEW s \in Sessions, ManageStep(s)
  PROVE  TargetInv'
<1> SUFFICES ASSUME NEW t \in Sessions, pc'[t] \in Working
             PROVE  target'[t] \in Pubs
  BY DEF TargetInv, Working
<1> USE DEF Working, Publishing, Opening
<1>1. CASE \E p \in Pubs : BeginExtend(s, p) \/ BeginRevoke(s, p)
  BY <1>1 DEF TypeOK, TargetInv, BeginExtend, BeginRevoke, Goto
<1>2. CASE BeginEnd(s)
  <2>1. t # s /\ pc'[t] = pc[t]
    BY <1>2 DEF TypeOK, BeginEnd, Goto
  <2>2. target'[t] = target[t]
    BY <1>2, <2>1 DEF TypeOK, BeginEnd
  <2>3. QED
    BY <2>1, <2>2 DEF TargetInv
<1>3. CASE Extend(s) \/ Revoke(s) \/ EndApplication(s)
  BY <1>3, EndTouchesOnlyItself DEF TargetInv, Extend, Revoke, EndApplication
<1>4. QED
  BY <1>1, <1>2, <1>3 DEF ManageStep

LEMMA OpenTargets ==
  ASSUME TypeOK, TargetInv, NEW s \in Sessions, OpenStep(s)
  PROVE  TargetInv'
<1> SUFFICES ASSUME NEW t \in Sessions, pc'[t] \in Working
             PROVE  target'[t] \in Pubs
  BY DEF TargetInv, Working
<1> USE DEF Working, Publishing, Opening
<1>1. CASE \E p \in Pubs : BeginOpen(s, p)
  BY <1>1 DEF TypeOK, TargetInv, BeginOpen, Goto
<1>2. CASE CountView(s)
  BY <1>2 DEF TypeOK, TargetInv, CountView, Goto, copies
<1>3. CASE Asked(s)
  BY <1>3 DEF TypeOK, TargetInv, Asked, CheckNotice, Goto, copies
<1>4. CASE Notify(s) \/ Answered(s)
  BY <1>4, EndTouchesOnlyItself DEF TargetInv, Answered, CheckNotice, NobodyToNotify, Notify
<1>5. QED
  BY <1>1, <1>2, <1>3, <1>4 DEF OpenStep, Asked, Answered

LEMMA DeleteTargets ==
  ASSUME TypeOK, TargetInv, NEW s \in Sessions, DeleteStep(s)
  PROVE  TargetInv'
<1> SUFFICES ASSUME NEW t \in Sessions, pc'[t] \in Working
             PROVE  target'[t] \in Pubs
  BY DEF TargetInv, Working
<1> USE DEF Working, Publishing, Opening
<1>1. CASE BeginPurge(s) \/ BeginErase(s)
  BY <1>1 DEF TypeOK, TargetInv, BeginPurge, BeginErase, Goto
<1>2. CASE PurgePhotos(s) \/ ErasePhotos(s) \/ EraseRows(s)
  BY <1>2 DEF TypeOK, TargetInv, PurgePhotos, ErasePhotos, EraseRows, Goto, copies
<1>3. CASE PurgeRows(s) \/ EraseApplication(s)
  BY <1>3, EndTouchesOnlyItself DEF TargetInv, PurgeRows, EraseApplication
<1>4. QED
  BY <1>1, <1>2, <1>3 DEF DeleteStep

LEMMA StepTargets ==
  ASSUME TypeOK, TargetInv, [Next]_vars
  PROVE  TargetInv'
<1>1. ASSUME NEW s \in Sessions, RowVanished(s) \/ Abort(s) \/ DeadlockVictim(s)
      PROVE  TargetInv'
  BY <1>1, EndTouchesOnlyItself
     DEF TargetInv, RowVanished, Abort, DeadlockVictim, Publishing, Opening
<1>2. ASSUME UNCHANGED <<pc, copies>>
      PROVE  TargetInv'
  BY <1>2 DEF TargetInv, copies
<1>3. QED
  BY <1>1, <1>2, PublishTargets, ManageTargets, OpenTargets, DeleteTargets
     DEF Next, Expire, RemovePortrait, StorePortrait, Erased, vars

--------------------------------------------------------------------------
(* What becomes of the rows.                                               *)

(* No row is added or served anew, and what is served keeps its link.      *)
NothingServedAnew ==
  /\ latest' = latest
  /\ \A p \in Pubs :
       /\ Stored(p)' => Stored(p)
       /\ Active(p)' => Active(p) /\ rows'[p].token = rows[p].token

(* The request that stores a new publication is the only one that makes    *)
(* one active; a republish gives what is active another link.              *)
LEMMA RowsStep ==
  ASSUME TypeOK, TargetInv, [Next]_vars
  PROVE  \/ \E s \in Sessions : StoreNew(s) \/ StoreAgain(s)
         \/ NothingServedAnew
<1> USE DEF NothingServedAnew, Stored, Active, tables, history
<1>1. ASSUME UNCHANGED <<rows, latest>>
      PROVE  NothingServedAnew
  BY <1>1
<1>2. ASSUME NEW s \in Sessions, PublishStep(s), ~StoreNew(s), ~StoreAgain(s)
      PROVE  NothingServedAnew
  BY <1>1, <1>2
     DEF PublishStep, BeginPublish, ClearPhotos, CopyPhoto, PhotoVanished, PublishWithoutPhoto
<1>3. ASSUME NEW s \in Sessions, ManageStep(s)
      PROVE  NothingServedAnew
  <2>1. CASE \E p \in Pubs : BeginExtend(s, p) \/ BeginRevoke(s, p)
    BY <1>1, <2>1 DEF BeginExtend, BeginRevoke
  <2>2. CASE Extend(s)
    <3>1. rows[target[s]] \in Rows /\ target[s] \in Pubs
      BY <2>2, StoredIsRow DEF Extend, TargetInv
    <3>2. /\ [rows[target[s]] EXCEPT !.expired = FALSE].token = rows[target[s]].token
          /\ [rows[target[s]] EXCEPT !.expired = FALSE].revoked = rows[target[s]].revoked
      BY <3>1 DEF Rows
    <3>3. QED
      BY <2>2, <3>1, <3>2 DEF Extend, TypeOK
  <2>3. CASE Revoke(s)
    <3>1. rows[target[s]] \in Rows /\ target[s] \in Pubs
      BY <2>3, StoredIsRow DEF Revoke, TargetInv
    <3>2. [rows[target[s]] EXCEPT !.revoked = TRUE].revoked = TRUE
      BY <3>1 DEF Rows
    <3>3. QED
      BY <2>3, <3>1, <3>2 DEF Revoke, TypeOK
  <2>4. CASE BeginEnd(s)
    BY <1>1, <2>4 DEF BeginEnd
  <2>5. CASE EndApplication(s) /\ target[s] = None
    BY <1>1, <2>5 DEF EndApplication
  <2>6. CASE EndApplication(s) /\ target[s] # None
    <3>1. rows[target[s]] \in Rows /\ target[s] \in Pubs
      BY <2>6, StoredIsRow DEF EndApplication, TypeOK
    <3>2. [rows[target[s]] EXCEPT !.revoked = TRUE].revoked = TRUE
      BY <3>1 DEF Rows
    <3>3. QED
      BY <2>6, <3>1, <3>2 DEF EndApplication, TypeOK
  <2>7. QED
    BY <1>3, <2>1, <2>2, <2>3, <2>4, <2>5, <2>6 DEF ManageStep
<1>4. ASSUME NEW s \in Sessions, OpenStep(s)
      PROVE  NothingServedAnew
  <2>1. CASE CountView(s)
    <3>1. rows[target[s]] \in Rows /\ target[s] \in Pubs
      BY <2>1, StoredIsRow DEF CountView, TargetInv, Opening
    <3>2. /\ [rows[target[s]] EXCEPT !.views = count[s] + 1].token = rows[target[s]].token
          /\ [rows[target[s]] EXCEPT !.views = count[s] + 1].revoked = rows[target[s]].revoked
      BY <3>1 DEF Rows
    <3>3. QED
      BY <2>1, <3>1, <3>2 DEF CountView, TypeOK
  <2>2. CASE ~CountView(s)
    BY <1>1, <1>4, <2>2 DEF OpenStep, BeginOpen, CheckNotice, NobodyToNotify, Notify
  <2>3. QED
    BY <2>1, <2>2
<1>5. ASSUME NEW s \in Sessions, DeleteStep(s)
      PROVE  NothingServedAnew
  <2>1. CASE PurgeRows(s)
    BY <2>1 DEF PurgeRows, TypeOK
  <2>2. CASE EraseApplication(s)
    BY <2>2 DEF EraseApplication, TypeOK
  <2>3. CASE ~PurgeRows(s) /\ ~EraseApplication(s)
    BY <1>1, <1>5, <2>3
       DEF DeleteStep, BeginPurge, PurgePhotos, BeginErase, ErasePhotos, EraseRows
  <2>4. QED
    BY <2>1, <2>2, <2>3
<1>6. ASSUME NEW p \in Pubs, Expire(p)
      PROVE  NothingServedAnew
  <2>1. rows[p] \in Rows
    BY <1>6, StoredIsRow DEF Expire
  <2>2. /\ [rows[p] EXCEPT !.expired = TRUE].token = rows[p].token
        /\ [rows[p] EXCEPT !.expired = TRUE].revoked = rows[p].revoked
    BY <2>1 DEF Rows
  <2>3. QED
    BY <1>6, <2>1, <2>2 DEF Expire, TypeOK
<1>7. ASSUME NEW s \in Sessions, RowVanished(s) \/ Abort(s) \/ DeadlockVictim(s)
      PROVE  NothingServedAnew
  BY <1>1, <1>7 DEF RowVanished, Abort, DeadlockVictim
<1>8. QED
  BY <1>1, <1>2, <1>3, <1>4, <1>5, <1>6, <1>7
     DEF Next, RemovePortrait, StorePortrait, Erased, vars

LEMMA StoreNewRow ==
  ASSUME TypeOK, TargetInv, NEW s \in Sessions, StoreNew(s)
  PROVE  /\ target[s] \in Pubs
         /\ rows' = [rows EXCEPT ![target[s]] = NewRow(s)]
         /\ \A p \in Pubs : Active(p)' => p = target[s]
         /\ rows'[target[s]].token = latest'
  BY DEF TypeOK, TargetInv, StoreNew, NewRow, Active, Stored, Publishing

LEMMA StoreAgainRow ==
  ASSUME TypeOK, TargetInv, NEW s \in Sessions, StoreAgain(s)
  PROVE  /\ \A p \in Pubs : Stored(p)' => Stored(p)
         /\ \A p \in Pubs : Active(p)' => Active(p)
         /\ rows'[target[s]].token = latest'
         /\ \A p \in Pubs \ {target[s]} : rows'[p] = rows[p]
<1>1. target[s] \in Pubs /\ rows[target[s]] \in Rows
  BY StoredIsRow DEF StoreAgain, TargetInv, Publishing
<1>2. /\ Republished(s).token = token[s]
      /\ Republished(s).revoked = rows[target[s]].revoked
  BY <1>1 DEF Republished, Rows
<1>3. QED
  BY <1>1, <1>2 DEF TypeOK, StoreAgain, Active, Stored

--------------------------------------------------------------------------
(* The Application lock.                                                   *)

Holding == Publishing \cup {"end"}

(* t goes on with what it read under the lock.                             *)
Continues(t) ==
  /\ pc[t] \in Holding
  /\ pc'[t] = "end" <=> pc[t] = "end"
  /\ target'[t] = target[t]
  /\ origin'[t] = origin[t]
  /\ appLock = t => appLock' = t

LEMMA PublishHolds ==
  ASSUME TypeOK, NEW s \in Sessions, PublishStep(s), NEW t \in Sessions, pc'[t] \in Holding
  PROVE  BeginPublish(t) \/ Continues(t)
<1> USE DEF Continues, Holding, Publishing
<1>1. CASE BeginPublish(s)
  <2>1. appLock # t
    BY <1>1, NoneAssumption DEF BeginPublish, ApplicationFree
  <2>2. QED
    BY <1>1, <2>1 DEF TypeOK, BeginPublish, Goto
<1>2. CASE ClearPhotos(s) \/ CopyPhoto(s) \/ PublishWithoutPhoto(s)
  BY <1>2 DEF TypeOK, ClearPhotos, CopyPhoto, PublishWithoutPhoto, Goto, copies, locks
<1>3. CASE PhotoVanished(s) \/ StoreNew(s) \/ StoreAgain(s)
  BY <1>3, EndTouchesOnlyItself DEF PhotoVanished, StoreNew, StoreAgain
<1>4. QED
  BY <1>1, <1>2, <1>3 DEF PublishStep

LEMMA ManageHolds ==
  ASSUME TypeOK, NEW s \in Sessions, ManageStep(s), NEW t \in Sessions, pc'[t] \in Holding
  PROVE  BeginEnd(t) \/ Continues(t)
<1> USE DEF Continues, Holding, Publishing
<1>1. CASE \E p \in Pubs : BeginExtend(s, p) \/ BeginRevoke(s, p)
  BY <1>1 DEF TypeOK, BeginExtend, BeginRevoke, Goto, locks
<1>2. CASE BeginEnd(s)
  <2>1. appLock # t
    BY <1>2, NoneAssumption DEF BeginEnd, ApplicationFree
  <2>2. t # s => target'[t] = target[t]
    BY <1>2 DEF TypeOK, BeginEnd
  <2>3. QED
    BY <1>2, <2>1, <2>2 DEF TypeOK, BeginEnd, Goto
<1>3. CASE Extend(s) \/ Revoke(s) \/ EndApplication(s)
  BY <1>3, EndTouchesOnlyItself DEF Extend, Revoke, EndApplication
<1>4. QED
  BY <1>1, <1>2, <1>3 DEF ManageStep

LEMMA OpenHolds ==
  ASSUME TypeOK, NEW s \in Sessions, OpenStep(s), NEW t \in Sessions, pc'[t] \in Holding
  PROVE  Continues(t)
<1> USE DEF Continues, Holding, Publishing
<1>1. CASE \E p \in Pubs : BeginOpen(s, p)
  BY <1>1 DEF TypeOK, BeginOpen, Goto, locks
<1>2. CASE CountView(s)
  BY <1>2 DEF TypeOK, CountView, Goto, copies, locks
<1>3. CASE Asked(s)
  BY <1>3 DEF TypeOK, Asked, CheckNotice, Goto, copies, locks
<1>4. CASE Notify(s) \/ Answered(s)
  BY <1>4, EndTouchesOnlyItself DEF Answered, CheckNotice, NobodyToNotify, Notify
<1>5. QED
  BY <1>1, <1>2, <1>3, <1>4 DEF OpenStep, Asked, Answered

LEMMA DeleteHolds ==
  ASSUME TypeOK, NEW s \in Sessions, DeleteStep(s), NEW t \in Sessions, pc'[t] \in Holding
  PROVE  Continues(t)
<1> USE DEF Continues, Holding, Publishing
<1>1. CASE BeginPurge(s) \/ BeginErase(s)
  BY <1>1 DEF TypeOK, BeginPurge, BeginErase, Goto, locks
<1>2. CASE PurgePhotos(s) \/ ErasePhotos(s)
  BY <1>2 DEF TypeOK, PurgePhotos, ErasePhotos, Goto, copies, locks
<1>3. CASE EraseRows(s)
  BY <1>3 DEF TypeOK, EraseRows, Goto
<1>4. CASE PurgeRows(s) \/ EraseApplication(s)
  BY <1>4, EndTouchesOnlyItself DEF PurgeRows, EraseApplication
<1>5. QED
  BY <1>1, <1>2, <1>3, <1>4 DEF DeleteStep

(* Who is under the lock after a step has just taken it or goes on.        *)
LEMMA HolderStep ==
  ASSUME TypeOK, [Next]_vars, NEW t \in Sessions, pc'[t] \in Holding
  PROVE  BeginPublish(t) \/ BeginEnd(t) \/ Continues(t)
<1>1. ASSUME NEW s \in Sessions, RowVanished(s) \/ Abort(s) \/ DeadlockVictim(s)
      PROVE  Continues(t)
  BY <1>1, EndTouchesOnlyItself
     DEF RowVanished, Abort, DeadlockVictim, Continues, Holding, Publishing
<1>2. ASSUME UNCHANGED <<pc, copies, appLock>>
      PROVE  Continues(t)
  BY <1>2 DEF Continues, copies
<1>3. QED
  BY <1>1, <1>2, PublishHolds, ManageHolds, OpenHolds, DeleteHolds
     DEF Next, Expire, RemovePortrait, StorePortrait, Erased, vars, locks

(* The Application ends, or goes, by who holds its lock or while nobody    *)
(* does.                                                                   *)
LEMMA ApplicationStep ==
  ASSUME [Next]_vars
  PROVE  \/ app' = app
         \/ \E s \in Sessions : EndApplication(s) \/ EraseApplication(s)
<1> USE DEF tables
<1>1. ASSUME NEW s \in Sessions, PublishStep(s)
      PROVE  app' = app
  BY <1>1 DEF PublishStep, BeginPublish, ClearPhotos, CopyPhoto, PhotoVanished,
              PublishWithoutPhoto, StoreNew, StoreAgain
<1>2. ASSUME NEW s \in Sessions, ManageStep(s), ~EndApplication(s)
      PROVE  app' = app
  BY <1>2 DEF ManageStep, BeginExtend, BeginRevoke, Extend, Revoke, BeginEnd
<1>3. ASSUME NEW s \in Sessions, OpenStep(s)
      PROVE  app' = app
  BY <1>3 DEF OpenStep, BeginOpen, CountView, CheckNotice, NobodyToNotify, Notify
<1>4. ASSUME NEW s \in Sessions, DeleteStep(s), ~EraseApplication(s)
      PROVE  app' = app
  BY <1>4 DEF DeleteStep, BeginPurge, PurgePhotos, PurgeRows, BeginErase, ErasePhotos, EraseRows
<1>5. QED
  BY <1>1, <1>2, <1>3, <1>4
     DEF Next, RowVanished, Abort, DeadlockVictim, Expire, RemovePortrait, StorePortrait,
         Erased, vars

LEMMA StepLock ==
  ASSUME TypeOK, LockInv, [Next]_vars
  PROVE  LockInv'
<1> SUFFICES ASSUME NEW t \in Sessions, pc'[t] \in Holding
             PROVE  appLock' = t /\ app' = "live"
  BY DEF LockInv, Holding
<1>1. CASE BeginPublish(t)
  BY <1>1 DEF BeginPublish, tables
<1>2. CASE BeginEnd(t)
  BY <1>2 DEF BeginEnd, tables
<1>3. CASE Continues(t)
  <2>1. appLock = t /\ appLock' = t /\ app = "live"
    BY <1>3 DEF Continues, LockInv, Holding
  <2>2. ASSUME NEW s \in Sessions, EndApplication(s)
        PROVE  FALSE
    <3>1. s = t
      BY <2>1, <2>2 DEF EndApplication, LockInv
    <3>2. pc'[t] = "idle"
      BY <2>2, <3>1, EndTouchesOnlyItself DEF EndApplication
    <3>3. QED
      BY <3>2 DEF Holding, Publishing
  <2>3. ASSUME NEW s \in Sessions, EraseApplication(s)
        PROVE  FALSE
    BY <2>1, <2>3, NoneAssumption DEF EraseApplication, ApplicationFree
  <2>4. QED
    BY <2>1, <2>2, <2>3, ApplicationStep
<1>4. QED
  BY <1>1, <1>2, <1>3, HolderStep

--------------------------------------------------------------------------
(* The holder knows what is active.                                        *)

LEMMA UsedGrows ==
  ASSUME [Next]_vars
  PROVE  used \subseteq used'
<1> USE DEF history
<1>1. ASSUME NEW s \in Sessions, PublishStep(s)
      PROVE  used \subseteq used'
  BY <1>1 DEF PublishStep, BeginPublish, ClearPhotos, CopyPhoto, PhotoVanished,
              PublishWithoutPhoto, StoreNew, StoreAgain
<1>2. ASSUME NEW s \in Sessions, ManageStep(s)
      PROVE  used' = used
  BY <1>2 DEF ManageStep, BeginExtend, BeginRevoke, Extend, Revoke, BeginEnd, EndApplication
<1>3. ASSUME NEW s \in Sessions, OpenStep(s)
      PROVE  used' = used
  BY <1>3 DEF OpenStep, BeginOpen, CountView, CheckNotice, NobodyToNotify, Notify
<1>4. ASSUME NEW s \in Sessions, DeleteStep(s)
      PROVE  used' = used
  BY <1>4 DEF DeleteStep, BeginPurge, PurgePhotos, PurgeRows, BeginErase, ErasePhotos,
              EraseRows, EraseApplication
<1>5. QED
  BY <1>1, <1>2, <1>3, <1>4
     DEF Next, RowVanished, Abort, DeadlockVictim, Expire, RemovePortrait, StorePortrait,
         Erased, vars

(* What is stored by a step that adds no row, and what is active by one    *)
(* that activates none: the holders still know.                            *)
LEMMA HoldersKnow ==
  ASSUME TypeOK, HolderInv, [Next]_vars,
         \A p \in Pubs : (Stored(p)' => Stored(p)) /\ (Active(p)' => Active(p))
  PROVE  HolderInv'
<1>1. \A p \in Pubs : Stored(p)' => p \in used'
  BY UsedGrows DEF HolderInv
<1>2. \A p, q \in Pubs : Active(p)' /\ Active(q)' => p = q
  BY DEF HolderInv
<1>3. ASSUME NEW t \in Sessions, pc'[t] \in Holding, NEW p \in Pubs, Active(p)'
      PROVE  p = target'[t]
  <2>1. Active(p) /\ \A q \in Pubs : Active(q) => q = p
    BY <1>3 DEF HolderInv
  <2>2. CASE BeginPublish(t)
    BY <2>1, <2>2 DEF BeginPublish, TypeOK
  <2>3. CASE BeginEnd(t)
    BY <2>1, <2>3 DEF BeginEnd, TypeOK
  <2>4. CASE Continues(t)
    BY <2>1, <2>4 DEF Continues, HolderInv, Holding
  <2>5. QED
    BY <1>3, <2>2, <2>3, <2>4, HolderStep
<1>4. ASSUME NEW t \in Sessions, pc'[t] \in Publishing, origin'[t] = "new"
      PROVE  target'[t] \in used' /\ ~Stored(target[t])'
  <2>1. CASE BeginPublish(t)
    <3>1. target'[t] \in Pubs /\ target'[t] \in used' /\ target'[t] \notin used
      BY <1>4, <2>1 DEF BeginPublish, TypeOK
    <3>2. rows[target'[t]] = None
      BY <3>1 DEF HolderInv, Stored
    <3>3. QED
      BY <3>1, <3>2 DEF Stored
  <2>2. CASE BeginEnd(t)
    BY <1>4, <2>2 DEF BeginEnd, Goto, TypeOK, Publishing
  <2>3. CASE Continues(t)
    <3>1. target[t] \in used /\ ~Stored(target[t]) /\ target'[t] = target[t]
      BY <1>4, <2>3 DEF Continues, HolderInv, Holding, Publishing
    <3>2. target[t] \in Pubs
      BY <3>1 DEF TypeOK
    <3>3. QED
      BY <3>1, <3>2, UsedGrows DEF Stored
  <2>4. QED
    BY <1>4, <2>1, <2>2, <2>3, HolderStep DEF Holding
<1>5. QED
  BY <1>1, <1>2, <1>3, <1>4 DEF HolderInv, Holding

(* The store of a new publication leaves the lock to nobody.               *)
LEMMA StoreNewReleases ==
  ASSUME TypeOK, LockInv, [Next]_vars, NEW s \in Sessions, StoreNew(s), NEW t \in Sessions
  PROVE  pc'[t] \notin Holding
<1> SUFFICES ASSUME pc'[t] \in Holding
             PROVE  FALSE
  OBVIOUS
<1>1. appLock = s /\ pc'[s] = "idle"
  BY EndTouchesOnlyItself DEF StoreNew, LockInv, Publishing
<1>2. t # s
  BY <1>1 DEF Holding, Publishing
<1>3. ~BeginPublish(t) /\ ~BeginEnd(t)
  BY <1>1, NoneAssumption DEF BeginPublish, BeginEnd, ApplicationFree
<1>4. ~Continues(t)
  BY <1>1, <1>2 DEF Continues, LockInv, Holding
<1>5. QED
  BY <1>3, <1>4, HolderStep

LEMMA StepHolder ==
  ASSUME TypeOK, TargetInv, LockInv, HolderInv, [Next]_vars
  PROVE  HolderInv'
<1>1. ASSUME NEW s \in Sessions, StoreNew(s)
      PROVE  HolderInv'
  <2>1. \A t \in Sessions : pc'[t] \notin Holding
    BY <1>1, StoreNewReleases
  <2>2. target[s] \in used
    BY <1>1 DEF StoreNew, HolderInv, Publishing
  <2>3. \A p \in Pubs : Stored(p)' => p \in used'
    BY <1>1, <2>2, StoreNewRow, UsedGrows DEF HolderInv, Stored, TypeOK
  <2>4. \A p, q \in Pubs : Active(p)' /\ Active(q)' => p = q
    BY <1>1, StoreNewRow
  <2>5. QED
    BY <2>1, <2>3, <2>4 DEF HolderInv, Holding
<1>2. ASSUME NEW s \in Sessions, StoreAgain(s)
      PROVE  HolderInv'
  BY <1>2, StoreAgainRow, HoldersKnow
<1>3. CASE NothingServedAnew
  BY <1>3, HoldersKnow DEF NothingServedAnew
<1>4. QED
  BY <1>1, <1>2, <1>3, RowsStep

--------------------------------------------------------------------------
(* Views.                                                                  *)

(* What leaves the rows and the count read for an open alone.              *)
LEMMA ViewsUntouched ==
  ASSUME TypeOK, ViewInv, opens' = opens,
         \A p \in Pubs : Stored(p)' => Stored(p) /\ rows'[p].views = rows[p].views,
         \A t \in Sessions : pc'[t] = "open" => pc[t] = "open" /\ count'[t] = count[t]
  PROVE  ViewInv'
  BY DEF ViewInv, TypeOK

LEMMA PublishViews ==
  ASSUME TypeOK, TargetInv, ViewInv, NEW s \in Sessions, PublishStep(s)
  PROVE  ViewInv'
<1> USE DEF tables, copies, bounds, Publishing
<1>1. CASE BeginPublish(s)
  BY <1>1, ViewsUntouched DEF BeginPublish, Goto, TypeOK, Stored
<1>2. CASE ClearPhotos(s) \/ CopyPhoto(s) \/ PublishWithoutPhoto(s)
  BY <1>2, ViewsUntouched DEF ClearPhotos, CopyPhoto, PublishWithoutPhoto, Goto, TypeOK, Stored
<1>3. CASE PhotoVanished(s)
  BY <1>3, ViewsUntouched, EndTouchesOnlyItself DEF PhotoVanished, Stored
<1>4. CASE StoreNew(s)
  <2>1. rows'[target[s]].views = 0 /\ \A p \in Pubs \ {target[s]} : rows'[p] = rows[p]
    BY <1>4 DEF StoreNew, NewRow, TypeOK, TargetInv
  <2>2. \A p \in Pubs : Stored(p)' => rows'[p].views <= opens'
    BY <1>4, <2>1 DEF StoreNew, ViewInv, TypeOK, Stored
  <2>3. \A t \in Sessions : pc'[t] = "open" => pc[t] = "open" /\ count'[t] = count[t]
    BY <1>4, EndTouchesOnlyItself DEF StoreNew
  <2>4. QED
    BY <1>4, <2>2, <2>3 DEF StoreNew, ViewInv
<1>5. CASE StoreAgain(s)
  <2>1. target[s] \in Pubs /\ rows[target[s]] \in Rows
    BY <1>5, StoredIsRow DEF StoreAgain, TargetInv
  <2>2. Republished(s).views = rows[target[s]].views
    BY <2>1 DEF Republished, Rows
  <2>3. \A p \in Pubs : Stored(p)' => Stored(p) /\ rows'[p].views = rows[p].views
    BY <1>5, <2>1, <2>2 DEF StoreAgain, Stored, TypeOK
  <2>4. QED
    BY <1>5, <2>3, ViewsUntouched, EndTouchesOnlyItself DEF StoreAgain
<1>6. QED
  BY <1>1, <1>2, <1>3, <1>4, <1>5 DEF PublishStep

LEMMA ManageViews ==
  ASSUME TypeOK, TargetInv, ViewInv, NEW s \in Sessions, ManageStep(s)
  PROVE  ViewInv'
<1> USE DEF tables, bounds
<1>1. CASE \E p \in Pubs : BeginExtend(s, p) \/ BeginRevoke(s, p)
  BY <1>1, ViewsUntouched DEF BeginExtend, BeginRevoke, Goto, TypeOK, Stored
<1>2. CASE BeginEnd(s)
  BY <1>2, ViewsUntouched DEF BeginEnd, Goto, TypeOK, Stored
<1>3. CASE Extend(s) \/ Revoke(s) \/ (EndApplication(s) /\ target[s] # None)
  <2>1. target[s] \in Pubs /\ Stored(target[s])
    BY <1>3 DEF Extend, Revoke, EndApplication, TargetInv, TypeOK
  <2>2. rows[target[s]] \in Rows
    BY <2>1, StoredIsRow
  <2>3. /\ [rows[target[s]] EXCEPT !.expired = FALSE].views = rows[target[s]].views
        /\ [rows[target[s]] EXCEPT !.revoked = TRUE].views = rows[target[s]].views
    BY <2>2 DEF Rows
  <2>4. \A p \in Pubs : Stored(p)' => Stored(p) /\ rows'[p].views = rows[p].views
    BY <1>3, <2>1, <2>3 DEF Extend, Revoke, EndApplication, Stored, TypeOK
  <2>5. QED
    BY <1>3, <2>4, ViewsUntouched, EndTouchesOnlyItself DEF Extend, Revoke, EndApplication
<1>4. CASE EndApplication(s) /\ target[s] = None
  BY <1>4, ViewsUntouched, EndTouchesOnlyItself DEF EndApplication, Stored
<1>5. QED
  BY <1>1, <1>2, <1>3, <1>4 DEF ManageStep

LEMMA OpenViews ==
  ASSUME TypeOK, TargetInv, ViewInv, NEW s \in Sessions, OpenStep(s)
  PROVE  ViewInv'
<1> USE DEF tables, copies, bounds
<1>1. CASE \E p \in Pubs : BeginOpen(s, p)
  <2>1. PICK p \in Pubs : BeginOpen(s, p)
    BY <1>1
  <2>2. rows[p].views <= opens /\ rows[p].views \in Nat
    BY <2>1, StoredIsRow, BoundAssumption DEF BeginOpen, Serveable, Active, ViewInv, Rows
  <2>3. count'[s] < opens'
    BY <2>1, <2>2 DEF BeginOpen, TypeOK
  <2>4. \A t \in Sessions \ {s} : pc'[t] = pc[t] /\ count'[t] = count[t]
    BY <2>1 DEF BeginOpen, TypeOK, Goto
  <2>5. QED
    BY <2>1, <2>3, <2>4, StoredIsRow, BoundAssumption
       DEF BeginOpen, ViewInv, TypeOK, Stored, Rows
<1>2. CASE CountView(s)
  <2>1. target[s] \in Pubs /\ rows[target[s]] \in Rows
    BY <1>2, StoredIsRow DEF CountView, TargetInv, Opening
  <2>2. [rows[target[s]] EXCEPT !.views = count[s] + 1].views = count[s] + 1
    BY <2>1 DEF Rows
  <2>3. count[s] + 1 <= opens
    BY <1>2, BoundAssumption DEF CountView, ViewInv, TypeOK
  <2>4. rows'[target[s]].views <= opens /\ \A p \in Pubs \ {target[s]} : rows'[p] = rows[p]
    BY <1>2, <2>1, <2>2, <2>3 DEF CountView, TypeOK
  <2>5. \A t \in Sessions : pc'[t] = "open" => pc[t] = "open" /\ count'[t] = count[t]
    BY <1>2 DEF CountView, TypeOK, Goto
  <2>6. QED
    BY <1>2, <2>4, <2>5 DEF CountView, ViewInv, Stored
<1>3. CASE Asked(s)
  BY <1>3, ViewsUntouched DEF Asked, CheckNotice, Goto, TypeOK, Stored
<1>4. CASE Notify(s) \/ Answered(s)
  BY <1>4, ViewsUntouched, EndTouchesOnlyItself DEF Answered, CheckNotice, NobodyToNotify, Notify, Stored
<1>5. QED
  BY <1>1, <1>2, <1>3, <1>4 DEF OpenStep, Asked, Answered

LEMMA DeleteViews ==
  ASSUME TypeOK, ViewInv, NEW s \in Sessions, DeleteStep(s)
  PROVE  ViewInv'
<1> USE DEF tables, copies, bounds
<1>1. CASE BeginPurge(s) \/ BeginErase(s) \/ PurgePhotos(s) \/ ErasePhotos(s) \/ EraseRows(s)
  BY <1>1, ViewsUntouched
     DEF BeginPurge, BeginErase, PurgePhotos, ErasePhotos, EraseRows, Goto, TypeOK, Stored
<1>2. CASE PurgeRows(s) \/ EraseApplication(s)
  <2>1. \A p \in Pubs : Stored(p)' => Stored(p) /\ rows'[p].views = rows[p].views
    BY <1>2 DEF PurgeRows, EraseApplication, Stored, TypeOK
  <2>2. QED
    BY <1>2, <2>1, ViewsUntouched, EndTouchesOnlyItself DEF PurgeRows, EraseApplication
<1>3. QED
  BY <1>1, <1>2 DEF DeleteStep

LEMMA StepViews ==
  ASSUME TypeOK, TargetInv, ViewInv, [Next]_vars
  PROVE  ViewInv'
<1> USE DEF tables, copies, bounds
<1>1. ASSUME NEW s \in Sessions, RowVanished(s) \/ Abort(s) \/ DeadlockVictim(s)
      PROVE  ViewInv'
  BY <1>1, ViewsUntouched, EndTouchesOnlyItself DEF RowVanished, Abort, DeadlockVictim, Stored
<1>2. ASSUME NEW p \in Pubs, Expire(p)
      PROVE  ViewInv'
  <2>1. [rows[p] EXCEPT !.expired = TRUE].views = rows[p].views
    BY <1>2, StoredIsRow DEF Expire, Rows
  <2>2. QED
    BY <1>2, <2>1, ViewsUntouched DEF Expire, Stored, TypeOK
<1>3. ASSUME UNCHANGED <<rows, pc, count, opens>>
      PROVE  ViewInv'
  BY <1>3 DEF ViewInv, Stored
<1>4. QED
  BY <1>1, <1>2, <1>3, PublishViews, ManageViews, OpenViews, DeleteViews
     DEF Next, RemovePortrait, StorePortrait, Erased, vars

--------------------------------------------------------------------------
(* The invariant of the Application lock, and what follows from it.        *)

Inv == TypeOK /\ TargetInv /\ ViewInv /\ LockInv /\ HolderInv

LEMMA InitInv ==
  ASSUME Init
  PROVE  Inv
<1> USE BoundAssumption DEF Init
<1>1. TypeOK
  BY DEF TypeOK, PCs
<1>2. TargetInv /\ ViewInv /\ LockInv /\ HolderInv
  BY DEF TargetInv, ViewInv, LockInv, HolderInv, Publishing, Opening, Stored, Active
<1>3. QED
  BY <1>1, <1>2 DEF Inv

LEMMA StepInv ==
  ASSUME Inv, [Next]_vars
  PROVE  Inv'
BY StepTypes, StepTargets, StepViews, StepLock, StepHolder DEF Inv

(* Whatever the interleaving, every variable of Publication stays in its   *)
(* range: a request that stores, extends, revokes or counts always works   *)
(* on a publication, and no view is counted without an opened link.        *)
THEOREM TypeCorrect == Spec => []TypeOK
<1>1. Inv /\ [Next]_vars => Inv'
  BY StepInv
<1>2. Inv => TypeOK
  BY DEF Inv
<1>3. QED
  BY InitInv, <1>1, <1>2, PTL DEF Spec

(* Who holds the Application lock knows the only publication that can be   *)
(* served, until the holder's own commit.                                  *)
THEOREM HolderKnowsTheActive == Spec => [](LockInv /\ HolderInv)
<1>1. Inv /\ [Next]_vars => Inv'
  BY StepInv
<1>2. Inv => LockInv /\ HolderInv
  BY DEF Inv
<1>3. QED
  BY InitInv, <1>1, <1>2, PTL DEF Spec

(* The Application ends with the revocation of what the holder read, and   *)
(* that was all there was; nothing is stored after.                        *)
LEMMA StepEnded ==
  ASSUME Inv, EndedIsNotServed, [Next]_vars
  PROVE  EndedIsNotServed'
<1> USE DEF Inv
<1>1. ASSUME NEW s \in Sessions, EndApplication(s)
      PROVE  \A p \in Pubs : ~Active(p)'
  <2>1. \A p \in Pubs : Active(p) => p = target[s]
    BY <1>1 DEF EndApplication, HolderInv
  <2>2. CASE target[s] = None
    BY <1>1, <2>1, <2>2, NoneAssumption DEF EndApplication, Active, Stored
  <2>3. CASE target[s] # None
    <3>1. target[s] \in Pubs /\ rows[target[s]] \in Rows
      BY <1>1, <2>3, StoredIsRow DEF EndApplication, TypeOK
    <3>2. [rows[target[s]] EXCEPT !.revoked = TRUE].revoked = TRUE
      BY <3>1 DEF Rows
    <3>3. QED
      BY <1>1, <2>1, <2>3, <3>1, <3>2 DEF EndApplication, Active, Stored, TypeOK
  <2>4. QED
    BY <2>2, <2>3
<1>2. ASSUME NEW s \in Sessions, EraseApplication(s)
      PROVE  \A p \in Pubs : ~Active(p)'
  BY <1>2 DEF EraseApplication, Active, Stored
<1>3. ASSUME app' = app
      PROVE  EndedIsNotServed'
  <2>1. ASSUME NEW s \in Sessions, StoreNew(s)
        PROVE  app = "live"
    BY <2>1 DEF StoreNew, LockInv, Publishing
  <2>2. ASSUME NEW s \in Sessions, StoreAgain(s)
        PROVE  app = "live"
    BY <2>2 DEF StoreAgain, LockInv, Publishing
  <2>3. CASE NothingServedAnew
    BY <1>3, <2>3 DEF NothingServedAnew, EndedIsNotServed
  <2>4. QED
    BY <1>3, <2>1, <2>2, <2>3, RowsStep DEF EndedIsNotServed
<1>4. QED
  BY <1>1, <1>2, <1>3, ApplicationStep DEF EndedIsNotServed

(* A closed, withdrawn or erased Application has no publication that could *)
(* be served, whoever publishes, republishes, extends or opens meanwhile.  *)
THEOREM EndedServesNothing == Spec => []EndedIsNotServed
<1>1. Init => EndedIsNotServed
  BY DEF Init, EndedIsNotServed
<1>2. Inv /\ EndedIsNotServed /\ [Next]_vars => Inv' /\ EndedIsNotServed'
  BY StepInv, StepEnded
<1>3. QED
  BY InitInv, <1>1, <1>2, PTL DEF Spec

(* A publish stores its token on the only active row.                      *)
LEMMA StepLatest ==
  ASSUME Inv, LinkIsLatest, [Next]_vars
  PROVE  LinkIsLatest'
<1> USE DEF Inv
<1>1. ASSUME NEW s \in Sessions, StoreNew(s)
      PROVE  LinkIsLatest'
  BY <1>1, StoreNewRow DEF LinkIsLatest
<1>2. ASSUME NEW s \in Sessions, StoreAgain(s)
      PROVE  LinkIsLatest'
  <2>1. \A p \in Pubs : Active(p)' => p = target[s]
    BY <1>2, StoreAgainRow DEF StoreAgain, HolderInv, Publishing
  <2>2. QED
    BY <1>2, <2>1, StoreAgainRow DEF LinkIsLatest
<1>3. CASE NothingServedAnew
  BY <1>3 DEF NothingServedAnew, LinkIsLatest
<1>4. QED
  BY <1>1, <1>2, <1>3, RowsStep

(* Every link that opens the CV is the one answered by the last publish:   *)
(* those before it are dead, and no two links ever work.                   *)
THEOREM OnlyTheLastLinkWorks == Spec => []LinkIsLatest
<1>1. Init => LinkIsLatest
  BY DEF Init, LinkIsLatest, Active, Stored
<1>2. Inv /\ LinkIsLatest /\ [Next]_vars => Inv' /\ LinkIsLatest'
  BY StepInv, StepLatest
<1>3. QED
  BY InitInv, <1>1, <1>2, PTL DEF Spec

(* No step makes a revoked publication active.                             *)
LEMMA StepRevoked ==
  ASSUME Inv, [Next]_vars, NEW p \in Pubs, Stored(p), rows[p].revoked
  PROVE  ~Active(p)'
<1> USE DEF Inv
<1>1. ~Active(p)
  BY DEF Active
<1>2. ASSUME NEW s \in Sessions, StoreNew(s)
      PROVE  p # target[s]
  BY <1>2 DEF StoreNew, HolderInv, Publishing
<1>3. QED
  BY <1>1, <1>2, RowsStep, StoreNewRow, StoreAgainRow DEF NothingServedAnew

(* Revoking is final: no republish, extension, opened link or retry that   *)
(* read the row before the revocation brings the publication back.         *)
THEOREM RevocationIsFinal == Spec => RevokedIsFinal
<1>1. Inv /\ [Next]_vars => Inv'
  BY StepInv
<1>2. Inv /\ [Next]_vars =>
        [\A p \in Pubs : Stored(p) /\ rows[p].revoked => ~Active(p)']_vars
  BY StepRevoked
<1>3. QED
  BY InitInv, <1>1, <1>2, PTL DEF Spec, RevokedIsFinal

--------------------------------------------------------------------------
(* One request at a time.                                                  *)

Own(s) ==
  PublishStep(s) \/ ManageStep(s) \/ OpenStep(s) \/ DeleteStep(s)
    \/ RowVanished(s) \/ Abort(s) \/ DeadlockVictim(s)

Untouched(t) ==
  /\ pc'[t] = pc[t] /\ target'[t] = target[t] /\ origin'[t] = origin[t]
  /\ who'[t] = who[t] /\ photo'[t] = photo[t]
  /\ count'[t] = count[t] /\ doomed'[t] = doomed[t]

Ended(t) == pc'[t] = "idle" /\ photo'[t] = None

LEMMA EndIsItsOwn ==
  ASSUME TypeOK, NEW s \in Sessions, EndRequest(s)
  PROVE  Ended(s) /\ \A t \in Sessions \ {s} : Untouched(t)
  BY DEF TypeOK, EndRequest, Goto, Ended, Untouched

LEMMA PublishIsItsOwn ==
  ASSUME TypeOK, NEW s \in Sessions, PublishStep(s), NEW t \in Sessions \ {s}
  PROVE  Untouched(t)
<1>1. CASE BeginPublish(s)
  BY <1>1 DEF TypeOK, Untouched, BeginPublish, Goto
<1>2. CASE ClearPhotos(s) \/ CopyPhoto(s) \/ PublishWithoutPhoto(s)
  BY <1>2 DEF TypeOK, Untouched, ClearPhotos, CopyPhoto, PublishWithoutPhoto, Goto, copies
<1>3. CASE PhotoVanished(s) \/ StoreNew(s) \/ StoreAgain(s)
  BY <1>3, EndIsItsOwn DEF PhotoVanished, StoreNew, StoreAgain
<1>4. QED
  BY <1>1, <1>2, <1>3 DEF PublishStep

LEMMA ManageIsItsOwn ==
  ASSUME TypeOK, NEW s \in Sessions, ManageStep(s), NEW t \in Sessions \ {s}
  PROVE  Untouched(t)
<1>1. CASE \E p \in Pubs : BeginExtend(s, p) \/ BeginRevoke(s, p)
  BY <1>1 DEF TypeOK, Untouched, BeginExtend, BeginRevoke, Goto
<1>2. CASE BeginEnd(s)
  <2>1. target'[t] = target[t]
    BY <1>2 DEF TypeOK, BeginEnd
  <2>2. QED
    BY <1>2, <2>1 DEF TypeOK, Untouched, BeginEnd, Goto
<1>3. CASE Extend(s) \/ Revoke(s) \/ EndApplication(s)
  BY <1>3, EndIsItsOwn DEF Extend, Revoke, EndApplication
<1>4. QED
  BY <1>1, <1>2, <1>3 DEF ManageStep

LEMMA OpenIsItsOwn ==
  ASSUME TypeOK, NEW s \in Sessions, OpenStep(s), NEW t \in Sessions \ {s}
  PROVE  Untouched(t)
<1>1. CASE \E p \in Pubs : BeginOpen(s, p)
  BY <1>1 DEF TypeOK, Untouched, BeginOpen, Goto
<1>2. CASE CountView(s)
  BY <1>2 DEF TypeOK, Untouched, CountView, Goto, copies
<1>3. CASE Asked(s)
  BY <1>3 DEF TypeOK, Untouched, Asked, CheckNotice, Goto, copies
<1>4. CASE Notify(s) \/ Answered(s)
  BY <1>4, EndIsItsOwn DEF Answered, CheckNotice, NobodyToNotify, Notify
<1>5. QED
  BY <1>1, <1>2, <1>3, <1>4 DEF OpenStep, Asked, Answered

LEMMA DeleteIsItsOwn ==
  ASSUME TypeOK, NEW s \in Sessions, DeleteStep(s), NEW t \in Sessions \ {s}
  PROVE  Untouched(t)
<1>1. CASE BeginPurge(s) \/ BeginErase(s)
  BY <1>1 DEF TypeOK, Untouched, BeginPurge, BeginErase, Goto
<1>2. CASE PurgePhotos(s) \/ ErasePhotos(s)
  BY <1>2 DEF TypeOK, Untouched, PurgePhotos, ErasePhotos, Goto, copies
<1>3. CASE EraseRows(s)
  BY <1>3 DEF TypeOK, Untouched, EraseRows, Goto
<1>4. CASE PurgeRows(s) \/ EraseApplication(s)
  BY <1>4, EndIsItsOwn DEF PurgeRows, EraseApplication
<1>5. QED
  BY <1>1, <1>2, <1>3, <1>4 DEF DeleteStep

(* A step leaves the variables of every request alone, except of the one   *)
(* that takes it.                                                          *)
LEMMA OneRequest ==
  ASSUME TypeOK, [Next]_vars, NEW t \in Sessions
  PROVE  Own(t) \/ Untouched(t)
<1>1. ASSUME NEW s \in Sessions, s # t, RowVanished(s) \/ Abort(s) \/ DeadlockVictim(s)
      PROVE  Untouched(t)
  BY <1>1, EndIsItsOwn DEF RowVanished, Abort, DeadlockVictim
<1>2. ASSUME UNCHANGED <<pc, copies>>
      PROVE  Untouched(t)
  BY <1>2 DEF Untouched, copies
<1>3. QED
  BY <1>1, <1>2, PublishIsItsOwn, ManageIsItsOwn, OpenIsItsOwn, DeleteIsItsOwn
     DEF Next, Own, Expire, RemovePortrait, StorePortrait, Erased, vars

(* Where a request is after its own step tells which step it was.          *)
LEMMA OwnStep ==
  ASSUME TypeOK, NEW t \in Sessions, Own(t)
  PROVE  /\ pc'[t] = "snapshot" => BeginPublish(t)
         /\ pc'[t] = "copy" => ClearPhotos(t)
         /\ pc'[t] = "store" => CopyPhoto(t) \/ PublishWithoutPhoto(t)
         /\ pc'[t] = "open" => \E p \in Pubs : BeginOpen(t, p)
         /\ pc'[t] = "check" => CountView(t)
         /\ pc'[t] = "notify" => Asked(t)
         /\ pc'[t] = "purgePhotos" => BeginPurge(t)
         /\ pc'[t] = "purgeRows" => PurgePhotos(t)
         /\ pc'[t] = "erasePhotos" => BeginErase(t)
         /\ pc'[t] = "eraseRows" => ErasePhotos(t)
         /\ pc'[t] = "eraseApplication" => EraseRows(t)
<1> USE DEF Goto
<1>1. CASE PublishStep(t)
  <2>1. CASE PhotoVanished(t) \/ StoreNew(t) \/ StoreAgain(t)
    BY <2>1, EndIsItsOwn DEF PhotoVanished, StoreNew, StoreAgain, Ended
  <2>2. QED
    BY <1>1, <2>1 DEF TypeOK, PublishStep, BeginPublish, ClearPhotos, CopyPhoto, PublishWithoutPhoto
<1>2. CASE ManageStep(t)
  <2>1. CASE Extend(t) \/ Revoke(t) \/ EndApplication(t)
    BY <2>1, EndIsItsOwn DEF Extend, Revoke, EndApplication, Ended
  <2>2. QED
    BY <1>2, <2>1 DEF TypeOK, ManageStep, BeginExtend, BeginRevoke, BeginEnd
<1>3. CASE OpenStep(t)
  <2>1. CASE Notify(t) \/ Answered(t)
    BY <2>1, EndIsItsOwn DEF Answered, CheckNotice, NobodyToNotify, Notify, Ended
  <2>2. QED
    BY <1>3, <2>1 DEF TypeOK, OpenStep, BeginOpen, CountView, CheckNotice, Asked, Answered
<1>4. CASE DeleteStep(t)
  <2>1. CASE PurgeRows(t) \/ EraseApplication(t)
    BY <2>1, EndIsItsOwn DEF PurgeRows, EraseApplication, Ended
  <2>2. QED
    BY <1>4, <2>1 DEF TypeOK, DeleteStep, BeginPurge, PurgePhotos, BeginErase, ErasePhotos, EraseRows
<1>5. CASE RowVanished(t) \/ Abort(t) \/ DeadlockVictim(t)
  BY <1>5, EndIsItsOwn DEF RowVanished, Abort, DeadlockVictim, Ended
<1>6. QED
  BY <1>1, <1>2, <1>3, <1>4, <1>5 DEF Own

(* A request that copied photos, or an erasure that deleted them, comes to *)
(* its end or fails on the record.                                         *)
LEMMA OwnEnd ==
  ASSUME TypeOK, NEW t \in Sessions, Own(t), LeavesFiles(t)
  PROVE  \/ LeavesFiles(t)'
         \/ StoreNew(t) \/ StoreAgain(t) \/ PurgeRows(t) \/ EraseApplication(t)
         \/ "abort" \in mishaps'
<1> USE DEF LeavesFiles, Goto
<1>1. CASE PublishStep(t)
  BY <1>1 DEF TypeOK, PublishStep, BeginPublish, ClearPhotos, CopyPhoto, PhotoVanished, PublishWithoutPhoto
<1>2. CASE ManageStep(t)
  BY <1>2 DEF ManageStep, BeginExtend, BeginRevoke, BeginEnd, Extend, Revoke, EndApplication
<1>3. CASE OpenStep(t)
  BY <1>3 DEF OpenStep, BeginOpen, CountView, CheckNotice, NobodyToNotify, Notify
<1>4. CASE DeleteStep(t)
  BY <1>4 DEF TypeOK, DeleteStep, BeginPurge, PurgePhotos, BeginErase, ErasePhotos, EraseRows
<1>5. CASE RowVanished(t) \/ Abort(t) \/ DeadlockVictim(t)
  BY <1>5 DEF RowVanished, Abort, DeadlockVictim, EndsWith
<1>6. QED
  BY <1>1, <1>2, <1>3, <1>4, <1>5 DEF Own

(* What happened stays on the record.                                      *)
LEMMA MishapsGrow ==
  ASSUME [Next]_vars
  PROVE  mishaps \subseteq mishaps'
<1> USE DEF history
<1>1. ASSUME NEW s \in Sessions, PublishStep(s)
      PROVE  mishaps \subseteq mishaps'
  BY <1>1 DEF PublishStep, BeginPublish, ClearPhotos, CopyPhoto, PhotoVanished,
              PublishWithoutPhoto, StoreNew, StoreAgain
<1>2. ASSUME NEW s \in Sessions, ManageStep(s)
      PROVE  mishaps \subseteq mishaps'
  BY <1>2 DEF ManageStep, BeginExtend, BeginRevoke, Extend, Revoke, BeginEnd, EndApplication
<1>3. ASSUME NEW s \in Sessions, OpenStep(s)
      PROVE  mishaps \subseteq mishaps'
  BY <1>3 DEF OpenStep, BeginOpen, CountView, CheckNotice, NobodyToNotify, Notify
<1>4. ASSUME NEW s \in Sessions, DeleteStep(s)
      PROVE  mishaps \subseteq mishaps'
  BY <1>4 DEF DeleteStep, BeginPurge, PurgePhotos, PurgeRows, BeginErase, ErasePhotos,
              EraseRows, EraseApplication
<1>5. QED
  BY <1>1, <1>2, <1>3, <1>4
     DEF Next, RowVanished, Abort, DeadlockVictim, Expire, RemovePortrait, StorePortrait,
         Erased, vars

(* The files change by a publish, a purge or an erasure only.              *)
LEMMA DiskStep ==
  ASSUME [Next]_vars
  PROVE  \/ disk' = disk /\ stuck' = stuck
         \/ \E s \in Sessions : ClearPhotos(s) \/ CopyPhoto(s) \/ PublishWithoutPhoto(s)
                                  \/ PurgePhotos(s) \/ ErasePhotos(s)
<1> USE DEF volume
<1>1. ASSUME NEW s \in Sessions, PublishStep(s), ~ClearPhotos(s), ~CopyPhoto(s), ~PublishWithoutPhoto(s)
      PROVE  disk' = disk /\ stuck' = stuck
  BY <1>1 DEF PublishStep, BeginPublish, PhotoVanished, StoreNew, StoreAgain
<1>2. ASSUME NEW s \in Sessions, ManageStep(s)
      PROVE  disk' = disk /\ stuck' = stuck
  BY <1>2 DEF ManageStep, BeginExtend, BeginRevoke, Extend, Revoke, BeginEnd, EndApplication
<1>3. ASSUME NEW s \in Sessions, OpenStep(s)
      PROVE  disk' = disk /\ stuck' = stuck
  BY <1>3 DEF OpenStep, BeginOpen, CountView, CheckNotice, NobodyToNotify, Notify
<1>4. ASSUME NEW s \in Sessions, DeleteStep(s), ~PurgePhotos(s), ~ErasePhotos(s)
      PROVE  disk' = disk /\ stuck' = stuck
  BY <1>4 DEF DeleteStep, BeginPurge, PurgeRows, BeginErase, EraseRows, EraseApplication
<1>5. QED
  BY <1>1, <1>2, <1>3, <1>4
     DEF Next, RowVanished, Abort, DeadlockVictim, Expire, RemovePortrait, StorePortrait,
         Erased, vars

(* A row that stays is a row that was, with its photo and its views, or    *)
(* has just been stored, published again or counted.                       *)
Kept(p) == Stored(p) /\ rows'[p].photo = rows[p].photo /\ rows'[p].views = rows[p].views

LEMMA RowKept ==
  ASSUME TypeOK, NEW p \in Pubs, Stored(p), NEW b \in BOOLEAN
  PROVE  /\ [rows[p] EXCEPT !.expired = b].photo = rows[p].photo
         /\ [rows[p] EXCEPT !.expired = b].views = rows[p].views
         /\ [rows[p] EXCEPT !.revoked = b].photo = rows[p].photo
         /\ [rows[p] EXCEPT !.revoked = b].views = rows[p].views
  BY StoredIsRow DEF Rows

StoredAgain(s) ==
  /\ StoreAgain(s) /\ Stored(target[s])
  /\ rows'[target[s]].photo = photo[s] /\ rows'[target[s]].views = rows[target[s]].views

Counted(s) ==
  /\ CountView(s) /\ Stored(target[s])
  /\ rows'[target[s]].photo = rows[target[s]].photo /\ rows'[target[s]].views = count[s] + 1

StoredNew(s) ==
  StoreNew(s) /\ rows'[target[s]].photo = photo[s] /\ rows'[target[s]].views = 0

LEMMA RowStep ==
  ASSUME TypeOK, TargetInv, [Next]_vars, NEW p \in Pubs, Stored(p)'
  PROVE  \/ Kept(p)
         \/ \E s \in Sessions : target[s] = p /\ (StoredNew(s) \/ StoredAgain(s) \/ Counted(s))
<1> USE DEF Kept, tables
<1>1. ASSUME UNCHANGED rows
      PROVE  Kept(p)
  BY <1>1 DEF Stored
<1>2. ASSUME NEW s \in Sessions, PublishStep(s)
      PROVE  Kept(p) \/ (target[s] = p /\ (StoredNew(s) \/ StoredAgain(s)))
  <2>1. CASE StoreNew(s)
    BY <2>1 DEF StoreNew, StoredNew, NewRow, TypeOK, TargetInv, Publishing, Stored
  <2>2. CASE StoreAgain(s)
    <3>1. target[s] \in Pubs /\ Stored(target[s]) /\ rows[target[s]] \in Rows
      BY <2>2, StoredIsRow DEF StoreAgain, TargetInv, Publishing
    <3>2. /\ Republished(s).photo = photo[s]
          /\ Republished(s).views = rows[target[s]].views
      BY <3>1 DEF Republished, Rows
    <3>3. QED
      BY <2>2, <3>1, <3>2 DEF StoreAgain, StoredAgain, TypeOK, Stored
  <2>3. QED
    BY <1>1, <1>2, <2>1, <2>2
       DEF PublishStep, BeginPublish, ClearPhotos, CopyPhoto, PhotoVanished, PublishWithoutPhoto
<1>3. ASSUME NEW s \in Sessions, ManageStep(s)
      PROVE  Kept(p)
  <2>1. CASE Extend(s) \/ Revoke(s) \/ (EndApplication(s) /\ target[s] # None)
    <3>1. target[s] \in Pubs /\ Stored(target[s])
      BY <2>1 DEF Extend, Revoke, EndApplication, TargetInv, TypeOK
    <3>2. QED
      BY <2>1, <3>1, RowKept DEF Extend, Revoke, EndApplication, TypeOK, Stored
  <2>2. QED
    BY <1>1, <1>3, <2>1 DEF ManageStep, BeginExtend, BeginRevoke, BeginEnd, EndApplication
<1>4. ASSUME NEW s \in Sessions, OpenStep(s)
      PROVE  Kept(p) \/ (target[s] = p /\ Counted(s))
  <2>1. CASE CountView(s)
    <3>1. target[s] \in Pubs /\ Stored(target[s]) /\ rows[target[s]] \in Rows
      BY <2>1, StoredIsRow DEF CountView, TargetInv, Opening
    <3>2. /\ [rows[target[s]] EXCEPT !.views = count[s] + 1].photo = rows[target[s]].photo
          /\ [rows[target[s]] EXCEPT !.views = count[s] + 1].views = count[s] + 1
      BY <3>1 DEF Rows
    <3>3. QED
      BY <2>1, <3>1, <3>2 DEF CountView, Counted, TypeOK, Stored
  <2>2. QED
    BY <1>1, <1>4, <2>1 DEF OpenStep, BeginOpen, CheckNotice, NobodyToNotify, Notify
<1>5. ASSUME NEW s \in Sessions, DeleteStep(s)
      PROVE  Kept(p)
  <2>1. CASE PurgeRows(s) \/ EraseApplication(s)
    BY <2>1 DEF PurgeRows, EraseApplication, TypeOK, Stored
  <2>2. QED
    BY <1>1, <1>5, <2>1
       DEF DeleteStep, BeginPurge, PurgePhotos, BeginErase, ErasePhotos, EraseRows
<1>6. ASSUME NEW q \in Pubs, Expire(q)
      PROVE  Kept(p)
  BY <1>6, RowKept DEF Expire, TypeOK, Stored
<1>7. ASSUME NEW s \in Sessions, RowVanished(s) \/ Abort(s) \/ DeadlockVictim(s)
      PROVE  Kept(p)
  BY <1>1, <1>7 DEF RowVanished, Abort, DeadlockVictim
<1>8. QED
  BY <1>1, <1>2, <1>3, <1>4, <1>5, <1>6, <1>7
     DEF Next, RemovePortrait, StorePortrait, Erased, vars

(* Only a request that copies a photo or has copied one has that photo at  *)
(* hand.                                                                   *)
CopyInv == \A s \in Sessions : pc[s] \notin {"copy", "store"} => photo[s] = None

LEMMA StepCopy ==
  ASSUME TypeOK, CopyInv, [Next]_vars
  PROVE  CopyInv'
<1> SUFFICES ASSUME NEW s \in Sessions, pc'[s] \notin {"copy", "store"}
             PROVE  photo'[s] = None
  BY DEF CopyInv
<1>1. CASE Untouched(s)
  BY <1>1 DEF Untouched, CopyInv
<1>2. CASE PublishStep(s)
  <2>1. CASE BeginPublish(s)
    BY <2>1 DEF BeginPublish, CopyInv
  <2>2. CASE PhotoVanished(s) \/ StoreNew(s) \/ StoreAgain(s)
    BY <2>2, EndIsItsOwn DEF PhotoVanished, StoreNew, StoreAgain, Ended
  <2>3. QED
    BY <1>2, <2>1, <2>2 DEF PublishStep, ClearPhotos, CopyPhoto, PublishWithoutPhoto, Goto, TypeOK
<1>3. CASE ManageStep(s)
  <2>1. CASE Extend(s) \/ Revoke(s) \/ EndApplication(s)
    BY <2>1, EndIsItsOwn DEF Extend, Revoke, EndApplication, Ended
  <2>2. QED
    BY <1>3, <2>1 DEF ManageStep, BeginExtend, BeginRevoke, BeginEnd, CopyInv
<1>4. CASE OpenStep(s)
  <2>1. CASE Notify(s) \/ Answered(s)
    BY <2>1, EndIsItsOwn DEF Answered, CheckNotice, NobodyToNotify, Notify, Ended
  <2>2. QED
    BY <1>4, <2>1 DEF OpenStep, BeginOpen, CountView, CheckNotice, Asked, Answered, CopyInv, copies
<1>5. CASE DeleteStep(s)
  <2>1. CASE PurgeRows(s) \/ EraseApplication(s)
    BY <2>1, EndIsItsOwn DEF PurgeRows, EraseApplication, Ended
  <2>2. QED
    BY <1>5, <2>1
       DEF DeleteStep, BeginPurge, PurgePhotos, BeginErase, ErasePhotos, EraseRows, CopyInv, copies
<1>6. CASE RowVanished(s) \/ Abort(s) \/ DeadlockVictim(s)
  BY <1>6, EndIsItsOwn DEF RowVanished, Abort, DeadlockVictim, Ended
<1>7. QED
  BY <1>1, <1>2, <1>3, <1>4, <1>5, <1>6, OneRequest DEF Own

(* What a purge has chosen is not served, and nobody stores it anew.       *)
PurgeInv ==
  \A s \in Sessions : pc[s] \in Purging => \A n \in doomed[s] :
    /\ n \in Names /\ n.pub \in used /\ ~Active(n.pub)
    /\ \A t \in Sessions : pc[t] \in Publishing /\ origin[t] = "new" => target[t] # n.pub

LEMMA StepPurge ==
  ASSUME Inv, PurgeInv, [Next]_vars
  PROVE  PurgeInv'
<1> USE DEF Inv
<1> SUFFICES ASSUME NEW s \in Sessions, pc'[s] \in Purging, NEW n \in doomed'[s]
             PROVE  /\ n \in Names /\ n.pub \in used' /\ ~Active(n.pub)'
                    /\ \A t \in Sessions :
                         pc'[t] \in Publishing /\ origin'[t] = "new" => target'[t] # n.pub
  BY DEF PurgeInv
<1>1. CASE BeginPurge(s)
  <2>1. PICK p \in Pubs : Stored(p) /\ rows[p].revoked /\ n = NameOf(p)
    BY <1>1 DEF BeginPurge, TypeOK
  <2>2. n.pub = p /\ n \in Names
    BY <2>1, NamesOfRows DEF NameOf
  <2>3. p \in used
    BY <2>1 DEF HolderInv
  <2>4. ASSUME NEW t \in Sessions, pc'[t] \in Publishing, origin'[t] = "new"
        PROVE  target'[t] # p
    <3>1. t # s
      BY <1>1, <2>4 DEF BeginPurge, Goto, TypeOK, Publishing
    <3>2. Untouched(t)
      BY <1>1, <3>1, DeleteIsItsOwn DEF DeleteStep
    <3>3. QED
      BY <2>1, <2>4, <3>2 DEF Untouched, HolderInv
  <2>5. QED
    BY <2>1, <2>2, <2>3, <2>4, UsedGrows, StepRevoked
<1>2. CASE ~BeginPurge(s)
  <2>1. pc[s] \in Purging /\ doomed'[s] = doomed[s]
    BY <1>2, OneRequest, OwnStep DEF Untouched, Purging, PurgePhotos, copies
  <2>2. /\ n \in Names /\ n.pub \in used /\ ~Active(n.pub)
        /\ \A t \in Sessions : pc[t] \in Publishing /\ origin[t] = "new" => target[t] # n.pub
    BY <2>1 DEF PurgeInv
  <2>3. n.pub \in Pubs
    BY <2>2 DEF Names
  <2>4. ~Active(n.pub)'
    <3>1. ASSUME NEW t \in Sessions, StoreNew(t)
          PROVE  target[t] # n.pub
      BY <2>2, <3>1 DEF StoreNew, Publishing
    <3>2. QED
      BY <2>2, <2>3, <3>1, RowsStep, StoreNewRow, StoreAgainRow DEF NothingServedAnew
  <2>5. ASSUME NEW t \in Sessions, pc'[t] \in Publishing, origin'[t] = "new"
        PROVE  target'[t] # n.pub
    <3>1. CASE BeginPublish(t)
      <4>1. target'[t] \notin used
        BY <2>5, <3>1 DEF BeginPublish, TypeOK
      <4>2. QED
        BY <2>2, <4>1
    <3>2. CASE Continues(t)
      BY <2>2, <2>5, <3>2 DEF Continues, Holding, Publishing
    <3>3. QED
      BY <2>5, <3>1, <3>2, HolderStep DEF Holding, BeginEnd, Goto, TypeOK, Publishing
  <2>6. QED
    BY <2>2, <2>4, <2>5, UsedGrows
<1>3. QED
  BY <1>1, <1>2

--------------------------------------------------------------------------
Copying(p) == \E s \in Sessions : pc[s] \in {"copy", "store"} /\ target[s] = p
Erasure == \E s \in Sessions : pc[s] \in {"eraseRows", "eraseApplication"}
CopyOf(p, x) == [pub |-> p, ext |-> x.ext, look |-> x.look]

(* The copy of what is served, and of what is about to be stored, is on    *)
(* the volume, as long as no request failed and no erasure deletes rows.   *)
FrozenInv ==
  "abort" \notin mishaps /\ ~Erasure =>
    /\ \A p \in Pubs : Active(p) /\ rows[p].photo # None /\ ~Copying(p) =>
         CopyOf(p, rows[p].photo) \in disk
    /\ \A s \in Sessions :
         pc[s] = "store" /\ photo[s] # None /\ (origin[s] = "active" => Active(target[s])) =>
           CopyOf(target[s], photo[s]) \in disk

(* A request under the Application lock is the only one.                   *)
LEMMA OneHolder ==
  ASSUME LockInv, NEW s \in Sessions, NEW t \in Sessions,
         pc[s] \in Holding, pc[t] \in Holding
  PROVE  s = t
  BY DEF LockInv, Holding

(* What is served after a step was served before, or has just been stored. *)
LEMMA ServedBefore ==
  ASSUME TypeOK, TargetInv, [Next]_vars, NEW p \in Pubs, Active(p)'
  PROVE  Active(p) \/ \E s \in Sessions : StoreNew(s) /\ p = target[s]
  BY RowsStep, StoreNewRow, StoreAgainRow DEF NothingServedAnew

(* Copying ends with the row.                                              *)
LEMMA CopyingEnds ==
  ASSUME TypeOK, [Next]_vars, NEW p \in Pubs, Copying(p), ~Copying(p)', "abort" \notin mishaps'
  PROVE  \E s \in Sessions : target[s] = p /\ (StoreNew(s) \/ StoreAgain(s))
<1>1. PICK s \in Sessions : pc[s] \in {"copy", "store"} /\ target[s] = p
  BY DEF Copying
<1>2. ~Untouched(s)
  BY <1>1 DEF Copying, Untouched
<1>3. Own(s)
  BY <1>2, OneRequest
<1>4. ASSUME LeavesFiles(s)'
      PROVE  FALSE
  <2>1. pc'[s] \in {"copy", "store"}
    BY <1>1, <1>3, <1>4, OwnStep DEF LeavesFiles, PurgePhotos, ErasePhotos, EraseRows
  <2>2. target'[s] # p
    BY <2>1 DEF Copying
  <2>3. QED
    BY <1>1, <1>3, <2>1, <2>2, OwnStep DEF ClearPhotos, CopyPhoto, PublishWithoutPhoto, copies
<1>5. QED
  BY <1>1, <1>3, <1>4, OwnEnd DEF LeavesFiles, PurgeRows, EraseApplication

(* An erasure that deletes rows ends with all of them.                     *)
LEMMA ErasureEnds ==
  ASSUME Inv, [Next]_vars, Erasure, ~Erasure', "abort" \notin mishaps'
  PROVE  /\ \A p \in Pubs : ~Stored(p)'
         /\ \A s \in Sessions : pc'[s] \notin Publishing
<1> USE DEF Inv
<1>1. PICK e \in Sessions : pc[e] \in {"eraseRows", "eraseApplication"}
  BY DEF Erasure
<1>2. Own(e)
  BY <1>1, OneRequest DEF Erasure, Untouched
<1>3. ~LeavesFiles(e)'
  BY <1>1, <1>2, OwnStep
     DEF Erasure, LeavesFiles, ClearPhotos, CopyPhoto, PublishWithoutPhoto, PurgePhotos
<1>4. EraseApplication(e)
  BY <1>1, <1>2, <1>3, OwnEnd DEF LeavesFiles, StoreNew, StoreAgain, PurgeRows
<1>5. ASSUME NEW s \in Sessions, pc'[s] \in Publishing
      PROVE  FALSE
  <2>1. ~BeginPublish(s)
    BY <1>4 DEF BeginPublish, EraseApplication, tables
  <2>2. Continues(s)
    BY <1>5, <2>1, HolderStep DEF Holding, BeginEnd, Goto, TypeOK, Publishing
  <2>3. QED
    BY <1>4, <2>2, NoneAssumption DEF Continues, LockInv, Holding, EraseApplication, ApplicationFree
<1>6. QED
  BY <1>4, <1>5 DEF EraseApplication, Stored

LEMMA StepFrozen ==
  ASSUME Inv, CopyInv, PurgeInv, FrozenInv, [Next]_vars
  PROVE  FrozenInv'
<1> USE DEF Inv
<1> SUFFICES ASSUME "abort" \notin mishaps', ~Erasure'
    PROVE  /\ \A p \in Pubs : Active(p)' /\ rows'[p].photo # None /\ ~Copying(p)' =>
                CopyOf(p, rows'[p].photo) \in disk'
           /\ \A s \in Sessions :
                pc'[s] = "store" /\ photo'[s] # None
                  /\ (origin'[s] = "active" => Active(target[s])') =>
                    CopyOf(target'[s], photo'[s]) \in disk'
  BY DEF FrozenInv, CopyOf
<1>1. "abort" \notin mishaps
  BY MishapsGrow
<1>2. CASE Erasure
  BY <1>2, ErasureEnds DEF Active, Publishing
<1>3. CASE ~Erasure
  <2>1. ~\E e \in Sessions : ErasePhotos(e)
    BY <1>3 DEF Erasure, ErasePhotos, Goto, TypeOK
  <2>2. ASSUME NEW p \in Pubs, Active(p)', rows'[p].photo # None, ~Copying(p)'
        PROVE  CopyOf(p, rows'[p].photo) \in disk'
    <3>1. CASE \E s \in Sessions : target[s] = p /\ (StoreNew(s) \/ StoreAgain(s))
      <4>1. PICK s \in Sessions : target[s] = p /\ (StoreNew(s) \/ StoreAgain(s))
        BY <3>1
      <4>2. pc[s] = "store" /\ rows'[p].photo = photo[s] /\ disk' = disk
        <5>1. CASE StoreNew(s)
          BY <4>1, <5>1 DEF StoreNew, NewRow, TypeOK, volume
        <5>2. CASE StoreAgain(s)
          <6>1. rows[p] \in Rows
            BY <4>1, <5>2, StoredIsRow DEF StoreAgain
          <6>2. Republished(s).photo = photo[s]
            BY <4>1, <6>1 DEF Republished, Rows
          <6>3. QED
            BY <4>1, <5>2, <6>2 DEF StoreAgain, TypeOK, volume
        <5>3. QED
          BY <4>1, <5>1, <5>2
      <4>3. origin[s] = "active" => Active(p)
        BY <2>2, <4>1, StoreAgainRow DEF StoreNew
      <4>4. QED
        BY <1>1, <1>3, <2>2, <4>1, <4>2, <4>3 DEF FrozenInv
    <3>2. CASE ~\E s \in Sessions : target[s] = p /\ (StoreNew(s) \/ StoreAgain(s))
      <4>1. Active(p)
        BY <2>2, <3>2, ServedBefore
      <4>2. rows'[p].photo = rows[p].photo
        BY <2>2, <3>2, RowStep DEF Active, Kept, StoredNew, StoredAgain, Counted
      <4>3. ~Copying(p)
        BY <2>2, <3>2, CopyingEnds
      <4>4. CopyOf(p, rows'[p].photo) \in disk
        BY <1>1, <1>3, <2>2, <4>1, <4>2, <4>3 DEF FrozenInv
      <4>5. CopyOf(p, rows'[p].photo).pub = p
        BY DEF CopyOf
      <4>6. ASSUME NEW s \in Sessions, ClearPhotos(s) \/ PublishWithoutPhoto(s)
            PROVE  target[s] # p
        BY <2>2, <4>6 DEF ClearPhotos, PublishWithoutPhoto, Copying, Goto, TypeOK, copies
      <4>7. CASE \E s \in Sessions : ClearPhotos(s) \/ PublishWithoutPhoto(s)
        <5>1. PICK s \in Sessions : ClearPhotos(s) \/ PublishWithoutPhoto(s)
          BY <4>7
        <5>2. target[s] # p
          BY <4>6, <5>1
        <5>3. CASE ClearPhotos(s)
          BY <4>4, <4>5, <5>2, <5>3 DEF ClearPhotos, Cleared, PhotoOf
        <5>4. CASE PublishWithoutPhoto(s)
          <6>1. ~Named(CopyOf(p, rows'[p].photo),
                       {NameOf(q) : q \in {r \in {target[s]} : origin[s] = "active" /\ Stored(r)}})
            BY <4>5, <5>2 DEF Named, NameOf
          <6>2. QED
            BY <4>4, <5>4, <6>1, DeleteDeletes DEF PublishWithoutPhoto
        <5>5. QED
          BY <5>1, <5>3, <5>4
      <4>8. CASE \E s \in Sessions : PurgePhotos(s)
        <5>1. PICK s \in Sessions : PurgePhotos(s)
          BY <4>8
        <5>2. \A n \in doomed[s] : n.pub # p
          BY <4>1, <5>1 DEF PurgePhotos, PurgeInv, Purging
        <5>3. QED
          <6>1. ~Named(CopyOf(p, rows'[p].photo), doomed[s])
            BY <4>5, <5>2 DEF Named
          <6>2. QED
            BY <4>4, <5>1, <6>1, DeleteDeletes DEF PurgePhotos
      <4>9. QED
        BY <2>1, <4>4, <4>7, <4>8, DiskStep DEF CopyPhoto
    <3>3. QED
      BY <3>1, <3>2
  <2>3. ASSUME NEW s \in Sessions, pc'[s] = "store", photo'[s] # None,
               origin'[s] = "active" => Active(target[s])'
        PROVE  CopyOf(target'[s], photo'[s]) \in disk'
    <3>1. CASE CopyPhoto(s)
      BY <3>1 DEF CopyPhoto, CopyOf, TypeOK
    <3>2. CASE PublishWithoutPhoto(s)
      BY <2>3, <3>2 DEF PublishWithoutPhoto, CopyInv, copies
    <3>3. CASE Untouched(s)
      <4>1. /\ pc[s] = "store" /\ photo[s] = photo'[s] /\ target'[s] = target[s]
            /\ origin'[s] = origin[s]
        BY <2>3, <3>3 DEF Untouched
      <4>2. target[s] \in Pubs
        BY <4>1 DEF TargetInv, Publishing
      <4>3. ASSUME NEW t \in Sessions, pc[t] \in Publishing
            PROVE  t = s
        BY <4>1, <4>3, OneHolder DEF Holding, Publishing
      <4>4. ~\E t \in Sessions : StoreNew(t)
        BY <2>3, <4>3, EndIsItsOwn DEF StoreNew, Ended, Publishing
      <4>5. origin[s] = "active" => Active(target[s])
        BY <2>3, <4>1, <4>2, <4>4, ServedBefore
      <4>6. CopyOf(target[s], photo[s]) \in disk
        BY <1>1, <1>3, <2>3, <4>1, <4>5 DEF FrozenInv
      <4>7. ~\E t \in Sessions : ClearPhotos(t) \/ CopyPhoto(t) \/ PublishWithoutPhoto(t)
        BY <4>1, <4>3 DEF ClearPhotos, CopyPhoto, PublishWithoutPhoto, Publishing
      <4>8. CASE \E t \in Sessions : PurgePhotos(t)
        <5>1. PICK t \in Sessions : PurgePhotos(t)
          BY <4>8
        <5>2. origin[s] = "new" \/ origin[s] = "active"
          BY DEF TypeOK
        <5>3. \A n \in doomed[t] : n.pub # target[s]
          BY <4>1, <4>5, <5>1, <5>2 DEF PurgePhotos, PurgeInv, Purging, Publishing
        <5>4. QED
          <6>1. ~Named(CopyOf(target[s], photo[s]), doomed[t])
            BY <5>3 DEF Named, CopyOf
          <6>2. CopyOf(target[s], photo[s]) \in disk'
            BY <4>6, <5>1, <6>1, DeleteDeletes DEF PurgePhotos
          <6>3. QED
            BY <4>1, <6>2 DEF CopyOf
      <4>9. QED
        BY <2>1, <4>1, <4>6, <4>7, <4>8, DiskStep
    <3>4. QED
      BY <2>3, <3>1, <3>2, <3>3, OneRequest, OwnStep
  <2>4. QED
    BY <2>2, <2>3
<1>4. QED
  BY <1>2, <1>3

--------------------------------------------------------------------------
(* A row goes with a purge that chose it, or with the Application.         *)
LEMMA RowGoes ==
  ASSUME TypeOK, TargetInv, ViewInv, [Next]_vars, NEW p \in Pubs, Stored(p), ~Stored(p)'
  PROVE  \E s \in Sessions : \/ PurgeRows(s) /\ \E n \in doomed[s] : n.pub = p
                             \/ EraseApplication(s)
<1> USE RowAssumption DEF Stored, tables
<1>1. rows'[p] \notin Rows /\ rows' # rows
  OBVIOUS
<1>2. ASSUME NEW s \in Sessions, PublishStep(s)
      PROVE  FALSE
  <2>1. CASE StoreNew(s)
    <3>1. NewRow(s) \in Rows
      BY <2>1, BoundAssumption DEF NewRow, Rows, TypeOK
    <3>2. QED
      BY <1>1, <2>1, <3>1 DEF StoreNew, TypeOK
  <2>2. CASE StoreAgain(s)
    <3>1. target[s] \in Pubs /\ Stored(target[s]) /\ rows[target[s]] \in Rows
      BY <2>2, StoredIsRow DEF StoreAgain, TargetInv, Publishing
    <3>2. Republished(s) \in Rows
      BY <3>1 DEF Republished, Rows, TypeOK
    <3>3. QED
      BY <1>1, <2>2, <3>1, <3>2 DEF StoreAgain, TypeOK
  <2>3. QED
    BY <1>1, <1>2, <2>1, <2>2
       DEF PublishStep, BeginPublish, ClearPhotos, CopyPhoto, PhotoVanished, PublishWithoutPhoto
<1>3. ASSUME NEW s \in Sessions, ManageStep(s)
      PROVE  FALSE
  <2>1. CASE Extend(s) \/ Revoke(s) \/ (EndApplication(s) /\ target[s] # None)
    <3>1. target[s] \in Pubs /\ Stored(target[s]) /\ rows[target[s]] \in Rows
      BY <2>1, StoredIsRow DEF Extend, Revoke, EndApplication, TargetInv, TypeOK
    <3>2. /\ [rows[target[s]] EXCEPT !.expired = FALSE] \in Rows
          /\ [rows[target[s]] EXCEPT !.revoked = TRUE] \in Rows
      BY <3>1 DEF Rows
    <3>3. QED
      BY <1>1, <2>1, <3>1, <3>2 DEF Extend, Revoke, EndApplication, TypeOK
  <2>2. QED
    BY <1>1, <1>3, <2>1 DEF ManageStep, BeginExtend, BeginRevoke, BeginEnd, EndApplication
<1>4. ASSUME NEW s \in Sessions, OpenStep(s)
      PROVE  FALSE
  <2>1. CASE CountView(s)
    <3>1. target[s] \in Pubs /\ rows[target[s]] \in Rows
      BY <2>1, StoredIsRow DEF CountView, TargetInv, Opening
    <3>2. count[s] + 1 \in 0..MaxOpens
      BY <2>1, BoundAssumption DEF CountView, ViewInv, TypeOK
    <3>3. [rows[target[s]] EXCEPT !.views = count[s] + 1] \in Rows
      BY <3>1, <3>2 DEF Rows
    <3>4. QED
      BY <1>1, <2>1, <3>1, <3>3 DEF CountView, TypeOK
  <2>2. QED
    BY <1>1, <1>4, <2>1 DEF OpenStep, BeginOpen, CheckNotice, NobodyToNotify, Notify
<1>5. ASSUME NEW s \in Sessions, DeleteStep(s)
      PROVE  EraseApplication(s) \/ (PurgeRows(s) /\ \E n \in doomed[s] : n.pub = p)
  <2>1. CASE PurgeRows(s)
    BY <1>1, <2>1 DEF PurgeRows, TypeOK
  <2>2. QED
    BY <1>1, <1>5, <2>1
       DEF DeleteStep, BeginPurge, PurgePhotos, BeginErase, ErasePhotos, EraseRows
<1>6. ASSUME NEW q \in Pubs, Expire(q)
      PROVE  FALSE
  <2>1. [rows[q] EXCEPT !.expired = TRUE] \in Rows
    BY <1>6, StoredIsRow DEF Expire, Rows
  <2>2. QED
    BY <1>1, <1>6, <2>1 DEF Expire, TypeOK
<1>7. QED
  BY <1>1, <1>2, <1>3, <1>4, <1>5, <1>6
     DEF Next, RowVanished, Abort, DeadlockVictim, RemovePortrait, StorePortrait, Erased, vars

(* Notifications come with an opened link and go with the Consultant.      *)
LEMMA NoticeStep ==
  ASSUME [Next]_vars
  PROVE  notices' = notices \/ \E s \in Sessions : Notify(s) \/ EraseApplication(s)
<1> USE DEF tables
<1>1. ASSUME NEW s \in Sessions, PublishStep(s)
      PROVE  notices' = notices
  BY <1>1 DEF PublishStep, BeginPublish, ClearPhotos, CopyPhoto, PhotoVanished,
              PublishWithoutPhoto, StoreNew, StoreAgain
<1>2. ASSUME NEW s \in Sessions, ManageStep(s)
      PROVE  notices' = notices
  BY <1>2 DEF ManageStep, BeginExtend, BeginRevoke, Extend, Revoke, BeginEnd, EndApplication
<1>3. ASSUME NEW s \in Sessions, OpenStep(s), ~Notify(s)
      PROVE  notices' = notices
  BY <1>3 DEF OpenStep, BeginOpen, CountView, CheckNotice, NobodyToNotify
<1>4. ASSUME NEW s \in Sessions, DeleteStep(s), ~EraseApplication(s)
      PROVE  notices' = notices
  BY <1>4 DEF DeleteStep, BeginPurge, PurgePhotos, PurgeRows, BeginErase, ErasePhotos, EraseRows
<1>5. QED
  BY <1>1, <1>2, <1>3, <1>4
     DEF Next, RowVanished, Abort, DeadlockVictim, Expire, RemovePortrait, StorePortrait,
         Erased, vars

(* The photos that no failed deletion left.                                *)
Files == disk \ stuck

(* A deletion leaves none of them with a name it deletes.                  *)
LEMMA DeletedFiles ==
  ASSUME NEW names, Delete(names), NEW f \in Files'
  PROVE  f \in Files /\ ~Named(f, names)
  BY DeleteDeletes DEF Files

LEMMA ClearedFiles ==
  ASSUME NEW s \in Sessions, ClearPhotos(s), NEW f \in Files'
  PROVE  f \in Files /\ f.pub # target[s]
  BY DEF Files, ClearPhotos, Cleared, PhotoOf

(* Whatever else a step does to the files, only a copy adds one.           *)
LEMMA FileComes ==
  ASSUME [Next]_vars, NEW f \in Files', f \notin Files
  PROVE  \E s \in Sessions :
           /\ CopyPhoto(s)
           /\ f = [pub |-> target[s], ext |-> portrait.ext, look |-> portrait.look]
<1>1. ASSUME NEW s \in Sessions, PublishWithoutPhoto(s) \/ PurgePhotos(s) \/ ErasePhotos(s)
      PROVE  FALSE
  BY <1>1, DeletedFiles DEF PublishWithoutPhoto, PurgePhotos, ErasePhotos
<1>2. PICK s \in Sessions : CopyPhoto(s)
  BY <1>1, ClearedFiles, DiskStep DEF Files
<1>3. QED
  BY <1>2 DEF CopyPhoto, Files

--------------------------------------------------------------------------
(* Files, rows and requests, as long as nothing happened that the code     *)
(* does not repair.                                                        *)

Clean == mishaps \subseteq {"opens", "silence"}

(* Every file is named by its row, or about to be.                         *)
FilesNamed ==
  \A f \in Files :
    \/ \E s \in Sessions : pc[s] = "store" /\ target[s] = f.pub
    \/ Stored(f.pub) /\ rows[f.pub].photo = [ext |-> f.ext, look |-> f.look]

(* A publish has cleared the files of its publication, and copied one.     *)
CopiesMatch ==
  \A s \in Sessions : \A f \in Files : f.pub = target[s] =>
    /\ pc[s] # "copy"
    /\ pc[s] = "store" => photo[s] = [ext |-> f.ext, look |-> f.look]

(* A purge finds the files of what it chose, and nobody publishes it.      *)
PurgesReach ==
  \A s \in Sessions : pc[s] \in Purging => \A n \in doomed[s] :
    /\ \A t \in Sessions : pc[t] \in Publishing => target[t] # n.pub
    /\ \A f \in Files : f.pub = n.pub => pc[s] = "purgePhotos" /\ f.ext = n.ext

(* Nobody publishes or opens during an erasure, or after.                  *)
ErasesAlone ==
  \A s, t \in Sessions :
    pc[s] \in Publishing \cup Opening => pc[t] \notin Erasing /\ app # "gone"

(* An erasure finds all files and all notifications, and leaves nothing    *)
(* but what it failed to delete.                                           *)
ErasesReach ==
  \A s \in Sessions :
    /\ pc[s] = "erasePhotos" => \A f \in Files : Named(f, doomed[s])
    /\ pc[s] \in {"eraseRows", "eraseApplication"} => Files = {}
    /\ pc[s] = "eraseApplication" =>
         \A p \in Pubs, a \in Agents : notices[p][a] > 0 => [pub |-> p, user |-> a] \in doomed[s]

NothingLeft ==
  app = "gone" => Files = {} /\ \A p \in Pubs : ~Stored(p) /\ Unnoticed(p)

TidyNow ==
  FilesNamed /\ CopiesMatch /\ PurgesReach /\ ErasesAlone /\ ErasesReach /\ NothingLeft

TidyInv == Clean => TidyNow

(* Who stores a photo stops doing so with the row, or fails on the record. *)
LEMMA StoringEnds ==
  ASSUME TypeOK, [Next]_vars, Clean', NEW s \in Sessions, pc[s] = "store", ~Untouched(s)
  PROVE  StoreNew(s) \/ StoreAgain(s)
<1>1. Own(s) /\ "abort" \notin mishaps'
  BY OneRequest DEF Clean
<1>2. ~LeavesFiles(s)'
  BY <1>1, OwnStep
     DEF LeavesFiles, ClearPhotos, CopyPhoto, PublishWithoutPhoto, PurgePhotos, ErasePhotos, EraseRows
<1>3. QED
  BY <1>1, <1>2, OwnEnd DEF LeavesFiles, PurgeRows, EraseApplication

(* What a publish stores is a row.                                         *)
LEMMA StoreStores ==
  ASSUME TypeOK, TargetInv, NEW s \in Sessions, StoreNew(s) \/ StoreAgain(s)
  PROVE  rows'[target[s]] # None /\ rows'[target[s]].photo = photo[s]
<1>1. target[s] \in Pubs
  BY DEF StoreNew, StoreAgain, TargetInv, Publishing
<1>2. CASE StoreNew(s)
  <2>1. NewRow(s) \in Rows /\ NewRow(s).photo = photo[s]
    BY <1>2, BoundAssumption DEF NewRow, Rows, TypeOK
  <2>2. QED
    BY <1>1, <1>2, <2>1, RowAssumption DEF StoreNew, TypeOK, Stored
<1>3. CASE StoreAgain(s)
  <2>1. rows[target[s]] \in Rows
    BY <1>1, <1>3, StoredIsRow DEF StoreAgain
  <2>2. Republished(s) \in Rows /\ Republished(s).photo = photo[s]
    BY <2>1 DEF Republished, Rows, TypeOK
  <2>3. QED
    BY <1>1, <1>3, <2>2, RowAssumption DEF StoreAgain, TypeOK, Stored
<1>4. QED
  BY <1>2, <1>3

LEMMA StepFilesNamed ==
  ASSUME Inv, [Next]_vars, Clean', TidyNow
  PROVE  FilesNamed'
<1> USE DEF Inv
<1> SUFFICES ASSUME NEW f \in Files'
             PROVE  \/ \E s \in Sessions : pc'[s] = "store" /\ target'[s] = f.pub
                    \/ Stored(f.pub)' /\ rows'[f.pub].photo = [ext |-> f.ext, look |-> f.look]
  BY DEF FilesNamed
<1>1. CASE f \notin Files
  BY <1>1, FileComes DEF CopyPhoto, Goto, TypeOK
<1>2. CASE f \in Files
  <2>1. f.pub \in Pubs
    BY <1>2 DEF TypeOK, Copies, Files
  <2>2. CASE \E s \in Sessions : pc[s] = "store" /\ target[s] = f.pub
    <3>1. PICK s \in Sessions : pc[s] = "store" /\ target[s] = f.pub
      BY <2>2
    <3>2. CASE Untouched(s)
      BY <3>1, <3>2 DEF Untouched
    <3>3. CASE ~Untouched(s)
      <4>1. photo[s] = [ext |-> f.ext, look |-> f.look]
        BY <1>2, <3>1 DEF TidyNow, CopiesMatch
      <4>2. QED
        BY <3>1, <3>3, <4>1, StoringEnds, StoreStores DEF Stored
    <3>4. QED
      BY <3>2, <3>3
  <2>3. CASE ~\E s \in Sessions : pc[s] = "store" /\ target[s] = f.pub
    <3>1. Stored(f.pub) /\ rows[f.pub].photo = [ext |-> f.ext, look |-> f.look]
      BY <1>2, <2>3 DEF TidyNow, FilesNamed
    <3>2. Stored(f.pub)'
      <4>1. ASSUME NEW s \in Sessions, PurgeRows(s), NEW n \in doomed[s], n.pub = f.pub
            PROVE  FALSE
        BY <1>2, <4>1 DEF TidyNow, PurgesReach, PurgeRows, Purging
      <4>2. ASSUME NEW s \in Sessions, EraseApplication(s)
            PROVE  FALSE
        BY <1>2, <4>2 DEF TidyNow, ErasesReach, EraseApplication
      <4>3. QED
        BY <2>1, <3>1, <4>1, <4>2, RowGoes
    <3>3. Kept(f.pub) \/ \E s \in Sessions : target[s] = f.pub /\ Counted(s)
      BY <2>1, <2>3, <3>2, RowStep DEF StoredNew, StoredAgain, StoreNew, StoreAgain
    <3>4. QED
      BY <3>1, <3>2, <3>3 DEF Kept, Counted
  <2>4. QED
    BY <2>2, <2>3
<1>3. QED
  BY <1>1, <1>2

LEMMA StepCopiesMatch ==
  ASSUME Inv, [Next]_vars, Clean', TidyNow
  PROVE  CopiesMatch'
<1> USE DEF Inv
<1> SUFFICES ASSUME NEW s \in Sessions, NEW f \in Files', f.pub = target'[s]
             PROVE  /\ pc'[s] # "copy"
                    /\ pc'[s] = "store" => photo'[s] = [ext |-> f.ext, look |-> f.look]
  BY DEF CopiesMatch
<1>1. CASE ClearPhotos(s)
  BY <1>1, ClearedFiles DEF ClearPhotos
<1>2. CASE CopyPhoto(s)
  <2>1. f \notin Files
    BY <1>2 DEF CopyPhoto, TidyNow, CopiesMatch
  <2>2. f = [pub |-> target[s], ext |-> portrait.ext, look |-> portrait.look]
    BY <1>2, <2>1 DEF CopyPhoto, Files
  <2>3. photo'[s] = portrait /\ portrait \in Photos
    BY <1>2 DEF CopyPhoto, SourceExists, TypeOK
  <2>4. portrait = [ext |-> portrait.ext, look |-> portrait.look]
    BY <2>3 DEF Photos
  <2>5. QED
    BY <1>2, <2>2, <2>3, <2>4 DEF CopyPhoto, Goto, TypeOK
<1>3. CASE PublishWithoutPhoto(s)
  <2>1. f \in Files /\ f.pub = target[s] /\ pc[s] = "snapshot"
    BY <1>3, DeletedFiles DEF PublishWithoutPhoto, copies
  <2>2. \A t \in Sessions : pc[t] # "store"
    BY <2>1, OneHolder DEF Holding, Publishing
  <2>3. Stored(f.pub) /\ rows[f.pub].photo = [ext |-> f.ext, look |-> f.look]
    BY <2>1, <2>2 DEF TidyNow, FilesNamed
  <2>4. origin[s] = "active"
    BY <2>1, <2>3 DEF HolderInv, TypeOK, Publishing
  <2>5. Named(f, {NameOf(target[s])})
    <3>1. rows[f.pub].photo # None
      <4>1. [ext |-> f.ext, look |-> f.look] \in Photos
        BY <2>1 DEF TypeOK, Copies, Photos, Files
      <4>2. QED
        BY <2>3, <4>1, PhotoAssumption
    <3>2. QED
      BY <2>1, <2>3, <3>1 DEF Named, NameOf, Path
  <2>6. QED
    <3>1. ~Named(f, {NameOf(p) : p \in {q \in {target[s]} : origin[s] = "active" /\ Stored(q)}})
      BY <1>3, DeletedFiles DEF PublishWithoutPhoto
    <3>2. QED
      BY <2>1, <2>3, <2>4, <2>5, <3>1 DEF Named
<1>4. CASE Untouched(s) /\ pc[s] \in {"copy", "store"}
  <2>1. f \in Files
    <3>1. ASSUME NEW t \in Sessions, CopyPhoto(t)
          PROVE  FALSE
      <4>1. t = s
        BY <1>4, <3>1, OneHolder DEF CopyPhoto, Holding, Publishing
      <4>2. QED
        BY <1>4, <3>1, <4>1 DEF CopyPhoto, Goto, Untouched, TypeOK
    <3>2. QED
      BY <3>1, FileComes
  <2>2. QED
    BY <1>4, <2>1 DEF Untouched, TidyNow, CopiesMatch
<1>5. QED
  BY <1>1, <1>2, <1>3, <1>4, OneRequest, OwnStep DEF Untouched

LEMMA StepPurgesReach ==
  ASSUME Inv, PurgeInv, [Next]_vars, Clean', TidyNow
  PROVE  PurgesReach'
<1> USE DEF Inv
<1> SUFFICES ASSUME NEW s \in Sessions, pc'[s] \in Purging, NEW n \in doomed'[s]
             PROVE  /\ \A t \in Sessions : pc'[t] \in Publishing => target'[t] # n.pub
                    /\ \A f \in Files' : f.pub = n.pub => pc'[s] = "purgePhotos" /\ f.ext = n.ext
  BY DEF PurgesReach
<1>1. CASE BeginPurge(s)
  <2>1. PICK p \in Pubs : Stored(p) /\ rows[p].revoked /\ n = NameOf(p)
    BY <1>1 DEF BeginPurge, TypeOK
  <2>2. n.pub = p /\ n.ext = Path(p)
    BY <2>1 DEF NameOf
  <2>3. pc'[s] = "purgePhotos" /\ Files' = Files /\ "overtaken" \notin mishaps'
    BY <1>1 DEF BeginPurge, Goto, TypeOK, volume, Clean, Files
  <2>4. ASSUME NEW t \in Sessions, pc[t] \in Publishing
        PROVE  target[t] # p
    BY <1>1, <2>1, <2>3, <2>4 DEF BeginPurge, Running
  <2>5. ASSUME NEW t \in Sessions, pc'[t] \in Publishing
        PROVE  target'[t] # p
    <3>1. t # s
      BY <2>3, <2>5 DEF Publishing
    <3>2. Untouched(t)
      BY <1>1, <3>1, DeleteIsItsOwn DEF DeleteStep
    <3>3. QED
      BY <2>4, <2>5, <3>2 DEF Untouched
  <2>6. ASSUME NEW f \in Files, f.pub = p
        PROVE  f.ext = Path(p)
    <3>1. rows[p].photo = [ext |-> f.ext, look |-> f.look]
      BY <2>4, <2>6 DEF TidyNow, FilesNamed, Publishing
    <3>2. [ext |-> f.ext, look |-> f.look] \in Photos
      BY <2>6 DEF TypeOK, Copies, Photos, Files
    <3>3. QED
      BY <3>1, <3>2, PhotoAssumption DEF Path
  <2>7. QED
    BY <2>2, <2>3, <2>5, <2>6
<1>2. CASE ~BeginPurge(s)
  <2>1. pc[s] \in Purging /\ doomed'[s] = doomed[s]
    BY <1>2, OneRequest, OwnStep DEF Untouched, Purging, PurgePhotos, copies
  <2>2. /\ \A t \in Sessions : pc[t] \in Publishing => target[t] # n.pub
        /\ \A f \in Files : f.pub = n.pub => pc[s] = "purgePhotos" /\ f.ext = n.ext
    BY <2>1 DEF TidyNow, PurgesReach
  <2>3. n.pub \in used /\ ~Active(n.pub) /\ n \in Names
    BY <2>1 DEF PurgeInv
  <2>4. ASSUME NEW t \in Sessions, pc'[t] \in Publishing
        PROVE  target'[t] # n.pub
    <3>1. CASE BeginPublish(t)
      BY <2>3, <3>1 DEF BeginPublish, TypeOK
    <3>2. CASE Continues(t)
      BY <2>2, <2>4, <3>2 DEF Continues, Holding, Publishing
    <3>3. QED
      BY <2>4, <3>1, <3>2, HolderStep DEF Holding, BeginEnd, Goto, TypeOK, Publishing
  <2>5. ASSUME NEW f \in Files', f.pub = n.pub
        PROVE  pc'[s] = "purgePhotos" /\ f.ext = n.ext
    <3>1. f \in Files
      BY <2>2, <2>5, FileComes DEF CopyPhoto, Publishing
    <3>2. pc[s] = "purgePhotos" /\ f.ext = n.ext
      BY <2>2, <2>5, <3>1
    <3>3. ~PurgePhotos(s)
      <4>1. n = [pub |-> n.pub, ext |-> n.ext]
        BY <2>3 DEF Names
      <4>2. QED
        BY <2>1, <2>5, <3>2, <4>1, DeletedFiles DEF PurgePhotos, Named
    <3>4. Untouched(s)
      BY <1>2, <3>3, OneRequest, OwnStep DEF Purging
    <3>5. QED
      BY <3>2, <3>4 DEF Untouched
  <2>6. QED
    BY <2>4, <2>5
<1>3. QED
  BY <1>1, <1>2

(* Whoever publishes or opens has just begun to, or did before.            *)
LEMMA PublishesBefore ==
  ASSUME TypeOK, [Next]_vars, NEW s \in Sessions, pc'[s] \in Publishing \cup Opening
  PROVE  \/ BeginPublish(s) \/ \E p \in Pubs : BeginOpen(s, p)
         \/ pc[s] \in Publishing \cup Opening
  BY OneRequest, OwnStep
     DEF Publishing, Opening, Untouched, ClearPhotos, CopyPhoto, PublishWithoutPhoto, CountView,
         Asked, CheckNotice

LEMMA StepErasesAlone ==
  ASSUME Inv, [Next]_vars, Clean', TidyNow
  PROVE  ErasesAlone'
<1> USE DEF Inv
<1>0. "erasure" \notin mishaps'
  BY DEF Clean
<1> SUFFICES ASSUME NEW s \in Sessions, NEW t \in Sessions, pc'[s] \in Publishing \cup Opening
             PROVE  pc'[t] \notin Erasing /\ app' # "gone"
  BY DEF ErasesAlone
<1>1. CASE BeginPublish(s)
  <2>1. Running(Erasing) = {} /\ app' = "live"
    BY <1>0, <1>1 DEF BeginPublish, tables
  <2>2. pc'[t] = pc[t] \/ t = s
    BY <1>1 DEF BeginPublish, Goto, TypeOK
  <2>3. QED
    BY <1>1, <2>1, <2>2 DEF BeginPublish, Goto, TypeOK, Running, Erasing
<1>2. CASE \E p \in Pubs : BeginOpen(s, p)
  <2>1. Running(Erasing) = {} /\ app' = app /\ app # "gone"
    BY <1>0, <1>2 DEF BeginOpen, tables, Serveable, Active, TidyNow, NothingLeft
  <2>2. pc'[t] = pc[t] \/ t = s
    BY <1>2 DEF BeginOpen, Goto, TypeOK
  <2>3. QED
    BY <1>2, <2>1, <2>2 DEF BeginOpen, Goto, TypeOK, Running, Erasing
<1>3. CASE pc[s] \in Publishing \cup Opening
  <2>1. app # "gone" /\ \A e \in Sessions : pc[e] \notin Erasing
    BY <1>3 DEF TidyNow, ErasesAlone
  <2>2. ~\E e \in Sessions : EraseApplication(e)
    BY <2>1 DEF EraseApplication, Erasing
  <2>3. app' # "gone"
    BY <2>1, <2>2, ApplicationStep DEF EndApplication
  <2>4. ASSUME pc'[t] \in Erasing
        PROVE  FALSE
    <3>1. ~BeginErase(t)
      BY <1>0, <1>3 DEF BeginErase, Running
    <3>2. QED
      BY <2>1, <2>4, <3>1, OneRequest, OwnStep DEF Erasing, Untouched, ErasePhotos, EraseRows
  <2>5. QED
    BY <2>3, <2>4
<1>4. QED
  BY <1>1, <1>2, <1>3, PublishesBefore

LEMMA StepErasesReach ==
  ASSUME Inv, [Next]_vars, Clean', TidyNow
  PROVE  ErasesReach'
<1> USE DEF Inv
<1>0. "erasure" \notin mishaps'
  BY DEF Clean
<1> SUFFICES ASSUME NEW s \in Sessions
             PROVE  /\ pc'[s] = "erasePhotos" => \A f \in Files' : Named(f, doomed'[s])
                    /\ pc'[s] \in {"eraseRows", "eraseApplication"} => Files' = {}
                    /\ pc'[s] = "eraseApplication" =>
                         \A p \in Pubs, a \in Agents :
                           notices'[p][a] > 0 => [pub |-> p, user |-> a] \in doomed'[s]
  BY DEF ErasesReach, Named
<1>1. CASE BeginErase(s)
  <2>1. pc'[s] = "erasePhotos" /\ Files' = Files
    BY <1>1 DEF BeginErase, Goto, TypeOK, volume, Files
  <2>2. \A t \in Sessions : pc[t] \notin Publishing
    BY <1>0, <1>1 DEF BeginErase, Running
  <2>3. ASSUME NEW f \in Files
        PROVE  Named(f, doomed'[s])
    <3>1. Stored(f.pub) /\ rows[f.pub].photo = [ext |-> f.ext, look |-> f.look]
      BY <2>2, <2>3 DEF TidyNow, FilesNamed, Publishing
    <3>2. [ext |-> f.ext, look |-> f.look] \in Photos /\ f.pub \in Pubs
      BY <2>3 DEF TypeOK, Copies, Photos, Files
    <3>3. NameOf(f.pub) = [pub |-> f.pub, ext |-> f.ext]
      BY <3>1, <3>2, PhotoAssumption DEF NameOf, Path
    <3>4. QED
      BY <1>1, <3>1, <3>2, <3>3 DEF BeginErase, Named, TypeOK
  <2>4. QED
    BY <2>1, <2>3
<1>2. CASE ErasePhotos(s)
  <2>1. Files' = {}
    BY <1>2, DeletedFiles DEF ErasePhotos, TidyNow, ErasesReach
  <2>2. QED
    BY <1>2, <2>1 DEF ErasePhotos, Goto, TypeOK
<1>3. CASE EraseRows(s)
  <2>1. Files' = {} /\ notices' = notices
    BY <1>3 DEF EraseRows, volume, tables, TidyNow, ErasesReach, Files
  <2>2. ASSUME NEW p \in Pubs, NEW a \in Agents, notices[p][a] > 0
        PROVE  [pub |-> p, user |-> a] \in NoticesOfConsultant
    BY <2>2 DEF NoticesOfConsultant, Notes
  <2>3. QED
    BY <1>3, <2>1, <2>2 DEF EraseRows, Goto, TypeOK
<1>4. CASE Untouched(s) /\ pc[s] \in Erasing
  <2>1. \A t \in Sessions : pc[t] \notin Publishing \cup Opening
    BY <1>4 DEF TidyNow, ErasesAlone
  <2>2. Files' \subseteq Files
    BY <2>1, FileComes DEF CopyPhoto, Publishing
  <2>3. ASSUME NEW p \in Pubs, NEW a \in Agents, notices'[p][a] > 0
        PROVE  notices[p][a] > 0
    <3>1. ~\E t \in Sessions : Notify(t)
      BY <2>1 DEF Notify, Opening
    <3>2. CASE \E t \in Sessions : EraseApplication(t)
      <4>1. PICK t \in Sessions : EraseApplication(t)
        BY <3>2
      <4>2. notices'[p][a] = notices[p][a] \/ notices'[p][a] = 0
        BY <4>1 DEF EraseApplication
      <4>3. QED
        BY <2>3, <4>2
    <3>3. QED
      BY <2>3, <3>1, <3>2, NoticeStep
  <2>4. QED
    BY <1>4, <2>2, <2>3 DEF Untouched, TidyNow, ErasesReach
<1>5. QED
  BY <1>1, <1>2, <1>3, <1>4, OneRequest, OwnStep DEF Untouched, Erasing

LEMMA StepComplete ==
  ASSUME Inv, [Next]_vars, Clean', TidyNow
  PROVE  NothingLeft'
<1> USE DEF Inv
<1> SUFFICES ASSUME app' = "gone"
             PROVE  Files' = {} /\ \A p \in Pubs :
                      rows'[p] = None /\ \A a \in Agents : notices'[p][a] = 0
  BY DEF NothingLeft, Stored, Unnoticed
<1>1. CASE \E s \in Sessions : EraseApplication(s)
  <2>1. PICK s \in Sessions : EraseApplication(s)
    BY <1>1
  <2>2. /\ Files = {}
        /\ \A p \in Pubs, a \in Agents : notices[p][a] > 0 => [pub |-> p, user |-> a] \in doomed[s]
    BY <2>1 DEF EraseApplication, TidyNow, ErasesReach
  <2>3. ASSUME NEW p \in Pubs, NEW a \in Agents
        PROVE  notices'[p][a] = 0
    BY <2>1, <2>2 DEF EraseApplication, TypeOK
  <2>4. QED
    BY <2>1, <2>2, <2>3 DEF EraseApplication, Files
<1>2. CASE app = "gone" /\ ~\E s \in Sessions : EraseApplication(s)
  <2>1. Files = {} /\ \A p \in Pubs : ~Stored(p) /\ \A a \in Agents : notices[p][a] = 0
    BY <1>2 DEF TidyNow, NothingLeft, Unnoticed
  <2>2. \A t \in Sessions : pc[t] \notin Publishing \cup Opening
    BY <1>2 DEF TidyNow, ErasesAlone
  <2>3. Files' = {}
    BY <2>1, <2>2, FileComes DEF CopyPhoto, Publishing
  <2>4. notices' = notices
    BY <1>2, <2>2, NoticeStep DEF Notify, Opening
  <2>5. \A p \in Pubs : ~Stored(p)'
    BY <2>1, <2>2, RowStep
       DEF Kept, StoredNew, StoreNew, StoredAgain, StoreAgain, Counted, Publishing
  <2>6. QED
    BY <2>1, <2>3, <2>4, <2>5 DEF Stored
<1>3. QED
  BY <1>1, <1>2, ApplicationStep DEF EndApplication

LEMMA StepTidy ==
  ASSUME Inv, PurgeInv, TidyInv, [Next]_vars
  PROVE  TidyInv'
<1> SUFFICES ASSUME Clean'
             PROVE  TidyNow'
  BY DEF TidyInv
<1>1. TidyNow
  BY MishapsGrow DEF Clean, TidyInv
<1>2. QED
  BY <1>1, StepFilesNamed, StepCopiesMatch, StepPurgesReach, StepErasesAlone, StepErasesReach,
     StepComplete DEF TidyNow

--------------------------------------------------------------------------
(* Opened links.                                                           *)

(* Nothing was opened that was never stored, nor of an id about to be.     *)
UnopenedInv ==
  /\ \A p \in Pubs : p \notin used => opened[p] = 0 /\ found[p] = {}
  /\ \A s \in Sessions : pc[s] \in Opening => target[s] \in used
  /\ \A s \in Sessions : pc[s] \in Publishing /\ origin[s] = "new" =>
       /\ opened[target[s]] = 0 /\ found[target[s]] = {}
       /\ \A t \in Sessions : pc[t] \in Opening => target[t] # target[s]

(* What an open read of the count has been counted, and what a row says.   *)
CountInv ==
  /\ \A p \in Pubs : Stored(p) => rows[p].views <= opened[p]
  /\ \A s \in Sessions : pc[s] = "open" => count[s] <= opened[target[s]]

(* One request at a time opens a publication: its count is the row's, and  *)
(* nobody else notifies.                                                   *)
OpenersApart ==
  /\ \A s, t \in Sessions :
       pc[s] \in Opening /\ pc[t] \in Opening /\ target[s] = target[t] => s = t
  /\ \A s \in Sessions : pc[s] = "open" /\ Stored(target[s]) => count[s] = rows[target[s]].views
  /\ \A s \in Sessions : pc[s] = "notify" =>
       who[s] \in found[target[s]] /\ notices[target[s]][who[s]] = 0

(* Whoever was found has a notification, or is about to get it.            *)
Told(p) ==
  \A a \in found[p] :
    \/ notices[p][a] = 1
    \/ \E s \in Sessions : pc[s] = "notify" /\ target[s] = p /\ who[s] = a

(* Every open is in the count of the row, and nobody is notified twice.    *)
CountsRight(p) ==
  /\ Stored(p) => rows[p].views = opened[p]
  /\ \A a \in Agents : notices[p][a] <= IF a \in found[p] THEN 1 ELSE 0
  /\ Stored(p) /\ "silence" \notin mishaps => Told(p)

OpenInv == "opens" \notin mishaps => OpenersApart /\ \A p \in Pubs : CountsRight(p)

LEMMA OpenedStep ==
  ASSUME [Next]_vars
  PROVE  opened' = opened \/ \E s \in Sessions : CountView(s)
<1> USE DEF history
<1>1. ASSUME NEW s \in Sessions, PublishStep(s)
      PROVE  opened' = opened
  BY <1>1 DEF PublishStep, BeginPublish, ClearPhotos, CopyPhoto, PhotoVanished,
              PublishWithoutPhoto, StoreNew, StoreAgain
<1>2. ASSUME NEW s \in Sessions, ManageStep(s)
      PROVE  opened' = opened
  BY <1>2 DEF ManageStep, BeginExtend, BeginRevoke, Extend, Revoke, BeginEnd, EndApplication
<1>3. ASSUME NEW s \in Sessions, OpenStep(s), ~CountView(s)
      PROVE  opened' = opened
  BY <1>3 DEF OpenStep, BeginOpen, CheckNotice, NobodyToNotify, Notify
<1>4. ASSUME NEW s \in Sessions, DeleteStep(s)
      PROVE  opened' = opened
  BY <1>4 DEF DeleteStep, BeginPurge, PurgePhotos, PurgeRows, BeginErase, ErasePhotos,
              EraseRows, EraseApplication
<1>5. QED
  BY <1>1, <1>2, <1>3, <1>4
     DEF Next, RowVanished, Abort, DeadlockVictim, Expire, RemovePortrait, StorePortrait,
         Erased, vars

LEMMA FoundStep ==
  ASSUME [Next]_vars
  PROVE  found' = found \/ \E s \in Sessions, a \in Agents : CheckNotice(s, a)
<1> USE DEF history
<1>1. ASSUME NEW s \in Sessions, PublishStep(s)
      PROVE  found' = found
  BY <1>1 DEF PublishStep, BeginPublish, ClearPhotos, CopyPhoto, PhotoVanished,
              PublishWithoutPhoto, StoreNew, StoreAgain
<1>2. ASSUME NEW s \in Sessions, ManageStep(s)
      PROVE  found' = found
  BY <1>2 DEF ManageStep, BeginExtend, BeginRevoke, Extend, Revoke, BeginEnd, EndApplication
<1>3. ASSUME NEW s \in Sessions, OpenStep(s), \A a \in Agents : ~CheckNotice(s, a)
      PROVE  found' = found
  BY <1>3 DEF OpenStep, BeginOpen, CountView, NobodyToNotify, Notify
<1>4. ASSUME NEW s \in Sessions, DeleteStep(s)
      PROVE  found' = found
  BY <1>4 DEF DeleteStep, BeginPurge, PurgePhotos, PurgeRows, BeginErase, ErasePhotos,
              EraseRows, EraseApplication
<1>5. QED
  BY <1>1, <1>2, <1>3, <1>4
     DEF Next, RowVanished, Abort, DeadlockVictim, Expire, RemovePortrait, StorePortrait,
         Erased, vars

LEMMA OpenerStep ==
  ASSUME TypeOK, [Next]_vars, NEW s \in Sessions, pc'[s] \in Opening
  PROVE  \/ \E p \in Pubs : BeginOpen(s, p)
         \/ pc[s] \in Opening /\ target'[s] = target[s]
  BY OneRequest, OwnStep
     DEF Opening, Untouched, CountView, Asked, CheckNotice, copies

(* A request that was to notify does, or ends on the record.               *)
LEMMA NotifierEnds ==
  ASSUME TypeOK, [Next]_vars, NEW s \in Sessions, pc[s] = "notify", ~Untouched(s)
  PROVE  Notify(s) \/ "silence" \in mishaps'
<1>1. Own(s)
  BY OneRequest
<1>2. ~PublishStep(s)
  BY DEF PublishStep, BeginPublish, ClearPhotos, CopyPhoto, PhotoVanished, PublishWithoutPhoto,
         StoreNew, StoreAgain
<1>3. ~ManageStep(s)
  BY DEF ManageStep, BeginExtend, BeginRevoke, Extend, Revoke, BeginEnd, EndApplication
<1>4. ~DeleteStep(s)
  BY DEF DeleteStep, BeginPurge, PurgePhotos, PurgeRows, BeginErase, ErasePhotos, EraseRows,
         EraseApplication
<1>5. ~RowVanished(s)
  BY DEF RowVanished
<1>6. OpenStep(s) => Notify(s)
  BY DEF OpenStep, BeginOpen, CountView, CheckNotice, NobodyToNotify
<1>7. Abort(s) \/ DeadlockVictim(s) => "silence" \in mishaps'
  BY DEF Abort, DeadlockVictim, EndsWith
<1>8. QED
  BY <1>1, <1>2, <1>3, <1>4, <1>5, <1>6, <1>7 DEF Own

LEMMA StepUnopened ==
  ASSUME Inv, UnopenedInv, [Next]_vars
  PROVE  UnopenedInv'
<1> USE DEF Inv
<1>1. ASSUME NEW p \in Pubs, p \notin used'
      PROVE  opened'[p] = 0 /\ found'[p] = {}
  <2>1. p \notin used /\ opened[p] = 0 /\ found[p] = {}
    BY <1>1, UsedGrows DEF UnopenedInv
  <2>2. ASSUME NEW s \in Sessions, CountView(s)
        PROVE  opened'[p] = 0
    BY <2>1, <2>2 DEF CountView, UnopenedInv, Opening, TypeOK
  <2>3. ASSUME NEW s \in Sessions, NEW a \in Agents, CheckNotice(s, a)
        PROVE  found'[p] = {}
    BY <2>1, <2>3 DEF CheckNotice, UnopenedInv, Opening, TypeOK
  <2>4. QED
    BY <2>1, <2>2, <2>3, OpenedStep, FoundStep
<1>2. ASSUME NEW s \in Sessions, pc'[s] \in Opening
      PROVE  target'[s] \in used'
  <2>1. ASSUME NEW p \in Pubs, BeginOpen(s, p)
        PROVE  target'[s] \in used
    BY <2>1 DEF BeginOpen, Serveable, Active, HolderInv, TypeOK
  <2>2. QED
    BY <1>2, <2>1, OpenerStep, UsedGrows DEF UnopenedInv
<1>3. ASSUME NEW s \in Sessions, pc'[s] \in Publishing, origin'[s] = "new"
      PROVE  /\ opened'[target'[s]] = 0 /\ found'[target'[s]] = {}
             /\ \A t \in Sessions : pc'[t] \in Opening => target'[t] # target'[s]
  <2>1. CASE BeginPublish(s)
    <3>1. /\ target'[s] \in Pubs /\ target'[s] \notin used
          /\ opened' = opened /\ found' = found
      BY <1>3, <2>1 DEF BeginPublish, TypeOK
    <3>2. ASSUME NEW t \in Sessions, pc'[t] \in Opening
          PROVE  target'[t] \in used
      <4>1. t # s
        BY <2>1, <3>2 DEF BeginPublish, Goto, TypeOK, Opening
      <4>2. QED
        BY <2>1, <3>2, <4>1, PublishIsItsOwn DEF PublishStep, Untouched, UnopenedInv
    <3>3. QED
      BY <3>1, <3>2 DEF UnopenedInv
  <2>2. CASE Continues(s)
    <3>1. /\ pc[s] \in Publishing /\ origin[s] = "new" /\ target'[s] = target[s]
          /\ target[s] \in Pubs
      BY <1>3, <2>2 DEF Continues, Holding, Publishing, TargetInv
    <3>2. /\ opened[target[s]] = 0 /\ found[target[s]] = {}
          /\ \A t \in Sessions : pc[t] \in Opening => target[t] # target[s]
      BY <3>1 DEF UnopenedInv
    <3>3. opened'[target[s]] = 0
      BY <3>1, <3>2, OpenedStep DEF CountView, TypeOK, Opening
    <3>4. found'[target[s]] = {}
      BY <3>1, <3>2, FoundStep DEF CheckNotice, TypeOK, Opening
    <3>5. ASSUME NEW t \in Sessions, NEW p \in Pubs, BeginOpen(t, p)
          PROVE  target'[t] # target[s]
      BY <3>1, <3>5 DEF BeginOpen, Serveable, Active, HolderInv, TypeOK
    <3>6. QED
      BY <3>1, <3>2, <3>3, <3>4, <3>5, OpenerStep
  <2>3. QED
    BY <1>3, <2>1, <2>2, HolderStep DEF Holding, BeginEnd, Goto, TypeOK, Publishing
<1>4. QED
  BY <1>1, <1>2, <1>3 DEF UnopenedInv

LEMMA StepCount ==
  ASSUME Inv, CountInv, [Next]_vars
  PROVE  CountInv'
<1> USE DEF Inv
<1>0. ASSUME NEW p \in Pubs
      PROVE  opened[p] \in Nat /\ opened'[p] \in Nat /\ opened'[p] >= opened[p]
  <2>1. opened[p] \in Nat
    BY DEF TypeOK
  <2>2. CASE opened' = opened
    BY <2>1, <2>2
  <2>3. ASSUME NEW s \in Sessions, CountView(s)
        PROVE  opened'[p] = opened[p] \/ opened'[p] = opened[p] + 1
    BY <2>3 DEF CountView, TypeOK
  <2>4. QED
    BY <2>1, <2>2, <2>3, OpenedStep
<1>1. ASSUME NEW p \in Pubs, rows'[p] # None
      PROVE  rows'[p].views <= opened'[p]
  <2>1. CASE Kept(p)
    <3>1. rows[p].views \in Nat
      BY <2>1, StoredIsRow, BoundAssumption DEF Kept, Rows
    <3>2. QED
      BY <1>0, <2>1, <3>1 DEF Kept, CountInv
  <2>2. ASSUME NEW s \in Sessions, target[s] = p, StoredNew(s)
        PROVE  rows'[p].views <= opened'[p]
    BY <1>0, <2>2 DEF StoredNew
  <2>3. ASSUME NEW s \in Sessions, target[s] = p, StoredAgain(s)
        PROVE  rows'[p].views <= opened'[p]
    <3>1. rows[p].views \in Nat
      BY <2>3, StoredIsRow, BoundAssumption DEF StoredAgain, Rows
    <3>2. QED
      BY <1>0, <2>3, <3>1 DEF StoredAgain, CountInv
  <2>4. ASSUME NEW s \in Sessions, target[s] = p, Counted(s)
        PROVE  rows'[p].views <= opened'[p]
    <3>1. count[s] <= opened[p] /\ count[s] \in Nat
      BY <2>4, BoundAssumption DEF Counted, CountView, CountInv, TypeOK
    <3>2. opened'[p] = opened[p] + 1
      BY <2>4 DEF Counted, CountView, TypeOK
    <3>3. QED
      BY <1>0, <2>4, <3>1, <3>2 DEF Counted
  <2>5. QED
    BY <1>1, <2>1, <2>2, <2>3, <2>4, RowStep DEF Stored
<1>2. ASSUME NEW s \in Sessions, pc'[s] = "open"
      PROVE  count'[s] <= opened'[target'[s]]
  <2>1. ASSUME NEW p \in Pubs, BeginOpen(s, p)
        PROVE  count'[s] <= opened'[target'[s]]
    <3>1. /\ target'[s] = p /\ count'[s] = rows[p].views /\ opened' = opened
          /\ Stored(p)
      BY <2>1 DEF BeginOpen, TypeOK, Serveable, Active
    <3>2. QED
      BY <3>1 DEF CountInv
  <2>2. CASE Untouched(s)
    <3>1. /\ pc[s] = "open" /\ target'[s] = target[s] /\ count'[s] = count[s]
          /\ target[s] \in Pubs /\ count[s] \in Nat
      BY <1>2, <2>2, BoundAssumption DEF Untouched, TargetInv, Opening, TypeOK
    <3>2. QED
      BY <1>0, <3>1 DEF CountInv
  <2>3. QED
    BY <1>2, <2>1, <2>2, OneRequest, OwnStep
<1>3. QED
  BY <1>1, <1>2 DEF CountInv, Stored

LEMMA StepApart ==
  ASSUME Inv, UnopenedInv, OpenersApart, [Next]_vars, "opens" \notin mishaps'
  PROVE  OpenersApart'
<1> USE DEF Inv
<1>1. ASSUME NEW s \in Sessions, NEW t \in Sessions, s # t, NEW p \in Pubs, BeginOpen(s, p),
             pc'[t] \in Opening
      PROVE  target'[t] # target'[s]
  <2>1. Untouched(t)
    BY <1>1, OpenIsItsOwn DEF OpenStep
  <2>2. \A u \in Running(Opening) : target[u] # p
    BY <1>1 DEF BeginOpen
  <2>3. QED
    BY <1>1, <2>1, <2>2 DEF Untouched, Running, BeginOpen, TypeOK
<1>2. ASSUME NEW s \in Sessions, NEW t \in Sessions,
             pc'[s] \in Opening, pc'[t] \in Opening, target'[s] = target'[t]
      PROVE  s = t
  BY <1>1, <1>2, OpenerStep DEF OpenersApart
<1>3. ASSUME NEW s \in Sessions, pc'[s] = "open", rows'[target'[s]] # None
      PROVE  count'[s] = rows'[target'[s]].views
  <2>1. CASE \E p \in Pubs : BeginOpen(s, p)
    BY <2>1 DEF BeginOpen, tables, TypeOK
  <2>2. CASE Untouched(s)
    <3>1. /\ pc[s] = "open" /\ target'[s] = target[s] /\ count'[s] = count[s]
          /\ target[s] \in Pubs
      BY <1>3, <2>2 DEF Untouched, TargetInv, Opening
    <3>2. ASSUME NEW t \in Sessions, target[t] = target[s]
          PROVE  ~StoredNew(t) /\ ~Counted(t)
      <4>1. ~StoredNew(t)
        BY <3>1, <3>2 DEF StoredNew, StoreNew, UnopenedInv, Publishing, Opening
      <4>2. ASSUME Counted(t)
            PROVE  FALSE
        <5>1. t = s
          BY <3>1, <3>2, <4>2 DEF Counted, CountView, OpenersApart, Opening
        <5>2. QED
          BY <1>3, <4>2, <5>1 DEF Counted, CountView, Goto, TypeOK
      <4>3. QED
        BY <4>1, <4>2
    <3>3. Stored(target[s]) /\ rows'[target[s]].views = rows[target[s]].views
      BY <1>3, <3>1, <3>2, RowStep DEF Kept, StoredAgain, Stored
    <3>4. QED
      BY <3>1, <3>3 DEF OpenersApart
  <2>3. QED
    BY <1>3, <2>1, <2>2, OneRequest, OwnStep
<1>4. ASSUME NEW s \in Sessions, pc'[s] = "notify"
      PROVE  who'[s] \in found'[target'[s]] /\ notices'[target'[s]][who'[s]] = 0
  <2>1. CASE Asked(s)
    <3>1. PICK a \in Agents : CheckNotice(s, a) /\ ~AlreadyNotified(target[s], a)
      BY <2>1 DEF Asked
    <3>2. /\ target[s] \in Pubs /\ target'[s] = target[s] /\ who'[s] = a
          /\ a \in found'[target[s]] /\ notices' = notices
      BY <3>1 DEF CheckNotice, tables, TypeOK, TargetInv, Opening
    <3>3. notices[target[s]][a] \in Nat /\ ~(notices[target[s]][a] > 0)
      BY <3>1, <3>2 DEF AlreadyNotified, TypeOK
    <3>4. QED
      BY <3>2, <3>3
  <2>2. CASE Untouched(s)
    <3>1. /\ pc[s] = "notify" /\ target'[s] = target[s] /\ target[s] \in Pubs /\ who'[s] = who[s]
          /\ who[s] \in found[target[s]] /\ notices[target[s]][who[s]] = 0
      BY <1>4, <2>2 DEF Untouched, TargetInv, Opening, OpenersApart
    <3>2. ASSUME NEW t \in Sessions, Notify(t)
          PROVE  target[t] # target[s]
      <4>1. t # s
        BY <1>4, <3>2, EndIsItsOwn DEF Notify, Ended
      <4>2. QED
        BY <3>1, <3>2, <4>1 DEF Notify, OpenersApart, Opening
    <3>3. who[s] \in Agents
      BY <3>1 DEF TypeOK
    <3>4. notices'[target[s]][who[s]] = 0
      <4>1. ASSUME NEW t \in Sessions, Notify(t)
            PROVE  notices'[target[s]][who[s]] = 0
        BY <3>1, <3>2, <4>1 DEF Notify, TypeOK
      <4>2. ASSUME NEW t \in Sessions, EraseApplication(t)
            PROVE  notices'[target[s]][who[s]] = 0
        BY <3>1, <3>3, <4>2 DEF EraseApplication
      <4>3. QED
        BY <3>1, <4>1, <4>2, NoticeStep
    <3>5. who[s] \in found'[target[s]]
      BY <3>1, FoundStep DEF CheckNotice, TypeOK
    <3>6. QED
      BY <3>1, <3>4, <3>5
  <2>3. QED
    BY <1>4, <2>1, <2>2, OneRequest, OwnStep
<1>5. QED
  BY <1>2, <1>3, <1>4 DEF OpenersApart, Stored

(* The count of the row is right after a step, ...                         *)
LEMMA StepViewsRight ==
  ASSUME Inv, UnopenedInv, OpenersApart, NEW p \in Pubs, CountsRight(p), [Next]_vars,
         rows'[p] # None
  PROVE  rows'[p].views = opened'[p]
<1> USE DEF Inv
<1>1. Stored(p) => rows[p].views = opened[p]
  BY DEF CountsRight
<1>2. CASE \E t \in Sessions : CountView(t)
  <2>1. PICK t \in Sessions : CountView(t)
    BY <1>2
  <2>2. target[t] \in Pubs /\ Stored(target[t]) /\ rows[target[t]] \in Rows
    BY <2>1, StoredIsRow DEF CountView, TargetInv, Opening
  <2>3. [rows[target[t]] EXCEPT !.views = count[t] + 1].views = count[t] + 1
    BY <2>2 DEF Rows
  <2>4. count[t] = rows[target[t]].views
    BY <2>1, <2>2 DEF CountView, OpenersApart
  <2>5. CASE target[t] = p
    BY <1>1, <2>1, <2>2, <2>3, <2>4, <2>5 DEF CountView, TypeOK
  <2>6. CASE target[t] # p
    BY <1>1, <2>1, <2>2, <2>6 DEF CountView, TypeOK, Stored
  <2>7. QED
    BY <2>5, <2>6
<1>3. CASE ~\E t \in Sessions : CountView(t)
  <2>1. opened' = opened
    BY <1>3, OpenedStep
  <2>2. ASSUME NEW s \in Sessions, target[s] = p, StoredNew(s)
        PROVE  opened[p] = 0 /\ rows'[p].views = 0
    BY <2>2 DEF StoredNew, StoreNew, UnopenedInv, Publishing
  <2>3. QED
    BY <1>1, <1>3, <2>1, <2>2, RowStep DEF Kept, StoredAgain, Counted, Stored
<1>4. QED
  BY <1>2, <1>3

(* ... nobody is notified twice, nor who was not found, ...                *)
LEMMA StepNoticesRight ==
  ASSUME Inv, OpenersApart, NEW p \in Pubs, CountsRight(p), [Next]_vars, NEW a \in Agents
  PROVE  notices'[p][a] <= IF a \in found'[p] THEN 1 ELSE 0
<1> USE DEF Inv
<1>1. notices[p][a] <= (IF a \in found[p] THEN 1 ELSE 0) /\ notices[p][a] \in Nat
  BY DEF CountsRight, TypeOK
<1>2. a \in found[p] => a \in found'[p]
  BY FoundStep DEF CheckNotice, TypeOK
<1>3. ASSUME NEW s \in Sessions, Notify(s)
      PROVE  notices'[p][a] = notices[p][a] \/ (notices'[p][a] = 1 /\ a \in found[p])
  <2>1. /\ target[s] \in Pubs /\ who[s] \in found[target[s]] /\ notices[target[s]][who[s]] = 0
        /\ who[s] \in Agents
    BY <1>3 DEF Notify, OpenersApart, TargetInv, Opening, TypeOK
  <2>2. QED
    BY <1>3, <2>1 DEF Notify, TypeOK
<1>4. ASSUME NEW s \in Sessions, EraseApplication(s)
      PROVE  notices'[p][a] = notices[p][a] \/ notices'[p][a] = 0
  BY <1>4 DEF EraseApplication
<1>5. QED
  BY <1>1, <1>2, <1>3, <1>4, NoticeStep

(* ... and whoever is found is notified or about to be.                    *)
LEMMA StepTold ==
  ASSUME Inv, UnopenedInv, OpenersApart, NEW p \in Pubs, CountsRight(p), [Next]_vars,
         rows'[p] # None, "silence" \notin mishaps', NEW a \in found'[p]
  PROVE  \/ notices'[p][a] = 1
         \/ \E s \in Sessions : pc'[s] = "notify" /\ target'[s] = p /\ who'[s] = a
<1> USE DEF Inv
<1>0. a \in Agents /\ "silence" \notin mishaps
  <2>1. found'[p] \subseteq Agents
    BY StepTypes DEF TypeOK
  <2>2. QED
    BY <2>1, MishapsGrow
<1>1. CASE a \notin found[p]
  <2>1. PICK s \in Sessions, b \in Agents : CheckNotice(s, b)
    BY <1>1, FoundStep
  <2>2. target[s] = p /\ b = a /\ notices' = notices
    BY <1>1, <2>1 DEF CheckNotice, TypeOK, tables
  <2>3. CASE AlreadyNotified(p, a)
    <3>1. notices[p][a] > 0 /\ notices[p][a] \in Nat
      BY <1>0, <2>3 DEF AlreadyNotified, TypeOK
    <3>2. notices[p][a] <= 0
      BY <1>0, <1>1 DEF CountsRight
    <3>3. QED
      BY <3>1, <3>2
  <2>4. CASE ~AlreadyNotified(p, a)
    BY <2>1, <2>2, <2>4 DEF CheckNotice, Goto, TypeOK
  <2>5. QED
    BY <2>3, <2>4
<1>2. CASE a \in found[p]
  <2>1. Stored(p)
    <3>1. ASSUME NEW s \in Sessions, target[s] = p
          PROVE  ~StoredNew(s)
      BY <1>2, <3>1 DEF StoredNew, StoreNew, UnopenedInv, Publishing
    <3>2. QED
      BY <3>1, RowStep DEF Kept, StoredAgain, Counted, Stored
  <2>2. ~\E s \in Sessions : EraseApplication(s)
    BY DEF EraseApplication
  <2>3. CASE notices[p][a] = 1
    <3>1. ASSUME NEW s \in Sessions, Notify(s)
          PROVE  target[s] # p \/ who[s] # a
      BY <2>3, <3>1 DEF Notify, OpenersApart
    <3>2. ASSUME NEW s \in Sessions, Notify(s)
          PROVE  notices'[p][a] = 1
      BY <1>0, <2>3, <3>1, <3>2 DEF Notify, TypeOK
    <3>3. QED
      BY <2>2, <2>3, <3>2, NoticeStep
  <2>4. ASSUME NEW s \in Sessions, pc[s] = "notify", target[s] = p, who[s] = a
        PROVE  \/ notices'[p][a] = 1
               \/ \E t \in Sessions : pc'[t] = "notify" /\ target'[t] = p /\ who'[t] = a
    <3>1. CASE Untouched(s)
      BY <2>4, <3>1 DEF Untouched
    <3>2. CASE ~Untouched(s)
      <4>1. Notify(s) /\ notices[p][a] = 0
        BY <2>4, <3>2, NotifierEnds DEF OpenersApart
      <4>2. QED
        BY <1>0, <2>4, <4>1 DEF Notify, TypeOK
    <3>3. QED
      BY <3>1, <3>2
  <2>5. QED
    BY <1>0, <1>2, <2>1, <2>3, <2>4 DEF CountsRight, Told
<1>3. QED
  BY <1>1, <1>2

LEMMA StepOpen ==
  ASSUME Inv, UnopenedInv, OpenInv, [Next]_vars
  PROVE  OpenInv'
<1> SUFFICES ASSUME "opens" \notin mishaps'
             PROVE  OpenersApart' /\ \A p \in Pubs : CountsRight(p)'
  BY DEF OpenInv
<1>1. OpenersApart /\ \A p \in Pubs : CountsRight(p)
  BY MishapsGrow DEF OpenInv
<1>2. ASSUME NEW p \in Pubs
      PROVE  CountsRight(p)'
  <2>1. Stored(p)' => rows'[p].views = opened'[p]
    BY <1>1, StepViewsRight DEF Stored
  <2>2. \A a \in Agents : notices'[p][a] <= IF a \in found'[p] THEN 1 ELSE 0
    BY <1>1, StepNoticesRight
  <2>3. Stored(p)' /\ "silence" \notin mishaps' => Told(p)'
    BY <1>1, StepTold DEF Stored, Told
  <2>4. QED
    BY <2>1, <2>2, <2>3 DEF CountsRight
<1>3. QED
  BY <1>1, <1>2, StepApart

--------------------------------------------------------------------------
(* The invariant of photos and opened links, and what follows from it.     *)

WholeInv ==
  /\ Inv /\ CopyInv /\ PurgeInv /\ FrozenInv /\ TidyInv
  /\ UnopenedInv /\ CountInv /\ OpenInv

LEMMA InitWhole ==
  ASSUME Init
  PROVE  WholeInv
<1>1. Inv
  BY InitInv
<1>2. CopyInv /\ PurgeInv /\ UnopenedInv /\ CountInv
  BY DEF Init, CopyInv, PurgeInv, Purging, UnopenedInv, CountInv, Opening, Publishing, Stored
<1>3. FrozenInv
  BY DEF Init, FrozenInv, Active, Stored
<1>4. TidyInv
  BY DEF Init, TidyInv, TidyNow, Files, FilesNamed, CopiesMatch, PurgesReach, Purging,
         ErasesAlone, Erasing, Opening, Publishing, ErasesReach, NothingLeft
<1>5. OpenInv
  BY DEF Init, OpenInv, OpenersApart, Opening, CountsRight, Told, Stored
<1>6. QED
  BY <1>1, <1>2, <1>3, <1>4, <1>5 DEF WholeInv

LEMMA StepWhole ==
  ASSUME WholeInv, [Next]_vars
  PROVE  WholeInv'
BY StepInv, StepCopy, StepPurge, StepFrozen, StepTidy, StepUnopened, StepCount, StepOpen
   DEF WholeInv, Inv

(* What is served shows the photo that was frozen when it was published,   *)
(* whatever was uploaded, published, purged or extended meanwhile, as long *)
(* as no request failed after it changed the files.                        *)
THEOREM FrozenPhotosStay == Spec => []ServedPhotoIsFrozen
<1>1. WholeInv /\ [Next]_vars => WholeInv'
  BY StepWhole
<1>2. WholeInv => ServedPhotoIsFrozen
  BY DEF WholeInv, FrozenInv, ServedPhotoIsFrozen, Settled, LeavesFiles, Copying, Erasure, CopyOf
<1>3. QED
  BY InitWhole, <1>1, <1>2, PTL DEF Spec

(* Every photo on the volume has a row that names it or is one that a      *)
(* deletion failed on, and an erasure leaves neither rows nor              *)
(* notifications, and no other photos, unless one of the recorded mishaps  *)
(* happened.                                                               *)
THEOREM VolumeMatchesRows == Spec => []NothingIsLeftBehind
<1>1. WholeInv /\ [Next]_vars => WholeInv'
  BY StepWhole
<1>2. WholeInv => NothingIsLeftBehind
  <2>1. WholeInv => TypeOK
    BY DEF WholeInv, Inv
  <2>2. ASSUME WholeInv, Settled, Clean, NEW f \in disk \ stuck
        PROVE  Stored(f.pub) /\ rows[f.pub].photo = [ext |-> f.ext, look |-> f.look]
    BY <2>2 DEF WholeInv, TidyInv, TidyNow, FilesNamed, Files, Settled, LeavesFiles
  <2>3. ASSUME WholeInv, Clean, app = "gone"
        PROVE  disk \subseteq stuck /\ \A p \in Pubs : ~Stored(p) /\ Unnoticed(p)
    BY <2>3 DEF WholeInv, TidyInv, TidyNow, NothingLeft, Files
  <2>4. QED
    BY <2>1, <2>2, <2>3 DEF NothingIsLeftBehind, Clean
<1>3. QED
  BY InitWhole, <1>1, <1>2, PTL DEF Spec

(* No open is counted twice; opens that do not overlap are all counted,    *)
(* and whoever they found to be the one to notify is notified, once.       *)
THEOREM OpensAreCountedOnce == Spec => []OpensAreRecorded
<1>1. WholeInv /\ [Next]_vars => WholeInv'
  BY StepWhole
<1>2. WholeInv => OpensAreRecorded
  <2> SUFFICES ASSUME WholeInv, NEW p \in Pubs
      PROVE  /\ Stored(p) => rows[p].views <= opened[p]
             /\ "opens" \notin mishaps =>
                  /\ Stored(p) => rows[p].views = opened[p]
                  /\ \A a \in Agents : notices[p][a] <= IF a \in found[p] THEN 1 ELSE 0
                  /\ (/\ Stored(p) /\ "silence" \notin mishaps
                      /\ \A s \in Running(Opening) : target[s] # p) =>
                       \A a \in found[p] : notices[p][a] = 1
    BY DEF OpensAreRecorded
  <2>1. Stored(p) => rows[p].views <= opened[p]
    BY DEF WholeInv, CountInv
  <2>2. "opens" \notin mishaps => CountsRight(p)
    BY DEF WholeInv, OpenInv
  <2>3. ASSUME CountsRight(p), Stored(p), "silence" \notin mishaps,
               \A s \in Running(Opening) : target[s] # p, NEW a \in found[p]
        PROVE  notices[p][a] = 1
    BY <2>3 DEF CountsRight, Told, Running, Opening
  <2>4. QED
    BY <2>1, <2>2, <2>3 DEF CountsRight
<1>3. QED
  BY InitWhole, <1>1, <1>2, PTL DEF Spec
=============================================================================
