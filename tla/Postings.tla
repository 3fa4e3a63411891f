------------------------------ MODULE Postings ------------------------------
(* The Jobs of a Site and how a posting is kept from being entered twice:   *)
(* create_job, update_job, close_job, content_hash and find_near_duplicate  *)
(* of backend/jobs/service.py, with the routes that call them.              *)
(*                                                                         *)
(* A posting has a title, a company ("" when none is named) and a           *)
(* description: the set of words it uses, and its wording, which is what    *)
(* the folded text tells apart beyond that set.  Case and white space,      *)
(* which folding drops, are left out: values here are folded ones.          *)
(* A request's SELECTs and its INSERT or UPDATE are steps of their own, as  *)
(* they are under READ COMMITTED, and an UPDATE writes only the columns     *)
(* that differ from the copy the request loaded.                           *)
EXTENDS Naturals, FiniteSets

CONSTANTS
  Sites,
  Requests,    \* requests in progress at a time
  Contents,    \* [title, company, description : [words, wording]]
  AlikeTitles, \* pairs of different titles with a similarity ratio >= 0.8
  MaxJobs,     \* bound on Jobs created
  MaxEdits     \* bound on edits begun

PostingsAssumption ==
  /\ MaxEdits \in Nat /\ MaxJobs \in Nat \ {0}
  /\ \A c \in Contents :
       /\ c = [title |-> c.title, company |-> c.company, description |-> c.description]
       /\ IsFiniteSet(c.description.words)
  /\ Sites # {} /\ Contents # {}

Slots == 1..MaxJobs

VARIABLES
  status,   \* jobs.status: none before the row, open or closed
  site,     \* jobs.site_id
  content,  \* title, company and description
  digest,   \* content_hash
  step,     \* what a request does next
  about,    \* its Site, the Job it edits, and what it submits
  copy,     \* the content and hash it loaded of that Job
  known,    \* the open Jobs it saw when it scanned for near duplicates
  edits,    \* edits begun so far
  edited,   \* history: Jobs that were edited
  stale,    \* history: Jobs last edited from a copy that was out of date
  blind     \* history: <<j, k>>, open Jobs, k came after j's creation had scanned

jobs == <<status, site, content, digest>>
requests == <<step, about, copy, known>>
history == <<edits, edited, stale, blind>>
vars == <<jobs, requests, history>>

AnySite == CHOOSE s \in Sites : TRUE
AnyContent == CHOOSE c \in Contents : TRUE

(* What the folded (title, company, description) triple tells apart.       *)
ContentHash(c) ==
  <<c.title, c.company, c.description.words, c.description.wording>>

NoAbout == [site |-> AnySite, job |-> 1, content |-> AnyContent]
NoCopy == [content |-> AnyContent, digest |-> ContentHash(AnyContent)]

Init ==
  /\ status = [j \in Slots |-> "none"]
  /\ site = [j \in Slots |-> AnySite]
  /\ content = [j \in Slots |-> AnyContent]
  /\ digest = [j \in Slots |-> ContentHash(AnyContent)]
  /\ step = [r \in Requests |-> "idle"]
  /\ about = [r \in Requests |-> NoAbout]
  /\ copy = [r \in Requests |-> NoCopy]
  /\ known = [r \in Requests |-> {}]
  /\ edits = 0
  /\ edited = {}
  /\ stale = {}
  /\ blind = {}

---------------------------------------------------------------------------
(* Near duplicates.                                                        *)

(* |a \cap b| / |a \cup b| >= percent / 100, and 0 when either is empty.    *)
Jaccard(a, b, percent) ==
  /\ a # {} /\ b # {}
  /\ 100 * Cardinality(a \cap b) >= percent * Cardinality(a \cup b)

(* The order of two scores, without the fraction.                          *)
ScoresHigher(a, b, c) ==
  Cardinality(a \cap c) * Cardinality(b \cup c)
    > Cardinality(b \cap c) * Cardinality(a \cup c)

TitleMatches(a, b) == a = b \/ <<a, b>> \in AlikeTitles

CompanyMatches(a, b) == a = "" \/ b = "" \/ a = b

(* Tier 1 is the description alone, tier 2 asks for title and company too. *)
NearMatch(new, old) ==
  LET a == new.description.words
      b == old.description.words
  IN  \/ Jaccard(a, b, 85)
      \/ /\ Jaccard(a, b, 55)
         /\ TitleMatches(new.title, old.title)
         /\ CompanyMatches(new.company, old.company)

Created == {j \in Slots : status[j] # "none"}

OpenAt(s) == {j \in Slots : status[j] = "open" /\ site[j] = s}

Exact(s, h) == {j \in OpenAt(s) : digest[j] = h}

(* Mutant of NearDuplicates: the highest score alone is looked at.         *)
HighestIsMatch(s, new) ==
  LET others == OpenAt(s) \ Exact(s, ContentHash(new))
      words == new.description.words
      best == {j \in others : \A k \in others :
                 ~ScoresHigher(content[k].description.words,
                               content[j].description.words, words)}
  IN  {j \in best : NearMatch(new, content[j])}

(* find_near_duplicate: the Jobs it may answer with, those of the highest   *)
(* score among the matches - a higher score without a match is passed over. *)
NearDuplicates(s, new) ==
  LET matches == {j \in OpenAt(s) \ Exact(s, ContentHash(new)) :
                    NearMatch(new, content[j])}
      words == new.description.words
  IN  {j \in matches : \A k \in matches :
         ~ScoresHigher(content[k].description.words,
                       content[j].description.words, words)}

---------------------------------------------------------------------------
(* Creating.                                                               *)

End(r) ==
  /\ step' = [step EXCEPT ![r] = "idle"]
  /\ about' = [about EXCEPT ![r] = NoAbout]
  /\ copy' = [copy EXCEPT ![r] = NoCopy]
  /\ known' = [known EXCEPT ![r] = {}]

(* create_job's look for an exact match; with one the request is over.     *)
StartCreate(r, s, new) ==
  /\ step[r] = "idle"
  /\ Cardinality(Created) < MaxJobs
  /\ Exact(s, ContentHash(new)) = {}
  /\ step' = [step EXCEPT ![r] = "scan"]
  /\ about' = [about EXCEPT ![r] = [NoAbout EXCEPT !.site = s, !.content = new]]
  /\ UNCHANGED <<jobs, copy, known, history>>

(* A near match is answered and nothing is inserted.                       *)
Scan(r) ==
  /\ step[r] = "scan"
  /\ \/ /\ NearDuplicates(about[r].site, about[r].content) # {}
        /\ End(r)
     \/ /\ NearDuplicates(about[r].site, about[r].content) = {}
        /\ step' = [step EXCEPT ![r] = "insert"]
        /\ known' = [known EXCEPT ![r] = OpenAt(about[r].site)]
        /\ UNCHANGED <<about, copy>>
  /\ UNCHANGED <<jobs, history>>

(* The insert, which the partial unique index decides.                     *)
Insert(r) ==
  LET new == about[r].content
      s == about[r].site
      j == Cardinality(Created) + 1
  IN
  /\ step[r] = "insert"
  /\ j \in Slots
  /\ Exact(s, ContentHash(new)) = {}
  /\ status' = [status EXCEPT ![j] = "open"]
  /\ site' = [site EXCEPT ![j] = s]
  /\ content' = [content EXCEPT ![j] = new]
  /\ digest' = [digest EXCEPT ![j] = ContentHash(new)]
  /\ blind' = blind \cup
       {<<j, k>> : k \in OpenAt(s) \ known[r]}
  /\ End(r)
  /\ UNCHANGED <<edits, edited, stale>>

(* Refused by the index, the request answers with the winner, or with 409   *)
(* when that was closed or edited before it looked.                         *)
InsertRefused(r) ==
  /\ step[r] = "insert"
  /\ Exact(about[r].site, ContentHash(about[r].content)) # {}
  /\ End(r)
  /\ UNCHANGED <<jobs, history>>

---------------------------------------------------------------------------
(* Editing and closing.                                                    *)

(* ensure_job_access loads the Job.                                        *)
StartEdit(r, j, new) ==
  /\ step[r] = "idle"
  /\ status[j] # "none"
  /\ edits < MaxEdits
  /\ step' = [step EXCEPT ![r] = "update"]
  /\ about' = [about EXCEPT ![r] = [NoAbout EXCEPT !.job = j, !.content = new]]
  /\ copy' = [copy EXCEPT ![r] = [content |-> content[j], digest |-> digest[j]]]
  /\ edits' = edits + 1
  /\ UNCHANGED <<jobs, known, edited, stale, blind>>

Assigned(loaded, stored, value) == IF loaded = value THEN stored ELSE value

(* The row as update_job's UPDATE leaves it.                               *)
Written(r) ==
  LET i == about[r]
      old == copy[r].content
      now == content[i.job]
  IN  [title |-> Assigned(old.title, now.title, i.content.title),
       company |-> Assigned(old.company, now.company, i.content.company),
       description |->
         Assigned(old.description, now.description, i.content.description)]

HashWritten(r) ==
  Assigned(copy[r].digest, digest[about[r].job], ContentHash(about[r].content))

(* The index refuses a hash another open Job of the Site has.              *)
Collides(j, h) == status[j] = "open" /\ Exact(site[j], h) \ {j} # {}

(* Mutant of UpdateJob: content_hash is not computed again.                *)
UpdateKeepsHash(r) ==
  LET j == about[r].job IN
  /\ step[r] = "update"
  /\ content' = [content EXCEPT ![j] = Written(r)]
  /\ edited' = edited \cup {j}
  /\ End(r)
  /\ UNCHANGED <<status, site, digest, edits, stale, blind>>

UpdateJob(r) ==
  LET j == about[r].job IN
  /\ step[r] = "update"
  /\ ~Collides(j, HashWritten(r))
  /\ content' = [content EXCEPT ![j] = Written(r)]
  /\ digest' = [digest EXCEPT ![j] = HashWritten(r)]
  /\ stale' = IF copy[r] = [content |-> content[j], digest |-> digest[j]]
              THEN stale \ {j} ELSE stale \cup {j}
  /\ edited' = edited \cup {j}
  /\ End(r)
  /\ UNCHANGED <<status, site, edits, blind>>

(* 409, and the transaction is rolled back.                                *)
UpdateRefused(r) ==
  /\ step[r] = "update"
  /\ Collides(about[r].job, HashWritten(r))
  /\ End(r)
  /\ UNCHANGED <<jobs, history>>

CloseJob(j) ==
  /\ status[j] = "open"
  /\ status' = [status EXCEPT ![j] = "closed"]
  /\ blind' = {p \in blind : j \notin {p[1], p[2]}}
  /\ UNCHANGED <<site, content, digest, requests, edits, edited, stale>>

Next ==
  \/ \E r \in Requests, new \in Contents :
       \/ \E s \in Sites : StartCreate(r, s, new)
       \/ \E j \in Slots : StartEdit(r, j, new)
  \/ \E r \in Requests :
       \/ Scan(r)
       \/ Insert(r)
       \/ InsertRefused(r)
       \/ UpdateJob(r)
       \/ UpdateRefused(r)
  \/ \E j \in Slots : CloseJob(j)

Spec == Init /\ [][Next]_vars

---------------------------------------------------------------------------
(* Properties.                                                             *)

Columns ==
  [title : {c.title : c \in Contents},
   company : {c.company : c \in Contents},
   description : {c.description : c \in Contents}]

Hashes == {ContentHash(c) : c \in Columns}

TypeOK ==
  /\ status \in [Slots -> {"none", "open", "closed"}]
  /\ site \in [Slots -> Sites]
  /\ content \in [Slots -> Columns]
  /\ digest \in [Slots -> Hashes]
  /\ step \in [Requests -> {"idle", "scan", "insert", "update"}]
  /\ about \in [Requests -> [site : Sites, job : Slots, content : Contents]]
  /\ copy \in [Requests -> [content : Columns, digest : Hashes]]
  /\ known \in [Requests -> SUBSET Slots]
  /\ edits \in 0..MaxEdits
  /\ edited \subseteq Slots /\ stale \subseteq Slots
  /\ blind \subseteq Slots \X Slots

(* The hash of a Job is that of its content, so two open Jobs of one Site   *)
(* are never the same posting, however creations, edits and closings        *)
(* interleave - but for a Job last edited from a copy another edit had      *)
(* overtaken: update_job then writes a mixture of the two edits and the     *)
(* hash of neither (its docstring: an edit that turns a Job into an exact   *)
(* copy of another one is refused).  The next edit of it mends that.        *)
HashesHold ==
  /\ TypeOK
  /\ \A j \in Slots \ stale :
       status[j] # "none" => digest[j] = ContentHash(content[j])
  /\ \A j, k \in Slots \ stale :
       j # k /\ status[j] = "open" /\ status[k] = "open" /\ site[j] = site[k] =>
         ContentHash(content[j]) # ContentHash(content[k])

(* Two open Jobs of one Site that were never edited are near duplicates of  *)
(* each other, as the later one's creation judges it, only when that        *)
(* creation had scanned before the other was there: the race that           *)
(* find_near_duplicate's docstring accepts is the only way.                *)
NearDuplicatesRaced ==
  \A j, k \in Slots \ edited :
    j # k /\ status[j] = "open" /\ status[k] = "open" /\ site[j] = site[k] =>
      \/ <<j, k>> \in blind \/ <<k, j>> \in blind
      \/ ~NearMatch(content[j], content[k])
      \/ ~NearMatch(content[k], content[j])
=============================================================================
