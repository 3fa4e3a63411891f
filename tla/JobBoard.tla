------------------------------ MODULE JobBoard ------------------------------
(* The Job board: Tenancy, Postings and JobDecisions side by side.  The     *)
(* three are of one database, yet each takes from the others no more than   *)
(* it has itself, in a simpler form (Tenancy's board for what JobDecisions  *)
(* does with locks, a Job's Site for what Postings does), so that a         *)
(* behaviour exercises one of them, chosen at its start, and the other two  *)
(* stand still.  All three are of the same Jobs, and Postings' requests are *)
(* the sessions of JobDecisions.                                           *)
EXTENDS JobDecisions

CONSTANTS
  \* Tenancy
  Accounts, Ta, AdminConsultant, Consultant, Sites, PilotSite, Requests, RoleSets,
  MaxOptedOut,
  \* Postings
  PostingSites, Contents, AlikeTitles, MaxJobs, MaxEdits

VARIABLES
  part,
  \* Tenancy
  roles, home, willing, used, links, jobStatus, posted, pairs, pending,
  \* Postings
  status, site, content, digest, step, about, copy, known, edits, edited,
  stale, blind

People == INSTANCE Tenancy WITH looking <- willing, status <- jobStatus

Posts == INSTANCE Postings WITH Sites <- PostingSites, Requests <- Sessions

ASSUME BoardAssumption == People!TenancyAssumption /\ Posts!PostingsAssumption

peopleVars ==
  <<roles, home, willing, used, links, jobStatus, posted, pairs, pending>>
postVars == <<status, site, content, digest, step, about, copy, known, edits,
              edited, stale, blind>>
boardVars == <<part, vars, peopleVars, postVars>>

(* A part that stands still needs no state (JobDecisions keeps its initial *)
(* one, which its own invariants look at).                                 *)
Off == 0

PeopleInit ==
  \/ part = "tenancy" /\ People!Init
  \/ /\ part # "tenancy"
     /\ roles = Off /\ home = Off /\ willing = Off /\ used = Off
     /\ links = Off /\ jobStatus = Off /\ posted = Off /\ pairs = Off
     /\ pending = Off

PostsInit ==
  \/ part = "postings" /\ Posts!Init
  \/ /\ part # "postings"
     /\ status = Off /\ site = Off /\ content = Off /\ digest = Off
     /\ step = Off /\ about = Off /\ copy = Off /\ known = Off
     /\ edits = Off /\ edited = Off /\ stale = Off /\ blind = Off

BoardInit ==
  /\ part \in {"tenancy", "postings", "decisions"}
  /\ Init /\ PeopleInit /\ PostsInit

InDecisions ==
  /\ part = "decisions" /\ Next
  /\ UNCHANGED <<part, peopleVars, postVars>>

InTenancy ==
  /\ part = "tenancy" /\ People!Next
  /\ UNCHANGED <<part, vars, postVars>>

InPostings ==
  /\ part = "postings" /\ Posts!Next
  /\ UNCHANGED <<part, vars, peopleVars>>

BoardNext == InDecisions \/ InTenancy \/ InPostings

BoardSpec == BoardInit /\ [][BoardNext]_boardVars

---------------------------------------------------------------------------
(* The properties of the two instances, looked at where they can change;    *)
(* those of JobDecisions are its own.                                      *)

(* No link leaves its Site or outlives its accounts, no decision joins a    *)
(* Consultant and a Job of two Sites, although a request checks first and   *)
(* commits later (ensure_same_site_assignment, erase_consultant).          *)
TenancyHolds == part = "tenancy" => People!TenancyHolds

(* Picker and server agree: operable_consultants offers whom                *)
(* ensure_consultant_access accepts, and all of them, an account with the  *)
(* Admin role alone excepted.                                              *)
PickerIsHonoured == part = "tenancy" => People!PickerIsHonoured

(* The list of Jobs and their detail agree on what an actor reaches, but   *)
(* for the three differences that Tenancy names (list_jobs,                *)
(* can_access_job).                                                        *)
ListAgreesWithDetail == part = "tenancy" => People!ListAgreesWithDetail

(* The stored content_hash is that of the stored posting, unless two edits *)
(* of the Job overlapped: the exact-duplicate check may rely on it.        *)
HashesHold == part = "postings" => Posts!HashesHold

(* Two open Jobs of a Site that were never edited are near duplicates only *)
(* when one was created behind the back of the other's scan                *)
(* (find_near_duplicate).                                                  *)
NearDuplicatesRaced == part = "postings" => Posts!NearDuplicatesRaced
=============================================================================
