------------------------------ MODULE Tenancy ------------------------------
(* Who may act for whom: the predicates of backend/authz/policy.py over the *)
(* roles, Sites, TA links, Jobs and decision pairs of the database, and the *)
(* routes that change those: provisioning (auth/service.create_user with    *)
(* auth/routes.py), the TA's consultants (tenancy/routes.py), the decision  *)
(* pairs of backend/jobs and backend/applications, and the erasure of an    *)
(* account.                                                                *)
(*                                                                         *)
(* A request reads and checks, and commits what it decided later; in        *)
(* between others commit.  An account exists while it holds a role: it is   *)
(* provisioned with at least one, and erasing it deletes them.              *)
EXTENDS Naturals, FiniteSets

CONSTANTS
  Accounts,        \* accounts, each provisioned at most once
  Ta, AdminConsultant, Consultant,   \* the three accounts of the pilot seed
  Sites,           \* active Sites
  PilotSite,       \* the Site of the pilot seed (GBG)
  Jobs,            \* Jobs that can be created
  Requests,        \* requests in progress at a time
  RoleSets,        \* the memberships an account is provisioned with
  MaxOptedOut      \* bound on the accounts opted out at a time

Roles == {"admin", "ta", "consultant"}

TenancyAssumption ==
  /\ {Ta, AdminConsultant, Consultant} \subseteq Accounts
  /\ Ta # AdminConsultant /\ Ta # Consultant /\ AdminConsultant # Consultant
  /\ PilotSite \in Sites
  /\ RoleSets \subseteq (SUBSET Roles) \ {{}}
  /\ MaxOptedOut \in Nat

VARIABLES
  roles,      \* user_roles: the roles an account holds
  home,       \* users.site_id
  looking,    \* users.actively_looking
  used,       \* accounts that were provisioned at some time
  links,      \* ta_consultants: <<ta, consultant>>
  status,     \* a Job: none, open or closed
  posted,     \* jobs.site_id
  pairs,      \* job_decision_pairs: <<job, consultant>>
  pending     \* what a request is about to commit

vars == <<roles, home, looking, used, links, status, posted, pairs, pending>>
people == <<roles, home, used>>
board == <<status, posted, pairs>>

Idle == [kind |-> "none"]

Intents ==
  {Idle} \cup [kind : {"link"}, ta : Accounts, c : Accounts]
         \cup [kind : {"looking"}, c : Accounts, to : BOOLEAN]
         \cup [kind : {"decide"}, job : Jobs, c : Accounts]
         \cup [kind : {"close"}, job : Jobs]

(* The pilot seed: a TA, an Admin who is a Consultant too, a Consultant,    *)
(* both linked to the TA, all at one Site.                                 *)
SeedRoles == [a \in Accounts |->
  CASE a = Ta -> {"ta"}
    [] a = AdminConsultant -> {"admin", "consultant"}
    [] a = Consultant -> {"consultant"}
    [] OTHER -> {}]

Init ==
  /\ roles = SeedRoles
  /\ home = [a \in Accounts |-> PilotSite]
  /\ looking = [a \in Accounts |-> TRUE]
  /\ used = {Ta, AdminConsultant, Consultant}
  /\ links = {<<Ta, AdminConsultant>>, <<Ta, Consultant>>}
  /\ status = [j \in Jobs |-> "none"]
  /\ posted = [j \in Jobs |-> PilotSite]
  /\ pairs = {}
  /\ pending = [r \in Requests |-> Idle]

---------------------------------------------------------------------------
(* The predicates of authz/policy.py.                                      *)

Live(a) == roles[a] # {}
IsAdmin(a) == "admin" \in roles[a]
IsTa(a) == "ta" \in roles[a]
IsConsultant(a) == "consultant" \in roles[a]
SameSite(a, j) == home[a] = posted[j]

ConsultantsForTa(ta) == {c \in Accounts : <<ta, c>> \in links}

CanAccessConsultant(actor, c) ==
  \/ IsAdmin(actor)
  \/ actor = c /\ IsConsultant(actor)
  \/ IsTa(actor) /\ <<actor, c>> \in links

(* Only an account with the Consultant role can be named; 404 or 403 else. *)
EnsureConsultantAccess(actor, c) ==
  IsConsultant(c) /\ CanAccessConsultant(actor, c)

(* The sentinel None of an Admin resolves to every Consultant account.     *)
OperableConsultants(actor) ==
  IF IsAdmin(actor)
  THEN {c \in Accounts : IsConsultant(c)}
  ELSE (IF IsConsultant(actor) THEN {actor} ELSE {})
       \cup (IF IsTa(actor) THEN ConsultantsForTa(actor) ELSE {})

CanAccessJob(actor, j) ==
  \/ IsAdmin(actor)
  \/ /\ SameSite(actor, j)
     /\ \/ IsTa(actor)
        \/ /\ IsConsultant(actor)
           /\ \/ status[j] = "open" /\ looking[actor]
              \/ status[j] # "open" /\ <<j, actor>> \in pairs

(* ensure_job_access lets these through.                                   *)
WhoReach(j) ==
  {actor \in Accounts : Live(actor) /\ status[j] # "none" /\ CanAccessJob(actor, j)}

RolesCreatableBy(actor) ==
  CASE IsAdmin(actor) -> Roles
    [] IsTa(actor) -> {"consultant"}
    [] OTHER -> {}

(* Mutant of ListedFor: the Site alone.                                    *)
ListAll(selected) ==
  {j \in Jobs : /\ status[j] # "none"
                /\ \A c \in selected : posted[j] = home[c]}

(* The Jobs page: a Consultant who is not an Admin is the selected          *)
(* Consultant of his own list, and one who has opted out is shown the       *)
(* closed Jobs he has a decision on, and no others.  "selected" is empty    *)
(* or holds the one Consultant.                                            *)
ListedFor(selected) ==
  {j \in Jobs : /\ status[j] # "none"
                /\ \A c \in selected :
                     /\ posted[j] = home[c]
                     /\ \/ looking[c]
                        \/ status[j] = "closed" /\ <<j, c>> \in pairs}

ListJobs(actor, named) ==
  LET selected == IF named # {} THEN named
                  ELSE IF IsConsultant(actor) /\ ~IsAdmin(actor) THEN {actor} ELSE {}
  IN  {j \in ListedFor(selected) : IsAdmin(actor) \/ SameSite(actor, j)}

---------------------------------------------------------------------------
(* Provisioning.                                                           *)

(* create_user: the new account, its roles, and its link to the TA given or *)
(* to the TA who creates it.  The checks and the inserts are one            *)
(* transaction, and what they read never changes while the accounts exist. *)
Provision(new, held, site, ta) ==
  /\ new \notin used
  /\ used' = used \cup {new}
  /\ roles' = [roles EXCEPT ![new] = held]
  /\ home' = [home EXCEPT ![new] = site]
  /\ \/ /\ "consultant" \in held /\ ta # {}
        /\ \A t \in ta : IsTa(t) /\ home[t] = site
        /\ links' = links \cup {<<t, new>> : t \in ta}
     \/ /\ ~("consultant" \in held /\ ta # {})
        /\ UNCHANGED links
  /\ UNCHANGED <<looking, board, pending>>

(* POST /api/auth/users: an Admin names the Site, another creator's own     *)
(* Site it is.                                                             *)
CreateUser(actor, new, held, site) ==
  /\ held \subseteq RolesCreatableBy(actor)
  /\ IsAdmin(actor) \/ site = home[actor]
  /\ Provision(new, held, site, IF IsTa(actor) THEN {actor} ELSE {})

(* _resolve_ta_id: an Admin names an account that holds the TA role; a TA   *)
(* acts for himself.  Which of them it is leaves no trace.                  *)
ActingFor(ta) ==
  IF IsTa(ta) THEN {actor \in Accounts : IsAdmin(actor) \/ actor = ta} ELSE {}

(* add_consultant with an address that is new: an account is provisioned,   *)
(* at the creator's Site, or at the TA's when an Admin creates it.          *)
InviteConsultant(ta, new) ==
  /\ ActingFor(ta) # {}
  /\ Provision(new, {"consultant"}, home[ta], {ta})

---------------------------------------------------------------------------
(* The TA's consultants.                                                   *)

Intend(r, intent) ==
  /\ pending[r] = Idle
  /\ pending' = [pending EXCEPT ![r] = intent]
  /\ UNCHANGED <<people, looking, links, board>>

Done(r) == pending' = [pending EXCEPT ![r] = Idle]

(* Mutant of AddExisting: a TA can be added as a consultant.               *)
AddAnyone(r, ta, c) ==
  /\ ActingFor(ta) # {}
  /\ Live(c)
  /\ home[ta] = home[c]
  /\ <<ta, c>> \notin links
  /\ Intend(r, [kind |-> "link", ta |-> ta, c |-> c])

(* add_consultant with the address of an existing account: all that is      *)
(* refused is a TA who is not a Consultant.                                *)
AddExisting(r, ta, c) ==
  /\ ActingFor(ta) # {}
  /\ Live(c)
  /\ ~(IsTa(c) /\ ~IsConsultant(c))
  /\ home[ta] = home[c]
  /\ <<ta, c>> \notin links
  /\ Intend(r, [kind |-> "link", ta |-> ta, c |-> c])

(* Mutant of AssignConsultant: no ensure_same_site_assignment.             *)
AssignAcrossSites(r, ta, c) ==
  /\ ActingFor(ta) # {}
  /\ IsConsultant(c)
  /\ <<ta, c>> \notin links
  /\ Intend(r, [kind |-> "link", ta |-> ta, c |-> c])

(* assign_consultant by username.                                          *)
AssignConsultant(r, ta, c) ==
  /\ ActingFor(ta) # {}
  /\ IsConsultant(c)
  /\ home[ta] = home[c]
  /\ <<ta, c>> \notin links
  /\ Intend(r, [kind |-> "link", ta |-> ta, c |-> c])

(* The insert of either: refused by the foreign keys when one of the two is *)
(* gone, and by the unique constraint when the link is there by now.        *)
CommitLink(r) ==
  LET i == pending[r] IN
  /\ i.kind = "link"
  /\ links' = IF Live(i.ta) /\ Live(i.c) THEN links \cup {<<i.ta, i.c>>} ELSE links
  /\ Done(r)
  /\ UNCHANGED <<people, looking, board>>

(* unassign_consultant: any account the TA is linked to.                   *)
UnassignConsultant(ta, c) ==
  /\ ActingFor(ta) # {}
  /\ <<ta, c>> \in links
  /\ links' = links \ {<<ta, c>>}
  /\ UNCHANGED <<people, looking, board, pending>>

(* set_consultant_looking: the assignment is checked, and then the account  *)
(* is locked and written.                                                  *)
StartLooking(r, ta, c, to) ==
  /\ ActingFor(ta) # {}
  /\ IsConsultant(c)
  /\ <<ta, c>> \in links
  /\ ~to => Cardinality({a \in Accounts : ~looking[a]}) < MaxOptedOut
  /\ Intend(r, [kind |-> "looking", c |-> c, to |-> to])

CommitLooking(r) ==
  LET i == pending[r] IN
  /\ i.kind = "looking"
  /\ looking' = IF Live(i.c) THEN [looking EXCEPT ![i.c] = i.to] ELSE looking
  /\ Done(r)
  /\ UNCHANGED <<people, links, board>>

---------------------------------------------------------------------------
(* Jobs and decisions.                                                     *)

(* POST /api/jobs: any role may, and the Job is at the creator's Site.     *)
CreateJob(actor, j) ==
  /\ Live(actor)
  /\ status[j] = "none"
  /\ status' = [status EXCEPT ![j] = "open"]
  /\ posted' = [posted EXCEPT ![j] = home[actor]]
  /\ UNCHANGED <<people, looking, links, pairs, pending>>

StartClose(r, j) ==
  /\ WhoReach(j) # {}
  /\ Intend(r, [kind |-> "close", job |-> j])

CommitClose(r) ==
  LET i == pending[r] IN
  /\ i.kind = "close"
  /\ status' = [status EXCEPT ![i.job] = "closed"]
  /\ Done(r)
  /\ UNCHANGED <<people, looking, links, posted, pairs>>

(* Apply and Reject: the Job, the Consultant, and that they are of one      *)
(* Site, checked in that order.                                            *)
StartDecision(r, j, c) ==
  /\ {actor \in WhoReach(j) : EnsureConsultantAccess(actor, c)} # {}
  /\ SameSite(c, j)
  /\ Intend(r, [kind |-> "decide", job |-> j, c |-> c])

(* Then under the Job's lock it must still be open, and lock_pair leaves    *)
(* the pair; an account that is gone has no row for it.                    *)
CommitDecision(r) ==
  LET i == pending[r] IN
  /\ i.kind = "decide"
  /\ pairs' = IF status[i.job] = "open" /\ Live(i.c)
              THEN pairs \cup {<<i.job, i.c>>} ELSE pairs
  /\ Done(r)
  /\ UNCHANGED <<people, looking, links, status, posted>>

---------------------------------------------------------------------------
(* erase_consultant by an Admin: an account that is a Consultant and no     *)
(* more than that, with its roles, its links and its pairs.                *)
Erase(actor, c) ==
  /\ IsAdmin(actor)
  /\ roles[c] = {"consultant"}
  /\ roles' = [roles EXCEPT ![c] = {}]
  /\ links' = {l \in links : c \notin {l[1], l[2]}}
  /\ pairs' = {p \in pairs : p[2] # c}
  /\ UNCHANGED <<home, looking, used, status, posted, pending>>

Next ==
  \/ \E new \in Accounts \ used :
       \/ \E actor \in Accounts, held \in RoleSets, site \in Sites :
            CreateUser(actor, new, held, site)
       \/ \E ta \in Accounts : InviteConsultant(ta, new)
  \/ \E r \in Requests, ta, c \in Accounts :
       \/ AddExisting(r, ta, c)
       \/ AssignConsultant(r, ta, c)
       \/ \E to \in BOOLEAN : StartLooking(r, ta, c, to)
  \/ \E ta, c \in Accounts : UnassignConsultant(ta, c)
  \/ \E r \in Requests, j \in Jobs :
       \/ StartClose(r, j)
       \/ \E c \in Accounts : StartDecision(r, j, c)
  \/ \E actor \in Accounts, j \in Jobs : CreateJob(actor, j)
  \/ \E r \in Requests :
       CommitLink(r) \/ CommitLooking(r) \/ CommitClose(r) \/ CommitDecision(r)
  \/ \E actor, c \in Accounts : Erase(actor, c)

Spec == Init /\ [][Next]_vars

---------------------------------------------------------------------------
(* Properties.                                                             *)

TypeOK ==
  /\ roles \in [Accounts -> SUBSET Roles]
  /\ home \in [Accounts -> Sites]
  /\ looking \in [Accounts -> BOOLEAN]
  /\ used \subseteq Accounts
  /\ links \subseteq Accounts \X Accounts
  /\ status \in [Jobs -> {"none", "open", "closed"}]
  /\ posted \in [Jobs -> Sites]
  /\ pairs \subseteq Jobs \X Accounts
  /\ pending \in [Requests -> Intents]

(* A link never leaves its Site or outlives one of its accounts, and its TA *)
(* holds the TA role; a decision pair joins a Consultant and a Job of one   *)
(* Site, even when the account was erased, or the link taken away, between  *)
(* the check of a request and its commit (policy.py's "TA assignments must  *)
(* stay within one Site", ensure_consultant_operates_job).                  *)
TenancyHolds ==
  /\ TypeOK
  /\ \A l \in links : IsTa(l[1]) /\ Live(l[2]) /\ home[l[1]] = home[l[2]]
  /\ \A p \in pairs : /\ status[p[1]] # "none" /\ SameSite(p[2], p[1])
                      /\ IsConsultant(p[2])

(* The picker (GET /api/me/consultants) offers what the server then lets    *)
(* the actor act for, and all of it, as operable_consultants' docstring has *)
(* it.  The one exception is an account with the Admin role alone that      *)
(* add_consultant linked by its address: it is offered, and refused.        *)
PickerIsHonoured ==
  \A actor, c \in Accounts :
    /\ EnsureConsultantAccess(actor, c) => c \in OperableConsultants(actor)
    /\ c \in OperableConsultants(actor) =>
         EnsureConsultantAccess(actor, c) \/ roles[c] = {"admin"}

(* The list (SQL in list_jobs) and the detail (can_access_job) agree on     *)
(* what an actor reaches, with three exceptions the two functions have:     *)
(* a Consultant who is looking is also shown closed Jobs without a          *)
(* decision of his; a TA who is a Consultant and opted out reaches more     *)
(* than his list shows; a Consultant may be named to narrow the list.       *)
ListAgreesWithDetail ==
  \A actor \in Accounts, j \in Jobs : Live(actor) /\ status[j] # "none" =>
    /\ j \in ListJobs(actor, {}) =>
         \/ CanAccessJob(actor, j)
         \/ status[j] = "closed" /\ looking[actor] /\ SameSite(actor, j)
    /\ CanAccessJob(actor, j) =>
         \/ j \in ListJobs(actor, {})
         \/ IsTa(actor) /\ IsConsultant(actor) /\ ~looking[actor]
    /\ \A c \in Accounts : EnsureConsultantAccess(actor, c) /\ IsTa(actor) =>
         (j \in ListJobs(actor, {c}) => CanAccessJob(actor, j))
=============================================================================
