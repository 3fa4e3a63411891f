--------------------------- MODULE JobBoardProofs ---------------------------
(* Theorems about Tenancy and Postings on the Job board: for any accounts,  *)
(* Sites, Jobs and requests, any memberships an account may be provisioned  *)
(* with, and any postings of finitely many words.  (Those about             *)
(* JobDecisions are in JobDecisionsProofs.)                                 *)
EXTENDS JobBoard, TLAPS, FiniteSetTheorems, WellFoundedInduction

(* A step of the board is one of the part it exercises, or none.            *)
LEMMA BoardParts ==
  ASSUME [BoardNext]_boardVars
  PROVE  /\ part' = part
         /\ part = "tenancy" => [People!Next]_(People!vars)
         /\ part = "postings" => [Posts!Next]_(Posts!vars)
         /\ [Next]_vars
  BY DEF BoardNext, InDecisions, InTenancy, InPostings, boardVars, peopleVars, postVars,
     People!vars, Posts!vars, Posts!jobs, Posts!requests, Posts!history

(* What is proved of JobDecisions alone is so of the board.                 *)
THEOREM BoardDecides == BoardSpec => Spec
  <1>1. BoardInit => Init
    BY DEF BoardInit
  <1>2. [BoardNext]_boardVars => [Next]_vars
    BY BoardParts
  <1>3. QED
    BY <1>1, <1>2, PTL DEF BoardSpec, Spec

---------------------------------------------------------------------------
(* Tenancy.                                                                *)

(* An account that exists was provisioned: no account is provisioned again, *)
(* so that its Site is for ever.                                           *)
UsedInv == \A a \in Accounts : People!Live(a) => a \in used

(* What a request is about to commit was checked, and stays true until it   *)
(* does, unless an account of it is erased.                                *)
LinkChecked(ta, c) ==
  /\ ta \in used /\ c \in used
  /\ home[ta] = home[c]
  /\ People!Live(ta) => People!IsTa(ta)

DecisionChecked(j, c) ==
  /\ c \in used
  /\ jobStatus[j] # "none"
  /\ People!SameSite(c, j)
  /\ People!Live(c) => People!IsConsultant(c)

StaysTrue(i) ==
  /\ i.kind = "link" => LinkChecked(i.ta, i.c)
  /\ i.kind = "decide" => DecisionChecked(i.job, i.c)

PendingInv == \A r \in Requests : StaysTrue(pending[r])

TenancyInv == People!TenancyHolds /\ UsedInv /\ PendingInv

(* The fields of an intent.                                                 *)
LEMMA IntentFields ==
  ASSUME People!TypeOK, NEW r \in Requests
  PROVE  /\ pending[r].kind = "link" =>
              pending[r].ta \in Accounts /\ pending[r].c \in Accounts
         /\ pending[r].kind = "looking" =>
              pending[r].c \in Accounts /\ pending[r].to \in BOOLEAN
         /\ pending[r].kind = "decide" =>
              pending[r].job \in Jobs /\ pending[r].c \in Accounts
         /\ pending[r].kind = "close" => pending[r].job \in Jobs
  BY DEF People!TypeOK, People!Intents, People!Idle

LEMMA IdleIsIntent == People!Idle \in People!Intents /\ People!Idle.kind = "none"
  BY DEF People!Intents, People!Idle

LEMMA InitTenancy ==
  ASSUME People!TenancyAssumption, People!Init
  PROVE  TenancyInv
  <1> USE DEF People!TenancyAssumption, People!Init
  <1>1. People!SeedRoles \in [Accounts -> SUBSET People!Roles]
    BY DEF People!SeedRoles, People!Roles
  <1>2. /\ People!SeedRoles[Ta] = {"ta"}
        /\ People!SeedRoles[AdminConsultant] = {"admin", "consultant"}
        /\ People!SeedRoles[Consultant] = {"consultant"}
        /\ \A a \in Accounts \ used : People!SeedRoles[a] = {}
    BY DEF People!SeedRoles
  <1>3. People!TypeOK
    BY <1>1, IdleIsIntent DEF People!TypeOK
  <1>4. People!TenancyHolds
    BY <1>2, <1>3 DEF People!TenancyHolds, People!Live, People!IsTa
  <1>5. UsedInv
    BY <1>2 DEF UsedInv, People!Live
  <1>6. PendingInv
    BY IdleIsIntent DEF PendingInv, StaysTrue
  <1>7. QED
    BY <1>4, <1>5, <1>6 DEF TenancyInv

---------------------------------------------------------------------------
(* Provisioning, whoever provisions.                                       *)
LEMMA ProvisionStep ==
  ASSUME TenancyInv, NEW new \in Accounts, NEW held \in SUBSET People!Roles, held # {},
         NEW s \in Sites, NEW ta \in SUBSET Accounts, People!Provision(new, held, s, ta)
  PROVE  TenancyInv'
  <1> USE DEF TenancyInv, People!TenancyHolds
  <1>1. /\ new \notin used
        /\ roles' = [roles EXCEPT ![new] = held]
        /\ home' = [home EXCEPT ![new] = s]
        /\ used' = used \cup {new}
        /\ UNCHANGED <<willing, jobStatus, posted, pairs, pending>>
    BY DEF People!Provision, People!board
  <1>2. \/ links' = links
        \/ links' = links \cup {<<t, new>> : t \in ta} /\ \A t \in ta : People!IsTa(t)
             /\ home[t] = s
    BY DEF People!Provision
  <1>3. People!TypeOK'
    BY <1>1, <1>2 DEF People!TypeOK
  <1>4. \A a \in used : a \in Accounts /\ a # new /\ roles'[a] = roles[a] /\ home'[a] = home[a]
    BY <1>1 DEF People!TypeOK
  <1>5. \A a \in Accounts : People!Live(a) => a \in used
    BY DEF UsedInv
  <1>6. roles'[new] = held /\ home'[new] = s
    BY <1>1 DEF People!TypeOK
  <1>7. ASSUME NEW l \in links'
        PROVE  People!IsTa(l[1])' /\ People!Live(l[2])' /\ home'[l[1]] = home'[l[2]]
    <2>1. CASE l \in links
      <3>1. l[1] \in Accounts /\ l[2] \in Accounts /\ People!IsTa(l[1]) /\ People!Live(l[2])
            /\ home[l[1]] = home[l[2]]
        BY <2>1 DEF People!TypeOK
      <3>2. l[1] \in used /\ l[2] \in used
        BY <1>5, <3>1 DEF People!IsTa, People!Live
      <3>3. QED
        BY <1>4, <3>1, <3>2 DEF People!IsTa, People!Live
    <2>2. CASE l \notin links
      <3>1. PICK t \in ta : l = <<t, new>> /\ People!IsTa(t) /\ home[t] = s
        BY <1>2, <1>7, <2>2
      <3>2. t \in used
        BY <1>5, <3>1 DEF People!IsTa, People!Live
      <3>3. QED
        BY <1>4, <1>6, <3>1, <3>2 DEF People!IsTa, People!Live
    <2>3. QED
      BY <2>1, <2>2
  <1>8. ASSUME NEW p \in pairs'
        PROVE  jobStatus'[p[1]] # "none" /\ People!SameSite(p[2], p[1])'
                 /\ People!IsConsultant(p[2])'
    <2>1. p \in pairs /\ p[2] \in Accounts
      BY <1>1, <1>8 DEF People!TypeOK
    <2>2. jobStatus[p[1]] # "none" /\ People!SameSite(p[2], p[1]) /\ People!IsConsultant(p[2])
      BY <2>1
    <2>3. p[2] \in used
      BY <1>5, <2>1, <2>2 DEF People!IsConsultant, People!Live
    <2>4. QED
      BY <1>1, <1>4, <2>2, <2>3 DEF People!SameSite, People!IsConsultant
  <1>9. UsedInv'
    BY <1>1, <1>5 DEF UsedInv, People!Live, People!TypeOK
  <1>10. PendingInv'
    BY <1>1, <1>4
    DEF PendingInv, StaysTrue, LinkChecked, DecisionChecked, People!SameSite, People!IsTa,
        People!IsConsultant, People!Live
  <1>11. QED
    BY <1>3, <1>7, <1>8, <1>9, <1>10

(* A request that checks and remembers what it will commit.                *)
LEMMA IntendStep ==
  ASSUME TenancyInv, NEW r \in Requests, NEW i \in People!Intents, People!Intend(r, i),
         StaysTrue(i)
  PROVE  TenancyInv'
  <1> USE DEF TenancyInv, People!TenancyHolds
  <1>1. UNCHANGED <<roles, home, used, willing, links, jobStatus, posted, pairs>>
        /\ pending' = [pending EXCEPT ![r] = i]
    BY DEF People!Intend, People!people, People!board
  <1>2. People!TypeOK'
    BY <1>1 DEF People!TypeOK
  <1>3. People!TenancyHolds' /\ UsedInv'
    BY <1>1, <1>2 DEF UsedInv, People!IsTa, People!IsConsultant, People!SameSite, People!Live
  <1>4. PendingInv'
    BY <1>1
    DEF PendingInv, StaysTrue, People!TypeOK, LinkChecked, DecisionChecked, People!SameSite,
        People!IsTa, People!IsConsultant, People!Live
  <1>5. QED
    BY <1>3, <1>4

(* A step that leaves the accounts and the Jobs alone, and forgets at most  *)
(* intents.                                                                *)
LEMMA QuietStep ==
  ASSUME TenancyInv, People!TypeOK',
         UNCHANGED <<roles, home, used, posted>>,
         \A j \in Jobs : jobStatus[j] # "none" => jobStatus'[j] # "none",
         \A r \in Requests : pending'[r] \in {pending[r], People!Idle},
         \A l \in links' : People!IsTa(l[1]) /\ People!Live(l[2]) /\ home[l[1]] = home[l[2]],
         \A p \in pairs' : jobStatus'[p[1]] # "none" /\ People!SameSite(p[2], p[1])
           /\ People!IsConsultant(p[2])
  PROVE  TenancyInv'
  <1>1. People!TenancyHolds' /\ UsedInv'
    BY
    DEF TenancyInv, People!TenancyHolds, UsedInv, People!IsTa, People!IsConsultant,
        People!SameSite, People!Live
  <1>2. ASSUME NEW r \in Requests
        PROVE  StaysTrue(pending[r])'
    <2>1. CASE pending'[r] = People!Idle
      BY <2>1, IdleIsIntent DEF StaysTrue
    <2>2. CASE pending'[r] = pending[r]
      <3>1. pending[r].kind = "decide" => pending[r].job \in Jobs
        BY IntentFields DEF TenancyInv, People!TenancyHolds
      <3>2. QED
        BY <2>2, <3>1
        DEF TenancyInv, PendingInv, StaysTrue, LinkChecked, DecisionChecked, People!SameSite,
            People!IsTa,
            People!IsConsultant, People!Live
    <2>3. QED
      BY <2>1, <2>2
  <1>3. QED
    BY <1>1, <1>2 DEF TenancyInv, PendingInv

---------------------------------------------------------------------------
LEMMA StepTenancy ==
  ASSUME People!TenancyAssumption, TenancyInv, [People!Next]_(People!vars)
  PROVE  TenancyInv'
  <1> USE DEF People!TenancyAssumption
  <1>0. People!TypeOK /\ People!TenancyHolds /\ UsedInv /\ PendingInv
    BY DEF TenancyInv, People!TenancyHolds
  <1>1. ASSUME NEW new \in Accounts, NEW actor \in Accounts, NEW held \in RoleSets,
               NEW s \in Sites, People!CreateUser(actor, new, held, s)
        PROVE  TenancyInv'
    BY <1>1, ProvisionStep DEF People!CreateUser
  <1>2. ASSUME NEW new \in Accounts, NEW ta \in Accounts, People!InviteConsultant(ta, new)
        PROVE  TenancyInv'
    <2>1. home[ta] \in Sites /\ {"consultant"} \in SUBSET People!Roles
      BY <1>0 DEF People!TypeOK, People!Roles
    <2>2. QED
      BY <1>2, <2>1, ProvisionStep DEF People!InviteConsultant
  <1>3. ASSUME NEW r \in Requests, NEW ta \in Accounts, NEW c \in Accounts,
               People!AddExisting(r, ta, c) \/ People!AssignConsultant(r, ta, c)
        PROVE  TenancyInv'
    <2> DEFINE i == [kind |-> "link", ta |-> ta, c |-> c]
    <2>1. People!Intend(r, i) /\ home[ta] = home[c] /\ People!IsTa(ta) /\ People!Live(c)
      BY <1>3
      DEF People!AddExisting, People!AssignConsultant, People!ActingFor, People!IsConsultant,
          People!Live
    <2>2. LinkChecked(ta, c)
      BY <1>0, <2>1 DEF LinkChecked, UsedInv, People!IsTa, People!Live
    <2>3. i \in People!Intents
      BY DEF People!Intents
    <2> HIDE DEF i
    <2>4. i.kind = "link" /\ i.ta = ta /\ i.c = c
      BY DEF i
    <2>5. QED
      BY <2>1, <2>2, <2>3, <2>4, IntendStep DEF StaysTrue
  <1>4. ASSUME NEW r \in Requests, NEW ta \in Accounts, NEW c \in Accounts,
               NEW to \in BOOLEAN, People!StartLooking(r, ta, c, to)
        PROVE  TenancyInv'
    <2> DEFINE i == [kind |-> "looking", c |-> c, to |-> to]
    <2>1. People!Intend(r, i)
      BY <1>4 DEF People!StartLooking
    <2>2. i \in People!Intents /\ i.kind = "looking"
      BY DEF People!Intents
    <2> HIDE DEF i
    <2>3. QED
      BY <2>1, <2>2, IntendStep DEF StaysTrue
  <1>5. ASSUME NEW ta \in Accounts, NEW c \in Accounts, People!UnassignConsultant(ta, c)
        PROVE  TenancyInv'
    <2>1. links' \subseteq links /\ UNCHANGED <<People!people, willing, People!board, pending>>
      BY <1>5 DEF People!UnassignConsultant
    <2>2. People!TypeOK'
      BY <1>0, <2>1 DEF People!TypeOK, People!people, People!board
    <2>3. QED
      BY <1>0, <2>1, <2>2, QuietStep DEF People!TenancyHolds, People!people, People!board
  <1>6. ASSUME NEW r \in Requests, NEW j \in Jobs, People!StartClose(r, j)
        PROVE  TenancyInv'
    <2> DEFINE i == [kind |-> "close", job |-> j]
    <2>1. People!Intend(r, i)
      BY <1>6 DEF People!StartClose
    <2>2. i \in People!Intents /\ i.kind = "close"
      BY DEF People!Intents
    <2> HIDE DEF i
    <2>3. QED
      BY <2>1, <2>2, IntendStep DEF StaysTrue
  <1>7. ASSUME NEW r \in Requests, NEW j \in Jobs, NEW c \in Accounts,
               People!StartDecision(r, j, c)
        PROVE  TenancyInv'
    <2> DEFINE i == [kind |-> "decide", job |-> j, c |-> c]
    <2>1. People!Intend(r, i) /\ People!SameSite(c, j) /\ jobStatus[j] # "none"
            /\ People!IsConsultant(c)
      BY <1>7 DEF People!StartDecision, People!WhoReach, People!EnsureConsultantAccess
    <2>2. DecisionChecked(j, c)
      BY <1>0, <2>1 DEF DecisionChecked, UsedInv, People!IsConsultant, People!Live
    <2>3. i \in People!Intents
      BY DEF People!Intents
    <2> HIDE DEF i
    <2>4. i.kind = "decide" /\ i.job = j /\ i.c = c
      BY DEF i
    <2>5. QED
      BY <2>1, <2>2, <2>3, <2>4, IntendStep DEF StaysTrue
  <1>8. ASSUME NEW actor \in Accounts, NEW j \in Jobs, People!CreateJob(actor, j)
        PROVE  TenancyInv'
    <2>1. /\ jobStatus[j] = "none"
          /\ jobStatus' = [jobStatus EXCEPT ![j] = "open"]
          /\ posted' = [posted EXCEPT ![j] = home[actor]]
          /\ UNCHANGED <<roles, home, used, willing, links, pairs, pending>>
      BY <1>8 DEF People!CreateJob, People!people
    <2>2. People!TypeOK'
      BY <1>0, <2>1 DEF People!TypeOK
    <2>3. \A k \in Jobs : jobStatus[k] # "none" => jobStatus'[k] # "none" /\ posted'[k] = posted[k]
      BY <1>0, <2>1 DEF People!TypeOK
    <2>4. ASSUME NEW p \in pairs'
          PROVE  jobStatus'[p[1]] # "none" /\ People!SameSite(p[2], p[1])'
                   /\ People!IsConsultant(p[2])'
      <3>1. p \in pairs /\ p[1] \in Jobs
        BY <1>0, <2>1, <2>4 DEF People!TypeOK
      <3>2. QED
        BY <1>0, <2>1, <2>3, <3>1 DEF People!TenancyHolds, People!SameSite, People!IsConsultant
    <2>5. UsedInv' /\ \A l \in links' : People!IsTa(l[1])' /\ People!Live(l[2])'
            /\ home'[l[1]] = home'[l[2]]
      BY <1>0, <2>1 DEF UsedInv, People!TenancyHolds, People!IsTa, People!Live
    <2>6. ASSUME NEW r \in Requests
          PROVE  StaysTrue(pending[r])'
      <3>1. pending[r].kind = "decide" => pending[r].job \in Jobs
        BY <1>0, IntentFields
      <3>2. QED
        BY <1>0, <2>1, <2>3, <3>1
        DEF PendingInv, StaysTrue, LinkChecked, DecisionChecked, People!SameSite, People!IsTa,
            People!IsConsultant, People!Live
    <2>7. QED
      BY <2>2, <2>4, <2>5, <2>6 DEF TenancyInv, People!TenancyHolds, PendingInv
  <1>9. ASSUME NEW r \in Requests, People!CommitLink(r)
        PROVE  TenancyInv'
    <2>1. /\ pending[r].kind = "link"
          /\ links' = IF People!Live(pending[r].ta) /\ People!Live(pending[r].c)
                      THEN links \cup {<<pending[r].ta, pending[r].c>>} ELSE links
          /\ pending' = [pending EXCEPT ![r] = People!Idle]
          /\ UNCHANGED <<roles, home, used, willing, jobStatus, posted, pairs>>
      BY <1>9 DEF People!CommitLink, People!Done, People!people, People!board
    <2>2. pending[r].ta \in Accounts /\ pending[r].c \in Accounts
      BY <1>0, <2>1, IntentFields
    <2>3. People!TypeOK'
      BY <1>0, <2>1, <2>2, IdleIsIntent DEF People!TypeOK
    <2>4. \A l \in links' : People!IsTa(l[1]) /\ People!Live(l[2]) /\ home[l[1]] = home[l[2]]
      BY <1>0, <2>1 DEF People!TenancyHolds, PendingInv, StaysTrue, LinkChecked
    <2>5. \A q \in Requests : pending'[q] \in {pending[q], People!Idle}
      BY <1>0, <2>1 DEF People!TypeOK
    <2>6. QED
      BY <1>0, <2>1, <2>3, <2>4, <2>5, QuietStep DEF People!TenancyHolds
  <1>10. ASSUME NEW r \in Requests, People!CommitLooking(r)
        PROVE  TenancyInv'
    <2>1. /\ pending[r].kind = "looking"
          /\ willing' = IF People!Live(pending[r].c)
                        THEN [willing EXCEPT ![pending[r].c] = pending[r].to] ELSE willing
          /\ pending' = [pending EXCEPT ![r] = People!Idle]
          /\ UNCHANGED <<roles, home, used, links, jobStatus, posted, pairs>>
      BY <1>10 DEF People!CommitLooking, People!Done, People!people, People!board
    <2>2. pending[r].to \in BOOLEAN
      BY <1>0, <2>1, IntentFields
    <2>3. People!TypeOK'
      BY <1>0, <2>1, <2>2, IdleIsIntent DEF People!TypeOK
    <2>4. \A q \in Requests : pending'[q] \in {pending[q], People!Idle}
      BY <1>0, <2>1 DEF People!TypeOK
    <2>5. QED
      BY <1>0, <2>1, <2>3, <2>4, QuietStep DEF People!TenancyHolds
  <1>11. ASSUME NEW r \in Requests, People!CommitClose(r)
        PROVE  TenancyInv'
    <2>1. /\ jobStatus' = [jobStatus EXCEPT ![pending[r].job] = "closed"]
          /\ pending' = [pending EXCEPT ![r] = People!Idle]
          /\ UNCHANGED <<roles, home, used, willing, links, posted, pairs>>
      BY <1>11 DEF People!CommitClose, People!Done, People!people
    <2>2. People!TypeOK'
      BY <1>0, <2>1, IdleIsIntent DEF People!TypeOK
    <2>3. \A j \in Jobs : jobStatus[j] # "none" => jobStatus'[j] # "none"
      BY <1>0, <2>1 DEF People!TypeOK
    <2>4. \A q \in Requests : pending'[q] \in {pending[q], People!Idle}
      BY <1>0, <2>1 DEF People!TypeOK
    <2>5. \A p \in pairs' : jobStatus'[p[1]] # "none" /\ People!SameSite(p[2], p[1])
            /\ People!IsConsultant(p[2])
      BY <1>0, <2>1, <2>3 DEF People!TenancyHolds, People!TypeOK
    <2>6. QED
      BY <1>0, <2>1, <2>2, <2>3, <2>4, <2>5, QuietStep DEF People!TenancyHolds
  <1>12. ASSUME NEW r \in Requests, People!CommitDecision(r)
        PROVE  TenancyInv'
    <2>1. /\ pending[r].kind = "decide"
          /\ pairs' = IF jobStatus[pending[r].job] = "open" /\ People!Live(pending[r].c)
                      THEN pairs \cup {<<pending[r].job, pending[r].c>>} ELSE pairs
          /\ pending' = [pending EXCEPT ![r] = People!Idle]
          /\ UNCHANGED <<roles, home, used, willing, links, jobStatus, posted>>
      BY <1>12 DEF People!CommitDecision, People!Done, People!people
    <2>2. pending[r].job \in Jobs /\ pending[r].c \in Accounts
      BY <1>0, <2>1, IntentFields
    <2>3. People!TypeOK'
      BY <1>0, <2>1, <2>2, IdleIsIntent DEF People!TypeOK
    <2>4. \A q \in Requests : pending'[q] \in {pending[q], People!Idle}
      BY <1>0, <2>1 DEF People!TypeOK
    <2>5. \A p \in pairs' : jobStatus'[p[1]] # "none" /\ People!SameSite(p[2], p[1])
            /\ People!IsConsultant(p[2])
      BY <1>0, <2>1 DEF People!TenancyHolds, PendingInv, StaysTrue, DecisionChecked
    <2>6. QED
      BY <1>0, <2>1, <2>3, <2>4, <2>5, QuietStep DEF People!TenancyHolds
  <1>13. ASSUME NEW actor \in Accounts, NEW e \in Accounts, People!Erase(actor, e)
        PROVE  TenancyInv'
    <2>1. /\ roles[e] = {"consultant"}
          /\ roles' = [roles EXCEPT ![e] = {}]
          /\ links' = {l \in links : e \notin {l[1], l[2]}}
          /\ pairs' = {p \in pairs : p[2] # e}
          /\ UNCHANGED <<home, used, willing, jobStatus, posted, pending>>
      BY <1>13 DEF People!Erase
    <2>2. People!TypeOK'
      BY <1>0, <2>1 DEF People!TypeOK
    <2>3. /\ \A a \in Accounts : a # e => roles'[a] = roles[a]
          /\ roles'[e] = {}
      BY <1>0, <2>1 DEF People!TypeOK
    <2>4. ASSUME NEW l \in links'
          PROVE  People!IsTa(l[1])' /\ People!Live(l[2])' /\ home'[l[1]] = home'[l[2]]
      <3>1. l \in links /\ l[1] # e /\ l[2] # e /\ l[1] \in Accounts /\ l[2] \in Accounts
        BY <1>0, <2>1, <2>4 DEF People!TypeOK
      <3>2. QED
        BY <1>0, <2>1, <2>3, <3>1 DEF People!TenancyHolds, People!IsTa, People!Live
    <2>5. ASSUME NEW p \in pairs'
          PROVE  jobStatus'[p[1]] # "none" /\ People!SameSite(p[2], p[1])'
                   /\ People!IsConsultant(p[2])'
      <3>1. p \in pairs /\ p[2] # e /\ p[2] \in Accounts
        BY <1>0, <2>1, <2>5 DEF People!TypeOK
      <3>2. QED
        BY <1>0, <2>1, <2>3, <3>1 DEF People!TenancyHolds, People!SameSite, People!IsConsultant
    <2>6. UsedInv'
      BY <1>0, <2>1, <2>3 DEF UsedInv, People!Live
    <2>7. ASSUME NEW r \in Requests
          PROVE  StaysTrue(pending[r])'
      <3>1. /\ pending[r].kind = "link" => pending[r].ta \in Accounts
            /\ pending[r].kind = "decide" => pending[r].c \in Accounts
        BY <1>0, IntentFields
      <3>2. QED
        BY <1>0, <2>1, <2>3, <3>1
        DEF PendingInv, StaysTrue, LinkChecked, DecisionChecked, People!SameSite, People!IsTa,
            People!IsConsultant, People!Live
    <2>8. QED
      BY <2>2, <2>4, <2>5, <2>6, <2>7 DEF TenancyInv, People!TenancyHolds, PendingInv
  <1>14. CASE UNCHANGED People!vars
    BY <1>0, <1>14
    DEF People!vars, People!people, People!board, TenancyInv, People!TenancyHolds, People!TypeOK,
        UsedInv, PendingInv, StaysTrue,
        LinkChecked, DecisionChecked, People!SameSite, People!IsTa, People!IsConsultant,
        People!Live
  <1>15. QED
    BY <1>1, <1>2, <1>3, <1>4, <1>5, <1>6, <1>7, <1>8, <1>9, <1>10, <1>11, <1>12,
       <1>13, <1>14 DEF People!Next

(* No link leaves its Site or outlives its accounts, no decision joins a    *)
(* Consultant and a Job of two Sites, although a request checks first and   *)
(* commits later (ensure_same_site_assignment, ensure_consultant_operates_  *)
(* job, erase_consultant).                                                 *)
THEOREM SitesAreSeparate == BoardSpec => []TenancyHolds
  <1> DEFINE Inv == part = "tenancy" => TenancyInv
  <1>1. BoardInit => Inv
    BY BoardAssumption, InitTenancy DEF BoardInit, PeopleInit
  <1>2. Inv /\ [BoardNext]_boardVars => Inv'
    BY BoardAssumption, BoardParts, StepTenancy
  <1>3. Inv => TenancyHolds
    BY DEF TenancyInv, TenancyHolds
  <1>4. QED
    BY <1>1, <1>2, <1>3, PTL DEF BoardSpec

(* Whom a link may name: a Consultant, or an account with Admin alone.      *)
Nameable(c) == People!IsConsultant(c) \/ roles[c] = {"admin"}

NamedInv ==
  /\ \A l \in links : Nameable(l[2])
  /\ \A r \in Requests : pending[r].kind = "link" =>
       pending[r].c \in used /\ (People!Live(pending[r].c) => Nameable(pending[r].c))

(* Memberships are for life: once an account is provisioned it holds what   *)
(* it was given, until it is erased.                                       *)
LEMMA RolesStay ==
  ASSUME TenancyInv, [People!Next]_(People!vars), NEW a \in used
  PROVE  a \in used' /\ roles'[a] \in {roles[a], {}}
  <1> USE DEF People!people, People!board
  <1>0. People!TypeOK /\ a \in Accounts
    BY DEF TenancyInv, People!TenancyHolds, People!TypeOK
  <1>1. ASSUME NEW new \in Accounts \ used, NEW held, NEW s, NEW ta,
               People!Provision(new, held, s, ta)
        PROVE  a \in used' /\ roles'[a] \in {roles[a], {}}
    BY <1>0, <1>1 DEF People!Provision, People!TypeOK
  <1>2. ASSUME NEW actor \in Accounts, NEW c \in Accounts, People!Erase(actor, c)
        PROVE  a \in used' /\ roles'[a] \in {roles[a], {}}
    BY <1>0, <1>2 DEF People!Erase, People!TypeOK
  <1>3. ASSUME UNCHANGED People!people
        PROVE  a \in used' /\ roles'[a] \in {roles[a], {}}
    BY <1>3
  <1>4. QED
    BY <1>1, <1>2, <1>3
    DEF People!Next, People!vars, People!CreateUser, People!InviteConsultant, People!AddExisting,
        People!AssignConsultant, People!StartLooking,
        People!Intend, People!UnassignConsultant, People!StartClose, People!StartDecision,
        People!CreateJob, People!CommitLink,
        People!CommitLooking, People!CommitClose, People!CommitDecision

LEMMA NamedStep ==
  ASSUME People!TenancyAssumption, TenancyInv, NamedInv, [People!Next]_(People!vars)
  PROVE  NamedInv'
  <1> USE DEF People!people, People!board
  <1>0. People!TypeOK /\ UsedInv /\ TenancyInv'
    BY StepTenancy DEF TenancyInv, People!TenancyHolds
  <1>1. \A l \in links' : l[2] \in Accounts /\ roles'[l[2]] # {}
    BY <1>0 DEF TenancyInv, People!TenancyHolds, People!TypeOK, People!Live
  <1>2. \A l \in links : l[2] \in used
    BY <1>0 DEF TenancyInv, People!TenancyHolds, People!TypeOK, UsedInv
  (* What was named stays so: a link that is there after a step has an      *)
  (* account that keeps its roles.                                          *)
  <1>3. ASSUME NEW l \in links', l \in links
        PROVE  Nameable(l[2])'
    <2>1. roles'[l[2]] = roles[l[2]]
      BY <1>1, <1>2, <1>3, RolesStay
    <2>2. QED
      BY <1>3, <2>1 DEF NamedInv, Nameable, People!IsConsultant
  <1>4. ASSUME NEW r \in Requests, pending'[r] = pending[r], pending[r].kind = "link"
        PROVE  pending'[r].c \in used' /\ (People!Live(pending[r].c) => Nameable(pending[r].c))'
    <2>1. pending[r].c \in used /\ (People!Live(pending[r].c) => Nameable(pending[r].c))
      BY <1>4 DEF NamedInv
    <2>2. pending[r].c \in used' /\ roles'[pending[r].c] \in {roles[pending[r].c], {}}
      BY <2>1, RolesStay
    <2>3. QED
      BY <1>4, <2>1, <2>2 DEF People!Live, Nameable, People!IsConsultant
  <1>5. ASSUME NEW new \in Accounts \ used, NEW held, NEW s, NEW ta,
               People!Provision(new, held, s, ta)
        PROVE  NamedInv'
    <2>1. /\ pending' = pending /\ roles' = [roles EXCEPT ![new] = held]
          /\ \/ links' = links
             \/ "consultant" \in held /\ links' = links \cup {<<t, new>> : t \in ta}
      BY <1>5 DEF People!Provision
    <2>2. ASSUME NEW l \in links', l \notin links
          PROVE  Nameable(l[2])'
      <3>1. "consultant" \in held /\ l[2] = new
        BY <2>1, <2>2
      <3>2. QED
        BY <1>0, <1>5, <2>1, <3>1 DEF Nameable, People!IsConsultant, People!TypeOK
    <2>3. QED
      BY <1>3, <1>4, <2>1, <2>2 DEF NamedInv
  <1>6. ASSUME NEW r \in Requests, NEW ta \in Accounts, NEW c \in Accounts,
               People!AddExisting(r, ta, c) \/ People!AssignConsultant(r, ta, c)
        PROVE  NamedInv'
    <2> DEFINE i == [kind |-> "link", ta |-> ta, c |-> c]
    <2>1. /\ links' = links /\ UNCHANGED <<roles, used>>
          /\ pending' = [pending EXCEPT ![r] = i]
          /\ People!Live(c) /\ (People!IsTa(c) => People!IsConsultant(c))
      BY <1>6
      DEF People!AddExisting, People!AssignConsultant, People!Intend, People!IsConsultant,
          People!Live
    <2>2. Nameable(c)
      <3>1. roles[c] \subseteq {"admin", "ta", "consultant"} /\ roles[c] # {}
        BY <1>0, <2>1 DEF People!TypeOK, People!Roles, People!Live
      <3>2. CASE "consultant" \in roles[c]
        BY <3>2 DEF Nameable, People!IsConsultant
      <3>3. CASE "consultant" \notin roles[c]
        <4>1. "ta" \notin roles[c]
          BY <2>1, <3>3 DEF People!IsTa, People!IsConsultant
        <4>2. roles[c] = {"admin"}
          BY <3>1, <3>3, <4>1
        <4>3. QED
          BY <4>2 DEF Nameable
      <3>4. QED
        BY <3>2, <3>3
    <2>3. c \in used
      BY <1>0, <2>1 DEF UsedInv
    <2>4. i.c = c
      OBVIOUS
    <2> HIDE DEF i
    <2>5. ASSUME NEW q \in Requests, pending'[q].kind = "link"
          PROVE  pending'[q].c \in used' /\ (People!Live(pending[q].c) => Nameable(pending[q].c))'
      <3>1. CASE q = r
        <4>1. pending'[q].c = c
          BY <1>0, <2>1, <2>4, <3>1 DEF People!TypeOK
        <4>2. QED
          BY <2>1, <2>2, <2>3, <4>1 DEF Nameable, People!IsConsultant
      <3>2. CASE q # r
        <4>1. pending'[q] = pending[q]
          BY <1>0, <2>1, <3>2 DEF People!TypeOK
        <4>2. QED
          BY <1>4, <2>5, <4>1
      <3>3. QED
        BY <3>1, <3>2
    <2>6. \A l \in links' : Nameable(l[2])'
      BY <1>3, <2>1
    <2>7. QED
      BY <2>5, <2>6 DEF NamedInv
  <1>7. ASSUME NEW r \in Requests, People!CommitLink(r)
        PROVE  NamedInv'
    <2>1. /\ pending[r].kind = "link"
          /\ links' = IF People!Live(pending[r].ta) /\ People!Live(pending[r].c)
                      THEN links \cup {<<pending[r].ta, pending[r].c>>} ELSE links
          /\ pending' = [pending EXCEPT ![r] = People!Idle] /\ roles' = roles
      BY <1>7 DEF People!CommitLink, People!Done
    <2>2. ASSUME NEW l \in links', l \notin links
          PROVE  Nameable(l[2])'
      <3>1. l[2] = pending[r].c /\ People!Live(pending[r].c)
        BY <2>1, <2>2
      <3>2. QED
        BY <2>1, <3>1 DEF NamedInv, Nameable, People!IsConsultant
    <2>3. \A q \in Requests : pending'[q] = pending[q] \/ pending'[q].kind = "none"
      BY <1>0, <2>1, IdleIsIntent DEF People!TypeOK
    <2>4. QED
      BY <1>3, <1>4, <2>2, <2>3 DEF NamedInv
  <1>8. ASSUME links' \subseteq links,
               \A r \in Requests : pending'[r] = pending[r] \/ pending'[r].kind # "link"
        PROVE  NamedInv'
    BY <1>3, <1>4, <1>8 DEF NamedInv
  <1>9. ASSUME NEW r \in Requests, NEW i, i.kind # "link", People!Intend(r, i)
        PROVE  NamedInv'
    <2>1. \A q \in Requests : pending'[q] = pending[q] \/ pending'[q] = i
      BY <1>0, <1>9 DEF People!Intend, People!TypeOK
    <2>2. links' = links
      BY <1>9 DEF People!Intend
    <2>3. QED
      BY <1>8, <1>9, <2>1, <2>2
  <1>10. ASSUME NEW r \in Requests, NEW j \in Jobs, NEW c \in Accounts,
                People!StartDecision(r, j, c)
         PROVE  NamedInv'
    BY <1>9, <1>10 DEF People!StartDecision
  <1>11. ASSUME NEW r \in Requests, NEW j \in Jobs, People!StartClose(r, j)
         PROVE  NamedInv'
    BY <1>9, <1>11 DEF People!StartClose
  <1>12. ASSUME NEW r \in Requests, NEW ta \in Accounts, NEW c \in Accounts,
                NEW to \in BOOLEAN, People!StartLooking(r, ta, c, to)
         PROVE  NamedInv'
    BY <1>9, <1>12 DEF People!StartLooking
  <1>13. ASSUME NEW r \in Requests,
                People!CommitLooking(r) \/ People!CommitClose(r) \/ People!CommitDecision(r)
         PROVE  NamedInv'
    <2>1. links' = links /\ pending' = [pending EXCEPT ![r] = People!Idle]
      BY <1>13 DEF People!CommitLooking, People!CommitClose, People!CommitDecision, People!Done
    <2>2. \A q \in Requests : pending'[q] = pending[q] \/ pending'[q].kind = "none"
      BY <1>0, <2>1, IdleIsIntent DEF People!TypeOK
    <2>3. QED
      BY <1>8, <2>1, <2>2
  <1>14. ASSUME NEW actor \in Accounts, NEW c \in Accounts,
                People!Erase(actor, c) \/ People!UnassignConsultant(actor, c)
         PROVE  NamedInv'
    BY <1>8, <1>14 DEF People!Erase, People!UnassignConsultant
  <1>15. ASSUME UNCHANGED <<links, pending>>
         PROVE  NamedInv'
    BY <1>8, <1>15
  <1>16. QED
    BY <1>5, <1>6, <1>7, <1>10, <1>11, <1>12, <1>13, <1>14, <1>15
    DEF People!Next, People!vars, People!CreateUser, People!InviteConsultant, People!CreateJob

LEMMA InitNamed ==
  ASSUME People!TenancyAssumption, People!Init
  PROVE  NamedInv
  <1>1. roles[AdminConsultant] = {"admin", "consultant"} /\ roles[Consultant] = {"consultant"}
    BY DEF People!Init, People!SeedRoles, People!TenancyAssumption
  <1>2. QED
    BY <1>1, IdleIsIntent DEF People!Init, NamedInv, Nameable, People!IsConsultant

LEMMA NamedPicker ==
  ASSUME NamedInv
  PROVE  People!PickerIsHonoured
  <1>1. SUFFICES ASSUME NEW actor \in Accounts, NEW c \in Accounts
                 PROVE  /\ People!EnsureConsultantAccess(actor, c) =>
                             c \in People!OperableConsultants(actor)
                        /\ c \in People!OperableConsultants(actor) =>
                             People!EnsureConsultantAccess(actor, c) \/ roles[c] = {"admin"}
    BY DEF People!PickerIsHonoured
  <1>2. <<actor, c>> \in links => People!IsConsultant(c) \/ roles[c] = {"admin"}
    BY DEF NamedInv, Nameable
  <1>3. QED
    BY <1>2
    DEF People!EnsureConsultantAccess, People!CanAccessConsultant, People!OperableConsultants,
        People!ConsultantsForTa

(* Picker and server agree, but for an account with Admin alone.            *)
THEOREM PickedIsAccepted == BoardSpec => []PickerIsHonoured
  <1> DEFINE Inv == part = "tenancy" => TenancyInv /\ NamedInv
  <1>1. BoardInit => Inv
    BY BoardAssumption, InitTenancy, InitNamed DEF BoardInit, PeopleInit
  <1>2. Inv /\ [BoardNext]_boardVars => Inv'
    BY BoardAssumption, BoardParts, StepTenancy, NamedStep
  <1>3. Inv => PickerIsHonoured
    BY NamedPicker DEF PickerIsHonoured
  <1>4. QED
    BY <1>1, <1>2, <1>3, PTL DEF BoardSpec

(* The list and the detail agree, but for the three differences.            *)
LEMMA ListsAgree ==
  ASSUME People!TypeOK
  PROVE  People!ListAgreesWithDetail
  <1>1. SUFFICES ASSUME NEW actor \in Accounts, NEW j \in Jobs, People!Live(actor),
                        jobStatus[j] # "none"
                 PROVE  /\ j \in People!ListJobs(actor, {}) =>
                             \/ People!CanAccessJob(actor, j)
                             \/ jobStatus[j] = "closed" /\ willing[actor]
                                  /\ People!SameSite(actor, j)
                        /\ People!CanAccessJob(actor, j) =>
                             \/ j \in People!ListJobs(actor, {})
                             \/ People!IsTa(actor) /\ People!IsConsultant(actor) /\ ~willing[actor]
                        /\ \A c \in Accounts : People!EnsureConsultantAccess(actor, c)
                             /\ People!IsTa(actor) =>
                             (j \in People!ListJobs(actor, {c}) => People!CanAccessJob(actor, j))
    BY DEF People!ListAgreesWithDetail
  <1>2. /\ roles[actor] \subseteq {"admin", "ta", "consultant"} /\ roles[actor] # {}
        /\ jobStatus[j] \in {"open", "closed"} /\ willing[actor] \in BOOLEAN
    BY <1>1 DEF People!TypeOK, People!Roles, People!Live
  <1>3. People!IsAdmin(actor) \/ People!IsTa(actor) \/ People!IsConsultant(actor)
    BY <1>2 DEF People!IsAdmin, People!IsTa, People!IsConsultant
  <1>4. \A named \in SUBSET Accounts : j \in People!ListJobs(actor, named) =>
          People!IsAdmin(actor) \/ People!SameSite(actor, j)
    BY DEF People!ListJobs
  <1>5. CASE People!IsAdmin(actor)
    <2>1. j \in People!ListJobs(actor, {})
      BY <1>1, <1>5 DEF People!ListJobs, People!ListedFor
    <2>2. People!CanAccessJob(actor, j)
      BY <1>5 DEF People!CanAccessJob
    <2>3. QED
      BY <2>1, <2>2
  <1>6. CASE ~People!IsAdmin(actor) /\ People!IsConsultant(actor)
    <2>1. j \in People!ListJobs(actor, {}) <=>
            /\ People!SameSite(actor, j)
            /\ willing[actor] \/ (jobStatus[j] = "closed" /\ <<j, actor>> \in pairs)
      BY <1>1, <1>6 DEF People!ListJobs, People!ListedFor, People!SameSite
    <2>2. QED
      BY <1>2, <1>4, <1>6, <2>1 DEF People!CanAccessJob
  <1>7. CASE ~People!IsAdmin(actor) /\ ~People!IsConsultant(actor)
    <2>1. People!IsTa(actor)
      BY <1>3, <1>7
    <2>2. j \in People!ListJobs(actor, {}) <=> People!SameSite(actor, j)
      BY <1>1, <1>7 DEF People!ListJobs, People!ListedFor
    <2>3. People!CanAccessJob(actor, j) <=> People!SameSite(actor, j)
      BY <1>7, <2>1 DEF People!CanAccessJob
    <2>4. QED
      BY <1>4, <1>7, <2>2, <2>3
  <1>8. QED
    BY <1>5, <1>6, <1>7

(* The list of Jobs and their detail agree on what an actor reaches, but    *)
(* that a closed Job of the Site is listed to whoever is looking, that a TA *)
(* who is a Consultant and opted out reaches more than is listed to him,    *)
(* and that naming a Consultant narrows the list (list_jobs,                *)
(* can_access_job).                                                        *)
THEOREM ListMeetsDetail == BoardSpec => []ListAgreesWithDetail
  <1>1. TenancyHolds => ListAgreesWithDetail
    BY ListsAgree DEF TenancyHolds, People!TenancyHolds, ListAgreesWithDetail
  <1>2. QED
    BY <1>1, SitesAreSeparate, PTL

---------------------------------------------------------------------------
(* Postings.                                                               *)

(* The Cardinality of Postings is that of this module.                      *)
LEMMA SameCardinality == \A S : Posts!Cardinality(S) = Cardinality(S)
  BY DEF Posts!Cardinality, Cardinality

LEMMA SameFinite == \A S : Posts!IsFiniteSet(S) = IsFiniteSet(S)
  BY DEF Posts!IsFiniteSet, IsFiniteSet

LEMMA HashAssumption ==
  ASSUME Posts!PostingsAssumption
  PROVE  /\ Contents \subseteq Posts!Columns
         /\ \A c \in Posts!Columns : Posts!ContentHash(c) \in Posts!Hashes
         /\ Posts!AnyContent \in Contents /\ Posts!AnySite \in PostingSites
         /\ MaxJobs \in Nat \ {0} /\ MaxEdits \in Nat
  <1>1. \A c \in Contents : c \in Posts!Columns
    BY DEF Posts!PostingsAssumption, Posts!Columns
  <1>2. QED
    BY <1>1 DEF Posts!PostingsAssumption, Posts!Hashes, Posts!AnyContent, Posts!AnySite

(* What an UPDATE writes are columns of postings, and their hash when the   *)
(* copy was current.                                                       *)
LEMMA WrittenTypes ==
  ASSUME Posts!PostingsAssumption, Posts!TypeOK, NEW r \in Sessions
  PROVE  /\ about[r].job \in Posts!Slots /\ about[r].content \in Contents
           /\ about[r].site \in PostingSites
         /\ Posts!Written(r) \in Posts!Columns
         /\ Posts!HashWritten(r) \in Posts!Hashes
  <1> DEFINE i == about[r]
  <1>1. i \in [site : PostingSites, job : Posts!Slots, content : Contents]
          /\ copy[r] \in [content : Posts!Columns, digest : Posts!Hashes]
    BY DEF Posts!TypeOK
  <1>2. i.job \in Posts!Slots /\ i.content \in Contents /\ i.site \in PostingSites
          /\ copy[r].digest \in Posts!Hashes
    BY <1>1
  <1>3. i.content \in Posts!Columns /\ Posts!ContentHash(i.content) \in Posts!Hashes
    BY <1>2, HashAssumption
  <1>4. content[i.job] \in Posts!Columns /\ digest[i.job] \in Posts!Hashes
    BY <1>2 DEF Posts!TypeOK
  <1> HIDE DEF i
  <1>5. Posts!HashWritten(r) \in Posts!Hashes
    BY <1>2, <1>3, <1>4 DEF Posts!HashWritten, Posts!Assigned, i
  <1>6. Posts!Written(r) \in Posts!Columns
    BY <1>3, <1>4 DEF Posts!Written, Posts!Assigned, Posts!Columns, i
  <1>7. QED
    BY <1>2, <1>5, <1>6 DEF i

LEMMA WrittenAfresh ==
  ASSUME Posts!PostingsAssumption, Posts!TypeOK, NEW r \in Sessions, NEW j, j = about[r].job,
         copy[r] = [content |-> content[j], digest |-> digest[j]]
  PROVE  /\ Posts!Written(r) = about[r].content
         /\ Posts!HashWritten(r) = Posts!ContentHash(Posts!Written(r))
  <1>1. about[r].content \in Posts!Columns
    BY HashAssumption, WrittenTypes
  <1>2. copy[r].content = content[j] /\ copy[r].digest = digest[j]
    OBVIOUS
  <1>3. Posts!Written(r) = about[r].content
    BY <1>1, <1>2 DEF Posts!Written, Posts!Assigned, Posts!Columns
  <1>4. QED
    BY <1>2, <1>3 DEF Posts!HashWritten, Posts!Assigned

LEMMA EndTypes ==
  ASSUME Posts!PostingsAssumption, Posts!TypeOK, NEW r \in Sessions, Posts!End(r)
  PROVE  /\ step' \in [Sessions -> {"idle", "scan", "insert", "update"}]
         /\ about' \in [Sessions -> [site : PostingSites, job : Posts!Slots, content : Contents]]
         /\ copy' \in [Sessions -> [content : Posts!Columns, digest : Posts!Hashes]]
         /\ known' \in [Sessions -> SUBSET Posts!Slots]
  <1>1. Posts!NoAbout \in [site : PostingSites, job : Posts!Slots, content : Contents]
    BY HashAssumption DEF Posts!NoAbout, Posts!Slots
  <1>2. Posts!NoCopy \in [content : Posts!Columns, digest : Posts!Hashes]
    BY HashAssumption DEF Posts!NoCopy
  <1>3. QED
    BY <1>1, <1>2 DEF Posts!TypeOK, Posts!End

(* The Jobs are numbered in the order of their creation.                    *)
Numbered == \E n \in 0..MaxJobs : Posts!Created = 1..n

LEMMA NextIsNew ==
  ASSUME Posts!PostingsAssumption, Numbered
  PROVE  /\ Cardinality(Posts!Created) \in 0..MaxJobs
         /\ Posts!Created = 1..Cardinality(Posts!Created)
         /\ Cardinality(Posts!Created) + 1 \in Posts!Slots =>
              status[Cardinality(Posts!Created) + 1] = "none"
  <1>1. PICK n \in 0..MaxJobs : Posts!Created = 1..n
    BY DEF Numbered
  <1>2. Cardinality(1..n) = n
    BY <1>1, FS_Interval, HashAssumption
  <1>3. n + 1 \notin 1..n
    BY <1>1, HashAssumption
  <1>4. QED
    BY <1>1, <1>2, <1>3 DEF Posts!Created

(* The unique index: two open Jobs of a Site have different hashes.         *)
Indexed ==
  \A j, k \in Posts!Slots :
    j # k /\ status[j] = "open" /\ status[k] = "open" /\ site[j] = site[k] =>
      digest[j] # digest[k]

HashedRow(j) == status[j] # "none" => digest[j] = Posts!ContentHash(content[j])
Hashed == \A j \in Posts!Slots \ stale : HashedRow(j)

HashInv == Posts!TypeOK /\ Numbered /\ Indexed /\ Hashed

LEMMA InitHashes ==
  ASSUME Posts!PostingsAssumption, Posts!Init
  PROVE  HashInv
  <1> USE HashAssumption DEF Posts!Init
  <1>1. Posts!NoAbout \in [site : PostingSites, job : Posts!Slots, content : Contents]
    BY DEF Posts!NoAbout, Posts!Slots
  <1>2. Posts!NoCopy \in [content : Posts!Columns, digest : Posts!Hashes]
    BY DEF Posts!NoCopy
  <1>3. Posts!TypeOK
    BY <1>1, <1>2 DEF Posts!TypeOK
  <1>4. Posts!Created = 1..0 /\ 0 \in 0..MaxJobs
    BY DEF Posts!Created
  <1>5. QED
    BY <1>3, <1>4 DEF HashInv, Numbered, Indexed, Hashed, HashedRow

LEMMA HashesStep ==
  ASSUME Posts!PostingsAssumption, HashInv, [Posts!Next]_(Posts!vars)
  PROVE  HashInv'
  <1> USE DEF Posts!jobs, Posts!requests, Posts!history
  <1>0. Posts!TypeOK /\ Numbered /\ Indexed /\ Hashed
    BY DEF HashInv
  <1>1. ASSUME UNCHANGED <<Posts!jobs, stale>>, Posts!TypeOK'
        PROVE  HashInv'
    BY <1>0, <1>1 DEF HashInv, Numbered, Posts!Created, Indexed, Hashed, HashedRow
  <1>2. ASSUME NEW r \in Sessions, NEW s \in PostingSites, NEW new \in Contents,
               Posts!StartCreate(r, s, new)
        PROVE  HashInv'
    <2>1. [Posts!NoAbout EXCEPT !.site = s, !.content = new]
            \in [site : PostingSites, job : Posts!Slots, content : Contents]
      <3> DEFINE at == [Posts!NoAbout EXCEPT !.site = s]
      <3>1. at = [site |-> s, job |-> 1, content |-> Posts!AnyContent]
        BY DEF Posts!NoAbout
      <3>2. [Posts!NoAbout EXCEPT !.site = s, !.content = new] = [at EXCEPT !.content = new]
        BY DEF Posts!NoAbout
      <3> HIDE DEF at
      <3>3. [at EXCEPT !.content = new] = [site |-> s, job |-> 1, content |-> new]
        BY <3>1
      <3>4. 1 \in Posts!Slots
        BY HashAssumption DEF Posts!Slots
      <3>5. QED
        BY <3>2, <3>3, <3>4
    <2>2. Posts!TypeOK'
      BY <1>0, <1>2, <2>1 DEF Posts!TypeOK, Posts!StartCreate
    <2>3. QED
      BY <1>1, <1>2, <2>2 DEF Posts!StartCreate
  <1>3. ASSUME NEW r \in Sessions, NEW j \in Posts!Slots, NEW new \in Contents,
               Posts!StartEdit(r, j, new)
        PROVE  HashInv'
    <2>1. [Posts!NoAbout EXCEPT !.job = j, !.content = new]
            \in [site : PostingSites, job : Posts!Slots, content : Contents]
      BY HashAssumption DEF Posts!NoAbout, Posts!Slots
    <2>2. [content |-> content[j], digest |-> digest[j]]
            \in [content : Posts!Columns, digest : Posts!Hashes]
      BY <1>0 DEF Posts!TypeOK
    <2>3. edits + 1 \in 0..MaxEdits
      BY <1>0, <1>3, HashAssumption DEF Posts!TypeOK, Posts!StartEdit
    <2>4. Posts!TypeOK'
      BY <1>0, <1>3, <2>1, <2>2, <2>3 DEF Posts!TypeOK, Posts!StartEdit
    <2>5. QED
      BY <1>1, <1>3, <2>4 DEF Posts!StartEdit
  <1>4. ASSUME NEW r \in Sessions,
               Posts!Scan(r) \/ Posts!InsertRefused(r) \/ Posts!UpdateRefused(r)
        PROVE  HashInv'
    <2>1. UNCHANGED <<Posts!jobs, Posts!history>>
      BY <1>4 DEF Posts!Scan, Posts!InsertRefused, Posts!UpdateRefused
    <2>2. CASE Posts!End(r)
      <3>1. Posts!TypeOK'
        BY <1>0, <2>1, <2>2, EndTypes DEF Posts!TypeOK
      <3>2. QED
        BY <1>1, <2>1, <3>1
    <2>3. CASE ~Posts!End(r)
      <3>1. /\ step' = [step EXCEPT ![r] = "insert"]
            /\ known' = [known EXCEPT ![r] = Posts!OpenAt(about[r].site)]
            /\ UNCHANGED <<about, copy>>
        BY <1>4, <2>3 DEF Posts!Scan, Posts!InsertRefused, Posts!UpdateRefused
      <3>2. Posts!TypeOK'
        BY <1>0, <2>1, <3>1 DEF Posts!TypeOK, Posts!OpenAt
      <3>3. QED
        BY <1>1, <2>1, <3>2
    <2>4. QED
      BY <2>2, <2>3
  <1>5. ASSUME NEW r \in Sessions, Posts!Insert(r)
        PROVE  HashInv'
    <2> DEFINE new == about[r].content
               s == about[r].site
               j == Cardinality(Posts!Created) + 1
    <2>1. /\ j \in Posts!Slots
          /\ Posts!Exact(s, Posts!ContentHash(new)) = {}
          /\ status' = [status EXCEPT ![j] = "open"]
          /\ site' = [site EXCEPT ![j] = s]
          /\ content' = [content EXCEPT ![j] = new]
          /\ digest' = [digest EXCEPT ![j] = Posts!ContentHash(new)]
          /\ blind' = blind \cup {<<j, k>> : k \in Posts!OpenAt(s) \ known[r]}
          /\ Posts!End(r)
          /\ UNCHANGED <<edits, edited, stale>>
      BY <1>5, SameCardinality DEF Posts!Insert
    <2>2. new \in Posts!Columns /\ Posts!ContentHash(new) \in Posts!Hashes /\ s \in PostingSites
      BY <1>0, WrittenTypes, HashAssumption
    <2>3. Cardinality(Posts!Created) \in 0..MaxJobs
            /\ Posts!Created = 1..Cardinality(Posts!Created) /\ status[j] = "none"
      BY <1>0, <2>1, NextIsNew
    <2> HIDE DEF new, s
    <2>4. Posts!TypeOK'
      <3> HIDE DEF j
      <3>1. blind' \subseteq Posts!Slots \X Posts!Slots
        BY <1>0, <2>1 DEF Posts!TypeOK, Posts!OpenAt
      <3>2. QED
        BY <1>0, <2>1, <2>2, <3>1, EndTypes DEF Posts!TypeOK
    <2>5. Numbered'
      <3>1. Posts!Created' = Posts!Created \cup {j}
        BY <1>0, <2>1 DEF Posts!Created, Posts!TypeOK
      <3>2. (1..Cardinality(Posts!Created)) \cup {j} = 1..j /\ j \in 0..MaxJobs
        BY <2>1, <2>3, HashAssumption DEF Posts!Slots
      <3>3. QED
        BY <2>3, <3>1, <3>2 DEF Numbered
    <2> HIDE DEF j
    <2>6. Indexed'
      <3>1. SUFFICES ASSUME NEW a \in Posts!Slots, NEW b \in Posts!Slots, a # b,
                            status'[a] = "open",
                            status'[b] = "open", site'[a] = site'[b]
                     PROVE  digest'[a] # digest'[b]
        BY DEF Indexed
      <3>2. \A k \in Posts!Slots :
              status[k] = "open" /\ site[k] = s => digest[k] # Posts!ContentHash(new)
        BY <2>1 DEF Posts!Exact, Posts!OpenAt
      <3>3. CASE a = j
        BY <1>0, <2>1, <3>1, <3>2, <3>3 DEF Posts!TypeOK
      <3>4. CASE b = j
        BY <1>0, <2>1, <3>1, <3>2, <3>4 DEF Posts!TypeOK
      <3>5. CASE a # j /\ b # j
        BY <1>0, <2>1, <3>1, <3>5 DEF Posts!TypeOK, Indexed
      <3>6. QED
        BY <3>3, <3>4, <3>5
    <2>7. Hashed'
      BY <1>0, <2>1 DEF Hashed, HashedRow, Posts!TypeOK
    <2>8. QED
      BY <2>4, <2>5, <2>6, <2>7 DEF HashInv
  <1>6. ASSUME NEW r \in Sessions, Posts!UpdateJob(r)
        PROVE  HashInv'
    <2> DEFINE j == about[r].job
               h == Posts!HashWritten(r)
               row == Posts!Written(r)
    <2>1. /\ ~Posts!Collides(j, h)
          /\ content' = [content EXCEPT ![j] = row]
          /\ digest' = [digest EXCEPT ![j] = h]
          /\ stale' = IF copy[r] = [content |-> content[j], digest |-> digest[j]]
                      THEN stale \ {j} ELSE stale \cup {j}
          /\ edited' = edited \cup {j}
          /\ Posts!End(r)
          /\ UNCHANGED <<status, site, edits, blind>>
      BY <1>6 DEF Posts!UpdateJob
    <2>2. j \in Posts!Slots /\ h \in Posts!Hashes /\ row \in Posts!Columns
      BY <1>0, WrittenTypes
    <2>3. copy[r] = [content |-> content[j], digest |-> digest[j]] => h = Posts!ContentHash(row)
      BY <1>0, WrittenAfresh
    <2> HIDE DEF j, h, row
    <2>4. Posts!TypeOK'
      BY <1>0, <2>1, <2>2, EndTypes DEF Posts!TypeOK
    <2>5. Numbered'
      BY <1>0, <2>1 DEF Numbered, Posts!Created
    <2>6. Indexed'
      <3>1. SUFFICES ASSUME NEW a \in Posts!Slots, NEW b \in Posts!Slots, a # b,
                            status[a] = "open",
                            status[b] = "open", site[a] = site[b]
                     PROVE  digest'[a] # digest'[b]
        BY <2>1 DEF Indexed
      <3>2. status[j] = "open" => \A k \in Posts!Slots :
              k # j /\ status[k] = "open" /\ site[k] = site[j] => digest[k] # h
        BY <2>1 DEF Posts!Collides, Posts!Exact, Posts!OpenAt
      <3>3. CASE a = j
        BY <1>0, <2>1, <3>1, <3>2, <3>3 DEF Posts!TypeOK
      <3>4. CASE b = j
        BY <1>0, <2>1, <3>1, <3>2, <3>4 DEF Posts!TypeOK
      <3>5. CASE a # j /\ b # j
        BY <1>0, <2>1, <3>1, <3>5 DEF Posts!TypeOK, Indexed
      <3>6. QED
        BY <3>3, <3>4, <3>5
    <2>7. Hashed'
      <3>1. SUFFICES ASSUME NEW k \in Posts!Slots \ stale', status[k] # "none"
                     PROVE  digest'[k] = Posts!ContentHash(content'[k])
        BY <2>1 DEF Hashed, HashedRow
      <3>2. CASE k = j
        <4>1. digest'[k] = h /\ content'[k] = row
          BY <1>0, <2>1, <2>2, <3>2 DEF Posts!TypeOK
        <4>2. QED
          BY <2>1, <2>3, <3>1, <3>2, <4>1
      <3>3. CASE k # j
        <4>1. digest'[k] = digest[k] /\ content'[k] = content[k] /\ k \notin stale
          BY <1>0, <2>1, <3>1, <3>3 DEF Posts!TypeOK
        <4>2. QED
          BY <1>0, <3>1, <4>1 DEF Hashed, HashedRow
      <3>4. QED
        BY <3>2, <3>3
    <2>8. QED
      BY <2>4, <2>5, <2>6, <2>7 DEF HashInv
  <1>7. ASSUME NEW j \in Posts!Slots, Posts!CloseJob(j)
        PROVE  HashInv'
    <2>1. /\ status[j] = "open" /\ status' = [status EXCEPT ![j] = "closed"]
          /\ UNCHANGED <<site, content, digest, stale>>
      BY <1>7 DEF Posts!CloseJob
    <2>2. Posts!TypeOK'
      BY <1>0, <1>7 DEF Posts!TypeOK, Posts!CloseJob
    <2>3. Posts!Created' = Posts!Created
      BY <1>0, <2>1 DEF Posts!Created, Posts!TypeOK
    <2>4. Numbered'
      BY <1>0, <2>3 DEF Numbered
    <2>5. Indexed' /\ Hashed'
      BY <1>0, <2>1 DEF Indexed, Hashed, HashedRow, Posts!TypeOK
    <2>6. QED
      BY <2>2, <2>4, <2>5 DEF HashInv
  <1>8. CASE UNCHANGED Posts!vars
    <2>1. Posts!TypeOK'
      BY <1>0, <1>8 DEF Posts!vars, Posts!TypeOK
    <2>2. QED
      BY <1>1, <1>8, <2>1 DEF Posts!vars
  <1>9. QED
    BY <1>2, <1>3, <1>4, <1>5, <1>6, <1>7, <1>8 DEF Posts!Next

(* The stored content_hash is that of the stored posting, unless two edits  *)
(* of the Job overlapped, and no two open Jobs of a Site have the same      *)
(* (create_job, update_job, the partial unique index).                     *)
THEOREM HashesAreCurrent == BoardSpec => []HashesHold
  <1> DEFINE Inv == part = "postings" => HashInv
  <1>1. BoardInit => Inv
    BY BoardAssumption, InitHashes DEF BoardInit, PostsInit
  <1>2. Inv /\ [BoardNext]_boardVars => Inv'
    BY BoardAssumption, BoardParts, HashesStep
  <1>3. Inv => HashesHold
    BY DEF HashInv, Hashed, HashedRow, Indexed, HashesHold, Posts!HashesHold
  <1>4. QED
    BY <1>1, <1>2, <1>3, PTL DEF BoardSpec

(* A relation that is transitive on a finite set, and never holds of an     *)
(* element and itself, leaves an element that nothing is above.             *)
LEMMA Topmost ==
  ASSUME NEW S, IsFiniteSet(S), S # {}, NEW R,
         \A x \in S : <<x, x>> \notin R,
         \A x, y, z \in S : <<x, y>> \in R /\ <<y, z>> \in R => <<x, z>> \in R
  PROVE  \E x \in S : \A y \in S : <<y, x>> \notin R
  <1> DEFINE Above(x) == {y \in S : <<y, x>> \in R}
             F == {T \in SUBSET S : \E x \in S : T = Above(x)}
  <1>1. \A x \in S : Above(x) \in F
    OBVIOUS
  <1>2. F \subseteq FiniteSubsetsOf(S) /\ F # {}
    <2>1. FiniteSubsetsOf(S) = SUBSET S
      BY FS_FiniteSubsetsOfFinite
    <2>2. F # {}
      BY <1>1
    <2>3. QED
      BY <2>1, <2>2
  <1>3. PICK x \in S : \A z \in S : <<Above(z), Above(x)>> \notin StrictSubsetOrdering(S)
    <2>1. IsWellFoundedOn(StrictSubsetOrdering(S), FiniteSubsetsOf(S))
      BY FS_StrictSubsetOrderingWellFounded
    <2>2. \E T \in F : \A U \in F : <<U, T>> \notin StrictSubsetOrdering(S)
      <3> HIDE DEF F
      <3>1. QED
        BY <1>2, <2>1, WFMin
    <2>3. PICK T \in F : \A U \in F : <<U, T>> \notin StrictSubsetOrdering(S)
      BY <2>2
    <2>4. PICK x \in S : T = Above(x)
      OBVIOUS
    <2>5. \A z \in S : <<Above(z), T>> \notin StrictSubsetOrdering(S)
      BY <1>1, <2>3
    <2>6. QED
      BY <2>4, <2>5
  <1>4. ASSUME NEW y \in S, <<y, x>> \in R
        PROVE  FALSE
    <2>1. Above(y) \subseteq Above(x) /\ y \in Above(x) /\ y \notin Above(y)
      BY <1>4
    <2>2. Above(y) \subseteq S /\ Above(x) \subseteq S
      OBVIOUS
    <2> HIDE DEF Above
    <2>3. <<Above(y), Above(x)>> \in StrictSubsetOrdering(S)
      BY <2>1, <2>2 DEF StrictSubsetOrdering
    <2>4. QED
      BY <1>3, <2>3
  <1>5. QED
    BY <1>4

(* The order of two fractions is transitive.                                *)
LEMMA FractionsOrdered ==
  ASSUME NEW a \in Nat, NEW b \in Nat, NEW c \in Nat,
         NEW p \in Nat \ {0}, NEW q \in Nat \ {0}, NEW r \in Nat \ {0},
         a * q > b * p, b * r > c * q
  PROVE  a * r > c * p
  <1>1. (a * q) * r > (b * p) * r
    OBVIOUS
  <1>2. (b * r) * p > (c * q) * p
    OBVIOUS
  <1>3. (a * r) * q > (c * p) * q
    BY <1>1, <1>2
  <1>4. QED
    BY <1>3

LEMMA ScoreParts ==
  ASSUME NEW a, NEW c, IsFiniteSet(a), IsFiniteSet(c), c # {}
  PROVE  /\ Cardinality(a \cap c) \in Nat
         /\ Cardinality(a \cup c) \in Nat \ {0}
  <1>1. IsFiniteSet(a \cap c) /\ IsFiniteSet(a \cup c) /\ a \cup c # {}
    BY FS_Intersection, FS_Union
  <1>2. QED
    BY <1>1, FS_CardinalityType, FS_EmptySet

LEMMA ScoresOrdered ==
  ASSUME NEW a, NEW b, NEW d, NEW c, IsFiniteSet(a), IsFiniteSet(b), IsFiniteSet(d),
         IsFiniteSet(c), c # {}
  PROVE  /\ ~Posts!ScoresHigher(a, a, c)
         /\ Posts!ScoresHigher(a, b, c) /\ Posts!ScoresHigher(b, d, c) =>
              Posts!ScoresHigher(a, d, c)
  <1> DEFINE m(s) == Cardinality(s \cap c)
             u(s) == Cardinality(s \cup c)
  <1>1. /\ m(a) \in Nat /\ m(b) \in Nat /\ m(d) \in Nat
        /\ u(a) \in Nat \ {0} /\ u(b) \in Nat \ {0} /\ u(d) \in Nat \ {0}
    BY ScoreParts
  <1>2. /\ Posts!ScoresHigher(a, a, c) = (m(a) * u(a) > m(a) * u(a))
        /\ Posts!ScoresHigher(a, b, c) = (m(a) * u(b) > m(b) * u(a))
        /\ Posts!ScoresHigher(b, d, c) = (m(b) * u(d) > m(d) * u(b))
        /\ Posts!ScoresHigher(a, d, c) = (m(a) * u(d) > m(d) * u(a))
    BY SameCardinality DEF Posts!ScoresHigher
  <1> HIDE DEF m, u
  <1>3. ~Posts!ScoresHigher(a, a, c)
    <2>1. \A x, y \in Nat : ~(x * y > x * y)
      OBVIOUS
    <2>2. QED
      BY <1>1, <1>2, <2>1
  <1>4. QED
    BY <1>1, <1>2, <1>3, FractionsOrdered

(* No answer of the scan means no match, since some match scores highest.   *)
LEMMA NoneFound ==
  ASSUME Posts!PostingsAssumption, Posts!TypeOK, NEW s \in PostingSites, NEW new \in Contents,
         Posts!NearDuplicates(s, new) = {}
  PROVE  \A j \in Posts!OpenAt(s) \ Posts!Exact(s, Posts!ContentHash(new)) :
           ~Posts!NearMatch(new, content[j])
  <1> DEFINE M == {j \in Posts!OpenAt(s) \ Posts!Exact(s, Posts!ContentHash(new)) :
                    Posts!NearMatch(new, content[j])}
             w(j) == content[j].description.words
             c == new.description.words
             R == {x \in Posts!Slots \X Posts!Slots : Posts!ScoresHigher(w(x[1]), w(x[2]), c)}
  <1>1. SUFFICES ASSUME M # {} PROVE FALSE
    OBVIOUS
  <1>2. M \subseteq Posts!Slots
    BY DEF Posts!OpenAt
  <1>3. IsFiniteSet(M)
    <2>1. IsFiniteSet(Posts!Slots)
      BY HashAssumption, FS_Interval DEF Posts!Slots
    <2>2. QED
      BY <1>2, <2>1, FS_Subset
  <1>4. c # {} /\ IsFiniteSet(c)
    BY <1>1, SameFinite DEF Posts!NearMatch, Posts!Jaccard, Posts!PostingsAssumption
  <1>5. \A j \in Posts!Slots : IsFiniteSet(w(j))
    BY SameFinite DEF Posts!TypeOK, Posts!Columns, Posts!PostingsAssumption
  <1>6. \A x, y \in Posts!Slots : <<x, y>> \in R <=> Posts!ScoresHigher(w(x), w(y), c)
    OBVIOUS
  <1>7. \A x \in M : \E y \in M : <<y, x>> \in R
    BY <1>2, <1>6 DEF Posts!NearDuplicates
  <1> HIDE DEF w, c, R, M
  <1>8. \A x \in M : <<x, x>> \notin R
    BY <1>2, <1>4, <1>5, <1>6, ScoresOrdered
  <1>9. \A x, y, z \in M : <<x, y>> \in R /\ <<y, z>> \in R => <<x, z>> \in R
    BY <1>2, <1>4, <1>5, <1>6, ScoresOrdered
  <1>10. QED
    BY <1>1, <1>3, <1>7, <1>8, <1>9, Topmost

(* A request that will insert a Job has seen no near duplicate of it: what  *)
(* it saw and what was not edited since is an exact one or none.            *)
Scanned(r) ==
  step[r] = "insert" =>
    \A k \in known[r] \ edited :
      /\ k \in Posts!Created /\ site[k] = about[r].site
      /\ \/ digest[k] = Posts!ContentHash(about[r].content)
         \/ ~Posts!NearMatch(about[r].content, content[k])

Raced(j, k) ==
  j # k /\ status[j] = "open" /\ status[k] = "open" /\ site[j] = site[k] =>
    \/ <<j, k>> \in blind \/ <<k, j>> \in blind
    \/ ~Posts!NearMatch(content[j], content[k])
    \/ ~Posts!NearMatch(content[k], content[j])

RaceInv == (\A r \in Sessions : Scanned(r)) /\ \A j, k \in Posts!Slots \ edited : Raced(j, k)

LEMMA ScannedStep ==
  ASSUME Posts!PostingsAssumption, HashInv, RaceInv, [Posts!Next]_(Posts!vars), NEW r \in Sessions
  PROVE  Scanned(r)'
  <1> USE DEF Posts!jobs, Posts!requests, Posts!history
  <1>0. Posts!TypeOK /\ Numbered /\ Scanned(r)
    BY DEF HashInv, RaceInv
  <1>1. SUFFICES ASSUME step'[r] = "insert", NEW k \in known'[r] \ edited'
                 PROVE  /\ k \in Posts!Created' /\ site'[k] = about'[r].site
                        /\ \/ digest'[k] = Posts!ContentHash(about'[r].content)
                           \/ ~Posts!NearMatch(about'[r].content, content'[k])
    BY DEF Scanned
  (* A request that was about to insert before, while no step touched what   *)
  (* it knows.                                                              *)
  <1>2. ASSUME step[r] = "insert", known'[r] = known[r], about'[r] = about[r], k \notin edited,
               \A j \in Posts!Created : j \notin edited' =>
                 /\ j \in Posts!Created' /\ site'[j] = site[j]
                 /\ digest'[j] = digest[j] /\ content'[j] = content[j]
        PROVE  /\ k \in Posts!Created' /\ site'[k] = about'[r].site
               /\ \/ digest'[k] = Posts!ContentHash(about'[r].content)
                  \/ ~Posts!NearMatch(about'[r].content, content'[k])
    BY <1>0, <1>1, <1>2 DEF Scanned
  <1>3. ASSUME NEW q \in Sessions, Posts!End(q)
        PROVE  step[r] = "insert" /\ known'[r] = known[r] /\ about'[r] = about[r]
    BY <1>0, <1>1, <1>3 DEF Posts!End, Posts!TypeOK
  <1>4. ASSUME NEW q \in Sessions, NEW s \in PostingSites, NEW new \in Contents,
               Posts!StartCreate(q, s, new)
        PROVE  /\ k \in Posts!Created' /\ site'[k] = about'[r].site
               /\ \/ digest'[k] = Posts!ContentHash(about'[r].content)
                  \/ ~Posts!NearMatch(about'[r].content, content'[k])
    <2>1. q # r
      BY <1>0, <1>1, <1>4 DEF Posts!StartCreate, Posts!TypeOK
    <2>2. step[r] = "insert" /\ known'[r] = known[r] /\ about'[r] = about[r]
          /\ UNCHANGED <<Posts!jobs, edited>>
      BY <1>0, <1>1, <1>4, <2>1 DEF Posts!StartCreate, Posts!TypeOK
    <2>3. QED
      BY <1>1, <1>2, <2>2 DEF Posts!Created
  <1>5. ASSUME NEW q \in Sessions, NEW j \in Posts!Slots, NEW new \in Contents,
               Posts!StartEdit(q, j, new)
        PROVE  /\ k \in Posts!Created' /\ site'[k] = about'[r].site
               /\ \/ digest'[k] = Posts!ContentHash(about'[r].content)
                  \/ ~Posts!NearMatch(about'[r].content, content'[k])
    <2>1. q # r
      BY <1>0, <1>1, <1>5 DEF Posts!StartEdit, Posts!TypeOK
    <2>2. step[r] = "insert" /\ known'[r] = known[r] /\ about'[r] = about[r]
          /\ UNCHANGED <<Posts!jobs, edited>>
      BY <1>0, <1>1, <1>5, <2>1 DEF Posts!StartEdit, Posts!TypeOK
    <2>3. QED
      BY <1>1, <1>2, <2>2 DEF Posts!Created
  <1>6. ASSUME NEW q \in Sessions, Posts!Scan(q)
        PROVE  /\ k \in Posts!Created' /\ site'[k] = about'[r].site
               /\ \/ digest'[k] = Posts!ContentHash(about'[r].content)
                  \/ ~Posts!NearMatch(about'[r].content, content'[k])
    <2>1. UNCHANGED <<Posts!jobs, edited>>
      BY <1>6 DEF Posts!Scan
    <2>2. CASE Posts!End(q)
      BY <1>1, <1>2, <1>3, <2>1, <2>2 DEF Posts!Created
    <2>3. CASE ~Posts!End(q)
      <3>1. /\ Posts!NearDuplicates(about[q].site, about[q].content) = {}
            /\ step' = [step EXCEPT ![q] = "insert"]
            /\ known' = [known EXCEPT ![q] = Posts!OpenAt(about[q].site)]
            /\ UNCHANGED <<about, copy>>
        BY <1>6, <2>3 DEF Posts!Scan
      <3>2. CASE q = r
        <4>1. k \in Posts!OpenAt(about[r].site)
          BY <1>0, <1>1, <3>1, <3>2 DEF Posts!TypeOK
        <4>2. about[r].site \in PostingSites /\ about[r].content \in Contents
          BY <1>0, WrittenTypes
        <4>3. k \in Posts!Exact(about[r].site, Posts!ContentHash(about[r].content))
              \/ ~Posts!NearMatch(about[r].content, content[k])
          BY <1>0, <3>1, <3>2, <4>1, <4>2, NoneFound
        <4>4. k \in Posts!Created /\ site[k] = about[r].site
          BY <4>1 DEF Posts!OpenAt, Posts!Created
        <4>5. Posts!Created' = Posts!Created
          BY <2>1 DEF Posts!Created
        <4>6. QED
          BY <2>1, <3>1, <4>3, <4>4, <4>5 DEF Posts!Exact
      <3>3. CASE q # r
        <4>1. step[r] = "insert" /\ known'[r] = known[r] /\ about'[r] = about[r]
          BY <1>0, <1>1, <3>1, <3>3 DEF Posts!TypeOK
        <4>2. QED
          BY <1>1, <1>2, <2>1, <4>1 DEF Posts!Created
      <3>4. QED
        BY <3>2, <3>3
    <2>4. QED
      BY <2>2, <2>3
  <1>7. ASSUME NEW q \in Sessions, Posts!Insert(q)
        PROVE  /\ k \in Posts!Created' /\ site'[k] = about'[r].site
               /\ \/ digest'[k] = Posts!ContentHash(about'[r].content)
                  \/ ~Posts!NearMatch(about'[r].content, content'[k])
    <2> DEFINE j == Cardinality(Posts!Created) + 1
    <2>1. /\ j \in Posts!Slots
          /\ status' = [status EXCEPT ![j] = "open"]
          /\ site' = [site EXCEPT ![j] = about[q].site]
          /\ content' = [content EXCEPT ![j] = about[q].content]
          /\ digest' = [digest EXCEPT ![j] = Posts!ContentHash(about[q].content)]
          /\ Posts!End(q) /\ edited' = edited
      BY <1>7, SameCardinality DEF Posts!Insert
    <2>2. status[j] = "none"
      BY <1>0, <2>1, NextIsNew
    <2> HIDE DEF j
    <2>3. \A i \in Posts!Created : i \in Posts!Created' /\ site'[i] = site[i]
            /\ digest'[i] = digest[i]
                             /\ content'[i] = content[i]
      BY <1>0, <2>1, <2>2 DEF Posts!Created, Posts!TypeOK
    <2>4. QED
      BY <1>1, <1>2, <1>3, <2>1, <2>3
  <1>8. ASSUME NEW q \in Sessions, Posts!UpdateJob(q)
        PROVE  /\ k \in Posts!Created' /\ site'[k] = about'[r].site
               /\ \/ digest'[k] = Posts!ContentHash(about'[r].content)
                  \/ ~Posts!NearMatch(about'[r].content, content'[k])
    <2> DEFINE j == about[q].job
    <2>1. /\ content' = [content EXCEPT ![j] = Posts!Written(q)]
          /\ digest' = [digest EXCEPT ![j] = Posts!HashWritten(q)]
          /\ edited' = edited \cup {j}
          /\ Posts!End(q) /\ UNCHANGED <<status, site>>
      BY <1>8 DEF Posts!UpdateJob
    <2> HIDE DEF j
    <2>2. \A i \in Posts!Created : i \notin edited' =>
            i \in Posts!Created' /\ site'[i] = site[i] /\ digest'[i] = digest[i]
              /\ content'[i] = content[i]
      BY <1>0, <2>1 DEF Posts!Created, Posts!TypeOK
    <2>3. k \notin edited
      BY <1>1, <2>1
    <2>4. QED
      BY <1>1, <1>2, <1>3, <2>1, <2>2, <2>3
  <1>9. ASSUME NEW q \in Sessions, Posts!InsertRefused(q) \/ Posts!UpdateRefused(q)
        PROVE  /\ k \in Posts!Created' /\ site'[k] = about'[r].site
               /\ \/ digest'[k] = Posts!ContentHash(about'[r].content)
                  \/ ~Posts!NearMatch(about'[r].content, content'[k])
    <2>1. Posts!End(q) /\ UNCHANGED <<Posts!jobs, edited>>
      BY <1>9 DEF Posts!InsertRefused, Posts!UpdateRefused
    <2>2. QED
      BY <1>1, <1>2, <1>3, <2>1 DEF Posts!Created
  <1>10. ASSUME NEW j \in Posts!Slots, Posts!CloseJob(j)
        PROVE  /\ k \in Posts!Created' /\ site'[k] = about'[r].site
               /\ \/ digest'[k] = Posts!ContentHash(about'[r].content)
                  \/ ~Posts!NearMatch(about'[r].content, content'[k])
    <2>1. /\ status[j] = "open" /\ status' = [status EXCEPT ![j] = "closed"]
          /\ UNCHANGED <<site, content, digest, Posts!requests, edited>>
      BY <1>10 DEF Posts!CloseJob
    <2>2. Posts!Created' = Posts!Created
      BY <1>0, <2>1 DEF Posts!Created, Posts!TypeOK
    <2>3. QED
      BY <1>1, <1>2, <2>1, <2>2
  <1>11. CASE UNCHANGED Posts!vars
    BY <1>1, <1>2, <1>11 DEF Posts!vars, Posts!Created
  <1>12. QED
    BY <1>4, <1>5, <1>6, <1>7, <1>8, <1>9, <1>10, <1>11 DEF Posts!Next

LEMMA RacedStep ==
  ASSUME Posts!PostingsAssumption, HashInv, RaceInv, [Posts!Next]_(Posts!vars),
         NEW j \in Posts!Slots \ edited', NEW k \in Posts!Slots \ edited'
  PROVE  Raced(j, k)'
  <1> USE DEF Posts!jobs, Posts!requests, Posts!history
  <1>0. Posts!TypeOK /\ Numbered
    BY DEF HashInv
  <1>1. ASSUME j \notin edited, k \notin edited, status'[j] = "open" => status[j] = "open",
               status'[k] = "open" => status[k] = "open", site' = site,
               content'[j] = content[j], content'[k] = content[k],
               \A p \in blind : p \in blind' \/ status'[p[1]] # "open" \/ status'[p[2]] # "open"
        PROVE  Raced(j, k)'
    <2>1. Raced(j, k)
      BY <1>1 DEF RaceInv
    <2>2. /\ <<j, k>> \in blind =>
               <<j, k>> \in blind' \/ status'[j] # "open" \/ status'[k] # "open"
          /\ <<k, j>> \in blind =>
               <<k, j>> \in blind' \/ status'[j] # "open" \/ status'[k] # "open"
      BY <1>1
    <2>3. QED
      BY <1>1, <2>1, <2>2 DEF Raced
  <1>2. ASSUME NEW r \in Sessions, Posts!Insert(r)
        PROVE  Raced(j, k)'
    <2> DEFINE n == Cardinality(Posts!Created) + 1
    <2>1. /\ n \in Posts!Slots
          /\ step[r] = "insert"
          /\ Posts!Exact(about[r].site, Posts!ContentHash(about[r].content)) = {}
          /\ status' = [status EXCEPT ![n] = "open"]
          /\ site' = [site EXCEPT ![n] = about[r].site]
          /\ content' = [content EXCEPT ![n] = about[r].content]
          /\ blind' = blind \cup {<<n, i>> : i \in Posts!OpenAt(about[r].site) \ known[r]}
          /\ UNCHANGED edited
      BY <1>2, SameCardinality DEF Posts!Insert
    <2> HIDE DEF n
    (* The new Job and another one of its Site.                             *)
    <2>2. ASSUME NEW i \in Posts!Slots \ edited, i # n, status[i] = "open", site[i] = about[r].site
          PROVE  <<n, i>> \in blind' \/ ~Posts!NearMatch(content'[n], content'[i])
      <3>1. i \in Posts!OpenAt(about[r].site)
        BY <2>2 DEF Posts!OpenAt
      <3>2. content'[n] = about[r].content /\ content'[i] = content[i]
        BY <1>0, <2>1, <2>2 DEF Posts!TypeOK
      <3>3. digest[i] # Posts!ContentHash(about[r].content)
        BY <2>1, <3>1 DEF Posts!Exact
      <3>4. CASE i \in known[r]
        BY <2>1, <2>2, <3>2, <3>3, <3>4 DEF RaceInv, Scanned
      <3>5. CASE i \notin known[r]
        BY <2>1, <3>1, <3>5
      <3>6. QED
        BY <3>4, <3>5
    <2>3. CASE j # n /\ k # n
      <3>1. /\ status'[j] = status[j] /\ status'[k] = status[k] /\ site'[j] = site[j]
            /\ site'[k] = site[k] /\ content'[j] = content[j] /\ content'[k] = content[k]
        BY <1>0, <2>1, <2>3 DEF Posts!TypeOK
      <3>2. Raced(j, k) /\ blind \subseteq blind'
        BY <2>1 DEF RaceInv
      <3>3. QED
        BY <3>1, <3>2 DEF Raced
    <2>4. CASE j = n /\ k # n
      <3>1. status'[k] = status[k] /\ site'[k] = site[k] /\ site'[n] = about[r].site
        BY <1>0, <2>1, <2>4 DEF Posts!TypeOK
      <3>2. QED
        BY <2>1, <2>2, <2>4, <3>1 DEF Raced
    <2>5. CASE k = n /\ j # n
      <3>1. status'[j] = status[j] /\ site'[j] = site[j] /\ site'[n] = about[r].site
        BY <1>0, <2>1, <2>5 DEF Posts!TypeOK
      <3>2. QED
        BY <2>1, <2>2, <2>5, <3>1 DEF Raced
    <2>6. CASE j = k
      BY <2>6 DEF Raced
    <2>7. QED
      BY <2>3, <2>4, <2>5, <2>6
  <1>3. ASSUME NEW r \in Sessions, Posts!UpdateJob(r)
        PROVE  Raced(j, k)'
    <2>1. /\ content' = [content EXCEPT ![about[r].job] = Posts!Written(r)]
          /\ edited' = edited \cup {about[r].job}
          /\ UNCHANGED <<status, site, blind>>
      BY <1>3 DEF Posts!UpdateJob
    <2>2. content'[j] = content[j] /\ content'[k] = content[k] /\ j \notin edited
            /\ k \notin edited
      BY <1>0, <2>1 DEF Posts!TypeOK
    <2>3. QED
      BY <1>1, <2>1, <2>2
  <1>4. ASSUME NEW i \in Posts!Slots, Posts!CloseJob(i)
        PROVE  Raced(j, k)'
    <2>1. /\ status' = [status EXCEPT ![i] = "closed"]
          /\ blind' = {p \in blind : i \notin {p[1], p[2]}}
          /\ UNCHANGED <<site, content, edited>>
      BY <1>4 DEF Posts!CloseJob
    <2>2. status'[i] = "closed"
      BY <1>0, <2>1 DEF Posts!TypeOK
    <2>3. \A p \in blind : p \in blind' \/ status'[p[1]] # "open" \/ status'[p[2]] # "open"
      BY <2>1, <2>2
    <2>4. QED
      BY <1>0, <1>1, <2>1, <2>3 DEF Posts!TypeOK
  <1>5. ASSUME UNCHANGED <<Posts!jobs, edited, blind>>
        PROVE  Raced(j, k)'
    BY <1>1, <1>5
  <1>6. QED
    BY <1>2, <1>3, <1>4, <1>5
    DEF Posts!Next, Posts!vars, Posts!StartCreate, Posts!StartEdit, Posts!Scan,
        Posts!InsertRefused, Posts!UpdateRefused

(* Two open Jobs of a Site that were never edited are near duplicates only  *)
(* when one was inserted behind the back of the scan of the other           *)
(* (find_near_duplicate).                                                  *)
THEOREM OnlyRacesRepeat == BoardSpec => []NearDuplicatesRaced
  <1> DEFINE Inv == part = "postings" => HashInv /\ RaceInv
  <1>1. Posts!Init => RaceInv
    BY DEF Posts!Init, RaceInv, Scanned, Raced
  <1>2. BoardInit => Inv
    BY <1>1, BoardAssumption, InitHashes DEF BoardInit, PostsInit
  <1>3. ASSUME Posts!PostingsAssumption, HashInv, RaceInv, [Posts!Next]_(Posts!vars)
        PROVE  RaceInv'
    BY <1>3, ScannedStep, RacedStep DEF RaceInv
  <1>4. Inv /\ [BoardNext]_boardVars => Inv'
    BY <1>3, BoardAssumption, BoardParts, HashesStep
  <1>5. Inv => NearDuplicatesRaced
    BY DEF RaceInv, Raced, NearDuplicatesRaced, Posts!NearDuplicatesRaced
  <1>6. QED
    BY <1>2, <1>4, <1>5, PTL DEF BoardSpec
=============================================================================
