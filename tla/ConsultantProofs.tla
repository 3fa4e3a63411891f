-------------------------- MODULE ConsultantProofs --------------------------
(* Theorems about Accounts, MatchingConfig and Scoring as parts of what is  *)
(* kept for a Consultant: for any accounts, requests, cookies, invocations, *)
(* runs, and any postings, configurations and evidence.                    *)
(* (Those about BaseState are in BaseStateProofs.)                         *)
EXTENDS Consultant, Integers, Sequences, TLAPS, FiniteSetTheorems, WellFoundedInduction

(* A step is one of the part that is exercised, or none.                   *)
LEMMA ConsultantParts ==
  ASSUME [ConsultantNext]_consultantVars
  PROVE  /\ part' = part
         /\ part = "sign_in" => [SignIn!Next]_(SignIn!vars)
         /\ part = "matching" => [Matching!Next]_(Matching!vars)
         /\ part = "advice" => [Advice!Next]_(Advice!vars)
         /\ [Next]_vars
  BY DEF ConsultantNext, InBase, InSignIn, InMatching, InAdvice, consultantVars, signInVars,
     matchingVars, SignIn!vars, SignIn!rows, SignIn!sessions, SignIn!local, SignIn!history,
     Matching!vars, Matching!queue, Matching!files, Matching!bounds, adviceVars, Advice!vars

(* What is proved of BaseState alone is so of the Consultant.               *)
THEOREM ConsultantKeepsBase == ConsultantSpec => Spec
  <1>1. ConsultantInit => Init
    BY DEF ConsultantInit
  <1>2. [ConsultantNext]_consultantVars => [Next]_vars
    BY ConsultantParts
  <1>3. QED
    BY <1>1, <1>2, PTL DEF ConsultantSpec, Spec

---------------------------------------------------------------------------
(* Accounts.                                                               *)

(* A request that will open a session knows a password of its account, so   *)
(* that the account has one for as long as it exists.                      *)
OpenerInv ==
  \A r \in Requests :
    pc[r] \in {"verify", "open"} =>
      /\ row[who[r]] # "none"
      /\ row[who[r]] = "live" => hash[who[r]] # 0

Backed(t) ==
  session[t] \in {"live", "expired"} => row[owner[t]] = "live" /\ hash[owner[t]] # 0

LEMMA BackedParts == SignIn!SessionsAreBacked <=> SignIn!TypeOK /\ \A t \in Tokens : Backed(t)
  BY DEF SignIn!SessionsAreBacked, Backed

LEMMA NobodyIsUser == SignIn!AccountsAssumption => SignIn!Nobody \in Users
  BY DEF SignIn!AccountsAssumption, SignIn!Nobody

LEMMA NothingIsCopy == SignIn!AccountsAssumption => SignIn!Nothing \in SignIn!Copy
  BY DEF SignIn!AccountsAssumption, SignIn!Nothing, SignIn!Copy

LEMMA InitBacked ==
  ASSUME SignIn!AccountsAssumption, SignIn!Init
  PROVE  SignIn!SessionsAreBacked /\ OpenerInv
  BY NobodyIsUser, NothingIsCopy
  DEF SignIn!AccountsAssumption, SignIn!Init, SignIn!SessionsAreBacked, SignIn!TypeOK, OpenerInv

---------------------------------------------------------------------------
(* Types.                                                                  *)
LEMMA ReadIsCopy ==
  ASSUME SignIn!TypeOK, NEW u \in Users
  PROVE  SignIn!Read(u) \in SignIn!Copy
  BY DEF SignIn!TypeOK, SignIn!Read, SignIn!Copy

LEMMA EndTypes ==
  ASSUME SignIn!AccountsAssumption, SignIn!TypeOK, NEW r \in Requests, SignIn!End(r)
  PROVE  /\ pc' \in [Requests -> {"idle", "verify", "open", "hash", "revoking", "ending",
                                   "accept"}]
         /\ who' \in [Requests -> Users]
         /\ read' \in [Requests -> SignIn!Copy]
         /\ right' \in [Requests -> BOOLEAN]
         /\ listed' \in [Requests -> SUBSET Tokens]
  BY NobodyIsUser, NothingIsCopy DEF SignIn!TypeOK, SignIn!End

LEMMA BeginTypes ==
  ASSUME SignIn!TypeOK, NEW r \in Requests, NEW u \in Users, NEW next, NEW copy,
         SignIn!Begin(r, u, next, copy),
         next \in {"verify", "hash", "ending", "accept"}, copy \in SignIn!Copy
  PROVE  /\ pc' \in [Requests -> {"idle", "verify", "open", "hash", "revoking", "ending",
                                   "accept"}]
         /\ who' \in [Requests -> Users]
         /\ read' \in [Requests -> SignIn!Copy]
  BY DEF SignIn!TypeOK, SignIn!Begin

LEMMA DeleteTypes ==
  ASSUME SignIn!AccountsAssumption, SignIn!TypeOK, NEW doomed, SignIn!DeleteSessions(doomed)
  PROVE  /\ session' \in [Tokens -> {"unused", "live", "expired", "gone"}]
         /\ owner' \in [Tokens -> Users]
         /\ opened' \in [Tokens -> 0..MaxPasswords]
         /\ late' \subseteq Tokens
  <1>1. 0 \in 0..MaxPasswords
    BY DEF SignIn!AccountsAssumption
  <1>2. QED
    BY <1>1 DEF SignIn!TypeOK, SignIn!DeleteSessions

LEMMA StepTypes ==
  ASSUME SignIn!AccountsAssumption, SignIn!TypeOK, [SignIn!Next]_(SignIn!vars)
  PROVE  SignIn!TypeOK'
  <1> USE DEF SignIn!rows, SignIn!sessions, SignIn!local, SignIn!history
  <1>0. /\ MaxFailed \in Nat \ {0} /\ MaxPasswords \in Nat /\ MaxGuesses \in Nat
        /\ \A r \in Requests : who[r] \in Users /\ read[r].hash \in 0..MaxPasswords
                               /\ read[r].failed \in 0..(MaxFailed - 1)
                               /\ read[r].lock \in {"none", "on", "over"}
    BY DEF SignIn!AccountsAssumption, SignIn!TypeOK, SignIn!Copy
  <1>1. ASSUME NEW u \in Users,
               SignIn!CreateUser(u) \/ SignIn!LockoutElapses(u) \/ SignIn!InviteExpires(u)
        PROVE  SignIn!TypeOK'
    BY <1>1 DEF SignIn!TypeOK, SignIn!CreateUser, SignIn!LockoutElapses, SignIn!InviteExpires
  <1>2. ASSUME NEW u \in Users, SignIn!Erase(u) PROVE SignIn!TypeOK'
    BY <1>0, <1>2, DeleteTypes DEF SignIn!TypeOK, SignIn!Erase, SignIn!DeleteAccount
  <1>3. ASSUME NEW r \in Requests, NEW u \in Users, NEW isRight \in BOOLEAN,
               SignIn!StartLogin(r, u, isRight)
        PROVE  SignIn!TypeOK'
    BY <1>3, BeginTypes, ReadIsCopy DEF SignIn!TypeOK, SignIn!StartLogin
  <1>4. ASSUME NEW r \in Requests, NEW u \in Users,
               SignIn!StartReset(r, u) \/ SignIn!StartAccept(r, u)
        PROVE  SignIn!TypeOK'
    BY <1>4, BeginTypes, ReadIsCopy, NothingIsCopy
    DEF SignIn!TypeOK, SignIn!StartReset, SignIn!StartAccept
  <1>5. ASSUME NEW r \in Requests, NEW u \in Users, SignIn!StartRevoke(r, u) PROVE SignIn!TypeOK'
    BY <1>5, BeginTypes, NothingIsCopy DEF SignIn!TypeOK, SignIn!StartRevoke, SignIn!SessionsOf
  <1>6. ASSUME NEW r \in Requests, SignIn!RecordFailedLogin(r) PROVE SignIn!TypeOK'
    <2> DEFINE u == who[r]
               attempts == read[r].failed + 1
    <2>1. /\ u \in Users /\ attempts \in Nat
          /\ SignIn!Assigned(read[r].failed, failed[u], 0) \in 0..(MaxFailed - 1)
          /\ attempts < MaxFailed => attempts \in 0..(MaxFailed - 1)
      BY <1>0 DEF SignIn!TypeOK, SignIn!Assigned
    <2>2. \/ /\ failed' = [failed EXCEPT ![u] = SignIn!Assigned(read[r].failed, @, 0)]
             /\ lock' = [lock EXCEPT ![u] = "on"]
          \/ /\ attempts < MaxFailed
             /\ failed' = [failed EXCEPT ![u] = attempts]
             /\ UNCHANGED lock
      BY <1>0, <1>6, <2>1 DEF SignIn!RecordFailedLogin
    <2>3. /\ wrong[u] < MaxGuesses /\ wrong' = [wrong EXCEPT ![u] = @ + 1]
          /\ raced' \in {raced, raced \cup {u}}
          /\ SignIn!End(r) /\ UNCHANGED <<row, hash, invite, SignIn!sessions, replaced>>
      BY <1>6 DEF SignIn!RecordFailedLogin
    <2> HIDE DEF u, attempts
    <2>4. failed' \in [Users -> 0..(MaxFailed - 1)] /\ lock' \in [Users -> {"none", "on", "over"}]
      BY <2>1, <2>2 DEF SignIn!TypeOK
    <2>5. wrong' \in [Users -> 0..MaxGuesses] /\ raced' \subseteq Users
      BY <1>0, <2>1, <2>3 DEF SignIn!TypeOK
    <2>6. QED
      BY <2>3, <2>4, <2>5, EndTypes DEF SignIn!TypeOK
  <1>7. ASSUME NEW r \in Requests, SignIn!Authenticated(r) PROVE SignIn!TypeOK'
    <2>1. /\ SignIn!Assigned(read[r].failed, failed[who[r]], 0) \in 0..(MaxFailed - 1)
          /\ SignIn!Assigned(read[r].lock, lock[who[r]], "none") \in {"none", "on", "over"}
      BY <1>0 DEF SignIn!TypeOK, SignIn!Assigned
    <2>2. [SignIn!Nothing EXCEPT !.hash = read[r].hash] \in SignIn!Copy
      BY <1>0, NothingIsCopy DEF SignIn!Copy
    <2>3. read' \in [Requests -> SignIn!Copy]
      BY <1>7, <2>2 DEF SignIn!TypeOK, SignIn!Authenticated
    <2>4. QED
      BY <1>0, <1>7, <2>1, <2>3 DEF SignIn!TypeOK, SignIn!Authenticated
  <1>8. ASSUME NEW r \in Requests, SignIn!CreateSession(r) PROVE SignIn!TypeOK'
    <2>1. SignIn!End(r) /\ UNCHANGED <<SignIn!rows, SignIn!history>>
      BY <1>8 DEF SignIn!CreateSession
    <2>2. /\ session' \in [Tokens -> {"unused", "live", "expired", "gone"}]
          /\ owner' \in [Tokens -> Users]
          /\ opened' \in [Tokens -> 0..MaxPasswords]
          /\ late' \subseteq Tokens
      BY <1>0, <1>8 DEF SignIn!TypeOK, SignIn!CreateSession
    <2>3. QED
      BY <2>1, <2>2, EndTypes DEF SignIn!TypeOK
  <1>9. ASSUME NEW t \in Tokens,
               SignIn!Logout(t) \/ SignIn!ResolveExpired(t) \/ SignIn!SessionExpires(t)
        PROVE  SignIn!TypeOK'
    <2>1. CASE SignIn!Logout(t) \/ SignIn!ResolveExpired(t)
      BY <2>1, DeleteTypes DEF SignIn!TypeOK, SignIn!Logout, SignIn!ResolveExpired
    <2>2. CASE SignIn!SessionExpires(t)
      BY <2>2 DEF SignIn!TypeOK, SignIn!SessionExpires
    <2>3. QED
      BY <1>9, <2>1, <2>2
  <1>10. ASSUME NEW r \in Requests, SignIn!ListSessions(r) PROVE SignIn!TypeOK'
    BY <1>10 DEF SignIn!TypeOK, SignIn!ListSessions, SignIn!SessionsOf
  <1>11. ASSUME NEW r \in Requests, SignIn!SetPassword(r) PROVE SignIn!TypeOK'
    <2>1. /\ SignIn!Assigned(read[r].failed, failed[who[r]], 0) \in 0..(MaxFailed - 1)
          /\ SignIn!Assigned(read[r].lock, lock[who[r]], "none") \in {"none", "on", "over"}
      BY <1>0 DEF SignIn!TypeOK, SignIn!Assigned
    <2>2. /\ hash' \in [Users -> 0..MaxPasswords]
          /\ failed' \in [Users -> 0..(MaxFailed - 1)]
          /\ lock' \in [Users -> {"none", "on", "over"}]
          /\ wrong' \in [Users -> 0..MaxGuesses]
          /\ raced' \subseteq Users
      BY <1>0, <1>11, <2>1 DEF SignIn!TypeOK, SignIn!SetPassword
    <2>3. SignIn!DeleteSessions(listed[r]) /\ SignIn!End(r) /\ UNCHANGED <<row, invite, replaced>>
      BY <1>11 DEF SignIn!SetPassword
    <2>4. QED
      BY <2>2, <2>3, DeleteTypes, EndTypes DEF SignIn!TypeOK
  <1>12. ASSUME NEW r \in Requests, SignIn!RevokeSessions(r) PROVE SignIn!TypeOK'
    BY <1>12, DeleteTypes, EndTypes DEF SignIn!TypeOK, SignIn!RevokeSessions
  <1>13. ASSUME NEW r \in Requests, SignIn!AcceptInvite(r) PROVE SignIn!TypeOK'
    <2>1. hash[who[r]] + 1 \in 0..MaxPasswords
      BY <1>0, <1>13 DEF SignIn!TypeOK, SignIn!AcceptInvite
    <2>2. read' \in [Requests -> SignIn!Copy]
      <3> DEFINE copy == [read[r] EXCEPT !.hash = hash[who[r]] + 1]
      <3>1. copy \in SignIn!Copy
        BY <2>1 DEF SignIn!TypeOK, SignIn!Copy
      <3>2. read' = [read EXCEPT ![r] = copy]
        BY <1>13 DEF SignIn!AcceptInvite
      <3> HIDE DEF copy
      <3>3. QED
        BY <3>1, <3>2 DEF SignIn!TypeOK
    <2>3. QED
      BY <1>0, <1>13, <2>1, <2>2 DEF SignIn!TypeOK, SignIn!AcceptInvite
  <1>14. ASSUME NEW r \in Requests, SignIn!Vanished(r) PROVE SignIn!TypeOK'
    BY <1>14, EndTypes DEF SignIn!TypeOK, SignIn!Vanished
  <1>15. CASE UNCHANGED SignIn!vars
    BY <1>15 DEF SignIn!vars, SignIn!TypeOK
  <1>16. QED
    BY <1>1, <1>2, <1>3, <1>4, <1>5, <1>6, <1>7, <1>8, <1>9, <1>10, <1>11, <1>12,
       <1>13, <1>14, <1>15 DEF SignIn!Next

---------------------------------------------------------------------------
(* What an account has stays with it: a step that is not its erasure keeps  *)
(* it, and keeps a password once there is one.                             *)
LEMMA AccountStep ==
  ASSUME SignIn!AccountsAssumption, SignIn!TypeOK, [SignIn!Next]_(SignIn!vars), NEW u \in Users
  PROVE  /\ row[u] # "none" => row'[u] # "none"
         /\ row[u] = "gone" => row'[u] = "gone"
         /\ ~SignIn!Erase(u) => /\ row[u] = "live" => row'[u] = "live"
                                /\ hash[u] # 0 => hash'[u] # 0
  <1> USE DEF SignIn!TypeOK, SignIn!rows, SignIn!sessions, SignIn!local, SignIn!history
  <1>1. ASSUME NEW v \in Users,
               SignIn!CreateUser(v) \/ SignIn!LockoutElapses(v) \/ SignIn!InviteExpires(v)
        PROVE  (row[u] # "none" => row'[u] = row[u]) /\ hash' = hash
    BY <1>1 DEF SignIn!CreateUser, SignIn!LockoutElapses, SignIn!InviteExpires
  <1>2. ASSUME NEW v \in Users, SignIn!Erase(v), v # u
        PROVE  row'[u] = row[u] /\ hash'[u] = hash[u]
    BY <1>2 DEF SignIn!Erase, SignIn!DeleteAccount
  <1>3. ASSUME NEW r \in Requests, SignIn!SetPassword(r) \/ SignIn!AcceptInvite(r)
        PROVE  row' = row /\ (hash[u] # 0 => hash'[u] # 0)
    <2>1. hash' = [hash EXCEPT ![who[r]] = @ + 1] /\ row' = row
      BY <1>3 DEF SignIn!SetPassword, SignIn!AcceptInvite
    <2>2. hash[u] + 1 # 0 /\ hash[u] \in Nat
      BY DEF SignIn!AccountsAssumption
    <2>3. QED
      BY <2>1, <2>2
  <1>4. SignIn!Erase(u) => row[u] = "live" /\ row'[u] = "gone"
    BY DEF SignIn!Erase, SignIn!DeleteAccount
  <1>5. QED
    BY <1>1, <1>2, <1>3, <1>4
    DEF SignIn!Next, SignIn!vars, SignIn!StartLogin, SignIn!StartReset, SignIn!StartRevoke,
        SignIn!StartAccept, SignIn!RecordFailedLogin,
        SignIn!Authenticated, SignIn!CreateSession, SignIn!ListSessions, SignIn!RevokeSessions,
        SignIn!Vanished, SignIn!Logout,
        SignIn!ResolveExpired, SignIn!SessionExpires

(* Whoever is about to open a session after a step was before it, or has    *)
(* just begun with a password, or stored one.                              *)
LEMMA OpenerStep ==
  ASSUME SignIn!AccountsAssumption, SignIn!TypeOK, OpenerInv, [SignIn!Next]_(SignIn!vars)
  PROVE  OpenerInv'
  <1> USE DEF SignIn!rows, SignIn!sessions, SignIn!local, SignIn!history
  <1>1. SUFFICES ASSUME NEW r \in Requests, pc'[r] \in {"verify", "open"}
                 PROVE  /\ row'[who'[r]] # "none"
                        /\ row'[who'[r]] = "live" => hash'[who'[r]] # 0
    BY DEF OpenerInv
  <1>2. SignIn!TypeOK'
    BY StepTypes
  <1>3. who'[r] \in Users
    BY <1>2 DEF SignIn!TypeOK
  <1>4. \/ /\ pc[r] \in {"verify", "open"} /\ who'[r] = who[r]
        \/ hash[who'[r]] # 0 /\ row[who'[r]] = "live"
        \/ hash'[who'[r]] # 0 /\ row[who'[r]] = "live"
    <2> USE DEF SignIn!TypeOK
    <2>1. ASSUME NEW q \in Requests, NEW u \in Users, NEW isRight \in BOOLEAN,
                 SignIn!StartLogin(q, u, isRight)
          PROVE  \/ /\ pc[r] \in {"verify", "open"} /\ who'[r] = who[r]
                 \/ hash[who'[r]] # 0 /\ row[who'[r]] = "live"
      BY <1>1, <2>1 DEF SignIn!StartLogin, SignIn!Begin
    <2>2. ASSUME NEW q \in Requests, NEW u \in Users,
                 SignIn!StartReset(q, u) \/ SignIn!StartRevoke(q, u) \/ SignIn!StartAccept(q, u)
          PROVE  pc[r] \in {"verify", "open"} /\ who'[r] = who[r]
      BY <1>1, <2>2 DEF SignIn!StartReset, SignIn!StartRevoke, SignIn!StartAccept, SignIn!Begin
    <2>3. ASSUME NEW q \in Requests, SignIn!AcceptInvite(q)
          PROVE  \/ /\ pc[r] \in {"verify", "open"} /\ who'[r] = who[r]
                 \/ hash'[who'[r]] # 0 /\ row[who'[r]] = "live"
      <3>1. CASE q # r
        BY <1>1, <2>3, <3>1 DEF SignIn!AcceptInvite
      <3>2. CASE q = r
        <4>1. hash' = [hash EXCEPT ![who[r]] = @ + 1] /\ who' = who /\ row[who[r]] = "live"
          BY <2>3, <3>2 DEF SignIn!AcceptInvite
        <4>2. hash[who[r]] + 1 # 0 /\ who[r] \in Users
          BY DEF SignIn!AccountsAssumption
        <4>3. QED
          BY <4>1, <4>2
      <3>3. QED
        BY <3>1, <3>2
    <2>4. ASSUME NEW q \in Requests,
                 \/ SignIn!RecordFailedLogin(q) \/ SignIn!CreateSession(q) \/ SignIn!SetPassword(q)
                 \/ SignIn!RevokeSessions(q) \/ SignIn!Vanished(q)
          PROVE  pc[r] \in {"verify", "open"} /\ who'[r] = who[r]
      <3>1. SignIn!End(q)
        BY <2>4
        DEF SignIn!RecordFailedLogin, SignIn!CreateSession, SignIn!SetPassword,
            SignIn!RevokeSessions, SignIn!Vanished
      <3>2. QED
        BY <1>1, <3>1 DEF SignIn!End
    <2>5. ASSUME NEW q \in Requests, SignIn!Authenticated(q) \/ SignIn!ListSessions(q)
          PROVE  pc[r] \in {"verify", "open"} /\ who'[r] = who[r]
      BY <1>1, <2>5 DEF SignIn!Authenticated, SignIn!ListSessions
    <2>6. QED
      BY <1>1, <2>1, <2>2, <2>3, <2>4, <2>5
      DEF SignIn!Next, SignIn!vars, SignIn!CreateUser, SignIn!Erase, SignIn!LockoutElapses,
          SignIn!InviteExpires, SignIn!Logout,
          SignIn!ResolveExpired, SignIn!SessionExpires
  <1>5. row'[who'[r]] = "live" => ~SignIn!Erase(who'[r])
    BY <1>3 DEF SignIn!Erase, SignIn!DeleteAccount, SignIn!TypeOK
  <1>6. CASE pc[r] \in {"verify", "open"} /\ who'[r] = who[r]
    BY <1>3, <1>5, <1>6, AccountStep DEF OpenerInv, SignIn!TypeOK
  <1>7. QED
    BY <1>3, <1>4, <1>5, <1>6, AccountStep

(* A session that is there after a step was there before, or was opened by  *)
(* a request that knows a password of the account.                         *)
LEMMA BackedStep ==
  ASSUME SignIn!AccountsAssumption, SignIn!SessionsAreBacked, OpenerInv,
         [SignIn!Next]_(SignIn!vars)
  PROVE  SignIn!SessionsAreBacked'
  <1> USE DEF SignIn!rows, SignIn!sessions, SignIn!local, SignIn!history
  <1>0. SignIn!TypeOK
    BY BackedParts
  <1>1. SignIn!TypeOK'
    BY <1>0, StepTypes
  <1>2. SUFFICES ASSUME NEW t \in Tokens, session'[t] \in {"live", "expired"}
                 PROVE  row'[owner'[t]] = "live" /\ hash'[owner'[t]] # 0
    BY <1>1 DEF SignIn!SessionsAreBacked
  <1>3. CASE \E r \in Requests : SignIn!CreateSession(r) /\ session[t] = "unused"
    <2>1. PICK r \in Requests : SignIn!CreateSession(r) /\ session[t] = "unused"
      BY <1>3
    <2>2. /\ pc[r] = "open" /\ row[who[r]] = "live" /\ owner'[t] = who[r]
          /\ row' = row /\ hash' = hash
      BY <1>0, <1>2, <2>1 DEF SignIn!CreateSession, SignIn!TypeOK
    <2>3. QED
      BY <2>2 DEF OpenerInv
  <1>4. CASE session[t] \in {"live", "expired"} /\ owner'[t] = owner[t]
    <2>1. row[owner[t]] = "live" /\ hash[owner[t]] # 0 /\ owner[t] \in Users
      BY <1>0, <1>4 DEF SignIn!SessionsAreBacked, SignIn!TypeOK
    <2>2. ~SignIn!Erase(owner[t])
      BY <1>0, <1>2, <1>4 DEF SignIn!Erase, SignIn!DeleteSessions, SignIn!SessionsOf, SignIn!TypeOK
    <2>3. QED
      BY <1>0, <1>4, <2>1, <2>2, AccountStep
  <1>5. \/ \E r \in Requests : SignIn!CreateSession(r) /\ session[t] = "unused"
        \/ session[t] \in {"live", "expired"} /\ owner'[t] = owner[t]
    <2> USE <1>0, <1>2 DEF SignIn!TypeOK
    <2>1. ASSUME NEW r \in Requests, SignIn!CreateSession(r)
          PROVE  \/ session[t] = "unused"
                 \/ session[t] \in {"live", "expired"} /\ owner'[t] = owner[t]
      BY <2>1 DEF SignIn!CreateSession
    <2>2. ASSUME NEW doomed, SignIn!DeleteSessions(doomed)
          PROVE  session[t] \in {"live", "expired"} /\ owner'[t] = owner[t]
      BY <2>2 DEF SignIn!DeleteSessions
    <2>3. ASSUME NEW s \in Tokens, SignIn!SessionExpires(s)
          PROVE  session[t] \in {"live", "expired"} /\ owner'[t] = owner[t]
      BY <2>3 DEF SignIn!SessionExpires
    <2>4. QED
      BY <2>1, <2>2, <2>3
      DEF SignIn!Next, SignIn!vars, SignIn!CreateUser, SignIn!Erase, SignIn!LockoutElapses,
          SignIn!InviteExpires, SignIn!StartLogin,
          SignIn!StartReset, SignIn!StartRevoke, SignIn!StartAccept, SignIn!RecordFailedLogin,
          SignIn!Authenticated,
          SignIn!ListSessions, SignIn!SetPassword, SignIn!RevokeSessions, SignIn!AcceptInvite,
          SignIn!Vanished, SignIn!Logout,
          SignIn!ResolveExpired
  <1>6. QED
    BY <1>3, <1>4, <1>5

(* Whatever overlaps - logins, resets, invites, erasures - a session belongs *)
(* to an account that exists and has a password (create_session,            *)
(* erase_consultant, accept_invite).                                       *)
THEOREM EverySessionIsBacked == ConsultantSpec => []SessionsAreBacked
  <1> DEFINE Inv == part = "sign_in" => SignIn!SessionsAreBacked /\ OpenerInv
  <1>1. ConsultantInit => Inv
    BY ConsultantAssumption, InitBacked DEF ConsultantInit, SignInInit
  <1>2. Inv /\ [ConsultantNext]_consultantVars => Inv'
    BY ConsultantAssumption, ConsultantParts, BackedStep, OpenerStep, BackedParts
  <1>3. Inv => SessionsAreBacked
    BY DEF SessionsAreBacked
  <1>4. QED
    BY <1>1, <1>2, <1>3, PTL DEF ConsultantSpec

---------------------------------------------------------------------------
(* What a password change leaves signed in (OldPasswordsAreOut).            *)

(* Who is about to store a password will delete every session but those     *)
(* that were opened since it looked.                                       *)
RevokeInv ==
  \A r \in Requests : pc[r] = "revoking" => SignIn!SessionsOf(who[r]) \subseteq listed[r] \cup late

LEMMA RevokeStep ==
  ASSUME SignIn!AccountsAssumption, SignIn!TypeOK, RevokeInv, [SignIn!Next]_(SignIn!vars)
  PROVE  RevokeInv'
  <1> USE DEF SignIn!TypeOK, SignIn!rows, SignIn!sessions, SignIn!local, SignIn!history
  <1>1. SUFFICES ASSUME NEW r \in Requests, pc'[r] = "revoking",
                        NEW t \in Tokens, owner'[t] = who'[r], session'[t] \in {"live", "expired"}
                 PROVE  t \in listed'[r] \cup late'
    BY DEF RevokeInv, SignIn!SessionsOf
  <1>2. ASSUME pc[r] = "revoking", who'[r] = who[r], listed'[r] = listed[r],
               owner'[t] = owner[t], session[t] \in {"live", "expired"}, t \in late => t \in late'
        PROVE  t \in listed'[r] \cup late'
    BY <1>1, <1>2 DEF RevokeInv, SignIn!SessionsOf
  <1>3. ASSUME NEW q \in Requests, NEW u \in Users, NEW next, NEW copy,
               SignIn!Begin(q, u, next, copy), next # "revoking"
        PROVE  q # r /\ pc[r] = "revoking" /\ who'[r] = who[r]
    BY <1>1, <1>3 DEF SignIn!Begin
  <1>4. ASSUME NEW q \in Requests, SignIn!End(q)
        PROVE  q # r /\ pc[r] = "revoking" /\ who'[r] = who[r] /\ listed'[r] = listed[r]
    BY <1>1, <1>4 DEF SignIn!End
  <1>5. ASSUME NEW doomed, SignIn!DeleteSessions(doomed)
        PROVE  /\ owner'[t] = owner[t] /\ session[t] \in {"live", "expired"}
               /\ t \in late => t \in late'
    BY <1>1, <1>5 DEF SignIn!DeleteSessions
  <1>6. ASSUME NEW q \in Requests, SignIn!CreateSession(q)
        PROVE  t \in listed'[r] \cup late'
    <2>1. SignIn!End(q)
      BY <1>6 DEF SignIn!CreateSession
    <2>2. q # r /\ pc[r] = "revoking" /\ who'[r] = who[r] /\ listed'[r] = listed[r]
      BY <2>1, <1>4
    <2>3. CASE session[t] = "unused"
      BY <1>1, <1>6, <2>2, <2>3 DEF SignIn!CreateSession
    <2>4. CASE session[t] # "unused"
      <3>1. owner'[t] = owner[t] /\ session[t] \in {"live", "expired"}
              /\ (t \in late => t \in late')
        BY <1>1, <1>6, <2>4 DEF SignIn!CreateSession
      <3>2. QED
        BY <1>2, <2>2, <3>1
    <2>5. QED
      BY <2>3, <2>4
  <1>7. ASSUME NEW q \in Requests, SignIn!ListSessions(q)
        PROVE  t \in listed'[r] \cup late'
    <2>1. CASE q = r
      BY <1>1, <1>7, <2>1 DEF SignIn!ListSessions, SignIn!SessionsOf
    <2>2. CASE q # r
      <3>1. /\ pc[r] = "revoking" /\ who'[r] = who[r] /\ listed'[r] = listed[r]
            /\ owner' = owner /\ session' = session /\ late' = late
        BY <1>1, <1>7, <2>2 DEF SignIn!ListSessions
      <3>2. QED
        BY <1>1, <1>2, <3>1
    <2>3. QED
      BY <2>1, <2>2
  <1>8. ASSUME NEW q \in Requests, NEW u \in Users,
               \/ \E isRight \in BOOLEAN : SignIn!StartLogin(q, u, isRight)
               \/ SignIn!StartReset(q, u) \/ SignIn!StartRevoke(q, u) \/ SignIn!StartAccept(q, u)
        PROVE  t \in listed'[r] \cup late'
    <2>1. \E next, copy : SignIn!Begin(q, u, next, copy) /\ next # "revoking"
      BY <1>8 DEF SignIn!StartLogin, SignIn!StartReset, SignIn!StartRevoke, SignIn!StartAccept
    <2>2. q # r /\ pc[r] = "revoking" /\ who'[r] = who[r]
      BY <1>3, <2>1
    <2>3. listed'[r] = listed[r] /\ owner' = owner /\ session' = session /\ late' = late
      BY <1>8, <2>2
      DEF SignIn!StartLogin, SignIn!StartReset, SignIn!StartRevoke, SignIn!StartAccept
    <2>4. QED
      BY <1>1, <1>2, <2>2, <2>3
  <1>9. ASSUME NEW q \in Requests, SignIn!Authenticated(q) \/ SignIn!AcceptInvite(q)
        PROVE  t \in listed'[r] \cup late'
    BY <1>1, <1>2, <1>9 DEF SignIn!Authenticated, SignIn!AcceptInvite
  <1>10. ASSUME NEW q \in Requests, SignIn!RecordFailedLogin(q) \/ SignIn!Vanished(q)
         PROVE  t \in listed'[r] \cup late'
    <2>1. SignIn!End(q) /\ UNCHANGED SignIn!sessions
      BY <1>10 DEF SignIn!RecordFailedLogin, SignIn!Vanished
    <2>2. QED
      BY <1>1, <1>2, <1>4, <2>1
  <1>11. ASSUME NEW q \in Requests, SignIn!SetPassword(q) \/ SignIn!RevokeSessions(q)
         PROVE  t \in listed'[r] \cup late'
    <2>1. SignIn!End(q) /\ SignIn!DeleteSessions(listed[q])
      BY <1>11 DEF SignIn!SetPassword, SignIn!RevokeSessions
    <2>2. QED
      BY <1>2, <1>4, <1>5, <2>1
  <1>12. ASSUME NEW s \in Tokens, SignIn!Logout(s) \/ SignIn!ResolveExpired(s)
         PROVE  t \in listed'[r] \cup late'
    <2>1. SignIn!DeleteSessions({s}) /\ UNCHANGED SignIn!local
      BY <1>12 DEF SignIn!Logout, SignIn!ResolveExpired
    <2>2. QED
      BY <1>1, <1>2, <1>5, <2>1
  <1>13. ASSUME NEW u \in Users, SignIn!Erase(u)
         PROVE  t \in listed'[r] \cup late'
    <2>1. SignIn!DeleteSessions(SignIn!SessionsOf(u)) /\ UNCHANGED SignIn!local
      BY <1>13 DEF SignIn!Erase
    <2>2. QED
      BY <1>1, <1>2, <1>5, <2>1
  <1>14. ASSUME \/ \E u \in Users : SignIn!CreateUser(u) \/ SignIn!LockoutElapses(u)
                  \/ SignIn!InviteExpires(u)
                \/ \E s \in Tokens : SignIn!SessionExpires(s)
                \/ UNCHANGED SignIn!vars
         PROVE  t \in listed'[r] \cup late'
    <2>1. /\ UNCHANGED <<SignIn!local, owner, late>> /\ session[t] \in {"live", "expired"}
      BY <1>1, <1>14
      DEF SignIn!CreateUser, SignIn!LockoutElapses, SignIn!InviteExpires, SignIn!SessionExpires,
          SignIn!vars
    <2>2. QED
      BY <1>1, <1>2, <2>1
  <1>15. QED
    BY <1>6, <1>7, <1>8, <1>9, <1>10, <1>11, <1>12, <1>13, <1>14 DEF SignIn!Next

(* A step that leaves a session of an earlier password either stored the    *)
(* new one over an invite, or opened the session from a copy of the old, or *)
(* found it so.                                                            *)
LEMMA OutStep ==
  ASSUME SignIn!AccountsAssumption, SignIn!SessionsAreBacked, RevokeInv,
         SignIn!OldPasswordsAreOut, [SignIn!Next]_(SignIn!vars)
  PROVE  SignIn!OldPasswordsAreOut'
  <1> USE DEF SignIn!rows, SignIn!sessions, SignIn!local, SignIn!history
  <1>0. SignIn!TypeOK
    BY BackedParts
  <1> USE <1>0 DEF SignIn!TypeOK
  <1>1. SUFFICES ASSUME NEW t \in Tokens, session'[t] = "live", row'[owner'[t]] = "live",
                        opened'[t] # hash'[owner'[t]]
                 PROVE  t \in late' \/ owner'[t] \in replaced'
    BY DEF SignIn!OldPasswordsAreOut, SignIn!SignedIn
  <1>2. ASSUME session[t] = "live", owner'[t] = owner[t], row[owner[t]] = "live",
               opened[t] # hash[owner[t]], t \in late => t \in late',
               owner[t] \in replaced => owner[t] \in replaced'
        PROVE  t \in late' \/ owner'[t] \in replaced'
    BY <1>1, <1>2 DEF SignIn!OldPasswordsAreOut, SignIn!SignedIn
  <1>3. ASSUME NEW doomed, SignIn!DeleteSessions(doomed)
        PROVE  /\ t \notin doomed /\ session[t] = "live" /\ owner'[t] = owner[t]
               /\ opened'[t] = opened[t] /\ (t \in late => t \in late')
    BY <1>1, <1>3 DEF SignIn!DeleteSessions
  <1>4. session[t] = "live" => row[owner[t]] = "live" /\ hash[owner[t]] # 0
    BY DEF SignIn!SessionsAreBacked
  <1>5. ASSUME NEW q \in Requests, SignIn!CreateSession(q)
        PROVE  t \in late' \/ owner'[t] \in replaced'
    <2>1. CASE session[t] = "unused"
      BY <1>1, <1>5, <2>1 DEF SignIn!CreateSession
    <2>2. CASE session[t] # "unused"
      <3>1. /\ owner'[t] = owner[t] /\ session[t] = "live" /\ opened'[t] = opened[t]
            /\ (t \in late => t \in late') /\ UNCHANGED <<row, hash, replaced>>
        BY <1>1, <1>5, <2>2 DEF SignIn!CreateSession
      <3>2. QED
        BY <1>1, <1>2, <3>1
    <2>3. QED
      BY <2>1, <2>2
  <1>6. ASSUME NEW q \in Requests, SignIn!SetPassword(q)
        PROVE  t \in late' \/ owner'[t] \in replaced'
    <2>1. /\ SignIn!DeleteSessions(listed[q]) /\ UNCHANGED <<row, replaced>> /\ pc[q] = "revoking"
          /\ hash' = [hash EXCEPT ![who[q]] = @ + 1]
      BY <1>6 DEF SignIn!SetPassword
    <2>2. /\ t \notin listed[q] /\ session[t] = "live" /\ owner'[t] = owner[t]
          /\ opened'[t] = opened[t] /\ (t \in late => t \in late')
      BY <1>3, <2>1
    <2>3. CASE owner[t] = who[q]
      BY <2>1, <2>2, <2>3 DEF RevokeInv, SignIn!SessionsOf
    <2>4. CASE owner[t] # who[q]
      BY <1>1, <1>2, <2>1, <2>2, <2>4
    <2>5. QED
      BY <2>3, <2>4
  <1>7. ASSUME NEW q \in Requests, SignIn!AcceptInvite(q)
        PROVE  t \in late' \/ owner'[t] \in replaced'
    <2>1. /\ UNCHANGED <<row, SignIn!sessions>>
          /\ hash' = [hash EXCEPT ![who[q]] = @ + 1]
          /\ replaced' = IF hash[who[q]] = 0 THEN replaced ELSE replaced \cup {who[q]}
      BY <1>7 DEF SignIn!AcceptInvite
    <2>2. CASE owner[t] = who[q]
      BY <1>1, <1>4, <2>1, <2>2
    <2>3. CASE owner[t] # who[q]
      BY <1>1, <1>2, <2>1, <2>3
    <2>4. QED
      BY <2>2, <2>3
  <1>8. ASSUME NEW u \in Users, SignIn!Erase(u)
        PROVE  t \in late' \/ owner'[t] \in replaced'
    <2>1. SignIn!DeleteSessions(SignIn!SessionsOf(u)) /\ SignIn!DeleteAccount(u)
      BY <1>8 DEF SignIn!Erase
    <2>2. /\ t \notin SignIn!SessionsOf(u) /\ session[t] = "live" /\ owner'[t] = owner[t]
          /\ opened'[t] = opened[t] /\ (t \in late => t \in late')
      BY <1>3, <2>1
    <2>3. owner[t] # u
      BY <2>2 DEF SignIn!SessionsOf
    <2>4. QED
      BY <1>1, <1>2, <2>1, <2>2, <2>3 DEF SignIn!DeleteAccount
  <1>9. ASSUME NEW u \in Users, SignIn!CreateUser(u)
        PROVE  t \in late' \/ owner'[t] \in replaced'
    BY <1>1, <1>2, <1>4, <1>9 DEF SignIn!CreateUser
  <1>10. ASSUME \/ \E q \in Requests : SignIn!RevokeSessions(q)
                \/ \E s \in Tokens : SignIn!Logout(s) \/ SignIn!ResolveExpired(s)
         PROVE  t \in late' \/ owner'[t] \in replaced'
    <2>1. /\ \E doomed : SignIn!DeleteSessions(doomed)
          /\ UNCHANGED <<SignIn!rows, SignIn!history>>
      BY <1>10 DEF SignIn!RevokeSessions, SignIn!Logout, SignIn!ResolveExpired
    <2>2. QED
      BY <1>1, <1>2, <1>3, <2>1
  <1>11. ASSUME \/ \E q \in Requests, u \in Users :
                     \/ \E isRight \in BOOLEAN : SignIn!StartLogin(q, u, isRight)
                     \/ SignIn!StartReset(q, u) \/ SignIn!StartRevoke(q, u)
                          \/ SignIn!StartAccept(q, u)
                \/ \E q \in Requests : SignIn!RecordFailedLogin(q) \/ SignIn!Authenticated(q)
                                       \/ SignIn!ListSessions(q) \/ SignIn!Vanished(q)
                \/ \E u \in Users : SignIn!LockoutElapses(u) \/ SignIn!InviteExpires(u)
                \/ \E s \in Tokens : SignIn!SessionExpires(s)
                \/ UNCHANGED SignIn!vars
         PROVE  t \in late' \/ owner'[t] \in replaced'
    <2>1. /\ UNCHANGED <<row, hash, owner, opened, late, replaced>> /\ session[t] = "live"
      BY <1>1, <1>11
      DEF SignIn!StartLogin, SignIn!StartReset, SignIn!StartRevoke, SignIn!StartAccept,
          SignIn!RecordFailedLogin, SignIn!Authenticated,
          SignIn!ListSessions, SignIn!Vanished, SignIn!LockoutElapses, SignIn!InviteExpires,
          SignIn!SessionExpires, SignIn!vars
    <2>2. QED
      BY <1>1, <1>2, <2>1
  <1>12. QED
    BY <1>5, <1>6, <1>7, <1>8, <1>9, <1>10, <1>11 DEF SignIn!Next

(* A password change ends the sessions of the password before, but for      *)
(* sign-ins that overlapped it and invites accepted over a password.        *)
THEOREM OldSessionsEnd == ConsultantSpec => []OldPasswordsAreOut
  <1> DEFINE Inv == part = "sign_in" =>
                      /\ SignIn!SessionsAreBacked /\ OpenerInv
                      /\ RevokeInv /\ SignIn!OldPasswordsAreOut
  <1>1. SignIn!Init => RevokeInv /\ SignIn!OldPasswordsAreOut
    BY DEF SignIn!Init, RevokeInv, SignIn!OldPasswordsAreOut, SignIn!SignedIn
  <1>2. ConsultantInit => Inv
    BY <1>1, ConsultantAssumption, InitBacked DEF ConsultantInit, SignInInit
  <1>3. Inv /\ [ConsultantNext]_consultantVars => Inv'
    BY ConsultantAssumption, ConsultantParts, BackedStep, OpenerStep, RevokeStep, OutStep,
       BackedParts
  <1>4. Inv => OldPasswordsAreOut
    BY DEF OldPasswordsAreOut
  <1>5. QED
    BY <1>2, <1>3, <1>4, PTL DEF ConsultantSpec

---------------------------------------------------------------------------
(* The lockout counter (LockoutCounts).                                     *)

(* Quotient and remainder, and what counting on does to the remainder.      *)
LEMMA Quotient ==
  ASSUME NEW a \in Nat, NEW m \in Nat, m > 0
  PROVE  \E q \in Nat : a = m * q + (a % m)
  BY SMTT(30)

LEMMA OneQuotient ==
  ASSUME NEW m \in Nat \ {0}, NEW q \in Nat, NEW p \in Nat,
         NEW r \in 0..(m - 1), NEW s \in 0..(m - 1), m * q + r = m * p + s
  PROVE  r = s
  <1>1. ASSUME q < p PROVE FALSE
    <2>1. m * (p - q) >= m * 1
      BY <1>1, p - q >= 1, p - q \in Nat
    <2>2. m * (p - q) = m * p - m * q
      OBVIOUS
    <2>3. QED
      BY <2>1, <2>2
  <1>2. ASSUME p < q PROVE FALSE
    <2>1. m * (q - p) >= m * 1
      BY <1>2, q - p >= 1, q - p \in Nat
    <2>2. m * (q - p) = m * q - m * p
      OBVIOUS
    <2>3. QED
      BY <2>1, <2>2
  <1>3. QED
    BY <1>1, <1>2

LEMMA CountOn ==
  ASSUME NEW a \in Nat, NEW m \in Nat \ {0}
  PROVE  (a + 1) % m = IF (a % m) + 1 = m THEN 0 ELSE (a % m) + 1
  <1> DEFINE r == a % m
             s == (a + 1) % m
  <1>0. r \in 0..(m - 1) /\ s \in 0..(m - 1) /\ m > 0
    OBVIOUS
  <1>1. \E q \in Nat : a = m * q + r
    BY <1>0, Quotient
  <1>2. \E p \in Nat : a + 1 = m * p + s
    <2>1. a + 1 \in Nat
      OBVIOUS
    <2>2. QED
      BY <1>0, <2>1, Quotient
  <1> HIDE DEF r, s
  <1>3. PICK q \in Nat : a = m * q + r
    BY <1>1
  <1>4. PICK p \in Nat : a + 1 = m * p + s
    BY <1>2
  <1>5. CASE r + 1 = m
    <2>1. m * (q + 1) + 0 = m * p + s
      BY <1>0, <1>3, <1>4, <1>5
    <2>2. q + 1 \in Nat /\ 0 \in 0..(m - 1)
      OBVIOUS
    <2>3. s = 0
      BY <1>0, <2>1, <2>2, OneQuotient
    <2>4. QED
      BY <1>5, <2>3 DEF r, s
  <1>6. CASE r + 1 # m
    <2>1. m * q + (r + 1) = m * p + s
      BY <1>0, <1>3, <1>4
    <2>2. r + 1 \in 0..(m - 1)
      BY <1>0, <1>6
    <2>3. s = r + 1
      BY <1>0, <2>1, <2>2, OneQuotient
    <2>4. QED
      BY <1>6, <2>3 DEF r, s
  <1>7. QED
    BY <1>5, <1>6

(* A sign-in goes on only from a copy without a lockout in force.           *)
NotLocked == \A r \in Requests : pc[r] = "verify" => read[r].lock # "on"

LEMMA NotLockedStep ==
  ASSUME SignIn!AccountsAssumption, SignIn!TypeOK, NotLocked, [SignIn!Next]_(SignIn!vars)
  PROVE  NotLocked'
  <1> USE DEF SignIn!TypeOK, SignIn!rows, SignIn!sessions, SignIn!local, SignIn!history
  <1>1. SUFFICES ASSUME NEW r \in Requests, pc'[r] = "verify"
                 PROVE  read'[r].lock # "on"
    BY DEF NotLocked
  <1>2. ASSUME NEW q \in Requests, NEW u \in Users, NEW isRight \in BOOLEAN,
               SignIn!StartLogin(q, u, isRight)
        PROVE  read'[r].lock # "on"
    <2>1. CASE q = r
      <3>1. read'[r] = SignIn!Read(u) /\ lock[u] # "on"
        BY <1>2, <2>1 DEF SignIn!StartLogin, SignIn!Begin
      <3>2. QED
        BY <3>1 DEF SignIn!Read
    <2>2. CASE q # r
      BY <1>1, <1>2, <2>2 DEF SignIn!StartLogin, SignIn!Begin, NotLocked
    <2>3. QED
      BY <2>1, <2>2
  <1>3. ASSUME NEW q \in Requests, NEW u \in Users,
               SignIn!StartReset(q, u) \/ SignIn!StartRevoke(q, u) \/ SignIn!StartAccept(q, u)
        PROVE  read'[r].lock # "on"
    BY <1>1, <1>3
    DEF SignIn!StartReset, SignIn!StartRevoke, SignIn!StartAccept, SignIn!Begin, NotLocked
  <1>4. ASSUME NEW q \in Requests,
               \/ SignIn!RecordFailedLogin(q) \/ SignIn!CreateSession(q) \/ SignIn!SetPassword(q)
               \/ SignIn!RevokeSessions(q) \/ SignIn!Vanished(q)
        PROVE  read'[r].lock # "on"
    <2>1. SignIn!End(q)
      BY <1>4
      DEF SignIn!RecordFailedLogin, SignIn!CreateSession, SignIn!SetPassword,
          SignIn!RevokeSessions, SignIn!Vanished
    <2>2. QED
      BY <1>1, <2>1 DEF SignIn!End, NotLocked
  <1>5. ASSUME NEW q \in Requests,
               SignIn!Authenticated(q) \/ SignIn!AcceptInvite(q) \/ SignIn!ListSessions(q)
        PROVE  read'[r].lock # "on"
    <2>1. q # r \/ read' = read
      BY <1>1, <1>5 DEF SignIn!Authenticated, SignIn!AcceptInvite, SignIn!ListSessions
    <2>2. pc[r] = "verify"
      BY <1>1, <1>5 DEF SignIn!Authenticated, SignIn!AcceptInvite, SignIn!ListSessions
    <2>3. read'[r] = read[r]
      BY <1>5, <2>1 DEF SignIn!Authenticated, SignIn!AcceptInvite, SignIn!ListSessions
    <2>4. QED
      BY <2>2, <2>3 DEF NotLocked
  <1>6. ASSUME UNCHANGED SignIn!local
        PROVE  read'[r].lock # "on"
    BY <1>1, <1>6 DEF NotLocked
  <1>7. QED
    BY <1>2, <1>3, <1>4, <1>5, <1>6
    DEF SignIn!Next, SignIn!vars, SignIn!CreateUser, SignIn!Erase, SignIn!LockoutElapses,
        SignIn!InviteExpires, SignIn!Logout,
        SignIn!ResolveExpired, SignIn!SessionExpires

(* LockoutCounts of one account.                                           *)
Counts(u) ==
  u \notin raced =>
    /\ failed[u] = wrong[u] % MaxFailed
    /\ lock[u] = "on" => wrong[u] # 0 /\ failed[u] = 0

LEMMA CountsStep ==
  ASSUME SignIn!AccountsAssumption, SignIn!TypeOK, NotLocked, [SignIn!Next]_(SignIn!vars),
         NEW u \in Users, Counts(u)
  PROVE  Counts(u)'
  <1> USE DEF SignIn!TypeOK, SignIn!rows, SignIn!sessions, SignIn!local, SignIn!history
  <1>0. MaxFailed \in Nat \ {0} /\ 0 % MaxFailed = 0
    BY DEF SignIn!AccountsAssumption
  <1>1. ASSUME NEW r \in Requests, SignIn!RecordFailedLogin(r)
        PROVE  Counts(u)'
    <2>1. /\ raced' = IF SignIn!CurrentCopy(r) THEN raced ELSE raced \cup {who[r]}
          /\ wrong' = [wrong EXCEPT ![who[r]] = @ + 1]
          /\ who[r] \in Users /\ pc[r] = "verify"
      BY <1>1 DEF SignIn!RecordFailedLogin
    <2>2. CASE u # who[r]
      <3>1. failed'[u] = failed[u] /\ lock'[u] = lock[u] /\ wrong'[u] = wrong[u]
            /\ (u \notin raced' => u \notin raced)
        BY <1>1, <2>1, <2>2 DEF SignIn!RecordFailedLogin
      <3>2. QED
        BY <3>1 DEF Counts
    <2>3. CASE u = who[r] /\ u \notin raced'
      <3>1. /\ read[r].failed = failed[u] /\ read[r].lock = lock[u] /\ u \notin raced
            /\ wrong'[u] = wrong[u] + 1
        BY <2>1, <2>3 DEF SignIn!CurrentCopy
      <3>2. /\ failed[u] = wrong[u] % MaxFailed /\ lock[u] # "on"
        BY <2>1, <2>3, <3>1 DEF Counts, NotLocked
      <3>3. wrong[u] \in Nat /\ wrong[u] + 1 # 0 /\ failed[u] \in 0..(MaxFailed - 1)
        BY DEF SignIn!AccountsAssumption
      <3>4. CASE failed[u] + 1 >= MaxFailed
        <4>1. failed' = [failed EXCEPT ![u] = SignIn!Assigned(failed[u], @, 0)]
                /\ lock' = [lock EXCEPT ![u] = "on"]
          BY <1>1, <2>3, <3>1, <3>4 DEF SignIn!RecordFailedLogin
        <4>2. failed'[u] = 0
          BY <4>1 DEF SignIn!Assigned
        <4>3. failed[u] + 1 = MaxFailed
          BY <1>0, <3>3, <3>4
        <4>4. (wrong[u] + 1) % MaxFailed = 0
          BY <1>0, <3>2, <3>3, <4>3, CountOn
        <4>5. QED
          BY <3>1, <3>3, <4>2, <4>4 DEF Counts
      <3>5. CASE ~(failed[u] + 1 >= MaxFailed)
        <4>1. failed' = [failed EXCEPT ![u] = failed[u] + 1] /\ lock' = lock
          BY <1>1, <2>3, <3>1, <3>5 DEF SignIn!RecordFailedLogin
        <4>2. failed[u] + 1 # MaxFailed
          BY <1>0, <3>3, <3>5
        <4>3. (wrong[u] + 1) % MaxFailed = failed[u] + 1
          <5>1. (wrong[u] + 1) % MaxFailed = (wrong[u] % MaxFailed) + 1
            <6> DEFINE w == wrong[u]
            <6>1. w \in Nat /\ (w % MaxFailed) + 1 # MaxFailed
              BY <3>2, <3>3, <4>2
            <6> HIDE DEF w
            <6>2. (w + 1) % MaxFailed = (w % MaxFailed) + 1
              BY <1>0, <6>1, CountOn
            <6>3. QED
              BY <6>2 DEF w
          <5>2. QED
            BY <3>2, <5>1
        <4>4. QED
          BY <3>1, <3>2, <4>1, <4>3 DEF Counts
      <3>6. QED
        BY <3>4, <3>5
    <2>4. CASE u \in raced'
      BY <2>4 DEF Counts
    <2>5. QED
      BY <2>2, <2>3, <2>4
  <1>2. ASSUME NEW r \in Requests, SignIn!Authenticated(r) \/ SignIn!SetPassword(r)
        PROVE  Counts(u)'
    <2>1. /\ failed' = [failed EXCEPT ![who[r]] = SignIn!Assigned(read[r].failed, @, 0)]
          /\ lock' = [lock EXCEPT ![who[r]] = SignIn!Assigned(read[r].lock, @, "none")]
          /\ wrong' = [wrong EXCEPT ![who[r]] = 0]
          /\ raced' = IF SignIn!CurrentCopy(r) THEN raced \ {who[r]} ELSE raced \cup {who[r]}
          /\ who[r] \in Users
      BY <1>2 DEF SignIn!Authenticated, SignIn!SetPassword
    <2>2. CASE u # who[r]
      <3>1. failed'[u] = failed[u] /\ lock'[u] = lock[u] /\ wrong'[u] = wrong[u]
            /\ (u \notin raced' => u \notin raced)
        BY <2>1, <2>2
      <3>2. QED
        BY <3>1 DEF Counts
    <2>3. CASE u = who[r] /\ u \notin raced'
      <3>1. read[r].failed = failed[u] /\ read[r].lock = lock[u]
        BY <2>1, <2>3 DEF SignIn!CurrentCopy
      <3>2. failed'[u] = 0 /\ lock'[u] = "none" /\ wrong'[u] = 0
        BY <2>1, <2>3, <3>1 DEF SignIn!Assigned
      <3>3. QED
        BY <1>0, <3>2 DEF Counts
    <2>4. CASE u \in raced'
      BY <2>4 DEF Counts
    <2>5. QED
      BY <2>2, <2>3, <2>4
  <1>3. ASSUME NEW v \in Users, SignIn!Erase(v)
        PROVE  Counts(u)'
    <2>1. CASE u = v
      BY <1>0, <1>3, <2>1 DEF Counts, SignIn!Erase, SignIn!DeleteAccount
    <2>2. CASE u # v
      BY <1>3, <2>2 DEF Counts, SignIn!Erase, SignIn!DeleteAccount
    <2>3. QED
      BY <2>1, <2>2
  <1>4. ASSUME NEW v \in Users, SignIn!LockoutElapses(v)
        PROVE  Counts(u)'
    BY <1>4 DEF Counts, SignIn!LockoutElapses
  <1>5. ASSUME UNCHANGED <<failed, lock, wrong, raced>>
        PROVE  Counts(u)'
    BY <1>5 DEF Counts
  <1>6. QED
    BY <1>1, <1>2, <1>3, <1>4, <1>5
    DEF SignIn!Next, SignIn!vars, SignIn!CreateUser, SignIn!InviteExpires, SignIn!StartLogin,
        SignIn!StartReset, SignIn!StartRevoke,
        SignIn!StartAccept, SignIn!CreateSession, SignIn!ListSessions, SignIn!RevokeSessions,
        SignIn!AcceptInvite, SignIn!Vanished,
        SignIn!Logout, SignIn!ResolveExpired, SignIn!SessionExpires

(* The counter counts, and locks out when it is full, unless requests wrote *)
(* it from the same copy (_record_failed_login).                           *)
THEOREM LockoutsAreCounted == ConsultantSpec => []LockoutCounts
  <1> DEFINE Inv == part = "sign_in" => SignIn!TypeOK /\ NotLocked /\ \A u \in Users : Counts(u)
  <1>1. ASSUME SignIn!AccountsAssumption, SignIn!Init
        PROVE  SignIn!TypeOK /\ NotLocked /\ \A u \in Users : Counts(u)
    <2>1. SignIn!TypeOK
      BY <1>1, InitBacked, BackedParts
    <2>2. NotLocked
      BY <1>1 DEF SignIn!Init, NotLocked
    <2>3. 0 % MaxFailed = 0
      BY <1>1 DEF SignIn!AccountsAssumption
    <2>4. \A u \in Users : Counts(u)
      BY <1>1, <2>3 DEF SignIn!Init, Counts
    <2>5. QED
      BY <2>1, <2>2, <2>4
  <1>2. ConsultantInit => Inv
    BY <1>1, ConsultantAssumption DEF ConsultantInit, SignInInit
  <1>3. Inv /\ [ConsultantNext]_consultantVars => Inv'
    BY ConsultantAssumption, ConsultantParts, StepTypes, NotLockedStep, CountsStep
  <1>4. Inv => LockoutCounts
    BY DEF LockoutCounts, SignIn!LockoutCounts, Counts
  <1>5. QED
    BY <1>2, <1>3, <1>4, PTL DEF ConsultantSpec

---------------------------------------------------------------------------
(* MatchingConfig.                                                         *)

LEMMA SameCardinality == \A S : Matching!Cardinality(S) = Cardinality(S)
  BY DEF Matching!Cardinality, Cardinality

Holds(w) == phase[w] \in {"lock", "backup", "replace", "mark"}

(* Runs are numbered as they are accepted, each with a stamp of its own,    *)
(* and an invocation is of one of them.                                    *)
Numbered == \E n \in 0..MaxRuns : Matching!Accepted = 1..n

StampsApart ==
  /\ \A n, m \in Matching!Accepted : n # m => stamp[n] # stamp[m]
  /\ \A n \in Matching!Accepted : stamp[n] <= clock
  /\ \A r \in Requests : asked[r] # 0 =>
       /\ asked[r] <= clock
       /\ \A n \in Matching!Accepted : stamp[n] # asked[r]
       /\ \A q \in Requests : q # r => asked[q] # asked[r]

OfRuns == \A w \in Workers : phase[w] # "idle" => on[w] \in Matching!Accepted

RunsInv == Matching!TypeOK /\ Numbered /\ StampsApart /\ OfRuns

(* Who holds the account's lock works for the latest run, alone.            *)
HoldInv ==
  \A w \in Workers : Holds(w) =>
    /\ eraser = "idle" /\ account = "live" /\ Matching!IsLatest(on[w])
    /\ \A v \in Workers : Holds(v) => v = w

(* What was saved, and by whom.                                            *)
SavedInv ==
  /\ primary # 0 => primary \in Matching!Accepted /\ saves[primary] # 0
  /\ backup # 0 => backup \in Matching!Accepted /\ saves[backup] # 0
  /\ \A n \in Matching!Runs : saves[n] # 0 => n \in Matching!Accepted
  /\ wiped = "no" => \A n \in Matching!Runs : saves[n] # 0 => primary # 0
  /\ wiped = "no" => \A w \in Workers : phase[w] \in {"backup", "replace"} => saves[on[w]] = 0
  /\ wiped = "no" => \A n \in Matching!Runs : saves[n] <= 1
  /\ primary # 0 => \A n \in Matching!Runs : saves[n] # 0 => stamp[n] <= stamp[primary]
  /\ primary # 0 /\ backup # 0 => stamp[backup] <= stamp[primary]

(* A run that may be over: it saved, or another took its place.             *)
Settled(n) == saves[n] # 0 \/ Matching!OutOfOrder(n) \/ \E m \in Matching!Accepted : m > n

DoneInv ==
  /\ \A n \in Matching!Runs : status[n] = "succeeded" => Settled(n)
  /\ \A w \in Workers : phase[w] \in {"mark", "return"} => Settled(on[w])

(* An erasure has removed the files, with no other writer on its way, or    *)
(* wiped says why not.                                                     *)
ErasedInv ==
  eraser = "commit" \/ account = "gone" =>
    \/ wiped = "left" \/ wiped = "raced"
    \/ wiped = "clean" /\ writer = "idle" /\ primary = 0 /\ backup = 0 /\ ~dir

MatchingInv == RunsInv /\ HoldInv /\ SavedInv /\ DoneInv /\ ErasedInv

LEMMA InitMatching ==
  ASSUME Matching!MatchingConfigAssumption, Matching!Init
  PROVE  MatchingInv
  <1> USE DEF Matching!MatchingConfigAssumption, Matching!Init
  <1>1. Matching!Accepted = 1..0 /\ 0 \in 0..MaxRuns
          /\ \A n \in Matching!Runs : n \notin Matching!Accepted
    BY DEF Matching!Accepted
  <1>2. Matching!TypeOK
    BY DEF Matching!TypeOK, Matching!Runs
  <1>3. RunsInv
    BY <1>1, <1>2 DEF RunsInv, Numbered, StampsApart, OfRuns
  <1>4. HoldInv /\ SavedInv /\ DoneInv /\ ErasedInv
    BY DEF HoldInv, Holds, SavedInv, DoneInv, ErasedInv
  <1>5. QED
    BY <1>3, <1>4 DEF MatchingInv

LEMMA NextRunIsNew ==
  ASSUME Matching!MatchingConfigAssumption, Numbered
  PROVE  /\ Cardinality(Matching!Accepted) \in 0..MaxRuns
         /\ Matching!Accepted = 1..Cardinality(Matching!Accepted)
         /\ Cardinality(Matching!Accepted) + 1 \notin Matching!Accepted
  <1>1. PICK n \in 0..MaxRuns : Matching!Accepted = 1..n
    BY DEF Numbered
  <1>2. Cardinality(1..n) = n
    BY <1>1, FS_Interval DEF Matching!MatchingConfigAssumption
  <1>3. n + 1 \notin 1..n
    BY <1>1 DEF Matching!MatchingConfigAssumption
  <1>4. QED
    BY <1>1, <1>2, <1>3

(* A request that becomes a run.                                           *)
Accepts(r) ==
  LET n == Cardinality(Matching!Accepted) + 1 IN
  /\ account = "live"
  /\ ~ \E k \in Matching!Accepted : Matching!IsLatest(k) /\ status[k] \in {"queued", "running"}
  /\ n \in Matching!Runs
  /\ status' = [status EXCEPT ![n] = "queued"]
  /\ stamp' = [stamp EXCEPT ![n] = asked[r]]

LEMMA RequestParts ==
  ASSUME NEW r \in Requests, Matching!RequestConfig(r)
  PROVE  /\ asked[r] # 0 /\ ~Matching!UserLocked /\ asked' = [asked EXCEPT ![r] = 0]
         /\ Accepts(r) \/ UNCHANGED <<status, stamp>>
         /\ UNCHANGED <<clock, on, phase, Matching!files, account, eraser, writer,
                       Matching!bounds, saves, wiped>>
  BY SameCardinality DEF Matching!RequestConfig, Accepts

---------------------------------------------------------------------------
LEMMA MatchingTypes ==
  ASSUME Matching!MatchingConfigAssumption, Matching!TypeOK, [Matching!Next]_(Matching!vars)
  PROVE  Matching!TypeOK'
  <1> USE DEF Matching!TypeOK, Matching!files, Matching!queue, Matching!bounds, Matching!Goto
  <1>1. ASSUME NEW r \in Requests, Matching!BeginRequest(r)
        PROVE  Matching!TypeOK'
    BY <1>1 DEF Matching!BeginRequest, Matching!MatchingConfigAssumption
  <1>2. ASSUME NEW r \in Requests, Matching!RequestConfig(r)
        PROVE  Matching!TypeOK'
    <2>1. 0 \in 0..MaxClock
      BY DEF Matching!MatchingConfigAssumption
    <2>2. status' \in [Matching!Runs -> {"none", "queued", "running", "succeeded", "failed"}]
          /\ stamp' \in [Matching!Runs -> 0..MaxClock]
      BY <1>2, RequestParts DEF Accepts
    <2>3. QED
      BY <1>2, <2>1, <2>2, RequestParts
  <1>3. ASSUME NEW w \in Workers, NEW n \in Matching!Runs, Matching!Claim(w, n)
        PROVE  Matching!TypeOK'
    BY <1>3 DEF Matching!Claim
  <1>4. ASSUME NEW w \in Workers,
               Matching!FirstCheck(w) \/ Matching!Generate(w) \/ Matching!SecondCheck(w)
        PROVE  Matching!TypeOK'
    BY <1>4 DEF Matching!FirstCheck, Matching!Generate, Matching!SecondCheck
  <1>5. ASSUME NEW w \in Workers, Matching!LockProfile(w) \/ Matching!SaveBackup(w)
        PROVE  Matching!TypeOK'
    BY <1>5 DEF Matching!LockProfile, Matching!SaveBackup
  <1>6. ASSUME NEW w \in Workers, Matching!SaveConfig(w)
        PROVE  Matching!TypeOK'
    <2>1. on[w] \in 0..MaxRuns /\ on[w] \in Matching!Runs /\ saves[on[w]] + 1 \in Nat
      BY DEF Matching!Runs, Matching!MatchingConfigAssumption
    <2>2. QED
      BY <1>6, <2>1 DEF Matching!SaveConfig
  <1>7. ASSUME NEW w \in Workers, Matching!MarkSucceeded(w) \/ Matching!MarkFailed(w)
        PROVE  Matching!TypeOK'
    <2>1. on[w] \in Matching!Runs
      OBVIOUS
    <2>2. status' \in [Matching!Runs -> {"none", "queued", "running", "succeeded", "failed"}]
      BY <1>7, <2>1 DEF Matching!MarkSucceeded, Matching!MarkFailed
    <2>3. QED
      BY <1>7, <2>2 DEF Matching!MarkSucceeded, Matching!MarkFailed
  <1>8. ASSUME NEW n \in Matching!Runs, Matching!Recover(n)
        PROVE  Matching!TypeOK'
    <2>1. overlaps' \in 0..MaxOverlaps
      BY <1>8 DEF Matching!Recover, Matching!MatchingConfigAssumption
    <2>2. QED
      BY <1>8, <2>1 DEF Matching!Recover
  <1>9. CASE Matching!Crash
    BY <1>9 DEF Matching!Crash, Matching!MatchingConfigAssumption
  <1>10. CASE Matching!BeginErasure \/ Matching!RemoveDirectory \/ Matching!CommitErasure
    <2>1. 0 \in 0..MaxRuns
      BY DEF Matching!MatchingConfigAssumption
    <2>2. CASE Matching!RemoveDirectory
      <3>1. /\ primary' \in {0, primary} /\ backup' \in {0, backup} /\ dir' \in BOOLEAN
            /\ wiped' \in {"no", "clean", "left", "raced"}
        BY <2>2 DEF Matching!RemoveDirectory
      <3>2. QED
        BY <2>1, <2>2, <3>1 DEF Matching!RemoveDirectory
    <2>3. CASE Matching!BeginErasure \/ Matching!CommitErasure
      BY <2>3 DEF Matching!BeginErasure, Matching!CommitErasure
    <2>4. QED
      BY <1>10, <2>2, <2>3
  <1>11. CASE Matching!BeginWrite \/ Matching!MakeDirectory \/ Matching!Write
    BY <1>11 DEF Matching!BeginWrite, Matching!MakeDirectory, Matching!Write
  <1>12. CASE UNCHANGED Matching!vars
    BY <1>12 DEF Matching!vars
  <1>13. ASSUME NEW w \in Workers, Matching!SaveFails(w)
         PROVE  Matching!TypeOK'
    <2>1. on[w] \in Matching!Runs /\ crashes' \in 0..MaxCrashes /\ dir' \in BOOLEAN
      BY <1>13 DEF Matching!SaveFails, Matching!MatchingConfigAssumption
    <2>2. status' \in [Matching!Runs -> {"none", "queued", "running", "succeeded", "failed"}]
      BY <1>13, <2>1 DEF Matching!SaveFails
    <2>3. QED
      BY <1>13, <2>1, <2>2 DEF Matching!SaveFails
  <1>14. QED
    BY <1>1, <1>2, <1>3, <1>4, <1>5, <1>6, <1>7, <1>8, <1>9, <1>10, <1>11, <1>12, <1>13
    DEF Matching!Next

(* Runs, once accepted, keep their stamp, and a step accepts one at most.   *)
Lasting == Matching!Accepted' = Matching!Accepted
  /\ \A n \in Matching!Accepted : stamp'[n] = stamp[n]

LEMMA AcceptedStep ==
  ASSUME Matching!MatchingConfigAssumption, Matching!TypeOK, Numbered, OfRuns,
         [Matching!Next]_(Matching!vars)
  PROVE  \/ Lasting
         \/ \E r \in Requests : Matching!RequestConfig(r) /\ Accepts(r)
  <1> USE DEF Matching!TypeOK, Matching!files, Matching!queue, Matching!bounds
  <1>1. ASSUME NEW r \in Requests, Matching!RequestConfig(r), ~Accepts(r) PROVE Lasting
    <2>1. status' = status /\ stamp' = stamp
      BY <1>1, RequestParts
    <2>2. QED
      BY <2>1 DEF Lasting, Matching!Accepted
  <1>2. ASSUME NEW w \in Workers, NEW n \in Matching!Runs, Matching!Claim(w, n) PROVE Lasting
    BY <1>2 DEF Matching!Claim, Lasting, Matching!Accepted
  <1>3. ASSUME NEW w \in Workers,
               Matching!MarkSucceeded(w) \/ Matching!MarkFailed(w) \/ Matching!SaveFails(w)
        PROVE  Lasting
    <2>1. on[w] \in Matching!Runs /\ status[on[w]] # "none" /\ stamp' = stamp
      BY <1>3
      DEF Matching!MarkSucceeded, Matching!MarkFailed, Matching!SaveFails, OfRuns,
          Matching!Accepted
    <2>2. \/ status' = [status EXCEPT ![on[w]] = "succeeded"]
          \/ status' = [status EXCEPT ![on[w]] = IF @ = "succeeded" THEN @ ELSE "failed"]
          \/ status' = status
      BY <1>3 DEF Matching!MarkSucceeded, Matching!MarkFailed, Matching!SaveFails
    <2>3. \A n \in Matching!Runs : status'[n] # "none" <=> status[n] # "none"
      BY <2>1, <2>2
    <2>4. QED
      BY <2>1, <2>3 DEF Lasting, Matching!Accepted
  <1>4. ASSUME NEW n \in Matching!Runs, Matching!Recover(n) PROVE Lasting
    BY <1>4 DEF Matching!Recover, Lasting, Matching!Accepted
  <1>5. ASSUME UNCHANGED <<status, stamp>> PROVE Lasting
    BY <1>5 DEF Lasting, Matching!Accepted
  <1>6. QED
    BY <1>1, <1>2, <1>3, <1>4, <1>5
    DEF Matching!Next, Matching!vars, Matching!BeginRequest, Matching!FirstCheck,
        Matching!Generate, Matching!SecondCheck, Matching!LockProfile, Matching!SaveBackup,
        Matching!SaveConfig, Matching!Crash, Matching!BeginErasure, Matching!RemoveDirectory,
        Matching!CommitErasure, Matching!BeginWrite,
        Matching!MakeDirectory, Matching!Write

LEMMA AcceptsRun ==
  ASSUME Matching!MatchingConfigAssumption, Matching!TypeOK, Numbered, NEW r \in Requests,
         Accepts(r)
  PROVE  LET n == Cardinality(Matching!Accepted) + 1 IN
         /\ n \in Matching!Runs \ Matching!Accepted
         /\ Matching!Accepted' = Matching!Accepted \cup {n} /\ Matching!Accepted' = 1..n
              /\ n \in 0..MaxRuns
         /\ stamp'[n] = asked[r]
         /\ \A k \in Matching!Accepted : stamp'[k] = stamp[k] /\ k < n
  <1> DEFINE n == Cardinality(Matching!Accepted) + 1
  <1>1. /\ n \in Matching!Runs /\ status' = [status EXCEPT ![n] = "queued"]
        /\ stamp' = [stamp EXCEPT ![n] = asked[r]]
    BY DEF Accepts
  <1>2. n \notin Matching!Accepted /\ Cardinality(Matching!Accepted) \in 0..MaxRuns
          /\ Matching!Accepted = 1..Cardinality(Matching!Accepted)
    BY NextRunIsNew
  <1>3. n \in 0..MaxRuns /\ (1..Cardinality(Matching!Accepted)) \cup {n} = 1..n
        /\ \A k \in 1..Cardinality(Matching!Accepted) : k < n
    BY <1>1, <1>2 DEF Matching!Runs, Matching!MatchingConfigAssumption
  <1> HIDE DEF n
  <1>4. Matching!Accepted' = Matching!Accepted \cup {n}
    BY <1>1 DEF Matching!Accepted, Matching!TypeOK
  <1>5. stamp'[n] = asked[r] /\ \A k \in Matching!Accepted : stamp'[k] = stamp[k]
    BY <1>1, <1>2 DEF Matching!TypeOK, Matching!Accepted
  <1>6. QED
    BY <1>1, <1>2, <1>3, <1>4, <1>5 DEF n

LEMMA RunsStep ==
  ASSUME Matching!MatchingConfigAssumption, RunsInv, [Matching!Next]_(Matching!vars)
  PROVE  RunsInv'
  <1> USE DEF Matching!files, Matching!queue, Matching!bounds, Matching!Goto
  <1>0. Matching!TypeOK /\ Numbered /\ StampsApart /\ OfRuns /\ Matching!TypeOK'
    BY MatchingTypes DEF RunsInv
  <1>1. Matching!Accepted \subseteq Matching!Accepted'
    BY <1>0, AcceptedStep, AcceptsRun DEF Lasting
  <1>2. Numbered'
    <2>1. CASE Lasting
      BY <1>0, <2>1 DEF Lasting, Numbered
    <2>2. CASE \E r \in Requests : Accepts(r)
      <3>1. PICK r \in Requests : Accepts(r)
        BY <2>2
      <3>2. PICK n \in 0..MaxRuns : Matching!Accepted' = 1..n
        BY <1>0, <3>1, AcceptsRun
      <3>3. QED
        BY <3>2 DEF Numbered
    <2>3. QED
      BY <1>0, <2>1, <2>2, AcceptedStep
  <1>3. StampsApart'
    <2>1. /\ clock \in Nat /\ \A r \in Requests : asked[r] \in Nat
          /\ \A n \in Matching!Runs : stamp[n] \in Nat
      BY <1>0 DEF Matching!TypeOK, Matching!MatchingConfigAssumption
    <2>2. ASSUME NEW r \in Requests, Matching!BeginRequest(r)
          PROVE  StampsApart'
      <3>1. /\ clock' = clock + 1 /\ asked' = [asked EXCEPT ![r] = clock + 1]
            /\ status' = status /\ stamp' = stamp
        BY <2>2 DEF Matching!BeginRequest
      <3>2. Matching!Accepted' = Matching!Accepted /\ Matching!Accepted \subseteq Matching!Runs
        BY <3>1 DEF Matching!Accepted
      <3>3. \A q \in Requests : asked'[q] = IF q = r THEN clock + 1 ELSE asked[q]
        BY <1>0, <3>1 DEF Matching!TypeOK
      <3>4. /\ \A n \in Matching!Accepted : stamp[n] < clock + 1 /\ stamp[n] <= clock'
            /\ \A q \in Requests : asked[q] # 0 => asked[q] < clock + 1
        BY <1>0, <2>1, <3>1, <3>2 DEF StampsApart
      <3>5. ASSUME NEW q \in Requests, asked'[q] # 0
            PROVE  /\ asked'[q] <= clock'
                   /\ \A n \in Matching!Accepted : stamp[n] # asked'[q]
                   /\ \A p \in Requests : p # q => asked'[p] # asked'[q]
        <4>1. CASE q = r
          <5>1. asked'[q] = clock + 1
            BY <3>3, <4>1
          <5>2. \A n \in Matching!Accepted : stamp[n] # clock + 1
            BY <2>1, <3>2, <3>4
          <5>3. \A p \in Requests : asked[p] # clock + 1
            <6>1. clock + 1 # 0
              BY <2>1
            <6>2. QED
              BY <2>1, <3>4, <6>1
          <5>4. QED
            BY <2>1, <3>1, <3>3, <4>1, <5>1, <5>2, <5>3
        <4>2. CASE q # r
          <5>1. asked'[q] = asked[q] /\ asked[q] # 0 /\ asked[q] # clock + 1
            BY <2>1, <3>3, <3>4, <3>5, <4>2
          <5>2. asked[q] <= clock + 1
            BY <2>1, <3>4, <5>1
          <5>3. QED
            BY <1>0, <3>1, <3>3, <5>1, <5>2 DEF StampsApart
        <4>3. QED
          BY <4>1, <4>2
      <3>6. QED
        BY <1>0, <3>1, <3>2, <3>4, <3>5 DEF StampsApart
    <2>3. ASSUME NEW r \in Requests, Matching!RequestConfig(r)
          PROVE  StampsApart'
      <3>1. /\ asked[r] # 0 /\ clock' = clock
            /\ \A q \in Requests : asked'[q] = IF q = r THEN 0 ELSE asked[q]
        BY <1>0, <2>3, RequestParts DEF Matching!TypeOK
      <3>2. CASE Accepts(r)
        <4> DEFINE n == Cardinality(Matching!Accepted) + 1
        <4>1. /\ Matching!Accepted' = Matching!Accepted \cup {n} /\ n \notin Matching!Accepted
                   /\ stamp'[n] = asked[r]
              /\ \A k \in Matching!Accepted : stamp'[k] = stamp[k]
          BY <1>0, <3>2, AcceptsRun
        <4> HIDE DEF n
        <4>2. \A k, m \in Matching!Accepted' : k # m => stamp'[k] # stamp'[m]
          BY <1>0, <3>1, <4>1 DEF StampsApart
        <4>3. \A k \in Matching!Accepted' : stamp'[k] <= clock'
          BY <1>0, <3>1, <4>1 DEF StampsApart
        <4>4. \A q \in Requests : asked'[q] # 0 =>
                /\ asked'[q] <= clock'
                /\ \A k \in Matching!Accepted' : stamp'[k] # asked'[q]
                /\ \A p \in Requests : p # q => asked'[p] # asked'[q]
          BY <1>0, <3>1, <4>1 DEF StampsApart
        <4>5. QED
          BY <4>2, <4>3, <4>4 DEF StampsApart
      <3>3. CASE status' = status /\ stamp' = stamp
        BY <1>0, <3>1, <3>3 DEF StampsApart, Matching!Accepted
      <3>4. QED
        BY <2>3, <3>2, <3>3, RequestParts
    <2>4. CASE Matching!Crash
      BY <1>0, <2>4 DEF Matching!Crash, StampsApart, Matching!Accepted
    <2>5. ASSUME Lasting, UNCHANGED <<clock, asked>>
          PROVE  StampsApart'
      BY <1>0, <2>5 DEF Lasting, StampsApart
    <2>6. QED
      BY <1>0, <2>2, <2>3, <2>4, <2>5, AcceptedStep
      DEF Matching!Next, Matching!vars, Matching!Claim, Matching!FirstCheck, Matching!Generate,
          Matching!SecondCheck, Matching!LockProfile, Matching!SaveBackup,
          Matching!SaveConfig, Matching!SaveFails, Matching!MarkSucceeded,
          Matching!MarkFailed, Matching!Recover, Matching!BeginErasure, Matching!RemoveDirectory,
          Matching!CommitErasure, Matching!BeginWrite, Matching!MakeDirectory, Matching!Write
  <1>4. OfRuns'
    <2>1. SUFFICES ASSUME NEW w \in Workers, phase'[w] # "idle" PROVE on'[w] \in Matching!Accepted'
      BY DEF OfRuns
    <2>2. ASSUME NEW v \in Workers, NEW n \in Matching!Runs, Matching!Claim(v, n)
          PROVE  on'[w] \in Matching!Accepted'
      <3>1. n \in Matching!Accepted
        BY <2>2 DEF Matching!Claim, Matching!Accepted
      <3>2. CASE w = v
        BY <1>0, <1>1, <2>2, <3>1, <3>2 DEF Matching!Claim, Matching!TypeOK
      <3>3. CASE w # v
        BY <1>0, <1>1, <2>1, <2>2, <3>3 DEF Matching!Claim, Matching!TypeOK, OfRuns
      <3>4. QED
        BY <3>2, <3>3
    <2>3. ASSUME phase[w] # "idle", on' = on
          PROVE  on'[w] \in Matching!Accepted'
      BY <1>0, <1>1, <2>3 DEF OfRuns
    <2>4. ASSUME NEW v \in Workers,
                 \/ Matching!FirstCheck(v) \/ Matching!Generate(v) \/ Matching!SecondCheck(v)
                      \/ Matching!LockProfile(v)
                 \/ Matching!SaveBackup(v) \/ Matching!SaveConfig(v) \/ Matching!SaveFails(v)
                      \/ Matching!MarkSucceeded(v) \/ Matching!MarkFailed(v)
          PROVE  on'[w] \in Matching!Accepted'
      <3>1. on' = on /\ phase[v] # "idle" /\ \E next : phase' = [phase EXCEPT ![v] = next]
        BY <2>4
        DEF Matching!FirstCheck, Matching!Generate, Matching!SecondCheck, Matching!LockProfile,
            Matching!SaveBackup, Matching!SaveConfig, Matching!SaveFails,
            Matching!MarkSucceeded, Matching!MarkFailed
      <3>2. phase[w] # "idle"
        BY <1>0, <2>1, <3>1 DEF Matching!TypeOK
      <3>3. QED
        BY <2>3, <3>1, <3>2
    <2>5. CASE Matching!Crash
      BY <2>1, <2>5 DEF Matching!Crash
    <2>6. ASSUME NEW r \in Requests, Matching!RequestConfig(r)
          PROVE  on'[w] \in Matching!Accepted'
      BY <2>1, <2>3, <2>6, RequestParts
    <2>7. QED
      BY <2>1, <2>2, <2>3, <2>4, <2>5, <2>6
      DEF Matching!Next, Matching!vars, Matching!BeginRequest, Matching!Recover,
          Matching!BeginErasure, Matching!RemoveDirectory, Matching!CommitErasure,
          Matching!BeginWrite, Matching!MakeDirectory, Matching!Write
  <1>5. QED
    BY <1>0, <1>2, <1>3, <1>4 DEF RunsInv

(* The invocations whose next step needs the lock.                          *)
LEMMA HoldStep ==
  ASSUME Matching!MatchingConfigAssumption, RunsInv, HoldInv, [Matching!Next]_(Matching!vars)
  PROVE  HoldInv'
  <1> USE DEF Matching!files, Matching!queue, Matching!bounds, Matching!Goto
  <1>0. Matching!TypeOK /\ Numbered /\ StampsApart /\ OfRuns
    BY DEF RunsInv
  <1>1. SUFFICES ASSUME NEW w \in Workers, Holds(w)'
                 PROVE  /\ eraser' = "idle" /\ account' = "live" /\ Matching!IsLatest(on[w])'
                        /\ \A v \in Workers : Holds(v)' => v = w
    BY DEF HoldInv
  (* A step that leaves the holder, the lock and the runs alone.            *)
  <1>2. ASSUME \A v \in Workers : Holds(v)' => Holds(v), on'[w] = on[w], Lasting,
               UNCHANGED <<eraser, account>>
        PROVE  /\ eraser' = "idle" /\ account' = "live" /\ Matching!IsLatest(on[w])'
               /\ \A v \in Workers : Holds(v)' => v = w
    <2>1. Holds(w) /\ eraser = "idle" /\ account = "live" /\ Matching!IsLatest(on[w])
          /\ \A v \in Workers : Holds(v) => v = w
      BY <1>1, <1>2 DEF HoldInv
    <2>2. on[w] \in Matching!Accepted
      BY <1>0, <2>1 DEF OfRuns, Holds
    <2>3. Matching!IsLatest(on[w])'
      BY <1>2, <2>1, <2>2 DEF Matching!IsLatest, Lasting
    <2>4. QED
      BY <1>2, <2>1, <2>3
  <1>3. ASSUME ~Matching!UserLocked
        PROVE  eraser = "idle" /\ \A v \in Workers : ~Holds(v)
    BY <1>3 DEF Matching!UserLocked, Holds
  <1>4. ASSUME NEW v \in Workers, Matching!SecondCheck(v)
        PROVE  /\ eraser' = "idle" /\ account' = "live" /\ Matching!IsLatest(on[w])'
               /\ \A u \in Workers : Holds(u)' => u = w
    <2>1. /\ eraser = "idle" /\ \A u \in Workers : ~Holds(u)
          /\ UNCHANGED <<status, stamp, on, account, eraser>>
          /\ \E next : phase' = [phase EXCEPT ![v] = next]
          /\ phase'[v] = "lock" => account = "live" /\ Matching!IsLatest(on[v])
      BY <1>0, <1>3, <1>4 DEF Matching!SecondCheck, Matching!TypeOK
    <2>2. \A u \in Workers : u # v => ~Holds(u)'
      BY <1>0, <2>1 DEF Holds, Matching!TypeOK
    <2>3. w = v /\ phase'[v] = "lock"
      BY <1>0, <1>1, <1>4, <2>2 DEF Holds, Matching!SecondCheck, Matching!TypeOK
    <2>4. Matching!IsLatest(on[w])'
      BY <2>1, <2>3 DEF Matching!IsLatest, Matching!Accepted
    <2>5. QED
      BY <2>1, <2>2, <2>3, <2>4
  <1>5. ASSUME NEW v \in Workers,
               \/ Matching!FirstCheck(v) \/ Matching!Generate(v) \/ Matching!LockProfile(v)
                    \/ Matching!SaveBackup(v)
               \/ Matching!SaveConfig(v)
        PROVE  /\ \A u \in Workers : Holds(u)' => Holds(u)
               /\ UNCHANGED <<on, eraser, account, status, stamp>>
    <2>1. \/ phase[v] \in {"check", "generate"}
               /\ \E next \in {"fail", "return", "generate", "recheck"} :
                    phase' = [phase EXCEPT ![v] = next]
          \/ Holds(v) /\ \E next : phase' = [phase EXCEPT ![v] = next]
      BY <1>5
      DEF Matching!FirstCheck, Matching!Generate, Matching!LockProfile, Matching!SaveBackup,
          Matching!SaveConfig, Holds
    <2>2. \A u \in Workers : Holds(u)' => Holds(u)
      BY <1>0, <2>1 DEF Holds, Matching!TypeOK
    <2>3. QED
      BY <1>5, <2>2
      DEF Matching!FirstCheck, Matching!Generate, Matching!LockProfile, Matching!SaveBackup,
          Matching!SaveConfig
  <1>6. ASSUME NEW v \in Workers,
               Matching!MarkSucceeded(v) \/ Matching!MarkFailed(v) \/ Matching!SaveFails(v)
        PROVE  /\ \A u \in Workers : Holds(u)' => Holds(u)
               /\ UNCHANGED <<on, eraser, account>>
    BY <1>0, <1>6
    DEF Matching!MarkSucceeded, Matching!MarkFailed, Matching!SaveFails, Holds, Matching!TypeOK
  <1>7. ASSUME NEW v \in Workers, NEW n \in Matching!Runs, Matching!Claim(v, n)
        PROVE  /\ \A u \in Workers : Holds(u)' => Holds(u)
               /\ on'[w] = on[w] /\ UNCHANGED <<eraser, account>>
    <2>1. phase' = [phase EXCEPT ![v] = "check"] /\ on' = [on EXCEPT ![v] = n]
          /\ UNCHANGED <<eraser, account>>
      BY <1>7 DEF Matching!Claim
    <2>2. v # w
      BY <1>0, <1>1, <2>1 DEF Holds, Matching!TypeOK
    <2>3. QED
      BY <1>0, <2>1, <2>2 DEF Holds, Matching!TypeOK
  <1>8. ASSUME NEW r \in Requests, Matching!RequestConfig(r)
        PROVE  FALSE
    <2>1. ~Matching!UserLocked /\ UNCHANGED <<on, phase, eraser, account>>
      BY <1>8, RequestParts
    <2>2. Holds(w)
      BY <1>1, <2>1 DEF Holds
    <2>3. QED
      BY <1>3, <2>1, <2>2
  <1>9. CASE Matching!Crash
    BY <1>1, <1>9 DEF Matching!Crash, Holds
  <1>10. CASE Matching!BeginErasure
    BY <1>1, <1>3, <1>10 DEF Matching!BeginErasure, Holds
  <1>11. CASE Matching!RemoveDirectory \/ Matching!CommitErasure
    <2>1. eraser # "idle" /\ phase' = phase
      BY <1>11 DEF Matching!RemoveDirectory, Matching!CommitErasure
    <2>2. QED
      BY <1>1, <2>1 DEF Holds, HoldInv
  <1>12. ASSUME UNCHANGED <<on, phase, eraser, account>>, Lasting
         PROVE  /\ eraser' = "idle" /\ account' = "live" /\ Matching!IsLatest(on[w])'
                /\ \A v \in Workers : Holds(v)' => v = w
    BY <1>2, <1>12 DEF Holds
  <1>13. CASE Lasting
    BY <1>1, <1>2, <1>4, <1>5, <1>6, <1>7, <1>8, <1>9, <1>10, <1>11, <1>12, <1>13
    DEF Matching!Next, Matching!vars, Matching!BeginRequest, Matching!Recover,
        Matching!BeginWrite, Matching!MakeDirectory, Matching!Write
  <1>14. QED
    BY <1>0, <1>8, <1>13, AcceptedStep

(* What is saved stays so, and its stamps with it.                          *)
LEMMA SavedStep ==
  ASSUME Matching!MatchingConfigAssumption, RunsInv, HoldInv, SavedInv,
         [Matching!Next]_(Matching!vars)
  PROVE  SavedInv'
  <1> USE DEF Matching!files, Matching!queue, Matching!bounds, Matching!Goto
  <1>0. Matching!TypeOK /\ Numbered /\ StampsApart /\ OfRuns
          /\ Matching!Accepted \subseteq Matching!Runs
    BY DEF RunsInv, Matching!Accepted
  <1>1. \A n \in Matching!Accepted : n \in Matching!Accepted' /\ stamp'[n] = stamp[n]
    BY <1>0, AcceptedStep, AcceptsRun DEF Lasting
  (* A step that saves nothing, and begins no save.                         *)
  <1>2. ASSUME UNCHANGED <<primary, backup, saves>>, wiped' = "no" => wiped = "no",
               \A w \in Workers : phase'[w] \in {"backup", "replace"} =>
                 phase[w] \in {"backup", "replace"} /\ on'[w] = on[w]
        PROVE  SavedInv'
    BY <1>0, <1>1, <1>2 DEF SavedInv
  <1>3. ASSUME NEW w \in Workers, Matching!LockProfile(w)
        PROVE  SavedInv'
    <2>1. /\ phase[w] = "lock" /\ UNCHANGED <<on, primary, backup, saves, wiped>>
          /\ \E next : phase' = [phase EXCEPT ![w] = next]
          /\ phase'[w] \in {"backup", "replace"} => Matching!Loaded # on[w]
      BY <1>0, <1>3 DEF Matching!LockProfile, Matching!TypeOK
    <2>2. ASSUME wiped = "no", Matching!Loaded # on[w], saves[on[w]] # 0
          PROVE  FALSE
      <3>1. Matching!IsLatest(on[w]) /\ on[w] \in Matching!Accepted /\ on[w] \in Matching!Runs
        BY <1>0, <2>1 DEF HoldInv, Holds, OfRuns, Matching!TypeOK
      <3>2. primary # 0 /\ primary \in Matching!Accepted /\ stamp[on[w]] <= stamp[primary]
        BY <2>2, <3>1 DEF SavedInv
      <3>3. stamp[primary] <= stamp[on[w]]
        BY <3>1, <3>2 DEF Matching!IsLatest
      <3>4. stamp[primary] = stamp[on[w]]
        <4>1. stamp[primary] \in 0..MaxClock /\ stamp[on[w]] \in 0..MaxClock
          BY <1>0, <3>1, <3>2 DEF Matching!TypeOK
        <4>2. QED
          BY <3>2, <3>3, <4>1 DEF Matching!MatchingConfigAssumption
      <3>5. primary = on[w]
        BY <1>0, <3>1, <3>2, <3>4 DEF StampsApart
      <3>6. QED
        BY <2>2, <3>2, <3>5 DEF Matching!Loaded
    <2>3. \A v \in Workers :
            wiped = "no" /\ phase'[v] \in {"backup", "replace"} => saves[on[v]] = 0
      BY <1>0, <2>1, <2>2 DEF SavedInv, Matching!TypeOK
    <2>4. QED
      BY <1>1, <2>1, <2>3 DEF SavedInv
  <1>4. ASSUME NEW w \in Workers, Matching!SaveBackup(w)
        PROVE  SavedInv'
    <2>1. /\ phase[w] = "backup" /\ UNCHANGED <<on, primary, saves, wiped>> /\ backup' = primary
          /\ phase' = [phase EXCEPT ![w] = "replace"]
      BY <1>4 DEF Matching!SaveBackup
    <2>2. \A v \in Workers : phase'[v] \in {"backup", "replace"} =>
            phase[v] \in {"backup", "replace"}
      BY <1>0, <2>1 DEF Matching!TypeOK
    <2>3. primary # 0 => stamp'[primary] <= stamp'[primary]
      <3>1. primary # 0 => stamp[primary] \in Nat
        BY <1>0 DEF SavedInv, Matching!TypeOK, Matching!MatchingConfigAssumption
      <3>2. QED
        BY <1>1, <3>1 DEF SavedInv
    <2>4. QED
      BY <1>1, <2>1, <2>2, <2>3 DEF SavedInv
  <1>5. ASSUME NEW w \in Workers, Matching!SaveConfig(w)
        PROVE  SavedInv'
    <2> DEFINE o == on[w]
    <2>1. /\ phase[w] = "replace" /\ UNCHANGED <<status, stamp, on, backup, wiped>> /\ primary' = o
          /\ saves' = [saves EXCEPT ![o] = @ + 1] /\ phase' = [phase EXCEPT ![w] = "mark"]
      BY <1>5 DEF Matching!SaveConfig
    <2>2. o \in Matching!Accepted /\ Matching!IsLatest(o) /\ \A v \in Workers : Holds(v) => v = w
      BY <1>0, <2>1 DEF HoldInv, OfRuns, Holds
    <2>3. \A v \in Workers : phase'[v] \notin {"backup", "replace"}
      BY <1>0, <2>1, <2>2 DEF Holds, Matching!TypeOK
    <2> HIDE DEF o
    <2>4. o # 0 /\ o \in Matching!Runs
      BY <1>0, <2>2 DEF Matching!Runs, Matching!MatchingConfigAssumption
    <2>5. /\ saves[o] \in Nat /\ saves'[o] = saves[o] + 1
          /\ \A n \in Matching!Runs : n # o => saves'[n] = saves[n]
      BY <1>0, <2>1, <2>4 DEF Matching!TypeOK
    <2>6. Matching!Accepted' = Matching!Accepted
      BY <2>1 DEF Matching!Accepted
    <2>7. wiped = "no" => saves[o] = 0
      BY <2>1 DEF SavedInv, o
    <2>8. \A n \in Matching!Runs : saves'[n] # 0 => n \in Matching!Accepted /\ stamp[n] <= stamp[o]
      BY <2>2, <2>5 DEF SavedInv, Matching!IsLatest
    <2>9. saves'[o] # 0
      BY <2>5
    <2>10. backup # 0 => backup \in Matching!Accepted /\ saves'[backup] # 0
      BY <1>0, <2>5, <2>9 DEF SavedInv
    <2>11. backup # 0 => stamp[backup] <= stamp[o]
      BY <2>2, <2>10 DEF Matching!IsLatest
    <2>12. wiped = "no" => \A n \in Matching!Runs : saves'[n] <= 1
      BY <2>5, <2>7 DEF SavedInv
    <2>13. QED
      BY <2>1, <2>2, <2>3, <2>4, <2>6, <2>8, <2>9, <2>10, <2>11, <2>12 DEF SavedInv
  <1>6. CASE Matching!RemoveDirectory
    <2>1. /\ eraser = "remove" /\ UNCHANGED <<status, stamp, on, phase, saves>> /\ wiped' # "no"
          /\ primary' \in {0, primary} /\ backup' \in {0, backup}
      BY <1>0, <1>6 DEF Matching!RemoveDirectory, Matching!TypeOK
    <2>2. Matching!Accepted' = Matching!Accepted
      BY <2>1 DEF Matching!Accepted
    <2>3. QED
      BY <2>1, <2>2 DEF SavedInv
  <1>7. ASSUME NEW w \in Workers,
               \/ Matching!FirstCheck(w) \/ Matching!Generate(w) \/ Matching!SecondCheck(w)
                    \/ Matching!MarkSucceeded(w)
               \/ Matching!MarkFailed(w) \/ Matching!SaveFails(w)
        PROVE  SavedInv'
    <2>1. /\ UNCHANGED <<on, primary, backup, saves, wiped>>
          /\ \E next \in {"fail", "return", "generate", "recheck", "lock", "idle"} :
               phase' = [phase EXCEPT ![w] = next]
      BY <1>7
      DEF Matching!FirstCheck, Matching!Generate, Matching!SecondCheck, Matching!MarkSucceeded,
          Matching!MarkFailed, Matching!SaveFails
    <2>2. \A v \in Workers : phase'[v] \in {"backup", "replace"} =>
            phase[v] \in {"backup", "replace"}
      BY <1>0, <2>1 DEF Matching!TypeOK
    <2>3. QED
      BY <1>2, <2>1, <2>2
  <1>8. ASSUME NEW w \in Workers, NEW n \in Matching!Runs, Matching!Claim(w, n)
        PROVE  SavedInv'
    <2>1. /\ UNCHANGED <<primary, backup, saves, wiped>> /\ phase' = [phase EXCEPT ![w] = "check"]
          /\ on' = [on EXCEPT ![w] = n]
      BY <1>8 DEF Matching!Claim
    <2>2. \A v \in Workers : phase'[v] \in {"backup", "replace"} =>
            phase[v] \in {"backup", "replace"} /\ on'[v] = on[v]
      BY <1>0, <2>1 DEF Matching!TypeOK
    <2>3. QED
      BY <1>2, <2>1, <2>2
  <1>9. CASE Matching!Crash
    BY <1>2, <1>9 DEF Matching!Crash
  <1>10. CASE Matching!MakeDirectory
    BY <1>2, <1>10 DEF Matching!MakeDirectory
  <1>11. ASSUME NEW r \in Requests, Matching!RequestConfig(r)
         PROVE  SavedInv'
    BY <1>2, <1>11, RequestParts
  <1>12. CASE Matching!BeginWrite
    BY <1>2, <1>12 DEF Matching!BeginWrite
  <1>13. ASSUME UNCHANGED <<primary, backup, saves, wiped, phase, on>>
         PROVE  SavedInv'
    BY <1>2, <1>13
  <1>14. QED
    BY <1>3, <1>4, <1>5, <1>6, <1>7, <1>8, <1>9, <1>10, <1>11, <1>12, <1>13
    DEF Matching!Next, Matching!vars, Matching!BeginRequest, Matching!Recover,
        Matching!BeginErasure, Matching!CommitErasure, Matching!Write

LEMMA StaysSettled ==
  ASSUME Matching!MatchingConfigAssumption, RunsInv, [Matching!Next]_(Matching!vars),
         NEW n \in Matching!Accepted, Settled(n)
  PROVE  Settled(n)'
  <1> USE DEF Matching!files, Matching!queue, Matching!bounds
  <1>0. Matching!TypeOK /\ Numbered /\ OfRuns /\ Matching!Accepted \subseteq Matching!Runs
    BY DEF RunsInv, Matching!Accepted
  <1>1. \A m \in Matching!Accepted : m \in Matching!Accepted' /\ stamp'[m] = stamp[m]
    BY <1>0, AcceptedStep, AcceptsRun DEF Lasting
  <1>2. saves[n] # 0 => saves'[n] # 0
    <2>1. ASSUME NEW w \in Workers, Matching!SaveConfig(w)
          PROVE  saves[n] # 0 => saves'[n] # 0
      <3>1. saves' = [saves EXCEPT ![on[w]] = @ + 1] /\ on[w] \in Matching!Runs
        BY <1>0, <2>1 DEF Matching!SaveConfig, Matching!TypeOK
      <3>2. \A k \in Nat : k + 1 # 0
        OBVIOUS
      <3>3. QED
        BY <1>0, <3>1, <3>2 DEF Matching!TypeOK
    <2>2. ASSUME NEW r \in Requests, Matching!RequestConfig(r)
          PROVE  saves' = saves
      BY <2>2, RequestParts
    <2>3. QED
      BY <2>1, <2>2
      DEF Matching!Next, Matching!vars, Matching!BeginRequest, Matching!Claim,
          Matching!FirstCheck, Matching!Generate, Matching!SecondCheck, Matching!LockProfile,
          Matching!SaveBackup, Matching!SaveFails, Matching!MarkSucceeded,
          Matching!MarkFailed, Matching!Recover, Matching!Crash, Matching!BeginErasure, Matching!RemoveDirectory,
          Matching!CommitErasure, Matching!BeginWrite, Matching!MakeDirectory, Matching!Write
  <1>3. QED
    BY <1>1, <1>2 DEF Settled, Matching!OutOfOrder

LEMMA SupersededSettles ==
  ASSUME Matching!MatchingConfigAssumption, RunsInv, NEW n \in Matching!Accepted,
         ~Matching!IsLatest(n)
  PROVE  Settled(n)
  <1>1. PICK m \in Matching!Accepted : ~(stamp[m] <= stamp[n])
    BY DEF Matching!IsLatest
  <1>2. /\ m \in Nat /\ n \in Nat /\ stamp[m] \in Nat /\ stamp[n] \in Nat
    BY
    DEF RunsInv, Matching!TypeOK, Matching!Accepted, Matching!Runs,
        Matching!MatchingConfigAssumption
  <1>3. stamp[m] > stamp[n] /\ (m < n \/ m > n)
    BY <1>1, <1>2
  <1>4. QED
    BY <1>3 DEF Settled, Matching!OutOfOrder

LEMMA LoadedSettles ==
  ASSUME SavedInv, NEW n, n # 0, Matching!Loaded = n
  PROVE  Settled(n)
  BY DEF SavedInv, Matching!Loaded, Settled

LEMMA DoneStep ==
  ASSUME Matching!MatchingConfigAssumption, RunsInv, SavedInv, DoneInv,
         [Matching!Next]_(Matching!vars)
  PROVE  DoneInv'
  <1> USE DEF Matching!files, Matching!queue, Matching!bounds, Matching!Goto
  <1>0. Matching!TypeOK /\ Numbered /\ OfRuns /\ Matching!Accepted \subseteq Matching!Runs
    BY DEF RunsInv, Matching!Accepted
  <1>1. ASSUME \A n \in Matching!Runs :
                 status'[n] = "succeeded" => status[n] = "succeeded" \/ Settled(n)',
               \A w \in Workers, n \in Matching!Runs :
                 phase'[w] \in {"mark", "return"} /\ n = on'[w] =>
                   Settled(n)' \/ (phase[w] \in {"mark", "return"} /\ on[w] = n)
        PROVE  DoneInv'
    <2>1. ASSUME NEW n \in Matching!Runs, status'[n] = "succeeded"
          PROVE  Settled(n)'
      <3>1. status[n] = "succeeded" => n \in Matching!Accepted /\ Settled(n)
        BY DEF DoneInv, Matching!Accepted
      <3>2. QED
        BY <1>1, <2>1, <3>1, StaysSettled
    <2>2. ASSUME NEW w \in Workers, NEW n \in Matching!Runs, phase'[w] \in {"mark", "return"},
                 n = on'[w]
          PROVE  Settled(n)'
      <3>1. phase[w] \in {"mark", "return"} /\ on[w] = n => n \in Matching!Accepted /\ Settled(n)
        BY <1>0 DEF DoneInv, OfRuns
      <3>2. QED
        BY <1>1, <2>2, <3>1, StaysSettled
    <2>3. on' \in [Workers -> Matching!Runs]
      BY <1>0, MatchingTypes DEF Matching!TypeOK
    <2>4. \A w \in Workers : phase'[w] \in {"mark", "return"} => Settled(on[w])'
      BY <2>2, <2>3 DEF Settled, Matching!OutOfOrder
    <2>5. QED
      BY <2>1, <2>4 DEF DoneInv
  <1>2. ASSUME NEW w \in Workers,
               Matching!FirstCheck(w) \/ Matching!SecondCheck(w) \/ Matching!LockProfile(w)
        PROVE  DoneInv'
    <2>1. /\ UNCHANGED <<status, on>> /\ phase[w] # "idle"
          /\ \E next : phase' = [phase EXCEPT ![w] = next]
          /\ phase'[w] \in {"mark", "return"} =>
               ~Matching!IsLatest(on[w]) \/ Matching!Loaded = on[w]
      BY <1>0, <1>2
      DEF Matching!FirstCheck, Matching!SecondCheck, Matching!LockProfile, Matching!TypeOK
    <2>2. PICK n \in Matching!Accepted : n = on[w] /\ n # 0
      <3>1. on[w] \in Matching!Accepted
        BY <1>0, <2>1 DEF OfRuns
      <3>2. on[w] # 0
        BY <1>0, <3>1 DEF Matching!Runs
      <3>3. QED
        BY <3>1, <3>2
    <2>3. phase'[w] \in {"mark", "return"} => Settled(n)
      BY <2>1, <2>2, SupersededSettles, LoadedSettles
    <2>4. phase'[w] \in {"mark", "return"} => Settled(n)'
      BY <2>2, <2>3, StaysSettled
    <2>5. on'[w] = n
      BY <2>1, <2>2
    <2>6. \A v \in Workers : v # w => phase'[v] = phase[v] /\ on'[v] = on[v]
      BY <1>0, <2>1 DEF Matching!TypeOK
    <2>7. QED
      BY <1>1, <2>1, <2>4, <2>5, <2>6
  <1>3. ASSUME NEW w \in Workers, Matching!SaveConfig(w)
        PROVE  DoneInv'
    <2>1. /\ UNCHANGED <<status, on>> /\ phase' = [phase EXCEPT ![w] = "mark"]
          /\ saves' = [saves EXCEPT ![on[w]] = @ + 1]
      BY <1>3 DEF Matching!SaveConfig
    <2>2. PICK n \in Matching!Runs : n = on[w]
      BY <1>0 DEF Matching!TypeOK
    <2>3. saves'[n] # 0
      <3>1. \A k \in Nat : k + 1 # 0
        OBVIOUS
      <3>2. QED
        BY <1>0, <2>1, <2>2, <3>1 DEF Matching!TypeOK
    <2>4. Settled(n)'
      BY <2>3 DEF Settled
    <2>5. on'[w] = n
      BY <2>1, <2>2
    <2>6. \A v \in Workers : v # w => phase'[v] = phase[v] /\ on'[v] = on[v]
      BY <1>0, <2>1 DEF Matching!TypeOK
    <2>7. QED
      BY <1>1, <2>1, <2>4, <2>5, <2>6
  <1>4. ASSUME NEW w \in Workers,
               Matching!MarkSucceeded(w) \/ Matching!MarkFailed(w) \/ Matching!SaveFails(w)
        PROVE  DoneInv'
    <2>1. /\ on' = on
          /\ \E next \in {"idle", "fail"} : phase' = [phase EXCEPT ![w] = next]
          /\ \/ phase[w] \in {"mark", "return"} /\ status' = [status EXCEPT ![on[w]] = "succeeded"]
             \/ status' = [status EXCEPT ![on[w]] = IF @ = "succeeded" THEN @ ELSE "failed"]
             \/ status' = status
      BY <1>4 DEF Matching!MarkSucceeded, Matching!MarkFailed, Matching!SaveFails
    <2>2. PICK k \in Matching!Runs : k = on[w]
      BY <1>0 DEF Matching!TypeOK
    <2>3. phase[w] \in {"mark", "return"} => k \in Matching!Accepted /\ Settled(k)
      BY <1>0, <2>2 DEF DoneInv, OfRuns
    <2>4. phase[w] \in {"mark", "return"} => Settled(k)'
      BY <2>3, StaysSettled
    <2>5. \A n \in Matching!Runs : n # k => status'[n] = status[n]
      BY <1>0, <2>1, <2>2 DEF Matching!TypeOK
    <2>6. status'[k] = "succeeded" => status[k] = "succeeded" \/ phase[w] \in {"mark", "return"}
      BY <1>0, <2>1, <2>2 DEF Matching!TypeOK
    <2>7. \A n \in Matching!Runs :
            status'[n] = "succeeded" => status[n] = "succeeded" \/ Settled(n)'
      BY <2>4, <2>5, <2>6
    <2>8. \A v \in Workers : phase'[v] \in {"mark", "return"} => phase[v] = phase'[v]
      BY <1>0, <2>1 DEF Matching!TypeOK
    <2>9. QED
      BY <1>1, <2>1, <2>7, <2>8
  <1>5. ASSUME NEW w \in Workers, Matching!Generate(w) \/ Matching!SaveBackup(w)
        PROVE  DoneInv'
    BY <1>0, <1>1, <1>5 DEF Matching!Generate, Matching!SaveBackup, Matching!TypeOK
  <1>6. ASSUME NEW w \in Workers, NEW n \in Matching!Runs, Matching!Claim(w, n)
        PROVE  DoneInv'
    BY <1>0, <1>1, <1>6 DEF Matching!Claim, Matching!TypeOK
  <1>7. ASSUME NEW r \in Requests, Matching!RequestConfig(r)
        PROVE  DoneInv'
    <2>1. UNCHANGED <<on, phase>>
      BY <1>7, RequestParts
    <2>2. \A n \in Matching!Runs : status'[n] = "succeeded" => status[n] = "succeeded"
      BY <1>0, <1>7, RequestParts DEF Accepts, Matching!TypeOK
    <2>3. QED
      BY <1>1, <2>1, <2>2
  <1>8. ASSUME NEW n \in Matching!Runs, Matching!Recover(n)
        PROVE  DoneInv'
    BY <1>0, <1>1, <1>8 DEF Matching!Recover, Matching!TypeOK
  <1>9. CASE Matching!Crash
    BY <1>1, <1>9 DEF Matching!Crash
  <1>10. ASSUME UNCHANGED <<status, on, phase>>
         PROVE  DoneInv'
    BY <1>1, <1>10
  <1>11. QED
    BY <1>2, <1>3, <1>4, <1>5, <1>6, <1>7, <1>8, <1>9, <1>10
    DEF Matching!Next, Matching!vars, Matching!BeginRequest, Matching!BeginErasure,
        Matching!RemoveDirectory, Matching!CommitErasure, Matching!BeginWrite,
        Matching!MakeDirectory, Matching!Write

LEMMA ErasedStep ==
  ASSUME Matching!MatchingConfigAssumption, RunsInv, HoldInv, ErasedInv,
         [Matching!Next]_(Matching!vars)
  PROVE  ErasedInv'
  <1> USE DEF Matching!files, Matching!queue, Matching!bounds, Matching!Goto, ErasedInv
  <1>0. Matching!TypeOK
    BY DEF RunsInv
  <1>1. ASSUME NEW w \in Workers,
               \/ Matching!LockProfile(w) \/ Matching!SaveBackup(w) \/ Matching!SaveConfig(w)
               \/ Matching!SaveFails(w)
        PROVE  ErasedInv'
    <2>1. Holds(w) /\ UNCHANGED <<eraser, account>>
      BY <1>1
      DEF Matching!LockProfile, Matching!SaveBackup, Matching!SaveConfig, Matching!SaveFails,
          Holds
    <2>2. QED
      BY <2>1 DEF HoldInv
  <1>2. CASE Matching!BeginErasure
    BY <1>2 DEF Matching!BeginErasure
  <1>3. CASE Matching!RemoveDirectory
    BY <1>0, <1>3 DEF Matching!RemoveDirectory, Matching!TypeOK
  <1>4. CASE Matching!CommitErasure
    BY <1>4 DEF Matching!CommitErasure
  <1>5. CASE Matching!Crash
    BY <1>5 DEF Matching!Crash
  <1>6. CASE Matching!MakeDirectory
    BY <1>0, <1>6 DEF Matching!MakeDirectory, Matching!TypeOK
  <1>7. CASE Matching!Write
    BY <1>7 DEF Matching!Write
  <1>8. ASSUME NEW r \in Requests, Matching!RequestConfig(r)
        PROVE  ErasedInv'
    BY <1>8, RequestParts
  <1>9. CASE Matching!BeginWrite
    BY <1>0, <1>9 DEF Matching!BeginWrite, Matching!TypeOK
  <1>10. QED
    BY <1>1, <1>2, <1>3, <1>4, <1>5, <1>6, <1>7, <1>8, <1>9
    DEF Matching!Next, Matching!vars, Matching!BeginRequest, Matching!Claim, Matching!FirstCheck,
        Matching!Generate, Matching!SecondCheck, Matching!MarkSucceeded,
        Matching!MarkFailed, Matching!Recover

LEMMA MatchingStep ==
  ASSUME Matching!MatchingConfigAssumption, MatchingInv, [Matching!Next]_(Matching!vars)
  PROVE  MatchingInv'
  BY RunsStep, HoldStep, SavedStep, DoneStep, ErasedStep DEF MatchingInv

(* The matching configuration, on the specification of the Consultant.     *)
LEMMA MatchingAlways == ConsultantSpec => [](part = "matching" => MatchingInv)
  <1>1. ConsultantInit => (part = "matching" => MatchingInv)
    BY ConsultantAssumption, InitMatching DEF ConsultantInit, MatchingInit
  <1>2. (part = "matching" => MatchingInv) /\ [ConsultantNext]_consultantVars =>
          (part = "matching" => MatchingInv)'
    BY ConsultantAssumption, ConsultantParts, MatchingStep
  <1>3. QED
    BY <1>1, <1>2, PTL DEF ConsultantSpec

(* The newest configuration stands, written once: a superseded, a repeated  *)
(* and an overlapping invocation write nothing, also when one crashed       *)
(* between the file and the mark; and a run that succeeded had written its  *)
(* configuration or another run took its place (handle_config).             *)
THEOREM NewestIsOnDisk == ConsultantSpec => []NewestConfigStands
  <1>1. (part = "matching" => MatchingInv) => NewestConfigStands
    BY DEF MatchingInv, SavedInv, DoneInv, Settled, NewestConfigStands,
       Matching!NewestConfigStands
  <1>2. QED
    BY <1>1, MatchingAlways, PTL

(* A configuration, once saved, can be loaded until an erasure begins to    *)
(* remove it, whatever crashes or fails; and an erased account has no       *)
(* configuration and no directory, but for an error of rmtree or another    *)
(* writer that was past its access check while the erasure ran, so that no  *)
(* configuration run brings them back (erase_consultant, handle_config).    *)
THEOREM ErasureTakesTheFiles == ConsultantSpec => []FilesFollowTheAccount
  <1>1. (part = "matching" => MatchingInv) => FilesFollowTheAccount
    BY DEF MatchingInv, RunsInv, SavedInv, ErasedInv, FilesFollowTheAccount,
       Matching!FilesFollowTheAccount, Matching!Loaded
  <1>2. QED
    BY <1>1, MatchingAlways, PTL

---------------------------------------------------------------------------
(* Sums over finite sets: Scoring adds up the weights of terms.             *)

(* A set of subsets of a finite set has a least one.                       *)
LEMMA SmallestSubset ==
  ASSUME NEW S, IsFiniteSet(S), NEW F \in SUBSET SUBSET S, F # {}
  PROVE  \E T \in F : \A U \in F : U \subseteq T => U = T
  <1>1. F \subseteq FiniteSubsetsOf(S)
    BY FS_FiniteSubsetsOfFinite
  <1>2. IsWellFoundedOn(StrictSubsetOrdering(S), FiniteSubsetsOf(S))
    BY FS_StrictSubsetOrderingWellFounded
  <1>3. PICK T \in F : \A U \in F : <<U, T>> \notin StrictSubsetOrdering(S)
    BY <1>1, <1>2, WFMin
  <1>4. ASSUME NEW U \in F, U \subseteq T, U # T
        PROVE  <<U, T>> \in StrictSubsetOrdering(S)
    <2>1. U \in SUBSET S /\ T \in SUBSET S
      OBVIOUS
    <2>2. QED
      BY <1>4, <2>1 DEF StrictSubsetOrdering
  <1>5. \A U \in F : U \subseteq T => U = T
    BY <1>3, <1>4
  <1>6. QED
    BY <1>5

(* Sums over finite sets, as SumFunction adds them up.                      *)
Chosen(T) == CHOOSE x \in T : TRUE

Adds(g, w, S) ==
  g = [T \in SUBSET S |-> IF T = {} THEN 0 ELSE w[Chosen(T)] + g[T \ {Chosen(T)}]]

SumOf(w, S) == (CHOOSE g : Adds(g, w, S))[S]

(* The community module's sum is this one.                                  *)
LEMMA SumIs == \A w : Advice!SumFunction(w) = SumOf(w, DOMAIN w)
  BY DEF Advice!SumFunction, Advice!SumFunctionOnSet, Advice!FoldFunctionOnSet,
     Advice!MapThenFoldSet, SumOf, Adds, Chosen

(* The recursion has at most one solution ...                              *)
LEMMA AddsOnce ==
  ASSUME NEW w, NEW S, IsFiniteSet(S), NEW T \in SUBSET S, NEW U \in SUBSET S,
         NEW g, Adds(g, w, T), NEW h, Adds(h, w, U)
  PROVE  \A V \in SUBSET (T \cap U) : g[V] = h[V]
  <1> DEFINE F == {V \in SUBSET (T \cap U) : g[V] # h[V]}
  <1>1. SUFFICES ASSUME F # {} PROVE FALSE
    OBVIOUS
  <1>2. F \in SUBSET SUBSET S
    OBVIOUS
  <1>3. PICK V \in F : \A W \in F : W \subseteq V => W = V
    <2> HIDE DEF F
    <2>1. QED
      BY <1>1, <1>2, SmallestSubset
  <1>4. V \in SUBSET T /\ V \in SUBSET U /\ g[V] # h[V]
    OBVIOUS
  <1>5. /\ g[V] = IF V = {} THEN 0 ELSE w[Chosen(V)] + g[V \ {Chosen(V)}]
        /\ h[V] = IF V = {} THEN 0 ELSE w[Chosen(V)] + h[V \ {Chosen(V)}]
    BY <1>4 DEF Adds
  <1>6. V # {}
    BY <1>4, <1>5
  <1>7. Chosen(V) \in V
    BY <1>6 DEF Chosen
  <1>8. V \ {Chosen(V)} \notin F
    BY <1>3, <1>7
  <1>9. g[V \ {Chosen(V)}] = h[V \ {Chosen(V)}]
    BY <1>4, <1>8
  <1>10. QED
    BY <1>4, <1>5, <1>9

(* ... and has one.                                                        *)
LEMMA AddsExists ==
  ASSUME NEW w, NEW S, IsFiniteSet(S)
  PROVE  \E g : Adds(g, w, S)
  <1> DEFINE F == {T \in SUBSET S : ~\E g : Adds(g, w, T)}
  <1>1. SUFFICES ASSUME F # {} PROVE FALSE
    OBVIOUS
  <1>2. PICK T \in F : \A U \in F : U \subseteq T => U = T
    <2>1. F \in SUBSET SUBSET S
      OBVIOUS
    <2> HIDE DEF F
    <2>2. QED
      BY <1>1, <2>1, SmallestSubset
  <1>3. T \in SUBSET S /\ ~\E g : Adds(g, w, T)
    OBVIOUS
  <1>4. ASSUME NEW U \in SUBSET T, U # T
        PROVE  Adds(CHOOSE g : Adds(g, w, U), w, U)
    <2>1. U \in SUBSET S /\ U \notin F
      BY <1>2, <1>3, <1>4
    <2>2. \E g : Adds(g, w, U)
      BY <2>1
    <2>3. QED
      BY <2>2
  <1> HIDE DEF F
  <1>5. ASSUME NEW V \in SUBSET T, V # T
        PROVE  SumOf(w, V) = IF V = {} THEN 0 ELSE w[Chosen(V)] + SumOf(w, V \ {Chosen(V)})
    <2> DEFINE g == CHOOSE g : Adds(g, w, V)
               W == V \ {Chosen(V)}
               h == CHOOSE h : Adds(h, w, W)
    <2>1. Adds(g, w, V)
      BY <1>4, <1>5
    <2>2. g[V] = IF V = {} THEN 0 ELSE w[Chosen(V)] + g[W]
      BY <2>1 DEF Adds
    <2>3. Adds(h, w, W)
      BY <1>4, <1>5
    <2>4. g[W] = h[W]
      <3>1. W \in SUBSET S /\ V \in SUBSET S /\ W \in SUBSET (V \cap W)
        BY <1>3
      <3> HIDE DEF g, h, W
      <3>2. \A X \in SUBSET (V \cap W) : g[X] = h[X]
        BY <2>1, <2>3, <3>1, AddsOnce
      <3>3. QED
        BY <3>1, <3>2
    <2>5. g[V] = SumOf(w, V) /\ h[W] = SumOf(w, W)
      BY DEF SumOf
    <2>6. QED
      BY <2>2, <2>4, <2>5
  <1> DEFINE f == [U \in SUBSET T |->
                     IF U = {} THEN 0 ELSE w[Chosen(U)] + SumOf(w, U \ {Chosen(U)})]
  <1>6. ASSUME NEW U \in SUBSET T, U # {}
        PROVE  f[U \ {Chosen(U)}] = SumOf(w, U \ {Chosen(U)})
    <2>1. Chosen(U) \in U
      BY <1>6 DEF Chosen
    <2>2. U \ {Chosen(U)} \in SUBSET T /\ U \ {Chosen(U)} # T
      BY <2>1
    <2>3. QED
      BY <1>5, <2>2
  <1>7. f = [U \in SUBSET T |-> IF U = {} THEN 0 ELSE w[Chosen(U)] + f[U \ {Chosen(U)}]]
    <2>1. \A U \in SUBSET T : f[U] = IF U = {} THEN 0 ELSE w[Chosen(U)] + f[U \ {Chosen(U)}]
      BY <1>6
    <2>2. f = [U \in SUBSET T |-> f[U]]
      OBVIOUS
    <2> HIDE DEF f
    <2>3. QED
      BY <2>1, <2>2
  <1>8. Adds(f, w, T)
    BY <1>7 DEF Adds
  <1>9. QED
    BY <1>3, <1>8

(* The recursion, read off the function that solves it.                     *)
LEMMA SumStep ==
  ASSUME NEW w, NEW S, IsFiniteSet(S)
  PROVE  /\ SumOf(w, {}) = 0
         /\ S # {} => SumOf(w, S) = w[Chosen(S)] + SumOf(w, S \ {Chosen(S)})
  <1> DEFINE W == S \ {Chosen(S)}
             g == CHOOSE g : Adds(g, w, S)
             h == CHOOSE h : Adds(h, w, W)
             e == CHOOSE e : Adds(e, w, {})
  <1>1. IsFiniteSet(W) /\ IsFiniteSet({})
    BY FS_Subset, FS_EmptySet
  <1>2. Adds(g, w, S) /\ Adds(h, w, W) /\ Adds(e, w, {})
    BY <1>1, AddsExists
  <1>3. g[W] = h[W]
    <2>1. W \in SUBSET S /\ W \in SUBSET (S \cap W)
      OBVIOUS
    <2> HIDE DEF g, h, W
    <2>2. QED
      BY <1>2, <2>1, AddsOnce
  <1>4. S # {} => g[S] = w[Chosen(S)] + g[W]
    BY <1>2 DEF Adds
  <1>5. e[{}] = 0
    BY <1>2 DEF Adds
  <1>6. g[S] = SumOf(w, S) /\ h[W] = SumOf(w, W) /\ e[{}] = SumOf(w, {})
    BY DEF SumOf
  <1>7. QED
    BY <1>3, <1>4, <1>5, <1>6

(* A sum of natural numbers is one, and may be added up in any order.       *)
LEMMA SumIsNat ==
  ASSUME NEW w, NEW S, IsFiniteSet(S), \A x \in S : w[x] \in Nat
  PROVE  SumOf(w, S) \in Nat
  <1> DEFINE F == {T \in SUBSET S : SumOf(w, T) \notin Nat}
  <1>1. SUFFICES ASSUME F # {} PROVE FALSE
    OBVIOUS
  <1>2. PICK T \in F : \A U \in F : U \subseteq T => U = T
    <2>1. F \in SUBSET SUBSET S
      OBVIOUS
    <2> HIDE DEF F
    <2>2. QED
      BY <1>1, <2>1, SmallestSubset
  <1>3. IsFiniteSet(T)
    BY FS_Subset
  <1>4. T # {}
    <2>1. SumOf(w, {}) = 0
      BY <1>3, SumStep
    <2>2. SumOf(w, {}) \in Nat
      BY <2>1
    <2>3. SumOf(w, T) \notin Nat
      OBVIOUS
    <2>4. QED
      BY <2>2, <2>3
  <1>5. Chosen(T) \in T
    BY <1>4 DEF Chosen
  <1>6. SumOf(w, T \ {Chosen(T)}) \in Nat
    BY <1>2, <1>5
  <1>7. SumOf(w, T) = w[Chosen(T)] + SumOf(w, T \ {Chosen(T)})
    BY <1>3, <1>4, SumStep
  <1>8. QED
    BY <1>5, <1>6, <1>7

(* A sum is a summand and the sum of the others, whichever it is.           *)
LEMMA SumInAnyOrder ==
  ASSUME NEW w, NEW S, IsFiniteSet(S), \A x \in S : w[x] \in Nat, NEW x \in S
  PROVE  SumOf(w, S) = w[x] + SumOf(w, S \ {x})
  <1> DEFINE F == {T \in SUBSET S : \E y \in T : SumOf(w, T) # w[y] + SumOf(w, T \ {y})}
  <1>1. SUFFICES ASSUME F # {} PROVE FALSE
    OBVIOUS
  <1>2. PICK T \in F : \A U \in F : U \subseteq T => U = T
    <2>1. F \in SUBSET SUBSET S
      OBVIOUS
    <2> HIDE DEF F
    <2>2. QED
      BY <1>1, <2>1, SmallestSubset
  <1>3. PICK y \in T : SumOf(w, T) # w[y] + SumOf(w, T \ {y})
    OBVIOUS
  <1> DEFINE z == Chosen(T)
  <1>4. z \in T
    BY DEF Chosen
  <1>5. /\ IsFiniteSet(T) /\ IsFiniteSet(T \ {y}) /\ IsFiniteSet(T \ {z})
        /\ IsFiniteSet(T \ {y, z})
    BY FS_Subset
  <1>6. SumOf(w, T) = w[z] + SumOf(w, T \ {z})
    BY <1>4, <1>5, SumStep
  <1>7. y # z
    BY <1>3, <1>6
  <1> HIDE DEF z
  <1>8. SumOf(w, T \ {z}) = w[y] + SumOf(w, (T \ {z}) \ {y})
    <2>1. T \ {z} \in SUBSET S /\ T \ {z} \notin F /\ y \in T \ {z}
      BY <1>2, <1>4, <1>7
    <2>2. QED
      BY <2>1
  <1>9. SumOf(w, T \ {y}) = w[z] + SumOf(w, (T \ {y}) \ {z})
    <2>1. T \ {y} \in SUBSET S /\ T \ {y} \notin F /\ z \in T \ {y}
      BY <1>2, <1>4, <1>7
    <2>2. QED
      BY <2>1
  <1>10. (T \ {z}) \ {y} = T \ {y, z} /\ (T \ {y}) \ {z} = T \ {y, z}
    OBVIOUS
  <1>11. SumOf(w, T \ {y, z}) \in Nat /\ w[y] \in Nat /\ w[z] \in Nat
    BY <1>4, <1>5, SumIsNat
  <1>12. /\ SumOf(w, T) = w[z] + (w[y] + SumOf(w, T \ {y, z}))
         /\ SumOf(w, T \ {y}) = w[z] + SumOf(w, T \ {y, z})
    BY <1>6, <1>8, <1>9, <1>10
  <1> HIDE DEF F
  <1>13. QED
    BY <1>3, <1>11, <1>12

(* More and greater summands give a greater sum.                           *)
LEMMA SumGrows ==
  ASSUME NEW S, IsFiniteSet(S), NEW R \in SUBSET S, NEW v, NEW w,
         \A x \in R : v[x] \in Nat /\ v[x] <= w[x], \A x \in S : w[x] \in Nat
  PROVE  SumOf(v, R) <= SumOf(w, S)
  <1> DEFINE F == {T \in SUBSET S : \E U \in SUBSET (T \cap R) : ~(SumOf(v, U) <= SumOf(w, T))}
  <1>1. SUFFICES ASSUME F # {} PROVE FALSE
    OBVIOUS
  <1>2. PICK T \in F : \A U \in F : U \subseteq T => U = T
    <2>1. F \in SUBSET SUBSET S
      OBVIOUS
    <2> HIDE DEF F
    <2>2. QED
      BY <1>1, <2>1, SmallestSubset
  <1>3. PICK U \in SUBSET (T \cap R) : ~(SumOf(v, U) <= SumOf(w, T))
    OBVIOUS
  <1>4. T # {}
    <2>1. ASSUME T = {} PROVE FALSE
      <3>1. SumOf(v, {}) = 0 /\ SumOf(w, {}) = 0
        BY FS_EmptySet, SumStep
      <3>2. U = {}
        BY <2>1
      <3>3. QED
        BY <1>3, <2>1, <3>1, <3>2
    <2>2. QED
      BY <2>1
  <1>5. PICK x \in T : TRUE
    BY <1>4
  <1>6. IsFiniteSet(T) /\ IsFiniteSet(U) /\ IsFiniteSet(T \ {x}) /\ IsFiniteSet(U \ {x})
    BY FS_Subset
  <1>7. T \ {x} \notin F
    BY <1>2
  <1>8. SumOf(w, T) = w[x] + SumOf(w, T \ {x})
    BY <1>6, SumInAnyOrder
  <1>9. w[x] \in Nat /\ SumOf(w, T \ {x}) \in Nat /\ SumOf(v, U) \in Nat /\ SumOf(v, U \ {x}) \in Nat
    BY <1>6, SumIsNat
  <1>10. CASE x \in U
    <2>1. SumOf(v, U) = v[x] + SumOf(v, U \ {x})
      BY <1>6, <1>10, SumInAnyOrder
    <2>2. SumOf(v, U \ {x}) <= SumOf(w, T \ {x})
      BY <1>7
    <2>3. v[x] \in Nat /\ v[x] <= w[x]
      BY <1>10
    <2>4. QED
      BY <1>3, <1>8, <1>9, <2>1, <2>2, <2>3
  <1>11. CASE x \notin U
    <2>1. SumOf(v, U) <= SumOf(w, T \ {x})
      BY <1>7, <1>11
    <2>2. QED
      BY <1>3, <1>8, <1>9, <2>1
  <1>12. QED
    BY <1>10, <1>11

(* An instance has a finiteness and sequences of its own, which are these.  *)
LEMMA SameFinite == \A S : Advice!IsFiniteSet(S) <=> IsFiniteSet(S)
  BY DEF Advice!IsFiniteSet, IsFiniteSet

(* The instance's cardinality is that of FiniteSets.                        *)
LEMMA SameCount == \A S : Advice!Cardinality(S) = Cardinality(S)
  BY DEF Advice!Cardinality, Cardinality

(* A posting names patterns.                                               *)
IsText(text) == text.title \subseteq Patterns /\ text.words \subseteq Patterns /\ text.parts \subseteq Patterns

(* What the assumption says of a configuration, field by field.             *)
LEMMA ConfigFields ==
  ASSUME Advice!ScoringAssumption, NEW c \in Configs
  PROVE  /\ \A d \in {"expertise", "role", "growth", "interest", "practical"} :
              Advice!Weight(c, d) \in Int
         /\ c.keep \in Int /\ c.maybe \in Int /\ c.keep > c.maybe /\ c.default \in Int
         /\ IsFiniteSet(Patterns)
         /\ IsFiniteSet(DOMAIN c.catalog)
         /\ \A k \in DOMAIN c.catalog : \A t \in {"high", "standard", "low"} :
              c.catalog[k][t] \subseteq Patterns
         /\ IsFiniteSet(c.archetypes)
         /\ \A a \in c.archetypes : a.title \subseteq Patterns /\ a.body \subseteq Patterns /\ a.bonus \in Int
         /\ c.rules \in Seq([match : Patterns, score : Int])
         /\ c.hard \subseteq Patterns /\ c.soft \subseteq Patterns
  <1>0. /\ Advice!WellFormed(c) /\ Advice!ValidConfig(c) /\ IsFiniteSet(Patterns)
    BY SameFinite DEF Advice!ScoringAssumption
  <1> USE DEF Advice!WellFormed
  <1>1. \A d \in {"expertise", "role", "growth", "interest", "practical"} :
          Advice!Weight(c, d) \in Int
    <2>1. \A d \in DOMAIN c.weights : c.weights[d] \in Int
      BY <1>0
    <2>2. \A d \in {"expertise", "role", "growth", "interest", "practical"} :
            Advice!DefaultWeights[d] \in Int
      BY DEF Advice!DefaultWeights
    <2>3. QED
      BY <2>1, <2>2 DEF Advice!Weight
  <1>2. IsFiniteSet(DOMAIN c.catalog) /\ IsFiniteSet(c.archetypes)
    BY <1>0, SameFinite
  <1>3. \A k \in DOMAIN c.catalog : c.catalog[k] \in [high : SUBSET Patterns, standard : SUBSET Patterns, low : SUBSET Patterns]
    BY <1>0
  <1>4. c.hard \subseteq Patterns /\ c.soft \subseteq Patterns
    BY <1>0
  <1>5. \A k \in DOMAIN c.catalog : \A t \in {"high", "standard", "low"} : c.catalog[k][t] \subseteq Patterns
    BY <1>3
  <1>6. \A a \in c.archetypes : a.title \subseteq Patterns /\ a.body \subseteq Patterns /\ a.bonus \in Int
    BY <1>0
  <1>7. /\ c.keep \in Int /\ c.maybe \in Int /\ c.keep > c.maybe /\ c.default \in Int
        /\ c.rules \in Seq([match : Patterns, score : Int])
    BY <1>0 DEF Advice!ValidConfig
  <1>8. QED
    BY <1>0, <1>1, <1>2, <1>4, <1>5, <1>6, <1>7

(* More summands, and greater ones, have a greater sum.                     *)
LEMMA SumFunctionGrows ==
  ASSUME NEW v, NEW w, IsFiniteSet(DOMAIN w), DOMAIN v \subseteq DOMAIN w,
         \A x \in DOMAIN v : v[x] \in Nat /\ v[x] <= w[x], \A x \in DOMAIN w : w[x] \in Nat
  PROVE  /\ Advice!SumFunction(v) \in Nat /\ Advice!SumFunction(w) \in Nat
         /\ Advice!SumFunction(v) <= Advice!SumFunction(w)
  <1>1. IsFiniteSet(DOMAIN v)
    BY FS_Subset
  <1>2. SumOf(v, DOMAIN v) \in Nat /\ SumOf(w, DOMAIN w) \in Nat
    BY <1>1, SumIsNat
  <1>3. SumOf(v, DOMAIN v) <= SumOf(w, DOMAIN w)
    BY SumGrows
  <1>4. QED
    BY <1>2, <1>3, SumIs

(* More terms weigh more.                                                  *)
LEMMA WeighGrows ==
  ASSUME NEW c, NEW K, IsFiniteSet(K), NEW T, NEW U, DOMAIN T = K, DOMAIN U = K,
         \A k \in K : IsFiniteSet(T[k]) /\ U[k] \subseteq T[k]
  PROVE  /\ Advice!Weigh(U, c) \in Nat /\ Advice!Weigh(T, c) \in Nat
         /\ Advice!Weigh(U, c) <= Advice!Weigh(T, c)
  <1> DEFINE u(k) == [t \in U[k] |-> Advice!TermWeight(t[2], c.catalog[k])]
             w(k) == [t \in T[k] |-> Advice!TermWeight(t[2], c.catalog[k])]
             v == [k \in K |-> Advice!SumFunction(u(k))]
             x == [k \in K |-> Advice!SumFunction(w(k))]
  <1>1. \A t, tiers : Advice!TermWeight(t, tiers) \in Nat
    BY DEF Advice!TermWeight
  <1>2. ASSUME NEW k \in K
        PROVE  /\ Advice!SumFunction(u(k)) \in Nat /\ Advice!SumFunction(w(k)) \in Nat
               /\ Advice!SumFunction(u(k)) <= Advice!SumFunction(w(k))
    <2>1. DOMAIN u(k) \subseteq DOMAIN w(k) /\ IsFiniteSet(DOMAIN w(k))
      BY <1>2
    <2>2. /\ \A t \in DOMAIN u(k) : u(k)[t] \in Nat /\ u(k)[t] <= w(k)[t]
          /\ \A t \in DOMAIN w(k) : w(k)[t] \in Nat
      BY <1>1
    <2> HIDE DEF u, w
    <2>3. QED
      BY <2>1, <2>2, SumFunctionGrows
  <1>3. Advice!Weigh(U, c) = Advice!SumFunction(v) /\ Advice!Weigh(T, c) = Advice!SumFunction(x)
    BY DEF Advice!Weigh
  <1> HIDE DEF u, w
  <1>4. /\ DOMAIN v = K /\ DOMAIN x = K
        /\ \A k \in K : v[k] \in Nat /\ v[k] <= x[k] /\ x[k] \in Nat
    BY <1>2
  <1> HIDE DEF v, x
  <1>5. QED
    BY <1>3, <1>4, SumFunctionGrows

(* Quotients of natural numbers grow with the dividend.                    *)
LEMMA QuotientGrows ==
  ASSUME NEW m \in Nat, NEW a \in Nat, NEW b \in Nat, a <= b, m > 0
  PROVE  a \div m \in Nat /\ b \div m \in Nat /\ a \div m <= b \div m
  <1> DEFINE p == a \div m
             q == b \div m
  <1>1. /\ p \in Int /\ q \in Int
        /\ m * p <= a /\ a < m * p + m
        /\ m * q <= b /\ b < m * q + m
    BY SMTT(30)
  <1> HIDE DEF p, q
  <1>2. ASSUME q < p PROVE FALSE
    <2>1. m * (p - q) >= m * 1
      BY <1>1, <1>2, p - q >= 1, p - q \in Nat
    <2>2. m * (p - q) = m * p - m * q
      BY <1>1
    <2>3. QED
      BY <1>1, <2>1, <2>2
  <1>3. ASSUME p < 0 PROVE FALSE
    <2>1. m * (0 - p) >= m * 1
      BY <1>1, <1>3, 0 - p >= 1, 0 - p \in Nat
    <2>2. m * (0 - p) = 0 - m * p
      BY <1>1
    <2>3. QED
      BY <1>1, <2>1, <2>2
  <1>4. p \in Nat /\ q \in Nat /\ p <= q
    BY <1>1, <1>2, <1>3
  <1>5. QED
    BY <1>4 DEF p, q

(* The terms of a posting are finitely many.                               *)
LEMMA TermsAreFinite ==
  ASSUME Advice!ScoringAssumption, NEW c \in Configs, NEW text, IsText(text),
         NEW k \in DOMAIN c.catalog
  PROVE  /\ IsFiniteSet(Advice!JobTerms(text, c, k))
         /\ Advice!Cardinality(Advice!JobTerms(text, c, k)) \in Nat
  <1>1. IsFiniteSet(Advice!Tiers)
    <2>1. Advice!Tiers = {"high"} \cup ({"standard"} \cup {"low"})
      BY DEF Advice!Tiers
    <2>2. QED
      BY <2>1, FS_Singleton, FS_Union
  <1>2. IsFiniteSet(Advice!Tiers \X Patterns)
    BY <1>1, ConfigFields, FS_Product
  <1>3. Advice!JobTerms(text, c, k) \subseteq Advice!Tiers \X Patterns
    BY DEF Advice!JobTerms, IsText
  <1>4. QED
    BY <1>2, <1>3, FS_Subset, FS_CardinalityType, SameCount

(* The same score of the terms of some categories, for more evidence.       *)
LEMMA MatchGrows ==
  ASSUME Advice!ScoringAssumption, NEW c \in Configs, NEW text, IsText(text),
         NEW K \in SUBSET DOMAIN c.catalog, NEW known, NEW more, known \subseteq more
  PROVE  /\ Advice!MatchTerms(text, known, c, K) \in Nat
         /\ Advice!MatchTerms(text, more, c, K) \in Nat
         /\ Advice!MatchTerms(text, known, c, K) <= Advice!MatchTerms(text, more, c, K)
  <1> DEFINE named == [k \in K |-> Advice!JobTerms(text, c, k)]
             fewer == [k \in K |-> {t \in Advice!JobTerms(text, c, k) : Advice!Backed(t[2], known, k)}]
             rather == [k \in K |-> {t \in Advice!JobTerms(text, c, k) : Advice!Backed(t[2], more, k)}]
             total == Advice!Weigh(named, c)
             less == Advice!Weigh(fewer, c)
             plus == Advice!Weigh(rather, c)
  <1>1. IsFiniteSet(K)
    BY ConfigFields, FS_Subset
  <1>2. \A k \in K : IsFiniteSet(Advice!JobTerms(text, c, k))
    BY TermsAreFinite
  <1>3. \A t, k : Advice!Backed(t, known, k) => Advice!Backed(t, more, k)
    BY DEF Advice!Backed, Advice!Indexed
  <1>4. less \in Nat /\ plus \in Nat /\ less <= plus /\ total \in Nat
    <2>1. /\ DOMAIN named = K /\ DOMAIN fewer = K /\ DOMAIN rather = K
          /\ \A k \in K : IsFiniteSet(named[k])
          /\ \A k \in K : fewer[k] \subseteq rather[k] /\ rather[k] \subseteq named[k]
      BY <1>2, <1>3
    <2>2. \A k \in K : IsFiniteSet(rather[k])
      BY <2>1, FS_Subset
    <2> HIDE DEF named, fewer, rather
    <2>3. less \in Nat /\ plus \in Nat /\ less <= plus
      BY <1>1, <2>1, <2>2, WeighGrows
    <2>4. total \in Nat
      BY <1>1, <2>1, WeighGrows
    <2>5. QED
      BY <2>3, <2>4
  <1>5. /\ Advice!MatchTerms(text, known, c, K)
             = IF total = 0 THEN 0 ELSE Advice!Least(10000, (10000 * less) \div total)
        /\ Advice!MatchTerms(text, more, c, K)
             = IF total = 0 THEN 0 ELSE Advice!Least(10000, (10000 * plus) \div total)
    BY DEF Advice!MatchTerms
  <1> HIDE DEF total, less, plus
  <1>6. CASE total = 0
    BY <1>5, <1>6
  <1>7. CASE total # 0
    <2>1. /\ (10000 * less) \div total \in Nat /\ (10000 * plus) \div total \in Nat
          /\ (10000 * less) \div total <= (10000 * plus) \div total
      <3>1. 10000 * less \in Nat /\ 10000 * plus \in Nat /\ 10000 * less <= 10000 * plus /\ total > 0
        BY <1>4, <1>7
      <3>2. QED
        BY <1>4, <3>1, QuotientGrows
    <2>2. QED
      BY <1>5, <1>7, <2>1 DEF Advice!Least
  <1>8. QED
    BY <1>6, <1>7

(* More evidence lowers the expertise of no posting.                        *)
LEMMA ExpertiseGrows ==
  ASSUME Advice!ScoringAssumption, NEW c \in Configs, NEW text, IsText(text),
         NEW known, NEW more, known \subseteq more
  PROVE  /\ Advice!ExpertiseFit(text, known, c) \in Nat /\ Advice!ExpertiseFit(text, more, c) \in Nat
         /\ Advice!ExpertiseFit(text, known, c) <= Advice!ExpertiseFit(text, more, c)
  <1> DEFINE tools == Advice!ToolCategories \cap DOMAIN c.catalog
             domains == {"domains"} \cap DOMAIN c.catalog
             M(n, K) == Advice!MatchTerms(text, n, c, K)
  <1>1. /\ M(known, tools) \in Nat /\ M(more, tools) \in Nat
        /\ M(known, tools) <= M(more, tools)
    BY MatchGrows
  <1>2. /\ M(known, domains) \in Nat /\ M(more, domains) \in Nat
        /\ M(known, domains) <= M(more, domains)
    BY MatchGrows
  <1>3. \A n : Advice!ExpertiseFit(text, n, c) = (75 * M(n, tools) + 25 * M(n, domains)) \div 100
    BY DEF Advice!ExpertiseFit
  <1> HIDE DEF M, tools, domains
  <1>4. QED
    BY <1>1, <1>2, <1>3

---------------------------------------------------------------------------
(* Scoring.                                                                *)

(* A relation that is transitive on a finite set, and never holds of an     *)
(* element and itself, leaves an element that nothing is above.            *)
LEMMA Topmost ==
  ASSUME NEW S, IsFiniteSet(S), S # {}, NEW R,
         \A x \in S : <<x, x>> \notin R,
         \A x, y, z \in S : <<x, y>> \in R /\ <<y, z>> \in R => <<x, z>> \in R
  PROVE  \E x \in S : \A y \in S : <<y, x>> \notin R
  <1> DEFINE Above(x) == {y \in S : <<y, x>> \in R}
             F == {T \in SUBSET S : \E x \in S : T = Above(x)}
  <1>1. F \in SUBSET SUBSET S
    OBVIOUS
  <1>2. \A x \in S : Above(x) \in F
    OBVIOUS
  <1>3. F # {}
    BY <1>2
  <1>4. PICK T \in F : \A U \in F : U \subseteq T => U = T
    <2> HIDE DEF F
    <2>1. QED
      BY <1>1, <1>3, SmallestSubset
  <1>5. PICK x \in S : T = Above(x)
    OBVIOUS
  <1>6. ASSUME NEW y \in S, <<y, x>> \in R PROVE FALSE
    <2>1. Above(y) \subseteq Above(x)
      BY <1>6
    <2>2. Above(y) = T
      <3>1. Above(y) \in F /\ Above(y) \subseteq T
        BY <1>2, <1>5, <2>1
      <3> HIDE DEF Above, F
      <3>2. QED
        BY <1>4, <3>1
    <2>3. y \in Above(x) /\ y \notin Above(y)
      BY <1>6
    <2>4. QED
      BY <1>5, <2>2, <2>3
  <1>7. QED
    BY <1>6

(* A finite set of integers has a greatest and a least element.            *)
LEMMA Extremes ==
  ASSUME NEW S \in SUBSET Int, IsFiniteSet(S), S # {}
  PROVE  /\ \E x \in S : \A y \in S : x >= y
         /\ \E x \in S : \A y \in S : x =< y
  <1> DEFINE Up == {z \in S \X S : z[1] > z[2]}
             Down == {z \in S \X S : z[1] < z[2]}
  <1>1. \A x, y \in S : (<<x, y>> \in Up <=> x > y) /\ (<<x, y>> \in Down <=> x < y)
    OBVIOUS
  <1> HIDE DEF Up, Down
  <1>2. PICK x \in S : \A y \in S : <<y, x>> \notin Up
    <2>1. \A u \in S : <<u, u>> \notin Up
      BY <1>1
    <2>2. \A u, v, z \in S : <<u, v>> \in Up /\ <<v, z>> \in Up => <<u, z>> \in Up
      BY <1>1
    <2>3. QED
      BY <2>1, <2>2, Topmost
  <1>3. PICK w \in S : \A y \in S : <<y, w>> \notin Down
    <2>1. \A u \in S : <<u, u>> \notin Down
      BY <1>1
    <2>2. \A u, v, z \in S : <<u, v>> \in Down /\ <<v, z>> \in Down => <<u, z>> \in Down
      BY <1>1
    <2>3. QED
      BY <2>1, <2>2, Topmost
  <1>4. ASSUME NEW y \in S PROVE x >= y /\ w =< y
    <2>1. ~(y > x) /\ ~(y < w)
      BY <1>1, <1>2, <1>3
    <2>2. x \in Int /\ y \in Int /\ w \in Int
      OBVIOUS
    <2>3. QED
      BY <2>1, <2>2
  <1>5. QED
    BY <1>4

(* Max and Min of the community module, for finite sets.                    *)
LEMMA MaxMin ==
  ASSUME NEW S \in SUBSET Int, IsFiniteSet(S), S # {}
  PROVE  Advice!Max(S) \in S /\ Advice!Min(S) \in S
  BY Extremes DEF Advice!Max, Advice!Min

(* A set of patterns is finite.                                             *)
LEMMA CountIsNat ==
  ASSUME Advice!ScoringAssumption, NEW S, S \subseteq Patterns
  PROVE  IsFiniteSet(S) /\ Advice!Cardinality(S) \in Nat
  <1>1. IsFiniteSet(Patterns)
    BY SameFinite DEF Advice!ScoringAssumption
  <1>2. QED
    BY <1>1, FS_Subset, FS_CardinalityType, SameCount

(* The dimensions that do not look at the evidence are numbers.            *)
LEMMA ArchetypeIsInt ==
  ASSUME Advice!ScoringAssumption, NEW c \in Configs, NEW text, IsText(text), NEW a \in c.archetypes
  PROVE  Advice!ArchetypeFit(text, a) \in Int
  <1> DEFINE t == Advice!Cardinality(a.title)
             b == Advice!Cardinality(a.body)
             th == Advice!Cardinality(a.title \cap text.title)
             bh == Advice!Cardinality(a.body \cap text.words)
  <1>1. a.title \subseteq Patterns /\ a.body \subseteq Patterns /\ a.bonus \in Int
    BY ConfigFields
  <1>2. t \in Nat /\ b \in Nat /\ th \in Nat /\ bh \in Nat
    BY <1>1, CountIsNat DEF IsText
  <1>3. Advice!ArchetypeFit(text, a) =
          IF t + b = 0 THEN 0
          ELSE Advice!Least(10000, Advice!Least(9000, (10000 * (2 * th + bh)) \div ((t + b) + t))
                                   + (IF th > 0 THEN 100 * a.bonus ELSE 0))
    BY DEF Advice!ArchetypeFit
  <1> HIDE DEF t, b, th, bh
  <1>4. CASE t + b = 0
    BY <1>3, <1>4
  <1>5. CASE t + b # 0
    <2>1. (10000 * (2 * th + bh)) \div ((t + b) + t) \in Nat
      <3>1. 10000 * (2 * th + bh) \in Nat /\ (t + b) + t \in Nat /\ (t + b) + t > 0
        BY <1>2, <1>5
      <3>2. QED
        BY <3>1, QuotientGrows
    <2>2. QED
      BY <1>1, <1>3, <1>5, <2>1 DEF Advice!Least
  <1>6. QED
    BY <1>4, <1>5

(* The other dimensions are integers, for any posting.                      *)
LEMMA RoleIsInt ==
  ASSUME Advice!ScoringAssumption, NEW c \in Configs, NEW text, IsText(text)
  PROVE  Advice!RoleFit(text, c) \in Int
  <1> DEFINE fit == [a \in c.archetypes |-> Advice!ArchetypeFit(text, a)]
             fits == {Advice!ArchetypeFit(text, a) : a \in c.archetypes}
             K == (Advice!ToolCategories \ {"methods"}) \cap DOMAIN c.catalog
             counts == [k \in K |-> Advice!Cardinality(Advice!JobTerms(text, c, k))]
             dense == Advice!SumFunction(counts)
  <1>1. Advice!Max({0} \cup fits) \in Int
    <2>1. fits \subseteq Int
      BY ArchetypeIsInt
    <2>2. fit \in Surjection(c.archetypes, fits)
      BY DEF Surjection
    <2>3. IsFiniteSet(fits)
      BY <2>2, ConfigFields, FS_Surjection
    <2> HIDE DEF fits
    <2>4. IsFiniteSet({0} \cup fits)
      BY <2>3, FS_Singleton, FS_Union
    <2>5. {0} \cup fits \in SUBSET Int /\ {0} \cup fits # {}
      BY <2>1
    <2>6. QED
      BY <2>4, <2>5, MaxMin
  <1>2. dense \in Nat
    <2>1. IsFiniteSet(K)
      BY ConfigFields, FS_Subset
    <2>3. \A k \in K : counts[k] \in Nat
      BY TermsAreFinite
    <2>4. DOMAIN counts = K
      OBVIOUS
    <2> HIDE DEF counts, K
    <2>5. \A k \in K : counts[k] \in Nat /\ counts[k] <= counts[k]
      BY <2>3
    <2>6. QED
      BY <2>1, <2>4, <2>5, SumFunctionGrows
  <1>3. Advice!RoleFit(text, c) =
          Advice!Least(10000, Advice!Max({0} \cup fits) + Advice!Least(1500, 250 * dense))
    BY DEF Advice!RoleFit
  <1> HIDE DEF fits, dense
  <1>4. QED
    BY <1>1, <1>2, <1>3 DEF Advice!Least

LEMMA ClampIsInt ==
  ASSUME NEW x \in Int
  PROVE  Advice!Clamp(x) \in 0..10000
  BY DEF Advice!Clamp, Advice!Most, Advice!Least

LEMMA GrowthIsInt ==
  ASSUME Advice!ScoringAssumption, NEW c \in Configs, NEW text, IsText(text)
  PROVE  Advice!GrowthFit(text, c) \in Int /\ Advice!InterestFit(text, c) \in Int
  <1>1. \A S : Advice!Found(S, text) \in Nat
    <2>1. \A S : S \cap text.words \subseteq Patterns
      BY DEF IsText
    <2>2. QED
      BY <2>1, CountIsNat DEF Advice!Found
  <1>2. ASSUME NEW x \in Int PROVE Advice!Clamp(x) \in Int
    BY DEF Advice!Clamp, Advice!Most, Advice!Least
  <1>3. QED
    BY <1>1, <1>2 DEF Advice!GrowthFit, Advice!InterestFit

LEMMA PracticalIsInt ==
  ASSUME Advice!ScoringAssumption, NEW c \in Configs, NEW text
  PROVE  Advice!PracticalFit(text, c) \in Int
  <1> DEFINE M == {i \in DOMAIN c.rules : c.rules[i].match \in text.parts}
  <1>1. c.rules \in Seq([match : Patterns, score : Int]) /\ c.default \in Int
    BY ConfigFields
  <1>2. DOMAIN c.rules = 1..Len(c.rules) /\ Len(c.rules) \in Nat
    BY <1>1
  <1>3. ASSUME NEW i \in DOMAIN c.rules PROVE c.rules[i].score \in Int
    <2> DEFINE R == [match : Patterns, score : Int]
    <2>1. c.rules \in Seq(R)
      BY <1>1
    <2>2. \A r \in R : r.score \in Int
      OBVIOUS
    <2> HIDE DEF R
    <2>3. c.rules[i] \in R
      BY <2>1
    <2>4. QED
      BY <2>2, <2>3
  <1>4. M # {} => Advice!Min(M) \in DOMAIN c.rules
    <2>1. IsFiniteSet(1..Len(c.rules)) /\ M \in SUBSET (1..Len(c.rules)) /\ M \in SUBSET Int
      BY <1>2, FS_Interval
    <2>2. IsFiniteSet(M)
      BY <2>1, FS_Subset
    <2> HIDE DEF M
    <2>3. QED
      BY <1>2, <2>1, <2>2, MaxMin
  <1>5. Advice!PracticalFit(text, c) =
          IF M = {} THEN Advice!OrElse(c.default, 6000)
          ELSE Advice!OrElse(c.rules[Advice!Min(M)].score, Advice!OrElse(c.default, 6000))
    BY DEF Advice!PracticalFit
  <1> HIDE DEF M
  <1>6. Advice!OrElse(c.default, 6000) \in Int
    BY <1>1 DEF Advice!OrElse
  <1>7. CASE M = {}
    BY <1>5, <1>6, <1>7
  <1>8. CASE M # {}
    <2>1. c.rules[Advice!Min(M)].score \in Int
      BY <1>3, <1>4, <1>8
    <2>2. Advice!OrElse(c.rules[Advice!Min(M)].score, Advice!OrElse(c.default, 6000)) \in Int
      BY <1>6, <2>1 DEF Advice!OrElse
    <2>3. QED
      BY <1>5, <1>8, <2>2
  <1>9. QED
    BY <1>7, <1>8

(* Expertise counts for a Consultant.                                      *)
Favours(c) == Advice!Weight(c, "expertise") >= 0

(* What the five dimensions add to, and what blockers and risks take.       *)
Raw(text, n, c) ==
  (Advice!Weight(c, "expertise") * Advice!ExpertiseFit(text, n, c)
   + Advice!Weight(c, "role") * Advice!RoleFit(text, c)
   + Advice!Weight(c, "growth") * Advice!GrowthFit(text, c)
   + Advice!Weight(c, "interest") * Advice!InterestFit(text, c)
   + Advice!Weight(c, "practical") * Advice!PracticalFit(text, c)) \div 100

Deduction(text, c) ==
  2450 * Advice!Cardinality(c.hard \cap text.parts) + 525 * Advice!Cardinality(c.soft \cap text.parts)

(* A score is what was added up less the deductions.                        *)
LEMMA OverallParts ==
  ASSUME NEW c, NEW text, NEW n
  PROVE  Advice!Overall(text, n, c) = Advice!Clamp(Raw(text, n, c) - Deduction(text, c))
  BY DEF Advice!Overall, Raw, Deduction, Advice!HardBlockers, Advice!SoftRisks

LEMMA DeductionIsNat ==
  ASSUME Advice!ScoringAssumption, NEW c \in Configs, NEW text
  PROVE  Deduction(text, c) \in Nat
  <1>1. c.hard \cap text.parts \subseteq Patterns /\ c.soft \cap text.parts \subseteq Patterns
    BY ConfigFields
  <1>2. QED
    BY <1>1, CountIsNat DEF Deduction

(* A score is between 0 and 10000 and follows what was added up.            *)
IsScore(x) == x \in Int /\ 0 <= x /\ x <= 10000

LEMMA ClampGrows ==
  ASSUME NEW x \in Int, NEW y \in Int, x <= y
  PROVE  /\ IsScore(Advice!Clamp(x)) /\ IsScore(Advice!Clamp(y))
         /\ Advice!Clamp(x) <= Advice!Clamp(y)
  BY DEF Advice!Clamp, Advice!Most, Advice!Least, IsScore

(* A product grows with a weight that is not negative, and shrinks with     *)
(* one that is.                                                            *)
LEMMA ProductFollows ==
  ASSUME NEW w \in Int, NEW x \in Nat, NEW y \in Nat, x <= y
  PROVE  /\ w * x \in Int /\ w * y \in Int
         /\ w >= 0 => w * x <= w * y
         /\ w < 0 => w * y <= w * x
  <1>1. w * (y - x) = w * y - w * x /\ w * x \in Int /\ w * y \in Int /\ y - x \in Nat
    OBVIOUS
  <1>2. CASE w >= 0
    <2>1. w * (y - x) >= 0
      BY <1>1, <1>2, w \in Nat
    <2>2. QED
      BY <1>1, <1>2, <2>1
  <1>3. CASE w < 0
    <2>1. (0 - w) * (y - x) >= 0
      BY <1>1, <1>3, 0 - w \in Nat
    <2>2. (0 - w) * (y - x) = 0 - w * (y - x)
      BY <1>1
    <2>3. QED
      BY <1>1, <1>3, <2>1, <2>2
  <1>4. QED
    BY <1>2, <1>3

(* What is added up follows the evidence, in the direction of its weight.   *)
LEMMA RawFollows ==
  ASSUME Advice!ScoringAssumption, NEW c \in Configs,
         NEW text, IsText(text), NEW known, NEW more, known \subseteq more
  PROVE  /\ Raw(text, known, c) \in Int /\ Raw(text, more, c) \in Int
         /\ Favours(c) => Raw(text, known, c) <= Raw(text, more, c)
         /\ ~Favours(c) => Raw(text, more, c) <= Raw(text, known, c)
  <1> DEFINE e == Advice!Weight(c, "expertise")
             x == Advice!ExpertiseFit(text, known, c)
             y == Advice!ExpertiseFit(text, more, c)
             r == Advice!Weight(c, "role") * Advice!RoleFit(text, c)
             g == Advice!Weight(c, "growth") * Advice!GrowthFit(text, c)
             i == Advice!Weight(c, "interest") * Advice!InterestFit(text, c)
             p == Advice!Weight(c, "practical") * Advice!PracticalFit(text, c)
  <1>1. e \in Int /\ x \in Nat /\ y \in Nat /\ x <= y
    BY ConfigFields, ExpertiseGrows
  <1>2. r \in Int /\ g \in Int /\ i \in Int /\ p \in Int
    <2>1. /\ Advice!RoleFit(text, c) \in Int /\ Advice!GrowthFit(text, c) \in Int
          /\ Advice!InterestFit(text, c) \in Int /\ Advice!PracticalFit(text, c) \in Int
      BY RoleIsInt, GrowthIsInt, PracticalIsInt
    <2>2. /\ Advice!Weight(c, "role") \in Int /\ Advice!Weight(c, "growth") \in Int
          /\ Advice!Weight(c, "interest") \in Int /\ Advice!Weight(c, "practical") \in Int
      BY ConfigFields
    <2>3. QED
      BY <2>1, <2>2
  <1>3. Raw(text, known, c) = (e * x + r + g + i + p) \div 100
    BY DEF Raw
  <1>4. Raw(text, more, c) = (e * y + r + g + i + p) \div 100
    BY DEF Raw
  <1>5. Favours(c) <=> e >= 0
    BY DEF Favours
  <1> HIDE DEF e, x, y, r, g, i, p
  <1> DEFINE a == e * x
             b == e * y
  <1>6. a \in Int /\ b \in Int /\ (e >= 0 => a <= b) /\ (e < 0 => b <= a)
    BY <1>1, ProductFollows
  <1> HIDE DEF a, b
  <1>7. /\ (a + r + g + i + p) \div 100 \in Int /\ (b + r + g + i + p) \div 100 \in Int
        /\ a <= b => (a + r + g + i + p) \div 100 <= (b + r + g + i + p) \div 100
        /\ b <= a => (b + r + g + i + p) \div 100 <= (a + r + g + i + p) \div 100
    BY <1>2, <1>6
  <1>8. Favours(c) => a <= b
    BY <1>5, <1>6
  <1>9. ~Favours(c) => b <= a
    BY <1>1, <1>5, <1>6
  <1>10. QED
    BY <1>3, <1>4, <1>7, <1>8, <1>9 DEF a, b

(* The score lies between 0 and 100 points, and follows the evidence.       *)
LEMMA OverallFollows ==
  ASSUME Advice!ScoringAssumption, NEW c \in Configs,
         NEW text, IsText(text), NEW known, NEW more, known \subseteq more
  PROVE  /\ IsScore(Advice!Overall(text, known, c)) /\ IsScore(Advice!Overall(text, more, c))
         /\ Favours(c) => Advice!Overall(text, known, c) <= Advice!Overall(text, more, c)
         /\ ~Favours(c) => Advice!Overall(text, more, c) <= Advice!Overall(text, known, c)
  <1> DEFINE x == Raw(text, known, c) - Deduction(text, c)
             y == Raw(text, more, c) - Deduction(text, c)
  <1>1. x \in Int /\ y \in Int /\ (Favours(c) => x <= y) /\ (~Favours(c) => y <= x)
    <2>1. /\ Raw(text, known, c) \in Int /\ Raw(text, more, c) \in Int
          /\ Favours(c) => Raw(text, known, c) <= Raw(text, more, c)
          /\ ~Favours(c) => Raw(text, more, c) <= Raw(text, known, c)
      BY RawFollows
    <2>2. Deduction(text, c) \in Nat
      BY DeductionIsNat
    <2>3. QED
      BY <2>1, <2>2
  <1>2. Advice!Overall(text, known, c) = Advice!Clamp(x) /\ Advice!Overall(text, more, c) = Advice!Clamp(y)
    BY OverallParts
  <1> HIDE DEF x, y
  <1>3. CASE Favours(c)
    BY <1>1, <1>2, <1>3, ClampGrows
  <1>4. CASE ~Favours(c)
    BY <1>1, <1>2, <1>4, ClampGrows
  <1>5. QED
    BY <1>3, <1>4

(* The recommendation follows the score, unless there is a blocker.         *)
LEMMA AdviceRises ==
  ASSUME Advice!ScoringAssumption, NEW c \in Configs,
         NEW low, NEW high, NEW known, NEW more,
         Advice!HardBlockers(high, c) # {} => Advice!HardBlockers(low, c) # {},
         Advice!Overall(low, known, c) \in Int, Advice!Overall(high, more, c) \in Int,
         Advice!Overall(low, known, c) <= Advice!Overall(high, more, c)
  PROVE  Advice!Rank(Advice!RecommendedStatus(low, known, c))
           <= Advice!Rank(Advice!RecommendedStatus(high, more, c))
  <1> DEFINE Advised(blocked, score) ==
        IF blocked \/ score < 100 * c.maybe THEN "reject"
        ELSE IF score >= 100 * c.keep THEN "keep" ELSE "maybe"
  <1>1. c.keep \in Int /\ c.maybe \in Int /\ c.keep > c.maybe
    BY ConfigFields
  <1>2. /\ Advice!RecommendedStatus(low, known, c)
             = Advised(Advice!HardBlockers(low, c) # {}, Advice!Overall(low, known, c))
        /\ Advice!RecommendedStatus(high, more, c)
             = Advised(Advice!HardBlockers(high, c) # {}, Advice!Overall(high, more, c))
    BY <1>1 DEF Advice!RecommendedStatus
  <1>3. QED
    BY <1>1, <1>2 DEF Advice!Rank

(* What a list of the configuration names is a signal.                     *)
LEMMA AreSignals ==
  ASSUME NEW c
  PROVE  /\ \A k \in DOMAIN c.catalog : \A tier \in Advice!Tiers :
              c.catalog[k][tier] \subseteq Advice!Signals(c)
         /\ \A a \in c.archetypes : a.title \subseteq Advice!Signals(c)
                                  /\ a.body \subseteq Advice!Signals(c)
         /\ \A S \in {c.primary, c.secondary, c.penalize, c.preferred, c.avoid} :
              S \subseteq Advice!Signals(c)
  <1> DEFINE Of(k) == UNION {c.catalog[k][tier] : tier \in Advice!Tiers}
             Listed == UNION {Of(k) : k \in DOMAIN c.catalog}
             Titled == UNION {a.title \cup a.body : a \in c.archetypes}
             Named == UNION {c.primary, c.secondary, c.penalize, c.preferred, c.avoid}
  <1>1. Advice!Signals(c) = Named \cup Titled \cup Listed
    BY DEF Advice!Signals
  <1>2. \A k \in DOMAIN c.catalog : \A tier \in Advice!Tiers : c.catalog[k][tier] \subseteq Listed
    <2>1. \A k \in DOMAIN c.catalog : \A tier \in Advice!Tiers : c.catalog[k][tier] \subseteq Of(k)
      OBVIOUS
    <2> HIDE DEF Of
    <2>2. \A k \in DOMAIN c.catalog : Of(k) \subseteq Listed
      OBVIOUS
    <2>3. QED
      BY <2>1, <2>2
  <1>3. \A a \in c.archetypes : a.title \cup a.body \subseteq Titled
    OBVIOUS
  <1>4. \A S \in {c.primary, c.secondary, c.penalize, c.preferred, c.avoid} : S \subseteq Named
    OBVIOUS
  <1> HIDE DEF Of, Listed, Titled, Named
  <1>5. QED
    BY <1>1, <1>2, <1>3, <1>4

(* A posting that contains p in addition, where p is no place, and no       *)
(* signal unless it stands inside a word, differs in nothing but its        *)
(* blockers and risks.                                                     *)
LEMMA OverallShrinks ==
  ASSUME Advice!ScoringAssumption, NEW c \in Configs,
         NEW text, IsText(text), NEW worse, IsText(worse), NEW p,
         Advice!Signals(c) \cap worse.title = Advice!Signals(c) \cap text.title,
         Advice!Signals(c) \cap worse.words = Advice!Signals(c) \cap text.words,
         worse.parts = text.parts \cup {p},
         p \notin {c.rules[i].match : i \in DOMAIN c.rules}, NEW known
  PROVE  /\ Advice!Overall(worse, known, c) \in Int /\ Advice!Overall(text, known, c) \in Int
         /\ Advice!Overall(worse, known, c) <= Advice!Overall(text, known, c)
  <1>0. ASSUME NEW S, S \subseteq Advice!Signals(c)
        PROVE  S \cap worse.title = S \cap text.title /\ S \cap worse.words = S \cap text.words
    BY <1>0
  <1>1. \A k \in DOMAIN c.catalog : Advice!JobTerms(worse, c, k) = Advice!JobTerms(text, c, k)
    <2>1. ASSUME NEW k \in DOMAIN c.catalog, NEW tier \in Advice!Tiers
          PROVE  worse.words \cap c.catalog[k][tier] = text.words \cap c.catalog[k][tier]
      <3>1. c.catalog[k][tier] \subseteq Advice!Signals(c)
        BY AreSignals
      <3>2. QED
        BY <1>0, <3>1
    <2>2. QED
      BY <2>1 DEF Advice!JobTerms
  <1>2. Advice!ExpertiseFit(worse, known, c) = Advice!ExpertiseFit(text, known, c)
    <2>1. ASSUME NEW K \in SUBSET DOMAIN c.catalog
          PROVE  Advice!MatchTerms(worse, known, c, K) = Advice!MatchTerms(text, known, c, K)
      <3> DEFINE all(x) == [k \in K |-> Advice!JobTerms(x, c, k)]
                 some(x) == [k \in K |-> {t \in Advice!JobTerms(x, c, k) : Advice!Backed(t[2], known, k)}]
                 total(x) == Advice!Weigh(all(x), c)
                 matched(x) == Advice!Weigh(some(x), c)
      <3>1. all(worse) = all(text) /\ some(worse) = some(text)
        BY <1>1
      <3>2. ASSUME NEW x
            PROVE  Advice!MatchTerms(x, known, c, K) =
                     IF total(x) = 0 THEN 0
                     ELSE Advice!Least(10000, (10000 * matched(x)) \div total(x))
        BY DEF Advice!MatchTerms
      <3> HIDE DEF all, some
      <3>3. total(worse) = total(text) /\ matched(worse) = matched(text)
        BY <3>1
      <3> HIDE DEF total, matched
      <3>4. QED
        BY <3>2, <3>3
    <2>2. QED
      BY <2>1 DEF Advice!ExpertiseFit
  <1>3. Advice!RoleFit(worse, c) = Advice!RoleFit(text, c)
    <2>1. ASSUME NEW a \in c.archetypes
          PROVE  Advice!ArchetypeFit(worse, a) = Advice!ArchetypeFit(text, a)
      <3>1. a.title \subseteq Advice!Signals(c) /\ a.body \subseteq Advice!Signals(c)
        BY AreSignals
      <3>2. a.title \cap worse.title = a.title \cap text.title
              /\ a.body \cap worse.words = a.body \cap text.words
        BY <1>0, <3>1
      <3> DEFINE t == Advice!Cardinality(a.title)
                 b == Advice!Cardinality(a.body)
                 th(x) == Advice!Cardinality(a.title \cap x.title)
                 bh(x) == Advice!Cardinality(a.body \cap x.words)
      <3>3. th(worse) = th(text) /\ bh(worse) = bh(text)
        BY <3>2
      <3>4. ASSUME NEW x
            PROVE  Advice!ArchetypeFit(x, a) =
                     IF t + b = 0 THEN 0
                     ELSE Advice!Least(10000,
                            Advice!Least(9000, (10000 * (2 * th(x) + bh(x))) \div ((t + b) + t))
                            + (IF th(x) > 0 THEN 100 * a.bonus ELSE 0))
        BY DEF Advice!ArchetypeFit
      <3> HIDE DEF t, b, th, bh
      <3>5. QED
        BY <3>3, <3>4
    <2> DEFINE K == (Advice!ToolCategories \ {"methods"}) \cap DOMAIN c.catalog
               fits(x) == {Advice!ArchetypeFit(x, a) : a \in c.archetypes}
               counts(x) == [k \in K |-> Advice!Cardinality(Advice!JobTerms(x, c, k))]
               best(x) == Advice!Max({0} \cup fits(x))
               dense(x) == Advice!SumFunction(counts(x))
    <2>2. fits(worse) = fits(text) /\ counts(worse) = counts(text)
      BY <1>1, <2>1
    <2>3. ASSUME NEW x
          PROVE  Advice!RoleFit(x, c) =
                   Advice!Least(10000, best(x) + Advice!Least(1500, 250 * dense(x)))
      BY DEF Advice!RoleFit
    <2> HIDE DEF fits, counts
    <2>4. best(worse) = best(text) /\ dense(worse) = dense(text)
      BY <2>2
    <2> HIDE DEF best, dense
    <2>5. QED
      BY <2>3, <2>4
  <1>4. Advice!GrowthFit(worse, c) = Advice!GrowthFit(text, c) /\ Advice!InterestFit(worse, c) = Advice!InterestFit(text, c)
    <2>1. ASSUME NEW S \in {c.primary, c.secondary, c.penalize, c.preferred, c.avoid}
          PROVE  Advice!Found(S, worse) = Advice!Found(S, text)
      <3>1. S \subseteq Advice!Signals(c)
        BY AreSignals
      <3>2. S \cap worse.words = S \cap text.words
        BY <1>0, <3>1
      <3>3. QED
        BY <3>2 DEF Advice!Found
    <2>2. QED
      BY <2>1 DEF Advice!GrowthFit, Advice!InterestFit
  <1>5. Advice!PracticalFit(worse, c) = Advice!PracticalFit(text, c)
    <2> DEFINE M(posted) == {i \in DOMAIN c.rules : c.rules[i].match \in posted.parts}
    <2>1. M(worse) = M(text)
      OBVIOUS
    <2>2. ASSUME NEW posted
          PROVE  Advice!PracticalFit(posted, c) =
                   IF M(posted) = {} THEN Advice!OrElse(c.default, 6000)
                   ELSE Advice!OrElse(c.rules[Advice!Min(M(posted))].score,
                                      Advice!OrElse(c.default, 6000))
      BY DEF Advice!PracticalFit
    <2> HIDE DEF M
    <2>3. QED
      BY <2>1, <2>2
  <1>6. Raw(worse, known, c) = Raw(text, known, c)
    BY <1>2, <1>3, <1>4, <1>5 DEF Raw
  <1>7. Deduction(text, c) <= Deduction(worse, c)
    <2> DEFINE h == c.hard \cap text.parts
               s == c.soft \cap text.parts
               hh == c.hard \cap worse.parts
               ss == c.soft \cap worse.parts
    <2>1. /\ hh \subseteq Patterns /\ ss \subseteq Patterns /\ h \in SUBSET hh /\ s \in SUBSET ss
      BY ConfigFields
    <2>2. Deduction(text, c) = 2450 * Advice!Cardinality(h) + 525 * Advice!Cardinality(s)
      BY DEF Deduction
    <2>3. Deduction(worse, c) = 2450 * Advice!Cardinality(hh) + 525 * Advice!Cardinality(ss)
      BY DEF Deduction
    <2> HIDE DEF h, s, hh, ss
    <2>4. /\ Advice!Cardinality(h) \in Nat /\ Advice!Cardinality(hh) \in Nat
          /\ Advice!Cardinality(s) \in Nat /\ Advice!Cardinality(ss) \in Nat
      BY <2>1, CountIsNat
    <2>5. Advice!Cardinality(h) <= Advice!Cardinality(hh) /\ Advice!Cardinality(s) <= Advice!Cardinality(ss)
      <3>1. IsFiniteSet(hh) /\ IsFiniteSet(ss)
        BY <2>1, CountIsNat
      <3>2. QED
        BY <2>1, <3>1, FS_Subset, SameCount
    <2>6. QED
      BY <2>2, <2>3, <2>4, <2>5
  <1> DEFINE x == Raw(worse, known, c) - Deduction(worse, c)
             y == Raw(text, known, c) - Deduction(text, c)
  <1>8. x \in Int /\ y \in Int /\ x <= y
    <2>1. Raw(text, known, c) \in Int
      BY RawFollows
    <2>2. Deduction(text, c) \in Nat /\ Deduction(worse, c) \in Nat
      BY DeductionIsNat
    <2>3. QED
      BY <1>6, <1>7, <2>1, <2>2
  <1>9. Advice!Overall(worse, known, c) = Advice!Clamp(x) /\ Advice!Overall(text, known, c) = Advice!Clamp(y)
    BY OverallParts
  <1> HIDE DEF x, y
  <1>10. QED
    BY <1>8, <1>9, ClampGrows DEF IsScore

(* What stays so while the evidence grows.                                 *)
AdviceInv ==
  /\ looking \in BOOLEAN
  /\ profile \in Advice!Profiles
  /\ config = {} \/ \E c \in Configs : config = {c}
  /\ posting \in Postings

LEMMA UnscoredIsNot == \A r : Advice!Unscored(r).scored = FALSE /\ Advice!Unscored(r).reason = r
  BY DEF Advice!Unscored

(* The advice where there is none, and where there is one.                  *)
LEMMA NotScored ==
  ASSUME profile \in Advice!Profiles,
         ~(looking /\ profile = "readable" /\ config # {})
  PROVE  /\ Advice!ScoreJobForConsultant.scored = FALSE
         /\ Advice!ScoreJobForConsultant.reason = "exception"
              <=> looking /\ profile = "unparseable"
  <1>1. CASE ~looking
    <2>1. Advice!ScoreJobForConsultant = Advice!Unscored("opted_out")
      BY <1>1, SMT DEF Advice!ScoreJobForConsultant
    <2>2. QED
      BY <1>1, <2>1, UnscoredIsNot
  <1>2. CASE looking /\ profile = "missing"
    <2>1. Advice!ScoreJobForConsultant = Advice!Unscored("no_profile")
      BY <1>2, SMT DEF Advice!ScoreJobForConsultant
    <2>2. QED
      BY <1>2, <2>1, UnscoredIsNot
  <1>3. CASE looking /\ profile = "invalid"
    <2>1. Advice!ScoreJobForConsultant = Advice!Unscored("invalid_profile")
      BY <1>3, SMT DEF Advice!ScoreJobForConsultant
    <2>2. QED
      BY <1>3, <2>1, UnscoredIsNot
  <1>4. CASE looking /\ profile = "readable" /\ config = {}
    <2>1. Advice!ScoreJobForConsultant = Advice!Unscored("no_config")
      BY <1>4, SMT DEF Advice!ScoreJobForConsultant
    <2>2. QED
      BY <1>4, <2>1, UnscoredIsNot
  <1>5. CASE looking /\ profile = "unparseable"
    <2>1. Advice!ScoreJobForConsultant = Advice!Unscored("exception")
      BY <1>5, SMT DEF Advice!ScoreJobForConsultant
    <2>2. QED
      BY <1>5, <2>1, UnscoredIsNot
  <1>6. QED
    BY <1>1, <1>2, <1>3, <1>4, <1>5 DEF Advice!Profiles

LEMMA Scored ==
  ASSUME looking, profile = "readable", NEW c, config = {c}
  PROVE  Advice!ScoreJobForConsultant =
           [scored |-> TRUE, reason |-> "none",
            score |-> Advice!Overall(posting, evidence, c),
            status |-> Advice!RecommendedStatus(posting, evidence, c)]
  <1>1. (CHOOSE x \in config : TRUE) = c
    OBVIOUS
  <1>2. Advice!ScoreJobForConsultant =
           [scored |-> TRUE, reason |-> "none",
            score |-> Advice!Overall(posting, evidence, CHOOSE x \in config : TRUE),
            status |-> Advice!RecommendedStatus(posting, evidence, CHOOSE x \in config : TRUE)]
    BY SMT DEF Advice!ScoreJobForConsultant
  <1>3. QED
    BY <1>1, <1>2

(* The advice is sound in every state whose parts have their types.         *)
LEMMA AdviceOfInv ==
  ASSUME Advice!ScoringAssumption, AdviceInv
  PROVE  Advice!AdviceIsSound
  <1> DEFINE advice == Advice!ScoreJobForConsultant
  <1>0. \A c \in config : c \in Configs
    BY DEF AdviceInv
  <1>1. posting \in [title : SUBSET Patterns, words : SUBSET Patterns, parts : SUBSET Patterns]
    BY DEF AdviceInv, Advice!ScoringAssumption
  <1>2. IsText(posting)
    BY <1>1 DEF IsText
  <1>3. /\ advice.scored <=> looking /\ profile = "readable" /\ config # {}
        /\ advice.reason = "exception" <=> looking /\ profile = "unparseable"
    <2>1. CASE looking /\ profile = "readable" /\ config # {}
      <3>1. PICK c : config = {c}
        BY <2>1 DEF AdviceInv
      <3>2. advice.scored = TRUE /\ advice.reason = "none"
        BY <2>1, <3>1, Scored
      <3>3. QED
        BY <2>1, <3>2
    <2>2. CASE ~(looking /\ profile = "readable" /\ config # {})
      <3>1. /\ advice.scored = FALSE
            /\ advice.reason = "exception" <=> looking /\ profile = "unparseable"
        BY <2>2, NotScored DEF AdviceInv
      <3>2. QED
        BY <2>2, <3>1
    <2>3. QED
      BY <2>1, <2>2
  <1>4. ASSUME advice.scored
        PROVE  \E c \in Configs : /\ config = {c}
                 /\ advice.score = Advice!Overall(posting, evidence, c)
                 /\ advice.status = Advice!RecommendedStatus(posting, evidence, c)
    <2>1. looking /\ profile = "readable" /\ config # {}
      BY <1>3, <1>4
    <2>2. PICK c \in Configs : config = {c}
      BY <2>1 DEF AdviceInv
    <2>3. advice = [scored |-> TRUE, reason |-> "none",
                    score |-> Advice!Overall(posting, evidence, c),
                    status |-> Advice!RecommendedStatus(posting, evidence, c)]
      BY <2>1, <2>2, Scored
    <2> HIDE DEF advice
    <2>4. QED
      BY <2>2, <2>3
  <1> HIDE DEF advice
  <1>5. ASSUME advice.scored
        PROVE  /\ 0 <= advice.score /\ advice.score <= 10000
               /\ \A c \in config : c.hard \cap posting.parts # {} => advice.status = "reject"
    <2>1. PICK c \in Configs : /\ config = {c}
                 /\ advice.score = Advice!Overall(posting, evidence, c)
                 /\ advice.status = Advice!RecommendedStatus(posting, evidence, c)
      BY <1>4, <1>5
    <2>3. IsScore(Advice!Overall(posting, evidence, c))
      BY <1>2, OverallFollows
    <2>4. c.hard \cap posting.parts # {} => advice.status = "reject"
      BY <2>1 DEF Advice!RecommendedStatus, Advice!HardBlockers
    <2>5. QED
      BY <2>1, <2>3, <2>4 DEF IsScore
  <1>6. Advice!ScoredWhenPossible /\ Advice!ExcludedIsRejected
    BY <1>3, <1>5 DEF advice, Advice!ScoredWhenPossible, Advice!ExcludedIsRejected
  <1>7. ASSUME NEW c \in config, NEW e \in Evidence
        PROVE  IF Advice!Weight(c, "expertise") >= 0
               THEN Advice!NoBetter(posting, evidence, posting, evidence \cup {e}, c)
               ELSE Advice!NoBetter(posting, evidence \cup {e}, posting, evidence, c)
    <2> DEFINE more == evidence \cup {e}
    <2>1. evidence \subseteq more /\ c \in Configs
      BY <1>0
    <2> HIDE DEF more
    <2>2. /\ IsScore(Advice!Overall(posting, evidence, c)) /\ IsScore(Advice!Overall(posting, more, c))
          /\ Favours(c) => Advice!Overall(posting, evidence, c) <= Advice!Overall(posting, more, c)
          /\ ~Favours(c) => Advice!Overall(posting, more, c) <= Advice!Overall(posting, evidence, c)
      BY <1>2, <2>1, OverallFollows
    <2>3. Favours(c) => Advice!NoBetter(posting, evidence, posting, more, c)
      BY <2>1, <2>2, AdviceRises DEF IsScore, Advice!NoBetter
    <2>4. ~Favours(c) => Advice!NoBetter(posting, more, posting, evidence, c)
      BY <2>1, <2>2, AdviceRises DEF IsScore, Advice!NoBetter
    <2>5. QED
      BY <2>3, <2>4 DEF more, Favours
  <1>8. ASSUME NEW c \in config, NEW p \in c.hard \cup c.soft, NEW text \in Advice!With(p),
               p \notin {c.rules[i].match : i \in DOMAIN c.rules},
               p \in Advice!Signals(c) => text.words = posting.words /\ text.title = posting.title
        PROVE  Advice!NoBetter(text, evidence, posting, evidence, c)
    <2>1. /\ text.title = posting.title \/ text.title = posting.title \cup {p}
          /\ text.words = posting.words \/ text.words = posting.words \cup {p}
          /\ text.parts = posting.parts \cup {p}
      BY <1>1 DEF Advice!With
    <2>2. p \in Patterns /\ c \in Configs
      BY <1>0, ConfigFields
    <2>3. IsText(text)
      BY <1>2, <2>1, <2>2 DEF IsText
    <2>4. /\ Advice!Signals(c) \cap text.title = Advice!Signals(c) \cap posting.title
          /\ Advice!Signals(c) \cap text.words = Advice!Signals(c) \cap posting.words
      BY <1>8, <2>1
    <2>5. /\ Advice!Overall(text, evidence, c) \in Int /\ Advice!Overall(posting, evidence, c) \in Int
          /\ Advice!Overall(text, evidence, c) <= Advice!Overall(posting, evidence, c)
      BY <1>2, <1>8, <2>1, <2>2, <2>3, <2>4, OverallShrinks
    <2>6. Advice!HardBlockers(posting, c) # {} => Advice!HardBlockers(text, c) # {}
      BY <2>1 DEF Advice!HardBlockers
    <2>7. QED
      BY <2>2, <2>5, <2>6, AdviceRises DEF Advice!NoBetter
  <1>9. Advice!EvidenceHelps /\ Advice!BlockersHurt
    BY <1>7, <1>8 DEF Advice!EvidenceHelps, Advice!BlockersHurt
  <1>10. QED
    BY <1>6, <1>9 DEF Advice!AdviceIsSound

(* There is a score exactly when it can be had, and an answer unless the    *)
(* profile is not YAML; what is excluded is never recommended; evidence     *)
(* moves score and recommendation only in the direction of expertise's      *)
(* weight; and a blocker or risk that is not a signal or a location too     *)
(* raises neither - of any posting, evidence and valid configuration        *)
(* (score_job, score_job_for_consultant).                                  *)
THEOREM AdviceStaysSound == ConsultantSpec => []AdviceIsSound
  <1> DEFINE Inv == part = "advice" => AdviceInv
  <1>1. ConsultantInit => Inv
    BY DEF ConsultantInit, AdviceInit, Advice!Init, AdviceInv
  <1>2. Inv /\ [ConsultantNext]_consultantVars => Inv'
    <2> SUFFICES ASSUME Inv, [ConsultantNext]_consultantVars, part' = "advice"
                 PROVE  AdviceInv'
      OBVIOUS
    <2>1. part = "advice" /\ AdviceInv
      BY ConsultantParts
    <2>2. [Advice!Next]_(Advice!vars)
      BY <2>1, ConsultantParts
    <2>3. UNCHANGED <<looking, profile, config, posting>>
      BY <2>2 DEF Advice!Next, Advice!Gain, Advice!vars
    <2>4. QED
      BY <2>1, <2>3 DEF AdviceInv
  <1>3. Inv => AdviceIsSound
    BY ConsultantAssumption, AdviceOfInv DEF AdviceIsSound
  <1>4. QED
    BY <1>1, <1>2, <1>3, PTL DEF ConsultantSpec
=============================================================================
