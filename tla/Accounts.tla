------------------------------ MODULE Accounts ------------------------------
(* Who may sign in: backend/auth/service.py and the rows of users,          *)
(* user_sessions and invites it works on, with the part of an erasure       *)
(* (backend/privacy/service.py) that ends them.                             *)
(*                                                                         *)
(* A request is one HTTP request, or one run of scripts/reset_password.py,  *)
(* with its own database session (autoflush off, READ COMMITTED): it reads  *)
(* a row, works for a while - hashing takes long - and commits what it made *)
(* of its copy.  The ORM writes only the columns whose value differs from   *)
(* that copy.  Passwords are numbered in the order they are stored and 0 is *)
(* no password yet; clocks are the steps in which a lockout, an invite or a *)
(* session runs out.                                                        *)
EXTENDS Naturals, FiniteSets

CONSTANTS
  Users,          \* accounts, each created at most once
  Requests,       \* requests in progress at a time
  Tokens,         \* session cookies that can be issued
  MaxFailed,      \* config.LOGIN_MAX_FAILED_ATTEMPTS
  MaxPasswords,   \* bound on passwords stored
  MaxGuesses      \* bound on wrong passwords recorded in a row

AccountsAssumption ==
  /\ Users # {}
  /\ MaxFailed \in Nat \ {0}
  /\ MaxPasswords \in Nat /\ MaxGuesses \in Nat

VARIABLES
  row,        \* the users row: none, live or gone
  hash,       \* users.password_hash: the number of the password, or 0
  failed,     \* users.failed_login_attempts
  lock,       \* users.locked_until: none, in the future (on) or past (over)
  invite,     \* the account's invite: none, open, expired or accepted
  session,    \* the user_sessions row of a token: unused, live, expired, gone
  owner,      \* its user_id
  pc,         \* what a request does next
  who,        \* the account it is about
  seen,       \* the columns it read of the account
  right,      \* whether the password a sign-in brings is the one it read
  listed,     \* the sessions revoke_all_sessions_for_user read
  opened,     \* history: the password a session was opened with
  late,       \* history: sessions opened while a password change was under way
  replaced,   \* history: accounts whose invite replaced a password
  wrong,      \* history: wrong passwords since the last success or reset
  raced       \* history: accounts whose counters were written from an old copy,
              \* until a success or reset writes them from a current one

rows == <<row, hash, failed, lock, invite>>
sessions == <<session, owner, opened, late>>
local == <<pc, who, seen, right, listed>>
history == <<replaced, wrong, raced>>
vars == <<rows, sessions, local, history>>

Copy == [hash : 0..MaxPasswords, failed : 0..(MaxFailed - 1),
         lock : {"none", "on", "over"}]

Nobody == CHOOSE u \in Users : TRUE
Nothing == [hash |-> 0, failed |-> 0, lock |-> "none"]

Init ==
  /\ row = [u \in Users |-> "none"]
  /\ hash = [u \in Users |-> 0]
  /\ failed = [u \in Users |-> 0]
  /\ lock = [u \in Users |-> "none"]
  /\ invite = [u \in Users |-> "none"]
  /\ session = [t \in Tokens |-> "unused"]
  /\ owner = [t \in Tokens |-> Nobody]
  /\ opened = [t \in Tokens |-> 0]
  /\ late = {}
  /\ pc = [r \in Requests |-> "idle"]
  /\ who = [r \in Requests |-> Nobody]
  /\ seen = [r \in Requests |-> Nothing]
  /\ right = [r \in Requests |-> FALSE]
  /\ listed = [r \in Requests |-> {}]
  /\ replaced = {}
  /\ wrong = [u \in Users |-> 0]
  /\ raced = {}

---------------------------------------------------------------------------
(* Requests.                                                               *)

Read(u) == [hash |-> hash[u], failed |-> failed[u], lock |-> lock[u]]

SessionsOf(u) == {t \in Tokens : owner[t] = u /\ session[t] \in {"live", "expired"}}

(* Rows of user_sessions are deleted, and with them their history.         *)
DeleteSessions(doomed) ==
  /\ session' = [t \in Tokens |-> IF t \in doomed THEN "gone" ELSE session[t]]
  /\ opened' = [t \in Tokens |-> IF t \in doomed THEN 0 ELSE opened[t]]
  /\ late' = late \ doomed
  /\ UNCHANGED owner

(* A request begins with a copy of what it read of its account, when it     *)
(* looks at that again.                                                    *)
Begin(r, u, next, copy) ==
  /\ pc[r] = "idle"
  /\ pc' = [pc EXCEPT ![r] = next]
  /\ who' = [who EXCEPT ![r] = u]
  /\ seen' = [seen EXCEPT ![r] = copy]

(* It ends, or fails, and its database session is closed.                  *)
End(r) ==
  /\ pc' = [pc EXCEPT ![r] = "idle"]
  /\ seen' = [seen EXCEPT ![r] = Nothing]
  /\ right' = [right EXCEPT ![r] = FALSE]
  /\ listed' = [listed EXCEPT ![r] = {}]
  /\ who' = [who EXCEPT ![r] = Nobody]

(* An UPDATE of a row that an erasure deleted matches nothing: the request *)
(* ends with an error and its transaction is rolled back.                  *)
Vanished(r) ==
  /\ pc[r] \in {"verify", "revoking", "accept"}
  /\ row[who[r]] = "gone"
  /\ End(r)
  /\ UNCHANGED <<rows, sessions, history>>

(* Setting a column to a value the copy already has writes nothing.        *)
Assigned(copied, stored, value) == IF copied = value THEN stored ELSE value

CurrentCopy(r) == /\ seen[r].failed = failed[who[r]]
                  /\ seen[r].lock = lock[who[r]]

---------------------------------------------------------------------------
(* Accounts.                                                               *)

(* create_user with its invite.                                            *)
CreateUser(u) ==
  /\ row[u] = "none"
  /\ row' = [row EXCEPT ![u] = "live"]
  /\ invite' = [invite EXCEPT ![u] = "open"]
  /\ UNCHANGED <<hash, failed, lock, sessions, local, history>>

(* The row is deleted, its invites with it, and what is said of it.        *)
DeleteAccount(u) ==
  /\ row' = [row EXCEPT ![u] = "gone"]
  /\ hash' = [hash EXCEPT ![u] = 0]
  /\ failed' = [failed EXCEPT ![u] = 0]
  /\ lock' = [lock EXCEPT ![u] = "none"]
  /\ invite' = [invite EXCEPT ![u] = "none"]
  /\ replaced' = replaced \ {u}
  /\ wrong' = [wrong EXCEPT ![u] = 0]
  /\ raced' = raced \ {u}

(* Mutant of Erase: the account's sessions are forgotten.                  *)
EraseButSessions(u) ==
  /\ row[u] = "live"
  /\ DeleteAccount(u)
  /\ UNCHANGED <<sessions, local>>

(* erase_consultant: the account is locked, and what signs it in is        *)
(* deleted with it.  A session cannot be inserted meanwhile, because its   *)
(* foreign key needs the row that is locked.  (_get_consultant refuses an  *)
(* account that holds Admin or TA too: such a one never takes this step.)  *)
Erase(u) ==
  /\ row[u] = "live"
  /\ DeleteAccount(u)
  /\ DeleteSessions(SessionsOf(u))
  /\ UNCHANGED local

---------------------------------------------------------------------------
(* Signing in.                                                             *)

(* authenticate up to the verdict: a missing account, one without password *)
(* and one that is locked out are refused without a look at the password.  *)
StartLogin(r, u, isRight) ==
  /\ row[u] = "live"
  /\ hash[u] # 0
  /\ lock[u] # "on"
  /\ isRight \/ wrong[u] < MaxGuesses
  /\ Begin(r, u, "verify", Read(u))
  /\ right' = [right EXCEPT ![r] = isRight]
  /\ UNCHANGED <<rows, sessions, listed, history>>

(* Mutant of RecordFailedLogin: the lockout leaves the counter.            *)
RecordWithoutReset(r) ==
  LET u == who[r]
      attempts == seen[r].failed + 1
  IN
  /\ pc[r] = "verify" /\ ~right[r]
  /\ row[u] = "live"
  /\ wrong[u] < MaxGuesses
  /\ lock' = [lock EXCEPT ![u] = IF attempts >= MaxFailed THEN "on" ELSE @]
  /\ failed' = [failed EXCEPT ![u] = IF attempts >= MaxFailed THEN @ ELSE attempts]
  /\ wrong' = [wrong EXCEPT ![u] = @ + 1]
  /\ raced' = IF CurrentCopy(r) THEN raced ELSE raced \cup {u}
  /\ End(r)
  /\ UNCHANGED <<row, hash, invite, sessions, replaced>>

(* _record_failed_login: count, and lock out at the threshold.             *)
RecordFailedLogin(r) ==
  LET u == who[r]
      attempts == seen[r].failed + 1
  IN
  /\ pc[r] = "verify" /\ ~right[r]
  /\ row[u] = "live"
  /\ wrong[u] < MaxGuesses
  /\ IF attempts >= MaxFailed
     THEN /\ failed' = [failed EXCEPT ![u] = Assigned(seen[r].failed, @, 0)]
          /\ lock' = [lock EXCEPT ![u] = "on"]
     ELSE /\ failed' = [failed EXCEPT ![u] = attempts]
          /\ UNCHANGED lock
  /\ wrong' = [wrong EXCEPT ![u] = @ + 1]
  /\ raced' = IF CurrentCopy(r) THEN raced ELSE raced \cup {u}
  /\ End(r)
  /\ UNCHANGED <<row, hash, invite, sessions, replaced>>

(* A right password clears what the copy has of failures and lockouts; the *)
(* session comes in a transaction of its own.                              *)
Authenticated(r) ==
  LET u == who[r] IN
  /\ pc[r] = "verify" /\ right[r]
  /\ row[u] = "live"
  /\ failed' = [failed EXCEPT ![u] = Assigned(seen[r].failed, @, 0)]
  /\ lock' = [lock EXCEPT ![u] = Assigned(seen[r].lock, @, "none")]
  /\ wrong' = [wrong EXCEPT ![u] = 0]
  /\ raced' = IF CurrentCopy(r) THEN raced \ {u} ELSE raced \cup {u}
  /\ pc' = [pc EXCEPT ![r] = "open"]
  /\ seen' = [seen EXCEPT ![r] = [Nothing EXCEPT !.hash = seen[r].hash]]
  /\ right' = [right EXCEPT ![r] = FALSE]
  /\ UNCHANGED <<row, hash, invite, sessions, who, listed, replaced>>

(* create_session; an account that was erased meanwhile has no row for its *)
(* foreign key.                                                            *)
CreateSession(r) ==
  LET u == who[r] IN
  /\ pc[r] = "open"
  /\ \/ /\ row[u] = "live"
        /\ \E t \in Tokens :
             /\ session[t] = "unused"
             /\ session' = [session EXCEPT ![t] = "live"]
             /\ owner' = [owner EXCEPT ![t] = u]
             /\ opened' = [opened EXCEPT ![t] = seen[r].hash]
             /\ late' = IF \/ seen[r].hash # hash[u]
                           \/ \E q \in Requests : pc[q] = "revoking" /\ who[q] = u
                        THEN late \cup {t} ELSE late
     \/ row[u] # "live" /\ UNCHANGED sessions
  /\ End(r)
  /\ UNCHANGED <<rows, history>>

(* revoke_session.                                                         *)
Logout(t) ==
  /\ session[t] \in {"live", "expired"}
  /\ DeleteSessions({t})
  /\ UNCHANGED <<rows, local, history>>

(* resolve_session deletes an expired session it comes across.             *)
ResolveExpired(t) ==
  /\ session[t] = "expired"
  /\ DeleteSessions({t})
  /\ UNCHANGED <<rows, local, history>>

(* The user resolve_session finds behind a cookie.                         *)
SignedIn(t) == session[t] = "live" /\ row[owner[t]] = "live"

---------------------------------------------------------------------------
(* Passwords and revocation.                                               *)

(* set_password reads the account and hashes; its sessions are read after. *)
StartReset(r, u) ==
  /\ row[u] = "live"
  /\ Begin(r, u, "hash", Read(u))
  /\ UNCHANGED <<rows, sessions, right, listed, history>>

(* revoke_all_sessions_for_user reads what it will delete: for a reset, or *)
(* for an Admin who ends the sessions of an account (pc is then "ending"). *)
ListSessions(r) ==
  /\ pc[r] = "hash"
  /\ listed' = [listed EXCEPT ![r] = SessionsOf(who[r])]
  /\ pc' = [pc EXCEPT ![r] = "revoking"]
  /\ UNCHANGED <<rows, sessions, who, seen, right, history>>

StartRevoke(r, u) ==
  /\ Begin(r, u, "ending", Nothing)
  /\ listed' = [listed EXCEPT ![r] = SessionsOf(u)]
  /\ UNCHANGED <<rows, sessions, right, history>>

(* Mutant of SetPassword: the sessions stay.                               *)
SetPasswordOnly(r) ==
  LET u == who[r] IN
  /\ pc[r] = "revoking"
  /\ row[u] = "live"
  /\ hash[u] < MaxPasswords
  /\ hash' = [hash EXCEPT ![u] = @ + 1]
  /\ failed' = [failed EXCEPT ![u] = Assigned(seen[r].failed, @, 0)]
  /\ lock' = [lock EXCEPT ![u] = Assigned(seen[r].lock, @, "none")]
  /\ wrong' = [wrong EXCEPT ![u] = 0]
  /\ raced' = IF CurrentCopy(r) THEN raced \ {u} ELSE raced \cup {u}
  /\ End(r)
  /\ UNCHANGED <<row, invite, sessions, replaced>>

(* One commit stores the password, the cleared counters and the deletions. *)
SetPassword(r) ==
  LET u == who[r] IN
  /\ pc[r] = "revoking"
  /\ row[u] = "live"
  /\ hash[u] < MaxPasswords
  /\ hash' = [hash EXCEPT ![u] = @ + 1]
  /\ failed' = [failed EXCEPT ![u] = Assigned(seen[r].failed, @, 0)]
  /\ lock' = [lock EXCEPT ![u] = Assigned(seen[r].lock, @, "none")]
  /\ DeleteSessions(listed[r])
  /\ wrong' = [wrong EXCEPT ![u] = 0]
  /\ raced' = IF CurrentCopy(r) THEN raced \ {u} ELSE raced \cup {u}
  /\ End(r)
  /\ UNCHANGED <<row, invite, replaced>>

(* The Admin's revocation commits.                                         *)
RevokeSessions(r) ==
  /\ pc[r] = "ending"
  /\ DeleteSessions(listed[r])
  /\ End(r)
  /\ UNCHANGED <<rows, history>>

(* accept_invite reads the invite and its account, and hashes.             *)
StartAccept(r, u) ==
  /\ row[u] = "live"
  /\ invite[u] = "open"
  /\ Begin(r, u, "accept", Nothing)
  /\ UNCHANGED <<rows, sessions, right, listed, history>>

(* Its commit stores the password and spends the invite, and revokes no    *)
(* session; the route then opens one.                                      *)
AcceptInvite(r) ==
  LET u == who[r] IN
  /\ pc[r] = "accept"
  /\ row[u] = "live"
  /\ hash[u] < MaxPasswords
  /\ hash' = [hash EXCEPT ![u] = @ + 1]
  /\ invite' = [invite EXCEPT ![u] = "accepted"]
  /\ seen' = [seen EXCEPT ![r].hash = hash[u] + 1]
  /\ pc' = [pc EXCEPT ![r] = "open"]
  /\ replaced' = IF hash[u] = 0 THEN replaced ELSE replaced \cup {u}
  /\ UNCHANGED <<row, failed, lock, sessions, who, right, listed, wrong, raced>>

---------------------------------------------------------------------------
(* Time.                                                                   *)

LockoutElapses(u) ==
  /\ lock[u] = "on"
  /\ lock' = [lock EXCEPT ![u] = "over"]
  /\ UNCHANGED <<row, hash, failed, invite, sessions, local, history>>

InviteExpires(u) ==
  /\ invite[u] = "open"
  /\ invite' = [invite EXCEPT ![u] = "expired"]
  /\ UNCHANGED <<row, hash, failed, lock, sessions, local, history>>

SessionExpires(t) ==
  /\ session[t] = "live"
  /\ session' = [session EXCEPT ![t] = "expired"]
  /\ UNCHANGED <<rows, owner, opened, late, local, history>>

Next ==
  \/ \E u \in Users : CreateUser(u) \/ Erase(u) \/ LockoutElapses(u) \/ InviteExpires(u)
  \/ \E r \in Requests, u \in Users :
       \/ \E isRight \in BOOLEAN : StartLogin(r, u, isRight)
       \/ StartReset(r, u)
       \/ StartRevoke(r, u)
       \/ StartAccept(r, u)
  \/ \E r \in Requests :
       \/ RecordFailedLogin(r)
       \/ Authenticated(r)
       \/ CreateSession(r)
       \/ ListSessions(r)
       \/ SetPassword(r)
       \/ RevokeSessions(r)
       \/ AcceptInvite(r)
       \/ Vanished(r)
  \/ \E t \in Tokens : Logout(t) \/ ResolveExpired(t) \/ SessionExpires(t)

Spec == Init /\ [][Next]_vars

---------------------------------------------------------------------------
(* Properties.                                                             *)

TypeOK ==
  /\ row \in [Users -> {"none", "live", "gone"}]
  /\ hash \in [Users -> 0..MaxPasswords]
  /\ failed \in [Users -> 0..(MaxFailed - 1)]
  /\ lock \in [Users -> {"none", "on", "over"}]
  /\ invite \in [Users -> {"none", "open", "expired", "accepted"}]
  /\ session \in [Tokens -> {"unused", "live", "expired", "gone"}]
  /\ owner \in [Tokens -> Users]
  /\ opened \in [Tokens -> 0..MaxPasswords]
  /\ late \subseteq Tokens
  /\ pc \in [Requests -> {"idle", "verify", "open", "hash", "revoking", "ending", "accept"}]
  /\ who \in [Requests -> Users]
  /\ seen \in [Requests -> Copy]
  /\ right \in [Requests -> BOOLEAN]
  /\ listed \in [Requests -> SUBSET Tokens]
  /\ replaced \subseteq Users
  /\ wrong \in [Users -> 0..MaxGuesses]
  /\ raced \subseteq Users

(* Every session belongs to an account that exists and has a password,     *)
(* also when the account is erased, or its password is set, while requests *)
(* for it are half-way (create_session, erase_consultant; accept_invite's  *)
(* comment that no session can exist before the first password).           *)
SessionsAreBacked ==
  /\ TypeOK
  /\ \A t \in Tokens : session[t] \in {"live", "expired"} =>
       row[owner[t]] = "live" /\ hash[owner[t]] # 0

(* A password change ends what was opened with the old one: only a sign-in *)
(* that overlapped the change, or the acceptance of an invite of an        *)
(* account that has a password already, leaves such a session (set_password*)
(* and its docstring; accept_invite revokes nothing).                      *)
OldPasswordsAreOut ==
  \A t \in Tokens : SignedIn(t) /\ opened[t] # hash[owner[t]] =>
    t \in late \/ owner[t] \in replaced

(* The counter says how many wrong passwords came in a row since the last  *)
(* success, reset or lockout, and an account is locked out when they       *)
(* filled it and not before - unless two requests wrote the counters from  *)
(* the same copy, which _record_failed_login accepts; the next success or  *)
(* reset mends that.                                                       *)
LockoutCounts ==
  \A u \in Users \ raced :
    /\ failed[u] = wrong[u] % MaxFailed
    /\ lock[u] = "on" => wrong[u] # 0 /\ failed[u] = 0
=============================================================================
