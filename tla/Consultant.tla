----------------------------- MODULE Consultant -----------------------------
(* What is kept for one Consultant: the account that signs him in           *)
(* (Accounts), his base CV (BaseState), his matching configuration and his  *)
(* directory (MatchingConfig), his advisory score (Scoring).  The four      *)
(* share no variable that two of them change, so that a behaviour           *)
(* exercises one of them, chosen at its start, and the others stand still.  *)
EXTENDS BaseState

CONSTANTS
  \* Accounts
  Users, Requests, Tokens, MaxFailed, MaxPasswords, MaxGuesses,
  \* MatchingConfig, for the same requests
  Workers, MaxRuns, MaxClock, MaxCrashes, MaxOverlaps, MaxTroubles,
  \* Scoring
  Patterns, Inside, Postings, Evidence, Configs, Blank

VARIABLES
  part,
  \* Accounts
  row, hash, failed, lock, invite, session, owner, pc, who, read, right,
  listed, opened, late, replaced, wrong, raced,
  \* MatchingConfig
  status, stamp, clock, asked, on, phase, primary, backup, dir,
  account, eraser, writer, crashes, overlaps, saves, wiped,
  \* Scoring
  looking, profile, evidence, config, posting

SignIn == INSTANCE Accounts WITH seen <- read

Matching == INSTANCE MatchingConfig WITH at <- phase

Advice == INSTANCE Scoring

ASSUME ConsultantAssumption ==
  SignIn!AccountsAssumption /\ Matching!MatchingConfigAssumption /\ Advice!ScoringAssumption

signInVars == <<row, hash, failed, lock, invite, session, owner, pc, who, read,
                right, listed, opened, late, replaced, wrong, raced>>
matchingVars == <<status, stamp, clock, asked, on, phase, primary, backup, dir,
                  account, eraser, writer, crashes, overlaps, saves, wiped>>
adviceVars == <<looking, profile, evidence, config, posting>>
consultantVars == <<part, vars, signInVars, matchingVars, adviceVars>>

(* A part that stands still needs no state (BaseState keeps its initial     *)
(* one, which its own invariant looks at).                                 *)
Off == 0

SignInInit ==
  \/ part = "sign_in" /\ SignIn!Init
  \/ /\ part # "sign_in"
     /\ row = Off /\ hash = Off /\ failed = Off /\ lock = Off
     /\ invite = Off /\ session = Off /\ owner = Off /\ pc = Off
     /\ who = Off /\ read = Off /\ right = Off /\ listed = Off
     /\ opened = Off /\ late = Off /\ replaced = Off /\ wrong = Off
     /\ raced = Off

MatchingInit ==
  \/ part = "matching" /\ Matching!Init
  \/ /\ part # "matching"
     /\ status = Off /\ stamp = Off /\ clock = Off /\ asked = Off
     /\ on = Off /\ phase = Off /\ primary = Off /\ backup = Off
     /\ dir = Off /\ account = Off /\ eraser = Off
     /\ writer = Off /\ crashes = Off /\ overlaps = Off /\ saves = Off
     /\ wiped = Off

AdviceInit ==
  \/ part = "advice" /\ Advice!Init
  \/ /\ part # "advice"
     /\ looking = Off /\ profile = Off /\ evidence = Off /\ config = Off
     /\ posting = Off

ConsultantInit ==
  /\ part \in {"sign_in", "base", "matching", "advice"}
  /\ Init /\ SignInInit /\ MatchingInit /\ AdviceInit

InBase ==
  /\ part = "base" /\ Next
  /\ UNCHANGED <<part, signInVars, matchingVars, adviceVars>>

InSignIn ==
  /\ part = "sign_in" /\ SignIn!Next
  /\ UNCHANGED <<part, vars, matchingVars, adviceVars>>

InMatching ==
  /\ part = "matching" /\ Matching!Next
  /\ UNCHANGED <<part, vars, signInVars, adviceVars>>

InAdvice ==
  /\ part = "advice" /\ Advice!Next
  /\ UNCHANGED <<part, vars, signInVars, matchingVars>>

ConsultantNext == InBase \/ InSignIn \/ InMatching \/ InAdvice

ConsultantSpec == ConsultantInit /\ [][ConsultantNext]_consultantVars

---------------------------------------------------------------------------
(* The properties of the instances, looked at where they can change.       *)

(* A session belongs to an account that exists and has a password, however *)
(* login, invite and erasure overlap (create_session, erase_consultant).   *)
SessionsAreBacked == part = "sign_in" => SignIn!SessionsAreBacked

(* After a password change no session of an earlier password is left, but  *)
(* for sign-ins that overlapped it and invites accepted over a password    *)
(* (set_password, accept_invite).                                          *)
OldPasswordsAreOut == part = "sign_in" => SignIn!OldPasswordsAreOut

(* The lockout counter counts the wrong passwords since the last success,  *)
(* but for attempts that read it at the same time                          *)
(* (_record_failed_login).                                                 *)
LockoutCounts == part = "sign_in" => SignIn!LockoutCounts

(* The configuration on disk is the newest that was written, each run      *)
(* writes once, and a run that succeeded had written or was superseded     *)
(* (handle_config).                                                        *)
NewestConfigStands == part = "matching" => Matching!NewestConfigStands

(* A saved configuration can be loaded until an erasure removes it, and    *)
(* the directory goes with the account, but for an error of rmtree or a    *)
(* writer past its access check (erase_consultant, handle_config).         *)
FilesFollowTheAccount == part = "matching" => Matching!FilesFollowTheAccount

(* Evidence moves an advisory score only in the direction of its weight,   *)
(* exclusions and risks never raise it, and there is one exactly when it   *)
(* can be had (score_job, score_job_for_consultant).                       *)
AdviceIsSound == part = "advice" => Advice!AdviceIsSound
=============================================================================
