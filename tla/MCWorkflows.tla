---------------------------- MODULE MCWorkflows ----------------------------
(* Accepted work ends: the fair instances of TailoredCV and CVImport side   *)
(* by side.  The two share no variable, so that one of them is exercised in *)
(* a behaviour, chosen at its start, and the other stands still.            *)
(*                                                                         *)
(* TailoredCV: one request, two workers, two attempts, an overlap, a crash. *)
(* CVImport: one request, two workers, one attempt, a crash, an overlap.    *)
EXTENDS Naturals

CONSTANTS s1, w1, w2, i1, f1, f2, h1, Edit, None

VARIABLES
  part,
  \* TailoredCV
  terminal, exists, cvStatus, cvAttempt, cvHash, revision, content,
  cvRun, runHash, appLock, cvLock, op, cvPc, seenTerminal,
  seenRevision, seenContent, created, misled, cvPhase, cvRunOf, snapshot,
  editedSince, landed, overlaps, crashes, faults,
  \* CVImport
  importStatus, attempt, inputHash, sourceRef, importRun, files, profile,
  marker, rowLock, pc, upload, hash, stuckRef, profileLock, importPhase,
  runOf, source, base, outcome, seen, strays, edits, trouble

Tailored == INSTANCE TailoredCV
  WITH Sessions <- {s1}, Workers <- {w1, w2}, Inputs <- {i1},
       MaxAttempts <- 2, MaxEdited <- 1, MaxOverlaps <- 1, MaxCrashes <- 1,
       MaxFaults <- 0, MaxTroubles <- 3,
       status <- cvStatus, attempt <- cvAttempt, inputHash <- cvHash,
       runStatus <- cvRun, pc <- cvPc, phase <- cvPhase, runOf <- cvRunOf

Import == INSTANCE CVImport
  WITH Sessions <- {s1}, Workers <- {w1, w2}, Files <- {f1, f2},
       Hashes <- {h1}, MaxAttempts <- 1, MaxEdits <- 0,
       Allowed <- {"crash", "overlap"}, MaxTroubles <- 2,
       status <- importStatus, runStatus <- importRun, phase <- importPhase

tailoredVars ==
  <<terminal, exists, cvStatus, cvAttempt, cvHash, revision, content,
    cvRun, runHash, appLock, cvLock, op, cvPc, seenTerminal,
    seenRevision, seenContent, created, misled, cvPhase, cvRunOf, snapshot,
    editedSince, landed, overlaps, crashes, faults>>
importVars ==
  <<importStatus, attempt, inputHash, sourceRef, importRun, files, profile,
    marker, rowLock, pc, upload, hash, stuckRef, profileLock, importPhase,
    runOf, source, base, outcome, seen, strays, edits, trouble>>
vars == <<part, tailoredVars, importVars>>

Init ==
  /\ Tailored!Init /\ Import!Init
  /\ \/ part = "import"
     \/ part = "tailored" /\ profile = <<>>

InTailored(A) == part = "tailored" /\ A /\ UNCHANGED <<part, importVars>>
InImport(A) == part = "import" /\ A /\ UNCHANGED <<part, tailoredVars>>

Next == InTailored(Tailored!Next) \/ InImport(Import!Next)

(* The fairness of each module's FairSpec.                                 *)
FairSpec ==
  /\ Init /\ [][Next]_vars
  /\ WF_tailoredVars(InTailored(Tailored!RequestStep(s1)))
  /\ \A w \in {w1, w2} : SF_tailoredVars(InTailored(Tailored!WorkerStep(w)))
  /\ \A n \in 0..1 : WF_tailoredVars(InTailored(Tailored!Recover(n)))
  /\ SF_importVars(InImport(Import!RequestStep(s1)))
  /\ \A w \in {w1, w2} : SF_importVars(InImport(Import!WorkerStep(w)))
  /\ WF_importVars(InImport(Import!Recover(0)))

(* Every generation that was accepted ends: in a ready or failed TailoredCV, *)
(* or in none, although an invocation may crash or overlap another.        *)
GenerationEnds == Tailored!GenerationEnds

(* Every import that was accepted ends, whatever process crashed with the  *)
(* profile lock or the row lock in its hands.                              *)
ImportEnds == Import!ImportEnds
=============================================================================
