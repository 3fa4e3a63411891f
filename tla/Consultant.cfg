SPECIFICATION ConsultantSpec
CONSTANTS
  r1 = r1
  r2 = r2
  t1 = t1
  t2 = t2
  u1 = u1
  c1 = c1
  c2 = c2
  c3 = c3
  p1 = p1
  p2 = p2
  e1 = e1
  e2 = e2
  a = a
  b = b
  d = d
  e = e
  Blank = Blank
  None = None
  Tasks <- MCTasks
  Processes <- MCProcesses
  Home <- MCHome
  States <- MCStates
  Empty = e1
  MaxRevision = 2
  Users <- MCUsers
  Requests <- MCRequests
  Tokens <- MCTokens
  MaxFailed = 2
  MaxPasswords = 2
  MaxGuesses = 3
  Workers <- MCTokens
  MaxRuns = 3
  MaxClock = 3
  MaxCrashes = 1
  MaxOverlaps = 1
  MaxTroubles = 1
  Patterns <- MCPatterns
  Inside <- MCInside
  Postings <- MCPostings
  Evidence <- MCEvidence
  Configs <- MCConfigs
SYMMETRY Symmetry
CHECK_DEADLOCK FALSE
INVARIANTS
  ComparedIsStored
  SessionsAreBacked
  OldPasswordsAreOut
  LockoutCounts
  NewestConfigStands
  FilesFollowTheAccount
  AdviceIsSound
PROPERTIES
  ImplementsStore
