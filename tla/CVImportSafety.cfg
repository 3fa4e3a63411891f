SPECIFICATION Spec
CONSTANTS
  s1 = s1
  s2 = s2
  w1 = w1
  w2 = w2
  f1 = f1
  f2 = f2
  f3 = f3
  h1 = h1
  h2 = h2
  None = None
  Edit = Edit
  Sessions <- TwoSessions
  Workers <- TwoWorkers
  Files <- ThreeFiles
  Hashes <- OneHash
  Allowed <- AllTroubles
  MaxAttempts = 2
  MaxEdits = 1
  MaxTroubles = 2
SYMMETRY Symmetry
INVARIANTS
  MergedOnce
  FailedIsNotMergedUndisturbed
  RecordsAgree
PROPERTIES
  NothingLost
  StuckIsReconciled
