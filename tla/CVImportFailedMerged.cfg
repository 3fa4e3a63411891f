SPECIFICATION Spec
CONSTANTS
  s1 = s1
  s2 = s2
  w1 = w1
  w2 = w2
  f1 = f1
  f2 = f2
  f3 = f3
  h1 = h1
  h2 = h2
  None = None
  Edit = Edit
  Sessions <- OneSession
  Workers <- OneWorker
  Files <- TwoFiles
  Hashes <- OneHash
  Allowed <- CrashOnly
  MaxAttempts = 1
  MaxEdits = 0
  MaxTroubles = 1
INVARIANTS
  FailedIsNotMerged
