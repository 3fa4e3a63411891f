SPECIFICATION Spec
CONSTANTS
  s1 = s1
  s2 = s2
  w1 = w1
  w2 = w2
  i1 = i1
  i2 = i2
  None = None
  Sessions <- OneSession
  Workers <- TwoWorkers
  Inputs <- OneInput
  MaxAttempts = 1
  MaxEdited = 2
  MaxOverlaps = 1
  MaxCrashes = 0
  MaxFaults = 1
  MaxTroubles = 2
PROPERTIES
  EditsSurvive
