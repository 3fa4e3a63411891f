SPECIFICATION Spec
CONSTANTS
  s1 = s1
  s2 = s2
  w1 = w1
  w2 = w2
  i1 = i1
  i2 = i2
  None = None
  Sessions <- TwoSessions
  Workers <- TwoWorkers
  Inputs <- TwoInputs
  MaxAttempts = 2
  MaxEdited = 3
  MaxOverlaps = 1
  MaxCrashes = 1
  MaxFaults = 1
  MaxTroubles = 2
SYMMETRY Symmetry
INVARIANTS
  OneGenerationInFlight
  ApprovedInputsOnly
PROPERTIES
  LandsOnce
  EditsSurviveUnlessBoth
