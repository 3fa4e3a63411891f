SPECIFICATION FairSpec
CONSTANTS
  p1 = p1
  p2 = p2
  k1 = k1
  k2 = k2
  k3 = k3
  None = None
  Procs <- TwoProcs
  Keys <- ThreeKeys
  Kind <- ThreeKinds
  MaxCreated = 2
  MaxCrashes = 1
  MaxLosses = 0
  MaxFaults = 1
  MaxEscapes = 0
  MaxStops = 1
PROPERTIES
  EventuallyTerminal
