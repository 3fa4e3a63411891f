SPECIFICATION FairSpec
CONSTANTS
  p1 = p1
  p2 = p2
  k1 = k1
  k2 = k2
  k3 = k3
  None = None
  Procs <- TwoProcs
  Keys <- OneKey
  Kind <- OneKind
  MaxCreated = 1
  MaxCrashes = 1
  MaxLosses = 1
  MaxFaults = 0
  MaxEscapes = 0
  MaxStops = 0
PROPERTIES
  EventuallyTerminal
