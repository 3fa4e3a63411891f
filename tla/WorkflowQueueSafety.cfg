SPECIFICATION Spec
CONSTANTS
  p1 = p1
  p2 = p2
  k1 = k1
  k2 = k2
  k3 = k3
  None = None
  Procs <- TwoProcs
  Keys <- TwoKeys
  Kind <- TwoKinds
  MaxCreated = 2
  MaxCrashes = 1
  MaxLosses = 2
  MaxFaults = 1
  MaxEscapes = 1
  MaxStops = 1
SYMMETRY ProcSymmetry
INVARIANTS
  TypeOK
  ExactlyOnceEffect
  SucceededIsComplete
  NoConcurrentInvocation
  NoStrandedRun
PROPERTIES
  ImplementsLedger
