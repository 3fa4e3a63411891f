SPECIFICATION Spec
CONSTANTS
  s1 = s1
  s2 = s2
  p1 = p1
  p2 = p2
  jpg = jpg
  png = png
  l1 = l1
  l2 = l2
  a1 = a1
  a2 = a2
  None = None
  Sessions <- TwoSessions
  Pubs <- OnePub
  Exts <- OneExt
  Looks <- OneLook
  Agents <- OneAgent
  MaxPublishes = 1
  MaxOpens = 0
  MaxUpsets = 0
  MaxEvents = 0
INVARIANTS
  ErasureIsComplete
