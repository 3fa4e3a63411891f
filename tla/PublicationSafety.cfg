SPECIFICATION Spec
CONSTANTS
  s1 = s1
  s2 = s2
  p1 = p1
  p2 = p2
  jpg = jpg
  png = png
  l1 = l1
  l2 = l2
  a1 = a1
  a2 = a2
  None = None
  Sessions <- TwoSessions
  Pubs <- TwoPubs
  Exts <- TwoExts
  Looks <- OneLook
  Agents <- TwoAgents
  MaxPublishes = 2
  MaxOpens = 2
  MaxUpsets = 1
  MaxEvents = 2
SYMMETRY Symmetry
INVARIANTS
  EndedIsNotServed
  LinkIsLatest
  ServedPhotoIsFrozen
  NothingIsLeftBehind
  OpensAreRecorded
PROPERTIES
  RevokedIsFinal
