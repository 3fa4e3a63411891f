SPECIFICATION BoardSpec
CONSTANTS
  t = t
  n = n
  m = m
  x = x
  g = g
  u = u
  j1 = j1
  r1 = r1
  s1 = s1
  s2 = s2
  a1 = a1
  a2 = a2
  c1 = c1
  None = None
  Sessions <- MCSessions
  Jobs <- MCJobs
  Consultants <- MCConsultants
  Apps <- MCApps
  Accounts <- MCPeople
  Ta = t
  AdminConsultant = n
  Consultant = m
  Sites <- MCSites
  PilotSite = g
  Requests <- MCRequests
  RoleSets <- MCRoleSets
  MaxOptedOut = 1
  PostingSites <- MCPostingSites
  Contents <- MCContents
  AlikeTitles = {}
  MaxJobs = 3
  MaxEdits = 2
SYMMETRY Symmetry
CHECK_DEADLOCK FALSE
INVARIANTS
  TenancyHolds
  PickerIsHonoured
  ListAgreesWithDetail
  HashesHold
  NearDuplicatesRaced
  OneDecisionPerPair
  DerivedRowsFollow
PROPERTIES
  NoDecisionOnClosedJob
