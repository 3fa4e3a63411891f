SPECIFICATION FairSpec
CONSTANTS
  s1 = s1
  w1 = w1
  w2 = w2
  i1 = i1
  f1 = f1
  f2 = f2
  h1 = h1
  Edit = Edit
  None = None
PROPERTIES
  GenerationEnds
  ImportEnds
