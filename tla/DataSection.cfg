CONSTANTS
  DirRef = 5
  Alphabet = {1, 48, 95, 97, 129}
  RawLength = 5
  AidBytes = {1, 2}
  MaxAid = 2
  MaxApps = 2
SPECIFICATION Spec
INVARIANTS FileInCard SearchEnds
PROPERTIES ApplicationFound
