CONSTANTS
  Size = 3
  Lengths = {2, 3}
  PageShort = 4
  PageLong = 2
  MaxTransmit = 4
  Bytes = {0, 1}
  Blank = 1
  Halves = {0, 1}
  MaxTrials = 2
  MaxData = 2
  Paths = {1}
  FileLength = 1
SPECIFICATION Spec
INVARIANTS UpdateInside TrialsJustified
PROPERTIES UpdateStored UpdateCarriedOut ProbePreserves UpdateProgresses
