CONSTANTS
  Builds = {{"check", "timings"}, {"timings"}, {"check", "dir"}, {"timings", "inv"}}
  Patterns = {{}, {"TA", "TB", "TC"}, {"TC"}}
  Types = {0, 1, 14}
  MaxGroups = 3
  MaxHistorical = 1
  None = None
SPECIFICATION Spec
CHECK_DEADLOCK FALSE
INVARIANTS AtrComplete ParametersOffered GivesUpLate
