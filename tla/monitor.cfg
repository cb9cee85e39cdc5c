SPECIFICATION FairSpec
CONSTANTS
  MaxCalls = 4
INVARIANTS
  OneTimer
  ProbingNotStuck
PROPERTIES
  ProbeTellsState
