SPECIFICATION FairSpec
CONSTANTS
  CommandLines <- MCCommandLines
  EnvKeys <- MCEnvKeys
  MachineIds <- MCMachineIds
  Pepper <- MCPepper
  DataDir <- MCDataDir
  Safe <- MCSafe
  KvKeys <- MCKvKeys
  Queues <- MCQueues
  Nothing = Nothing
  MaxItemAttempts = 1
  MaxRuns = 2
  MaxPuts = 2
CHECK_DEADLOCK FALSE
INVARIANTS
  SavedKeyLoads
  KeyInUse
  LastPutStays
  MockTurnSucceeds
PROPERTIES
  SessionKept
  EveryRunEnds
