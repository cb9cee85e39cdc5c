SPECIFICATION Spec
CONSTANTS
  Calls <- MCCalls
  Entries <- MCEntries
  Zone0 <- MCZone0
  CpuZones <- MCCpuZones
  MaxValue = 2
  Memory <- MCMemory
  Disks <- MCDisks
  Uptimes <- MCUptimes
  Unparsable = Unparsable
  Idle = Idle
INVARIANTS
  SchemaCallsAccepted
  OkIsDone
  SteadySeen
PROPERTIES
  GpioAsAsked
