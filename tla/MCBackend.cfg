SPECIFICATION MCSpec
\* A server that was refused or runs, and hooks that were removed, stay so.
CHECK_DEADLOCK FALSE
CONSTANTS
  Functions = {broadcast, addItem, login}
  Broadcast = broadcast
  Tick = tick
  NoSlot = NoSlot
  Wanted = {broadcast, addItem, login}
  Capacity = 2
  MaxCalls = 3
  ServerBuilds = {1, 2, 3}
  HelperBuild = 4
  Elf <- MCElf
  Directories <- MCDirectories
  MaxPattern = 3
  RequireProfile = FALSE
  MaxUpdates = 2
  MaxProcs = 2
INVARIANTS
  OriginalRuns
  Observation
  Restored
  GateSound
  OffsetsBounded
PROPERTIES
  CallsReturn
  SupportedRuns
