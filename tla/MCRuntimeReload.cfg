SPECIFICATION FairSpec
CHECK_DEADLOCK FALSE
CONSTANTS
  NPlugins = 2
  MaxEdits = 2
  MaxReloads = 1
  MaxRequests = 2
  BadEdits = {1}
  EditDuringStart = TRUE
  itemHook = itemHook
  chatHook = chatHook
  Kinds <- MCKinds
  HooksOf <- MCHooksOf
INVARIANTS
  Transactional
  CallsLiveSet
  DestroyedDrained
  OneOwner
PROPERTIES
  StopReturns
  WatcherApplies
