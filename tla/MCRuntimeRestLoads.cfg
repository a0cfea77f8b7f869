SPECIFICATION FairSpec
CHECK_DEADLOCK FALSE
CONSTANTS
  NPlugins = 2
  MaxEdits = 1
  MaxReloads = 0
  MaxRequests = 0
  BadEdits = {1}
  EditDuringStart = TRUE
  itemHook = itemHook
  chatHook = chatHook
  Kinds <- MCKinds
  HooksOf <- MCHooksOf
PROPERTIES
  RestStillLoads
