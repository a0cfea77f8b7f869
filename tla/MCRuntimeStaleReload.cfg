SPECIFICATION FairSpec
CHECK_DEADLOCK FALSE
CONSTANTS
  NPlugins = 2
  MaxEdits = 2
  MaxReloads = 1
  MaxRequests = 0
  BadEdits = {1}
  EditDuringStart = FALSE
  itemHook = itemHook
  chatHook = chatHook
  Kinds <- MCKinds
  HooksOf <- MCHooksOf
PROPERTIES
  EditsTakeEffect
