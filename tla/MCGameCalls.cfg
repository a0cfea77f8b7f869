SPECIFICATION GameSpec
CHECK_DEADLOCK FALSE
SYMMETRY Symmetry
CONSTANTS
  K = 4
  T1 = 4
  T2 = 16
  T3 = 32
  Half = 2
  Surrogate = 20
  Replacement = 31
  Base = 4
  MaxDepth = 3
  MaxItems = 2
  MaxChars = 2
  MaxFields = 6
  Pool <- MCPool
  a2 = a2
  a3 = a3
  Addr <- MCAddr
  DefaultClass = "Boss"
  MaxFound = 2
  MaxSuperDepth = 2
  Super <- MCSuper
  Names = {"x"}
  Functions <- MCFunctions
  PluginCalls <- MCPluginCalls
  GameArgs <- MCGameArgs
  MaxObjects = 3
  MaxWalks = 1
  MaxCalls = 1
INVARIANTS
  FindExact
  CalleeSees
  HookSeesLowBytes
