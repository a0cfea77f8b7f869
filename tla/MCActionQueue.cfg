SPECIFICATION FairSpec
CONSTANTS
  Workers = {w1, w2}
  Threads = {game, stray}
  NoThread = NoThread
  NoAction = NoAction
  Capacity = 2
  MaxActions = 2
  MaxIssue = 3
INVARIANTS
  ExecutionOrder
  OneGameThread
  Backlog
  PluginOrder
PROPERTIES
  AcceptedExecutes
  ImplementsChannel
