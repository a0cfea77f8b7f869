SPECIFICATION FairSpec
\* After stop() has joined the worker nothing more happens.
CHECK_DEADLOCK FALSE
CONSTANTS
  c1 = c1  c2 = c2  c3 = c3  e1 = e1  e2 = e2
  say = say  chat = chat  join = join
  Commands <- MCCommands
  Events <- MCEvents
  Names = {say}
  Kinds = {chat, join}
  NameOf <- MCNameOf
  KindOf <- MCKindOf
  None = None
  QueueLimit = 2
INVARIANTS
  NothingLost
  JoinedClean
  HandlersReady
PROPERTIES
  WaitIdleSound
  CallersReturn
  AcceptedRuns
