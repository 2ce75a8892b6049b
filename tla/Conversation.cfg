SPECIFICATION Spec
CONSTANTS
  None = None
  Gateway <- MCGateway
  ChatsOf <- MCChatsOf
  TextOf <- MCTextOf
  Report <- MCReport
  Traits <- MCTraits
  Command <- MCCommand
  Recent = 3
  Window = 3
  Lookback = 3
  MaxMessages = 4
  MaxTasks = 2
  MaxCuts = 1
CHECK_DEADLOCK FALSE
INVARIANTS
  
  TasksAreLinked
  OwnTaskIsMeant
