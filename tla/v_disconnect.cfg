SPECIFICATION Spec
CONSTANTS
  c1 = c1
  c2 = c2
  c3 = c3
  d1 = d1
  d2 = d2
  Clients = {c1, c2}
  Persistent = {c1}
  DebugClients = {d1}
  MayDie = {}
  UnreadDeath = FALSE
  BadHeaders = FALSE
  Commands <- DisconnectCommands
  FdLimit = 8
  NFd = 9
  Backlog = 5
  MaxCmds = 2
INVARIANTS ReplyToRequester
CHECK_DEADLOCK FALSE
