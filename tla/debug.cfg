SPECIFICATION FairSpec
CONSTANTS
  c1 = c1
  c2 = c2
  c3 = c3
  d1 = d1
  d2 = d2
  Clients = {c1}
  Persistent = {c1, d1}
  DebugClients = {d1}
  MayDie = {c1, d1}
  UnreadDeath = FALSE
  BadHeaders = FALSE
  Commands <- DebugMix
  FdLimit = 10
  NFd = 12
  Backlog = 5
  MaxCmds = 2
INVARIANTS ReplyToRequester
PROPERTIES EveryoneAnswered
