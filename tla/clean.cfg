SPECIFICATION FairSpec
CONSTANTS
  c1 = c1
  c2 = c2
  c3 = c3
  d1 = d1
  d2 = d2
  Clients = {c1, c2}
  Persistent = {c2}
  DebugClients = {}
  MayDie = {c1, c2}
  UnreadDeath = FALSE
  BadHeaders = FALSE
  Commands <- AnsweringCommands
  FdLimit = 7
  NFd = 9
  Backlog = 5
  MaxCmds = 2
INVARIANTS ReplyToRequester DescriptorsAgree
PROPERTIES ImplementsProxy EveryoneAnswered
