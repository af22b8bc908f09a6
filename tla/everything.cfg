SPECIFICATION Spec
CONSTANTS
  c1 = c1
  c2 = c2
  c3 = c3
  d1 = d1
  d2 = d2
  Clients = {c1, c2}
  Persistent = {c1}
  DebugClients = {d1}
  MayDie = {c1, d1}
  UnreadDeath = TRUE
  BadHeaders = TRUE
  Commands <- EveryEffect
  FdLimit = 6
  NFd = 8
  Backlog = 5
  MaxCmds = 2
INVARIANTS TypeOK VerdictTruthful AnsweredOnce
CHECK_DEADLOCK FALSE
