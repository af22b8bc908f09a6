SPECIFICATION FairSpec
CONSTANTS
  Servers <- TwoLives
  Address <- Ports
  Host <- OwnHosts
  Fds <- Numbers
  MaxJobs = 2
  MaxClients = 3
INVARIANTS TypeOK PathDownExplained
PROPERTIES ImplementsJobService EveryJobEnds
