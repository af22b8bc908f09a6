SPECIFICATION FairSpec
CONSTANTS
  MaxJobs = 3
  Notify <- FirstTwo
  MaxWorkers = 3
  MaxAborts = 1
INVARIANT QueueLinked
PROPERTIES ImplementsService EveryJobEnds
