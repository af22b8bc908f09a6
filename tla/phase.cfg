SPECIFICATION FairSpec
CONSTANTS
  d1 = d1
  d2 = d2
  Actions <- ThreeActions
  Shots <- SomeShots
  Sync = 1
  Essential = {2}
  DoneThreads = {d1, d2}
  MaxSends = 2
INVARIANTS TypeOK GroupsInOrder DependenciesHold DispatchedOnce ReturnsComplete CannotHappenTrue
PROPERTIES Settles
