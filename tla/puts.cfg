SPECIFICATION TimedSpec
CONSTANTS
  MaxChan = 4
  Requests <- RegularRequests
  Files = {1, 2, 3}
  FileLen = 6
  SpanMod = 64
  MaxLosses = 1
INVARIANTS TypeOK PutsFollowPlan OkMeansAll SamplesOnce TimeCovered NoWildJump OnlyAskedTimeouts
PROPERTIES EveryPutEnds
