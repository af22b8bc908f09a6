SPECIFICATION Spec
CONSTANTS
  MaxChan = 4
  Requests <- UploadRequests
  Files = {1, 2}
  FileLen = 6
  SpanMod = 64
  MaxLosses = 2
INVARIANTS TimebaseMatches
