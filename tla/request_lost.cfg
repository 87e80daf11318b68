SPECIFICATION FairSpec
CONSTANTS
  Requests <- MCRequests
  Chunk <- MCChunk
  Capture <- UsageCapture
  NewCapture <- EmptyCapture
  Absorb <- AbsorbChunk
  Outgrows <- EventOutgrows
  BodyCap = 1
  ObsCap = 1
  MaxFrames = 2
  MaxEvent = 3
  MaxUsageObj = 3
  MaxRaw = 1
PROPERTY EveryRequestSentIsRecorded
