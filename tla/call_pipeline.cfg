SPECIFICATION Spec
CONSTANTS
  Requests <- MCRequests
  Chunk <- MCChunk
  Capture <- UsageCapture
  NewCapture <- EmptyCapture
  Absorb <- AbsorbChunk
  Outgrows <- EventOutgrows
  BodyCap = 1
  ObsCap = 2
  MaxFrames = 4
  MaxEvent = 3
  MaxUsageObj = 3
  MaxRaw = 1
INVARIANTS
  TypeOK
  AnomalyIsTrue
  RowTellsEnding
  ForwardsFaithfully
  CutsAreInvisible
PROPERTY ImplementsLedger
