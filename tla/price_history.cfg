SPECIFICATION Spec
CONSTANTS
  claude = claude
  qwen = qwen
  Models <- MCModels
  Claude = {claude}
  Spellings = {0, 1}
  Price = {0, 1, 2}
  TierLists = {"tiered"}
  Providers = {1, 2}
  Anthropic = 1
  InitialFiles <- MCInitialFiles
  Upstreams <- MCUpstreams
  HandRates <- MCHandRates
  Ahead = 0
  MaxTime = 1
  MaxChanges = 3
INVARIANTS
  TypeOK
  PullBringsUpToDate
PROPERTIES
  HistoryIsKept
  HandWorkIsKept
  PullingAgainAddsNothing
  LostDiscountIsNamed
