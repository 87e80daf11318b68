SPECIFICATION Spec
CONSTANTS
  short = short
  long = long
  dated = dated
  unlisted = unlisted
  Models = {short, long}
  Claude = {}
  Spellings = {0}
  Price = {0, 1, 2}
  TierLists = {"steps"}
  Providers = {1}
  Anthropic = 0
  Called <- MCCalled
  Prefixes <- MCPrefixes
  Tiers <- MCTiers
  Discounted = {1}
  InitialFiles <- MCInitialFiles
  Upstreams <- MCUpstreams
  HandRates <- MCHandRates
  Ahead = 0
  MaxTime = 2
  MaxChanges = 1
  Metered <- MCMetered
  Budgets = {8}
  MaxCalls = 2
INVARIANT TypoHidesNoSpend
PROPERTIES
  PastCostsStay
  OverIsDecisive
