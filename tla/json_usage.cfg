SPECIFICATION Spec
CONSTANTS
  MaxKey = 2
  MaxModel = 4
  MaxUsage = 6
  UsageValues = {"object", "word"}
  EscapeAtCap = FALSE
  MaxUnits = 20
  MaxNesting = 4
INVARIANTS
  ExtractsTheUsage
  NamesTheModel
