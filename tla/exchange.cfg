SPECIFICATION Spec
CONSTANTS
  Requests <- MCRequests
  Bills <- MCBills
  MaxDeltas = 3
  MaxRaw = 3
INVARIANTS
  MetersTheBill
  ForwardedAsSent
  SentWhereAddressed
  ModelIsFound
  AuditIsComplete
  ToolIsWhoTheySay
