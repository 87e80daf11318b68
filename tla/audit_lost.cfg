SPECIFICATION Spec
CONSTANTS
  Requests <- Chats
  Bills <- MCBills
  MaxDeltas = 3
  MaxRaw = 3
INVARIANT AuditKeepsUsage
