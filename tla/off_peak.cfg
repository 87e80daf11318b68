SPECIFICATION Schedule
CONSTANTS
  Week = 4
  Minutes = 3
  Hour = 2
  Furthest = 6
  Thursday = 3
  Froms = {0, 1, 2}
  Tos = {1, 2, 3}
  Schedules <- MCSchedules
  Offsets <- MCOffsets
  Multipliers <- MCMultipliers
INVARIANT BilledAsDeclared
PROPERTY RewritingSettles
