SPECIFICATION Spec
CONSTANTS
  Pulls = {p1, p2, p3}
  Edits = {e1, e2}
  Origin = origin
  None = none
  Overlap = FALSE
SYMMETRY Alike
INVARIANT TableIsWhole
PROPERTIES
  ImplementsStore
  PreviousIsKept
  TypoIsUntouched
