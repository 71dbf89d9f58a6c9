CONSTANTS
  MaxNode = 4
  InitialRoots = 2
  MaxRequests = 3
  Sessions = {s1, s2}
  Ops = {"AddRoot", "AddChild", "AddSibling", "Indent", "Unindent", "Move", "Attach", "AttachNew", "Rescue", "Delete", "ExitCreate", "ExitDelete"}
  Positions <- MovePositions
  s1 = s1
  s2 = s2
SYMMETRY SessionSymmetry
SPECIFICATION Spec
CHECK_DEADLOCK FALSE
INVARIANTS TreeSound
PROPERTIES SiblingOrderKept ExitsKept
