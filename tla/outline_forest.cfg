CONSTANTS
  MaxNode = 4
  InitialRoots = 3
  MaxRequests = 3
  Sessions = {s1}
  Ops = {"AddRoot", "AddChild", "AddChildAt", "AddSibling", "Indent", "Unindent", "Move", "Attach", "AttachNew", "Rescue", "Delete", "ExitCreate", "ExitDelete"}
  Positions = {0, 1}
  s1 = s1
SPECIFICATION FairSpec
CHECK_DEADLOCK FALSE
INVARIANTS LinearAcyclic BulletsShown
PROPERTIES ImplementsForest ExitsKeepAcyclic Answered
