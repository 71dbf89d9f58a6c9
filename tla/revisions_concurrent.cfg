CONSTANTS
  Node = {n1, n2}
  Thread = {t1}
  Branch = {b1, b2, b3}
  Snapshot = {p1}
  None = None
  Sessions = {s1, s2}
  Ops = {"CreateSnapshot", "RestoreSnapshot", "CreateBranch", "SwitchBranch", "DeleteBranch", "ToggleNode", "AppendNode"}
  Edits = {"AddNode", "DeleteNode", "AddEdge", "DeleteEdge", "AddEvidence", "AddThread", "DeleteThread", "DeleteSnapshot"}
  MaxRequests = 3
  MaxEdits = 3
  n1 = n1
  n2 = n2
  t1 = t1
  b1 = b1
  b2 = b2
  b3 = b3
  p1 = p1
  s1 = s1
  s2 = s2
SYMMETRY IdSymmetry
SPECIFICATION Spec
CHECK_DEADLOCK FALSE
INVARIANTS LiveSound NeverOneBranch GatherRestorable
PROPERTIES InactiveKept
