CONSTANTS
  MaxNode = 2
  InitialRoots = 2
  MaxRequests = 2
  Sessions = {s1, s2}
  Ops = {"Move"}
  Positions <- MovePositions
  s1 = s1
  s2 = s2
SPECIFICATION Spec
CHECK_DEADLOCK FALSE
INVARIANT LinearAcyclic
