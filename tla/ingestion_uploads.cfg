CONSTANTS
  u1 = u1
  u2 = u2
  Upload = {u1, u2}
  Pieces <- MCPieces
  FileName <- MCFileName
  Model = {m1}
  m1 = m1
  None = None
  Embedded = {}
  Batch = 2
  MaxStarts = 2
  MaxFailures = 0
SPECIFICATION Spec
CHECK_DEADLOCK FALSE
INVARIANTS UploadsWhole
PROPERTIES ImplementsSearchable
