CONSTANTS
  u1 = u1
  u2 = u2
  Upload = {u1, u2}
  Pieces <- MCOnePiece
  FileName <- MCFileName
  Model = {m1, m2}
  m1 = m1
  m2 = m2
  None = None
  Embedded = {u1}
  Batch = 1
  MaxStarts = 3
  MaxFailures = 1
SPECIFICATION FairSpec
CHECK_DEADLOCK FALSE
INVARIANTS Findable UnsavedKnown OneModel
PROPERTIES BacklogDrains
