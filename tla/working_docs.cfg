CONSTANTS
  Bullet = {b1}
  NoFile = NoFile
  Page = {p1}
  MaxEdits = 3
  MaxStarts = 2
  MaxFailures = 1
  b1 = b1
  p1 = p1
SPECIFICATION FairSpec
CHECK_DEADLOCK FALSE
PROPERTIES OrderlyRestartKeeps FilesCatchUp WindowsFollow
