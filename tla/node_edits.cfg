CONSTANTS
  Client = {c1, c2}
  Bullet = {b1}
  Quote = {q1}
  Title = {t0, t1}
  Untitled = t0
  Length = 3
  Blank = {2}
  Selections <- QuoteSelections
  Ops = {"SetTitle", "PersistAnchor", "Trim", "Splice", "SetQuoteText"}
  MaxRequests = 3
  MaxRestores = 1
  c1 = c1
  c2 = c2
  b1 = b1
  q1 = q1
  t0 = t0
  t1 = t1
SYMMETRY ClientSymmetry
SPECIFICATION Spec
CHECK_DEADLOCK FALSE
INVARIANTS QuoteAgrees QuoteInSource
PROPERTIES NoBlindOverwrite
