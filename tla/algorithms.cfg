CONSTANTS
  Unasked = Unasked
  MaxEdges = 3
  MaxText = 6
  Chunk = {1, 2, 3, 4, 5, 6}
  MaxRegionSize = 2
  MinRegionSize = 2
  MaxRegions = 4
  Name = {book, default}
  Default = default
  Nothing = Nothing
  MaxFaults = 1
SPECIFICATION AlgorithmsSpec
CHECK_DEADLOCK FALSE
INVARIANTS ReadingSound GhostsAnchored QuotesLocated CandidatesSound Partition AtlasDrawn HomeSound
