SPECIFICATION MCSpec
CONSTANTS
    s1 = s1
    s2 = s2
    Session <- MCSession
    Dead = Dead
    NoFile = NoFile
    NotLoaded = NotLoaded
    NoBuild = NoBuild
    MaxStarts = 3
    MaxBuilds = 2
    MaxChunks = 1
    MinChunks = 1
    MaxFaults = 1
    LLM = TRUE
INVARIANT OneWriter
PROPERTY AtlasKept
PROPERTY DigestCache
PROPERTY ReadersCatchUp
CHECK_DEADLOCK FALSE
