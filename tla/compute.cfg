SPECIFICATION FairSpec
CONSTANTS
    e1 = e1
    e2 = e2
    l1 = l1
    Embeds <- MCEmbeds
    Completes <- MCCompletes
    Free = Free
    MaxCalls = 4
    MaxExits = 2
    MaxLoads = 1
    MaxFastFailures = 2
INVARIANT OneBigJob
PROPERTY CallsReturn
PROPERTY ReadyFollows
CHECK_DEADLOCK FALSE
