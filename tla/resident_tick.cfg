SPECIFICATION FairTickSpec
CONSTANTS
    MaxClaims = 2
    MaxFinalize = 1
    MaxBacklog = 1
CHECK_DEADLOCK FALSE
PROPERTIES
    CoveringNotStarved
