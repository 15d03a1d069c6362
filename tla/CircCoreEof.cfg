CONSTANTS
    Capacity = 2
    MaxItems = 2
    None = None
    Demands <- SmallDemands
SPECIFICATION FairSpec
PROPERTIES
    EofWakesReader
CHECK_DEADLOCK FALSE
