SPECIFICATION FairSpec
CONSTANTS
    Capacity = 2
    MaxItems = 2
    Crews <- TwoHalves
    Demands <- AnyAmount
PROPERTY TxCloseEndsRead
CHECK_DEADLOCK FALSE
