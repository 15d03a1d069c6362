SPECIFICATION FairSpec
CONSTANTS
    Capacity = 3
    MaxItems = 3
    Crews <- TwoHalves
    Demands <- SmallDemands
INVARIANTS NoDanglingWaiter
PROPERTIES FifoSpec ParkedIsServed
CHECK_DEADLOCK FALSE
