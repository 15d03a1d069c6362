CONSTANTS
    Capacity = 3
    MaxItems = 4
    None = None
    Demands <- SmallDemands
SPECIFICATION FairSpec
INVARIANTS IInv SegmentsDisjoint DemandFree NoLostWakeup NoMutualPark
PROPERTIES FifoSpec ParkedIsServed
CHECK_DEADLOCK FALSE
