CONSTANTS
    Capacity = 3
    Modulus = 4
    Supply = 3
    SizeMax = 2
    ItemSizes = {0, 1}
SPECIFICATION MCSpec
INVARIANTS DeliveredInOrder SlotOnlyWhileParked
           MixInOrder DrainIsPatient JoinKeepsItems
PROPERTIES DataFlows MixCallEnds NoPullAfterClose JoinEnds
CHECK_DEADLOCK FALSE
