SPECIFICATION Spec
CONSTANTS
    Capacity = 3
    MaxItems = 3
    Crews <- ThreeActors
    Demands <- AnyAmount
INVARIANTS NoOverlap FlightMatches
CHECK_DEADLOCK FALSE
