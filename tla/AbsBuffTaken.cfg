CONSTANTS
    MaxVal = 12
    Cap = 3
    MaxOpen = 4
    Wants <- MCWants
SPECIFICATION MCSpec
CHECK_DEADLOCK FALSE
PROPERTY TakenIsConsumed
