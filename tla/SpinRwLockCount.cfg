SPECIFICATION Spec
CONSTANTS
    Handles = {h1, h2, h3}
    MaxReaders = 8
INVARIANT ReaderCountExact
CHECK_DEADLOCK FALSE
