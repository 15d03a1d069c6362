CONSTANTS
    Handles = {t1, t2, t3}
    MaxReaders = 8
    Lockers = {t1, t2}
    Msb = 2
    MaxLocks = 3
    MaxFlips = 1
    Threads = {t1, t2}
    Root = root
    Children = {c1, c2}
    Cbs = {b1, b2}
    Futs = {f1}
    MaxCalls = 3
    None = None
SPECIFICATION MCSpec
CHECK_DEADLOCK FALSE
INVARIANTS WriterExcludesAll NeverUndercounted NoLostUpdate
           ChildFollows CallbackAccounted FutureMatches
PROPERTIES SomeWriterGetsIn LockEnds CallsReturn
