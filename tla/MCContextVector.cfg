SPECIFICATION ContextSpec
CONSTANTS
    Tracked <- Vector
    Vals = {0}
    Junk = junk
INVARIANTS RegistersKept
