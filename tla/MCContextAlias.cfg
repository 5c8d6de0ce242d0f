SPECIFICATION ContextSpec
CONSTANTS
    Tracked <- IndirectPair
    Vals = {0}
    Junk = junk
INVARIANTS RegistersKept
