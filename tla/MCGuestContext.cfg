SPECIFICATION ContextSpec
CONSTANTS
    Tracked <- Disjoint
    Vals = {0}
    Junk = junk
INVARIANTS RegistersKept ControlFieldsKept StackKept
