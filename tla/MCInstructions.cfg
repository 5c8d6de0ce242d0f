CONSTANTS
    ByteBits = 1
    Content <- MCContent
    Programs <- MCPrograms
    Guests <- MCGuests
    Valuations <- MCValuations
SPECIFICATION Spec
INVARIANTS InstrTypeOK ResultsExact FlagsExact AbortsExact MistakesReal
PROPERTIES TrapsExact
CHECK_DEADLOCK FALSE
