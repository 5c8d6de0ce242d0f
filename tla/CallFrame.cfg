SPECIFICATION FrameSpec
CONSTANTS
    MaxArgs = 3
    Args = {a1, a2}
    Junk = junk
INVARIANTS EntryAligned EntryFrame FrameBounded
