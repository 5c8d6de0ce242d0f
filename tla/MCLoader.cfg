CONSTANTS
    PageSize = 4
    Space = 44
    Elfs <- MCElfs
    Taken <- MCTaken
    Hints <- MCHints
    MaxOthers = 1
    Host <- MCHost
    Opens <- MCOpens
    Started <- MCStarted
    Overrides = {"start"}
SPECIFICATION Spec
INVARIANTS LoaderTypeOK ImageExact MappingAborts RangesWhole NeededServed SlotsBound MisboundWrong InitialisersInOrder
PROPERTIES OthersKept
CHECK_DEADLOCK FALSE
