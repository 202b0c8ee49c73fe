CONSTANTS
    N = 4
    Layers <- FourLayers
SPECIFICATION FairSpec
INVARIANTS TypeOK CyclesAreComponents StackIsConnected RetiredIsClosed CrossLayerCycleIsFlagged
PROPERTIES Terminates
\* the call returns
CHECK_DEADLOCK FALSE
