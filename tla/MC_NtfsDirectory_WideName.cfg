CONSTANTS
    Entries <- WideEntries
    FillerMayFail = FALSE
    BufferSizes = {0, 512}
    Present0 <- WidePresent
SPECIFICATION Spec
INVARIANT PositionAligned
