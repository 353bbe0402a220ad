CONSTANTS
    Entries <- RootEntries
    FillerMayFail = FALSE
    BufferSizes = {0, 512}
    Present0 <- RootPresent
SPECIFICATION Spec
INVARIANT TypeOK ListingFaithful PositionAligned
PROPERTY ListingRefinement
