CONSTANTS
    Entries <- PrefixEntries
    FillerMayFail = FALSE
    BufferSizes = {0, 512}
    Present0 <- PrefixPresent
SPECIFICATION Spec
INVARIANT ListingFaithful
