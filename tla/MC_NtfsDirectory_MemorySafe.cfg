CONSTANTS
    Entries <- SubdirEntries
    FillerMayFail = FALSE
    BufferSizes = {0, 512}
    Present0 <- SubdirPresent
SPECIFICATION Spec
INVARIANT DirMemorySafe
