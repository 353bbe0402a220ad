SPECIFICATION Spec
CONSTANTS
    PATH_MAX = 4096
    PATH_SEP = 92
    CharSigned = TRUE
    S64Bits = 6
INVARIANT TypeOK EncodeAsReference DecodeAsReference ValidityAsReference  InfoNameRoundTrip SeekAsReference
CHECK_DEADLOCK FALSE
