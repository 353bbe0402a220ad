CONSTANTS
    Handle = {h1, h2}
    MaxSize = 3
    BufferSizes = {0, 2}
    Offsets = {0, 1}
    MaxFileRef = 1
    None = None
    Labels <- MCLabels
    SetTimes <- MCSetTimes
    SetAttrs <- MCSetAttrs
    InfoSizes <- MCInfoSizes
    PATH_MAX = 4096
    PATH_SEP = 92
    CharSigned = TRUE
SPECIFICATION Spec
INVARIANT TypeOK CachedSizeNeverAhead LabelRoundTrip
PROPERTY SetFileInfoWithinRights
SYMMETRY HandleSymmetry
