\* Every pure conversion on every input of the bounds in MC_Encoding.
CONSTANTS
    ByteValues <- MC_ByteValues
    FingerprintLen <- MC_FingerprintLen
    MaxArgs <- MC_MaxArgs
    MaxEncodedBytes = 4
    DecodeChars <- MC_DecodeChars
    MaxDecodeLen = 8
    Pad = Pad
    Ws = Ws
    Bad = Bad
    Nul = Nul
SPECIFICATION PureSpec
INVARIANTS
    FiveBitsIsRegrouping
    UrlQueryWellFormed
    EncodeLengthPredicted
    RoundTrip
    DecodeWithinBuffer
    QuantumsNearestStep
    SubticksNearestTick
