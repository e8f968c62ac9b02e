CONSTANTS
    Junk = Junk
    None = None
    DayMicros = 86400
    U16 = 65536
    Ints <- MCInts
    VecLens <- MCShortVectors
SPECIFICATION Spec
INVARIANTS TypeOK DecodeAsSpecified RoundTrip
