\* Prices in ticks of a tenth of a cent, the finest step the tapered grid has; two
\* edits of a member, or one and a stray token, of a frame; strings of three
\* escapes (two make a surrogate pair, a third is what follows it); numbers of six
\* bytes; up to five samples.
CONSTANTS
    One = 1000
    CentGrid = 10
    MaxDepth = 3
    MaxFrameBytes = 65536
    MaxEdits = 2
    MaxPieces = 3
    MaxLength = 6
    MaxSamples = 5
    Durations = {1, 2, 5}
SPECIFICATION Spec
INVARIANTS
    NearestMultipleTiesToEven
    DecodesWhatWasSent
    FramesRoundTrip
    ScalarsReadExactly
    ScalarsReadBack
    PercentilesAreType7
CHECK_DEADLOCK FALSE
