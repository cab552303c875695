\* Variable-length opaques, decoded whole (DecodeOpaque) or streamed (OpaqueReader,
\* Read, Close), over a transport that may end at any byte.
CONSTANTS
    ByteBits = 2
    MaxItems = 2
    IntVals <- MCIntVals
    UIntVals = {0}
    HyperVals <- MCHyperVals
    Bodies <- MCBodies
    MaxLens = {3}
    ElemSeqs <- MCElemSeqs
    MapVals <- MCMapVals
    MaxCounts = {1}
    Kinds = {"opaque", "stream"}
    CanCut = TRUE
    None = None
SPECIFICATION Spec
\* The exchange is finite.
CHECK_DEADLOCK FALSE
INVARIANTS TruncationSurfaced
