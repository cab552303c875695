\* All item kinds over a transport that may end at any byte.
CONSTANTS
    ByteBits = 2
    MaxItems = 2
    IntVals <- MCIntVals
    UIntVals = {0, 2}
    HyperVals <- MCHyperVals
    Bodies <- MCBodies
    MaxLens = {3}
    ElemSeqs <- MCElemSeqs
    MapVals <- MCMapVals
    MaxCounts = {1}
    Kinds = {"int", "uint", "bool", "hyper", "opaque", "fopaque", "stream",
             "array", "slice", "opt", "map", "c64", "c128"}
    CanCut = TRUE
    None = None
SPECIFICATION Spec
\* The exchange is finite: once the writer has sent MaxItems items and the
\* reader has finished, nothing remains to be done.
CHECK_DEADLOCK FALSE
INVARIANTS TypeOK CompleteItemsRoundTrip NoSpuriousErrors LimitsAgree AllocationBounded
PROPERTIES ReaderKeepsUp
