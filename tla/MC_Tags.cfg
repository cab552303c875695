\* makeStructCodec over every struct of up to two ordinary fields, and every
\* union of a switch and up to two arms.
CONSTANTS
    Structs <- MCStructs
    None = None
SPECIFICATION Spec
\* makeStructCodec returns: the done state has no successor.
CHECK_DEADLOCK FALSE
INVARIANTS TypeOK TagLayout ClassifiedAsSpec UnionTableMatchesTags CanonicalLookups
