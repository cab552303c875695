\* maxlen on a map, which section 4.2 of the specification allows.
CONSTANTS
    Structs <- MapStructs
    None = None
SPECIFICATION Spec
\* makeStructCodec returns: the done state has no successor.
CHECK_DEADLOCK FALSE
INVARIANTS SpecTagsAccepted
