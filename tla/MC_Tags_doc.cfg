\* The tag of the XDRTag documentation's example, and len on a plain slice.
CONSTANTS
    Structs <- DocStructs
    None = None
SPECIFICATION Spec
\* makeStructCodec returns: the done state has no successor.
CHECK_DEADLOCK FALSE
INVARIANTS AcceptedTagsCompile
