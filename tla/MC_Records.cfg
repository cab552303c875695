\* Encode and decode of a struct holding an int32- and a bool-switched union,
\* over a stream that may end early, with a peer sending an invalid bool switch.
CONSTANTS
    a1 = a1
    a2 = a2
    U1 = U1
    U2 = U2
    None = None
    ByteBits = 2
    Layout <- MCLayout
    Unions = {U1, U2}
    SwitchKind <- MCSwitchKind
    Arms = {a1, a2}
    ArmKind <- MCArmKind
    Cases <- MCCases
    Default <- MCDefault
    KindVals <- MCKindVals
    Peer <- MCPeerBool
    MaxItems = 2
    CanCut = TRUE
SPECIFICATION Spec
\* The exchange is finite: the writer sends MaxItems values (or stops at
\* its first error) and the reader stops at the end or at its first error.
CHECK_DEADLOCK FALSE
INVARIANTS TypeOK WireAsSpecified DecodedAsSent
