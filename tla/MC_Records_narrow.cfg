\* A peer sends an int32 beyond int8 where the record has an int8 field.
CONSTANTS
    a1 = a1
    a2 = a2
    U1 = U1
    U2 = U2
    None = None
    ByteBits = 2
    Layout <- MCLayout
    Unions = {U1, U2}
    SwitchKind <- MCSwitchKind
    Arms = {a1, a2}
    ArmKind <- MCArmKind
    Cases <- MCCases
    Default <- MCDefault
    KindVals <- MCKindVals
    Peer <- MCPeerNarrow
    MaxItems = 2
    CanCut = TRUE
SPECIFICATION Spec
\* The exchange is finite: the writer sends MaxItems values (or stops at
\* its first error) and the reader stops at the end or at its first error.
CHECK_DEADLOCK FALSE
INVARIANTS DecodedAsSent
