CONSTANTS
    Coders = {A, B}
    Types = {T1, T2, T3}
    T1 = T1
    T2 = T2
    T3 = T3
    Built <- MCBuilt
    UserCodecs = {u}
    Registrable = {T1}
    Failing = {T3}
    Parts = 3
    Sinks = {buf, raw}
    Buffered = {buf}
    Callers = {p}
    CacheSize = 2
    BufSize = 1
    MaxEncoders = 1
    MaxMarshalers = 1
    None = None
SYMMETRY MCSymmetry
SPECIFICATION Spec
INVARIANTS
    TypeOK
    CacheCoherent
    SinkGetsEncoding
    MarshalReturnsEncoding
