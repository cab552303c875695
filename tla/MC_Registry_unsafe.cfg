CONSTANTS
    Threads = {t1, t2}
    UserCodecs = {c1}
    T = T
    PT = PT
    U = U
    I = I
    B = B
    kT = kT
    kOptPT = kOptPT
    kPT = kPT
    kU = kU
    kI = kI
    kB = kB
    None = None
    Types <- MCTypes
    Keys <- MCKeys
    TypeOf <- MCTypeOf
    BaseKey <- MCBaseKey
    Deps <- MCDeps
    Panics = {}
    Registrable = {U}
    Unsafe = TRUE
    MaxDepth = 3
SPECIFICATION Spec
INVARIANTS
    RegisteredCodecUsable
