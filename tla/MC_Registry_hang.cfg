\* After buildCodec panics (and the caller recovers), later uses of the type
\* wait on the abandoned placeholder.  Every goroutine may end up waiting,
\* which is the defect itself, so deadlock is not reported separately.
CONSTANTS
    Threads = {t1, t2}
    UserCodecs = {c1}
    T = T
    PT = PT
    U = U
    I = I
    B = B
    kT = kT
    kOptPT = kOptPT
    kPT = kPT
    kU = kU
    kI = kI
    kB = kB
    None = None
    Types <- MCTypesB
    Keys <- MCKeysB
    TypeOf <- MCTypeOf
    BaseKey <- MCBaseKey
    Deps <- MCDeps
    Panics = {kB}
    Registrable = {}
    Unsafe = FALSE
    MaxDepth = 3
SPECIFICATION Spec
CHECK_DEADLOCK FALSE
PROPERTIES
    RequestsComplete
