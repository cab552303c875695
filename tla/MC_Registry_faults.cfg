\* Safety of the registry when construction panics and in the unsafe build.
\* Goroutines may all end up waiting on an abandoned placeholder (see
\* MC_Registry_hang.cfg), so a state without successors is not reported here.
CONSTANTS
    Threads = {t1, t2}
    UserCodecs = {c1, c2}
    T = T
    PT = PT
    U = U
    I = I
    B = B
    kT = kT
    kOptPT = kOptPT
    kPT = kPT
    kU = kU
    kI = kI
    kB = kB
    None = None
    Types <- MCTypesB
    Keys <- MCKeysB
    TypeOf <- MCTypeOf
    BaseKey <- MCBaseKey
    Deps <- MCDeps
    Panics = {kB}
    Registrable = {U}
    Unsafe = TRUE
    MaxDepth = 3
SPECIFICATION Spec
CHECK_DEADLOCK FALSE
INVARIANTS
    OneCodecPerKey
    PlaceholderMatchesStore
