\* Two threads, one key, five buckets of which the table holds two, and no delay
\* between clock and lock.
SPECIFICATION ApiSpec

CONSTANTS
    issued = issued
    calls = calls
    tries = tries
    strange = strange
    address = address
    checks = checks
    Other     = other
    ApiKey    = {issued}
    General   <- OneKey
    Attempts  <- OnePerPrefix
    Anon      = address
    Check     = checks
    Key       = {calls, tries, strange, address, checks}
    Caller    = {p, q}
    anzahl    <- Ones
    fenster   <- Windows
    MaxEimer  = 2
    Second    = 2
    AelterAls = 4
    MaxDelay  = 0
    Horizon   = 5

SYMMETRY Threads
VIEW Reading

INVARIANTS
    WindowHolds
    TableBounded
    RefusalsBounded

PROPERTIES
    KeysNeverReturn
    OwnAllowance
    RetryLongEnough
