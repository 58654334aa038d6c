SPECIFICATION FairSpec
CONSTANTS
    MaxTokens = 2
    MaxCalls = 2
    MaxMishaps = 1
    Conns = {c1, c2}
    NULL = NULL
    NoConn = NoConn
INVARIANTS
    TypeOK
    OneChain
PROPERTIES
    OpensAsMe
    ValidTokenKept
    SentToLogin
    Reconnects
\* A crashed document, with no reload left, stands still.
CHECK_DEADLOCK FALSE
