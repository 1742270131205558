SPECIFICATION Spec
CONSTANTS
    p = p
    c1 = c1
    c2 = c2
    d1 = d1
    d2 = d2
    w = w
    Peers = {p}
    Conns = {c1, c2}
    Workers = {w}
    Finders = {d1, d2}
    NoPeer = NoPeer
    NoENR = NoENR
    MaxRetryAttempts = 1
    DialQueueCap = 1
    RetryQueueCap = 1
    LastFork = 1
    MaxCauses = 2
CHECK_DEADLOCK FALSE
INVARIANTS
    TypeOK RetryBounded ReportsBounded DialsBounded StoppedClean
PROPERTY QuietAfterStop
SYMMETRY Symmetry
