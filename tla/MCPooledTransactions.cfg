SPECIFICATION FairSpec
CONSTANTS
    a = a
    b = b
    Callers = {a, b}
    Nobody = Nobody
    MaxResponses = 2
    InboxCap = 2
CHECK_DEADLOCK FALSE
INVARIANTS
    OpenWhileSending ChannelPerCall
PROPERTIES
    KeepsRequestContract CallReturns
