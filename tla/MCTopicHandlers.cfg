SPECIFICATION Spec
CONSTANTS
    Nil = Nil
    s1 = s1
    s2 = s2
    Subs = {s1, s2}
    MaxSubnets = 2
    Patterns <- MCPatterns
    PlainTopics <- MCPlainTopics
    Digests <- MCDigests
    NumberOf <- MCNumberOf
    Configs <- MCConfigs
INVARIANTS
    HandlerChosen InvalidReportedOnce LeftCancelled
SYMMETRY SubSymmetry
