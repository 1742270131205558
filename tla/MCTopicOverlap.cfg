SPECIFICATION Spec
CONSTANTS
    Nil = Nil
    s1 = s1
    Subs = {s1}
    MaxSubnets = 1
    Patterns <- MCPatterns
    PlainTopics <- MCPlainTopics
    Digests <- MCDigests
    NumberOf <- MCNumberOf
    Configs <- MCConfigs
INVARIANTS
    LookupReturns
