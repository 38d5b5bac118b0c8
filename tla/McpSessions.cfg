SPECIFICATION Spec
CONSTANTS
    Calls = {c1}
    Workers = {w1}
    Sessions = {s1, s2}
    Configs = {v1, v2}
    Secrets = {k1, k2}
    MaxChanges = 2
    NoSession = NoSession
    NoVersion = NoVersion
SYMMETRY Interchangeable
INVARIANTS NoSessionLeak OneWorkPerGeneration DroppedStaysGone
