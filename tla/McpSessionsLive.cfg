SPECIFICATION FairSpec
CONSTANTS
    Calls = {c1}
    Workers = {w1}
    Sessions = {s1, s2}
    Configs = {v1}
    Secrets = {k1}
    MaxChanges = 1
    NoSession = NoSession
    NoVersion = NoVersion

PROPERTIES CloseClosesSessions Reconnects DisabledIsClosed
