SPECIFICATION Spec
CONSTANTS
    Executables = {"tool", "tool.exe", "path", "link"}
    Paths = {"path", "link"}
    Name <- MCName
    Place <- MCPlace
    Proxies = {"shell"}
    StoredPolicy <- MCPolicy
    MaxChanges = 1
    Calls = {c1, c2}
    Owners = {o1, o2}
    TTL = 3
    MaxVersions = 2
    NoOwner = NoOwner
SYMMETRY Symmetry
INVARIANTS CommandsKeepLease BlockedStaysOut
PROPERTIES CommitsWhatWasThere
