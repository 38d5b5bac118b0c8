CONSTANTS
    Environments <- MCEnvironments
    Managed <- MCManaged
    Writers = {agent, human}
    Dirs <- MCDirs
    Within <- MCWithin
    Root <- MCRoot
    TTL = 2
    MaxTime = 3
    NoWriter = NoWriter
SPECIFICATION LeaseSpec
INVARIANTS SingleWriterPerDirectory
PROPERTIES LiveLeaseNotTakenOver ImplementsSingleWriter
