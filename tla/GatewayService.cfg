SPECIFICATION MCSpec
CONSTANTS
    Clients = {c1, c2}
    Procs <- MCProcs
    None = None
SYMMETRY Symmetry
CHECK_DEADLOCK FALSE
INVARIANTS FailedInstallRestores SetupFindsNoOldGateway
PROPERTIES EndsOnlyItsTarget
