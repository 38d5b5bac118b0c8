CONSTANTS
    Envs = {env}
    Owners = {agent}
    Runs <- MCRuns
    Kind <- ProcessAndVerifier
    NoLease = NoLease
SPECIFICATION FairSpec
PROPERTIES CanceledRunFinishes LostWriterStops RemovedEnvironmentStops
CHECK_DEADLOCK FALSE
