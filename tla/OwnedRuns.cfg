CONSTANTS
    Envs = {env, sibling}
    Owners = {agent, human}
    Runs <- MCRuns
    Kind <- RunAndProcess
    NoLease = NoLease
SPECIFICATION Spec
INVARIANTS NoUnreachableProcess CloseStopsEveryProcess CanceledRunEndsCanceled
SYMMETRY Interchangeable
CHECK_DEADLOCK FALSE
