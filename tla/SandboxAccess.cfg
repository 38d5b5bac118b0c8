SPECIFICATION MCSpec
CONSTANTS
    Runs = {r1, r2}
    Workspaces = {"inner", "outer"}
    TraversalPaths <- MCTraversalPaths
    Below <- MCBelow
    LentTools = {"far"}
    MaxTroubles = 1
    None = None
SYMMETRY Symmetry
CHECK_DEADLOCK FALSE
INVARIANTS RunningCanTraverse RemovalLeavesNoAccess RunsLeaveNoGrant
