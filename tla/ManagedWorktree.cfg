SPECIFICATION Spec
CONSTANTS
    Trees = {t1, t2}
    Destroys = {d1, d2}
    Owners = {agent, human}
    Branches = {b1, b2}
    Roots = {r1, r2}
    Workspace = Workspace
    NoBranch = NoBranch
    Users = Users
    NoOwner = NoOwner
    NoRoot = NoRoot
    MaxOutside = 1
SYMMETRY Interchangeable
CHECK_DEADLOCK FALSE
INVARIANTS RetainedBranchKept RollbackLeavesNothing DestroyedLeavesNoWorktree
PROPERTIES UsersBranchesKept ForeignContentsKept RemovesOnlyInsideRoot
