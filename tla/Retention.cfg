SPECIFICATION MCSpec
CONSTANTS
    Workspaces = {w1}
    Envs = {e1}
    Mcps = {m1}
    Sources = {s1}
    LooseSkills = {k1}
    Paths = {p1}
    Roots = {r1}
    Owners = {o1}
    None = None
    Monitor = Monitor
    Admin = Admin
    MaxChanges = 1
    MaxCleanups = 1
CHECK_DEADLOCK FALSE
INVARIANTS NoOrphanSkills
PROPERTIES CleanupRemovesOnlyUnused ExpiredEnvironmentGoes
