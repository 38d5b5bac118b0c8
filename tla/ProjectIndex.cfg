CONSTANTS
    Threads = {t1, t2, w1}
    WatchThreads = {w1}
    Gens = {g1, g2, g3, g4}
    None = None
    Surfaces = {"tool", "web"}
    MaxEdits = 0
    MaxFailures = 1
    MaxRestarts = 1
SPECIFICATION Spec
INVARIANTS PublishedIsWhole QueriesSeeWholeGenerations NoOrphanIndex RacesKeepSetting
PROPERTIES PreviousRetained
SYMMETRY Interchangeable
