CONSTANTS
    Threads = {t1, w1}
    WatchThreads = {w1}
    Gens = {g1, g2, g3}
    None = None
    Surfaces = {"tool"}
    MaxEdits = 2
    MaxFailures = 1
    MaxRestarts = 0
SPECIFICATION FairSpec
PROPERTIES JobEnds WatchKeepsFresh
