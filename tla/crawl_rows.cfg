\* Postgres may fail for a moment: are visited URLs stored?
CONSTANTS
    s = s
    a = a
    b = b
    c = c
    URL = {s, a, b}
    Seed = s
    Links <- Triangle
    Worker = {w1, w2}
    Main = main
    BatchSize = 1
    MaxPages = 0
    VisitedBefore = {}
    Faults = {{"postgres"}}
SPECIFICATION Spec
SYMMETRY SymmetricWorkers
INVARIANTS
    VisitedHasRow
