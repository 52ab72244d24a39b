\* Everything may fail, or nothing; earlier crawls may have visited c.
CONSTANTS
    s = s
    a = a
    b = b
    c = c
    URL = {s, a, b, c}
    Seed = s
    Links <- Diamond
    Worker = {w1, w2, w3}
    Main = main
    BatchSize = 2
    MaxPages = 0
    VisitedBefore = {c}
    Faults = {{}, {"cancel", "redis", "postgres", "fetch"}}
SPECIFICATION Spec
SYMMETRY SymmetricWorkers
INVARIANTS
    TypeOK
    OutstandingExact
    NoLostWakeup
    EmittedOnce
    CrawlComplete
PROPERTIES
    RefinesWorkPool
