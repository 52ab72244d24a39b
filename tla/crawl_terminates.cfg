\* Everything may fail and the crawl still returns; it is limited to two pages.
CONSTANTS
    s = s
    a = a
    b = b
    c = c
    URL = {s, a, b, c}
    Seed = s
    Links <- Star
    Worker = {w1, w2}
    Main = main
    BatchSize = 1
    MaxPages = 2
    VisitedBefore = {}
    Faults = {{"cancel", "redis", "postgres", "fetch"}}
SPECIFICATION FairSpec
PROPERTIES
    Termination
    LimitSeals
