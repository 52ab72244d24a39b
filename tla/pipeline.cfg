SPECIFICATION PFairSpec
CONSTANTS
    page = page
    long = long
    short = short
    moved = moved
    empty = empty
    cut = cut
    coarse = coarse
    site = site
    www = www
    none = none
    Doc = {page}
    Version <- Versions
    DocOf <- OnePage
    Scope = "host"
    DomainOf <- OneSite
    TypeOf <- AllHtml
    HostOf <- Hosts
    Collection <- ByHost
    None = none
    Config = {cut, coarse}
    Chunks <- TwoCuts
    BatchSize = 2
    MaxRetries = 2
    Faults = {{"qdrant", "crash", "lost"}}
    MaxMessages = 3
    MaxRestarts = 1
INVARIANTS IndexShowsNewest FailedKept
PROPERTIES FreshStays EventuallyServed
