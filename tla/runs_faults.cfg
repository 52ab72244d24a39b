SPECIFICATION FairSpec
CONSTANTS
    home = home
    about = about
    news = news
    site = site
    other = other
    junk = junk
    URL = {home, about, news}
    Domain = {site, other}
    DomainOf <- OneSite
    Links <- Site
    Invalid = {junk}
    BatchSize = 2
    Faults = {{"redis"}, {"postgres", "crash"}, {"fetch", "crash"}}
    MaxRequests = 2
    MaxStops = 1
    MaxReplays = 1
INVARIANTS CrawledOnce CompletedIsWhole CrawledRunsEnd RequestsHaveRows ReplayExact
PROPERTY Settles
