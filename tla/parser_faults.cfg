SPECIFICATION Spec
CONSTANTS
    page = page
    pdf = pdf
    image = image
    site = site
    old = old
    new = new
    blank = blank
    none = none
    n1 = n1
    n2 = n2
    w1 = w1
    w2 = w2
    Page = {page}
    Pdf = {pdf}
    Asset = {}
    PdfLinks <- PageLinks
    Domain = {site}
    DomainOf <- OneSite
    Content = {old, new}
    Blank = blank
    None = none
    Node = {n1, n2}
    Worker = {w1, w2}
    NodeOf <- TwoNodes
    MaxRetries = 0
    Faults = {{"fetch", "stop"}, {"redis", "postgres", "crash"}}
    MaxRequests = 3
    MaxChanges = 1
    MaxStops = 1
SYMMETRY Symmetric
INVARIANTS EveryChangeAnnounced StopLosesFew ErrorsFounded
PROPERTY RefinesFeed
