SPECIFICATION FairSpec
CONSTANTS
    page = page
    pdf = pdf
    image = image
    site = site
    old = old
    new = new
    blank = blank
    none = none
    n1 = n1
    n2 = n2
    w1 = w1
    w2 = w2
    Page = {page}
    Pdf = {pdf}
    Asset = {}
    PdfLinks <- PageLinks
    Domain = {site}
    DomainOf <- OneSite
    Content = {old, new}
    Blank = blank
    None = none
    Node = {n1, n2}
    Worker = {w1, w2}
    NodeOf <- TwoNodes
    MaxRetries = 1
    Faults = {{"fetch", "redis", "postgres", "stop", "crash"}}
    MaxRequests = 2
    MaxChanges = 0
    MaxStops = 1
PROPERTIES ShutsDown Drains
