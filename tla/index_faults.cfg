SPECIFICATION Spec
CONSTANTS
    page = page
    note = note
    page1 = page1
    page2 = page2
    note1 = note1
    coarse = coarse
    fine = fine
    main = main
    Doc <- Docs
    Version <- Versions
    DocOf <- DocsOf
    Collection <- OneCollection
    Config = {coarse, fine}
    Chunks <- TwoCuts
    BatchSize = 2
    MaxRetries = 2
    Faults = {{"redis", "postgres", "qdrant", "crash"}, {"redis", "resend", "postgres", "crash"}}
    MaxMessages = 3
    MaxRestarts = 2
INVARIANT SettledIndex
PROPERTIES RemovedOnceServed NeverLost
