SPECIFICATION Spec
CONSTANTS
    Seeds <- AllSeeds
    Targets <- Typed
    Links <- Hrefs
    Segment <- Segments
    Decoded <- DecodedTo
    PdfNames = {"b.pdf"}
    AssetNames = {"e.png"}
    Registrable <- RegistrableOf
    Modes = {"registrable", "host"}
    MaxStored = 2
    MaxSaid = 1
INVARIANTS PathsMeant OneDocument DocumentHasRow CommandFinds MonitorFinds
CHECK_DEADLOCK FALSE
