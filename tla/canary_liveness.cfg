\* Every call is answered; the process may be stopped or crash once.
CONSTANTS
    Slots = {s1, s2, s3}
    MayHang = FALSE
    MaxStops = 1
SPECIFICATION FairSpec
PROPERTIES
    RunsEnd
    ScrapesKeepStartingTests
