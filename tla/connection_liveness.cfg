\* One fault in every run: each run comes to its end all the same.
CONSTANTS
    Ids = {d1, d2}
    MaxHubs = 1
    MaxFaults = 1
    RedeleteFails = FALSE
    EarlyStarts = FALSE
SPECIFICATION FairSpec
PROPERTIES
    TestEnds
