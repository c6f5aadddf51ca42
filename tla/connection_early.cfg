\* One fault in every run; the next run may start as soon as the last one ends.
CONSTANTS
    Ids = {d1, d2}
    MaxHubs = 2
    MaxFaults = 1
    RedeleteFails = FALSE
    EarlyStarts = TRUE
SPECIFICATION Spec
SYMMETRY IdSymmetry
INVARIANTS
    TypeOK
    NoFalseAlarm
    FaultsAreReported
    CleanAfterRun
    Inv
PROPERTIES
    DeploysOnlyOne
    CreatesHubOnce
    ReceivesOwnCommand
