\* Up to three faults in every run; a run starts when the platform has settled,
\* on a platform where deleting a deployment twice is an error.
CONSTANTS
    Ids = {d1, d2}
    MaxHubs = 2
    MaxFaults = 3
    RedeleteFails = TRUE
    EarlyStarts = FALSE
SPECIFICATION Spec
SYMMETRY IdSymmetry
INVARIANTS
    NoFalseAlarm
    FaultsAreReported
