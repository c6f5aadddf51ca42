\* A last-value request that fails.
CONSTANTS
    Ids = {d1, d2}
    MaxHubs = 1
    MaxFaults = 1
    RedeleteFails = FALSE
    EarlyStarts = FALSE
SPECIFICATION Spec
INVARIANTS
    UnexpectedDataIsData
