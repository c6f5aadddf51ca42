\* One run and one signal are enough to see what becomes of it.
CONSTANTS
    Slots = {s1, s2}
    MayHang = FALSE
    MaxStops = 1
SPECIFICATION Spec
PROPERTIES
    ExitWaitsForRuns
