\* Four scrapes at once (one running, one asking, two arriving), calls that
\* may hang, and two ends of the process.
CONSTANTS
    Slots = {s1, s2, s3, s4}
    MayHang = TRUE
    MaxStops = 2
SPECIFICATION Spec
SYMMETRY SlotSymmetry
INVARIANTS
    TypeOK
    OneRunAtATime
    TestsHoldSession
    Inv
PROPERTIES
    ImplementsGate
    FollowsCourse
    FailsOnlyInTheRace
