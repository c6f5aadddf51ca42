\* Three faults in every run, any number of runs, each free to start the moment
\* the last one ends; an id to spare for a second device and a second type.
CONSTANTS
    TypeIds = {t1, t2}
    DeviceIds = {d1, d2}
    None = none
    MaxFaults = 3
SPECIFICATION FairSpec
INVARIANTS
    TypeOK
    NoFalseAlarm
    FaultsAreReported
    Inv
PROPERTIES
    CreatesOnce
    FollowsCourse
    TypeShowsBeforeDevice
    RunEnds
