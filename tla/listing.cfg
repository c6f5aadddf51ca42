\* Pages of two on a list of up to four deployments, two of them the canary's,
\* so that the list ends with a page, in one, and after one.
CONSTANTS
    Ids = {c1, c2, o1, o2}
    Named = {c1, c2}
    Limit = 2
SPECIFICATION FairSpec
INVARIANTS
    TypeOK
    Complete
    NoDuplicates
    Snapshot
    Inv
PROPERTIES
    ListingEnds
