\* The first two scrapes of a process arrive together.
CONSTANTS
    Slots = {s1, s2}
    MayHang = FALSE
    MaxStops = 0
SPECIFICATION Spec
PROPERTIES
    EveryScrapeIsServed
