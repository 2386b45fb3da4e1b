\* An EFB of 16 by 8 pixels; every output of a stage; every filter the test loads at its boundaries.
SPECIFICATION Spec
CONSTANTS
    EfbWidth = 16
    EfbHeight = 8
    Sites <- SmallSites
    Values <- AllValues
    Stages = {0, 12, 13}
    Dests = {"Prev"}
    PixelsRead <- TestsRead
    Loaded = {300}
    Sums <- BoundarySums
    Columns <- CornerColumns
INVARIANTS ReadsPixel ReadsAllBits FilterPredicted IntensityInRange
