\* The calls the tests make, in the real EFB.
SPECIFICATION TileSpec
CONSTANTS
    EfbWidth = 640
    EfbHeight = 528
    Sites <- TestSites
INVARIANT ReadsPixel
