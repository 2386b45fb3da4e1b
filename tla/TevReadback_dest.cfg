\* A last stage that writes to a register other than PREV.
SPECIFICATION TevSpec
CONSTANTS
    Values <- Around0
    Stages = {0}
    Dests = {"Prev", "Color0"}
    PixelsRead <- ColorFromRGB8
    Loaded <- PixelsLoaded
INVARIANT ReadsAnyDest
