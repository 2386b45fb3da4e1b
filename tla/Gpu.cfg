\* The pipe has its real size, and starts filled to any point, so that the
\* draw-done ends at every offset of a burst.  Sizes are a BP load, a CP load and
\* the six XF registers of CGX_SetViewport, one of which leaves the pipe in two
\* bursts.  Five commands are two waits with commands before, between and after.
\* Every program, with some of the rounds of its loops.
SPECIFICATION GpuSpec
CONSTANTS
    CmdSizes = {5, 6, 29}
    MaxCmds = 5
    Components = {"fence", "program"}
    Columns <- CornerColumns
    Mains = {"clipping", "copyfilter", "intensity", "lighting", "rasterization", "tev"}
    ColorSteps <- CornerSteps
    Reds <- CornerReds
    RandomStages <- SomeStages
    FilterSums = {0, 63, 64, 127, 128, 189}
    Blues <- FewBlues
INVARIANTS
    WakeupComing
    SubtestsPass
    ReadsOwn
PROPERTIES
    ImplementsFence
    WaitReturns
