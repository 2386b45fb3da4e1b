\* clipping.cpp alone.
SPECIFICATION GpuSpec
CONSTANTS
    CmdSizes = {5}
    MaxCmds = 1
    Components = {"program"}
    Mains = {"clipping"}
    ColorSteps = {}
    Reds = {}
    RandomStages <- NoStages
    FilterSums = {}
    Columns = {}
    Blues <- NoBlues
INVARIANT ShownWhereExpected
