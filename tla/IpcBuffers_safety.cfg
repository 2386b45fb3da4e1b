\* Three commands of any kind, three stores beside each buffer at any time, and
\* every eviction and fetch between.
SPECIFICATION Spec
CONSTANTS
    MaxCalls = 3
    MaxStores = 3
INVARIANTS InputArrives OutputArrives NeighboursKept
