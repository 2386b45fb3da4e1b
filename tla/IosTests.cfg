\* The timing programs with any command failing, the harness and the statistics.
SPECIFICATION MCSpec
CONSTANTS
    NumFds = 24
    MaxBadCloses = 5
    Repeats = 2
    MaxTests = 2
    MaxSubtests = 2
    Word = 32768
    Ticks = {0, 1, 2, 3, 100, 180, 181, 400}
    MaxResults = 4
INVARIANTS
    OnlyReadsLeak OwnCloses FailureExplained MeasuresMode
    TableHeals TimedOpenRefused VerdictSound DeviationExact
PROPERTY ReportArrives
