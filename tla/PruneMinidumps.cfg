SPECIFICATION Spec
CONSTANTS
    d1 = d1
    d2 = d2
    d3 = d3
    e1 = e1
    Files <- MCFiles
    Exports <- MCExports
    Size <- MCSize
    ExportSet = TRUE
    MaxClock = 2
    MaxBytes = 3
    MaxAge = 1
INVARIANTS
    TypeOK
    RemovesExactlyWhatMustGo
    WalkIsOnePass
PROPERTIES
    OkMeansWithinLimits
