SPECIFICATION Spec
CONSTANTS
    p1 = p1
    p2 = p2
    p3 = p3
    Procs <- MCProcs
    Signature <- MCSignature
    ExportName <- MCExportName
    Size <- MCSize
    NeedsPatch = {}
    Malformed = {}
    PatchEnabled = FALSE
    ExportEnabled = FALSE
    IOMayFail = FALSE
    Window = 2
    EventLimit = 2
    ReadBatch = 2
    MaxTime = 0
    MaxBytes = 2
    MaxAge = 0
    Overflow = Overflow
    NoDump = NoDump
INVARIANTS
    TypeOK
    InArrivalOrder
    NoLostWakeup
    DrainedBeforeExit
PROPERTY
    ImplementsDelivery
