SPECIFICATION Spec
CONSTANTS
    p1 = p1
    p2 = p2
    p3 = p3
    Procs <- MCTwoProcs
    Signature <- MCSignature
    ExportName <- MCExportName
    Size <- MCSize
    NeedsPatch = {p1}
    Malformed = {}
    PatchEnabled = TRUE
    ExportEnabled = FALSE
    IOMayFail = FALSE
    Window = 2
    EventLimit = 3
    ReadBatch = 3
    MaxTime = 0
    MaxBytes = 2
    MaxAge = 0
    Overflow = Overflow
    NoDump = NoDump
INVARIANTS
    FinalDumpsEnqueued
