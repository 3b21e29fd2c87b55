SPECIFICATION Spec
CONSTANTS
    p1 = p1
    p2 = p2
    p3 = p3
    Procs <- MCProcs
    Signature <- MCSignature
    ExportName <- MCExportName
    Size <- MCSize
    NeedsPatch = {p2}
    Malformed = {p3}
    PatchEnabled = TRUE
    ExportEnabled = TRUE
    IOMayFail = FALSE
    Window = 1
    EventLimit = 3
    ReadBatch = 3
    MaxTime = 1
    MaxBytes = 2
    MaxAge = 0
    Overflow = Overflow
    NoDump = NoDump
INVARIANTS
    UnreadableOnlyIfPruned
    HandledDumpsFit
    ExportsFit
    TombstonesApart
    SuppressedHasTombstone
PROPERTY
    OldestPrunedFirst
