SPECIFICATION Spec
CONSTANTS
    Threads = {t1, t2}
    UserKeys = {"version"}
    Capacity = 2
    Free = Free
    Garbled = Garbled
    Modules <- MCModules
    Noted = {2}
    Fileless = {2, 3}
    TooLong <- MCTooLong
    Requests <- MCRequests
    NoFile = NoFile
    PatchBuildIds = TRUE
    Base <- MCBase
    Size <- MCSize
    PCs = {0, 3, 4}
SYMMETRY ThreadSymmetry
INVARIANTS
    TypeOK
    MessageOfTheCrash
    TypeBeforeMessage
    DumpSurvives
    RightBuildIds
    TombstoneNamesBuild
CHECK_DEADLOCK FALSE
