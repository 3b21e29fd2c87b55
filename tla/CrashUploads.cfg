SPECIFICATION Spec
CONSTANTS
    form1 = form1
    api1 = api1
    api2 = api2
    syms1 = syms1
    Requests <- MCRequests
    Name <- MCName
    Kind <- MCKind
    Signature <- MCSignature
    NoFile = NoFile
    per_page = 1
    MaxClock = 2
INVARIANTS
    TypeOK
    AnswersStayOwn
    OwnUnlessNameShared
    PagesMissNothing
CHECK_DEADLOCK FALSE
