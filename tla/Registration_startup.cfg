SPECIFICATION Spec
CONSTANTS
    c1 = c1
    c2 = c2
    Daemons = {a, b}
    Clients <- MCClients
    SameUser = {}
    NoSocket = NoSocket
    MaxStarts = 2
    Retries <- MCRetries
    Backlog = 1
PROPERTY
    StartupTolerated
CHECK_DEADLOCK FALSE
