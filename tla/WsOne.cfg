SPECIFICATION Spec
CONSTANTS
    c1 = c1
    Clients = {c1}
    MaxClients = 1
    MaxReqs = 1
    SendBuffer = 3
    MaxNotes = 2
    MaxMessages <- TwoRequests
    MayStop = TRUE
INVARIANT InOrder
PROPERTIES
    Told
    Ends
CHECK_DEADLOCK FALSE
