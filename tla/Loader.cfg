CONSTANTS
    address = address
    transaction = transaction
    Services = {address, transaction}
    Programs <- Releases
    MaxVersion = 3
    MaxClients = 3
    MaxProcesses = 4
SPECIFICATION Spec
INVARIANT MigratedOnce
PROPERTIES
    NoEndedClientKept
    ClientServes
CHECK_DEADLOCK FALSE
