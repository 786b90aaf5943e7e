CONSTANTS
    p1 = p1
    p2 = p2
    Passphrases = {p1, p2}
    MasterSeeds = {"aip", "cli", "none"}
    MaxChanges = 2
    MayConvert = TRUE
    CommitMayFail = TRUE
    Gone = Gone
SPECIFICATION Spec
SYMMETRY Symmetry
INVARIANTS
    StoredReadable
    SecretsFollowLock
