SPECIFICATION Spec
CONSTANTS
    Blocks <- MC_Blocks
    Genesis = "0"
    Parent <- MC_Parent
    Height <- MC_Height
    Branch <- MC_Branch
    Time <- MC_Time
    GroupSize = 3
    Maturity = 3
    Birthday = 8
    BirthdayDelta = 2
    MaxReorgDepth = 4
    BatchSize = 2
    RequestedFrom = 4
    Restarts = 1
    Losses = 1
    Overlap = "any"
    StorageFails = FALSE
    None = None
INVARIANTS HashesMatchStore BirthdayCovers
CHECK_DEADLOCK FALSE
