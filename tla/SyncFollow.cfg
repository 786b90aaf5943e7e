SPECIFICATION FairSpec
CONSTANTS
    Blocks <- MC_Blocks
    Genesis = "0"
    Parent <- MC_Parent
    Height <- MC_Height
    Branch <- MC_Branch
    Time <- MC_Time
    GroupSize = 3
    Maturity = 3
    Birthday = 8
    BirthdayDelta = 2
    MaxReorgDepth = 6
    BatchSize = 2
    RequestedFrom = 4
    Restarts = 1
    Losses = 1
    Overlap = "none"
    StorageFails = FALSE
    None = None
INVARIANT FoundByHeight
PROPERTIES FollowsABranch CatchesUp
CHECK_DEADLOCK FALSE
