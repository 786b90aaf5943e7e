SPECIFICATION Spec
CONSTANTS
    None = None
    Refused = Refused
    Automatic = Automatic
    Coins <- MC_Coins
    Amount <- MC_Amount
    Version <- MC_Version
    Confirmations <- MC_Confirmations
    Level <- MC_Level
    Token <- MC_Token
    Root <- MC_Root
    AddrKey <- MC_AddrKey
    TokenValue <- MC_TokenValue
    HiddenToken <- MC_HiddenToken
    PublicRand <- MC_PublicRand
    RateFee <- MC_RateFee
    TokenFee <- MC_TokenFee
    PayCommands <- MC_PayCommands
    RecipientLists <- MC_RecipientLists
    HostNumbers = {1, 2}
    ChangeHidden = {TRUE, FALSE}
    ReregisterThreshold = 2
    MintThreshold = 1
    MaxTokenKeys = 2
    MaxHidden = 1
    ChangeThreshold = 3
    MaxNeutrino = 100
    MaxOutputs = 4
    MaxRingOutputs = 2
    MaxSingleOutputs = 3
    MaxInputs = 3
    MaxRingInputs = 2
    MaxSingleInputs = 2
INVARIANT TokensLaidOut
PROPERTIES CreatedPays PaysIfItCan ScriptPointsAtTokens
