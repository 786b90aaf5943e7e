SPECIFICATION Spec
CONSTANTS
    MaxSenders = 2
    Coins = {c1, c2}
    MaxSends = 3
    MaxLost = 1
    MaxEvictions = 1
    MaxCrashes = 1
    EvictsInFlight = FALSE
INVARIANTS HeldIsStored CoinsAccounted
PROPERTY CoinsComeBack
