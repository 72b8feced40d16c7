SPECIFICATION Spec
CONSTANTS
    A = A
    B = B
    Symbols <- MCSymbols
    Strategies = {"ORB"}
    Ticks <- MCTicks
    Requests <- MCRequests
    InitialCapital = 100000
    KillAmounts = {10000, 30000}
    SlippageBps = 100
    MaxPlaced = 3
    MaxSquareOffs = 1
PROPERTY
    KillOnlyOnLoss
