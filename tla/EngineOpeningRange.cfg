SPECIFICATION EngineSpec
CONSTANTS
    A = A
    B = B
    Symbols <- MCSymbols
    Strategies <- MCStrategies
    Ticks <- MCTicks
    Requests = {}
    InitialCapital = 2000
    KillAmounts = {200, 400}
    SlippageBps = 0
    MaxPlaced = 3
    MaxSquareOffs = 1
    KellyPct = 20
    LotSize <- MCLotSize
    MAX_OPEN_POSITIONS = 1
    Timeframes <- MCTimeframes
    Interval <- MCInterval
    TF_MAP <- MCTfMap
    Regimes <- MCRegimes
    Supported <- MCSupported
    ORB_BARS = 2
    RECLASSIFY_BARS = 2
    DEDUP_WINDOW = 2
    SELECT_N = 1
    MaxNow = 6
    MaxTicks = 4
    MaxPosts = 2
INVARIANT
    RangeIsOneSymbols
CHECK_DEADLOCK FALSE
