SPECIFICATION Spec
CONSTANTS
    A = A
    B = B
    Symbols <- MCSymbols
    Ticks <- MCTicks
    MaxHold = 1
    Answers <- MCAnswers
    Sizes = {1}
    Trades = {1}
    MaxPositions = 1
    MaxPerCycle = 1
    MaxQty = 1
    MaxSquareOffs = 1
INVARIANTS
    TypeOK
    NoExitMissed
    TrailLocksInProfit
PROPERTIES
    MonitorSpec
    StopNeverLoosens
    EveryTickIsChecked
    WatchEndsFlat
    LateClosersOnlyClose
    KilledOnlyFlattens
