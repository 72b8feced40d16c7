SPECIFICATION FairSpec
CONSTANTS
    Equities = {"SBIN"}
    Futures = {"GOLD"}
    Static = {}
    Extra = {}
    Longer <- longer
    Within <- within
    Listings <- listings
    Today = 2
    SearchLimit = 2
    MaxFastFails = 3
    NoSymbol = NoSymbol
INVARIANTS
    GivingUpFallsBack
CHECK_DEADLOCK FALSE
