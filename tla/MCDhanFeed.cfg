SPECIFICATION FairSpec
CONSTANTS
    Equities = {"SBIN"}
    Futures = {"GOLD"}
    Static = {}
    Extra = {}
    Longer <- longer
    Within <- within
    Listings <- listings
    Today = 2
    SearchLimit = 2
    MaxFastFails = 3
    NoSymbol = NoSymbol
INVARIANTS
    TypeOK
    NoSubscriptionLost
    SourcesNeverMix
    NearestContract
PROPERTIES
    InstantDisconnectsFallBack
CHECK_DEADLOCK FALSE
