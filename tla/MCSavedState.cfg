SPECIFICATION Spec
CONSTANTS
    MaxVersions = 3
    Sharpes <- MCSharpes
    Brains = {b1, b2}
    Ratios <- MCRatios
    ShadowDays = 2
    MaxDay = 3
    NoBrain = NoBrain
    Posted <- MCPosted
    Suggested <- MCSuggested
    KillPcts <- MCKillPcts
    Unset = Unset
INVARIANTS
    TypeOK
    NewestIsWhole
    AdviceIsWhole
    OnlyTheOperatorStopsTheServer
PROPERTIES
    PromotedOnItsOwnRecord
