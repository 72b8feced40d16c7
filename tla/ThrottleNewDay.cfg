SPECIFICATION Spec
CONSTANTS
    Keys = {"p"}
    Budget = 2
    CacheTtl = 0
    MaxDays = 1
    Callers = {"brain"}
    Kinds <- MCKinds
    Costs = {1}
    Deciders = {"brain"}
    Watchers = {}
    Unbudgeted = {}
PROPERTY
    RefusedOnlyWhenSpent
