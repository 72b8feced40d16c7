SPECIFICATION Spec
CONSTANTS
    Keys = {"p"}
    Budget = 2
    CacheTtl = 0
    MaxDays = 1
    Callers = {"brain", "sentinel", "client"}
    Kinds <- MCKinds
    Costs = {1}
    Deciders = {"brain"}
    Watchers = {"sentinel"}
    Unbudgeted = {"client"}
INVARIANTS
    TypeOK
    AiMeansBudgetLeft
    FileAgrees
    OverrunBounded
    NoStrayAttempt
PROPERTIES
    NoAnswerDiscarded
    CallsEnd
