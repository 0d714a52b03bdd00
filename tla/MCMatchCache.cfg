SPECIFICATION FairSpec
CONSTANTS
    Callers = {g1, g2}
    Levels <- CommandLevels
    Lines <- CommandLines
    LitLen <- CommandLengths
    Exact <- CommandMatches
    Prefix <- CommandPrefixes
    NoDef = NoDef
    NoCall = NoCall
    NoMemo = NoMemo
INVARIANTS
    OwnOrder
PROPERTIES
    MatchSpec
    EveryCallReturns
