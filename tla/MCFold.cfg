SPECIFICATION Spec
CONSTANTS
    Roots <- RouterRoots
    Children <- RouterChildren
    Captures <- RouterCaptures
    ListArg <- RouterLists
    KeyArgs <- RouterKeys
    Kind <- RouterKinds
    Base <- RouterBases
    MembersKind <- RouterMembers
    Respell <- RouterRespells
    MaxRange = 8
    Words <- RouterWords
    Domain <- RouterDomain
    Reads <- RouterReads
    Sources <- RouterSources
    NoTree = NoTree
CHECK_DEADLOCK FALSE
INVARIANTS
    FoldLosesNothing
    OnlyWhatWasSaid
    FixedPoint
