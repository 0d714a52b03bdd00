SPECIFICATION Spec
CONSTANTS
    Schema <- MergeSchema
    Merges <- MergeCalls
    FreshLines <- CustomLines
INVARIANTS
    NothingLostSilently
    OriginNamesSource
    StrategyDecides
    AgreementIsSilent
    OneLinePerSlot
    ChildrenBelong
