SPECIFICATION DeviceSpec
CONSTANTS
    Schema <- PlanSchema
    Inputs <- PlanInputs
INVARIANTS
    Converges
    NoSlotLost
    EqualIsEmpty
    RefsHold
    NamesHold
    ExclusionsHold
    RequiresHold
    InItsSection
PROPERTIES
    ProtectedStays
    ProvidedStays
    Terminates
