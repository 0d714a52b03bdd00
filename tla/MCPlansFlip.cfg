SPECIFICATION DeviceSpec
CONSTANTS
    Schema <- PlanSchema
    Inputs <- FlipInputs
PROPERTIES
    ProtectedStays
