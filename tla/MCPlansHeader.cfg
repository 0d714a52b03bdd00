SPECIFICATION DeviceSpec
CONSTANTS
    Schema <- PlanSchema
    Inputs <- HeaderInputs
INVARIANTS
    DefinitionsFirst
