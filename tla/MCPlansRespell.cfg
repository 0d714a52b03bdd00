SPECIFICATION DeviceSpec
CONSTANTS
    Schema <- PlanSchema
    Inputs <- RespellInputs
INVARIANTS
    SplitsReported
