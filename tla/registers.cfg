SPECIFICATION Spec
CONSTANTS
    Configs <- AllConfigs
    Sizes = {1, 255}
INVARIANTS
    LinkAsConfigured
    CarrierWithinStep
    LowRateAndGainAgree
    OverCurrentTrips
    PowerAsAsked
PROPERTY
    LoraModeKept
