SPECIFICATION Spec
CONSTANTS
    Configs <- Programs
    Sizes = {44}
INVARIANT
    MaxPowerIs20dBm
