SPECIFICATION Spec
CONSTANTS
    WordMod = 8
    Values = {1, 2, 3}
INVARIANT HoldBelowPeriod
