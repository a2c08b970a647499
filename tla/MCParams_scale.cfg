SPECIFICATION Spec
CONSTANTS
    WordMod = 4
    Values = {0, 1, 2}
INVARIANT ScaleNotZero
