SPECIFICATION Spec
CONSTANTS
    Keys = {k1, k2, k3, k4, k5, k6}
    Times = {1, 2, 3}
    Never = Never
SYMMETRY KeySymmetry
INVARIANTS
    HeapOrdered
    IndexExact
    DrainIsExact
PROPERTIES
    ImplementsTimers
CHECK_DEADLOCK FALSE
