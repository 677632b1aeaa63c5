CONSTANTS
    c1 = c1 c2 = c2 c3 = c3 c4 = c4 None = None
    Ctx = {c1, c2, c3}
    HandleMask = 3
    SlotSize = 2
    Name = {1, 2, 3}
    MaxLaunch = 1
    MaxRegister = 5
SPECIFICATION Spec
INVARIANTS HandlesOK SweepComplete
PROPERTIES NamesOK
SYMMETRY SymmetryCtx
CHECK_DEADLOCK FALSE
