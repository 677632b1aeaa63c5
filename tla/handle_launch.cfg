CONSTANTS
    c1 = c1 c2 = c2 c3 = c3 c4 = c4 None = None
    Ctx = {c1, c2, c3, c4}
    HandleMask = 7
    SlotSize = 2
    Name = {}
    MaxLaunch = 2
    MaxRegister = 5
SPECIFICATION Spec
INVARIANTS GrowAssert
SYMMETRY SymmetryCtx
CHECK_DEADLOCK FALSE
