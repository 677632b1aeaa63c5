CONSTANTS
    Nil = Nil
    p1 = p1 p2 = p2 p3 = p3 u1 = u1 u2 = u2 u3 = u3 s1 = s1 s2 = s2 s3 = s3 s4 = s4
    a1 = a1 g1 = g1 i2 = i2 i3 = i3
    x1 = x1 x2 = x2 x3 = x3 w1 = w1 w2 = w2 w3 = w3
SPECIFICATION Spec
INVARIANTS ScenesOK
SYMMETRY SymmetryScenes
