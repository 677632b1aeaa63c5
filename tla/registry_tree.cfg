CONSTANTS
    g1 = g1 g2 = g2 g3 = g3 n1 = n1 n2 = n2 k1 = k1 s1 = s1 s2 = s2 s3 = s3
    Nil = Nil
    Server = {g1, g2, g3}
    Node = {n1, n2}
    Kind = {k1}
    NodeOf <- ThreeServers
    KindOf <- TwoNodes
    Sign = {s1, s2, s3}
    MaxOnline = 1
    MaxMsg = 0
    MaxBuffer = 1
    Puller = {}
    MaxEvents = 1
SPECIFICATION Spec
INVARIANTS TypeOK TreeOK CountsOK
SYMMETRY SymmetryAll
