CONSTANTS
    p1 = p1 u1 = u1 s1 = s1 s2 = s2 a1 = a1 a2 = a2 g1 = g1 i1 = i1 x1 = x1 w1 = w1
    Nil = Nil
    PlatformID = {p1}
    UserID = {u1}
    Session = {s1, s2}
    Agent = {a1, a2}
    Server = {g1}
    Item = {i1}
    Sui = {x1}
    Worker = {w1}
    Owner <- OneAccount
    DbUserID <- OneUser
    LoadMayFail = TRUE
SPECIFICATION Spec
INVARIANTS TypeOK IndexOK UserIndexSound SuiPoolOK LSAgentOK AgentTracked
SYMMETRY SymmetryAgents
