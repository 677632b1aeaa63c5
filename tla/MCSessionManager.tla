-------------------------- MODULE MCSessionManager --------------------------
(* SessionManager with one account that two connections take from each     *)
(* other.                                                                  *)
EXTENDS SessionManager, TLC

CONSTANTS p1, u1, s1, s2, a1, a2, g1, i1, x1, w1

OneAccount == (s1 :> p1) @@ (s2 :> p1)
OneUser    == p1 :> u1

(* No definition tells apart two sessions of one account or two agents.    *)
SymmetryAgents ==
    {f @@ g : f \in Permutations(Session), g \in Permutations(Agent)}
=============================================================================
