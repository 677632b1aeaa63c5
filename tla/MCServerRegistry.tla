-------------------------- MODULE MCServerRegistry --------------------------
(* Small instances of ServerRegistry.                                      *)
EXTENDS ServerRegistry, TLC

CONSTANTS g1, g2, g3, n1, n2, k1, s1, s2, s3

OneServer == g1 :> n1
OneNode == n1 :> k1

ThreeServers == g1 :> n1 @@ g2 :> n1 @@ g3 :> n2
TwoNodes == n1 :> k1 @@ n2 :> k1

(* Signs are drawn at random, and g1 and g2 have the same configuration.   *)
SymmetryAll == Permutations(Sign) \cup Permutations({g1, g2})
=============================================================================
