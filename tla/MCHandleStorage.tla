-------------------------- MODULE MCHandleStorage --------------------------
(* Small instances of HandleStorage.                                       *)
EXTENDS HandleStorage, TLC

CONSTANTS c1, c2, c3, c4

(* Contexts are alike.                                                     *)
SymmetryCtx == Permutations(Ctx)
=============================================================================
