--------------------------- MODULE MCSessionScenes ---------------------------
(***************************************************************************)
(* Two small instances of SessionManager over the same variables.  One is  *)
(* chosen at the start: two accounts that share the pool of structs, or    *)
(* two handlers of the web platform or a game server that are suspended at *)
(* once.  Loading a user's data may fail.                                  *)
(***************************************************************************)
EXTENDS TLC

CONSTANTS Nil, p1, p2, p3, u1, u2, u3, s1, s2, s3, s4, a1, g1, i2, i3,
          x1, x2, x3, w1, w2, w3

VARIABLES scene, hashSession, hashPlatformID, hashUserID, item, sui, agent, co,
          disconnects, serverDowns, inGame, notices

vars == <<scene, hashSession, hashPlatformID, hashUserID, item, sui, agent, co,
          disconnects, serverDowns, inGame, notices>>

Servers == {g1}
OnePlatform == {p1}
OneUserID == {u1}
OneSui == {x1}
TwoSessions == {s1, s2}
SameOwner == (s1 :> p1) @@ (s2 :> p1)
SameUser == p1 :> u1
OneAgent == {a1}
FirstWorker == {w1}
TwoItems == {i2, i3}

(* Two accounts with a session each, and one connection.                   *)
TwoPlatforms == {p2, p3}
TwoUserIDs == {u2, u3}
OwnSessions == {s3, s4}
TwoSuis == {x2, x3}
OwnOwner == (s3 :> p2) @@ (s4 :> p3)
OwnUser == (p2 :> u2) @@ (p3 :> u3)
Accounts == INSTANCE SessionManager WITH
    PlatformID <- TwoPlatforms, UserID <- TwoUserIDs, Session <- OwnSessions,
    Agent <- OneAgent, Server <- Servers, Item <- TwoItems, Sui <- TwoSuis,
    Worker <- FirstWorker, Owner <- OwnOwner, DbUserID <- OwnUser, LoadMayFail <- TRUE

(* One account, and two other handlers at work on it.                      *)
TwoWorkers == {w2, w3}
Handlers == INSTANCE SessionManager WITH
    PlatformID <- OnePlatform, UserID <- OneUserID, Session <- TwoSessions,
    Agent <- OneAgent, Server <- Servers, Item <- TwoItems, Sui <- OneSui,
    Worker <- TwoWorkers, Owner <- SameOwner, DbUserID <- SameUser, LoadMayFail <- TRUE

Init ==
    \/ scene = "accounts" /\ Accounts!Init
    \/ scene = "handlers" /\ Handlers!Init

Next ==
    /\ scene' = scene
    /\ \/ scene = "accounts" /\ Accounts!Next
       \/ scene = "handlers" /\ Handlers!Next

Spec == Init /\ [][Next]_vars

(* Each permutation leaves the sets and functions of both scenes as they   *)
(* are: it exchanges two sessions of one account, or two accounts; two     *)
(* items; two structs, or two handlers.                                    *)
Exchange(on, x, y) == IF on THEN (x :> y) @@ (y :> x) ELSE (x :> x) @@ (y :> y)
SymmetryScenes ==
    {Exchange(k, s1, s2) @@ Exchange(k, p2, p3) @@ Exchange(k, u2, u3) @@ Exchange(k, s3, s4)
     @@ Exchange(l, i2, i3)
     @@ Exchange(m, x2, x3) @@ Exchange(m, w2, w3) : k, l, m \in BOOLEAN}

-----------------------------------------------------------------------------
(* LS_model_sessionManager.lua, with a second account and with a second    *)
(* suspended handler: the indexes agree, whoever is found through          *)
(* _hash.userID is there, no struct serves two accounts, status and agent  *)
(* go together, and a recorded connection is alive or reported but for the *)
(* two exceptions of AgentTracked.                                         *)
ScenesOK ==
    /\ scene = "accounts" => /\ Accounts!IndexOK /\ Accounts!UserIndexSound
                             /\ Accounts!SuiPoolOK /\ Accounts!LSAgentOK
                             /\ Accounts!AgentTracked
    /\ scene = "handlers" => /\ Handlers!IndexOK /\ Handlers!UserIndexSound
                             /\ Handlers!SuiPoolOK /\ Handlers!LSAgentOK
                             /\ Handlers!AgentTracked
=============================================================================
