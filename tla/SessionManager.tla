--------------------------- MODULE SessionManager ---------------------------
(***************************************************************************)
(* The login server's session manager (LS_model_sessionManager.lua) with   *)
(* the parts it exchanges state with: the login request of                 *)
(* LS_controller_login.lua and the cache of a connection agent             *)
(* (tcpConnection.lua).                                                    *)
(*                                                                         *)
(* A skynet service is one Lua state: a handler runs alone until it yields *)
(* in skynet.call, and any number of other handlers run before it is       *)
(* resumed.  A handler that never yields is one action here.  A handler    *)
(* that yields is one action per segment between two yields; what it keeps *)
(* in its locals meanwhile is its record in co.  co[a], a an agent, is the *)
(* login request of that connection (the agent's critical section lets it  *)
(* have one at a time); co[w], w a worker, is a handler started by anyone  *)
(* else.  The reply of an agent to clearCache, and the resumption of the   *)
(* handler that waits for it, are one step: clearCache touches nothing     *)
(* but the agent, and whatever the agent sends afterwards arrives later.   *)
(***************************************************************************)
EXTENDS FiniteSets, Naturals

CONSTANTS
    PlatformID, \* accounts of the web platform
    UserID,     \* accounts of the game database
    Session,    \* session strings handed out by the web platform
    Agent,      \* connection services (tcpConnection)
    Server,     \* game servers
    Item,       \* Lua tables made by createItem
    Sui,        \* ServerUserItem structs of the pool (CItemBuffer)
    Worker,     \* bound: handlers of the web and of game servers suspended at a time
    Owner,      \* the platform account a session string was handed out for
    DbUserID,   \* the user the accounts database gives a platform account
    LoadMayFail,\* whether the services behind cmd_loadUserData may raise an error
    Nil         \* nil in Lua, 0 for an agent or a server

ASSUME OwnerAssumption == Owner \in [Session -> PlatformID]
ASSUME DbUserIDAssumption ==
    /\ DbUserID \in [PlatformID -> UserID]
    /\ \A p, q \in PlatformID : DbUserID[p] = DbUserID[q] => p = q
ASSUME LoadMayFailAssumption == LoadMayFail \in BOOLEAN
ASSUME NilAssumption ==
    Nil \notin PlatformID \cup UserID \cup Session \cup Agent \cup Server
               \cup Item \cup Sui \cup Worker
ASSUME DisjointAssumption == Agent \cap Worker = {}

VARIABLES
    hashSession,    \* _hash.session
    hashPlatformID, \* _hash.platformID
    hashUserID,     \* _hash.userID
    item,           \* the contents of the item tables
    sui,            \* the contents of the user structs
    agent,          \* the connection services
    co,             \* the suspended handlers
    disconnects,    \* EVT_LS_CLIENT_DISCONNECT on its way: <<userID, agent>>
    serverDowns,    \* EVT_LS_GAMESERVER_DISCONNECT on its way
    inGame,         \* <<server, userID>>: the server was told the user may play there
    notices         \* EVT_LSNOTIFY_USER_LOGIN_OTHER_SERVER on its way: <<server, userID>>

hashes == <<hashSession, hashPlatformID, hashUserID>>
games  == <<serverDowns, inGame, notices>>
vars   == <<hashes, item, sui, agent, co, disconnects, games>>

OrNil(S) == S \cup {Nil}

LSStatus == {"US_LS", "US_LS_GS", "US_LS_GS_OFFLINE"}
GSStatus == {"US_GS", "US_GS_OFFLINE", "US_LS_GS", "US_LS_GS_OFFLINE"}
Status   == {"US_NULL"} \cup LSStatus \cup GSStatus

(* A timestamp is kept as what the sweep asks of it: nil, within its life  *)
(* time, or beyond it.                                                     *)
ItemRecord == [platformID : OrNil(PlatformID), session : OrNil(Session),
               sessionTS : {"fresh", "old"},
               sui : OrNil(Sui), suiTS : {"nil", "fresh", "old"}]
SuiRecord == [isInit : BOOLEAN, userID : OrNil(UserID), agent : OrNil(Agent),
              userStatus : Status, serverID : OrNil(Server)]
(* failed is a history field: the connection ended because the load of its *)
(* login raised an error.                                                  *)
AgentRecord == [open : BOOLEAN, userID : OrNil(UserID), sui : OrNil(Sui),
                exit : BOOLEAN, failed : BOOLEAN]
CoRecord == [op : {"idle", "login", "session", "logout", "down"},
             at : {"-", "lookup", "find", "switch", "register", "kick", "load", "reply"},
             session : OrNil(Session), platformID : OrNil(PlatformID),
             item : OrNil(Item), sui : OrNil(Sui), kick : OrNil(Agent),
             status : Status, server : OrNil(Server), userID : OrNil(UserID),
             cleared : BOOLEAN, todo : SUBSET Session, dirty : BOOLEAN]

NoItem  == [platformID |-> Nil, session |-> Nil, sessionTS |-> "fresh",
            sui |-> Nil, suiTS |-> "nil"]
NoSui   == [isInit |-> FALSE, userID |-> Nil, agent |-> Nil,
            userStatus |-> "US_NULL", serverID |-> Nil]
Closed  == [open |-> FALSE, userID |-> Nil, sui |-> Nil, exit |-> FALSE,
            failed |-> FALSE]
Idle    == [op |-> "idle", at |-> "-", session |-> Nil, platformID |-> Nil,
            item |-> Nil, sui |-> Nil, kick |-> Nil, status |-> "US_NULL",
            server |-> Nil, userID |-> Nil, cleared |-> FALSE, todo |-> {},
            dirty |-> FALSE]

TypeOK ==
    /\ hashSession    \in [Session -> OrNil(Item)]
    /\ hashPlatformID \in [PlatformID -> OrNil(Item)]
    /\ hashUserID     \in [UserID -> OrNil(Item)]
    /\ item  \in [Item -> ItemRecord]
    /\ sui   \in [Sui -> SuiRecord]
    /\ agent \in [Agent -> AgentRecord]
    /\ co    \in [Agent \cup Worker -> CoRecord]
    /\ disconnects \subseteq UserID \X Agent
    /\ serverDowns \subseteq Server
    /\ inGame  \subseteq Server \X OrNil(UserID)
    /\ notices \subseteq OrNil(Server) \X OrNil(UserID)

Init ==
    /\ hashSession    = [s \in Session |-> Nil]
    /\ hashPlatformID = [p \in PlatformID |-> Nil]
    /\ hashUserID     = [u \in UserID |-> Nil]
    /\ item  = [i \in Item |-> NoItem]
    /\ sui   = [x \in Sui |-> NoSui]
    /\ agent = [a \in Agent |-> Closed]
    /\ co    = [c \in Agent \cup Worker |-> Idle]
    /\ disconnects = {} /\ serverDowns = {} /\ inGame = {} /\ notices = {}

-----------------------------------------------------------------------------
(* The user struct an item points to, and where it stands.                 *)
HasSui(i)  == item[i].sui # Nil
SuiOf(i)   == sui[item[i].sui]
StatusOf(i) == SuiOf(i).userStatus

WithoutLSMutant(st) == \* the branch of US_LS leaves newUserStatus nil
    CASE st = "US_LS"            -> Nil
      [] st = "US_LS_GS"         -> "US_GS"
      [] st = "US_LS_GS_OFFLINE" -> "US_GS_OFFLINE"
      [] OTHER                   -> st

(* What remains of a status when the lobby side, or the game side, leaves. *)
WithoutLS(st) == CASE st = "US_LS"            -> "US_NULL"
                   [] st = "US_LS_GS"         -> "US_GS"
                   [] st = "US_LS_GS_OFFLINE" -> "US_GS_OFFLINE"
                   [] OTHER                   -> st
WithLS(st)    == CASE st = "US_NULL"       -> "US_LS"
                   [] st = "US_GS"         -> "US_LS_GS"
                   [] st = "US_GS_OFFLINE" -> "US_LS_GS_OFFLINE"
                   [] OTHER                -> st
GSOnline(st)  == IF st \in LSStatus THEN "US_LS_GS" ELSE "US_GS"
GSOffline(st) == IF st \in LSStatus THEN "US_LS_GS_OFFLINE" ELSE "US_GS_OFFLINE"
WithoutGS(st) == IF st \in LSStatus THEN "US_LS" ELSE "US_NULL"

(* A table nobody refers to may be allocated anew: Lua has collected it.   *)
Unreferenced(i) ==
    /\ \A s \in Session : hashSession[s] # i
    /\ \A p \in PlatformID : hashPlatformID[p] # i
    /\ \A u \in UserID : hashUserID[u] # i
    /\ \A c \in Agent \cup Worker : co[c].item # i

(* kickLSAgent: after clearCache has been answered the agent is told to    *)
(* exit.  A dead agent makes the call fail, which the pcall swallows.      *)
Kicked(r) ==
    [a \in Agent |->
        CASE a # r.kick \/ ~agent[a].open -> agent[a]
          [] r.cleared -> [agent[a] EXCEPT !.exit = TRUE]
          [] OTHER -> [agent[a] EXCEPT !.userID = Nil, !.sui = Nil, !.exit = TRUE]]

(* Messages from the session manager to an agent keep their order: a       *)
(* clearCache still unanswered when setCache is sent was handled before.   *)
SetCache(f, a) == [c \in DOMAIN f |-> IF f[c].kick = a
                                      THEN [f[c] EXCEPT !.cleared = TRUE] ELSE f[c]]

(* kickGS sends through LS_model_GSProxy to the server in the user struct. *)
KickGS(i) == notices \cup {<<SuiOf(i).serverID, SuiOf(i).userID>>}

-----------------------------------------------------------------------------
(* cmd_registerSession: the web platform hands out session s.  A known     *)
(* account gets the new session in place of the old one, and whoever is    *)
(* logged in to it is thrown out.                                          *)
CreateItem(s) ==
    \E i \in Item :
        /\ Unreferenced(i)
        /\ item' = [item EXCEPT ![i] = [NoItem EXCEPT !.platformID = Owner[s],
                                                      !.session = s]]
        /\ hashPlatformID' = [hashPlatformID EXCEPT ![Owner[s]] = i]
        /\ hashSession' = [hashSession EXCEPT ![s] = i]

(* The account moves from its old session to the new one.                  *)
SessionMovedMutant(i, s) == [hashSession EXCEPT ![s] = i] \* the old one stays
SessionMoved(i, s) == [hashSession EXCEPT ![item[i].session] = Nil, ![s] = i]

(* Assigning to a key the table does not have while a traversal of         *)
(* _hash.session is suspended leaves that traversal undefined.             *)
MarkDirty(f, s) ==
    IF hashSession[s] = Nil
    THEN [c \in DOMAIN f |-> IF f[c].op = "down" THEN [f[c] EXCEPT !.dirty = TRUE] ELSE f[c]]
    ELSE f

RegisterSession(w, s) ==
    LET i == hashPlatformID[Owner[s]] IN
    /\ co[w] = Idle
    /\ IF i = Nil
       THEN /\ CreateItem(s)
            /\ co' = MarkDirty(co, s)
            /\ UNCHANGED notices
       ELSE /\ hashSession' = SessionMoved(i, s)
            /\ item' = [item EXCEPT ![i].session = s, ![i].sessionTS = "fresh"]
            /\ UNCHANGED hashPlatformID
            /\ IF HasSui(i) /\ StatusOf(i) \in LSStatus
               THEN /\ co' = MarkDirty([co EXCEPT ![w] =
                               [Idle EXCEPT !.op = "session", !.at = "kick", !.item = i,
                                            !.kick = SuiOf(i).agent,
                                            !.status = WithoutLS(StatusOf(i)),
                                            !.server = SuiOf(i).serverID,
                                            !.userID = SuiOf(i).userID]], s)
                    /\ UNCHANGED notices
               ELSE /\ co' = MarkDirty(co, s)
                    /\ notices' = IF HasSui(i) /\ StatusOf(i) = "US_GS"
                                  THEN KickGS(i) ELSE notices
    /\ UNCHANGED <<hashUserID, sui, agent, disconnects, serverDowns, inGame>>

(* The rest of kickLS, with the status chosen before the yield, and for a  *)
(* user who was playing kickGS with the server read before the yield.      *)
RegisterSessionResume(w) ==
    LET r == co[w]
        x == item[r.item].sui IN
    /\ r.op = "session" /\ r.at = "kick"
    /\ agent' = Kicked(r)
    /\ co' = [co EXCEPT ![w] = Idle]
    /\ IF x = Nil \* setAttribute raises "not an userdata"
       THEN UNCHANGED <<item, sui, notices>>
       ELSE /\ sui' = [sui EXCEPT ![x].agent = Nil, ![x].userStatus = r.status]
            /\ item' = IF r.status = "US_NULL"
                       THEN [item EXCEPT ![r.item].suiTS = "fresh"] ELSE item
            /\ notices' = IF r.status = "US_GS"
                          THEN notices \cup {<<r.server, r.userID>>} ELSE notices
    /\ UNCHANGED <<hashes, disconnects, serverDowns, inGame>>

-----------------------------------------------------------------------------
(* The connection agent.  An agent value stands for a new service once     *)
(* nothing refers to the old one.                                          *)
Connect(a) ==
    /\ ~agent[a].open
    /\ \A x \in Sui : sui[x].agent # a
    /\ \A c \in Agent \cup Worker : co[c].kick # a
    /\ \A u \in UserID : <<u, a>> \notin disconnects
    /\ agent' = [agent EXCEPT ![a] = [Closed EXCEPT !.open = TRUE]]
    /\ UNCHANGED <<hashes, item, sui, co, disconnects, games>>

(* tcpConnection's exit: a connection that is logged in reports that it is *)
(* gone.                                                                   *)
ExitEventsMutant(f, a) == disconnects \* nobody is told
ExitEvents(f, a) == IF f[a].userID = Nil THEN disconnects
                    ELSE disconnects \cup {<<f[a].userID, a>>}

(* The exit command, sent by the gateway when the socket closes or by      *)
(* kickLSAgent.  It waits in the critical section behind a login request.  *)
AgentExit(a) ==
    /\ agent[a].open /\ co[a] = Idle
    /\ disconnects' = ExitEvents(agent, a)
    /\ agent' = [agent EXCEPT ![a] = Closed]
    /\ UNCHANGED <<hashes, item, sui, co, games>>

(* A login request that raises an error makes pbPacketDispatch exit there  *)
(* and then.                                                               *)
LoginError(a, f) ==
    /\ disconnects' = ExitEvents(f, a)
    /\ agent' = [f EXCEPT ![a] = Closed]
    /\ co' = [co EXCEPT ![a] = Idle]

-----------------------------------------------------------------------------
(* The login request 0x000100 of LS_controller_login.  Its frequency       *)
(* control lets a session in again after TIMEOUT_THRESHOLD_TICK whatever   *)
(* became of the first request, so it excludes no interleaving and is left *)
(* out.                                                                    *)
LoginRequest(a, s) ==
    /\ agent[a].open /\ co[a] = Idle
    /\ agent[a].userID = Nil
    /\ co' = [co EXCEPT ![a] = [Idle EXCEPT !.op = "login", !.at = "lookup", !.session = s]]
    /\ UNCHANGED <<hashes, item, sui, agent, disconnects, games>>

(* getPlatformIDBySession, retried while the session is unknown; after     *)
(* RETRY_COUNT failures the request ends.                                  *)
LoginLookupMutant(a) == \* retries without end
    LET i == hashSession[co[a].session] IN
    /\ co[a].at = "lookup" /\ i # Nil
    /\ co' = [co EXCEPT ![a] = [@ EXCEPT !.at = "find", !.session = Nil,
                                         !.platformID = item[i].platformID]]
    /\ UNCHANGED <<hashes, item, sui, agent, disconnects, games>>
LoginLookup(a) ==
    LET i == hashSession[co[a].session] IN
    /\ co[a].at = "lookup"
    /\ co' = [co EXCEPT ![a] =
                IF i = Nil THEN Idle
                ELSE [@ EXCEPT !.at = "find", !.session = Nil, !.platformID = item[i].platformID]]
    /\ UNCHANGED <<hashes, item, sui, agent, disconnects, games>>

(* cmd_getUserItemByPlatformID with updateSuiTS: keeps a struct that is    *)
(* about to be taken over from expiring under the request.                 *)
LoginFind(a) ==
    LET i == hashPlatformID[co[a].platformID] IN
    /\ co[a].at = "find"
    /\ IF i # Nil /\ HasSui(i)
       THEN /\ co' = [co EXCEPT ![a] = [@ EXCEPT !.at = "switch", !.sui = item[i].sui]]
            /\ item' = IF item[i].suiTS = "nil" THEN item
                       ELSE [item EXCEPT ![i].suiTS = "fresh"]
       ELSE /\ co' = [co EXCEPT ![a] = [@ EXCEPT !.at = "register"]]
            /\ UNCHANGED item
    /\ UNCHANGED <<hashes, sui, agent, disconnects, games>>

(* cmd_switchUserItem up to its first yield.                               *)
SwitchUserItem(a) ==
    LET i == hashPlatformID[co[a].platformID]
        x == item[i].sui IN
    /\ co[a].at = "switch"
    /\ IF i = Nil \/ ~HasSui(i)
       THEN /\ LoginError(a, agent)
            /\ UNCHANGED <<item, sui>>
       ELSE /\ item' = [item EXCEPT ![i].sessionTS = "fresh", ![i].suiTS = "nil"]
            /\ IF StatusOf(i) \in LSStatus
               THEN /\ co' = [co EXCEPT ![a] = [@ EXCEPT !.at = "kick", !.item = i,
                                                      !.kick = SuiOf(i).agent,
                                                      !.status = StatusOf(i),
                                                      !.userID = SuiOf(i).userID]]
                    /\ UNCHANGED sui
               ELSE /\ co' = [co EXCEPT ![a] = [@ EXCEPT !.at = "load", !.item = i,
                                                      !.userID = SuiOf(i).userID]]
                    /\ sui' = [sui EXCEPT ![x].agent = a,
                                          ![x].userStatus = WithLS(StatusOf(i))]
            /\ UNCHANGED <<agent, disconnects>>
    /\ UNCHANGED <<hashes, games>>

(* kickLSAgent has returned: the new agent goes into whatever struct the   *)
(* item has now, with the status read before the yield.                    *)
SwitchUserItemKicked(a) ==
    LET r == co[a]
        x == item[r.item].sui IN
    /\ r.op = "login" /\ r.at = "kick"
    /\ IF x = Nil
       THEN /\ LoginError(a, Kicked(r))
            /\ UNCHANGED sui
       ELSE /\ agent' = Kicked(r)
            /\ sui' = [sui EXCEPT ![x].agent = a, ![x].userStatus = r.status]
            /\ co' = [co EXCEPT ![a] = [@ EXCEPT !.at = "load", !.kick = Nil,
                                              !.cleared = FALSE, !.status = "US_NULL"]]
            /\ UNCHANGED disconnects
    /\ UNCHANGED <<hashes, item, games>>

(* cmd_loadUserData has returned; setCache reaches the agent before any    *)
(* later message of the session manager does.                              *)
SwitchUserItemLoaded(a) ==
    LET r == co[a] IN
    /\ r.op = "login" /\ r.at = "load"
    /\ agent' = [agent EXCEPT ![a].userID = r.userID, ![a].sui = item[r.item].sui]
    /\ co' = SetCache([co EXCEPT ![a] = [@ EXCEPT !.at = "reply", !.item = Nil, !.userID = Nil]], a)
    /\ UNCHANGED <<hashes, item, sui, disconnects, games>>

(* cmd_loadUserData raises an error: the agent exits like after any other  *)
(* error, with nothing cached, and stays recorded in the struct.           *)
SwitchUserItemLoadError(a) ==
    /\ LoadMayFail
    /\ co[a].op = "login" /\ co[a].at = "load"
    /\ disconnects' = ExitEvents(agent, a)
    /\ agent' = [agent EXCEPT ![a] = [Closed EXCEPT !.failed = TRUE]]
    /\ co' = [co EXCEPT ![a] = Idle]
    /\ UNCHANGED <<hashes, item, sui, games>>

(* cmd_registerUser: a struct from the pool for an account that has none.  *)
RegisterUser(a) ==
    LET p == co[a].platformID
        i == hashPlatformID[p] IN
    /\ co[a].at = "register"
    /\ IF i = Nil \/ HasSui(i)
       THEN /\ LoginError(a, agent)
            /\ UNCHANGED <<hashUserID, item, sui>>
       ELSE \E x \in Sui :
            /\ ~sui[x].isInit
            /\ sui' = [sui EXCEPT ![x] = [isInit |-> TRUE, userID |-> DbUserID[p],
                                          agent |-> a, userStatus |-> "US_LS",
                                          serverID |-> Nil]]
            /\ item' = [item EXCEPT ![i].sui = x, ![i].sessionTS = "fresh",
                                    ![i].suiTS = "nil"]
            /\ hashUserID' = [hashUserID EXCEPT ![DbUserID[p]] = i]
            /\ agent' = [agent EXCEPT ![a].userID = DbUserID[p], ![a].sui = x]
            /\ co' = SetCache([co EXCEPT ![a] = [@ EXCEPT !.at = "reply", !.item = i]], a)
            /\ UNCHANGED disconnects
    /\ UNCHANGED <<hashSession, hashPlatformID, games>>

(* The controller reads the struct once more to answer the client: the one *)
(* it found first, or the one registerUser returned.                       *)
LoginReply(a) ==
    LET r == co[a]
        x == IF r.sui # Nil THEN r.sui ELSE item[r.item].sui IN
    /\ r.at = "reply"
    /\ IF x # Nil /\ sui[x].isInit
       THEN /\ co' = [co EXCEPT ![a] = Idle]
            /\ UNCHANGED <<agent, disconnects>>
       ELSE LoginError(a, agent)
    /\ UNCHANGED <<hashes, item, sui, games>>

-----------------------------------------------------------------------------
(* cmd_gs_login: a game server asks whether the client with session s may  *)
(* play on it.  The answers that change nothing are left out.              *)
GsLogin(g, s) ==
    LET i == hashSession[s]
        x == item[i].sui
        st == StatusOf(i) IN
    /\ i # Nil /\ HasSui(i)
    /\ IF st \in GSStatus /\ SuiOf(i).serverID # g
       THEN \* GLC_RETRY
            /\ notices' = KickGS(i)
            /\ UNCHANGED <<item, sui, inGame>>
       ELSE \* GLC_SUCCESS
            /\ sui' = [sui EXCEPT ![x].userStatus = GSOnline(st), ![x].serverID = g]
            /\ item' = [item EXCEPT ![i].suiTS = "nil"]
            /\ inGame' = inGame \cup {<<g, SuiOf(i).userID>>}
            /\ UNCHANGED notices
    /\ UNCHANGED <<hashes, agent, co, disconnects, serverDowns>>

(* cmd_gs_logout up to its yield; a server the user is not on, and a       *)
(* status outside GSStatus, raise an error that changes nothing.  offline  *)
(* is data.bOffLine.                                                       *)
CmdGsLogout(w, g, u, offline) ==
    LET i == hashUserID[u]
        x == item[i].sui
        st == WithoutGS(StatusOf(i)) IN
    /\ co[w] = Idle
    /\ IF i # Nil /\ HasSui(i) /\ StatusOf(i) \in GSStatus /\ SuiOf(i).serverID = g
       THEN /\ sui' = [sui EXCEPT ![x].userStatus = st, ![x].serverID = Nil]
            /\ IF offline
               THEN /\ item' = IF st = "US_NULL" THEN [item EXCEPT ![i].suiTS = "fresh"]
                               ELSE item
                    /\ UNCHANGED co
               ELSE /\ co' = [co EXCEPT ![w] = [Idle EXCEPT !.op = "logout", !.at = "load",
                                                           !.item = i, !.status = st]]
                    /\ UNCHANGED item
       ELSE UNCHANGED <<item, sui, co>>
    /\ UNCHANGED <<hashes, agent, disconnects, serverDowns>>

(* A player leaves the game server.                                        *)
GsLogout(w, g, u, offline) ==
    /\ <<g, u>> \in inGame
    /\ inGame' = inGame \ {<<g, u>>}
    /\ UNCHANGED notices
    /\ CmdGsLogout(w, g, u, offline)

(* A game server obeys kickGS; it logs out a user it does not know as well *)
(* (GS_model_userManager, kickUser).                                       *)
GsKicked(w, g, u) ==
    /\ <<g, u>> \in notices
    /\ notices' = notices \ {<<g, u>>}
    /\ inGame' = inGame \ {<<g, u>>}
    /\ CmdGsLogout(w, g, u, FALSE)

(* The end of cmd_gs_logout, with the status chosen before the yield.      *)
GsLogoutLoaded(w) ==
    /\ co[w].op = "logout"
    /\ item' = IF co[w].status = "US_NULL"
               THEN [item EXCEPT ![co[w].item].suiTS = "fresh"] ELSE item
    /\ co' = [co EXCEPT ![w] = Idle]
    /\ UNCHANGED <<hashes, sui, agent, disconnects, games>>

GsLogoutLoadError(w) ==
    /\ LoadMayFail
    /\ co[w].op = "logout"
    /\ co' = [co EXCEPT ![w] = Idle]
    /\ UNCHANGED <<hashes, item, sui, agent, disconnects, games>>

(* cmd_gs_offline: the game connection dropped, the seat is kept.          *)
GsOffline(g, u) ==
    LET i == hashUserID[u] IN
    /\ <<g, u>> \in inGame
    /\ i # Nil /\ HasSui(i) /\ StatusOf(i) \in GSStatus /\ SuiOf(i).serverID = g
    /\ sui' = [sui EXCEPT ![item[i].sui].userStatus = GSOffline(StatusOf(i))]
    /\ UNCHANGED <<hashes, item, agent, co, disconnects, games>>

-----------------------------------------------------------------------------
(* cmd_onEventClientDisconnect: looks the user up, not the agent.          *)
OnEventClientDisconnectMutant(u, a) == \* the agent is left in the struct
    LET i == hashUserID[u]
        st == WithoutLS(StatusOf(i)) IN
    /\ <<u, a>> \in disconnects
    /\ disconnects' = disconnects \ {<<u, a>>}
    /\ IF i # Nil /\ HasSui(i)
       THEN /\ sui' = [sui EXCEPT ![item[i].sui].userStatus = st]
            /\ item' = IF st = "US_NULL" THEN [item EXCEPT ![i].suiTS = "fresh"] ELSE item
       ELSE UNCHANGED <<item, sui>>
    /\ UNCHANGED <<hashes, agent, co, games>>
OnEventClientDisconnect(u, a) ==
    LET i == hashUserID[u]
        x == item[i].sui
        st == WithoutLS(StatusOf(i)) IN
    /\ <<u, a>> \in disconnects
    /\ disconnects' = disconnects \ {<<u, a>>}
    /\ IF i # Nil /\ HasSui(i)
       THEN /\ sui' = [sui EXCEPT ![x].agent = Nil, ![x].userStatus = st]
            /\ item' = IF st = "US_NULL" THEN [item EXCEPT ![i].suiTS = "fresh"] ELSE item
       ELSE UNCHANGED <<item, sui>>
    /\ UNCHANGED <<hashes, agent, co, games>>

(* A game server dies: its players are gone, and LS_model_serverManager    *)
(* reports it when the heartbeats stop.  It cannot register, miss its      *)
(* heartbeats and be reported again within one clearCache round trip.      *)
ServerDown(g) ==
    /\ g \notin serverDowns
    /\ \A w \in Worker : co[w].op = "down" => co[w].server # g
    /\ serverDowns' = serverDowns \cup {g}
    /\ inGame'  = {e \in inGame : e[1] # g}
    /\ notices' = {e \in notices : e[1] # g}
    /\ UNCHANGED <<hashes, item, sui, agent, co, disconnects>>

(* The traversal of _hash.session in cmd_onEventGameServerDisconnect.      *)
OnServer(g, s) ==
    LET i == hashSession[s] IN i # Nil /\ HasSui(i) /\ SuiOf(i).serverID = g
KickFirst(g, s) == OnServer(g, s) /\ SuiOf(hashSession[s]).agent # Nil

(* Items whose struct goes back to the pool (CItemBuffer.release resets it *)
(* and ignores nil), with the users taken out of the index.                *)
ReleaseSuiMutant(Is, Us) == \* the users stay in the index
    /\ sui' = [x \in Sui |-> IF x \in {item[i].sui : i \in Is} THEN NoSui ELSE sui[x]]
    /\ UNCHANGED hashUserID
ReleaseSui(Is, Us) ==
    LET Xs == {item[i].sui : i \in Is} IN
    /\ sui' = [x \in Sui |-> IF x \in Xs THEN NoSui ELSE sui[x]]
    /\ hashUserID' = [u \in UserID |-> IF u \in Us THEN Nil ELSE hashUserID[u]]
WithoutSuiMutant(i) == [item[i] EXCEPT !.suiTS = "nil"] \* the item keeps the struct
WithoutSui(i) == [item[i] EXCEPT !.sui = Nil, !.suiTS = "nil"]

(* One segment of the traversal: with the sessions in T to visit, those in *)
(* D are dealt with before the traversal ends or yields in kickLSAgent.    *)
(* Is0, Us0: what the resumed iteration releases first.                    *)
Traverse(w, g, T, Is0, Us0) ==
    LET Due  == {s \in T : OnServer(g, s) /\ hashSession[s] \notin Is0}
        Wait == {s \in Due : KickFirst(g, s)} IN
    \E D \in SUBSET (Due \ Wait) :
        LET Is == {hashSession[s] : s \in D} IN
        /\ ReleaseSui(Is0 \cup Is, Us0 \cup {SuiOf(i).userID : i \in Is})
        /\ item' = [i \in Item |-> IF i \in Is0 \cup Is THEN WithoutSui(i) ELSE item[i]]
        /\ \/ /\ Wait = {} /\ D = Due
              /\ co' = [co EXCEPT ![w] = Idle]
           \/ \E s \in Wait :
                LET i == hashSession[s] IN
                co' = [co EXCEPT ![w] =
                         [Idle EXCEPT !.op = "down", !.at = "kick", !.server = g,
                                      !.item = i, !.kick = SuiOf(i).agent,
                                      !.userID = SuiOf(i).userID,
                                      !.todo = T \ (D \cup {s}),
                                      !.dirty = co[w].dirty]]

OnEventGameServerDisconnect(w, g) ==
    /\ co[w] = Idle
    /\ g \in serverDowns
    /\ serverDowns' = serverDowns \ {g}
    /\ Traverse(w, g, Session, {}, {})
    /\ UNCHANGED <<hashSession, hashPlatformID, agent, disconnects, inGame, notices>>

(* After the yield the iteration releases the struct the item has now.     *)
(* The traversal goes on over what is left, or, when the table was         *)
(* assigned a new key meanwhile, over any part of the table.               *)
OnEventGameServerDisconnectResume(w) ==
    LET r == co[w] IN
    /\ r.op = "down"
    /\ agent' = Kicked(r)
    /\ \E T \in IF r.dirty THEN SUBSET Session ELSE {r.todo} :
           Traverse(w, r.server, T, {r.item}, {r.userID})
    /\ UNCHANGED <<hashSession, hashPlatformID, disconnects, games>>

-----------------------------------------------------------------------------
(* cleanExpiredInfo, the timer.  It raises an error at an expired struct   *)
(* whose status is not US_NULL; the sessions visited before, D, have been  *)
(* dealt with.  A table that left the indexes keeps nothing a suspended    *)
(* handler still reads.                                                    *)
Expired(i)  == HasSui(i) /\ item[i].suiTS = "old"
Unexpected(i) == Expired(i) /\ StatusOf(i) # "US_NULL"

CleanExpiredInfo ==
    LET Live == {s \in Session : hashSession[s] # Nil}
        Bad  == {s \in Live : Unexpected(hashSession[s])} IN
    \E D \in SUBSET (Live \ Bad) :
        LET Is   == {hashSession[s] : s \in D}
            Rel  == {i \in Is : Expired(i)}
            Gone == {i \in Is : (i \in Rel \/ ~HasSui(i)) /\ item[i].sessionTS = "old"} IN
        /\ Bad = {} => D = Live
        /\ Rel \cup Gone # {}
        /\ ReleaseSui(Rel, {SuiOf(i).userID : i \in Rel})
        /\ item' = [i \in Item |-> CASE i \in Gone -> NoItem
                                     [] i \in Rel \ Gone -> WithoutSui(i)
                                     [] OTHER -> item[i]]
        /\ hashSession' = [s \in Session |->
                             IF \E i \in Gone : item[i].session = s THEN Nil ELSE hashSession[s]]
        /\ hashPlatformID' = [p \in PlatformID |->
                             IF \E i \in Gone : item[i].platformID = p THEN Nil ELSE hashPlatformID[p]]
        /\ UNCHANGED <<agent, co, disconnects, games>>

(* Time passes.  A life time (300 s, 3 h) does not run out within one      *)
(* clearCache round trip: the agent answers it outside its critical        *)
(* section.                                                                *)
TimePasses(i) ==
    /\ \A c \in Agent \cup Worker : co[c].at # "kick"
    /\ \/ /\ item[i].suiTS = "fresh"
          /\ item' = [item EXCEPT ![i].suiTS = "old"]
       \/ /\ item[i].platformID # Nil /\ item[i].sessionTS = "fresh"
          /\ item' = [item EXCEPT ![i].sessionTS = "old"]
    /\ UNCHANGED <<hashes, sui, agent, co, disconnects, games>>

-----------------------------------------------------------------------------
Next ==
    \/ \E w \in Worker, s \in Session : RegisterSession(w, s)
    \/ \E w \in Worker : RegisterSessionResume(w)
    \/ \E a \in Agent : Connect(a)
    \/ \E a \in Agent : AgentExit(a)
    \/ \E a \in Agent, s \in Session : LoginRequest(a, s)
    \/ \E a \in Agent : LoginLookup(a)
    \/ \E a \in Agent : LoginFind(a)
    \/ \E a \in Agent : SwitchUserItem(a)
    \/ \E a \in Agent : SwitchUserItemKicked(a)
    \/ \E a \in Agent : SwitchUserItemLoaded(a)
    \/ \E a \in Agent : SwitchUserItemLoadError(a)
    \/ \E a \in Agent : RegisterUser(a)
    \/ \E a \in Agent : LoginReply(a)
    \/ \E g \in Server, s \in Session : GsLogin(g, s)
    \/ \E w \in Worker, g \in Server, u \in UserID, off \in BOOLEAN : GsLogout(w, g, u, off)
    \/ \E w \in Worker, g \in Server, u \in UserID : GsKicked(w, g, u)
    \/ \E w \in Worker : GsLogoutLoaded(w)
    \/ \E w \in Worker : GsLogoutLoadError(w)
    \/ \E g \in Server, u \in UserID : GsOffline(g, u)
    \/ \E u \in UserID, a \in Agent : OnEventClientDisconnect(u, a)
    \/ \E g \in Server : ServerDown(g)
    \/ \E w \in Worker, g \in Server : OnEventGameServerDisconnect(w, g)
    \/ \E w \in Worker : OnEventGameServerDisconnectResume(w)
    \/ CleanExpiredInfo
    \/ \E i \in Item : TimePasses(i)

Spec == Init /\ [][Next]_vars

(* Messages are delivered and suspended handlers resumed; a loading        *)
(* service answers.  Clients, the web platform, game servers and the clock *)
(* owe nothing.  An exit command stands in the agent's critical section    *)
(* queue behind the requests that came before it, so requests cannot       *)
(* overtake it for ever.                                                   *)
LoginStep(a) == \/ LoginLookup(a) \/ LoginFind(a) \/ SwitchUserItem(a)
                \/ SwitchUserItemKicked(a) \/ SwitchUserItemLoaded(a)
                \/ RegisterUser(a) \/ LoginReply(a)
HandlerStep(w) == \/ RegisterSessionResume(w) \/ GsLogoutLoaded(w)
                  \/ OnEventGameServerDisconnectResume(w)
Fairness ==
    /\ \A a \in Agent : /\ WF_vars(LoginStep(a))
                        /\ SF_vars(agent[a].exit /\ AgentExit(a))
                        /\ \A u \in UserID : WF_vars(OnEventClientDisconnect(u, a))
    /\ \A w \in Worker : WF_vars(HandlerStep(w))
FairSpec == Spec /\ Fairness

-----------------------------------------------------------------------------
(* Each account has one item, reached by its platform ID and by the one    *)
(* session handed out last: registerSession retires the old session in the *)
(* same step, so a retired session never logs anyone in, and a session     *)
(* never leads to an account it was not handed out for.                    *)
IndexOK ==
    /\ \A p \in PlatformID : LET i == hashPlatformID[p] IN
          i # Nil => /\ item[i].platformID = p
                     /\ item[i].session \in Session
                     /\ hashSession[item[i].session] = i
    /\ \A s \in Session : LET i == hashSession[s] IN
          i # Nil => /\ item[i].session = s
                     /\ item[i].platformID = Owner[s]
                     /\ hashPlatformID[Owner[s]] = i

(* Whoever is found through _hash.userID is there: the entry leads to the  *)
(* item of an account, and the item's struct is the one of that user.      *)
UserIndexSound ==
    \A u \in UserID : LET i == hashUserID[u] IN
        i # Nil => HasSui(i) /\ SuiOf(i).userID = u /\ hashPlatformID[item[i].platformID] = i

(* _hash.userID holds exactly the accounts that have a user struct, and    *)
(* the struct is the one of that user.  The second half fails if           *)
(* cleanExpiredInfo drops an account while cmd_onEventGameServerDisconnect *)
(* is suspended on behalf of it: the resumed handler takes the entry of    *)
(* whoever came after from the index.                                      *)
UserIndexOK ==
    /\ UserIndexSound
    /\ \A p \in PlatformID : LET i == hashPlatformID[p] IN
          i # Nil /\ HasSui(i) => hashUserID[SuiOf(i).userID] = i

(* The pool hands out no struct twice: a struct an item points to is in    *)
(* use, and no other item points to it.                                    *)
SuiPoolOK ==
    \A i \in Item : HasSui(i) =>
        /\ SuiOf(i).isInit
        /\ \A j \in Item : item[j].sui = item[i].sui => i = j

(* A user counts as being in the lobby exactly when an agent is recorded   *)
(* for it, although handlers write both from values read before a yield.   *)
LSAgentOK ==
    \A x \in Sui : sui[x].userStatus \in LSStatus <=> sui[x].agent # Nil

(* No user stays in the lobby on behalf of a dead connection: a struct     *)
(* that names an agent is held by an item, and the agent is alive, or its  *)
(* disconnect is still on its way.  There are two ways for an agent to     *)
(* stay behind, and no third: cmd_loadUserData raised an error before      *)
(* anything was cached in it, so its exit reports nobody; and the user is  *)
(* not found through _hash.userID (see UserIndexOK), so the report found   *)
(* nobody.                                                                 *)
AgentTracked ==
    \A x \in Sui : LET a == sui[x].agent IN
        a # Nil => \E i \in Item :
            /\ item[i].sui = x
            /\ \/ agent[a].open
               \/ <<sui[x].userID, a>> \in disconnects
               \/ agent[a].failed
               \/ hashUserID[sui[x].userID] # i

(* Whoever is thrown out goes: an agent told to exit gets out of its       *)
(* critical section and closes.                                            *)
KickedAgentCloses == \A a \in Agent : agent[a].exit ~> ~agent[a].open

(* A connection that closed while it was in the lobby is forgotten, so the *)
(* clock of the user struct can start.                                     *)
DeadAgentForgotten ==
    \A a \in Agent, x \in Sui :
        (sui[x].agent = a /\ ~agent[a].open) ~> sui[x].agent # a

(* The error branch of cleanExpiredInfo says that an expired struct has    *)
(* status US_NULL.  It does not: a disconnect event handled while          *)
(* switchUserItem is suspended starts the clock of a user who is then put  *)
(* back into the lobby.                                                    *)
ExpiryExpected ==
    \A s \in Session : hashSession[s] # Nil => ~Unexpected(hashSession[s])

(* The error branch of cmd_gs_logout says that a user leaving a game       *)
(* server has one of the game statuses.  It need not: kickLS overwrites    *)
(* the status a gs_login set while kickLS was suspended.                   *)
LogoutExpected ==
    \A e \in inGame : LET i == hashUserID[e[2]] IN
        i # Nil => StatusOf(i) \in GSStatus

(* lsConst.lua calls the game statuses "in the game, online / offline": a  *)
(* user who has one is on some server.                                     *)
GameHasServer ==
    \A x \in Sui : sui[x].userStatus \in GSStatus => sui[x].serverID # Nil

(* lua-sui.c refuses "operate an unused object": the struct a live         *)
(* connection has cached is in use.                                        *)
CachedSuiInUse ==
    \A a \in Agent : agent[a].sui # Nil => sui[agent[a].sui].isInit
=============================================================================
