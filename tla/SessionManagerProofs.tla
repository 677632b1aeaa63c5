------------------------ MODULE SessionManagerProofs ------------------------
(***************************************************************************)
(* What SessionManager guarantees for every set of accounts, sessions,     *)
(* connections, servers and suspended handlers.                            *)
(*                                                                         *)
(* TypeOK is not inductive alone: a resumed handler uses the item it       *)
(* remembered, and a login request the platform ID it read through         *)
(* _hash.session.  CoOK says that what a handler remembers is there,       *)
(* IndexOK that the table leads to an account.                             *)
(***************************************************************************)
EXTENDS SessionManager, TLAPS

Cos == Agent \cup Worker

(* What a suspended handler remembers, by the point it is suspended at.    *)
HandlerOK(r) ==
    /\ r.at \in {"lookup", "find", "switch", "register", "reply"} => r.op = "login"
    /\ r.op = "login" /\ r.at \in {"switch", "kick", "load"} => r.sui # Nil
    /\ r.at = "lookup" => r.session \in Session
    /\ r.at \in {"find", "switch", "register"} => r.platformID \in PlatformID
    /\ r.at \in {"kick", "load"} => r.item \in Item
    /\ r.at = "reply" /\ r.sui = Nil => r.item \in Item
    /\ r.op \in {"session", "logout", "down"} => r.item \in Item
    /\ r.op = "down" => r.server \in Server
    /\ r.op = "session" => r.status \notin LSStatus
    /\ r.op = "login" /\ r.at = "kick" => r.status \in LSStatus

CoOK ==
    \A c \in Cos : HandlerOK(co[c])

IInv == TypeOK /\ CoOK /\ IndexOK /\ SuiPoolOK /\ LSAgentOK

(* The empty session manager satisfies the invariant.                      *)
LEMMA InitIInv == Init => IInv
  BY NilAssumption DEF Init, IInv, TypeOK, CoOK, IndexOK, OrNil, NoItem, NoSui, Closed, Idle,
     ItemRecord, SuiRecord, AgentRecord, CoRecord, Status, Cos, HandlerOK,
     SuiPoolOK, LSAgentOK, HasSui, LSStatus

-----------------------------------------------------------------------------
(* Types of what the handlers read.                                        *)
LEMMA ItemType ==
    ASSUME TypeOK, NEW i \in Item
    PROVE  /\ item[i] \in ItemRecord
           /\ item[i].sui \in OrNil(Sui)
           /\ item[i].platformID \in OrNil(PlatformID)
  BY DEF TypeOK, ItemRecord

(* The struct an item points to is a struct of the pool.                   *)
LEMMA SuiType ==
    ASSUME TypeOK, NEW i \in Item, HasSui(i)
    PROVE  /\ item[i].sui \in Sui
           /\ SuiOf(i) \in SuiRecord
           /\ SuiOf(i).agent \in OrNil(Agent)
           /\ SuiOf(i).userID \in OrNil(UserID)
           /\ SuiOf(i).serverID \in OrNil(Server)
           /\ StatusOf(i) \in Status
<1>1. item[i].sui \in Sui
  BY ItemType DEF HasSui, OrNil
<1>2. SuiOf(i) \in SuiRecord
  BY <1>1 DEF TypeOK, SuiOf
<1> QED BY <1>1, <1>2 DEF SuiRecord, StatusOf

(* The locals of a suspended handler have their types.                     *)
LEMMA CoType ==
    ASSUME TypeOK, NEW c \in Cos
    PROVE  /\ co[c] \in CoRecord
           /\ co[c].item \in OrNil(Item) /\ co[c].sui \in OrNil(Sui)
           /\ co[c].kick \in OrNil(Agent) /\ co[c].status \in Status
           /\ co[c].server \in OrNil(Server) /\ co[c].userID \in OrNil(UserID)
           /\ co[c].todo \in SUBSET Session /\ co[c].dirty \in BOOLEAN
           /\ co[c].cleared \in BOOLEAN
           /\ co[c].platformID \in OrNil(PlatformID)
           /\ co[c].session \in OrNil(Session)
  BY DEF TypeOK, CoRecord, Cos

(* How the status of a user moves.                                         *)
LEMMA StatusMoves ==
    ASSUME NEW st \in Status
    PROVE  /\ WithoutLS(st) \in Status \ LSStatus
           /\ WithLS(st) \in LSStatus
           /\ GSOnline(st) \in Status /\ (GSOnline(st) \in LSStatus <=> st \in LSStatus)
           /\ GSOffline(st) \in Status /\ (GSOffline(st) \in LSStatus <=> st \in LSStatus)
           /\ WithoutGS(st) \in Status /\ (WithoutGS(st) \in LSStatus <=> st \in LSStatus)
           /\ LSStatus \subseteq Status
  BY DEF WithoutLS, WithLS, GSOnline, GSOffline, WithoutGS, Status, LSStatus, GSStatus

(* Steps that touch neither the session nor the platform of an item.       *)
LEMMA IndexFrame ==
    ASSUME TypeOK, IndexOK, UNCHANGED <<hashSession, hashPlatformID>>,
           \A i \in Item : /\ item'[i].session = item[i].session
                           /\ item'[i].platformID = item[i].platformID
    PROVE  IndexOK'
  BY NilAssumption, OwnerAssumption DEF TypeOK, IndexOK, OrNil

(* Steps that allocate and release nothing.                                *)
LEMMA PoolFrame ==
    ASSUME SuiPoolOK, TypeOK,
           \A i \in Item : item'[i].sui = item[i].sui,
           \A x \in Sui : sui'[x].isInit = sui[x].isInit
    PROVE  SuiPoolOK'
  BY DEF SuiPoolOK, TypeOK, ItemRecord, OrNil, HasSui, SuiOf

(* Setting a timestamp moves no item and no struct.                        *)
ItemsKept(f) ==
    /\ f \in [Item -> ItemRecord]
    /\ \A j \in Item : /\ f[j].session = item[j].session
                       /\ f[j].platformID = item[j].platformID
                       /\ f[j].sui = item[j].sui

(* A step that leaves the items alone keeps them.                          *)
LEMMA SameKept == TypeOK => ItemsKept(item)
  BY DEF TypeOK, ItemsKept

(* Starting or stopping the clocks of an item keeps everything else.       *)
LEMMA TimestampKept ==
    ASSUME TypeOK, NEW i \in Item, NEW t \in {"nil", "fresh", "old"}, NEW v \in {"fresh", "old"}
    PROVE  /\ ItemsKept([item EXCEPT ![i].suiTS = t])
           /\ ItemsKept([item EXCEPT ![i].sessionTS = v])
           /\ ItemsKept([item EXCEPT ![i].sessionTS = v, ![i].suiTS = t])
<1>1. \A r \in ItemRecord : /\ [r EXCEPT !.suiTS = t] \in ItemRecord
                            /\ [r EXCEPT !.sessionTS = v] \in ItemRecord
                            /\ [r EXCEPT !.sessionTS = v, !.suiTS = t] \in ItemRecord
  BY DEF ItemRecord
<1>2. item \in [Item -> ItemRecord]
  BY DEF TypeOK
<1>3. ItemsKept([item EXCEPT ![i].suiTS = t])
  <2> DEFINE r == [item[i] EXCEPT !.suiTS = t]
             f == [item EXCEPT ![i].suiTS = t]
  <2>1. f = [item EXCEPT ![i] = r]
    BY <1>2
  <2>2. /\ r \in ItemRecord /\ r.session = item[i].session
        /\ r.platformID = item[i].platformID /\ r.sui = item[i].sui
    BY <1>1, <1>2 DEF ItemRecord
  <2> HIDE DEF r, f
  <2>3. f \in [Item -> ItemRecord] /\ f[i] = r /\ \A j \in Item : j # i => f[j] = item[j]
    BY <1>2, <2>1, <2>2
  <2>4. ItemsKept(f)
    BY <2>2, <2>3 DEF ItemsKept
  <2> QED
    BY <2>4 DEF f
<1>4. ItemsKept([item EXCEPT ![i].sessionTS = v])
  <2> DEFINE r == [item[i] EXCEPT !.sessionTS = v]
             f == [item EXCEPT ![i].sessionTS = v]
  <2>1. f = [item EXCEPT ![i] = r]
    BY <1>2
  <2>2. /\ r \in ItemRecord /\ r.session = item[i].session
        /\ r.platformID = item[i].platformID /\ r.sui = item[i].sui
    BY <1>1, <1>2 DEF ItemRecord
  <2> HIDE DEF r, f
  <2>3. f \in [Item -> ItemRecord] /\ f[i] = r /\ \A j \in Item : j # i => f[j] = item[j]
    BY <1>2, <2>1, <2>2
  <2>4. ItemsKept(f)
    BY <2>2, <2>3 DEF ItemsKept
  <2> QED
    BY <2>4 DEF f
<1>5. ItemsKept([item EXCEPT ![i].sessionTS = v, ![i].suiTS = t])
  <2> DEFINE r == [item[i] EXCEPT !.sessionTS = v, !.suiTS = t]
             f == [item EXCEPT ![i].sessionTS = v, ![i].suiTS = t]
  <2>1. f = [item EXCEPT ![i] = r]
    BY <1>2
  <2>2. /\ r \in ItemRecord /\ r.session = item[i].session
        /\ r.platformID = item[i].platformID /\ r.sui = item[i].sui
    BY <1>1, <1>2 DEF ItemRecord
  <2> HIDE DEF r, f
  <2>3. f \in [Item -> ItemRecord] /\ f[i] = r /\ \A j \in Item : j # i => f[j] = item[j]
    BY <1>2, <2>1, <2>2
  <2>4. ItemsKept(f)
    BY <2>2, <2>3 DEF ItemsKept
  <2> QED
    BY <2>4 DEF f
<1> QED BY <1>3, <1>4, <1>5

(* The indexes agree as long as the items are kept.                        *)
LEMMA KeptFrame ==
    ASSUME TypeOK, IndexOK, ItemsKept(item'), UNCHANGED <<hashSession, hashPlatformID>>
    PROVE  IndexOK'
  BY IndexFrame DEF ItemsKept

(* Writing the agent and the status together, or a status that keeps the   *)
(* lobby side.                                                             *)
SuisKept(f) ==
    /\ f \in [Sui -> SuiRecord]
    /\ \A y \in Sui : /\ f[y].isInit = sui[y].isInit
                      /\ f[y].userStatus \in LSStatus <=> f[y].agent # Nil

(* A step that leaves the structs alone keeps them.                        *)
LEMMA SameSuis == TypeOK /\ LSAgentOK => SuisKept(sui)
  BY DEF TypeOK, LSAgentOK, SuisKept

(* Agent and status written as a pair that fits keep the structs.          *)
LEMMA AgentSet ==
    ASSUME TypeOK, LSAgentOK, NEW x \in Sui, NEW v \in OrNil(Agent), NEW st \in Status,
           st \in LSStatus <=> v # Nil
    PROVE  SuisKept([sui EXCEPT ![x].agent = v, ![x].userStatus = st])
<1>1. \A r \in SuiRecord : [r EXCEPT !.agent = v, !.userStatus = st] \in SuiRecord
  BY DEF SuiRecord
<1>2. sui \in [Sui -> SuiRecord] /\ sui[x] \in SuiRecord
  BY DEF TypeOK
<1>3. [sui EXCEPT ![x].agent = v, ![x].userStatus = st] \in [Sui -> SuiRecord]
  BY <1>1, <1>2
<1> QED BY <1>2, <1>3 DEF SuisKept, LSAgentOK, SuiRecord

(* So does a status that leaves the lobby side as it was.                  *)
LEMMA StatusSet ==
    ASSUME TypeOK, LSAgentOK, NEW x \in Sui, NEW st \in Status, NEW g \in OrNil(Server),
           st \in LSStatus <=> sui[x].userStatus \in LSStatus
    PROVE  /\ SuisKept([sui EXCEPT ![x].userStatus = st])
           /\ SuisKept([sui EXCEPT ![x].userStatus = st, ![x].serverID = g])
<1>1. \A r \in SuiRecord : /\ [r EXCEPT !.userStatus = st] \in SuiRecord
                           /\ [r EXCEPT !.userStatus = st, !.serverID = g] \in SuiRecord
  BY DEF SuiRecord
<1>2. sui \in [Sui -> SuiRecord] /\ sui[x] \in SuiRecord
  BY DEF TypeOK
<1>3. /\ [sui EXCEPT ![x].userStatus = st] \in [Sui -> SuiRecord]
      /\ [sui EXCEPT ![x].userStatus = st, ![x].serverID = g] \in [Sui -> SuiRecord]
  BY <1>1, <1>2
<1> QED BY <1>2, <1>3 DEF SuisKept, LSAgentOK, SuiRecord

(* Both are bookkeeping on the suspended handlers: every field but one is  *)
(* kept.                                                                   *)
SameBut(f, g) ==
    /\ g \in [Cos -> CoRecord]
    /\ \A c \in Cos : /\ g[c].op = f[c].op /\ g[c].at = f[c].at
                      /\ g[c].session = f[c].session /\ g[c].platformID = f[c].platformID
                      /\ g[c].item = f[c].item /\ g[c].sui = f[c].sui
                      /\ g[c].kick = f[c].kick
                      /\ g[c].status = f[c].status /\ g[c].server = f[c].server

(* Disturbing a traversal changes nothing else a handler remembers.        *)
LEMMA MarkDirtySame ==
    ASSUME NEW f \in [Cos -> CoRecord], NEW s \in Session
    PROVE  SameBut(f, MarkDirty(f, s))
<1>1. \A r \in CoRecord : [r EXCEPT !.dirty = TRUE] \in CoRecord
  BY DEF CoRecord
<1> QED BY <1>1 DEF SameBut, MarkDirty, CoRecord

(* Nor does setCache overtaking a clearCache.                              *)
LEMMA SetCacheSame ==
    ASSUME NEW f \in [Cos -> CoRecord], NEW a \in Agent
    PROVE  SameBut(f, SetCache(f, a))
<1>1. \A r \in CoRecord : [r EXCEPT !.cleared = TRUE] \in CoRecord
  BY DEF CoRecord
<1> QED BY <1>1 DEF SameBut, SetCache, CoRecord

(* A handler that has ended remembers nothing.                             *)
LEMMA IdleOK == Idle \in CoRecord /\ HandlerOK(Idle)
  BY DEF Idle, CoRecord, HandlerOK, OrNil, Status

(* A step that gives one handler a new record, good in itself.             *)
LEMMA CoFrame ==
    ASSUME TypeOK, CoOK, NEW c \in Cos, NEW r \in CoRecord, HandlerOK(r)
    PROVE  /\ [co EXCEPT ![c] = r] \in [Cos -> CoRecord]
           /\ \A d \in Cos : HandlerOK([co EXCEPT ![c] = r][d])
<1>1. \A d \in Cos : HandlerOK(co[d])
  BY DEF CoOK, HandlerOK
<1> QED BY <1>1 DEF TypeOK, Cos

(* Handlers that differ in their flags only are as good as before.         *)
LEMMA SameButOK ==
    ASSUME NEW f, NEW g, SameBut(f, g), \A c \in Cos : HandlerOK(f[c])
    PROVE  \A c \in Cos : HandlerOK(g[c])
  BY DEF SameBut, HandlerOK
(* A step that allocates, releases and indexes nothing keeps the invariant *)
(* when each part of the state it writes is well formed.                   *)
LEMMA KeptInv ==
    ASSUME IInv, ItemsKept(item'), SuisKept(sui'), UNCHANGED hashes,
           agent' \in [Agent -> AgentRecord],
           co' \in [Cos -> CoRecord], CoOK',
           disconnects' \subseteq UserID \X Agent, serverDowns' \subseteq Server,
           inGame' \subseteq Server \X OrNil(UserID),
           notices' \subseteq OrNil(Server) \X OrNil(UserID)
    PROVE  IInv'
<1> USE DEF IInv, hashes
<1>1. TypeOK'
  BY DEF TypeOK, Cos, ItemsKept, SuisKept
<1>2. IndexOK'
  BY KeptFrame
<1>3. SuiPoolOK'
  BY PoolFrame DEF ItemsKept, SuisKept
<1>4. LSAgentOK'
  BY DEF LSAgentOK, SuisKept
<1> QED BY <1>1, <1>2, <1>3, <1>4

-----------------------------------------------------------------------------
(* One lemma per action.                                                   *)
LEMMA ConnectIInv ==
    ASSUME IInv, NEW a \in Agent, Connect(a)
    PROVE  IInv'
<1> USE DEF IInv, Connect, hashes, games
<1>1. TypeOK'
  BY DEF TypeOK, AgentRecord, Closed, OrNil
<1>2. CoOK'
  BY DEF CoOK, Cos
<1>3. IndexOK'
  BY IndexFrame
<1>4. SuiPoolOK'
  BY PoolFrame
<1>5. LSAgentOK'
  BY DEF LSAgentOK
<1> QED BY <1>1, <1>2, <1>3, <1>4, <1>5

(* exit of tcpConnection: the struct stays until the event arrives.        *)
LEMMA AgentExitIInv ==
    ASSUME IInv, NEW a \in Agent, AgentExit(a)
    PROVE  IInv'
<1> USE DEF IInv, AgentExit, hashes, games
<1>1. TypeOK'
  BY DEF TypeOK, AgentRecord, Closed, OrNil, ExitEvents
<1>2. CoOK'
  BY DEF CoOK, Cos
<1>3. IndexOK'
  BY IndexFrame
<1>4. SuiPoolOK'
  BY PoolFrame
<1>5. LSAgentOK'
  BY DEF LSAgentOK
<1> QED BY <1>1, <1>2, <1>3, <1>4, <1>5

(* The parts of the state a failing login touches.                         *)
LEMMA LoginErrorOK ==
    ASSUME TypeOK, CoOK, NEW a \in Agent, NEW f \in [Agent -> AgentRecord],
           LoginError(a, f)
    PROVE  /\ disconnects' \subseteq UserID \X Agent
           /\ agent' \in [Agent -> AgentRecord]
           /\ co' \in [Cos -> CoRecord]
           /\ CoOK'
<1> USE DEF LoginError
<1>1. Closed \in AgentRecord
  BY DEF Closed, AgentRecord, OrNil
<1>2. disconnects' \subseteq UserID \X Agent
  BY DEF ExitEvents, AgentRecord, OrNil, TypeOK
<1>3. co' \in [Cos -> CoRecord] /\ CoOK'
  BY CoFrame, IdleOK DEF CoOK, Cos
<1> QED BY <1>1, <1>2, <1>3

(* kickLSAgent changes no type.                                            *)
LEMMA KickedOK ==
    ASSUME TypeOK, NEW r
    PROVE  Kicked(r) \in [Agent -> AgentRecord]
<1>1. \A g \in AgentRecord : /\ [g EXCEPT !.exit = TRUE] \in AgentRecord
                             /\ [g EXCEPT !.userID = Nil, !.sui = Nil, !.exit = TRUE] \in AgentRecord
  BY DEF AgentRecord, OrNil
<1> QED BY <1>1 DEF Kicked, TypeOK

(* A login request remembers the session it was sent with.                 *)
LEMMA LoginRequestIInv ==
    ASSUME IInv, NEW a \in Agent, NEW s \in Session, LoginRequest(a, s)
    PROVE  IInv'
<1> USE DEF IInv, LoginRequest, hashes, games
<1> DEFINE r == [Idle EXCEPT !.op = "login", !.at = "lookup", !.session = s]
<1>0. r \in CoRecord /\ HandlerOK(r)
  BY DEF Idle, CoRecord, HandlerOK, OrNil, Status
<1> HIDE DEF r
<1>1. co' \in [Cos -> CoRecord] /\ CoOK'
  BY <1>0, CoFrame DEF CoOK, Cos, r
<1>2. TypeOK'
  BY <1>1 DEF TypeOK, Cos
<1>3. IndexOK'
  BY IndexFrame
<1>4. SuiPoolOK'
  BY PoolFrame
<1>5. LSAgentOK'
  BY DEF LSAgentOK
<1> QED BY <1>1, <1>2, <1>3, <1>4, <1>5

(* getPlatformIDBySession: the index leads to an account.                  *)
LEMMA LoginLookupIInv ==
    ASSUME IInv, NEW a \in Agent, LoginLookup(a)
    PROVE  IInv'
<1> USE DEF IInv, LoginLookup, hashes, games
<1> DEFINE i == hashSession[co[a].session]
           r == IF i = Nil THEN Idle
                ELSE [co[a] EXCEPT !.at = "find", !.session = Nil,
                                   !.platformID = item[i].platformID]
<1>0. r \in CoRecord /\ HandlerOK(r)
  <2>1. co[a].session \in Session /\ co[a].op = "login" /\ co[a] \in CoRecord
    BY CoType DEF CoOK, HandlerOK, Cos
  <2>2. CASE i = Nil
    BY <2>2, IdleOK
  <2>3. CASE i # Nil
    <3>1. item[i].platformID \in PlatformID
      BY <2>1, <2>3, OwnerAssumption DEF IndexOK
    <3> QED BY <2>1, <2>3, <3>1 DEF CoRecord, HandlerOK, OrNil
  <2> QED BY <2>2, <2>3
<1>1. co' \in [Cos -> CoRecord] /\ CoOK'
  <2>1. co' = [co EXCEPT ![a] = r]
    BY DEF TypeOK
  <2> HIDE DEF r
  <2> QED BY <1>0, <2>1, CoFrame DEF CoOK, Cos
<1>2. TypeOK'
  BY <1>1 DEF TypeOK, Cos
<1>3. IndexOK'
  BY IndexFrame
<1>4. SuiPoolOK'
  BY PoolFrame
<1>5. LSAgentOK'
  BY DEF LSAgentOK
<1> QED BY <1>1, <1>2, <1>3, <1>4, <1>5

(* getUserItemByPlatformID: the request goes on with a struct or without.  *)
LEMMA LoginFindIInv ==
    ASSUME IInv, NEW a \in Agent, LoginFind(a)
    PROVE  IInv'
<1> USE DEF IInv, LoginFind, hashes, games
<1> DEFINE i == hashPlatformID[co[a].platformID]
           r == IF i # Nil /\ HasSui(i)
                THEN [co[a] EXCEPT !.at = "switch", !.sui = item[i].sui]
                ELSE [co[a] EXCEPT !.at = "register"]
<1>a. i \in OrNil(Item) /\ co[a] \in CoRecord /\ co[a].op = "login"
      /\ co[a].platformID \in PlatformID
  BY CoType DEF TypeOK, CoOK, HandlerOK, Cos
<1>0. r \in CoRecord /\ HandlerOK(r)
  <2>1. CASE i # Nil /\ HasSui(i)
    <3>1. item[i].sui \in Sui
      BY <1>a, <2>1, SuiType DEF OrNil
    <3> QED BY <1>a, <2>1, <3>1, NilAssumption DEF CoRecord, HandlerOK, OrNil
  <2>2. CASE ~(i # Nil /\ HasSui(i))
    BY <1>a, <2>2 DEF CoRecord, HandlerOK, OrNil
  <2> QED BY <2>1, <2>2
<1>1. co' \in [Cos -> CoRecord] /\ CoOK'
  <2>1. co' = [co EXCEPT ![a] = r]
    BY DEF TypeOK
  <2> HIDE DEF r
  <2> QED BY <1>0, <2>1, CoFrame DEF CoOK, Cos
<1>b. ItemsKept(item')
  <2>1. item' = item \/ (i \in Item /\ item' = [item EXCEPT ![i].suiTS = "fresh"])
    BY <1>a DEF OrNil
  <2>2. CASE item' = item
    BY <2>2, SameKept
  <2>3. CASE i \in Item /\ item' = [item EXCEPT ![i].suiTS = "fresh"]
    <3> HIDE DEF i, LoginFind
    <3> QED BY <2>3, TimestampKept
  <2> QED BY <2>1, <2>2, <2>3
<1>2. TypeOK'
  BY <1>1, <1>b DEF TypeOK, Cos, ItemsKept
<1>3. IndexOK'
  BY <1>b, KeptFrame
<1>4. SuiPoolOK'
  BY <1>b, PoolFrame DEF ItemsKept
<1>5. LSAgentOK'
  BY DEF LSAgentOK
<1> QED BY <1>1, <1>2, <1>3, <1>4, <1>5

(* switchUserItem up to its yield, or all of its writes at once.           *)
LEMMA SwitchUserItemIInv ==
    ASSUME IInv, NEW a \in Agent, SwitchUserItem(a)
    PROVE  IInv'
<1> USE DEF IInv, hashes, games
<1> DEFINE i == hashPlatformID[co[a].platformID]
           x == item[i].sui
<1>a. i \in OrNil(Item) /\ co[a] \in CoRecord /\ co[a].op = "login" /\ co[a].sui # Nil
  BY CoType DEF TypeOK, CoOK, HandlerOK, Cos, SwitchUserItem
<1>1. CASE i = Nil \/ ~HasSui(i)
  <2>1. LoginError(a, agent) /\ UNCHANGED <<item, sui, hashes, games>>
    BY <1>1 DEF SwitchUserItem
  <2>2. agent \in [Agent -> AgentRecord]
    BY DEF TypeOK
  <2> QED BY <2>1, <2>2, LoginErrorOK, SameKept, SameSuis, KeptInv DEF TypeOK
<1>2. CASE i # Nil /\ HasSui(i)
  <2>1. i \in Item /\ x \in Sui /\ StatusOf(i) \in Status /\ SuiOf(i).agent \in OrNil(Agent)
        /\ SuiOf(i).userID \in OrNil(UserID) /\ sui[x].userStatus = StatusOf(i)
    BY <1>a, <1>2, SuiType DEF OrNil, StatusOf, SuiOf
  <2>2. ItemsKept(item')
    BY <1>2, <2>1, TimestampKept DEF SwitchUserItem
  <2>3. CASE StatusOf(i) \in LSStatus
    <3> DEFINE r == [co[a] EXCEPT !.at = "kick", !.item = i, !.kick = SuiOf(i).agent,
                                  !.status = StatusOf(i), !.userID = SuiOf(i).userID]
    <3>1. r \in CoRecord /\ HandlerOK(r)
      <4>1. r \in CoRecord
        BY <1>a, <2>1, <2>3 DEF CoRecord, OrNil
      <4>2. r.op = "login" /\ r.at = "kick" /\ r.item = i /\ r.sui # Nil /\ r.status = StatusOf(i)
        BY <1>a DEF CoRecord
      <4> HIDE DEF r
      <4> QED BY <2>1, <2>3, <4>1, <4>2 DEF HandlerOK
    <3>2. co' = [co EXCEPT ![a] = r] /\ UNCHANGED <<sui, agent, disconnects, hashes, games>>
      BY <1>2, <2>3, Zenon DEF SwitchUserItem
    <3> HIDE DEF r
    <3>3. co' \in [Cos -> CoRecord] /\ CoOK'
      BY <3>1, <3>2, CoFrame DEF CoOK, Cos
    <3> QED BY <2>2, <3>2, <3>3, SameSuis, KeptInv DEF TypeOK
  <2>4. CASE StatusOf(i) \notin LSStatus
    <3> DEFINE r == [co[a] EXCEPT !.at = "load", !.item = i, !.userID = SuiOf(i).userID]
    <3>1. r \in CoRecord /\ HandlerOK(r)
      <4>1. r \in CoRecord
        BY <1>a, <2>1 DEF CoRecord, OrNil
      <4>2. r.op = "login" /\ r.at = "load" /\ r.item = i /\ r.sui # Nil
        BY <1>a DEF CoRecord
      <4> HIDE DEF r
      <4> QED BY <2>1, <4>1, <4>2 DEF HandlerOK
    <3>2. co' = [co EXCEPT ![a] = r] /\ UNCHANGED <<agent, disconnects, hashes, games>>
      BY <1>2, <2>4, Zenon DEF SwitchUserItem
    <3>3. sui' = [sui EXCEPT ![x].agent = a, ![x].userStatus = WithLS(StatusOf(i))]
      BY <1>2, <2>4 DEF SwitchUserItem
    <3> HIDE DEF r, x
    <3>4. SuisKept(sui')
      BY <2>1, <3>3, AgentSet, StatusMoves, NilAssumption DEF OrNil
    <3>5. co' \in [Cos -> CoRecord] /\ CoOK'
      BY <3>1, <3>2, CoFrame DEF CoOK, Cos
    <3> QED BY <2>2, <3>2, <3>4, <3>5, KeptInv DEF TypeOK
  <2> QED BY <2>3, <2>4
<1> QED BY <1>1, <1>2

(* The stale status it writes is a lobby status, and an agent goes with    *)
(* it.                                                                     *)
LEMMA SwitchUserItemKickedIInv ==
    ASSUME IInv, NEW a \in Agent, SwitchUserItemKicked(a)
    PROVE  IInv'
<1> USE DEF IInv, hashes, games
<1> DEFINE x == item[co[a].item].sui
<1>a. /\ co[a] \in CoRecord /\ co[a].op = "login" /\ co[a].sui # Nil /\ co[a].item \in Item
      /\ co[a].status \in LSStatus /\ x \in OrNil(Sui)
      /\ UNCHANGED <<item, hashes, games>>
  BY CoType, ItemType DEF CoOK, HandlerOK, Cos, SwitchUserItemKicked
<1>b. Kicked(co[a]) \in [Agent -> AgentRecord]
  BY KickedOK
<1>1. CASE x = Nil
  <2>1. LoginError(a, Kicked(co[a])) /\ UNCHANGED sui
    BY <1>1 DEF SwitchUserItemKicked
  <2> QED BY <1>a, <1>b, <2>1, LoginErrorOK, SameKept, SameSuis, KeptInv DEF TypeOK
<1>2. CASE x # Nil
  <2> DEFINE r == [co[a] EXCEPT !.at = "load", !.kick = Nil, !.cleared = FALSE,
                                !.status = "US_NULL"]
  <2>1. r \in CoRecord /\ HandlerOK(r)
    <3>1. r \in CoRecord
      BY <1>a DEF CoRecord, OrNil, Status
    <3>2. r.op = "login" /\ r.at = "load" /\ r.item \in Item /\ r.sui # Nil
      BY <1>a DEF CoRecord
    <3> HIDE DEF r
    <3> QED BY <3>1, <3>2 DEF HandlerOK
  <2>2. /\ co' = [co EXCEPT ![a] = r] /\ agent' = Kicked(co[a]) /\ UNCHANGED disconnects
        /\ sui' = [sui EXCEPT ![x].agent = a, ![x].userStatus = co[a].status]
    BY <1>2, Zenon DEF SwitchUserItemKicked
  <2> HIDE DEF r, x
  <2>3. SuisKept(sui')
    BY <1>a, <1>2, <2>2, AgentSet, NilAssumption DEF OrNil, Status
  <2>4. co' \in [Cos -> CoRecord] /\ CoOK'
    BY <2>1, <2>2, CoFrame DEF CoOK, Cos
  <2> QED BY <1>a, <1>b, <2>2, <2>3, <2>4, SameKept, KeptInv DEF TypeOK
<1> QED BY <1>1, <1>2

(* setCache changes the agent alone.                                       *)
LEMMA SwitchUserItemLoadedIInv ==
    ASSUME IInv, NEW a \in Agent, SwitchUserItemLoaded(a)
    PROVE  IInv'
<1> USE DEF IInv, hashes, games
<1> DEFINE r == [co[a] EXCEPT !.at = "reply", !.item = Nil, !.userID = Nil]
           f == [co EXCEPT ![a] = r]
<1>a. /\ co[a] \in CoRecord /\ co[a].op = "login" /\ co[a].sui # Nil
      /\ co[a].userID \in OrNil(UserID) /\ item[co[a].item].sui \in OrNil(Sui)
      /\ UNCHANGED <<hashes, item, sui, disconnects, games>>
  BY CoType, ItemType DEF CoOK, HandlerOK, Cos, SwitchUserItemLoaded
<1>1. r \in CoRecord /\ HandlerOK(r)
  <2>1. r \in CoRecord
    BY <1>a DEF CoRecord, OrNil
  <2>2. r.op = "login" /\ r.at = "reply" /\ r.sui # Nil
    BY <1>a DEF CoRecord
  <2> HIDE DEF r
  <2> QED BY <2>1, <2>2 DEF HandlerOK
<1>2. co' = SetCache(f, a)
  BY Zenon DEF SwitchUserItemLoaded
<1> HIDE DEF r
<1>3. f \in [Cos -> CoRecord] /\ \A d \in Cos : HandlerOK(f[d])
  BY <1>1, CoFrame DEF Cos
<1> HIDE DEF f
<1>4. co' \in [Cos -> CoRecord] /\ CoOK'
  <2>1. SameBut(f, co')
    BY <1>2, <1>3, SetCacheSame
  <2> QED BY <1>3, <2>1, SameButOK DEF SameBut, CoOK
<1>5. agent' \in [Agent -> AgentRecord]
  <2>1. [agent[a] EXCEPT !.userID = co[a].userID, !.sui = item[co[a].item].sui] \in AgentRecord
    BY <1>a DEF TypeOK, AgentRecord
  <2> QED BY <2>1 DEF SwitchUserItemLoaded, TypeOK
<1> QED BY <1>a, <1>4, <1>5, SameKept, SameSuis, KeptInv DEF TypeOK

(* A failed load ends the connection, not the session.                     *)
LEMMA SwitchUserItemLoadErrorIInv ==
    ASSUME IInv, NEW a \in Agent, SwitchUserItemLoadError(a)
    PROVE  IInv'
<1> USE DEF IInv, hashes, games, SwitchUserItemLoadError
<1>1. [Closed EXCEPT !.failed = TRUE] \in AgentRecord
  BY DEF Closed, AgentRecord, OrNil
<1>2. agent' \in [Agent -> AgentRecord]
  BY <1>1 DEF TypeOK
<1>3. disconnects' \subseteq UserID \X Agent
  BY DEF ExitEvents, AgentRecord, OrNil, TypeOK
<1>4. co' \in [Cos -> CoRecord] /\ CoOK'
  BY CoFrame, IdleOK DEF CoOK, Cos, TypeOK
<1> QED BY <1>2, <1>3, <1>4, SameKept, SameSuis, KeptInv DEF TypeOK

(* The answer reads a struct and writes none.                              *)
LEMMA LoginReplyIInv ==
    ASSUME IInv, NEW a \in Agent, LoginReply(a)
    PROVE  IInv'
<1> USE DEF IInv, hashes, games
<1>1. UNCHANGED <<hashes, item, sui, games>>
  BY DEF LoginReply
<1>2. \/ LoginError(a, agent)
      \/ co' = [co EXCEPT ![a] = Idle] /\ UNCHANGED <<agent, disconnects>>
  BY DEF LoginReply
<1>3. agent \in [Agent -> AgentRecord]
  BY DEF TypeOK
<1>4. CASE LoginError(a, agent)
  BY <1>1, <1>3, <1>4, LoginErrorOK, SameKept, SameSuis, KeptInv DEF TypeOK
<1>5. CASE co' = [co EXCEPT ![a] = Idle] /\ UNCHANGED <<agent, disconnects>>
  <2>1. co' \in [Cos -> CoRecord] /\ CoOK'
    BY <1>5, IdleOK, CoFrame DEF CoOK, Cos
  <2> QED BY <1>1, <1>5, <2>1, SameKept, SameSuis, KeptInv DEF TypeOK
<1> QED BY <1>2, <1>4, <1>5

(* gs_login changes the game side of a status only.                        *)
LEMMA GsLoginIInv ==
    ASSUME IInv, NEW g \in Server, NEW s \in Session, GsLogin(g, s)
    PROVE  IInv'
<1> USE DEF IInv, hashes, games
<1> DEFINE i == hashSession[s]
           x == item[i].sui
           st == StatusOf(i)
<1>a. /\ i \in Item /\ x \in Sui /\ st \in Status /\ sui[x].userStatus = st
      /\ SuiOf(i).serverID \in OrNil(Server) /\ SuiOf(i).userID \in OrNil(UserID)
      /\ UNCHANGED <<hashes, agent, co, disconnects, serverDowns>>
  <2>1. i \in Item /\ HasSui(i)
    BY DEF GsLogin, TypeOK, OrNil
  <2> QED BY <2>1, SuiType DEF GsLogin, StatusOf, SuiOf
<1>b. co' \in [Cos -> CoRecord] /\ CoOK'
  BY <1>a DEF CoOK, TypeOK, Cos
<1>1. CASE st \in GSStatus /\ SuiOf(i).serverID # g
  <2>1. notices' = KickGS(i) /\ UNCHANGED <<item, sui, inGame>>
    BY <1>1 DEF GsLogin
  <2>2. notices' \subseteq OrNil(Server) \X OrNil(UserID)
    BY <1>a, <2>1 DEF KickGS, TypeOK
  <2> QED BY <1>a, <1>b, <2>1, <2>2, SameKept, SameSuis, KeptInv DEF TypeOK
<1>2. CASE ~(st \in GSStatus /\ SuiOf(i).serverID # g)
  <2>1. /\ sui' = [sui EXCEPT ![x].userStatus = GSOnline(st), ![x].serverID = g]
        /\ item' = [item EXCEPT ![i].suiTS = "nil"]
        /\ inGame' = inGame \cup {<<g, SuiOf(i).userID>>}
        /\ UNCHANGED notices
    BY <1>2, Zenon DEF GsLogin
  <2> HIDE DEF i, x, st
  <2>2. SuisKept(sui')
    BY <1>a, <2>1, StatusSet, StatusMoves DEF OrNil
  <2>3. ItemsKept(item')
    BY <1>a, <2>1, TimestampKept
  <2>4. inGame' \subseteq Server \X OrNil(UserID)
    BY <1>a, <2>1 DEF TypeOK
  <2> QED BY <1>a, <1>b, <2>1, <2>2, <2>3, <2>4, KeptInv DEF TypeOK
<1> QED BY <1>1, <1>2

(* gs_logout, whoever asks for it.                                         *)
LEMMA CmdGsLogoutIInv ==
    ASSUME IInv, NEW w \in Worker, NEW g \in Server, NEW u \in UserID, NEW off \in BOOLEAN,
           CmdGsLogout(w, g, u, off),
           inGame' \subseteq inGame, notices' \subseteq notices
    PROVE  IInv'
<1> USE DEF IInv, hashes
<1> DEFINE i == hashUserID[u]
           x == item[i].sui
           st == WithoutGS(StatusOf(i))
           ok == i # Nil /\ HasSui(i) /\ StatusOf(i) \in GSStatus /\ SuiOf(i).serverID = g
<1>a. UNCHANGED <<hashes, agent, disconnects, serverDowns>>
  BY DEF CmdGsLogout
<1>b. inGame' \subseteq Server \X OrNil(UserID) /\ notices' \subseteq OrNil(Server) \X OrNil(UserID)
  BY DEF TypeOK
<1>1. CASE ~ok
  <2>1. UNCHANGED <<item, sui, co>>
    BY <1>1 DEF CmdGsLogout
  <2>2. co' \in [Cos -> CoRecord] /\ CoOK'
    BY <2>1 DEF CoOK, TypeOK, Cos
  <2> QED BY <1>a, <1>b, <2>1, <2>2, SameKept, SameSuis, KeptInv DEF TypeOK
<1>2. CASE ok
  <2>1. i \in Item /\ x \in Sui /\ StatusOf(i) \in Status /\ sui[x].userStatus = StatusOf(i)
    <3>1. i \in Item
      BY <1>2 DEF TypeOK, OrNil
    <3> QED BY <1>2, <3>1, SuiType DEF StatusOf, SuiOf
  <2>2. sui' = [sui EXCEPT ![x].userStatus = st, ![x].serverID = Nil]
    BY <1>2 DEF CmdGsLogout
  <2>3. SuisKept(sui')
    <3>1. st \in Status /\ (st \in LSStatus <=> sui[x].userStatus \in LSStatus)
      BY <2>1, StatusMoves
    <3>2. Nil \in OrNil(Server)
      BY DEF OrNil
    <3> HIDE DEF x, i, st
    <3> QED BY <2>1, <2>2, <3>1, <3>2, StatusSet
  <2>4. CASE off
    <3>1. (item' = item \/ item' = [item EXCEPT ![i].suiTS = "fresh"]) /\ UNCHANGED co
      BY <1>2, <2>4 DEF CmdGsLogout
    <3>2. ItemsKept(item')
      BY <2>1, <3>1, TimestampKept, SameKept
    <3>3. co' \in [Cos -> CoRecord] /\ CoOK'
      BY <3>1 DEF CoOK, TypeOK, Cos
    <3> QED BY <1>a, <1>b, <2>3, <3>2, <3>3, KeptInv DEF TypeOK
  <2>5. CASE ~off
    <3> DEFINE r == [Idle EXCEPT !.op = "logout", !.at = "load", !.item = i, !.status = st]
    <3>1. co' = [co EXCEPT ![w] = r] /\ UNCHANGED item
      BY <1>2, <2>5, Zenon DEF CmdGsLogout
    <3>2. r \in CoRecord /\ HandlerOK(r)
      BY <2>1, StatusMoves DEF CoRecord, Idle, OrNil, HandlerOK
    <3> HIDE DEF r
    <3>3. co' \in [Cos -> CoRecord] /\ CoOK'
      BY <3>1, <3>2, CoFrame DEF CoOK, Cos
    <3> QED BY <1>a, <1>b, <2>3, <3>1, <3>3, SameKept, KeptInv DEF TypeOK
  <2> QED BY <2>4, <2>5
<1> QED BY <1>1, <1>2

(* The end of gs_logout starts a clock.                                    *)
LEMMA GsLogoutLoadedIInv ==
    ASSUME IInv, NEW w \in Worker, GsLogoutLoaded(w)
    PROVE  IInv'
<1> USE DEF IInv, hashes, games
<1>1. co[w].item \in Item
  BY DEF GsLogoutLoaded, CoOK, HandlerOK, Cos
<1>2. /\ item' = item \/ item' = [item EXCEPT ![co[w].item].suiTS = "fresh"]
      /\ co' = [co EXCEPT ![w] = Idle]
      /\ UNCHANGED <<hashes, sui, agent, disconnects, games>>
  BY DEF GsLogoutLoaded
<1>3. ItemsKept(item')
  BY <1>1, <1>2, TimestampKept, SameKept
<1>4. co' \in [Cos -> CoRecord] /\ CoOK'
  BY <1>2, IdleOK, CoFrame DEF CoOK, Cos
<1> QED BY <1>2, <1>3, <1>4, SameSuis, KeptInv DEF TypeOK

(* A failed load ends gs_logout before that.                               *)
LEMMA GsLogoutLoadErrorIInv ==
    ASSUME IInv, NEW w \in Worker, GsLogoutLoadError(w)
    PROVE  IInv'
<1> USE DEF IInv, hashes, games, GsLogoutLoadError
<1>1. co' \in [Cos -> CoRecord] /\ CoOK'
  BY IdleOK, CoFrame DEF CoOK, Cos
<1> QED BY <1>1, SameKept, SameSuis, KeptInv DEF TypeOK

(* gs_offline changes the game side of a status only.                      *)
LEMMA GsOfflineIInv ==
    ASSUME IInv, NEW g \in Server, NEW u \in UserID, GsOffline(g, u)
    PROVE  IInv'
<1> USE DEF IInv, hashes, games
<1> DEFINE i == hashUserID[u]
           x == item[i].sui
<1>1. /\ i \in Item /\ HasSui(i)
      /\ UNCHANGED <<hashes, item, agent, co, disconnects, games>>
      /\ sui' = [sui EXCEPT ![x].userStatus = GSOffline(StatusOf(i))]
  BY DEF GsOffline, TypeOK, OrNil
<1>2. x \in Sui /\ StatusOf(i) \in Status /\ sui[x].userStatus = StatusOf(i)
  BY <1>1, SuiType DEF StatusOf, SuiOf
<1>3. SuisKept(sui')
  <2> DEFINE st == GSOffline(StatusOf(i))
  <2>1. st \in Status /\ (st \in LSStatus <=> sui[x].userStatus \in LSStatus)
    BY <1>2, StatusMoves
  <2>2. Nil \in OrNil(Server) /\ sui' = [sui EXCEPT ![x].userStatus = st]
    BY <1>1 DEF OrNil
  <2> HIDE DEF i, x, st
  <2> QED BY <1>2, <2>1, <2>2, StatusSet
<1>4. co' \in [Cos -> CoRecord] /\ CoOK'
  BY <1>1 DEF CoOK, TypeOK, Cos
<1> QED BY <1>1, <1>3, <1>4, SameKept, KeptInv DEF TypeOK
(* A player leaving is cmd_gs_logout.                                      *)
LEMMA GsLogoutIInv ==
    ASSUME IInv, NEW w \in Worker, NEW g \in Server, NEW u \in UserID, NEW off \in BOOLEAN,
           GsLogout(w, g, u, off)
    PROVE  IInv'
<1>1. CmdGsLogout(w, g, u, off) /\ inGame' \subseteq inGame /\ notices' \subseteq notices
  BY DEF GsLogout
<1> QED BY <1>1, CmdGsLogoutIInv

(* So is a player thrown out.                                              *)
LEMMA GsKickedIInv ==
    ASSUME IInv, NEW w \in Worker, NEW g \in Server, NEW u \in UserID, GsKicked(w, g, u)
    PROVE  IInv'
<1>1. CmdGsLogout(w, g, u, FALSE) /\ inGame' \subseteq inGame /\ notices' \subseteq notices
  BY DEF GsKicked
<1> QED BY <1>1, CmdGsLogoutIInv

(* A disconnect event, late or not, clears agent and lobby status          *)
(* together.                                                               *)
LEMMA OnEventClientDisconnectIInv ==
    ASSUME IInv, NEW u \in UserID, NEW a \in Agent, OnEventClientDisconnect(u, a)
    PROVE  IInv'
<1> USE DEF IInv, hashes, games
<1> DEFINE i == hashUserID[u]
           x == item[i].sui
           st == WithoutLS(StatusOf(i))
<1>a. UNCHANGED <<hashes, agent, co, games>> /\ disconnects' \subseteq UserID \X Agent
  BY DEF OnEventClientDisconnect, TypeOK
<1>b. co' \in [Cos -> CoRecord] /\ CoOK'
  BY <1>a DEF CoOK, TypeOK, Cos
<1>1. CASE ~(i # Nil /\ HasSui(i))
  <2>1. UNCHANGED <<item, sui>>
    BY <1>1 DEF OnEventClientDisconnect
  <2> QED BY <1>a, <1>b, <2>1, SameKept, SameSuis, KeptInv DEF TypeOK
<1>2. CASE i # Nil /\ HasSui(i)
  <2>1. /\ sui' = [sui EXCEPT ![x].agent = Nil, ![x].userStatus = st]
        /\ item' = item \/ item' = [item EXCEPT ![i].suiTS = "fresh"]
    BY <1>2 DEF OnEventClientDisconnect
  <2>2. i \in Item
    BY <1>2 DEF TypeOK, OrNil
  <2>3. x \in Sui /\ st \in Status \ LSStatus /\ Nil \in OrNil(Agent)
    BY <1>2, <2>2, SuiType, StatusMoves DEF OrNil
  <2> HIDE DEF i, x, st
  <2>4. SuisKept(sui')
    BY <2>1, <2>3, AgentSet
  <2>5. ItemsKept(item')
    BY <2>1, <2>2, TimestampKept, SameKept
  <2> QED BY <1>a, <1>b, <2>4, <2>5, KeptInv DEF TypeOK
<1> QED BY <1>1, <1>2

(* A game server's death changes messages only.                            *)
LEMMA ServerDownIInv ==
    ASSUME IInv, NEW g \in Server, ServerDown(g)
    PROVE  IInv'
<1> USE DEF IInv, hashes
<1>1. /\ UNCHANGED <<hashes, item, sui, agent, co, disconnects>>
      /\ serverDowns' \subseteq Server
      /\ inGame' \subseteq inGame /\ notices' \subseteq notices
  BY DEF ServerDown, TypeOK
<1>2. co' \in [Cos -> CoRecord] /\ CoOK'
  BY <1>1 DEF CoOK, TypeOK, Cos
<1> QED BY <1>1, <1>2, SameKept, SameSuis, KeptInv DEF TypeOK

(* Time changes timestamps only.                                           *)
LEMMA TimePassesIInv ==
    ASSUME IInv, NEW i \in Item, TimePasses(i)
    PROVE  IInv'
<1> USE DEF IInv, hashes, games
<1>1. /\ UNCHANGED <<hashes, sui, agent, co, disconnects, games>>
      /\ \/ item' = [item EXCEPT ![i].suiTS = "old"]
         \/ item' = [item EXCEPT ![i].sessionTS = "old"]
  BY DEF TimePasses
<1>2. co' \in [Cos -> CoRecord] /\ CoOK'
  BY <1>1 DEF CoOK, TypeOK, Cos
<1>3. ItemsKept(item')
  BY <1>1, TimestampKept
<1> QED BY <1>1, <1>2, <1>3, SameSuis, KeptInv DEF TypeOK

(* The stale status kickLS writes is no lobby status, and no agent goes    *)
(* with it.                                                                *)
LEMMA RegisterSessionResumeIInv ==
    ASSUME IInv, NEW w \in Worker, RegisterSessionResume(w)
    PROVE  IInv'
<1> USE DEF IInv, hashes
<1> DEFINE x == item[co[w].item].sui
           st == co[w].status
<1>a. /\ co[w].item \in Item /\ st \in Status \ LSStatus
      /\ co[w].server \in OrNil(Server) /\ co[w].userID \in OrNil(UserID)
  BY CoType DEF RegisterSessionResume, CoOK, HandlerOK, Cos
<1>b. UNCHANGED <<hashes, disconnects, serverDowns, inGame>>
  BY DEF RegisterSessionResume
<1>c. agent' \in [Agent -> AgentRecord]
  BY KickedOK DEF RegisterSessionResume
<1>d. co' \in [Cos -> CoRecord] /\ CoOK'
  <2>1. co' = [co EXCEPT ![w] = Idle]
    BY DEF RegisterSessionResume
  <2> QED BY <2>1, IdleOK, CoFrame DEF CoOK, Cos
<1>1. CASE x = Nil
  <2>1. UNCHANGED <<item, sui, notices>>
    BY <1>1 DEF RegisterSessionResume
  <2> QED BY <1>b, <1>c, <1>d, <2>1, SameKept, SameSuis, KeptInv DEF TypeOK
<1>2. CASE x # Nil
  <2>1. /\ sui' = [sui EXCEPT ![x].agent = Nil, ![x].userStatus = st]
        /\ item' = item \/ item' = [item EXCEPT ![co[w].item].suiTS = "fresh"]
        /\ notices' \subseteq notices \cup {<<co[w].server, co[w].userID>>}
    BY <1>2 DEF RegisterSessionResume
  <2>2. x \in Sui /\ Nil \in OrNil(Agent)
    BY <1>a, <1>2, ItemType DEF OrNil
  <2>3. notices' \subseteq OrNil(Server) \X OrNil(UserID)
    BY <1>a, <2>1 DEF TypeOK
  <2> HIDE DEF x, st
  <2>4. SuisKept(sui')
    BY <1>a, <2>1, <2>2, AgentSet
  <2>5. ItemsKept(item')
    BY <1>a, <2>1, TimestampKept, SameKept
  <2> QED BY <1>b, <1>c, <1>d, <2>3, <2>4, <2>5, KeptInv DEF TypeOK
<1> QED BY <1>1, <1>2
(* createItem and the move to another session keep the indexes.            *)
LEMMA CreateItemIndex ==
    ASSUME TypeOK, IndexOK, NEW s \in Session, hashPlatformID[Owner[s]] = Nil, NEW j \in Item,
           Unreferenced(j),
           item' = [item EXCEPT ![j] = [NoItem EXCEPT !.platformID = Owner[s], !.session = s]],
           hashPlatformID' = [hashPlatformID EXCEPT ![Owner[s]] = j],
           hashSession' = [hashSession EXCEPT ![s] = j]
    PROVE  /\ IndexOK'
           /\ item' \in [Item -> ItemRecord]
           /\ item'[j].sui = Nil
           /\ \A k \in Item \ {j} : item'[k] = item[k]
           /\ hashSession' \in [Session -> OrNil(Item)]
           /\ hashPlatformID' \in [PlatformID -> OrNil(Item)]
<1> DEFINE r == [NoItem EXCEPT !.platformID = Owner[s], !.session = s]
<1>1. /\ r \in ItemRecord /\ r.sui = Nil /\ r.platformID = Owner[s] /\ r.session = s
      /\ Owner[s] \in PlatformID
  BY OwnerAssumption DEF NoItem, ItemRecord, OrNil
<1> HIDE DEF r
<1>2. /\ item' \in [Item -> ItemRecord]
      /\ item'[j] = r /\ \A k \in Item \ {j} : item'[k] = item[k]
  BY <1>1 DEF TypeOK, r
<1>3. /\ hashSession' \in [Session -> OrNil(Item)]
      /\ hashPlatformID' \in [PlatformID -> OrNil(Item)]
  BY <1>1 DEF TypeOK, OrNil
<1>4. ASSUME NEW p \in PlatformID, hashPlatformID'[p] # Nil
      PROVE  /\ item'[hashPlatformID'[p]].platformID = p
             /\ item'[hashPlatformID'[p]].session \in Session
             /\ hashSession'[item'[hashPlatformID'[p]].session] = hashPlatformID'[p]
  <2>1. CASE p = Owner[s]
    BY <1>1, <1>2, <2>1 DEF TypeOK
  <2>2. CASE p # Owner[s]
    <3>1. /\ hashPlatformID'[p] = hashPlatformID[p] /\ hashPlatformID[p] \in Item \ {j}
      BY <1>1, <1>4, <2>2 DEF TypeOK, OrNil, Unreferenced
    <3>2. item'[hashPlatformID[p]] = item[hashPlatformID[p]]
      BY <1>2, <3>1
    <3>3. item[hashPlatformID[p]].session # s
      BY <1>4, <2>2, <3>1 DEF IndexOK
    <3> QED BY <1>4, <3>1, <3>2, <3>3 DEF IndexOK, TypeOK
  <2> QED BY <2>1, <2>2
<1>5. ASSUME NEW t \in Session, hashSession'[t] # Nil
      PROVE  /\ item'[hashSession'[t]].session = t
             /\ item'[hashSession'[t]].platformID = Owner[t]
             /\ hashPlatformID'[Owner[t]] = hashSession'[t]
  <2>1. CASE t = s
    BY <1>1, <1>2, <2>1 DEF TypeOK
  <2>2. CASE t # s
    <3>1. /\ hashSession'[t] = hashSession[t] /\ hashSession[t] \in Item \ {j}
      BY <1>5, <2>2 DEF TypeOK, OrNil, Unreferenced
    <3>2. item'[hashSession[t]] = item[hashSession[t]]
      BY <1>2, <3>1
    <3>3. Owner[t] # Owner[s]
      BY <1>5, <3>1 DEF IndexOK
    <3> QED BY <1>5, <3>1, <3>2, <3>3, OwnerAssumption DEF IndexOK, TypeOK
  <2> QED BY <2>1, <2>2
<1> QED BY <1>1, <1>2, <1>3, <1>4, <1>5 DEF IndexOK

(* Moving an account to its new session keeps the indexes in agreement.    *)
LEMMA SessionMovedIndex ==
    ASSUME TypeOK, IndexOK, NEW s \in Session, NEW i \in Item, hashPlatformID[Owner[s]] = i,
           i # Nil,
           item' = [item EXCEPT ![i].session = s, ![i].sessionTS = "fresh"],
           hashSession' = SessionMoved(i, s), UNCHANGED hashPlatformID
    PROVE  /\ IndexOK'
           /\ item' \in [Item -> ItemRecord]
           /\ \A k \in Item : item'[k].sui = item[k].sui
           /\ hashSession' \in [Session -> OrNil(Item)]
<1> DEFINE old == item[i].session
<1>1. /\ old \in Session /\ hashSession[old] = i /\ item[i].platformID = Owner[s]
      /\ Owner[s] \in PlatformID
  BY OwnerAssumption DEF IndexOK
<1>2. \A r \in ItemRecord : [r EXCEPT !.session = s, !.sessionTS = "fresh"] \in ItemRecord
  BY DEF ItemRecord, OrNil
<1>3. item \in [Item -> ItemRecord] /\ item[i] \in ItemRecord
  BY DEF TypeOK
<1>4. /\ item' \in [Item -> ItemRecord]
      /\ \A k \in Item \ {i} : item'[k] = item[k]
      /\ \A k \in Item : item'[k].sui = item[k].sui
      /\ item'[i].session = s /\ item'[i].platformID = Owner[s]
  BY <1>1, <1>2, <1>3 DEF ItemRecord
<1>5. /\ hashSession' \in [Session -> OrNil(Item)] /\ hashSession'[s] = i
      /\ \A t \in Session \ {s, old} : hashSession'[t] = hashSession[t]
      /\ old # s => hashSession'[old] = Nil
  BY <1>1 DEF TypeOK, OrNil, SessionMoved
<1> HIDE DEF old
<1>6. ASSUME NEW p \in PlatformID, hashPlatformID[p] # Nil
      PROVE  /\ item'[hashPlatformID[p]].platformID = p
             /\ item'[hashPlatformID[p]].session \in Session
             /\ hashSession'[item'[hashPlatformID[p]].session] = hashPlatformID[p]
  <2>1. CASE p = Owner[s]
    BY <1>4, <1>5, <2>1
  <2>2. CASE p # Owner[s]
    <3>1. /\ hashPlatformID[p] \in Item /\ hashPlatformID[p] # i
          /\ item[hashPlatformID[p]].session \in Session
          /\ hashSession[item[hashPlatformID[p]].session] = hashPlatformID[p]
          /\ item[hashPlatformID[p]].platformID = p
      BY <1>1, <1>6, <2>2 DEF TypeOK, OrNil, IndexOK
    <3>2. item[hashPlatformID[p]].session # s /\ item[hashPlatformID[p]].session # old
      BY <1>1, <1>6, <2>2, <3>1 DEF IndexOK
    <3> QED BY <1>4, <1>5, <3>1, <3>2
  <2> QED BY <2>1, <2>2
<1>7. ASSUME NEW t \in Session, hashSession'[t] # Nil
      PROVE  /\ item'[hashSession'[t]].session = t
             /\ item'[hashSession'[t]].platformID = Owner[t]
             /\ hashPlatformID[Owner[t]] = hashSession'[t]
  <2>1. CASE t = s
    BY <1>4, <1>5, <2>1
  <2>2. CASE t # s
    <3>1. t # old /\ hashSession'[t] = hashSession[t] /\ hashSession[t] \in Item
      BY <1>5, <1>7, <2>2 DEF TypeOK, OrNil
    <3>2. /\ item[hashSession[t]].session = t /\ item[hashSession[t]].platformID = Owner[t]
          /\ hashPlatformID[Owner[t]] = hashSession[t]
      BY <1>7, <3>1 DEF IndexOK
    <3>3. hashSession[t] # i
      BY <3>1, <3>2 DEF old
    <3> QED BY <1>4, <3>1, <3>2, <3>3
  <2> QED BY <2>1, <2>2
<1>8. IndexOK'
  <2>1. \A p \in PlatformID : LET k == hashPlatformID'[p] IN
          k # Nil => /\ item'[k].platformID = p
                     /\ item'[k].session \in Session
                     /\ hashSession'[item'[k].session] = k
    BY <1>6
  <2>2. \A t \in Session : LET k == hashSession'[t] IN
          k # Nil => /\ item'[k].session = t
                     /\ item'[k].platformID = Owner[t]
                     /\ hashPlatformID'[Owner[t]] = k
    BY <1>7
  <2> QED BY <2>1, <2>2, Zenon DEF IndexOK
<1> QED BY <1>4, <1>5, <1>8

(* The handlers stay good when a new key disturbs traversals.              *)
LEMMA MarkDirtyOK ==
    ASSUME NEW f \in [Cos -> CoRecord], \A c \in Cos : HandlerOK(f[c]), NEW s \in Session,
           co' = MarkDirty(f, s)
    PROVE  co' \in [Cos -> CoRecord] /\ CoOK'
<1>1. SameBut(f, co')
  BY MarkDirtySame
<1> QED BY <1>1, SameButOK DEF SameBut, CoOK

(* registerSession: a new account, or a new session for a known one.       *)
LEMMA RegisterSessionIInv ==
    ASSUME IInv, NEW w \in Worker, NEW s \in Session, RegisterSession(w, s)
    PROVE  IInv'
<1> USE DEF IInv
<1> DEFINE i == hashPlatformID[Owner[s]]
<1>a. UNCHANGED <<hashUserID, sui, agent, disconnects, serverDowns, inGame>>
  BY DEF RegisterSession
<1>b. i \in OrNil(Item)
  BY OwnerAssumption DEF TypeOK
<1>c. co \in [Cos -> CoRecord] /\ \A c \in Cos : HandlerOK(co[c])
  BY DEF TypeOK, Cos, CoOK
<1>d. LSAgentOK'
  BY <1>a DEF LSAgentOK
<1>1. CASE i = Nil
  <2>1. CreateItem(s) /\ co' = MarkDirty(co, s) /\ UNCHANGED notices
    BY <1>1 DEF RegisterSession
  <2>2. PICK j \in Item :
          /\ Unreferenced(j)
          /\ item' = [item EXCEPT ![j] = [NoItem EXCEPT !.platformID = Owner[s], !.session = s]]
          /\ hashPlatformID' = [hashPlatformID EXCEPT ![Owner[s]] = j]
          /\ hashSession' = [hashSession EXCEPT ![s] = j]
    BY <2>1, Zenon DEF CreateItem
  <2>3. /\ IndexOK' /\ item' \in [Item -> ItemRecord] /\ item'[j].sui = Nil
        /\ \A k \in Item \ {j} : item'[k] = item[k]
        /\ hashSession' \in [Session -> OrNil(Item)]
        /\ hashPlatformID' \in [PlatformID -> OrNil(Item)]
    BY <1>1, <2>2, CreateItemIndex
  <2>4. co' \in [Cos -> CoRecord] /\ CoOK'
    BY <1>c, <2>1, MarkDirtyOK
  <2>5. TypeOK'
    BY <1>a, <2>1, <2>3, <2>4 DEF TypeOK, Cos
  <2>6. SuiPoolOK'
    BY <1>a, <2>3 DEF SuiPoolOK, HasSui, SuiOf
  <2> QED BY <1>d, <2>3, <2>4, <2>5, <2>6
<1>2. CASE i # Nil
  <2>0. i \in Item
    BY <1>b, <1>2 DEF OrNil
  <2>1. /\ item' = [item EXCEPT ![i].session = s, ![i].sessionTS = "fresh"]
        /\ hashSession' = SessionMoved(i, s) /\ UNCHANGED hashPlatformID
    BY <1>2 DEF RegisterSession
  <2>2. /\ IndexOK' /\ item' \in [Item -> ItemRecord]
        /\ \A k \in Item : item'[k].sui = item[k].sui
        /\ hashSession' \in [Session -> OrNil(Item)]
    BY <1>2, <2>0, <2>1, SessionMovedIndex
  <2>3. SuiPoolOK'
    BY <1>a, <2>2, PoolFrame
  <2>4. co' \in [Cos -> CoRecord] /\ CoOK' /\ notices' \subseteq OrNil(Server) \X OrNil(UserID)
    <3>1. CASE HasSui(i) /\ StatusOf(i) \in LSStatus
      <4> DEFINE r == [Idle EXCEPT !.op = "session", !.at = "kick", !.item = i,
                                   !.kick = SuiOf(i).agent,
                                   !.status = WithoutLS(StatusOf(i)),
                                   !.server = SuiOf(i).serverID,
                                   !.userID = SuiOf(i).userID]
                 f == [co EXCEPT ![w] = r]
      <4>1. co' = MarkDirty(f, s) /\ UNCHANGED notices
        BY <1>2, <3>1, Zenon DEF RegisterSession
      <4>2. r \in CoRecord /\ HandlerOK(r)
        <5>1. /\ SuiOf(i).agent \in OrNil(Agent) /\ SuiOf(i).serverID \in OrNil(Server)
              /\ SuiOf(i).userID \in OrNil(UserID)
              /\ WithoutLS(StatusOf(i)) \in Status \ LSStatus
          BY <2>0, <3>1, SuiType, StatusMoves
        <5>2. r \in CoRecord
          BY <2>0, <5>1 DEF CoRecord, Idle, OrNil
        <5>3. r.op = "session" /\ r.at = "kick" /\ r.item = i
              /\ r.status = WithoutLS(StatusOf(i))
          BY DEF Idle
        <5> HIDE DEF r
        <5> QED BY <2>0, <5>1, <5>2, <5>3 DEF HandlerOK
      <4> HIDE DEF r
      <4>3. f \in [Cos -> CoRecord] /\ \A c \in Cos : HandlerOK(f[c])
        BY <4>2, CoFrame DEF Cos
      <4> HIDE DEF f
      <4> QED BY <4>1, <4>3, MarkDirtyOK DEF TypeOK
    <3>2. CASE ~(HasSui(i) /\ StatusOf(i) \in LSStatus)
      <4>1. /\ co' = MarkDirty(co, s)
            /\ notices' = IF HasSui(i) /\ StatusOf(i) = "US_GS" THEN KickGS(i) ELSE notices
        BY <1>2, <3>2 DEF RegisterSession
      <4>2. notices' \subseteq OrNil(Server) \X OrNil(UserID)
        BY <2>0, <4>1, SuiType DEF KickGS, TypeOK
      <4> QED BY <1>c, <4>1, <4>2, MarkDirtyOK
    <3> QED BY <3>1, <3>2
  <2>5. TypeOK'
    BY <1>a, <2>1, <2>2, <2>4 DEF TypeOK, Cos
  <2> QED BY <1>d, <2>2, <2>3, <2>4, <2>5
<1> QED BY <1>1, <1>2

(* A login request that is about to answer remembers its item.             *)
LEMMA ReplyRecord ==
    ASSUME NEW r \in CoRecord, NEW j \in Item
    PROVE  [r EXCEPT !.at = "reply", !.item = j] \in CoRecord
  BY DEF CoRecord, OrNil

(* An account that has no struct takes one that is not in use.             *)
LEMMA RegisterUserIInv ==
    ASSUME IInv, NEW a \in Agent, RegisterUser(a)
    PROVE  IInv'
<1> USE DEF IInv, games
<1> DEFINE p == co[a].platformID
           i == hashPlatformID[p]
           u == DbUserID[p]
<1>a. /\ co[a] \in CoRecord /\ co[a].op = "login" /\ p \in PlatformID
      /\ i \in OrNil(Item) /\ u \in UserID
      /\ UNCHANGED <<hashSession, hashPlatformID, games>>
  BY CoType, DbUserIDAssumption DEF TypeOK, CoOK, HandlerOK, Cos, RegisterUser
<1>1. CASE i = Nil \/ HasSui(i)
  <2>1. LoginError(a, agent) /\ UNCHANGED <<hashUserID, item, sui>>
    BY <1>1 DEF RegisterUser
  <2>2. agent \in [Agent -> AgentRecord]
    BY DEF TypeOK
  <2> QED BY <1>a, <2>1, <2>2, LoginErrorOK, SameKept, SameSuis, KeptInv DEF TypeOK, hashes
<1>2. CASE ~(i = Nil \/ HasSui(i))
  <2> DEFINE q == [co[a] EXCEPT !.at = "reply", !.item = i]
             f == [co EXCEPT ![a] = q]
  <2>1. PICK x \in Sui :
        /\ ~sui[x].isInit
        /\ sui' = [sui EXCEPT ![x] = [isInit |-> TRUE, userID |-> u, agent |-> a,
                                      userStatus |-> "US_LS", serverID |-> Nil]]
        /\ item' = [item EXCEPT ![i].sui = x, ![i].sessionTS = "fresh", ![i].suiTS = "nil"]
        /\ hashUserID' = [hashUserID EXCEPT ![u] = i]
        /\ agent' = [agent EXCEPT ![a].userID = u, ![a].sui = x]
        /\ co' = SetCache(f, a)
        /\ UNCHANGED disconnects
    BY <1>2, Zenon DEF RegisterUser
  <2>2. i \in Item /\ item[i].sui = Nil
    BY <1>a, <1>2 DEF OrNil, HasSui
  <2>3. q \in CoRecord /\ HandlerOK(q)
    <3> HIDE DEF i, p
    <3>1. q \in CoRecord
      BY <1>a, <2>2, ReplyRecord
    <3>2. q.op = "login" /\ q.at = "reply" /\ q.item = i
      BY <1>a DEF CoRecord
    <3> HIDE DEF q
    <3> QED BY <2>2, <3>1, <3>2 DEF HandlerOK
  <2> HIDE DEF q
  <2>4. f \in [Cos -> CoRecord] /\ \A d \in Cos : HandlerOK(f[d])
    BY <2>3, CoFrame DEF Cos
  <2> HIDE DEF f
  <2>5. co' \in [Cos -> CoRecord] /\ CoOK'
    <3>1. SameBut(f, co')
      BY <2>1, <2>4, SetCacheSame
    <3> QED BY <2>4, <3>1, SameButOK DEF SameBut, CoOK
  <2> HIDE DEF i, u, p
  <2>6. /\ item' \in [Item -> ItemRecord] /\ item'[i].sui = x
        /\ \A k \in Item \ {i} : item'[k] = item[k]
        /\ \A k \in Item : /\ item'[k].session = item[k].session
                           /\ item'[k].platformID = item[k].platformID
    <3>1. \A g \in ItemRecord :
            [g EXCEPT !.sui = x, !.sessionTS = "fresh", !.suiTS = "nil"] \in ItemRecord
      BY DEF ItemRecord, OrNil
    <3>2. item \in [Item -> ItemRecord] /\ item[i] \in ItemRecord
      BY <2>2 DEF TypeOK
    <3> QED BY <2>1, <2>2, <3>1, <3>2 DEF ItemRecord
  <2>7. sui' \in [Sui -> SuiRecord] /\ sui'[x].isInit /\ LSAgentOK'
        /\ \A y \in Sui \ {x} : sui'[y] = sui[y]
    <3> DEFINE g == [isInit |-> TRUE, userID |-> u, agent |-> a,
                     userStatus |-> "US_LS", serverID |-> Nil]
    <3>1. /\ g \in SuiRecord /\ g.isInit
          /\ g.userStatus \in LSStatus /\ g.agent # Nil
      BY <1>a, NilAssumption DEF SuiRecord, OrNil, Status, LSStatus
    <3> HIDE DEF g
    <3>2. sui' = [sui EXCEPT ![x] = g]
      BY <2>1 DEF g
    <3> QED BY <3>1, <3>2 DEF TypeOK, LSAgentOK
  <2>8. agent' \in [Agent -> AgentRecord]
    <3>1. [agent[a] EXCEPT !.userID = u, !.sui = x] \in AgentRecord
      BY <1>a DEF TypeOK, AgentRecord, OrNil
    <3> QED BY <2>1, <3>1 DEF TypeOK
  <2>9. hashUserID' \in [UserID -> OrNil(Item)]
    BY <1>a, <2>1, <2>2 DEF TypeOK, OrNil
  <2>10. TypeOK'
    BY <1>a, <2>1, <2>5, <2>6, <2>7, <2>8, <2>9 DEF TypeOK, Cos
  <2>11. IndexOK'
    BY <1>a, <2>6, IndexFrame
  <2>12. SuiPoolOK'
    <3>1. \A k \in Item \ {i} : item[k].sui # x
      BY <2>1, NilAssumption DEF SuiPoolOK, HasSui, SuiOf
    <3>2. \A k \in Item \ {i} : item[k].sui # Nil => item[k].sui \in Sui
      BY ItemType DEF OrNil
    <3> QED BY <2>6, <2>7, <3>1, <3>2 DEF SuiPoolOK, HasSui, SuiOf
  <2> QED BY <2>5, <2>7, <2>10, <2>11, <2>12
<1> QED BY <1>1, <1>2
(* Structs that go back to the pool are the ones no item points to any     *)
(* more.                                                                   *)
LEMMA ReleaseOK ==
    ASSUME IInv, NEW Rel \in SUBSET Item, NEW Us, ReleaseSui(Rel, Us),
           item' \in [Item -> ItemRecord],
           \A i \in Rel : item'[i].sui = Nil,
           \A i \in Item \ Rel : item'[i].sui = item[i].sui \/ item'[i].sui = Nil
    PROVE  /\ sui' \in [Sui -> SuiRecord] /\ hashUserID' \in [UserID -> OrNil(Item)]
           /\ SuiPoolOK' /\ LSAgentOK'
<1> USE DEF IInv
<1> DEFINE Xs == {item[i].sui : i \in Rel}
<1>1. /\ sui' = [x \in Sui |-> IF x \in Xs THEN NoSui ELSE sui[x]]
      /\ hashUserID' = [u \in UserID |-> IF u \in Us THEN Nil ELSE hashUserID[u]]
  BY DEF ReleaseSui
<1>2. NoSui \in SuiRecord /\ NoSui.userStatus \notin LSStatus /\ NoSui.agent = Nil
  BY DEF NoSui, SuiRecord, OrNil, Status, LSStatus
<1>3. sui' \in [Sui -> SuiRecord] /\ hashUserID' \in [UserID -> OrNil(Item)]
  BY <1>1, <1>2 DEF TypeOK, OrNil
<1>4. LSAgentOK'
  BY <1>1, <1>2 DEF LSAgentOK
<1>5. SuiPoolOK'
  <2> SUFFICES ASSUME NEW i \in Item, item'[i].sui # Nil
               PROVE  /\ sui'[item'[i].sui].isInit
                      /\ \A j \in Item : item'[j].sui = item'[i].sui => i = j
    BY DEF SuiPoolOK, HasSui, SuiOf
  <2>1. i \notin Rel /\ item'[i].sui = item[i].sui
    OBVIOUS
  <2>2. item[i].sui \in Sui
    BY <2>1, ItemType DEF OrNil
  <2>3. sui[item[i].sui].isInit /\ \A j \in Item : item[j].sui = item[i].sui => i = j
    BY <2>1 DEF SuiPoolOK, HasSui, SuiOf
  <2>4. item[i].sui \notin Xs
    BY <2>1, <2>3
  <2>5. sui'[item'[i].sui].isInit
    BY <1>1, <2>1, <2>2, <2>3, <2>4
  <2>6. \A j \in Item : item'[j].sui = item'[i].sui => i = j
    BY <2>1, <2>3
  <2> QED BY <2>5, <2>6
<1> QED BY <1>3, <1>4, <1>5

(* One segment of the traversal.                                           *)
LEMMA TraverseIInv ==
    ASSUME IInv, NEW w \in Worker, NEW g \in Server, NEW T \in SUBSET Session,
           NEW Is0 \in SUBSET Item, NEW Us0, Traverse(w, g, T, Is0, Us0),
           UNCHANGED <<hashSession, hashPlatformID, disconnects, inGame, notices>>,
           agent' \in [Agent -> AgentRecord], serverDowns' \subseteq Server
    PROVE  IInv'
<1> USE DEF IInv
<1> DEFINE Due  == {s \in T : OnServer(g, s) /\ hashSession[s] \notin Is0}
           Wait == {s \in Due : KickFirst(g, s)}
<1>1. PICK D \in SUBSET (Due \ Wait) :
        LET Is == {hashSession[s] : s \in D} IN
        /\ ReleaseSui(Is0 \cup Is, Us0 \cup {SuiOf(i).userID : i \in Is})
        /\ item' = [i \in Item |-> IF i \in Is0 \cup Is THEN WithoutSui(i) ELSE item[i]]
        /\ \/ /\ Wait = {} /\ D = Due
              /\ co' = [co EXCEPT ![w] = Idle]
           \/ \E s \in Wait :
                LET i == hashSession[s] IN
                co' = [co EXCEPT ![w] =
                         [Idle EXCEPT !.op = "down", !.at = "kick", !.server = g,
                                      !.item = i, !.kick = SuiOf(i).agent,
                                      !.userID = SuiOf(i).userID,
                                      !.todo = T \ (D \cup {s}),
                                      !.dirty = co[w].dirty]]
  BY Zenon DEF Traverse
<1> DEFINE Is  == {hashSession[s] : s \in D}
           Rel == Is0 \cup Is
           Us  == Us0 \cup {SuiOf(i).userID : i \in Is}
<1>2. \A s \in Due : s \in Session /\ hashSession[s] \in Item /\ HasSui(hashSession[s])
  BY DEF OnServer, TypeOK, OrNil
<1>3. Rel \in SUBSET Item /\ ReleaseSui(Rel, Us)
      /\ item' = [i \in Item |-> IF i \in Rel THEN WithoutSui(i) ELSE item[i]]
  BY <1>1, <1>2
<1>4. co' \in [Cos -> CoRecord] /\ CoOK'
  <2>1. CASE co' = [co EXCEPT ![w] = Idle]
    BY <2>1, IdleOK, CoFrame DEF CoOK, Cos
  <2>2. ASSUME NEW s \in Wait,
               co' = [co EXCEPT ![w] =
                         [Idle EXCEPT !.op = "down", !.at = "kick", !.server = g,
                                      !.item = hashSession[s], !.kick = SuiOf(hashSession[s]).agent,
                                      !.userID = SuiOf(hashSession[s]).userID,
                                      !.todo = T \ (D \cup {s}),
                                      !.dirty = co[w].dirty]]
        PROVE  co' \in [Cos -> CoRecord] /\ CoOK'
    <3> DEFINE i == hashSession[s]
               td == T \ (D \cup {s})
               r == [Idle EXCEPT !.op = "down", !.at = "kick", !.server = g,
                                 !.item = i, !.kick = SuiOf(i).agent,
                                 !.userID = SuiOf(i).userID, !.todo = td,
                                 !.dirty = co[w].dirty]
    <3>1. co' = [co EXCEPT ![w] = r]
      BY <2>2
    <3>2. /\ i \in Item /\ SuiOf(i).agent \in OrNil(Agent) /\ SuiOf(i).userID \in OrNil(UserID)
          /\ co[w].dirty \in BOOLEAN /\ td \in SUBSET Session
      BY <1>2, SuiType, CoType DEF Cos
    <3> HIDE DEF i, td
    <3>3. r \in CoRecord
      BY <3>2 DEF CoRecord, Idle, OrNil, Status
    <3>4. r.op = "down" /\ r.at = "kick" /\ r.item = i /\ r.server = g
      BY DEF Idle
    <3> HIDE DEF r
    <3>5. HandlerOK(r)
      BY <3>2, <3>4 DEF HandlerOK
    <3> QED BY <3>1, <3>3, <3>5, CoFrame DEF CoOK, Cos
  <2> QED BY <1>1, <2>1, <2>2
<1> HIDE DEF Is, Rel, Us, Due, Wait
<1>5. /\ item' \in [Item -> ItemRecord]
      /\ \A i \in Item : /\ item'[i].session = item[i].session
                         /\ item'[i].platformID = item[i].platformID
      /\ \A i \in Rel : item'[i].sui = Nil
      /\ \A i \in Item \ Rel : item'[i].sui = item[i].sui
  <2>1. \A i \in Item : /\ WithoutSui(i) \in ItemRecord /\ WithoutSui(i).sui = Nil
                        /\ WithoutSui(i).session = item[i].session
                        /\ WithoutSui(i).platformID = item[i].platformID
    BY ItemType DEF WithoutSui, ItemRecord, OrNil
  <2>2. item \in [Item -> ItemRecord]
    BY DEF TypeOK
  <2> QED BY <1>3, <2>1, <2>2
<1>6. /\ sui' \in [Sui -> SuiRecord] /\ hashUserID' \in [UserID -> OrNil(Item)]
      /\ SuiPoolOK' /\ LSAgentOK'
  BY <1>3, <1>5, ReleaseOK
<1>7. IndexOK'
  BY <1>5, IndexFrame
<1>8. TypeOK'
  BY <1>4, <1>5, <1>6 DEF TypeOK, Cos
<1> QED BY <1>4, <1>6, <1>7, <1>8

(* The first segment of the traversal.                                     *)
LEMMA OnEventGameServerDisconnectIInv ==
    ASSUME IInv, NEW w \in Worker, NEW g \in Server, OnEventGameServerDisconnect(w, g)
    PROVE  IInv'
<1>1. /\ Traverse(w, g, Session, {}, {}) /\ serverDowns' \subseteq Server
      /\ UNCHANGED <<hashSession, hashPlatformID, disconnects, inGame, notices>>
      /\ agent' \in [Agent -> AgentRecord]
  BY DEF OnEventGameServerDisconnect, IInv, TypeOK
<1>2. {} \in SUBSET Item /\ Session \in SUBSET Session
  OBVIOUS
<1> QED BY <1>1, <1>2, TraverseIInv

(* Its later segments, over whatever part of the table.                    *)
LEMMA OnEventGameServerDisconnectResumeIInv ==
    ASSUME IInv, NEW w \in Worker, OnEventGameServerDisconnectResume(w)
    PROVE  IInv'
<1> USE DEF IInv
<1>1. /\ {co[w].item} \in SUBSET Item /\ co[w].todo \in SUBSET Session
      /\ co[w].server \in Server
  BY CoType DEF OnEventGameServerDisconnectResume, CoOK, HandlerOK, Cos
<1>2. PICK T \in SUBSET Session : Traverse(w, co[w].server, T, {co[w].item}, {co[w].userID})
  BY <1>1 DEF OnEventGameServerDisconnectResume
<1>3. /\ UNCHANGED <<hashSession, hashPlatformID, disconnects, inGame, notices>>
      /\ agent' \in [Agent -> AgentRecord] /\ serverDowns' \subseteq Server
  BY KickedOK DEF OnEventGameServerDisconnectResume, games, TypeOK
<1> QED BY <1>1, <1>2, <1>3, TraverseIInv

(* The sweep takes an account out of both indexes or leaves it in both.    *)
LEMMA CleanExpiredInfoIInv ==
    ASSUME IInv, CleanExpiredInfo
    PROVE  IInv'
<1> USE DEF IInv
<1> DEFINE Live == {s \in Session : hashSession[s] # Nil}
           Bad  == {s \in Live : Unexpected(hashSession[s])}
<1>1. PICK D \in SUBSET (Live \ Bad) :
        LET Is   == {hashSession[s] : s \in D}
            Rel  == {i \in Is : Expired(i)}
            Gone == {i \in Is : (i \in Rel \/ ~HasSui(i)) /\ item[i].sessionTS = "old"} IN
        /\ ReleaseSui(Rel, {SuiOf(i).userID : i \in Rel})
        /\ item' = [i \in Item |-> CASE i \in Gone -> NoItem
                                     [] i \in Rel \ Gone -> WithoutSui(i)
                                     [] OTHER -> item[i]]
        /\ hashSession' = [s \in Session |->
                             IF \E i \in Gone : item[i].session = s THEN Nil ELSE hashSession[s]]
        /\ hashPlatformID' = [p \in PlatformID |->
                             IF \E i \in Gone : item[i].platformID = p THEN Nil ELSE hashPlatformID[p]]
        /\ UNCHANGED <<agent, co, disconnects, games>>
  BY Zenon DEF CleanExpiredInfo
<1> DEFINE Is   == {hashSession[s] : s \in D}
           Rel  == {i \in Is : Expired(i)}
           Gone == {i \in Is : (i \in Rel \/ ~HasSui(i)) /\ item[i].sessionTS = "old"}
           Us   == {SuiOf(i).userID : i \in Rel}
<1>2. /\ ReleaseSui(Rel, Us)
      /\ item' = [i \in Item |-> CASE i \in Gone -> NoItem
                                   [] i \in Rel \ Gone -> WithoutSui(i)
                                   [] OTHER -> item[i]]
      /\ hashSession' = [s \in Session |->
                           IF \E i \in Gone : item[i].session = s THEN Nil ELSE hashSession[s]]
      /\ hashPlatformID' = [p \in PlatformID |->
                           IF \E i \in Gone : item[i].platformID = p THEN Nil ELSE hashPlatformID[p]]
      /\ UNCHANGED <<agent, co, disconnects, games>>
  BY <1>1, Zenon
<1>3. \A i \in Is : /\ i \in Item /\ item[i].session \in Session
                    /\ item[i].platformID = Owner[item[i].session]
                    /\ hashSession[item[i].session] = i /\ hashPlatformID[item[i].platformID] = i
  BY DEF TypeOK, OrNil, IndexOK
<1>4. Rel \in SUBSET Item /\ Gone \subseteq Is
  BY <1>3
<1> HIDE DEF Is, Rel, Gone, Us, Live, Bad
<1>5. \A i \in Item : /\ WithoutSui(i) \in ItemRecord /\ WithoutSui(i).sui = Nil
                      /\ WithoutSui(i).session = item[i].session
                      /\ WithoutSui(i).platformID = item[i].platformID
  BY ItemType DEF WithoutSui, ItemRecord, OrNil
<1>6. NoItem \in ItemRecord /\ NoItem.sui = Nil
  BY DEF NoItem, ItemRecord, OrNil
<1>7. item \in [Item -> ItemRecord]
  BY DEF TypeOK
<1>8. /\ item' \in [Item -> ItemRecord]
      /\ \A i \in Rel : item'[i].sui = Nil
      /\ \A i \in Item \ Rel : item'[i].sui = item[i].sui \/ item'[i].sui = Nil
      /\ \A i \in Item \ Gone : /\ item'[i].session = item[i].session
                                /\ item'[i].platformID = item[i].platformID
  <2>1. \A i \in Item : \/ i \in Gone /\ item'[i] = NoItem
                        \/ i \in Rel \ Gone /\ item'[i] = WithoutSui(i)
                        \/ i \notin Rel \cup Gone /\ item'[i] = item[i]
    BY <1>2
  <2>2. \A i \in Item : item'[i] \in ItemRecord
    BY <1>5, <1>6, <1>7, <2>1
  <2>3. item' \in [Item -> ItemRecord]
    BY <1>2, <2>2
  <2> QED BY <1>4, <1>5, <1>6, <2>1, <2>3
<1>9. /\ sui' \in [Sui -> SuiRecord] /\ hashUserID' \in [UserID -> OrNil(Item)]
      /\ SuiPoolOK' /\ LSAgentOK'
  BY <1>2, <1>4, <1>8, ReleaseOK
<1>10. /\ hashSession' \in [Session -> OrNil(Item)]
       /\ hashPlatformID' \in [PlatformID -> OrNil(Item)]
  BY <1>2 DEF TypeOK, OrNil
<1>11. co' \in [Cos -> CoRecord] /\ CoOK'
  BY <1>2 DEF CoOK, TypeOK, Cos
<1>12. TypeOK'
  BY <1>2, <1>8, <1>9, <1>10, <1>11 DEF TypeOK, Cos, games
<1>13. \A p \in PlatformID : LET k == hashPlatformID'[p] IN
          k # Nil => /\ item'[k].platformID = p
                     /\ item'[k].session \in Session
                     /\ hashSession'[item'[k].session] = k
  <2> SUFFICES ASSUME NEW p \in PlatformID, hashPlatformID'[p] # Nil
               PROVE  /\ item'[hashPlatformID'[p]].platformID = p
                      /\ item'[hashPlatformID'[p]].session \in Session
                      /\ hashSession'[item'[hashPlatformID'[p]].session] = hashPlatformID'[p]
    OBVIOUS
  <2> DEFINE k == hashPlatformID[p]
  <2>1. /\ hashPlatformID'[p] = k /\ k # Nil /\ \A i \in Gone : item[i].platformID # p
    BY <1>2
  <2>2. /\ k \in Item /\ item[k].platformID = p /\ item[k].session \in Session
        /\ hashSession[item[k].session] = k
    BY <2>1 DEF TypeOK, OrNil, IndexOK
  <2>3. k \notin Gone /\ \A i \in Gone : item[i].session # item[k].session
    BY <1>3, <1>4, <2>1, <2>2
  <2> HIDE DEF k
  <2>4. hashSession'[item[k].session] = k
    BY <1>2, <2>2, <2>3
  <2> QED BY <1>8, <2>1, <2>2, <2>3, <2>4
<1>14. \A t \in Session : LET k == hashSession'[t] IN
          k # Nil => /\ item'[k].session = t
                     /\ item'[k].platformID = Owner[t]
                     /\ hashPlatformID'[Owner[t]] = k
  <2> SUFFICES ASSUME NEW t \in Session, hashSession'[t] # Nil
               PROVE  /\ item'[hashSession'[t]].session = t
                      /\ item'[hashSession'[t]].platformID = Owner[t]
                      /\ hashPlatformID'[Owner[t]] = hashSession'[t]
    OBVIOUS
  <2> DEFINE k == hashSession[t]
  <2>1. /\ hashSession'[t] = k /\ k # Nil /\ \A i \in Gone : item[i].session # t
    BY <1>2
  <2>2. /\ k \in Item /\ item[k].session = t /\ item[k].platformID = Owner[t]
        /\ hashPlatformID[Owner[t]] = k /\ Owner[t] \in PlatformID
    BY <2>1, OwnerAssumption DEF TypeOK, OrNil, IndexOK
  <2>3. k \notin Gone /\ \A i \in Gone : item[i].platformID # Owner[t]
    BY <1>3, <1>4, <2>1, <2>2
  <2> HIDE DEF k
  <2>4. hashPlatformID'[Owner[t]] = k
    BY <1>2, <2>2, <2>3
  <2> QED BY <1>8, <2>1, <2>2, <2>3, <2>4
<1>15. IndexOK'
  BY <1>13, <1>14, Zenon DEF IndexOK
<1> QED BY <1>9, <1>11, <1>12, <1>15
-----------------------------------------------------------------------------
(* Every step preserves the invariant.                                     *)
LEMMA NextIInv == IInv /\ [Next]_vars => IInv'
<1> SUFFICES ASSUME IInv, [Next]_vars PROVE IInv'
  OBVIOUS
<1>1. CASE Next
  BY <1>1, RegisterSessionIInv, RegisterSessionResumeIInv, ConnectIInv, AgentExitIInv,
     LoginRequestIInv, LoginLookupIInv, LoginFindIInv, SwitchUserItemIInv,
     SwitchUserItemKickedIInv, SwitchUserItemLoadedIInv, SwitchUserItemLoadErrorIInv,
     RegisterUserIInv, LoginReplyIInv, GsLoginIInv, GsLogoutIInv, GsKickedIInv,
     GsLogoutLoadedIInv, GsLogoutLoadErrorIInv, GsOfflineIInv, OnEventClientDisconnectIInv,
     ServerDownIInv, OnEventGameServerDisconnectIInv, OnEventGameServerDisconnectResumeIInv,
     CleanExpiredInfoIInv, TimePassesIInv
  DEF Next
<1>2. CASE UNCHANGED vars
  <2>1. UNCHANGED <<item, sui, agent, co, disconnects, serverDowns, inGame, notices>>
        /\ UNCHANGED hashes
    BY <1>2 DEF vars, games
  <2>2. co' \in [Cos -> CoRecord] /\ CoOK'
    BY <2>1 DEF IInv, CoOK, TypeOK, Cos
  <2> QED BY <2>1, <2>2, SameKept, SameSuis, KeptInv DEF IInv, TypeOK
<1> QED BY <1>1, <1>2

(* The inductive invariant holds in every reachable state.                 *)
LEMMA SpecIInv == Spec => []IInv
  BY InitIInv, NextIInv, PTL DEF Spec

(* The state keeps its shape whatever a handler finds when it is resumed:  *)
(* no handler writes a status or an agent that is none, or indexes with a  *)
(* value it did not read.                                                  *)
THEOREM TypeCorrect == Spec => []TypeOK
<1>1. IInv => TypeOK
  BY DEF IInv
<1> QED BY <1>1, SpecIInv, PTL

(* One item per account, reached by its platform ID and by the session     *)
(* handed out last, through every interleaving of registerSession with the *)
(* sweep and with suspended handlers.                                      *)
THEOREM IndexCorrect == Spec => []IndexOK
<1>1. IInv => IndexOK
  BY DEF IInv
<1> QED BY <1>1, SpecIInv, PTL

(* No two accounts share a user struct and no account holds one that is    *)
(* back in the pool, although the game server handler releases the struct  *)
(* an item has after a yield.                                              *)
THEOREM SuiPoolCorrect == Spec => []SuiPoolOK
<1>1. IInv => SuiPoolOK
  BY DEF IInv
<1> QED BY <1>1, SpecIInv, PTL

(* The lobby status of a user and the agent recorded for it agree in every *)
(* reachable state.                                                        *)
THEOREM LSAgentCorrect == Spec => []LSAgentOK
<1>1. IInv => LSAgentOK
  BY DEF IInv
<1> QED BY <1>1, SpecIInv, PTL

-----------------------------------------------------------------------------
(***************************************************************************)
(* _hash.userID.  An entry of it leads to an item with the struct of that  *)
(* user: for this the item must be the one its platform ID leads to and    *)
(* the struct of the user that the database gives that platform ID, and a  *)
(* suspended cmd_onEventGameServerDisconnect, which will release the       *)
(* struct its item then has and take the user it remembered out of the     *)
(* index, must remember the user of that item.                             *)
(*                                                                         *)
(* The converse, that an account with a struct is in the index, needs more *)
(* than the code ensures.  While that handler waits in kickLSAgent another *)
(* one may release the struct, cleanExpiredInfo then drop the account, and *)
(* a new login make a new item for it; the resumed handler takes the new   *)
(* item's user out of the index.  So it is proved of the runs in which no  *)
(* account is dropped under a handler (DownUndisturbed).                   *)
(***************************************************************************)
Held(i) == item[i].platformID \in PlatformID /\ hashPlatformID[item[i].platformID] = i

StructOK ==
    \A i \in Item : HasSui(i) =>
        Held(i) /\ SuiOf(i).userID = DbUserID[item[i].platformID]
DownOwn ==
    \A c \in Cos : co[c].op = "down" /\ item[co[c].item].platformID # Nil =>
        co[c].userID = DbUserID[item[co[c].item].platformID]
UInv == StructOK /\ UserIndexSound /\ DownOwn

IndexFull == \A i \in Item : HasSui(i) => hashUserID[SuiOf(i).userID] = i
DownHeld == \A c \in Cos : co[c].op = "down" => Held(co[c].item)
FInv == IndexFull /\ DownHeld

(* cleanExpiredInfo drops no account that a suspended                      *)
(* cmd_onEventGameServerDisconnect is at work on.                          *)
Undisturbed ==
    \A c \in Cos : co[c].op = "down" =>
        item'[co[c].item].platformID = item[co[c].item].platformID
DownUndisturbed == [][Undisturbed]_vars

-----------------------------------------------------------------------------
(* No handler of a server's end is started, and what the suspended ones    *)
(* remember is kept.                                                       *)
DownSame(f) ==
    \A c \in Cos : f[c].op = "down" =>
        co[c].op = "down" /\ f[c].item = co[c].item /\ f[c].userID = co[c].userID

(* A record of another kind, whatever its handler was, leaves the others   *)
(* alone.                                                                  *)
LEMMA DownExcept ==
    ASSUME TypeOK, NEW c \in Cos, NEW r, r.op # "down"
    PROVE  DownSame([co EXCEPT ![c] = r])
  BY DEF DownSame, TypeOK, Cos

(* setCache touches a flag only.                                           *)
LEMMA DownSetCache ==
    ASSUME NEW f \in [Cos -> CoRecord], DownSame(f), NEW a
    PROVE  DownSame(SetCache(f, a))
  BY DEF DownSame, SetCache, CoRecord

(* So does a key that is assigned during a traversal.                      *)
LEMMA DownMarkDirty ==
    ASSUME NEW f \in [Cos -> CoRecord], DownSame(f), NEW s
    PROVE  DownSame(MarkDirty(f, s))
  BY DEF DownSame, MarkDirty, CoRecord

(* What the index depends on of the items and of the structs.              *)
ItemSame(f) ==
    \A i \in Item : f[i].platformID = item[i].platformID /\ f[i].sui = item[i].sui
UserSame(f) == \A x \in Sui : f[x].userID = sui[x].userID

(* A step that leaves the items, or the structs, alone.                    *)
LEMMA SameRefl == ItemSame(item) /\ UserSame(sui)
  BY DEF ItemSame, UserSame

(* Neither do timestamps, agents and statuses.                             *)
LEMMA FieldsSame ==
    ASSUME TypeOK, NEW i, NEW v, NEW w
    PROVE  /\ ItemSame([item EXCEPT ![i].suiTS = v])
           /\ ItemSame([item EXCEPT ![i].sessionTS = v])
           /\ ItemSame([item EXCEPT ![i].sessionTS = v, ![i].suiTS = w])
           /\ UserSame([sui EXCEPT ![i].agent = v, ![i].userStatus = w])
<1>1. item \in [Item -> ItemRecord] /\ sui \in [Sui -> SuiRecord]
  BY DEF TypeOK
<1>2. \A r \in ItemRecord :
          /\ [r EXCEPT !.suiTS = v].platformID = r.platformID
          /\ [r EXCEPT !.suiTS = v].sui = r.sui
          /\ [r EXCEPT !.sessionTS = v].platformID = r.platformID
          /\ [r EXCEPT !.sessionTS = v].sui = r.sui
  BY DEF ItemRecord
<1>3. \A r \in ItemRecord :
          /\ [r EXCEPT !.sessionTS = v, !.suiTS = w].platformID = r.platformID
          /\ [r EXCEPT !.sessionTS = v, !.suiTS = w].sui = r.sui
  BY DEF ItemRecord
<1>4. \A r \in SuiRecord : [r EXCEPT !.agent = v, !.userStatus = w].userID = r.userID
  BY DEF SuiRecord
<1>5. ItemSame([item EXCEPT ![i].suiTS = v]) /\ ItemSame([item EXCEPT ![i].sessionTS = v])
  BY <1>1, <1>2 DEF ItemSame
<1>6. ItemSame([item EXCEPT ![i].sessionTS = v, ![i].suiTS = w])
  <2> DEFINE f == [item EXCEPT ![i].sessionTS = v, ![i].suiTS = w]
  <2>1. \A j \in Item : f[j] = IF j = i THEN [item[i] EXCEPT !.sessionTS = v, !.suiTS = w]
                                        ELSE item[j]
    BY <1>1
  <2> HIDE DEF f
  <2>2. ItemSame(f)
    <3>1. ASSUME NEW j \in Item
          PROVE  f[j].platformID = item[j].platformID /\ f[j].sui = item[j].sui
      <4>1. item[j] \in ItemRecord
        BY <1>1
      <4>2. CASE j = i
        <5>1. f[j] = [item[j] EXCEPT !.sessionTS = v, !.suiTS = w]
          BY <2>1, <4>2, Zenon
        <5> QED BY <1>3, <4>1, <5>1, Zenon
      <4>3. CASE j # i
        BY <2>1, <4>3, Zenon
      <4> QED BY <4>2, <4>3
    <3> QED BY <3>1, Zenon DEF ItemSame
  <2> QED
    BY <2>2 DEF f
<1>7. UserSame([sui EXCEPT ![i].agent = v, ![i].userStatus = w])
  <2> DEFINE f == [sui EXCEPT ![i].agent = v, ![i].userStatus = w]
  <2>1. \A y \in Sui : f[y] = IF y = i THEN [sui[i] EXCEPT !.agent = v, !.userStatus = w]
                                       ELSE sui[y]
    BY <1>1
  <2> HIDE DEF f
  <2>2. UserSame(f)
    BY <1>1, <1>4, <2>1 DEF UserSame
  <2> QED
    BY <2>2 DEF f
<1> QED
  BY <1>5, <1>6, <1>7

(* A step that changes none of this keeps the index.                       *)
Quiet == /\ ItemSame(item') /\ UserSame(sui') /\ DownSame(co')
         /\ UNCHANGED <<hashPlatformID, hashUserID>>

(* The index depends on nothing else.                                      *)
LEMMA QuietKeeps ==
    ASSUME IInv, UInv, Quiet
    PROVE  UInv' /\ (FInv => FInv')
<1>1. TypeOK /\ CoOK
  BY DEF IInv
<1>2. /\ \A i \in Item : /\ item'[i].platformID = item[i].platformID
                         /\ item'[i].sui = item[i].sui
                         /\ Held(i)' <=> Held(i)
                         /\ HasSui(i)' <=> HasSui(i)
      /\ UNCHANGED <<hashPlatformID, hashUserID>>
  BY DEF Quiet, ItemSame, Held, HasSui
<1>3. \A i \in Item : HasSui(i) => SuiOf(i)'.userID = SuiOf(i).userID
  BY <1>1, <1>2, SuiType DEF Quiet, UserSame, SuiOf
<1>4. StructOK'
  BY <1>2, <1>3 DEF UInv, StructOK
<1>5. UserIndexSound'
  <2>1. \A u \in UserID : hashUserID[u] # Nil => hashUserID[u] \in Item
    BY <1>1 DEF TypeOK, OrNil
  <2> QED
    BY <1>2, <1>3, <2>1 DEF UInv, UserIndexSound
<1>6. \A c \in Cos : co'[c].op = "down" =>
        /\ co[c].op = "down" /\ co'[c].item = co[c].item /\ co'[c].userID = co[c].userID
        /\ co[c].item \in Item
  BY <1>1 DEF Quiet, DownSame, CoOK, HandlerOK
<1>7. DownOwn'
  BY <1>2, <1>6 DEF UInv, DownOwn
<1>8. ASSUME FInv PROVE FInv'
  <2>1. IndexFull'
    BY <1>2, <1>3, <1>8 DEF FInv, IndexFull
  <2>2. DownHeld'
    BY <1>2, <1>6, <1>8 DEF FInv, DownHeld
  <2> QED
    BY <2>1, <2>2 DEF FInv
<1> QED
  BY <1>4, <1>5, <1>7, <1>8 DEF UInv

(* The handlers that leave the accounts, the structs' users and the index  *)
(* alone.                                                                  *)
LEMMA SameQuiet ==
    ASSUME TypeOK, ItemSame(item'), UserSame(sui'), UNCHANGED <<hashPlatformID, hashUserID, co>>
    PROVE  Quiet
  BY DEF Quiet, DownSame

(* A connection that comes or goes, a server that dies.                    *)
LEMMA EventsQuiet ==
    ASSUME TypeOK
    PROVE  /\ \A a \in Agent : Connect(a) => Quiet
           /\ \A a \in Agent : AgentExit(a) => Quiet
           /\ \A g \in Server : ServerDown(g) => Quiet
           /\ UNCHANGED vars => Quiet
<1>1. UNCHANGED <<hashPlatformID, hashUserID, item, sui, co>> => Quiet
  BY SameQuiet, SameRefl
<1> QED
  BY <1>1 DEF Connect, AgentExit, ServerDown, vars, hashes, games

(* The clock writes timestamps.                                            *)
LEMMA TimePassesQuiet ==
    ASSUME TypeOK, NEW i \in Item, TimePasses(i)
    PROVE  Quiet
<1>1. ItemSame(item')
  <2>1. \/ item' = [item EXCEPT ![i].suiTS = "old"]
        \/ item' = [item EXCEPT ![i].sessionTS = "old"]
    BY Zenon DEF TimePasses
  <2>2. /\ ItemSame([item EXCEPT ![i].suiTS = "old"])
        /\ ItemSame([item EXCEPT ![i].sessionTS = "old"])
    BY FieldsSame, Zenon
  <2> QED
    BY <2>1, <2>2, Zenon
<1>2. UserSame(sui') /\ UNCHANGED <<hashPlatformID, hashUserID, co>>
  BY SameRefl DEF TimePasses, hashes
<1> QED
  BY <1>1, <1>2, SameQuiet

(* gs_login and gs_offline write the status and the server of a struct.    *)
LEMMA GsQuiet ==
    ASSUME TypeOK, NEW g \in Server
    PROVE  /\ \A s \in Session : GsLogin(g, s) => Quiet
           /\ \A u \in UserID : GsOffline(g, u) => Quiet
<1>1. ASSUME NEW s \in Session, GsLogin(g, s) PROVE Quiet
  <2>1. ItemSame(item')
    BY <1>1 DEF GsLogin, ItemSame, TypeOK, ItemRecord
  <2>2. UserSame(sui')
    BY <1>1 DEF GsLogin, UserSame, TypeOK, SuiRecord
  <2>3. UNCHANGED <<hashPlatformID, hashUserID, co>>
    BY <1>1 DEF GsLogin, hashes
  <2> QED
    BY <2>1, <2>2, <2>3, SameQuiet
<1>2. ASSUME NEW u \in UserID, GsOffline(g, u) PROVE Quiet
  <2>1. ItemSame(item') /\ UNCHANGED <<hashPlatformID, hashUserID, co>>
    BY <1>2, SameRefl DEF GsOffline, hashes
  <2>2. UserSame(sui')
    BY <1>2 DEF GsOffline, UserSame, TypeOK, SuiRecord
  <2> QED
    BY <2>1, <2>2, SameQuiet
<1> QED
  BY <1>1, <1>2

(* A disconnect event clears the agent of the struct it finds.             *)
LEMMA OnEventClientDisconnectQuiet ==
    ASSUME TypeOK, NEW u \in UserID, NEW a \in Agent, OnEventClientDisconnect(u, a)
    PROVE  Quiet
<1>1. ItemSame(item')
  BY DEF OnEventClientDisconnect, ItemSame, TypeOK, ItemRecord
<1>2. UserSame(sui')
  BY DEF OnEventClientDisconnect, UserSame, TypeOK, SuiRecord
<1>3. UNCHANGED <<hashPlatformID, hashUserID, co>>
  BY DEF OnEventClientDisconnect, hashes
<1> QED
  BY <1>1, <1>2, <1>3, SameQuiet

(* The same with a handler that is started, goes on or ends.               *)
LEMMA StepQuiet ==
    ASSUME TypeOK, ItemSame(item'), UserSame(sui'), UNCHANGED <<hashPlatformID, hashUserID>>,
           NEW c \in Cos, NEW r, r.op # "down", co' = [co EXCEPT ![c] = r]
    PROVE  Quiet
  BY DownExcept DEF Quiet

(* A handler that ends.                                                    *)
LEMMA IdleQuiet ==
    ASSUME TypeOK, ItemSame(item'), UserSame(sui'), UNCHANGED <<hashPlatformID, hashUserID>>,
           NEW c \in Cos, co' = [co EXCEPT ![c] = Idle]
    PROVE  Quiet
<1>1. Idle.op # "down"
  BY DEF Idle
<1> QED
  BY <1>1, StepQuiet

(* A login request that fails.                                             *)
LEMMA LoginErrorQuiet ==
    ASSUME TypeOK, NEW a \in Agent, NEW f, LoginError(a, f),
           UNCHANGED <<item, sui, hashPlatformID, hashUserID>>
    PROVE  Quiet
  BY IdleQuiet, SameRefl DEF LoginError, Cos

(* The steps of a login request that write nothing of the session manager. *)
LEMMA LoginQuiet ==
    ASSUME IInv, NEW a \in Agent
    PROVE  /\ \A s \in Session : LoginRequest(a, s) => Quiet
           /\ LoginLookup(a) => Quiet
           /\ LoginReply(a) => Quiet
           /\ SwitchUserItemLoadError(a) => Quiet
<1> USE DEF IInv
<1>1. a \in Cos /\ co[a] \in CoRecord /\ HandlerOK(co[a])
  BY CoType DEF CoOK, Cos
<1>2. ASSUME NEW s \in Session, LoginRequest(a, s) PROVE Quiet
  <2> DEFINE r == [Idle EXCEPT !.op = "login", !.at = "lookup", !.session = s]
  <2>1. co' = [co EXCEPT ![a] = r] /\ r.op # "down"
    BY <1>2 DEF LoginRequest, Idle
  <2> HIDE DEF r
  <2> QED
    BY <1>1, <1>2, <2>1, StepQuiet, SameRefl DEF LoginRequest, hashes
<1>3. ASSUME LoginLookup(a) PROVE Quiet
  <2>1. co[a].op = "login"
    BY <1>1, <1>3 DEF LoginLookup, HandlerOK
  <2>2. DownSame(co')
    BY <1>1, <1>3, <2>1 DEF LoginLookup, DownSame, Cos, TypeOK, CoRecord, Idle
  <2> QED
    BY <1>3, <2>2, SameRefl DEF LoginLookup, hashes, Quiet
<1>4. ASSUME LoginReply(a) PROVE Quiet
  <2>1. co' = [co EXCEPT ![a] = Idle]
    BY <1>4 DEF LoginReply, LoginError
  <2> QED
    BY <1>1, <1>4, <2>1, IdleQuiet, SameRefl DEF LoginReply, hashes
<1>5. ASSUME SwitchUserItemLoadError(a) PROVE Quiet
  BY <1>1, <1>5, IdleQuiet, SameRefl DEF SwitchUserItemLoadError, hashes
<1> QED
  BY <1>2, <1>3, <1>4, <1>5

(* Looking the account up stops its clock at most.                         *)
LEMMA LoginFindQuiet ==
    ASSUME IInv, NEW a \in Agent, LoginFind(a)
    PROVE  Quiet
<1> USE DEF IInv
<1>1. a \in Cos /\ co[a] \in CoRecord /\ co[a].op = "login"
  BY CoType DEF CoOK, Cos, HandlerOK, LoginFind
<1>2. DownSame(co')
  <2>1. co'[a].op # "down"
    <3> DEFINE i == hashPlatformID[co[a].platformID]
               r == IF i # Nil /\ HasSui(i)
                    THEN [co[a] EXCEPT !.at = "switch", !.sui = item[i].sui]
                    ELSE [co[a] EXCEPT !.at = "register"]
    <3>1. r.op = "login"
      BY <1>1 DEF CoRecord
    <3>2. co' = [co EXCEPT ![a] = r]
      BY DEF TypeOK, LoginFind
    <3> HIDE DEF r
    <3> QED
      BY <1>1, <3>1, <3>2 DEF TypeOK, Cos
  <2>2. \A c \in Cos : c # a => co'[c] = co[c]
    BY <1>1 DEF LoginFind, TypeOK, Cos
  <2> QED
    BY <2>1, <2>2 DEF DownSame
<1>3. ItemSame(item')
  BY DEF LoginFind, ItemSame, TypeOK, ItemRecord
<1> QED
  BY <1>2, <1>3, SameRefl DEF LoginFind, hashes, Quiet

(* Taking a struct over, before the yield: its user stays.                 *)
LEMMA SwitchUserItemQuiet ==
    ASSUME IInv, NEW a \in Agent, SwitchUserItem(a)
    PROVE  Quiet
<1> USE DEF IInv
<1>1. a \in Cos /\ co[a] \in CoRecord /\ co[a].op = "login"
  BY CoType DEF CoOK, Cos, HandlerOK, SwitchUserItem
<1>2. DownSame(co')
  <2>1. co'[a].op # "down"
    <3> DEFINE i == hashPlatformID[co[a].platformID]
               r == [co[a] EXCEPT !.at = "kick", !.item = i, !.kick = SuiOf(i).agent,
                                  !.status = StatusOf(i), !.userID = SuiOf(i).userID]
               q == [co[a] EXCEPT !.at = "load", !.item = i, !.userID = SuiOf(i).userID]
    <3>1. \/ co' = [co EXCEPT ![a] = Idle]
          \/ co' = [co EXCEPT ![a] = r]
          \/ co' = [co EXCEPT ![a] = q]
      BY Zenon DEF SwitchUserItem, LoginError
    <3>2. Idle.op # "down" /\ r.op # "down" /\ q.op # "down"
      BY <1>1 DEF Idle, CoRecord
    <3> HIDE DEF r, q
    <3> QED
      BY <1>1, <3>1, <3>2 DEF TypeOK, Cos
  <2>2. \A c \in Cos : c # a => co'[c] = co[c]
    BY <1>1 DEF SwitchUserItem, LoginError, TypeOK, Cos
  <2> QED
    BY <2>1, <2>2 DEF DownSame
<1>3. /\ \/ item' = item
         \/ \E i : item' = [item EXCEPT ![i].sessionTS = "fresh", ![i].suiTS = "nil"]
      /\ \/ sui' = sui
         \/ \E x, v : sui' = [sui EXCEPT ![x].agent = a, ![x].userStatus = v]
  BY Zenon DEF SwitchUserItem
<1>4. ItemSame(item') /\ UserSame(sui')
  <2>1. \A i : ItemSame([item EXCEPT ![i].sessionTS = "fresh", ![i].suiTS = "nil"])
    BY <1>1, FieldsSame, Zenon
  <2>2. \A x, v : UserSame([sui EXCEPT ![x].agent = a, ![x].userStatus = v])
    BY <1>1, FieldsSame, Zenon
  <2>3. ItemSame(item) /\ UserSame(sui)
    BY SameRefl, Zenon
  <2>4. ItemSame(item')
    <3>1. CASE item' = item
      BY <2>3, <3>1
    <3>2. CASE \E i : item' = [item EXCEPT ![i].sessionTS = "fresh", ![i].suiTS = "nil"]
      <4> PICK i : item' = [item EXCEPT ![i].sessionTS = "fresh", ![i].suiTS = "nil"]
        BY <3>2
      <4> QED
        BY <2>1
    <3> QED
      BY <1>3, <3>1, <3>2
  <2>5. UserSame(sui')
    <3>1. CASE sui' = sui
      BY <2>3, <3>1
    <3>2. CASE \E x, v : sui' = [sui EXCEPT ![x].agent = a, ![x].userStatus = v]
      <4> PICK x, v : sui' = [sui EXCEPT ![x].agent = a, ![x].userStatus = v]
        BY <3>2
      <4> QED
        BY <2>2
    <3> QED
      BY <1>3, <3>1, <3>2
  <2> QED
    BY <2>4, <2>5
<1> QED
  BY <1>2, <1>4 DEF SwitchUserItem, hashes, Quiet

(* After the yield: whatever struct the item has now, its user stays.      *)
LEMMA SwitchUserItemKickedQuiet ==
    ASSUME IInv, NEW a \in Agent, SwitchUserItemKicked(a)
    PROVE  Quiet
<1> USE DEF IInv
<1>1. a \in Cos /\ co[a] \in CoRecord /\ co[a].op = "login"
  BY CoType DEF CoOK, Cos, SwitchUserItemKicked
<1>2. DownSame(co')
  <2>1. co'[a].op # "down"
    <3> DEFINE r == [co[a] EXCEPT !.at = "load", !.kick = Nil, !.cleared = FALSE,
                                  !.status = "US_NULL"]
    <3>1. co' = [co EXCEPT ![a] = Idle] \/ co' = [co EXCEPT ![a] = r]
      BY Zenon DEF SwitchUserItemKicked, LoginError
    <3>2. Idle.op # "down" /\ r.op # "down"
      BY <1>1 DEF Idle, CoRecord
    <3> HIDE DEF r
    <3> QED
      BY <1>1, <3>1, <3>2 DEF TypeOK, Cos
  <2>2. \A c \in Cos : c # a => co'[c] = co[c]
    BY <1>1 DEF SwitchUserItemKicked, LoginError, TypeOK, Cos
  <2> QED
    BY <2>1, <2>2 DEF DownSame
<1>3. UserSame(sui')
  BY DEF SwitchUserItemKicked, UserSame, TypeOK, SuiRecord
<1> QED
  BY <1>2, <1>3, SameRefl DEF SwitchUserItemKicked, hashes, Quiet

(* setCache goes to the agent.                                             *)
LEMMA SwitchUserItemLoadedQuiet ==
    ASSUME IInv, NEW a \in Agent, SwitchUserItemLoaded(a)
    PROVE  Quiet
<1> USE DEF IInv
<1> DEFINE r == [co[a] EXCEPT !.at = "reply", !.item = Nil, !.userID = Nil]
           f == [co EXCEPT ![a] = r]
<1>1. a \in Cos /\ co[a] \in CoRecord /\ co[a].op = "login"
  BY CoType DEF CoOK, Cos, SwitchUserItemLoaded
<1>2. r \in CoRecord /\ r.op = "login" /\ co' = SetCache(f, a)
  BY <1>1 DEF SwitchUserItemLoaded, CoRecord, OrNil
<1> HIDE DEF r
<1>3. f \in [Cos -> CoRecord] /\ DownSame(f)
  BY <1>1, <1>2, DownExcept DEF TypeOK, Cos
<1> HIDE DEF f
<1>4. DownSame(co')
  BY <1>2, <1>3, DownSetCache
<1> QED
  BY <1>4, SameRefl DEF SwitchUserItemLoaded, hashes, Quiet

(* gs_logout writes the status and the server of a struct, and its clock.  *)
LEMMA GsLogoutQuiet ==
    ASSUME IInv, NEW w \in Worker
    PROVE  /\ GsLogoutLoaded(w) => Quiet
           /\ GsLogoutLoadError(w) => Quiet
           /\ \A g \in Server, u \in UserID, off \in BOOLEAN : GsLogout(w, g, u, off) => Quiet
           /\ \A g \in Server, u \in UserID : GsKicked(w, g, u) => Quiet
<1> USE DEF IInv
<1>1. w \in Cos
  BY DEF Cos
<1>2. ASSUME GsLogoutLoaded(w) PROVE Quiet
  <2>1. ItemSame(item')
    BY <1>2 DEF GsLogoutLoaded, ItemSame, TypeOK, ItemRecord
  <2> QED
    BY <1>1, <1>2, <2>1, IdleQuiet, SameRefl DEF GsLogoutLoaded, hashes
<1>3. ASSUME GsLogoutLoadError(w) PROVE Quiet
  BY <1>1, <1>3, IdleQuiet, SameRefl DEF GsLogoutLoadError, hashes
<1>4. ASSUME NEW g, NEW u, NEW off, CmdGsLogout(w, g, u, off) PROVE Quiet
  <2>1. ItemSame(item')
    BY <1>4 DEF CmdGsLogout, ItemSame, TypeOK, ItemRecord
  <2>2. UserSame(sui')
    BY <1>4 DEF CmdGsLogout, UserSame, TypeOK, SuiRecord
  <2>3. DownSame(co')
    <3>1. co'[w].op # "down"
      <4> DEFINE i == hashUserID[u]
                 st == WithoutGS(StatusOf(i))
                 r == [Idle EXCEPT !.op = "logout", !.at = "load", !.item = i, !.status = st]
      <4>1. (co' = co \/ co' = [co EXCEPT ![w] = r]) /\ co[w] = Idle
        BY <1>4, Zenon DEF CmdGsLogout
      <4>2. Idle.op # "down" /\ r.op # "down"
        BY DEF Idle
      <4> HIDE DEF r
      <4> QED
        BY <1>1, <4>1, <4>2 DEF TypeOK, Cos
    <3>2. \A c \in Cos : c # w => co'[c] = co[c]
      BY <1>1, <1>4 DEF CmdGsLogout, TypeOK, Cos
    <3> QED
      BY <3>1, <3>2 DEF DownSame
  <2> QED
    BY <1>4, <2>1, <2>2, <2>3 DEF CmdGsLogout, hashes, Quiet
<1> QED
  BY <1>2, <1>3, <1>4 DEF GsLogout, GsKicked

(* kickLS, after the yield, clears the agent of the struct.                *)
LEMMA RegisterSessionResumeQuiet ==
    ASSUME IInv, NEW w \in Worker, RegisterSessionResume(w)
    PROVE  Quiet
<1> USE DEF IInv
<1>1. ItemSame(item')
  <2>1. \/ item' = item
        \/ item' = [item EXCEPT ![co[w].item].suiTS = "fresh"]
    BY Zenon DEF RegisterSessionResume
  <2>2. TypeOK
    OBVIOUS
  <2>3. ItemSame([item EXCEPT ![co[w].item].suiTS = "fresh"])
    BY <2>2, FieldsSame, Zenon
  <2> QED
    BY <2>1, <2>3, SameRefl, Zenon
<1>2. UserSame(sui')
  <2> DEFINE x == item[co[w].item].sui
             f == [sui EXCEPT ![x].agent = Nil, ![x].userStatus = co[w].status]
  <2>1. sui' = sui \/ sui' = f
    BY Zenon DEF RegisterSessionResume
  <2>2. TypeOK
    OBVIOUS
  <2>3. UserSame(f)
    BY <2>2, FieldsSame, Zenon
  <2> QED
    BY <2>1, <2>3, SameRefl, Zenon
<1> QED
  BY <1>1, <1>2, IdleQuiet DEF RegisterSessionResume, hashes, Cos

-----------------------------------------------------------------------------
(* The handlers that change the index or what it leads to.                 *)
LEMMA DownRefl == DownSame(co)
  BY DEF DownSame

(* A handler in DownSame remembers what it remembered before.              *)
LEMMA DownKept ==
    ASSUME TypeOK, CoOK, DownSame(co'), NEW c \in Cos, co'[c].op = "down"
    PROVE  /\ co[c].op = "down" /\ co[c].item \in Item
           /\ co'[c].item = co[c].item /\ co'[c].userID = co[c].userID
  BY DEF DownSame, CoOK, HandlerOK

(* A new account takes a table that nothing refers to: no entry and no     *)
(* suspended handler is about it.                                          *)
LEMMA CreateItemUInv ==
    ASSUME IInv, UInv, NEW s \in Session, hashPlatformID[Owner[s]] = Nil, NEW j \in Item,
           Unreferenced(j),
           item' = [item EXCEPT ![j] = [NoItem EXCEPT !.platformID = Owner[s], !.session = s]],
           hashPlatformID' = [hashPlatformID EXCEPT ![Owner[s]] = j],
           hashSession' = [hashSession EXCEPT ![s] = j],
           DownSame(co'), UNCHANGED <<hashUserID, sui>>
    PROVE  UInv' /\ (FInv => FInv')
<1> USE DEF IInv
<1>1. /\ item'[j].sui = Nil /\ \A k \in Item \ {j} : item'[k] = item[k]
  BY CreateItemIndex
<1>2. ~HasSui(j)
  BY DEF UInv, StructOK, Held, Unreferenced
<1>3. ASSUME NEW k \in Item, Held(k) PROVE k # j /\ Held(k)'
  BY <1>1, <1>3, NilAssumption DEF Held, Unreferenced, TypeOK
<1>4. ASSUME NEW k \in Item, HasSui(k)' PROVE k # j /\ HasSui(k) /\ SuiOf(k)' = SuiOf(k)
  BY <1>1, <1>4 DEF HasSui, SuiOf
<1>5. StructOK'
  BY <1>1, <1>3, <1>4 DEF UInv, StructOK
<1>6. UserIndexSound'
  <2> SUFFICES ASSUME NEW u \in UserID, NEW i \in Item, i = hashUserID[u]
               PROVE  /\ HasSui(i)' /\ SuiOf(i)'.userID = u
                      /\ hashPlatformID'[item'[i].platformID] = i
    BY DEF UserIndexSound, TypeOK, OrNil
  <2>1. HasSui(i) /\ SuiOf(i).userID = u
    BY NilAssumption DEF UInv, UserIndexSound
  <2>2. Held(i)' /\ i # j
    BY <1>3, <2>1 DEF UInv, StructOK
  <2>3. HasSui(i)' /\ SuiOf(i)' = SuiOf(i)
    BY <1>1, <2>1, <2>2 DEF HasSui, SuiOf
  <2> QED
    BY <2>1, <2>2, <2>3 DEF Held
<1>7. ASSUME NEW c \in Cos, co'[c].op = "down"
      PROVE  /\ co[c].op = "down" /\ co'[c].item = co[c].item /\ co'[c].userID = co[c].userID
             /\ co[c].item \in Item /\ item'[co[c].item] = item[co[c].item]
  BY <1>1, <1>7, DownKept DEF Unreferenced, Cos
<1>8. DownOwn'
  BY <1>7 DEF UInv, DownOwn
<1>9. ASSUME FInv PROVE FInv'
  <2>1. IndexFull'
    BY <1>4, <1>9 DEF FInv, IndexFull
  <2>2. DownHeld'
    BY <1>3, <1>7, <1>9 DEF FInv, DownHeld
  <2> QED
    BY <2>1, <2>2 DEF FInv
<1> QED
  BY <1>5, <1>6, <1>8, <1>9 DEF UInv

(* registerSession makes an account or moves one to another session.       *)
LEMMA RegisterSessionUInv ==
    ASSUME IInv, UInv, NEW w \in Worker, NEW s \in Session, RegisterSession(w, s)
    PROVE  UInv' /\ (FInv => FInv')
<1> USE DEF IInv
<1> DEFINE i == hashPlatformID[Owner[s]]
<1>1. UNCHANGED <<hashUserID, sui>> /\ co \in [Cos -> CoRecord] /\ w \in Cos
  BY DEF RegisterSession, TypeOK, Cos
<1>2. CASE i = Nil
  <2>1. CreateItem(s) /\ co' = MarkDirty(co, s)
    BY <1>2 DEF RegisterSession
  <2>2. PICK j \in Item :
          /\ Unreferenced(j)
          /\ item' = [item EXCEPT ![j] = [NoItem EXCEPT !.platformID = Owner[s], !.session = s]]
          /\ hashPlatformID' = [hashPlatformID EXCEPT ![Owner[s]] = j]
          /\ hashSession' = [hashSession EXCEPT ![s] = j]
    BY <2>1, Zenon DEF CreateItem
  <2>3. DownSame(co')
    BY <1>1, <2>1, DownRefl, DownMarkDirty
  <2> QED
    BY <1>1, <1>2, <2>2, <2>3, CreateItemUInv
<1>3. CASE i # Nil
  <2>1. ItemSame(item') /\ UNCHANGED hashPlatformID
    <3>1. item' = [item EXCEPT ![i].session = s, ![i].sessionTS = "fresh"]
          /\ UNCHANGED hashPlatformID
      BY <1>3 DEF RegisterSession
    <3> QED
      BY <3>1 DEF ItemSame, TypeOK, ItemRecord
  <2>2. DownSame(co')
    <3> DEFINE r == [Idle EXCEPT !.op = "session", !.at = "kick", !.item = i,
                                 !.kick = SuiOf(i).agent,
                                 !.status = WithoutLS(StatusOf(i)),
                                 !.server = SuiOf(i).serverID,
                                 !.userID = SuiOf(i).userID]
               f == [co EXCEPT ![w] = r]
    <3>1. CASE HasSui(i) /\ StatusOf(i) \in LSStatus
      <4>1. co' = MarkDirty(f, s)
        BY <1>3, <3>1, Zenon DEF RegisterSession
      <4>2. i \in Item
        BY <1>3, OwnerAssumption DEF TypeOK, OrNil
      <4>3. /\ SuiOf(i).agent \in OrNil(Agent) /\ SuiOf(i).serverID \in OrNil(Server)
            /\ SuiOf(i).userID \in OrNil(UserID) /\ WithoutLS(StatusOf(i)) \in Status
        BY <3>1, <4>2, SuiType, StatusMoves
      <4>4. r \in CoRecord /\ r.op # "down"
        BY <4>2, <4>3 DEF CoRecord, Idle, OrNil
      <4> HIDE DEF r
      <4>5. f \in [Cos -> CoRecord] /\ DownSame(f)
        BY <1>1, <4>4, DownExcept
      <4> HIDE DEF f
      <4> QED
        BY <4>1, <4>5, DownMarkDirty
    <3>2. CASE ~(HasSui(i) /\ StatusOf(i) \in LSStatus)
      <4>1. co' = MarkDirty(co, s)
        BY <1>3, <3>2 DEF RegisterSession
      <4> QED
        BY <1>1, <4>1, DownRefl, DownMarkDirty
    <3> QED
      BY <3>1, <3>2
  <2>3. Quiet
    BY <1>1, <2>1, <2>2, SameRefl DEF Quiet
  <2> QED
    BY <2>3, QuietKeeps
<1> QED
  BY <1>2, <1>3

(* An account without a struct gets one with its user.                     *)
LEMMA NewStructUInv ==
    ASSUME IInv, UInv, NEW p \in PlatformID, NEW i \in Item, i = hashPlatformID[p], ~HasSui(i),
           NEW x \in Sui, ~sui[x].isInit, NEW u \in UserID, u = DbUserID[p],
           item'[i].sui = x, sui'[x].userID = u,
           \A k \in Item \ {i} : item'[k].sui = item[k].sui,
           \A k \in Item : item'[k].platformID = item[k].platformID,
           \A y \in Sui \ {x} : sui'[y] = sui[y],
           hashUserID' = [hashUserID EXCEPT ![u] = i],
           DownSame(co'), UNCHANGED hashPlatformID
    PROVE  UInv' /\ (FInv => FInv')
<1> USE DEF IInv
<1>1. item[i].platformID = p /\ Held(i)
  BY NilAssumption DEF IndexOK, Held
<1>2. \A k \in Item : Held(k)' <=> Held(k)
  BY DEF Held
<1>3. ASSUME NEW k \in Item, HasSui(k)
      PROVE  k # i /\ HasSui(k)' /\ SuiOf(k)' = SuiOf(k)
  <2>1. k # i /\ item[k].sui \in Sui /\ item[k].sui # x
    BY <1>3, SuiType DEF SuiPoolOK, SuiOf
  <2> QED
    BY <1>3, <2>1 DEF HasSui, SuiOf
<1>4. SuiOf(i)'.userID = u /\ HasSui(i)'
  BY NilAssumption DEF SuiOf, HasSui
<1>5. \A k \in Item : HasSui(k)' => k = i \/ HasSui(k)
  BY DEF HasSui
<1>6. StructOK'
  BY <1>1, <1>2, <1>3, <1>4, <1>5 DEF UInv, StructOK
<1>7. ASSUME NEW v \in UserID PROVE hashUserID'[v] = IF v = u THEN i ELSE hashUserID[v]
  BY DEF TypeOK
<1>8. UserIndexSound'
  <2> SUFFICES ASSUME NEW v \in UserID, NEW k, k = hashUserID'[v], k # Nil
               PROVE  /\ HasSui(k)' /\ SuiOf(k)'.userID = v
                      /\ hashPlatformID'[item'[k].platformID] = k
    BY DEF UserIndexSound
  <2>1. CASE v = u
    BY <1>1, <1>4, <1>7, <2>1 DEF Held
  <2>2. CASE v # u
    <3>1. k \in Item /\ HasSui(k) /\ SuiOf(k).userID = v
          /\ hashPlatformID[item[k].platformID] = k
      BY <1>7, <2>2 DEF UInv, UserIndexSound, TypeOK, OrNil
    <3> QED
      BY <1>3, <3>1
  <2> QED
    BY <2>1, <2>2
<1>9. DownOwn'
  BY DownKept DEF UInv, DownOwn
<1>10. ASSUME FInv PROVE FInv'
  <2>1. IndexFull'
    <3> SUFFICES ASSUME NEW k \in Item, HasSui(k)' PROVE hashUserID'[SuiOf(k)'.userID] = k
      BY DEF IndexFull
    <3>1. CASE k = i
      BY <1>4, <1>7, <3>1
    <3>2. CASE k # i
      <4>1. HasSui(k) /\ SuiOf(k)' = SuiOf(k) /\ hashUserID[SuiOf(k).userID] = k
        BY <1>3, <1>5, <1>10, <3>2 DEF FInv, IndexFull
      <4>2. Held(k) /\ SuiOf(k).userID = DbUserID[item[k].platformID]
        BY <4>1 DEF UInv, StructOK
      <4>3. item[k].platformID # p /\ item[k].platformID \in PlatformID
        BY <3>2, <4>2 DEF Held
      <4>4. SuiOf(k).userID # u /\ SuiOf(k).userID \in UserID
        BY <4>2, <4>3, DbUserIDAssumption
      <4> QED
        BY <1>7, <4>1, <4>4
    <3> QED
      BY <3>1, <3>2
  <2>2. DownHeld'
    BY <1>2, <1>10, DownKept DEF FInv, DownHeld
  <2> QED
    BY <2>1, <2>2 DEF FInv
<1> QED
  BY <1>6, <1>8, <1>9, <1>10 DEF UInv

(* registerUser gives the account its struct and the user its entry at     *)
(* once.                                                                   *)
LEMMA RegisterUserUInv ==
    ASSUME IInv, UInv, NEW a \in Agent, RegisterUser(a)
    PROVE  UInv' /\ (FInv => FInv')
<1> USE DEF IInv
<1>1. PICK p \in PlatformID : p = co[a].platformID
  BY CoType DEF TypeOK, CoOK, HandlerOK, Cos, RegisterUser
<1>2. PICK u \in UserID : u = DbUserID[p]
  BY DbUserIDAssumption
<1>3. PICK i \in OrNil(Item) : i = hashPlatformID[p]
  BY DEF TypeOK
<1>4. /\ a \in Cos /\ co[a] \in CoRecord /\ co[a].op = "login" /\ UNCHANGED hashPlatformID
  BY CoType DEF CoOK, HandlerOK, Cos, RegisterUser
<1>5. CASE i = Nil \/ HasSui(i)
  <2>1. LoginError(a, agent) /\ UNCHANGED <<hashUserID, item, sui>>
    BY <1>1, <1>3, <1>5 DEF RegisterUser
  <2> QED
    BY <1>4, <2>1, LoginErrorQuiet, QuietKeeps
<1>6. CASE ~(i = Nil \/ HasSui(i))
  <2> DEFINE q == [co[a] EXCEPT !.at = "reply", !.item = i]
             f == [co EXCEPT ![a] = q]
  <2>1. PICK x \in Sui :
        /\ ~sui[x].isInit
        /\ sui' = [sui EXCEPT ![x] = [isInit |-> TRUE, userID |-> u, agent |-> a,
                                      userStatus |-> "US_LS", serverID |-> Nil]]
        /\ item' = [item EXCEPT ![i].sui = x, ![i].sessionTS = "fresh", ![i].suiTS = "nil"]
        /\ hashUserID' = [hashUserID EXCEPT ![u] = i]
        /\ co' = SetCache(f, a)
    BY <1>1, <1>2, <1>3, <1>6, Zenon DEF RegisterUser
  <2>2. i \in Item /\ ~HasSui(i)
    BY <1>6 DEF OrNil
  <2>3. DownSame(co')
    <3>1. q \in CoRecord
      BY <1>4, <2>2, ReplyRecord
    <3>2. q.op = "login"
      BY <1>4 DEF CoRecord
    <3> HIDE DEF q
    <3>3. f \in [Cos -> CoRecord] /\ DownSame(f)
      BY <1>4, <3>1, <3>2, DownExcept DEF TypeOK, Cos
    <3> HIDE DEF f
    <3> QED
      BY <2>1, <3>3, DownSetCache
  <2>4. /\ item'[i].sui = x
        /\ \A k \in Item \ {i} : item'[k].sui = item[k].sui
        /\ \A k \in Item : item'[k].platformID = item[k].platformID
    BY <2>1, <2>2 DEF TypeOK, ItemRecord
  <2>5. sui'[x].userID = u /\ \A y \in Sui \ {x} : sui'[y] = sui[y]
    BY <2>1 DEF TypeOK
  <2>6. hashUserID' = [hashUserID EXCEPT ![u] = i] /\ ~sui[x].isInit
    BY <2>1
  <2> HIDE DEF IInv, q, f
  <2> QED
    BY <1>2, <1>3, <1>4, <2>2, <2>3, <2>4, <2>5, <2>6, NewStructUInv
<1> QED
  BY <1>5, <1>6

(* Structs given back together with their users' entries.                  *)
LEMMA ReleaseUInv ==
    ASSUME IInv, UInv, NEW Rel \in SUBSET Item, NEW Us, ReleaseSui(Rel, Us),
           \A i \in Rel : item'[i].sui = Nil,
           \A i \in Rel : HasSui(i) => SuiOf(i).userID \in Us,
           \A i \in Item \ Rel : item'[i].sui = item[i].sui,
           \A i \in Item : HasSui(i)' => item'[i].platformID = item[i].platformID /\ Held(i)'
    PROVE  /\ StructOK' /\ UserIndexSound'
           /\ IndexFull /\ (\A i \in Item \ Rel : HasSui(i) => SuiOf(i).userID \notin Us)
                => IndexFull'
<1> USE DEF IInv
<1>1. /\ \A x \in Sui : (\A i \in Rel : item[i].sui # x) => sui'[x] = sui[x]
      /\ \A v \in UserID : hashUserID'[v] = IF v \in Us THEN Nil ELSE hashUserID[v]
  BY DEF ReleaseSui
<1>2. ASSUME NEW i \in Item
      PROVE  /\ HasSui(i)' <=> i \notin Rel /\ HasSui(i)
             /\ i \notin Rel /\ HasSui(i) => SuiOf(i)' = SuiOf(i)
  <2>1. HasSui(i)' <=> i \notin Rel /\ HasSui(i)
    BY DEF HasSui
  <2>2. ASSUME i \notin Rel, HasSui(i) PROVE SuiOf(i)' = SuiOf(i)
    <3>1. item[i].sui \in Sui /\ \A k \in Rel : item[k].sui # item[i].sui
      BY <2>2, SuiType DEF SuiPoolOK
    <3> QED
      BY <1>1, <2>2, <3>1 DEF SuiOf
  <2> QED
    BY <2>1, <2>2
<1>3. StructOK'
  BY <1>2 DEF UInv, StructOK
<1>4. UserIndexSound'
  <2> SUFFICES ASSUME NEW v \in UserID, NEW k, k = hashUserID'[v], k # Nil
               PROVE  /\ HasSui(k)' /\ SuiOf(k)'.userID = v
                      /\ hashPlatformID'[item'[k].platformID] = k
    BY DEF UserIndexSound
  <2>1. v \notin Us /\ k \in Item /\ HasSui(k) /\ SuiOf(k).userID = v
    BY <1>1 DEF UInv, UserIndexSound, TypeOK, OrNil
  <2>2. k \notin Rel
    BY <2>1
  <2>3. HasSui(k)' /\ SuiOf(k)' = SuiOf(k)
    BY <1>2, <2>1, <2>2
  <2> QED
    BY <2>1, <2>3 DEF Held
<1>5. ASSUME IndexFull, \A i \in Item \ Rel : HasSui(i) => SuiOf(i).userID \notin Us
      PROVE  IndexFull'
  <2> SUFFICES ASSUME NEW i \in Item, HasSui(i)' PROVE hashUserID'[SuiOf(i)'.userID] = i
    BY DEF IndexFull
  <2>1. i \notin Rel /\ HasSui(i) /\ SuiOf(i)' = SuiOf(i)
    BY <1>2
  <2>2. SuiOf(i).userID \in UserID
    BY <2>1, DbUserIDAssumption DEF UInv, StructOK, Held
  <2> QED
    BY <1>1, <1>5, <2>1, <2>2 DEF IndexFull
<1> QED
  BY <1>3, <1>4, <1>5

(* The user a struct belongs to decides its item.                          *)
LEMMA OneItem ==
    ASSUME UInv, NEW i \in Item, NEW k \in Item, HasSui(i), Held(k),
           SuiOf(i).userID = DbUserID[item[k].platformID]
    PROVE  i = k
  BY DbUserIDAssumption DEF UInv, StructOK, Held

(* One segment of the traversal: the item and the user of the resumed      *)
(* iteration go together.                                                  *)
LEMMA TraverseUInv ==
    ASSUME IInv, UInv, NEW w \in Worker, NEW g \in Server, NEW T \in SUBSET Session,
           NEW Is0 \in SUBSET Item, NEW Us0, Traverse(w, g, T, Is0, Us0),
           UNCHANGED hashPlatformID,
           \A i \in Is0 : HasSui(i) => SuiOf(i).userID \in Us0
    PROVE  /\ UInv'
           /\ FInv /\ (\A i \in Item \ Is0 : HasSui(i) => SuiOf(i).userID \notin Us0) => FInv'
<1> USE DEF IInv
<1> DEFINE Due  == {s \in T : OnServer(g, s) /\ hashSession[s] \notin Is0}
           Wait == {s \in Due : KickFirst(g, s)}
<1>1. PICK D \in SUBSET (Due \ Wait) :
        LET Is == {hashSession[s] : s \in D} IN
        /\ ReleaseSui(Is0 \cup Is, Us0 \cup {SuiOf(i).userID : i \in Is})
        /\ item' = [i \in Item |-> IF i \in Is0 \cup Is THEN WithoutSui(i) ELSE item[i]]
        /\ \/ /\ Wait = {} /\ D = Due
              /\ co' = [co EXCEPT ![w] = Idle]
           \/ \E s \in Wait :
                LET i == hashSession[s] IN
                co' = [co EXCEPT ![w] =
                         [Idle EXCEPT !.op = "down", !.at = "kick", !.server = g,
                                      !.item = i, !.kick = SuiOf(i).agent,
                                      !.userID = SuiOf(i).userID,
                                      !.todo = T \ (D \cup {s}),
                                      !.dirty = co[w].dirty]]
  BY Zenon DEF Traverse
<1>2. \A s \in Due : hashSession[s] \in Item /\ HasSui(hashSession[s])
  BY DEF OnServer, TypeOK, OrNil
<1> DEFINE Is  == {hashSession[s] : s \in D}
           Rel == Is0 \cup Is
           Us  == Us0 \cup {SuiOf(i).userID : i \in Is}
<1>3. /\ ReleaseSui(Rel, Us) /\ Rel \in SUBSET Item /\ Is \subseteq Item /\ Is0 \subseteq Rel
      /\ \A i \in Is : HasSui(i)
      /\ item' = [i \in Item |-> IF i \in Rel THEN WithoutSui(i) ELSE item[i]]
  BY <1>1, <1>2
<1>4. \A i \in Rel : HasSui(i) => SuiOf(i).userID \in Us
  OBVIOUS
<1>5. ASSUME NEW i \in Item \ Rel, HasSui(i), SuiOf(i).userID \in Us, IndexFull
      PROVE  SuiOf(i).userID \in Us0
  BY <1>3, <1>5 DEF IndexFull
<1>6. \/ co' = [co EXCEPT ![w] = Idle]
      \/ \E s \in Due : LET i == hashSession[s] IN \E td :
           co' = [co EXCEPT ![w] =
                    [Idle EXCEPT !.op = "down", !.at = "kick", !.server = g,
                                 !.item = i, !.kick = SuiOf(i).agent,
                                 !.userID = SuiOf(i).userID, !.todo = td,
                                 !.dirty = co[w].dirty]]
  BY <1>1, Zenon
<1> HIDE DEF Is, Rel, Us, Wait
<1>7. /\ \A i \in Item : item'[i].platformID = item[i].platformID /\ (Held(i)' <=> Held(i))
      /\ \A i \in Rel : item'[i].sui = Nil
      /\ \A i \in Item \ Rel : item'[i].sui = item[i].sui
  <2>1. \A i \in Item : WithoutSui(i).sui = Nil /\ WithoutSui(i).platformID = item[i].platformID
    BY ItemType DEF WithoutSui, ItemRecord
  <2>2. \A i \in Item : item'[i].platformID = item[i].platformID
    BY <1>3, <2>1
  <2>3. \A i \in Rel : item'[i].sui = Nil
    BY <1>3, <2>1
  <2>4. \A i \in Item \ Rel : item'[i].sui = item[i].sui
    BY <1>3
  <2> QED
    BY <2>2, <2>3, <2>4 DEF Held
<1>8. \A i \in Item : HasSui(i)' => item'[i].platformID = item[i].platformID /\ Held(i)'
  BY <1>7 DEF UInv, StructOK, HasSui
<1>9. /\ StructOK' /\ UserIndexSound'
      /\ IndexFull /\ (\A i \in Item \ Rel : HasSui(i) => SuiOf(i).userID \notin Us) => IndexFull'
  BY <1>3, <1>4, <1>7, <1>8, ReleaseUInv
(* A handler of a server's end that is suspended now was suspended before  *)
(* or has just looked at its item.                                         *)
<1>10. ASSUME NEW c \in Cos, co'[c].op = "down"
       PROVE  /\ co'[c].item \in Item
              /\ \/ co[c].op = "down" /\ co'[c].item = co[c].item /\ co'[c].userID = co[c].userID
                 \/ HasSui(co'[c].item) /\ co'[c].userID = SuiOf(co'[c].item).userID
  <2>0. w \in Cos /\ co \in [Cos -> CoRecord]
    BY DEF Cos, TypeOK
  <2>1. CASE c # w
    <3>1. co'[c] = co[c]
      BY <1>6, <2>0, <2>1
    <3> QED
      BY <1>10, <3>1 DEF CoOK, HandlerOK
  <2>2. CASE c = w
    <3>1. PICK s \in Due : \E td : LET i == hashSession[s] IN
             co' = [co EXCEPT ![w] =
                      [Idle EXCEPT !.op = "down", !.at = "kick", !.server = g,
                                   !.item = i, !.kick = SuiOf(i).agent,
                                   !.userID = SuiOf(i).userID, !.todo = td,
                                   !.dirty = co[w].dirty]]
      <4>1. co' # [co EXCEPT ![w] = Idle]
        BY <1>10, <2>0, <2>2 DEF Idle
      <4> QED
        BY <1>6, <4>1, Zenon
    <3>2. PICK i \in Item : i = hashSession[s] /\ HasSui(i)
      BY <1>2
    <3>3. PICK td : co' = [co EXCEPT ![w] =
                      [Idle EXCEPT !.op = "down", !.at = "kick", !.server = g,
                                   !.item = i, !.kick = SuiOf(i).agent,
                                   !.userID = SuiOf(i).userID, !.todo = td,
                                   !.dirty = co[w].dirty]]
      BY <3>1, <3>2, Zenon
    <3> DEFINE r == [Idle EXCEPT !.op = "down", !.at = "kick", !.server = g,
                                 !.item = i, !.kick = SuiOf(i).agent,
                                 !.userID = SuiOf(i).userID, !.todo = td,
                                 !.dirty = co[w].dirty]
    <3>4. r.item = i /\ r.userID = SuiOf(i).userID
      BY DEF Idle
    <3>5. co' = [co EXCEPT ![w] = r]
      BY <3>3
    <3> HIDE DEF r
    <3>6. co'[w] = r
      BY <2>0, <3>5
    <3> QED
      BY <2>2, <3>2, <3>4, <3>6
  <2> QED
    BY <2>1, <2>2
<1>11. DownOwn'
  <2> SUFFICES ASSUME NEW c \in Cos, co'[c].op = "down", NEW i, i = co'[c].item,
                      item'[i].platformID # Nil
               PROVE  co'[c].userID = DbUserID[item'[i].platformID]
    BY DEF DownOwn
  <2>1. i \in Item /\ item'[i].platformID = item[i].platformID
    BY <1>7, <1>10
  <2>2. CASE co[c].op = "down" /\ co'[c].item = co[c].item /\ co'[c].userID = co[c].userID
    BY <2>1, <2>2 DEF UInv, DownOwn
  <2>3. CASE HasSui(i) /\ co'[c].userID = SuiOf(i).userID
    BY <2>1, <2>3 DEF UInv, StructOK
  <2> QED
    BY <1>10, <2>2, <2>3
<1>12. ASSUME FInv, \A i \in Item \ Is0 : HasSui(i) => SuiOf(i).userID \notin Us0
       PROVE  FInv'
  <2>1. IndexFull'
    <3>1. \A i \in Item \ Rel : HasSui(i) => SuiOf(i).userID \notin Us
      BY <1>3, <1>5, <1>12 DEF FInv
    <3> QED
      BY <1>9, <1>12, <3>1 DEF FInv
  <2>2. DownHeld'
    <3> SUFFICES ASSUME NEW c \in Cos, co'[c].op = "down", NEW i, i = co'[c].item
                 PROVE  Held(i)'
      BY DEF DownHeld
    <3>1. i \in Item /\ (Held(i)' <=> Held(i))
      BY <1>7, <1>10
    <3>2. Held(i)
      BY <1>10, <1>12, <3>1 DEF FInv, DownHeld, UInv, StructOK
    <3> QED
      BY <3>1, <3>2
  <2> QED
    BY <2>1, <2>2 DEF FInv
<1> QED
  BY <1>9, <1>11, <1>12 DEF UInv

(* The first segment of a traversal releases nothing it has not looked at. *)
LEMMA OnEventGameServerDisconnectUInv ==
    ASSUME IInv, UInv, NEW w \in Worker, NEW g \in Server, OnEventGameServerDisconnect(w, g)
    PROVE  UInv' /\ (FInv => FInv')
<1>1. Traverse(w, g, Session, {}, {}) /\ UNCHANGED hashPlatformID
  BY DEF OnEventGameServerDisconnect
<1>2. {} \in SUBSET Item /\ Session \in SUBSET Session
  OBVIOUS
<1> QED
  BY <1>1, <1>2, TraverseUInv

(* What the resumed iteration releases is the struct of the user it takes  *)
(* out of the index, if its item still is an account.                      *)
LEMMA OnEventGameServerDisconnectResumeUInv ==
    ASSUME IInv, UInv, NEW w \in Worker, OnEventGameServerDisconnectResume(w)
    PROVE  UInv' /\ (FInv => FInv')
<1> USE DEF IInv
<1>0. PICK v : v = co[w].userID
  OBVIOUS
<1>1. PICK j \in Item : j = co[w].item
  BY DEF OnEventGameServerDisconnectResume, CoOK, HandlerOK, Cos
<1>2. /\ w \in Cos /\ co[w].op = "down" /\ co[w].todo \in SUBSET Session
      /\ co[w].server \in Server /\ UNCHANGED hashPlatformID
  BY CoType DEF OnEventGameServerDisconnectResume, CoOK, HandlerOK, Cos
<1>3. PICK T \in SUBSET Session : Traverse(w, co[w].server, T, {j}, {v})
  BY <1>0, <1>1, <1>2 DEF OnEventGameServerDisconnectResume
<1>4. PICK g \in Server : g = co[w].server
  BY <1>2
<1>5. HasSui(j) => SuiOf(j).userID = v
  BY <1>0, <1>1, <1>2, NilAssumption DEF UInv, StructOK, Held, DownOwn
<1>6. ASSUME FInv, NEW i \in Item, HasSui(i), SuiOf(i).userID = v PROVE i = j
  <2>1. Held(j)
    BY <1>1, <1>2, <1>6 DEF FInv, DownHeld
  <2>2. v = DbUserID[item[j].platformID]
    BY <1>0, <1>1, <1>2, <2>1, NilAssumption DEF UInv, DownOwn, Held
  <2> QED
    BY <1>6, <2>1, <2>2, OneItem
<1> HIDE DEF IInv
<1>7. Traverse(w, g, T, {j}, {v}) /\ {j} \in SUBSET Item
  BY <1>3, <1>4
<1>8. \A i \in {j} : HasSui(i) => SuiOf(i).userID \in {v}
  BY <1>5
<1>9. FInv => \A i \in Item \ {j} : HasSui(i) => SuiOf(i).userID \notin {v}
  BY <1>6
<1> QED
  BY <1>2, <1>7, <1>8, <1>9, TraverseUInv

(* The sweep drops an account together with its struct; the other accounts *)
(* stay where they are.                                                    *)
LEMMA CleanExpiredInfoUInv ==
    ASSUME IInv, UInv, CleanExpiredInfo
    PROVE  UInv' /\ (FInv /\ Undisturbed => FInv')
<1> USE DEF IInv
<1> DEFINE Live == {s \in Session : hashSession[s] # Nil}
           Bad  == {s \in Live : Unexpected(hashSession[s])}
<1>1. PICK D \in SUBSET (Live \ Bad) :
        LET Is   == {hashSession[s] : s \in D}
            Rel  == {i \in Is : Expired(i)}
            Gone == {i \in Is : (i \in Rel \/ ~HasSui(i)) /\ item[i].sessionTS = "old"} IN
        /\ ReleaseSui(Rel, {SuiOf(i).userID : i \in Rel})
        /\ item' = [i \in Item |-> CASE i \in Gone -> NoItem
                                     [] i \in Rel \ Gone -> WithoutSui(i)
                                     [] OTHER -> item[i]]
        /\ hashPlatformID' = [p \in PlatformID |->
                             IF \E i \in Gone : item[i].platformID = p THEN Nil ELSE hashPlatformID[p]]
        /\ UNCHANGED co
  BY Zenon DEF CleanExpiredInfo
<1> DEFINE Is   == {hashSession[s] : s \in D}
           Rel  == {i \in Is : Expired(i)}
           Gone == {i \in Is : (i \in Rel \/ ~HasSui(i)) /\ item[i].sessionTS = "old"}
           Us   == {SuiOf(i).userID : i \in Rel}
<1>2. /\ ReleaseSui(Rel, Us)
      /\ item' = [i \in Item |-> CASE i \in Gone -> NoItem
                                   [] i \in Rel \ Gone -> WithoutSui(i)
                                   [] OTHER -> item[i]]
      /\ hashPlatformID' = [p \in PlatformID |->
                           IF \E i \in Gone : item[i].platformID = p THEN Nil ELSE hashPlatformID[p]]
      /\ UNCHANGED co
  BY <1>1, Zenon
<1>3. \A i \in Is : i \in Item /\ hashPlatformID[item[i].platformID] = i
  BY DEF TypeOK, OrNil, IndexOK
<1>4. /\ Rel \in SUBSET Item /\ Gone \subseteq Is /\ \A i \in Rel : HasSui(i)
      /\ \A i \in Gone \ Rel : ~HasSui(i)
      /\ \A i \in Rel : SuiOf(i).userID \in Us
  BY <1>3 DEF Expired
<1>5. ASSUME IndexFull, NEW i \in Item \ Rel, HasSui(i) PROVE SuiOf(i).userID \notin Us
  BY <1>4, <1>5 DEF IndexFull
<1> HIDE DEF Is, Rel, Gone, Us, Live, Bad
<1>6. \A i \in Item : WithoutSui(i).sui = Nil /\ WithoutSui(i).platformID = item[i].platformID
  BY ItemType DEF WithoutSui, ItemRecord
<1>7. NoItem.sui = Nil /\ NoItem.platformID = Nil
  BY DEF NoItem
<1>8. \A i \in Item : \/ i \in Gone /\ item'[i] = NoItem
                      \/ i \in Rel \ Gone /\ item'[i] = WithoutSui(i)
                      \/ i \notin Rel \cup Gone /\ item'[i] = item[i]
  BY <1>2
<1>9. /\ \A i \in Rel : item'[i].sui = Nil
      /\ \A i \in Item \ Rel : item'[i].sui = item[i].sui
      /\ \A i \in Gone : item'[i].platformID = Nil
      /\ \A i \in Item \ Gone : item'[i].platformID = item[i].platformID
  BY <1>3, <1>4, <1>6, <1>7, <1>8 DEF HasSui
<1>10. ASSUME NEW i \in Item \ Gone, Held(i) PROVE Held(i)'
  <2>1. \A k \in Gone : item[k].platformID # item[i].platformID
    BY <1>3, <1>4, <1>10 DEF Held
  <2> QED
    BY <1>2, <1>9, <1>10, <2>1 DEF Held
<1>11. \A i \in Item : HasSui(i)' => item'[i].platformID = item[i].platformID /\ Held(i)'
  <2> SUFFICES ASSUME NEW i \in Item, HasSui(i)'
               PROVE  item'[i].platformID = item[i].platformID /\ Held(i)'
    OBVIOUS
  <2>1. i \notin Rel /\ HasSui(i)
    BY <1>9 DEF HasSui
  <2>2. i \notin Gone /\ Held(i)
    BY <1>4, <2>1 DEF UInv, StructOK
  <2> QED
    BY <1>9, <1>10, <2>2
<1>12. /\ StructOK' /\ UserIndexSound' /\ (IndexFull => IndexFull')
  <2>1. /\ StructOK' /\ UserIndexSound'
        /\ IndexFull /\ (\A i \in Item \ Rel : HasSui(i) => SuiOf(i).userID \notin Us)
             => IndexFull'
    BY <1>2, <1>4, <1>9, <1>11, ReleaseUInv
  <2> QED
    BY <1>5, <2>1
<1>13. \A c \in Cos : co[c].op = "down" => co[c].item \in Item
  BY DEF CoOK, HandlerOK
<1>14. DownOwn'
  <2> SUFFICES ASSUME NEW c \in Cos, co[c].op = "down", item'[co[c].item].platformID # Nil
               PROVE  co[c].userID = DbUserID[item'[co[c].item].platformID]
    BY <1>2 DEF DownOwn
  <2>1. co[c].item \in Item \ Gone
    BY <1>9, <1>13
  <2>2. item'[co[c].item].platformID = item[co[c].item].platformID
    BY <1>9, <2>1
  <2> QED
    BY <2>2 DEF UInv, DownOwn
<1>15. ASSUME FInv, Undisturbed PROVE DownHeld'
  <2> SUFFICES ASSUME NEW c \in Cos, co[c].op = "down", NEW i \in Item, i = co[c].item
               PROVE  Held(i)'
    BY <1>2, <1>13 DEF DownHeld
  <2>1. Held(i) /\ item'[i].platformID = item[i].platformID
    BY <1>15 DEF FInv, DownHeld, Undisturbed
  <2>2. i \notin Gone
    BY <1>9, <2>1, NilAssumption DEF Held
  <2> QED
    BY <1>10, <2>1, <2>2
<1> QED
  BY <1>12, <1>14, <1>15 DEF UInv, FInv

-----------------------------------------------------------------------------
(* In the empty session manager nothing is indexed.                        *)
LEMMA InitUInv == Init => UInv /\ FInv
  BY DEF Init, UInv, FInv, StructOK, UserIndexSound, DownOwn, IndexFull, DownHeld, NoItem,
     Idle, HasSui, Cos

(* Every step keeps the index sound, and every step that drops no account  *)
(* under a suspended handler keeps it full.                                *)
LEMMA NextUInv ==
    ASSUME IInv, UInv, [Next]_vars
    PROVE  UInv' /\ (FInv /\ Undisturbed => FInv')
<1>1. Quiet => UInv' /\ (FInv => FInv')
  BY QuietKeeps
<1>2. TypeOK
  BY DEF IInv
<1>3. CASE Next
  BY <1>1, <1>2, <1>3, EventsQuiet, TimePassesQuiet, GsQuiet, OnEventClientDisconnectQuiet,
     LoginQuiet, LoginFindQuiet, SwitchUserItemQuiet, SwitchUserItemKickedQuiet,
     SwitchUserItemLoadedQuiet, GsLogoutQuiet, RegisterSessionResumeQuiet,
     RegisterSessionUInv, RegisterUserUInv, OnEventGameServerDisconnectUInv,
     OnEventGameServerDisconnectResumeUInv, CleanExpiredInfoUInv
  DEF Next
<1>4. CASE UNCHANGED vars
  BY <1>1, <1>2, <1>4, EventsQuiet
<1> QED
  BY <1>3, <1>4

(* Whoever is found in _hash.userID has a user struct, and it is the one   *)
(* of that user, in an account the platform ID leads to: whatever the      *)
(* suspended handlers that take users out of the index remember.           *)
THEOREM UserIndexSoundCorrect == Spec => []UserIndexSound
<1>1. Init => UInv
  BY InitUInv
<1>2. IInv /\ UInv /\ [Next]_vars => UInv'
  BY NextUInv
<1>3. UInv => UserIndexSound
  BY DEF UInv
<1> QED
  BY <1>1, <1>2, <1>3, SpecIInv, PTL DEF Spec

(* As long as cleanExpiredInfo drops no account under a suspended          *)
(* cmd_onEventGameServerDisconnect, every account with a user struct is in *)
(* _hash.userID, and nothing else is.                                      *)
THEOREM UserIndexCorrect == Spec /\ DownUndisturbed => []UserIndexOK
<1>1. Init => UInv /\ FInv
  BY InitUInv
<1>2. IInv /\ UInv /\ FInv /\ [Next]_vars /\ [Undisturbed]_vars => UInv' /\ FInv'
  <2> SUFFICES ASSUME IInv, UInv, FInv, [Next]_vars, [Undisturbed]_vars
               PROVE  UInv' /\ FInv'
    OBVIOUS
  <2>1. CASE Undisturbed
    BY <2>1, NextUInv
  <2>2. CASE UNCHANGED vars
    <3>1. Quiet
      BY <2>2, EventsQuiet DEF IInv
    <3> QED
      BY <3>1, QuietKeeps
  <2> QED
    BY <2>1, <2>2
<1>3. IInv /\ UInv /\ FInv => UserIndexOK
  <2> SUFFICES ASSUME IInv, UInv, FInv PROVE UserIndexOK
    OBVIOUS
  <2>1. \A p \in PlatformID : hashPlatformID[p] # Nil => hashPlatformID[p] \in Item
    BY DEF IInv, TypeOK, OrNil
  <2> QED
    BY <2>1 DEF UInv, FInv, IndexFull, UserIndexOK
<1> QED
  BY <1>1, <1>2, <1>3, SpecIInv, PTL DEF Spec, DownUndisturbed

-----------------------------------------------------------------------------
(***************************************************************************)
(* Recorded agents.  A struct names an agent whose cache names the user of *)
(* the struct, or will when the load its login waits for has ended, so     *)
(* that its exit reports this user; or the report is on its way; or the    *)
(* agent is gone because its load failed, or while _hash.userID did not    *)
(* lead to the struct, and then never will again.  A suspended handler     *)
(* that will empty the cache of an agent, because its clearCache was not   *)
(* overtaken by a setCache, belongs to the very item whose struct names    *)
(* the agent, and takes the agent out of it in the same step.              *)
(***************************************************************************)
Loading(a) == co[a].op = "login" /\ co[a].at = "load"

Told(x, a) == <<sui[x].userID, a>> \in disconnects
Cached(x, a) ==
    /\ agent[a].open
    /\ Loading(a) => co[a].userID = sui[x].userID
    /\ ~Loading(a) => agent[a].userID = sui[x].userID
Housed(x) == \E i \in Item : item[i].sui = x
Unfound(x) == \A i \in Item : item[i].sui = x => hashUserID[sui[x].userID] # i
Excused(x, a) == ~agent[a].open /\ (agent[a].failed \/ Unfound(x))
TrackedAt(x, a) ==
    sui[x].agent = a => Housed(x) /\ (Told(x, a) \/ Cached(x, a) \/ Excused(x, a))

ReportedOK == \A u \in UserID, a \in Agent : <<u, a>> \in disconnects => ~agent[a].open

LoginAt(a) == co[a].op = "login" =>
    /\ agent[a].open
    /\ co[a].at # "reply" => agent[a].userID = Nil
    /\ co[a].at \in {"kick", "load"} /\ item[co[a].item].platformID # Nil =>
          co[a].userID = DbUserID[item[co[a].item].platformID]

KickAt(c, a) == co[c].kick = a =>
    /\ co[c].at = "kick"
    /\ ~co[c].cleared /\ agent[a].open /\ ~Loading(a) =>
          \A x \in Sui : sui[x].agent = a => item[co[c].item].sui = x

TInv == /\ \A x \in Sui, a \in Agent : TrackedAt(x, a)
        /\ ReportedOK
        /\ \A a \in Agent : LoginAt(a)
        /\ \A c \in Cos, a \in Agent : KickAt(c, a)

-----------------------------------------------------------------------------
(* What a step may leave as it is: a struct's agent and user in its item,  *)
(* what an agent answers for, what a handler remembers.                    *)
KeepStruct(x) == /\ sui'[x].agent = sui[x].agent /\ sui'[x].userID = sui[x].userID
                 /\ \A i \in Item : item[i].sui = x => item'[i].sui = x
KeepOpen(a) == agent'[a].open = agent[a].open /\ agent'[a].failed = agent[a].failed
KeepAgent(a) == KeepOpen(a) /\ agent'[a].userID = agent[a].userID
KeepCo(c) == /\ co'[c].op = co[c].op /\ co'[c].at = co[c].at /\ co'[c].item = co[c].item
             /\ co'[c].kick = co[c].kick /\ co'[c].userID = co[c].userID
             /\ ~co'[c].cleared => ~co[c].cleared
KeepPlatform(i) == item'[i].platformID \in {item[i].platformID, Nil}
(* What every step does: no struct comes to serve two items, and no entry  *)
(* of _hash.userID is made for an item that has a struct.                  *)
Indexed == /\ SuiPoolOK'
           /\ \A i \in Item : HasSui(i) /\ hashUserID'[SuiOf(i).userID] = i =>
                                  hashUserID[SuiOf(i).userID] = i

(* A user who is not found through the index stays so.                     *)
LEMMA UnfoundKeep ==
    ASSUME NEW x \in Sui, KeepStruct(x), Indexed, Housed(x), Unfound(x)
    PROVE  Unfound(x)'
<1>1. PICK i \in Item : item[i].sui = x
  BY DEF Housed
<1>2. HasSui(i) /\ SuiOf(i) = sui[x] /\ hashUserID[sui[x].userID] # i
  BY <1>1, NilAssumption DEF HasSui, SuiOf, Unfound
<1>3. item'[i].sui = x /\ sui'[x].userID = sui[x].userID
  BY <1>1 DEF KeepStruct
<1>4. hashUserID'[sui[x].userID] # i
  BY <1>2 DEF Indexed
<1>5. \A j \in Item : item'[j].sui = x => j = i
  BY <1>3, NilAssumption DEF Indexed, SuiPoolOK, HasSui
<1> QED
  BY <1>3, <1>4, <1>5 DEF Unfound

(* A struct nobody writes stays tracked while its agent answers as before. *)
LEMMA TrackedKeep ==
    ASSUME NEW x \in Sui, NEW a \in Agent, TrackedAt(x, a), KeepStruct(x), Indexed,
           sui[x].agent = a =>
               /\ KeepOpen(a)
               /\ Loading(a)' <=> Loading(a)
               /\ Loading(a) => co'[a].userID = co[a].userID
               /\ ~Loading(a) => agent'[a].userID = agent[a].userID
               /\ Told(x, a) => Told(x, a)' \/ Excused(x, a)'
    PROVE  TrackedAt(x, a)'
<1> SUFFICES ASSUME sui'[x].agent = a
             PROVE  Housed(x)' /\ (Told(x, a)' \/ Cached(x, a)' \/ Excused(x, a)')
  BY DEF TrackedAt
<1>1. sui[x].agent = a /\ sui'[x].userID = sui[x].userID
  BY DEF KeepStruct
<1>2. Housed(x) /\ (Told(x, a) \/ Cached(x, a) \/ Excused(x, a))
  BY <1>1 DEF TrackedAt
<1>3. Housed(x)'
  BY <1>2 DEF Housed, KeepStruct
<1>4. Cached(x, a) => Cached(x, a)'
  BY <1>1 DEF Cached, KeepOpen
<1>5. Unfound(x) => Unfound(x)'
  BY <1>2, UnfoundKeep
<1>6. Excused(x, a) => Excused(x, a)'
  BY <1>1, <1>5 DEF Excused, KeepOpen
<1> QED
  BY <1>1, <1>2, <1>3, <1>4, <1>6

(* What a login knows of its item.                                         *)
LEMMA LoginKeep ==
    ASSUME IInv, NEW a \in Agent, LoginAt(a), KeepCo(a), agent'[a].open = agent[a].open,
           agent'[a].userID \in {agent[a].userID, Nil},
           co[a].item \in Item => KeepPlatform(co[a].item)
    PROVE  LoginAt(a)'
<1>1. co[a].op = "login" /\ co[a].at \in {"kick", "load"} => co[a].item \in Item
  BY DEF IInv, CoOK, HandlerOK, Cos
<1> QED
  BY <1>1 DEF LoginAt, KeepCo, KeepPlatform

(* What a handler that waits for clearCache knows of its agent.            *)
LEMMA KickKeep ==
    ASSUME IInv, NEW c \in Cos, NEW a \in Agent, KickAt(c, a), KeepCo(c),
           agent'[a].open => agent[a].open, Loading(a) => Loading(a)',
           \A x \in Sui : sui'[x].agent = a => KeepStruct(x)
    PROVE  KickAt(c, a)'
<1> SUFFICES ASSUME co'[c].kick = a
             PROVE  /\ co'[c].at = "kick"
                    /\ ~co'[c].cleared /\ agent'[a].open /\ ~Loading(a)' =>
                          \A x \in Sui : sui'[x].agent = a => item'[co'[c].item].sui = x
  BY DEF KickAt
<1>1. co[c].kick = a /\ co[c].at = "kick" /\ co'[c].at = "kick" /\ co'[c].item = co[c].item
  BY DEF KeepCo, KickAt
<1>2. co[c].item \in Item
  BY <1>1 DEF IInv, CoOK, HandlerOK
<1>3. ASSUME ~co'[c].cleared, agent'[a].open, ~Loading(a)', NEW x \in Sui, sui'[x].agent = a
      PROVE  item'[co'[c].item].sui = x
  <2>1. KeepStruct(x) /\ sui[x].agent = a
    BY <1>3 DEF KeepStruct
  <2>2. item[co[c].item].sui = x
    BY <1>1, <1>3, <2>1 DEF KickAt, KeepCo
  <2> QED
    BY <1>1, <1>2, <2>1, <2>2 DEF KeepStruct
<1> QED
  BY <1>1, <1>3

(* A step that records nobody, and leaves the agents and the reports       *)
(* alone: only what changed handlers know is to be shown.                  *)
Calm == /\ \A x \in Sui : sui'[x].agent = Nil \/ KeepStruct(x)
        /\ \A a \in Agent : KeepAgent(a)
        /\ UNCHANGED disconnects
        /\ \A c \in Cos : co[c].item \in Item => KeepPlatform(co[c].item)
(* After such a step the agents are tracked if what the changed handlers   *)
(* know is true.                                                           *)
LEMMA CalmKeeps ==
    ASSUME IInv, TInv, Indexed, Calm,
           \A c \in Cos : \/ KeepCo(c)
                          \/ /\ ~Loading(c) /\ ~Loading(c)'
                             /\ c \in Agent => LoginAt(c)'
                             /\ \A a \in Agent : KickAt(c, a)'
    PROVE  TInv'
<1>1. \A a \in Agent : a # Nil /\ a \in Cos
  BY NilAssumption DEF Cos
<1>2. \A c \in Cos : /\ Loading(c)' <=> Loading(c)
                     /\ Loading(c) => co'[c].userID = co[c].userID
  BY DEF KeepCo, Loading
<1>3. ASSUME NEW x \in Sui, NEW a \in Agent  PROVE TrackedAt(x, a)'
  <2>1. CASE sui'[x].agent = Nil
    BY <1>1, <2>1 DEF TrackedAt
  <2>2. CASE KeepStruct(x)
    <3>1. Told(x, a) => Told(x, a)'
      BY <2>2 DEF Told, KeepStruct, Calm
    <3> QED
      BY <1>1, <1>2, <2>2, <3>1, TrackedKeep DEF TInv, Calm, KeepAgent, KeepOpen
  <2> QED
    BY <2>1, <2>2 DEF Calm
<1>4. ReportedOK'
  BY DEF ReportedOK, TInv, Calm, KeepAgent, KeepOpen
<1>5. ASSUME NEW a \in Agent  PROVE LoginAt(a)'
  <2>1. CASE KeepCo(a)
    BY <1>1, <2>1, LoginKeep DEF TInv, Calm, KeepAgent, KeepOpen
  <2> QED
    BY <1>1, <2>1
<1>6. ASSUME NEW c \in Cos, NEW a \in Agent  PROVE KickAt(c, a)'
  <2>1. CASE KeepCo(c)
    <3>1. \A x \in Sui : sui'[x].agent = a => KeepStruct(x)
      BY <1>1 DEF Calm
    <3> QED
      BY <1>1, <1>2, <2>1, <3>1, KickKeep DEF TInv, Calm, KeepAgent, KeepOpen
  <2> QED
    BY <2>1
<1> QED
  BY <1>3, <1>4, <1>5, <1>6 DEF TInv

-----------------------------------------------------------------------------
(* A struct that names an agent has a user, the one of its account.        *)
LEMMA UserOfStruct ==
    ASSUME IInv, UInv, TInv, NEW x \in Sui, sui[x].agent \in Agent
    PROVE  \E i \in Item : /\ item[i].sui = x /\ HasSui(i) /\ Held(i)
                           /\ sui[x].userID = DbUserID[item[i].platformID]
                           /\ sui[x].userID \in UserID /\ sui[x].userID # Nil
<1>1. PICK i \in Item : item[i].sui = x
  BY DEF TInv, TrackedAt, Housed
<1>2. HasSui(i) /\ SuiOf(i) = sui[x]
  BY <1>1, NilAssumption DEF HasSui, SuiOf
<1>3. Held(i) /\ sui[x].userID = DbUserID[item[i].platformID]
  BY <1>2 DEF UInv, StructOK
<1> QED
  BY <1>1, <1>2, <1>3, DbUserIDAssumption, NilAssumption DEF Held

(* What an open agent answers for: the user of the struct it is named in.  *)
LEMMA OpenCached ==
    ASSUME IInv, UInv, TInv, NEW x \in Sui, NEW a \in Agent, sui[x].agent = a, agent[a].open
    PROVE  Cached(x, a) /\ sui[x].userID \in UserID /\ sui[x].userID # Nil
<1>1. sui[x].userID \in UserID /\ sui[x].userID # Nil
  BY UserOfStruct
<1>2. ~Told(x, a)
  BY <1>1 DEF TInv, ReportedOK, Told
<1> QED
  BY <1>1, <1>2 DEF TInv, TrackedAt, Excused

(* An open agent is named in one struct.                                   *)
LEMMA OneStruct ==
    ASSUME IInv, UInv, TInv, NEW x \in Sui, NEW y \in Sui, NEW a \in Agent,
           sui[x].agent = a, sui[y].agent = a, agent[a].open
    PROVE  x = y
<1>1. sui[x].userID = sui[y].userID
  BY OpenCached DEF Cached
<1>2. PICK i \in Item : /\ item[i].sui = x /\ HasSui(i) /\ Held(i)
                        /\ sui[x].userID = DbUserID[item[i].platformID]
  BY UserOfStruct
<1>3. PICK j \in Item : /\ item[j].sui = y /\ HasSui(j) /\ Held(j)
                        /\ sui[y].userID = DbUserID[item[j].platformID]
  BY UserOfStruct
<1>4. i = j
  BY <1>1, <1>2, <1>3, DbUserIDAssumption DEF Held
<1> QED
  BY <1>2, <1>3, <1>4

(* A login that has not yet reached the struct is named nowhere.           *)
LEMMA NotRecorded ==
    ASSUME IInv, UInv, TInv, NEW a \in Agent, co[a].op = "login",
           co[a].at \notin {"load", "reply"}
    PROVE  agent[a].open /\ agent[a].userID = Nil /\ \A x \in Sui : sui[x].agent # a
<1>1. agent[a].open /\ agent[a].userID = Nil
  BY DEF TInv, LoginAt
<1>2. ASSUME NEW x \in Sui, sui[x].agent = a  PROVE FALSE
  <2>1. Cached(x, a) /\ sui[x].userID # Nil
    BY <1>1, <1>2, OpenCached
  <2> QED
    BY <1>1, <2>1 DEF Cached, Loading
<1> QED
  BY <1>1, <1>2

(* A handler that begins to throw out the agent of its item's struct.      *)
LEMMA NewKick ==
    ASSUME IInv, UInv, TInv, NEW c \in Cos, NEW i \in Item, HasSui(i),
           co'[c].item = i, co'[c].kick = SuiOf(i).agent, co'[c].at = "kick", NEW a \in Agent,
           agent'[a].open => agent[a].open,
           \A x \in Sui : sui'[x].agent = a => KeepStruct(x)
    PROVE  KickAt(c, a)'
<1> SUFFICES ASSUME co'[c].kick = a, agent'[a].open, NEW x \in Sui, sui'[x].agent = a
             PROVE  item'[co'[c].item].sui = x
  BY DEF KickAt
<1>1. KeepStruct(x) /\ sui[x].agent = a /\ agent[a].open
  BY DEF KeepStruct
<1>2. item[i].sui \in Sui /\ sui[item[i].sui].agent = a
  BY SuiType DEF IInv, SuiOf
<1>3. x = item[i].sui
  BY <1>1, <1>2, OneStruct
<1> QED
  BY <1>1, <1>3 DEF KeepStruct

-----------------------------------------------------------------------------
(* Steps of one handler.                                                   *)
LEMMA OthersKeep ==
    ASSUME TypeOK, NEW c \in Cos, NEW r, co' = [co EXCEPT ![c] = r]
    PROVE  co'[c] = r /\ \A d \in Cos : d # c => KeepCo(d)
  BY DEF TypeOK, Cos, KeepCo

(* A calm step after which its handler is neither a login nor waits for a  *)
(* clearCache.                                                             *)
LEMMA CalmEnd ==
    ASSUME IInv, TInv, Indexed, Calm, NEW c \in Cos, NEW r, co' = [co EXCEPT ![c] = r],
           r.op # "login", r.kick = Nil, ~Loading(c)
    PROVE  TInv'
<1>1. co'[c] = r /\ \A d \in Cos : d # c => KeepCo(d)
  BY OthersKeep DEF IInv
<1>2. ~Loading(c)' /\ LoginAt(c)' /\ \A a \in Agent : KickAt(c, a)'
  BY <1>1, NilAssumption DEF Loading, LoginAt, KickAt
<1> QED
  BY <1>1, <1>2, CalmKeeps

(* A calm step of a login that has not yet reached the struct.             *)
LEMMA CalmLogin ==
    ASSUME IInv, TInv, Indexed, Calm, NEW a \in Agent, NEW r, co' = [co EXCEPT ![a] = r],
           r.at \in {"lookup", "find", "switch", "register"}, r.kick = Nil, ~Loading(a),
           agent[a].open, agent[a].userID = Nil
    PROVE  TInv'
<1>1. a \in Cos
  BY DEF Cos
<1>2. co'[a] = r /\ \A d \in Cos : d # a => KeepCo(d)
  BY <1>1, OthersKeep DEF IInv
<1>3. ~Loading(a)' /\ \A b \in Agent : KickAt(a, b)'
  BY <1>2, NilAssumption DEF Loading, KickAt
<1>4. LoginAt(a)'
  BY <1>2 DEF LoginAt, Calm, KeepAgent, KeepOpen
<1> QED
  BY <1>1, <1>2, <1>3, <1>4, CalmKeeps

(* A calm step of no handler.                                              *)
LEMMA CalmSame ==
    ASSUME IInv, TInv, Indexed, Calm, UNCHANGED co
    PROVE  TInv'
<1>1. \A c \in Cos : KeepCo(c)
  BY DEF KeepCo
<1> QED
  BY <1>1, CalmKeeps

(* Steps that keep items and users are calm if they record nobody.         *)
LEMMA QuietCalm ==
    ASSUME ItemSame(item'), UserSame(sui'), UNCHANGED <<agent, disconnects>>,
           \A x \in Sui : sui'[x].agent \in {sui[x].agent, Nil}
    PROVE  Calm
<1>1. \A i \in Item : KeepPlatform(i)
  BY DEF ItemSame, KeepPlatform
<1>2. \A x \in Sui : sui'[x].agent = sui[x].agent => KeepStruct(x)
  BY DEF ItemSame, UserSame, KeepStruct
<1> QED
  BY <1>1, <1>2 DEF Calm, KeepAgent, KeepOpen

-----------------------------------------------------------------------------
(* The clock, a server that dies, gs_login and gs_offline.                 *)
LEMMA QuietTInv ==
    ASSUME IInv, TInv, Indexed,
           \/ \E i \in Item : TimePasses(i)
           \/ \E g \in Server : ServerDown(g)
           \/ \E g \in Server, s \in Session : GsLogin(g, s)
           \/ \E g \in Server, u \in UserID : GsOffline(g, u)
           \/ UNCHANGED vars
    PROVE  TInv'
<1>1. TypeOK
  BY DEF IInv
<1>2. ItemSame(item') /\ UserSame(sui')
  BY <1>1, TimePassesQuiet, EventsQuiet, GsQuiet DEF Quiet
<1>3. UNCHANGED <<agent, disconnects, co>>
  BY DEF TimePasses, ServerDown, GsLogin, GsOffline, vars
<1>4. \A x \in Sui : sui'[x].agent = sui[x].agent
  <2>1. sui \in [Sui -> SuiRecord]
    BY <1>1 DEF TypeOK
  <2>2. ASSUME NEW g \in Server, NEW s \in Session, GsLogin(g, s)
        PROVE  \A x \in Sui : sui'[x].agent = sui[x].agent
    <3>1. sui' = sui \/ \E y, v : sui' = [sui EXCEPT ![y].userStatus = v, ![y].serverID = g]
      BY <2>2, Zenon DEF GsLogin
    <3>2. CASE sui' = sui
      BY <3>2
    <3>3. ASSUME NEW y, NEW v, sui' = [sui EXCEPT ![y].userStatus = v, ![y].serverID = g]
          PROVE  \A x \in Sui : sui'[x].agent = sui[x].agent
      <4>1. \A x \in Sui : sui'[x] = IF x = y THEN [sui[y] EXCEPT !.userStatus = v, !.serverID = g]
                                              ELSE sui[x]
        BY <2>1, <3>3
      <4>2. \A r \in SuiRecord : [r EXCEPT !.userStatus = v, !.serverID = g].agent = r.agent
        BY DEF SuiRecord
      <4> QED
        BY <2>1, <4>1, <4>2
    <3> QED
      BY <3>1, <3>2, <3>3
  <2>3. ASSUME NEW g \in Server, NEW u \in UserID, GsOffline(g, u)
        PROVE  \A x \in Sui : sui'[x].agent = sui[x].agent
    BY <2>1, <2>3 DEF GsOffline, SuiRecord
  <2>4. (\E i \in Item : TimePasses(i)) \/ (\E g \in Server : ServerDown(g)) \/ UNCHANGED vars
          => sui' = sui
    BY DEF TimePasses, ServerDown, vars
  <2> QED
    BY <2>2, <2>3, <2>4
<1> QED
  BY <1>2, <1>3, <1>4, QuietCalm, CalmSame

(* cmd_gs_logout, by whomever it is called.                                *)
LEMMA GsLogoutTInv ==
    ASSUME IInv, TInv, Indexed, NEW w \in Worker, NEW g \in Server, NEW u \in UserID,
           NEW off \in BOOLEAN, CmdGsLogout(w, g, u, off),
           ItemSame(item'), UserSame(sui')
    PROVE  TInv'
<1>1. TypeOK /\ w \in Cos
  BY DEF IInv, Cos
<1>2. UNCHANGED <<agent, disconnects>>
  BY DEF CmdGsLogout
<1>3. \A x \in Sui : sui'[x].agent = sui[x].agent
  BY <1>1 DEF CmdGsLogout, TypeOK, SuiRecord
<1>4. Calm
  BY <1>2, <1>3, QuietCalm
<1>5. CASE UNCHANGED co
  BY <1>4, <1>5, CalmSame
<1>6. CASE ~UNCHANGED co
  <2> DEFINE r == [Idle EXCEPT !.op = "logout", !.at = "load", !.item = hashUserID[u],
                               !.status = WithoutGS(StatusOf(hashUserID[u]))]
  <2>1. co' = [co EXCEPT ![w] = r] /\ co[w] = Idle
    BY <1>6 DEF CmdGsLogout
  <2>2. r.op # "login" /\ r.kick = Nil /\ ~Loading(w)
    BY <2>1 DEF Idle, Loading
  <2> HIDE DEF r
  <2> QED
    BY <1>1, <1>4, <2>1, <2>2, CalmEnd
<1> QED
  BY <1>5, <1>6

(* The end of cmd_gs_logout.                                               *)
LEMMA GsLogoutLoadedTInv ==
    ASSUME IInv, TInv, Indexed, NEW w \in Worker, GsLogoutLoaded(w) \/ GsLogoutLoadError(w)
    PROVE  TInv'
<1>1. TypeOK /\ w \in Cos
  BY DEF IInv, Cos
<1>2. /\ UNCHANGED <<agent, disconnects, sui>> /\ co' = [co EXCEPT ![w] = Idle]
      /\ ~Loading(w)
  BY DEF GsLogoutLoaded, GsLogoutLoadError, Loading
<1>3. ItemSame(item')
  BY <1>1 DEF GsLogoutLoaded, GsLogoutLoadError, ItemSame, TypeOK, ItemRecord
<1>4. Calm
  BY <1>2, <1>3, QuietCalm, SameRefl
<1>5. Idle.op # "login" /\ Idle.kick = Nil
  BY DEF Idle
<1> QED
  BY <1>1, <1>2, <1>4, <1>5, CalmEnd

(* The first steps of a login request.                                     *)
LEMMA LoginBeginTInv ==
    ASSUME IInv, TInv, Indexed, NEW a \in Agent,
           (\E s \in Session : LoginRequest(a, s)) \/ LoginLookup(a) \/ LoginFind(a)
    PROVE  TInv'
<1>1. TypeOK /\ a \in Cos /\ HandlerOK(co[a]) /\ co[a] \in CoRecord
  BY CoType DEF IInv, Cos, CoOK
<1>2. UNCHANGED <<agent, disconnects, sui>> /\ ItemSame(item')
  BY <1>1, SameRefl, LoginFindQuiet DEF LoginRequest, LoginLookup, LoginFind, Quiet
<1>3. Calm
  BY <1>2, QuietCalm, SameRefl
<1>4. ASSUME co[a].at \in {"lookup", "find"}
      PROVE  /\ co[a].op = "login" /\ co[a].kick = Nil /\ ~Loading(a)
             /\ agent[a].open /\ agent[a].userID = Nil
  BY <1>1, <1>4, CoType DEF TInv, HandlerOK, KickAt, LoginAt, Loading, OrNil
<1>5. CASE \E s \in Session : LoginRequest(a, s)
  <2>1. PICK s \in Session : LoginRequest(a, s)
    BY <1>5
  <2> DEFINE r == [Idle EXCEPT !.op = "login", !.at = "lookup", !.session = s]
  <2>2. /\ co' = [co EXCEPT ![a] = r] /\ co[a] = Idle
        /\ agent[a].open /\ agent[a].userID = Nil
    BY <2>1 DEF LoginRequest
  <2>3. r.at = "lookup" /\ r.kick = Nil /\ ~Loading(a)
    BY <2>2 DEF Idle, Loading
  <2> HIDE DEF r
  <2> QED
    BY <1>3, <2>2, <2>3, CalmLogin
<1>6. CASE LoginLookup(a)
  <2>1. co[a].at = "lookup"
    BY <1>6 DEF LoginLookup
  <2>2. CASE hashSession[co[a].session] = Nil
    <3>1. co' = [co EXCEPT ![a] = Idle] /\ Idle.op # "login" /\ Idle.kick = Nil
      BY <1>6, <2>2 DEF LoginLookup, Idle
    <3> QED
      BY <1>1, <1>3, <1>4, <2>1, <3>1, CalmEnd
  <2>3. CASE hashSession[co[a].session] # Nil
    <3> DEFINE r == [co[a] EXCEPT !.at = "find", !.session = Nil,
                          !.platformID = item[hashSession[co[a].session]].platformID]
    <3>1. co' = [co EXCEPT ![a] = r]
      BY <1>6, <2>3 DEF LoginLookup
    <3>2. r.at = "find" /\ r.kick = Nil
      BY <1>1, <1>4, <2>1 DEF CoRecord
    <3> HIDE DEF r
    <3> QED
      BY <1>3, <1>4, <2>1, <3>1, <3>2, CalmLogin
  <2> QED
    BY <2>2, <2>3
<1>7. CASE LoginFind(a)
  <2>1. co[a].at = "find"
    BY <1>7 DEF LoginFind
  <2>2. PICK r \in {[co[a] EXCEPT !.at = "switch",
                                  !.sui = item[hashPlatformID[co[a].platformID]].sui],
                    [co[a] EXCEPT !.at = "register"]} : co' = [co EXCEPT ![a] = r]
    BY <1>7 DEF LoginFind
  <2>3. r.at \in {"switch", "register"} /\ r.kick = Nil
    BY <1>1, <1>4, <2>1, <2>2 DEF CoRecord
  <2> QED
    BY <1>3, <1>4, <2>1, <2>2, <2>3, CalmLogin
<1> QED
  BY <1>5, <1>6, <1>7

-----------------------------------------------------------------------------
(* An agent goes and leaves the record r, with the caches as in f: the     *)
(* struct that names it finds its user reported, unless its load failed.   *)
LEMMA ExitTInv ==
    ASSUME IInv, UInv, TInv, Indexed, NEW a \in Agent, NEW f \in [Agent -> AgentRecord], agent[a].open,
           \A b \in Agent : /\ f[b].open = agent[b].open /\ f[b].failed = agent[b].failed
                            /\ f[b].userID \in {agent[b].userID, Nil},
           NEW r, ~r.open,
           \A x \in Sui : sui[x].agent = a => r.failed \/ f[a].userID = sui[x].userID,
           \A x \in Sui, b \in Agent : sui[x].agent = b /\ ~Loading(b) /\ b # a =>
               f[b].userID = agent[b].userID,
           UNCHANGED <<item, sui>>, disconnects' = ExitEvents(f, a),
           agent' = [f EXCEPT ![a] = r],
           \A c \in Cos : c # a => KeepCo(c), co'[a].op # "login", co'[a].kick = Nil
    PROVE  TInv'
<1>1. /\ \A b \in Agent : b # a => agent'[b] = f[b]
      /\ agent'[a] = r /\ ~agent'[a].open
      /\ disconnects \subseteq disconnects'
      /\ \A b \in Agent : b # Nil /\ b \in Cos
  BY NilAssumption DEF ExitEvents, Cos
<1>2. \A b \in Agent : b # a =>
        /\ KeepOpen(b)
        /\ Loading(b)' <=> Loading(b)
        /\ Loading(b) => co'[b].userID = co[b].userID
  BY <1>1 DEF KeepCo, Loading, KeepOpen
<1>3. \A x \in Sui : KeepStruct(x)
  BY DEF KeepStruct
<1>4. ASSUME NEW x \in Sui, NEW b \in Agent  PROVE TrackedAt(x, b)'
  <2>1. CASE b # a
    <3>1. Told(x, b) => Told(x, b)'
      BY <1>1 DEF Told
    <3> QED
      BY <1>1, <1>2, <1>3, <2>1, <3>1, TrackedKeep DEF TInv
  <2>2. CASE b = a /\ sui[x].agent = a
    <3>1. r.failed \/ (sui[x].userID = f[a].userID /\ f[a].userID # Nil)
      BY <2>2, OpenCached
    <3>2. Told(x, b)' \/ Excused(x, b)'
      BY <1>1, <2>2, <3>1 DEF Told, ExitEvents, Excused
    <3>3. Housed(x)'
      BY <2>2 DEF TInv, TrackedAt, Housed
    <3> QED
      BY <3>2, <3>3 DEF TrackedAt
  <2> QED
    BY <2>1, <2>2 DEF TrackedAt
<1>5. ReportedOK'
  <2> SUFFICES ASSUME NEW u \in UserID, NEW b \in Agent, <<u, b>> \in disconnects', b # a
               PROVE  ~agent'[b].open
    BY <1>1 DEF ReportedOK
  <2>1. <<u, b>> \in disconnects
    BY DEF ExitEvents
  <2> QED
    BY <1>1, <2>1 DEF TInv, ReportedOK
<1>6. ASSUME NEW b \in Agent  PROVE LoginAt(b)'
  <2>1. CASE b # a
    <3>1. \A i \in Item : KeepPlatform(i)
      BY DEF KeepPlatform
    <3> QED
      BY <1>1, <2>1, <3>1, LoginKeep DEF TInv
  <2> QED
    BY <2>1 DEF LoginAt
<1>7. ASSUME NEW c \in Cos, NEW b \in Agent  PROVE KickAt(c, b)'
  <2>1. CASE c = a
    BY <1>1, <2>1 DEF KickAt
  <2>2. CASE c # a /\ b # a
    <3>1. KeepCo(c) /\ KickAt(c, b) /\ (agent'[b].open => agent[b].open)
      BY <1>1, <2>2 DEF TInv
    <3> QED
      BY <1>2, <1>3, <2>2, <3>1, KickKeep
  <2>3. CASE c # a /\ b = a
    BY <1>1, <2>3 DEF TInv, KickAt, KeepCo
  <2> QED
    BY <2>1, <2>2, <2>3
<1> QED
  BY <1>4, <1>5, <1>6, <1>7 DEF TInv

(* An agent that is gone is not open.                                      *)
LEMMA ClosedGone == ~Closed.open
  BY DEF Closed

(* tcpConnection's exit.                                                   *)
LEMMA AgentExitTInv ==
    ASSUME IInv, UInv, TInv, Indexed, NEW a \in Agent, AgentExit(a)
    PROVE  TInv'
<1>1. /\ agent[a].open /\ co[a] = Idle /\ disconnects' = ExitEvents(agent, a)
      /\ agent' = [agent EXCEPT ![a] = Closed] /\ UNCHANGED <<item, sui, co>>
  BY DEF AgentExit
<1>2. ~Loading(a) /\ co'[a].op # "login" /\ co'[a].kick = Nil
  BY <1>1 DEF Loading, Idle
<1>3. \A x \in Sui : sui[x].agent = a => agent[a].userID = sui[x].userID
  BY <1>1, <1>2, OpenCached DEF Cached
<1>4. agent \in [Agent -> AgentRecord]
  BY DEF IInv, TypeOK
<1>5. \A c \in Cos : KeepCo(c)
  BY <1>1 DEF KeepCo
<1> QED
  BY <1>1, <1>2, <1>3, <1>4, <1>5, ClosedGone, ExitTInv

(* A login request that fails, unless it is waiting for a load.            *)
LEMMA LoginErrorTInv ==
    ASSUME IInv, UInv, TInv, Indexed, NEW a \in Agent, co[a].op = "login", ~Loading(a),
           LoginError(a, agent), UNCHANGED <<item, sui>>
    PROVE  TInv'
<1>1. /\ disconnects' = ExitEvents(agent, a)
      /\ agent' = [agent EXCEPT ![a] = Closed] /\ co' = [co EXCEPT ![a] = Idle]
  BY DEF LoginError
<1>2. TypeOK /\ a \in Cos /\ agent[a].open
  BY DEF IInv, Cos, TInv, LoginAt
<1>3. \A x \in Sui : sui[x].agent = a => agent[a].userID = sui[x].userID
  BY <1>2, OpenCached DEF Cached
<1>4. agent \in [Agent -> AgentRecord]
  BY <1>2 DEF TypeOK
<1>5. co'[a] = Idle /\ \A c \in Cos : c # a => KeepCo(c)
  BY <1>1, <1>2, OthersKeep
<1>6. co'[a].op # "login" /\ co'[a].kick = Nil
  BY <1>5 DEF Idle
<1> QED
  BY <1>1, <1>2, <1>3, <1>4, <1>5, <1>6, ClosedGone, ExitTInv

(* A load that fails.                                                      *)
LEMMA LoadErrorTInv ==
    ASSUME IInv, UInv, TInv, Indexed, NEW a \in Agent, SwitchUserItemLoadError(a)
    PROVE  TInv'
<1>1. /\ disconnects' = ExitEvents(agent, a) /\ UNCHANGED <<item, sui>>
      /\ agent' = [agent EXCEPT ![a] = [Closed EXCEPT !.failed = TRUE]]
      /\ co' = [co EXCEPT ![a] = Idle] /\ co[a].op = "login"
  BY DEF SwitchUserItemLoadError
<1>2. TypeOK /\ a \in Cos /\ agent[a].open
  BY <1>1 DEF IInv, Cos, TInv, LoginAt
<1>3. PICK r : r = [Closed EXCEPT !.failed = TRUE]
  OBVIOUS
<1>4. ~r.open /\ r.failed
  BY <1>3 DEF Closed
<1>5. agent \in [Agent -> AgentRecord]
  BY <1>2 DEF TypeOK
<1>6. co'[a] = Idle /\ \A c \in Cos : c # a => KeepCo(c)
  BY <1>1, <1>2, OthersKeep
<1>7. co'[a].op # "login" /\ co'[a].kick = Nil
  BY <1>6 DEF Idle
<1> QED
  BY <1>1, <1>2, <1>3, <1>4, <1>5, <1>6, <1>7, ExitTInv

(* The answer to the client.                                               *)
LEMMA LoginReplyTInv ==
    ASSUME IInv, UInv, TInv, Indexed, NEW a \in Agent, LoginReply(a)
    PROVE  TInv'
<1>1. a \in Cos /\ HandlerOK(co[a]) /\ co[a].at = "reply"
  BY DEF LoginReply, IInv, CoOK, Cos
<1>2. co[a].op = "login" /\ ~Loading(a) /\ UNCHANGED <<item, sui>>
  BY <1>1 DEF HandlerOK, Loading, LoginReply
<1>3. CASE LoginError(a, agent)
  BY <1>2, <1>3, LoginErrorTInv
<1>4. CASE UNCHANGED <<agent, disconnects>> /\ co' = [co EXCEPT ![a] = Idle]
  <2>1. Calm
    BY <1>2, <1>4, QuietCalm, SameRefl
  <2>2. Idle.op # "login" /\ Idle.kick = Nil
    BY DEF Idle
  <2> QED
    BY <1>1, <1>2, <1>4, <2>1, <2>2, CalmEnd
<1> QED
  BY <1>3, <1>4 DEF LoginReply

(* A new connection.                                                       *)
LEMMA ConnectTInv ==
    ASSUME IInv, TInv, Indexed, NEW a \in Agent, Connect(a)
    PROVE  TInv'
<1>1. /\ ~agent[a].open /\ \A x \in Sui : sui[x].agent # a
      /\ \A c \in Cos : co[c].kick # a
      /\ \A u \in UserID : <<u, a>> \notin disconnects
      /\ UNCHANGED <<item, sui, co, disconnects>>
  BY DEF Connect, Cos
<1>2. agent \in [Agent -> AgentRecord]
  BY DEF IInv, TypeOK
<1>3. \A b \in Agent : b # a => agent'[b] = agent[b]
  BY <1>2 DEF Connect
<1>4. \A x \in Sui : KeepStruct(x)
  BY <1>1 DEF KeepStruct
<1>5. \A c \in Cos : KeepCo(c)
  BY <1>1 DEF KeepCo
<1>6. \A b \in Agent : (Loading(b)' <=> Loading(b)) /\ b \in Cos
  BY <1>1 DEF Loading, Cos
<1>7. ASSUME NEW x \in Sui, NEW b \in Agent  PROVE TrackedAt(x, b)'
  <2>1. CASE b # a
    <3>1. Told(x, b) => Told(x, b)'
      BY <1>1 DEF Told
    <3> QED
      BY <1>1, <1>3, <1>4, <1>6, <2>1, <3>1, TrackedKeep DEF TInv, KeepOpen
  <2> QED
    BY <1>1, <2>1 DEF TrackedAt
<1>8. ReportedOK'
  BY <1>1, <1>3 DEF TInv, ReportedOK
<1>9. ASSUME NEW b \in Agent  PROVE LoginAt(b)'
  <2>1. CASE b # a
    <3>1. \A i \in Item : KeepPlatform(i)
      BY <1>1 DEF KeepPlatform
    <3> QED
      BY <1>3, <1>5, <1>6, <2>1, <3>1, LoginKeep DEF TInv
  <2>2. CASE b = a
    BY <1>1, <2>2 DEF TInv, LoginAt
  <2> QED
    BY <2>1, <2>2
<1>10. ASSUME NEW c \in Cos, NEW b \in Agent  PROVE KickAt(c, b)'
  <2>1. CASE b # a
    <3>1. KickAt(c, b) /\ KeepCo(c)
      BY <1>5 DEF TInv
    <3> QED
      BY <1>3, <1>4, <1>6, <2>1, <3>1, KickKeep
  <2> QED
    BY <1>1, <2>1 DEF KickAt
<1> QED
  BY <1>7, <1>8, <1>9, <1>10 DEF TInv

(* cmd_onEventClientDisconnect: the report that is taken away finds the    *)
(* struct that waits for it.                                               *)
LEMMA OnEventClientDisconnectTInv ==
    ASSUME IInv, UInv, TInv, Indexed, NEW u \in UserID, NEW a \in Agent,
           OnEventClientDisconnect(u, a)
    PROVE  TInv'
<1> DEFINE k == hashUserID[u]
<1>1. TypeOK /\ UNCHANGED <<agent, co>> /\ disconnects' = disconnects \ {<<u, a>>}
  BY DEF IInv, OnEventClientDisconnect
<1>2. ItemSame(item') /\ UserSame(sui')
  BY <1>1, OnEventClientDisconnectQuiet DEF Quiet
<1>3. k # Nil => k \in Item
  BY <1>1 DEF TypeOK, OrNil
<1>4. /\ \A x \in Sui : sui'[x].agent \in {sui[x].agent, Nil}
      /\ k # Nil /\ HasSui(k) => sui'[item[k].sui].agent = Nil
  <2>1. sui \in [Sui -> SuiRecord]
    BY <1>1 DEF TypeOK
  <2>2. CASE k # Nil /\ HasSui(k)
    <3>1. item[k].sui \in Sui
      BY <1>1, <1>3, <2>2, SuiType
    <3>2. sui' = [sui EXCEPT ![item[k].sui].agent = Nil,
                             ![item[k].sui].userStatus = WithoutLS(StatusOf(k))]
      BY <2>2 DEF OnEventClientDisconnect
    <3> QED
      BY <2>1, <3>1, <3>2 DEF SuiRecord
  <2>3. CASE ~(k # Nil /\ HasSui(k))
    BY <2>3 DEF OnEventClientDisconnect
  <2> QED
    BY <2>2, <2>3
<1>5. \A b \in Agent : b # Nil /\ b \in Cos /\ (Loading(b)' <=> Loading(b))
  BY <1>1, NilAssumption DEF Cos, Loading
<1>6. \A x \in Sui : sui'[x].agent = Nil \/ KeepStruct(x)
  BY <1>2, <1>4 DEF KeepStruct, ItemSame, UserSame
<1>7. ASSUME NEW x \in Sui, NEW b \in Agent, sui'[x].agent = b  PROVE TrackedAt(x, b)'
  <2>1. KeepStruct(x) /\ sui[x].agent = b
    BY <1>5, <1>6, <1>7 DEF KeepStruct
  <2>2. Told(x, b) => Told(x, b)' \/ Excused(x, b)'
    <3> SUFFICES ASSUME <<sui[x].userID, b>> = <<u, a>>, Told(x, b)  PROVE Excused(x, b)'
      BY <1>1, <2>1 DEF Told, KeepStruct
    <3>1. ~agent'[b].open
      BY <1>1 DEF TInv, ReportedOK, Told
    <3>2. Housed(x)
      BY <2>1 DEF TInv, TrackedAt
    <3>3. Unfound(x)
      <4> SUFFICES ASSUME NEW i \in Item, item[i].sui = x, hashUserID[u] = i  PROVE FALSE
        BY DEF Unfound
      <4> QED
        BY <1>3, <1>4, <1>5, <1>7, NilAssumption DEF HasSui
    <3>4. Unfound(x)'
      BY <2>1, <3>2, <3>3, UnfoundKeep
    <3> QED
      BY <3>1, <3>4 DEF Excused
  <2> QED
    BY <1>1, <1>5, <2>1, <2>2, TrackedKeep DEF TInv, KeepOpen
<1>8. ReportedOK'
  BY <1>1 DEF TInv, ReportedOK
<1>9. \A c \in Cos : KeepCo(c)
  BY <1>1 DEF KeepCo
<1>10. ASSUME NEW b \in Agent  PROVE LoginAt(b)'
  <2>1. \A i \in Item : KeepPlatform(i)
    BY <1>2 DEF KeepPlatform, ItemSame
  <2> QED
    BY <1>1, <1>5, <1>9, <2>1, LoginKeep DEF TInv
<1>11. ASSUME NEW c \in Cos, NEW b \in Agent  PROVE KickAt(c, b)'
  <2>1. KickAt(c, b) /\ KeepCo(c) /\ \A x \in Sui : sui'[x].agent = b => KeepStruct(x)
    BY <1>5, <1>6, <1>9 DEF TInv
  <2> QED
    BY <1>1, <1>5, <2>1, KickKeep
<1>12. \A x \in Sui, b \in Agent : TrackedAt(x, b)'
  BY <1>7 DEF TrackedAt
<1> QED
  BY <1>8, <1>10, <1>11, <1>12 DEF TInv

-----------------------------------------------------------------------------
(* A calm step after which its handler waits for the clearCache of the     *)
(* agent its item's struct names.                                          *)
LEMMA CalmKick ==
    ASSUME IInv, UInv, TInv, Indexed, Calm, NEW c \in Cos, NEW i \in Item, HasSui(i), ~Loading(c),
           \A d \in Cos : d # c => KeepCo(d),
           co'[c].item = i, co'[c].kick = SuiOf(i).agent, co'[c].at = "kick",
           c \in Agent => LoginAt(c)'
    PROVE  TInv'
<1>1. ~Loading(c)'
  BY DEF Loading
<1>2. ASSUME NEW a \in Agent  PROVE KickAt(c, a)'
  <2>1. a # Nil /\ (agent'[a].open => agent[a].open)
    BY NilAssumption DEF Calm, KeepAgent, KeepOpen
  <2>2. \A x \in Sui : sui'[x].agent = a => KeepStruct(x)
    BY <2>1 DEF Calm
  <2> QED
    BY <2>1, <2>2, NewKick
<1> QED
  BY <1>1, <1>2, CalmKeeps

(* A key assigned during a traversal: what a handler knows of agents is    *)
(* kept.                                                                   *)
LEMMA MarkDirtyKeeps ==
    ASSUME NEW f \in [Cos -> CoRecord], NEW s \in Session, NEW c \in Cos, NEW g,
           g = MarkDirty(f, s)
    PROVE  /\ g[c].op = f[c].op /\ g[c].at = f[c].at /\ g[c].item = f[c].item
           /\ g[c].kick = f[c].kick /\ g[c].userID = f[c].userID
           /\ g[c].cleared = f[c].cleared
  BY DEF MarkDirty, CoRecord

(* A table nobody refers to has no struct.                                 *)
LEMMA FreshItem ==
    ASSUME IInv, UInv, NEW i \in Item, Unreferenced(i)
    PROVE  ~HasSui(i) /\ \A c \in Cos : co[c].item # i
  BY DEF Unreferenced, UInv, StructOK, Held, Cos

(* registerSession.                                                        *)
LEMMA RegisterSessionTInv ==
    ASSUME IInv, UInv, TInv, Indexed, NEW w \in Worker, NEW s \in Session, RegisterSession(w, s)
    PROVE  TInv'
<1> DEFINE i == hashPlatformID[Owner[s]]
<1>1. /\ UNCHANGED <<sui, agent, disconnects>> /\ co \in [Cos -> CoRecord] /\ w \in Cos
      /\ co[w] = Idle /\ TypeOK
  BY DEF RegisterSession, IInv, TypeOK, Cos
<1>2. ~Loading(w) /\ Idle.op # "login" /\ Idle.kick = Nil
  BY <1>1 DEF Loading, Idle
<1>3. ASSUME co' = MarkDirty(co, s)  PROVE \A c \in Cos : KeepCo(c)
  BY <1>1, <1>3, MarkDirtyKeeps DEF KeepCo
<1>4. CASE i = Nil
  <2>1. CreateItem(s) /\ co' = MarkDirty(co, s)
    BY <1>4 DEF RegisterSession
  <2>2. PICK j \in Item :
          /\ Unreferenced(j)
          /\ item' = [item EXCEPT ![j] = [NoItem EXCEPT !.platformID = Owner[s], !.session = s]]
    BY <2>1, Zenon DEF CreateItem
  <2>3. \A k \in Item : k # j => item'[k] = item[k]
    BY <1>1, <2>2 DEF TypeOK
  <2>4. item[j].sui = Nil /\ \A c \in Cos : co[c].item # j
    BY <2>2, FreshItem DEF HasSui
  <2>5. Calm
    <3>1. \A x \in Sui : KeepStruct(x)
      BY <1>1, <2>3, <2>4, NilAssumption DEF KeepStruct
    <3>2. \A c \in Cos : co[c].item \in Item => KeepPlatform(co[c].item)
      BY <2>3, <2>4 DEF KeepPlatform
    <3> QED
      BY <1>1, <3>1, <3>2 DEF Calm, KeepAgent, KeepOpen
  <2> QED
    BY <1>3, <2>1, <2>5, CalmKeeps
<1>5. CASE i # Nil
  <2>1. i \in Item /\ ItemSame(item')
    <3>1. item' = [item EXCEPT ![i].session = s, ![i].sessionTS = "fresh"] /\ i \in Item
      BY <1>1, <1>5, OwnerAssumption DEF RegisterSession, TypeOK, OrNil
    <3> QED
      BY <1>1, <3>1 DEF ItemSame, TypeOK, ItemRecord
  <2>2. Calm
    BY <1>1, <2>1, QuietCalm, SameRefl
  <2>3. CASE HasSui(i) /\ StatusOf(i) \in LSStatus
    <3> DEFINE r == [Idle EXCEPT !.op = "session", !.at = "kick", !.item = i,
                                 !.kick = SuiOf(i).agent,
                                 !.status = WithoutLS(StatusOf(i)),
                                 !.server = SuiOf(i).serverID,
                                 !.userID = SuiOf(i).userID]
               f == [co EXCEPT ![w] = r]
    <3>1. co' = MarkDirty(f, s)
      BY <1>5, <2>3, Zenon DEF RegisterSession
    <3>2. /\ SuiOf(i).agent \in OrNil(Agent) /\ SuiOf(i).serverID \in OrNil(Server)
          /\ SuiOf(i).userID \in OrNil(UserID) /\ WithoutLS(StatusOf(i)) \in Status
      BY <1>1, <2>1, <2>3, SuiType, StatusMoves
    <3>3. /\ r \in CoRecord /\ r.op # "login" /\ r.at = "kick" /\ r.item = i
          /\ r.kick = SuiOf(i).agent
      BY <2>1, <3>2 DEF CoRecord, Idle, OrNil
    <3> HIDE DEF r
    <3>4. f \in [Cos -> CoRecord] /\ f[w] = r /\ \A c \in Cos : c # w => f[c] = co[c]
      BY <1>1, <3>3
    <3> HIDE DEF f
    <3>5. \A c \in Cos : c # w => KeepCo(c)
      BY <3>1, <3>4, MarkDirtyKeeps DEF KeepCo
    <3>6. /\ co'[w].op # "login" /\ co'[w].at = "kick" /\ co'[w].item = i
          /\ co'[w].kick = SuiOf(i).agent
      BY <1>1, <3>1, <3>3, <3>4, MarkDirtyKeeps
    <3>7. LoginAt(w)'
      BY <3>6 DEF LoginAt
    <3> HIDE DEF i
    <3> QED
      BY <1>1, <1>2, <2>1, <2>2, <2>3, <3>5, <3>6, <3>7, CalmKick
  <2>4. CASE ~(HasSui(i) /\ StatusOf(i) \in LSStatus)
    <3>1. co' = MarkDirty(co, s)
      BY <1>5, <2>4 DEF RegisterSession
    <3> QED
      BY <1>3, <2>2, <3>1, CalmKeeps
  <2> QED
    BY <2>3, <2>4
<1> QED
  BY <1>4, <1>5

-----------------------------------------------------------------------------
(* What kickLSAgent does to the agents once clearCache is answered.        *)
LEMMA KickedKeeps ==
    ASSUME TypeOK, NEW r, NEW b \in Agent
    PROVE  /\ Kicked(r)[b].open = agent[b].open /\ Kicked(r)[b].failed = agent[b].failed
           /\ Kicked(r)[b].userID \in {agent[b].userID, Nil}
           /\ ~(b = r.kick /\ agent[b].open /\ ~r.cleared) =>
                 Kicked(r)[b].userID = agent[b].userID
  BY DEF Kicked, TypeOK, AgentRecord

(* A step that may empty caches, and may put an agent whose login then     *)
(* waits for its load into a struct.                                       *)
LEMMA RecordTInv ==
    ASSUME IInv, TInv, Indexed, NEW c \in Cos, ~Loading(c), UNCHANGED disconnects,
           \A b \in Agent : /\ KeepOpen(b)
                            /\ agent'[b].userID \in {agent[b].userID, Nil},
           c \in Agent => \A x \in Sui : sui[x].agent # c,
           \A x \in Sui : \/ sui'[x].agent = Nil
                          \/ /\ KeepStruct(x)
                             /\ \A b \in Agent : sui[x].agent = b /\ ~Loading(b) =>
                                    agent'[b].userID = agent[b].userID
                          \/ sui'[x].agent = c /\ Loading(c)' /\ TrackedAt(x, c)',
           \A d \in Cos : d # c => KeepCo(d),
           \A d \in Cos : co[d].item \in Item => KeepPlatform(co[d].item),
           c \in Agent => LoginAt(c)', \A a \in Agent : KickAt(c, a)'
    PROVE  TInv'
<1>1. \A a \in Agent : a # Nil /\ a \in Cos
  BY NilAssumption DEF Cos
<1>2. \A d \in Cos : d # c => /\ Loading(d)' <=> Loading(d)
                              /\ Loading(d) => co'[d].userID = co[d].userID
  BY DEF KeepCo, Loading
<1>3. ASSUME NEW x \in Sui, NEW b \in Agent, sui'[x].agent = b  PROVE TrackedAt(x, b)'
  <2>1. CASE KeepStruct(x) /\ (~Loading(b) => agent'[b].userID = agent[b].userID)
    <3>1. sui[x].agent = b /\ b # c
      BY <1>3, <2>1 DEF KeepStruct
    <3>2. Told(x, b) => Told(x, b)'
      BY <2>1 DEF Told, KeepStruct
    <3> QED
      BY <1>1, <1>2, <2>1, <3>1, <3>2, TrackedKeep DEF TInv
  <2>2. CASE ~(KeepStruct(x) /\ (~Loading(b) => agent'[b].userID = agent[b].userID))
    <3>1. \/ KeepStruct(x) /\ (sui[x].agent = b /\ ~Loading(b) =>
                                  agent'[b].userID = agent[b].userID)
          \/ b = c /\ TrackedAt(x, c)'
      BY <1>1, <1>3
    <3>2. KeepStruct(x) => sui[x].agent = b
      BY <1>3 DEF KeepStruct
    <3> QED
      BY <2>2, <3>1, <3>2
  <2> QED
    BY <2>1, <2>2
<1>4. \A x \in Sui, b \in Agent : TrackedAt(x, b)'
  BY <1>3 DEF TrackedAt
<1>5. ReportedOK'
  BY DEF ReportedOK, TInv, KeepOpen
<1>6. ASSUME NEW b \in Agent, b # c  PROVE LoginAt(b)'
  BY <1>1, <1>6, LoginKeep DEF TInv, KeepOpen
<1>7. ASSUME NEW d \in Cos, d # c, NEW b \in Agent  PROVE KickAt(d, b)'
  <2>1. CASE b = c /\ Loading(c)'
    BY <1>7, <2>1 DEF TInv, KickAt, KeepCo
  <2>2. CASE ~(b = c /\ Loading(c)')
    <3>1. \A x \in Sui : sui'[x].agent = b => KeepStruct(x)
      BY <1>1, <2>2
    <3>2. KickAt(d, b) /\ KeepCo(d) /\ (Loading(b) => Loading(b)')
      BY <1>1, <1>2, <1>7 DEF TInv
    <3> QED
      BY <3>1, <3>2, KickKeep DEF KeepOpen
  <2> QED
    BY <2>1, <2>2
<1> QED
  BY <1>4, <1>5, <1>6, <1>7 DEF TInv

(* The end of a handler's wait for clearCache.  The struct that named the  *)
(* agent names nobody now, or the agent whose login the handler is: the    *)
(* emptied cache is the cache of no struct.                                *)
LEMMA KickedTInv ==
    ASSUME IInv, TInv, Indexed, NEW c \in Cos, NEW i \in Item, ~Loading(c), i = co[c].item,
           agent' = Kicked(co[c]), UNCHANGED disconnects,
           c \in Agent => \A x \in Sui : sui[x].agent # c,
           \A x \in Sui : \/ sui'[x].agent = Nil
                          \/ item[i].sui # x /\ KeepStruct(x)
                          \/ sui'[x].agent = c /\ Loading(c)' /\ TrackedAt(x, c)',
           \A d \in Cos : d # c => KeepCo(d),
           \A d \in Cos : co[d].item \in Item => KeepPlatform(co[d].item),
           c \in Agent => LoginAt(c)', \A a \in Agent : KickAt(c, a)'
    PROVE  TInv'
<1>1. \A b \in Agent : /\ KeepOpen(b)
                       /\ agent'[b].userID \in {agent[b].userID, Nil}
                       /\ ~(b = co[c].kick /\ agent[b].open /\ ~co[c].cleared) =>
                             agent'[b].userID = agent[b].userID
  BY KickedKeeps DEF IInv, KeepOpen
<1>2. ASSUME NEW x \in Sui, item[i].sui # x, NEW b \in Agent, sui[x].agent = b, ~Loading(b)
      PROVE  agent'[b].userID = agent[b].userID
  BY <1>1, <1>2 DEF TInv, KickAt
<1> QED
  BY <1>1, <1>2, RecordTInv

(* The rest of registerSession.                                            *)
LEMMA RegisterSessionResumeTInv ==
    ASSUME IInv, UInv, TInv, Indexed, NEW w \in Worker, RegisterSessionResume(w)
    PROVE  TInv'
<1>1. /\ w \in Cos /\ w \notin Agent /\ co[w].at = "kick" /\ ~Loading(w) /\ TypeOK
      /\ agent' = Kicked(co[w]) /\ UNCHANGED disconnects /\ co' = [co EXCEPT ![w] = Idle]
  BY DisjointAssumption DEF Loading, RegisterSessionResume, Cos, IInv
<1>2. PICK i \in Item : i = co[w].item
  BY <1>1 DEF IInv, CoOK, HandlerOK
<1>3. ItemSame(item') /\ UserSame(sui')
  BY RegisterSessionResumeQuiet DEF Quiet
<1>4. /\ \A x \in Sui : sui'[x].agent \in {sui[x].agent, Nil}
      /\ \A x \in Sui : item[i].sui = x => sui'[x].agent = Nil
  <2>1. sui \in [Sui -> SuiRecord] /\ item[i].sui \in OrNil(Sui)
    BY <1>1, ItemType DEF TypeOK
  <2>2. CASE item[i].sui = Nil
    BY <1>2, <2>2, NilAssumption DEF RegisterSessionResume
  <2>3. CASE item[i].sui # Nil
    <3>1. sui' = [sui EXCEPT ![item[i].sui].agent = Nil, ![item[i].sui].userStatus = co[w].status]
      BY <1>2, <2>3 DEF RegisterSessionResume
    <3> QED
      BY <2>1, <3>1 DEF SuiRecord
  <2> QED
    BY <2>2, <2>3
<1>5. \A x \in Sui : sui'[x].agent = Nil \/ (item[i].sui # x /\ KeepStruct(x))
  <2>1. \A x \in Sui : sui'[x].agent = sui[x].agent => KeepStruct(x)
    BY <1>3 DEF KeepStruct, ItemSame, UserSame
  <2> QED
    BY <1>4, <2>1
<1>6. co'[w] = Idle /\ \A d \in Cos : d # w => KeepCo(d)
  BY <1>1, OthersKeep
<1>7. \A a \in Agent : KickAt(w, a)'
  BY <1>6, NilAssumption DEF KickAt, Idle
<1>8. \A j \in Item : KeepPlatform(j)
  BY <1>3 DEF ItemSame, KeepPlatform
<1> QED
  BY <1>1, <1>2, <1>5, <1>6, <1>7, <1>8, KickedTInv

-----------------------------------------------------------------------------
(* A cache is filled: the struct that names the agent is the user's, and   *)
(* the clearCache still unanswered was handled before.                     *)
LEMMA CacheTInv ==
    ASSUME IInv, TInv, Indexed, NEW a \in Agent, co[a].op = "login", UNCHANGED disconnects,
           agent'[a].open, \A b \in Agent : b # a => KeepAgent(b),
           \A d \in Cos : d # a => KeepCo(d) /\ (co'[d].kick = a => co'[d].cleared),
           co'[a].at = "reply", co'[a].kick = Nil,
           \A x \in Sui : \/ sui'[x].agent = a /\ TrackedAt(x, a)'
                          \/ sui[x].agent # a /\ KeepStruct(x),
           \A d \in Cos : co[d].item \in Item => KeepPlatform(co[d].item)
    PROVE  TInv'
<1>1. \A b \in Agent : b # Nil /\ b \in Cos
  BY NilAssumption DEF Cos
<1>2. \A d \in Cos : d # a => /\ Loading(d)' <=> Loading(d)
                              /\ Loading(d) => co'[d].userID = co[d].userID
  BY DEF KeepCo, Loading
<1>3. agent[a].open
  BY DEF TInv, LoginAt
<1>4. ASSUME NEW x \in Sui, NEW b \in Agent, sui'[x].agent = b  PROVE TrackedAt(x, b)'
  <2>1. CASE sui[x].agent # a /\ KeepStruct(x)
    <3>1. sui[x].agent = b /\ b # a
      BY <1>4, <2>1 DEF KeepStruct
    <3>2. Told(x, b) => Told(x, b)'
      BY <2>1 DEF Told, KeepStruct
    <3> QED
      BY <1>1, <1>2, <2>1, <3>1, <3>2, TrackedKeep DEF TInv, KeepAgent, KeepOpen
  <2> QED
    BY <1>4, <2>1
<1>5. \A x \in Sui, b \in Agent : TrackedAt(x, b)'
  BY <1>4 DEF TrackedAt
<1>6. ReportedOK'
  BY <1>3 DEF ReportedOK, TInv, KeepAgent, KeepOpen
<1>7. ASSUME NEW b \in Agent  PROVE LoginAt(b)'
  <2>1. CASE b # a
    BY <1>1, <2>1, LoginKeep DEF TInv, KeepAgent, KeepOpen
  <2>2. CASE b = a
    BY <2>2 DEF LoginAt
  <2> QED
    BY <2>1, <2>2
<1>8. ASSUME NEW d \in Cos, NEW b \in Agent  PROVE KickAt(d, b)'
  <2>1. CASE d = a
    BY <1>1, <2>1 DEF KickAt
  <2>2. CASE d # a /\ b = a
    BY <2>2 DEF TInv, KickAt, KeepCo
  <2>3. CASE d # a /\ b # a
    <3>1. /\ KickAt(d, b) /\ KeepCo(d) /\ (Loading(b) => Loading(b)')
          /\ agent'[b].open => agent[b].open
      BY <1>1, <1>2, <2>3 DEF TInv, KeepAgent, KeepOpen
    <3>2. \A x \in Sui : sui'[x].agent = b => KeepStruct(x)
      BY <2>3
    <3> QED
      BY <3>1, <3>2, KickKeep
  <2> QED
    BY <2>1, <2>2, <2>3
<1> QED
  BY <1>5, <1>6, <1>7, <1>8 DEF TInv

(* What setCache leaves of the other handlers' knowledge.                  *)
LEMMA SetCacheKeeps ==
    ASSUME TypeOK, NEW a \in Agent, NEW r \in CoRecord, r.kick = Nil, NEW f,
           f = [co EXCEPT ![a] = r], co' = SetCache(f, a)
    PROVE  /\ co'[a] = r
           /\ \A d \in Cos : d # a => KeepCo(d) /\ (co'[d].kick = a => co'[d].cleared)
<1>1. /\ f \in [Cos -> CoRecord] /\ a \in Cos /\ f[a] = r /\ a # Nil
      /\ \A d \in Cos : d # a => f[d] = co[d]
  BY NilAssumption DEF TypeOK, Cos
<1>2. \A d \in Cos : co'[d] = IF f[d].kick = a THEN [f[d] EXCEPT !.cleared = TRUE] ELSE f[d]
  BY <1>1 DEF SetCache
<1>3. \A d \in Cos : f[d] \in CoRecord
  BY <1>1
<1>4. co'[a] = r
  BY <1>1, <1>2
<1>5. ASSUME NEW d \in Cos, d # a  PROVE KeepCo(d) /\ (co'[d].kick = a => co'[d].cleared)
  <2>1. f[d] = co[d] /\ f[d] \in CoRecord
    BY <1>1, <1>3, <1>5
  <2>2. CASE f[d].kick = a
    <3>1. co'[d] = [co[d] EXCEPT !.cleared = TRUE] /\ co[d] \in CoRecord
      BY <1>2, <2>1, <2>2
    <3>2. /\ co'[d].op = co[d].op /\ co'[d].at = co[d].at /\ co'[d].item = co[d].item
          /\ co'[d].kick = co[d].kick /\ co'[d].userID = co[d].userID
      BY <3>1 DEF CoRecord
    <3>3. co'[d].cleared
      BY <3>1 DEF CoRecord
    <3> QED
      BY <3>2, <3>3 DEF KeepCo
  <2>3. CASE f[d].kick # a
    BY <1>2, <2>1, <2>3 DEF KeepCo
  <2> QED
    BY <2>2, <2>3
<1> QED
  BY <1>4, <1>5

(* The end of switchUserItem.                                              *)
LEMMA SwitchUserItemLoadedTInv ==
    ASSUME IInv, UInv, TInv, Indexed, NEW a \in Agent, SwitchUserItemLoaded(a)
    PROVE  TInv'
<1> DEFINE r == [co[a] EXCEPT !.at = "reply", !.item = Nil, !.userID = Nil]
           f == [co EXCEPT ![a] = r]
<1>1. /\ TypeOK /\ a \in Cos /\ co[a] \in CoRecord /\ co[a].op = "login" /\ co[a].at = "load"
      /\ UNCHANGED <<item, sui, disconnects>> /\ co' = SetCache(f, a)
      /\ agent' = [agent EXCEPT ![a].userID = co[a].userID, ![a].sui = item[co[a].item].sui]
      /\ co[a].kick \in OrNil(Agent)
  BY CoType DEF SwitchUserItemLoaded, IInv, Cos
<1>2. agent[a].open /\ co[a].kick = Nil
  BY <1>1 DEF TInv, LoginAt, KickAt, OrNil
<1>3. /\ agent'[a].open /\ agent'[a].userID = co[a].userID
      /\ \A b \in Agent : b # a => KeepAgent(b)
  BY <1>1, <1>2 DEF TypeOK, AgentRecord, KeepAgent, KeepOpen
<1>4. r \in CoRecord /\ r.at = "reply" /\ r.kick = Nil
  <2>1. co[a] \in CoRecord /\ co[a].kick = Nil
    BY <1>1, <1>2
  <2>2. r \in CoRecord
    <3>1. \A k \in CoRecord : [k EXCEPT !.at = "reply"] \in CoRecord
      BY DEF CoRecord
    <3>2. \A k \in CoRecord : [k EXCEPT !.item = Nil] \in CoRecord
      BY DEF CoRecord, OrNil
    <3>3. \A k \in CoRecord : [k EXCEPT !.userID = Nil] \in CoRecord
      BY DEF CoRecord, OrNil
    <3> DEFINE p == [co[a] EXCEPT !.at = "reply"]
               q == [p EXCEPT !.item = Nil]
    <3>4. r = [q EXCEPT !.userID = Nil]
      OBVIOUS
    <3>5. p \in CoRecord
      BY <2>1, <3>1
    <3> HIDE DEF p
    <3>6. q \in CoRecord
      BY <3>2, <3>5
    <3> HIDE DEF q, r
    <3> QED
      BY <3>3, <3>4, <3>6
  <2>3. r.at = "reply" /\ r.kick = Nil
    BY <2>1 DEF CoRecord
  <2> QED
    BY <2>2, <2>3
<1> HIDE DEF r
<1>5. /\ co'[a] = r
      /\ \A d \in Cos : d # a => KeepCo(d) /\ (co'[d].kick = a => co'[d].cleared)
  BY <1>1, <1>4, SetCacheKeeps
<1>6. ASSUME NEW x \in Sui, sui[x].agent = a  PROVE TrackedAt(x, a)'
  <2>1. co[a].userID = sui[x].userID
    BY <1>1, <1>2, <1>6, OpenCached DEF Cached, Loading
  <2>2. Housed(x)'
    BY <1>1, <1>6 DEF TInv, TrackedAt, Housed
  <2>3. Cached(x, a)'
    BY <1>1, <1>3, <1>4, <1>5, <2>1 DEF Cached, Loading
  <2> QED
    BY <2>2, <2>3 DEF TrackedAt
<1>7. \A x \in Sui : KeepStruct(x)
  BY <1>1 DEF KeepStruct
<1>8. \A j \in Item : KeepPlatform(j)
  BY <1>1 DEF KeepPlatform
<1> QED
  BY <1>1, <1>3, <1>4, <1>5, <1>6, <1>7, <1>8, CacheTInv

(* registerUser: the struct comes from the pool, so no item held it.       *)
LEMMA RegisterUserTInv ==
    ASSUME IInv, UInv, TInv, Indexed, NEW a \in Agent, RegisterUser(a)
    PROVE  TInv'
<1> DEFINE p == co[a].platformID
           i == hashPlatformID[p]
<1>1. /\ TypeOK /\ a \in Cos /\ co[a] \in CoRecord /\ co[a].at = "register"
      /\ HandlerOK(co[a]) /\ co[a].kick \in OrNil(Agent)
  BY CoType DEF RegisterUser, IInv, CoOK, Cos
<1>2. co[a].op = "login" /\ p \in PlatformID /\ co[a].kick = Nil /\ ~Loading(a)
  BY <1>1 DEF HandlerOK, TInv, KickAt, OrNil, Loading
<1>3. agent[a].open /\ agent[a].userID = Nil /\ \A x \in Sui : sui[x].agent # a
  BY <1>1, <1>2, NotRecorded
<1>4. CASE i = Nil \/ HasSui(i)
  <2>1. LoginError(a, agent) /\ UNCHANGED <<item, sui>>
    BY <1>4 DEF RegisterUser
  <2> QED
    BY <1>2, <2>1, LoginErrorTInv
<1>5. CASE ~(i = Nil \/ HasSui(i))
  <2> DEFINE r == [co[a] EXCEPT !.at = "reply", !.item = i]
             f == [co EXCEPT ![a] = r]
  <2>1. PICK x \in Sui :
          /\ ~sui[x].isInit
          /\ sui' = [sui EXCEPT ![x] = [isInit |-> TRUE, userID |-> DbUserID[p],
                                        agent |-> a, userStatus |-> "US_LS",
                                        serverID |-> Nil]]
          /\ item' = [item EXCEPT ![i].sui = x, ![i].sessionTS = "fresh",
                                  ![i].suiTS = "nil"]
          /\ agent' = [agent EXCEPT ![a].userID = DbUserID[p], ![a].sui = x]
          /\ co' = SetCache(f, a) /\ UNCHANGED disconnects
    BY <1>5, Zenon DEF RegisterUser
  <2>2. i \in Item /\ item[i].sui = Nil
    BY <1>1, <1>2, <1>5 DEF TypeOK, OrNil, HasSui
  <2>3. /\ agent'[a].open /\ agent'[a].userID = DbUserID[p]
        /\ \A b \in Agent : b # a => KeepAgent(b)
    BY <1>1, <1>3, <2>1 DEF TypeOK, AgentRecord, KeepAgent, KeepOpen
  <2>4. r \in CoRecord /\ r.at = "reply" /\ r.kick = Nil
    BY <1>1, <1>2, <2>2 DEF CoRecord, OrNil
  <2> HIDE DEF r
  <2>5. /\ co'[a] = r
        /\ \A d \in Cos : d # a => KeepCo(d) /\ (co'[d].kick = a => co'[d].cleared)
    BY <1>1, <2>1, <2>4, SetCacheKeeps
  <2>6. /\ item'[i].sui = x /\ \A k \in Item : k # i => item'[k] = item[k]
        /\ \A k \in Item : item'[k].platformID = item[k].platformID
    <3>1. item \in [Item -> ItemRecord] /\ i \in Item
      BY <1>1, <2>2 DEF TypeOK
    <3>2. item' = [item EXCEPT ![i].sui = x, ![i].sessionTS = "fresh", ![i].suiTS = "nil"]
      BY <2>1
    <3>3. /\ item'[i].sui = x /\ item'[i].platformID = item[i].platformID
          /\ \A k \in Item : k # i => item'[k] = item[k]
      BY ONLY <3>1, <3>2 DEF ItemRecord
    <3> QED BY <3>3
  <2>7. /\ sui'[x].userID = DbUserID[p] /\ sui'[x].agent = a
        /\ \A y \in Sui : y # x => sui'[y] = sui[y]
    BY <1>1, <2>1 DEF TypeOK
  <2>8. TrackedAt(x, a)'
    <3>1. Housed(x)'
      BY <2>2, <2>6 DEF Housed
    <3>2. Cached(x, a)'
      BY <2>3, <2>4, <2>5, <2>7 DEF Cached, Loading
    <3> QED
      BY <3>1, <3>2 DEF TrackedAt
  <2>9. \A y \in Sui : y # x => sui[y].agent # a /\ KeepStruct(y)
    BY <1>3, <2>2, <2>6, <2>7, NilAssumption DEF KeepStruct
  <2>10. \A k \in Item : KeepPlatform(k)
    BY <2>6 DEF KeepPlatform
  <2> QED
    BY <1>2, <2>1, <2>3, <2>4, <2>5, <2>7, <2>8, <2>9, <2>10, CacheTInv
<1> QED
  BY <1>4, <1>5

-----------------------------------------------------------------------------
(* switchUserItem up to its first yield.  A struct whose status is not of  *)
(* the lobby names nobody, so that the new agent replaces none.            *)
LEMMA SwitchUserItemTInv ==
    ASSUME IInv, UInv, TInv, Indexed, NEW a \in Agent, SwitchUserItem(a)
    PROVE  TInv'
<1> DEFINE p == co[a].platformID
           i == hashPlatformID[p]
<1>1. /\ TypeOK /\ a \in Cos /\ co[a] \in CoRecord /\ co[a].at = "switch"
      /\ HandlerOK(co[a]) /\ co[a].kick \in OrNil(Agent)
  BY CoType DEF SwitchUserItem, IInv, CoOK, Cos
<1>2. co[a].op = "login" /\ p \in PlatformID /\ co[a].kick = Nil /\ ~Loading(a)
  BY <1>1 DEF HandlerOK, TInv, KickAt, OrNil, Loading
<1>3. agent[a].open /\ agent[a].userID = Nil /\ \A x \in Sui : sui[x].agent # a
  BY <1>1, <1>2, NotRecorded
<1>4. CASE i = Nil \/ ~HasSui(i)
  <2>1. LoginError(a, agent) /\ UNCHANGED <<item, sui>>
    BY <1>4 DEF SwitchUserItem
  <2> QED
    BY <1>2, <2>1, LoginErrorTInv
<1>5. CASE ~(i = Nil \/ ~HasSui(i))
  <2>1. i \in Item /\ HasSui(i) /\ item[i].platformID = p
    BY <1>1, <1>2, <1>5 DEF TypeOK, OrNil, IInv, IndexOK
  <2>2. SuiOf(i).userID = DbUserID[p] /\ item[i].sui \in Sui
    BY <1>1, <2>1, SuiType DEF UInv, StructOK
  <2>3. ItemSame(item') /\ UserSame(sui') /\ UNCHANGED <<agent, disconnects>>
    BY <1>5, SwitchUserItemQuiet DEF Quiet, SwitchUserItem
  <2>4. CASE StatusOf(i) \in LSStatus
    <3> DEFINE r == [co[a] EXCEPT !.at = "kick", !.item = i, !.kick = SuiOf(i).agent,
                                  !.status = StatusOf(i), !.userID = SuiOf(i).userID]
    <3>1. UNCHANGED sui /\ co' = [co EXCEPT ![a] = r]
      BY <1>5, <2>4 DEF SwitchUserItem
    <3>2. /\ r.op = "login" /\ r.at = "kick" /\ r.item = i /\ r.kick = SuiOf(i).agent
          /\ r.userID = DbUserID[p]
      BY <1>1, <1>2, <2>2 DEF CoRecord
    <3> HIDE DEF r
    <3>3. co'[a] = r /\ \A d \in Cos : d # a => KeepCo(d)
      BY <1>1, <3>1, OthersKeep
    <3>4. Calm
      BY <2>3, <3>1, QuietCalm
    <3>5. LoginAt(a)'
      BY <1>3, <2>1, <2>3, <3>2, <3>3 DEF LoginAt, ItemSame
    <3> HIDE DEF i
    <3> QED
      BY <1>1, <1>2, <2>1, <3>2, <3>3, <3>4, <3>5, CalmKick
  <2>5. CASE StatusOf(i) \notin LSStatus
    <3> DEFINE r == [co[a] EXCEPT !.at = "load", !.item = i, !.userID = SuiOf(i).userID]
    <3>1. /\ sui' = [sui EXCEPT ![item[i].sui].agent = a,
                                ![item[i].sui].userStatus = WithLS(StatusOf(i))]
          /\ co' = [co EXCEPT ![a] = r]
      BY <1>5, <2>5 DEF SwitchUserItem
    <3>2. /\ r.op = "login" /\ r.at = "load" /\ r.item = i /\ r.kick = Nil
          /\ r.userID = DbUserID[p]
      BY <1>1, <1>2, <2>2 DEF CoRecord
    <3> HIDE DEF r
    <3>3. co'[a] = r /\ \A d \in Cos : d # a => KeepCo(d)
      BY <1>1, <3>1, OthersKeep
    <3>4. PICK x \in Sui : x = item[i].sui
      BY <2>2
    <3>5. /\ sui'[x].agent = a /\ sui'[x].userID = DbUserID[p]
          /\ \A y \in Sui : y # x => sui'[y] = sui[y]
      <4>1. sui[x] \in SuiRecord
        BY <1>1 DEF TypeOK
      <4>2. sui'[x].agent = a /\ \A y \in Sui : y # x => sui'[y] = sui[y]
        BY <1>1, <3>1, <3>4, <4>1 DEF TypeOK, SuiRecord
      <4> QED
        BY <2>2, <2>3, <3>4, <4>2 DEF UserSame, SuiOf
    <3>6. Loading(a)' /\ LoginAt(a)' /\ \A b \in Agent : KickAt(a, b)'
      BY <1>3, <2>1, <2>3, <3>2, <3>3, NilAssumption DEF Loading, LoginAt, KickAt, ItemSame
    <3>7. TrackedAt(x, a)'
      <4>1. Housed(x)'
        BY <2>1, <2>3, <3>4 DEF ItemSame, Housed
      <4>2. Cached(x, a)'
        BY <1>3, <2>3, <3>2, <3>3, <3>5, <3>6 DEF Cached
      <4> QED
        BY <4>1, <4>2 DEF TrackedAt
    <3>8. \A y \in Sui : y # x => KeepStruct(y)
      BY <2>3, <3>5 DEF KeepStruct, ItemSame
    <3>9. \A k \in Item : KeepPlatform(k)
      BY <2>3 DEF KeepPlatform, ItemSame
    <3>10. \A b \in Agent : KeepOpen(b) /\ agent'[b].userID = agent[b].userID
      BY <2>3 DEF KeepOpen
    <3>11. \A y \in Sui : \/ KeepStruct(y)
                          \/ sui'[y].agent = a /\ Loading(a)' /\ TrackedAt(y, a)'
      BY <3>5, <3>6, <3>7, <3>8
    <3> QED
      BY <1>1, <1>2, <1>3, <2>3, <3>3, <3>6, <3>9, <3>10, <3>11, RecordTInv
  <2> QED
    BY <2>4, <2>5
<1> QED
  BY <1>4, <1>5

(* kickLSAgent has returned to switchUserItem.                             *)
LEMMA SwitchUserItemKickedTInv ==
    ASSUME IInv, UInv, TInv, Indexed, NEW a \in Agent, SwitchUserItemKicked(a)
    PROVE  TInv'
<1>1. /\ TypeOK /\ a \in Cos /\ co[a] \in CoRecord /\ co[a].op = "login" /\ co[a].at = "kick"
      /\ HandlerOK(co[a]) /\ UNCHANGED item /\ ~Loading(a)
  BY CoType DEF Loading, SwitchUserItemKicked, IInv, CoOK, Cos
<1>2. PICK i \in Item : i = co[a].item
  BY <1>1 DEF HandlerOK
<1>3. agent[a].open /\ agent[a].userID = Nil /\ \A x \in Sui : sui[x].agent # a
  BY <1>1, NotRecorded
<1>4. /\ Kicked(co[a]) \in [Agent -> AgentRecord]
      /\ \A b \in Agent :
           /\ Kicked(co[a])[b].open = agent[b].open
           /\ Kicked(co[a])[b].failed = agent[b].failed
           /\ Kicked(co[a])[b].userID \in {agent[b].userID, Nil}
           /\ ~(b = co[a].kick /\ agent[b].open /\ ~co[a].cleared) =>
                 Kicked(co[a])[b].userID = agent[b].userID
  BY <1>1, KickedOK, KickedKeeps
<1>5. CASE item[i].sui = Nil
  <2>1. LoginError(a, Kicked(co[a])) /\ UNCHANGED sui
    BY <1>2, <1>5 DEF SwitchUserItemKicked
  <2>2. ASSUME NEW x \in Sui, NEW b \in Agent, sui[x].agent = b, ~Loading(b)
        PROVE  Kicked(co[a])[b].userID = agent[b].userID
    BY <1>1, <1>2, <1>4, <1>5, <2>2, NilAssumption DEF TInv, KickAt
  <2>3. /\ disconnects' = ExitEvents(Kicked(co[a]), a)
        /\ agent' = [Kicked(co[a]) EXCEPT ![a] = Closed] /\ co' = [co EXCEPT ![a] = Idle]
    BY <2>1 DEF LoginError
  <2>4. co'[a] = Idle /\ \A c \in Cos : c # a => KeepCo(c)
    BY <1>1, <2>3, OthersKeep
  <2>5. co'[a].op # "login" /\ co'[a].kick = Nil
    BY <2>4 DEF Idle
  <2>6. PICK f \in [Agent -> AgentRecord] : f = Kicked(co[a])
    BY <1>4
  <2> QED
    BY <1>1, <1>3, <1>4, <2>1, <2>2, <2>3, <2>4, <2>5, <2>6, ClosedGone, ExitTInv
<1>6. CASE item[i].sui # Nil
  <2> DEFINE r == [co[a] EXCEPT !.at = "load", !.kick = Nil, !.cleared = FALSE,
                                !.status = "US_NULL"]
  <2>1. /\ agent' = Kicked(co[a]) /\ UNCHANGED disconnects
        /\ sui' = [sui EXCEPT ![item[i].sui].agent = a,
                              ![item[i].sui].userStatus = co[a].status]
        /\ co' = [co EXCEPT ![a] = r]
    BY <1>2, <1>6 DEF SwitchUserItemKicked
  <2>2. /\ r.op = "login" /\ r.at = "load" /\ r.item = i /\ r.kick = Nil
        /\ r.userID = co[a].userID
    BY <1>1, <1>2 DEF CoRecord
  <2> HIDE DEF r
  <2>3. PICK x \in Sui : x = item[i].sui
    BY <1>1, <1>6, SuiType DEF HasSui
  <2>4. item[i].platformID # Nil /\ sui[x].userID = DbUserID[item[i].platformID]
    BY <1>6, <2>3, NilAssumption DEF UInv, StructOK, HasSui, SuiOf, Held
  <2>5. r.userID = sui[x].userID
    BY <1>1, <1>2, <2>2, <2>4 DEF TInv, LoginAt
  <2>6. co'[a] = r /\ \A d \in Cos : d # a => KeepCo(d)
    BY <1>1, <2>1, OthersKeep
  <2>7. /\ sui'[x].agent = a /\ sui'[x].userID = sui[x].userID
        /\ \A y \in Sui : y # x => sui'[y] = sui[y]
    BY <1>1, <2>1, <2>3 DEF TypeOK, SuiRecord
  <2>8. agent'[a].open /\ agent'[a].userID = Nil
    BY <1>3, <1>4, <2>1
  <2>9. Loading(a)' /\ LoginAt(a)' /\ \A b \in Agent : KickAt(a, b)'
    BY <1>1, <2>2, <2>4, <2>5, <2>6, <2>8, NilAssumption DEF Loading, LoginAt, KickAt
  <2>10. TrackedAt(x, a)'
    <3>1. Housed(x)'
      BY <1>1, <2>3 DEF Housed
    <3>2. Cached(x, a)'
      BY <2>5, <2>6, <2>7, <2>8, <2>9 DEF Cached
    <3> QED
      BY <3>1, <3>2 DEF TrackedAt
  <2>11. \A y \in Sui : y # x => KeepStruct(y)
    BY <1>1, <2>7 DEF KeepStruct
  <2>12. \A k \in Item : KeepPlatform(k)
    BY <1>1 DEF KeepPlatform
  <2>13. \A y \in Sui : \/ item[i].sui # y /\ KeepStruct(y)
                        \/ sui'[y].agent = a /\ Loading(a)' /\ TrackedAt(y, a)'
    BY <2>3, <2>7, <2>9, <2>10, <2>11
  <2> QED
    BY <1>1, <1>2, <1>3, <2>1, <2>6, <2>9, <2>12, <2>13, KickedTInv
<1> QED
  BY <1>5, <1>6

-----------------------------------------------------------------------------
(* Structs that go back to the pool name nobody; the others stay in their  *)
(* items.                                                                  *)
LEMMA ReleaseKeeps ==
    ASSUME NEW Rel \in SUBSET Item, NEW Us, ReleaseSui(Rel, Us),
           \A i \in Item \ Rel : item'[i].sui = item[i].sui
    PROVE  /\ \A x \in Sui : sui'[x].agent = Nil \/ KeepStruct(x)
           /\ \A x \in Sui, i \in Rel : item[i].sui = x => sui'[x].agent = Nil
<1> DEFINE Xs == {item[i].sui : i \in Rel}
<1>1. \A x \in Sui : sui'[x] = IF x \in Xs THEN NoSui ELSE sui[x]
  BY DEF ReleaseSui
<1>2. NoSui.agent = Nil
  BY DEF NoSui
<1>3. ASSUME NEW x \in Sui, x \notin Xs  PROVE KeepStruct(x)
  <2>1. \A i \in Item : item[i].sui = x => i \notin Rel
    BY <1>3
  <2> QED
    BY <1>1, <1>3, <2>1 DEF KeepStruct
<1> QED
  BY <1>1, <1>2, <1>3

(* What the traversal's handler waits for after a segment.                 *)
NextKick(r) == \/ r.kick = Nil
               \/ \E i \in Item : /\ HasSui(i) /\ r.item = i /\ r.at = "kick"
                                  /\ r.kick = SuiOf(i).agent
(* A segment resets every struct it takes from an item, keeps the others,  *)
(* and leaves its handler idle or in kickLSAgent.                          *)
LEMMA TraverseShape ==
    ASSUME IInv, NEW w \in Worker, NEW g \in Server, NEW T \in SUBSET Session,
           NEW Is0 \in SUBSET Item, NEW Us0, Traverse(w, g, T, Is0, Us0)
    PROVE  /\ \A x \in Sui : sui'[x].agent = Nil \/ KeepStruct(x)
           /\ \A x \in Sui, i \in Is0 : item[i].sui = x => sui'[x].agent = Nil
           /\ \A i \in Item : KeepPlatform(i)
           /\ co'[w].op # "login" /\ NextKick(co'[w])
           /\ \A d \in Cos : d # w => KeepCo(d)
<1> DEFINE Due  == {s \in T : OnServer(g, s) /\ hashSession[s] \notin Is0}
           Wait == {s \in Due : KickFirst(g, s)}
<1>1. PICK D \in SUBSET (Due \ Wait) :
        LET Is == {hashSession[s] : s \in D} IN
        /\ ReleaseSui(Is0 \cup Is, Us0 \cup {SuiOf(i).userID : i \in Is})
        /\ item' = [i \in Item |-> IF i \in Is0 \cup Is THEN WithoutSui(i) ELSE item[i]]
        /\ \/ /\ Wait = {} /\ D = Due
              /\ co' = [co EXCEPT ![w] = Idle]
           \/ \E s \in Wait :
                LET i == hashSession[s] IN
                co' = [co EXCEPT ![w] =
                         [Idle EXCEPT !.op = "down", !.at = "kick", !.server = g,
                                      !.item = i, !.kick = SuiOf(i).agent,
                                      !.userID = SuiOf(i).userID,
                                      !.todo = T \ (D \cup {s}),
                                      !.dirty = co[w].dirty]]
  BY Zenon DEF Traverse
<1>2. \A s \in Due : hashSession[s] \in Item /\ HasSui(hashSession[s])
  BY DEF OnServer, IInv, TypeOK, OrNil
<1> DEFINE Is  == {hashSession[s] : s \in D}
           Rel == Is0 \cup Is
           Us  == Us0 \cup {SuiOf(i).userID : i \in Is}
<1>3. /\ ReleaseSui(Rel, Us) /\ Rel \in SUBSET Item /\ Is0 \subseteq Rel
      /\ item' = [i \in Item |-> IF i \in Rel THEN WithoutSui(i) ELSE item[i]]
  BY <1>1, <1>2
<1>4. \/ co' = [co EXCEPT ![w] = Idle]
      \/ \E s \in Due : LET i == hashSession[s] IN \E td :
           co' = [co EXCEPT ![w] =
                    [Idle EXCEPT !.op = "down", !.at = "kick", !.server = g,
                                 !.item = i, !.kick = SuiOf(i).agent,
                                 !.userID = SuiOf(i).userID, !.todo = td,
                                 !.dirty = co[w].dirty]]
  BY <1>1, Zenon
<1> HIDE DEF Is, Rel, Us, Wait
<1>5. /\ \A x \in Sui : sui'[x].agent = Nil \/ KeepStruct(x)
      /\ \A x \in Sui, i \in Is0 : item[i].sui = x => sui'[x].agent = Nil
  <2>1. \A i \in Item \ Rel : item'[i].sui = item[i].sui
    BY <1>3
  <2> QED
    BY <1>3, <2>1, ReleaseKeeps
<1>6. \A i \in Item : KeepPlatform(i)
  <2>1. \A i \in Item : WithoutSui(i).platformID = item[i].platformID
    BY ItemType DEF WithoutSui, ItemRecord, IInv
  <2>2. \A i \in Item : item'[i].platformID = item[i].platformID
    BY <1>3, <2>1
  <2> QED
    BY <2>2 DEF KeepPlatform
<1>7. w \in Cos /\ TypeOK
  BY DEF Cos, IInv
<1>8. PICK r : co' = [co EXCEPT ![w] = r] /\ r.op # "login" /\ NextKick(r)
  <2>1. CASE co' = [co EXCEPT ![w] = Idle]
    <3>1. Idle.op # "login" /\ Idle.kick = Nil
      BY DEF Idle
    <3> QED
      BY <2>1, <3>1 DEF NextKick
  <2>2. ASSUME NEW s \in Due, NEW i \in Item, i = hashSession[s], NEW td,
               co' = [co EXCEPT ![w] =
                        [Idle EXCEPT !.op = "down", !.at = "kick", !.server = g,
                                     !.item = i, !.kick = SuiOf(i).agent,
                                     !.userID = SuiOf(i).userID, !.todo = td,
                                     !.dirty = co[w].dirty]]
        PROVE  \E r : co' = [co EXCEPT ![w] = r] /\ r.op # "login" /\ NextKick(r)
    <3> DEFINE r == [Idle EXCEPT !.op = "down", !.at = "kick", !.server = g,
                                 !.item = i, !.kick = SuiOf(i).agent,
                                 !.userID = SuiOf(i).userID, !.todo = td,
                                 !.dirty = co[w].dirty]
    <3>1. r.op = "down" /\ r.at = "kick" /\ r.item = i /\ r.kick = SuiOf(i).agent
      BY DEF Idle
    <3>2. co' = [co EXCEPT ![w] = r]
      BY <2>2
    <3> HIDE DEF r
    <3>3. HasSui(i)
      BY <1>2, <2>2
    <3>4. NextKick(r)
      BY <3>1, <3>3 DEF NextKick
    <3> QED
      BY <3>1, <3>2, <3>4
  <2> QED
    BY <1>2, <1>4, <2>1, <2>2, Zenon
<1>9. co'[w] = r /\ \A d \in Cos : d # w => KeepCo(d)
  BY <1>7, <1>8, OthersKeep
<1> QED
  BY <1>5, <1>6, <1>8, <1>9

(* The first segment.                                                      *)
LEMMA OnEventGameServerDisconnectTInv ==
    ASSUME IInv, UInv, TInv, Indexed, NEW w \in Worker, NEW g \in Server,
           OnEventGameServerDisconnect(w, g)
    PROVE  TInv'
<1>1. /\ w \in Cos /\ co[w] = Idle /\ UNCHANGED <<agent, disconnects>>
      /\ Traverse(w, g, Session, {}, {}) /\ {} \in SUBSET Item /\ Session \in SUBSET Session
  BY DEF OnEventGameServerDisconnect, Cos
<1>2. /\ \A x \in Sui : sui'[x].agent = Nil \/ KeepStruct(x)
      /\ \A i \in Item : KeepPlatform(i)
      /\ co'[w].op # "login" /\ NextKick(co'[w])
      /\ \A d \in Cos : d # w => KeepCo(d)
  BY <1>1, TraverseShape
<1>3. Calm
  BY <1>1, <1>2 DEF Calm, KeepAgent, KeepOpen
<1>4. ~Loading(w) /\ ~Loading(w)' /\ LoginAt(w)'
  BY <1>1, <1>2 DEF Loading, Idle, LoginAt
<1>5. CASE co'[w].kick = Nil
  <2>1. \A a \in Agent : KickAt(w, a)'
    BY <1>5, NilAssumption DEF KickAt
  <2> QED
    BY <1>2, <1>3, <1>4, <2>1, CalmKeeps
<1>6. CASE co'[w].kick # Nil
  <2>1. PICK i \in Item : /\ HasSui(i) /\ co'[w].item = i /\ co'[w].at = "kick"
                          /\ co'[w].kick = SuiOf(i).agent
    BY <1>2, <1>6 DEF NextKick
  <2> QED
    BY <1>1, <1>2, <1>3, <1>4, <2>1, CalmKick
<1> QED
  BY <1>5, <1>6

(* A segment after kickLSAgent.                                            *)
LEMMA OnEventGameServerDisconnectResumeTInv ==
    ASSUME IInv, UInv, TInv, Indexed, NEW w \in Worker, OnEventGameServerDisconnectResume(w)
    PROVE  TInv'
<1>1. /\ w \in Cos /\ w \notin Agent /\ co[w].op = "down" /\ TypeOK /\ HandlerOK(co[w])
      /\ co[w].todo \in SUBSET Session
      /\ agent' = Kicked(co[w]) /\ UNCHANGED disconnects
  BY CoType, DisjointAssumption DEF OnEventGameServerDisconnectResume, Cos, IInv, CoOK
<1>2. PICK i \in Item, g \in Server : i = co[w].item /\ g = co[w].server
  BY <1>1 DEF HandlerOK
<1>3. PICK T \in SUBSET Session : Traverse(w, g, T, {i}, {co[w].userID})
  BY <1>1, <1>2 DEF OnEventGameServerDisconnectResume
<1>4. {i} \in SUBSET Item
  OBVIOUS
<1>5. PICK Us : Us = {co[w].userID}
  OBVIOUS
<1>6. /\ \A x \in Sui : sui'[x].agent = Nil \/ KeepStruct(x)
      /\ \A x \in Sui : item[i].sui = x => sui'[x].agent = Nil
      /\ \A j \in Item : KeepPlatform(j)
      /\ co'[w].op # "login" /\ NextKick(co'[w])
      /\ \A d \in Cos : d # w => KeepCo(d)
  BY <1>3, <1>4, <1>5, TraverseShape
<1>7. ASSUME NEW a \in Agent  PROVE KickAt(w, a)'
  <2>1. a # Nil /\ agent'[a].open = agent[a].open
    BY <1>1, KickedKeeps, NilAssumption
  <2>2. CASE co'[w].kick = Nil
    BY <2>1, <2>2 DEF KickAt
  <2>3. CASE co'[w].kick # Nil
    <3>1. PICK j \in Item : /\ HasSui(j) /\ co'[w].item = j /\ co'[w].at = "kick"
                            /\ co'[w].kick = SuiOf(j).agent
      BY <1>6, <2>3 DEF NextKick
    <3>2. \A x \in Sui : sui'[x].agent = a => KeepStruct(x)
      BY <1>6, <2>1
    <3> QED
      BY <1>1, <2>1, <3>1, <3>2, NewKick
  <2> QED
    BY <2>2, <2>3
<1>8. \A x \in Sui : sui'[x].agent = Nil \/ (item[i].sui # x /\ KeepStruct(x))
  BY <1>6
<1>9. ~Loading(w)
  BY <1>1 DEF Loading
<1> QED
  BY <1>1, <1>2, <1>6, <1>7, <1>8, <1>9, KickedTInv

(* The sweep.                                                              *)
LEMMA CleanExpiredInfoTInv ==
    ASSUME IInv, TInv, Indexed, CleanExpiredInfo
    PROVE  TInv'
<1> DEFINE Live == {s \in Session : hashSession[s] # Nil}
           Bad  == {s \in Live : Unexpected(hashSession[s])}
<1>1. PICK D \in SUBSET (Live \ Bad) :
        LET Is   == {hashSession[s] : s \in D}
            Rel  == {i \in Is : Expired(i)}
            Gone == {i \in Is : (i \in Rel \/ ~HasSui(i)) /\ item[i].sessionTS = "old"} IN
        /\ ReleaseSui(Rel, {SuiOf(i).userID : i \in Rel})
        /\ item' = [i \in Item |-> CASE i \in Gone -> NoItem
                                     [] i \in Rel \ Gone -> WithoutSui(i)
                                     [] OTHER -> item[i]]
        /\ UNCHANGED <<agent, co, disconnects>>
  BY Zenon DEF CleanExpiredInfo
<1> DEFINE Is   == {hashSession[s] : s \in D}
           Rel  == {i \in Is : Expired(i)}
           Gone == {i \in Is : (i \in Rel \/ ~HasSui(i)) /\ item[i].sessionTS = "old"}
           Us   == {SuiOf(i).userID : i \in Rel}
<1>2. /\ ReleaseSui(Rel, Us)
      /\ item' = [i \in Item |-> CASE i \in Gone -> NoItem
                                   [] i \in Rel \ Gone -> WithoutSui(i)
                                   [] OTHER -> item[i]]
      /\ UNCHANGED <<agent, co, disconnects>>
  BY <1>1, Zenon
<1>3. Rel \in SUBSET Item /\ \A i \in Gone \ Rel : ~HasSui(i)
  BY DEF IInv, TypeOK, OrNil
<1> HIDE DEF Is, Rel, Gone, Us, Live, Bad
<1>4. \A i \in Item : WithoutSui(i).sui = Nil /\ WithoutSui(i).platformID = item[i].platformID
  BY ItemType DEF WithoutSui, ItemRecord, IInv
<1>5. NoItem.sui = Nil /\ NoItem.platformID = Nil
  BY DEF NoItem
<1>6. \A i \in Item : \/ i \in Gone /\ item'[i] = NoItem
                      \/ i \in Rel \ Gone /\ item'[i] = WithoutSui(i)
                      \/ i \notin Rel \cup Gone /\ item'[i] = item[i]
  BY <1>2
<1>7. \A i \in Item \ Rel : item'[i].sui = item[i].sui
  BY <1>3, <1>5, <1>6 DEF HasSui
<1>8. \A i \in Item : item'[i].platformID \in {item[i].platformID, Nil}
  BY <1>4, <1>5, <1>6
<1>9. \A x \in Sui : sui'[x].agent = Nil \/ KeepStruct(x)
  BY <1>2, <1>3, <1>7, ReleaseKeeps
<1>10. Calm
  BY <1>2, <1>8, <1>9 DEF Calm, KeepAgent, KeepOpen, KeepPlatform
<1> QED
  BY <1>2, <1>10, CalmSame

-----------------------------------------------------------------------------
(* In the empty session manager nobody is recorded.                        *)
LEMMA InitTInv == Init => TInv
  BY NilAssumption DEF Init, TInv, TrackedAt, ReportedOK, LoginAt, KickAt, NoSui, Idle, Cos

(* registerUser makes the only entries, for an item that had no struct.    *)
LEMMA IndexedStep ==
    ASSUME IInv, UInv, IInv', [Next]_vars
    PROVE  Indexed
<1> SUFFICES ASSUME NEW i \in Item, HasSui(i), hashUserID'[SuiOf(i).userID] = i
             PROVE  hashUserID[SuiOf(i).userID] = i
  BY DEF Indexed, IInv
<1>1. PICK u \in UserID : u = SuiOf(i).userID
  BY DbUserIDAssumption DEF UInv, StructOK, Held
<1>2. TypeOK /\ i # Nil
  BY NilAssumption DEF IInv
<1>3. ASSUME NEW Is, NEW Us, ReleaseSui(Is, Us)  PROVE hashUserID[u] = i
  BY <1>1, <1>2, <1>3 DEF ReleaseSui
<1>4. ASSUME NEW a \in Agent, RegisterUser(a)  PROVE hashUserID[u] = i
  <2> DEFINE p == co[a].platformID
             k == hashPlatformID[p]
  <2>1. \/ UNCHANGED hashUserID
        \/ ~HasSui(k) /\ hashUserID' = [hashUserID EXCEPT ![DbUserID[p]] = k]
    BY <1>4, Zenon DEF RegisterUser
  <2> QED
    BY <1>1, <1>2, <2>1 DEF TypeOK
<1>5. ASSUME NEW w \in Worker, \/ \E g \in Server : OnEventGameServerDisconnect(w, g)
                               \/ OnEventGameServerDisconnectResume(w)
      PROVE  hashUserID[u] = i
  <2>1. \E Is, Us : ReleaseSui(Is, Us)
    BY <1>5, Zenon DEF OnEventGameServerDisconnect, OnEventGameServerDisconnectResume, Traverse
  <2> QED
    BY <1>3, <2>1
<1>6. ASSUME CleanExpiredInfo  PROVE hashUserID[u] = i
  <2>1. \E Is, Us : ReleaseSui(Is, Us)
    BY <1>6, Zenon DEF CleanExpiredInfo
  <2> QED
    BY <1>3, <2>1
<1>7. CASE UNCHANGED hashUserID
  BY <1>1, <1>7
<1>8. \/ UNCHANGED hashUserID \/ CleanExpiredInfo
      \/ \E a \in Agent : RegisterUser(a)
      \/ \E w \in Worker : \/ \E g \in Server : OnEventGameServerDisconnect(w, g)
                           \/ OnEventGameServerDisconnectResume(w)
  BY DEF Next, vars, hashes, RegisterSession, CreateItem, RegisterSessionResume, Connect,
         AgentExit, LoginRequest, LoginLookup, LoginFind, SwitchUserItem, SwitchUserItemKicked,
         SwitchUserItemLoaded, SwitchUserItemLoadError, LoginReply, GsLogin, GsLogout, GsKicked,
         CmdGsLogout, GsLogoutLoaded, GsLogoutLoadError, GsOffline, OnEventClientDisconnect,
         ServerDown, TimePasses
<1> QED
  BY <1>1, <1>4, <1>5, <1>6, <1>7, <1>8

(* Every step keeps the agents tracked.                                    *)
LEMMA NextTInv ==
    ASSUME IInv, UInv, TInv, IInv', [Next]_vars
    PROVE  TInv'
<1>1. Indexed
  BY IndexedStep
<1>2. ASSUME NEW w \in Worker, NEW g \in Server, NEW u \in UserID,
             GsKicked(w, g, u) \/ \E off \in BOOLEAN : GsLogout(w, g, u, off)
      PROVE  TInv'
  <2>1. ItemSame(item') /\ UserSame(sui')
    BY <1>2, GsLogoutQuiet DEF Quiet
  <2>2. PICK off \in BOOLEAN : CmdGsLogout(w, g, u, off)
    BY <1>2 DEF GsKicked, GsLogout
  <2> QED
    BY <1>1, <2>1, <2>2, GsLogoutTInv
<1> QED
  BY <1>1, <1>2, QuietTInv, GsLogoutLoadedTInv, LoginBeginTInv, AgentExitTInv, LoginReplyTInv,
     ConnectTInv, OnEventClientDisconnectTInv, RegisterSessionTInv, RegisterSessionResumeTInv,
     SwitchUserItemTInv, SwitchUserItemKickedTInv, SwitchUserItemLoadedTInv, LoadErrorTInv,
     RegisterUserTInv, OnEventGameServerDisconnectTInv, OnEventGameServerDisconnectResumeTInv,
     CleanExpiredInfoTInv DEF Next

(* An agent recorded for a user is alive, or the report that it is gone is *)
(* on its way, or it is one of the two that nothing will take out: its     *)
(* cmd_loadUserData failed, or the user is not in _hash.userID.  Agents    *)
(* are thrown out, take over each other's users, fail and exit in any      *)
(* order, and a clearCache sent to one of them before it was recorded anew *)
(* is overtaken by its setCache.                                           *)
THEOREM AgentTrackedCorrect == Spec => []AgentTracked
<1>1. Init => UInv /\ TInv
  BY InitUInv, InitTInv
<1>2. IInv /\ UInv /\ TInv /\ IInv' /\ [Next]_vars => (UInv /\ TInv)'
  BY NextUInv, NextTInv
<1>3. IInv /\ UInv /\ TInv => AgentTracked
  <2> SUFFICES ASSUME IInv, UInv, TInv, NEW x \in Sui, sui[x].agent # Nil
               PROVE  \E i \in Item :
                        /\ item[i].sui = x
                        /\ \/ agent[sui[x].agent].open
                           \/ <<sui[x].userID, sui[x].agent>> \in disconnects
                           \/ agent[sui[x].agent].failed
                           \/ hashUserID[sui[x].userID] # i
    BY DEF AgentTracked
  <2>1. PICK a \in Agent : a = sui[x].agent
    BY DEF IInv, TypeOK, SuiRecord, OrNil
  <2>2. PICK i \in Item : item[i].sui = x
    BY <2>1 DEF TInv, TrackedAt, Housed
  <2>3. Told(x, a) \/ Cached(x, a) \/ Excused(x, a)
    BY <2>1 DEF TInv, TrackedAt
  <2> QED
    BY <2>1, <2>2, <2>3 DEF Told, Cached, Excused, Unfound
<1> QED
  BY <1>1, <1>2, <1>3, SpecIInv, PTL DEF Spec
=============================================================================
