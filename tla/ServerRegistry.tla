--------------------------- MODULE ServerRegistry ---------------------------
(***************************************************************************)
(* How game servers stay known to the login server, and how the login      *)
(* server's messages reach them: LS_model_serverManager.lua (registration, *)
(* heartbeats, the tree of kinds and nodes), LS_model_GSProxy.lua (a       *)
(* buffer of messages per server, fetched by long polling), and on the     *)
(* other side GS_model_serverStatus.lua and GS_model_LSPuller.lua.         *)
(*                                                                         *)
(* None of the handlers here yields, so each is one action.  A cluster.call *)
(* to serverManager is one action too: the only thing the caller does with *)
(* the answer is in its own process.  What takes time is kept apart:       *)
(* events pass through eventDispatcher, so GSProxy learns of a change      *)
(* later than a pull may arrive, and a pull stays unanswered until there   *)
(* is a message.  The event that hands a new sign to LSPuller is delivered *)
(* at once: a pull sent in between is a pull with the old sign that is     *)
(* still on its way.                                                       *)
(*                                                                         *)
(* The match options of a server are left out (the server type is fixed to *)
(* one without matches), and so is fullCount, which never changes while a  *)
(* server is registered.  The configurations of servers, nodes and kinds   *)
(* are database rows; the source has one row of each written in for the    *)
(* query it comments out, and the model takes what the query returns: a    *)
(* node is the one that was asked for.  A restarted login server has its   *)
(* services at the addresses they had.                                     *)
(***************************************************************************)
EXTENDS FiniteSetsExt, Integers, Sequences

CONSTANTS
    Server,    \* game servers
    Node,      \* rooms
    Kind,      \* games
    NodeOf,    \* the node in a server's configuration
    KindOf,    \* the kind a node belongs to
    Sign,      \* signatures
    MaxOnline, \* bound: players reported by one server
    MaxMsg,    \* bound: messages sent in a run
    MaxBuffer, \* the length msgBuffer is cut to (100 in the code)
    Puller,    \* bound: the servers whose pulls are looked at
    MaxEvents, \* bound: events of one server on their way at a time
    Nil

ASSUME NodeOfAssumption == NodeOf \in [Server -> Node]
ASSUME KindOfAssumption == KindOf \in [Node -> Kind]
ASSUME BoundAssumption == /\ Puller \subseteq Server
                          /\ MaxOnline \in Nat /\ MaxMsg \in Nat /\ MaxBuffer \in Nat \ {0}
                          /\ MaxEvents \in Nat
ASSUME NilAssumption == /\ Nil \notin Sign /\ Nil \notin {"live", "dead"}
                        /\ \A S \in SUBSET Server : S # Nil
                        /\ \A S \in SUBSET Node : S # Nil
                        /\ Nil \notin [sign : Sign, onlineCount : Nat,
                                       tick : {"fresh", "old"}, listed : BOOLEAN]
                        /\ Nil \notin [sign : Sign, responser : {Nil, "live", "dead"},
                                       msgBuffer : Seq(Nat)]

VARIABLES
    serverHash, \* _serverHash, with _serverListStatus as listed
    nodeHash,   \* _nodeHash: the servers in serverIDList
    kindHash,   \* _kindHash: the nodes in nodeIDList
    nodeOnline, \* onlineCount of a node
    kindOnline, \* onlineCount of a kind
    events,     \* per server, CONNECT (a sign) and DISCONNECT (Nil) events for GSProxy
    proxy,      \* _serverResponseHash
    gs,         \* GS_model_serverStatus
    puller,     \* GS_model_LSPuller
    nextMsg,    \* the next message
    got         \* per server, the last message it processed

tree == <<serverHash, nodeHash, kindHash, nodeOnline, kindOnline>>
vars == <<tree, events, proxy, gs, puller, nextMsg, got>>

OrNil(S) == S \cup {Nil}

(* Lists sorted by sortID without repetition are kept as sets.  Whether    *)
(* the last report is older than _timeoutThresholdTick is kept, not when   *)
(* it came.  A responser is dead when the process that asked is gone.      *)
ServerRecord == [sign : Sign, onlineCount : Nat, tick : {"fresh", "old"}, listed : BOOLEAN]
ProxyRecord  == [sign : Sign, responser : OrNil({"live", "dead"}), msgBuffer : Seq(Nat)]
GSRecord     == [up : BOOLEAN, sign : OrNil(Sign), at : {"idle", "register"}]
PullerRecord == [serverSignature : OrNil(Sign), at : {"off", "idle", "call", "wait", "busy", "sleep"},
                 sign : OrNil(Sign), list : Seq(Nat)]

Down  == [up |-> FALSE, sign |-> Nil, at |-> "idle"]
NoPulling == [serverSignature |-> Nil, at |-> "off", sign |-> Nil, list |-> <<>>]

(* The counts of nodes and kinds are not typed here: CountsOK says what    *)
(* they are.                                                               *)
TypeOK ==
    /\ serverHash \in [Server -> OrNil(ServerRecord)]
    /\ nodeHash   \in [Node -> OrNil(SUBSET Server)]
    /\ kindHash   \in [Kind -> OrNil(SUBSET Node)]
    /\ events \in [Server -> Seq(OrNil(Sign))]
    /\ proxy  \in [Server -> OrNil(ProxyRecord)]
    /\ gs     \in [Server -> GSRecord]
    /\ puller \in [Server -> PullerRecord]
    /\ nextMsg \in Nat
    /\ got \in [Server -> Nat]

Init ==
    /\ serverHash = [g \in Server |-> Nil]
    /\ nodeHash   = [n \in Node |-> Nil]
    /\ kindHash   = [k \in Kind |-> Nil]
    /\ nodeOnline = [n \in Node |-> 0]
    /\ kindOnline = [k \in Kind |-> 0]
    /\ events = [g \in Server |-> <<>>]
    /\ proxy  = [g \in Server |-> Nil]
    /\ gs     = [g \in Server |-> Down]
    /\ puller = [g \in Server |-> NoPulling]
    /\ nextMsg = 1
    /\ got = [g \in Server |-> 0]

-----------------------------------------------------------------------------
(* The tree of kinds, nodes and servers.                                   *)
KindOfServer(g) == KindOf[NodeOf[g]]
Members(list) == IF list = Nil THEN {} ELSE list

(* A count moves by what its servers' counts move.                         *)
OnlineMovedMutant(g, d) == \* the kind is forgotten
    /\ nodeOnline' = [nodeOnline EXCEPT ![NodeOf[g]] = @ + d]
    /\ UNCHANGED kindOnline
OnlineMoved(g, d) ==
    /\ nodeOnline' = [nodeOnline EXCEPT ![NodeOf[g]] = @ + d]
    /\ kindOnline' = [kindOnline EXCEPT ![KindOfServer(g)] = @ + d]

(* A new node, or kind, enters with the server.                            *)
InsertServerMutant(g, sg, n) == \* the time of the registration is not noted
    /\ serverHash' = [serverHash EXCEPT ![g] = [sign |-> sg, onlineCount |-> n,
                                                tick |-> Nil, listed |-> TRUE]]
    /\ nodeHash' = [nodeHash EXCEPT ![NodeOf[g]] = Members(@) \cup {g}]
    /\ kindHash' = [kindHash EXCEPT ![KindOfServer(g)] = Members(@) \cup {NodeOf[g]}]
    /\ OnlineMoved(g, n)
InsertServer(g, sg, n) ==
    /\ serverHash' = [serverHash EXCEPT ![g] = [sign |-> sg, onlineCount |-> n,
                                                tick |-> "fresh", listed |-> TRUE]]
    /\ nodeHash' = [nodeHash EXCEPT ![NodeOf[g]] = Members(@) \cup {g}]
    /\ kindHash' = [kindHash EXCEPT ![KindOfServer(g)] = Members(@) \cup {NodeOf[g]}]
    /\ OnlineMoved(g, n)

(* deleteServer for each server in D.  A node goes with its last server    *)
(* and a kind with its last node; what goes takes its count along.         *)
Emptied(hash, x, D) == hash[x] # Nil /\ hash[x] \subseteq D
WithoutMutant(hash, x, D) == IF hash[x] = Nil THEN Nil ELSE hash[x] \ D \* an empty one stays
Without(hash, x, D) == IF hash[x] = Nil \/ hash[x] \subseteq D THEN Nil ELSE hash[x] \ D
OnlineOf(D) == MapThenSumSet(LAMBDA g : serverHash[g].onlineCount, D)
DeleteServers(D) ==
    LET Ns == {n \in Node : Emptied(nodeHash, n, D)} IN
    /\ serverHash' = [g \in Server |-> IF g \in D THEN Nil ELSE serverHash[g]]
    /\ nodeHash' = [n \in Node |-> Without(nodeHash, n, D)]
    /\ kindHash' = [k \in Kind |-> Without(kindHash, k, Ns)]
    /\ nodeOnline' = [n \in Node |-> IF n \in Ns THEN 0
                        ELSE nodeOnline[n] - OnlineOf({g \in D : NodeOf[g] = n})]
    /\ kindOnline' = [k \in Kind |-> IF Emptied(kindHash, k, Ns) THEN 0
                        ELSE kindOnline[k] - OnlineOf({g \in D : KindOfServer(g) = k})]

-----------------------------------------------------------------------------
(* The game server's process.                                              *)
GsStart(g) ==
    /\ ~gs[g].up
    /\ gs' = [gs EXCEPT ![g].up = TRUE]
    /\ UNCHANGED <<tree, events, proxy, puller, nextMsg, got>>

(* It may go at any time; registerServer aborts it itself when the call    *)
(* fails.  Whoever answers it answers nobody.                              *)
GsCrash(g) ==
    /\ gs[g].up
    /\ gs' = [gs EXCEPT ![g] = Down]
    /\ puller' = [puller EXCEPT ![g] = NoPulling]
    /\ proxy' = IF proxy[g] # Nil /\ proxy[g].responser = "live"
                THEN [proxy EXCEPT ![g] = [@ EXCEPT !.responser = "dead"]] ELSE proxy
    /\ UNCHANGED <<tree, events, nextMsg, got>>

(* getSign draws 16 random bytes.  A sign is only ever compared with the   *)
(* signs of the same server, so those are the ones it must differ from.    *)
Fresh(g, sg) ==
    /\ proxy[g] # Nil => proxy[g].sign # sg
    /\ gs[g].sign # sg /\ puller[g].serverSignature # sg /\ puller[g].sign # sg
    /\ \A i \in DOMAIN events[g] : events[g][i] # sg

(* cmd_onEventServerRegisterSuccess: the loop of pulls is started once.    *)
RegisteredMutant(g, sg) == \* GSProxy is not told
    /\ gs' = [gs EXCEPT ![g] = [@ EXCEPT !.sign = sg, !.at = "idle"]]
    /\ puller' = [puller EXCEPT ![g] =
                    [@ EXCEPT !.serverSignature = sg,
                              !.at = IF puller[g].at = "off" THEN "idle" ELSE puller[g].at]]
    /\ UNCHANGED events
Registered(g, sg) ==
    /\ gs' = [gs EXCEPT ![g] = [@ EXCEPT !.sign = sg, !.at = "idle"]]
    /\ puller' = [puller EXCEPT ![g] =
                    [@ EXCEPT !.serverSignature = sg,
                              !.at = IF puller[g].at = "off" THEN "idle" ELSE puller[g].at]]
    /\ events' = [events EXCEPT ![g] = Append(@, sg)]

(* doRegister and cmd_gs_registerServer.  A server that is still known     *)
(* gets the sign it had.                                                   *)
RegisterServer(g, n) ==
    /\ gs[g].up /\ Len(events[g]) < MaxEvents
    /\ gs[g].sign = Nil \/ gs[g].at = "register"
    /\ \/ /\ serverHash[g] # Nil
          /\ Registered(g, serverHash[g].sign)
          /\ UNCHANGED tree
       \/ /\ serverHash[g] = Nil
          /\ \E sg \in Sign : /\ Fresh(g, sg)
                              /\ Registered(g, sg)
                              /\ InsertServer(g, sg, n)
    /\ UNCHANGED <<proxy, nextMsg, got>>

(* reportToLoginServer and cmd_gs_reportOnline: a heartbeat with a count.  *)
(* A report that gets lost changes nothing.                                *)
ReportOnlineMutant(g, n) == \* the answer is not looked at
    /\ gs[g].up /\ gs[g].sign # Nil /\ gs[g].at = "idle"
    /\ serverHash[g] # Nil /\ serverHash[g].sign = gs[g].sign
    /\ serverHash' = [serverHash EXCEPT ![g] =
                        [@ EXCEPT !.onlineCount = n, !.tick = "fresh", !.listed = n # 0]]
    /\ OnlineMoved(g, n - serverHash[g].onlineCount)
    /\ UNCHANGED <<nodeHash, kindHash, gs, events, proxy, puller, nextMsg, got>>
ReportOnline(g, n) ==
    /\ gs[g].up /\ gs[g].sign # Nil /\ gs[g].at = "idle"
    /\ IF serverHash[g] # Nil /\ serverHash[g].sign = gs[g].sign
       THEN /\ serverHash' = [serverHash EXCEPT ![g] =
                                [@ EXCEPT !.onlineCount = n, !.tick = "fresh", !.listed = n # 0]]
            /\ OnlineMoved(g, n - serverHash[g].onlineCount)
            /\ UNCHANGED <<nodeHash, kindHash, gs>>
       ELSE /\ gs' = [gs EXCEPT ![g] = [@ EXCEPT !.at = "register"]]
            /\ UNCHANGED tree
    /\ UNCHANGED <<events, proxy, puller, nextMsg, got>>

(* No report for longer than _timeoutThresholdTick.                        *)
TimePasses(g) ==
    /\ serverHash[g] # Nil /\ serverHash[g].tick = "fresh"
    /\ serverHash' = [serverHash EXCEPT ![g] = [@ EXCEPT !.tick = "old"]]
    /\ UNCHANGED <<nodeHash, kindHash, nodeOnline, kindOnline,
                   events, proxy, gs, puller, nextMsg, got>>

(* The timer.                                                              *)
CheckServerTickMutant == \* nobody is told
    LET D == {g \in Server : serverHash[g] # Nil /\ serverHash[g].tick = "old"} IN
    /\ D # {}
    /\ DeleteServers(D)
    /\ UNCHANGED <<events, proxy, gs, puller, nextMsg, got>>
CheckServerTick ==
    LET D == {g \in Server : serverHash[g] # Nil /\ serverHash[g].tick = "old"} IN
    /\ D # {} /\ \A g \in D : Len(events[g]) < MaxEvents
    /\ DeleteServers(D)
    /\ events' = [g \in Server |-> IF g \in D THEN Append(events[g], Nil) ELSE events[g]]
    /\ UNCHANGED <<proxy, gs, puller, nextMsg, got>>

(* The login server dies and comes back empty.  Calls that were waiting    *)
(* for it fail, and doPulling sleeps.                                      *)
LsRestart ==
    /\ serverHash' = [g \in Server |-> Nil]
    /\ nodeHash'   = [n \in Node |-> Nil]
    /\ kindHash'   = [k \in Kind |-> Nil]
    /\ nodeOnline' = [n \in Node |-> 0]
    /\ kindOnline' = [k \in Kind |-> 0]
    /\ events' = [g \in Server |-> <<>>]
    /\ proxy'  = [g \in Server |-> Nil]
    /\ puller' = [g \in Server |-> IF puller[g].at \in {"call", "wait"}
                                   THEN [puller[g] EXCEPT !.at = "sleep", !.sign = Nil]
                                   ELSE puller[g]]
    /\ UNCHANGED <<gs, nextMsg, got>>

-----------------------------------------------------------------------------
(* GSProxy learns that a server came or went.  The entry is replaced or    *)
(* dropped with the responser in it.  A new one starts with a greeting,    *)
(* message 0.                                                              *)
OnEvent(g) ==
    /\ events[g] # <<>>
    /\ events' = [events EXCEPT ![g] = Tail(@)]
    /\ proxy' = [proxy EXCEPT ![g] =
                   IF Head(events[g]) = Nil THEN Nil
                   ELSE [sign |-> Head(events[g]), responser |-> Nil, msgBuffer |-> <<0>>]]
    /\ UNCHANGED <<tree, gs, puller, nextMsg, got>>

(* checkMsg on the entry r: a waiting pull is answered with the whole      *)
(* buffer.                                                                 *)
Answers(r) == r.responser # Nil /\ r.msgBuffer # <<>>
CheckMsgMutant(r) == IF Answers(r) THEN [r EXCEPT !.responser = Nil] ELSE r \* sent again
CheckMsgKeeps(r) == IF Answers(r) THEN [r EXCEPT !.msgBuffer = <<>>] ELSE r \* answered again
CheckMsg(r) == IF Answers(r) THEN [r EXCEPT !.responser = Nil, !.msgBuffer = <<>>] ELSE r
Fetched(p, r) == IF Answers(r) /\ r.responser = "live"
                 THEN [p EXCEPT !.at = "busy", !.sign = Nil, !.list = r.msgBuffer] ELSE p

(* doPulling sends gs_pull with the sign LSPuller has now.                 *)
Pull(g) ==
    /\ g \in Puller /\ puller[g].at = "idle"
    /\ puller' = [puller EXCEPT ![g] = [@ EXCEPT !.at = "call", !.sign = puller[g].serverSignature]]
    /\ UNCHANGED <<tree, events, proxy, gs, nextMsg, got>>

(* cmd_gs_pull: an unknown server or a wrong sign is an error, on which    *)
(* the loop sleeps; otherwise this pull takes the place of the one before. *)
GsPull(g) ==
    LET r == [proxy[g] EXCEPT !.responser = "live"]
        p == [puller[g] EXCEPT !.at = "wait"] IN
    /\ puller[g].at = "call"
    /\ IF proxy[g] = Nil \/ proxy[g].sign # puller[g].sign
       THEN /\ puller' = [puller EXCEPT ![g] = [@ EXCEPT !.at = "sleep", !.sign = Nil]]
            /\ UNCHANGED proxy
       ELSE /\ proxy' = [proxy EXCEPT ![g] = CheckMsg(r)]
            /\ puller' = [puller EXCEPT ![g] = Fetched(p, r)]
    /\ UNCHANGED <<tree, events, gs, nextMsg, got>>

(* The messages of one answer are processed in turn; the first one that    *)
(* raises an error takes those after it along.                             *)
Process(g, k) ==
    LET list == puller[g].list IN
    /\ puller[g].at = "busy"
    /\ k \in 0 .. Len(list)
    /\ got' = IF k = 0 \/ list[k] = 0 THEN got ELSE [got EXCEPT ![g] = list[k]]
    /\ puller' = [puller EXCEPT ![g] = [@ EXCEPT !.at = IF k = Len(list) THEN "idle" ELSE "sleep",
                                                 !.list = <<>>]]
    /\ UNCHANGED <<tree, events, proxy, gs, nextMsg>>

Wake(g) ==
    /\ puller[g].at = "sleep"
    /\ puller' = [puller EXCEPT ![g] = [@ EXCEPT !.at = "idle"]]
    /\ UNCHANGED <<tree, events, proxy, gs, nextMsg, got>>

(* cmd_send to the servers in S: sendMsgToServer puts the message at the   *)
(* end of the buffer and drops the oldest one beyond MaxBuffer.            *)
WithMsg(r, m) ==
    LET b == Append(r.msgBuffer, m) IN
    [r EXCEPT !.msgBuffer = IF Len(b) > MaxBuffer THEN Tail(b) ELSE b]
ServersOfKind(k) == UNION {Members(nodeHash[n]) : n \in Members(kindHash[k])}

(* One server (kickGS, cmd_gs_info), or the servers of a node or of a kind *)
(* (cmd_gs_relay).                                                         *)
Targets == {{g} : g \in Server} \cup {Members(nodeHash[n]) : n \in Node}
              \cup {ServersOfKind(k) : k \in Kind}

Send(S) ==
    /\ nextMsg <= MaxMsg
    /\ S # {}
    /\ nextMsg' = nextMsg + 1
    /\ proxy' = [g \in Server |-> IF g \in S /\ proxy[g] # Nil
                                  THEN CheckMsg(WithMsg(proxy[g], nextMsg)) ELSE proxy[g]]
    /\ puller' = [g \in Server |-> IF g \in S /\ proxy[g] # Nil
                                   THEN Fetched(puller[g], WithMsg(proxy[g], nextMsg))
                                   ELSE puller[g]]
    /\ UNCHANGED <<tree, events, gs, got>>

-----------------------------------------------------------------------------
Next ==
    \/ \E g \in Server : GsStart(g)
    \/ \E g \in Server : GsCrash(g)
    \/ \E g \in Server, n \in 0 .. MaxOnline : RegisterServer(g, n)
    \/ \E g \in Server, n \in 0 .. MaxOnline : ReportOnline(g, n)
    \/ \E g \in Server : TimePasses(g)
    \/ CheckServerTick
    \/ LsRestart
    \/ \E g \in Server : OnEvent(g)
    \/ \E g \in Server : Pull(g)
    \/ \E g \in Server : GsPull(g)
    \/ \E g \in Server : \E k \in 0 .. Len(puller[g].list) : Process(g, k)
    \/ \E g \in Server : Wake(g)
    \/ \E S \in Targets : Send(S)

Spec == Init /\ [][Next]_vars

(* The login server's timer and the messages inside a process are fair,    *)
(* and so is the game server's ticker, which registers a server that finds *)
(* itself unknown.  Nothing is assumed of crashes and of messages being    *)
(* sent.                                                                   *)
GsStep(g) == \E n \in 0 .. MaxOnline : RegisterServer(g, n)
Fairness ==
    /\ WF_vars(CheckServerTick)
    /\ \A g \in Server : /\ WF_vars(~gs[g].up /\ TimePasses(g))
                         /\ WF_vars(GsStep(g))
                         /\ WF_vars(\E n \in 0 .. MaxOnline : ReportOnline(g, n))
                         /\ WF_vars(OnEvent(g))
                         /\ WF_vars(Pull(g)) /\ WF_vars(GsPull(g)) /\ WF_vars(Wake(g))
                         /\ WF_vars(\E k \in 0 .. Len(puller[g].list) : Process(g, k))
FairSpec == Spec /\ Fairness

-----------------------------------------------------------------------------
(* The tree holds exactly the registered servers: a node is there as long  *)
(* as one of its servers is, a kind as long as one of its nodes is, and    *)
(* the lists clients are sent name no server that is gone.                 *)
TreeOK ==
    /\ \A n \in Node : LET Gs == {g \in Server : NodeOf[g] = n /\ serverHash[g] # Nil} IN
          nodeHash[n] = IF Gs = {} THEN Nil ELSE Gs
    /\ \A k \in Kind : LET Ns == {n \in Node : KindOf[n] = k /\ nodeHash[n] # Nil} IN
          kindHash[k] = IF Ns = {} THEN Nil ELSE Ns

(* The number of players shown for a node and for a kind is the sum over   *)
(* its servers, through registrations, reports and removals in any order.  *)
CountsOK ==
    /\ \A n \in Node : nodeOnline[n] =
          OnlineOf({g \in Server : NodeOf[g] = n /\ serverHash[g] # Nil})
    /\ \A k \in Kind : kindOnline[k] =
          OnlineOf({g \in Server : KindOfServer(g) = k /\ serverHash[g] # Nil})

(* What GSProxy will know of a server once the events on their way have    *)
(* arrived is what serverManager knows: the server is there or not, and    *)
(* with which sign.                                                        *)
SignAt(r) == IF r = Nil THEN Nil ELSE r.sign
ProxyTracks ==
    \A g \in Server :
        SignAt(serverHash[g]) = IF events[g] = <<>> THEN SignAt(proxy[g])
                                ELSE events[g][Len(events[g])]

(* A pull GSProxy keeps for a running game server is one that server still *)
(* waits for, it was sent with the sign of the entry, and there is nothing *)
(* to answer it with: no pull is answered twice or held back.              *)
ResponserOK ==
    \A g \in Server : proxy[g] # Nil /\ proxy[g].responser = "live" =>
        /\ puller[g].at = "wait" /\ puller[g].sign = proxy[g].sign
        /\ proxy[g].msgBuffer = <<>>

(* A game server processes the login server's messages in the order they   *)
(* were sent, none twice, across restarts, new registrations and the cut   *)
(* of the buffer.                                                          *)
Ahead(g) == (IF puller[g].at = "busy" THEN puller[g].list ELSE <<>>)
            \o (IF proxy[g] = Nil THEN <<>> ELSE proxy[g].msgBuffer)
MsgOrder ==
    \A g \in Server : LET q == Ahead(g) IN
        /\ \A i \in 1 .. Len(q) : q[i] # 0 => got[g] < q[i] /\ q[i] < nextMsg
        /\ \A i, j \in 1 .. Len(q) : i < j /\ q[i] # 0 /\ q[j] # 0 => q[i] < q[j]

(* A server that is gone disappears from the lists, and its buffer with    *)
(* it, unless it comes back.                                               *)
DeadServerForgotten ==
    \A g \in Server : ~gs[g].up ~> gs[g].up \/ (serverHash[g] = Nil /\ proxy[g] = Nil)

(* A server that runs is registered again after the login server forgot    *)
(* it, whichever of the two was restarted.                                 *)
SurvivorRegistered ==
    \A g \in Server : (gs[g].up /\ serverHash[g] = Nil) ~> (~gs[g].up \/ serverHash[g] # Nil)

(* GSProxy says of a pull that the request is written down and answered    *)
(* later: a pull that waits is one GSProxy has.  OnEvent drops it.         *)
PullAnswered ==
    \A g \in Server : puller[g].at = "wait" => proxy[g] # Nil /\ proxy[g].responser = "live"

(* Both sides of a restart: a dead server leaves the lists and the proxy,  *)
(* and a running one that was forgotten registers again.                   *)
RegistryHeals == DeadServerForgotten /\ SurvivorRegistered
=============================================================================
