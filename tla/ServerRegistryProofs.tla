------------------------ MODULE ServerRegistryProofs ------------------------
(***************************************************************************)
(* What ServerRegistry guarantees for every set of game servers, nodes and *)
(* kinds, every length of the buffer and any number of messages.           *)
(***************************************************************************)
EXTENDS ServerRegistry, SequenceTheorems, TLAPS

(* An entry is never Nil.                                                  *)
LEMMA NilApart ==
    /\ Nil # "live" /\ Nil \notin Sign /\ Nil \notin ServerRecord /\ Nil \notin ProxyRecord
    /\ \A S \in SUBSET Server : S # Nil
    /\ \A S \in SUBSET Node : S # Nil
<1>1. OrNil({"live", "dead"}) = {Nil, "live", "dead"}
  BY DEF OrNil
<1> QED BY <1>1, NilAssumption DEF ServerRecord, ProxyRecord

(* What the handlers read has its type.                                    *)
LEMMA ReadTypes ==
    ASSUME TypeOK, NEW g \in Server
    PROVE  /\ NodeOf[g] \in Node /\ KindOfServer(g) \in Kind
           /\ serverHash[g] # Nil => /\ serverHash[g] \in ServerRecord
                                     /\ serverHash[g].sign \in Sign
           /\ proxy[g] # Nil => /\ proxy[g] \in ProxyRecord
                                /\ proxy[g].sign \in Sign
                                /\ proxy[g].msgBuffer \in Seq(Nat)
           /\ gs[g] \in GSRecord /\ puller[g] \in PullerRecord
           /\ puller[g].list \in Seq(Nat)
           /\ events[g] \in Seq(OrNil(Sign))
  BY NodeOfAssumption, KindOfAssumption
  DEF TypeOK, KindOfServer, OrNil, ServerRecord, ProxyRecord, PullerRecord

-----------------------------------------------------------------------------
(* The records the handlers write are records.                             *)
LEMMA CheckMsgType ==
    ASSUME NEW r \in ProxyRecord
    PROVE  /\ CheckMsg(r) \in ProxyRecord
           /\ CheckMsg(r).sign = r.sign
           /\ CheckMsg(r).responser \in {r.responser, Nil}
<1>1. <<>> \in Seq(Nat)
  OBVIOUS
<1>2. CASE Answers(r)
  BY <1>1, <1>2 DEF CheckMsg, ProxyRecord, OrNil
<1>3. CASE ~Answers(r)
  BY <1>3 DEF CheckMsg
<1> QED BY <1>2, <1>3

(* sendMsgToServer keeps the newest MaxBuffer messages of a proxy.         *)
LEMMA WithMsgType ==
    ASSUME NEW r \in ProxyRecord, NEW m \in Nat
    PROVE  /\ WithMsg(r, m) \in ProxyRecord
           /\ WithMsg(r, m).sign = r.sign
           /\ WithMsg(r, m).responser = r.responser
           /\ WithMsg(r, m).msgBuffer =
                 IF Len(r.msgBuffer) + 1 > MaxBuffer THEN Tail(Append(r.msgBuffer, m))
                 ELSE Append(r.msgBuffer, m)
           /\ WithMsg(r, m).msgBuffer \in Seq(Nat)
<1> DEFINE b == Append(r.msgBuffer, m)
           c == IF Len(b) > MaxBuffer THEN Tail(b) ELSE b
<1>1. r.msgBuffer \in Seq(Nat)
  BY DEF ProxyRecord
<1>2. b \in Seq(Nat) /\ Len(b) = Len(r.msgBuffer) + 1
  BY <1>1
<1>3. c \in Seq(Nat)
  BY <1>2
<1>4. WithMsg(r, m) = [r EXCEPT !.msgBuffer = c]
  BY DEF WithMsg
<1> HIDE DEF c
<1>5. WithMsg(r, m) \in ProxyRecord /\ WithMsg(r, m).sign = r.sign
      /\ WithMsg(r, m).responser = r.responser /\ WithMsg(r, m).msgBuffer = c
  BY <1>3, <1>4 DEF ProxyRecord
<1> QED BY <1>2, <1>3, <1>5 DEF c

(* What a game server fetches from its proxy.                              *)
LEMMA FetchedType ==
    ASSUME NEW p \in PullerRecord, NEW r \in ProxyRecord
    PROVE  Fetched(p, r) \in PullerRecord
  BY DEF Fetched, Answers, PullerRecord, ProxyRecord, OrNil

(* Registration and removal keep the types.                                *)
LEMMA InsertType ==
    ASSUME TypeOK, NEW g \in Server, NEW sg \in Sign, NEW n \in Nat, InsertServer(g, sg, n)
    PROVE  /\ serverHash' \in [Server -> OrNil(ServerRecord)]
           /\ nodeHash'   \in [Node -> OrNil(SUBSET Server)]
           /\ kindHash'   \in [Kind -> OrNil(SUBSET Node)]
<1>1. [sign |-> sg, onlineCount |-> n, tick |-> "fresh", listed |-> TRUE] \in OrNil(ServerRecord)
  BY DEF OrNil, ServerRecord
<1>2. NodeOf[g] \in Node /\ KindOfServer(g) \in Kind
  BY ReadTypes
<1>3. serverHash' \in [Server -> OrNil(ServerRecord)]
  BY <1>1 DEF InsertServer, TypeOK
<1>4. nodeHash' \in [Node -> OrNil(SUBSET Server)]
  BY <1>2 DEF InsertServer, TypeOK, Members, OrNil
<1>5. kindHash' \in [Kind -> OrNil(SUBSET Node)]
  BY <1>2 DEF InsertServer, TypeOK, Members, OrNil
<1> QED BY <1>3, <1>4, <1>5

(* The tree keeps its shape when servers are deleted.                      *)
LEMMA DeleteType ==
    ASSUME TypeOK, NEW D \in SUBSET Server, DeleteServers(D)
    PROVE  /\ serverHash' \in [Server -> OrNil(ServerRecord)]
           /\ nodeHash'   \in [Node -> OrNil(SUBSET Server)]
           /\ kindHash'   \in [Kind -> OrNil(SUBSET Node)]
  BY DEF DeleteServers, TypeOK, Without, OrNil

(* What a registration writes besides the tree.                            *)
LEMMA RegisteredType ==
    ASSUME TypeOK, NEW g \in Server, NEW sg \in Sign, Registered(g, sg)
    PROVE  /\ events' \in [Server -> Seq(OrNil(Sign))]
           /\ gs'     \in [Server -> GSRecord]
           /\ puller' \in [Server -> PullerRecord]
<1>1. gs[g] \in GSRecord /\ puller[g] \in PullerRecord /\ events[g] \in Seq(OrNil(Sign))
  BY ReadTypes
<1>2. [gs[g] EXCEPT !.sign = sg, !.at = "idle"] \in GSRecord
  BY <1>1 DEF GSRecord, OrNil
<1>3. [puller[g] EXCEPT !.serverSignature = sg,
                        !.at = IF puller[g].at = "off" THEN "idle" ELSE puller[g].at] \in PullerRecord
  BY <1>1 DEF PullerRecord, OrNil
<1>4. Append(events[g], sg) \in Seq(OrNil(Sign))
  BY <1>1 DEF OrNil
<1>5. gs' \in [Server -> GSRecord]
  BY <1>2 DEF Registered, TypeOK
<1>6. puller' \in [Server -> PullerRecord]
  BY <1>3 DEF Registered, TypeOK
<1>7. events' \in [Server -> Seq(OrNil(Sign))]
  BY <1>4 DEF Registered, TypeOK
<1> QED BY <1>5, <1>6, <1>7

-----------------------------------------------------------------------------
(* Every step keeps the types.                                             *)
LEMMA InitType == Init => TypeOK
  BY NilApart DEF Init, TypeOK, OrNil, Down, NoPulling, GSRecord, PullerRecord

(* Every step keeps the types.                                             *)
LEMMA TypeStep ==
    ASSUME TypeOK, [Next]_vars
    PROVE  TypeOK'
<1> USE DEF vars, tree
<1>1. ASSUME NEW g \in Server, GsStart(g)  PROVE TypeOK'
  <2>1. [gs[g] EXCEPT !.up = TRUE] \in GSRecord
    BY ReadTypes DEF GSRecord
  <2> QED BY <1>1, <2>1 DEF GsStart, TypeOK
<1>2. ASSUME NEW g \in Server, GsCrash(g)  PROVE TypeOK'
  <2>1. Down \in GSRecord /\ NoPulling \in PullerRecord
    BY DEF Down, NoPulling, GSRecord, PullerRecord, OrNil
  <2>2. proxy[g] # Nil => [proxy[g] EXCEPT !.responser = "dead"] \in ProxyRecord
    BY ReadTypes DEF ProxyRecord, OrNil
  <2>3. proxy' \in [Server -> OrNil(ProxyRecord)]
    BY <1>2, <2>2 DEF GsCrash, TypeOK, OrNil
  <2> QED BY <1>2, <2>1, <2>3 DEF GsCrash, TypeOK
<1>3. ASSUME NEW g \in Server, NEW n \in 0 .. MaxOnline, RegisterServer(g, n)  PROVE TypeOK'
  <2>1. CASE serverHash[g] # Nil
    <3>1. Registered(g, serverHash[g].sign) /\ UNCHANGED <<tree, proxy, nextMsg, got>>
      BY <1>3, <2>1 DEF RegisterServer
    <3>2. serverHash[g].sign \in Sign
      BY <2>1, ReadTypes
    <3> QED BY <3>1, <3>2, RegisteredType DEF TypeOK
  <2>2. CASE serverHash[g] = Nil
    <3>1. PICK sg \in Sign : Registered(g, sg) /\ InsertServer(g, sg, n)
      BY <1>3, <2>2 DEF RegisterServer
    <3>2. UNCHANGED <<proxy, nextMsg, got>> /\ n \in Nat
      BY <1>3, BoundAssumption DEF RegisterServer
    <3> QED BY <3>1, <3>2, RegisteredType, InsertType DEF TypeOK
  <2> QED BY <2>1, <2>2
<1>4. ASSUME NEW g \in Server, NEW n \in 0 .. MaxOnline, ReportOnline(g, n)  PROVE TypeOK'
  <2>1. CASE serverHash[g] # Nil /\ serverHash[g].sign = gs[g].sign
    <3>1. n \in Nat
      BY BoundAssumption
    <3>2. [serverHash[g] EXCEPT !.onlineCount = n, !.tick = "fresh", !.listed = n # 0]
            \in OrNil(ServerRecord)
      BY <2>1, <3>1, ReadTypes DEF ServerRecord, OrNil
    <3> QED BY <1>4, <2>1, <3>2 DEF ReportOnline, TypeOK
  <2>2. CASE ~(serverHash[g] # Nil /\ serverHash[g].sign = gs[g].sign)
    <3>1. [gs[g] EXCEPT !.at = "register"] \in GSRecord
      BY ReadTypes DEF GSRecord
    <3> QED BY <1>4, <2>2, <3>1 DEF ReportOnline, TypeOK
  <2> QED BY <2>1, <2>2
<1>5. ASSUME NEW g \in Server, TimePasses(g)  PROVE TypeOK'
  <2>1. [serverHash[g] EXCEPT !.tick = "old"] \in OrNil(ServerRecord)
    BY <1>5, ReadTypes DEF TimePasses, ServerRecord, OrNil
  <2> QED BY <1>5, <2>1 DEF TimePasses, TypeOK
<1>6. ASSUME CheckServerTick  PROVE TypeOK'
  <2> DEFINE D == {g \in Server : serverHash[g] # Nil /\ serverHash[g].tick = "old"}
  <2>1. DeleteServers(D) /\ UNCHANGED <<proxy, gs, puller, nextMsg, got>>
        /\ events' = [g \in Server |-> IF g \in D THEN Append(events[g], Nil) ELSE events[g]]
    BY <1>6 DEF CheckServerTick
  <2>2. D \in SUBSET Server
    OBVIOUS
  <2> HIDE DEF D
  <2>3. \A g \in Server : Append(events[g], Nil) \in Seq(OrNil(Sign))
    BY ReadTypes DEF OrNil
  <2>4. events' \in [Server -> Seq(OrNil(Sign))]
    BY <2>1, <2>3 DEF TypeOK
  <2> QED BY <2>1, <2>2, <2>4, DeleteType DEF TypeOK
<1>7. ASSUME LsRestart  PROVE TypeOK'
  <2>1. \A g \in Server : [puller[g] EXCEPT !.at = "sleep", !.sign = Nil] \in PullerRecord
    BY ReadTypes DEF PullerRecord, OrNil
  <2>2. puller' \in [Server -> PullerRecord]
    BY <1>7, <2>1 DEF LsRestart, TypeOK
  <2>3. <<>> \in Seq(OrNil(Sign))
    OBVIOUS
  <2> QED BY <1>7, <2>2, <2>3 DEF LsRestart, TypeOK, OrNil
<1>8. ASSUME NEW g \in Server, OnEvent(g)  PROVE TypeOK'
  <2>1. events[g] \in Seq(OrNil(Sign)) /\ events[g] # <<>>
    BY <1>8, ReadTypes DEF OnEvent
  <2>2. Head(events[g]) \in OrNil(Sign) /\ Tail(events[g]) \in Seq(OrNil(Sign))
    BY <2>1
  <2>3. \A sg \in Sign : [sign |-> sg, responser |-> Nil, msgBuffer |-> << 0 >>] \in ProxyRecord
    BY DEF ProxyRecord, OrNil
  <2>4. proxy' \in [Server -> OrNil(ProxyRecord)]
    BY <1>8, <2>2, <2>3 DEF OnEvent, TypeOK, OrNil
  <2> QED BY <1>8, <2>2, <2>4 DEF OnEvent, TypeOK
<1>9. ASSUME NEW g \in Server, Pull(g)  PROVE TypeOK'
  <2>1. [puller[g] EXCEPT !.at = "call", !.sign = puller[g].serverSignature] \in PullerRecord
    BY ReadTypes DEF PullerRecord
  <2> QED BY <1>9, <2>1 DEF Pull, TypeOK
<1>10. ASSUME NEW g \in Server, GsPull(g)  PROVE TypeOK'
  <2>1. CASE proxy[g] = Nil \/ proxy[g].sign # puller[g].sign
    <3>1. [puller[g] EXCEPT !.at = "sleep", !.sign = Nil] \in PullerRecord
      BY ReadTypes DEF PullerRecord, OrNil
    <3> QED BY <1>10, <2>1, <3>1 DEF GsPull, TypeOK
  <2>2. CASE ~(proxy[g] = Nil \/ proxy[g].sign # puller[g].sign)
    <3> DEFINE r == [proxy[g] EXCEPT !.responser = "live"]
               p == [puller[g] EXCEPT !.at = "wait"]
    <3>1. r \in ProxyRecord
      BY <2>2, ReadTypes DEF ProxyRecord, OrNil
    <3>2. p \in PullerRecord
      BY ReadTypes DEF PullerRecord
    <3>3. /\ proxy' = [proxy EXCEPT ![g] = CheckMsg(r)]
          /\ puller' = [puller EXCEPT ![g] = Fetched(p, r)]
          /\ UNCHANGED <<tree, events, gs, nextMsg, got>>
      BY <1>10, <2>2 DEF GsPull
    <3> HIDE DEF r, p
    <3>4. CheckMsg(r) \in OrNil(ProxyRecord) /\ Fetched(p, r) \in PullerRecord
      BY <3>1, <3>2, CheckMsgType, FetchedType DEF OrNil
    <3> QED BY <3>3, <3>4 DEF TypeOK
  <2> QED BY <2>1, <2>2
<1>11. ASSUME NEW g \in Server, NEW k \in 0 .. Len(puller[g].list), Process(g, k)  PROVE TypeOK'
  <2>1. puller[g].list \in Seq(Nat) /\ <<>> \in Seq(Nat)
    BY ReadTypes
  <2>2. got' \in [Server -> Nat]
    BY <1>11, <2>1 DEF Process, TypeOK
  <2>3. [puller[g] EXCEPT !.at = IF k = Len(puller[g].list) THEN "idle" ELSE "sleep",
                          !.list = <<>>] \in PullerRecord
    BY <2>1, ReadTypes DEF PullerRecord
  <2> QED BY <1>11, <2>2, <2>3 DEF Process, TypeOK
<1>12. ASSUME NEW g \in Server, Wake(g)  PROVE TypeOK'
  <2>1. [puller[g] EXCEPT !.at = "idle"] \in PullerRecord
    BY ReadTypes DEF PullerRecord
  <2> QED BY <1>12, <2>1 DEF Wake, TypeOK
<1>13. ASSUME NEW S, Send(S)  PROVE TypeOK'
  <2>1. \A g \in Server : proxy[g] # Nil => WithMsg(proxy[g], nextMsg) \in ProxyRecord
    BY ReadTypes, WithMsgType DEF TypeOK
  <2>2. \A g \in Server : proxy[g] # Nil =>
          /\ CheckMsg(WithMsg(proxy[g], nextMsg)) \in ProxyRecord
          /\ Fetched(puller[g], WithMsg(proxy[g], nextMsg)) \in PullerRecord
    BY <2>1, ReadTypes, CheckMsgType, FetchedType
  <2>3. proxy' \in [Server -> OrNil(ProxyRecord)]
    BY <1>13, <2>2 DEF Send, TypeOK, OrNil
  <2>4. puller' \in [Server -> PullerRecord]
    BY <1>13, <2>2 DEF Send, TypeOK
  <2>5. nextMsg' \in Nat
    BY <1>13 DEF Send, TypeOK
  <2> QED BY <1>13, <2>3, <2>4, <2>5 DEF Send, TypeOK
<1>14. CASE UNCHANGED vars
  BY <1>14 DEF TypeOK
<1> QED BY <1>1, <1>2, <1>3, <1>4, <1>5, <1>6, <1>7, <1>8, <1>9, <1>10, <1>11, <1>12, <1>13,
           <1>14 DEF Next

-----------------------------------------------------------------------------
(* The tree.  Steps that neither register nor remove a server keep it.     *)
LEMMA TreeFrame ==
    ASSUME TreeOK, UNCHANGED <<nodeHash, kindHash>>,
           \A g \in Server : serverHash'[g] # Nil <=> serverHash[g] # Nil
    PROVE  TreeOK'
<1>1. ASSUME NEW n \in Node
      PROVE  {g \in Server : NodeOf[g] = n /\ serverHash'[g] # Nil}
               = {g \in Server : NodeOf[g] = n /\ serverHash[g] # Nil}
  OBVIOUS
<1>2. ASSUME NEW n \in Node
      PROVE  LET Gs == {g \in Server : NodeOf[g] = n /\ serverHash'[g] # Nil}
             IN  nodeHash'[n] = IF Gs = {} THEN Nil ELSE Gs
  <2> DEFINE Gs == {g \in Server : NodeOf[g] = n /\ serverHash[g] # Nil}
  <2>1. nodeHash[n] = IF Gs = {} THEN Nil ELSE Gs
    BY Zenon DEF TreeOK
  <2>2. {g \in Server : NodeOf[g] = n /\ serverHash'[g] # Nil} = Gs
    BY <1>1, Zenon
  <2> HIDE DEF Gs
  <2> QED BY <2>1, <2>2
<1>3. ASSUME NEW k \in Kind
      PROVE  LET Ns == {n \in Node : KindOf[n] = k /\ nodeHash'[n] # Nil}
             IN  kindHash'[k] = IF Ns = {} THEN Nil ELSE Ns
  <2> DEFINE Ns == {n \in Node : KindOf[n] = k /\ nodeHash[n] # Nil}
  <2>1. kindHash[k] = IF Ns = {} THEN Nil ELSE Ns
    BY Zenon DEF TreeOK
  <2>2. {n \in Node : KindOf[n] = k /\ nodeHash'[n] # Nil} = Ns
    OBVIOUS
  <2> HIDE DEF Ns
  <2> QED BY <2>1, <2>2
<1> QED BY <1>2, <1>3, Zenon DEF TreeOK

(* A server that registers brings its node and its kind with it.           *)
LEMMA InsertTree ==
    ASSUME TypeOK, TreeOK, NEW g \in Server, NEW sg \in Sign, NEW n \in Nat,
           InsertServer(g, sg, n)
    PROVE  TreeOK'
<1> DEFINE Gs(m)  == {h \in Server : NodeOf[h] = m /\ serverHash[h] # Nil}
           Gsp(m) == {h \in Server : NodeOf[h] = m /\ serverHash'[h] # Nil}
           Ns(k)  == {m \in Node : KindOf[m] = k /\ nodeHash[m] # Nil}
           Nsp(k) == {m \in Node : KindOf[m] = k /\ nodeHash'[m] # Nil}
<1>1. NodeOf[g] \in Node /\ KindOfServer(g) \in Kind
  BY ReadTypes
<1>2. [sign |-> sg, onlineCount |-> n, tick |-> "fresh", listed |-> TRUE] # Nil
  <2>1. [sign |-> sg, onlineCount |-> n, tick |-> "fresh", listed |-> TRUE] \in ServerRecord
    BY DEF ServerRecord
  <2> QED BY <2>1, NilApart
<1>3. \A h \in Server : serverHash'[h] # Nil <=> h = g \/ serverHash[h] # Nil
  BY <1>2 DEF InsertServer, TypeOK
<1>4. ASSUME NEW m \in Node
      PROVE  nodeHash'[m] = IF Gsp(m) = {} THEN Nil ELSE Gsp(m)
  <2>1. CASE m = NodeOf[g]
    <3>1. Members(nodeHash[m]) = Gs(m)
      <4>1. nodeHash[m] = IF Gs(m) = {} THEN Nil ELSE Gs(m)
        BY DEF TreeOK
      <4>2. Gs(m) # Nil
        BY NilApart
      <4> QED BY <4>1, <4>2 DEF Members
    <3>2. nodeHash'[m] = Gs(m) \cup {g}
      BY <1>1, <2>1, <3>1 DEF InsertServer, TypeOK
    <3>3. Gsp(m) = Gs(m) \cup {g}
      BY <1>3, <2>1
    <3> QED BY <3>2, <3>3
  <2>2. CASE m # NodeOf[g]
    <3>1. Gsp(m) = Gs(m)
      BY <1>3, <2>2
    <3>2. nodeHash'[m] = nodeHash[m]
      BY <1>1, <2>2 DEF InsertServer, TypeOK
    <3> QED BY <3>1, <3>2 DEF TreeOK
  <2> QED BY <2>1, <2>2
<1>5. \A m \in Node : nodeHash'[m] # Nil <=> m = NodeOf[g] \/ nodeHash[m] # Nil
  <2>1. Members(nodeHash[NodeOf[g]]) \cup {g} \in SUBSET Server
    BY <1>1 DEF Members, TypeOK, OrNil
  <2>2. Members(nodeHash[NodeOf[g]]) \cup {g} # Nil
    BY <2>1, NilApart
  <2> QED BY <1>1, <2>2 DEF InsertServer, TypeOK
<1>6. ASSUME NEW k \in Kind
      PROVE  kindHash'[k] = IF Nsp(k) = {} THEN Nil ELSE Nsp(k)
  <2>1. CASE k = KindOfServer(g)
    <3>1. Members(kindHash[k]) = Ns(k)
      <4>1. kindHash[k] = IF Ns(k) = {} THEN Nil ELSE Ns(k)
        BY DEF TreeOK
      <4>2. Ns(k) # Nil
        BY NilApart
      <4> QED BY <4>1, <4>2 DEF Members
    <3>2. kindHash'[k] = Ns(k) \cup {NodeOf[g]}
      BY <1>1, <2>1, <3>1 DEF InsertServer, TypeOK
    <3>3. Nsp(k) = Ns(k) \cup {NodeOf[g]}
      BY <1>1, <1>5, <2>1 DEF KindOfServer
    <3> QED BY <3>2, <3>3
  <2>2. CASE k # KindOfServer(g)
    <3>1. Nsp(k) = Ns(k)
      BY <1>5, <2>2 DEF KindOfServer
    <3>2. kindHash'[k] = kindHash[k]
      BY <1>1, <2>2 DEF InsertServer, TypeOK
    <3> QED BY <3>1, <3>2 DEF TreeOK
  <2> QED BY <2>1, <2>2
<1> QED BY <1>4, <1>6 DEF TreeOK

(* A removal takes the nodes that are left empty, and the kinds.           *)
LEMMA DeleteTree ==
    ASSUME TypeOK, TreeOK, NEW D \in SUBSET Server, DeleteServers(D)
    PROVE  TreeOK'
<1> DEFINE Gs(m)  == {h \in Server : NodeOf[h] = m /\ serverHash[h] # Nil}
           Gsp(m) == {h \in Server : NodeOf[h] = m /\ serverHash'[h] # Nil}
           Ns(k)  == {m \in Node : KindOf[m] = k /\ nodeHash[m] # Nil}
           Nsp(k) == {m \in Node : KindOf[m] = k /\ nodeHash'[m] # Nil}
           Gone   == {m \in Node : Emptied(nodeHash, m, D)}
<1>1. \A h \in Server : serverHash'[h] # Nil <=> h \notin D /\ serverHash[h] # Nil
  BY DEF DeleteServers
<1>2. \A m \in Node : nodeHash[m] = IF Gs(m) = {} THEN Nil ELSE Gs(m)
  BY DEF TreeOK
<1>3. \A m \in Node : Gs(m) # Nil /\ Gs(m) \ D # Nil
  BY NilApart
<1>4. \A m \in Node : Gsp(m) = Gs(m) \ D
  BY <1>1
<1>5. \A m \in Node : nodeHash'[m] = Without(nodeHash, m, D)
  BY DEF DeleteServers
<1>6. ASSUME NEW m \in Node
      PROVE  nodeHash'[m] = IF Gsp(m) = {} THEN Nil ELSE Gsp(m)
  <2>1. CASE Gs(m) = {}
    <3>1. nodeHash'[m] = Nil
      BY <1>2, <1>5, <2>1 DEF Without
    <3> QED BY <1>4, <2>1, <3>1
  <2>2. CASE Gs(m) # {}
    <3>1. nodeHash[m] = Gs(m) /\ nodeHash[m] # Nil
      BY <1>2, <1>3, <2>2
    <3>2. nodeHash'[m] = IF Gs(m) \subseteq D THEN Nil ELSE Gs(m) \ D
      BY <1>5, <3>1 DEF Without
    <3>3. Gs(m) \subseteq D <=> Gs(m) \ D = {}
      OBVIOUS
    <3> QED BY <1>4, <3>2, <3>3
  <2> QED BY <2>1, <2>2
<1>7. \A m \in Node : nodeHash'[m] # Nil <=> nodeHash[m] # Nil /\ m \notin Gone
  BY <1>2, <1>3, <1>5 DEF Without, Emptied
<1>8. \A k \in Kind : kindHash'[k] = Without(kindHash, k, Gone)
  BY DEF DeleteServers
<1>9. \A k \in Kind : kindHash[k] = IF Ns(k) = {} THEN Nil ELSE Ns(k)
  BY DEF TreeOK
<1>10. \A k \in Kind : Ns(k) # Nil /\ Nsp(k) = Ns(k) \ Gone
  BY <1>7, NilApart
<1> HIDE DEF Gone
<1>11. ASSUME NEW k \in Kind
       PROVE  kindHash'[k] = IF Nsp(k) = {} THEN Nil ELSE Nsp(k)
  <2>1. CASE Ns(k) = {}
    <3>1. kindHash'[k] = Nil
      BY <1>8, <1>9, <2>1 DEF Without
    <3> QED BY <1>10, <2>1, <3>1
  <2>2. CASE Ns(k) # {}
    <3>1. kindHash[k] = Ns(k) /\ kindHash[k] # Nil
      BY <1>9, <1>10, <2>2
    <3>2. kindHash'[k] = IF Ns(k) \subseteq Gone THEN Nil ELSE Ns(k) \ Gone
      BY <1>8, <3>1 DEF Without
    <3>3. Ns(k) \subseteq Gone <=> Ns(k) \ Gone = {}
      OBVIOUS
    <3> QED BY <1>10, <3>2, <3>3
  <2> QED BY <2>1, <2>2
<1> QED BY <1>6, <1>11 DEF TreeOK

(* Every step keeps the tree.                                              *)
LEMMA TreeStep ==
    ASSUME TypeOK, TreeOK, [Next]_vars
    PROVE  TreeOK'
<1> USE DEF vars, tree
<1>1. ASSUME NEW g \in Server, NEW n \in 0 .. MaxOnline, RegisterServer(g, n)  PROVE TreeOK'
  <2>1. CASE serverHash[g] # Nil
    BY <1>1, <2>1, TreeFrame DEF RegisterServer
  <2>2. CASE serverHash[g] = Nil
    <3>1. n \in Nat
      BY BoundAssumption
    <3> QED BY <1>1, <2>2, <3>1, InsertTree DEF RegisterServer
  <2> QED BY <2>1, <2>2
<1>2. ASSUME NEW g \in Server, NEW n \in 0 .. MaxOnline, ReportOnline(g, n)  PROVE TreeOK'
  <2>1. CASE serverHash[g] # Nil /\ serverHash[g].sign = gs[g].sign
    <3>1. [serverHash[g] EXCEPT !.onlineCount = n, !.tick = "fresh", !.listed = n # 0] # Nil
      <4>1. n \in Nat
        BY BoundAssumption
      <4>2. [serverHash[g] EXCEPT !.onlineCount = n, !.tick = "fresh", !.listed = n # 0]
              \in ServerRecord
        BY <2>1, <4>1, ReadTypes DEF ServerRecord
      <4> QED BY <4>2, NilApart
    <3>2. \A h \in Server : serverHash'[h] # Nil <=> serverHash[h] # Nil
      BY <1>2, <2>1, <3>1 DEF ReportOnline, TypeOK
    <3> QED BY <1>2, <2>1, <3>2, TreeFrame DEF ReportOnline
  <2>2. CASE ~(serverHash[g] # Nil /\ serverHash[g].sign = gs[g].sign)
    BY <1>2, <2>2, TreeFrame DEF ReportOnline
  <2> QED BY <2>1, <2>2
<1>3. ASSUME NEW g \in Server, TimePasses(g)  PROVE TreeOK'
  <2>1. [serverHash[g] EXCEPT !.tick = "old"] # Nil
    <3>1. [serverHash[g] EXCEPT !.tick = "old"] \in ServerRecord
      BY <1>3, ReadTypes DEF TimePasses, ServerRecord
    <3> QED BY <3>1, NilApart
  <2>2. \A h \in Server : serverHash'[h] # Nil <=> serverHash[h] # Nil
    BY <1>3, <2>1 DEF TimePasses, TypeOK
  <2> QED BY <1>3, <2>2, TreeFrame DEF TimePasses
<1>4. ASSUME CheckServerTick  PROVE TreeOK'
  <2> DEFINE D == {g \in Server : serverHash[g] # Nil /\ serverHash[g].tick = "old"}
  <2>1. DeleteServers(D) /\ D \in SUBSET Server
    BY <1>4 DEF CheckServerTick
  <2> QED BY <2>1, DeleteTree
<1>5. ASSUME LsRestart  PROVE TreeOK'
  BY <1>5 DEF LsRestart, TreeOK
<1>6. CASE UNCHANGED tree
  BY <1>6, TreeFrame
<1>7. ASSUME NEW g \in Server, \/ GsStart(g) \/ GsCrash(g) \/ OnEvent(g) \/ Pull(g) \/ GsPull(g)
                               \/ Wake(g) \/ \E k \in 0 .. Len(puller[g].list) : Process(g, k)
      PROVE  TreeOK'
  BY <1>6, <1>7 DEF GsStart, GsCrash, OnEvent, Pull, GsPull, Wake, Process
<1>8. ASSUME NEW S, Send(S)  PROVE TreeOK'
  BY <1>6, <1>8 DEF Send
<1> QED BY <1>1, <1>2, <1>3, <1>4, <1>5, <1>6, <1>7, <1>8 DEF Next

-----------------------------------------------------------------------------

(* Putting an event at the end, and taking the first one.                  *)
LEMMA LastOfAppend ==
    ASSUME NEW T, NEW q \in Seq(T), NEW x \in T
    PROVE  /\ Append(q, x) # <<>>
           /\ Append(q, x)[Len(Append(q, x))] = x
  OBVIOUS

(* The last of a sequence is the last of its tail.                         *)
LEMMA LastOfTail ==
    ASSUME NEW T, NEW q \in Seq(T), q # <<>>
    PROVE  q[Len(q)] = IF Tail(q) = <<>> THEN Head(q) ELSE Tail(q)[Len(Tail(q))]
<1>1. Len(q) \in Nat /\ Len(q) # 0
  BY EmptySeq
<1>2. Len(Tail(q)) = Len(q) - 1 /\ Tail(q) \in Seq(T)
  BY <1>1
<1>3. CASE Len(q) = 1
  <2>1. Len(Tail(q)) = 0
    BY <1>2, <1>3
  <2>2. Tail(q) = <<>>
    BY <1>2, <2>1, EmptySeq
  <2> QED BY <1>3, <2>2
<1>4. CASE Len(q) # 1
  <2>1. Tail(q) # <<>>
    <3>1. Len(Tail(q)) # 0
      BY <1>1, <1>2, <1>4
    <3>2. Len(<<>>) = 0
      OBVIOUS
    <3> QED BY <3>1, <3>2, Zenon
  <2>2. Tail(q)[Len(q) - 1] = q[Len(q)]
    BY <1>1, <1>4
  <2> QED BY <1>2, <2>1, <2>2
<1> QED BY <1>3, <1>4

(* Steps that move no sign and no event keep the two sides together.       *)
LEMMA ProxyFrame ==
    ASSUME ProxyTracks, UNCHANGED events,
           \A g \in Server : /\ SignAt(serverHash'[g]) = SignAt(serverHash[g])
                             /\ SignAt(proxy'[g]) = SignAt(proxy[g])
    PROVE  ProxyTracks'
  BY DEF ProxyTracks

(* An answered pull and a new message leave the sign of an entry.          *)
LEMMA SignKept ==
    ASSUME NEW r \in ProxyRecord, NEW q \in ProxyRecord, q.sign = r.sign
    PROVE  SignAt(q) = SignAt(r)
  BY NilApart DEF SignAt

(* Every step keeps the proxies in line with the events.                   *)
LEMMA ProxyStep ==
    ASSUME TypeOK, ProxyTracks, [Next]_vars
    PROVE  ProxyTracks'
<1> USE DEF vars, tree
<1>1. ASSUME NEW g \in Server, GsCrash(g)  PROVE ProxyTracks'
  <2>1. CASE proxy[g] # Nil /\ proxy[g].responser = "live"
    <3>1. /\ [proxy[g] EXCEPT !.responser = "dead"] \in ProxyRecord /\ proxy[g] \in ProxyRecord
          /\ [proxy[g] EXCEPT !.responser = "dead"].sign = proxy[g].sign
      BY <2>1, ReadTypes DEF ProxyRecord, OrNil
    <3>2. SignAt([proxy[g] EXCEPT !.responser = "dead"]) = SignAt(proxy[g])
      BY <3>1, SignKept
    <3>3. \A h \in Server : SignAt(proxy'[h]) = SignAt(proxy[h])
      BY <1>1, <2>1, <3>2 DEF GsCrash, TypeOK
    <3> QED BY <1>1, <3>3, ProxyFrame DEF GsCrash
  <2>2. CASE ~(proxy[g] # Nil /\ proxy[g].responser = "live")
    BY <1>1, <2>2, ProxyFrame DEF GsCrash
  <2> QED BY <2>1, <2>2
<1>2. ASSUME NEW g \in Server, NEW sg \in Sign, Registered(g, sg), UNCHANGED proxy,
             SignAt(serverHash'[g]) = sg,
             \A h \in Server \ {g} : serverHash'[h] = serverHash[h]
      PROVE  ProxyTracks'
  <2>1. events'[g] = Append(events[g], sg) /\ \A h \in Server \ {g} : events'[h] = events[h]
    BY <1>2 DEF Registered, TypeOK
  <2>2. events'[g] # <<>> /\ events'[g][Len(events'[g])] = sg
    <3>1. events[g] \in Seq(OrNil(Sign)) /\ sg \in OrNil(Sign)
      BY ReadTypes DEF OrNil
    <3> QED BY <2>1, <3>1, LastOfAppend
  <2> QED BY <1>2, <2>1, <2>2 DEF ProxyTracks
<1>3. ASSUME NEW g \in Server, NEW n \in 0 .. MaxOnline, RegisterServer(g, n)  PROVE ProxyTracks'
  <2>1. CASE serverHash[g] # Nil
    <3>1. Registered(g, serverHash[g].sign) /\ UNCHANGED <<tree, proxy>>
      BY <1>3, <2>1 DEF RegisterServer
    <3>2. serverHash[g].sign \in Sign /\ SignAt(serverHash[g]) = serverHash[g].sign
      BY <2>1, ReadTypes DEF SignAt
    <3> QED BY <1>2, <3>1, <3>2
  <2>2. CASE serverHash[g] = Nil
    <3>1. PICK sg \in Sign : Registered(g, sg) /\ InsertServer(g, sg, n)
      BY <1>3, <2>2 DEF RegisterServer
    <3>2. UNCHANGED proxy
      BY <1>3 DEF RegisterServer
    <3> DEFINE r == [sign |-> sg, onlineCount |-> n, tick |-> "fresh", listed |-> TRUE]
    <3>3. serverHash'[g] = r /\ \A h \in Server \ {g} : serverHash'[h] = serverHash[h]
      BY <3>1 DEF InsertServer, TypeOK
    <3>4. r \in ServerRecord /\ r.sign = sg
      <4>1. n \in Nat
        BY BoundAssumption
      <4> QED BY <4>1 DEF ServerRecord
    <3> HIDE DEF r
    <3>5. SignAt(serverHash'[g]) = sg
      BY <3>3, <3>4, NilApart DEF SignAt
    <3> QED BY <1>2, <3>1, <3>2, <3>3, <3>5
  <2> QED BY <2>1, <2>2
<1>4. ASSUME NEW g \in Server, NEW r \in ServerRecord, serverHash[g] # Nil,
             r.sign = serverHash[g].sign,
             serverHash' = [serverHash EXCEPT ![g] = r], UNCHANGED <<events, proxy>>
      PROVE  ProxyTracks'
  <2>1. SignAt(r) = SignAt(serverHash[g])
    BY <1>4, NilApart DEF SignAt
  <2>2. \A h \in Server : SignAt(serverHash'[h]) = SignAt(serverHash[h])
    BY <1>4, <2>1 DEF TypeOK
  <2> QED BY <1>4, <2>2, ProxyFrame
<1>5. ASSUME NEW g \in Server, NEW n \in 0 .. MaxOnline, ReportOnline(g, n)  PROVE ProxyTracks'
  <2>1. CASE serverHash[g] # Nil /\ serverHash[g].sign = gs[g].sign
    <3> DEFINE r == [serverHash[g] EXCEPT !.onlineCount = n, !.tick = "fresh", !.listed = n # 0]
    <3>1. n \in Nat
      BY BoundAssumption
    <3>2. r \in ServerRecord /\ r.sign = serverHash[g].sign
      BY <2>1, <3>1, ReadTypes DEF ServerRecord
    <3>3. serverHash' = [serverHash EXCEPT ![g] = r] /\ UNCHANGED <<events, proxy>>
      BY <1>5, <2>1 DEF ReportOnline
    <3> HIDE DEF r
    <3> QED BY <1>4, <2>1, <3>2, <3>3
  <2>2. CASE ~(serverHash[g] # Nil /\ serverHash[g].sign = gs[g].sign)
    BY <1>5, <2>2, ProxyFrame DEF ReportOnline
  <2> QED BY <2>1, <2>2
<1>6. ASSUME NEW g \in Server, TimePasses(g)  PROVE ProxyTracks'
  <2> DEFINE r == [serverHash[g] EXCEPT !.tick = "old"]
  <2>1. r \in ServerRecord /\ r.sign = serverHash[g].sign
    BY <1>6, ReadTypes DEF TimePasses, ServerRecord
  <2>2. serverHash' = [serverHash EXCEPT ![g] = r] /\ UNCHANGED <<events, proxy>>
        /\ serverHash[g] # Nil
    BY <1>6 DEF TimePasses
  <2> HIDE DEF r
  <2> QED BY <1>4, <2>1, <2>2
<1>7. ASSUME CheckServerTick  PROVE ProxyTracks'
  <2> DEFINE D == {g \in Server : serverHash[g] # Nil /\ serverHash[g].tick = "old"}
  <2>1. DeleteServers(D) /\ UNCHANGED proxy
        /\ events' = [g \in Server |-> IF g \in D THEN Append(events[g], Nil) ELSE events[g]]
    BY <1>7 DEF CheckServerTick
  <2> HIDE DEF D
  <2>2. ASSUME NEW g \in Server
        PROVE  SignAt(serverHash'[g]) = IF events'[g] = <<>> THEN SignAt(proxy'[g])
                                        ELSE events'[g][Len(events'[g])]
    <3>1. CASE g \in D
      <4>1. serverHash'[g] = Nil /\ events'[g] = Append(events[g], Nil)
        BY <2>1, <3>1 DEF DeleteServers
      <4>2. events[g] \in Seq(OrNil(Sign)) /\ Nil \in OrNil(Sign)
        BY ReadTypes DEF OrNil
      <4> QED BY <4>1, <4>2, LastOfAppend DEF SignAt
    <3>2. CASE g \notin D
      <4>1. serverHash'[g] = serverHash[g] /\ events'[g] = events[g] /\ proxy'[g] = proxy[g]
        BY <2>1, <3>2 DEF DeleteServers
      <4> QED BY <4>1 DEF ProxyTracks
    <3> QED BY <3>1, <3>2
  <2> QED BY <2>2 DEF ProxyTracks
<1>8. ASSUME LsRestart  PROVE ProxyTracks'
  BY <1>8 DEF LsRestart, ProxyTracks, SignAt
<1>9. ASSUME NEW g \in Server, OnEvent(g)  PROVE ProxyTracks'
  <2>1. events[g] \in Seq(OrNil(Sign)) /\ events[g] # <<>>
    BY <1>9, ReadTypes DEF OnEvent
  <2>2. /\ events'[g] = Tail(events[g]) /\ UNCHANGED serverHash
        /\ proxy'[g] = IF Head(events[g]) = Nil THEN Nil
                       ELSE [sign |-> Head(events[g]), responser |-> Nil, msgBuffer |-> << 0 >>]
        /\ \A h \in Server \ {g} : events'[h] = events[h] /\ proxy'[h] = proxy[h]
    BY <1>9 DEF OnEvent, TypeOK
  <2>3. SignAt(proxy'[g]) = Head(events[g])
    <3>1. CASE Head(events[g]) = Nil
      BY <2>2, <3>1 DEF SignAt
    <3>2. CASE Head(events[g]) # Nil
      <4>1. Head(events[g]) \in Sign
        BY <2>1, <3>2 DEF OrNil
      <4>2. proxy'[g] \in ProxyRecord /\ proxy'[g].sign = Head(events[g])
        BY <2>2, <3>2, <4>1 DEF ProxyRecord, OrNil
      <4> QED BY <4>2, NilApart DEF SignAt
    <3> QED BY <3>1, <3>2
  <2>4. events[g][Len(events[g])] = IF events'[g] = <<>> THEN Head(events[g])
                                    ELSE events'[g][Len(events'[g])]
    BY <2>1, <2>2, LastOfTail
  <2> QED BY <2>1, <2>2, <2>3, <2>4 DEF ProxyTracks
<1>10. ASSUME NEW g \in Server, GsPull(g)  PROVE ProxyTracks'
  <2>1. CASE proxy[g] = Nil \/ proxy[g].sign # puller[g].sign
    BY <1>10, <2>1, ProxyFrame DEF GsPull
  <2>2. CASE ~(proxy[g] = Nil \/ proxy[g].sign # puller[g].sign)
    <3> DEFINE r == [proxy[g] EXCEPT !.responser = "live"]
    <3>1. r \in ProxyRecord /\ proxy[g] \in ProxyRecord /\ r.sign = proxy[g].sign
      BY <2>2, ReadTypes DEF ProxyRecord, OrNil
    <3>2. proxy' = [proxy EXCEPT ![g] = CheckMsg(r)] /\ UNCHANGED <<serverHash, events>>
      BY <1>10, <2>2 DEF GsPull
    <3> HIDE DEF r
    <3>3. SignAt(CheckMsg(r)) = SignAt(proxy[g])
      BY <3>1, CheckMsgType, SignKept
    <3>4. \A h \in Server : SignAt(proxy'[h]) = SignAt(proxy[h])
      BY <3>2, <3>3 DEF TypeOK
    <3> QED BY <3>2, <3>4, ProxyFrame
  <2> QED BY <2>1, <2>2
<1>11. ASSUME NEW S, Send(S)  PROVE ProxyTracks'
  <2>1. ASSUME NEW g \in Server
        PROVE  SignAt(proxy'[g]) = SignAt(proxy[g])
    <3>1. CASE g \in S /\ proxy[g] # Nil
      <4>1. proxy'[g] = CheckMsg(WithMsg(proxy[g], nextMsg)) /\ nextMsg \in Nat
        BY <1>11, <3>1 DEF Send, TypeOK
      <4>2. proxy[g] \in ProxyRecord
        BY <3>1, ReadTypes
      <4>3. WithMsg(proxy[g], nextMsg) \in ProxyRecord
            /\ WithMsg(proxy[g], nextMsg).sign = proxy[g].sign
        BY <4>1, <4>2, WithMsgType
      <4>4. proxy'[g] \in ProxyRecord /\ proxy'[g].sign = proxy[g].sign
        BY <4>1, <4>3, CheckMsgType
      <4> QED BY <4>2, <4>4, SignKept
    <3>2. CASE ~(g \in S /\ proxy[g] # Nil)
      BY <1>11, <3>2 DEF Send
    <3> QED BY <3>1, <3>2
  <2> QED BY <1>11, <2>1, ProxyFrame DEF Send
<1>12. CASE UNCHANGED <<serverHash, events, proxy>>
  BY <1>12, ProxyFrame
<1>13. ASSUME NEW g \in Server, \/ GsStart(g) \/ Pull(g) \/ Wake(g)
                                \/ \E k \in 0 .. Len(puller[g].list) : Process(g, k)
       PROVE  ProxyTracks'
  BY <1>12, <1>13 DEF GsStart, Pull, Wake, Process
<1> QED BY <1>1, <1>3, <1>5, <1>6, <1>7, <1>8, <1>9, <1>10, <1>11, <1>12, <1>13 DEF Next

-----------------------------------------------------------------------------
(* A pull that is kept is the one the game server waits for.               *)
LEMMA ResponserStep ==
    ASSUME TypeOK, ResponserOK, [Next]_vars
    PROVE  ResponserOK'
<1> USE DEF vars, tree
<1> DEFINE OK(g) == proxy[g] # Nil /\ proxy[g].responser = "live" =>
                        /\ puller[g].at = "wait" /\ puller[g].sign = proxy[g].sign
                        /\ proxy[g].msgBuffer = <<>>
<1>0. \A g \in Server : OK(g)
  BY DEF ResponserOK
<1>a. SUFFICES ASSUME NEW h \in Server  PROVE OK(h)'
  BY DEF ResponserOK
<1>1. ASSUME NEW g \in Server, GsCrash(g)  PROVE OK(h)'
  <2>1. CASE h = g
    <3>1. CASE proxy[g] # Nil /\ proxy[g].responser = "live"
      <4>1. proxy'[g] = [proxy[g] EXCEPT !.responser = "dead"] /\ proxy[g] \in ProxyRecord
        BY <1>1, <3>1, ReadTypes DEF GsCrash, TypeOK
      <4>2. proxy'[g].responser = "dead"
        BY <4>1 DEF ProxyRecord
      <4> QED BY <2>1, <4>2
    <3>2. CASE ~(proxy[g] # Nil /\ proxy[g].responser = "live")
      BY <1>1, <2>1, <3>2 DEF GsCrash
    <3> QED BY <3>1, <3>2
  <2>2. CASE h # g
    BY <1>0, <1>1, <2>2 DEF GsCrash, TypeOK
  <2> QED BY <2>1, <2>2
<1>2. ASSUME NEW g \in Server, NEW n \in 0 .. MaxOnline, RegisterServer(g, n)  PROVE OK(h)'
  <2>1. PICK sg : Registered(g, sg) /\ UNCHANGED proxy
    BY <1>2 DEF RegisterServer
  <2>2. puller[g] \in PullerRecord
    BY ReadTypes
  <2>3. puller[h].at = "wait" => puller'[h].at = "wait" /\ puller'[h].sign = puller[h].sign
    BY <2>1, <2>2 DEF Registered, TypeOK, PullerRecord
  <2> QED BY <1>0, <2>1, <2>3
<1>3. ASSUME LsRestart  PROVE OK(h)'
  BY <1>3 DEF LsRestart
<1>4. ASSUME NEW g \in Server, OnEvent(g)  PROVE OK(h)'
  <2>1. proxy'[g] # Nil => proxy'[g].responser = Nil
    BY <1>4 DEF OnEvent, TypeOK
  <2>2. CASE h = g
    BY <1>4, <2>1, <2>2, NilApart DEF OnEvent, TypeOK
  <2>3. CASE h # g
    BY <1>0, <1>4, <2>3 DEF OnEvent, TypeOK
  <2> QED BY <2>2, <2>3
<1>5. ASSUME NEW g \in Server, Pull(g)  PROVE OK(h)'
  BY <1>0, <1>5 DEF Pull, TypeOK
<1>6. ASSUME NEW g \in Server, GsPull(g)  PROVE OK(h)'
  <2>1. CASE proxy[g] = Nil \/ proxy[g].sign # puller[g].sign
    BY <1>0, <1>6, <2>1 DEF GsPull, TypeOK
  <2>2. CASE ~(proxy[g] = Nil \/ proxy[g].sign # puller[g].sign)
    <3> DEFINE r == [proxy[g] EXCEPT !.responser = "live"]
               p == [puller[g] EXCEPT !.at = "wait"]
    <3>1. /\ proxy'[g] = CheckMsg(r) /\ puller'[g] = Fetched(p, r)
          /\ \A f \in Server \ {g} : proxy'[f] = proxy[f] /\ puller'[f] = puller[f]
      BY <1>6, <2>2 DEF GsPull, TypeOK
    <3>2. /\ r \in ProxyRecord /\ r.sign = puller[g].sign /\ r.responser = "live"
          /\ p.at = "wait" /\ p.sign = puller[g].sign
      BY <2>2, ReadTypes DEF ProxyRecord, OrNil, PullerRecord
    <3> HIDE DEF r, p
    <3>3. CASE Answers(r)
      <4>1. CheckMsg(r).responser = Nil
        BY <3>2, <3>3 DEF CheckMsg, ProxyRecord
      <4> QED BY <1>0, <3>1, <4>1, NilApart
    <3>4. CASE ~Answers(r)
      <4>1. CheckMsg(r) = r /\ Fetched(p, r) = p
        BY <3>4 DEF CheckMsg, Fetched
      <4>2. r.responser # Nil => r.msgBuffer = <<>>
        BY <3>4 DEF Answers
      <4> QED BY <1>0, <3>1, <3>2, <4>1, <4>2, NilApart
    <3> QED BY <3>3, <3>4
  <2> QED BY <2>1, <2>2
<1>7. ASSUME NEW g \in Server, NEW k \in 0 .. Len(puller[g].list), Process(g, k)  PROVE OK(h)'
  BY <1>0, <1>7 DEF Process, TypeOK
<1>8. ASSUME NEW g \in Server, Wake(g)  PROVE OK(h)'
  BY <1>0, <1>8 DEF Wake, TypeOK
<1>9. ASSUME NEW S, Send(S)  PROVE OK(h)'
  <2>1. CASE h \in S /\ proxy[h] # Nil
    <3> DEFINE r == WithMsg(proxy[h], nextMsg)
    <3>1. proxy'[h] = CheckMsg(r) /\ puller'[h] = Fetched(puller[h], r) /\ nextMsg \in Nat
      BY <1>9, <2>1 DEF Send, TypeOK
    <3>2. /\ r \in ProxyRecord /\ r.sign = proxy[h].sign /\ r.responser = proxy[h].responser
          /\ proxy[h].msgBuffer = <<>> => r.msgBuffer # <<>>
      <4>1. proxy[h] \in ProxyRecord /\ proxy[h].msgBuffer \in Seq(Nat)
        BY <2>1, ReadTypes
      <4>2. ASSUME proxy[h].msgBuffer = <<>>  PROVE r.msgBuffer # <<>>
        <5>1. Len(<<>>) = 0 /\ ~(0 + 1 > MaxBuffer)
          BY BoundAssumption
        <5>2. r.msgBuffer = IF Len(<<>>) + 1 > MaxBuffer THEN Tail(Append(<<>>, nextMsg))
                            ELSE Append(<<>>, nextMsg)
          BY <3>1, <4>1, <4>2, WithMsgType, Zenon
        <5>3. r.msgBuffer = Append(<<>>, nextMsg)
          BY <5>1, <5>2, Zenon
        <5> QED BY <3>1, <5>3
      <4> QED BY <3>1, <4>1, <4>2, WithMsgType
    <3> HIDE DEF r
    <3>3. CASE Answers(r)
      <4>1. CheckMsg(r).responser = Nil
        BY <3>2, <3>3 DEF CheckMsg, ProxyRecord
      <4> QED BY <3>1, <4>1, NilApart
    <3>4. CASE ~Answers(r)
      <4>1. CheckMsg(r) = r /\ Fetched(puller[h], r) = puller[h]
        BY <3>4 DEF CheckMsg, Fetched
      <4> QED BY <1>0, <2>1, <3>1, <3>2, <3>4, <4>1, NilApart DEF Answers
    <3> QED BY <3>3, <3>4
  <2>2. CASE ~(h \in S /\ proxy[h] # Nil)
    BY <1>0, <1>9, <2>2 DEF Send
  <2> QED BY <2>1, <2>2
<1>10. CASE UNCHANGED <<proxy, puller>>
  BY <1>0, <1>10
<1>11. ASSUME NEW g \in Server, \/ GsStart(g) \/ TimePasses(g)
                                \/ \E n \in 0 .. MaxOnline : ReportOnline(g, n)
       PROVE  OK(h)'
  BY <1>10, <1>11 DEF GsStart, ReportOnline, TimePasses
<1>12. CASE CheckServerTick
  BY <1>10, <1>12 DEF CheckServerTick
<1> QED BY <1>1, <1>2, <1>3, <1>4, <1>5, <1>6, <1>7, <1>8, <1>9, <1>10, <1>11, <1>12
    DEF Next

-----------------------------------------------------------------------------
(* The order of messages.  Ahead(g) is two sequences, what the game server *)
(* has fetched and what waits for it, and a step moves one of them: the    *)
(* order is kept for each, and between the two.                            *)
Ordered(q, lo, hi) ==
    /\ \A i \in 1 .. Len(q) : q[i] # 0 => lo < q[i] /\ q[i] < hi
    /\ \A i, j \in 1 .. Len(q) : i < j /\ q[i] # 0 /\ q[j] # 0 => q[i] < q[j]
Before(p, q) ==
    \A i \in 1 .. Len(p), j \in 1 .. Len(q) : p[i] # 0 /\ q[j] # 0 => p[i] < q[j]

InHand(g) == IF puller[g].at = "busy" THEN puller[g].list ELSE <<>>
Buffer(g) == IF proxy[g] = Nil THEN <<>> ELSE proxy[g].msgBuffer

OrderAt(g) ==
    /\ got[g] < nextMsg
    /\ Ordered(InHand(g), got[g], nextMsg) /\ Ordered(Buffer(g), got[g], nextMsg)
    /\ Before(InHand(g), Buffer(g))
OrderInv == \A g \in Server : OrderAt(g)

(* A concatenation is ordered when its parts are and one comes before the  *)
(* other.                                                                  *)
LEMMA OrderedConcat ==
    ASSUME NEW p \in Seq(Nat), NEW q \in Seq(Nat), NEW lo, NEW hi,
           Ordered(p, lo, hi), Ordered(q, lo, hi), Before(p, q)
    PROVE  Ordered(p \o q, lo, hi)
<1>1. /\ Len(p \o q) = Len(p) + Len(q) /\ Len(p) \in Nat /\ Len(q) \in Nat
      /\ \A i \in 1 .. Len(p) : (p \o q)[i] = p[i]
      /\ \A i \in 1 .. Len(p) + Len(q) : i > Len(p) => /\ (p \o q)[i] = q[i - Len(p)]
                                                       /\ i - Len(p) \in 1 .. Len(q)
  OBVIOUS
<1>2. \A i \in 1 .. Len(p \o q) : (p \o q)[i] # 0 => lo < (p \o q)[i] /\ (p \o q)[i] < hi
  BY <1>1 DEF Ordered
<1>3. ASSUME NEW i \in 1 .. Len(p \o q), NEW j \in 1 .. Len(p \o q), i < j,
             (p \o q)[i] # 0, (p \o q)[j] # 0
      PROVE  (p \o q)[i] < (p \o q)[j]
  <2>1. CASE j <= Len(p)
    <3>1. i \in 1 .. Len(p) /\ j \in 1 .. Len(p)
      BY <1>1, <1>3, <2>1
    <3> QED BY <1>1, <1>3, <3>1 DEF Ordered
  <2>2. CASE i > Len(p)
    <3>1. /\ i - Len(p) \in 1 .. Len(q) /\ j - Len(p) \in 1 .. Len(q) /\ i - Len(p) < j - Len(p)
          /\ (p \o q)[i] = q[i - Len(p)] /\ (p \o q)[j] = q[j - Len(p)]
      BY <1>1, <1>3, <2>2
    <3> QED BY <1>3, <3>1 DEF Ordered
  <2>3. CASE i <= Len(p) /\ j > Len(p)
    <3>1. /\ i \in 1 .. Len(p) /\ j - Len(p) \in 1 .. Len(q)
          /\ (p \o q)[i] = p[i] /\ (p \o q)[j] = q[j - Len(p)]
      BY <1>1, <1>3, <2>3
    <3> QED BY <1>3, <3>1 DEF Before
  <2> QED BY <1>1, <2>1, <2>2, <2>3
<1> QED BY <1>2, <1>3 DEF Ordered

(* The invariant says what MsgOrder says.                                  *)
LEMMA OrderImplies == TypeOK /\ OrderInv => MsgOrder
<1> SUFFICES ASSUME TypeOK, OrderInv, NEW g \in Server
             PROVE  Ordered(Ahead(g), got[g], nextMsg)
  BY DEF MsgOrder, Ordered
<1>1. InHand(g) \in Seq(Nat) /\ Buffer(g) \in Seq(Nat)
  BY ReadTypes DEF InHand, Buffer
<1>2. Ahead(g) = InHand(g) \o Buffer(g)
  BY DEF Ahead, InHand, Buffer
<1> QED BY <1>1, <1>2, OrderedConcat DEF OrderInv, OrderAt

(* Nothing in hand or in the buffer, or a greeting alone, is in order.     *)
LEMMA OrderedShort ==
    ASSUME NEW lo, NEW hi
    PROVE  /\ Ordered(<<>>, lo, hi) /\ Ordered(<< 0 >>, lo, hi)
           /\ \A p : Before(<<>>, p) /\ Before(p, <<>>) /\ Before(p, << 0 >>)
<1>1. Len(<<>>) = 0 /\ Len(<< 0 >>) = 1 /\ << 0 >>[1] = 0
  OBVIOUS
<1>2. 1 .. Len(<<>>) = {} /\ \A i \in 1 .. Len(<< 0 >>) : << 0 >>[i] = 0
  BY <1>1
<1> QED BY <1>2, Zenon DEF Ordered, Before

(* A later message comes after all that are there.                         *)
LEMMA OrderedAppend ==
    ASSUME NEW q \in Seq(Nat), NEW lo \in Nat, NEW m \in Nat, lo < m, Ordered(q, lo, m)
    PROVE  Ordered(Append(q, m), lo, m + 1)
<1> DEFINE a == Append(q, m)
<1>1. /\ Len(a) = Len(q) + 1 /\ Len(q) \in Nat
      /\ \A i \in 1 .. Len(q) : a[i] = q[i] /\ q[i] \in Nat
      /\ a[Len(q) + 1] = m
  OBVIOUS
<1> HIDE DEF a
<1>2. ASSUME NEW i \in 1 .. Len(a), a[i] # 0  PROVE lo < a[i] /\ a[i] < m + 1
  BY <1>1, <1>2 DEF Ordered
<1>3. ASSUME NEW i \in 1 .. Len(a), NEW j \in 1 .. Len(a), i < j, a[i] # 0, a[j] # 0
      PROVE  a[i] < a[j]
  <2>1. i \in 1 .. Len(q) /\ q[i] < m
    BY <1>1, <1>3 DEF Ordered
  <2>2. CASE j \in 1 .. Len(q)
    BY <1>1, <1>3, <2>1, <2>2 DEF Ordered
  <2>3. CASE j = Len(q) + 1
    BY <1>1, <2>1, <2>3
  <2> QED BY <1>1, <2>2, <2>3
<1>4. Ordered(a, lo, m + 1)
  BY <1>2, <1>3 DEF Ordered
<1> QED BY <1>4 DEF a

(* A newer message goes behind the older ones.                             *)
LEMMA BeforeAppend ==
    ASSUME NEW p \in Seq(Nat), NEW q \in Seq(Nat), NEW lo, NEW m \in Nat,
           Ordered(p, lo, m), Before(p, q)
    PROVE  Before(p, Append(q, m))
<1>1. /\ Len(Append(q, m)) = Len(q) + 1 /\ Len(q) \in Nat
      /\ \A i \in 1 .. Len(q) : Append(q, m)[i] = q[i]
      /\ Append(q, m)[Len(q) + 1] = m
  OBVIOUS
<1> QED BY <1>1 DEF Ordered, Before

(* Dropping the oldest message.                                            *)
LEMMA OrderedTail ==
    ASSUME NEW p, NEW q \in Seq(Nat), q # <<>>, NEW lo, NEW hi, Ordered(q, lo, hi), Before(p, q)
    PROVE  Ordered(Tail(q), lo, hi) /\ Before(p, Tail(q))
<1>1. /\ Len(Tail(q)) = Len(q) - 1 /\ Len(q) \in Nat
      /\ \A i \in 1 .. Len(q) - 1 : Tail(q)[i] = q[i + 1] /\ i + 1 \in 1 .. Len(q)
  OBVIOUS
<1>2. Ordered(Tail(q), lo, hi)
  <2>1. \A i \in 1 .. Len(Tail(q)) : Tail(q)[i] # 0 => lo < Tail(q)[i] /\ Tail(q)[i] < hi
    BY <1>1 DEF Ordered
  <2>2. ASSUME NEW i \in 1 .. Len(Tail(q)), NEW j \in 1 .. Len(Tail(q)), i < j,
               Tail(q)[i] # 0, Tail(q)[j] # 0
        PROVE  Tail(q)[i] < Tail(q)[j]
    <3>1. i + 1 \in 1 .. Len(q) /\ j + 1 \in 1 .. Len(q) /\ i + 1 < j + 1
      BY <1>1, <2>2
    <3> QED BY <1>1, <2>2, <3>1 DEF Ordered
  <2> QED BY <2>1, <2>2 DEF Ordered
<1>3. Before(p, Tail(q))
  BY <1>1 DEF Before
<1> QED BY <1>2, <1>3

(* More messages may be sent before the next one.                          *)
LEMMA OrderedLater ==
    ASSUME NEW q \in Seq(Nat), NEW lo, NEW m \in Nat, Ordered(q, lo, m)
    PROVE  Ordered(q, lo, m + 1)
<1>1. \A i \in 1 .. Len(q) : q[i] \in Nat
  OBVIOUS
<1> QED BY <1>1 DEF Ordered

(* Every step keeps the messages in order.                                 *)
LEMMA OrderStep ==
    ASSUME TypeOK, OrderInv, [Next]_vars
    PROVE  OrderInv'
<1> USE DEF vars, tree
<1>a. SUFFICES ASSUME NEW h \in Server  PROVE OrderAt(h)'
  BY DEF OrderInv
<1>b. OrderAt(h)
  BY DEF OrderInv
<1>c. /\ InHand(h) \in Seq(Nat) /\ Buffer(h) \in Seq(Nat)
      /\ got[h] \in Nat /\ nextMsg \in Nat
  <2>1. InHand(h) \in Seq(Nat) /\ Buffer(h) \in Seq(Nat)
    BY ReadTypes DEF InHand, Buffer
  <2> QED BY <2>1 DEF TypeOK
(* Either sequence may be emptied.                                         *)
<1>d. ASSUME InHand(h)' \in {InHand(h), <<>>}, Buffer(h)' \in {Buffer(h), <<>>, << 0 >>},
             UNCHANGED <<nextMsg, got>>
      PROVE  OrderAt(h)'
  <2>1. OrderAt(h)' <=> /\ got[h] < nextMsg
                        /\ Ordered(InHand(h)', got[h], nextMsg)
                        /\ Ordered(Buffer(h)', got[h], nextMsg)
                        /\ Before(InHand(h)', Buffer(h)')
    BY <1>d DEF OrderAt
  <2> QED BY <1>b, <1>d, <2>1, OrderedShort, Zenon DEF OrderAt
<1>1. ASSUME NEW g \in Server, GsCrash(g)  PROVE OrderAt(h)'
  <2>1. InHand(h)' \in {InHand(h), <<>>}
    BY <1>1 DEF GsCrash, InHand, TypeOK, NoPulling
  <2>2. Buffer(h)' = Buffer(h)
    <3>1. proxy[g] # Nil => /\ [proxy[g] EXCEPT !.responser = "dead"] \in ProxyRecord
                            /\ [proxy[g] EXCEPT !.responser = "dead"].msgBuffer
                                 = proxy[g].msgBuffer
      BY ReadTypes DEF ProxyRecord, OrNil
    <3> QED BY <1>1, <3>1, NilApart DEF GsCrash, Buffer, TypeOK
  <2> QED BY <1>1, <1>d, <2>1, <2>2 DEF GsCrash
<1>2. ASSUME NEW g \in Server, NEW n \in 0 .. MaxOnline, RegisterServer(g, n)  PROVE OrderAt(h)'
  <2>1. PICK sg : Registered(g, sg) /\ UNCHANGED <<proxy, nextMsg, got>>
    BY <1>2 DEF RegisterServer
  <2>2. puller[g] \in PullerRecord
    BY ReadTypes
  <2>3. InHand(h)' = InHand(h)
    BY <2>1, <2>2 DEF Registered, TypeOK, PullerRecord, InHand
  <2>4. Buffer(h)' = Buffer(h)
    BY <2>1 DEF Buffer
  <2> QED BY <1>d, <2>1, <2>3, <2>4
<1>3. ASSUME LsRestart  PROVE OrderAt(h)'
  <2>1. puller[h] \in PullerRecord
    BY ReadTypes
  <2>2. InHand(h)' = InHand(h)
    BY <1>3, <2>1 DEF LsRestart, InHand, PullerRecord
  <2>3. Buffer(h)' = <<>>
    BY <1>3 DEF LsRestart, Buffer
  <2> QED BY <1>3, <1>d, <2>2, <2>3 DEF LsRestart
<1>4. ASSUME NEW g \in Server, OnEvent(g)  PROVE OrderAt(h)'
  <2>1. InHand(h)' = InHand(h)
    BY <1>4 DEF OnEvent, InHand
  <2>2. Buffer(h)' \in {Buffer(h), <<>>, << 0 >>}
    BY <1>4 DEF OnEvent, Buffer, TypeOK
  <2> QED BY <1>4, <1>d, <2>1, <2>2 DEF OnEvent
<1>5. ASSUME NEW g \in Server, Pull(g)  PROVE OrderAt(h)'
  <2>1. puller[g] \in PullerRecord
    BY ReadTypes
  <2>2. InHand(h)' = InHand(h)
    BY <1>5, <2>1 DEF Pull, InHand, TypeOK, PullerRecord
  <2>3. Buffer(h)' = Buffer(h)
    BY <1>5 DEF Pull, Buffer
  <2> QED BY <1>5, <1>d, <2>2, <2>3 DEF Pull
(* The buffer goes over to the game server as a whole.                     *)
<1>e. ASSUME InHand(h)' = Buffer(h), Buffer(h)' = <<>>, UNCHANGED <<nextMsg, got>>
      PROVE  OrderAt(h)'
  <2>1. OrderAt(h)' <=> /\ got[h] < nextMsg
                        /\ Ordered(Buffer(h), got[h], nextMsg)
                        /\ Ordered(<<>>, got[h], nextMsg)
                        /\ Before(Buffer(h), <<>>)
    BY <1>e DEF OrderAt
  <2> QED BY <1>b, <2>1, OrderedShort DEF OrderAt
<1>6. ASSUME NEW g \in Server, GsPull(g)  PROVE OrderAt(h)'
  <2>0. UNCHANGED <<nextMsg, got>> /\ puller[g] \in PullerRecord /\ puller[g].at = "call"
    BY <1>6, ReadTypes DEF GsPull
  <2>1. CASE h # g
    <3>1. proxy'[h] = proxy[h] /\ puller'[h] = puller[h]
      BY <1>6, <2>1 DEF GsPull, TypeOK
    <3>2. InHand(h)' = InHand(h) /\ Buffer(h)' = Buffer(h)
      BY <3>1 DEF InHand, Buffer
    <3> QED BY <1>d, <2>0, <3>2
  <2>2. CASE h = g /\ (proxy[g] = Nil \/ proxy[g].sign # puller[g].sign)
    <3>1. proxy' = proxy /\ puller'[g] = [puller[g] EXCEPT !.at = "sleep", !.sign = Nil]
      BY <1>6, <2>2 DEF GsPull, TypeOK
    <3>2. InHand(h)' = <<>> /\ Buffer(h)' = Buffer(h)
      BY <2>0, <2>2, <3>1 DEF InHand, Buffer, PullerRecord
    <3> QED BY <1>d, <2>0, <3>2
  <2>3. CASE h = g /\ ~(proxy[g] = Nil \/ proxy[g].sign # puller[g].sign)
    <3> DEFINE r == [proxy[g] EXCEPT !.responser = "live"]
               p == [puller[g] EXCEPT !.at = "wait"]
    <3>1. proxy'[g] = CheckMsg(r) /\ puller'[g] = Fetched(p, r)
      BY <1>6, <2>3 DEF GsPull, TypeOK
    <3>2. /\ r \in ProxyRecord /\ r.msgBuffer = proxy[g].msgBuffer /\ r.responser = "live"
          /\ p \in PullerRecord /\ p.at = "wait"
      BY <2>3, ReadTypes DEF ProxyRecord, OrNil, PullerRecord
    <3> HIDE DEF r, p
    <3>3. CheckMsg(r) # Nil
      BY <3>2, CheckMsgType, NilApart
    <3>4. CASE Answers(r)
      <4>1. CheckMsg(r).msgBuffer = <<>>
        BY <3>2, <3>4 DEF CheckMsg, ProxyRecord
      <4>2. Fetched(p, r).at = "busy" /\ Fetched(p, r).list = r.msgBuffer
        BY <3>2, <3>4 DEF Fetched, PullerRecord
      <4>3. InHand(h)' = Buffer(h) /\ Buffer(h)' = <<>>
        BY <2>3, <3>1, <3>2, <3>3, <4>1, <4>2 DEF InHand, Buffer
      <4> QED BY <1>e, <2>0, <4>3
    <3>5. CASE ~Answers(r)
      <4>1. CheckMsg(r) = r /\ Fetched(p, r) = p
        BY <3>5 DEF CheckMsg, Fetched
      <4>2. InHand(h)' = <<>> /\ Buffer(h)' = Buffer(h)
        BY <2>3, <3>1, <3>2, <3>3, <4>1 DEF InHand, Buffer
      <4> QED BY <1>d, <2>0, <4>2
    <3> QED BY <3>4, <3>5
  <2> QED BY <2>1, <2>2, <2>3
<1>7. ASSUME NEW g \in Server, NEW k \in 0 .. Len(puller[g].list), Process(g, k)
      PROVE  OrderAt(h)'
  <2>0. /\ UNCHANGED <<proxy, nextMsg>> /\ puller[g] \in PullerRecord /\ puller[g].at = "busy"
        /\ puller[g].list \in Seq(Nat) /\ Buffer(h)' = Buffer(h)
    BY <1>7, ReadTypes DEF Process, Buffer
  <2>1. CASE h # g
    <3>1. got'[h] = got[h] /\ puller'[h] = puller[h]
      BY <1>7, <2>1 DEF Process, TypeOK
    <3>2. InHand(h)' = InHand(h)
      BY <3>1 DEF InHand
    <3> QED BY <1>b, <2>0, <3>1, <3>2 DEF OrderAt
  <2>2. CASE h = g
    <3>1. InHand(g)' = <<>>
      BY <1>7, <2>0 DEF Process, InHand, TypeOK, PullerRecord
    <3>2. InHand(g) = puller[g].list
      BY <2>0 DEF InHand
    <3>3. CASE k = 0 \/ puller[g].list[k] = 0
      <4>1. got' = got
        BY <1>7, <3>3 DEF Process
      <4> QED BY <1>d, <2>0, <2>2, <3>1, <4>1
    <3>4. CASE ~(k = 0 \/ puller[g].list[k] = 0)
      <4>1. got'[g] = puller[g].list[k] /\ k \in 1 .. Len(puller[g].list)
        BY <1>7, <2>0, <3>4 DEF Process, TypeOK
      <4>2. got'[g] < nextMsg
        BY <1>b, <2>2, <3>2, <3>4, <4>1 DEF OrderAt, Ordered
      <4>3. Ordered(Buffer(g), got'[g], nextMsg)
        BY <1>b, <2>2, <3>2, <3>4, <4>1 DEF OrderAt, Ordered, Before
      <4>4. OrderAt(g)' <=> /\ got'[g] < nextMsg
                            /\ Ordered(<<>>, got'[g], nextMsg)
                            /\ Ordered(Buffer(g), got'[g], nextMsg)
                            /\ Before(<<>>, Buffer(g))
        BY <2>0, <2>2, <3>1 DEF OrderAt
      <4> QED BY <2>2, <4>2, <4>3, <4>4, OrderedShort
    <3> QED BY <3>3, <3>4
  <2> QED BY <2>1, <2>2
<1>8. ASSUME NEW g \in Server, Wake(g)  PROVE OrderAt(h)'
  <2>1. puller[g] \in PullerRecord
    BY ReadTypes
  <2>2. InHand(h)' = InHand(h)
    BY <1>8, <2>1 DEF Wake, InHand, TypeOK, PullerRecord
  <2>3. Buffer(h)' = Buffer(h)
    BY <1>8 DEF Wake, Buffer
  <2> QED BY <1>8, <1>d, <2>2, <2>3 DEF Wake
<1>9. ASSUME NEW S, Send(S)  PROVE OrderAt(h)'
  <2>0. nextMsg' = nextMsg + 1 /\ got' = got /\ got[h] < nextMsg /\ got[h] < nextMsg + 1
    BY <1>9, <1>b, <1>c DEF Send, OrderAt
  <2>1. CASE ~(h \in S /\ proxy[h] # Nil)
    <3>1. proxy'[h] = proxy[h] /\ puller'[h] = puller[h]
      BY <1>9, <2>1 DEF Send
    <3>2. InHand(h)' = InHand(h) /\ Buffer(h)' = Buffer(h)
      BY <3>1 DEF InHand, Buffer
    <3>3. /\ Ordered(InHand(h), got[h], nextMsg + 1) /\ Ordered(Buffer(h), got[h], nextMsg + 1)
          /\ Before(InHand(h), Buffer(h))
      BY <1>b, <1>c, OrderedLater DEF OrderAt
    <3> QED BY <2>0, <3>2, <3>3 DEF OrderAt
  <2>2. CASE h \in S /\ proxy[h] # Nil
    <3> DEFINE r == WithMsg(proxy[h], nextMsg)
    <3>1. proxy'[h] = CheckMsg(r) /\ puller'[h] = Fetched(puller[h], r)
      BY <1>9, <2>2 DEF Send
    <3>2. /\ r \in ProxyRecord /\ r.responser = proxy[h].responser
          /\ r.msgBuffer \in {Append(Buffer(h), nextMsg), Tail(Append(Buffer(h), nextMsg))}
      <4>1. proxy[h] \in ProxyRecord /\ Buffer(h) = proxy[h].msgBuffer
        BY <2>2, ReadTypes DEF Buffer
      <4> QED BY <1>c, <4>1, WithMsgType
    <3> HIDE DEF r
    <3>3. Ordered(r.msgBuffer, got[h], nextMsg + 1) /\ Before(InHand(h), r.msgBuffer)
      <4>1. Ordered(Append(Buffer(h), nextMsg), got[h], nextMsg + 1)
        BY <1>b, <1>c, OrderedAppend DEF OrderAt
      <4>2. Before(InHand(h), Append(Buffer(h), nextMsg))
        BY <1>b, <1>c, BeforeAppend DEF OrderAt
      <4>3. Append(Buffer(h), nextMsg) \in Seq(Nat) /\ Append(Buffer(h), nextMsg) # <<>>
        BY <1>c
      <4> QED BY <3>2, <4>1, <4>2, <4>3, OrderedTail
    <3>4. Ordered(InHand(h), got[h], nextMsg + 1)
      BY <1>b, <1>c, OrderedLater DEF OrderAt
    <3>5. CheckMsg(r) # Nil
      BY <3>2, CheckMsgType, NilApart
    <3>6. CASE Answers(r) /\ r.responser = "live"
      <4>1. CheckMsg(r).msgBuffer = <<>>
        BY <3>2, <3>6 DEF CheckMsg, ProxyRecord
      <4>2. Fetched(puller[h], r).at = "busy" /\ Fetched(puller[h], r).list = r.msgBuffer
        BY <3>6, ReadTypes DEF Fetched, PullerRecord
      <4>3. InHand(h)' = r.msgBuffer /\ Buffer(h)' = <<>>
        BY <3>1, <3>5, <4>1, <4>2 DEF InHand, Buffer
      <4> QED BY <2>0, <3>3, <4>3, OrderedShort DEF OrderAt
    <3>7. CASE Answers(r) /\ r.responser # "live"
      <4>1. CheckMsg(r).msgBuffer = <<>>
        BY <3>2, <3>7 DEF CheckMsg, ProxyRecord
      <4>2. InHand(h)' = InHand(h) /\ Buffer(h)' = <<>>
        BY <3>1, <3>5, <3>7, <4>1 DEF InHand, Buffer, Fetched
      <4> QED BY <2>0, <3>4, <4>2, OrderedShort DEF OrderAt
    <3>8. CASE ~Answers(r)
      <4>1. CheckMsg(r) = r /\ Fetched(puller[h], r) = puller[h]
        BY <3>8 DEF CheckMsg, Fetched
      <4>2. InHand(h)' = InHand(h) /\ Buffer(h)' = r.msgBuffer
        BY <3>1, <3>5, <4>1 DEF InHand, Buffer
      <4> QED BY <2>0, <3>3, <3>4, <4>2 DEF OrderAt
    <3> QED BY <3>6, <3>7, <3>8
  <2> QED BY <2>1, <2>2
<1>10. CASE UNCHANGED <<proxy, puller, nextMsg, got>>
  BY <1>10, <1>b DEF OrderAt, InHand, Buffer
<1>11. ASSUME NEW g \in Server, \/ GsStart(g) \/ TimePasses(g)
                                \/ \E n \in 0 .. MaxOnline : ReportOnline(g, n)
       PROVE  OrderAt(h)'
  BY <1>10, <1>11 DEF GsStart, ReportOnline, TimePasses
<1>12. CASE CheckServerTick
  BY <1>10, <1>12 DEF CheckServerTick
<1> QED BY <1>1, <1>2, <1>3, <1>4, <1>5, <1>6, <1>7, <1>8, <1>9, <1>10, <1>11, <1>12 DEF Next

-----------------------------------------------------------------------------
(* Together.                                                               *)
IInv == TypeOK /\ TreeOK /\ ProxyTracks /\ ResponserOK /\ OrderInv

(* The empty registry satisfies the invariant.                             *)
LEMMA InitIInv == Init => IInv
<1> SUFFICES ASSUME Init  PROVE IInv
  OBVIOUS
<1>1. TypeOK
  BY InitType
<1>2. TreeOK
  BY DEF Init, TreeOK
<1>3. ProxyTracks /\ ResponserOK
  BY DEF Init, ProxyTracks, ResponserOK, SignAt
<1>4. OrderInv
  <2> SUFFICES ASSUME NEW g \in Server  PROVE OrderAt(g)
    BY DEF OrderInv
  <2>1. InHand(g) = <<>> /\ Buffer(g) = <<>> /\ got[g] < nextMsg
    BY DEF Init, InHand, Buffer, NoPulling
  <2> QED BY <2>1, OrderedShort DEF OrderAt
<1> QED BY <1>1, <1>2, <1>3, <1>4 DEF IInv

(* It holds in every reachable state.                                      *)
LEMMA Invariance == Spec => []IInv
<1>1. IInv /\ [Next]_vars => IInv'
  BY TypeStep, TreeStep, ProxyStep, ResponserStep, OrderStep DEF IInv
<1> QED BY <1>1, InitIInv, PTL DEF Spec

(* The login server's tables, the entries of GSProxy and the processes of  *)
(* the game servers keep their types, whatever comes from where.           *)
THEOREM TypeCorrect == Spec => []TypeOK
<1>1. IInv => TypeOK
  BY DEF IInv
<1> QED BY <1>1, Invariance, PTL

(* The tree of kinds, nodes and servers that clients are shown is exactly  *)
(* the tree of the registered servers.                                     *)
THEOREM TreeCorrect == Spec => []TreeOK
<1>1. IInv => TreeOK
  BY DEF IInv
<1> QED BY <1>1, Invariance, PTL

(* The events on their way lead GSProxy to what serverManager knows, after *)
(* any number of registrations, time-outs and restarts.                    *)
THEOREM ProxyCorrect == Spec => []ProxyTracks
<1>1. IInv => ProxyTracks
  BY DEF IInv
<1> QED BY <1>1, Invariance, PTL

(* GSProxy keeps a pull only for a server that waits for it, and only as   *)
(* long as there is nothing to answer.                                     *)
THEOREM ResponserCorrect == Spec => []ResponserOK
<1>1. IInv => ResponserOK
  BY DEF IInv
<1> QED BY <1>1, Invariance, PTL

(* No message overtakes another and none is processed twice, for any       *)
(* buffer length and any number of messages.                               *)
THEOREM OrderCorrect == Spec => []MsgOrder
<1>1. IInv => MsgOrder
  BY OrderImplies DEF IInv
<1> QED BY <1>1, Invariance, PTL
=============================================================================
