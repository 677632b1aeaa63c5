---------------------------- MODULE GatewayProofs ----------------------------
(***************************************************************************)
(* The gateway for every set of clients and every limit: client_number is  *)
(* the number of clients with an open socket whenever the mailbox is empty *)
(* (snax/gateserver.lua), and, for both gate servers, whoever had logged   *)
(* in is reported as gone and no packet goes to a service that has exited. *)
(*                                                                         *)
(* None of these is inductive.  What an action of the gateway may rely on  *)
(* is what was so when the message was sent and cannot have changed since, *)
(* so the invariant says of each message in the mailbox what its presence  *)
(* means for the client (MailOK), of each client how the three books about *)
(* it agree (ClientOK), and of the numbers what they count: client_number  *)
(* the connections, and the packets in the mailbox and in the service's    *)
(* box together no more than the client sent.                              *)
(***************************************************************************)
EXTENDS Gateway, FiniteSetTheorems, SequenceTheorems, TLAPS

Message == [t : {"open", "forward", "data", "bad", "close", "kick"}, fd : Fd]

(* The places of a message in the mailbox.                                 *)
At(t, fd) == {i \in 1 .. Len(gbox) : gbox[i] = Msg(t, fd)}
Has(t, fd) == At(t, fd) # {}
Once(t, fd) == \A i, j \in At(t, fd) : i = j

Conn == {fd \in Fd : connection[fd] # "nil"}

-----------------------------------------------------------------------------
(* What a message in the mailbox says about its client.                    *)
OpenOK(fd) == Has("open", fd) =>
    /\ sock[fd] = "accepted" /\ fd \notin kill
    /\ connection[fd] = "nil" /\ agent[fd] = "none"
    /\ Once("open", fd)
ForwardOK(fd) == Has("forward", fd) => agent[fd] = "asked" /\ Once("forward", fd)
KickOK(fd) == Has("kick", fd) => agent[fd] = "leaving" /\ Once("kick", fd)
CloseOK(fd) == Has("close", fd) => sock[fd] = "shut"
MailOK(fd) == OpenOK(fd) /\ ForwardOK(fd) /\ KickOK(fd) /\ CloseOK(fd)

(* How the socket, the gateway's tables and the service agree.             *)
NewOK(fd) == sock[fd] = "new" => fd \notin kill /\ agent[fd] = "none"
ShutOK(fd) == connection[fd] # "nil" /\ sock[fd] = "shut" => Has("close", fd)
KnownOK(fd) ==
    /\ connection[fd] # "nil" => agent[fd] # "none"
    /\ ~Web /\ agent[fd] # "none" /\ sock[fd] # "shut" => connection[fd] # "nil"
EntryOK(fd) == entry[fd] = "agent" => agent[fd] \in {"running", "busy", "leaving", "gone"}
GoneOK(fd) == agent[fd] = "gone" => connection[fd] # "true"
ToldOK(fd) == fd \in session /\ agent[fd] \in {"leaving", "gone"} => fd \in told
ClientOK(fd) ==
    NewOK(fd) /\ ShutOK(fd) /\ KnownOK(fd) /\ EntryOK(fd) /\ GoneOK(fd) /\ ToldOK(fd)

NumberOK ==
    /\ IsFiniteSet(Conn) /\ Cardinality(Conn) <= number
    /\ ~Web => number = Cardinality(Conn)
PacketsOK(fd) == Cardinality(At("data", fd)) + inbox[fd] <= sent[fd]

BooksOK(fd) == MailOK(fd) /\ ClientOK(fd) /\ PacketsOK(fd)

IInv ==
    /\ TypeOK /\ gbox \in Seq(Message)
    /\ NumberOK
    /\ \A fd \in Fd : BooksOK(fd)

-----------------------------------------------------------------------------
(* The mailbox.  A message that is added is the last, and one that is      *)
(* taken the first: the places of the others stay or move by one.          *)
Kind == {"open", "forward", "data", "bad", "close", "kick"}

(* The messages of one kind about one socket can be counted.               *)
LEMMA AtFinite ==
    ASSUME gbox \in Seq(Message), NEW t, NEW fd
    PROVE  IsFiniteSet(At(t, fd)) /\ Cardinality(At(t, fd)) \in Nat
<1>1. Len(gbox) \in Nat /\ At(t, fd) \in SUBSET (1 .. Len(gbox))
  BY DEF At
<1>2. IsFiniteSet(1 .. Len(gbox))
  BY <1>1, FS_Interval
<1> QED
  BY <1>1, <1>2, FS_Subset, FS_CardinalityType

(* Posting a message adds one position.                                    *)
LEMMA PostedAt ==
    ASSUME gbox \in Seq(Message), NEW t \in Kind, NEW fd \in Fd, Post(t, fd),
           NEW u \in Kind, NEW g \in Fd
    PROVE  /\ gbox' \in Seq(Message)
           /\ At(u, g)' = IF u = t /\ g = fd THEN At(u, g) \cup {Len(gbox) + 1}
                          ELSE At(u, g)
           /\ Len(gbox) \in Nat /\ Len(gbox) + 1 \notin At(u, g)
<1>1. Msg(t, fd) \in Message /\ (Msg(u, g) = Msg(t, fd) <=> u = t /\ g = fd)
  BY DEF Msg, Message, Kind
<1>2. gbox' = Append(gbox, Msg(t, fd))
  BY DEF Post
<1> HIDE DEF Msg
<1>3. /\ gbox' \in Seq(Message) /\ Len(gbox) \in Nat /\ Len(gbox') = Len(gbox) + 1
      /\ \A i \in 1 .. Len(gbox) : gbox'[i] = gbox[i]
      /\ gbox'[Len(gbox) + 1] = Msg(t, fd)
  BY <1>1, <1>2
<1>4. Msg(u, g)' = Msg(u, g)
  BY DEF Msg
<1> QED
  BY <1>1, <1>3, <1>4 DEF At

(* So there is one more of its kind about its socket, and as many as       *)
(* before of the others.                                                   *)
LEMMA Posted ==
    ASSUME gbox \in Seq(Message), NEW t \in Kind, NEW fd \in Fd, Post(t, fd),
           NEW u \in Kind, NEW g \in Fd
    PROVE  /\ gbox' \in Seq(Message)
           /\ ~(u = t /\ g = fd) => /\ Has(u, g)' <=> Has(u, g)
                                    /\ Once(u, g)' <=> Once(u, g)
                                    /\ Cardinality(At(u, g))' = Cardinality(At(u, g))
           /\ Has(t, fd)' /\ (~Has(t, fd) => Once(t, fd)')
           /\ Cardinality(At(t, fd))' = Cardinality(At(t, fd)) + 1
<1>1. gbox' \in Seq(Message)
  BY PostedAt
<1>2. ASSUME ~(u = t /\ g = fd)
      PROVE  /\ Has(u, g)' <=> Has(u, g)
             /\ Once(u, g)' <=> Once(u, g)
             /\ Cardinality(At(u, g))' = Cardinality(At(u, g))
  <2>1. At(u, g)' = At(u, g)
    BY <1>2, PostedAt
  <2> QED
    BY <2>1 DEF Has, Once
<1>3. At(t, fd)' = At(t, fd) \cup {Len(gbox) + 1} /\ Len(gbox) + 1 \notin At(t, fd)
  BY PostedAt
<1>4. Has(t, fd)' /\ (~Has(t, fd) => Once(t, fd)')
  BY <1>3 DEF Has, Once
<1>5. Cardinality(At(t, fd))' = Cardinality(At(t, fd)) + 1
  BY <1>3, AtFinite, FS_AddElement
<1> QED
  BY <1>1, <1>2, <1>4, <1>5

(* Taking the head moves every position down by one.                       *)
LEMMA TakenAt ==
    ASSUME gbox \in Seq(Message), NEW t \in Kind, Take(t), NEW u \in Kind, NEW g \in Fd
    PROVE  /\ gbox' \in Seq(Message)
           /\ F \in Fd
           /\ 1 \in At(u, g) <=> u = t /\ g = F
           /\ \A i : i \in At(u, g)' <=> i \in Nat \ {0} /\ i + 1 \in At(u, g)
           /\ At(u, g) \subseteq Nat \ {0}
<1>1. gbox # <<>> /\ Head(gbox).t = t /\ gbox' = Tail(gbox)
  BY DEF Take
<1>2. Len(gbox) \in Nat /\ Len(gbox) # 0
  BY <1>1, EmptySeq
<1>3. /\ gbox' \in Seq(Message) /\ Len(gbox') = Len(gbox) - 1
      /\ \A i \in 1 .. Len(gbox) - 1 : gbox'[i] = gbox[i + 1]
      /\ Head(gbox) = gbox[1] /\ gbox[1] \in Message
  BY <1>1, <1>2
<1>4. F \in Fd /\ gbox[1] = Msg(t, F)
  BY <1>1, <1>3 DEF F, Message, Msg
<1>5. gbox[1] = Msg(u, g) <=> u = t /\ g = F
  BY <1>4 DEF Msg
<1>6. \A i : i \in At(u, g)' <=> i \in 1 .. Len(gbox') /\ gbox'[i] = Msg(u, g)
  BY DEF At, Msg
<1>7. \A i : i \in At(u, g) <=> i \in 1 .. Len(gbox) /\ gbox[i] = Msg(u, g)
  BY DEF At
<1>8. 1 \in At(u, g) <=> u = t /\ g = F
  BY <1>2, <1>5, <1>7
<1>9. ASSUME NEW i PROVE i \in At(u, g)' <=> i \in Nat \ {0} /\ i + 1 \in At(u, g)
  <2>1. i \in 1 .. Len(gbox) - 1 <=> i \in Nat \ {0} /\ i + 1 \in 1 .. Len(gbox)
    BY <1>2
  <2> QED
    BY <1>3, <1>6, <1>7, <2>1
<1>10. At(u, g) \subseteq Nat \ {0}
  BY <1>2, <1>7
<1> QED
  BY <1>3, <1>4, <1>8, <1>9, <1>10

(* The message that is taken is about a socket.                            *)
LEMMA TakenHead ==
    ASSUME gbox \in Seq(Message), NEW t \in Kind, Take(t)
    PROVE  F \in Fd
<1>1. gbox # <<>>
  BY DEF Take
<1>2. Head(gbox) \in Message
  BY <1>1
<1> QED
  BY <1>2 DEF F, Message

(* The places after the taken one, moved by one, are as many as they were. *)
LEMMA ShiftCount ==
    ASSUME NEW A, NEW B, IsFiniteSet(A), A \subseteq Nat \ {0},
           \A i : i \in B <=> i \in Nat \ {0} /\ i + 1 \in A
    PROVE  Cardinality(B) = IF 1 \in A THEN Cardinality(A) - 1 ELSE Cardinality(A)
<1> DEFINE f == [i \in A \ {1} |-> i - 1]
<1>1. \A i \in A \ {1} : f[i] \in B /\ f[i] = i - 1 /\ i \in Nat
  OBVIOUS
<1>2. \A j \in B : j \in Nat /\ j + 1 \in A \ {1} /\ f[j + 1] = j
  OBVIOUS
<1>3. f \in [A \ {1} -> B]
  BY <1>1
<1> HIDE DEF f
<1>4. f \in Injection(A \ {1}, B)
  BY <1>1, <1>3 DEF Injection, IsInjective
<1>5. f \in Surjection(A \ {1}, B)
  BY <1>2, <1>3 DEF Surjection
<1>6. ExistsBijection(A \ {1}, B)
  BY <1>4, <1>5 DEF ExistsBijection, Bijection
<1>7. IsFiniteSet(A \ {1})
  BY FS_RemoveElement
<1>8. Cardinality(B) = Cardinality(A \ {1})
  BY <1>6, <1>7, FS_Bijection
<1> QED
  BY <1>8, FS_RemoveElement

(* So there is one less of its kind about its socket.                      *)
LEMMA Taken ==
    ASSUME gbox \in Seq(Message), NEW t \in Kind, Take(t), NEW u \in Kind, NEW g \in Fd
    PROVE  /\ gbox' \in Seq(Message) /\ F \in Fd /\ Has(t, F)
           /\ Has(u, g)' => Has(u, g)
           /\ Once(u, g) => Once(u, g)'
           /\ ~(u = t /\ g = F) => /\ Has(u, g) => Has(u, g)'
                                   /\ Cardinality(At(u, g))' = Cardinality(At(u, g))
           /\ u = t /\ g = F => /\ Once(u, g) => ~Has(u, g)'
                                /\ Cardinality(At(u, g))' = Cardinality(At(u, g)) - 1
<1>1. /\ gbox' \in Seq(Message) /\ F \in Fd
      /\ 1 \in At(u, g) <=> u = t /\ g = F
      /\ \A i : i \in At(u, g)' <=> i \in Nat \ {0} /\ i + 1 \in At(u, g)
      /\ At(u, g) \subseteq Nat \ {0}
  BY TakenAt
<1>2. Has(t, F)
  BY <1>1, TakenAt DEF Has
<1>3. Cardinality(At(u, g))' = IF 1 \in At(u, g) THEN Cardinality(At(u, g)) - 1
                                ELSE Cardinality(At(u, g))
  BY <1>1, AtFinite, ShiftCount
<1>4. Has(u, g)' => Has(u, g)
  BY <1>1 DEF Has
<1>5. Once(u, g) => Once(u, g)'
  <2> SUFFICES ASSUME Once(u, g), NEW i \in At(u, g)', NEW j \in At(u, g)'
               PROVE  i = j
    BY DEF Once
  <2>1. i \in Nat /\ j \in Nat /\ i + 1 \in At(u, g) /\ j + 1 \in At(u, g)
    BY <1>1
  <2>2. i + 1 = j + 1
    BY <2>1 DEF Once
  <2> QED
    BY <2>1, <2>2
<1>6. ASSUME ~(u = t /\ g = F), Has(u, g) PROVE Has(u, g)'
  <2>1. PICK i \in At(u, g) : i # 1
    BY <1>1, <1>6 DEF Has
  <2>2. i - 1 \in Nat \ {0} /\ (i - 1) + 1 = i
    BY <1>1, <2>1
  <2> QED
    BY <1>1, <2>1, <2>2 DEF Has
<1>7. ASSUME u = t /\ g = F, Once(u, g) PROVE ~Has(u, g)'
  <2> SUFFICES ASSUME NEW i \in At(u, g)' PROVE FALSE
    BY DEF Has
  <2>1. 1 \in At(u, g) /\ i \in Nat \ {0} /\ i + 1 \in At(u, g)
    BY <1>1, <1>7
  <2>2. i + 1 = 1
    BY <1>7, <2>1 DEF Once
  <2> QED
    BY <2>1, <2>2
<1> QED
  BY <1>1, <1>2, <1>3, <1>4, <1>5, <1>6, <1>7

(* Nothing changes with the mailbox.                                       *)
LEMMA Kept ==
    ASSUME UNCHANGED gbox, NEW u, NEW g
    PROVE  /\ Has(u, g)' <=> Has(u, g)
           /\ Once(u, g)' <=> Once(u, g)
           /\ Cardinality(At(u, g))' = Cardinality(At(u, g))
<1>1. At(u, g)' = At(u, g)
  BY DEF At, Msg
<1> QED
  BY <1>1 DEF Has, Once

-----------------------------------------------------------------------------
(* client_number.  A step that leaves it alone and forgets no connection,  *)
(* or forgets some of them in gateserver_ws.lua.                           *)
LEMMA NumberKept ==
    ASSUME IInv, number' = number, Conn' \subseteq Conn, ~Web => Conn' = Conn
    PROVE  NumberOK'
<1>1. IsFiniteSet(Conn) /\ Cardinality(Conn) <= number /\ (~Web => number = Cardinality(Conn))
  BY DEF IInv, NumberOK
<1>2. IsFiniteSet(Conn') /\ Cardinality(Conn') <= Cardinality(Conn)
  BY <1>1, FS_Subset
<1>3. Cardinality(Conn) \in Nat /\ Cardinality(Conn') \in Nat /\ number \in Nat
  BY <1>1, <1>2, FS_CardinalityType DEF IInv, TypeOK
<1> QED
  BY <1>1, <1>2, <1>3 DEF NumberOK

(* A step that touches neither is the most frequent case.                  *)
LEMMA NumberSame ==
    ASSUME IInv, UNCHANGED <<connection, number>>
    PROVE  NumberOK'
<1>1. Conn' = Conn
  BY DEF Conn
<1> QED
  BY <1>1, NumberKept

USE DEF MailOK, OpenOK, ForwardOK, KickOK, CloseOK,
        ClientOK, NewOK, ShutOK, KnownOK, EntryOK, GoneOK, ToldOK

-----------------------------------------------------------------------------
(* Clients and the socket thread.                                          *)
LEMMA ClientConnectKeeps ==
    ASSUME IInv, NEW fd \in Fd, ClientConnect(fd)
    PROVE  IInv'
<1>1. Post("open", fd) /\ "open" \in Kind /\ UNCHANGED <<gate, agent, inbox, sent, session, told>>
  BY DEF ClientConnect, Kind
<1>2. TypeOK /\ gbox \in Seq(Message) /\ \A g \in Fd : BooksOK(g)
  BY DEF IInv
<1>3. TypeOK'
  BY <1>1, <1>2 DEF TypeOK, ClientConnect, gate
<1>4. NumberOK'
  BY <1>1, NumberSame DEF gate
<1>5. ASSUME NEW g \in Fd PROVE BooksOK(g)'
  <2>1. BooksOK(g)
    BY <1>2
  <2>2. ~Has("open", fd)
    BY <1>2 DEF ClientConnect, BooksOK
  <2>3. MailOK(g)'
    BY <1>1, <1>2, <2>1, <2>2, Posted DEF ClientConnect, BooksOK, TypeOK, Kind, gate
  <2>4. ClientOK(g)'
    BY <1>1, <1>2, <2>1, Posted DEF ClientConnect, BooksOK, TypeOK, Kind, gate
  <2>5. PacketsOK(g)'
    BY <1>1, <1>2, <2>1, Posted DEF BooksOK, PacketsOK, Kind
  <2> QED
    BY <2>3, <2>4, <2>5 DEF BooksOK
<1> QED
  BY <1>1, <1>2, <1>3, <1>4, <1>5, Posted DEF IInv

(* A client sends something.                                               *)
LEMMA ClientSendKeeps ==
    ASSUME IInv, NEW fd \in Fd, NEW t \in {"data", "bad"}, ClientSend(fd, t)
    PROVE  IInv'
<1>1. Post(t, fd) /\ t \in Kind /\ UNCHANGED <<sock, gate, agent, inbox, session, told>>
  BY DEF ClientSend, Kind
<1>2. TypeOK /\ gbox \in Seq(Message) /\ \A g \in Fd : BooksOK(g)
  BY DEF IInv
<1>3. TypeOK'
  BY <1>1, <1>2, GateAssumption DEF TypeOK, ClientSend, gate
<1>4. NumberOK'
  BY <1>1, NumberSame DEF gate
<1>5. ASSUME NEW g \in Fd PROVE BooksOK(g)'
  <2>1. BooksOK(g)
    BY <1>2
  <2>2. MailOK(g)'
    BY <1>1, <1>2, <2>1, Posted DEF BooksOK, Kind, gate
  <2>3. ClientOK(g)'
    BY <1>1, <1>2, <2>1, Posted DEF BooksOK, Kind, gate
  <2>4. PacketsOK(g)'
    <3>1. /\ Cardinality(At("data", g)) \in Nat /\ inbox[g] \in Nat /\ sent[g] \in Nat
          /\ Cardinality(At("data", g)) + inbox[g] <= sent[g]
      BY <1>2, <2>1, AtFinite DEF TypeOK, BooksOK, PacketsOK
    <3>2. sent'[g] = IF g = fd THEN sent[g] + 1 ELSE sent[g]
      BY <1>2 DEF TypeOK, ClientSend
    <3>3. Cardinality(At("data", g))' = IF t = "data" /\ g = fd
              THEN Cardinality(At("data", g)) + 1 ELSE Cardinality(At("data", g))
      BY <1>1, <1>2, Posted DEF Kind
    <3> QED
      BY <1>1, <3>1, <3>2, <3>3 DEF PacketsOK
  <2> QED
    BY <2>2, <2>3, <2>4 DEF BooksOK
<1> QED
  BY <1>1, <1>2, <1>3, <1>4, <1>5, Posted DEF IInv

(* The client closes the socket, or the socket thread does for the         *)
(* gateway: either way the message that says so is in the mailbox.         *)
LEMMA CloseKeeps ==
    ASSUME IInv, NEW fd \in Fd, ClientClose(fd) \/ SocketKill(fd)
    PROVE  IInv'
<1>1. /\ Post("close", fd) /\ "close" \in Kind
      /\ UNCHANGED <<connection, number, entry, exits, agent, inbox, sent, session, told>>
      /\ sock' = [sock EXCEPT ![fd] = "shut"] /\ kill' \subseteq kill
      /\ sock[fd] = "open" \/ fd \in kill
  BY DEF ClientClose, SocketKill, Kind, gate
<1>2. TypeOK /\ gbox \in Seq(Message) /\ \A g \in Fd : BooksOK(g)
  BY DEF IInv
<1>3. TypeOK'
  BY <1>1, <1>2 DEF TypeOK
<1>4. NumberOK'
  BY <1>1, NumberSame
<1>5. ASSUME NEW g \in Fd PROVE BooksOK(g)'
  <2>1. BooksOK(g)
    BY <1>2
  <2>2. ~Has("open", fd)
    BY <1>1, <1>2 DEF BooksOK
  <2>3. MailOK(g)'
    BY <1>1, <1>2, <2>1, <2>2, Posted DEF BooksOK, TypeOK, Kind
  <2>4. ClientOK(g)'
    BY <1>1, <1>2, <2>1, Posted DEF BooksOK, TypeOK, Kind
  <2>5. PacketsOK(g)'
    BY <1>1, <1>2, <2>1, Posted DEF BooksOK, PacketsOK, Kind
  <2> QED
    BY <2>3, <2>4, <2>5 DEF BooksOK
<1> QED
  BY <1>1, <1>2, <1>3, <1>4, <1>5, Posted DEF IInv

-----------------------------------------------------------------------------
(* MSG.open: the socket is still as the message found it, so a refused     *)
(* client leaves no trace but its socket to close, and an accepted one is  *)
(* one connection more.                                                    *)
LEMMA GateOpenKeeps ==
    ASSUME IInv, GateOpen
    PROVE  IInv'
<1>1. /\ Take("open") /\ "open" \in Kind
      /\ UNCHANGED <<sock, exits, inbox, sent, session, told>>
  BY DEF GateOpen, Kind
<1>2. TypeOK /\ gbox \in Seq(Message) /\ \A g \in Fd : BooksOK(g)
  BY DEF IInv
<1>3. PICK f \in Fd : f = F
  BY <1>1, <1>2, TakenHead
<1>4. /\ Has("open", f) /\ Once("open", f) /\ ~Has("open", f)'
      /\ sock[f] = "accepted" /\ connection[f] = "nil" /\ agent[f] = "none"
  BY <1>1, <1>2, <1>3, Taken DEF BooksOK
<1>5. CASE number >= MaxClient
  <2>1. kill' = kill \cup {f} /\ UNCHANGED <<connection, number, entry, agent>>
    BY <1>3, <1>5 DEF GateOpen
  <2>2. TypeOK' /\ NumberOK'
    BY <1>1, <1>2, <2>1, NumberSame DEF TypeOK
  <2>3. ASSUME NEW g \in Fd PROVE BooksOK(g)'
    <3>1. BooksOK(g)
      BY <1>2
    <3>2. MailOK(g)'
      BY <1>1, <1>2, <1>3, <1>4, <2>1, <3>1, Taken DEF BooksOK, Kind
    <3>3. ClientOK(g)'
      BY <1>1, <1>2, <1>3, <1>4, <2>1, <3>1, Taken DEF BooksOK, Kind
    <3>4. PacketsOK(g)'
      BY <1>1, <1>2, <3>1, Taken DEF BooksOK, PacketsOK, Kind
    <3> QED
      BY <3>2, <3>3, <3>4 DEF BooksOK
  <2> QED
    BY <1>1, <1>2, <2>2, <2>3, Taken DEF IInv
<1>6. CASE ~(number >= MaxClient)
  <2>1. /\ connection' = [connection EXCEPT ![f] = "true"]
        /\ number' = number + 1
        /\ entry' = [entry EXCEPT ![f] = "bare"]
        /\ agent' = [agent EXCEPT ![f] = "creating"]
        /\ kill' = kill
    BY <1>3, <1>6 DEF GateOpen
  <2>2. TypeOK'
    BY <1>1, <1>2, <1>6, <2>1, GateAssumption DEF TypeOK
  <2>3. NumberOK'
    <3>1. Conn' = Conn \cup {f} /\ f \notin Conn
      BY <1>2, <1>4, <2>1 DEF Conn, TypeOK
    <3>2. IsFiniteSet(Conn) /\ Cardinality(Conn) \in Nat /\ number \in Nat
      BY <1>2, FS_CardinalityType DEF IInv, NumberOK, TypeOK
    <3>3. IsFiniteSet(Conn') /\ Cardinality(Conn') = Cardinality(Conn) + 1
      BY <3>1, <3>2, FS_AddElement
    <3> QED
      BY <2>1, <3>2, <3>3 DEF IInv, NumberOK
  <2>4. ASSUME NEW g \in Fd PROVE BooksOK(g)'
    <3>1. BooksOK(g)
      BY <1>2
    <3>2. MailOK(g)'
      BY <1>1, <1>2, <1>3, <1>4, <2>1, <3>1, Taken DEF BooksOK, Kind, TypeOK
    <3>3. ClientOK(g)'
      BY <1>1, <1>2, <1>3, <1>4, <2>1, <3>1, Taken DEF BooksOK, Kind, TypeOK
    <3>4. PacketsOK(g)'
      BY <1>1, <1>2, <3>1, Taken DEF BooksOK, PacketsOK, Kind
    <3> QED
      BY <3>2, <3>3, <3>4 DEF BooksOK
  <2> QED
    BY <1>1, <1>2, <2>2, <2>3, <2>4, Taken DEF IInv
<1> QED
  BY <1>5, <1>6

(* CMD.forward: the service that asked is still waiting for the answer.    *)
LEMMA GateForwardKeeps ==
    ASSUME IInv, GateForward
    PROVE  IInv'
<1>1. /\ Take("forward") /\ "forward" \in Kind
      /\ UNCHANGED <<connection, number, kill, exits, inbox, sent, session, told>>
  BY DEF GateForward, Kind
<1>2. TypeOK /\ gbox \in Seq(Message) /\ \A g \in Fd : BooksOK(g)
  BY DEF IInv
<1>3. PICK f \in Fd : f = F
  BY <1>1, <1>2, TakenHead
<1>4. Once("forward", f) /\ ~Has("forward", f)' /\ agent[f] = "asked"
  BY <1>1, <1>2, <1>3, Taken DEF BooksOK
<1>5. /\ agent' = [agent EXCEPT ![f] = IF entry[f] = "nil" THEN "failed" ELSE "running"]
      /\ entry' = [entry EXCEPT ![f] = IF entry[f] = "nil" THEN "nil" ELSE "agent"]
  BY <1>2, <1>3 DEF GateForward, TypeOK
<1>6. /\ \A g \in Fd : g # f => sock'[g] = sock[g]
      /\ sock'[f] = sock[f] \/ (sock[f] = "accepted" /\ sock'[f] = "open")
      /\ sock' \in [Fd -> {"new", "accepted", "open", "shut"}]
  <2>1. sock \in [Fd -> {"new", "accepted", "open", "shut"}]
    BY <1>2 DEF TypeOK
  <2>2. \/ sock' = sock
        \/ sock' = [sock EXCEPT ![f] = "open"] /\ sock[f] = "accepted"
    BY <1>3, <2>1 DEF GateForward
  <2>3. CASE sock' = sock
    BY <2>1, <2>3
  <2>4. CASE sock' = [sock EXCEPT ![f] = "open"] /\ sock[f] = "accepted"
    BY <2>1, <2>4
  <2> QED
    BY <2>2, <2>3, <2>4
<1>7. TypeOK' /\ NumberOK'
  BY <1>1, <1>2, <1>5, <1>6, NumberSame DEF TypeOK
<1>8. ASSUME NEW g \in Fd PROVE BooksOK(g)'
  <2>1. BooksOK(g)
    BY <1>2
  <2>2. MailOK(g)'
    BY <1>1, <1>2, <1>3, <1>4, <1>5, <1>6, <2>1, Taken DEF BooksOK, Kind, TypeOK
  <2>3. ClientOK(g)'
    BY <1>1, <1>2, <1>3, <1>4, <1>5, <1>6, <2>1, Taken DEF BooksOK, Kind, TypeOK
  <2>4. PacketsOK(g)'
    BY <1>1, <1>2, <2>1, Taken DEF BooksOK, PacketsOK, Kind
  <2> QED
    BY <2>2, <2>3, <2>4 DEF BooksOK
<1> QED
  BY <1>1, <1>2, <1>7, <1>8, Taken DEF IInv

(* close_fd only forgets the client, and may leave an "exit" behind.       *)
LEMMA CloseFdFacts ==
    ASSUME TypeOK, NEW f \in Fd, CloseFd(f)
    PROVE  /\ entry' \in [Fd -> {"nil", "bare", "agent"}] /\ exits' \subseteq Fd
           /\ \A g \in Fd : entry'[g] = "agent" => entry[g] = "agent"
BY DEF CloseFd, TypeOK

(* dispatch_msg: a packet in the service's mailbox was one in the          *)
(* gateway's.                                                              *)
LEMMA GateMessageKeeps ==
    ASSUME IInv, GateMessage
    PROVE  IInv'
<1>1. /\ Take("data") /\ "data" \in Kind
      /\ UNCHANGED <<sock, connection, number, kill, agent, sent, session, told>>
  BY DEF GateMessage, Kind
<1>2. TypeOK /\ gbox \in Seq(Message) /\ \A g \in Fd : BooksOK(g)
  BY DEF IInv
<1>3. PICK f \in Fd : f = F
  BY <1>1, <1>2, TakenHead
<1>4. /\ entry' \in [Fd -> {"nil", "bare", "agent"}] /\ exits' \subseteq Fd
      /\ \A g \in Fd : entry'[g] = "agent" => entry[g] = "agent"
  <2>1. UNCHANGED <<exits, entry>> \/ CloseFd(f)
    BY <1>3 DEF GateMessage
  <2> QED
    BY <1>2, <2>1, CloseFdFacts DEF TypeOK
<1>5. inbox' = inbox \/ inbox' = [inbox EXCEPT ![f] = inbox[f] + 1]
  BY <1>3 DEF GateMessage
<1>6. ASSUME NEW g \in Fd
      PROVE  PacketsOK(g)' /\ inbox'[g] \in 0 .. MaxData
  <2>1. /\ Cardinality(At("data", g)) \in Nat
        /\ inbox[g] \in Nat /\ sent[g] \in 0 .. MaxData
        /\ Cardinality(At("data", g)) + inbox[g] <= sent[g]
    BY <1>2, AtFinite DEF TypeOK, BooksOK, PacketsOK
  <2>2. Cardinality(At("data", g))' = IF g = f THEN Cardinality(At("data", g)) - 1
                                       ELSE Cardinality(At("data", g))
    BY <1>1, <1>2, <1>3, Taken DEF Kind
  <2>3. inbox'[g] = inbox[g] \/ (g = f /\ inbox'[g] = inbox[g] + 1)
    <3>1. inbox \in [Fd -> 0 .. MaxData]
      BY <1>2 DEF TypeOK
    <3>2. CASE inbox' = inbox
      BY <3>2
    <3>3. CASE inbox' = [inbox EXCEPT ![f] = inbox[f] + 1]
      BY <3>1, <3>3
    <3> QED
      BY <1>5, <3>2, <3>3
  <2>4. g = f => Cardinality(At("data", g)) # 0
    BY <1>1, <1>2, <1>3, Taken, AtFinite, FS_EmptySet DEF Has
  <2>5. Cardinality(At("data", g))' + inbox'[g] <= sent[g]
    BY <2>1, <2>2, <2>3
  <2> QED
    BY <1>1, <2>1, <2>2, <2>3, <2>4, <2>5, GateAssumption DEF PacketsOK
<1>7. TypeOK' /\ NumberOK'
  <2>1. inbox' \in [Fd -> 0 .. MaxData]
    <3>1. inbox' = [g \in Fd |-> inbox'[g]]
      BY <1>2, <1>5 DEF TypeOK
    <3> QED
      BY <1>6, <3>1
  <2> QED
    BY <1>1, <1>2, <1>4, <2>1, NumberSame DEF TypeOK
<1>8. ASSUME NEW g \in Fd PROVE BooksOK(g)'
  <2>1. BooksOK(g)
    BY <1>2
  <2>2. MailOK(g)'
    BY <1>1, <1>2, <2>1, Taken DEF BooksOK, Kind
  <2>3. ClientOK(g)'
    BY <1>1, <1>2, <1>4, <2>1, Taken DEF BooksOK, Kind
  <2> QED
    BY <1>6, <2>2, <2>3 DEF BooksOK
<1> QED
  BY <1>1, <1>2, <1>7, <1>8, Taken DEF IInv

(* A packet that is too short makes the gate close the socket.             *)
LEMMA GateBadKeeps ==
    ASSUME IInv, GateBad
    PROVE  IInv'
<1>1. /\ Take("bad") /\ "bad" \in Kind
      /\ UNCHANGED <<sock, connection, number, kill, agent, inbox, sent, session, told>>
  BY DEF GateBad, Kind
<1>2. TypeOK /\ gbox \in Seq(Message) /\ \A g \in Fd : BooksOK(g)
  BY DEF IInv
<1>3. PICK f \in Fd : f = F
  BY <1>1, <1>2, TakenHead
<1>4. /\ entry' \in [Fd -> {"nil", "bare", "agent"}] /\ exits' \subseteq Fd
      /\ \A g \in Fd : entry'[g] = "agent" => entry[g] = "agent"
  <2>1. UNCHANGED <<exits, entry>> \/ CloseFd(f)
    BY <1>3 DEF GateBad
  <2> QED
    BY <1>2, <2>1, CloseFdFacts DEF TypeOK
<1>5. TypeOK' /\ NumberOK'
  BY <1>1, <1>2, <1>4, NumberSame DEF TypeOK
<1>6. ASSUME NEW g \in Fd PROVE BooksOK(g)'
  <2>1. BooksOK(g)
    BY <1>2
  <2>2. MailOK(g)'
    BY <1>1, <1>2, <2>1, Taken DEF BooksOK, Kind
  <2>3. ClientOK(g)'
    BY <1>1, <1>2, <1>4, <2>1, Taken DEF BooksOK, Kind
  <2>4. PacketsOK(g)'
    BY <1>1, <1>2, <2>1, Taken DEF BooksOK, PacketsOK, Kind
  <2> QED
    BY <2>2, <2>3, <2>4 DEF BooksOK
<1> QED
  BY <1>1, <1>2, <1>5, <1>6, Taken DEF IInv

(* MSG.close: a second report of a closed socket counts nothing.           *)
LEMMA GateCloseKeeps ==
    ASSUME IInv, GateClose
    PROVE  IInv'
<1>1. /\ Take("close") /\ "close" \in Kind
      /\ UNCHANGED <<sock, kill, agent, inbox, sent, session, told>>
  BY DEF GateClose, Kind
<1>2. TypeOK /\ gbox \in Seq(Message) /\ \A g \in Fd : BooksOK(g)
  BY DEF IInv
<1>3. PICK f \in Fd : f = F
  BY <1>1, <1>2, TakenHead
<1>4. /\ CloseFd(f) /\ connection' = [connection EXCEPT ![f] = "nil"]
      /\ number' = IF connection[f] # "nil" THEN number - 1 ELSE number
  BY <1>3 DEF GateClose
<1>5. /\ entry' \in [Fd -> {"nil", "bare", "agent"}] /\ exits' \subseteq Fd
      /\ \A g \in Fd : entry'[g] = "agent" => entry[g] = "agent"
  BY <1>2, <1>4, CloseFdFacts
<1>6. sock[f] = "shut"
  BY <1>1, <1>2, <1>3, Taken DEF BooksOK
<1>7. NumberOK' /\ number' \in 0 .. MaxClient
  <2>1. Conn' = Conn \ {f} /\ (f \in Conn <=> connection[f] # "nil")
    BY <1>2, <1>4 DEF Conn, TypeOK
  <2>2. /\ IsFiniteSet(Conn) /\ Cardinality(Conn) \in Nat /\ number \in 0 .. MaxClient
        /\ Cardinality(Conn) <= number /\ (~Web => number = Cardinality(Conn))
    BY <1>2, FS_CardinalityType DEF IInv, NumberOK, TypeOK
  <2>3. /\ IsFiniteSet(Conn')
        /\ Cardinality(Conn') = IF f \in Conn THEN Cardinality(Conn) - 1 ELSE Cardinality(Conn)
    BY <2>1, <2>2, FS_RemoveElement
  <2>4. f \in Conn => Cardinality(Conn) # 0
    BY <2>2, FS_EmptySet
  <2> QED
    BY <1>4, <2>1, <2>2, <2>3, <2>4, GateAssumption DEF NumberOK
<1>8. TypeOK'
  BY <1>1, <1>2, <1>4, <1>5, <1>7 DEF TypeOK
<1>9. ASSUME NEW g \in Fd PROVE BooksOK(g)'
  <2>1. BooksOK(g) /\ connection'[g] = IF g = f THEN "nil" ELSE connection[g]
    BY <1>2, <1>4 DEF TypeOK
  <2>2. MailOK(g)'
    BY <1>1, <1>2, <2>1, Taken DEF BooksOK, Kind
  <2>3. ClientOK(g)'
    BY <1>1, <1>2, <1>3, <1>5, <1>6, <2>1, Taken DEF BooksOK, Kind
  <2>4. PacketsOK(g)'
    BY <1>1, <1>2, <2>1, Taken DEF BooksOK, PacketsOK, Kind
  <2> QED
    BY <2>2, <2>3, <2>4 DEF BooksOK
<1> QED
  BY <1>1, <1>2, <1>7, <1>8, <1>9, Taken DEF IInv

-----------------------------------------------------------------------------
(* gateserver.closeclient asks the socket thread to close clients that are *)
(* connected; gateserver_ws.lua forgets them at once.                      *)
LEMMA CloseClientsFacts ==
    ASSUME IInv, NEW fds \in SUBSET Fd, CloseClients(fds)
    PROVE  /\ connection' \in [Fd -> {"nil", "true", "false"}]
           /\ \A g \in Fd : /\ connection'[g] # "nil" => connection[g] # "nil"
                            /\ ~Web /\ connection[g] # "nil" => connection'[g] # "nil"
                            /\ connection'[g] = "true" => connection[g] = "true"
                            /\ g \in fds => connection'[g] # "true"
           /\ kill' \subseteq Fd
           /\ \A g \in kill' : g \in kill \/ connection[g] # "nil"
           /\ number' = number => NumberOK'
<1>1. connection \in [Fd -> {"nil", "true", "false"}] /\ kill \subseteq Fd
  BY DEF IInv, TypeOK
<1>2. /\ connection' \in [Fd -> {"nil", "true", "false"}]
      /\ \A g \in Fd : connection'[g] = IF g \in fds /\ connection[g] = "true"
                                        THEN (IF Web THEN "nil" ELSE "false")
                                        ELSE connection[g]
      /\ kill' = kill \cup {g \in fds : connection[g] = "true"}
  BY <1>1 DEF CloseClients, Closable
<1>3. ASSUME number' = number PROVE NumberOK'
  <2>1. Conn' \subseteq Conn /\ (~Web => Conn' = Conn)
    BY <1>2 DEF Conn
  <2> QED
    BY <1>3, <2>1, NumberKept
<1> QED
  BY <1>1, <1>2, <1>3

(* CMD.kick: the service that called it is leaving.                        *)
LEMMA GateKickKeeps ==
    ASSUME IInv, GateKick
    PROVE  IInv'
<1>1. /\ Take("kick") /\ "kick" \in Kind
      /\ UNCHANGED <<sock, number, entry, exits, inbox, sent, session, told>>
  BY DEF GateKick, Kind
<1>2. TypeOK /\ gbox \in Seq(Message) /\ \A g \in Fd : BooksOK(g)
  BY DEF IInv
<1>3. PICK f \in Fd : f = F
  BY <1>1, <1>2, TakenHead
<1>4. CloseClients({f}) /\ agent' = [agent EXCEPT ![f] = "gone"]
  BY <1>3 DEF GateKick
<1>5. /\ connection' \in [Fd -> {"nil", "true", "false"}]
      /\ \A g \in Fd : /\ connection'[g] # "nil" => connection[g] # "nil"
                       /\ ~Web /\ connection[g] # "nil" => connection'[g] # "nil"
                       /\ connection'[g] = "true" => connection[g] = "true"
      /\ connection'[f] # "true"
      /\ kill' \subseteq Fd /\ \A g \in kill' : g \in kill \/ connection[g] # "nil"
      /\ NumberOK'
  BY <1>1, <1>4, CloseClientsFacts
<1>6. Once("kick", f) /\ ~Has("kick", f)' /\ agent[f] = "leaving"
  BY <1>1, <1>2, <1>3, Taken DEF BooksOK
<1>7. TypeOK'
  BY <1>1, <1>2, <1>4, <1>5 DEF TypeOK
<1>8. ASSUME NEW g \in Fd PROVE BooksOK(g)'
  <2>1. BooksOK(g) /\ agent'[g] = IF g = f THEN "gone" ELSE agent[g]
    BY <1>2, <1>4 DEF TypeOK
  <2>2. MailOK(g)'
    BY <1>1, <1>2, <1>3, <1>5, <1>6, <2>1, Taken DEF BooksOK, Kind
  <2>3. ClientOK(g)'
    BY <1>1, <1>2, <1>3, <1>5, <1>6, <2>1, Taken DEF BooksOK, Kind
  <2>4. PacketsOK(g)'
    BY <1>1, <1>2, <2>1, Taken DEF BooksOK, PacketsOK, Kind
  <2> QED
    BY <2>2, <2>3, <2>4 DEF BooksOK
<1> QED
  BY <1>1, <1>2, <1>5, <1>7, <1>8, Taken DEF IInv

(* kickAll and the timer close without a message of the client.            *)
LEMMA CloseSomeKeeps ==
    ASSUME IInv, KickAll \/ \E fd \in Fd : Timeout(fd)
    PROVE  IInv'
<1>1. UNCHANGED <<sock, gbox, number, agent, inbox, sent, session, told>>
  BY DEF KickAll, Timeout
<1>2. TypeOK /\ gbox \in Seq(Message) /\ \A g \in Fd : BooksOK(g)
  BY DEF IInv
<1>3. PICK fds \in SUBSET Fd : CloseClients(fds)
  BY DEF KickAll, Timeout
<1>4. /\ connection' \in [Fd -> {"nil", "true", "false"}]
      /\ \A g \in Fd : /\ connection'[g] # "nil" => connection[g] # "nil"
                       /\ ~Web /\ connection[g] # "nil" => connection'[g] # "nil"
                       /\ connection'[g] = "true" => connection[g] = "true"
      /\ kill' \subseteq Fd /\ \A g \in kill' : g \in kill \/ connection[g] # "nil"
      /\ NumberOK'
  BY <1>1, <1>3, CloseClientsFacts
<1>5. /\ entry' \in [Fd -> {"nil", "bare", "agent"}] /\ exits' \subseteq Fd
      /\ \A g \in Fd : entry'[g] = "agent" => entry[g] = "agent"
  <2>1. UNCHANGED <<entry, exits>> \/ \E fd \in Fd : CloseFd(fd)
    BY DEF KickAll, Timeout
  <2> QED
    BY <1>2, <2>1, CloseFdFacts DEF TypeOK
<1>6. TypeOK'
  BY <1>1, <1>2, <1>4, <1>5 DEF TypeOK
<1>7. ASSUME NEW g \in Fd PROVE BooksOK(g)'
  <2>1. BooksOK(g)
    BY <1>2
  <2>2. MailOK(g)'
    BY <1>1, <1>4, <2>1, Kept DEF BooksOK
  <2>3. ClientOK(g)'
    BY <1>1, <1>4, <1>5, <2>1, Kept DEF BooksOK
  <2>4. PacketsOK(g)'
    BY <1>1, <2>1, Kept DEF BooksOK, PacketsOK
  <2> QED
    BY <2>2, <2>3, <2>4 DEF BooksOK
<1> QED
  BY <1>1, <1>2, <1>4, <1>6, <1>7 DEF IInv

-----------------------------------------------------------------------------
(* The connection service, where it sends nothing to the gateway.          *)
LEMMA AgentQuietKeeps ==
    ASSUME IInv, NEW fd \in Fd,
           AgentCreated(fd) \/ AgentRequest(fd) \/ \E login \in BOOLEAN : AgentAnswer(fd, login)
    PROVE  IInv'
<1>1. UNCHANGED <<sock, gbox, connection, number, entry, kill, exits, sent, told>>
  BY DEF AgentCreated, AgentRequest, AgentAnswer, gate
<1>2. TypeOK /\ gbox \in Seq(Message) /\ \A g \in Fd : BooksOK(g)
  BY DEF IInv
<1>3. /\ <<agent[fd], agent'[fd]>> \in
             {<<"creating", "starting">>, <<"running", "busy">>, <<"busy", "running">>}
      /\ \A g \in Fd : g # fd => agent'[g] = agent[g]
      /\ agent' \in [Fd -> {"none", "creating", "starting", "asked", "failed", "running",
                            "busy", "leaving", "gone"}]
  BY <1>2 DEF AgentCreated, AgentRequest, AgentAnswer, TypeOK
<1>4. /\ inbox' \in [Fd -> 0 .. MaxData]
      /\ \A g \in Fd : inbox'[g] <= inbox[g] /\ inbox'[g] \in Nat /\ inbox[g] \in Nat
  <2>1. inbox \in [Fd -> 0 .. MaxData]
    BY <1>2 DEF TypeOK
  <2>2. CASE inbox' = inbox
    BY <2>1, <2>2, GateAssumption
  <2>3. CASE AgentRequest(fd)
    BY <2>1, <2>3, GateAssumption DEF AgentRequest
  <2> QED
    BY <2>2, <2>3 DEF AgentCreated, AgentAnswer
<1>5. session' = session \/ session' = session \cup {fd}
  BY DEF AgentCreated, AgentRequest, AgentAnswer
<1>6. TypeOK' /\ NumberOK'
  BY <1>1, <1>2, <1>3, <1>4, <1>5, NumberSame DEF TypeOK
<1>7. ASSUME NEW g \in Fd PROVE BooksOK(g)'
  <2>1. BooksOK(g)
    BY <1>2
  <2>2. MailOK(g)'
    BY <1>1, <1>3, <2>1, Kept DEF BooksOK
  <2>3. ClientOK(g)'
    BY <1>1, <1>3, <1>5, <2>1, Kept DEF BooksOK
  <2>4. PacketsOK(g)'
    <3>1. Cardinality(At("data", g)) \in Nat /\ sent[g] \in Nat
      BY <1>2, AtFinite DEF TypeOK
    <3> QED
      BY <1>1, <1>4, <2>1, <3>1, Kept DEF BooksOK, PacketsOK
  <2> QED
    BY <2>2, <2>3, <2>4 DEF BooksOK
<1> QED
  BY <1>1, <1>2, <1>6, <1>7 DEF IInv

(* cmd_start asks the gateway, once, to forward the packets.               *)
LEMMA AgentStartKeeps ==
    ASSUME IInv, NEW fd \in Fd, AgentStart(fd)
    PROVE  IInv'
<1>1. /\ Post("forward", fd) /\ "forward" \in Kind
      /\ UNCHANGED <<sock, connection, number, entry, kill, exits, inbox, sent, session, told>>
      /\ agent[fd] = "starting" /\ agent' = [agent EXCEPT ![fd] = "asked"]
  BY DEF AgentStart, Kind, gate
<1>2. TypeOK /\ gbox \in Seq(Message) /\ \A g \in Fd : BooksOK(g)
  BY DEF IInv
<1>3. TypeOK' /\ NumberOK'
  BY <1>1, <1>2, NumberSame DEF TypeOK
<1>4. ASSUME NEW g \in Fd PROVE BooksOK(g)'
  <2>1. BooksOK(g) /\ agent'[g] = IF g = fd THEN "asked" ELSE agent[g]
    BY <1>1, <1>2 DEF TypeOK
  <2>2. ~Has("forward", fd)
    BY <1>1, <1>2 DEF BooksOK
  <2>3. MailOK(g)'
    BY <1>1, <1>2, <2>1, <2>2, Posted DEF BooksOK, Kind
  <2>4. ClientOK(g)'
    BY <1>1, <1>2, <2>1, Posted DEF BooksOK, Kind
  <2>5. PacketsOK(g)'
    BY <1>1, <1>2, <2>1, Posted DEF BooksOK, PacketsOK, Kind
  <2> QED
    BY <2>3, <2>4, <2>5 DEF BooksOK
<1> QED
  BY <1>1, <1>2, <1>3, <1>4, Posted DEF IInv

(* exit: the disconnection is dispatched before the gateway is asked to    *)
(* kick, and the service can have asked only once.                         *)
LEMMA AgentLeaveKeeps ==
    ASSUME IInv, NEW fd \in Fd, AgentRefused(fd) \/ AgentExit(fd)
    PROVE  IInv'
<1>1. /\ Post("kick", fd) /\ "kick" \in Kind
      /\ UNCHANGED <<sock, connection, number, entry, kill, inbox, sent, session>>
      /\ agent[fd] \in {"running", "busy"} /\ agent' = [agent EXCEPT ![fd] = "leaving"]
      /\ told' = IF fd \in session THEN told \cup {fd} ELSE told
      /\ exits' \subseteq exits
  BY DEF AgentRefused, AgentExit, Leave, Kind, gate
<1>2. TypeOK /\ gbox \in Seq(Message) /\ \A g \in Fd : BooksOK(g)
  BY DEF IInv
<1>3. TypeOK' /\ NumberOK'
  BY <1>1, <1>2, NumberSame DEF TypeOK
<1>4. ASSUME NEW g \in Fd PROVE BooksOK(g)'
  <2>1. BooksOK(g) /\ agent'[g] = IF g = fd THEN "leaving" ELSE agent[g]
    BY <1>1, <1>2 DEF TypeOK
  <2>2. ~Has("kick", fd)
    BY <1>1, <1>2 DEF BooksOK
  <2>3. MailOK(g)'
    BY <1>1, <1>2, <2>1, <2>2, Posted DEF BooksOK, Kind
  <2>4. ClientOK(g)'
    BY <1>1, <1>2, <2>1, Posted DEF BooksOK, Kind
  <2>5. PacketsOK(g)'
    BY <1>1, <1>2, <2>1, Posted DEF BooksOK, PacketsOK, Kind
  <2> QED
    BY <2>3, <2>4, <2>5 DEF BooksOK
<1> QED
  BY <1>1, <1>2, <1>3, <1>4, Posted DEF IInv

-----------------------------------------------------------------------------
(* A gateway without clients.                                              *)
LEMMA InvInit == Init => IInv
<1> SUFFICES ASSUME Init PROVE IInv
  OBVIOUS
<1>1. Conn = {} /\ \A t, fd : At(t, fd) = {}
  BY DEF Init, Conn, At
<1>2. IsFiniteSet({}) /\ Cardinality({}) = 0
  BY FS_EmptySet
<1>3. TypeOK /\ gbox \in Seq(Message)
  BY GateAssumption DEF Init, TypeOK
<1>4. NumberOK
  BY <1>1, <1>2 DEF Init, NumberOK
<1>5. ASSUME NEW fd \in Fd PROVE BooksOK(fd)
  <2>1. MailOK(fd)
    BY <1>1 DEF Has
  <2>2. ClientOK(fd)
    BY DEF Init
  <2>3. PacketsOK(fd)
    <3>1. Cardinality(At("data", fd)) = 0
      BY <1>1, <1>2
    <3>2. inbox[fd] = 0 /\ sent[fd] = 0
      BY DEF Init
    <3> QED
      BY <3>1, <3>2 DEF PacketsOK
  <2> QED
    BY <2>1, <2>2, <2>3 DEF BooksOK
<1> QED
  BY <1>3, <1>4, <1>5 DEF IInv

(* A step of nothing that is modelled here.                                *)
LEMMA StutterKeeps ==
    ASSUME IInv, UNCHANGED vars
    PROVE  IInv'
<1>1. UNCHANGED <<sock, kill, gbox, connection, number, entry, agent, exits, inbox, sent,
                  session, told>>
  BY DEF vars
<1>2. TypeOK' /\ NumberOK'
  BY <1>1, NumberSame DEF IInv, TypeOK
<1>3. ASSUME NEW g \in Fd PROVE BooksOK(g)'
  BY <1>1, Kept DEF IInv, BooksOK, PacketsOK
<1> QED
  BY <1>1, <1>2, <1>3 DEF IInv

(* Every step preserves the invariant.                                     *)
LEMMA InvNext == IInv /\ [Next]_vars => IInv'
<1> SUFFICES ASSUME IInv, [Next]_vars PROVE IInv'
  OBVIOUS
<1>1. CASE Gate
  BY <1>1, GateOpenKeeps, GateForwardKeeps, GateMessageKeeps, GateBadKeeps, GateCloseKeeps,
     GateKickKeeps DEF Gate
<1>2. CASE KickAll
  BY <1>2, CloseSomeKeeps
<1>3. ASSUME NEW fd \in Fd, Agent(fd) PROVE IInv'
  BY <1>3, AgentQuietKeeps, AgentStartKeeps, AgentLeaveKeeps DEF Agent
<1>4. ASSUME NEW fd \in Fd, Client(fd) PROVE IInv'
  BY <1>4, ClientConnectKeeps, ClientSendKeeps, CloseKeeps DEF Client
<1>5. ASSUME NEW fd \in Fd, SocketKill(fd) PROVE IInv'
  BY <1>5, CloseKeeps
<1>6. ASSUME NEW fd \in Fd, Timeout(fd) PROVE IInv'
  BY <1>6, CloseSomeKeeps
<1>7. CASE UNCHANGED vars
  BY <1>7, StutterKeeps
<1> QED
  BY <1>1, <1>2, <1>3, <1>4, <1>5, <1>6, <1>7 DEF Next

(* It holds in every reachable state.                                      *)
LEMMA Inductive == Spec => []IInv
BY InvInit, InvNext, PTL DEF Spec

-----------------------------------------------------------------------------
(* With an empty mailbox no close is on its way, so the connections that   *)
(* are counted are the clients whose sockets are open.                     *)
LEMMA CountedWhenIdle ==
    ASSUME IInv, ~Web
    PROVE  ClientsCounted
<1> SUFFICES ASSUME gbox = <<>>
             PROVE  number = Cardinality({fd \in Fd : agent[fd] # "none" /\ sock[fd] # "shut"})
  BY DEF ClientsCounted
<1>1. ASSUME NEW fd \in Fd PROVE ~Has("close", fd)
  BY DEF Has, At
<1>2. Conn = {fd \in Fd : agent[fd] # "none" /\ sock[fd] # "shut"}
  BY <1>1 DEF IInv, BooksOK, Conn
<1> QED
  BY <1>2 DEF IInv, NumberOK

(* snax/gateserver.lua, tcpGateway.lua and tcpConnection.lua, for any      *)
(* clients and any limit: client_number counts the clients with an open    *)
(* socket whenever the mailbox is empty, it and the service's mailbox keep *)
(* their bounds, and whoever had logged in is reported as gone.            *)
THEOREM ClientsCorrect == ~Web => (Spec => []ClientsOK)
<1> SUFFICES ASSUME ~Web PROVE Spec => []ClientsOK
  OBVIOUS
<1>1. IInv => ClientsOK
  BY CountedWhenIdle DEF IInv, BooksOK, ClientsOK, DisconnectTold, TypeOK
<1> QED
  BY <1>1, Inductive, PTL

(* Both gate servers: the bounds and the report of a disconnection do not  *)
(* depend on what gateserver_ws.lua leaves out of the count.               *)
THEOREM DisconnectCorrect == Spec => [](TypeOK /\ DisconnectTold)
<1>1. IInv => TypeOK /\ DisconnectTold
  BY DEF IInv, BooksOK, DisconnectTold, TypeOK
<1> QED
  BY <1>1, Inductive, PTL

(* Both gate servers: a packet that handler.message redirects goes to a    *)
(* connection service that has not exited, however the client's closing,   *)
(* the timer and the service's own end are ordered.                        *)
THEOREM PacketsCorrect == Spec => NoPacketLost
<1> DEFINE Step == \A fd \in Fd :
                      inbox'[fd] > inbox[fd] => agent[fd] \in {"running", "busy", "leaving"}
<1>1. ASSUME IInv, [Next]_vars PROVE [Step]_vars
  <2> SUFFICES ASSUME Next, NEW fd \in Fd, inbox'[fd] > inbox[fd]
               PROVE  agent[fd] \in {"running", "busy", "leaving"}
    BY <1>1
  <2>1. inbox \in [Fd -> 0 .. MaxData] /\ \A g \in Fd : BooksOK(g)
    BY <1>1 DEF IInv, TypeOK
  <2>2. inbox' # inbox /\ ~(inbox'[fd] = inbox[fd])
    BY <2>1, GateAssumption
  <2>3. ASSUME NEW g \in Fd, AgentRequest(g) PROVE FALSE
    BY <2>1, <2>3, GateAssumption DEF AgentRequest
  <2>4. GateMessage
    BY <2>2, <2>3 DEF Next, Gate, Agent, Client, GateOpen, GateForward, GateBad, GateClose,
       GateKick, KickAll, AgentCreated, AgentStart, AgentExit, AgentRefused, AgentAnswer,
       ClientConnect, ClientClose, ClientSend, SocketKill, Timeout
  <2>5. PICK f : f = F
    OBVIOUS
  <2>6. connection[f] = "true" /\ entry[f] = "agent" /\ inbox' = [inbox EXCEPT ![f] = @ + 1]
    BY <2>2, <2>4, <2>5 DEF GateMessage, Closable
  <2>7. fd = f
    BY <2>1, <2>2, <2>6
  <2> QED
    BY <2>1, <2>6, <2>7 DEF BooksOK
<1>2. IInv /\ [Next]_vars => [Step]_vars
  BY <1>1
<1>3. Spec => [][Step]_vars
  BY <1>2, Inductive, PTL DEF Spec
<1> QED
  BY <1>3 DEF NoPacketLost
=============================================================================
