------------------------- MODULE SocketServerProofs -------------------------
(***************************************************************************)
(* What SocketServer guarantees for every number of workers, slots,        *)
(* sockets and messages, every length of a message and every use: nothing  *)
(* that waits to be written is forgotten, a worker that writes to a        *)
(* descriptor itself writes to its own socket, the messages under way to a *)
(* socket are counted right, and the peer of a socket gets whole messages, *)
(* those of normal priority of one worker in order.                        *)
(***************************************************************************)
EXTENDS SocketServer, FiniteSetTheorems, SequenceTheorems, TLAPS

(* The socket types of socket_server.c.                                    *)
Types == {"invalid", "reserve", "plisten", "listen", "connecting", "connected",
          "halfclose", "paccept"}

(* A record of ss->slot, with anything in its three buffers.               *)
IsSlot(r) == r \in [type : Types, id : Nat, tcp : BOOLEAN, tag : Nat, cnt : Int,
                    high : {r.high}, low : {r.low}, dw : {r.dw},
                    wr : BOOLEAN, ep : BOOLEAN, lock : Sender \cup {None, Net}]
CmdRecord == [c : {"O", "L", "S", "K", "D", "P"}, id : Nat, m : Message \cup {None},
              sd : BOOLEAN]
ThRecord == [pc : {"idle", "setid", "try", "check", "write", "inc", "pipe"}, id : Nat,
             m : Message \cup {None}, c : {"O", "L", "D", "P", None}]
NetRecord == [pc : {"poll", "first", "close", "ctlclose", "clear", "connect", "unwatch"},
              s : Slot, id : Nat, ctl : BOOLEAN]
EvRecord == [s : Slot \cup {None}, read : BOOLEAN, write : BOOLEAN]

(* A request with a message sends it; a request of a reserved slot opens   *)
(* a socket there.                                                         *)
Sends(r) == r.c \in {"D", "P"} /\ r.m \in Message
Opens(r) == r.c \in {"O", "L"} /\ r.m = None

ThreadData(r) ==
    /\ r.pc = "setid" => Opens(r)
    /\ r.pc \in {"try", "check", "write", "inc"} => Sends(r)
    /\ r.pc = "pipe" => Opens(r) \/ Sends(r)

(* Every variable has its type, as far as the proofs need it.              *)
Shapes ==
    /\ use \in Uses
    /\ slot = [s \in Slot |-> slot[s]] /\ \A s \in Slot : IsSlot(slot[s])
    /\ th \in [Sender -> ThRecord] /\ \A t \in Sender : ThreadData(th[t])
    /\ pipe \in Seq(CmdRecord)
    /\ \A i \in DOMAIN pipe : pipe[i].c \in {"D", "P"} <=> pipe[i].m # None
    /\ net \in NetRecord /\ ev \in Seq(EvRecord)
    /\ alloc_id \in Nat /\ known \subseteq 1 .. alloc_id /\ sent \in Nat
    /\ crash \in {None, "sending", "slot"}

(* Who is about to open a socket in a slot.                                *)
Owns(t) == th[t].pc = "setid" \/ (th[t].pc = "pipe" /\ Opens(th[t]))
Opening(i) == pipe[i].c \in {"O", "L"}

(* Every reserved slot that somebody is going to fill is theirs alone: the *)
(* worker's from reserve_id until it has sent the command, then the        *)
(* command's.                                                              *)
Owned ==
    /\ \A t \in Sender :
           Owns(t) => slot[S(t)].type = "reserve" /\ th[t].id \in 1 .. alloc_id
    /\ \A i \in DOMAIN pipe :
           Opening(i) => /\ slot[HashId(pipe[i].id)].type = "reserve"
                         /\ pipe[i].id \in 1 .. alloc_id
    /\ \A t, u \in Sender : Owns(t) /\ Owns(u) /\ t # u => S(t) # S(u)
    /\ \A i, j \in DOMAIN pipe :
           Opening(i) /\ Opening(j) /\ i # j => HashId(pipe[i].id) # HashId(pipe[j].id)
    /\ \A t \in Sender, i \in DOMAIN pipe :
           Owns(t) /\ Opening(i) => S(t) # HashId(pipe[i].id)

(* The socket thread has freed the lists and is about to take the lock.    *)
Closing(s) == net.pc \in {"close", "ctlclose"} /\ net.s = s
ClosingLive == \A s \in Slot : Closing(s) => slot[s].type \notin {"invalid", "reserve"}

(* A worker between trylock and unlock has the lock, and while it writes   *)
(* the socket under it stays open and registered.                          *)
Locked ==
    \A t \in Sender :
        /\ th[t].pc \in {"check", "write"} => slot[S(t)].lock = t
        /\ th[t].pc = "write" => /\ slot[S(t)].id = th[t].id
                                 /\ slot[S(t)].type \in {"connected", "halfclose"}
                                 /\ slot[S(t)].ep

(* What waits in a socket is watched: the write event of a socket that is  *)
(* open, or will be, is looked for, unless workers write before they are   *)
(* told that it is open.                                                   *)
EmptyRec(r) == r.high = <<>> /\ r.low = <<>> /\ r.dw = <<>>
Watched(r) ==
    /\ r.type \in {"connected", "halfclose"} => EmptyRec(r) \/ ((r.wr \/ Early) /\ r.ep)
    /\ r.type = "connecting" => r.wr /\ r.ep
    /\ r.type \in {"paccept", "plisten", "listen"} => EmptyRec(r)
WatchInv ==
    \A s \in Slot : /\ slot[s].type = "connected" => slot[s].ep
                    /\ ~Closing(s) => Watched(slot[s])

(* A socket that a service can send to.                                    *)
Told(id) == id \in known /\ ~(use.listen /\ id = 1)
(* A request for a socket no service can send to yet.                      *)
Fresh(r) ==
    /\ r.c = "O" => r.id \notin known
    /\ r.c = "L" => use.listen /\ r.id = 1
(* Services send to sockets they have been told of only, and these are not *)
(* about to be opened.                                                     *)
KnownInv ==
    /\ \A t \in Sender : th[t].pc # "idle" /\ th[t].m # None => Told(th[t].id)
    /\ \A i \in DOMAIN pipe : pipe[i].m # None => Told(pipe[i].id)
    /\ \A t \in Sender : Owns(t) => Fresh(th[t])
    /\ \A i \in DOMAIN pipe : Opening(i) => Fresh(pipe[i])
    /\ \A s \in Slot : ~slot[s].tcp => ~Told(slot[s].id)

(* A slot has a socket that belongs there, with the tag of its id.         *)
TagInv ==
    \A s \in Slot :
        /\ slot[s].id <= alloc_id
        /\ slot[s].id # 0 => HashId(slot[s].id) = s
        /\ slot[s].tcp => slot[s].id # 0 /\ slot[s].tag = IdTag(slot[s].id)
        /\ slot[s].type \notin {"invalid", "reserve"} => slot[s].tcp

(* The messages for a socket in the pipe, and those on their way into it.  *)
InPipe(p, id) == {i \in 1 .. Len(p) : p[i].m # None /\ p[i].id = id}
AtPipe(f, id) == {t \in Sender : f[t].pc = "pipe" /\ f[t].m # None /\ f[t].id = id}
CountInv ==
    \A s \in Slot : slot[s].tcp =>
        slot[s].cnt = Cardinality(InPipe(pipe, slot[s].id)) + Cardinality(AtPipe(th, slot[s].id))

(* report_connect is between its unlocked steps: the socket is connected,  *)
(* and as no service has been told of it, nothing is written to it before  *)
(* its write event is given up.                                            *)
Arriving == net.pc \in {"connect", "unwatch"}
ConnInv ==
    /\ Arriving => slot[net.s].type = "connected"
    /\ ~Early => /\ \A s \in Slot : slot[s].type = "connecting" => ~Told(slot[s].id)
                 /\ Arriving => ~Told(slot[net.s].id)
                 /\ net.pc = "unwatch" => EmptyRec(slot[net.s])

(* The inductive invariant is Inv /\ ConnInv.  WatchInv is about a process *)
(* that runs.                                                              *)
Core == Owned /\ Locked /\ TagInv /\ (~Early => KnownInv /\ CountInv)
Inv ==
    /\ Shapes /\ Core /\ ClosingLive
    /\ crash = None => WatchInv
    /\ ~Early => crash # "sending"

-----------------------------------------------------------------------------
(* The fields of a use have their types.                                   *)
LEMMA SlotsType ==
    ASSUME use \in Uses
    PROVE  /\ use.slots \in Nat /\ use.slots > 0 /\ use.msgs \in Nat
           /\ use.senders \subseteq Sender /\ use.priority \subseteq {"D", "P"}
           /\ use.kill \subseteq BOOLEAN /\ use.listen \in BOOLEAN
BY UseAssumption

(* An id has a slot and a tag.                                             *)
LEMMA HashType ==
    ASSUME use \in Uses, NEW id \in Nat
    PROVE  HashId(id) \in Slot /\ IdTag(id) \in Nat
BY SlotsType DEF HashId, IdTag, Slot

(* Slot and tag together give the id back, so a socket is known by them.   *)
LEMMA SameId ==
    ASSUME use \in Uses, NEW a \in Nat, NEW b \in Nat,
           HashId(a) = HashId(b), IdTag(a) = IdTag(b)
    PROVE  a = b
BY SlotsType DEF HashId, IdTag

(* The types are those of the run, and the run does not change its use.    *)
LEMMA SameUse ==
    ASSUME use' = use
    PROVE  /\ Slot' = Slot /\ Message' = Message /\ Unit' = Unit
           /\ CmdRecord' = CmdRecord /\ ThRecord' = ThRecord
           /\ NetRecord' = NetRecord /\ EvRecord' = EvRecord
<1>1. Slot' = Slot /\ Message' = Message
  BY DEF Slot, Message
<1>2. Unit' = Unit
  BY <1>1 DEF Unit
<1> QED
  BY <1>1, <1>2 DEF CmdRecord, ThRecord, NetRecord, EvRecord

(* A command without a message can be told from one with a message.        *)
LEMMA NoMessage == None \notin Message
BY NoneAssumption DEF Message

(* A message is Units units long.                                          *)
LEMMA UnitsType ==
    ASSUME NEW m \in Message
    PROVE  UnitsOf(m) \in Seq(Unit) /\ Len(UnitsOf(m)) = Units
<1>1. Units \in Nat
  BY ModeAssumption
<1>2. UnitsOf(m) \in [1 .. Units -> Unit]
  BY DEF UnitsOf, Unit
<1> QED
  BY <1>1, <1>2

(* The record is about the same socket and only its buffers differ.        *)
SameSocket(r, q) ==
    q.type = r.type /\ q.id = r.id /\ q.tcp = r.tcp /\ q.tag = r.tag /\ q.cnt = r.cnt
    /\ q.ep = r.ep /\ q.lock = r.lock

(* What a direct write left over joins the high list.                      *)
LEMMA MergedType ==
    ASSUME NEW r, IsSlot(r)
    PROVE  /\ IsSlot(Merged(r)) /\ SameSocket(r, Merged(r))
           /\ Merged(r).dw = <<>>
           /\ EmptyRec(r) => EmptyRec(Merged(r))
<1>1. r.dw = <<>> /\ r.high = <<>> => r.dw \o r.high = <<>>
  OBVIOUS
<1> QED
  BY <1>1 DEF Merged, IsSlot, SameSocket, EmptyRec

(* Freeing the lists leaves everything else of the socket.                 *)
LEMMA FreedType ==
    ASSUME NEW r, IsSlot(r)
    PROVE  /\ IsSlot(Freed(r)) /\ SameSocket(r, Freed(r)) /\ Freed(r).wr = r.wr
           /\ Freed(r).dw = r.dw
BY DEF Freed, IsSlot, SameSocket

(* Raising the rest of a low message moves units between the lists only.   *)
LEMMA RaiseType ==
    ASSUME NEW r, IsSlot(r)
    PROVE  /\ IsSlot(RaiseUncomplete(r)) /\ SameSocket(r, RaiseUncomplete(r))
           /\ RaiseUncomplete(r).dw = r.dw
           /\ r.high = <<>> /\ r.low = <<>> => RaiseUncomplete(r) = r
BY DEF RaiseUncomplete, SameSocket, IsSlot

(* After a write of the socket thread the write event is wanted as long as *)
(* something is left.                                                      *)
LEMMA DrainType ==
    ASSUME NEW r, IsSlot(r), NEW k \in Nat
    PROVE  /\ IsSlot(Drain(r, k)) /\ SameSocket(r, Drain(r, k))
           /\ Drain(r, k).dw = r.dw
           /\ Drain(r, k).high # <<>> \/ Drain(r, k).low # <<>> => Drain(r, k).wr
           /\ r.high = <<>> /\ r.low = <<>> => Drain(r, k).high = <<>> /\ Drain(r, k).low = <<>>
<1> DEFINE h == IF k < Len(r.high) THEN k ELSE Len(r.high)
           rest == [r EXCEPT !.high = SubSeq(@, h + 1, Len(@)),
                             !.low = SubSeq(@, k - h + 1, Len(@))]
<1>1. r.high = <<>> => h = 0
  OBVIOUS
<1>2. Drain(r, k) = [RaiseUncomplete(rest) EXCEPT !.wr = rest.high # <<>> \/ rest.low # <<>>]
  BY DEF Drain
<1>3. r.high = <<>> => SubSeq(r.high, h + 1, Len(r.high)) = <<>>
  BY <1>1
<1>4. r.high = <<>> /\ r.low = <<>> => SubSeq(r.low, k - h + 1, Len(r.low)) = <<>>
  <2>1. SubSeq(<<>>, k + 1, 0) = <<>>
    OBVIOUS
  <2> QED
    BY <1>1, <2>1
<1> HIDE DEF h
<1>5. /\ IsSlot(rest) /\ SameSocket(r, rest) /\ rest.dw = r.dw
      /\ rest.high = SubSeq(r.high, h + 1, Len(r.high))
      /\ rest.low = SubSeq(r.low, k - h + 1, Len(r.low))
  BY DEF IsSlot, SameSocket
<1> HIDE DEF rest
<1>6. /\ IsSlot(RaiseUncomplete(rest)) /\ SameSocket(rest, RaiseUncomplete(rest))
      /\ RaiseUncomplete(rest).dw = rest.dw
      /\ rest.high = <<>> /\ rest.low = <<>> => RaiseUncomplete(rest) = rest
  BY <1>5, RaiseType
<1>7. IsSlot(Drain(r, k)) /\ SameSocket(r, Drain(r, k)) /\ Drain(r, k).dw = r.dw
  BY <1>2, <1>5, <1>6 DEF IsSlot, SameSocket
<1>8. /\ Drain(r, k).high = RaiseUncomplete(rest).high
      /\ Drain(r, k).low = RaiseUncomplete(rest).low
      /\ Drain(r, k).wr = (rest.high # <<>> \/ rest.low # <<>>)
  BY <1>2, <1>6 DEF IsSlot
<1> QED
  BY <1>3, <1>4, <1>5, <1>6, <1>7, <1>8

(* What new_fd makes of a slot.                                            *)
NewSocket(r, q, id, type) ==
    /\ IsSlot(q) /\ q.id = id /\ q.tcp /\ q.tag = IdTag(id) /\ q.cnt = 0
    /\ q.dw = <<>> /\ q.type = type /\ q.high = r.high /\ q.low = r.low
    /\ q.lock = r.lock
    /\ (q.wr <=> type = "connecting") /\ (q.ep <=> type \notin {"paccept", "plisten"})

(* new_fd makes a new socket of a slot, whatever was there.                *)
LEMMA NewFdType ==
    ASSUME use \in Uses, NEW r, IsSlot(r), NEW id \in Nat,
           NEW type \in {"connected", "connecting", "paccept", "plisten"}
    PROVE  NewSocket(r, NewFd(r, id, type), id, type)
<1> DEFINE q == NewFd(r, id, type)
<1>1. IdTag(id) \in Nat /\ type \in Types
  BY HashType DEF Types
<1>2. IsSlot(q)
  <2> DEFINE r1 == [r EXCEPT !.id = id, !.tcp = TRUE]
             r2 == [r1 EXCEPT !.tag = IdTag(id)]
             r3 == [r2 EXCEPT !.cnt = 0]
             r4 == [r3 EXCEPT !.dw = <<>>, !.type = type]
             r5 == [r4 EXCEPT !.wr = (type = "connecting")]
  <2>1. q = [r5 EXCEPT !.ep = (type \notin {"paccept", "plisten"})]
    BY DEF NewFd
  <2>2. IsSlot(r1)
    BY <1>1 DEF IsSlot
  <2> HIDE DEF r1
  <2>3. IsSlot(r2)
    BY <1>1, <2>2 DEF IsSlot
  <2> HIDE DEF r2
  <2>4. IsSlot(r3)
    BY <2>3 DEF IsSlot
  <2> HIDE DEF r3
  <2>5. IsSlot(r4)
    BY <1>1, <2>4 DEF IsSlot
  <2> HIDE DEF r4
  <2>6. IsSlot(r5)
    BY <2>5 DEF IsSlot
  <2> HIDE DEF r5, q
  <2> QED
    BY <2>1, <2>6 DEF IsSlot
<1>3. /\ q.id = id /\ q.tcp /\ q.tag = IdTag(id) /\ q.cnt = 0
      /\ q.dw = <<>> /\ q.type = type /\ q.high = r.high /\ q.low = r.low
      /\ q.lock = r.lock
  BY DEF NewFd, IsSlot
<1>4. (q.wr <=> type = "connecting") /\ (q.ep <=> type \notin {"paccept", "plisten"})
  BY DEF NewFd, IsSlot
<1> QED
  BY <1>2, <1>3, <1>4 DEF NewSocket

(* The first message for an open socket makes the socket thread look for   *)
(* the write event.                                                        *)
LEMMA AppendedType ==
    ASSUME NEW r, IsSlot(r), NEW c, NEW m, NEW q, q = Appended(r, c, m)
    PROVE  /\ IsSlot(q) /\ SameSocket(r, q) /\ q.dw = r.dw
           /\ q.wr <=> r.wr \/ (r.high = <<>> /\ r.low = <<>> /\ r.type = "connected")
BY DEF Appended, IsSlot, SameSocket

-----------------------------------------------------------------------------
(* No socket is being closed.                                              *)
Calm == net.pc \notin {"close", "ctlclose"}

(* A slot gets another record.                                             *)
LEMMA SlotPut ==
    ASSUME Shapes, use' = use, NEW s \in Slot, NEW q, IsSlot(q),
           slot' = [slot EXCEPT ![s] = q]
    PROVE  /\ (slot = [u \in Slot |-> slot[u]] /\ \A u \in Slot : IsSlot(slot[u]))'
           /\ slot'[s] = q /\ \A u \in Slot : u # s => slot'[u] = slot[u]
BY SameUse DEF Shapes, IsSlot

(* A step of the socket thread on one slot.                                *)
LEMMA NetSlot ==
    ASSUME Inv, crash = None, use' = use, Calm, NEW s \in Slot, NEW q, IsSlot(q),
           slot' = [slot EXCEPT ![s] = q],
           ~Calm' => net'.s = s /\ q.type \notin {"invalid", "reserve"},
           q.type = "connected" => q.ep,
           Calm' => Watched(q)
    PROVE  WatchInv' /\ ClosingLive'
<1>1. slot'[s] = q /\ \A u \in Slot : u # s => slot'[u] = slot[u]
  BY SlotPut DEF Inv
<1>2. Slot' = Slot
  BY SameUse
<1>3. \A u \in Slot : Closing(u)' => u = s /\ ~Calm'
  BY DEF Closing, Calm
<1>4. \A u \in Slot : ~Closing(u)
  BY DEF Closing, Calm
<1>5. WatchInv
  BY DEF Inv
<1>6. Calm' => Watched(q)
  OBVIOUS
<1>7. Closing(s)' <=> ~Calm'
  BY DEF Closing, Calm
<1>8. \A u \in Slot : u # s => Watched(slot[u])' /\ (slot[u].type = "connected" => slot[u].ep)'
  BY <1>1, <1>4, <1>5 DEF WatchInv, Watched, EmptyRec
<1>9. Calm' => Watched(slot[s])'
  BY <1>1, <1>6 DEF Watched, EmptyRec
<1>10. WatchInv'
  BY <1>1, <1>2, <1>3, <1>7, <1>8, <1>9 DEF WatchInv
<1>11. ClosingLive'
  BY <1>1, <1>2, <1>3, <1>7 DEF ClosingLive
<1> QED
  BY <1>10, <1>11

(* The socket thread takes a command or leaves the pipe alone.             *)
Popped == pipe' = pipe \/ (pipe # <<>> /\ pipe' = Tail(pipe))

(* A step of the socket thread that opens no socket leaves every slot with *)
(* its socket, or frees it: Kept.  It is mild if it also leaves the        *)
(* reserved slots reserved and counts no message.                          *)
KeptRec(r, q) ==
    /\ q.id = r.id /\ q.tcp = r.tcp /\ q.tag = r.tag
    /\ q.type \notin {"invalid", "reserve"} => r.type \notin {"invalid", "reserve"}
    /\ r.lock \in Sender => /\ q.lock = r.lock /\ (r.ep => q.ep)
                            /\ r.type \in {"connected", "halfclose"}
                                   => q.type \in {"connected", "halfclose"}

Kept ==
    /\ \A s \in Slot : KeptRec(slot[s], slot'[s])
    /\ th' = th /\ use' = use /\ alloc_id' = alloc_id /\ Popped
    /\ known \subseteq known'
    /\ \A id \in known' \ known :
           \E s \in Slot : slot[s].id = id /\ slot[s].tcp /\ slot[s].type # "reserve"

(* The command it takes has no message.                                    *)
NoMessageTaken == pipe' = pipe \/ Head(pipe).m = None
USE DEF NoMessageTaken

MildRec(r, q) ==
    KeptRec(r, q) /\ q.cnt = r.cnt /\ (r.type = "reserve" => q.type = "reserve")
Mild == Kept /\ NoMessageTaken /\ \A s \in Slot : MildRec(slot[s], slot'[s])

(* What is left in the pipe was there before.                              *)
LEMMA PoppedProps ==
    ASSUME pipe \in Seq(CmdRecord), Popped, use' = use
    PROVE  /\ pipe' \in Seq(CmdRecord)'
           /\ DOMAIN pipe = 1 .. Len(pipe) /\ DOMAIN pipe' = 1 .. Len(pipe') /\ Len(pipe') \in Nat
           /\ Len(pipe) \in Nat
           /\ \E d \in {0, 1} : /\ Len(pipe') = Len(pipe) - d
                                /\ (d = 0) = (pipe' = pipe)
                                /\ \A i \in DOMAIN pipe' : i + d \in DOMAIN pipe
                                                           /\ pipe'[i] = pipe[i + d]
<1>1. CmdRecord' = CmdRecord
  BY SameUse
<1>2. CASE pipe' = pipe
  BY <1>1, <1>2
<1>3. CASE pipe # <<>> /\ pipe' = Tail(pipe)
  <2>1. /\ Len(pipe) \in Nat /\ Len(pipe) > 0 /\ Len(pipe') = Len(pipe) - 1
        /\ pipe' \in Seq(CmdRecord)
        /\ \A i \in 1 .. Len(pipe') : pipe'[i] = pipe[i + 1]
    BY <1>3, HeadTailProperties, EmptySeq, LenProperties
  <2>2. pipe' # pipe
    BY <2>1
  <2> QED
    BY <1>1, <2>1, <2>2, LenProperties
<1> QED
  BY <1>2, <1>3 DEF Popped

(* The commands in the pipe name slots.                                    *)
LEMMA PipeType ==
    ASSUME Shapes
    PROVE  /\ DOMAIN pipe = 1 .. Len(pipe) /\ Len(pipe) \in Nat
           /\ \A i \in DOMAIN pipe :
                  /\ pipe[i] \in CmdRecord /\ pipe[i].id \in Nat
                  /\ HashId(pipe[i].id) \in Slot
<1>1. DOMAIN pipe = 1 .. Len(pipe) /\ Len(pipe) \in Nat
  BY LenProperties DEF Shapes
<1>2. \A i \in DOMAIN pipe : pipe[i] \in CmdRecord
  BY <1>1, ElementOfSeq DEF Shapes
<1>3. \A i \in DOMAIN pipe : pipe[i].id \in Nat
  BY <1>2 DEF CmdRecord
<1> QED
  BY <1>1, <1>2, <1>3, HashType DEF Shapes

(* So do the workers.                                                      *)
LEMMA ThType ==
    ASSUME Shapes, NEW t \in Sender
    PROVE  th[t] \in ThRecord /\ th[t].id \in Nat /\ S(t) \in Slot /\ ThreadData(th[t])
BY HashType DEF Shapes, ThRecord, S

(* A step that keeps the sockets and the reserved slots keeps their        *)
(* owners.                                                                 *)
LEMMA KeptOwned ==
    ASSUME Shapes, Owned, Kept,
           \A s \in Slot : slot[s].type = "reserve" => slot'[s].type = "reserve"
    PROVE  Owned'
<1>1. PICK d \in {0, 1} : \A i \in DOMAIN pipe' : i + d \in DOMAIN pipe /\ pipe'[i] = pipe[i + d]
  BY PoppedProps DEF Shapes, Kept
<1>2. DOMAIN pipe' \subseteq Int
  <2>1. DOMAIN pipe' = 1 .. Len(pipe')
    BY PoppedProps DEF Shapes, Kept
  <2> QED
    BY <2>1
<1>3. \A t \in Sender : S(t) \in Slot /\ S(t)' = S(t) /\ (Owns(t)' <=> Owns(t))
  BY ThType DEF Kept, S, HashId, Owns, Opens
<1>4. \A i \in DOMAIN pipe : HashId(pipe[i].id) \in Slot
  BY PipeType
<1>5. \A i \in DOMAIN pipe' : /\ Opening(i)' <=> Opening(i + d)
                              /\ HashId(pipe[i].id)' = HashId(pipe[i + d].id)
  BY <1>1 DEF Opening, HashId, Kept
<1>6. \A s \in Slot : slot[s].type = "reserve" => slot'[s].type = "reserve"
  OBVIOUS
<1>7. \A t \in Sender :
          (Owns(t) => slot[S(t)].type = "reserve" /\ th[t].id \in 1 .. alloc_id)'
  BY <1>3, <1>6 DEF Owned, Kept
<1>8. \A i \in DOMAIN pipe' :
          (Opening(i) => /\ slot[HashId(pipe[i].id)].type = "reserve"
                         /\ pipe[i].id \in 1 .. alloc_id)'
  BY <1>1, <1>4, <1>5, <1>6 DEF Owned, Kept
<1>9. \A t, u \in Sender : Owns(t)' /\ Owns(u)' /\ t # u => S(t)' # S(u)'
  BY <1>3 DEF Owned
<1>10. \A i, j \in DOMAIN pipe' :
           Opening(i)' /\ Opening(j)' /\ i # j => HashId(pipe[i].id)' # HashId(pipe[j].id)'
  BY <1>1, <1>2, <1>5 DEF Owned
<1>11. \A t \in Sender, i \in DOMAIN pipe' :
           Owns(t)' /\ Opening(i)' => S(t)' # HashId(pipe[i].id)'
  BY <1>1, <1>3, <1>5 DEF Owned
<1> QED
  BY <1>7, <1>8, <1>9, <1>10, <1>11 DEF Owned

(* It keeps the lock of a writer, and the socket under it.                 *)
LEMMA KeptLocked ==
    ASSUME Shapes, Locked, Kept
    PROVE  Locked'
<1>1. \A t \in Sender : S(t) \in Slot /\ S(t)' = S(t)
  BY ThType DEF Kept, S, HashId
<1> QED
  BY <1>1 DEF Locked, Kept, KeptRec

(* It keeps the tags.                                                      *)
LEMMA KeptTag ==
    ASSUME Shapes, TagInv, Kept
    PROVE  TagInv'
<1>1. Slot' = Slot
  BY SameUse DEF Kept
<1> QED
  BY <1>1 DEF TagInv, Kept, KeptRec, HashId, IdTag

(* What services have been told is not taken back.                         *)
LEMMA ToldMore ==
    ASSUME known \subseteq known', use' = use, NEW id, Told(id)
    PROVE  Told(id)'
BY DEF Told

(* A socket a service is told of by such a step is no slot's that is still *)
(* to be opened.                                                           *)
LEMMA KeptKnown ==
    ASSUME Shapes, Owned, TagInv, KnownInv, Kept
    PROVE  KnownInv'
<1>1. PICK d \in {0, 1} : \A i \in DOMAIN pipe' : i + d \in DOMAIN pipe /\ pipe'[i] = pipe[i + d]
  BY PoppedProps DEF Shapes, Kept
<1>2. \A t \in Sender : (th[t].pc # "idle" /\ th[t].m # None => Told(th[t].id))'
  BY ToldMore DEF KnownInv, Kept
<1>3. \A i \in DOMAIN pipe' : (pipe[i].m # None => Told(pipe[i].id))'
  BY <1>1, ToldMore DEF KnownInv, Kept
<1>4. ASSUME NEW id \in Nat, id # 0, slot[HashId(id)].type = "reserve", id \notin known
      PROVE  id \notin known'
  <2> SUFFICES ASSUME id \in known' PROVE FALSE
    OBVIOUS
  <2>1. PICK s \in Slot : slot[s].id = id /\ slot[s].tcp /\ slot[s].type # "reserve"
    BY <1>4 DEF Kept
  <2> QED
    BY <1>4, <2>1 DEF TagInv
<1>5. \A t \in Sender : Owns(t)' => Fresh(th[t])'
  <2> SUFFICES ASSUME NEW t \in Sender, Owns(t)' PROVE Fresh(th[t])'
    OBVIOUS
  <2>0. Owns(t)
    BY DEF Owns, Opens, Kept
  <2>1. /\ Fresh(th[t]) /\ slot[HashId(th[t].id)].type = "reserve"
        /\ th[t].id \in 1 .. alloc_id
    BY <2>0 DEF Owned, KnownInv, S
  <2>2. th[t].id \in Nat /\ th[t].id # 0
    BY <2>1
  <2>3. th[t].id \notin known => th[t].id \notin known'
    BY <1>4, <2>1, <2>2
  <2> QED
    BY <2>1, <2>3 DEF Fresh, Kept
<1>6. \A i \in DOMAIN pipe' : Opening(i)' => Fresh(pipe[i])'
  <2> SUFFICES ASSUME NEW i \in DOMAIN pipe', Opening(i)' PROVE Fresh(pipe[i])'
    OBVIOUS
  <2>0. i + d \in DOMAIN pipe /\ pipe'[i] = pipe[i + d] /\ Opening(i + d)
    BY <1>1 DEF Opening
  <2>1. /\ Opening(i + d) /\ Fresh(pipe[i + d]) /\ pipe'[i] = pipe[i + d]
        /\ slot[HashId(pipe[i + d].id)].type = "reserve"
        /\ pipe[i + d].id \in 1 .. alloc_id
    BY <2>0 DEF Owned, KnownInv
  <2>2. pipe[i + d].id \in Nat /\ pipe[i + d].id # 0
    BY <2>1 DEF Shapes
  <2>3. pipe[i + d].id \notin known => pipe[i + d].id \notin known'
    BY <1>4, <2>1, <2>2
  <2> QED
    BY <2>1, <2>3 DEF Fresh, Kept
<1>7. \A s \in Slot : (~slot[s].tcp => ~Told(slot[s].id))'
  <2> SUFFICES ASSUME NEW s \in Slot, ~slot'[s].tcp, Told(slot[s].id)' PROVE FALSE
    OBVIOUS
  <2>1. ~slot[s].tcp /\ slot'[s].id = slot[s].id /\ ~Told(slot[s].id)
    BY DEF Kept, KeptRec, KnownInv
  <2>2. slot[s].id \in known' \ known
    BY <2>1 DEF Told, Kept
  <2>3. PICK u \in Slot : slot[u].id = slot[s].id /\ slot[u].tcp
    BY <2>2 DEF Kept
  <2> QED
    BY <2>1, <2>3 DEF TagInv
<1>8. Slot' = Slot
  BY SameUse DEF Kept
<1> QED
  BY <1>2, <1>3, <1>5, <1>6, <1>7, <1>8 DEF KnownInv

-----------------------------------------------------------------------------
(* Counting.                                                               *)

(* A set of numbers and the set of their successors have the same size.    *)
LEMMA ShiftCard ==
    ASSUME NEW A \in SUBSET Int, IsFiniteSet(A), NEW B,
           \A i \in A : i + 1 \in B, \A j \in B : j \in Int /\ j - 1 \in A
    PROVE  Cardinality(B) = Cardinality(A)
<1> DEFINE f == [i \in A |-> i + 1]
<1>1. f \in [A -> B]
  OBVIOUS
<1>2. \A i, j \in A : f[i] = f[j] => i = j
  OBVIOUS
<1>3. \A j \in B : \E i \in A : f[i] = j
  <2> SUFFICES ASSUME NEW j \in B PROVE \E i \in A : f[i] = j
    OBVIOUS
  <2>1. j - 1 \in A /\ f[j - 1] = j
    OBVIOUS
  <2> QED
    BY <2>1
<1>4. ExistsBijection(A, B)
  BY <1>1, <1>2, <1>3 DEF ExistsBijection, Bijection, Injection, Surjection, IsInjective
<1> QED
  BY <1>4, FS_Bijection

(* The messages for a socket in the pipe can be counted.                   *)
LEMMA InPipeFinite ==
    ASSUME NEW p, Len(p) \in Nat, NEW id
    PROVE  IsFiniteSet(InPipe(p, id)) /\ Cardinality(InPipe(p, id)) \in Nat
<1>1. IsFiniteSet(1 .. Len(p))
  BY FS_Interval
<1>2. InPipe(p, id) \in SUBSET (1 .. Len(p))
  BY DEF InPipe
<1>3. IsFiniteSet(InPipe(p, id))
  BY <1>1, <1>2, FS_Subset
<1> QED
  BY <1>3, FS_CardinalityType

(* So can those the workers are about to send.                             *)
LEMMA CountsFinite ==
    ASSUME Shapes, NEW id
    PROVE  /\ IsFiniteSet(InPipe(pipe, id)) /\ Cardinality(InPipe(pipe, id)) \in Nat
           /\ IsFiniteSet(AtPipe(th, id)) /\ Cardinality(AtPipe(th, id)) \in Nat
<1>1. Len(pipe) \in Nat
  BY PipeType
<1>2. AtPipe(th, id) \in SUBSET Sender
  BY DEF AtPipe
<1>3. IsFiniteSet(AtPipe(th, id))
  BY <1>2, FS_Subset, SenderAssumption
<1> QED
  BY <1>1, <1>3, InPipeFinite, FS_CardinalityType

(* A command taken from the pipe takes its message along.                  *)
LEMMA PopCount ==
    ASSUME Shapes, use' = use, pipe # <<>>, pipe' = Tail(pipe), NEW id
    PROVE  Cardinality(InPipe(pipe, id)) =
               Cardinality(InPipe(pipe', id)) + IF Head(pipe).m # None /\ Head(pipe).id = id THEN 1 ELSE 0
<1>1. /\ Len(pipe) \in Nat /\ Len(pipe) > 0 /\ Len(pipe') = Len(pipe) - 1
      /\ Head(pipe) = pipe[1]
      /\ \A i \in 1 .. Len(pipe') : pipe'[i] = pipe[i + 1]
  BY HeadTailProperties, EmptySeq, LenProperties DEF Shapes
<1> DEFINE A == InPipe(pipe', id)
           B == InPipe(pipe, id) \ {1}
<1>2. A \in SUBSET Int
  BY DEF InPipe
<1>3. IsFiniteSet(A)
  <2>1. Len(pipe') \in Nat
    BY <1>1
  <2> QED
    BY <2>1, InPipeFinite
<1>4. \A i \in A : i + 1 \in B
  BY <1>1 DEF InPipe
<1>5. \A j \in B : j \in Int /\ j - 1 \in A
  <2> SUFFICES ASSUME NEW j \in B PROVE j \in Int /\ j - 1 \in A
    OBVIOUS
  <2>1. j \in 1 .. Len(pipe) /\ j # 1 /\ pipe[j].m # None /\ pipe[j].id = id
    BY DEF InPipe
  <2>2. j - 1 \in 1 .. Len(pipe') /\ (j - 1) + 1 = j
    BY <1>1, <2>1
  <2>3. pipe'[j - 1] = pipe[j]
    BY <1>1, <2>2
  <2> QED
    BY <2>1, <2>2, <2>3 DEF InPipe
<1>6. Cardinality(B) = Cardinality(A)
  <2> HIDE DEF A, B
  <2> QED
    BY <1>2, <1>3, <1>4, <1>5, ShiftCard
<1>7. Cardinality(B) = IF 1 \in InPipe(pipe, id) THEN Cardinality(InPipe(pipe, id)) - 1
                       ELSE Cardinality(InPipe(pipe, id))
  BY CountsFinite, FS_RemoveElement
<1>8. 1 \in InPipe(pipe, id) <=> Head(pipe).m # None /\ Head(pipe).id = id
  BY <1>1 DEF InPipe
<1> QED
  BY <1>6, <1>7, <1>8, CountsFinite

(* A command put into the pipe adds its message.                           *)
LEMMA PushCount ==
    ASSUME Shapes, use' = use, NEW c, pipe' = Append(pipe, c), NEW id
    PROVE  Cardinality(InPipe(pipe', id)) =
               Cardinality(InPipe(pipe, id)) + IF c.m # None /\ c.id = id THEN 1 ELSE 0
<1> DEFINE n == Len(pipe)
<1>1. /\ n \in Nat /\ Len(pipe') = n + 1 /\ pipe'[n + 1] = c
      /\ \A i \in 1 .. n : pipe'[i] = pipe[i]
  BY PipeType, AppendProperties DEF Shapes
<1>2. n + 1 \notin InPipe(pipe, id)
  BY <1>1 DEF InPipe
<1>3. CASE c.m # None /\ c.id = id
  <2>1. InPipe(pipe', id) = InPipe(pipe, id) \cup {n + 1}
    <3>1. \A i : i \in 1 .. n + 1 <=> i \in 1 .. n \/ i = n + 1
      BY <1>1
    <3> HIDE DEF n
    <3>2. \A i : i \in InPipe(pipe', id) <=> i \in 1 .. n + 1 /\ pipe'[i].m # None /\ pipe'[i].id = id
      BY <1>1 DEF InPipe
    <3>3. \A i : i \in InPipe(pipe, id) <=> i \in 1 .. n /\ pipe[i].m # None /\ pipe[i].id = id
      BY DEF InPipe, n
    <3> QED
      BY <1>1, <1>3, <3>1, <3>2, <3>3
  <2>2. /\ IsFiniteSet(InPipe(pipe, id)) /\ Cardinality(InPipe(pipe, id)) \in Nat
    BY CountsFinite
  <2> DEFINE A == InPipe(pipe, id)
  <2> HIDE DEF A, n
  <2>3. Cardinality(A \cup {n + 1}) = Cardinality(A) + 1
    BY <1>2, <2>2, FS_AddElement DEF A
  <2> QED
    BY <1>3, <2>1, <2>3 DEF A
<1>4. CASE ~(c.m # None /\ c.id = id)
  <2>1. InPipe(pipe', id) = InPipe(pipe, id)
    BY <1>1, <1>4 DEF InPipe
  <2> QED
    BY <1>4, <2>1, CountsFinite
<1> QED
  BY <1>3, <1>4

(* The messages under way stay when a command without one is taken.        *)
LEMMA PoppedCount ==
    ASSUME Shapes, use' = use, th' = th, Popped, NoMessageTaken, NEW id
    PROVE  /\ Cardinality(InPipe(pipe', id)) = Cardinality(InPipe(pipe, id))
           /\ AtPipe(th', id) = AtPipe(th, id)
<1>1. AtPipe(th', id) = AtPipe(th, id)
  BY DEF AtPipe
<1>2. CASE pipe' = pipe
  BY <1>1, <1>2 DEF InPipe
<1>3. CASE pipe # <<>> /\ pipe' = Tail(pipe) /\ Head(pipe).m = None
  <2>1. Len(pipe') \in Nat
    BY PoppedProps DEF Shapes
  <2>2. Cardinality(InPipe(pipe', id)) \in Nat
    BY <2>1, InPipeFinite
  <2> QED
    BY <1>1, <1>3, <2>2, PopCount, CountsFinite
<1> QED
  BY <1>2, <1>3 DEF Popped

(* A step that takes no message and keeps the counts keeps the counts      *)
(* right.                                                                  *)
LEMMA KeptCount ==
    ASSUME Shapes, CountInv, Kept, NoMessageTaken, \A s \in Slot : slot'[s].cnt = slot[s].cnt
    PROVE  CountInv'
<1>1. \A id : /\ Cardinality(InPipe(pipe', id)) = Cardinality(InPipe(pipe, id))
              /\ AtPipe(th', id) = AtPipe(th, id)
  BY PoppedCount DEF Kept
<1>2. Slot' = Slot
  BY SameUse DEF Kept
<1> SUFFICES ASSUME NEW s \in Slot, slot'[s].tcp
             PROVE  slot'[s].cnt = Cardinality(InPipe(pipe', slot'[s].id))
                                       + Cardinality(AtPipe(th', slot'[s].id))
  BY <1>2 DEF CountInv
<1>3. slot[s].tcp /\ slot'[s].id = slot[s].id /\ slot'[s].cnt = slot[s].cnt
  BY DEF Kept, KeptRec
<1> QED
  BY <1>1, <1>3 DEF CountInv

-----------------------------------------------------------------------------
(* A mild step keeps owners, locks, tags and counts.                       *)
LEMMA MildCore ==
    ASSUME Shapes, Core, Mild
    PROVE  Core'
BY KeptOwned, KeptLocked, KeptTag, KeptKnown, KeptCount DEF Core, Mild, MildRec

(* The commands that are left in the pipe keep their shape.                *)
LEMMA PoppedShape ==
    ASSUME Shapes, Popped, use' = use
    PROVE  /\ pipe' \in Seq(CmdRecord)'
           /\ \A i \in DOMAIN pipe' : pipe'[i].c \in {"D", "P"} <=> pipe'[i].m # None
<1>1. pipe' \in Seq(CmdRecord)'
  BY PoppedProps DEF Shapes
<1>2. PICK d \in {0, 1} : \A i \in DOMAIN pipe' : i + d \in DOMAIN pipe /\ pipe'[i] = pipe[i + d]
  BY PoppedProps DEF Shapes
<1> QED
  BY <1>1, <1>2 DEF Shapes

(* A step that keeps the sockets keeps the types.                          *)
LEMMA KeptShapes ==
    ASSUME Shapes, TagInv, Kept,
           slot' = [s \in Slot |-> slot'[s]], \A s \in Slot : IsSlot(slot'[s]),
           net' \in NetRecord, ev' \in Seq(EvRecord), sent' = sent,
           crash' \in {None, "sending", "slot"}
    PROVE  Shapes'
<1>1. use' = use /\ th' = th /\ alloc_id' = alloc_id /\ Popped
  BY DEF Kept
<1>2. known' \subseteq 1 .. alloc_id
  <2> SUFFICES ASSUME NEW id \in known' \ known PROVE id \in 1 .. alloc_id
    BY DEF Shapes
  <2>1. PICK s \in Slot : slot[s].id = id /\ slot[s].tcp
    BY DEF Kept
  <2>2. id \in Nat /\ id # 0 /\ id <= alloc_id
    BY <2>1 DEF TagInv, Shapes, IsSlot
  <2> QED
    BY <2>2 DEF Shapes
<1>3. /\ pipe' \in Seq(CmdRecord)'
      /\ \A i \in DOMAIN pipe' : pipe'[i].c \in {"D", "P"} <=> pipe'[i].m # None
  BY <1>1, PoppedShape
<1>4. \A t \in Sender : ThreadData(th[t])'
  BY <1>1 DEF Shapes, ThreadData, Sends, Opens, Message
<1>5. \A s \in Slot : IsSlot(slot[s])'
  BY DEF IsSlot
<1> QED
  BY <1>1, <1>2, <1>3, <1>4, <1>5, SameUse DEF Shapes

(* A mild step of the socket thread on one slot.                           *)
LEMMA MildNet ==
    ASSUME Inv, crash = None, Calm, use' = use,
           NEW s \in Slot, NEW q, IsSlot(q), slot' = [slot EXCEPT ![s] = q],
           MildRec(slot[s], q),
           th' = th, alloc_id' = alloc_id, sent' = sent, crash' \in {None, "slot"},
           Popped, NoMessageTaken,
           known' = known \/ (known' = known \cup {slot[s].id} /\ slot[s].tcp
                                                /\ slot[s].type # "reserve"),
           net' \in NetRecord, ev' \in Seq(EvRecord),
           ~Calm' => net'.s = s /\ q.type \notin {"invalid", "reserve"},
           q.type = "connected" => q.ep,
           Calm' => Watched(q)
    PROVE  Inv'
<1>1. /\ (slot = [u \in Slot |-> slot[u]] /\ \A u \in Slot : IsSlot(slot[u]))'
      /\ slot'[s] = q /\ \A u \in Slot : u # s => slot'[u] = slot[u]
  BY SlotPut DEF Inv
<1>2. WatchInv' /\ ClosingLive'
  BY NetSlot
<1>3. Shapes /\ Core
  BY DEF Inv
<1>4. \A u \in Slot : MildRec(slot[u], slot'[u])
  BY <1>1 DEF MildRec, KeptRec
<1>5. \A id \in known' \ known :
          \E u \in Slot : slot[u].id = id /\ slot[u].tcp /\ slot[u].type # "reserve"
  OBVIOUS
<1>6. Mild
  BY <1>4, <1>5 DEF Mild, Kept, MildRec
<1>7. Shapes'
  BY <1>1, <1>3, <1>6, KeptShapes, SameUse DEF Core, IsSlot, Mild
<1>8. Core'
  BY <1>3, <1>6, MildCore
<1>9. crash' # "sending"
  BY NoneAssumption
<1> QED
  BY <1>2, <1>7, <1>8, <1>9 DEF Inv

-----------------------------------------------------------------------------
(* What a command is about.                                                *)
LEMMA CommandProps ==
    ASSUME Inv, NEW cs, Command(cs)
    PROVE  /\ Calm /\ Popped /\ pipe # <<>> /\ pipe' = Tail(pipe)
           /\ th' = th /\ alloc_id' = alloc_id /\ sent' = sent
           /\ Head(pipe) \in CmdRecord /\ Head(pipe).c \in cs /\ Head(pipe) = pipe[1]
           /\ 1 \in DOMAIN pipe /\ (Head(pipe).c \in {"D", "P"} <=> Head(pipe).m # None)
           /\ Target \in Slot /\ IsSlot(slot[Target])
<1>1. pipe # <<>> /\ pipe \in Seq(CmdRecord)
  BY DEF Command, Inv, Shapes
<1>2. Head(pipe) = pipe[1] /\ 1 \in DOMAIN pipe
  BY <1>1, EmptySeq, LenProperties, HeadTailProperties
<1>3. Head(pipe) \in CmdRecord /\ Target \in Slot
  BY <1>2, PipeType DEF Inv, Target
<1> QED
  BY <1>1, <1>2, <1>3 DEF Command, Calm, Popped, Inv, Shapes

(* What an event is about.                                                 *)
LEMMA EventProps ==
    ASSUME Inv, NEW types, Event(types)
    PROVE  /\ Calm /\ Popped /\ pipe' = pipe /\ th' = th /\ sent' = sent
           /\ E.s \in Slot /\ IsSlot(slot[E.s]) /\ E \in EvRecord
           /\ slot[E.s].type \in types
           /\ Tail(ev) \in Seq(EvRecord)
<1>1. ev # <<>> /\ ev \in Seq(EvRecord)
  BY DEF Event, AtEvent, Inv, Shapes
<1>2. E \in EvRecord /\ Tail(ev) \in Seq(EvRecord)
  BY <1>1, HeadTailProperties DEF E
<1>3. E.s \in Slot
  BY <1>2 DEF EvRecord, Event
<1> QED
  BY <1>2, <1>3 DEF Event, AtEvent, Calm, Popped, Inv, Shapes

(* A step of the socket thread that leaves the slots alone.                *)
LEMMA SameSlots ==
    ASSUME Inv, crash = None, Calm, use' = use, slot' = slot,
           th' = th, alloc_id' = alloc_id, sent' = sent, crash' \in {None, "slot"},
           Popped, NoMessageTaken, known' = known,
           net' \in NetRecord, ev' \in Seq(EvRecord), Calm'
    PROVE  Inv'
<1>1. 0 \in Slot
  BY SlotsType DEF Slot, Inv, Shapes
<1>2. slot' = [slot EXCEPT ![0] = slot[0]] /\ IsSlot(slot[0])
  BY <1>1 DEF Inv, Shapes
<1>3. MildRec(slot[0], slot[0])
  BY DEF MildRec, KeptRec
<1>4. ~Closing(0) /\ WatchInv
  BY DEF Inv, Closing, Calm
<1>5. Watched(slot[0]) /\ (slot[0].type = "connected" => slot[0].ep)
  BY <1>1, <1>4 DEF WatchInv
<1> QED
  BY <1>1, <1>2, <1>3, <1>5, MildNet

(* Where the socket thread goes next.                                      *)
LEMMA GotoType ==
    ASSUME Shapes, NEW s \in Slot, NEW id \in Nat,
           NEW pc \in {"poll", "first", "close", "ctlclose", "clear"}, Goto(pc, s, id)
    PROVE  net' \in NetRecord /\ net'.pc = pc /\ net'.s = s
BY DEF Goto, Shapes, NetRecord

(* Where it goes after an event.                                           *)
LEMMA HandledType ==
    ASSUME Shapes, NEW s \in Slot, NEW pc \in {"poll", "close", "connect"}, Handled(pc, s)
    PROVE  net' \in NetRecord /\ net'.pc = pc /\ net'.s = s
BY DEF Handled, Shapes, NetRecord

(* There is a slot 0.                                                      *)
LEMMA ZeroSlot == ASSUME Shapes PROVE 0 \in Slot
BY SlotsType DEF Slot, Shapes

(* The event is done with.                                                 *)
LEMMA NextEventType ==
    ASSUME Shapes, NextEvent, Tail(ev) \in Seq(EvRecord)
    PROVE  net' \in NetRecord /\ Calm' /\ ev' \in Seq(EvRecord)
BY ZeroSlot, HandledType DEF NextEvent, Calm

(* The event closes its socket.                                            *)
LEMMA CloseOnEventType ==
    ASSUME Shapes, NEW s \in Slot, CloseOnEvent(s), Tail(ev) \in Seq(EvRecord)
    PROVE  net' \in NetRecord /\ ~Calm' /\ net'.s = s /\ ev' \in Seq(EvRecord)
BY HandledType DEF CloseOnEvent, Calm

-----------------------------------------------------------------------------
(* clear_closed_event changes events only.                                 *)
LEMMA ClearEventsStep ==
    ASSUME Inv, crash = None, use' = use, ClearEvents
    PROVE  Inv'
<1>1. Goto("poll", 0, 0)
  BY DEF ClearEvents
<1>2. net' \in NetRecord /\ Calm' /\ Calm
  BY <1>1, ZeroSlot, GotoType DEF Inv, Calm, ClearEvents
<1>3. ev' \in Seq(EvRecord)
  <2>1. ev \in Seq(EvRecord)
    BY DEF Inv, Shapes
  <2>2. Len(ev) \in Nat /\ DOMAIN ev = 1 .. Len(ev) /\ \A i \in 1 .. Len(ev) : ev[i] \in EvRecord
    BY <2>1, LenProperties, ElementOfSeq
  <2>3. \A i \in 1 .. Len(ev) : [ev[i] EXCEPT !.s = None] \in EvRecord
    BY <2>2 DEF EvRecord
  <2>4. ev' \in [1 .. Len(ev) -> EvRecord]
    BY <2>2, <2>3 DEF ClearEvents
  <2> QED
    BY <2>2, <2>4
<1> QED
  BY <1>2, <1>3, SameSlots DEF ClearEvents, Popped

(* A close command for a socket that is gone, or whose slot is reserved    *)
(* again, changes no slot.                                                 *)
LEMMA CloseGoneStep ==
    ASSUME Inv, crash = None, use' = use, CloseGone \/ CloseReserved
    PROVE  Inv'
<1>1. Command({"K"}) /\ slot' = slot /\ ev' = ev /\ known' = known /\ crash' \in {None, "slot"}
  BY DEF CloseGone, CloseReserved
<1>2. Calm' /\ net' \in NetRecord
  <2>1. Head(pipe).id \in Nat /\ Calm
    BY <1>1, CommandProps DEF CmdRecord
  <2>2. CASE CloseGone
    BY <2>1, <2>2, ZeroSlot, GotoType DEF CloseGone, Calm, Inv
  <2>3. CASE CloseReserved
    BY <2>1, <2>3 DEF CloseReserved, Calm, Inv, Shapes
  <2> QED
    BY <2>2, <2>3
<1>3. Head(pipe).m = None
  BY <1>1, CommandProps
<1> QED
  BY <1>1, <1>2, <1>3, CommandProps, SameSlots DEF Inv, Shapes

(* An order of a finite set is a sequence of its members.                  *)
LEMMA OrdersType ==
    ASSUME NEW A, NEW f \in Orders(A), IsFiniteSet(A)
    PROVE  Cardinality(A) \in Nat /\ f \in [1 .. Cardinality(A) -> A]
BY FS_CardinalityType DEF Orders

(* sp_wait reports sockets that have a slot.                               *)
LEMMA WaitStep ==
    ASSUME Inv, crash = None, use' = use, SomeWait
    PROVE  Inv'
<1>1. PICK R \in SUBSET Registered : \E W \in SUBSET Writable :
          \E pc \in {"first", "poll"} : Wait(R, W, pc)
  BY DEF SomeWait
<1>2. PICK W \in SUBSET Writable : \E pc \in {"first", "poll"} : Wait(R, W, pc)
  BY <1>1
<1>3. PICK pc \in {"first", "poll"} : Wait(R, W, pc)
  BY <1>2
<1> DEFINE A == R \cup W
<1>4. A \in SUBSET Slot
  BY DEF Registered, Writable
<1>5. IsFiniteSet(A)
  <2>1. use.slots - 1 \in Int
    BY SlotsType DEF Inv, Shapes
  <2>2. IsFiniteSet(Slot)
    BY <2>1, FS_Interval DEF Slot
  <2> QED
    BY <1>4, <2>2, FS_Subset
<1>6. PICK f \in Orders(A) :
          ev' = [i \in DOMAIN f |-> [s |-> f[i], read |-> f[i] \in R, write |-> f[i] \in W]]
  BY <1>3 DEF Wait
<1>7. ev' \in Seq(EvRecord)
  <2>1. Cardinality(A) \in Nat /\ f \in [1 .. Cardinality(A) -> A]
    BY <1>5, OrdersType
  <2> HIDE DEF A
  <2>2. \A i \in 1 .. Cardinality(A) :
            [s |-> f[i], read |-> f[i] \in R, write |-> f[i] \in W] \in EvRecord
    BY <1>4, <2>1 DEF EvRecord
  <2>3. ev' \in [1 .. Cardinality(A) -> EvRecord]
    BY <1>6, <2>1, <2>2
  <2> QED
    BY <2>1, <2>3
<1>8. net' \in NetRecord /\ Calm /\ Calm'
  BY <1>3 DEF Wait, Inv, Shapes, NetRecord, Calm
<1> QED
  BY <1>3, <1>7, <1>8, SameSlots DEF Wait, Popped

(* Events that change no slot.                                             *)
LEMMA QuietEventStep ==
    ASSUME Inv, crash = None, use' = use,
           NullEvent \/ AcceptNothing \/ StaleEvent \/ ReadData \/ WriteBlocked
    PROVE  Inv'
<1>1. /\ AtEvent /\ slot' = slot /\ alloc_id' = alloc_id /\ known' = known
      /\ crash' \in {None, "slot"}
  BY DEF NullEvent, AcceptNothing, StaleEvent, ReadData, WriteBlocked, Event
<1>2. Calm /\ pipe' = pipe /\ th' = th /\ sent' = sent /\ ev # <<>> /\ ev \in Seq(EvRecord)
  BY <1>1 DEF AtEvent, Calm, Inv, Shapes
<1>3. E \in EvRecord /\ Tail(ev) \in Seq(EvRecord)
  BY <1>2, HeadTailProperties DEF E
<1>4. CASE NextEvent
  BY <1>1, <1>2, <1>3, <1>4, NextEventType, SameSlots DEF Popped, Inv
<1>5. CASE ReadData
  <2>1. net' \in NetRecord /\ Calm'
    BY <1>5, ZeroSlot, HandledType DEF ReadData, Calm, Inv
  <2>2. [E EXCEPT !.read = FALSE] \in EvRecord
    BY <1>3 DEF EvRecord
  <2>3. <<[E EXCEPT !.read = FALSE]>> \o Tail(ev) \in Seq(EvRecord)
    BY <1>3, <2>2
  <2>4. ev' \in Seq(EvRecord)
    BY <1>3, <1>5, <2>3 DEF ReadData
  <2> QED
    BY <1>1, <1>2, <2>1, <2>4, SameSlots DEF Popped
<1> QED
  BY <1>4, <1>5 DEF NullEvent, AcceptNothing, StaleEvent, WriteBlocked

-----------------------------------------------------------------------------
(* A socket starts to be closed: its lists are freed, and the rest is done *)
(* in CloseFreed.                                                          *)
LEMMA CloseStarts ==
    ASSUME Inv, crash = None, Calm, use' = use, ~Calm',
           NEW s \in Slot, net'.s = s, net' \in NetRecord, ev' \in Seq(EvRecord),
           NEW q, IsSlot(q), slot' = [slot EXCEPT ![s] = q],
           q.type = slot[s].type, q.id = slot[s].id, q.tcp = slot[s].tcp,
           q.tag = slot[s].tag, q.cnt = slot[s].cnt, q.ep = slot[s].ep,
           q.lock = slot[s].lock \/ slot[s].lock = None,
           slot[s].type \notin {"invalid", "reserve"},
           th' = th, alloc_id' = alloc_id, sent' = sent, crash' = crash, known' = known,
           Popped, NoMessageTaken
    PROVE  Inv'
<1>1. MildRec(slot[s], q)
  BY NoneAssumption DEF MildRec, KeptRec
<1>2. WatchInv
  BY DEF Inv
<1>3. q.type = "connected" => q.ep
  BY <1>2 DEF WatchInv
<1> QED
  BY <1>1, <1>3, MildNet

(* Commands that begin to close a socket: its type stays until the lock is *)
(* taken.                                                                  *)
LEMMA CommandClosesStep ==
    ASSUME Inv, crash = None, use' = use, StartFails \/ CloseNow \/ CloseSendFails
    PROVE  Inv'
<1> DEFINE r == slot[Target]
<1>1. PICK c \in {"S", "K"} : Command({c})
  BY DEF StartFails, CloseNow, CloseSendFails
<1>2. /\ Goto("ctlclose", Target, 0) /\ ev' = ev /\ known' = known /\ crash' = crash
      /\ r.type \notin {"invalid", "reserve"}
  BY DEF StartFails, CloseNow, CloseSendFails, Live, Gone
<1>3. Target \in Slot /\ IsSlot(r) /\ Calm /\ Head(pipe).m = None
  BY <1>1, CommandProps
<1>4. net' \in NetRecord /\ ~Calm' /\ net'.s = Target
  BY <1>2, <1>3, GotoType DEF Inv, Calm
<1>5. CASE CloseSendFails
  <2> DEFINE p == Freed(Merged(r))
             w == [p EXCEPT !.lock = Net]
  <2>1. IsSlot(p) /\ SameSocket(r, p)
    BY <1>3, MergedType, FreedType DEF SameSocket
  <2>2. slot' = [slot EXCEPT ![Target] = w] /\ r.lock = None
    BY <1>5 DEF CloseSendFails
  <2> HIDE DEF p
  <2>3. /\ IsSlot(w) /\ w.type = r.type /\ w.id = r.id /\ w.tcp = r.tcp /\ w.tag = r.tag
        /\ w.cnt = r.cnt /\ w.ep = r.ep
    BY <2>1 DEF IsSlot, SameSocket
  <2> HIDE DEF w
  <2> QED
    BY <1>1, <1>2, <1>3, <1>4, <2>2, <2>3, CommandProps, CloseStarts DEF Inv, Shapes
<1>6. CASE StartFails \/ CloseNow
  <2> DEFINE w == Freed(r)
  <2>1. IsSlot(w) /\ SameSocket(r, w)
    BY <1>3, FreedType
  <2>2. slot' = [slot EXCEPT ![Target] = w]
    BY <1>6 DEF StartFails, CloseNow
  <2> HIDE DEF w
  <2> QED
    BY <1>1, <1>2, <1>3, <1>4, <2>1, <2>2, CommandProps, CloseStarts DEF Inv, Shapes, SameSocket
<1> QED
  BY <1>5, <1>6

(* Events that begin to close a socket.                                    *)
LEMMA EventClosesStep ==
    ASSUME Inv, crash = None, use' = use, ConnectFails \/ ReadCloses \/ WriteFails
    PROVE  Inv'
<1> DEFINE r == slot[E.s]
<1>1. /\ Event({"connecting"} \cup Open) /\ CloseOnEvent(E.s)
      /\ alloc_id' = alloc_id /\ known' = known /\ crash' = crash
  BY DEF ConnectFails, ReadCloses, WriteFails, Event
<1>2. E.s \in Slot /\ IsSlot(r) /\ Calm /\ r.type \notin {"invalid", "reserve"}
  BY <1>1, EventProps DEF Open
<1>3. net' \in NetRecord /\ ~Calm' /\ net'.s = E.s /\ ev' \in Seq(EvRecord)
  BY <1>1, <1>2, EventProps, CloseOnEventType DEF Inv
<1>4. CASE WriteFails
  <2> DEFINE p == Freed(Merged(r))
             w == [p EXCEPT !.lock = Net]
  <2>1. IsSlot(p) /\ SameSocket(r, p)
    BY <1>2, MergedType, FreedType DEF SameSocket
  <2>2. slot' = [slot EXCEPT ![E.s] = w] /\ r.lock = None
    BY <1>4 DEF WriteFails
  <2> HIDE DEF p
  <2>3. /\ IsSlot(w) /\ w.type = r.type /\ w.id = r.id /\ w.tcp = r.tcp /\ w.tag = r.tag
        /\ w.cnt = r.cnt /\ w.ep = r.ep
    BY <2>1 DEF IsSlot, SameSocket
  <2> HIDE DEF w
  <2> QED
    BY <1>1, <1>2, <1>3, <2>2, <2>3, EventProps, CloseStarts
<1>5. CASE ConnectFails \/ ReadCloses
  <2> DEFINE w == Freed(r)
  <2>1. IsSlot(w) /\ SameSocket(r, w)
    BY <1>2, FreedType
  <2>2. slot' = [slot EXCEPT ![E.s] = w]
    BY <1>5 DEF ConnectFails, ReadCloses
  <2> HIDE DEF w
  <2> QED
    BY <1>1, <1>2, <1>3, <2>1, <2>2, EventProps, CloseStarts DEF SameSocket
<1> QED
  BY <1>4, <1>5

-----------------------------------------------------------------------------
(* What is known of a slot whose socket is not being closed.               *)
LEMMA CalmWatch ==
    ASSUME Inv, crash = None, Calm, NEW s \in Slot
    PROVE  Watched(slot[s]) /\ (slot[s].type = "connected" => slot[s].ep)
<1>1. ~Closing(s) /\ WatchInv
  BY DEF Inv, Closing, Calm
<1> QED
  BY <1>1 DEF WatchInv

(* start_socket registers a socket before it counts as open.               *)
LEMMA StartSocketStep ==
    ASSUME Inv, crash = None, use' = use, StartSocket
    PROVE  Inv'
<1> DEFINE r == slot[Target]
<1>1. Command({"S"}) /\ net' = net /\ ev' = ev /\ known' = known /\ crash' = crash
  BY DEF StartSocket
<1>2. /\ Target \in Slot /\ IsSlot(r) /\ Calm /\ Head(pipe).m = None
      /\ th' = th /\ alloc_id' = alloc_id /\ sent' = sent /\ Popped
  BY <1>1, CommandProps
<1>3. net' \in NetRecord /\ ev' \in Seq(EvRecord) /\ Calm'
  BY <1>1, <1>2 DEF Inv, Shapes, Calm
<1>4. CASE Gone
  BY <1>1, <1>2, <1>3, <1>4, SameSlots DEF StartSocket
<1>5. CASE ~Gone
  <2> DEFINE p == [r EXCEPT !.ep = @ \/ r.type \in {"paccept", "plisten"}]
             type == CASE r.type = "paccept" -> "connected"
                       [] r.type = "plisten" -> "listen"
                       [] OTHER -> r.type
             q == [p EXCEPT !.type = type]
  <2>1. IsSlot(p) /\ p.type = r.type
    BY <1>2 DEF IsSlot
  <2>2. slot' = [slot EXCEPT ![Target] = q]
    <3>1. slot = [s \in Slot |-> slot[s]]
      BY DEF Inv, Shapes
    <3> QED
      BY <1>2, <1>5, <2>1, <3>1 DEF StartSocket
  <2>3. /\ p.high = r.high /\ p.low = r.low /\ p.dw = r.dw /\ p.wr = r.wr
        /\ p.ep = (r.ep \/ r.type \in {"paccept", "plisten"})
        /\ p.id = r.id /\ p.tcp = r.tcp /\ p.tag = r.tag /\ p.cnt = r.cnt /\ p.lock = r.lock
    BY <1>2 DEF IsSlot
  <2>4. type \in Types
    BY <1>2 DEF IsSlot, Types
  <2> HIDE DEF p
  <2>5. /\ IsSlot(q) /\ q.type = type
        /\ q.high = p.high /\ q.low = p.low /\ q.dw = p.dw /\ q.wr = p.wr /\ q.ep = p.ep
        /\ q.id = p.id /\ q.tcp = p.tcp /\ q.tag = p.tag /\ q.cnt = p.cnt /\ q.lock = p.lock
    BY <2>1, <2>4 DEF IsSlot
  <2> HIDE DEF q
  <2>6. Watched(r) /\ (r.type = "connected" => r.ep)
    BY <1>2, CalmWatch
  <2>7. MildRec(r, q)
    BY <2>3, <2>5 DEF MildRec, KeptRec
  <2>8. Watched(q) /\ (q.type = "connected" => q.ep)
    BY <2>3, <2>5, <2>6 DEF Watched, EmptyRec
  <2> QED
    BY <1>1, <1>2, <1>3, <2>2, <2>5, <2>7, <2>8, MildNet DEF Inv, Shapes
<1> QED
  BY <1>4, <1>5

(* A socket left half closed is still watched: the worker that has its     *)
(* lock will look for the write event if it leaves anything.               *)
LEMMA CloseLaterStep ==
    ASSUME Inv, crash = None, use' = use, CloseLater
    PROVE  Inv'
<1> DEFINE r == slot[Target]
           q == [r EXCEPT !.type = "halfclose"]
<1>1. /\ Command({"K"}) /\ net' = net /\ ev' = ev /\ known' = known /\ crash' = crash
      /\ slot' = [slot EXCEPT ![Target] = q] /\ r.type \notin {"invalid", "reserve"}
  <2>1. slot = [s \in Slot |-> slot[s]]
    BY DEF Inv, Shapes
  <2> QED
    BY <2>1 DEF CloseLater, Live, Gone
<1>2. /\ Target \in Slot /\ IsSlot(r) /\ Calm /\ Head(pipe).m = None
      /\ th' = th /\ alloc_id' = alloc_id /\ sent' = sent /\ Popped
  BY <1>1, CommandProps
<1>3. net' \in NetRecord /\ ev' \in Seq(EvRecord) /\ Calm'
  BY <1>1, <1>2 DEF Inv, Shapes, Calm
<1>4. /\ IsSlot(q) /\ q.type = "halfclose"
      /\ q.high = r.high /\ q.low = r.low /\ q.dw = r.dw /\ q.wr = r.wr /\ q.ep = r.ep
      /\ q.id = r.id /\ q.tcp = r.tcp /\ q.tag = r.tag /\ q.cnt = r.cnt /\ q.lock = r.lock
  BY <1>2 DEF IsSlot, Types
<1> HIDE DEF q
<1>5. Watched(q)
  <2>1. Watched(r)
    BY <1>2, CalmWatch
  <2>2. r.type \in Types
    BY <1>2 DEF IsSlot
  <2> QED
    BY <1>1, <1>4, <2>1, <2>2 DEF Watched, EmptyRec, Types
<1>6. MildRec(r, q)
  BY <1>1, <1>4 DEF MildRec, KeptRec
<1> QED
  BY <1>1, <1>2, <1>3, <1>4, <1>5, <1>6, MildNet

(* A socket that gets connected is still watched.                          *)
LEMMA ReportConnectStep ==
    ASSUME Inv, crash = None, use' = use, ReportConnect
    PROVE  Inv'
<1> DEFINE r == slot[E.s]
           q == [r EXCEPT !.type = "connected"]
<1>1. /\ Event({"connecting"}) /\ ev' = Tail(ev) /\ Handled("connect", E.s)
      /\ alloc_id' = alloc_id /\ crash' = crash /\ known' = known
  BY DEF ReportConnect
<1>2. /\ E.s \in Slot /\ IsSlot(r) /\ Calm /\ r.type = "connecting"
      /\ th' = th /\ sent' = sent /\ Popped /\ pipe' = pipe /\ ev' \in Seq(EvRecord)
  BY <1>1, EventProps
<1>3. net' \in NetRecord /\ Calm'
  BY <1>1, <1>2, HandledType DEF Inv, Calm
<1>4. slot' = [slot EXCEPT ![E.s] = q]
  <2>1. slot = [s \in Slot |-> slot[s]]
    BY DEF Inv, Shapes
  <2> QED
    BY <1>2, <2>1 DEF ReportConnect
<1>5. /\ IsSlot(q) /\ q.type = "connected"
      /\ q.high = r.high /\ q.low = r.low /\ q.dw = r.dw /\ q.wr = r.wr /\ q.ep = r.ep
      /\ q.id = r.id /\ q.tcp = r.tcp /\ q.tag = r.tag /\ q.cnt = r.cnt /\ q.lock = r.lock
  BY <1>2 DEF IsSlot, Types
<1> HIDE DEF q
<1>6. Watched(r)
  BY <1>2, CalmWatch
<1>7. Watched(q) /\ q.ep
  BY <1>2, <1>5, <1>6 DEF Watched
<1>8. MildRec(r, q)
  BY <1>2, <1>5 DEF MildRec, KeptRec
<1> QED
  BY <1>1, <1>2, <1>3, <1>4, <1>5, <1>7, <1>8, MildNet

(* The service is told, and the socket thread polls on.                    *)
LEMMA ConnectReportedType ==
    ASSUME Inv, ConnInv, Arriving, ConnectReported
    PROVE  /\ net' \in NetRecord /\ Calm' /\ ~Arriving'
           /\ known' = known \cup {slot[net.s].id}
           /\ slot[net.s].tcp /\ slot[net.s].type # "reserve"
<1>1. net.s \in Slot /\ slot[net.s].type = "connected" /\ net \in NetRecord
  BY DEF Inv, Shapes, NetRecord, ConnInv
<1>2. slot[net.s].tcp
  BY <1>1 DEF Inv, Core, TagInv
<1>3. net' \in NetRecord /\ net'.pc = "poll"
  BY <1>1, ZeroSlot DEF ConnectReported, NetRecord, Inv
<1> QED
  BY <1>1, <1>2, <1>3 DEF ConnectReported, Calm, Arriving

(* The look at the buffers changes no socket.                              *)
LEMMA ConnectTestStep ==
    ASSUME Inv, ConnInv, crash = None, use' = use, ConnectTest
    PROVE  Inv'
<1> DEFINE s == net.s
<1>1. /\ s \in Slot /\ IsSlot(slot[s]) /\ Arriving /\ Calm /\ net \in NetRecord
      /\ ev' \in Seq(EvRecord) /\ slot = [u \in Slot |-> slot[u]]
  BY DEF Inv, Shapes, NetRecord, ConnectTest, Arriving, Calm
<1>2. /\ slot' = slot /\ alloc_id' = alloc_id /\ pipe' = pipe /\ th' = th /\ sent' = sent
      /\ crash' = crash /\ Popped
  BY DEF ConnectTest, Popped
<1>3. CASE NoMoreSending(s)
  <2>1. net' \in NetRecord /\ Calm' /\ known' = known
    BY <1>1, <1>3 DEF ConnectTest, NetRecord, Calm
  <2> QED
    BY <1>1, <1>2, <2>1, SameSlots
<1>4. CASE ~NoMoreSending(s)
  <2>1. /\ net' \in NetRecord /\ Calm' /\ known' = known \cup {slot[s].id}
        /\ slot[s].tcp /\ slot[s].type # "reserve"
    BY <1>1, <1>4, ConnectReportedType DEF ConnectTest
  <2>2. MildRec(slot[s], slot[s]) /\ slot' = [slot EXCEPT ![s] = slot[s]]
    BY <1>1, <1>2 DEF MildRec, KeptRec
  <2>3. Watched(slot[s]) /\ (slot[s].type = "connected" => slot[s].ep)
    BY <1>1, CalmWatch
  <2> QED
    BY <1>1, <1>2, <2>1, <2>2, <2>3, MildNet
<1> QED
  BY <1>3, <1>4

(* The write event is given up when nothing waits.                         *)
LEMMA ConnectUnwatchStep ==
    ASSUME Inv, ConnInv, crash = None, use' = use, ConnectUnwatch
    PROVE  Inv'
<1> DEFINE s == net.s
           r == slot[s]
           q == [r EXCEPT !.wr = FALSE]
<1>1. /\ s \in Slot /\ IsSlot(r) /\ Arriving /\ Calm
      /\ ev' \in Seq(EvRecord) /\ slot = [u \in Slot |-> slot[u]]
  BY DEF Inv, Shapes, NetRecord, ConnectUnwatch, Arriving, Calm
<1>2. /\ slot' = [slot EXCEPT ![s] = q] /\ alloc_id' = alloc_id /\ pipe' = pipe /\ th' = th
      /\ sent' = sent /\ crash' = crash /\ Popped
  BY <1>1 DEF ConnectUnwatch, Popped
<1>3. /\ net' \in NetRecord /\ Calm' /\ known' = known \cup {r.id}
      /\ r.tcp /\ r.type = "connected"
  BY <1>1, ConnectReportedType DEF ConnectUnwatch, ConnInv
<1>4. /\ IsSlot(q) /\ q.type = r.type
      /\ q.high = r.high /\ q.low = r.low /\ q.dw = r.dw /\ q.ep = r.ep
      /\ q.id = r.id /\ q.tcp = r.tcp /\ q.tag = r.tag /\ q.cnt = r.cnt /\ q.lock = r.lock
  BY <1>1 DEF IsSlot
<1> HIDE DEF q
<1>5. r.ep /\ (~Early => EmptyRec(r))
  BY <1>1, <1>3, CalmWatch DEF ConnectUnwatch, ConnInv
<1>6. Watched(q) /\ q.ep
  BY <1>3, <1>4, <1>5 DEF Watched, EmptyRec
<1>7. MildRec(r, q)
  BY <1>4 DEF MildRec, KeptRec
<1> QED
  BY <1>1, <1>2, <1>3, <1>4, <1>6, <1>7, MildNet

-----------------------------------------------------------------------------
(* The kernel takes a number of units.                                     *)
LEMMA TakenType ==
    ASSUME NEW s, NEW k \in Taken(s)
    PROVE  k \in Nat
<1> DEFINE n == IF slot[s].type \in {"connected", "halfclose"}
                THEN Len(Merged(slot[s]).high) + Len(Merged(slot[s]).low) ELSE 0
<1>1. k \in 0 .. n
  BY DEF Taken
<1> HIDE DEF n
<1> QED
  BY <1>1

(* send_buffer leaves a socket watched.                                    *)
LEMMA DrainWatched ==
    ASSUME NEW r, IsSlot(r), Watched(r), r.type \notin {"invalid", "reserve"}, NEW k \in Nat
    PROVE  LET q == Drain(Merged(r), k) IN
           /\ IsSlot(q) /\ SameSocket(r, q) /\ q.dw = <<>>
           /\ EmptyRec(r) => EmptyRec(q)
           /\ EmptyRec(q) \/ (q.wr /\ q.ep)
<1> DEFINE p == Merged(r)
           q == Drain(p, k)
<1>1. /\ IsSlot(p) /\ SameSocket(r, p) /\ p.dw = <<>> /\ (EmptyRec(r) => EmptyRec(p))
  BY MergedType
<1> HIDE DEF p
<1>2. /\ IsSlot(q) /\ SameSocket(p, q) /\ q.dw = p.dw
      /\ q.high # <<>> \/ q.low # <<>> => q.wr
      /\ p.high = <<>> /\ p.low = <<>> => q.high = <<>> /\ q.low = <<>>
  BY <1>1, DrainType
<1> HIDE DEF q
<1>3. SameSocket(r, q)
  BY <1>1, <1>2 DEF SameSocket
<1>4. EmptyRec(r) => EmptyRec(q)
  BY <1>1, <1>2 DEF EmptyRec
<1>5. r.type \in Types
  BY DEF IsSlot
<1>6. EmptyRec(r) \/ r.ep
  BY <1>5 DEF Watched, Types
<1>7. q.ep = r.ep
  BY <1>3 DEF SameSocket
<1>8. EmptyRec(q) \/ (q.wr /\ q.ep)
  BY <1>1, <1>2, <1>4, <1>6, <1>7 DEF EmptyRec
<1> QED
  BY <1>1, <1>2, <1>3, <1>4, <1>8 DEF p, q

(* The write event of a socket.                                            *)
LEMMA WriteEventStep ==
    ASSUME Inv, crash = None, use' = use, NEW k \in Taken(E.s), WriteEvent(k)
    PROVE  Inv'
<1> DEFINE r == slot[E.s]
           q == Drain(Merged(r), k)
<1>1. /\ Event(Open) /\ alloc_id' = alloc_id /\ known' = known /\ crash' = crash
      /\ slot' = [slot EXCEPT ![E.s] = q] /\ (CloseOnEvent(E.s) \/ NextEvent)
  BY DEF WriteEvent, SendBuffer
<1>2. /\ E.s \in Slot /\ IsSlot(r) /\ Calm /\ r.type \in Open
      /\ th' = th /\ sent' = sent /\ Popped /\ pipe' = pipe /\ Tail(ev) \in Seq(EvRecord)
  BY <1>1, EventProps
<1>3. k \in Nat
  BY TakenType
<1>4. Watched(r) /\ (r.type = "connected" => r.ep)
  BY <1>2, CalmWatch
<1>5. /\ IsSlot(q) /\ SameSocket(r, q) /\ q.dw = <<>>
      /\ EmptyRec(r) => EmptyRec(q)
      /\ EmptyRec(q) \/ (q.wr /\ q.ep)
  BY <1>2, <1>3, <1>4, DrainWatched DEF Open
<1> HIDE DEF q
<1>6. Watched(q) /\ (q.type = "connected" => q.ep)
  BY <1>2, <1>4, <1>5 DEF Watched, SameSocket, Open
<1>7. CASE NextEvent
  <2>1. net' \in NetRecord /\ ev' \in Seq(EvRecord) /\ Calm'
    BY <1>2, <1>7, NextEventType DEF Inv
  <2>2. MildRec(r, q)
    BY <1>5 DEF SameSocket, MildRec, KeptRec
  <2> QED
    BY <1>1, <1>2, <1>5, <1>6, <2>1, <2>2, MildNet
<1>8. CASE CloseOnEvent(E.s)
  <2>1. net' \in NetRecord /\ ~Calm' /\ net'.s = E.s /\ ev' \in Seq(EvRecord)
    BY <1>2, <1>8, CloseOnEventType DEF Inv
  <2> QED
    BY <1>1, <1>2, <1>5, <2>1, CloseStarts DEF SameSocket, Open
<1> QED
  BY <1>1, <1>7, <1>8

(* The write within a close command, after which the socket is closed or   *)
(* left half closed.                                                       *)
LEMMA CloseAfterSendStep ==
    ASSUME Inv, crash = None, use' = use, NEW k \in Taken(Target), CloseAfterSend(k)
    PROVE  Inv'
<1> DEFINE r == slot[Target]
           w == Drain(Merged(r), k)
           closed == \/ w.high = <<>> /\ w.low = <<>> /\ r.type = "halfclose"
                     \/ w.high = <<>> /\ w.low = <<>> /\ w.cnt = 0
                     \/ Head(pipe).sd
<1>1. /\ Command({"K"}) /\ ev' = ev /\ known' = known /\ crash' = crash
      /\ r.type \notin {"invalid", "reserve"}
  BY DEF CloseAfterSend, Live, Gone
<1>2. /\ Target \in Slot /\ IsSlot(r) /\ Calm /\ Head(pipe).m = None
      /\ th' = th /\ alloc_id' = alloc_id /\ sent' = sent /\ Popped
  BY <1>1, CommandProps
<1>3. k \in Nat
  BY TakenType
<1>4. Watched(r)
  BY <1>2, CalmWatch
<1>5. /\ IsSlot(w) /\ SameSocket(r, w) /\ w.dw = <<>>
      /\ EmptyRec(w) \/ (w.wr /\ w.ep)
  BY <1>1, <1>2, <1>3, <1>4, DrainWatched
<1>6. CASE closed
  <2>1. slot' = [slot EXCEPT ![Target] = Freed(w)] /\ Goto("ctlclose", Target, 0)
    BY <1>6 DEF CloseAfterSend
  <2>2. net' \in NetRecord /\ ~Calm' /\ net'.s = Target
    BY <1>2, <2>1, GotoType DEF Inv, Calm
  <2> HIDE DEF w, closed
  <2>3. IsSlot(Freed(w)) /\ SameSocket(w, Freed(w))
    BY <1>5, FreedType
  <2>4. SameSocket(r, Freed(w))
    BY <1>5, <2>3 DEF SameSocket
  <2>5. ev' \in Seq(EvRecord)
    BY <1>1 DEF Inv, Shapes
  <2> QED
    BY <1>1, <1>2, <2>1, <2>2, <2>3, <2>4, <2>5, CloseStarts DEF SameSocket
<1>7. CASE ~closed
  <2> DEFINE q == [w EXCEPT !.type = "halfclose"]
  <2>1. slot' = [slot EXCEPT ![Target] = q] /\ net' = net
    BY <1>7 DEF CloseAfterSend
  <2> HIDE DEF w, closed
  <2>2. /\ IsSlot(q) /\ q.type = "halfclose"
        /\ q.high = w.high /\ q.low = w.low /\ q.dw = w.dw /\ q.wr = w.wr /\ q.ep = w.ep
        /\ q.id = w.id /\ q.tcp = w.tcp /\ q.tag = w.tag /\ q.cnt = w.cnt /\ q.lock = w.lock
    BY <1>5 DEF IsSlot, Types
  <2> HIDE DEF q
  <2>3. Watched(q)
    BY <1>5, <2>2 DEF Watched, EmptyRec
  <2>4. MildRec(r, q)
    BY <1>1, <1>5, <2>2 DEF MildRec, KeptRec, SameSocket
  <2>5. net' \in NetRecord /\ ev' \in Seq(EvRecord) /\ Calm'
    BY <1>1, <1>2, <2>1 DEF Inv, Shapes, Calm
  <2> QED
    BY <1>1, <1>2, <2>1, <2>2, <2>3, <2>4, <2>5, MildNet
<1> QED
  BY <1>6, <1>7

(* force_close gives the slot back: it has the lock, so no worker is       *)
(* writing.                                                                *)
LEMMA CloseFreedStep ==
    ASSUME Inv, crash = None, use' = use, CloseFreed
    PROVE  Inv'
<1> DEFINE s == net.s
           r == slot[s]
           p == [r EXCEPT !.type = "invalid", !.dw = <<>>]
           q == [p EXCEPT !.wr = FALSE, !.ep = FALSE, !.lock = None]
<1>1. s \in Slot /\ IsSlot(r)
  BY DEF Inv, Shapes, NetRecord
<1>2. Closing(s) /\ r.type \notin {"invalid", "reserve"} /\ r.lock \in {None, Net}
  BY <1>1 DEF CloseFreed, Closing, Inv, ClosingLive
<1>3. slot' = [slot EXCEPT ![s] = q]
  <2>1. slot = [u \in Slot |-> slot[u]]
    BY DEF Inv, Shapes
  <2> QED
    BY <1>1, <2>1 DEF CloseFreed
<1>4. /\ IsSlot(p) /\ p.type = "invalid"
      /\ p.id = r.id /\ p.tcp = r.tcp /\ p.tag = r.tag /\ p.cnt = r.cnt
  BY <1>1 DEF IsSlot, Types
<1> HIDE DEF p
<1>5. /\ IsSlot(q) /\ q.type = "invalid"
      /\ q.id = r.id /\ q.tcp = r.tcp /\ q.tag = r.tag /\ q.cnt = r.cnt
  BY <1>4 DEF IsSlot
<1> HIDE DEF q
<1>6. MildRec(r, q)
  BY <1>2, <1>5, NoneAssumption DEF MildRec, KeptRec
<1>7. /\ (slot = [u \in Slot |-> slot[u]] /\ \A u \in Slot : IsSlot(slot[u]))'
      /\ slot'[s] = q /\ \A u \in Slot : u # s => slot'[u] = slot[u]
  BY <1>1, <1>3, <1>5, SlotPut DEF Inv
<1>8. net' \in NetRecord /\ Calm'
  <2>1. r.id \in Nat
    BY <1>1 DEF IsSlot
  <2> QED
    BY <1>1, <2>1, GotoType DEF CloseFreed, Inv, Calm
<1>9. /\ th' = th /\ alloc_id' = alloc_id /\ pipe' = pipe /\ ev' = ev /\ known' = known
      /\ sent' = sent /\ crash' = crash
  BY DEF CloseFreed
<1>10. Mild
  <2>1. \A u \in Slot : MildRec(slot[u], slot'[u])
    BY <1>6, <1>7 DEF MildRec, KeptRec
  <2> QED
    BY <1>9, <2>1 DEF Mild, Kept, MildRec, Popped
<1>11. Shapes' /\ Core'
  BY <1>7, <1>8, <1>9, <1>10, KeptShapes, MildCore, SameUse
     DEF Inv, Core, Shapes, IsSlot, Mild
<1>12. WatchInv' /\ ClosingLive'
  <2>1. Slot' = Slot /\ \A u \in Slot : ~Closing(u)'
    BY <1>8, SameUse DEF Closing, Calm
  <2>2. \A u \in Slot : u # s => ~Closing(u)
    BY DEF Closing
  <2>3. WatchInv
    BY DEF Inv
  <2>4. \A u \in Slot : u # s => Watched(slot[u])' /\ (slot[u].type = "connected" => slot[u].ep)'
    BY <1>7, <2>2, <2>3 DEF WatchInv, Watched, EmptyRec
  <2>5. \A u \in Slot : u = s => Watched(slot[u])' /\ (slot[u].type = "connected" => slot[u].ep)'
    BY <1>5, <1>7 DEF Watched, EmptyRec
  <2> QED
    BY <2>1, <2>4, <2>5 DEF WatchInv, ClosingLive
<1> QED
  BY <1>9, <1>11, <1>12 DEF Inv

-----------------------------------------------------------------------------
(* Commands that are given a reserved slot.                                *)

(* Nobody is about to open a socket in slot s once the step is done.       *)
NoOwner(s) ==
    /\ \A t \in Sender : Owns(t) => S(t) # s
    /\ \A i \in DOMAIN pipe' : pipe'[i].c \in {"O", "L"} => HashId(pipe'[i].id) # s

(* A slot without an owner may change in any way.                          *)
LEMMA OwnedElsewhere ==
    ASSUME Shapes, Owned, th' = th, use' = use, Popped, alloc_id' \in Nat, alloc_id <= alloc_id',
           NEW s \in Slot, \A u \in Slot : u # s => slot'[u] = slot[u], NoOwner(s)
    PROVE  Owned'
<1>1. PICK d \in {0, 1} : \A i \in DOMAIN pipe' : i + d \in DOMAIN pipe /\ pipe'[i] = pipe[i + d]
  BY PoppedProps DEF Shapes
<1>2. DOMAIN pipe' \subseteq Int
  <2>1. DOMAIN pipe' = 1 .. Len(pipe')
    BY PoppedProps DEF Shapes
  <2> QED
    BY <2>1
<1>3. \A t \in Sender : S(t) \in Slot /\ S(t)' = S(t) /\ (Owns(t)' <=> Owns(t))
  BY ThType DEF S, HashId, Owns, Opens
<1>4. \A i \in DOMAIN pipe : HashId(pipe[i].id) \in Slot
  BY PipeType
<1>5. \A i \in DOMAIN pipe' : /\ Opening(i)' <=> Opening(i + d)
                              /\ HashId(pipe[i].id)' = HashId(pipe[i + d].id)
                              /\ Opening(i)' => HashId(pipe[i + d].id) # s
  BY <1>1 DEF Opening, HashId, NoOwner
<1>6. 1 .. alloc_id \subseteq 1 .. alloc_id'
  BY DEF Shapes
<1>7. \A t \in Sender :
          (Owns(t) => slot[S(t)].type = "reserve" /\ th[t].id \in 1 .. alloc_id)'
  <2> SUFFICES ASSUME NEW t \in Sender, Owns(t)
               PROVE  slot'[S(t)].type = "reserve" /\ th'[t].id \in 1 .. alloc_id'
    BY <1>3
  <2>1. slot[S(t)].type = "reserve" /\ th[t].id \in 1 .. alloc_id /\ S(t) # s
    BY DEF Owned, NoOwner
  <2> QED
    BY <1>3, <1>6, <2>1
<1>8. \A i \in DOMAIN pipe' :
          (Opening(i) => /\ slot[HashId(pipe[i].id)].type = "reserve"
                         /\ pipe[i].id \in 1 .. alloc_id)'
  <2> SUFFICES ASSUME NEW i \in DOMAIN pipe', Opening(i)'
               PROVE  (/\ slot[HashId(pipe[i].id)].type = "reserve"
                       /\ pipe[i].id \in 1 .. alloc_id)'
    OBVIOUS
  <2>1. /\ Opening(i + d) /\ i + d \in DOMAIN pipe /\ HashId(pipe[i + d].id) # s
        /\ pipe'[i] = pipe[i + d] /\ HashId(pipe[i].id)' = HashId(pipe[i + d].id)
    BY <1>1, <1>5
  <2>2. slot[HashId(pipe[i + d].id)].type = "reserve" /\ pipe[i + d].id \in 1 .. alloc_id
    BY <2>1 DEF Owned
  <2> QED
    BY <1>4, <1>6, <2>1, <2>2
<1>9. \A t, u \in Sender : Owns(t)' /\ Owns(u)' /\ t # u => S(t)' # S(u)'
  BY <1>3 DEF Owned
<1>10. \A i, j \in DOMAIN pipe' :
           Opening(i)' /\ Opening(j)' /\ i # j => HashId(pipe[i].id)' # HashId(pipe[j].id)'
  BY <1>1, <1>2, <1>5 DEF Owned
<1>11. \A t \in Sender, i \in DOMAIN pipe' :
           Owns(t)' /\ Opening(i)' => S(t)' # HashId(pipe[i].id)'
  BY <1>1, <1>3, <1>5 DEF Owned
<1> QED
  BY <1>7, <1>8, <1>9, <1>10, <1>11 DEF Owned

(* The command at the head of the pipe was the only one for its slot.      *)
LEMMA HeadOwner ==
    ASSUME Inv, Command({"O", "L"}), use' = use
    PROVE  /\ NoOwner(Target) /\ slot[Target].type = "reserve"
           /\ Head(pipe).id \in 1 .. alloc_id
           /\ ~Early => Fresh(Head(pipe))
<1>1. /\ pipe # <<>> /\ pipe' = Tail(pipe) /\ Head(pipe) = pipe[1] /\ 1 \in DOMAIN pipe
      /\ Head(pipe).c \in {"O", "L"}
  BY CommandProps
<1>2. pipe \in Seq(CmdRecord) /\ Owned
  BY DEF Inv, Shapes, Core
<1>3. Opening(1) /\ Target = HashId(pipe[1].id)
  BY <1>1 DEF Opening, Target
<1>4. \A i \in DOMAIN pipe' : i + 1 \in DOMAIN pipe /\ pipe'[i] = pipe[i + 1] /\ i + 1 # 1
  BY <1>1, <1>2, HeadTailProperties, LenProperties, EmptySeq
<1>5. \A t \in Sender : Owns(t) => S(t) # Target
  BY <1>1, <1>2, <1>3 DEF Owned
<1>6. \A i \in DOMAIN pipe' : pipe'[i].c \in {"O", "L"} => HashId(pipe'[i].id) # Target
  BY <1>1, <1>2, <1>3, <1>4 DEF Owned, Opening
<1>7. slot[Target].type = "reserve" /\ Head(pipe).id \in 1 .. alloc_id
  BY <1>1, <1>2, <1>3 DEF Owned
<1>8. ~Early => Fresh(Head(pipe))
  BY <1>1, <1>3 DEF Inv, Core, KnownInv
<1> QED
  BY <1>5, <1>6, <1>7, <1>8 DEF NoOwner

(* A slot that is reserved or free is no writer's.                         *)
LEMMA LockedElsewhere ==
    ASSUME Shapes, Locked, th' = th, use' = use,
           NEW s \in Slot, \A u \in Slot : u # s => slot'[u] = slot[u],
           slot[s].type \in {"invalid", "reserve"}, slot'[s].lock = slot[s].lock
    PROVE  Locked'
<1>1. \A t \in Sender : S(t) \in Slot /\ S(t)' = S(t)
  BY ThType DEF S, HashId
<1> SUFFICES ASSUME NEW t \in Sender
             PROVE  /\ th[t].pc \in {"check", "write"} => slot'[S(t)].lock = t
                    /\ th[t].pc = "write" => /\ slot'[S(t)].id = th[t].id
                                             /\ slot'[S(t)].type \in {"connected", "halfclose"}
                                             /\ slot'[S(t)].ep
  BY <1>1 DEF Locked
<1>2. CASE S(t) = s
  BY <1>1, <1>2 DEF Locked
<1>3. CASE S(t) # s
  BY <1>1, <1>3 DEF Locked
<1> QED
  BY <1>2, <1>3

(* No message is under way to a socket that no service can send to.        *)
LEMMA NoneUnderWay ==
    ASSUME Shapes, KnownInv, NEW id, ~Told(id)
    PROVE  Cardinality(InPipe(pipe, id)) = 0 /\ Cardinality(AtPipe(th, id)) = 0
<1>1. InPipe(pipe, id) = {} /\ AtPipe(th, id) = {}
  BY PipeType DEF KnownInv, InPipe, AtPipe
<1> QED
  BY <1>1, FS_EmptySet

(* new_fd takes a slot that is reserved, or free and reserved in the same  *)
(* step.                                                                   *)
LEMMA FillStep ==
    ASSUME Inv, crash = None, Calm, Calm', use' = use, th' = th, sent' = sent,
           net' \in NetRecord, ev' \in Seq(EvRecord),
           Popped, NoMessageTaken,
           NEW id \in Nat, id # 0, alloc_id' \in Nat, alloc_id <= alloc_id', id <= alloc_id',
           NEW type \in {"connected", "connecting", "paccept", "plisten"}, Fill(id, type),
           slot[HashId(id)].type \in {"invalid", "reserve"}, NoOwner(HashId(id)),
           known \subseteq known', known' \subseteq known \cup {id},
           ~Early => ~Told(id)
    PROVE  Inv'
<1> DEFINE s == HashId(id)
           r == slot[s]
           q == NewFd(r, id, type)
<1>1. Shapes /\ Core
  BY DEF Inv
<1>2. s \in Slot /\ IsSlot(r) /\ slot' = [slot EXCEPT ![s] = q]
  BY <1>1, HashType DEF Shapes, Fill
<1>3. /\ IsSlot(q) /\ q.id = id /\ q.tcp /\ q.tag = IdTag(id) /\ q.cnt = 0
      /\ q.dw = <<>> /\ q.type = type /\ q.high = r.high /\ q.low = r.low
      /\ q.lock = r.lock
      /\ (q.wr <=> type = "connecting") /\ (q.ep <=> type \notin {"paccept", "plisten"})
  <2>1. use \in Uses
    BY <1>1 DEF Shapes
  <2>2. NewSocket(r, q, id, type)
    BY <1>2, <2>1, NewFdType
  <2> HIDE DEF q
  <2> QED
    BY <2>2 DEF NewSocket
<1> HIDE DEF q
<1>4. /\ (slot = [u \in Slot |-> slot[u]] /\ \A u \in Slot : IsSlot(slot[u]))'
      /\ slot'[s] = q /\ \A u \in Slot : u # s => slot'[u] = slot[u]
  BY <1>1, <1>2, <1>3, SlotPut
<1>5. crash' \in {None, "slot"} /\ (crash' = None => r.high = <<>> /\ r.low = <<>>)
  BY NoneAssumption DEF Fill, SendBufferEmpty
<1>6. Slot' = Slot /\ HashId(id)' = s /\ IdTag(id)' = IdTag(id)
  BY SameUse DEF HashId, IdTag
<1>7. Shapes'
  <2>1. known' \subseteq 1 .. alloc_id'
    BY <1>1 DEF Shapes
  <2>2. /\ pipe' \in Seq(CmdRecord)'
        /\ \A i \in DOMAIN pipe' : pipe'[i].c \in {"D", "P"} <=> pipe'[i].m # None
    BY <1>1, PoppedShape
  <2>3. \A t \in Sender : ThreadData(th[t])'
    BY <1>1 DEF Shapes, ThreadData, Sends, Opens, Message
  <2> QED
    BY <1>1, <1>4, <1>5, <2>1, <2>2, <2>3, SameUse DEF Shapes
<1>8. Owned'
  BY <1>1, <1>2, <1>4, OwnedElsewhere DEF Core
<1>9. Locked'
  BY <1>1, <1>2, <1>3, <1>4, LockedElsewhere DEF Core
<1>10. TagInv'
  <2> SUFFICES ASSUME NEW u \in Slot
               PROVE  /\ slot'[u].id <= alloc_id'
                      /\ slot'[u].id # 0 => HashId(slot[u].id)' = u
                      /\ slot'[u].tcp => slot'[u].id # 0 /\ slot'[u].tag = IdTag(slot[u].id)'
                      /\ slot'[u].type \notin {"invalid", "reserve"} => slot'[u].tcp
    BY <1>6 DEF TagInv
  <2>1. CASE u = s
    BY <1>3, <1>4, <2>1 DEF HashId, IdTag
  <2>2. CASE u # s
    <3>1. slot'[u] = slot[u] /\ slot[u].id \in Nat /\ alloc_id \in Nat
      BY <1>1, <1>4, <2>2 DEF Shapes, IsSlot
    <3>2. /\ slot[u].id <= alloc_id
          /\ slot[u].id # 0 => HashId(slot[u].id) = u
          /\ slot[u].tcp => slot[u].id # 0 /\ slot[u].tag = IdTag(slot[u].id)
          /\ slot[u].type \notin {"invalid", "reserve"} => slot[u].tcp
      BY <1>1 DEF Core, TagInv
    <3>3. HashId(slot[u].id)' = HashId(slot[u].id) /\ IdTag(slot[u].id)' = IdTag(slot[u].id)
      BY <3>1 DEF HashId, IdTag
    <3> QED
      BY <3>1, <3>2, <3>3
  <2> QED
    BY <2>1, <2>2
<1>11. ASSUME ~Early PROVE KnownInv'
  <2>1. KnownInv
    BY <1>1, <1>11 DEF Core
  <2>2. PICK d \in {0, 1} : \A i \in DOMAIN pipe' : i + d \in DOMAIN pipe /\ pipe'[i] = pipe[i + d]
    BY <1>1, PoppedProps DEF Shapes
  <2>3. \A t \in Sender : (th[t].pc # "idle" /\ th[t].m # None => Told(th[t].id))'
    BY <2>1, ToldMore DEF KnownInv
  <2>4. \A i \in DOMAIN pipe' : (pipe[i].m # None => Told(pipe[i].id))'
    BY <2>1, <2>2, ToldMore DEF KnownInv
  <2>5. \A t \in Sender : (Owns(t) => Fresh(th[t]))'
    <3> SUFFICES ASSUME NEW t \in Sender, Owns(t)' PROVE Fresh(th[t])'
      OBVIOUS
    <3>1. Owns(t)
      BY DEF Owns, Opens
    <3>2. Fresh(th[t]) /\ th[t].id # id
      BY <2>1, <3>1 DEF KnownInv, NoOwner, S
    <3> QED
      BY <3>2 DEF Fresh
  <2>6. \A i \in DOMAIN pipe' : (Opening(i) => Fresh(pipe[i]))'
    <3> SUFFICES ASSUME NEW i \in DOMAIN pipe', Opening(i)' PROVE Fresh(pipe[i])'
      OBVIOUS
    <3>1. Opening(i + d) /\ i + d \in DOMAIN pipe /\ pipe'[i] = pipe[i + d]
      BY <2>2 DEF Opening
    <3>2. Fresh(pipe[i + d])
      BY <2>1, <3>1 DEF KnownInv
    <3>3. pipe'[i].id # id
      BY DEF NoOwner, Opening
    <3> QED
      BY <3>1, <3>2, <3>3 DEF Fresh
  <2>7. \A u \in Slot : (~slot[u].tcp => ~Told(slot[u].id))'
    <3> SUFFICES ASSUME NEW u \in Slot, ~slot'[u].tcp, Told(slot[u].id)' PROVE FALSE
      OBVIOUS
    <3>1. u # s /\ slot'[u] = slot[u]
      BY <1>3, <1>4
    <3>2. ~Told(slot[u].id)
      BY <2>1, <3>1 DEF KnownInv
    <3>3. slot[u].id = id
      BY <3>1, <3>2 DEF Told
    <3> QED
      BY <1>1, <3>1, <3>3 DEF Core, TagInv
  <2> QED
    BY <1>6, <2>3, <2>4, <2>5, <2>6, <2>7 DEF KnownInv
<1>12. ASSUME ~Early PROVE CountInv'
  <2>1. KnownInv /\ CountInv /\ ~Told(id)
    BY <1>1, <1>12 DEF Core
  <2>2. \A i : /\ Cardinality(InPipe(pipe', i)) = Cardinality(InPipe(pipe, i))
               /\ AtPipe(th', i) = AtPipe(th, i)
    BY <1>1, PoppedCount
  <2>3. Cardinality(InPipe(pipe, id)) = 0 /\ Cardinality(AtPipe(th, id)) = 0
    BY <1>1, <2>1, NoneUnderWay
  <2> SUFFICES ASSUME NEW u \in Slot, slot'[u].tcp
               PROVE  slot'[u].cnt = Cardinality(InPipe(pipe', slot'[u].id))
                                         + Cardinality(AtPipe(th', slot'[u].id))
    BY <1>6 DEF CountInv
  <2>4. CASE u = s
    BY <1>3, <1>4, <2>2, <2>3, <2>4
  <2>5. CASE u # s
    BY <1>4, <2>1, <2>2, <2>5 DEF CountInv
  <2> QED
    BY <2>4, <2>5
<1>13. crash' = None => WatchInv'
  <2> SUFFICES ASSUME crash' = None PROVE WatchInv'
    OBVIOUS
  <2>1. Watched(q) /\ (q.type = "connected" => q.ep)
    BY <1>3, <1>5 DEF Watched, EmptyRec
  <2> QED
    BY <1>2, <1>3, <2>1, NetSlot
<1>14. ClosingLive'
  BY DEF ClosingLive, Closing, Calm
<1> QED
  BY <1>5, <1>7, <1>8, <1>9, <1>10, <1>11, <1>12, <1>13, <1>14, NoneAssumption DEF Inv, Core

(* A number is used up because its slot is taken.                          *)
LEMMA AllocMore ==
    ASSUME Inv, use' = use, slot' = slot, th' = th, pipe' = pipe, net' = net, ev' = ev,
           known' = known, sent' = sent, crash' = crash, alloc_id' = alloc_id + 1
    PROVE  Inv'
<1>1. alloc_id \in Nat /\ 1 .. alloc_id \subseteq 1 .. alloc_id' /\ alloc_id' \in Nat
  BY DEF Inv, Shapes
<1>2. Slot' = Slot /\ \A id : HashId(id)' = HashId(id) /\ IdTag(id)' = IdTag(id)
  BY SameUse DEF HashId, IdTag
<1>3. Shapes'
  <2>1. \A t \in Sender : ThreadData(th[t])'
    BY DEF Inv, Shapes, ThreadData, Sends, Opens, Message
  <2>2. \A s \in Slot : IsSlot(slot[s])'
    BY DEF Inv, Shapes, IsSlot
  <2> QED
    BY <1>1, <2>1, <2>2, SameUse DEF Inv, Shapes
<1>4. Owned'
  BY <1>1 DEF Inv, Core, Owned, Owns, Opens, Opening, S, HashId
<1>5. Locked'
  BY DEF Inv, Core, Locked, S, HashId
<1>6. TagInv'
  <2>1. \A s \in Slot : slot[s].id \in Nat
    BY DEF Inv, Shapes, IsSlot
  <2> QED
    BY <1>1, <1>2, <2>1 DEF Inv, Core, TagInv, HashId, IdTag
<1>7. ~Early => KnownInv' /\ CountInv'
  BY <1>2 DEF Inv, Core, KnownInv, CountInv, Owns, Opens, Opening, Fresh, Told
<1>8. ClosingLive' /\ (crash' = None => WatchInv')
  BY <1>2 DEF Inv, ClosingLive, WatchInv, Closing, Watched, EmptyRec
<1> QED
  BY <1>3, <1>4, <1>5, <1>6, <1>7, <1>8 DEF Inv, Core

(* open_socket and listen_socket fill the slot that was reserved for them. *)
LEMMA OpenStep ==
    ASSUME Inv, crash = None, use' = use,
           (\E type \in {"connected", "connecting"} : OpenSocket(type)) \/ ListenSocket
    PROVE  Inv'
<1> DEFINE id == Head(pipe).id
<1>1. PICK type \in {"connected", "connecting", "plisten"} :
          /\ Command({"O", "L"}) /\ Fill(id, type) /\ net' = net /\ ev' = ev
          /\ known \subseteq known' /\ known' \subseteq known \cup {id}
  BY DEF OpenSocket, ListenSocket, Command
<1>2. /\ Calm /\ Popped /\ th' = th /\ alloc_id' = alloc_id /\ sent' = sent
      /\ Head(pipe).m = None /\ Head(pipe).c \in {"O", "L"}
  BY <1>1, CommandProps
<1>3. /\ NoOwner(HashId(id)) /\ slot[HashId(id)].type = "reserve"
      /\ id \in 1 .. alloc_id
      /\ ~Early => Fresh(Head(pipe))
  BY <1>1, HeadOwner DEF Target
<1>4. ~Early => ~Told(id)
  BY <1>2, <1>3 DEF Fresh, Told
<1>5. net' \in NetRecord /\ ev' \in Seq(EvRecord) /\ Calm' /\ alloc_id \in Nat
  BY <1>1, <1>2 DEF Inv, Shapes, Calm
<1>6. id \in Nat /\ id # 0 /\ id <= alloc_id'
  BY <1>2, <1>3, <1>5
<1> HIDE DEF id
<1> QED
  BY <1>1, <1>2, <1>3, <1>4, <1>5, <1>6, FillStep

(* The socket thread reserves and fills a slot at once.                    *)
LEMMA ReportAcceptStep ==
    ASSUME Inv, crash = None, use' = use, ReportAccept
    PROVE  Inv'
<1> DEFINE id == alloc_id + 1
<1>1. /\ Event({"listen"}) /\ alloc_id' = id /\ alloc_id \in Nat
  BY DEF ReportAccept, Inv, Shapes
<1>2. /\ Calm /\ Popped /\ pipe' = pipe /\ th' = th /\ sent' = sent
      /\ Tail(ev) \in Seq(EvRecord)
  BY <1>1, EventProps
<1>3. id \in Nat /\ id # 0 /\ alloc_id' \in Nat /\ alloc_id <= alloc_id' /\ id <= alloc_id'
  BY <1>1
<1>4. Shapes /\ Core
  BY DEF Inv
<1>5. id \notin known
  BY <1>1, <1>4 DEF Shapes
<1>6. CASE slot[HashId(id)].type = "invalid"
  <2>1. Fill(id, "paccept") /\ known' = known \cup {id} /\ NextEvent
    BY <1>6 DEF ReportAccept
  <2>2. net' \in NetRecord /\ ev' \in Seq(EvRecord) /\ Calm'
    BY <1>2, <1>4, <2>1, NextEventType
  <2>3. NoOwner(HashId(id))
    BY <1>2, <1>4, <1>6 DEF NoOwner, Core, Owned, Opening
  <2>4. ~Told(id)
    BY <1>5 DEF Told
  <2> HIDE DEF id
  <2> QED
    BY <1>2, <1>3, <1>6, <2>1, <2>2, <2>3, <2>4, FillStep
<1>7. CASE slot[HashId(id)].type # "invalid"
  <2>1. slot' = slot /\ known' = known /\ ev' = ev /\ net' = net /\ crash' = crash
    BY <1>7 DEF ReportAccept
  <2> QED
    BY <1>1, <1>2, <2>1, AllocMore
<1> QED
  BY <1>6, <1>7

(* open_socket fails and frees the slot, which nobody else can have        *)
(* reserved.                                                               *)
LEMMA OpenFailsStep ==
    ASSUME Inv, crash = None, use' = use, OpenFails
    PROVE  Inv'
<1> DEFINE r == slot[Target]
           q == [r EXCEPT !.type = "invalid"]
<1>1. Command({"O", "L"}) /\ net' = net /\ ev' = ev /\ known' = known /\ crash' = crash
  BY DEF OpenFails, Command
<1>2. /\ Target \in Slot /\ IsSlot(r) /\ Calm /\ Head(pipe).m = None
      /\ th' = th /\ alloc_id' = alloc_id /\ sent' = sent /\ Popped
  BY <1>1, CommandProps
<1>3. NoOwner(Target) /\ r.type = "reserve"
  BY <1>1, HeadOwner
<1>4. Shapes /\ Core /\ alloc_id \in Nat /\ alloc_id <= alloc_id'
  BY <1>2 DEF Inv, Shapes
<1>5. net' \in NetRecord /\ ev' \in Seq(EvRecord) /\ Calm'
  BY <1>1, <1>2 DEF Inv, Shapes, Calm
<1>6. slot' = [slot EXCEPT ![Target] = q]
  <2>1. slot = [u \in Slot |-> slot[u]]
    BY <1>4 DEF Shapes
  <2> QED
    BY <2>1 DEF OpenFails
<1>7. /\ IsSlot(q) /\ q.type = "invalid" /\ q.id = r.id /\ q.tcp = r.tcp /\ q.tag = r.tag
      /\ q.cnt = r.cnt /\ q.lock = r.lock /\ q.ep = r.ep
  BY <1>2 DEF IsSlot, Types
<1> HIDE DEF q
<1>8. /\ (slot = [u \in Slot |-> slot[u]] /\ \A u \in Slot : IsSlot(slot[u]))'
      /\ slot'[Target] = q /\ \A u \in Slot : u # Target => slot'[u] = slot[u]
  BY <1>2, <1>4, <1>6, <1>7, SlotPut
<1>9. Owned'
  BY <1>2, <1>3, <1>4, <1>8, OwnedElsewhere DEF Core
<1>10. Kept /\ \A u \in Slot : slot'[u].cnt = slot[u].cnt
  <2>1. \A u \in Slot : KeptRec(slot[u], slot'[u]) /\ slot'[u].cnt = slot[u].cnt
    BY <1>3, <1>7, <1>8 DEF KeptRec
  <2> QED
    BY <1>1, <1>2, <2>1 DEF Kept
<1>11. Core'
  BY <1>2, <1>4, <1>9, <1>10, KeptLocked, KeptTag, KeptKnown, KeptCount DEF Core
<1>12. Shapes'
  BY <1>1, <1>2, <1>4, <1>5, <1>8, <1>10, KeptShapes, SameUse DEF Core, IsSlot
<1>13. WatchInv' /\ ClosingLive'
  <2>1. Watched(q)
    BY <1>7 DEF Watched
  <2> QED
    BY <1>2, <1>5, <1>6, <1>7, <2>1, NetSlot
<1> QED
  BY <1>1, <1>11, <1>12, <1>13 DEF Inv

(* send_socket takes a message from the pipe and dec_sending_ref one off   *)
(* the count, so the assertion before it holds.                            *)
LEMMA SendSocketStep ==
    ASSUME Inv, crash = None, use' = use, SendSocket
    PROVE  Inv'
<1> DEFINE cmd == Head(pipe)
           r == slot[Target]
           a == IF Refuses THEN r ELSE Appended(r, cmd.c, cmd.m)
           counts == r.id = cmd.id /\ r.tcp
           q == [a EXCEPT !.cnt = IF counts THEN @ - 1 ELSE @]
<1>1. /\ Command({"D", "P"}) /\ net' = net /\ ev' = ev /\ known' = known
      /\ slot' = [slot EXCEPT ![Target] = q]
      /\ crash' = IF counts /\ r.cnt = 0 THEN "sending" ELSE crash
  BY DEF SendSocket
<1>2. /\ Target \in Slot /\ IsSlot(r) /\ Calm /\ cmd.m # None
      /\ th' = th /\ alloc_id' = alloc_id /\ sent' = sent /\ Popped
      /\ pipe # <<>> /\ pipe' = Tail(pipe) /\ cmd \in CmdRecord /\ cmd = pipe[1] /\ 1 \in DOMAIN pipe
  BY <1>1, CommandProps
<1>3. Shapes /\ Core /\ Watched(r) /\ (r.type = "connected" => r.ep)
  BY <1>2, CalmWatch DEF Inv
<1>4. net' \in NetRecord /\ ev' \in Seq(EvRecord) /\ Calm'
  BY <1>1, <1>2 DEF Inv, Shapes, Calm
<1>5. /\ IsSlot(a) /\ SameSocket(r, a) /\ a.dw = r.dw
      /\ Watched(a)
  <2>1. CASE Refuses
    BY <1>2, <1>3, <2>1 DEF SameSocket
  <2>2. CASE ~Refuses
    <3> DEFINE first == r.high = <<>> /\ r.low = <<>> /\ r.type = "connected"
    <3>1. a = Appended(r, cmd.c, cmd.m)
      BY <2>2
    <3>2. IsSlot(a) /\ SameSocket(r, a) /\ a.dw = r.dw /\ (a.wr <=> r.wr \/ first)
      BY <1>2, <3>1, AppendedType
    <3> HIDE DEF a
    <3>3. r.type \notin {"halfclose", "paccept", "plisten", "listen"}
      BY <2>2 DEF Refuses
    <3>4. Watched(a)
      BY <1>3, <3>2, <3>3 DEF Watched, EmptyRec, SameSocket
    <3> QED
      BY <3>2, <3>4
  <2> QED
    BY <2>1, <2>2
<1> HIDE DEF a
<1>6. /\ IsSlot(q) /\ q.type = a.type
      /\ q.high = a.high /\ q.low = a.low /\ q.dw = a.dw /\ q.wr = a.wr /\ q.ep = a.ep
      /\ q.id = a.id /\ q.tcp = a.tcp /\ q.tag = a.tag /\ q.lock = a.lock
      /\ q.cnt = IF counts THEN a.cnt - 1 ELSE a.cnt
  BY <1>5 DEF IsSlot
<1> HIDE DEF q
<1>7. /\ (slot = [u \in Slot |-> slot[u]] /\ \A u \in Slot : IsSlot(slot[u]))'
      /\ slot'[Target] = q /\ \A u \in Slot : u # Target => slot'[u] = slot[u]
  BY <1>1, <1>2, <1>3, <1>6, SlotPut
<1>8. WatchInv' /\ ClosingLive'
  <2>1. Watched(q) /\ (q.type = "connected" => q.ep)
    BY <1>3, <1>5, <1>6 DEF Watched, EmptyRec, SameSocket
  <2> QED
    BY <1>1, <1>2, <1>4, <1>6, <2>1, NetSlot
<1>9. Kept /\ \A u \in Slot : slot'[u].type = slot[u].type
  <2>1. \A u \in Slot : KeptRec(slot[u], slot'[u]) /\ slot'[u].type = slot[u].type
    BY <1>5, <1>6, <1>7 DEF KeptRec, SameSocket
  <2> QED
    BY <1>1, <1>2, <2>1 DEF Kept
<1>10. crash' \in {None, "sending", "slot"}
  BY <1>1
<1>11. Shapes'
  BY <1>3, <1>4, <1>2, <1>7, <1>9, <1>10, KeptShapes, SameUse DEF Core, IsSlot
<1>12. Owned' /\ Locked' /\ TagInv' /\ (~Early => KnownInv')
  BY <1>3, <1>9, KeptOwned, KeptLocked, KeptTag, KeptKnown DEF Core
<1>13. ASSUME ~Early PROVE CountInv' /\ crash' # "sending"
  <2>1. CountInv /\ KnownInv /\ TagInv
    BY <1>3, <1>13 DEF Core
  <2>2. Cardinality(InPipe(pipe, cmd.id)) # 0
    <3>1. 1 \in InPipe(pipe, cmd.id)
      BY <1>2, <1>3, PipeType DEF InPipe
    <3> QED
      BY <1>3, <3>1, CountsFinite, FS_EmptySet
  <2>3. \A id : /\ Cardinality(InPipe(pipe', id)) =
                       Cardinality(InPipe(pipe, id)) - IF cmd.id = id THEN 1 ELSE 0
                /\ AtPipe(th', id) = AtPipe(th, id)
    <3> SUFFICES ASSUME NEW id
                 PROVE  /\ Cardinality(InPipe(pipe', id)) =
                               Cardinality(InPipe(pipe, id)) - IF cmd.id = id THEN 1 ELSE 0
                        /\ AtPipe(th', id) = AtPipe(th, id)
      OBVIOUS
    <3>1. Len(pipe') \in Nat
      BY <1>2, <1>3, PoppedProps DEF Shapes
    <3>2. Cardinality(InPipe(pipe', id)) \in Nat
      BY <3>1, InPipeFinite
    <3>3. Cardinality(InPipe(pipe, id)) =
              Cardinality(InPipe(pipe', id)) + IF cmd.m # None /\ cmd.id = id THEN 1 ELSE 0
      BY <1>2, <1>3, PopCount
    <3> QED
      BY <1>2, <3>2, <3>3 DEF AtPipe
  <2>4. counts => r.cnt # 0
    <3> SUFFICES ASSUME counts PROVE r.cnt # 0
      OBVIOUS
    <3>1. r.cnt = Cardinality(InPipe(pipe, cmd.id)) + Cardinality(AtPipe(th, cmd.id))
      BY <1>2, <2>1 DEF CountInv
    <3> QED
      BY <1>3, <2>2, <3>1, CountsFinite
  <2>5. crash' # "sending"
    BY <1>1, <2>4, NoneAssumption
  <2> SUFFICES ASSUME NEW u \in Slot, slot'[u].tcp
               PROVE  slot'[u].cnt = Cardinality(InPipe(pipe', slot'[u].id))
                                         + Cardinality(AtPipe(th', slot'[u].id))
    BY <2>5, SameUse DEF CountInv
  <2>6. slot[u].tcp /\ slot'[u].id = slot[u].id
    BY <1>9 DEF Kept, KeptRec
  <2>7. slot[u].cnt = Cardinality(InPipe(pipe, slot[u].id)) + Cardinality(AtPipe(th, slot[u].id))
    BY <2>1, <2>6 DEF CountInv
  <2>8. Cardinality(InPipe(pipe, slot[u].id)) \in Nat /\ Cardinality(AtPipe(th, slot[u].id)) \in Nat
    BY <1>3, CountsFinite
  <2>9. slot'[u].cnt = slot[u].cnt - IF cmd.id = slot[u].id THEN 1 ELSE 0
    <3>1. CASE u = Target
      <4>1. slot'[u].cnt = IF counts THEN r.cnt - 1 ELSE r.cnt
        BY <1>5, <1>6, <1>7, <3>1 DEF SameSocket
      <4>2. counts <=> cmd.id = slot[u].id
        BY <2>6, <3>1
      <4> QED
        BY <2>7, <2>8, <3>1, <4>1, <4>2
    <3>2. CASE u # Target
      <4>1. slot[u].id # 0 /\ HashId(slot[u].id) = u
        BY <2>1, <2>6 DEF TagInv
      <4>2. cmd.id # slot[u].id
        BY <3>2, <4>1 DEF Target
      <4> QED
        BY <1>7, <2>7, <2>8, <3>2, <4>2
    <3> QED
      BY <3>1, <3>2
  <2> QED
    BY <2>3, <2>6, <2>7, <2>8, <2>9
<1> QED
  BY <1>8, <1>11, <1>12, <1>13 DEF Inv, Core

-----------------------------------------------------------------------------
(* The workers.                                                            *)

(* A worker moves.                                                         *)
LEMMA ThPut ==
    ASSUME Shapes, use' = use, NEW t \in Sender, NEW rec \in ThRecord, ThreadData(rec),
           th' = [th EXCEPT ![t] = rec]
    PROVE  /\ (th \in [Sender -> ThRecord] /\ \A u \in Sender : ThreadData(th[u]))'
           /\ th'[t] = rec /\ \A u \in Sender : u # t => th'[u] = th[u]
<1>1. th \in [Sender -> ThRecord] /\ \A u \in Sender : ThreadData(th[u])
  BY DEF Shapes
<1>2. th' \in [Sender -> ThRecord] /\ th'[t] = rec /\ \A u \in Sender : u # t => th'[u] = th[u]
  BY <1>1
<1>3. \A u \in Sender : ThreadData(th'[u])
  BY <1>1, <1>2
<1>4. \A u \in Sender : ThreadData(th[u])'
  BY <1>3, SameUse DEF ThreadData, Sends, Opens
<1> QED
  BY <1>2, <1>4, SameUse

(* The worker with this record has reserved a slot.                        *)
OwnsRec(r) == r.pc = "setid" \/ (r.pc = "pipe" /\ Opens(r))

(* What a worker that does not open a socket may do to a slot.             *)
WorkerRec(t, r, q) ==
    /\ q.type = r.type /\ q.id = r.id /\ q.tcp = r.tcp /\ q.tag = r.tag /\ q.ep = r.ep
    /\ q.lock = r.lock \/ r.lock \in {None, t}
    /\ Watched(r) => Watched(q)

(* A step of a worker that opens no socket.                                *)
LEMMA WorkerMoves ==
    ASSUME Inv, crash = None, use' = use,
           NEW t \in Sender, NEW rec \in ThRecord, ThreadData(rec), th' = [th EXCEPT ![t] = rec],
           NEW s \in Slot, NEW q, IsSlot(q), slot' = [slot EXCEPT ![s] = q],
           WorkerRec(t, slot[s], q),
           alloc_id' = alloc_id, pipe' = pipe, net' = net, ev' = ev, known' = known,
           crash' = crash, sent' \in Nat,
           ~OwnsRec(th[t]), ~OwnsRec(rec),
           rec.pc \in {"check", "write"} => slot'[HashId(rec.id)].lock = t,
           rec.pc = "write" => LET r == slot'[HashId(rec.id)] IN
               r.id = rec.id /\ r.type \in {"connected", "halfclose"} /\ r.ep,
           ~Early /\ rec.pc # "idle" /\ rec.m # None => Told(rec.id),
           ~Early => CountInv'
    PROVE  Inv'
<1>1. Shapes /\ Core /\ ClosingLive /\ WatchInv
  BY DEF Inv
<1>2. /\ (slot = [u \in Slot |-> slot[u]] /\ \A u \in Slot : IsSlot(slot[u]))'
      /\ slot'[s] = q /\ \A u \in Slot : u # s => slot'[u] = slot[u]
  BY <1>1, SlotPut
<1>3. /\ (th \in [Sender -> ThRecord] /\ \A u \in Sender : ThreadData(th[u]))'
      /\ th'[t] = rec /\ \A u \in Sender : u # t => th'[u] = th[u]
  BY <1>1, ThPut
<1>4. Slot' = Slot /\ \A id : HashId(id)' = HashId(id) /\ IdTag(id)' = IdTag(id)
  BY SameUse DEF HashId, IdTag
<1>5. \A u \in Slot :
          /\ slot'[u].type = slot[u].type /\ slot'[u].id = slot[u].id
          /\ slot'[u].tcp = slot[u].tcp /\ slot'[u].tag = slot[u].tag /\ slot'[u].ep = slot[u].ep
          /\ slot'[u].lock = slot[u].lock \/ slot[u].lock \in {None, t}
          /\ Watched(slot[u]) => Watched(slot'[u])
  BY <1>2 DEF WorkerRec
<1>6. Shapes'
  <2>1. \A i \in DOMAIN pipe' : pipe'[i].c \in {"D", "P"} <=> pipe'[i].m # None
    BY <1>1 DEF Shapes
  <2> QED
    BY <1>1, <1>2, <1>3, <2>1, SameUse DEF Shapes
<1>7. \A u \in Sender : /\ Owns(u)' <=> Owns(u)
                        /\ Owns(u) => u # t /\ th'[u] = th[u] /\ S(u)' = S(u)
                        /\ S(u) \in Slot
  <2>1. \A u \in Sender : (Owns(u) <=> OwnsRec(th[u])) /\ (Owns(u)' <=> OwnsRec(th'[u]))
    BY DEF Owns, OwnsRec, Opens
  <2> QED
    BY <1>1, <1>3, <2>1, ThType DEF S, HashId
<1>8. \A i \in DOMAIN pipe : (Opening(i)' <=> Opening(i)) /\ HashId(pipe[i].id)' = HashId(pipe[i].id)
                             /\ HashId(pipe[i].id) \in Slot
  BY <1>1, PipeType DEF Opening, HashId
<1>9. Owned'
  BY <1>1, <1>5, <1>7, <1>8 DEF Core, Owned
<1>10. Locked'
  <2> SUFFICES ASSUME NEW u \in Sender
               PROVE  (/\ th[u].pc \in {"check", "write"} => slot[S(u)].lock = u
                       /\ th[u].pc = "write" => /\ slot[S(u)].id = th[u].id
                                                /\ slot[S(u)].type \in {"connected", "halfclose"}
                                                /\ slot[S(u)].ep)'
    BY DEF Locked
  <2>1. CASE u = t
    <3>1. th'[u] = rec /\ S(u)' = HashId(rec.id)
      BY <1>3, <2>1 DEF S, HashId
    <3> QED
      BY <2>1, <3>1
  <2>2. CASE u # t
    <3>1. th'[u] = th[u] /\ S(u)' = S(u) /\ S(u) \in Slot
      BY <1>1, <1>3, <2>2, ThType DEF S, HashId
    <3>2. th[u].pc \in {"check", "write"} => slot[S(u)].lock = u
      BY <1>1 DEF Core, Locked
    <3>3. th[u].pc = "write" => /\ slot[S(u)].id = th[u].id
                                /\ slot[S(u)].type \in {"connected", "halfclose"}
                                /\ slot[S(u)].ep
      BY <1>1 DEF Core, Locked
    <3> QED
      BY <1>5, <2>2, <3>1, <3>2, <3>3, NoneAssumption
  <2> QED
    BY <2>1, <2>2
<1>11. TagInv'
  BY <1>1, <1>4, <1>5 DEF Core, TagInv, HashId, IdTag
<1>12. ASSUME ~Early PROVE KnownInv'
  <2>1. KnownInv
    BY <1>1, <1>12 DEF Core
  <2>2. \A id : Told(id)' <=> Told(id)
    BY DEF Told
  <2>3. \A u \in Sender : (th[u].pc # "idle" /\ th[u].m # None => Told(th[u].id))'
    BY <1>3, <1>12, <2>1, <2>2 DEF KnownInv, Told
  <2>4. \A i \in DOMAIN pipe' : (pipe[i].m # None => Told(pipe[i].id))'
    BY <2>1 DEF KnownInv, Told
  <2>5. \A u \in Sender : (Owns(u) => Fresh(th[u]))'
    BY <1>7, <2>1 DEF KnownInv, Fresh
  <2>6. \A i \in DOMAIN pipe' : (Opening(i) => Fresh(pipe[i]))'
    BY <1>8, <2>1 DEF KnownInv, Fresh
  <2>7. \A u \in Slot : (~slot[u].tcp => ~Told(slot[u].id))'
    BY <1>5, <2>1 DEF KnownInv, Told
  <2> QED
    BY <1>4, <2>3, <2>4, <2>5, <2>6, <2>7 DEF KnownInv
<1>13. WatchInv' /\ ClosingLive'
  <2>1. \A u \in Slot : (Closing(u)' <=> Closing(u)) /\ (Watched(slot[u])' <=> Watched(slot'[u]))
    BY DEF Closing, Watched, EmptyRec
  <2> QED
    BY <1>1, <1>4, <1>5, <2>1 DEF WatchInv, ClosingLive
<1> QED
  BY <1>6, <1>9, <1>10, <1>11, <1>12, <1>13 DEF Inv, Core

(* A worker that does not get to the pipe with a message, or from it, does *)
(* not change what is counted.                                             *)
LEMMA CountSame ==
    ASSUME Shapes, CountInv, use' = use, pipe' = pipe,
           NEW t \in Sender, \A u \in Sender : u # t => th'[u] = th[u],
           th[t].pc # "pipe" \/ th[t].m = None, th'[t].pc # "pipe" \/ th'[t].m = None,
           \A u \in Slot : slot'[u].tcp => /\ slot[u].tcp /\ slot'[u].id = slot[u].id
                                           /\ slot'[u].cnt = slot[u].cnt
    PROVE  CountInv'
<1>1. \A id : AtPipe(th', id) = AtPipe(th, id)
  BY DEF AtPipe
<1> QED
  BY <1>1, SameUse DEF CountInv

(* A send call has looked at the slot before anything else.                *)
LEMMA SendStep ==
    ASSUME Inv, crash = None, use' = use, NEW t \in Sender,
           NEW id \in Id, NEW c \in use.priority, Send(t, id, c)
    PROVE  Inv'
<1> DEFINE rec == [pc |-> IF c = "D" THEN "try" ELSE "inc", id |-> id,
                   m |-> <<t, sent + 1, c>>, c |-> c]
<1>1. Shapes /\ Core /\ use \in Uses /\ sent \in Nat
  BY DEF Inv, Shapes
<1>2. /\ slot' = slot /\ alloc_id' = alloc_id /\ pipe' = pipe /\ net' = net /\ ev' = ev
      /\ known' = known /\ crash' = crash /\ sent' = sent + 1 /\ sent < use.msgs
      /\ th[t].pc = "idle" /\ Usable(id)
  BY DEF Send
<1>3. id \in Nat /\ c \in {"D", "P"} /\ use.msgs \in Nat
  BY <1>1, SlotsType, ModeAssumption DEF Id
<1>4. 0 \in Slot /\ slot' = [slot EXCEPT ![0] = slot[0]] /\ IsSlot(slot[0])
  BY <1>1, <1>2, ZeroSlot DEF Shapes
<1>5. WorkerRec(t, slot[0], slot[0])
  BY DEF WorkerRec
<1>6. CASE th' = th
  <2>1. th[t] \in ThRecord /\ ThreadData(th[t]) /\ th' = [th EXCEPT ![t] = th[t]]
    BY <1>1, <1>6 DEF Shapes
  <2>2. ~Early => CountInv'
    BY <1>1, <1>2, <1>6, CountSame DEF Core
  <2>3. ~OwnsRec(th[t]) /\ th[t].pc = "idle" /\ sent' \in Nat
    BY <1>1, <1>2 DEF OwnsRec
  <2> QED
    BY <1>2, <1>4, <1>5, <2>1, <2>2, <2>3, WorkerMoves
<1>7. CASE th' = [th EXCEPT ![t] = rec]
  <2>1. <<t, sent + 1, c>> \in Message
    BY <1>1, <1>2, <1>3 DEF Message
  <2>2. rec \in ThRecord /\ ThreadData(rec) /\ rec.pc \in {"try", "inc"} /\ rec.id = id
    BY <1>3, <2>1 DEF ThRecord, ThreadData, Sends
  <2> HIDE DEF rec
  <2>3. th'[t] = rec /\ \A u \in Sender : u # t => th'[u] = th[u]
    BY <1>1, <1>7, <2>2, ThPut
  <2>4. ~Early => CountInv'
    BY <1>1, <1>2, <2>2, <2>3, CountSame DEF Core
  <2>5. ~Early => Told(rec.id)
    BY <1>2, <2>2 DEF Usable, Told
  <2>6. ~OwnsRec(th[t]) /\ ~OwnsRec(rec) /\ sent' \in Nat
    BY <1>1, <1>2, <2>2 DEF OwnsRec
  <2> QED
    BY <1>2, <1>4, <1>5, <1>7, <2>2, <2>4, <2>5, <2>6, WorkerMoves
<1> QED
  BY <1>6, <1>7 DEF Send, Step

(* The trylock and the second look.                                        *)
LEMMA LookStep ==
    ASSUME Inv, crash = None, use' = use, NEW t \in Sender, TryDirect(t) \/ CheckDirect(t)
    PROVE  Inv'
<1> DEFINE s == S(t)
           r == slot[s]
<1>1. Shapes /\ Core /\ sent \in Nat
  BY DEF Inv, Shapes
<1>2. /\ alloc_id' = alloc_id /\ pipe' = pipe /\ net' = net /\ ev' = ev
      /\ known' = known /\ crash' = crash /\ sent' = sent
      /\ th[t].pc \in {"try", "check"}
  BY DEF TryDirect, CheckDirect
<1>3. s \in Slot /\ IsSlot(r) /\ th[t] \in ThRecord /\ ThreadData(th[t]) /\ slot = [u \in Slot |-> slot[u]]
  BY <1>1, ThType DEF Shapes
<1>4. PICK pc \in {"check", "write", "inc"}, lock \in {r.lock, t, None} :
          /\ th' = [th EXCEPT ![t] = [th[t] EXCEPT !.pc = pc]]
          /\ slot' = [slot EXCEPT ![s] = [r EXCEPT !.lock = lock]]
          /\ pc \in {"check", "write"} => lock = t
          /\ pc = "write" => CanDirectWrite(s, th[t].id)
          /\ lock = r.lock \/ r.lock \in {None, t}
  <2>1. th[t].pc = "check" => r.lock = t
    BY <1>1 DEF Core, Locked
  <2>2. slot = [slot EXCEPT ![s] = [r EXCEPT !.lock = r.lock]]
    BY <1>3 DEF IsSlot
  <2>3. CASE TryDirect(t) /\ CanDirectWrite(s, th[t].id) /\ r.lock = None
    <3>1. /\ th' = [th EXCEPT ![t] = [th[t] EXCEPT !.pc = "check"]]
          /\ slot' = [slot EXCEPT ![s] = [r EXCEPT !.lock = t]]
      BY <1>3, <2>3 DEF TryDirect, Go, Step
    <3> QED
      BY <2>3, <3>1
  <2>4. CASE TryDirect(t) /\ ~(CanDirectWrite(s, th[t].id) /\ r.lock = None)
    <3>1. /\ th' = [th EXCEPT ![t] = [th[t] EXCEPT !.pc = "inc"]] /\ slot' = slot
      BY <2>4 DEF TryDirect, Go, Step
    <3> QED
      BY <2>2, <3>1
  <2>5. CASE CheckDirect(t) /\ CanDirectWrite(s, th[t].id)
    <3>1. /\ th' = [th EXCEPT ![t] = [th[t] EXCEPT !.pc = "write"]] /\ slot' = slot
          /\ th[t].pc = "check"
      BY <2>5 DEF CheckDirect, Go, Step
    <3> QED
      BY <2>1, <2>2, <2>5, <3>1
  <2>6. CASE CheckDirect(t) /\ ~CanDirectWrite(s, th[t].id)
    <3>1. /\ th' = [th EXCEPT ![t] = [th[t] EXCEPT !.pc = "inc"]] /\ th[t].pc = "check"
          /\ slot' = [slot EXCEPT ![s] = [r EXCEPT !.lock = None]]
      BY <1>3, <2>6 DEF CheckDirect, Go, Step
    <3> QED
      BY <2>1, <3>1
  <2> QED
    BY <2>3, <2>4, <2>5, <2>6
<1> DEFINE rec == [th[t] EXCEPT !.pc = pc]
           q == [r EXCEPT !.lock = lock]
<1>5. /\ rec \in ThRecord /\ rec.pc = pc /\ rec.id = th[t].id /\ rec.m = th[t].m
      /\ rec.c = th[t].c
  BY <1>3 DEF ThRecord
<1>6. Sends(th[t]) /\ ThreadData(rec)
  BY <1>2, <1>3, <1>5 DEF ThreadData, Sends
<1>7. /\ IsSlot(q) /\ q.lock = lock /\ q.type = r.type /\ q.id = r.id /\ q.tcp = r.tcp
      /\ q.tag = r.tag /\ q.ep = r.ep /\ q.cnt = r.cnt
      /\ q.high = r.high /\ q.low = r.low /\ q.dw = r.dw /\ q.wr = r.wr
  BY <1>3 DEF IsSlot
<1>8. th' = [th EXCEPT ![t] = rec] /\ slot' = [slot EXCEPT ![s] = q]
  BY <1>4
<1> HIDE DEF rec, q
<1>9. WorkerRec(t, r, q)
  BY <1>4, <1>7 DEF WorkerRec, Watched, EmptyRec
<1>10. th'[t] = rec /\ \A u \in Sender : u # t => th'[u] = th[u]
  BY <1>1, <1>5, <1>6, <1>8, ThPut
<1>11. slot'[s] = q /\ \A u \in Slot : u # s => slot'[u] = slot[u]
  BY <1>1, <1>3, <1>7, <1>8, SlotPut
<1>12. ~Early => CountInv'
  <2>1. \A u \in Slot : slot'[u].tcp => /\ slot[u].tcp /\ slot'[u].id = slot[u].id
                                        /\ slot'[u].cnt = slot[u].cnt
    BY <1>7, <1>11
  <2> QED
    BY <1>1, <1>2, <1>4, <1>5, <1>10, <2>1, CountSame DEF Core
<1>13. ~Early => Told(rec.id)
  BY <1>1, <1>2, <1>5, <1>6, NoMessage DEF Core, KnownInv, Sends
<1>14. s = HashId(rec.id)
  BY <1>5 DEF S
<1>15. pc \in {"check", "write"} => slot'[HashId(rec.id)].lock = t
  BY <1>4, <1>7, <1>11, <1>14
<1>16. pc = "write" => LET x == slot'[HashId(rec.id)] IN
           x.id = rec.id /\ x.type \in {"connected", "halfclose"} /\ x.ep
  <2> SUFFICES ASSUME pc = "write"
               PROVE  LET x == slot'[HashId(rec.id)] IN
                      x.id = rec.id /\ x.type \in {"connected", "halfclose"} /\ x.ep
    OBVIOUS
  <2>1. r.id = th[t].id /\ r.type = "connected"
    BY <1>4 DEF CanDirectWrite
  <2>2. r.ep
    BY <1>3, <2>1 DEF Inv, WatchInv
  <2> QED
    BY <1>5, <1>7, <1>11, <1>14, <2>1, <2>2
<1>17. ~OwnsRec(th[t]) /\ ~OwnsRec(rec)
  BY <1>2, <1>4, <1>5 DEF OwnsRec
<1> HIDE DEF s, r
<1> QED
  BY <1>1, <1>2, <1>3, <1>5, <1>6, <1>7, <1>8, <1>9, <1>12, <1>13, <1>15, <1>16, <1>17,
     WorkerMoves DEF s, r

(* A worker between two calls.                                             *)
LEMMA IdleType ==
    /\ Idle \in ThRecord /\ ThreadData(Idle) /\ Idle.pc = "idle" /\ ~OwnsRec(Idle)
BY DEF Idle, ThRecord, ThreadData, OwnsRec

(* A direct write leaves the lock, and the rest in dw_buffer with the      *)
(* write event wanted.                                                     *)
LEMMA DirectWriteStep ==
    ASSUME Inv, crash = None, use' = use, NEW t \in Sender,
           NEW n \in 0 .. Units, DirectWrite(t, n)
    PROVE  Inv'
<1> DEFINE s == S(t)
           r == slot[s]
           rest == SubSeq(UnitsOf(th[t].m), n + 1, Units)
           p == [r EXCEPT !.lock = None, !.dw = rest]
           q == [p EXCEPT !.wr = @ \/ n < Units]
<1>1. Shapes /\ Core /\ sent \in Nat /\ Units \in Nat
  BY ModeAssumption DEF Inv, Shapes
<1>2. /\ alloc_id' = alloc_id /\ pipe' = pipe /\ net' = net /\ ev' = ev
      /\ known' = known /\ crash' = crash /\ sent' = sent
      /\ th[t].pc = "write" /\ th' = [th EXCEPT ![t] = Idle]
  BY DEF DirectWrite, Step
<1>3. s \in Slot /\ IsSlot(r) /\ th[t] \in ThRecord /\ ThreadData(th[t])
      /\ slot = [u \in Slot |-> slot[u]]
  BY <1>1, ThType DEF Shapes
<1>4. r.lock = t /\ r.type \in {"connected", "halfclose"} /\ r.ep
  BY <1>1, <1>2 DEF Core, Locked
<1>5. n = Units => rest = <<>>
  <2>1. th[t].m \in Message
    BY <1>2, <1>3 DEF ThreadData, Sends
  <2>2. UnitsOf(th[t].m) \in Seq(Unit)
    BY <2>1, UnitsType
  <2>3. \A w \in Seq(Unit) : SubSeq(w, Units + 1, Units) = <<>>
    BY <1>1, SubSeqEmpty
  <2> QED
    BY <2>2, <2>3
<1>6. slot' = [slot EXCEPT ![s] = q]
  BY <1>3 DEF DirectWrite
<1> HIDE DEF rest
<1>7. /\ IsSlot(p) /\ p.lock = None /\ p.dw = rest /\ p.type = r.type /\ p.id = r.id
      /\ p.tcp = r.tcp /\ p.tag = r.tag /\ p.ep = r.ep /\ p.cnt = r.cnt
      /\ p.high = r.high /\ p.low = r.low /\ p.wr = r.wr
  BY <1>3 DEF IsSlot
<1> HIDE DEF p
<1>8. /\ IsSlot(q) /\ q.lock = None /\ q.dw = rest /\ q.type = r.type /\ q.id = r.id
      /\ q.tcp = r.tcp /\ q.tag = r.tag /\ q.ep = r.ep /\ q.cnt = r.cnt
      /\ q.high = r.high /\ q.low = r.low
  BY <1>7 DEF IsSlot
<1>9. q.wr <=> r.wr \/ n < Units
  BY <1>7 DEF IsSlot
<1> HIDE DEF q
<1>10. n < Units \/ n = Units
  BY <1>1
<1>11. WorkerRec(t, r, q)
  <2>1. Watched(r) => Watched(q)
    BY <1>4, <1>5, <1>8, <1>9, <1>10 DEF Watched, EmptyRec
  <2> QED
    BY <1>4, <1>8, <2>1 DEF WorkerRec
<1>12. th'[t] = Idle /\ \A u \in Sender : u # t => th'[u] = th[u]
  BY <1>1, <1>2, IdleType, ThPut
<1>13. slot'[s] = q /\ \A u \in Slot : u # s => slot'[u] = slot[u]
  BY <1>1, <1>3, <1>6, <1>8, SlotPut
<1>14. ~Early => CountInv'
  <2>1. \A u \in Slot : slot'[u].tcp => /\ slot[u].tcp /\ slot'[u].id = slot[u].id
                                        /\ slot'[u].cnt = slot[u].cnt
    BY <1>8, <1>13
  <2> QED
    BY <1>1, <1>2, <1>12, <2>1, CountSame, IdleType DEF Core
<1>15. ~OwnsRec(th[t])
  BY <1>2 DEF OwnsRec
<1> HIDE DEF s, r
<1> QED
  BY <1>1, <1>2, <1>3, <1>6, <1>8, <1>11, <1>14, <1>15, IdleType, WorkerMoves DEF s, r

(* inc_sending_ref counts for the socket of the message, if it still has   *)
(* its slot, and for no other.                                             *)
LEMMA IncSendingStep ==
    ASSUME Inv, crash = None, use' = use, NEW t \in Sender, IncSending(t)
    PROVE  Inv'
<1> DEFINE s == S(t)
           r == slot[s]
           id == th[t].id
           hit == r.tcp /\ r.tag = IdTag(id)
           q == [r EXCEPT !.cnt = IF hit THEN @ + 1 ELSE @]
           rec == [th[t] EXCEPT !.pc = "pipe"]
<1>1. Shapes /\ Core /\ sent \in Nat /\ use \in Uses
  BY DEF Inv, Shapes
<1>2. /\ alloc_id' = alloc_id /\ pipe' = pipe /\ net' = net /\ ev' = ev
      /\ known' = known /\ crash' = crash /\ sent' = sent
      /\ th[t].pc = "inc" /\ th' = [th EXCEPT ![t] = rec]
  BY DEF IncSending, Go, Step
<1>3. s \in Slot /\ IsSlot(r) /\ th[t] \in ThRecord /\ ThreadData(th[t]) /\ id \in Nat
      /\ slot = [u \in Slot |-> slot[u]]
  BY <1>1, ThType DEF Shapes
<1>4. slot' = [slot EXCEPT ![s] = q]
  <2>1. CASE hit
    BY <1>3, <2>1 DEF IncSending
  <2>2. CASE ~hit
    <3>1. [r EXCEPT !.cnt = r.cnt] = r
      BY <1>3 DEF IsSlot
    <3> QED
      BY <1>3, <2>2, <3>1 DEF IncSending
  <2> QED
    BY <2>1, <2>2
<1>5. /\ rec \in ThRecord /\ rec.pc = "pipe" /\ rec.id = id /\ rec.m = th[t].m /\ rec.c = th[t].c
  BY <1>3 DEF ThRecord
<1>6. Sends(th[t]) /\ ThreadData(rec) /\ ~OwnsRec(rec) /\ ~OwnsRec(th[t]) /\ rec.m # None
  BY <1>2, <1>3, <1>5, NoMessage DEF ThreadData, Sends, OwnsRec, Opens
<1>7. /\ IsSlot(q) /\ q.lock = r.lock /\ q.type = r.type /\ q.id = r.id /\ q.tcp = r.tcp
      /\ q.tag = r.tag /\ q.ep = r.ep
      /\ q.high = r.high /\ q.low = r.low /\ q.dw = r.dw /\ q.wr = r.wr
      /\ q.cnt = IF hit THEN r.cnt + 1 ELSE r.cnt
  BY <1>3 DEF IsSlot
<1> HIDE DEF q, rec
<1>8. WorkerRec(t, r, q)
  BY <1>7 DEF WorkerRec, Watched, EmptyRec
<1>9. th'[t] = rec /\ \A u \in Sender : u # t => th'[u] = th[u]
  BY <1>1, <1>2, <1>5, <1>6, ThPut
<1>10. slot'[s] = q /\ \A u \in Slot : u # s => slot'[u] = slot[u]
  BY <1>1, <1>3, <1>4, <1>7, SlotPut
<1>11. ASSUME ~Early PROVE CountInv'
  <2>1. CountInv /\ TagInv
    BY <1>1, <1>11 DEF Core
  <2>2. \A i : Cardinality(AtPipe(th', i)) = Cardinality(AtPipe(th, i)) + IF i = id THEN 1 ELSE 0
    <3> SUFFICES ASSUME NEW i
                 PROVE  Cardinality(AtPipe(th', i))
                            = Cardinality(AtPipe(th, i)) + IF i = id THEN 1 ELSE 0
      OBVIOUS
    <3>1. t \notin AtPipe(th, i)
      BY <1>2 DEF AtPipe
    <3>2. AtPipe(th', i) = IF i = id THEN AtPipe(th, i) \cup {t} ELSE AtPipe(th, i)
      BY <1>2, <1>5, <1>6, <1>9 DEF AtPipe
    <3>3. IsFiniteSet(AtPipe(th, i)) /\ Cardinality(AtPipe(th, i)) \in Nat
      BY <1>1, CountsFinite
    <3>4. Cardinality(AtPipe(th, i) \cup {t}) = Cardinality(AtPipe(th, i)) + 1
      BY <3>1, <3>3, FS_AddElement
    <3> QED
      BY <3>2, <3>3, <3>4
  <2>3. r.tcp => (r.id = id <=> r.tag = IdTag(id))
    <3> SUFFICES ASSUME r.tcp PROVE r.id = id <=> r.tag = IdTag(id)
      OBVIOUS
    <3>1. HashId(r.id) = s /\ r.tag = IdTag(r.id) /\ r.id \in Nat
      BY <1>3, <2>1 DEF TagInv, IsSlot
    <3>2. HashId(id) = s
      BY DEF S
    <3> QED
      BY <1>1, <1>3, <3>1, <3>2, SameId
  <2> SUFFICES ASSUME NEW u \in Slot, slot'[u].tcp
               PROVE  slot'[u].cnt = Cardinality(InPipe(pipe', slot'[u].id))
                                         + Cardinality(AtPipe(th', slot'[u].id))
    BY SameUse DEF CountInv
  <2>4. slot[u].tcp /\ slot'[u].id = slot[u].id
    BY <1>7, <1>10
  <2>5. slot[u].cnt = Cardinality(InPipe(pipe, slot[u].id)) + Cardinality(AtPipe(th, slot[u].id))
    BY <2>1, <2>4 DEF CountInv
  <2>6. Cardinality(InPipe(pipe, slot[u].id)) \in Nat /\ Cardinality(AtPipe(th, slot[u].id)) \in Nat
    BY <1>1, CountsFinite
  <2>7. slot'[u].cnt = slot[u].cnt + IF slot[u].id = id THEN 1 ELSE 0
    <3>1. CASE u = s
      <4>1. hit <=> slot[u].id = id
        BY <2>3, <2>4, <3>1
      <4> QED
        BY <1>7, <1>10, <2>5, <2>6, <3>1, <4>1
    <3>2. CASE u # s
      <4>1. HashId(slot[u].id) = u
        BY <2>1, <2>4 DEF TagInv
      <4>2. slot[u].id # id
        BY <3>2, <4>1 DEF S
      <4> QED
        BY <1>10, <2>5, <2>6, <3>2, <4>2
    <3> QED
      BY <3>1, <3>2
  <2>8. Cardinality(AtPipe(th', slot[u].id))
            = Cardinality(AtPipe(th, slot[u].id)) + IF slot[u].id = id THEN 1 ELSE 0
    BY <2>2
  <2>9. slot'[u].cnt = Cardinality(InPipe(pipe, slot[u].id)) + Cardinality(AtPipe(th', slot[u].id))
    BY <2>5, <2>6, <2>7, <2>8
  <2> QED
    BY <1>2, <2>4, <2>9
<1>12. ~Early => Told(rec.id)
  BY <1>1, <1>2, <1>5, <1>6 DEF Core, KnownInv
<1> HIDE DEF s, r
<1> QED
  BY <1>1, <1>2, <1>3, <1>4, <1>5, <1>6, <1>7, <1>8, <1>11, <1>12, WorkerMoves DEF s, r

(* A worker moves on with the slot it has reserved, or reserves a free     *)
(* one.                                                                    *)
LEMMA OwnerMoves ==
    ASSUME Inv, crash = None, use' = use,
           NEW t \in Sender, NEW rec \in ThRecord, ThreadData(rec), th' = [th EXCEPT ![t] = rec],
           NEW s \in Slot, NEW q, IsSlot(q), slot' = [slot EXCEPT ![s] = q],
           pipe' = pipe, net' = net, ev' = ev, known' = known, crash' = crash, sent' = sent,
           alloc_id' \in Nat, alloc_id <= alloc_id',
           th[t].pc \in {"idle", "setid"}, OwnsRec(rec), rec.m = None,
           HashId(rec.id) = s, rec.id \in 1 .. alloc_id',
           \A u \in Sender : u # t /\ Owns(u) => S(u) # s,
           \A i \in DOMAIN pipe : Opening(i) => HashId(pipe[i].id) # s,
           slot[s].type \in {"invalid", "reserve"}, q.type = "reserve",
           q.lock = slot[s].lock, q.tag = slot[s].tag, q.cnt = slot[s].cnt,
           q.tcp => slot[s].tcp /\ q.id = slot[s].id,
           q.id <= alloc_id', q.id # 0 => HashId(q.id) = s,
           ~Early => Fresh(rec) /\ (~q.tcp => ~Told(q.id))
    PROVE  Inv'
<1>1. Shapes /\ Core /\ ClosingLive /\ WatchInv
  BY DEF Inv
<1>2. /\ (slot = [u \in Slot |-> slot[u]] /\ \A u \in Slot : IsSlot(slot[u]))'
      /\ slot'[s] = q /\ \A u \in Slot : u # s => slot'[u] = slot[u]
  BY <1>1, SlotPut
<1>3. /\ (th \in [Sender -> ThRecord] /\ \A u \in Sender : ThreadData(th[u]))'
      /\ th'[t] = rec /\ \A u \in Sender : u # t => th'[u] = th[u]
  BY <1>1, ThPut
<1>4. Slot' = Slot /\ \A id : HashId(id)' = HashId(id) /\ IdTag(id)' = IdTag(id)
  BY SameUse DEF HashId, IdTag
<1>5. alloc_id \in Nat /\ 1 .. alloc_id \subseteq 1 .. alloc_id'
  BY <1>1 DEF Shapes
<1>6. Shapes'
  <2>1. \A i \in DOMAIN pipe' : pipe'[i].c \in {"D", "P"} <=> pipe'[i].m # None
    BY <1>1 DEF Shapes
  <2> QED
    BY <1>1, <1>2, <1>3, <1>5, <2>1, SameUse DEF Shapes
<1>7. \A u \in Sender : u # t => /\ th'[u] = th[u] /\ S(u)' = S(u) /\ S(u) \in Slot
                                 /\ Owns(u)' <=> Owns(u)
  BY <1>1, <1>3, ThType DEF S, HashId, Owns, Opens
<1>8. Owns(t)' /\ S(t)' = s /\ th'[t].id \in 1 .. alloc_id'
  BY <1>3 DEF Owns, OwnsRec, Opens, S, HashId
<1>9. \A i \in DOMAIN pipe : (Opening(i)' <=> Opening(i)) /\ HashId(pipe[i].id)' = HashId(pipe[i].id)
                             /\ HashId(pipe[i].id) \in Slot
  BY <1>1, PipeType DEF Opening, HashId
<1>10. Owned'
  <2>1. \A u \in Sender :
            (Owns(u) => slot[S(u)].type = "reserve" /\ th[u].id \in 1 .. alloc_id)'
    <3> SUFFICES ASSUME NEW u \in Sender, Owns(u)'
                 PROVE  slot'[S(u)'].type = "reserve" /\ th'[u].id \in 1 .. alloc_id'
      OBVIOUS
    <3>1. CASE u = t
      BY <1>2, <1>8, <3>1
    <3>2. CASE u # t
      <4>1. Owns(u) /\ S(u)' = S(u) /\ th'[u] = th[u] /\ S(u) \in Slot /\ S(u) # s
        BY <1>7, <3>2
      <4>2. slot[S(u)].type = "reserve" /\ th[u].id \in 1 .. alloc_id
        BY <1>1, <4>1 DEF Core, Owned
      <4> QED
        BY <1>2, <1>5, <4>1, <4>2
    <3> QED
      BY <3>1, <3>2
  <2>2. \A i \in DOMAIN pipe' :
            (Opening(i) => slot[HashId(pipe[i].id)].type = "reserve" /\ pipe[i].id \in 1 .. alloc_id)'
    BY <1>1, <1>2, <1>5, <1>9 DEF Core, Owned
  <2>3. \A u, v \in Sender : Owns(u)' /\ Owns(v)' /\ u # v => S(u)' # S(v)'
    BY <1>1, <1>7, <1>8 DEF Core, Owned
  <2>4. \A i, j \in DOMAIN pipe' :
            Opening(i)' /\ Opening(j)' /\ i # j => HashId(pipe[i].id)' # HashId(pipe[j].id)'
    BY <1>1, <1>9 DEF Core, Owned
  <2>5. \A u \in Sender, i \in DOMAIN pipe' :
            Owns(u)' /\ Opening(i)' => S(u)' # HashId(pipe[i].id)'
    BY <1>1, <1>7, <1>8, <1>9 DEF Core, Owned
  <2> QED
    BY <2>1, <2>2, <2>3, <2>4, <2>5 DEF Owned
<1>11. Locked'
  <2> SUFFICES ASSUME NEW u \in Sender
               PROVE  (/\ th[u].pc \in {"check", "write"} => slot[S(u)].lock = u
                       /\ th[u].pc = "write" => /\ slot[S(u)].id = th[u].id
                                                /\ slot[S(u)].type \in {"connected", "halfclose"}
                                                /\ slot[S(u)].ep)'
    BY DEF Locked
  <2>1. CASE u = t
    BY <1>3, <2>1 DEF OwnsRec
  <2>2. CASE u # t
    <3>1. th'[u] = th[u] /\ S(u)' = S(u) /\ S(u) \in Slot
      BY <1>7, <2>2
    <3>2. th[u].pc \in {"check", "write"} => slot[S(u)].lock = u
      BY <1>1 DEF Core, Locked
    <3>3. th[u].pc = "write" => /\ slot[S(u)].id = th[u].id
                                /\ slot[S(u)].type \in {"connected", "halfclose"}
                                /\ slot[S(u)].ep
      BY <1>1 DEF Core, Locked
    <3>4. CASE S(u) = s
      BY <1>2, <3>1, <3>2, <3>3, <3>4
    <3>5. CASE S(u) # s
      BY <1>2, <3>1, <3>2, <3>3, <3>5
    <3> QED
      BY <3>4, <3>5
  <2> QED
    BY <2>1, <2>2
<1>12. TagInv'
  <2> SUFFICES ASSUME NEW u \in Slot
               PROVE  /\ slot'[u].id <= alloc_id'
                      /\ slot'[u].id # 0 => HashId(slot'[u].id) = u
                      /\ slot'[u].tcp => slot'[u].id # 0 /\ slot'[u].tag = IdTag(slot'[u].id)
                      /\ slot'[u].type \notin {"invalid", "reserve"} => slot'[u].tcp
    BY <1>4 DEF TagInv, HashId, IdTag
  <2>1. /\ slot[u].id <= alloc_id /\ slot[u].id \in Nat
        /\ slot[u].id # 0 => HashId(slot[u].id) = u
        /\ slot[u].tcp => slot[u].id # 0 /\ slot[u].tag = IdTag(slot[u].id)
        /\ slot[u].type \notin {"invalid", "reserve"} => slot[u].tcp
    BY <1>1 DEF Core, TagInv, Shapes, IsSlot
  <2>2. CASE u = s
    BY <1>2, <2>1, <2>2
  <2>3. CASE u # s
    <3>1. slot[u].id <= alloc_id'
      BY <1>5, <2>1
    <3> QED
      BY <1>2, <2>1, <2>3, <3>1
  <2> QED
    BY <2>2, <2>3
<1>13. ASSUME ~Early PROVE KnownInv' /\ CountInv'
  <2>1. KnownInv /\ CountInv
    BY <1>1, <1>13 DEF Core
  <2>2. \A id : Told(id)' <=> Told(id)
    BY DEF Told
  <2>3. \A u \in Sender : (th[u].pc # "idle" /\ th[u].m # None => Told(th[u].id))'
    BY <1>3, <2>1, <2>2 DEF KnownInv, Told
  <2>4. \A i \in DOMAIN pipe' : (pipe[i].m # None => Told(pipe[i].id))'
    BY <2>1 DEF KnownInv, Told
  <2>5. \A u \in Sender : (Owns(u) => Fresh(th[u]))'
    <3> SUFFICES ASSUME NEW u \in Sender, Owns(u)' PROVE Fresh(th[u])'
      OBVIOUS
    <3>1. CASE u = t
      BY <1>3, <1>13, <3>1 DEF Fresh
    <3>2. CASE u # t
      BY <1>7, <2>1, <3>2 DEF KnownInv, Fresh
    <3> QED
      BY <3>1, <3>2
  <2>6. \A i \in DOMAIN pipe' : (Opening(i) => Fresh(pipe[i]))'
    BY <1>9, <2>1 DEF KnownInv, Fresh
  <2>7. \A u \in Slot : (~slot[u].tcp => ~Told(slot[u].id))'
    BY <1>2, <1>13, <2>1 DEF KnownInv, Told
  <2>8. KnownInv'
    BY <1>4, <2>3, <2>4, <2>5, <2>6, <2>7 DEF KnownInv
  <2>9. \A u \in Slot : slot'[u].tcp => /\ slot[u].tcp /\ slot'[u].id = slot[u].id
                                        /\ slot'[u].cnt = slot[u].cnt
    BY <1>2
  <2>10. CountInv'
    BY <1>1, <1>3, <2>1, <2>9, CountSame
  <2> QED
    BY <2>8, <2>10
<1>14. WatchInv' /\ ClosingLive'
  <2>1. ~Closing(s)
    BY <1>1 DEF ClosingLive
  <2>2. \A u \in Slot : (Closing(u)' <=> Closing(u)) /\ (Watched(slot[u])' <=> Watched(slot'[u]))
    BY DEF Closing, Watched, EmptyRec
  <2>3. Watched(q)
    BY DEF Watched
  <2>4. \A u \in Slot : /\ slot'[u].type = "connected" => slot'[u].ep
                        /\ ~Closing(u) => Watched(slot'[u])
    BY <1>1, <1>2, <2>3 DEF WatchInv
  <2>5. \A u \in Slot : Closing(u) => slot'[u].type \notin {"invalid", "reserve"}
    BY <1>1, <1>2, <2>1 DEF ClosingLive
  <2> QED
    BY <1>4, <2>2, <2>4, <2>5 DEF WatchInv, ClosingLive
<1> QED
  BY <1>6, <1>10, <1>11, <1>12, <1>13, <1>14 DEF Inv, Core

(* The reserved slot gets its id, which no service can send to yet.        *)
LEMMA SetIdStep ==
    ASSUME Inv, crash = None, use' = use, NEW t \in Sender, SetId(t)
    PROVE  Inv'
<1> DEFINE s == S(t)
           r == slot[s]
           id == th[t].id
           q == [r EXCEPT !.id = id, !.tcp = FALSE]
           rec == [th[t] EXCEPT !.pc = "pipe"]
<1>1. Shapes /\ Core /\ alloc_id \in Nat
  BY DEF Inv, Shapes
<1>2. /\ alloc_id' = alloc_id /\ pipe' = pipe /\ net' = net /\ ev' = ev
      /\ known' = known /\ crash' = crash /\ sent' = sent
      /\ th[t].pc = "setid" /\ th' = [th EXCEPT ![t] = rec]
  BY DEF SetId, Go, Step
<1>3. s \in Slot /\ IsSlot(r) /\ th[t] \in ThRecord /\ ThreadData(th[t]) /\ id \in Nat
      /\ slot = [u \in Slot |-> slot[u]]
  BY <1>1, ThType DEF Shapes
<1>4. slot' = [slot EXCEPT ![s] = q]
  BY <1>3 DEF SetId
<1>5. Opens(th[t]) /\ Owns(t)
  BY <1>2, <1>3 DEF ThreadData, Owns
<1>6. /\ rec \in ThRecord /\ rec.pc = "pipe" /\ rec.id = id /\ rec.m = None /\ rec.c = th[t].c
  BY <1>3, <1>5 DEF ThRecord, Opens
<1>7. ThreadData(rec) /\ OwnsRec(rec) /\ HashId(rec.id) = s
  BY <1>5, <1>6 DEF ThreadData, OwnsRec, Opens, S
<1>8. r.type = "reserve" /\ id \in 1 .. alloc_id
  BY <1>1, <1>5 DEF Core, Owned
<1>9. /\ \A u \in Sender : u # t /\ Owns(u) => S(u) # s
      /\ \A i \in DOMAIN pipe : Opening(i) => HashId(pipe[i].id) # s
  BY <1>1, <1>5 DEF Core, Owned
<1>10. /\ IsSlot(q) /\ q.lock = r.lock /\ q.type = r.type /\ q.id = id /\ ~q.tcp
       /\ q.tag = r.tag /\ q.cnt = r.cnt
  BY <1>3 DEF IsSlot
<1>11. ~Early => Fresh(th[t])
  BY <1>1, <1>5 DEF Core, KnownInv
<1>12. ~Early => Fresh(rec) /\ ~Told(id)
  BY <1>5, <1>6, <1>11 DEF Fresh, Told, Opens
<1>13. q.id <= alloc_id' /\ rec.id \in 1 .. alloc_id' /\ alloc_id' \in Nat /\ alloc_id <= alloc_id'
  BY <1>1, <1>2, <1>6, <1>8, <1>10
<1> HIDE DEF q, rec
<1>14. HashId(q.id) = s
  BY <1>6, <1>7, <1>10
<1> HIDE DEF s, r
<1> QED
  BY <1>2, <1>3, <1>4, <1>6, <1>7, <1>8, <1>9, <1>10, <1>12, <1>13, <1>14, OwnerMoves DEF s, r

(* reserve_id finds a free slot, which has no owner, or uses up a number.  *)
LEMMA ReserveStep ==
    ASSUME Inv, crash = None, use' = use, NEW t \in Sender,
           Reserve(t, IF use.listen /\ alloc_id = 0 THEN "L" ELSE "O")
    PROVE  Inv'
<1> DEFINE id == alloc_id + 1
           s == HashId(id)
           r == slot[s]
           q == [r EXCEPT !.type = "reserve"]
           c == IF use.listen /\ alloc_id = 0 THEN "L" ELSE "O"
           rec == [Idle EXCEPT !.pc = "setid", !.id = id, !.c = c]
<1>1. Shapes /\ Core /\ alloc_id \in Nat /\ use \in Uses
  BY DEF Inv, Shapes
<1>2. /\ alloc_id' = id /\ pipe' = pipe /\ net' = net /\ ev' = ev
      /\ known' = known /\ crash' = crash /\ sent' = sent /\ th[t].pc = "idle"
  BY DEF Reserve
<1>3. id \in Nat /\ id # 0
  BY <1>1
<1>4. s \in Slot
  BY <1>1, <1>3, HashType
<1>5. IsSlot(r) /\ slot = [u \in Slot |-> slot[u]]
  BY <1>1, <1>4 DEF Shapes
<1>6. CASE r.type # "invalid"
  <2>1. slot' = slot /\ th' = th
    BY <1>6 DEF Reserve
  <2> QED
    BY <1>2, <2>1, AllocMore
<1>7. CASE r.type = "invalid"
  <2>1. slot' = [slot EXCEPT ![s] = q] /\ th' = [th EXCEPT ![t] = rec]
    BY <1>5, <1>7 DEF Reserve, Step
  <2>2. c \in {"O", "L"}
    OBVIOUS
  <2>3. rec \in ThRecord /\ rec.pc = "setid" /\ rec.id = id /\ rec.m = None /\ rec.c = c
    <3> HIDE DEF c, id
    <3> QED
      BY <1>3, <2>2 DEF ThRecord, Idle
  <2>4. ThreadData(rec) /\ OwnsRec(rec)
    BY <2>2, <2>3 DEF ThreadData, OwnsRec, Opens
  <2>5. /\ IsSlot(q) /\ q.lock = r.lock /\ q.type = "reserve" /\ q.id = r.id /\ q.tcp = r.tcp
        /\ q.tag = r.tag /\ q.cnt = r.cnt
    BY <1>5 DEF IsSlot, Types
  <2>6. /\ \A u \in Sender : Owns(u) => S(u) # s
        /\ \A i \in DOMAIN pipe : Opening(i) => HashId(pipe[i].id) # s
    BY <1>1, <1>7 DEF Core, Owned
  <2>7. r.id \in Nat /\ r.id <= alloc_id /\ (r.id # 0 => HashId(r.id) = s)
    BY <1>1, <1>4, <1>5 DEF Core, TagInv, IsSlot
  <2>8. id \notin known
    BY <1>1 DEF Shapes
  <2>9. Fresh(rec)
    <3>1. c = "L" => use.listen /\ id = 1
      BY <1>1
    <3> HIDE DEF c, id, rec
    <3> QED
      BY <2>3, <2>8, <3>1 DEF Fresh
  <2>10. ~Early => (~q.tcp => ~Told(q.id))
    BY <1>1, <1>4, <2>5 DEF Core, KnownInv
  <2>11. /\ alloc_id' \in Nat /\ alloc_id <= alloc_id' /\ q.id <= alloc_id'
         /\ id \in 1 .. alloc_id'
    BY <1>1, <1>2, <2>5, <2>7
  <2>12. rec.id \in 1 .. alloc_id' /\ HashId(rec.id) = s /\ (q.id # 0 => HashId(q.id) = s)
    BY <2>3, <2>5, <2>7, <2>11
  <2> HIDE DEF rec, q, id, c, s
  <2> QED
    BY <1>2, <1>4, <1>7, <2>1, <2>3, <2>4, <2>5, <2>6, <2>9, <2>10, <2>11, <2>12, OwnerMoves DEF r
<1> QED
  BY <1>6, <1>7

(* A command at the end of the pipe.                                       *)
LEMMA PushProps ==
    ASSUME Shapes, use' = use, NEW cmd \in CmdRecord, cmd.c \in {"D", "P"} <=> cmd.m # None,
           pipe' = Append(pipe, cmd)
    PROVE  \E n \in Nat :
               /\ DOMAIN pipe' = DOMAIN pipe \cup {n} /\ n \notin DOMAIN pipe
               /\ pipe'[n] = cmd /\ \A i \in DOMAIN pipe : pipe'[i] = pipe[i]
               /\ (/\ pipe \in Seq(CmdRecord)
                   /\ \A i \in DOMAIN pipe : pipe[i].c \in {"D", "P"} <=> pipe[i].m # None)'
<1> DEFINE n == Len(pipe) + 1
<1>1. pipe \in Seq(CmdRecord) /\ Len(pipe) \in Nat /\ DOMAIN pipe = 1 .. Len(pipe)
  BY LenProperties DEF Shapes
<1>2. /\ pipe' \in Seq(CmdRecord) /\ Len(pipe') = Len(pipe) + 1 /\ pipe'[n] = cmd
      /\ \A i \in 1 .. Len(pipe) : pipe'[i] = pipe[i]
  BY <1>1, AppendProperties
<1>3. DOMAIN pipe' = 1 .. Len(pipe) + 1
  BY <1>2, LenProperties
<1>4. DOMAIN pipe' = DOMAIN pipe \cup {n} /\ n \notin DOMAIN pipe /\ n \in Nat
  BY <1>1, <1>3
<1>5. \A i \in DOMAIN pipe : pipe[i].c \in {"D", "P"} <=> pipe[i].m # None
  BY DEF Shapes
<1>6. \A i \in DOMAIN pipe' : pipe'[i].c \in {"D", "P"} <=> pipe'[i].m # None
  BY <1>1, <1>2, <1>4, <1>5
<1> HIDE DEF n
<1> QED
  BY <1>1, <1>2, <1>4, <1>6, SameUse

(* A worker that is done sends a command: its own request, or one that     *)
(* has neither a message nor a slot.                                       *)
LEMMA PushStep ==
    ASSUME Inv, crash = None, use' = use, NEW t \in Sender,
           NEW rec \in ThRecord, ThreadData(rec), rec.pc = "idle", th' = [th EXCEPT ![t] = rec],
           NEW cmd \in CmdRecord, pipe' = Append(pipe, cmd),
           \/ cmd.c \in {"K", "S"} /\ cmd.m = None /\ th[t].pc = "idle"
           \/ th[t].pc = "pipe" /\ cmd.c = th[t].c /\ cmd.id = th[t].id /\ cmd.m = th[t].m,
           known' = IF cmd.c = "L" THEN known \cup {cmd.id} ELSE known,
           slot' = slot, alloc_id' = alloc_id, net' = net, ev' = ev, sent' = sent,
           crash' = crash
    PROVE  Inv'
<1>1. Shapes /\ Core /\ ClosingLive /\ WatchInv /\ th[t] \in ThRecord /\ ThreadData(th[t])
  BY DEF Inv, Shapes
<1>2. /\ (th \in [Sender -> ThRecord] /\ \A u \in Sender : ThreadData(th[u]))'
      /\ th'[t] = rec /\ \A u \in Sender : u # t => th'[u] = th[u]
  BY <1>1, ThPut
<1>3. Slot' = Slot /\ \A id : HashId(id)' = HashId(id) /\ IdTag(id)' = IdTag(id)
  BY SameUse DEF HashId, IdTag
<1>4. cmd.c \in {"D", "P"} <=> cmd.m # None
  BY <1>1, NoMessage DEF ThreadData, Opens, Sends
<1>5. PICK n \in Nat :
          /\ DOMAIN pipe' = DOMAIN pipe \cup {n} /\ n \notin DOMAIN pipe
          /\ pipe'[n] = cmd /\ \A i \in DOMAIN pipe : pipe'[i] = pipe[i]
          /\ (/\ pipe \in Seq(CmdRecord)
              /\ \A i \in DOMAIN pipe : pipe[i].c \in {"D", "P"} <=> pipe[i].m # None)'
  BY <1>1, <1>4, PushProps
<1>6. cmd.c \in {"O", "L"} => /\ Owns(t) /\ th[t].pc = "pipe" /\ cmd.id = th[t].id
                              /\ cmd.c = th[t].c /\ HashId(cmd.id) = S(t)
  BY <1>1, <1>4 DEF ThreadData, Opens, Sends, Owns, S
<1>7. known' \subseteq 1 .. alloc_id
  BY <1>1, <1>6 DEF Core, Owned, Shapes
<1>8. \A u \in Slot : IsSlot(slot[u])'
  BY <1>1 DEF Shapes, IsSlot
<1>9. Shapes'
  BY <1>1, <1>2, <1>3, <1>5, <1>7, <1>8, SameUse DEF Shapes
<1>10. ~Owns(t)'
  BY <1>2 DEF Owns
<1>11. \A u \in Sender : /\ Owns(u)' => u # t
                         /\ u # t => /\ th'[u] = th[u] /\ S(u)' = S(u)
                                     /\ Owns(u)' <=> Owns(u)
  BY <1>2, <1>10 DEF S, HashId, Owns, Opens
<1>12. \A i \in DOMAIN pipe : (Opening(i)' <=> Opening(i)) /\ HashId(pipe[i].id)' = HashId(pipe[i].id)
  BY <1>5 DEF Opening, HashId
<1>13. (Opening(n)' <=> cmd.c \in {"O", "L"}) /\ HashId(pipe[n].id)' = HashId(cmd.id)
  BY <1>5 DEF Opening, HashId
<1>14. Owned'
  <2>1. \A u \in Sender :
            (Owns(u) => slot[S(u)].type = "reserve" /\ th[u].id \in 1 .. alloc_id)'
    BY <1>1, <1>11 DEF Core, Owned
  <2>2. \A i \in DOMAIN pipe' :
            (Opening(i) => slot[HashId(pipe[i].id)].type = "reserve" /\ pipe[i].id \in 1 .. alloc_id)'
    <3> SUFFICES ASSUME NEW i \in DOMAIN pipe', Opening(i)'
                 PROVE  (slot[HashId(pipe[i].id)].type = "reserve" /\ pipe[i].id \in 1 .. alloc_id)'
      OBVIOUS
    <3>1. CASE i = n
      <4>1. slot[S(t)].type = "reserve" /\ th[t].id \in 1 .. alloc_id
        BY <1>1, <1>6, <1>13, <3>1 DEF Core, Owned
      <4> QED
        BY <1>5, <1>6, <1>13, <3>1, <4>1
    <3>2. CASE i # n
      <4>1. i \in DOMAIN pipe /\ pipe'[i] = pipe[i] /\ Opening(i)
        BY <1>5, <1>12, <3>2
      <4>2. slot[HashId(pipe[i].id)].type = "reserve" /\ pipe[i].id \in 1 .. alloc_id
        BY <1>1, <4>1 DEF Core, Owned
      <4> QED
        BY <1>12, <4>1, <4>2
    <3> QED
      BY <3>1, <3>2
  <2>3. \A u, v \in Sender : Owns(u)' /\ Owns(v)' /\ u # v => S(u)' # S(v)'
    BY <1>1, <1>11 DEF Core, Owned
  <2>4. \A i, j \in DOMAIN pipe' :
            Opening(i)' /\ Opening(j)' /\ i # j => HashId(pipe[i].id)' # HashId(pipe[j].id)'
    <3>1. \A i, j \in DOMAIN pipe :
              Opening(i) /\ Opening(j) /\ i # j => HashId(pipe[i].id) # HashId(pipe[j].id)
      BY <1>1 DEF Core, Owned
    <3>2. \A i \in DOMAIN pipe : Opening(i) /\ Opening(n)' => HashId(pipe[i].id) # HashId(cmd.id)
      BY <1>1, <1>6, <1>13 DEF Core, Owned
    <3> QED
      BY <1>5, <1>12, <1>13, <3>1, <3>2
  <2>5. \A u \in Sender, i \in DOMAIN pipe' :
            Owns(u)' /\ Opening(i)' => S(u)' # HashId(pipe[i].id)'
    <3>1. \A u \in Sender, i \in DOMAIN pipe : Owns(u) /\ Opening(i) => S(u) # HashId(pipe[i].id)
      BY <1>1 DEF Core, Owned
    <3>2. \A u \in Sender : Owns(u)' /\ Opening(n)' => S(u)' # HashId(cmd.id)
      BY <1>1, <1>6, <1>11, <1>13 DEF Core, Owned
    <3> QED
      BY <1>5, <1>11, <1>12, <1>13, <3>1, <3>2
  <2> QED
    BY <2>1, <2>2, <2>3, <2>4, <2>5 DEF Owned
<1>15. Locked'
  <2> SUFFICES ASSUME NEW u \in Sender
               PROVE  (/\ th[u].pc \in {"check", "write"} => slot[S(u)].lock = u
                       /\ th[u].pc = "write" => /\ slot[S(u)].id = th[u].id
                                                /\ slot[S(u)].type \in {"connected", "halfclose"}
                                                /\ slot[S(u)].ep)'
    BY DEF Locked
  <2>1. CASE u = t
    BY <1>2, <2>1
  <2>2. CASE u # t
    BY <1>1, <1>11, <2>2 DEF Core, Locked
  <2> QED
    BY <2>1, <2>2
<1>16. TagInv'
  BY <1>1, <1>3 DEF Core, TagInv, HashId, IdTag
<1>17. ASSUME ~Early PROVE KnownInv'
  <2>1. KnownInv
    BY <1>1, <1>17 DEF Core
  <2>2. cmd.c = "L" => use.listen /\ cmd.id = 1
    BY <1>6, <2>1 DEF KnownInv, Fresh
  <2>3. \A id : Told(id)' <=> Told(id)
    BY <2>2 DEF Told
  <2>4. \A u \in Sender : (th[u].pc # "idle" /\ th[u].m # None => Told(th[u].id))'
    BY <1>2, <2>1, <2>3 DEF KnownInv, Told
  <2>5. cmd.m # None => Told(cmd.id)
    BY <1>1, <2>1 DEF KnownInv
  <2>6. \A i \in DOMAIN pipe' : (pipe[i].m # None => Told(pipe[i].id))'
    <3> SUFFICES ASSUME NEW i \in DOMAIN pipe', pipe'[i].m # None PROVE Told(pipe[i].id)'
      OBVIOUS
    <3>1. Told(pipe'[i].id)
      BY <1>5, <2>1, <2>5 DEF KnownInv
    <3> QED
      BY <2>3, <3>1 DEF Told
  <2>7. cmd.c \in {"O", "L"} => Fresh(cmd)
    BY <1>6, <2>1 DEF KnownInv, Fresh
  <2>8. \A r : Fresh(r) /\ (cmd.c = "L" => r.id # cmd.id) => Fresh(r)'
    BY DEF Fresh
  <2>9. \A u \in Sender : (Owns(u) => Fresh(th[u]))'
    <3> SUFFICES ASSUME NEW u \in Sender, Owns(u)' PROVE Fresh(th[u])'
      OBVIOUS
    <3>1. Owns(u) /\ u # t /\ th'[u] = th[u]
      BY <1>11
    <3>2. cmd.c = "L" => th[u].id # cmd.id
      BY <1>1, <1>6, <3>1 DEF Core, Owned, S
    <3>3. Fresh(th[u])
      BY <2>1, <3>1 DEF KnownInv
    <3> QED
      BY <3>1, <3>2, <3>3 DEF Fresh
  <2>10. \A i \in DOMAIN pipe' : (Opening(i) => Fresh(pipe[i]))'
    <3> SUFFICES ASSUME NEW i \in DOMAIN pipe', Opening(i)' PROVE Fresh(pipe[i])'
      OBVIOUS
    <3>1. CASE i = n
      BY <1>5, <1>13, <2>7, <3>1 DEF Fresh
    <3>2. CASE i # n
      <4>1. i \in DOMAIN pipe /\ pipe'[i] = pipe[i] /\ Opening(i)
        BY <1>5, <1>12, <3>2
      <4>2. cmd.c = "L" => pipe[i].id # cmd.id
        BY <1>1, <1>6, <4>1 DEF Core, Owned, S
      <4>3. Fresh(pipe[i])
        BY <2>1, <4>1 DEF KnownInv
      <4> QED
        BY <4>1, <4>2, <4>3 DEF Fresh
    <3> QED
      BY <3>1, <3>2
  <2>11. \A u \in Slot : (~slot[u].tcp => ~Told(slot[u].id))'
    BY <2>1, <2>3 DEF KnownInv, Told
  <2> QED
    BY <1>3, <2>4, <2>6, <2>9, <2>10, <2>11 DEF KnownInv
<1>18. CountInv => CountInv'
  <2> SUFFICES ASSUME CountInv, NEW u \in Slot, slot[u].tcp
               PROVE  slot[u].cnt = Cardinality(InPipe(pipe', slot[u].id))
                                        + Cardinality(AtPipe(th', slot[u].id))
    BY <1>3 DEF CountInv
  <2> DEFINE id == slot[u].id
             d == IF cmd.m # None /\ cmd.id = id THEN 1 ELSE 0
  <2>1. slot[u].cnt = Cardinality(InPipe(pipe, id)) + Cardinality(AtPipe(th, id))
    BY DEF CountInv
  <2>2. /\ IsFiniteSet(AtPipe(th, id)) /\ Cardinality(AtPipe(th, id)) \in Nat
        /\ Cardinality(InPipe(pipe, id)) \in Nat
    BY <1>1, CountsFinite
  <2>3. Cardinality(InPipe(pipe', id)) = Cardinality(InPipe(pipe, id)) + d
    BY <1>1, PushCount
  <2>4. t \in AtPipe(th, id) <=> cmd.m # None /\ cmd.id = id
    BY DEF AtPipe
  <2>5. AtPipe(th', id) = AtPipe(th, id) \ {t}
    BY <1>2 DEF AtPipe
  <2>6. Cardinality(AtPipe(th', id)) = Cardinality(AtPipe(th, id)) - d
    <3>1. Cardinality(AtPipe(th, id) \ {t}) = IF t \in AtPipe(th, id) THEN Cardinality(AtPipe(th, id)) - 1
                                              ELSE Cardinality(AtPipe(th, id))
      BY <2>2, FS_RemoveElement
    <3>2. Cardinality(AtPipe(th', id)) = IF t \in AtPipe(th, id) THEN Cardinality(AtPipe(th, id)) - 1
                                         ELSE Cardinality(AtPipe(th, id))
      BY <2>5, <3>1, Zenon
    <3> HIDE DEF id
    <3>3. CASE t \in AtPipe(th, id)
      BY <2>4, <3>2, <3>3
    <3>4. CASE t \notin AtPipe(th, id)
      BY <2>2, <2>4, <3>2, <3>4
    <3> QED
      BY <3>3, <3>4
  <2> HIDE DEF id
  <2> QED
    BY <2>1, <2>2, <2>3, <2>6 DEF id
<1>19. WatchInv' /\ ClosingLive'
  BY <1>1, <1>3 DEF WatchInv, ClosingLive, Closing, Watched, EmptyRec
<1> QED
  BY <1>1, <1>9, <1>14, <1>15, <1>16, <1>17, <1>18, <1>19 DEF Inv, Core

(* send_request hands the worker's slot or message over to the pipe.       *)
LEMMA SendRequestStep ==
    ASSUME Inv, crash = None, use' = use, NEW t \in Sender, SendRequest(t)
    PROVE  Inv'
<1> DEFINE cmd == Cmd(th[t].c, th[t].id, th[t].m, FALSE)
<1>1. th[t] \in ThRecord /\ ThreadData(th[t])
  BY DEF Inv, Shapes
<1>2. /\ th[t].pc = "pipe" /\ pipe' = Append(pipe, cmd) /\ th' = [th EXCEPT ![t] = Idle]
      /\ known' = (IF th[t].c = "L" THEN known \cup {th[t].id} ELSE known)
      /\ slot' = slot /\ alloc_id' = alloc_id /\ net' = net /\ ev' = ev /\ sent' = sent
      /\ crash' = crash
  BY DEF SendRequest, Step
<1>3. th[t].c \in {"O", "L", "D", "P"}
  BY <1>1, <1>2 DEF ThreadData, Opens, Sends
<1>4. cmd \in CmdRecord /\ cmd.c = th[t].c /\ cmd.id = th[t].id /\ cmd.m = th[t].m
  BY <1>1, <1>3 DEF Cmd, CmdRecord, ThRecord
<1> HIDE DEF cmd
<1> QED
  BY <1>2, <1>4, IdleType, PushStep

(* A close, shutdown or start command.                                     *)
LEMMA RequestStep ==
    ASSUME Inv, crash = None, use' = use, NEW t \in Sender, NEW c \in {"K", "S"},
           NEW id \in Id, NEW sd \in BOOLEAN, Request(t, c, id, sd)
    PROVE  Inv'
<1> DEFINE cmd == Cmd(c, id, None, sd)
<1>1. th \in [Sender -> ThRecord] /\ th[t] \in ThRecord /\ ThreadData(th[t])
  BY DEF Inv, Shapes
<1>2. /\ th[t].pc = "idle" /\ pipe' = Append(pipe, cmd) /\ th' = th /\ known' = known
      /\ slot' = slot /\ alloc_id' = alloc_id /\ net' = net /\ ev' = ev /\ sent' = sent
      /\ crash' = crash
  BY DEF Request
<1>3. th' = [th EXCEPT ![t] = th[t]]
  BY <1>1, <1>2
<1>4. cmd \in CmdRecord /\ cmd.c = c /\ cmd.id = id /\ cmd.m = None
  BY DEF Cmd, CmdRecord, Id
<1>5. known' = IF cmd.c = "L" THEN known \cup {cmd.id} ELSE known
  BY <1>2, <1>4
<1> HIDE DEF cmd
<1> QED
  BY <1>1, <1>2, <1>3, <1>4, <1>5, PushStep

-----------------------------------------------------------------------------
(* At the start nothing is reserved, locked, known or counted.             *)
LEMMA InitInv == Init => Inv
<1> SUFFICES ASSUME Init PROVE Inv
  OBVIOUS
<1>1. use \in Uses /\ use.slots \in Nat /\ use.slots > 0
  BY SlotsType DEF Init
<1>2. 0 \in Slot
  BY <1>1 DEF Slot
<1>3. \A s \in Slot : /\ slot[s].type = "invalid" /\ slot[s].id = 0 /\ ~slot[s].tcp
                      /\ IsSlot(slot[s])
  BY DEF Init, IsSlot, Types
<1>4. \A t \in Sender : th[t] = Idle
  BY DEF Init
<1>5. DOMAIN pipe = {} /\ pipe \in Seq(CmdRecord) /\ ev \in Seq(EvRecord)
  BY DEF Init
<1>6. Shapes
  <2>1. slot = [s \in Slot |-> slot[s]]
    BY DEF Init
  <2>2. th \in [Sender -> ThRecord] /\ \A t \in Sender : ThreadData(th[t])
    BY <1>4, IdleType DEF Init
  <2>3. net \in NetRecord
    BY <1>2 DEF Init, NetRecord
  <2> QED
    BY <1>1, <1>3, <1>5, <2>1, <2>2, <2>3 DEF Shapes, Init
<1>7. Owned /\ Locked
  BY <1>4, <1>5 DEF Owned, Locked, Owns, Idle
<1>8. TagInv
  BY <1>3 DEF TagInv, Init
<1>9. KnownInv /\ CountInv
  BY <1>3, <1>4, <1>5 DEF KnownInv, CountInv, Told, Owns, Idle, Init
<1>10. ClosingLive /\ WatchInv /\ crash = None
  BY <1>3 DEF ClosingLive, WatchInv, Closing, Watched, Init
<1> QED
  BY <1>6, <1>7, <1>8, <1>9, <1>10, NoneAssumption DEF Inv, Core

(* The invariant stays as long as nothing happens.                         *)
LEMMA StutterInv ==
    ASSUME Inv, UNCHANGED vars
    PROVE  Inv'
<1>1. Slot' = Slot /\ \A id : HashId(id)' = HashId(id) /\ IdTag(id)' = IdTag(id)
  BY SameUse DEF HashId, IdTag, vars
<1>2. Shapes'
  <2>1. \A t \in Sender : ThreadData(th[t])'
    BY DEF Inv, Shapes, ThreadData, Sends, Opens, Message, vars
  <2>2. \A s \in Slot : IsSlot(slot[s])'
    BY DEF Inv, Shapes, IsSlot, vars
  <2> QED
    BY <1>1, <2>1, <2>2, SameUse DEF Inv, Shapes, vars
<1>3. Owned'
  BY DEF Inv, Core, Owned, Owns, Opens, Opening, S, HashId, vars
<1>4. Locked'
  BY DEF Inv, Core, Locked, S, HashId, vars
<1>5. TagInv'
  BY <1>1 DEF Inv, Core, TagInv, HashId, IdTag, vars
<1>6. ~Early => KnownInv' /\ CountInv'
  BY <1>1 DEF Inv, Core, KnownInv, CountInv, Owns, Opens, Opening, Fresh, Told, vars
<1>7. ClosingLive' /\ (crash' = None => WatchInv') /\ crash' = crash
  BY <1>1 DEF Inv, ClosingLive, WatchInv, Closing, Watched, EmptyRec, vars
<1> QED
  BY <1>2, <1>3, <1>4, <1>5, <1>6, <1>7 DEF Inv, Core

(* Every command keeps the invariant.                                      *)
LEMMA CommandsInv ==
    ASSUME Inv, crash = None, use' = use, Commands
    PROVE  Inv'
<1>1. CASE (\E type \in {"connected", "connecting"} : OpenSocket(type)) \/ ListenSocket
  BY <1>1, OpenStep
<1>2. CASE OpenFails
  BY <1>2, OpenFailsStep
<1>3. CASE StartSocket
  BY <1>3, StartSocketStep
<1>4. CASE StartFails \/ CloseNow \/ CloseSendFails
  BY <1>4, CommandClosesStep
<1>5. CASE SendSocket
  BY <1>5, SendSocketStep
<1>6. CASE CloseGone \/ CloseReserved
  BY <1>6, CloseGoneStep
<1>7. CASE CloseLater
  BY <1>7, CloseLaterStep
<1>8. CASE \E k \in Taken(Target) : CloseAfterSend(k)
  BY <1>8, CloseAfterSendStep
<1> QED
  BY <1>1, <1>2, <1>3, <1>4, <1>5, <1>6, <1>7, <1>8 DEF Commands

(* Every event keeps the invariant.                                        *)
LEMMA EventsInv ==
    ASSUME Inv, crash = None, use' = use, Events
    PROVE  Inv'
<1>1. CASE NullEvent \/ AcceptNothing \/ StaleEvent \/ ReadData \/ WriteBlocked
  BY <1>1, QuietEventStep
<1>2. CASE ReportConnect
  BY <1>2, ReportConnectStep
<1>3. CASE ConnectFails \/ ReadCloses \/ WriteFails
  BY <1>3, EventClosesStep
<1>4. CASE ReportAccept
  BY <1>4, ReportAcceptStep
<1>5. CASE \E k \in Taken(E.s) : WriteEvent(k)
  BY <1>5, WriteEventStep
<1> QED
  BY <1>1, <1>2, <1>3, <1>4, <1>5 DEF Events

(* Every step of a worker keeps the invariant.                             *)
LEMMA WorkerInv ==
    ASSUME Inv, crash = None, use' = use, NEW t \in Sender,
           WorkerStep(t) \/ WorkerCall(t) \/ WorkerRequest(t)
    PROVE  Inv'
<1>1. CASE SetId(t)
  BY <1>1, SetIdStep
<1>2. CASE TryDirect(t) \/ CheckDirect(t)
  BY <1>2, LookStep
<1>3. CASE IncSending(t)
  BY <1>3, IncSendingStep
<1>4. CASE SendRequest(t)
  BY <1>4, SendRequestStep
<1>5. CASE \E n \in 0 .. Units : DirectWrite(t, n)
  BY <1>5, DirectWriteStep
<1>6. CASE Reserve(t, IF use.listen /\ alloc_id = 0 THEN "L" ELSE "O")
  BY <1>6, ReserveStep
<1>7. CASE \E id \in Id, c \in use.priority : Send(t, id, c)
  BY <1>7, SendStep
<1>8. CASE WorkerRequest(t)
  <2>1. use.kill \subseteq BOOLEAN
    BY SlotsType DEF Inv, Shapes
  <2>2. PICK id \in Id, c \in {"K", "S"}, sd \in BOOLEAN : Request(t, c, id, sd)
    BY <1>8, <2>1 DEF WorkerRequest
  <2> QED
    BY <2>2, RequestStep
<1> QED
  BY <1>1, <1>2, <1>3, <1>4, <1>5, <1>6, <1>7, <1>8 DEF WorkerStep, WorkerCall

(* Every step keeps the invariant.                                         *)
LEMMA NextInv ==
    ASSUME Inv, ConnInv, [Next]_vars
    PROVE  Inv'
<1>1. use.senders \subseteq Sender
  BY SlotsType DEF Inv, Shapes
<1>2. CASE Runs(SocketThread)
  <2>1. crash = None /\ use' = use /\ SocketThread
    BY <1>2 DEF Runs
  <2> QED
    BY <2>1, CloseFreedStep, ClearEventsStep, ConnectTestStep, ConnectUnwatchStep, CommandsInv,
       EventsInv, WaitStep DEF SocketThread
<1>3. CASE \E t \in Sender : Runs(WorkerStep(t) \/ WorkerCall(t))
  BY <1>3, WorkerInv DEF Runs
<1>4. CASE \E t \in Sender : crash = None /\ WorkerRequest(t) /\ use' = use
  BY <1>4, WorkerInv
<1>5. CASE UNCHANGED vars
  BY <1>5, StutterInv
<1> QED
  BY <1>1, <1>2, <1>3, <1>4, <1>5 DEF Next, Runs, Crashed

-----------------------------------------------------------------------------
(* A service is told of a listening socket only, or of one that is not     *)
(* about to be connected; no socket begins to be connected but one nobody  *)
(* knows of; and the one that is being reported is left alone.             *)
LEMMA ConnKept ==
    ASSUME Inv, Inv', ConnInv, use' = use,
           \A s \in Slot : slot'[s].type = "connecting" =>
               \/ slot[s].type = "connecting" /\ slot'[s].id = slot[s].id
               \/ ~Early => ~Told(slot[s].id)',
           \A id \in known' \ known :
               \/ use.listen /\ id = 1
               \/ ~Arriving' /\ slot'[HashId(id)].type # "connecting",
           Arriving' => /\ net' = net /\ slot'[net.s].type = slot[net.s].type
                        /\ slot'[net.s].id = slot[net.s].id
                        /\ ~Early /\ EmptyRec(slot[net.s]) => EmptyRec(slot'[net.s])
    PROVE  ConnInv'
<1>1. Slot' = Slot /\ \A id : HashId(id)' = HashId(id)
  BY SameUse DEF HashId
<1>2. Arriving' => Arriving
  BY DEF Arriving
<1>3. (Arriving => slot[net.s].type = "connected")'
  BY <1>2 DEF ConnInv
<1>4. ASSUME ~Early, NEW s \in Slot, slot'[s].type = "connecting" PROVE ~Told(slot[s].id)'
  <2> SUFFICES ASSUME Told(slot[s].id)', slot[s].type = "connecting", slot'[s].id = slot[s].id
               PROVE  FALSE
    BY <1>4
  <2>1. slot[s].id \in known' \ known /\ ~(use.listen /\ slot[s].id = 1)
    BY <1>4 DEF ConnInv, Told
  <2>2. slot'[s].tcp /\ slot'[s].id # 0 /\ HashId(slot'[s].id) = s
    BY <1>1, <1>4 DEF Inv, Core, TagInv
  <2> QED
    BY <1>4, <2>1, <2>2
<1>5. ASSUME ~Early, Arriving' PROVE ~Told(slot[net.s].id)'
  BY <1>2, <1>5 DEF ConnInv, Told
<1>6. ASSUME ~Early, net'.pc = "unwatch" PROVE EmptyRec(slot[net.s])'
  <2>1. Arriving' /\ EmptyRec(slot[net.s])
    BY <1>6 DEF Arriving, ConnInv
  <2> QED
    BY <1>6, <2>1 DEF EmptyRec
<1> QED
  BY <1>1, <1>3, <1>4, <1>5, <1>6 DEF ConnInv

(* A step of the socket thread that tells nothing and connects nothing.    *)
LEMMA ConnNet ==
    ASSUME Inv, Inv', ConnInv, use' = use, known' = known, ~Arriving',
           NEW s \in Slot, NEW q, slot' = [slot EXCEPT ![s] = q],
           q.type = "connecting" => slot[s].type = "connecting" /\ q.id = slot[s].id
    PROVE  ConnInv'
<1>1. slot'[s] = q /\ \A u \in Slot : u # s => slot'[u] = slot[u]
  BY DEF Inv, Shapes
<1> QED
  BY <1>1, ConnKept

(* Where the socket thread goes with a command, or after one.              *)
LEMMA ConnCommands ==
    ASSUME Inv, Inv', ConnInv, crash = None, use' = use, Commands
    PROVE  ConnInv'
<1> DEFINE r == slot[Target]
<1>1. PICK cs : Command(cs)
  BY DEF Commands, OpenSocket, OpenFails, ListenSocket, StartSocket, StartFails, SendSocket,
         CloseGone, CloseReserved, CloseNow, CloseLater, CloseSendFails, CloseAfterSend
<1>2. /\ Target \in Slot /\ IsSlot(r) /\ Head(pipe) \in CmdRecord /\ Head(pipe) = pipe[1]
      /\ 1 \in DOMAIN pipe /\ slot = [u \in Slot |-> slot[u]] /\ use \in Uses
  BY <1>1, CommandProps DEF Inv, Shapes
<1>3. ~Arriving'
  <2>1. net.pc = "poll"
    BY <1>1 DEF Command
  <2>2. net' = net \/ \E s, id : Goto("ctlclose", s, id) \/ Goto("clear", s, id)
    BY DEF Commands, OpenSocket, OpenFails, ListenSocket, StartSocket, StartFails, SendSocket,
           CloseGone, CloseReserved, CloseNow, CloseLater, CloseSendFails, CloseAfterSend
  <2>3. net \in NetRecord
    BY DEF Inv, Shapes
  <2> QED
    BY <2>1, <2>2, <2>3 DEF Arriving, Goto, NetRecord
<1>4. CASE \E type \in {"connected", "connecting"} : OpenSocket(type)
  <2>1. PICK type \in {"connected", "connecting"} : OpenSocket(type)
    BY <1>4
  <2> DEFINE id == Head(pipe).id
             q == NewFd(r, id, type)
  <2>2. id \in Nat /\ slot' = [slot EXCEPT ![Target] = q]
    BY <1>2, <2>1 DEF OpenSocket, Fill, Target, CmdRecord
  <2>3. q.id = id /\ q.type = type
    <3>1. NewSocket(r, q, id, type)
      BY <1>2, <2>2, NewFdType
    <3> HIDE DEF q
    <3> QED
      BY <3>1 DEF NewSocket
  <2> HIDE DEF q
  <2>4. slot'[Target] = q /\ \A u \in Slot : u # Target => slot'[u] = slot[u]
    BY <1>2, <2>2
  <2>5. ~Early => id \notin known
    BY <1>2, <2>1 DEF Inv, Core, KnownInv, Opening, Fresh, OpenSocket, Command
  <2>6. CASE type = "connecting"
    <3>1. known' = known
      BY <2>1, <2>6 DEF OpenSocket
    <3>2. \A u \in Slot : u = Target => (~Early => ~Told(slot[u].id)')
      BY <2>3, <2>4, <2>5, <3>1 DEF Told
    <3> QED
      BY <1>2, <1>3, <2>4, <3>1, <3>2, ConnKept
  <2>7. CASE type = "connected"
    <3>1. known' = known \cup {id} /\ Target = HashId(id)
      BY <2>1, <2>7 DEF OpenSocket, Target
    <3> QED
      BY <1>2, <1>3, <2>3, <2>4, <2>7, <3>1, ConnKept
  <2> QED
    BY <2>6, <2>7
<1>5. CASE ListenSocket
  <2> DEFINE q == NewFd(r, Head(pipe).id, "plisten")
  <2>1. slot' = [slot EXCEPT ![Target] = q] /\ known' = known /\ Head(pipe).id \in Nat
    BY <1>2, <1>5 DEF ListenSocket, Fill, Target, CmdRecord
  <2>2. q.type = "plisten"
    <3>1. NewSocket(r, q, Head(pipe).id, "plisten")
      BY <1>2, <2>1, NewFdType
    <3> HIDE DEF q
    <3> QED
      BY <3>1 DEF NewSocket
  <2> HIDE DEF q
  <2> QED
    BY <1>2, <1>3, <2>1, <2>2, ConnNet
<1>6. CASE OpenFails \/ StartSocket \/ CloseLater
  <2>1. known' = known
    BY <1>6 DEF OpenFails, StartSocket, CloseLater
  <2>2. \A u \in Slot : slot'[u].type = "connecting" =>
            slot[u].type = "connecting" /\ slot'[u].id = slot[u].id
    BY <1>2, <1>6 DEF OpenFails, StartSocket, CloseLater, IsSlot
  <2> QED
    BY <1>3, <2>1, <2>2, ConnKept
<1>7. CASE StartFails \/ CloseNow
  <2>1. slot' = [slot EXCEPT ![Target] = Freed(r)] /\ known' = known
    BY <1>7 DEF StartFails, CloseNow
  <2> QED
    BY <1>2, <1>3, <2>1, FreedType, ConnNet DEF SameSocket
<1>8. CASE CloseSendFails
  <2> DEFINE p == Freed(Merged(r))
  <2>1. slot' = [slot EXCEPT ![Target] = [p EXCEPT !.lock = Net]] /\ known' = known
    BY <1>8 DEF CloseSendFails
  <2>2. IsSlot(p) /\ p.type = r.type /\ p.id = r.id
    BY <1>2, MergedType, FreedType DEF SameSocket
  <2> HIDE DEF p
  <2>3. [p EXCEPT !.lock = Net].type = r.type /\ [p EXCEPT !.lock = Net].id = r.id
    BY <2>2 DEF IsSlot
  <2> QED
    BY <1>2, <1>3, <2>1, <2>3, ConnNet
<1>9. CASE SendSocket
  <2> DEFINE a == IF Refuses THEN r ELSE Appended(r, Head(pipe).c, Head(pipe).m)
             n == IF r.id = Head(pipe).id /\ r.tcp THEN a.cnt - 1 ELSE a.cnt
             q == [a EXCEPT !.cnt = n]
  <2>1. slot' = [slot EXCEPT ![Target] = q] /\ known' = known
    BY <1>9 DEF SendSocket
  <2>2. IsSlot(a) /\ a.type = r.type /\ a.id = r.id
    BY <1>2, AppendedType DEF SameSocket
  <2> HIDE DEF a, n
  <2>3. q.type = r.type /\ q.id = r.id
    BY <2>2 DEF IsSlot
  <2> HIDE DEF q
  <2> QED
    BY <1>2, <1>3, <2>1, <2>3, ConnNet
<1>10. CASE CloseGone \/ CloseReserved
  <2>1. slot' = slot /\ known' = known
    BY <1>10 DEF CloseGone, CloseReserved
  <2> QED
    BY <1>3, <2>1, ConnKept
<1>11. CASE \E k \in Taken(Target) : CloseAfterSend(k)
  <2>1. PICK k \in Taken(Target) : CloseAfterSend(k)
    BY <1>11
  <2> DEFINE d == Drain(Merged(r), k)
  <2>2. k \in Nat
    BY TakenType
  <2>3. IsSlot(d) /\ d.type = r.type /\ d.id = r.id
    BY <1>2, <2>2, MergedType, DrainType DEF SameSocket
  <2>4. /\ known' = known
        /\ \/ slot' = [slot EXCEPT ![Target] = Freed(d)]
           \/ slot' = [slot EXCEPT ![Target] = [d EXCEPT !.type = "halfclose"]]
    BY <2>1 DEF CloseAfterSend
  <2> HIDE DEF d
  <2>5. /\ Freed(d).type = r.type /\ Freed(d).id = r.id
        /\ [d EXCEPT !.type = "halfclose"].type = "halfclose"
    BY <2>3, FreedType DEF SameSocket, IsSlot
  <2> QED
    BY <1>2, <1>3, <2>4, <2>5, ConnNet
<1> QED
  BY <1>4, <1>5, <1>6, <1>7, <1>8, <1>9, <1>10, <1>11 DEF Commands

(* Events, and the other steps of the socket thread.                       *)
LEMMA ConnThread ==
    ASSUME Inv, Inv', ConnInv, crash = None, use' = use, SocketThread
    PROVE  ConnInv'
<1>0. /\ net \in NetRecord /\ slot = [u \in Slot |-> slot[u]]
      /\ \A u \in Slot : IsSlot(slot[u])
  BY DEF Inv, Shapes
<1>1. CASE Commands
  BY <1>1, ConnCommands
<1>2. CASE ClearEvents \/ SomeWait
  <2>1. slot' = slot /\ known' = known
    BY <1>2 DEF ClearEvents, SomeWait, Wait
  <2>2. ~Arriving'
    BY <1>0, <1>2 DEF ClearEvents, SomeWait, Wait, Goto, NetRecord, Arriving
  <2> QED
    BY <2>1, <2>2, ConnKept
<1>3. CASE CloseFreed
  <2>1. known' = known /\ net.s \in Slot
    BY <1>0, <1>3 DEF CloseFreed, NetRecord
  <2>2. ~Arriving'
    BY <1>0, <1>3 DEF CloseFreed, Goto, NetRecord, Arriving
  <2>3. \A u \in Slot : slot'[u].type = "connecting" => slot'[u] = slot[u]
    BY <1>0, <1>3, <2>1 DEF CloseFreed, IsSlot
  <2> QED
    BY <2>1, <2>2, <2>3, ConnKept
<1>4. CASE ConnectTest
  <2>1. net.s \in Slot /\ slot' = slot /\ Arriving /\ slot[net.s].type = "connected"
    BY <1>0, <1>4 DEF ConnectTest, NetRecord, Arriving, ConnInv
  <2>2. CASE NoMoreSending(net.s)
    <3>1. known' = known /\ net'.s = net.s /\ Slot' = Slot
      BY <1>0, <1>4, <2>2, SameUse DEF ConnectTest, NetRecord
    <3>2. EmptyRec(slot[net.s])
      BY <2>2 DEF NoMoreSending, SendBufferEmpty, EmptyRec
    <3> QED
      BY <2>1, <3>1, <3>2 DEF ConnInv, Told, EmptyRec
  <2>3. CASE ~NoMoreSending(net.s)
    <3>1. ~Arriving' /\ known' = known \cup {slot[net.s].id} /\ slot[net.s].tcp
      BY <1>4, <2>1, <2>3, ConnectReportedType DEF ConnectTest
    <3>2. HashId(slot[net.s].id) = net.s
      BY <2>1, <3>1 DEF Inv, Core, TagInv
    <3> QED
      BY <2>1, <3>1, <3>2, ConnKept
  <2> QED
    BY <2>2, <2>3
<1>5. CASE ConnectUnwatch
  <2>1. net.s \in Slot /\ Arriving /\ slot[net.s].type = "connected"
    BY <1>0, <1>5 DEF ConnectUnwatch, NetRecord, Arriving, ConnInv
  <2>2. ~Arriving' /\ known' = known \cup {slot[net.s].id} /\ slot[net.s].tcp
    BY <1>5, <2>1, ConnectReportedType DEF ConnectUnwatch
  <2>3. HashId(slot[net.s].id) = net.s
    BY <2>1, <2>2 DEF Inv, Core, TagInv
  <2>4. \A u \in Slot : slot'[u].type = slot[u].type /\ slot'[u].id = slot[u].id
    BY <1>0, <1>5, <2>1 DEF ConnectUnwatch, IsSlot
  <2> QED
    BY <2>1, <2>2, <2>3, <2>4, ConnKept
<1>6. CASE NullEvent \/ AcceptNothing \/ StaleEvent \/ ReadData \/ WriteBlocked
  <2>1. slot' = slot /\ known' = known
    BY <1>6 DEF NullEvent, AcceptNothing, StaleEvent, ReadData, WriteBlocked
  <2>2. ~Arriving'
    BY <1>0, <1>6 DEF NullEvent, AcceptNothing, StaleEvent, ReadData, WriteBlocked, NextEvent,
                      Handled, NetRecord, Arriving
  <2> QED
    BY <2>1, <2>2, ConnKept
<1>7. CASE ReportConnect
  <2>1. Event({"connecting"}) /\ Handled("connect", E.s) /\ known' = known
    BY <1>7 DEF ReportConnect
  <2>2. E.s \in Slot /\ slot[E.s].type = "connecting"
    BY <2>1, EventProps
  <2>3. net'.pc = "connect" /\ net'.s = E.s /\ Slot' = Slot
    BY <1>0, <2>1, SameUse DEF Handled, NetRecord
  <2>4. /\ slot'[E.s].type = "connected" /\ slot'[E.s].id = slot[E.s].id
        /\ \A u \in Slot : u # E.s => slot'[u] = slot[u]
    BY <1>0, <1>7, <2>2 DEF ReportConnect, IsSlot
  <2> QED
    BY <2>1, <2>2, <2>3, <2>4 DEF ConnInv, Told, EmptyRec
<1>8. CASE ConnectFails \/ ReadCloses \/ WriteFails
  <2>1. Event({"connecting"} \cup Open) /\ CloseOnEvent(E.s) /\ known' = known
    BY <1>8 DEF ConnectFails, ReadCloses, WriteFails, Event
  <2>2. E.s \in Slot /\ IsSlot(slot[E.s])
    BY <2>1, EventProps
  <2>3. ~Arriving'
    BY <1>0, <2>1 DEF CloseOnEvent, Handled, NetRecord, Arriving
  <2> DEFINE p == Freed(Merged(slot[E.s]))
  <2>4. \/ slot' = [slot EXCEPT ![E.s] = Freed(slot[E.s])]
        \/ slot' = [slot EXCEPT ![E.s] = [p EXCEPT !.lock = Net]]
    BY <1>8 DEF ConnectFails, ReadCloses, WriteFails
  <2>5. /\ Freed(slot[E.s]).type = slot[E.s].type /\ Freed(slot[E.s]).id = slot[E.s].id
        /\ IsSlot(p) /\ p.type = slot[E.s].type /\ p.id = slot[E.s].id
    BY <2>2, MergedType, FreedType DEF SameSocket
  <2> HIDE DEF p
  <2>6. /\ [p EXCEPT !.lock = Net].type = slot[E.s].type
        /\ [p EXCEPT !.lock = Net].id = slot[E.s].id
    BY <2>5 DEF IsSlot
  <2> QED
    BY <2>1, <2>2, <2>3, <2>4, <2>5, <2>6, ConnNet
<1>9. CASE ReportAccept
  <2> DEFINE id == alloc_id + 1
             s == HashId(id)
             q == NewFd(slot[s], id, "paccept")
  <2>1. id \in Nat /\ s \in Slot /\ use \in Uses
    BY HashType DEF Inv, Shapes
  <2>2. CASE slot[s].type = "invalid"
    <3>1. slot' = [slot EXCEPT ![s] = q] /\ known' = known \cup {id} /\ NextEvent
      BY <1>9, <2>2 DEF ReportAccept, Fill
    <3>2. q.type = "paccept"
      <4>1. NewSocket(slot[s], q, id, "paccept")
        BY <1>0, <2>1, NewFdType
      <4> HIDE DEF q
      <4> QED
        BY <4>1 DEF NewSocket
    <3> HIDE DEF q
    <3>3. slot'[s].type = "paccept" /\ \A u \in Slot : u # s => slot'[u] = slot[u]
      BY <1>0, <2>1, <3>1, <3>2
    <3>4. ~Arriving'
      BY <1>0, <3>1 DEF NextEvent, Handled, NetRecord, Arriving
    <3> QED
      BY <3>1, <3>3, <3>4, ConnKept
  <2>3. CASE slot[s].type # "invalid"
    <3>1. slot' = slot /\ known' = known /\ net' = net
      BY <1>9, <2>3 DEF ReportAccept
    <3> QED
      BY <3>1, ConnKept
  <2> QED
    BY <2>2, <2>3
<1>10. CASE \E k \in Taken(E.s) : WriteEvent(k)
  <2>1. PICK k \in Taken(E.s) : WriteEvent(k)
    BY <1>10
  <2>2. Event(Open) /\ SendBuffer(E.s, k) /\ known' = known
    BY <2>1 DEF WriteEvent
  <2> DEFINE d == Drain(Merged(slot[E.s]), k)
  <2>3. E.s \in Slot /\ k \in Nat
    BY <2>2, EventProps, TakenType
  <2>4. d.type = slot[E.s].type /\ d.id = slot[E.s].id
    BY <1>0, <2>3, MergedType, DrainType DEF SameSocket
  <2>5. slot' = [slot EXCEPT ![E.s] = d]
    BY <2>2 DEF SendBuffer
  <2> HIDE DEF d
  <2>6. ~Arriving'
    BY <1>0, <2>1 DEF WriteEvent, CloseOnEvent, NextEvent, Handled, NetRecord, Arriving
  <2> QED
    BY <2>2, <2>3, <2>4, <2>5, <2>6, ConnNet
<1> QED
  BY <1>1, <1>2, <1>3, <1>4, <1>5, <1>6, <1>7, <1>8, <1>9, <1>10 DEF SocketThread, Events

(* A worker writes only to a socket it has been told of, so not to one     *)
(* that is being reported.                                                 *)
LEMMA ConnWorker ==
    ASSUME Inv, Inv', ConnInv, crash = None, use' = use, NEW t \in Sender,
           WorkerStep(t) \/ WorkerCall(t) \/ WorkerRequest(t)
    PROVE  ConnInv'
<1>0. /\ net \in NetRecord /\ slot = [u \in Slot |-> slot[u]] /\ net.s \in Slot
      /\ \A u \in Slot : IsSlot(slot[u])
      /\ S(t) \in Slot
  BY ThType DEF Inv, Shapes, NetRecord, S
<1>1. net' = net
  BY DEF WorkerStep, WorkerCall, WorkerRequest, SetId, TryDirect, CheckDirect, IncSending,
         SendRequest, DirectWrite, Reserve, Send, Request
<1>2. CASE SetId(t)
  <2>1. Owns(t) /\ slot[S(t)].type = "reserve"
    BY <1>2 DEF SetId, Owns, Inv, Core, Owned
  <2>2. /\ known' = known
        /\ \A u \in Slot : u # S(t) => slot'[u] = slot[u]
        /\ slot'[S(t)].type = "reserve"
    BY <1>0, <1>2, <2>1 DEF SetId, IsSlot
  <2>3. Arriving => net.s # S(t)
    BY <2>1 DEF ConnInv
  <2>4. Arriving' => Arriving
    BY <1>1 DEF Arriving
  <2> QED
    BY <1>0, <1>1, <2>2, <2>3, <2>4, ConnKept
<1>3. CASE TryDirect(t) \/ CheckDirect(t) \/ IncSending(t)
  <2>0. /\ known' = known
        /\ \/ slot' = slot
           \/ \E x : slot' = [slot EXCEPT ![S(t)] = [slot[S(t)] EXCEPT !.lock = x]]
           \/ \E x : slot' = [slot EXCEPT ![S(t)] = [slot[S(t)] EXCEPT !.cnt = x]]
    BY <1>0, <1>3 DEF TryDirect, CheckDirect, IncSending
  <2>1. \A u \in Slot : /\ slot'[u].type = slot[u].type /\ slot'[u].id = slot[u].id
                        /\ EmptyRec(slot[u]) => EmptyRec(slot'[u])
    BY <1>0, <2>0 DEF IsSlot, EmptyRec
  <2> QED
    BY <1>0, <1>1, <2>0, <2>1, ConnKept
<1>4. CASE \E n \in 0 .. Units : DirectWrite(t, n)
  <2>1. PICK n \in 0 .. Units : DirectWrite(t, n)
    BY <1>4
  <2>2. th[t].pc = "write" /\ th[t].m # None
    BY <2>1, NoMessage DEF DirectWrite, Inv, Shapes, ThreadData, Sends
  <2>3. slot[S(t)].id = th[t].id /\ (~Early => Told(th[t].id))
    BY <2>2 DEF Inv, Core, Locked, KnownInv
  <2>4. ~Early /\ Arriving => net.s # S(t)
    BY <2>3 DEF ConnInv
  <2>5. /\ known' = known
        /\ \A u \in Slot : slot'[u].type = slot[u].type /\ slot'[u].id = slot[u].id
        /\ \A u \in Slot : u # S(t) => slot'[u] = slot[u]
    BY <1>0, <2>1 DEF DirectWrite, IsSlot
  <2>6. Arriving' => Arriving
    BY <1>1 DEF Arriving
  <2> QED
    BY <1>0, <1>1, <2>4, <2>5, <2>6, ConnKept
<1>5. CASE SendRequest(t)
  <2>1. slot' = slot
    BY <1>5 DEF SendRequest
  <2>2. CASE known' = known
    BY <1>0, <1>1, <2>1, <2>2, ConnKept
  <2>3. CASE th[t].c = "L" /\ known' = known \cup {th[t].id}
    <3>1. Owns(t)
      BY <1>5, <2>3 DEF SendRequest, Owns, Opens, Sends, Inv, Shapes, ThreadData
    <3>2. ~Early => use.listen /\ th[t].id = 1
      BY <2>3, <3>1 DEF Inv, Core, KnownInv, Fresh
    <3>3. slot[S(t)].type = "reserve"
      BY <3>1 DEF Inv, Core, Owned
    <3>4. Arriving' => Arriving
      BY <1>1 DEF Arriving
    <3>5. CASE ~Early
      BY <1>0, <1>1, <2>1, <2>3, <3>2, <3>5, ConnKept
    <3>6. CASE Early
      BY <1>1, <2>1, <3>4, <3>6 DEF ConnInv
    <3> QED
      BY <3>5, <3>6
  <2> QED
    BY <1>5, <2>2, <2>3 DEF SendRequest
<1>6. CASE Reserve(t, IF use.listen /\ alloc_id = 0 THEN "L" ELSE "O")
  <2> DEFINE s == HashId(alloc_id + 1)
  <2>1. s \in Slot /\ known' = known
    BY <1>6, HashType DEF Inv, Shapes, Reserve
  <2>2. CASE slot[s].type = "invalid"
    <3>1. /\ \A u \in Slot : u # s => slot'[u] = slot[u]
          /\ slot'[s].type = "reserve"
      BY <1>0, <1>6, <2>1, <2>2 DEF Reserve, IsSlot
    <3>2. Arriving => net.s # s
      BY <2>2 DEF ConnInv
    <3>3. Arriving' => Arriving
      BY <1>1 DEF Arriving
    <3> QED
      BY <1>0, <1>1, <2>1, <3>1, <3>2, <3>3, ConnKept
  <2>3. CASE slot[s].type # "invalid"
    <3>1. slot' = slot
      BY <1>6, <2>3 DEF Reserve
    <3> QED
      BY <1>0, <1>1, <2>1, <3>1, ConnKept
  <2> QED
    BY <2>2, <2>3
<1>7. CASE WorkerRequest(t) \/ \E id \in Id, c \in use.priority : Send(t, id, c)
  <2>1. slot' = slot /\ known' = known
    BY <1>7 DEF WorkerRequest, Request, Send
  <2> QED
    BY <1>0, <1>1, <2>1, ConnKept
<1> QED
  BY <1>2, <1>3, <1>4, <1>5, <1>6, <1>7 DEF WorkerStep, WorkerCall

(* Every step keeps it.                                                    *)
LEMMA NextConn ==
    ASSUME Inv, Inv', ConnInv, [Next]_vars
    PROVE  ConnInv'
<1>1. use.senders \subseteq Sender
  BY SlotsType DEF Inv, Shapes
<1>2. CASE Runs(SocketThread)
  BY <1>2, ConnThread DEF Runs
<1>3. CASE \E t \in Sender : Runs(WorkerStep(t) \/ WorkerCall(t))
  BY <1>3, ConnWorker DEF Runs
<1>4. CASE \E t \in Sender : crash = None /\ WorkerRequest(t) /\ use' = use
  BY <1>4, ConnWorker
<1>5. CASE UNCHANGED vars
  BY <1>5, ConnKept DEF vars
<1> QED
  BY <1>1, <1>2, <1>3, <1>4, <1>5 DEF Next, Runs, Crashed

-----------------------------------------------------------------------------
(* The inductive invariant holds in every run, for any number of threads,  *)
(* slots, sockets and messages.                                            *)
THEOREM InvCorrect == Spec => [](Inv /\ ConnInv)
<1>1. Init => Inv /\ ConnInv
  <2>1. Init => ConnInv
    <3> SUFFICES ASSUME Init PROVE ConnInv
      OBVIOUS
    <3>1. net.pc = "poll" /\ \A s \in Slot : slot[s].type = "invalid"
      BY DEF Init
    <3> QED
      BY <3>1 DEF ConnInv, Arriving
  <2> QED
    BY <2>1, InitInv
<1>2. (Inv /\ ConnInv) /\ [Next]_vars => (Inv /\ ConnInv)'
  BY NextInv, NextConn
<1> QED
  BY <1>1, <1>2, PTL DEF Spec

(* When services wait until they are told that a socket is open, nothing   *)
(* is forgotten in a buffer: the socket thread waits for the write event   *)
(* of every open socket that has something to write.                       *)
THEOREM WriteWatchedCorrect == ~Early => (Spec => []WriteWatched)
<1> SUFFICES ASSUME ~Early PROVE Spec => []WriteWatched
  OBVIOUS
<1>1. Inv => WriteWatched
  <2> SUFFICES ASSUME Inv, NEW id \in Id, InUse(id),
                      LET r == slot[HashId(id)] IN r.high \o r.low \o r.dw # <<>>
               PROVE  slot[HashId(id)].wr /\ slot[HashId(id)].ep
    BY DEF WriteWatched
  <2> DEFINE s == HashId(id)
  <2>1. s \in Slot
    BY HashType DEF Inv, Shapes, Id
  <2>2. WatchInv /\ ~Closing(s) /\ slot[s].type \in {"connected", "halfclose"}
    BY DEF Inv, InUse, Closing
  <2>3. ~EmptyRec(slot[s])
    BY DEF EmptyRec
  <2> QED
    BY <2>1, <2>2, <2>3 DEF WatchInv, Watched
<1> QED
  BY <1>1, InvCorrect, PTL

(* A worker that writes to a descriptor itself has the socket's lock and   *)
(* the socket is open: it is not closed, and its slot not given to another *)
(* socket, before the write is over.                                       *)
THEOREM OwnWireCorrect == Spec => []OwnWire
<1>1. Inv => OwnWire
  BY DEF Inv, Core, Locked, OwnWire
<1> QED
  BY <1>1, InvCorrect, PTL

(* When services wait until they are told that a socket is open, sending   *)
(* is the number of its messages between inc_sending_ref and               *)
(* dec_sending_ref, and the assertion of dec_sending_ref holds.            *)
THEOREM SendingCorrect == ~Early => (Spec => []SendingOK)
<1> SUFFICES ASSUME ~Early PROVE Spec => []SendingOK
  OBVIOUS
<1>1. Inv => SendingOK
  <2> SUFFICES ASSUME Inv PROVE SendingCounted
    BY DEF Inv, SendingOK, SendingAssert
  <2> SUFFICES ASSUME NEW id \in Id, InUse(id)
               PROVE  slot[HashId(id)].cnt
                          = Cardinality(InPipe(pipe, id)) + Cardinality(AtPipe(th, id))
    BY DEF SendingCounted, InPipe, AtPipe
  <2> DEFINE s == HashId(id)
  <2>1. s \in Slot
    BY HashType DEF Inv, Shapes, Id
  <2>2. slot[s].tcp /\ slot[s].id = id
    BY <2>1 DEF Inv, Core, TagInv, InUse
  <2> QED
    BY <2>1, <2>2 DEF Inv, Core, CountInv
<1> QED
  BY <1>1, InvCorrect, PTL

-----------------------------------------------------------------------------
(* What is on the wire.  Units of any messages, whatever the use allows.   *)
Letter == Sender \X Nat \X {"D", "P"}
Parcel == [m : Letter, k : 1 .. Units]

(* One unit follows another within a message, or begins the next one.      *)
Follows(u, v) == IF u.k < Units THEN v.m = u.m /\ v.k = u.k + 1 ELSE v.k = 1

(* A sequence that ends with the end of a message, and one that also       *)
(* begins with a beginning.                                                *)
Ended(q) ==
    /\ q \in Seq(Parcel)
    /\ \A i \in 1 .. Len(q) - 1 : Follows(q[i], q[i + 1])
    /\ q # <<>> => q[Len(q)].k = Units
Whole(q) == Ended(q) /\ (q # <<>> => q[1].k = 1)

(* The messages of normal priority of each sender are in order; all are of *)
(* low priority; those of a sender are numbered below n, or there is none. *)
Ordered(q) ==
    \A i, j \in 1 .. Len(q) :
        i < j /\ q[i].m[1] = q[j].m[1] /\ q[i].m[3] = "D" /\ q[j].m[3] = "D"
            => q[i].m[2] <= q[j].m[2]
LowOnly(q) == \A i \in 1 .. Len(q) : q[i].m[3] = "P"
Below(q, t, n) == \A i \in 1 .. Len(q) : q[i].m[1] = t => q[i].m[2] < n
Absent(q, t) == \A i \in 1 .. Len(q) : q[i].m[1] # t

(* What has been written to the socket of a slot or will be next.          *)
Flow(w, r) == w \o (r.dw \o r.high)
FlowOK(w, r) == /\ Whole(Flow(w, r)) /\ Ordered(Flow(w, r))
                /\ Whole(r.low) /\ LowOnly(r.low)

(* What is in a socket was sent before what is under way to it, in the     *)
(* pipe p or with a worker of f, when n messages have been sent.           *)
Older(q, id, p, f, n) ==
    /\ \A t \in Sender : Below(q, t, n + 1)
    /\ \A i \in InPipe(p, id) : Below(q, p[i].m[1], p[i].m[2])
    /\ \A t \in Sender : f[t].m # None /\ f[t].id = id => Below(q, t, f[t].m[2])
Sound(w, r, p, f, n) ==
    FlowOK(w, r) /\ Older(Flow(w, r), r.id, p, f, n) /\ Older(r.low, r.id, p, f, n)

(* While a worker writes, whole messages of others may be put behind it.   *)
Writing(t, w, r, p, id) ==
    /\ r.dw = <<>> /\ Whole(w) /\ Whole(r.high) /\ Absent(r.high, t)
    /\ \A i \in InPipe(p, id) : p[i].m[1] # t

(* The slot has a socket that is not being closed.                         *)
Served(s) == crash = None /\ slot[s].type \notin {"invalid", "reserve"} /\ ~Closing(s)

Lists(r) == r.high \in Seq(Unit) /\ r.low \in Seq(Unit) /\ r.dw \in Seq(Unit)
Buffers == wire \in [Id -> Seq(Unit)] /\ \A s \in Slot : Lists(slot[s])
Flows == \A s \in Slot : Served(s) => Sound(wire[slot[s].id], slot[s], pipe, th, sent)
Writers == \A t \in Sender : th[t].pc = "write" /\ Served(S(t)) =>
               Writing(t, wire[th[t].id], slot[S(t)], pipe, th[t].id)

(* Nothing has been written to a socket that is not open yet.              *)
Unopened(id) == \/ id > alloc_id
                \/ \E t \in Sender : Owns(t) /\ th[t].id = id
                \/ \E i \in DOMAIN pipe : Opening(i) /\ pipe[i].id = id
Blank == \A id \in Id : Unopened(id) => wire[id] = <<>>

(* Messages are numbered as they are sent, and those of one worker go      *)
(* through the pipe in order.                                              *)
Numbers ==
    /\ \A i \in DOMAIN pipe : pipe[i].m # None =>
           pipe[i].m[3] = pipe[i].c /\ pipe[i].m[2] <= sent
    /\ \A t \in Sender : th[t].m # None =>
           th[t].m[1] = t /\ th[t].m[3] = th[t].c /\ th[t].m[2] <= sent
    /\ \A i, j \in DOMAIN pipe : pipe[i].m # None /\ pipe[j].m # None /\ i < j =>
           /\ pipe[i].m[2] # pipe[j].m[2]
           /\ pipe[i].m[1] = pipe[j].m[1] => pipe[i].m[2] < pipe[j].m[2]
    /\ \A i \in DOMAIN pipe, t \in Sender : pipe[i].m # None /\ th[t].m # None =>
           /\ pipe[i].m[2] # th[t].m[2]
           /\ pipe[i].m[1] = t => pipe[i].m[2] < th[t].m[2]
    /\ \A t, u \in Sender : t # u /\ th[t].m # None /\ th[u].m # None => th[t].m[2] # th[u].m[2]

Bounds == /\ alloc_id <= use.ids /\ sent <= use.msgs
          /\ \A s \in Slot : ~slot[s].tcp => slot[s].cnt \in 0 .. use.msgs

WInv == Buffers /\ Flows /\ Writers /\ Blank /\ Numbers /\ Bounds

-----------------------------------------------------------------------------
(* The parts of a message and of a unit.                                   *)
LEMMA UnitParts ==
    /\ \A m \in Letter : m[1] \in Sender /\ m[2] \in Nat /\ m[3] \in {"D", "P"}
    /\ \A u \in Parcel : u.m \in Letter /\ u.k \in Nat /\ 1 <= u.k /\ u.k <= Units
    /\ Units \in Nat /\ Units >= 1
<1>1. Units \in Nat /\ Units >= 1
  BY ModeAssumption
<1>2. \A m \in Letter : m[1] \in Sender /\ m[2] \in Nat /\ m[3] \in {"D", "P"}
  BY <1>1 DEF Letter
<1>3. \A u \in Parcel : u.m \in Letter /\ u.k \in Nat /\ 1 <= u.k /\ u.k <= Units
  BY <1>1 DEF Parcel
<1> QED
  BY <1>1, <1>2, <1>3

(* The messages of a run are among them.                                   *)
LEMMA ParcelType ==
    ASSUME use \in Uses
    PROVE  /\ Message \subseteq Letter /\ Unit \subseteq Parcel
           /\ \A q \in Seq(Unit) : q \in Seq(Parcel)
<1>1. Message \subseteq Letter
  BY SlotsType DEF Message, Letter
<1>2. Unit \subseteq Parcel
  BY <1>1 DEF Unit, Parcel
<1> QED
  BY <1>1, <1>2, SeqMonotonic

(* What a concatenation is made of.                                        *)
LEMMA ConcatIs ==
    ASSUME NEW X, NEW a \in Seq(X), NEW b \in Seq(X)
    PROVE  /\ a \o b \in Seq(X) /\ Len(a) \in Nat /\ Len(b) \in Nat
           /\ Len(a \o b) = Len(a) + Len(b)
           /\ \A i \in 1 .. Len(a) : (a \o b)[i] = a[i]
           /\ \A i \in Len(a) + 1 .. Len(a) + Len(b) : /\ i - Len(a) \in 1 .. Len(b)
                                                       /\ (a \o b)[i] = b[i - Len(a)]
           /\ \A i \in 1 .. Len(b) : (a \o b)[Len(a) + i] = b[i]
<1>1. Len(a) \in Nat /\ Len(b) \in Nat
  BY LenProperties
<1> DEFINE c == a \o b
<1>2. /\ c \in Seq(X) /\ Len(c) = Len(a) + Len(b)
      /\ \A i \in 1 .. Len(a) + Len(b) : c[i] = IF i <= Len(a) THEN a[i] ELSE b[i - Len(a)]
  BY ConcatProperties
<1> HIDE DEF c
<1>3. \A i \in 1 .. Len(a) : c[i] = a[i]
  BY <1>1, <1>2
<1>4. \A i \in Len(a) + 1 .. Len(a) + Len(b) :
          i - Len(a) \in 1 .. Len(b) /\ c[i] = b[i - Len(a)]
  BY <1>1, <1>2
<1>5. ASSUME NEW i \in 1 .. Len(b) PROVE c[Len(a) + i] = b[i]
  <2>1. Len(a) + i \in 1 .. Len(a) + Len(b) /\ ~(Len(a) + i <= Len(a)) /\ (Len(a) + i) - Len(a) = i
    BY <1>1
  <2> QED
    BY <1>2, <2>1
<1> QED
  BY <1>1, <1>2, <1>3, <1>4, <1>5 DEF c

(* What a part of a sequence is made of.                                   *)
LEMMA PartIs ==
    ASSUME NEW X, NEW a \in Seq(X), NEW m \in 1 .. Len(a) + 1, NEW n \in m - 1 .. Len(a)
    PROVE  /\ SubSeq(a, m, n) \in Seq(X) /\ Len(SubSeq(a, m, n)) = n - m + 1
           /\ \A i \in 1 .. n - m + 1 : /\ m + i - 1 \in 1 .. Len(a)
                                        /\ SubSeq(a, m, n)[i] = a[m + i - 1]
<1>1. Len(a) \in Nat /\ \A i \in 1 .. Len(a) : a[i] \in X
  BY LenProperties, ElementOfSeq
<1>2. m \in Int /\ n \in Int /\ \A i \in m .. n : a[i] \in X
  BY <1>1
<1>3. /\ SubSeq(a, m, n) \in Seq(X)
      /\ Len(SubSeq(a, m, n)) = IF m <= n THEN n - m + 1 ELSE 0
      /\ \A i \in 1 .. n - m + 1 : SubSeq(a, m, n)[i] = a[m + i - 1]
  BY <1>2, SubSeqProperties
<1>4. ~(m <= n) => n - m + 1 = 0
  BY <1>1
<1>5. \A i \in 1 .. n - m + 1 : m + i - 1 \in 1 .. Len(a)
  BY <1>1
<1> QED
  BY <1>3, <1>4, <1>5

(* Whole messages before whole messages are whole messages.                *)
LEMMA WholeConcat ==
    ASSUME NEW a, Whole(a), NEW b, Whole(b)
    PROVE  Whole(a \o b)
<1> DEFINE c == a \o b
<1>1. a \in Seq(Parcel) /\ b \in Seq(Parcel)
  BY DEF Whole, Ended
<1>2. /\ c \in Seq(Parcel) /\ Len(a) \in Nat /\ Len(b) \in Nat /\ Len(c) = Len(a) + Len(b)
      /\ \A i \in 1 .. Len(a) : c[i] = a[i]
      /\ \A i \in Len(a) + 1 .. Len(a) + Len(b) :
             i - Len(a) \in 1 .. Len(b) /\ c[i] = b[i - Len(a)]
  BY <1>1, ConcatIs
<1>3. (a = <<>> <=> Len(a) = 0) /\ (b = <<>> <=> Len(b) = 0) /\ (c = <<>> <=> Len(c) = 0)
  BY <1>1, <1>2, EmptySeq
<1> HIDE DEF c
<1>4. /\ \A i \in 1 .. Len(a) - 1 : Follows(a[i], a[i + 1])
      /\ \A i \in 1 .. Len(b) - 1 : Follows(b[i], b[i + 1])
      /\ Len(a) # 0 => a[1].k = 1 /\ a[Len(a)].k = Units
      /\ Len(b) # 0 => b[1].k = 1 /\ b[Len(b)].k = Units
  BY <1>3 DEF Whole, Ended
<1>5. ASSUME NEW i \in 1 .. Len(c) - 1 PROVE Follows(c[i], c[i + 1])
  <2>1. CASE i < Len(a)
    <3>1. i \in 1 .. Len(a) - 1 /\ i \in 1 .. Len(a) /\ i + 1 \in 1 .. Len(a)
      BY <1>2, <2>1
    <3> QED
      BY <1>2, <1>4, <3>1
  <2>2. CASE i = Len(a)
    <3>1. /\ i \in 1 .. Len(a) /\ i + 1 \in Len(a) + 1 .. Len(a) + Len(b) /\ (i + 1) - Len(a) = 1
          /\ Len(a) # 0 /\ Len(b) # 0
      BY <1>2, <2>2
    <3>2. c[i].k = Units /\ c[i + 1].k = 1
      BY <1>2, <1>4, <2>2, <3>1
    <3>3. ~(c[i].k < Units)
      BY <3>2, UnitParts
    <3> QED
      BY <3>2, <3>3 DEF Follows
  <2>3. CASE i > Len(a)
    <3> DEFINE j == i - Len(a)
    <3>1. /\ i \in Len(a) + 1 .. Len(a) + Len(b) /\ i + 1 \in Len(a) + 1 .. Len(a) + Len(b)
          /\ (i + 1) - Len(a) = j + 1 /\ j \in 1 .. Len(b) - 1
      BY <1>2, <2>3
    <3>2. c[i] = b[j] /\ c[i + 1] = b[j + 1]
      BY <1>2, <3>1
    <3> HIDE DEF j
    <3> QED
      BY <1>4, <3>1, <3>2
  <2> QED
    BY <1>2, <2>1, <2>2, <2>3
<1>6. Len(c) # 0 => c[1].k = 1
  <2>1. CASE Len(a) = 0
    BY <1>2, <1>4, <2>1
  <2>2. CASE Len(a) # 0
    BY <1>2, <1>4, <2>2
  <2> QED
    BY <2>1, <2>2
<1>7. Len(c) # 0 => c[Len(c)].k = Units
  <2>1. CASE Len(b) = 0
    BY <1>2, <1>4, <2>1
  <2>2. CASE Len(b) # 0
    BY <1>2, <1>4, <2>2
  <2> QED
    BY <2>1, <2>2
<1>8. Whole(c)
  BY <1>2, <1>3, <1>5, <1>6, <1>7 DEF Whole, Ended
<1> QED
  BY <1>8 DEF c

(* So is one message, and nothing.                                         *)
LEMMA WholeUnits ==
    ASSUME NEW m \in Letter
    PROVE  /\ Whole(UnitsOf(m)) /\ UnitsOf(m) \in Seq(Parcel) /\ Len(UnitsOf(m)) = Units
           /\ \A i \in 1 .. Units : UnitsOf(m)[i].m = m
<1> DEFINE q == UnitsOf(m)
<1>1. q \in Seq(Parcel) /\ Len(q) = Units /\ Units \in Nat /\ Units >= 1
  <2>1. q \in [1 .. Units -> Parcel]
    BY UnitParts DEF UnitsOf, Parcel
  <2> HIDE DEF q
  <2> QED
    BY <2>1, UnitParts
<1>2. \A i \in 1 .. Units : q[i].m = m /\ q[i].k = i
  BY DEF UnitsOf
<1> HIDE DEF q
<1>3. \A i \in 1 .. Units - 1 : Follows(q[i], q[i + 1])
  BY <1>1, <1>2 DEF Follows
<1>4. Whole(q)
  BY <1>1, <1>2, <1>3 DEF Whole, Ended
<1> QED
  BY <1>1, <1>2, <1>4 DEF q

(* Nothing is whole, too, and in order.                                    *)
LEMMA WholeEmpty == Whole(<<>>) /\ Ordered(<<>>) /\ LowOnly(<<>>)
  BY DEF Whole, Ended, Ordered, LowOnly

(* Whole messages can be parted where one begins.                          *)
LEMMA SplitWhole ==
    ASSUME NEW p, Whole(p), NEW j \in 0 .. Len(p), j = Len(p) \/ p[j + 1].k = 1
    PROVE  Whole(SubSeq(p, 1, j)) /\ Whole(SubSeq(p, j + 1, Len(p)))
<1> DEFINE n == Len(p)
           a == SubSeq(p, 1, j)
           b == SubSeq(p, j + 1, n)
<1>1. p \in Seq(Parcel) /\ n \in Nat /\ \A i \in 1 .. n : p[i] \in Parcel
  BY LenProperties, ElementOfSeq DEF Whole, Ended
<1>2. /\ a \in Seq(Parcel) /\ Len(a) = j
      /\ \A i \in 1 .. j : a[i] = p[i]
  <2>1. 1 \in 1 .. n + 1 /\ j \in 1 - 1 .. n /\ j - 1 + 1 = j
    BY <1>1
  <2>2. /\ a \in Seq(Parcel) /\ Len(a) = j - 1 + 1
        /\ \A i \in 1 .. j - 1 + 1 : a[i] = p[1 + i - 1]
    BY <1>1, <2>1, PartIs
  <2>3. \A i \in 1 .. j : 1 + i - 1 = i
    BY <1>1
  <2> QED
    BY <2>1, <2>2, <2>3
<1>3. /\ b \in Seq(Parcel) /\ Len(b) = n - j
      /\ \A i \in 1 .. n - j : b[i] = p[j + i]
  <2>1. j + 1 \in 1 .. n + 1 /\ n \in (j + 1) - 1 .. n /\ n - (j + 1) + 1 = n - j
    BY <1>1
  <2>2. /\ b \in Seq(Parcel) /\ Len(b) = n - (j + 1) + 1
        /\ \A i \in 1 .. n - (j + 1) + 1 : b[i] = p[(j + 1) + i - 1]
    BY <1>1, <2>1, PartIs
  <2>3. \A i \in 1 .. n - j : (j + 1) + i - 1 = j + i
    BY <1>1
  <2> QED
    BY <2>1, <2>2, <2>3
<1> HIDE DEF a, b
<1>4. /\ \A i \in 1 .. n - 1 : Follows(p[i], p[i + 1])
      /\ n # 0 => p[1].k = 1 /\ p[n].k = Units
  BY <1>1, EmptySeq DEF Whole, Ended
<1>5. (a = <<>> <=> Len(a) = 0) /\ (b = <<>> <=> Len(b) = 0)
  BY <1>2, <1>3, EmptySeq
<1> HIDE DEF n
<1>6. j # 0 => p[j].k = Units
  <2>1. CASE j = n
    BY <1>1, <1>4, <2>1
  <2>2. CASE j # 0 /\ j # n
    <3>1. j \in 1 .. n - 1 /\ j \in 1 .. n /\ p[j + 1].k = 1
      BY <1>1, <2>2 DEF n
    <3>2. Follows(p[j], p[j + 1]) /\ p[j].k \in Nat /\ 1 <= p[j].k /\ p[j].k <= Units
      BY <1>1, <1>4, <3>1, UnitParts
    <3>3. Units \in Nat
      BY UnitParts
    <3> QED
      BY <3>1, <3>2, <3>3 DEF Follows
  <2> QED
    BY <2>1, <2>2
<1>7. Whole(a)
  <2>1. \A i \in 1 .. j - 1 : Follows(a[i], a[i + 1])
    BY <1>1, <1>2, <1>4 DEF n
  <2>2. j # 0 => a[1].k = 1 /\ a[j].k = Units
    BY <1>1, <1>2, <1>4, <1>6 DEF n
  <2> QED
    BY <1>2, <1>5, <2>1, <2>2 DEF Whole, Ended
<1>8. Whole(b)
  <2>1. ASSUME NEW i \in 1 .. (n - j) - 1 PROVE Follows(b[i], b[i + 1])
    <3>1. /\ i \in 1 .. n - j /\ i + 1 \in 1 .. n - j /\ j + i \in 1 .. n - 1
          /\ j + (i + 1) = (j + i) + 1
      BY <1>1 DEF n
    <3> QED
      BY <1>3, <1>4, <3>1
  <2>2. n - j # 0 => b[1].k = 1 /\ b[n - j].k = Units
    <3>1. ASSUME n - j # 0
          PROVE  /\ 1 \in 1 .. n - j /\ n - j \in 1 .. n - j /\ j + (n - j) = n /\ n # 0
                 /\ j # Len(p)
      BY <1>1, <3>1 DEF n
    <3> QED
      BY <1>3, <1>4, <3>1
  <2> QED
    BY <1>3, <1>5, <2>1, <2>2 DEF Whole, Ended
<1> QED
  BY <1>7, <1>8 DEF a, b, n

(* Numbers have a least one.                                               *)
LEMMA LeastNat ==
    ASSUME NEW T, T \subseteq Nat, T # {}
    PROVE  \E x \in T : \A y \in T : x <= y
<1> DEFINE R == OpToRel(<, Nat)
<1>1. IsWellFoundedOn(R, Nat)
  BY NatLessThanWellFounded
<1>2. \A x, y \in Nat : y < x => <<y, x>> \in R
  BY DEF OpToRel
<1> HIDE DEF R
<1>3. PICK x \in T : \A y \in T : ~(<<y, x>> \in R)
  BY <1>1, WFMin
<1>4. ASSUME NEW y \in T PROVE x <= y
  <2>1. x \in Nat /\ y \in Nat /\ ~(y < x)
    BY <1>2, <1>3
  <2> QED
    BY <2>1
<1> QED
  BY <1>4

(* From any unit the message goes on to its end: raise_uncomplete counts   *)
(* the units that are left of it.                                          *)
LEMMA NextStart ==
    ASSUME NEW p, Whole(p), NEW i \in 0 .. Len(p) - 1,
           NEW r, r = (Units + 1 - p[i + 1].k) % Units
    PROVE  /\ r \in Nat /\ i + r <= Len(p)
           /\ i + r = Len(p) \/ p[i + r + 1].k = 1
<1> DEFINE n == Len(p)
           c == p[i + 1].k
<1>1. p \in Seq(Parcel) /\ n \in Nat /\ \A x \in 1 .. n : p[x] \in Parcel
  BY LenProperties, ElementOfSeq DEF Whole, Ended
<1>2. Units \in Nat /\ Units >= 1 /\ i \in Nat /\ i + 1 \in 1 .. n
  BY <1>1, UnitParts
<1>3. c \in Nat /\ 1 <= c /\ c <= Units
  BY <1>1, <1>2, UnitParts
<1>4. /\ \A x \in 1 .. n - 1 : Follows(p[x], p[x + 1])
      /\ p[n].k = Units
  BY <1>1, <1>2, EmptySeq DEF Whole, Ended
<1> HIDE DEF n, c
<1>5. CASE c = 1
  <2>1. (Units + 1 - c) % Units = 0
    BY <1>2, <1>5
  <2>2. r = 0
    BY <2>1 DEF c
  <2> QED
    BY <1>1, <1>2, <1>5, <2>2 DEF c, n
<1>6. CASE c # 1
  <2>1. (Units + 1 - c) % Units = Units + 1 - c
    BY <1>2, <1>3, <1>6
  <2>2. r = Units + 1 - c /\ r \in Nat /\ r >= 1
    BY <1>2, <1>3, <2>1 DEF c
  <2> DEFINE T == {x \in 0 .. r - 1 : ~(i + 1 + x <= n /\ p[i + 1 + x].k = c + x)}
  <2>3. T = {}
    <3> SUFFICES ASSUME T # {} PROVE FALSE
      OBVIOUS
    <3>1. T \subseteq Nat
      BY <2>2
    <3>2. PICK x \in T : \A y \in T : x <= y
      BY <3>1, LeastNat
    <3>3. x \in Nat /\ x <= r - 1 /\ ~(i + 1 + x <= n /\ p[i + 1 + x].k = c + x)
      BY <2>2
    <3>4. x # 0
      BY <1>2, <1>3, <3>3 DEF c
    <3>5. x - 1 \in 0 .. r - 1 /\ ~(x <= x - 1)
      BY <2>2, <3>3, <3>4
    <3>6. x - 1 \notin T
      BY <3>2, <3>5
    <3>7. i + 1 + (x - 1) <= n /\ p[i + 1 + (x - 1)].k = c + (x - 1)
      BY <3>5, <3>6
    <3>8. i + 1 + (x - 1) = i + x
      BY <1>2, <3>3
    <3>9. i + x <= n /\ p[i + x].k = c + (x - 1) /\ c + (x - 1) < Units
      BY <1>2, <1>3, <2>2, <3>3, <3>7, <3>8
    <3>10. i + x # n
      BY <1>2, <1>4, <3>9
    <3>11. i + x \in 1 .. n - 1
      <4>1. n \in Nat /\ i \in Nat /\ x \in Nat /\ x # 0 /\ i + x <= n /\ i + x # n
        BY <1>1, <1>2, <3>3, <3>4, <3>9, <3>10
      <4> QED
        BY ONLY <4>1
    <3>12. p[i + x + 1].k = c + (x - 1) + 1
      BY <1>4, <3>9, <3>11 DEF Follows
    <3>13. i + x + 1 = i + 1 + x /\ c + (x - 1) + 1 = c + x /\ i + 1 + x <= n
      <4>1. n \in Nat /\ i \in Nat /\ c \in Nat /\ x \in Nat
        BY <1>1, <1>2, <1>3, <3>3
      <4> QED
        BY ONLY <4>1, <3>11
    <3> QED
      BY <3>3, <3>12, <3>13
  <2>4. r - 1 \in 0 .. r - 1 /\ i + 1 + (r - 1) = i + r /\ c + (r - 1) = Units
    BY <1>2, <1>3, <2>2
  <2>5. i + 1 + (r - 1) <= n /\ p[i + 1 + (r - 1)].k = c + (r - 1)
    BY <2>3, <2>4
  <2>6. i + r <= n /\ p[i + r].k = Units
    BY <2>4, <2>5
  <2>7. ASSUME i + r # n PROVE p[i + r + 1].k = 1
    <3>1. i + r \in 1 .. n - 1
      BY <1>1, <1>2, <2>2, <2>6, <2>7
    <3>2. ~(p[i + r].k < Units)
      BY <1>2, <2>6
    <3> QED
      BY <1>4, <3>1, <3>2 DEF Follows
  <2> QED
    BY <2>2, <2>6, <2>7 DEF n
<1> QED
  BY <1>5, <1>6

-----------------------------------------------------------------------------
(* Order.  A part of what is in order, or old enough, is so too.           *)
LEMMA PartOrder ==
    ASSUME NEW p \in Seq(Parcel), NEW m \in 1 .. Len(p) + 1, NEW n \in m - 1 .. Len(p)
    PROVE  /\ Ordered(p) => Ordered(SubSeq(p, m, n))
           /\ LowOnly(p) => LowOnly(SubSeq(p, m, n))
           /\ \A t, x : Below(p, t, x) => Below(SubSeq(p, m, n), t, x)
<1> DEFINE q == SubSeq(p, m, n)
<1>1. Len(p) \in Nat
  BY LenProperties
<1>2. /\ Len(q) = n - m + 1
      /\ \A i \in 1 .. n - m + 1 : m + i - 1 \in 1 .. Len(p) /\ q[i] = p[m + i - 1]
  BY PartIs
<1> HIDE DEF q
<1>3. Ordered(p) => Ordered(q)
  <2>1. ASSUME Ordered(p), NEW i \in 1 .. Len(q), NEW j \in 1 .. Len(q), i < j,
               q[i].m[1] = q[j].m[1], q[i].m[3] = "D", q[j].m[3] = "D"
        PROVE  q[i].m[2] <= q[j].m[2]
    <3>1. /\ m + i - 1 \in 1 .. Len(p) /\ q[i] = p[m + i - 1]
          /\ m + j - 1 \in 1 .. Len(p) /\ q[j] = p[m + j - 1]
      BY <1>2
    <3>2. m + i - 1 < m + j - 1
      BY <1>1, <1>2, <2>1
    <3> QED
      BY <2>1, <3>1, <3>2 DEF Ordered
  <2> QED
    BY <2>1 DEF Ordered
<1>4. LowOnly(p) => LowOnly(q)
  <2>1. ASSUME LowOnly(p), NEW i \in 1 .. Len(q) PROVE q[i].m[3] = "P"
    <3>1. m + i - 1 \in 1 .. Len(p) /\ q[i] = p[m + i - 1]
      BY <1>2
    <3> QED
      BY <2>1, <3>1 DEF LowOnly
  <2> QED
    BY <2>1 DEF LowOnly
<1>5. \A t, x : Below(p, t, x) => Below(q, t, x)
  BY <1>2 DEF Below
<1> QED
  BY <1>3, <1>4, <1>5 DEF q

(* Of two sequences each.                                                  *)
LEMMA ConcatOrder ==
    ASSUME NEW a \in Seq(Parcel), NEW b \in Seq(Parcel)
    PROVE  /\ \A t, x : Below(a \o b, t, x) <=> Below(a, t, x) /\ Below(b, t, x)
           /\ \A t : Absent(a \o b, t) <=> Absent(a, t) /\ Absent(b, t)
           /\ LowOnly(a) /\ LowOnly(b) => LowOnly(a \o b)
<1> DEFINE c == a \o b
<1>1. /\ Len(a) \in Nat /\ Len(b) \in Nat /\ Len(c) = Len(a) + Len(b)
      /\ \A i \in 1 .. Len(a) : c[i] = a[i]
      /\ \A i \in Len(a) + 1 .. Len(a) + Len(b) :
             i - Len(a) \in 1 .. Len(b) /\ c[i] = b[i - Len(a)]
      /\ \A i \in 1 .. Len(b) : c[Len(a) + i] = b[i]
  BY ConcatIs
<1> HIDE DEF c
<1>2. \A i \in 1 .. Len(c) : i \in 1 .. Len(a) \/ i \in Len(a) + 1 .. Len(a) + Len(b)
  BY <1>1
<1>3. /\ \A i \in 1 .. Len(a) : i \in 1 .. Len(c)
      /\ \A i \in 1 .. Len(b) : Len(a) + i \in 1 .. Len(c)
  BY <1>1
<1>4. \A t, x : Below(c, t, x) <=> Below(a, t, x) /\ Below(b, t, x)
  <2>1. ASSUME NEW t, NEW x, Below(c, t, x) PROVE Below(a, t, x) /\ Below(b, t, x)
    BY <1>1, <1>3, <2>1 DEF Below
  <2>2. ASSUME NEW t, NEW x, Below(a, t, x), Below(b, t, x) PROVE Below(c, t, x)
    BY <1>1, <1>2, <2>2 DEF Below
  <2> QED
    BY <2>1, <2>2
<1>5. \A t : Absent(c, t) <=> Absent(a, t) /\ Absent(b, t)
  <2>1. ASSUME NEW t, Absent(c, t) PROVE Absent(a, t) /\ Absent(b, t)
    BY <1>1, <1>3, <2>1 DEF Absent
  <2>2. ASSUME NEW t, Absent(a, t), Absent(b, t) PROVE Absent(c, t)
    BY <1>1, <1>2, <2>2 DEF Absent
  <2> QED
    BY <2>1, <2>2
<1>6. LowOnly(a) /\ LowOnly(b) => LowOnly(c)
  BY <1>1, <1>2 DEF LowOnly
<1> QED
  BY <1>4, <1>5, <1>6 DEF c

(* Two sequences in order one after the other, if no message of normal     *)
(* priority in the second has a later one of its sender in the first.      *)
LEMMA JoinOrder ==
    ASSUME NEW a \in Seq(Parcel), Ordered(a), NEW b \in Seq(Parcel), Ordered(b),
           \A i \in 1 .. Len(b) : b[i].m[3] = "P" \/ \A j \in 1 .. Len(a) :
               a[j].m[1] = b[i].m[1] /\ a[j].m[3] = "D" => a[j].m[2] <= b[i].m[2]
    PROVE  Ordered(a \o b)
<1> DEFINE c == a \o b
<1>1. /\ Len(a) \in Nat /\ Len(b) \in Nat /\ Len(c) = Len(a) + Len(b)
      /\ \A i \in 1 .. Len(a) : c[i] = a[i]
      /\ \A i \in Len(a) + 1 .. Len(a) + Len(b) :
             i - Len(a) \in 1 .. Len(b) /\ c[i] = b[i - Len(a)]
  BY ConcatIs
<1> HIDE DEF c
<1>2. ASSUME NEW i \in 1 .. Len(c), NEW j \in 1 .. Len(c), i < j, c[i].m[1] = c[j].m[1],
             c[i].m[3] = "D", c[j].m[3] = "D"
      PROVE  c[i].m[2] <= c[j].m[2]
  <2>1. CASE j <= Len(a)
    <3>1. i \in 1 .. Len(a) /\ j \in 1 .. Len(a)
      BY <1>1, <1>2, <2>1
    <3> QED
      BY <1>1, <1>2, <3>1 DEF Ordered
  <2>2. CASE i > Len(a)
    <3>1. /\ i \in Len(a) + 1 .. Len(a) + Len(b) /\ j \in Len(a) + 1 .. Len(a) + Len(b)
          /\ i - Len(a) < j - Len(a)
      BY <1>1, <1>2, <2>2
    <3> DEFINE x == i - Len(a)
               y == j - Len(a)
    <3>2. x \in 1 .. Len(b) /\ y \in 1 .. Len(b) /\ c[i] = b[x] /\ c[j] = b[y] /\ x < y
      BY <1>1, <3>1
    <3> HIDE DEF x, y
    <3> QED
      BY <1>2, <3>2 DEF Ordered
  <2>3. CASE i <= Len(a) /\ j > Len(a)
    <3>1. i \in 1 .. Len(a) /\ j \in Len(a) + 1 .. Len(a) + Len(b)
      BY <1>1, <1>2, <2>3
    <3>2. c[i] = a[i] /\ c[j] = b[j - Len(a)] /\ j - Len(a) \in 1 .. Len(b)
      BY <1>1, <3>1
    <3>3. b[j - Len(a)].m[3] # "P"
      BY <1>2, <3>2
    <3> QED
      BY <1>2, <3>1, <3>2, <3>3
  <2> QED
    BY <1>1, <1>2, <2>1, <2>2, <2>3
<1>3. Ordered(c)
  BY <1>2 DEF Ordered
<1> QED
  BY <1>3 DEF c

(* Messages of low priority may come anywhere.                             *)
LEMMA LowOrder ==
    ASSUME NEW a \in Seq(Parcel), Ordered(a), NEW b \in Seq(Parcel), LowOnly(b)
    PROVE  Ordered(a \o b)
<1>1. Ordered(b)
  BY DEF Ordered, LowOnly
<1> QED
  BY <1>1, JoinOrder DEF LowOnly

(* A message that is later than those of its sender may come at the end.   *)
LEMMA LastOrder ==
    ASSUME NEW a \in Seq(Parcel), Ordered(a), NEW m \in Letter,
           Below(a, m[1], m[2])
    PROVE  Ordered(a \o UnitsOf(m)) /\ Ordered(UnitsOf(m))
<1> DEFINE b == UnitsOf(m)
<1>1. /\ b \in Seq(Parcel) /\ Len(b) = Units /\ Units \in Nat
      /\ \A i \in 1 .. Units : b[i].m = m
  BY WholeUnits, UnitParts
<1>2. m[2] \in Nat /\ \A j \in 1 .. Len(a) : a[j].m[2] \in Nat
  BY UnitParts, ElementOfSeq
<1> HIDE DEF b
<1>3. Ordered(b)
  BY <1>1, <1>2 DEF Ordered
<1>4. \A j \in 1 .. Len(a) : a[j].m[1] = m[1] => a[j].m[2] <= m[2]
  BY <1>2 DEF Below
<1>5. Ordered(a \o b)
  BY <1>1, <1>3, <1>4, JoinOrder
<1> QED
  BY <1>3, <1>5 DEF b

(* The worker that writes writes behind what it has written, and before    *)
(* what the others have put into the list.                                 *)
LEMMA MiddleOrder ==
    ASSUME NEW w \in Seq(Parcel), NEW h \in Seq(Parcel), Ordered(w \o h),
           NEW m \in Letter, Below(w, m[1], m[2]), Absent(h, m[1])
    PROVE  Ordered(w \o (UnitsOf(m) \o h))
<1> DEFINE b == UnitsOf(m)
           c == w \o h
<1>1. b \in Seq(Parcel) /\ Len(b) = Units /\ Units \in Nat /\ \A i \in 1 .. Units : b[i].m = m
  BY WholeUnits, UnitParts
<1>2. /\ c \in Seq(Parcel) /\ Len(c) = Len(w) + Len(h) /\ Len(w) \in Nat /\ Len(h) \in Nat
      /\ \A i \in 1 .. Len(w) : c[i] = w[i]
      /\ \A i \in 1 .. Len(h) : c[Len(w) + i] = h[i]
  BY ConcatIs
<1> HIDE DEF b, c
<1>3. Ordered(w)
  <2>1. \A i \in 1 .. Len(w) : i \in 1 .. Len(c)
    BY <1>2
  <2> QED
    BY <1>2, <2>1 DEF Ordered, c
<1>4. Ordered(h)
  <2>1. ASSUME NEW i \in 1 .. Len(h), NEW j \in 1 .. Len(h), i < j,
               h[i].m[1] = h[j].m[1], h[i].m[3] = "D", h[j].m[3] = "D"
        PROVE  h[i].m[2] <= h[j].m[2]
    <3>1. /\ Len(w) + i \in 1 .. Len(c) /\ Len(w) + j \in 1 .. Len(c)
          /\ Len(w) + i < Len(w) + j
      BY <1>2, <2>1
    <3>2. c[Len(w) + i] = h[i] /\ c[Len(w) + j] = h[j]
      BY <1>2
    <3>3. Ordered(c)
      BY DEF c
    <3> QED
      BY <2>1, <3>1, <3>2, <3>3 DEF Ordered
  <2> QED
    BY <2>1 DEF Ordered
<1>5. Ordered(w \o b)
  BY <1>3, LastOrder DEF b
<1>6. /\ w \o b \in Seq(Parcel) /\ Len(w \o b) = Len(w) + Len(b)
      /\ \A x \in 1 .. Len(w) : (w \o b)[x] = w[x]
      /\ \A x \in Len(w) + 1 .. Len(w) + Len(b) :
             x - Len(w) \in 1 .. Len(b) /\ (w \o b)[x] = b[x - Len(w)]
  <2>1. b \in Seq(Parcel)
    BY <1>1
  <2> QED
    BY ONLY <2>1, w \in Seq(Parcel), ConcatIs
<1>7. ASSUME NEW i \in 1 .. Len(h), h[i].m[3] # "P", NEW j \in 1 .. Len(w \o b),
             (w \o b)[j].m[1] = h[i].m[1], (w \o b)[j].m[3] = "D"
      PROVE  (w \o b)[j].m[2] <= h[i].m[2]
  <2> DEFINE d == w \o b
  <2>1. /\ Len(d) = Len(w) + Len(b) /\ \A x \in 1 .. Len(w) : d[x] = w[x]
        /\ \A x \in Len(w) + 1 .. Len(w) + Len(b) :
               x - Len(w) \in 1 .. Len(b) /\ d[x] = b[x - Len(w)]
    BY <1>6
  <2>2. CASE j <= Len(w)
    <3>1. j \in 1 .. Len(w) /\ (w \o b)[j] = w[j]
      BY <1>2, <2>1, <2>2
    <3>2. /\ j \in 1 .. Len(c) /\ Len(w) + i \in 1 .. Len(c) /\ j < Len(w) + i
          /\ c[j] = w[j] /\ c[Len(w) + i] = h[i]
      BY <1>2, <3>1
    <3>3. h[i] \in Parcel
      BY ElementOfSeq
    <3>4. h[i].m[3] = "D"
      BY <1>7, <3>3, UnitParts
    <3> QED
      BY <1>7, <3>1, <3>2, <3>4 DEF Ordered, c
  <2>3. CASE j > Len(w)
    <3>1. j \in Len(w) + 1 .. Len(w) + Len(b)
      BY <1>1, <1>2, <2>1, <2>3
    <3>2. (w \o b)[j].m = m
      BY <1>1, <2>1, <3>1
    <3> QED
      BY <1>7, <3>2 DEF Absent
  <2> QED
    BY <1>1, <1>2, <2>1, <2>2, <2>3
<1>8. Ordered((w \o b) \o h)
  BY <1>4, <1>5, <1>6, <1>7, JoinOrder
<1>9. (w \o b) \o h = w \o (b \o h)
  BY <1>1, ConcatAssociative
<1> QED
  BY <1>8, <1>9 DEF b

-----------------------------------------------------------------------------
(* Parts of parts, and of concatenations.                                  *)
LEMMA PartOfPart ==
    ASSUME NEW X, NEW a \in Seq(X), NEW m \in 0 .. Len(a), NEW x \in 0 .. Len(a) - m,
           NEW b, b = SubSeq(a, m + 1, Len(a))
    PROVE  /\ SubSeq(b, 1, x) = SubSeq(a, m + 1, m + x)
           /\ SubSeq(b, x + 1, Len(b)) = SubSeq(a, m + x + 1, Len(a))
<1> DEFINE n == Len(a)
<1>1. n \in Nat
  BY LenProperties
<1>2. m + 1 \in 1 .. n + 1 /\ n \in (m + 1) - 1 .. n /\ n - (m + 1) + 1 = n - m
  BY <1>1
<1>3. /\ b \in Seq(X) /\ Len(b) = n - m
      /\ \A i \in 1 .. n - m : b[i] = a[(m + 1) + i - 1]
  <2>1. /\ b \in Seq(X) /\ Len(b) = n - (m + 1) + 1
        /\ \A i \in 1 .. n - (m + 1) + 1 : b[i] = a[(m + 1) + i - 1]
    BY <1>2, PartIs
  <2> QED
    BY <1>2, <2>1
<1>4. SubSeq(b, 1, x) = SubSeq(a, m + 1, m + x)
  <2> DEFINE p == SubSeq(b, 1, x)
             q == SubSeq(a, m + 1, m + x)
  <2>1. /\ 1 \in 1 .. Len(b) + 1 /\ x \in 1 - 1 .. Len(b) /\ x - 1 + 1 = x
        /\ m + 1 \in 1 .. n + 1 /\ m + x \in (m + 1) - 1 .. n /\ (m + x) - (m + 1) + 1 = x
    BY <1>1, <1>3
  <2>2. p \in Seq(X) /\ Len(p) = x /\ \A i \in 1 .. x : p[i] = b[1 + i - 1]
    <3>1. /\ p \in Seq(X) /\ Len(p) = x - 1 + 1
          /\ \A i \in 1 .. x - 1 + 1 : p[i] = b[1 + i - 1]
      BY <1>3, <2>1, PartIs
    <3> QED
      BY <2>1, <3>1
  <2>3. q \in Seq(X) /\ Len(q) = x /\ \A i \in 1 .. x : q[i] = a[(m + 1) + i - 1]
    <3>1. /\ q \in Seq(X) /\ Len(q) = (m + x) - (m + 1) + 1
          /\ \A i \in 1 .. (m + x) - (m + 1) + 1 : q[i] = a[(m + 1) + i - 1]
      BY <2>1, PartIs
    <3> QED
      BY <2>1, <3>1
  <2> HIDE DEF p, q
  <2>4. ASSUME NEW i \in 1 .. x PROVE p[i] = q[i]
    <3>1. 1 + i - 1 = i /\ i \in 1 .. n - m
      BY <1>1
    <3> QED
      BY <1>3, <2>2, <2>3, <3>1
  <2>5. p = q
    BY <2>2, <2>3, <2>4, SeqEqual
  <2> QED
    BY <2>5 DEF p, q
<1>5. SubSeq(b, x + 1, Len(b)) = SubSeq(a, m + x + 1, n)
  <2> DEFINE p == SubSeq(b, x + 1, Len(b))
             q == SubSeq(a, m + x + 1, n)
             y == n - m - x
  <2>1. /\ x + 1 \in 1 .. Len(b) + 1 /\ Len(b) \in (x + 1) - 1 .. Len(b)
        /\ Len(b) - (x + 1) + 1 = y /\ y \in Nat
        /\ m + x + 1 \in 1 .. n + 1 /\ n \in (m + x + 1) - 1 .. n /\ n - (m + x + 1) + 1 = y
    BY <1>1, <1>3
  <2> HIDE DEF y
  <2>2. p \in Seq(X) /\ Len(p) = y /\ \A i \in 1 .. y : p[i] = b[(x + 1) + i - 1]
    <3>1. /\ p \in Seq(X) /\ Len(p) = Len(b) - (x + 1) + 1
          /\ \A i \in 1 .. Len(b) - (x + 1) + 1 : p[i] = b[(x + 1) + i - 1]
      <4>1. /\ b \in Seq(X) /\ x + 1 \in 1 .. Len(b) + 1
            /\ Len(b) \in (x + 1) - 1 .. Len(b)
        BY <1>3, <2>1
      <4> QED
        BY ONLY <4>1, PartIs DEF p
    <3> QED
      BY <2>1, <3>1
  <2>3. q \in Seq(X) /\ Len(q) = y /\ \A i \in 1 .. y : q[i] = a[(m + x + 1) + i - 1]
    <3>1. /\ q \in Seq(X) /\ Len(q) = n - (m + x + 1) + 1
          /\ \A i \in 1 .. n - (m + x + 1) + 1 : q[i] = a[(m + x + 1) + i - 1]
      BY <2>1, PartIs
    <3> QED
      BY <2>1, <3>1
  <2> HIDE DEF p, q
  <2>4. ASSUME NEW i \in 1 .. y PROVE p[i] = q[i]
    <3>1. /\ (x + 1) + i - 1 \in 1 .. n - m
          /\ (m + 1) + ((x + 1) + i - 1) - 1 = (m + x + 1) + i - 1
      <4>1. n \in Nat /\ m \in Nat /\ x \in Nat /\ y \in Nat /\ y = n - m - x
        BY ONLY <1>1, <2>1, m \in 0 .. Len(a), x \in 0 .. Len(a) - m DEF y, n
      <4>2. i \in Nat /\ 1 <= i /\ i <= y
        BY <4>1
      <4> HIDE DEF n
      <4> QED
        BY ONLY <4>1, <4>2
    <3> QED
      BY <1>3, <2>2, <2>3, <3>1
  <2>5. p = q
    BY <2>2, <2>3, <2>4, SeqEqual
  <2> QED
    BY <2>5 DEF p, q
<1> QED
  BY <1>4, <1>5

(* What is taken of two lists is the first and a part of the second, or a  *)
(* part of the first.                                                      *)
LEMMA TakeConcat ==
    ASSUME NEW X, NEW a \in Seq(X), NEW b \in Seq(X), NEW k \in 0 .. Len(a) + Len(b)
    PROVE  /\ k <= Len(a) => SubSeq(a \o b, 1, k) = SubSeq(a, 1, k)
           /\ k >= Len(a) => SubSeq(a \o b, 1, k) = a \o SubSeq(b, 1, k - Len(a))
<1> DEFINE c == a \o b
           p == SubSeq(c, 1, k)
<1>1. /\ c \in Seq(X) /\ Len(a) \in Nat /\ Len(b) \in Nat /\ Len(c) = Len(a) + Len(b)
      /\ \A i \in 1 .. Len(a) : c[i] = a[i]
      /\ \A i \in Len(a) + 1 .. Len(a) + Len(b) :
             i - Len(a) \in 1 .. Len(b) /\ c[i] = b[i - Len(a)]
  BY ConcatIs
<1> HIDE DEF c
<1>2. p \in Seq(X) /\ Len(p) = k /\ \A i \in 1 .. k : p[i] = c[i]
  <2>1. 1 \in 1 .. Len(c) + 1 /\ k \in 1 - 1 .. Len(c) /\ k - 1 + 1 = k
    BY <1>1
  <2>2. p \in Seq(X) /\ Len(p) = k - 1 + 1 /\ \A i \in 1 .. k - 1 + 1 : p[i] = c[1 + i - 1]
    BY <1>1, <2>1, PartIs
  <2>3. \A i \in 1 .. k : 1 + i - 1 = i
    BY <1>1
  <2> QED
    BY <2>1, <2>2, <2>3
<1> HIDE DEF p
<1>3. ASSUME k <= Len(a) PROVE p = SubSeq(a, 1, k)
  <2> DEFINE q == SubSeq(a, 1, k)
  <2>1. 1 \in 1 .. Len(a) + 1 /\ k \in 1 - 1 .. Len(a) /\ k - 1 + 1 = k
    BY <1>1, <1>3
  <2>2. q \in Seq(X) /\ Len(q) = k - 1 + 1 /\ \A i \in 1 .. k - 1 + 1 : q[i] = a[1 + i - 1]
    BY <2>1, PartIs
  <2> HIDE DEF q
  <2>3. ASSUME NEW i \in 1 .. k PROVE p[i] = q[i]
    <3>1. 1 + i - 1 = i /\ i \in 1 .. Len(a)
      BY <1>1, <1>3
    <3> QED
      BY <1>1, <1>2, <2>1, <2>2, <3>1
  <2>4. p = q
    BY <1>2, <2>1, <2>2, <2>3, SeqEqual
  <2> QED
    BY <2>4 DEF q
<1>4. ASSUME k >= Len(a) PROVE p = a \o SubSeq(b, 1, k - Len(a))
  <2> DEFINE x == k - Len(a)
             d == SubSeq(b, 1, x)
             q == a \o d
  <2>1. /\ x \in Nat /\ 1 \in 1 .. Len(b) + 1 /\ x \in 1 - 1 .. Len(b) /\ x - 1 + 1 = x
        /\ k = Len(a) + x
    BY <1>1, <1>4
  <2>2. d \in Seq(X) /\ Len(d) = x - 1 + 1 /\ \A i \in 1 .. x - 1 + 1 : d[i] = b[1 + i - 1]
    BY <2>1, PartIs
  <2> HIDE DEF x, d
  <2>3. /\ q \in Seq(X) /\ Len(q) = Len(a) + Len(d)
        /\ \A i \in 1 .. Len(a) : q[i] = a[i]
        /\ \A i \in Len(a) + 1 .. Len(a) + Len(d) :
               i - Len(a) \in 1 .. Len(d) /\ q[i] = d[i - Len(a)]
    <3>1. d \in Seq(X)
      BY <2>2
    <3> QED
      BY ONLY <3>1, a \in Seq(X), ConcatIs DEF q
  <2> HIDE DEF q
  <2>4. ASSUME NEW i \in 1 .. k PROVE p[i] = q[i]
    <3>1. CASE i <= Len(a)
      <4>1. i \in 1 .. Len(a)
        BY <1>1, <3>1
      <4> QED
        BY <1>1, <1>2, <2>3, <4>1
    <3>2. CASE i > Len(a)
      <4> DEFINE y == i - Len(a)
      <4>1. /\ i \in Len(a) + 1 .. Len(a) + Len(b) /\ i \in Len(a) + 1 .. Len(a) + Len(d)
            /\ y \in 1 .. x /\ 1 + y - 1 = y
        BY <1>1, <2>1, <2>2, <3>2
      <4>2. p[i] = b[y]
        BY <1>1, <1>2, <4>1
      <4>3. q[i] = d[y]
        BY <2>3, <4>1
      <4> HIDE DEF y
      <4> QED
        BY <2>1, <2>2, <4>1, <4>2, <4>3
    <3> QED
      BY <1>1, <3>1, <3>2
  <2>5. p = q
    BY <1>2, <2>1, <2>2, <2>3, <2>4, SeqEqual
  <2> QED
    BY <2>5 DEF q, d, x
<1> QED
  BY <1>3, <1>4 DEF p, c

(* A sequence of no length is empty.                                       *)
LEMMA NoLength ==
    ASSUME NEW X, NEW a \in Seq(X)
    PROVE  a = <<>> <=> Len(a) = 0
BY EmptySeq

(* What send_buffer writes of the two lists and leaves in the high one is  *)
(* the high list and whole messages of the low one, of which the rest      *)
(* stays.                                                                  *)
LEMMA DrainSplits ==
    ASSUME NEW X, NEW r, IsSlot(r), r.high \in Seq(X), r.low \in Seq(X), Whole(r.low),
           NEW k \in 0 .. Len(r.high) + Len(r.low), NEW q, q = Drain(r, k)
    PROVE  \E j \in 0 .. Len(r.low) :
               /\ j = Len(r.low) \/ r.low[j + 1].k = 1
               /\ SubSeq(r.high \o r.low, 1, k) \o q.high = r.high \o SubSeq(r.low, 1, j)
               /\ q.low = SubSeq(r.low, j + 1, Len(r.low)) /\ q.high \in Seq(X)
<1> DEFINE a == r.high
           b == r.low
           h == IF k < Len(a) THEN k ELSE Len(a)
           rest == [r EXCEPT !.high = SubSeq(a, h + 1, Len(a)),
                             !.low = SubSeq(b, k - h + 1, Len(b))]
           u == RaiseUncomplete(rest)
<1>1. /\ a \in Seq(X) /\ b \in Seq(X) /\ Len(a) \in Nat /\ Len(b) \in Nat /\ k \in Nat
      /\ k <= Len(a) + Len(b)
  <2>1. a \in Seq(X) /\ b \in Seq(X)
    OBVIOUS
  <2>2. Len(a) \in Nat /\ Len(b) \in Nat
    BY <2>1, LenProperties
  <2>3. k \in 0 .. Len(a) + Len(b)
    OBVIOUS
  <2> HIDE DEF a, b
  <2>4. k \in Nat /\ k <= Len(a) + Len(b)
    BY ONLY <2>2, <2>3
  <2> QED
    BY <2>1, <2>2, <2>4
<1>2. /\ IsSlot(rest) /\ rest.high = SubSeq(a, h + 1, Len(a))
      /\ rest.low = SubSeq(b, k - h + 1, Len(b))
  BY DEF IsSlot
<1>3. q.high = u.high /\ q.low = u.low
  <2>1. IsSlot(u)
    BY <1>2, RaiseType
  <2> HIDE DEF u
  <2>2. q = [u EXCEPT !.wr = rest.high # <<>> \/ rest.low # <<>>]
    BY DEF Drain, u
  <2> QED
    BY <2>1, <2>2 DEF IsSlot
<1>0. k \in 0 .. Len(a) + Len(b) /\ Whole(b)
  OBVIOUS
<1> SUFFICES \E j \in 0 .. Len(b) :
                 /\ j = Len(b) \/ b[j + 1].k = 1
                 /\ SubSeq(a \o b, 1, k) \o q.high = a \o SubSeq(b, 1, j)
                 /\ q.low = SubSeq(b, j + 1, Len(b)) /\ q.high \in Seq(X)
  OBVIOUS
<1> HIDE DEF a, b
<1>4. CASE k < Len(a)
  <2>1. rest.high = SubSeq(a, k + 1, Len(a)) /\ rest.low = SubSeq(b, 1, Len(b))
    <3>1. h = k /\ k - h + 1 = 1
      BY <1>1, <1>4
    <3> QED
      BY <1>2, <3>1
  <2>2. 1 \in 1 .. Len(a) + 1 /\ k \in 1 - 1 .. Len(a) /\ Len(a) \in k .. Len(a)
        /\ k + 1 \in 1 .. Len(a) + 1 /\ Len(a) \in (k + 1) - 1 .. Len(a)
    BY <1>1, <1>4
  <2>3. SubSeq(a, k + 1, Len(a)) \in Seq(X) /\ Len(SubSeq(a, k + 1, Len(a))) # 0
    <3>1. /\ SubSeq(a, k + 1, Len(a)) \in Seq(X)
          /\ Len(SubSeq(a, k + 1, Len(a))) = Len(a) - (k + 1) + 1
      BY ONLY <1>1, <2>2, PartIs
    <3> QED
      BY <1>1, <1>4, <3>1
  <2>4. u = rest
    BY <2>1, <2>3, NoLength DEF RaiseUncomplete
  <2>5. SubSeq(a, 1, k) \o SubSeq(a, k + 1, Len(a)) = a
    BY ONLY <1>1, <2>2, ConcatAdjacentSubSeq, SubSeqFull
  <2>6. SubSeq(a \o b, 1, k) = SubSeq(a, 1, k)
    BY ONLY <1>0, <1>1, <1>4, TakeConcat
  <2>7. SubSeq(b, 1, 0) = <<>> /\ a \o <<>> = a
    BY <1>1, SubSeqEmpty, ConcatEmptySeq
  <2>8. b = <<>> \/ b[1].k = 1
    BY <1>0 DEF Whole
  <2>9. Len(b) = 0 \/ b[0 + 1].k = 1
    BY <2>8, EmptySeq
  <2> HIDE DEF rest, u
  <2>10. /\ SubSeq(a \o b, 1, k) \o q.high = a \o SubSeq(b, 1, 0)
         /\ q.low = SubSeq(b, 0 + 1, Len(b)) /\ q.high \in Seq(X)
    <3>1. q.high = SubSeq(a, k + 1, Len(a)) /\ q.low = SubSeq(b, 1, Len(b))
      BY ONLY <1>3, <2>1, <2>4, Zenon
    <3>2. SubSeq(a \o b, 1, k) \o q.high = a /\ a \o SubSeq(b, 1, 0) = a
      BY ONLY <3>1, <2>5, <2>6, <2>7, Zenon
    <3>3. 0 + 1 = 1
      OBVIOUS
    <3> QED
      BY ONLY <2>3, <3>1, <3>2, <3>3, Zenon
  <2>11. 0 \in 0 .. Len(b)
    BY <1>1
  <2> QED
    BY <2>9, <2>10, <2>11
<1>5. CASE k >= Len(a)
  <2> DEFINE i == k - Len(a)
  <2>1. rest.high = <<>> /\ rest.low = SubSeq(b, i + 1, Len(b))
    <3>1. h = Len(a) /\ Len(a) < h + 1
      BY <1>1, <1>5
    <3>2. SubSeq(a, h + 1, Len(a)) = <<>>
      <4>1. h + 1 \in Int /\ Len(a) \in Int /\ Len(a) < h + 1
        BY <1>1, <3>1
      <4> HIDE DEF h
      <4> QED
        BY ONLY <4>1, SubSeqEmpty
    <3> QED
      BY <1>2, <3>1, <3>2
  <2>2. SubSeq(a \o b, 1, k) = a \o SubSeq(b, 1, i)
    BY ONLY <1>0, <1>1, <1>5, TakeConcat
  <2>3. i \in 0 .. Len(b) /\ i \in Nat
    BY ONLY <1>1, <1>5 DEF i
  <2> HIDE DEF i
  <2>4. SubSeq(b, 1, i) \in Seq(X)
    <3>1. 1 \in 1 .. Len(b) + 1 /\ i \in 1 - 1 .. Len(b)
      BY <1>1, <2>3
    <3> QED
      BY ONLY <1>1, <3>1, PartIs
  <2>5. CASE i = Len(b)
    <3>1. SubSeq(b, i + 1, Len(b)) = <<>>
      BY <1>1, <2>5, SubSeqEmpty
    <3>2. q.high = <<>> /\ q.low = SubSeq(b, i + 1, Len(b))
      BY <1>3, <2>1, <3>1 DEF RaiseUncomplete
    <3>3. a \o SubSeq(b, 1, i) \in Seq(X)
      BY <1>1, <2>4, ConcatProperties
    <3>4. SubSeq(a \o b, 1, k) \o q.high = a \o SubSeq(b, 1, i)
      BY <2>2, <3>2, <3>3, ConcatEmptySeq
    <3> QED
      BY <2>3, <2>5, <3>2, <3>4, EmptySeq
  <2>6. CASE i # Len(b)
    <3> DEFINE c == SubSeq(b, i + 1, Len(b))
               x == (Units + 1 - b[i + 1].k) % Units
               j == i + x
    <3>1. /\ i \in 0 .. Len(b) - 1 /\ i + 1 \in 1 .. Len(b) /\ Len(b) \in i + 1 .. Len(b)
          /\ i + 1 \in 1 .. Len(b) + 1 /\ Len(b) \in (i + 1) - 1 .. Len(b)
      BY <1>1, <2>3, <2>6
    <3>2. Head(c) = b[i + 1]
      BY ONLY <1>1, <3>1, HeadTailOfSubSeq
    <3>3. c \in Seq(X) /\ Len(c) = Len(b) - i /\ c # <<>>
      <4>1. c \in Seq(X) /\ Len(c) = Len(b) - (i + 1) + 1
        BY ONLY <1>1, <3>1, PartIs
      <4>2. Len(b) - (i + 1) + 1 = Len(b) - i /\ Len(b) - i # 0
        BY <1>1, <2>3, <2>6
      <4>3. Len(c) # 0
        BY <4>1, <4>2
      <4> QED
        BY <4>1, <4>2, <4>3, EmptySeq
    <3>4. x \in Nat /\ j <= Len(b) /\ (j = Len(b) \/ b[j + 1].k = 1)
      BY <1>0, <3>1, NextStart
    <3> HIDE DEF x
    <3>5. u.high = SubSeq(c, 1, x) /\ u.low = SubSeq(c, x + 1, Len(c))
      <4>1. (Units + 1 - Head(rest.low).k) % Units = x
        BY <2>1, <3>2 DEF x
      <4>2. rest.high = <<>> /\ rest.low = c
        BY <2>1
      <4> HIDE DEF c, rest
      <4>3. rest.low # <<>>
        BY <3>3, <4>2
      <4>4. u = [rest EXCEPT !.high = SubSeq(rest.low, 1, x),
                             !.low = SubSeq(rest.low, x + 1, Len(rest.low))]
        BY <4>1, <4>2, <4>3 DEF RaiseUncomplete
      <4> HIDE DEF u
      <4> QED
        BY <1>2, <4>2, <4>4 DEF IsSlot
    <3>6. i \in 0 .. Len(b) /\ x \in 0 .. Len(b) - i /\ i + x + 1 = j + 1 /\ j \in 0 .. Len(b)
      BY <1>1, <2>3, <3>4
    <3>7. u.high = SubSeq(b, i + 1, j) /\ u.low = SubSeq(b, j + 1, Len(b))
      <4>1. /\ SubSeq(c, 1, x) = SubSeq(b, i + 1, i + x)
            /\ SubSeq(c, x + 1, Len(c)) = SubSeq(b, i + x + 1, Len(b))
        BY ONLY <1>1, <3>6, PartOfPart DEF c
      <4> QED
        BY <3>5, <3>6, <4>1
    <3>8. SubSeq(b, 1, i) \o SubSeq(b, i + 1, j) = SubSeq(b, 1, j)
      <4>1. 1 \in 1 .. Len(b) + 1 /\ i \in 1 - 1 .. Len(b) /\ j \in i .. Len(b)
        BY <1>1, <2>3, <3>4
      <4> HIDE DEF j
      <4> QED
        BY ONLY <1>1, <4>1, ConcatAdjacentSubSeq
    <3>9. SubSeq(b, i + 1, j) \in Seq(X)
      <4>1. i + 1 \in 1 .. Len(b) + 1 /\ j \in (i + 1) - 1 .. Len(b)
        BY <1>1, <2>3, <3>4
      <4> HIDE DEF j
      <4> QED
        BY ONLY <1>1, <4>1, PartIs
    <3>10. (a \o SubSeq(b, 1, i)) \o SubSeq(b, i + 1, j) = a \o SubSeq(b, 1, j)
      <4>1. (a \o SubSeq(b, 1, i)) \o SubSeq(b, i + 1, j)
                = a \o (SubSeq(b, 1, i) \o SubSeq(b, i + 1, j))
        <5> DEFINE y == SubSeq(b, 1, i)
                   z == SubSeq(b, i + 1, j)
        <5>1. a \in Seq(X) /\ y \in Seq(X) /\ z \in Seq(X)
          BY <1>1, <2>4, <3>9
        <5> HIDE DEF y, z
        <5>2. (a \o y) \o z = a \o (y \o z)
          BY ONLY <5>1, ConcatAssociative
        <5> QED
          BY <5>2 DEF y, z
      <4> QED
        BY <3>8, <4>1
    <3>11. SubSeq(a \o b, 1, k) \o q.high = a \o SubSeq(b, 1, j)
      BY <1>3, <2>2, <3>7, <3>10
    <3>12. q.low = SubSeq(b, j + 1, Len(b)) /\ q.high \in Seq(X)
      BY <1>3, <3>7, <3>9
    <3> HIDE DEF j
    <3> QED
      BY <3>4, <3>6, <3>11, <3>12
  <2> QED
    BY <2>5, <2>6
<1>6. k < Len(a) \/ k >= Len(a)
  BY ONLY <1>1
<1> QED
  BY <1>4, <1>5, <1>6

(* How much of a socket may go out, and what goes out.                     *)
Room(r) == 0 .. Len(r.high) + Len(r.low)
Out(r, k) == SubSeq(r.high \o r.low, 1, k)

(* The socket thread writes k units, after which v is on the wire.         *)
Wrote(w, r, k, v, q) ==
    k \in Room(Merged(r)) /\ v = w \o Out(Merged(r), k) /\ q = Drain(Merged(r), k)

(* What goes out in a write of the socket thread is what was next, whole   *)
(* messages after it, and the rest is next.                                *)
LEMMA FlowDrain ==
    ASSUME use \in Uses, NEW w \in Seq(Unit), NEW r, IsSlot(r), Lists(r), FlowOK(w, r),
           NEW k, NEW v, NEW q, Wrote(w, r, k, v, q)
    PROVE  /\ FlowOK(v, q) /\ v \in Seq(Unit) /\ Lists(q) /\ q.dw = <<>>
           /\ \A t, x : Below(Flow(w, r), t, x) /\ Below(r.low, t, x)
                            => Below(Flow(v, q), t, x) /\ Below(q.low, t, x)
<1> DEFINE p == Merged(r)
           a == p.high
           b == p.low
           y == SubSeq(a \o b, 1, k)
           z == q.high
<1>0. k \in 0 .. Len(a) + Len(b) /\ v = w \o y
  BY DEF Wrote, Room, Out
<1>w. /\ q = Drain(p, k)
      /\ r.dw \in Seq(Unit) /\ r.high \in Seq(Unit) /\ r.low \in Seq(Unit)
  BY DEF Wrote, Lists
<1>1. IsSlot(p) /\ p.dw = <<>> /\ a = r.dw \o r.high /\ b = r.low
  <2>1. p.high = r.dw \o r.high /\ p.low = r.low
    BY DEF Merged, IsSlot
  <2> QED
    BY <2>1, MergedType
<1>2. a \in Seq(Unit) /\ b \in Seq(Unit) /\ Whole(b) /\ LowOnly(b)
  BY <1>w, <1>1, ConcatProperties DEF FlowOK
<1> HIDE DEF p
<1>3. Len(a) \in Nat /\ Len(b) \in Nat /\ k \in Nat
  <2>1. Len(a) \in Nat /\ Len(b) \in Nat
    BY <1>2, LenProperties
  <2>2. k \in 0 .. Len(a) + Len(b)
    BY <1>0
  <2> HIDE DEF a, b
  <2> QED
    BY ONLY <2>1, <2>2
<1>4. q.dw = <<>>
  BY <1>w, <1>1, <1>3, DrainType
<1>5. PICK j \in 0 .. Len(b) :
          /\ j = Len(b) \/ b[j + 1].k = 1
          /\ y \o z = a \o SubSeq(b, 1, j)
          /\ q.low = SubSeq(b, j + 1, Len(b)) /\ z \in Seq(Unit)
  BY <1>0, <1>w, <1>1, <1>2, DrainSplits
<1> DEFINE c == SubSeq(b, 1, j)
           d == SubSeq(b, j + 1, Len(b))
<1>6. /\ 1 \in 1 .. Len(b) + 1 /\ j \in 1 - 1 .. Len(b)
      /\ j + 1 \in 1 .. Len(b) + 1 /\ Len(b) \in (j + 1) - 1 .. Len(b)
  <2> HIDE DEF b
  <2> QED
    BY ONLY <1>3, j \in 0 .. Len(b)
<1>7. c \in Seq(Unit) /\ d \in Seq(Unit)
  BY ONLY <1>2, <1>6, PartIs
<1>8. y \in Seq(Unit)
  <2>1. a \o b \in Seq(Unit) /\ Len(a \o b) = Len(a) + Len(b)
    BY <1>2, ConcatProperties
  <2>2. k \in 0 .. Len(a) + Len(b)
    BY <1>0
  <2> HIDE DEF a, b
  <2>3. 1 \in 1 .. Len(a \o b) + 1 /\ k \in 1 - 1 .. Len(a \o b)
    BY ONLY <1>3, <2>1, <2>2
  <2> QED
    BY ONLY <2>1, <2>3, PartIs
<1>9. w \in Seq(Unit) /\ Flow(w, r) = w \o a /\ Flow(v, q) = (w \o y) \o (<<>> \o z) /\ v = w \o y
      /\ Whole(Flow(w, r)) /\ Ordered(Flow(w, r)) /\ q.low = d
  BY <1>0, <1>1, <1>4, <1>5 DEF Flow, FlowOK
<1> HIDE DEF a, b, c, d, y, z
<1>10. Flow(v, q) = (w \o a) \o c
  <2>1. <<>> \o z = z
    BY <1>5, ConcatEmptySeq
  <2>2. (w \o y) \o z = w \o (y \o z)
    <3>1. w \in Seq(Unit) /\ y \in Seq(Unit) /\ z \in Seq(Unit)
      BY <1>5, <1>8
    <3> QED
      BY ONLY <3>1, ConcatAssociative
  <2>3. (w \o a) \o c = w \o (a \o c)
    <3>1. w \in Seq(Unit) /\ a \in Seq(Unit) /\ c \in Seq(Unit)
      BY <1>2, <1>7
    <3> QED
      BY ONLY <3>1, ConcatAssociative
  <2>4. y \o z = a \o c
    BY <1>5 DEF c
  <2> QED
    BY ONLY <1>9, <2>1, <2>2, <2>3, <2>4, Zenon
<1>11. v \in Seq(Unit) /\ w \o a \in Seq(Unit)
  BY <1>2, <1>8, <1>9, ConcatProperties
<1>12. /\ \A e \in Seq(Unit) : e \in Seq(Parcel)
  BY ParcelType
<1>13. Whole(c) /\ Whole(d)
  BY <1>2, <1>5, SplitWhole DEF c, d
<1>14. /\ LowOnly(c) /\ LowOnly(d)
       /\ \A t, x : Below(b, t, x) => Below(c, t, x) /\ Below(d, t, x)
  <2>1. b \in Seq(Parcel)
    BY <1>2, <1>12
  <2>2. LowOnly(c) /\ \A t, x : Below(b, t, x) => Below(c, t, x)
    BY ONLY <1>2, <1>6, <2>1, PartOrder DEF c
  <2>3. LowOnly(d) /\ \A t, x : Below(b, t, x) => Below(d, t, x)
    BY ONLY <1>2, <1>6, <2>1, PartOrder DEF d
  <2> QED
    BY <2>2, <2>3
<1>15. w \o a \in Seq(Parcel) /\ c \in Seq(Parcel)
  BY <1>7, <1>11, <1>12
<1>16. Whole((w \o a) \o c) /\ Ordered((w \o a) \o c)
  <2>1. Whole(w \o a) /\ Ordered(w \o a)
    BY <1>9
  <2> QED
    BY <1>13, <1>14, <1>15, <2>1, WholeConcat, LowOrder
<1>17. \A t, x : Below((w \o a) \o c, t, x) <=> Below(w \o a, t, x) /\ Below(c, t, x)
  BY <1>15, ConcatOrder
<1>18. FlowOK(v, q)
  BY <1>9, <1>10, <1>13, <1>14, <1>16 DEF FlowOK
<1>19. r.low = b
  BY <1>1 DEF b
<1>20. ASSUME NEW t, NEW x, Below(Flow(w, r), t, x), Below(r.low, t, x)
       PROVE  Below(Flow(v, q), t, x) /\ Below(q.low, t, x)
  <2>1. Below(w \o a, t, x) /\ Below(b, t, x)
    BY <1>9, <1>19, <1>20
  <2> QED
    BY <1>9, <1>10, <1>14, <1>17, <2>1
<1> QED
  BY <1>4, <1>5, <1>7, <1>9, <1>11, <1>18, <1>20, <<>> \in Seq(Unit) DEF z, Lists

-----------------------------------------------------------------------------
(* How messages go on in a step: a worker keeps what it has, is done, has  *)
(* a new message or a new slot; a command was in the pipe before, or was a *)
(* worker's, or asks for something else.                                   *)
Moved(u) ==
    \/ /\ th'[u].m = th[u].m /\ th'[u].id = th[u].id /\ th'[u].c = th[u].c
       /\ Owns(u)' => Owns(u)
    \/ th'[u] = Idle
    \/ /\ th'[u].m = <<u, sent + 1, th'[u].c>> /\ th'[u].c \in {"D", "P"}
       /\ sent' = sent + 1
    \/ th'[u].m = None /\ th'[u].id = alloc_id + 1
Carried(i) ==
    \/ \E j \in DOMAIN pipe : pipe'[i] = pipe[j]
    \/ \E u \in Sender : /\ th[u].pc = "pipe" /\ pipe'[i].m = th[u].m
                         /\ pipe'[i].id = th[u].id /\ pipe'[i].c = th[u].c
    \/ pipe'[i].m = None /\ pipe'[i].c \in {"K", "S"}
Onward ==
    /\ sent' \in {sent, sent + 1} /\ alloc_id' \in {alloc_id, alloc_id + 1}
    /\ \A u \in Sender : Moved(u)
    /\ \A i \in DOMAIN pipe' : Carried(i)

(* What is in a socket stays older than what is under way to it.           *)
LEMMA OlderStep ==
    ASSUME Shapes, Shapes', Numbers, Onward, NEW q \in Seq(Parcel), NEW id,
           Older(q, id, pipe, th, sent)
    PROVE  Older(q, id, pipe', th', sent')
<1>1. sent \in Nat /\ sent' \in Nat /\ sent <= sent'
  BY DEF Shapes, Onward
<1>2. \A i \in 1 .. Len(q) : q[i].m[2] \in Nat
  BY UnitParts, ElementOfSeq
<1>3. \A t \in Sender : Below(q, t, sent + 1)
  BY DEF Older
<1>4. \A t \in Sender : Below(q, t, sent' + 1)
  <2>1. ASSUME NEW t \in Sender, NEW i \in 1 .. Len(q), q[i].m[1] = t
        PROVE  q[i].m[2] < sent' + 1
    <3>1. q[i].m[2] < sent + 1 /\ q[i].m[2] \in Nat
      BY <1>2, <1>3, <2>1 DEF Below
    <3> QED
      BY <1>1, <3>1
  <2> QED
    BY <2>1 DEF Below
<1>5. ASSUME NEW i \in InPipe(pipe', id) PROVE Below(q, pipe'[i].m[1], pipe'[i].m[2])
  <2>1. i \in DOMAIN pipe' /\ pipe'[i].m # None /\ pipe'[i].id = id
    <3>1. DOMAIN pipe' = 1 .. Len(pipe')
      BY LenProperties DEF Shapes
    <3> QED
      BY <3>1 DEF InPipe
  <2>2. CASE \E j \in DOMAIN pipe : pipe'[i] = pipe[j]
    <3>1. PICK j \in DOMAIN pipe : pipe'[i] = pipe[j]
      BY <2>2
    <3>2. j \in InPipe(pipe, id)
      BY <2>1, <3>1, PipeType DEF InPipe
    <3> QED
      BY <3>1, <3>2 DEF Older
  <2>3. CASE \E u \in Sender : pipe'[i].m = th[u].m /\ pipe'[i].id = th[u].id
    <3>1. PICK u \in Sender : pipe'[i].m = th[u].m /\ pipe'[i].id = th[u].id
      BY <2>3
    <3>2. th[u].m[1] = u /\ Below(q, u, th[u].m[2])
      BY <2>1, <3>1 DEF Older, Numbers
    <3> QED
      BY <3>1, <3>2
  <2> QED
    BY <2>1, <2>2, <2>3 DEF Onward, Carried
<1>6. ASSUME NEW t \in Sender, th'[t].m # None, th'[t].id = id PROVE Below(q, t, th'[t].m[2])
  <2>1. CASE th'[t].m = th[t].m /\ th'[t].id = th[t].id
    BY <1>6, <2>1 DEF Older
  <2>2. CASE th'[t].m = <<t, sent + 1, th'[t].c>>
    BY <1>3, <2>2
  <2> QED
    BY <1>6, <2>1, <2>2 DEF Onward, Moved, Idle
<1> QED
  BY <1>4, <1>5, <1>6 DEF Older

(* A socket with the same buffers is as sound as before.                   *)
LEMMA SoundSame ==
    ASSUME NEW w, NEW r, NEW p, NEW f, NEW n, Sound(w, r, p, f, n),
           NEW q, q.id = r.id, q.high = r.high, q.low = r.low, q.dw = r.dw
    PROVE  Sound(w, q, p, f, n)
BY DEF Sound, FlowOK, Flow

(* What is in a socket is made of units.                                   *)
LEMMA SoundType ==
    ASSUME NEW w, NEW r, NEW p, NEW f, NEW n, Sound(w, r, p, f, n)
    PROVE  Flow(w, r) \in Seq(Parcel) /\ r.low \in Seq(Parcel)
BY DEF Sound, FlowOK, Whole, Ended

(* A step that leaves the buffers leaves the socket sound.                 *)
LEMMA SoundStep ==
    ASSUME Shapes, Shapes', Numbers, Onward, NEW w, NEW r, Sound(w, r, pipe, th, sent)
    PROVE  Sound(w, r, pipe', th', sent')
<1>1. Flow(w, r) \in Seq(Parcel) /\ r.low \in Seq(Parcel)
  BY SoundType
<1>2. /\ Older(Flow(w, r), r.id, pipe, th, sent) /\ Older(r.low, r.id, pipe, th, sent)
      /\ FlowOK(w, r)
  BY DEF Sound
<1>3. Older(Flow(w, r), r.id, pipe', th', sent') /\ Older(r.low, r.id, pipe', th', sent')
  BY <1>1, <1>2, OlderStep
<1> QED
  BY <1>2, <1>3 DEF Sound

(* A worker that writes has nothing in the pipe and puts nothing there.    *)
LEMMA PipeOthers ==
    ASSUME Shapes, Shapes', Numbers, Onward, NEW t \in Sender, th[t].pc = "write", NEW id,
           \A i \in InPipe(pipe, id) : pipe[i].m[1] # t
    PROVE  \A i \in InPipe(pipe', id) : pipe'[i].m[1] # t
<1> SUFFICES ASSUME NEW i \in InPipe(pipe', id) PROVE pipe'[i].m[1] # t
  OBVIOUS
<1>1. i \in DOMAIN pipe' /\ pipe'[i].m # None /\ pipe'[i].id = id
  <2>1. DOMAIN pipe' = 1 .. Len(pipe')
    BY LenProperties DEF Shapes
  <2> QED
    BY <2>1 DEF InPipe
<1>2. CASE \E j \in DOMAIN pipe : pipe'[i] = pipe[j]
  <2>1. PICK j \in DOMAIN pipe : pipe'[i] = pipe[j]
    BY <1>2
  <2>2. j \in InPipe(pipe, id)
    BY <1>1, <2>1, PipeType DEF InPipe
  <2> QED
    BY <2>1, <2>2
<1>3. CASE \E u \in Sender : th[u].pc = "pipe" /\ pipe'[i].m = th[u].m
  <2>1. PICK u \in Sender : th[u].pc = "pipe" /\ pipe'[i].m = th[u].m
    BY <1>3
  <2>2. th[u].m[1] = u /\ u # t
    BY <1>1, <2>1 DEF Numbers
  <2> QED
    BY <2>1, <2>2
<1> QED
  BY <1>1, <1>2, <1>3 DEF Onward, Carried

(* A socket that is not open yet was not before.                           *)
LEMMA UnopenedStep ==
    ASSUME Shapes, Shapes', Onward, NEW id \in Id, Unopened(id)'
    PROVE  Unopened(id)
<1>1. alloc_id \in Nat /\ alloc_id <= alloc_id' /\ alloc_id' \in Nat /\ id \in Nat
  BY DEF Shapes, Onward, Id
<1>2. CASE id > alloc_id'
  BY <1>1, <1>2 DEF Unopened
<1>3. CASE \E t \in Sender : Owns(t)' /\ th'[t].id = id
  <2>1. PICK t \in Sender : Owns(t)' /\ th'[t].id = id
    BY <1>3
  <2>2. th'[t].m = None /\ th'[t].pc # "idle"
    BY <2>1 DEF Owns, Opens, Shapes, ThreadData
  <2>3. CASE Owns(t) /\ th'[t].id = th[t].id
    BY <2>1, <2>3 DEF Unopened
  <2>4. CASE th'[t].id = alloc_id + 1
    BY <1>1, <2>1, <2>4 DEF Unopened
  <2>5. th'[t] # Idle
    BY <2>2 DEF Idle
  <2>6. th'[t].c \notin {"D", "P"}
    BY <2>1 DEF Shapes, Owns, Opens, ThreadData
  <2>7. Moved(t)
    BY DEF Onward
  <2> QED
    BY <2>1, <2>3, <2>4, <2>5, <2>6, <2>7 DEF Moved
<1>4. CASE \E i \in DOMAIN pipe' : Opening(i)' /\ pipe'[i].id = id
  <2>1. PICK i \in DOMAIN pipe' : Opening(i)' /\ pipe'[i].id = id
    BY <1>4
  <2>2. Carried(i) /\ pipe'[i].c \in {"O", "L"}
    BY <2>1 DEF Onward, Opening
  <2>3. CASE \E j \in DOMAIN pipe : pipe'[i] = pipe[j]
    BY <2>1, <2>2, <2>3 DEF Unopened, Opening
  <2>4. CASE \E u \in Sender : /\ th[u].pc = "pipe" /\ pipe'[i].id = th[u].id
                               /\ pipe'[i].c = th[u].c
    <3>1. PICK u \in Sender : /\ th[u].pc = "pipe" /\ pipe'[i].id = th[u].id
                              /\ pipe'[i].c = th[u].c
      BY <2>4
    <3>2. ThreadData(th[u]) /\ th[u].c \in {"O", "L"}
      BY <2>2, <3>1 DEF Shapes
    <3>3. Owns(u) /\ th[u].id = id
      BY <2>1, <3>1, <3>2 DEF ThreadData, Owns, Sends
    <3> QED
      BY <3>3 DEF Unopened
  <2> QED
    BY <2>2, <2>3, <2>4 DEF Carried
<1> QED
  BY <1>2, <1>3, <1>4 DEF Unopened

(* A set that is numbered has as many numbers as members.                  *)
LEMMA ImageCard ==
    ASSUME NEW P, IsFiniteSet(P), NEW f, \A x, y \in P : f[x] = f[y] => x = y
    PROVE  LET T == {f[x] : x \in P} IN IsFiniteSet(T) /\ Cardinality(T) = Cardinality(P)
<1> DEFINE T == {f[x] : x \in P}
           g == [x \in P |-> f[x]]
<1>1. g \in [P -> T]
  OBVIOUS
<1>2. \A x, y \in P : g[x] = g[y] => x = y
  OBVIOUS
<1>3. \A y \in T : \E x \in P : g[x] = y
  OBVIOUS
<1>4. ExistsBijection(P, T)
  BY <1>1, <1>2, <1>3 DEF ExistsBijection, Bijection, Injection, Surjection, IsInjective
<1> QED
  BY <1>4, FS_Bijection

(* No more messages are under way to a socket than have been sent.         *)
LEMMA CountBound ==
    ASSUME Shapes, Numbers, NEW id
    PROVE  Cardinality(InPipe(pipe, id)) + Cardinality(AtPipe(th, id)) <= sent
<1> DEFINE P == InPipe(pipe, id)
           Q == AtPipe(th, id)
           f == [i \in P |-> pipe[i].m[2]]
           g == [t \in Q |-> th[t].m[2]]
           A == {f[i] : i \in P}
           B == {g[t] : t \in Q}
<1>1. sent \in Nat /\ use.msgs \in Nat
  BY SlotsType DEF Shapes
<1>2. \A i \in P : i \in DOMAIN pipe /\ i \in Nat /\ pipe[i].m # None /\ pipe[i] \in CmdRecord
  BY PipeType DEF InPipe
<1>3. \A t \in Q : t \in Sender /\ th[t].m # None /\ th[t] \in ThRecord
  BY ThType DEF AtPipe
<1>4. \A m \in Message : m[2] \in Nat /\ 1 <= m[2]
  BY <1>1 DEF Message
<1>5. \A i \in P : pipe[i].m[2] \in Nat /\ 1 <= pipe[i].m[2] /\ pipe[i].m[2] <= sent
  BY <1>2, <1>4 DEF CmdRecord, Numbers
<1>6. \A t \in Q : th[t].m[2] \in Nat /\ 1 <= th[t].m[2] /\ th[t].m[2] <= sent
  BY <1>3, <1>4 DEF ThRecord, Numbers
<1>7. IsFiniteSet(P) /\ IsFiniteSet(Q) /\ Cardinality(P) \in Nat /\ Cardinality(Q) \in Nat
  BY CountsFinite
<1>8. ASSUME NEW i \in P, NEW j \in P, f[i] = f[j] PROVE i = j
  <2>1. pipe[i].m[2] = pipe[j].m[2]
    BY <1>8
  <2>2. ~(i < j) /\ ~(j < i)
    BY <1>2, <2>1 DEF Numbers
  <2> QED
    BY <1>2, <2>2
<1>9. ASSUME NEW t \in Q, NEW u \in Q, g[t] = g[u] PROVE t = u
  BY <1>3, <1>9 DEF Numbers
<1>10. IsFiniteSet(A) /\ Cardinality(A) = Cardinality(P)
  <2> HIDE DEF f, P
  <2> QED
    BY <1>7, <1>8, ImageCard
<1>11. IsFiniteSet(B) /\ Cardinality(B) = Cardinality(Q)
  <2> HIDE DEF g, Q
  <2> QED
    BY <1>7, <1>9, ImageCard
<1>12. A \cap B = {}
  <2>1. ASSUME NEW i \in P, NEW t \in Q PROVE f[i] # g[t]
    BY <1>2, <1>3 DEF Numbers
  <2> HIDE DEF f, g, P, Q
  <2> QED
    BY <2>1
<1>13. A \cup B \in SUBSET (1 .. sent)
  <2>1. \A i \in P : f[i] \in 1 .. sent
    BY <1>1, <1>5
  <2>2. \A t \in Q : g[t] \in 1 .. sent
    BY <1>1, <1>6
  <2> HIDE DEF f, g, P, Q
  <2> QED
    BY <2>1, <2>2
<1> HIDE DEF A, B, P, Q
<1>14. IsFiniteSet(1 .. sent) /\ Cardinality(1 .. sent) = sent
  <2>1. Cardinality(1 .. sent) = IF 1 > sent THEN 0 ELSE sent - 1 + 1
    BY <1>1, FS_Interval
  <2> QED
    BY <1>1, <2>1, FS_Interval
<1>15. Cardinality(A \cup B) <= sent
  BY <1>13, <1>14, FS_Subset
<1>16. Cardinality(A \cup B) = Cardinality(A) + Cardinality(B) - 0
  BY <1>10, <1>11, <1>12, FS_Union, FS_EmptySet
<1> QED
  BY <1>7, <1>10, <1>11, <1>15, <1>16 DEF P, Q

(* So the count of a socket is at most the number of messages of a run.    *)
LEMMA CountsBounded ==
    ASSUME Shapes, CountInv, Numbers, sent <= use.msgs,
           \A s \in Slot : ~slot[s].tcp => slot[s].cnt \in 0 .. use.msgs
    PROVE  \A s \in Slot : slot[s].cnt \in 0 .. use.msgs
<1>1. sent \in Nat /\ use.msgs \in Nat
  BY SlotsType DEF Shapes
<1> SUFFICES ASSUME NEW s \in Slot, slot[s].tcp PROVE slot[s].cnt \in 0 .. use.msgs
  OBVIOUS
<1> DEFINE a == Cardinality(InPipe(pipe, slot[s].id))
           b == Cardinality(AtPipe(th, slot[s].id))
<1>2. a \in Nat /\ b \in Nat /\ slot[s].cnt = a + b /\ a + b <= sent
  BY CountsFinite, CountBound DEF CountInv
<1> HIDE DEF a, b
<1> QED
  BY <1>1, <1>2

-----------------------------------------------------------------------------
(* The socket of a slot and what is written to it stay.                    *)
Intact(s) ==
    /\ Served(s) /\ slot'[s].id = slot[s].id /\ slot'[s].high = slot[s].high
    /\ slot'[s].low = slot[s].low /\ slot'[s].dw = slot[s].dw
    /\ wire'[slot[s].id] = wire[slot[s].id]

(* What a step has to show of the sockets it changes, and of the workers   *)
(* that write to them.                                                     *)
LEMMA WStep ==
    ASSUME ~Early, Inv, Inv', use' = use, WInv, Onward, Numbers', Buffers',
           alloc_id' <= use.ids, sent' <= use.msgs,
           \A s \in Slot : slot'[s].tcp \/ slot'[s].cnt = slot[s].cnt,
           \A id \in Id : wire'[id] = wire[id] \/ ~Unopened(id),
           \A s \in Slot : Served(s)' => \/ Intact(s)
                                         \/ Sound(wire'[slot'[s].id], slot'[s], pipe', th', sent'),
           \A t \in Sender, s \in Slot :
               th'[t].pc = "write" /\ s = HashId(th'[t].id) /\ Served(s)' =>
                   \/ th'[t] = th[t] /\ Intact(s)
                   \/ Writing(t, wire'[th'[t].id], slot'[s], pipe', th'[t].id)
    PROVE  WInv'
<1>1. Shapes /\ Shapes' /\ Slot' = Slot /\ Numbers /\ Locked /\ CountInv
  BY SameUse DEF Inv, WInv, Core
<1>2. Flows'
  <2>1. ASSUME NEW s \in Slot, Served(s)' PROVE Sound(wire'[slot'[s].id], slot'[s], pipe', th', sent')
    <3>1. CASE Intact(s)
      <4>1. Sound(wire[slot[s].id], slot[s], pipe, th, sent)
        BY <3>1 DEF Intact, WInv, Flows
      <4>2. Sound(wire[slot[s].id], slot[s], pipe', th', sent')
        BY <1>1, <4>1, SoundStep
      <4>3. Sound(wire[slot[s].id], slot'[s], pipe', th', sent')
        BY <3>1, <4>2, SoundSame DEF Intact
      <4> QED
        BY <3>1, <4>3 DEF Intact
    <3> QED
      BY <2>1, <3>1
  <2> QED
    BY <1>1, <2>1 DEF Flows
<1>3. Writers'
  <2>1. ASSUME NEW t \in Sender, NEW s \in Slot, th'[t].pc = "write", s = HashId(th'[t].id),
               Served(s)'
        PROVE  Writing(t, wire'[th'[t].id], slot'[s], pipe', th'[t].id)
    <3>1. CASE th'[t] = th[t] /\ Intact(s)
      <4>1. s = S(t) /\ th[t].pc = "write" /\ slot[s].id = th[t].id
        BY <1>1, <2>1, <3>1 DEF S, Locked
      <4>2. Writing(t, wire[th[t].id], slot[s], pipe, th[t].id)
        BY <3>1, <4>1 DEF Intact, WInv, Writers
      <4>3. \A i \in InPipe(pipe', th[t].id) : pipe'[i].m[1] # t
        BY <1>1, <4>1, <4>2, PipeOthers DEF Writing
      <4> QED
        BY <3>1, <4>1, <4>2, <4>3 DEF Writing, Intact
    <3> QED
      BY <2>1, <3>1
  <2>2. \A t \in Sender : S(t)' = HashId(th'[t].id) /\ S(t)' \in Slot
    <3>1. \A t \in Sender : th'[t].id \in Nat
      BY <1>1 DEF Shapes, ThRecord
    <3>2. \A t \in Sender : S(t)' = HashId(th'[t].id)
      BY DEF S, HashId
    <3> QED
      BY <1>1, <3>1, <3>2, HashType DEF Shapes
  <2> QED
    BY <2>1, <2>2 DEF Writers, Served, Closing
<1>4. Blank'
  <2>1. ASSUME NEW id \in Id, Unopened(id)' PROVE wire'[id] = <<>>
    <3>1. Unopened(id)
      BY <1>1, <2>1, UnopenedStep
    <3> QED
      BY <3>1 DEF WInv, Blank
  <2> QED
    BY <2>1 DEF Blank
<1>5. Bounds'
  <2>1. \A s \in Slot : slot[s].cnt \in 0 .. use.msgs
    BY <1>1, CountsBounded DEF WInv, Bounds
  <2> QED
    BY <1>1, <2>1 DEF Bounds
<1> QED
  BY <1>2, <1>3, <1>4, <1>5 DEF WInv

(* The numbers stay right when nothing new is sent or put into the pipe.   *)
LEMMA NumbersKept ==
    ASSUME Shapes, use' = use, Numbers, Popped, sent' = sent,
           \A u \in Sender : th'[u].m # None => th'[u].m = th[u].m /\ th'[u].c = th[u].c
    PROVE  Numbers'
<1>1. PICK d \in {0, 1} : \A i \in DOMAIN pipe' : i + d \in DOMAIN pipe /\ pipe'[i] = pipe[i + d]
  BY PoppedProps DEF Shapes
<1>2. DOMAIN pipe' \subseteq Nat
  <2>1. DOMAIN pipe' = 1 .. Len(pipe')
    BY PoppedProps DEF Shapes
  <2> QED
    BY <2>1
<1>3. \A i \in DOMAIN pipe' : pipe'[i].m # None =>
          pipe'[i].m[3] = pipe'[i].c /\ pipe'[i].m[2] <= sent'
  BY <1>1 DEF Numbers
<1>4. \A t \in Sender : th'[t].m # None =>
          th'[t].m[1] = t /\ th'[t].m[3] = th'[t].c /\ th'[t].m[2] <= sent'
  BY DEF Numbers
<1>5. ASSUME NEW i \in DOMAIN pipe', NEW j \in DOMAIN pipe',
             pipe'[i].m # None, pipe'[j].m # None, i < j
      PROVE  /\ pipe'[i].m[2] # pipe'[j].m[2]
             /\ pipe'[i].m[1] = pipe'[j].m[1] => pipe'[i].m[2] < pipe'[j].m[2]
  <2>1. i + d < j + d
    BY <1>2, <1>5
  <2> QED
    BY <1>1, <1>5, <2>1 DEF Numbers
<1>6. \A i \in DOMAIN pipe', t \in Sender : pipe'[i].m # None /\ th'[t].m # None =>
          /\ pipe'[i].m[2] # th'[t].m[2]
          /\ pipe'[i].m[1] = t => pipe'[i].m[2] < th'[t].m[2]
  BY <1>1 DEF Numbers
<1>7. \A t, u \in Sender : t # u /\ th'[t].m # None /\ th'[u].m # None =>
          th'[t].m[2] # th'[u].m[2]
  BY DEF Numbers
<1> QED
  BY <1>3, <1>4, <1>5, <1>6, <1>7 DEF Numbers

(* So it is in every step of the socket thread.                            *)
LEMMA NetOnward ==
    ASSUME Shapes, use' = use, Numbers, Popped, sent' = sent, th' = th,
           alloc_id' \in {alloc_id, alloc_id + 1}
    PROVE  Onward /\ Numbers'
<1>1. PICK d \in {0, 1} : \A i \in DOMAIN pipe' : i + d \in DOMAIN pipe /\ pipe'[i] = pipe[i + d]
  BY PoppedProps DEF Shapes
<1>2. \A i \in DOMAIN pipe' : Carried(i)
  BY <1>1 DEF Carried
<1>3. \A u \in Sender : Moved(u)
  BY DEF Moved, Owns, Opens
<1> QED
  BY <1>2, <1>3, NumbersKept DEF Onward

(* Nobody writes to a slot whose lock is free, and only one worker to a    *)
(* slot.                                                                   *)
LEMMA WriterLock ==
    ASSUME Inv, NEW t \in Sender, th[t].pc = "write", NEW s \in Slot, s = HashId(th[t].id)
    PROVE  /\ slot[s].lock = t /\ slot[s].lock # None /\ slot[s].id = th[t].id
           /\ slot[s].type \in {"connected", "halfclose"} /\ slot[s].tcp
<1>1. slot[s].lock = t /\ slot[s].id = th[t].id /\ slot[s].type \in {"connected", "halfclose"}
  BY DEF Inv, Core, Locked, S
<1> QED
  BY <1>1, NoneAssumption DEF Inv, Core, TagInv

(* A step uses up one number of a socket at most.                          *)
AllocStep == alloc_id' = alloc_id \/ (alloc_id' = alloc_id + 1 /\ alloc_id' <= use.ids)

(* A step of the socket thread that writes nothing: the slot it changes    *)
(* keeps its buffers, or is not served any more.                           *)
LEMMA NetWire ==
    ASSUME ~Early, Inv, Inv', crash = None, use' = use, WInv, Popped, th' = th, sent' = sent,
           wire' = wire, AllocStep,
           NEW s \in Slot, NEW q, IsSlot(q), slot' = [slot EXCEPT ![s] = q], Lists(q),
           \A u \in Slot : Closing(u) => u = s \/ Closing(u)',
           q.tcp \/ q.cnt = slot[s].cnt,
           Served(s)' => Served(s) /\ q.id = slot[s].id /\ q.high = slot[s].high
                                   /\ q.low = slot[s].low /\ q.dw = slot[s].dw
    PROVE  WInv'
<1>1. /\ Shapes /\ Numbers /\ Buffers /\ Slot' = Slot /\ Unit' = Unit
      /\ alloc_id' \in {alloc_id, alloc_id + 1} /\ alloc_id' <= use.ids /\ sent <= use.msgs
  BY SameUse DEF Inv, WInv, Bounds, AllocStep
<1>2. slot'[s] = q /\ \A u \in Slot : u # s => slot'[u] = slot[u]
  BY <1>1, SlotPut
<1>3. Onward /\ Numbers'
  BY <1>1, NetOnward
<1>4. Buffers'
  BY <1>1, <1>2 DEF Buffers, Lists
<1>5. \A u \in Slot : slot'[u].tcp \/ slot'[u].cnt = slot[u].cnt
  BY <1>2
<1>6. ASSUME NEW u \in Slot, Served(u)' PROVE Intact(u)
  <2>1. CASE u = s
    BY <1>2, <1>6, <2>1 DEF Intact
  <2>2. CASE u # s
    BY <1>2, <1>6, <2>2 DEF Intact, Served
  <2> QED
    BY <2>1, <2>2
<1>7. \A t \in Sender, u \in Slot :
          th'[t].pc = "write" /\ u = HashId(th'[t].id) /\ Served(u)' => th'[t] = th[t] /\ Intact(u)
  BY <1>6
<1> QED
  BY <1>1, <1>3, <1>4, <1>5, <1>6, <1>7, WStep

(* A step that changes no slot at all.                                     *)
LEMMA SameWire ==
    ASSUME ~Early, Inv, Inv', crash = None, use' = use, WInv, Popped, th' = th, sent' = sent,
           wire' = wire, AllocStep, slot' = slot, Calm
    PROVE  WInv'
<1>1. 0 \in Slot
  BY ZeroSlot DEF Inv
<1>2. IsSlot(slot[0]) /\ slot' = [slot EXCEPT ![0] = slot[0]]
  BY <1>1 DEF Inv, Shapes
<1>3. Lists(slot[0])
  BY <1>1 DEF WInv, Buffers
<1>4. \A u \in Slot : ~Closing(u)
  BY DEF Closing, Calm
<1>5. Served(0)' => Served(0)
  BY <1>1, <1>4 DEF Served
<1> QED
  BY <1>1, <1>2, <1>3, <1>4, <1>5, NetWire

(* The steps of the socket thread that change no slot.                     *)
LEMMA QuietWire ==
    ASSUME ~Early, Inv, Inv', crash = None, use' = use, WInv,
           \/ ClearEvents \/ CloseGone \/ CloseReserved \/ SomeWait
           \/ NullEvent \/ AcceptNothing \/ StaleEvent \/ ReadData \/ WriteBlocked
    PROVE  WInv'
<1>1. slot' = slot /\ wire' = wire
  BY DEF ClearEvents, CloseGone, CloseReserved, SomeWait, Wait, NullEvent, AcceptNothing,
         StaleEvent, ReadData, WriteBlocked
<1>2. CASE ClearEvents \/ SomeWait
  <2>1. Calm /\ Popped /\ th' = th /\ sent' = sent /\ alloc_id' = alloc_id
    BY <1>2 DEF ClearEvents, SomeWait, Wait, Calm, Popped
  <2> QED
    BY <1>1, <2>1, SameWire DEF AllocStep
<1>3. CASE CloseGone \/ CloseReserved
  <2>1. Command({"K"})
    BY <1>3 DEF CloseGone, CloseReserved
  <2> QED
    BY <1>1, <2>1, CommandProps, SameWire DEF AllocStep
<1>4. CASE NullEvent \/ AcceptNothing \/ StaleEvent \/ ReadData \/ WriteBlocked
  <2>1. AtEvent /\ alloc_id' = alloc_id
    BY <1>4 DEF NullEvent, AcceptNothing, StaleEvent, ReadData, WriteBlocked, Event
  <2>2. Calm /\ Popped /\ th' = th /\ sent' = sent
    BY <2>1 DEF AtEvent, Calm, Popped
  <2> QED
    BY <1>1, <2>1, <2>2, SameWire DEF AllocStep
<1> QED
  BY <1>2, <1>3, <1>4

(* Freed lists are lists.                                                  *)
LEMMA FreedLists ==
    ASSUME NEW r, IsSlot(r), Lists(r)
    PROVE  Lists(Freed(r)) /\ Lists([Freed(Merged(r)) EXCEPT !.lock = Net])
<1>1. <<>> \in Seq(Unit)
  OBVIOUS
<1>2. Lists(Freed(r))
  BY <1>1 DEF Lists, Freed, IsSlot
<1> DEFINE p == Freed(Merged(r))
<1>3. IsSlot(p) /\ p.high = <<>> /\ p.low = <<>> /\ p.dw = <<>>
  BY MergedType, FreedType DEF Freed, Merged, IsSlot
<1> HIDE DEF p
<1>4. Lists([p EXCEPT !.lock = Net])
  BY <1>1, <1>3 DEF Lists, IsSlot
<1> QED
  BY <1>2, <1>4 DEF p

(* The socket thread begins to close a socket: it is not served any more.  *)
LEMMA NoWire ==
    ASSUME ~Early, Inv, Inv', crash = None, use' = use, WInv, Calm, Popped, th' = th,
           sent' = sent, wire' = wire, alloc_id' = alloc_id,
           NEW s \in Slot, net'.s = s, ~Calm', NEW q, IsSlot(q),
           slot' = [slot EXCEPT ![s] = q], Lists(q), q.cnt = slot[s].cnt
    PROVE  WInv'
<1>1. Closing(s)' /\ \A u \in Slot : ~Closing(u)
  BY DEF Closing, Calm
<1>2. ~Served(s)'
  BY <1>1 DEF Served
<1> QED
  BY <1>1, <1>2, NetWire DEF AllocStep

(* The steps that begin to close a socket: it is not served any more.      *)
LEMMA ClosesWire ==
    ASSUME ~Early, Inv, Inv', crash = None, use' = use, WInv,
           \/ StartFails \/ CloseNow \/ CloseSendFails
           \/ ConnectFails \/ ReadCloses \/ WriteFails
    PROVE  WInv'
<1>1. CASE StartFails \/ CloseNow \/ CloseSendFails
  <2>1. PICK c \in {"S", "K"} : Command({c})
    BY <1>1 DEF StartFails, CloseNow, CloseSendFails
  <2>2. Target \in Slot /\ IsSlot(slot[Target])
    BY <2>1, CommandProps
  <2>3. Goto("ctlclose", Target, 0) /\ wire' = wire
    BY <1>1 DEF StartFails, CloseNow, CloseSendFails
  <2>4. net'.s = Target /\ ~Calm'
    BY <2>2, <2>3, GotoType DEF Inv, Calm
  <2>5. Lists(slot[Target])
    BY <2>2 DEF WInv, Buffers
  <2>6. CASE CloseSendFails
    <3> DEFINE v == [Freed(Merged(slot[Target])) EXCEPT !.lock = Net]
    <3>1. slot' = [slot EXCEPT ![Target] = v]
      BY <2>6 DEF CloseSendFails
    <3>2. IsSlot(v) /\ v.cnt = slot[Target].cnt
      <4> DEFINE y == Freed(Merged(slot[Target]))
      <4>1. IsSlot(y) /\ SameSocket(slot[Target], y)
        BY <2>2, MergedType, FreedType DEF SameSocket
      <4> HIDE DEF y
      <4>2. IsSlot([y EXCEPT !.lock = Net]) /\ [y EXCEPT !.lock = Net].cnt = y.cnt
        BY <4>1 DEF IsSlot
      <4> QED
        BY <4>1, <4>2 DEF y, SameSocket
    <3>3. Lists(v)
      BY <2>2, <2>5, FreedLists
    <3> HIDE DEF v
    <3> QED
      BY <2>1, <2>2, <2>3, <2>4, <3>1, <3>2, <3>3, CommandProps, NoWire
  <2>7. CASE StartFails \/ CloseNow
    <3> DEFINE v == Freed(slot[Target])
    <3>1. slot' = [slot EXCEPT ![Target] = v]
      BY <2>7 DEF StartFails, CloseNow
    <3>2. IsSlot(v) /\ v.cnt = slot[Target].cnt
      BY <2>2, FreedType DEF SameSocket
    <3>3. Lists(v)
      BY <2>2, <2>5, FreedLists
    <3> HIDE DEF v
    <3> QED
      BY <2>1, <2>2, <2>3, <2>4, <3>1, <3>2, <3>3, CommandProps, NoWire
  <2> QED
    BY <1>1, <2>6, <2>7
<1>2. CASE ConnectFails \/ ReadCloses \/ WriteFails
  <2>1. Event({"connecting"} \cup Open) /\ alloc_id' = alloc_id
    BY <1>2 DEF ConnectFails, ReadCloses, WriteFails, Event
  <2>2. E.s \in Slot /\ IsSlot(slot[E.s])
    BY <2>1, EventProps
  <2>3. CloseOnEvent(E.s) /\ wire' = wire
    BY <1>2 DEF ConnectFails, ReadCloses, WriteFails
  <2>4. net'.s = E.s /\ ~Calm'
    BY <2>1, <2>2, <2>3, EventProps, CloseOnEventType DEF Inv
  <2>5. Lists(slot[E.s])
    BY <2>2 DEF WInv, Buffers
  <2>6. CASE WriteFails
    <3> DEFINE v == [Freed(Merged(slot[E.s])) EXCEPT !.lock = Net]
    <3>1. slot' = [slot EXCEPT ![E.s] = v]
      BY <2>6 DEF WriteFails
    <3>2. IsSlot(v) /\ v.cnt = slot[E.s].cnt
      <4> DEFINE y == Freed(Merged(slot[E.s]))
      <4>1. IsSlot(y) /\ SameSocket(slot[E.s], y)
        BY <2>2, MergedType, FreedType DEF SameSocket
      <4> HIDE DEF y
      <4>2. IsSlot([y EXCEPT !.lock = Net]) /\ [y EXCEPT !.lock = Net].cnt = y.cnt
        BY <4>1 DEF IsSlot
      <4> QED
        BY <4>1, <4>2 DEF y, SameSocket
    <3>3. Lists(v)
      BY <2>2, <2>5, FreedLists
    <3> HIDE DEF v
    <3> QED
      BY <2>1, <2>2, <2>3, <2>4, <3>1, <3>2, <3>3, EventProps, NoWire
  <2>7. CASE ConnectFails \/ ReadCloses
    <3> DEFINE v == Freed(slot[E.s])
    <3>1. slot' = [slot EXCEPT ![E.s] = v]
      BY <2>7 DEF ConnectFails, ReadCloses
    <3>2. IsSlot(v) /\ v.cnt = slot[E.s].cnt
      BY <2>2, FreedType DEF SameSocket
    <3>3. Lists(v)
      BY <2>2, <2>5, FreedLists
    <3> HIDE DEF v
    <3> QED
      BY <2>1, <2>2, <2>3, <2>4, <3>1, <3>2, <3>3, EventProps, NoWire
  <2> QED
    BY <1>2, <2>6, <2>7
<1> QED
  BY <1>1, <1>2

(* The socket thread changes the state of a socket and not its buffers.    *)
LEMMA StateWire ==
    ASSUME ~Early, Inv, Inv', crash = None, use' = use, WInv, Calm, Popped, th' = th,
           sent' = sent, wire' = wire, alloc_id' = alloc_id,
           NEW s \in Slot, NEW q, IsSlot(q), slot' = [slot EXCEPT ![s] = q],
           q.id = slot[s].id, q.high = slot[s].high, q.low = slot[s].low,
           q.dw = slot[s].dw, q.cnt = slot[s].cnt,
           q.type \notin {"invalid", "reserve"} => slot[s].type \notin {"invalid", "reserve"}
    PROVE  WInv'
<1>1. \A u \in Slot : ~Closing(u)
  BY DEF Closing, Calm
<1>2. slot'[s] = q /\ Lists(q)
  BY SlotPut DEF Inv, WInv, Buffers, Lists
<1>3. Served(s)' => Served(s)
  BY <1>1, <1>2 DEF Served
<1> QED
  BY <1>1, <1>2, <1>3, NetWire DEF AllocStep

(* Commands and events that do so.                                         *)
LEMMA CommandStateWire ==
    ASSUME ~Early, Inv, Inv', crash = None, use' = use, WInv,
           StartSocket \/ CloseLater \/ OpenFails
    PROVE  WInv'
<1> DEFINE r == slot[Target]
<1>1. PICK c \in {"S", "K", "O"} : Command({c})
  BY DEF StartSocket, CloseLater, OpenFails
<1>2. /\ Target \in Slot /\ IsSlot(r) /\ Calm /\ Popped /\ th' = th /\ sent' = sent
      /\ alloc_id' = alloc_id
  BY <1>1, CommandProps
<1>3. slot = [s \in Slot |-> slot[s]] /\ wire' = wire
  BY DEF Inv, Shapes, StartSocket, CloseLater, OpenFails
<1>4. CASE StartSocket /\ Gone
  BY <1>2, <1>3, <1>4, SameWire DEF StartSocket, AllocStep
<1>5. CASE StartSocket /\ ~Gone
  <2> DEFINE p == [r EXCEPT !.ep = @ \/ r.type \in {"paccept", "plisten"}]
             type == CASE r.type = "paccept" -> "connected"
                       [] r.type = "plisten" -> "listen"
                       [] OTHER -> r.type
             q == [p EXCEPT !.type = type]
  <2>1. IsSlot(p) /\ p.type = r.type
    BY <1>2 DEF IsSlot
  <2>2. slot' = [slot EXCEPT ![Target] = q]
    BY <1>2, <1>3, <1>5, <2>1 DEF StartSocket
  <2>3. p.high = r.high /\ p.low = r.low /\ p.dw = r.dw /\ p.id = r.id /\ p.cnt = r.cnt
    BY <1>2 DEF IsSlot
  <2>4. /\ type \in Types
        /\ type \notin {"invalid", "reserve"} => r.type \notin {"invalid", "reserve"}
    BY <1>2 DEF IsSlot, Types
  <2> HIDE DEF p
  <2>5. /\ IsSlot(q) /\ q.type = type
        /\ q.high = p.high /\ q.low = p.low /\ q.dw = p.dw /\ q.id = p.id /\ q.cnt = p.cnt
    BY <2>1, <2>4 DEF IsSlot
  <2> HIDE DEF q, type
  <2> QED
    BY <1>2, <1>3, <2>2, <2>3, <2>4, <2>5, StateWire
<1>6. ASSUME NEW type \in {"halfclose", "invalid"},
             slot' = [slot EXCEPT ![Target].type = type],
             type = "halfclose" => r.type \notin {"invalid", "reserve"}
      PROVE  WInv'
  <2> DEFINE q == [r EXCEPT !.type = type]
  <2>1. slot' = [slot EXCEPT ![Target] = q]
    BY <1>2, <1>3, <1>6
  <2>2. /\ IsSlot(q) /\ q.type = type
        /\ q.high = r.high /\ q.low = r.low /\ q.dw = r.dw /\ q.id = r.id /\ q.cnt = r.cnt
    BY <1>2 DEF IsSlot, Types
  <2> HIDE DEF q
  <2> QED
    BY <1>2, <1>3, <1>6, <2>1, <2>2, StateWire
<1> QED
  BY <1>4, <1>5, <1>6 DEF CloseLater, OpenFails, Live, Gone

(* A socket gets connected.                                                *)
LEMMA ReportConnectWire ==
    ASSUME ~Early, Inv, Inv', crash = None, use' = use, WInv, ReportConnect
    PROVE  WInv'
<1> DEFINE r == slot[E.s]
           q == [r EXCEPT !.type = "connected"]
<1>1. Event({"connecting"}) /\ alloc_id' = alloc_id /\ wire' = wire
  BY DEF ReportConnect
<1>2. /\ E.s \in Slot /\ IsSlot(r) /\ Calm /\ r.type = "connecting"
      /\ th' = th /\ sent' = sent /\ Popped
  BY <1>1, EventProps
<1>3. slot' = [slot EXCEPT ![E.s] = q]
  <2>1. slot = [s \in Slot |-> slot[s]]
    BY DEF Inv, Shapes
  <2> QED
    BY <1>2, <2>1 DEF ReportConnect
<1>4. /\ IsSlot(q) /\ q.type = "connected"
      /\ q.high = r.high /\ q.low = r.low /\ q.dw = r.dw /\ q.id = r.id /\ q.cnt = r.cnt
  BY <1>2 DEF IsSlot, Types
<1> HIDE DEF q
<1> QED
  BY <1>1, <1>2, <1>3, <1>4, StateWire

(* The look at the buffers and giving up the write event write nothing.    *)
LEMMA ConnectUnwatchWire ==
    ASSUME ~Early, Inv, Inv', crash = None, use' = use, WInv, ConnectTest \/ ConnectUnwatch
    PROVE  WInv'
<1> DEFINE r == slot[net.s]
           q == [r EXCEPT !.wr = FALSE]
<1>1. /\ net.s \in Slot /\ IsSlot(r) /\ Calm /\ slot = [s \in Slot |-> slot[s]]
      /\ th' = th /\ sent' = sent /\ Popped /\ alloc_id' = alloc_id /\ wire' = wire
  BY DEF Inv, Shapes, NetRecord, ConnectTest, ConnectUnwatch, Calm, Popped
<1>2. CASE ConnectTest
  BY <1>1, <1>2, SameWire DEF ConnectTest, AllocStep
<1>3. CASE ConnectUnwatch
  <2>1. slot' = [slot EXCEPT ![net.s] = q]
    BY <1>1, <1>3 DEF ConnectUnwatch
  <2>2. /\ IsSlot(q) /\ q.type = r.type
        /\ q.high = r.high /\ q.low = r.low /\ q.dw = r.dw /\ q.id = r.id /\ q.cnt = r.cnt
    BY <1>1 DEF IsSlot
  <2> HIDE DEF q
  <2> QED
    BY <1>1, <2>1, <2>2, StateWire
<1> QED
  BY <1>2, <1>3

(* The slot of a closed socket is given back.                              *)
LEMMA CloseFreedWire ==
    ASSUME ~Early, Inv, Inv', crash = None, use' = use, WInv, CloseFreed
    PROVE  WInv'
<1> DEFINE r == slot[net.s]
           p == [r EXCEPT !.type = "invalid", !.dw = <<>>]
           q == [p EXCEPT !.wr = FALSE, !.ep = FALSE, !.lock = None]
<1>1. PICK s \in Slot : s = net.s /\ IsSlot(slot[s])
  BY DEF Inv, Shapes, NetRecord
<1>2. \A u \in Slot : Closing(u) => u = s
  BY <1>1 DEF Closing
<1>3. slot' = [slot EXCEPT ![s] = q]
  <2>1. slot = [u \in Slot |-> slot[u]]
    BY DEF Inv, Shapes
  <2> QED
    BY <1>1, <2>1 DEF CloseFreed
<1>4. Lists(r)
  BY <1>1 DEF WInv, Buffers
<1>5. /\ IsSlot(p) /\ p.type = "invalid" /\ p.dw = <<>> /\ p.high = r.high /\ p.low = r.low
      /\ p.cnt = r.cnt
  BY <1>1 DEF IsSlot, Types
<1> HIDE DEF p
<1>6. /\ IsSlot(q) /\ q.type = "invalid" /\ q.dw = <<>> /\ q.high = r.high /\ q.low = r.low
      /\ q.cnt = r.cnt
  BY <1>5 DEF IsSlot
<1> HIDE DEF q
<1>7. slot'[s] = q
  BY <1>3, <1>6, SlotPut DEF Inv
<1>8. ~Served(s)'
  BY <1>6, <1>7 DEF Served
<1>9. Lists(q)
  BY <1>4, <1>6 DEF Lists
<1>10. /\ th' = th /\ alloc_id' = alloc_id /\ Popped /\ wire' = wire /\ sent' = sent
  BY DEF CloseFreed, Popped
<1> QED
  BY <1>1, <1>2, <1>3, <1>6, <1>8, <1>9, <1>10, NetWire DEF AllocStep

(* The socket of a slot has one of the numbers of a run, and an open one   *)
(* is not about to be opened.                                              *)
LEMMA LiveId ==
    ASSUME Inv, Bounds, NEW s \in Slot, slot[s].tcp
    PROVE  /\ slot[s].id \in Id /\ HashId(slot[s].id) = s
           /\ slot[s].type \notin {"invalid", "reserve"} => ~Unopened(slot[s].id)
<1> DEFINE id == slot[s].id
<1>1. id \in Nat /\ alloc_id \in Nat /\ id <= alloc_id /\ id # 0 /\ HashId(id) = s
  BY DEF Inv, Shapes, IsSlot, Core, TagInv
<1>2. use.ids \in 1 .. MaxId /\ MaxId \in Nat /\ alloc_id <= use.ids
  BY UseAssumption, ModeAssumption DEF Inv, Shapes, Bounds
<1>3. id \in Id
  BY <1>1, <1>2 DEF Id
<1>4. ASSUME slot[s].type # "reserve" PROVE ~Unopened(id)
  <2>1. ~(id > alloc_id)
    BY <1>1
  <2>2. \A t \in Sender : Owns(t) => th[t].id # id
    BY <1>1, <1>4 DEF Inv, Core, Owned, S
  <2>3. \A i \in DOMAIN pipe : Opening(i) => pipe[i].id # id
    BY <1>1, <1>4 DEF Inv, Core, Owned
  <2> QED
    BY <2>1, <2>2, <2>3 DEF Unopened
<1> QED
  BY <1>1, <1>3, <1>4

(* A step of the socket thread on one slot, and what goes out of it.       *)
LEMMA SlotWire ==
    ASSUME ~Early, Inv, Inv', crash = None, use' = use, WInv, Calm, Popped, th' = th,
           sent' = sent, AllocStep,
           NEW s \in Slot, NEW q, IsSlot(q), slot' = [slot EXCEPT ![s] = q], Lists(q),
           q.tcp \/ q.cnt = slot[s].cnt, wire' \in [Id -> Seq(Unit)],
           \A id \in Id : \/ wire'[id] = wire[id]
                          \/ id = slot[s].id /\ slot[s].type \notin {"invalid", "reserve"},
           Served(s)' => Sound(wire'[q.id], q, pipe', th, sent),
           \A t \in Sender : th[t].pc = "write" /\ s = HashId(th[t].id) /\ Served(s)' =>
               Writing(t, wire'[th[t].id], q, pipe', th[t].id)
    PROVE  WInv'
<1>1. /\ Shapes /\ Numbers /\ Buffers /\ Bounds /\ Slot' = Slot /\ Unit' = Unit /\ TagInv
      /\ alloc_id' \in {alloc_id, alloc_id + 1} /\ alloc_id' <= use.ids /\ sent <= use.msgs
  BY SameUse DEF Inv, WInv, Bounds, AllocStep, Core
<1>2. slot'[s] = q /\ \A u \in Slot : u # s => slot'[u] = slot[u]
  BY <1>1, SlotPut
<1>3. Onward /\ Numbers'
  BY <1>1, NetOnward
<1>4. Buffers'
  BY <1>1, <1>2 DEF Buffers, Lists
<1>5. \A u \in Slot : slot'[u].tcp \/ slot'[u].cnt = slot[u].cnt
  BY <1>2
<1>6. ASSUME NEW id \in Id, wire'[id] # wire[id]
      PROVE  id = slot[s].id /\ HashId(id) = s /\ ~Unopened(id)
  <2>1. id = slot[s].id /\ slot[s].type \notin {"invalid", "reserve"}
    BY <1>6
  <2>2. slot[s].tcp
    BY <1>1, <2>1 DEF TagInv
  <2> QED
    BY <1>1, <2>1, <2>2, LiveId
<1>7. ASSUME NEW u \in Slot, Served(u)', u # s PROVE Intact(u)
  <2>1. Served(u) /\ slot[u].tcp
    BY <1>1, <1>2, <1>7 DEF Served, Calm, Closing, TagInv
  <2>2. slot[u].id \in Id /\ HashId(slot[u].id) = u
    BY <1>1, <2>1, LiveId
  <2>3. wire'[slot[u].id] = wire[slot[u].id]
    BY <1>6, <1>7, <2>2
  <2> QED
    BY <1>2, <1>7, <2>1, <2>3 DEF Intact
<1>8. \A u \in Slot : Served(u)' => \/ Intact(u)
                                    \/ Sound(wire'[slot'[u].id], slot'[u], pipe', th', sent')
  BY <1>2, <1>7
<1>9. \A t \in Sender, u \in Slot :
          th'[t].pc = "write" /\ u = HashId(th'[t].id) /\ Served(u)' =>
              \/ th'[t] = th[t] /\ Intact(u)
              \/ Writing(t, wire'[th'[t].id], slot'[u], pipe', th'[t].id)
  BY <1>2, <1>7
<1>10. \A id \in Id : wire'[id] = wire[id] \/ ~Unopened(id)
  BY <1>6
<1> QED
  BY <1>1, <1>3, <1>4, <1>5, <1>8, <1>9, <1>10, WStep

(* new_fd takes a slot: nothing is in it, nothing has been written to the  *)
(* new socket, and nothing is under way to it.                             *)
LEMMA FillWire ==
    ASSUME ~Early, Inv, Inv', crash = None, Calm, use' = use, WInv, th' = th, sent' = sent,
           Popped, wire' = wire, AllocStep,
           NEW id \in Id, Unopened(id),
           NEW type \in {"connected", "connecting", "paccept", "plisten"}, Fill(id, type),
           slot[HashId(id)].type \in {"invalid", "reserve"}, ~Told(id)
    PROVE  WInv'
<1>1. Shapes /\ use \in Uses /\ KnownInv /\ wire[id] = <<>> /\ id \in Nat
  BY DEF Inv, Shapes, Core, WInv, Blank, Id
<1>2. PICK s \in Slot : s = HashId(id)
  BY <1>1, HashType
<1> DEFINE q == NewFd(slot[s], id, type)
<1>3. IsSlot(slot[s]) /\ Lists(slot[s])
  BY <1>1, <1>2 DEF Shapes, WInv, Buffers
<1>4. slot' = [slot EXCEPT ![s] = q] /\ (crash' = None => slot[s].high = <<>> /\ slot[s].low = <<>>)
  BY <1>2, NoneAssumption DEF Fill, SendBufferEmpty
<1>5. /\ IsSlot(q) /\ q.id = id /\ q.tcp /\ q.dw = <<>> /\ q.high = slot[s].high
      /\ q.low = slot[s].low
  <2>1. NewSocket(slot[s], q, id, type)
    BY <1>1, <1>3, NewFdType
  <2> HIDE DEF q
  <2> QED
    BY <2>1 DEF NewSocket
<1> HIDE DEF q
<1>6. Lists(q)
  <2>1. <<>> \in Seq(Unit)
    OBVIOUS
  <2> QED
    BY <1>3, <1>5, <2>1 DEF Lists
<1>7. ASSUME crash' = None PROVE Sound(wire'[q.id], q, pipe', th, sent)
  <2>1. q.high = <<>> /\ q.low = <<>> /\ q.dw = <<>> /\ wire'[q.id] = <<>>
    BY <1>1, <1>4, <1>5, <1>7
  <2>2. <<>> \o (<<>> \o <<>>) = <<>>
    OBVIOUS
  <2>3. Flow(wire'[q.id], q) = <<>>
    BY <2>1, <2>2 DEF Flow
  <2>4. \A p, f, n : Older(<<>>, id, p, f, n)
    BY DEF Older, Below
  <2> QED
    BY <1>5, <2>1, <2>3, <2>4, WholeEmpty DEF Sound, FlowOK
<1>8. ~\E t \in Sender : th[t].pc = "write" /\ s = HashId(th[t].id)
  BY <1>2, WriterLock
<1>9. wire' \in [Id -> Seq(Unit)]
  BY DEF WInv, Buffers
<1>10. Served(s)' => crash' = None
  BY DEF Served
<1> QED
  BY <1>2, <1>4, <1>5, <1>6, <1>7, <1>8, <1>9, <1>10, SlotWire

(* open_socket and listen_socket.                                          *)
LEMMA OpenWire ==
    ASSUME ~Early, Inv, Inv', crash = None, use' = use, WInv,
           (\E type \in {"connected", "connecting"} : OpenSocket(type)) \/ ListenSocket
    PROVE  WInv'
<1>1. PICK type \in {"connected", "connecting", "plisten"} :
          Command({"O", "L"}) /\ Fill(Head(pipe).id, type) /\ wire' = wire
  BY DEF OpenSocket, ListenSocket, Command
<1>2. /\ Calm /\ Popped /\ th' = th /\ alloc_id' = alloc_id /\ sent' = sent
      /\ Head(pipe).c \in {"O", "L"} /\ Head(pipe) = pipe[1] /\ 1 \in DOMAIN pipe
  BY <1>1, CommandProps
<1>3. PICK id \in Nat : id = Head(pipe).id
  BY <1>1, CommandProps DEF CmdRecord
<1>4. slot[HashId(id)].type = "reserve" /\ id \in 1 .. alloc_id /\ Fresh(Head(pipe))
  BY <1>1, <1>3, HeadOwner DEF Target
<1>5. ~Told(id)
  BY <1>2, <1>3, <1>4 DEF Fresh, Told
<1>6. id \in Id
  <2>1. use.ids \in 1 .. MaxId /\ MaxId \in Nat /\ alloc_id <= use.ids /\ alloc_id \in Nat
    BY UseAssumption, ModeAssumption DEF Inv, Shapes, WInv, Bounds
  <2> QED
    BY <1>4, <2>1 DEF Id
<1>7. Unopened(id)
  BY <1>2, <1>3 DEF Unopened, Opening
<1> QED
  BY <1>1, <1>2, <1>3, <1>4, <1>5, <1>6, <1>7, FillWire DEF AllocStep

(* A connection is accepted, or its number is used up.                     *)
LEMMA ReportAcceptWire ==
    ASSUME ~Early, Inv, Inv', crash = None, use' = use, WInv, ReportAccept
    PROVE  WInv'
<1>1. /\ Event({"listen"}) /\ alloc_id' = alloc_id + 1 /\ alloc_id \in Nat
      /\ alloc_id + 1 <= use.ids /\ wire' = wire
  BY DEF ReportAccept, Inv, Shapes
<1>2. Calm /\ Popped /\ th' = th /\ sent' = sent
  BY <1>1, EventProps
<1>3. PICK id \in Nat : id = alloc_id + 1
  BY <1>1
<1>4. id \in Id
  <2>1. use.ids \in 1 .. MaxId /\ MaxId \in Nat
    BY UseAssumption, ModeAssumption DEF Inv, Shapes
  <2> QED
    BY <1>1, <1>3, <2>1 DEF Id
<1>5. Unopened(id) /\ ~Told(id)
  BY <1>1, <1>3 DEF Unopened, Told, Inv, Shapes
<1>6. CASE slot[HashId(id)].type = "invalid"
  <2>1. Fill(id, "paccept")
    BY <1>3, <1>6 DEF ReportAccept
  <2> QED
    BY <1>1, <1>2, <1>4, <1>5, <1>6, <2>1, FillWire DEF AllocStep
<1>7. CASE slot[HashId(id)].type # "invalid"
  <2>1. slot' = slot
    BY <1>3, <1>7 DEF ReportAccept
  <2> QED
    BY <1>1, <1>2, <2>1, SameWire DEF AllocStep
<1> QED
  BY <1>6, <1>7

-----------------------------------------------------------------------------
(* The socket thread writes: what was next goes out, and nobody else is    *)
(* writing.                                                                *)
LEMMA DrainWire ==
    ASSUME ~Early, Inv, Inv', crash = None, Calm, use' = use, WInv, th' = th, sent' = sent,
           Popped, alloc_id' = alloc_id,
           NEW s \in Slot, slot[s].type \notin {"invalid", "reserve"}, slot[s].lock = None,
           NEW k, NEW v, NEW d, Wrote(wire[slot[s].id], slot[s], k, v, d),
           wire' = [wire EXCEPT ![slot[s].id] = v],
           NEW q, IsSlot(q), slot' = [slot EXCEPT ![s] = q],
           q.id = slot[s].id, q.cnt = slot[s].cnt, q.dw = d.dw,
           \/ q.high = d.high /\ q.low = d.low
           \/ q.high = <<>> /\ q.low = <<>> /\ ~Served(s)'
    PROVE  WInv'
<1> DEFINE id == slot[s].id
           r == slot[s]
           w == wire[id]
<1>1. /\ Shapes /\ Shapes' /\ use \in Uses /\ Numbers /\ Bounds /\ Buffers /\ IsSlot(r)
      /\ Lists(r)
  BY DEF Inv, Shapes, WInv, Buffers
<1>2. id \in Id /\ slot[s].tcp
  BY <1>1, LiveId DEF Inv, Core, TagInv
<1>3. w \in Seq(Unit) /\ wire \in [Id -> Seq(Unit)]
  BY <1>1, <1>2 DEF Buffers
<1>4. Served(s)
  BY DEF Served, Calm, Closing
<1>5. Sound(w, r, pipe, th, sent)
  BY <1>4 DEF WInv, Flows
<1>6. FlowOK(w, r) /\ Older(Flow(w, r), id, pipe, th, sent) /\ Older(r.low, id, pipe, th, sent)
  BY <1>5 DEF Sound
<1>8. wire'[id] = v /\ \A x \in Id : x # id => wire'[x] = wire[x]
  BY <1>2, <1>3
<1>9. /\ FlowOK(v, d) /\ v \in Seq(Unit) /\ Lists(d)
      /\ \A t, x : Below(Flow(w, r), t, x) /\ Below(r.low, t, x)
                       => Below(Flow(v, d), t, x) /\ Below(d.low, t, x)
  BY <1>1, <1>3, <1>6, FlowDrain
<1>10. Older(Flow(v, d), id, pipe, th, sent) /\ Older(d.low, id, pipe, th, sent)
  BY <1>6, <1>9 DEF Older
<1>11. Flow(v, d) \in Seq(Parcel) /\ d.low \in Seq(Parcel)
  BY <1>9 DEF FlowOK, Whole, Ended
<1>12. Onward
  BY <1>1, NetOnward
<1>13. Older(Flow(v, d), id, pipe', th, sent) /\ Older(d.low, id, pipe', th, sent)
  <2>1. Older(Flow(v, d), id, pipe', th', sent') /\ Older(d.low, id, pipe', th', sent')
    BY <1>1, <1>10, <1>11, <1>12, OlderStep
  <2> QED
    BY <2>1
<1>14. Served(s)' => Sound(wire'[q.id], q, pipe', th, sent)
  <2> SUFFICES ASSUME Served(s)' PROVE Sound(wire'[q.id], q, pipe', th, sent)
    OBVIOUS
  <2>1. q.high = d.high /\ q.low = d.low /\ q.dw = d.dw /\ q.id = id /\ wire'[q.id] = v
    BY <1>8
  <2>2. Flow(v, q) = Flow(v, d)
    BY <2>1 DEF Flow
  <2>3. FlowOK(v, q)
    BY <1>9, <2>1, <2>2 DEF FlowOK
  <2> QED
    BY <1>13, <2>1, <2>2, <2>3 DEF Sound
<1>15. Lists(q) /\ wire' \in [Id -> Seq(Unit)]
  <2>1. <<>> \in Seq(Unit)
    OBVIOUS
  <2> QED
    BY <1>3, <1>9, <2>1 DEF Lists
<1>16. ~\E t \in Sender : th[t].pc = "write" /\ s = HashId(th[t].id)
  BY WriterLock
<1> QED
  BY <1>8, <1>14, <1>15, <1>16, SlotWire DEF AllocStep

(* What the kernel may take fits.                                          *)
LEMMA TakenRoom ==
    ASSUME NEW s, NEW r, r = slot[s], IsSlot(r), Lists(r), NEW k \in Taken(s)
    PROVE  k \in Room(Merged(r))
<1> DEFINE p == Merged(r)
           h == Len(p.high)
           l == Len(p.low)
           n == IF r.type \in {"connected", "halfclose"} THEN h + l ELSE 0
<1>1. p.high = r.dw \o r.high /\ p.low = r.low
  BY DEF Merged, IsSlot
<1>2. k \in 0 .. n
  BY DEF Taken
<1> HIDE DEF p
<1>3. h \in Nat /\ l \in Nat
  BY <1>1, ConcatProperties, LenProperties DEF Lists
<1> HIDE DEF h, l
<1>4. n \in Nat /\ n <= h + l
  BY <1>3
<1> HIDE DEF n
<1>5. k \in 0 .. h + l
  BY <1>2, <1>3, <1>4
<1> QED
  BY <1>5 DEF h, l, p, Room

(* A write event.                                                          *)
LEMMA WriteEventWire ==
    ASSUME ~Early, Inv, Inv', crash = None, use' = use, WInv, NEW k \in Taken(E.s), WriteEvent(k)
    PROVE  WInv'
<1>1. Event(Open) /\ alloc_id' = alloc_id /\ slot[E.s].lock = None /\ SendBuffer(E.s, k)
  BY DEF WriteEvent
<1>2. PICK s \in Slot : s = E.s /\ IsSlot(slot[s])
  BY <1>1, EventProps
<1>3. /\ Calm /\ slot[s].type \notin {"invalid", "reserve"}
      /\ th' = th /\ sent' = sent /\ Popped
  BY <1>1, <1>2, EventProps DEF Open
<1> DEFINE p == Merged(slot[s])
           q == Drain(p, k)
           v == wire[slot[s].id] \o Out(p, k)
<1>4. /\ wire' = [wire EXCEPT ![slot[s].id] = v]
      /\ slot' = [slot EXCEPT ![s] = q]
  BY <1>1, <1>2 DEF SendBuffer, Out
<1>5. IsSlot(q) /\ q.id = slot[s].id /\ q.cnt = slot[s].cnt
  <2>1. IsSlot(p) /\ SameSocket(slot[s], p) /\ k \in Nat
    BY <1>2, MergedType, TakenType
  <2> QED
    BY <2>1, DrainType DEF SameSocket
<1>6. Wrote(wire[slot[s].id], slot[s], k, v, q)
  BY <1>2, TakenRoom DEF Wrote, WInv, Buffers
<1> HIDE DEF p, q, v
<1> QED
  BY <1>1, <1>2, <1>3, <1>4, <1>5, <1>6, DrainWire

(* The write within a close command.                                       *)
LEMMA CloseAfterSendWire ==
    ASSUME ~Early, Inv, Inv', crash = None, use' = use, WInv, NEW k \in Taken(Target),
           CloseAfterSend(k)
    PROVE  WInv'
<1>1. Command({"K"}) /\ slot[Target].lock = None /\ slot[Target].type \notin {"invalid", "reserve"}
  BY DEF CloseAfterSend, Live, Gone
<1>2. PICK s \in Slot : s = Target /\ IsSlot(slot[s])
  BY <1>1, CommandProps
<1>3. /\ Calm /\ th' = th /\ sent' = sent /\ Popped /\ alloc_id' = alloc_id /\ k \in Taken(s)
      /\ slot[s].lock = None /\ slot[s].type \notin {"invalid", "reserve"}
  BY <1>1, <1>2, CommandProps
<1> DEFINE r == slot[s]
           p == Merged(r)
           d == Drain(p, k)
           v == wire[r.id] \o Out(p, k)
           closed == \/ d.high = <<>> /\ d.low = <<>> /\ r.type = "halfclose"
                     \/ d.high = <<>> /\ d.low = <<>> /\ d.cnt = 0
                     \/ Head(pipe).sd
           q == IF closed THEN Freed(d) ELSE [d EXCEPT !.type = "halfclose"]
<1>4. /\ wire' = [wire EXCEPT ![r.id] = @ \o SubSeq(r.dw \o r.high \o r.low, 1, k)]
      /\ slot' = [slot EXCEPT ![s] = q] /\ (closed => Goto("ctlclose", s, 0))
  BY <1>2 DEF CloseAfterSend
<1>5. p.high = r.dw \o r.high /\ p.low = r.low
  BY <1>2 DEF Merged, IsSlot
<1>6. wire' = [wire EXCEPT ![r.id] = v]
  BY <1>4, <1>5 DEF Out
<1>7. IsSlot(d) /\ SameSocket(r, d)
  <2>1. IsSlot(p) /\ SameSocket(r, p) /\ k \in Nat
    BY <1>2, MergedType, TakenType
  <2> QED
    BY <2>1, DrainType DEF SameSocket
<1>8. Wrote(wire[r.id], r, k, v, d)
  BY <1>2, <1>3, TakenRoom DEF Wrote, WInv, Buffers
<1>9. CASE closed
  <2>1. ~Served(s)'
    BY <1>4, <1>9, GotoType DEF Inv, Served, Closing
  <2> DEFINE y == Freed(d)
  <2>2. slot' = [slot EXCEPT ![s] = y]
    BY <1>4, <1>9
  <2> HIDE DEF closed, q, p, d, v
  <2>3. /\ IsSlot(y) /\ y.id = r.id /\ y.cnt = r.cnt /\ y.dw = d.dw
        /\ y.high = <<>> /\ y.low = <<>>
    BY <1>7, FreedType DEF Freed, IsSlot, SameSocket
  <2> HIDE DEF y
  <2> QED
    BY <1>3, <1>6, <1>8, <2>1, <2>2, <2>3, DrainWire
<1>10. CASE ~closed
  <2> DEFINE y == [d EXCEPT !.type = "halfclose"]
  <2>1. slot' = [slot EXCEPT ![s] = y]
    BY <1>4, <1>10
  <2> HIDE DEF closed, q, p, d, v
  <2>2. /\ IsSlot(y) /\ y.id = r.id /\ y.cnt = r.cnt /\ y.dw = d.dw
        /\ y.high = d.high /\ y.low = d.low
    BY <1>7 DEF IsSlot, SameSocket, Types
  <2> HIDE DEF y
  <2> QED
    BY <1>3, <1>6, <1>8, <2>1, <2>2, DrainWire
<1> QED
  BY <1>9, <1>10

-----------------------------------------------------------------------------
(* A message is put behind a list: the low one only takes messages of low  *)
(* priority.                                                               *)
Put(r, q, m) ==
    /\ q.id = r.id /\ q.dw = r.dw
    /\ \/ q.high = r.high \o UnitsOf(m) /\ q.low = r.low
       \/ q.high = r.high /\ q.low = r.low \o UnitsOf(m) /\ m[3] = "P"

(* The units of a message are its own.                                     *)
LEMMA UnitsAre ==
    ASSUME NEW m \in Letter
    PROVE  /\ \A t, x : (m[1] = t => m[2] < x) => Below(UnitsOf(m), t, x)
           /\ \A t : m[1] # t => Absent(UnitsOf(m), t)
           /\ m[3] = "P" => LowOnly(UnitsOf(m))
<1>1. Len(UnitsOf(m)) = Units /\ \A i \in 1 .. Units : UnitsOf(m)[i].m = m
  BY WholeUnits
<1> QED
  BY <1>1 DEF Below, Absent, LowOnly

(* A message that is later than what its sender has in the socket may be   *)
(* put behind.                                                             *)
LEMMA FlowPut ==
    ASSUME use \in Uses, NEW w, w \in Seq(Unit), NEW r, Lists(r), NEW q, NEW m \in Message,
           FlowOK(w, r), Below(Flow(w, r), m[1], m[2]), Put(r, q, m)
    PROVE  /\ FlowOK(w, q)
           /\ \A t, x : Below(Flow(w, r), t, x) /\ Below(r.low, t, x)
                            /\ Below(UnitsOf(m), t, x)
                                => Below(Flow(w, q), t, x) /\ Below(q.low, t, x)
           /\ Whole(r.high) => Whole(q.high)
           /\ \A t : Absent(r.high, t) /\ m[1] # t => Absent(q.high, t)
<1> DEFINE u == UnitsOf(m)
           f == Flow(w, r)
<1>1. m \in Letter /\ Whole(u) /\ u \in Seq(Parcel) /\ u \in Seq(Unit)
  BY ParcelType, WholeUnits, UnitsType
<1>2. /\ Whole(f) /\ Ordered(f) /\ f \in Seq(Parcel) /\ Whole(r.low) /\ LowOnly(r.low)
      /\ r.low \in Seq(Parcel)
  BY DEF FlowOK, Whole, Ended
<1>3. r.high \in Seq(Parcel) /\ r.dw \in Seq(Unit) /\ r.high \in Seq(Unit)
  BY ParcelType DEF Lists
<1>4. \A t : m[1] # t => Absent(u, t)
  BY <1>1, UnitsAre
<1> HIDE DEF u
<1>5. CASE q.high = r.high \o u /\ q.low = r.low
  <2>1. Flow(w, q) = f \o u
    <3> DEFINE h == r.high
               y == r.dw
    <3>1. (y \o h) \o u = y \o (h \o u)
      <4>1. y \in Seq(Unit) /\ h \in Seq(Unit) /\ u \in Seq(Unit)
        BY <1>1, <1>3
      <4> HIDE DEF y, h
      <4> QED
        BY ONLY <4>1, ConcatAssociative
    <3>2. y \o h \in Seq(Unit)
      BY <1>3, ConcatProperties
    <3> DEFINE z == y \o h
    <3>3. Flow(w, q) = w \o (y \o (h \o u)) /\ f = w \o z
      BY <1>5 DEF Flow, Put
    <3>4. y \o (h \o u) = z \o u
      BY <3>1
    <3>5. w \in Seq(Unit) /\ z \in Seq(Unit) /\ u \in Seq(Unit)
      BY <1>1, <3>2
    <3> HIDE DEF z, f
    <3>6. (w \o z) \o u = w \o (z \o u)
      BY ONLY <3>5, ConcatAssociative
    <3> HIDE DEF y, h
    <3> QED
      BY ONLY <3>3, <3>4, <3>6, Zenon
  <2> HIDE DEF f
  <2>2. Whole(f \o u) /\ Ordered(f \o u)
    BY <1>1, <1>2, WholeConcat, LastOrder DEF u, f
  <2>3. \A t, x : Below(f, t, x) /\ Below(u, t, x) => Below(f \o u, t, x)
    BY <1>1, <1>2, ConcatOrder
  <2>4. FlowOK(w, q)
    BY <1>2, <1>5, <2>1, <2>2 DEF FlowOK
  <2>5. \A t, x : Below(f, t, x) /\ Below(r.low, t, x) /\ Below(u, t, x)
                      => Below(Flow(w, q), t, x) /\ Below(q.low, t, x)
    BY <1>5, <2>1, <2>3
  <2>6. Whole(r.high) => Whole(q.high)
    BY <1>1, <1>5, WholeConcat
  <2>7. \A t : Absent(r.high, t) /\ m[1] # t => Absent(q.high, t)
    BY <1>1, <1>3, <1>4, <1>5, ConcatOrder
  <2> QED
    BY <2>4, <2>5, <2>6, <2>7 DEF f, u
<1>6. CASE q.high = r.high /\ q.low = r.low \o u /\ m[3] = "P"
  <2>1. Flow(w, q) = f
    BY <1>6 DEF Flow, Put
  <2> HIDE DEF f
  <2>2. Whole(q.low)
    BY <1>1, <1>2, <1>6, WholeConcat
  <2>3. LowOnly(u)
    BY <1>1, <1>6, UnitsAre DEF u
  <2>4. LowOnly(q.low) /\ \A t, x : Below(r.low, t, x) /\ Below(u, t, x) => Below(q.low, t, x)
    BY <1>1, <1>2, <1>6, <2>3, ConcatOrder
  <2>5. FlowOK(w, q)
    BY <1>2, <2>1, <2>2, <2>4 DEF FlowOK
  <2> QED
    BY <1>6, <2>1, <2>4, <2>5 DEF f, u
<1> QED
  BY <1>5, <1>6 DEF Put, u

(* The message that leaves the pipe is older than those that stay.         *)
LEMMA HeadOlder ==
    ASSUME Shapes, Numbers, use' = use, pipe # <<>>, pipe' = Tail(pipe), NEW m, m = Head(pipe).m,
           m # None, NEW id
    PROVE  /\ m \in Message /\ m[1] \in Sender /\ m[3] = Head(pipe).c
           /\ Older(UnitsOf(m), id, pipe', th, sent)
<1>1. pipe \in Seq(CmdRecord) /\ use \in Uses
  BY DEF Shapes
<1>2. Head(pipe) = pipe[1] /\ 1 \in DOMAIN pipe
  BY <1>1, EmptySeq, LenProperties, HeadTailProperties
<1>3. pipe[1] \in CmdRecord
  BY <1>2, PipeType
<1>4. m \in Message /\ m[3] = Head(pipe).c /\ m[2] <= sent
  BY <1>2, <1>3 DEF CmdRecord, Numbers
<1>5. m \in Letter /\ m[1] \in Sender /\ m[2] \in Nat /\ sent \in Nat
  BY <1>1, <1>4, ParcelType, UnitParts DEF Shapes
<1>6. \A t, x : (m[1] = t => m[2] < x) => Below(UnitsOf(m), t, x)
  BY <1>5, UnitsAre
<1>7. m[2] < sent + 1
  BY <1>4, <1>5
<1>8. \A i \in InPipe(pipe', id) : m[1] = pipe'[i].m[1] => m[2] < pipe'[i].m[2]
  <2> SUFFICES ASSUME NEW i \in InPipe(pipe', id), m[1] = pipe'[i].m[1] PROVE m[2] < pipe'[i].m[2]
    OBVIOUS
  <2>1. /\ i \in 1 .. Len(pipe') /\ pipe'[i].m # None
    BY DEF InPipe
  <2>2. i \in Nat /\ i + 1 \in DOMAIN pipe /\ pipe'[i] = pipe[i + 1] /\ 1 < i + 1
    BY <1>1, <2>1, HeadTailProperties, EmptySeq, LenProperties
  <2> QED
    BY <1>2, <2>1, <2>2 DEF Numbers
<1>9. \A t \in Sender : th[t].m # None => (m[1] = t => m[2] < th[t].m[2])
  BY <1>2 DEF Numbers
<1> QED
  BY <1>4, <1>5, <1>6, <1>7, <1>8, <1>9 DEF Older

(* send_socket puts a message behind a list.                               *)
LEMMA AppendedPut ==
    ASSUME NEW r, IsSlot(r), NEW m, NEW c \in {"D", "P"}, m[3] = c, NEW a, a = Appended(r, c, m)
    PROVE  Put(r, a, m) /\ IsSlot(a) /\ SameSocket(r, a)
<1>1. IsSlot(a) /\ SameSocket(r, a)
  BY AppendedType
<1>2. Put(r, a, m)
  BY DEF Put, Appended, IsSlot
<1> QED
  BY <1>1, <1>2

(* The message in front is put behind a list, or dropped.                  *)
LEMMA SendSocketWire ==
    ASSUME ~Early, Inv, Inv', crash = None, use' = use, WInv, SendSocket
    PROVE  WInv'
<1>1. Command({"D", "P"}) /\ wire' = wire
  BY DEF SendSocket
<1>2. /\ Calm /\ th' = th /\ alloc_id' = alloc_id /\ sent' = sent /\ Popped
      /\ pipe # <<>> /\ pipe' = Tail(pipe) /\ Head(pipe) = pipe[1] /\ 1 \in DOMAIN pipe
      /\ Head(pipe).m # None /\ Head(pipe).c \in {"D", "P"}
  BY <1>1, CommandProps
<1>3. PICK s \in Slot : s = Target /\ IsSlot(slot[s])
  BY <1>1, CommandProps
<1> DEFINE cmd == Head(pipe)
           m == cmd.m
           r == slot[s]
           a == IF Refuses THEN r ELSE Appended(r, cmd.c, m)
           counts == r.id = cmd.id /\ r.tcp
           q == [a EXCEPT !.cnt = IF counts THEN @ - 1 ELSE @]
<1>4. slot' = [slot EXCEPT ![s] = q]
  BY <1>3 DEF SendSocket
<1>5. Shapes /\ Numbers /\ use \in Uses /\ Lists(r) /\ Bounds /\ TagInv
  BY <1>3 DEF Inv, Shapes, WInv, Buffers, Core
<1>6. m \in Message /\ m[1] \in Sender /\ m[3] = cmd.c /\ Older(UnitsOf(m), cmd.id, pipe', th, sent)
  BY <1>2, <1>5, HeadOlder
<1>7. IsSlot(a) /\ SameSocket(r, a) /\ (Refuses => a = r) /\ (~Refuses => Put(r, a, m))
  <2>1. CASE Refuses
    BY <1>3, <2>1 DEF SameSocket
  <2>2. CASE ~Refuses
    BY <1>2, <1>3, <1>6, <2>2, AppendedPut
  <2> QED
    BY <2>1, <2>2
<1>8. ~Refuses => r.id = cmd.id
  BY <1>3 DEF Refuses, Gone
<1> HIDE DEF a
<1>9. /\ IsSlot(q) /\ q.type = a.type /\ q.high = a.high /\ q.low = a.low /\ q.dw = a.dw
      /\ q.id = a.id /\ q.tcp = a.tcp /\ (~q.tcp => q.cnt = a.cnt)
  BY <1>7 DEF IsSlot, SameSocket
<1> HIDE DEF q
<1>10. slot'[s] = q
  BY <1>4, <1>5, <1>9, SlotPut
<1>11. Served(s)' => Served(s)
  BY <1>2, <1>7, <1>9, <1>10 DEF Served, Closing, Calm, SameSocket
<1>12. CASE Refuses
  <2>1. Lists(q) /\ \A u \in Slot : ~Closing(u)
    BY <1>2, <1>5, <1>7, <1>9, <1>12 DEF Lists, Closing, Calm
  <2> QED
    BY <1>1, <1>2, <1>4, <1>7, <1>9, <1>11, <1>12, <2>1, NetWire DEF AllocStep
<1>13. CASE ~Refuses
  <2> DEFINE w == wire[r.id]
  <2>1. Put(r, q, m) /\ q.id = cmd.id
    BY <1>7, <1>8, <1>9, <1>13 DEF Put
  <2>2. Lists(q)
    <3>1. UnitsOf(m) \in Seq(Unit)
      BY <1>6, UnitsType
    <3>2. q.high \in Seq(Unit) /\ q.low \in Seq(Unit) /\ q.dw \in Seq(Unit)
      BY <1>5, <2>1, <3>1, ConcatProperties DEF Put, Lists
    <3> QED
      BY <3>2 DEF Lists
  <2>3. ASSUME Served(s)'
        PROVE  /\ Sound(wire'[q.id], q, pipe', th, sent)
               /\ \A t \in Sender : th[t].pc = "write" /\ s = HashId(th[t].id) =>
                      Writing(t, wire'[th[t].id], q, pipe', th[t].id)
    <3>1. Served(s) /\ r.tcp
      BY <1>5, <1>11, <2>3 DEF Served, TagInv
    <3>2. Sound(w, r, pipe, th, sent)
      BY <3>1 DEF WInv, Flows
    <3>3. FlowOK(w, r) /\ Older(Flow(w, r), r.id, pipe, th, sent) /\ Older(r.low, r.id, pipe, th, sent)
      BY <3>2 DEF Sound
    <3>4. 1 \in InPipe(pipe, r.id) /\ pipe[1].m = m
      BY <1>2, <1>5, <1>8, <1>13, PipeType DEF InPipe
    <3>5. Below(Flow(w, r), m[1], m[2])
      BY <3>3, <3>4 DEF Older
    <3>6. w \in Seq(Unit)
      BY <1>5, <3>1, LiveId DEF WInv, Buffers
    <3>7. /\ FlowOK(w, q)
          /\ \A t, x : Below(Flow(w, r), t, x) /\ Below(r.low, t, x)
                           /\ Below(UnitsOf(m), t, x)
                               => Below(Flow(w, q), t, x) /\ Below(q.low, t, x)
          /\ Whole(r.high) => Whole(q.high)
          /\ \A t : Absent(r.high, t) /\ m[1] # t => Absent(q.high, t)
      <4> HIDE DEF w, r, m
      <4> QED
        BY <1>5, <1>6, <2>1, <3>3, <3>5, <3>6, FlowPut
    <3>8. Shapes' /\ Onward
      BY <1>2, <1>5, NetOnward DEF Inv
    <3>9. Older(Flow(w, r), r.id, pipe', th, sent) /\ Older(r.low, r.id, pipe', th, sent)
      <4>1. Flow(w, r) \in Seq(Parcel) /\ r.low \in Seq(Parcel)
        BY <3>2, SoundType
      <4>2. Older(Flow(w, r), r.id, pipe', th', sent') /\ Older(r.low, r.id, pipe', th', sent')
        BY <1>5, <3>3, <3>8, <4>1, OlderStep
      <4> QED
        BY <1>2, <4>2
    <3>10. Older(Flow(w, q), r.id, pipe', th, sent) /\ Older(q.low, r.id, pipe', th, sent)
      BY <1>6, <1>8, <1>13, <3>7, <3>9 DEF Older
    <3>11. Sound(wire'[q.id], q, pipe', th, sent)
      BY <1>1, <1>8, <1>13, <2>1, <3>7, <3>10 DEF Sound
    <3>12. ASSUME NEW t \in Sender, th[t].pc = "write", s = HashId(th[t].id)
           PROVE  Writing(t, wire'[th[t].id], q, pipe', th[t].id)
      <4>1. th[t].id = r.id /\ S(t) = s
        BY <3>12, WriterLock DEF S
      <4>2. Writing(t, w, r, pipe, th[t].id)
        BY <3>1, <3>12, <4>1 DEF WInv, Writers
      <4>3. m[1] # t /\ r.dw = <<>> /\ Whole(w) /\ Whole(r.high) /\ Absent(r.high, t)
        BY <3>4, <4>1, <4>2 DEF Writing
      <4>4. \A i \in InPipe(pipe', th[t].id) : pipe'[i].m[1] # t
        BY <1>5, <3>8, <3>12, <4>2, PipeOthers DEF Writing
      <4> QED
        BY <1>1, <2>1, <3>7, <4>1, <4>3, <4>4 DEF Writing, Put
    <3> QED
      BY <3>11, <3>12
  <2>4. wire' \in [Id -> Seq(Unit)]
    BY <1>1 DEF WInv, Buffers
  <2>5. q.tcp \/ q.cnt = r.cnt
    BY <1>7, <1>9 DEF SameSocket
  <2> QED
    BY <1>1, <1>2, <1>4, <1>9, <2>2, <2>3, <2>4, <2>5, SlotWire DEF AllocStep
<1> QED
  BY <1>12, <1>13

-----------------------------------------------------------------------------
(* Workers.  One of them moves and the pipe stays.                         *)
LEMMA WorkOnward ==
    ASSUME pipe' = pipe, sent' \in {sent, sent + 1}, alloc_id' \in {alloc_id, alloc_id + 1},
           NEW t \in Sender, \A u \in Sender : u # t => th'[u] = th[u], Moved(t)
    PROVE  Onward
<1>1. \A i \in DOMAIN pipe' : Carried(i)
  BY DEF Carried
<1>2. \A u \in Sender : u # t => Moved(u)
  BY DEF Moved, Owns, Opens
<1> QED
  BY <1>1, <1>2 DEF Onward

(* A new message has the next number.                                      *)
LEMMA NumbersSend ==
    ASSUME Shapes, Numbers, pipe' = pipe, sent' = sent + 1,
           NEW t \in Sender, \A u \in Sender : u # t => th'[u] = th[u],
           \/ th'[t] = th[t]
           \/ th'[t].m = <<t, sent + 1, th'[t].c>>
    PROVE  Numbers'
<1>1. sent \in Nat /\ use \in Uses
  BY DEF Shapes
<1>2. \A i \in DOMAIN pipe : pipe[i].m # None => pipe[i].m[2] \in Nat /\ pipe[i].m[2] < sent + 1
  <2> SUFFICES ASSUME NEW i \in DOMAIN pipe, pipe[i].m # None
               PROVE  pipe[i].m[2] \in Nat /\ pipe[i].m[2] < sent + 1
    OBVIOUS
  <2>1. pipe[i].m \in Letter
    BY <1>1, PipeType, ParcelType DEF CmdRecord
  <2>2. pipe[i].m[2] \in Nat /\ pipe[i].m[2] <= sent
    BY <2>1, UnitParts DEF Numbers
  <2> QED
    BY <1>1, <2>2
<1>3. \A u \in Sender : th[u].m # None => th[u].m[2] \in Nat /\ th[u].m[2] < sent + 1
  <2> SUFFICES ASSUME NEW u \in Sender, th[u].m # None
               PROVE  th[u].m[2] \in Nat /\ th[u].m[2] < sent + 1
    OBVIOUS
  <2>1. th[u].m \in Letter
    BY <1>1, ThType, ParcelType DEF ThRecord
  <2>2. th[u].m[2] \in Nat /\ th[u].m[2] <= sent
    BY <2>1, UnitParts DEF Numbers
  <2> QED
    BY <1>1, <2>2
<1>4. \A n \in Nat : n < sent + 1 => n # sent + 1 /\ n <= sent + 1
  BY <1>1
<1>5. sent + 1 <= sent + 1
  BY <1>1
<1> DEFINE k == sent + 1
<1> HIDE DEF k
<1>6. th'[t] = th[t] \/ (th'[t].m[1] = t /\ th'[t].m[2] = k /\ th'[t].m[3] = th'[t].c)
  BY DEF k
<1>7. \A i \in DOMAIN pipe' : pipe'[i].m # None =>
          pipe'[i].m[3] = pipe'[i].c /\ pipe'[i].m[2] <= sent'
  BY <1>2, <1>4 DEF Numbers
<1>8. \A u \in Sender : th'[u].m # None =>
          th'[u].m[1] = u /\ th'[u].m[3] = th'[u].c /\ th'[u].m[2] <= sent'
  BY <1>3, <1>4, <1>5, <1>6 DEF Numbers, k
<1>9. \A i \in DOMAIN pipe', u \in Sender : pipe'[i].m # None /\ th'[u].m # None =>
          /\ pipe'[i].m[2] # th'[u].m[2]
          /\ pipe'[i].m[1] = u => pipe'[i].m[2] < th'[u].m[2]
  BY <1>2, <1>4, <1>6 DEF Numbers, k
<1>10. \A v, u \in Sender : v # u /\ th'[v].m # None /\ th'[u].m # None =>
          th'[v].m[2] # th'[u].m[2]
  BY <1>3, <1>4, <1>6 DEF Numbers, k
<1> QED
  BY <1>7, <1>8, <1>9, <1>10 DEF Numbers

(* A command is put into the pipe, without a message or with the worker's. *)
LEMMA PushOnward ==
    ASSUME Shapes, use' = use, Numbers, sent' = sent, alloc_id' = alloc_id,
           NEW x \in CmdRecord, pipe' = Append(pipe, x),
           NEW t \in Sender, \A u \in Sender : u # t => th'[u] = th[u],
           \/ x.m = None /\ x.c \in {"K", "S"} /\ th' = th
           \/ /\ x.m = th[t].m /\ x.c = th[t].c /\ x.id = th[t].id
              /\ th[t].pc = "pipe" /\ th'[t] = Idle
    PROVE  Onward /\ Numbers'
<1> DEFINE n == Len(pipe) + 1
<1>1. pipe \in Seq(CmdRecord) /\ Len(pipe) \in Nat /\ DOMAIN pipe = 1 .. Len(pipe)
  BY LenProperties DEF Shapes
<1>2. /\ pipe' \in Seq(CmdRecord) /\ Len(pipe') = n /\ pipe'[n] = x
      /\ \A i \in 1 .. Len(pipe) : pipe'[i] = pipe[i]
  BY <1>1, AppendProperties
<1>3. DOMAIN pipe' = 1 .. n
  BY <1>2, LenProperties
<1>4. /\ \A i \in DOMAIN pipe' : i = n \/ (i \in DOMAIN pipe /\ i < n /\ pipe'[i] = pipe[i])
      /\ \A i \in DOMAIN pipe' : ~(n < i)
  BY <1>1, <1>2, <1>3
<1> HIDE DEF n
<1>5. \/ x.m = None /\ th' = th
      \/ x.m = th[t].m /\ x.c = th[t].c /\ th'[t].m = None
  BY DEF Idle
<1>6. \A i \in DOMAIN pipe' : Carried(i)
  BY <1>2, <1>4 DEF Carried
<1>7. \A u \in Sender : Moved(u)
  BY DEF Moved, Owns, Opens
<1>8. \A i \in DOMAIN pipe' : pipe'[i].m # None =>
          pipe'[i].m[3] = pipe'[i].c /\ pipe'[i].m[2] <= sent'
  BY <1>2, <1>4, <1>5 DEF Numbers
<1>9. \A u \in Sender : th'[u].m # None =>
          th'[u].m[1] = u /\ th'[u].m[3] = th'[u].c /\ th'[u].m[2] <= sent'
  BY <1>5 DEF Numbers
<1>10. ASSUME NEW i \in DOMAIN pipe', NEW j \in DOMAIN pipe',
              pipe'[i].m # None, pipe'[j].m # None, i < j
       PROVE  /\ pipe'[i].m[2] # pipe'[j].m[2]
              /\ pipe'[i].m[1] = pipe'[j].m[1] => pipe'[i].m[2] < pipe'[j].m[2]
  <2>1. i # n
    BY <1>4, <1>10
  <2>2. i \in DOMAIN pipe /\ pipe'[i] = pipe[i]
    BY <1>4, <2>1
  <2>3. CASE j = n
    <3>1. pipe'[j].m = th[t].m /\ th[t].m # None /\ th[t].m[1] = t
      BY <1>2, <1>5, <1>10, <2>3 DEF Numbers
    <3> QED
      BY <1>10, <2>2, <3>1 DEF Numbers
  <2>4. CASE j # n
    <3>1. j \in DOMAIN pipe /\ pipe'[j] = pipe[j]
      BY <1>4, <2>4
    <3> QED
      BY <1>10, <2>2, <3>1 DEF Numbers
  <2> QED
    BY <2>3, <2>4
<1>11. ASSUME NEW i \in DOMAIN pipe', NEW u \in Sender, pipe'[i].m # None, th'[u].m # None
       PROVE  /\ pipe'[i].m[2] # th'[u].m[2]
              /\ pipe'[i].m[1] = u => pipe'[i].m[2] < th'[u].m[2]
  <2>1. CASE i = n
    <3>1. pipe'[i].m = th[t].m /\ th[t].m # None /\ th[t].m[1] = t /\ u # t /\ th'[u] = th[u]
      BY <1>2, <1>5, <1>11, <2>1 DEF Numbers
    <3> QED
      BY <1>11, <3>1 DEF Numbers
  <2>2. CASE i # n
    <3>1. i \in DOMAIN pipe /\ pipe'[i] = pipe[i] /\ th'[u] = th[u]
      BY <1>4, <1>5, <1>11, <2>2
    <3> QED
      BY <1>11, <3>1 DEF Numbers
  <2> QED
    BY <2>1, <2>2
<1>12. \A v, u \in Sender : v # u /\ th'[v].m # None /\ th'[u].m # None =>
          th'[v].m[2] # th'[u].m[2]
  BY <1>5 DEF Numbers
<1> QED
  BY <1>6, <1>7, <1>8, <1>9, <1>10, <1>11, <1>12 DEF Onward, Numbers

(* A step of a worker that writes nothing.                                 *)
LEMMA WorkerWire ==
    ASSUME ~Early, Inv, Inv', crash = None, crash' = crash, net' = net, use' = use, WInv,
           wire' = wire, AllocStep, Onward, Numbers', sent' <= use.msgs,
           NEW t \in Sender, \A u \in Sender : u # t => th'[u] = th[u],
           NEW s \in Slot, NEW q, IsSlot(q), slot' = [slot EXCEPT ![s] = q],
           q.high = slot[s].high, q.low = slot[s].low, q.dw = slot[s].dw,
           q.tcp \/ q.cnt = slot[s].cnt,
           q.type \notin {"invalid", "reserve"} => q.type = slot[s].type /\ q.id = slot[s].id,
           \A u \in Slot : th'[t].pc = "write" /\ u = HashId(th'[t].id) /\ Served(u)' =>
               Writing(t, wire'[th'[t].id], slot'[u], pipe', th'[t].id)
    PROVE  WInv'
<1>1. /\ Shapes /\ Buffers /\ Slot' = Slot /\ Unit' = Unit
      /\ alloc_id' <= use.ids
  BY SameUse DEF Inv, WInv, Bounds, AllocStep
<1>2. slot'[s] = q /\ \A u \in Slot : u # s => slot'[u] = slot[u]
  BY <1>1, SlotPut
<1>3. Buffers'
  BY <1>1, <1>2 DEF Buffers, Lists
<1>4. \A u \in Slot : slot'[u].tcp \/ slot'[u].cnt = slot[u].cnt
  BY <1>2
<1>5. ASSUME NEW u \in Slot, Served(u)' PROVE Intact(u)
  <2>1. Closing(u)' <=> Closing(u)
    BY DEF Closing
  <2>2. CASE u = s
    BY <1>2, <1>5, <2>1, <2>2 DEF Intact, Served
  <2>3. CASE u # s
    BY <1>2, <1>5, <2>1, <2>3 DEF Intact, Served
  <2> QED
    BY <2>2, <2>3
<1>6. \A v \in Sender, u \in Slot :
          th'[v].pc = "write" /\ u = HashId(th'[v].id) /\ Served(u)' =>
              \/ th'[v] = th[v] /\ Intact(u)
              \/ Writing(v, wire'[th'[v].id], slot'[u], pipe', th'[v].id)
  BY <1>5
<1> QED
  BY <1>1, <1>3, <1>4, <1>5, <1>6, WStep

(* The steps of a worker that change no slot.                              *)
LEMMA SendWire ==
    ASSUME ~Early, Inv, Inv', crash = None, use' = use, WInv, NEW t \in Sender,
           NEW id \in Id, NEW c \in use.priority, Send(t, id, c)
    PROVE  WInv'
<1>1. Shapes /\ use \in Uses /\ sent \in Nat /\ Numbers /\ use.msgs \in Nat /\ c \in {"D", "P"}
  BY SlotsType DEF Inv, Shapes, WInv
<1>2. /\ slot' = slot /\ alloc_id' = alloc_id /\ pipe' = pipe /\ net' = net
      /\ crash' = crash /\ sent' = sent + 1 /\ sent < use.msgs /\ wire' = wire
      /\ th[t].pc = "idle"
  BY DEF Send
<1>3. PICK s \in Slot : s = 0 /\ IsSlot(slot[s]) /\ slot' = [slot EXCEPT ![s] = slot[s]]
  BY <1>1, <1>2, ZeroSlot DEF Shapes
<1>4. sent' <= use.msgs /\ sent' \in {sent, sent + 1} /\ AllocStep
  BY <1>1, <1>2 DEF AllocStep
<1>5. /\ \A u \in Sender : u # t => th'[u] = th[u]
      /\ \/ th'[t] = th[t]
         \/ /\ th'[t].m = <<t, sent + 1, th'[t].c>> /\ th'[t].c = c
            /\ th'[t].pc \in {"try", "inc"}
  <2> DEFINE rec == [pc |-> IF c = "D" THEN "try" ELSE "inc", id |-> id,
                     m |-> <<t, sent + 1, c>>, c |-> c]
  <2>1. CASE th' = th
    BY <2>1
  <2>2. CASE th' = [th EXCEPT ![t] = rec]
    <3>1. th \in [Sender -> ThRecord]
      BY <1>1 DEF Shapes
    <3>2. th'[t] = rec /\ \A u \in Sender : u # t => th'[u] = th[u]
      BY <2>2, <3>1
    <3> QED
      BY <3>2
  <2> QED
    BY <2>1, <2>2 DEF Send, Step
<1>6. Moved(t)
  BY <1>1, <1>2, <1>5 DEF Moved, Owns, Opens
<1>7. Onward /\ Numbers'
  BY <1>1, <1>2, <1>4, <1>5, <1>6, WorkOnward, NumbersSend
<1>8. th'[t].pc # "write"
  BY <1>2, <1>5
<1> QED
  BY <1>2, <1>3, <1>4, <1>5, <1>7, <1>8, WorkerWire

(* A command is sent.                                                      *)
LEMMA PushWire ==
    ASSUME ~Early, Inv, Inv', crash = None, crash' = crash, use' = use, WInv, slot' = slot,
           net' = net, wire' = wire, sent' = sent, alloc_id' = alloc_id,
           NEW x \in CmdRecord, pipe' = Append(pipe, x),
           NEW t \in Sender, \A u \in Sender : u # t => th'[u] = th[u],
           \/ x.m = None /\ x.c \in {"K", "S"} /\ th' = th /\ th[t].pc = "idle"
           \/ /\ x.m = th[t].m /\ x.c = th[t].c /\ x.id = th[t].id
              /\ th[t].pc = "pipe" /\ th'[t] = Idle
    PROVE  WInv'
<1>1. Shapes /\ Numbers /\ sent' <= use.msgs
  BY DEF Inv, WInv, Bounds
<1>2. PICK s \in Slot : s = 0 /\ IsSlot(slot[s]) /\ slot' = [slot EXCEPT ![s] = slot[s]]
  BY <1>1, ZeroSlot DEF Shapes
<1>3. Onward /\ Numbers'
  BY <1>1, PushOnward
<1>4. th'[t].pc # "write"
  BY DEF Idle
<1> QED
  BY <1>1, <1>2, <1>3, <1>4, WorkerWire DEF AllocStep

(* send_request, and the calls that close or start a socket.               *)
LEMMA RequestWire ==
    ASSUME ~Early, Inv, Inv', crash = None, use' = use, WInv, NEW t \in Sender,
           \/ SendRequest(t)
           \/ \E c \in {"K", "S"}, id \in Id, sd \in BOOLEAN : Request(t, c, id, sd)
    PROVE  WInv'
<1>1. Shapes /\ th[t] \in ThRecord /\ ThreadData(th[t])
  BY DEF Inv, Shapes
<1>2. CASE SendRequest(t)
  <2> DEFINE x == Cmd(th[t].c, th[t].id, th[t].m, FALSE)
  <2>1. /\ th[t].pc = "pipe" /\ pipe' = Append(pipe, x) /\ th' = [th EXCEPT ![t] = Idle]
        /\ slot' = slot /\ alloc_id' = alloc_id /\ net' = net /\ sent' = sent
        /\ crash' = crash /\ wire' = wire
    BY <1>2 DEF SendRequest, Step
  <2>2. th[t].c \in {"O", "L", "D", "P"}
    BY <1>1, <2>1 DEF ThreadData, Opens, Sends
  <2>3. x \in CmdRecord /\ x.c = th[t].c /\ x.id = th[t].id /\ x.m = th[t].m
    BY <1>1, <2>2 DEF Cmd, CmdRecord, ThRecord
  <2>4. th'[t] = Idle /\ \A u \in Sender : u # t => th'[u] = th[u]
    BY <1>1, <2>1, IdleType, ThPut
  <2> HIDE DEF x
  <2> QED
    BY <2>1, <2>3, <2>4, PushWire
<1>3. CASE \E c \in {"K", "S"}, id \in Id, sd \in BOOLEAN : Request(t, c, id, sd)
  <2>1. PICK c \in {"K", "S"}, id \in Id, sd \in BOOLEAN : Request(t, c, id, sd)
    BY <1>3
  <2> DEFINE x == Cmd(c, id, None, sd)
  <2>2. /\ th[t].pc = "idle" /\ pipe' = Append(pipe, x) /\ th' = th
        /\ slot' = slot /\ alloc_id' = alloc_id /\ net' = net /\ sent' = sent
        /\ crash' = crash /\ wire' = wire
    BY <2>1 DEF Request
  <2>3. x \in CmdRecord /\ x.c = c /\ x.m = None
    BY DEF Cmd, CmdRecord, Id
  <2> HIDE DEF x
  <2> QED
    BY <2>2, <2>3, PushWire
<1> QED
  BY <1>2, <1>3

(* A worker takes a slot for itself, or its number passes by.              *)
LEMMA ReserveWire ==
    ASSUME ~Early, Inv, Inv', crash = None, use' = use, WInv, NEW t \in Sender,
           Reserve(t, IF use.listen /\ alloc_id = 0 THEN "L" ELSE "O")
    PROVE  WInv'
<1> DEFINE id == alloc_id + 1
           c == IF use.listen /\ alloc_id = 0 THEN "L" ELSE "O"
           rec == [Idle EXCEPT !.pc = "setid", !.id = id, !.c = c]
<1>1. Shapes /\ alloc_id \in Nat /\ use \in Uses /\ Numbers /\ sent <= use.msgs
  BY DEF Inv, Shapes, WInv, Bounds
<1>2. /\ alloc_id' = id /\ pipe' = pipe /\ net' = net /\ id <= use.ids
      /\ crash' = crash /\ sent' = sent /\ th[t].pc = "idle" /\ wire' = wire
  BY DEF Reserve
<1>3. id \in Nat
  BY <1>1
<1>4. PICK s \in Slot : s = HashId(id) /\ IsSlot(slot[s])
  BY <1>1, <1>3, HashType DEF Shapes
<1> DEFINE r == slot[s]
           p == [r EXCEPT !.type = "reserve"]
           q == IF r.type = "invalid" THEN p ELSE r
<1>5. slot' = [slot EXCEPT ![s] = q]
  <2>1. slot = [u \in Slot |-> slot[u]]
    BY <1>1 DEF Shapes
  <2>2. CASE r.type = "invalid"
    BY <1>4, <2>1, <2>2 DEF Reserve
  <2>3. CASE r.type # "invalid"
    BY <1>4, <2>1, <2>3 DEF Reserve
  <2> QED
    BY <2>2, <2>3
<1>6. /\ IsSlot(q) /\ q.high = r.high /\ q.low = r.low /\ q.dw = r.dw /\ q.cnt = r.cnt
      /\ q.type \notin {"invalid", "reserve"} => q.type = r.type /\ q.id = r.id
  BY <1>4 DEF IsSlot, Types
<1>7. c \in {"O", "L"}
  OBVIOUS
<1>8. rec \in ThRecord /\ rec.pc = "setid" /\ rec.id = id /\ rec.m = None /\ rec.c = c
  <2> HIDE DEF c, id
  <2> QED
    BY <1>3, <1>7 DEF ThRecord, Idle
<1>9. ThreadData(rec)
  BY <1>7, <1>8 DEF ThreadData, Opens
<1>10. th' = th \/ th' = [th EXCEPT ![t] = rec]
  BY DEF Reserve, Step
<1> HIDE DEF rec, q
<1>11. (th'[t] = th[t] \/ th'[t] = rec) /\ \A u \in Sender : u # t => th'[u] = th[u]
  BY <1>1, <1>8, <1>9, <1>10, ThPut
<1>12. Moved(t)
  BY <1>8, <1>11 DEF Moved, Owns, Opens
<1>13. alloc_id' \in {alloc_id, alloc_id + 1} /\ AllocStep /\ sent' \in {sent, sent + 1}
  BY <1>2 DEF AllocStep
<1>14. Onward
  BY <1>2, <1>11, <1>12, <1>13, WorkOnward
<1>15. Numbers'
  <2>1. \A u \in Sender : th'[u].m # None => th'[u].m = th[u].m /\ th'[u].c = th[u].c
    BY <1>8, <1>11
  <2> QED
    BY <1>1, <1>2, <2>1, NumbersKept DEF Popped
<1>16. th'[t].pc # "write"
  BY <1>2, <1>8, <1>11
<1> QED
  BY <1>1, <1>2, <1>4, <1>5, <1>6, <1>11, <1>13, <1>14, <1>15, <1>16, WorkerWire

(* A worker goes on with what it has.                                      *)
LEMMA GoOnward ==
    ASSUME Shapes, use' = use, Numbers, pipe' = pipe, sent' = sent, alloc_id' = alloc_id,
           NEW t \in Sender, th[t].pc \in {"setid", "try", "check", "inc"},
           NEW pc \in {"check", "write", "inc", "pipe"}, Go(t, pc)
    PROVE  /\ Onward /\ Numbers' /\ th'[t].pc = pc /\ th'[t].id = th[t].id
           /\ \A u \in Sender : u # t => th'[u] = th[u]
<1> DEFINE rec == [th[t] EXCEPT !.pc = pc]
<1>1. th \in [Sender -> ThRecord] /\ th[t] \in ThRecord /\ ThreadData(th[t])
  BY DEF Shapes
<1>2. /\ rec.pc = pc /\ rec.id = th[t].id /\ rec.m = th[t].m /\ rec.c = th[t].c
      /\ th' = [th EXCEPT ![t] = rec]
  BY <1>1 DEF ThRecord, Go, Step
<1> HIDE DEF rec
<1>3. th'[t] = rec /\ \A u \in Sender : u # t => th'[u] = th[u]
  BY <1>1, <1>2
<1>4. Owns(t)' => Owns(t)
  BY <1>1, <1>2, <1>3 DEF Owns, Opens, Sends, ThreadData
<1>5. Moved(t)
  BY <1>2, <1>3, <1>4 DEF Moved
<1>6. Onward
  BY <1>3, <1>5, WorkOnward
<1>7. Numbers'
  BY <1>2, <1>3, NumbersKept DEF Popped
<1> QED
  BY <1>2, <1>3, <1>6, <1>7

(* A reserved slot gets its id.                                            *)
LEMMA SetIdWire ==
    ASSUME ~Early, Inv, Inv', crash = None, use' = use, WInv, NEW t \in Sender, SetId(t)
    PROVE  WInv'
<1>1. Shapes /\ Core /\ Numbers /\ sent <= use.msgs
  BY DEF Inv, WInv, Bounds
<1>2. PICK s \in Slot : s = S(t) /\ IsSlot(slot[s])
  BY <1>1, ThType DEF Shapes
<1>3. /\ alloc_id' = alloc_id /\ pipe' = pipe /\ net' = net /\ wire' = wire
      /\ crash' = crash /\ sent' = sent /\ th[t].pc = "setid" /\ Go(t, "pipe")
  BY DEF SetId
<1> DEFINE id == th[t].id
           r == slot[s]
           q == [r EXCEPT !.id = id, !.tcp = FALSE]
<1>4. slot' = [slot EXCEPT ![s] = q]
  <2>1. slot = [u \in Slot |-> slot[u]]
    BY <1>1 DEF Shapes
  <2> QED
    BY <1>2, <2>1 DEF SetId
<1>5. r.type = "reserve" /\ id \in Nat
  BY <1>1, <1>2, <1>3, ThType DEF Core, Owned, Owns
<1>6. /\ IsSlot(q) /\ q.high = r.high /\ q.low = r.low /\ q.dw = r.dw /\ q.cnt = r.cnt
      /\ q.type = "reserve"
  BY <1>2, <1>5 DEF IsSlot
<1> HIDE DEF q
<1>7. Onward /\ Numbers' /\ th'[t].pc = "pipe" /\ \A u \in Sender : u # t => th'[u] = th[u]
  BY <1>1, <1>3, GoOnward
<1> QED
  BY <1>1, <1>3, <1>4, <1>6, <1>7, WorkerWire DEF AllocStep

(* inc_sending_ref changes the count only.                                 *)
LEMMA IncSendingWire ==
    ASSUME ~Early, Inv, Inv', crash = None, use' = use, WInv, NEW t \in Sender, IncSending(t)
    PROVE  WInv'
<1>1. Shapes /\ Numbers /\ sent <= use.msgs
  BY DEF Inv, WInv, Bounds
<1>2. PICK s \in Slot : s = S(t) /\ IsSlot(slot[s])
  BY <1>1, ThType DEF Shapes
<1>3. /\ alloc_id' = alloc_id /\ pipe' = pipe /\ net' = net /\ wire' = wire
      /\ crash' = crash /\ sent' = sent /\ th[t].pc = "inc" /\ Go(t, "pipe")
  BY DEF IncSending
<1> DEFINE r == slot[s]
           hit == r.tcp /\ r.tag = IdTag(th[t].id)
           q == [r EXCEPT !.cnt = IF hit THEN @ + 1 ELSE @]
<1>4. slot' = [slot EXCEPT ![s] = q]
  <2>1. slot = [u \in Slot |-> slot[u]]
    BY <1>1 DEF Shapes
  <2>2. CASE hit
    BY <1>2, <2>1, <2>2 DEF IncSending
  <2>3. CASE ~hit
    <3>1. [r EXCEPT !.cnt = r.cnt] = r
      BY <1>2 DEF IsSlot
    <3> QED
      BY <1>2, <2>1, <2>3, <3>1 DEF IncSending
  <2> QED
    BY <2>2, <2>3
<1>5. /\ IsSlot(q) /\ q.high = r.high /\ q.low = r.low /\ q.dw = r.dw
      /\ q.type = r.type /\ q.id = r.id /\ q.tcp = r.tcp /\ (~hit => q.cnt = r.cnt)
  BY <1>2 DEF IsSlot
<1> HIDE DEF q
<1>6. q.tcp \/ q.cnt = r.cnt
  BY <1>5
<1>7. Onward /\ Numbers' /\ th'[t].pc = "pipe" /\ \A u \in Sender : u # t => th'[u] = th[u]
  BY <1>1, <1>3, GoOnward
<1> QED
  BY <1>1, <1>3, <1>4, <1>5, <1>6, <1>7, WorkerWire DEF AllocStep

(* A worker may write itself when nothing is under way to the socket: all  *)
(* messages written to it are whole, and none of its own is in the pipe.   *)
LEMMA MayWrite ==
    ASSUME ~Early, Inv, WInv, NEW s \in Slot, NEW id, Served(s), CanDirectWrite(s, id), NEW t
    PROVE  Writing(t, wire[id], slot[s], pipe, id)
<1> DEFINE r == slot[s]
           w == wire[id]
<1>1. /\ r.id = id /\ r.high = <<>> /\ r.dw = <<>> /\ r.cnt = 0 /\ r.type = "connected"
  BY DEF CanDirectWrite, NoMoreSending, SendBufferEmpty
<1>2. Shapes /\ CountInv /\ r.tcp
  BY <1>1 DEF Inv, Core, TagInv
<1>3. w \in Seq(Unit)
  BY <1>1, <1>2, LiveId DEF WInv, Buffers
<1>4. Whole(w)
  <2>1. Whole(Flow(w, r))
    BY <1>1 DEF WInv, Flows, Sound, FlowOK
  <2>2. Flow(w, r) = w \o (<<>> \o <<>>)
    BY <1>1 DEF Flow
  <2>3. <<>> \o <<>> = <<>>
    OBVIOUS
  <2> HIDE DEF w
  <2>4. w \o <<>> = w
    BY <1>3, ConcatEmptySeq
  <2> QED
    BY <2>1, <2>2, <2>3, <2>4
<1>5. InPipe(pipe, id) = {}
  <2> DEFINE P == InPipe(pipe, id)
             a == Cardinality(P)
             b == Cardinality(AtPipe(th, id))
  <2>1. a + b = 0 /\ a \in Nat /\ b \in Nat /\ IsFiniteSet(P)
    BY <1>1, <1>2, CountsFinite DEF CountInv
  <2>2. a = 0
    <3> HIDE DEF a, b
    <3> QED
      BY <2>1
  <2> HIDE DEF P
  <2> QED
    BY <2>1, <2>2, FS_EmptySet DEF P
<1>6. Absent(<<>>, t)
  BY DEF Absent
<1> QED
  BY <1>1, <1>4, <1>5, <1>6, WholeEmpty DEF Writing

(* The trylock and the second look.                                        *)
LEMMA LookWire ==
    ASSUME ~Early, Inv, Inv', crash = None, use' = use, WInv, NEW t \in Sender,
           TryDirect(t) \/ CheckDirect(t)
    PROVE  WInv'
<1>1. Shapes /\ Numbers /\ sent <= use.msgs /\ slot = [u \in Slot |-> slot[u]]
  BY DEF Inv, Shapes, WInv, Bounds
<1>2. PICK s \in Slot : s = S(t) /\ IsSlot(slot[s])
  BY <1>1, ThType DEF Shapes
<1>3. /\ alloc_id' = alloc_id /\ pipe' = pipe /\ net' = net /\ wire' = wire
      /\ crash' = crash /\ sent' = sent /\ th[t].pc \in {"try", "check"}
  BY DEF TryDirect, CheckDirect
<1> DEFINE r == slot[s]
<1>4. PICK pc \in {"check", "write", "inc"}, lock \in {r.lock, t, None} :
          /\ Go(t, pc) /\ slot' = [slot EXCEPT ![s] = [r EXCEPT !.lock = lock]]
          /\ pc = "write" => CanDirectWrite(s, th[t].id)
  <2>1. slot = [slot EXCEPT ![s] = [r EXCEPT !.lock = r.lock]]
    BY <1>1, <1>2 DEF IsSlot
  <2>2. CASE TryDirect(t) /\ CanDirectWrite(s, th[t].id) /\ r.lock = None
    BY <1>1, <1>2, <2>2 DEF TryDirect
  <2>3. CASE TryDirect(t) /\ ~(CanDirectWrite(s, th[t].id) /\ r.lock = None)
    BY <1>2, <2>1, <2>3 DEF TryDirect
  <2>4. CASE CheckDirect(t) /\ CanDirectWrite(s, th[t].id)
    BY <1>2, <2>1, <2>4 DEF CheckDirect
  <2>5. CASE CheckDirect(t) /\ ~CanDirectWrite(s, th[t].id)
    BY <1>1, <1>2, <2>5 DEF CheckDirect
  <2> QED
    BY <2>2, <2>3, <2>4, <2>5
<1> DEFINE q == [r EXCEPT !.lock = lock]
<1>5. /\ IsSlot(q) /\ q.high = r.high /\ q.low = r.low /\ q.dw = r.dw
      /\ q.type = r.type /\ q.id = r.id /\ q.cnt = r.cnt
  BY <1>2 DEF IsSlot
<1>6. slot' = [slot EXCEPT ![s] = q]
  BY <1>4
<1> HIDE DEF q
<1>7. slot'[s] = q
  BY <1>1, <1>2, <1>5, <1>6, SlotPut
<1>8. /\ Onward /\ Numbers' /\ th'[t].pc = pc /\ th'[t].id = th[t].id
      /\ \A u \in Sender : u # t => th'[u] = th[u]
  BY <1>1, <1>3, <1>4, GoOnward
<1>9. ASSUME NEW u \in Slot, th'[t].pc = "write", u = HashId(th'[t].id), Served(u)'
      PROVE  Writing(t, wire'[th'[t].id], slot'[u], pipe', th'[t].id)
  <2>1. u = s /\ CanDirectWrite(s, th[t].id)
    BY <1>2, <1>4, <1>8, <1>9 DEF S
  <2>2. Served(s)
    BY <1>3, <1>5, <1>7, <1>9, <2>1 DEF Served, Closing
  <2>3. Writing(t, wire[th[t].id], r, pipe, th[t].id)
    BY <2>1, <2>2, MayWrite
  <2> QED
    BY <1>3, <1>5, <1>7, <1>8, <2>1, <2>3 DEF Writing
<1> QED
  BY <1>1, <1>3, <1>5, <1>6, <1>8, <1>9, WorkerWire DEF AllocStep

-----------------------------------------------------------------------------
(* A worker writes a message m behind w, n units of it to the wire and the *)
(* rest to dw_buffer, before what is in the high list.                     *)
Direct(w, h, m, n) ==
    (w \o SubSeq(UnitsOf(m), 1, n)) \o (SubSeq(UnitsOf(m), n + 1, Units) \o h)

(* Wherever the kernel stops, the message is in one piece.                 *)
LEMMA DirectIs ==
    ASSUME use \in Uses, NEW w, w \in Seq(Unit), NEW h, h \in Seq(Unit), NEW m \in Message,
           NEW n \in 0 .. Units
    PROVE  /\ Direct(w, h, m, n) = w \o (UnitsOf(m) \o h)
           /\ SubSeq(UnitsOf(m), 1, n) \in Seq(Unit)
           /\ SubSeq(UnitsOf(m), n + 1, Units) \in Seq(Unit)
<1> DEFINE all == UnitsOf(m)
           a == SubSeq(all, 1, n)
           b == SubSeq(all, n + 1, Units)
<1>1. all \in Seq(Unit) /\ Len(all) = Units /\ Units \in Nat
  BY UnitsType, UnitParts
<1> HIDE DEF all
<1>2. /\ 1 \in 1 .. Len(all) + 1 /\ n \in 1 - 1 .. Len(all)
      /\ n + 1 \in 1 .. Len(all) + 1 /\ Units \in (n + 1) - 1 .. Len(all)
  BY <1>1
<1>3. a \in Seq(Unit) /\ b \in Seq(Unit)
  BY <1>1, <1>2, PartIs
<1>4. a \o b = SubSeq(all, 1, Units)
  <2>1. 1 \in 1 .. Len(all) + 1 /\ n \in 1 - 1 .. Len(all) /\ Units \in n .. Len(all)
    BY <1>1
  <2> QED
    BY <1>1, <2>1, ConcatAdjacentSubSeq
<1>5. SubSeq(all, 1, Units) = all
  BY <1>1, SubSeqFull
<1>6. Direct(w, h, m, n) = (w \o a) \o (b \o h)
  BY DEF Direct, all
<1> HIDE DEF a, b
<1>7. (a \o b) \o h = a \o (b \o h)
  <2>1. a \in Seq(Unit) /\ b \in Seq(Unit) /\ h \in Seq(Unit)
    BY <1>3
  <2> QED
    BY ONLY <2>1, ConcatAssociative
<1> DEFINE y == b \o h
<1>8. w \in Seq(Unit) /\ a \in Seq(Unit) /\ y \in Seq(Unit)
  BY <1>3, ConcatProperties
<1> HIDE DEF y
<1>9. (w \o a) \o y = w \o (a \o y)
  BY ONLY <1>8, ConcatAssociative
<1>10. (w \o a) \o (b \o h) = w \o (all \o h)
  BY ONLY <1>4, <1>5, <1>7, <1>9, Zenon DEF y
<1> QED
  BY <1>3, <1>6, <1>10 DEF a, b, all

(* What is written directly keeps messages whole and in order.             *)
LEMMA FlowDirect ==
    ASSUME use \in Uses, NEW w \in Seq(Unit), NEW h \in Seq(Unit), NEW m \in Message,
           NEW n \in 0 .. Units, NEW f, f = Direct(w, h, m, n),
           Whole(w), Whole(h), NEW g, g = w \o h, Ordered(g), Below(g, m[1], m[2]),
           Absent(h, m[1])
    PROVE  /\ Whole(f) /\ Ordered(f)
           /\ \A t, x : Below(g, t, x) /\ Below(UnitsOf(m), t, x) => Below(f, t, x)
<1>1. w \in Seq(Parcel) /\ h \in Seq(Parcel) /\ m \in Letter
  BY ParcelType
<1>2. Whole(UnitsOf(m)) /\ UnitsOf(m) \in Seq(Parcel)
  BY <1>1, WholeUnits
<1>3. f = w \o (UnitsOf(m) \o h)
  BY DirectIs
<1>4. Below(w, m[1], m[2])
  BY <1>1, ConcatOrder
<1>5. Ordered(f)
  BY <1>1, <1>3, <1>4, MiddleOrder
<1> DEFINE u == UnitsOf(m)
           y == u \o h
<1> HIDE DEF u
<1>6. Whole(y) /\ y \in Seq(Parcel)
  BY <1>1, <1>2, WholeConcat, ConcatProperties DEF u
<1>7. \A t, x : Below(y, t, x) <=> Below(u, t, x) /\ Below(h, t, x)
  BY <1>1, <1>2, ConcatOrder DEF u
<1> HIDE DEF y
<1>8. Whole(w \o y) /\ \A t, x : Below(w \o y, t, x) <=> Below(w, t, x) /\ Below(y, t, x)
  BY <1>1, <1>6, WholeConcat, ConcatOrder
<1>9. \A t, x : Below(g, t, x) <=> Below(w, t, x) /\ Below(h, t, x)
  BY <1>1, ConcatOrder
<1>10. f = w \o y
  BY <1>3 DEF u, y
<1> QED
  BY <1>5, <1>7, <1>8, <1>9, <1>10 DEF u

(* A direct write.  Nobody else writes to the socket meanwhile, and of the *)
(* worker nothing is in the pipe or the list.                              *)
LEMMA DirectWriteWire ==
    ASSUME ~Early, Inv, Inv', crash = None, use' = use, WInv, NEW t \in Sender,
           NEW n \in 0 .. Units, DirectWrite(t, n)
    PROVE  WInv'
<1>1. Shapes /\ Numbers /\ Bounds /\ Buffers /\ use \in Uses /\ slot = [u \in Slot |-> slot[u]]
      /\ TagInv /\ Slot' = Slot /\ Unit' = Unit
  BY SameUse DEF Inv, Shapes, WInv, Core
<1>2. PICK s \in Slot : s = S(t) /\ IsSlot(slot[s])
  BY <1>1, ThType DEF Shapes
<1>3. PICK m \in Message : m = th[t].m /\ th[t].pc = "write" /\ m[1] = t /\ m[2] <= sent
  <2>1. th[t].pc = "write" /\ ThreadData(th[t])
    BY <1>1 DEF DirectWrite, Shapes
  <2> QED
    BY <1>1, <2>1, NoMessage DEF ThreadData, Sends, Numbers
<1>4. PICK id \in Id : id = th[t].id /\ id = slot[s].id /\ HashId(id) = s /\ ~Unopened(id)
  <2>1. /\ slot[s].id = th[t].id /\ slot[s].tcp
        /\ slot[s].type \in {"connected", "halfclose"}
    BY <1>2, <1>3, WriterLock DEF S
  <2> QED
    BY <1>1, <2>1, LiveId
<1> DEFINE r == slot[s]
           a == SubSeq(UnitsOf(m), 1, n)
           b == SubSeq(UnitsOf(m), n + 1, Units)
           p == [r EXCEPT !.lock = None, !.dw = b]
           q == [p EXCEPT !.wr = @ \/ n < Units]
           w == wire[id]
<1>5. /\ alloc_id' = alloc_id /\ pipe' = pipe /\ net' = net
      /\ crash' = crash /\ sent' = sent /\ th' = [th EXCEPT ![t] = Idle]
      /\ wire' = [wire EXCEPT ![id] = w \o a]
  BY <1>3, <1>4 DEF DirectWrite, Step
<1>6. slot' = [slot EXCEPT ![s] = q]
  BY <1>1, <1>2, <1>3 DEF DirectWrite
<1>7. w \in Seq(Unit) /\ wire \in [Id -> Seq(Unit)] /\ Lists(r) /\ m \in Letter
  BY <1>1, ParcelType DEF Buffers
<1>8. a \in Seq(Unit) /\ b \in Seq(Unit)
  BY <1>1, <1>7, DirectIs
<1> HIDE DEF a, b
<1>9. /\ IsSlot(p) /\ p.dw = b /\ p.type = r.type /\ p.id = r.id
      /\ p.tcp = r.tcp /\ p.cnt = r.cnt /\ p.high = r.high /\ p.low = r.low
  BY <1>2 DEF IsSlot
<1> HIDE DEF p
<1>10. /\ IsSlot(q) /\ q.dw = b /\ q.type = r.type /\ q.id = r.id
       /\ q.tcp = r.tcp /\ q.cnt = r.cnt /\ q.high = r.high /\ q.low = r.low
  BY <1>9 DEF IsSlot
<1> HIDE DEF q
<1>11. slot'[s] = q /\ \A u \in Slot : u # s => slot'[u] = slot[u]
  BY <1>1, <1>6, <1>10, SlotPut
<1>12. th'[t] = Idle /\ \A u \in Sender : u # t => th'[u] = th[u]
  BY <1>1, <1>5, IdleType, ThPut
<1>13. w \o a \in Seq(Unit)
  BY <1>7, <1>8, ConcatProperties
<1>14. /\ wire'[id] = w \o a /\ wire' \in [Id -> Seq(Unit)]
       /\ \A i \in Id : i # id => wire'[i] = wire[i]
  BY <1>5, <1>7, <1>13
<1>15. Buffers'
  BY <1>1, <1>7, <1>8, <1>10, <1>11, <1>14 DEF Buffers, Lists
<1>16. Onward /\ Numbers'
  <2>1. Moved(t)
    BY <1>12 DEF Moved
  <2>2. \A u \in Sender : th'[u].m # None => th'[u].m = th[u].m /\ th'[u].c = th[u].c
    BY <1>12 DEF Idle
  <2> QED
    BY <1>1, <1>5, <1>12, <2>1, <2>2, WorkOnward, NumbersKept DEF Popped
<1>17. \A u \in Slot : Served(u)' => Served(u)
  BY <1>5, <1>10, <1>11 DEF Served, Closing
<1>18. ASSUME NEW u \in Slot, Served(u)', u # s PROVE Intact(u)
  <2>1. Served(u) /\ slot[u].tcp
    BY <1>1, <1>17, <1>18 DEF Served, TagInv
  <2>2. slot[u].id \in Id /\ HashId(slot[u].id) = u
    BY <1>1, <2>1, LiveId
  <2>3. wire'[slot[u].id] = wire[slot[u].id]
    BY <1>4, <1>14, <1>18, <2>2
  <2> QED
    BY <1>11, <1>18, <2>1, <2>3 DEF Intact
<1>19. ASSUME Served(s)' PROVE Sound(wire'[q.id], q, pipe', th', sent')
  <2>1. Served(s)
    BY <1>17, <1>19
  <2>2. Sound(w, r, pipe, th, sent) /\ Writing(t, w, r, pipe, id)
    BY <1>2, <1>3, <1>4, <2>1 DEF WInv, Flows, Writers
  <2>3. Sound(w, r, pipe', th', sent')
    BY <1>1, <1>16, <2>2, SoundStep DEF Inv
  <2> DEFINE h == r.high
             g == Flow(w, r)
             f == Flow(w \o a, q)
  <2>4. h \in Seq(Unit) /\ g = w \o h
    <3>1. h \in Seq(Unit) /\ r.dw = <<>>
      BY <1>7, <2>2 DEF Lists, Writing
    <3>2. <<>> \o h = h
      <4> HIDE DEF h
      <4> QED
        BY <3>1, ConcatEmptySeq
    <3> QED
      BY <3>1, <3>2 DEF Flow
  <2>5. f = Direct(w, h, m, n)
    BY <1>10 DEF Flow, Direct, a, b
  <2>6. Ordered(g) /\ Whole(w) /\ Whole(h) /\ Absent(h, m[1]) /\ Below(g, m[1], m[2])
    <3>1. Ordered(g) /\ Older(g, id, pipe, th, sent)
      BY <1>4, <2>2 DEF Sound, FlowOK
    <3>2. Below(g, t, m[2])
      BY <1>3, <1>4, <3>1, NoMessage DEF Older
    <3>3. Whole(w) /\ Whole(h) /\ Absent(h, t)
      BY <2>2 DEF Writing
    <3> QED
      BY <1>3, <3>1, <3>2, <3>3
  <2> HIDE DEF f, g, h, w
  <2>7. /\ Whole(f) /\ Ordered(f)
        /\ \A v, x : Below(g, v, x) /\ Below(UnitsOf(m), v, x) => Below(f, v, x)
    BY <1>1, <1>7, <2>4, <2>5, <2>6, FlowDirect
  <2>8. Older(UnitsOf(m), id, pipe', th', sent')
    <3>1. \A v, x : (m[1] = v => m[2] < x) => Below(UnitsOf(m), v, x)
      BY <1>7, UnitsAre
    <3>2. m[2] < sent + 1
      BY <1>1, <1>3, <1>7, UnitParts DEF Shapes
    <3>3. \A i \in InPipe(pipe, id) : pipe[i].m[1] # m[1]
      BY <1>3, <2>2 DEF Writing
    <3>4. \A v \in Sender : th'[v].m # None => v # m[1]
      BY <1>3, <1>12 DEF Idle
    <3> QED
      BY <1>5, <3>1, <3>2, <3>3, <3>4 DEF Older
  <2>9. Older(g, id, pipe', th', sent') /\ Older(r.low, id, pipe', th', sent') /\ FlowOK(w, r)
    BY <1>4, <2>3 DEF Sound, g
  <2>10. Older(f, id, pipe', th', sent')
    BY <2>7, <2>8, <2>9 DEF Older
  <2>11. FlowOK(w \o a, q)
    BY <1>10, <2>7, <2>9 DEF FlowOK, f
  <2>12. q.id = id /\ q.low = r.low
    BY <1>4, <1>10
  <2> QED
    BY <1>14, <2>9, <2>10, <2>11, <2>12 DEF Sound, f
<1>20. \A u \in Slot : Served(u)' => \/ Intact(u)
                                     \/ Sound(wire'[slot'[u].id], slot'[u], pipe', th', sent')
  BY <1>11, <1>18, <1>19
<1>21. ASSUME NEW v \in Sender, NEW u \in Slot, th'[v].pc = "write", u = HashId(th'[v].id),
              Served(u)'
       PROVE  th'[v] = th[v] /\ Intact(u)
  <2>1. v # t /\ th'[v] = th[v]
    BY <1>12, <1>21 DEF Idle
  <2>2. slot[u].lock = v /\ slot[s].lock = t
    BY <1>2, <1>3, <1>21, <2>1, WriterLock DEF S
  <2> QED
    BY <1>18, <1>21, <2>1, <2>2
<1>22. \A u \in Slot : slot'[u].tcp \/ slot'[u].cnt = slot[u].cnt
  BY <1>10, <1>11
<1>23. \A i \in Id : wire'[i] = wire[i] \/ ~Unopened(i)
  BY <1>4, <1>14
<1>24. alloc_id' <= use.ids /\ sent' <= use.msgs
  BY <1>1, <1>5 DEF Bounds
<1> QED
  BY <1>15, <1>16, <1>20, <1>21, <1>22, <1>23, <1>24, WStep

-----------------------------------------------------------------------------
(* At the start nothing has been written.                                  *)
LEMMA InitWInv == Init => WInv
<1> SUFFICES ASSUME Init PROVE WInv
  OBVIOUS
<1>1. use \in Uses /\ use.msgs \in Nat /\ use.ids \in 1 .. MaxId /\ MaxId \in Nat
  BY SlotsType, UseAssumption, ModeAssumption DEF Init
<1>2. \A s \in Slot : /\ slot[s].type = "invalid" /\ slot[s].cnt = 0 /\ slot[s].high = <<>>
                      /\ slot[s].low = <<>> /\ slot[s].dw = <<>>
  BY DEF Init
<1>3. \A t \in Sender : th[t].pc = "idle" /\ th[t].m = None
  BY DEF Init, Idle
<1>4. DOMAIN pipe = {} /\ alloc_id = 0 /\ sent = 0
  BY DEF Init
<1>5. <<>> \in Seq(Unit)
  OBVIOUS
<1>6. Buffers
  BY <1>2, <1>5 DEF Buffers, Lists, Init
<1>7. Flows /\ Writers
  BY <1>2, <1>3 DEF Flows, Writers, Served
<1>8. Blank
  BY DEF Blank, Init
<1>9. Numbers
  BY <1>3, <1>4 DEF Numbers
<1>10. Bounds
  BY <1>1, <1>2, <1>4 DEF Bounds
<1> QED
  BY <1>6, <1>7, <1>8, <1>9, <1>10 DEF WInv

(* Nothing happens.                                                        *)
LEMMA StutterWInv ==
    ASSUME WInv, UNCHANGED vars
    PROVE  WInv'
<1>1. Slot' = Slot /\ Unit' = Unit /\ \A id : HashId(id)' = HashId(id)
  BY SameUse DEF HashId, vars
<1>2. Buffers'
  BY <1>1 DEF WInv, Buffers, Lists, vars
<1>3. Flows'
  BY <1>1 DEF WInv, Flows, Served, Closing, vars
<1>4. Writers'
  BY <1>1 DEF WInv, Writers, Served, Closing, S, HashId, vars
<1>5. Blank'
  BY DEF WInv, Blank, Unopened, Owns, Opens, Opening, vars
<1>6. Numbers'
  BY DEF WInv, Numbers, vars
<1>7. Bounds'
  BY <1>1 DEF WInv, Bounds, vars
<1> QED
  BY <1>2, <1>3, <1>4, <1>5, <1>6, <1>7 DEF WInv

(* Every step keeps what is on the wire whole and in order.                *)
LEMMA SocketThreadWire ==
    ASSUME ~Early, Inv, Inv', crash = None, use' = use, WInv, SocketThread
    PROVE  WInv'
<1>1. CASE CloseFreed \/ ClearEvents \/ SomeWait \/ ConnectTest \/ ConnectUnwatch
  BY <1>1, CloseFreedWire, QuietWire, ConnectUnwatchWire
<1>2. CASE Commands
  <2>1. CASE (\E type \in {"connected", "connecting"} : OpenSocket(type)) \/ ListenSocket
    BY <2>1, OpenWire
  <2>2. CASE OpenFails \/ StartSocket \/ CloseLater
    BY <2>2, CommandStateWire
  <2>3. CASE StartFails \/ CloseNow \/ CloseSendFails
    BY <2>3, ClosesWire
  <2>4. CASE SendSocket
    BY <2>4, SendSocketWire
  <2>5. CASE CloseGone \/ CloseReserved
    BY <2>5, QuietWire
  <2>6. CASE \E k \in Taken(Target) : CloseAfterSend(k)
    BY <2>6, CloseAfterSendWire
  <2> QED
    BY <1>2, <2>1, <2>2, <2>3, <2>4, <2>5, <2>6 DEF Commands
<1>3. CASE Events
  <2>1. CASE NullEvent \/ AcceptNothing \/ StaleEvent \/ ReadData \/ WriteBlocked
    BY <2>1, QuietWire
  <2>2. CASE ReportConnect
    BY <2>2, ReportConnectWire
  <2>3. CASE ConnectFails \/ ReadCloses \/ WriteFails
    BY <2>3, ClosesWire
  <2>4. CASE ReportAccept
    BY <2>4, ReportAcceptWire
  <2>5. CASE \E k \in Taken(E.s) : WriteEvent(k)
    BY <2>5, WriteEventWire
  <2> QED
    BY <1>3, <2>1, <2>2, <2>3, <2>4, <2>5 DEF Events
<1> QED
  BY <1>1, <1>2, <1>3 DEF SocketThread

(* So does every step of a worker.                                         *)
LEMMA WorkersWire ==
    ASSUME ~Early, Inv, Inv', crash = None, use' = use, WInv, NEW t \in Sender,
           WorkerStep(t) \/ WorkerCall(t) \/ WorkerRequest(t)
    PROVE  WInv'
<1>1. CASE SetId(t)
  BY <1>1, SetIdWire
<1>2. CASE TryDirect(t) \/ CheckDirect(t)
  BY <1>2, LookWire
<1>3. CASE IncSending(t)
  BY <1>3, IncSendingWire
<1>4. CASE SendRequest(t)
  BY <1>4, RequestWire
<1>5. CASE \E n \in 0 .. Units : DirectWrite(t, n)
  BY <1>5, DirectWriteWire
<1>6. CASE Reserve(t, IF use.listen /\ alloc_id = 0 THEN "L" ELSE "O")
  BY <1>6, ReserveWire
<1>7. CASE \E id \in Id, c \in use.priority : Send(t, id, c)
  BY <1>7, SendWire
<1>8. CASE WorkerRequest(t)
  <2>1. use.kill \subseteq BOOLEAN
    BY SlotsType DEF Inv, Shapes
  <2>2. PICK id \in Id, c \in {"K", "S"}, sd \in BOOLEAN : Request(t, c, id, sd)
    BY <1>8, <2>1 DEF WorkerRequest
  <2> QED
    BY <2>2, RequestWire
<1> QED
  BY <1>1, <1>2, <1>3, <1>4, <1>5, <1>6, <1>7, <1>8 DEF WorkerStep, WorkerCall

(* So does every step.                                                     *)
LEMMA NextWInv ==
    ASSUME ~Early, Inv, Inv', WInv, [Next]_vars
    PROVE  WInv'
<1>1. use.senders \subseteq Sender
  BY SlotsType DEF Inv, Shapes
<1>2. CASE Runs(SocketThread)
  BY <1>2, SocketThreadWire DEF Runs
<1>3. CASE \E t \in Sender : Runs(WorkerStep(t) \/ WorkerCall(t))
  BY <1>3, WorkersWire DEF Runs
<1>4. CASE \E t \in Sender : crash = None /\ WorkerRequest(t) /\ use' = use
  BY <1>4, WorkersWire
<1>5. CASE UNCHANGED vars
  BY <1>5, StutterWInv
<1> QED
  BY <1>1, <1>2, <1>3, <1>4, <1>5 DEF Next, Runs, Crashed

-----------------------------------------------------------------------------
(* Counting on by one.                                                     *)
LEMMA NextRest ==
    ASSUME NEW u \in Nat, u >= 1, NEW a \in Nat
    PROVE  (a + 1) % u = IF a % u < u - 1 THEN (a % u) + 1 ELSE 0
<1> DEFINE c == a \div u
           x == a % u
           d == (a + 1) \div u
           y == (a + 1) % u
<1>1. c \in Int /\ x \in Nat /\ x < u /\ a = u * c + x
  OBVIOUS
<1>2. d \in Int /\ y \in Nat /\ y < u /\ a + 1 = u * d + y
  OBVIOUS
<1> HIDE DEF c, x, d, y
<1>3. u * c + x + 1 = u * d + y
  BY <1>1, <1>2
<1>4. u * (c + 1) = u * c + u
  BY <1>1
<1>5. c <= d
  <2> SUFFICES ASSUME d + 1 <= c PROVE FALSE
    BY <1>1, <1>2
  <2>1. u * (d + 1) <= u * c /\ u * (d + 1) = u * d + u
    BY <1>1, <1>2
  <2> QED
    BY <1>1, <1>2, <1>3, <2>1
<1>6. d <= c + 1
  <2> SUFFICES ASSUME (c + 1) + 1 <= d PROVE FALSE
    BY <1>1, <1>2
  <2>1. u * ((c + 1) + 1) <= u * d /\ u * ((c + 1) + 1) = u * c + u + u
    BY <1>1, <1>2
  <2> QED
    BY <1>1, <1>2, <1>3, <2>1
<1>7. d = c \/ d = c + 1
  BY <1>1, <1>2, <1>5, <1>6
<1>8. y = IF x < u - 1 THEN x + 1 ELSE 0
  <2>1. CASE d = c
    <3>1. y = x + 1
      BY <1>1, <1>2, <1>3, <2>1
    <3> QED
      BY <1>1, <1>2, <3>1
  <2>2. CASE d = c + 1
    <3>1. y + u = x + 1
      BY <1>1, <1>2, <1>3, <1>4, <2>2
    <3> QED
      BY <1>1, <1>2, <3>1
  <2> QED
    BY <1>7, <2>1, <2>2
<1> QED
  BY <1>8 DEF x, y

(* In whole messages every unit is where its number says.                  *)
LEMMA WholeShape ==
    ASSUME NEW q, Whole(q)
    PROVE  /\ Len(q) % Units = 0
           /\ \A i \in 1 .. Len(q) : /\ q[i].k = 1 + ((i - 1) % Units)
                                     /\ q[i].k > 1 => q[i].m = q[i - 1].m
<1> DEFINE n == Len(q)
           rest == [i \in Nat |-> i % Units]
<1>1. /\ q \in Seq(Parcel) /\ n \in Nat /\ Units \in Nat /\ Units >= 1
      /\ \A i \in 1 .. n : q[i].k \in Nat /\ q[i].k <= Units
  BY UnitParts, LenProperties, ElementOfSeq DEF Whole, Ended
<1>2. /\ \A i \in 1 .. n - 1 : Follows(q[i], q[i + 1])
      /\ n # 0 => q[1].k = 1 /\ q[n].k = Units
  BY <1>1, NoLength DEF Whole, Ended
<1>3. /\ \A i \in Nat : rest[i] \in Nat
      /\ \A i \in Nat : rest[i + 1] = IF rest[i] < Units - 1 THEN rest[i] + 1 ELSE 0
      /\ rest[0] = 0
  <2>1. \A i \in Nat : i % Units \in Nat
    BY <1>1
  <2>2. 0 % Units = 0
    BY <1>1
  <2>3. \A i \in Nat : (i + 1) % Units = IF i % Units < Units - 1 THEN (i % Units) + 1 ELSE 0
    BY <1>1, NextRest
  <2>4. \A i \in Nat : rest[i] = i % Units /\ rest[i + 1] = (i + 1) % Units
    OBVIOUS
  <2> HIDE DEF rest
  <2> QED
    BY <2>1, <2>2, <2>3, <2>4
<1>4. \A i \in Nat : rest[i] = i % Units
  OBVIOUS
<1> HIDE DEF n, rest
<1>5. ASSUME NEW i \in 1 .. n, i # 1 PROVE i - 1 \in 1 .. n /\ Follows(q[i - 1], q[i])
  <2>1. i - 1 \in 1 .. n - 1 /\ i - 1 \in 1 .. n /\ (i - 1) + 1 = i
    BY <1>1, <1>5
  <2> QED
    BY <1>2, <2>1
<1> DEFINE Wrong == {i \in 1 .. n : q[i].k # 1 + rest[i - 1]}
<1>6. Wrong = {}
  <2> SUFFICES ASSUME Wrong # {} PROVE FALSE
    OBVIOUS
  <2>1. Wrong \subseteq Nat
    BY <1>1
  <2>2. PICK i \in Wrong : \A j \in Wrong : i <= j
    <3> HIDE DEF Wrong
    <3> QED
      BY <2>1, LeastNat
  <2>3. i \in 1 .. n /\ q[i].k # 1 + rest[i - 1]
    OBVIOUS
  <2>4. CASE i = 1
    <3>1. n # 0 /\ i - 1 = 0 /\ 1 + 0 = 1
      BY <1>1, <2>3, <2>4
    <3>2. q[i].k = 1 /\ rest[i - 1] = 0
      BY <1>2, <1>3, <2>4, <3>1
    <3> QED
      BY <2>3, <3>1, <3>2
  <2>5. CASE i # 1
    <3>1. i - 1 \in 1 .. n /\ Follows(q[i - 1], q[i]) /\ ~(i <= i - 1)
      BY <1>1, <1>5, <2>3, <2>5
    <3>2. q[i - 1].k = 1 + rest[(i - 1) - 1]
      BY <2>2, <3>1
    <3> DEFINE a == (i - 1) - 1
    <3>3. a \in Nat /\ a + 1 = i - 1
      BY <1>1, <3>1
    <3> HIDE DEF a
    <3>4. /\ rest[a] \in Nat /\ q[i - 1].k = 1 + rest[a]
          /\ rest[i - 1] = IF rest[a] < Units - 1 THEN rest[a] + 1 ELSE 0
      BY <1>3, <3>2, <3>3 DEF a
    <3>5. IF q[i - 1].k < Units THEN q[i].k = q[i - 1].k + 1 ELSE q[i].k = 1
      BY <3>1 DEF Follows
    <3>6. q[i].k = 1 + rest[i - 1]
      BY <1>1, <3>4, <3>5
    <3> QED
      BY <2>3, <3>6
  <2> QED
    BY <2>4, <2>5
<1>7. \A i \in 1 .. n : q[i].k = 1 + rest[i - 1]
  BY <1>6
<1>8. ASSUME NEW i \in 1 .. n, q[i].k > 1 PROVE q[i].m = q[i - 1].m
  <2>1. i # 1 /\ n # 0
    BY <1>1, <1>2, <1>8
  <2>2. Follows(q[i - 1], q[i]) /\ q[i].k # 1
    BY <1>1, <1>5, <1>8, <2>1
  <2> QED
    BY <2>2 DEF Follows
<1>9. rest[n] = 0
  <2>1. CASE n = 0
    BY <1>3, <2>1
  <2>2. CASE n # 0
    <3> DEFINE a == n - 1
    <3>1. a \in Nat /\ a + 1 = n /\ n \in 1 .. n
      BY <1>1, <2>2
    <3>2. Units = 1 + rest[a]
      BY <1>2, <1>7, <2>2, <3>1
    <3> HIDE DEF a
    <3>3. rest[a] \in Nat /\ rest[n] = IF rest[a] < Units - 1 THEN rest[a] + 1 ELSE 0
      BY <1>3, <3>1
    <3> QED
      BY <1>1, <3>2, <3>3
  <2> QED
    BY <2>1, <2>2
<1>10. n % Units = 0
  BY <1>1, <1>4, <1>9
<1>11. \A i \in 1 .. n : q[i].k = 1 + ((i - 1) % Units)
  <2> SUFFICES ASSUME NEW i \in 1 .. n PROVE q[i].k = 1 + ((i - 1) % Units)
    OBVIOUS
  <2>1. i - 1 \in Nat
    BY <1>1
  <2> QED
    BY <1>4, <1>7, <2>1
<1> QED
  BY <1>8, <1>10, <1>11 DEF n

(* Every variable has its type.                                            *)
LEMMA WireTypes ==
    ASSUME ~Early, Inv, WInv
    PROVE  TypeOK
<1>1. Shapes /\ Bounds /\ Buffers /\ TagInv /\ CountInv /\ Numbers /\ use \in Uses
  BY DEF Inv, Shapes, WInv, Core
<1>2. use.ids \in 1 .. MaxId /\ use.msgs \in Nat /\ MaxId \in Nat
  BY <1>1, UseAssumption, ModeAssumption
<1>3. /\ alloc_id \in Nat /\ alloc_id <= use.ids /\ sent \in Nat /\ sent <= use.msgs
      /\ known \subseteq 1 .. alloc_id
  BY <1>1 DEF Shapes, Bounds
<1>4. \A s \in Slot : slot[s].cnt \in 0 .. use.msgs
  BY <1>1, CountsBounded DEF Bounds
<1>5. \A s \in Slot : slot[s].id \in 0 .. use.ids
  <2> SUFFICES ASSUME NEW s \in Slot PROVE slot[s].id \in 0 .. use.ids
    OBVIOUS
  <2>1. slot[s].id \in Nat /\ slot[s].id <= alloc_id
    BY <1>1 DEF Shapes, IsSlot, TagInv
  <2> QED
    BY <1>2, <1>3, <2>1
<1>6. slot \in [Slot -> [type : {"invalid", "reserve", "plisten", "listen", "connecting",
                                 "connected", "halfclose", "paccept"},
                         id : 0 .. use.ids, tcp : BOOLEAN, tag : Nat, cnt : 0 .. use.msgs,
                         high : Seq(Unit), low : Seq(Unit), dw : Seq(Unit),
                         wr : BOOLEAN, ep : BOOLEAN, lock : Sender \cup {None, Net}]]
  <2> DEFINE R == [type : {"invalid", "reserve", "plisten", "listen", "connecting",
                           "connected", "halfclose", "paccept"},
                   id : 0 .. use.ids, tcp : BOOLEAN, tag : Nat, cnt : 0 .. use.msgs,
                   high : Seq(Unit), low : Seq(Unit), dw : Seq(Unit),
                   wr : BOOLEAN, ep : BOOLEAN, lock : Sender \cup {None, Net}]
  <2>1. ASSUME NEW s \in Slot PROVE slot[s] \in R
    <3>1. /\ IsSlot(slot[s]) /\ slot[s].id \in 0 .. use.ids /\ slot[s].cnt \in 0 .. use.msgs
          /\ slot[s].high \in Seq(Unit) /\ slot[s].low \in Seq(Unit) /\ slot[s].dw \in Seq(Unit)
      BY <1>1, <1>4, <1>5 DEF Shapes, Buffers, Lists
    <3> DEFINE r == slot[s]
               A == 0 .. use.ids
               B == 0 .. use.msgs
               C == Seq(Unit)
    <3> HIDE DEF r, A, B, C
    <3>2. r.id \in A /\ r.cnt \in B /\ r.high \in C /\ r.low \in C /\ r.dw \in C /\ IsSlot(r)
      BY <3>1 DEF r, A, B, C
    <3>3. r \in [type : {"invalid", "reserve", "plisten", "listen", "connecting",
                           "connected", "halfclose", "paccept"},
                   id : A, tcp : BOOLEAN, tag : Nat, cnt : B,
                   high : C, low : C, dw : C,
                   wr : BOOLEAN, ep : BOOLEAN, lock : Sender \cup {None, Net}]
      BY <3>2 DEF IsSlot, Types
    <3> QED
      BY <3>3 DEF r, A, B, C
  <2>2. slot = [s \in Slot |-> slot[s]]
    BY <1>1 DEF Shapes
  <2> HIDE DEF R
  <2>3. slot \in [Slot -> R]
    BY <2>1, <2>2
  <2> QED
    BY <2>3 DEF R
<1>7. alloc_id \in 0 .. use.ids /\ known \subseteq Id /\ sent \in 0 .. use.msgs
  BY <1>2, <1>3 DEF Id
<1>8. \A t \in Sender : th[t].pc \in {"idle", "setid", "try", "check", "write", "inc", "pipe"}
  BY <1>1, ThType DEF ThRecord
<1>9. /\ net.pc \in {"poll", "first", "close", "ctlclose", "clear", "connect", "unwatch"}
      /\ crash \in {None, "sending", "slot"} /\ wire \in [Id -> Seq(Unit)]
  BY <1>1 DEF Shapes, NetRecord, Buffers
<1> QED
  BY <1>1, <1>6, <1>7, <1>8, <1>9 DEF TypeOK

(* What a socket in use has on the wire and in its lists.                  *)
LEMMA InUseFlow ==
    ASSUME Inv, WInv, NEW id \in Id, InUse(id), NEW r, r = slot[HashId(id)]
    PROVE  FlowOK(wire[id], r) /\ Lists(r) /\ wire[id] \in Seq(Unit)
<1>1. PICK s \in Slot : s = HashId(id)
  BY HashType DEF Inv, Shapes, Id
<1>2. Served(s) /\ slot[s].id = id /\ r = slot[s]
  BY <1>1 DEF InUse, Served, Closing
<1> QED
  BY <1>1, <1>2 DEF WInv, Flows, Sound, Buffers

(* Messages are not torn, and those of one worker are in order.            *)
LEMMA WholeInOrder ==
    ASSUME Inv, WInv
    PROVE  NotTorn /\ InOrder
<1>1. ASSUME NEW id \in Id, InUse(id)
      PROVE  LET r == slot[HashId(id)]
                 all == wire[id] \o r.dw \o r.high IN
             /\ Len(all) % Units = 0
             /\ \A i \in 1 .. Len(all) :
                    /\ all[i].k = 1 + ((i - 1) % Units)
                    /\ all[i].k > 1 => all[i].m = all[i - 1].m
             /\ r.low # <<>> => Head(r.low).k = 1
  <2> DEFINE r == slot[HashId(id)]
             w == wire[id]
             all == w \o r.dw \o r.high
  <2>1. Whole(Flow(w, r)) /\ Whole(r.low) /\ Lists(r) /\ w \in Seq(Unit)
    BY <1>1, InUseFlow DEF FlowOK
  <2>2. all = Flow(w, r)
    <3> DEFINE y == r.dw
               h == r.high
    <3>1. y \in Seq(Unit) /\ h \in Seq(Unit)
      BY <2>1 DEF Lists
    <3> HIDE DEF y, h, w
    <3>2. (w \o y) \o h = w \o (y \o h)
      BY ONLY <2>1, <3>1, ConcatAssociative
    <3> QED
      BY <3>2 DEF Flow, y, h
  <2> HIDE DEF all
  <2>3. /\ Len(all) % Units = 0
        /\ \A i \in 1 .. Len(all) : /\ all[i].k = 1 + ((i - 1) % Units)
                                    /\ all[i].k > 1 => all[i].m = all[i - 1].m
    BY <2>1, <2>2, WholeShape
  <2>4. r.low # <<>> => Head(r.low).k = 1
    <3>1. r.low \in Seq(Parcel) /\ (r.low # <<>> => r.low[1].k = 1)
      BY <2>1 DEF Whole, Ended
    <3> DEFINE l == r.low
    <3> HIDE DEF l
    <3>2. l \in Seq(Parcel) /\ (l # <<>> => l[1].k = 1)
      BY <3>1 DEF l
    <3>3. l # <<>> => Head(l) = l[1]
      BY <3>2, HeadTailProperties
    <3> QED
      BY <3>2, <3>3 DEF l
  <2> QED
    BY <2>3, <2>4 DEF all
<1>2. ASSUME NEW id \in Id, InUse(id) PROVE Ordered(wire[id])
  <2> DEFINE w == wire[id]
             r == slot[HashId(id)]
             y == r.dw \o r.high
             f == w \o y
  <2>1. Ordered(Flow(w, r)) /\ Lists(r) /\ w \in Seq(Unit) /\ f = Flow(w, r)
    BY <1>2, InUseFlow DEF FlowOK, Flow
  <2>2. y \in Seq(Unit)
    BY <2>1, ConcatProperties DEF Lists
  <2> HIDE DEF w, r, y
  <2>3. /\ Len(w) \in Nat /\ Len(y) \in Nat /\ Len(f) = Len(w) + Len(y)
        /\ \A i \in 1 .. Len(w) : f[i] = w[i]
    BY <2>1, <2>2, ConcatIs
  <2> HIDE DEF f
  <2>4. \A i \in 1 .. Len(w) : i \in 1 .. Len(f)
    BY <2>3
  <2>5. Ordered(f)
    BY <2>1
  <2>6. Ordered(w)
    BY <2>3, <2>4, <2>5 DEF Ordered
  <2> QED
    BY <2>6 DEF w
<1>3. NotTorn
  BY <1>1 DEF NotTorn
<1>4. InOrder
  BY <1>2 DEF InOrder, Ordered
<1> QED
  BY <1>3, <1>4

(* When services wait until they are told that a socket is open, the peer  *)
(* of a socket in use gets whole messages, the rest of a message that was  *)
(* written in part is next, and the messages of normal priority of one     *)
(* worker come in order, whether it wrote them itself or had them written. *)
THEOREM WireCorrect == ~Early => (Spec => []WireOK)
<1> SUFFICES ASSUME ~Early PROVE Spec => []WireOK
  OBVIOUS
<1>1. Init => WInv
  BY InitInv, InitWInv
<1>2. (Inv /\ Inv' /\ WInv) /\ [Next]_vars => WInv'
  BY NextWInv
<1>3. Inv /\ WInv => WireOK
  <2>1. Inv => OwnWire
    BY DEF Inv, Core, Locked, OwnWire
  <2> QED
    BY <2>1, WireTypes, WholeInOrder DEF WireOK
<1> QED
  BY <1>1, <1>2, <1>3, InvCorrect, PTL DEF Spec
=============================================================================
