---------------------------- MODULE SocketServer ----------------------------
(***************************************************************************)
(* socket_server.c: TCP sockets shared by the socket thread and the worker *)
(* threads.  Workers reserve a slot, send commands through a pipe, and     *)
(* write to a connected socket themselves when nothing of it is on its way *)
(* (a direct write); the socket thread carries out the commands and polls. *)
(* Only the direct write and what it needs is under a socket's dw_lock:    *)
(* the type of a socket, its write lists and the count of commands on      *)
(* their way (sending) are read and written by several threads without it. *)
(*                                                                         *)
(* A message is a few units long so that a write can take a part of it.    *)
(* Buffers are sequences of units still to be written; a buffer is partly  *)
(* written when its first unit is not the first of a message.  UDP, the    *)
(* statistics and the warning about long buffers are left out, and the     *)
(* 2^31 numbers of sockets are not used up.                                *)
(***************************************************************************)
EXTENDS FiniteSets, Integers, Sequences

CONSTANTS
    Sender,   \* worker threads that use sockets
    MaxId,    \* bound: sockets opened in a run
    Units,    \* the length of a message
    Uses,     \* what may happen in a run; one of them is chosen at the start
    Early,    \* do senders use a socket before they are told it is open?
    Net,      \* the socket thread, as the holder of a lock
    None

(* A use: MAX_SOCKET, bounds on the sockets opened and the messages sent,  *)
(* who sends with which priorities ("D" high, "P" low), whether sockets    *)
(* are closed (FALSE), shut down (TRUE) or both, and whether the first one *)
(* is a listening socket.                                                  *)
ASSUME UseAssumption ==
    Uses \subseteq [slots : Nat \ {0}, ids : 1 .. MaxId, msgs : Nat, senders : SUBSET Sender,
                   priority : SUBSET {"D", "P"}, kill : SUBSET BOOLEAN, listen : BOOLEAN]
ASSUME ModeAssumption == MaxId \in Nat /\ Units \in Nat \ {0} /\ Early \in BOOLEAN
ASSUME SenderAssumption == IsFiniteSet(Sender)
ASSUME NoneAssumption ==
    /\ None \notin Sender \cup Nat /\ Net \notin Sender /\ None # Net
    /\ None \notin Sender \X Nat \X {"D", "P"} /\ None \notin {"sending", "slot"}

Id == 1 .. MaxId

VARIABLES
    use,      \* the use of this run, which never changes
    slot,     \* ss->slot
    alloc_id, \* ss->alloc_id
    pipe,     \* commands in the pipe
    th,       \* where each worker is
    net,      \* where the socket thread is
    ev,       \* events of the last sp_wait not handled yet
    wire,     \* per socket: the units the kernel has taken
    known,    \* the sockets services have been told of
    sent,     \* messages sent so far
    asked,    \* requests to start, close or shut down made so far
    crash     \* the assertion that failed, or None

vars == <<use, slot, alloc_id, pipe, th, net, ev, wire, known, sent, asked, crash>>

Slot == 0 .. use.slots - 1
HashId(id) == id % use.slots
IdTag(id) == id \div use.slots

(* A message has a sender, a number and a priority, high or low.           *)
Message == Sender \X (1 .. use.msgs) \X {"D", "P"}
Unit == [m : Message, k : 1 .. Units]
UnitsOf(m) == [k \in 1 .. Units |-> [m |-> m, k |-> k]]
Idle == [pc |-> "idle", id |-> 0, m |-> None, c |-> None]
Cmd(c, id, m, sd) == [c |-> c, id |-> id, m |-> m, sd |-> sd]

SendBufferEmpty(s) == slot[s].high = <<>> /\ slot[s].low = <<>>

NoMoreSendingMutant(s) == SendBufferEmpty(s) /\ slot[s].dw = <<>>

NoMoreSending(s) == SendBufferEmpty(s) /\ slot[s].dw = <<>> /\ slot[s].cnt = 0

CanDirectWrite(s, id) ==
    slot[s].id = id /\ NoMoreSending(s) /\ slot[s].type = "connected"

-----------------------------------------------------------------------------
(* Worker threads.                                                         *)

Step(t, rec) == th' = [th EXCEPT ![t] = rec]
Go(t, pc) == Step(t, [th[t] EXCEPT !.pc = pc])
S(t) == HashId(th[t].id)

(* reserve_id by socket_server_connect and socket_server_listen: the slot  *)
(* is claimed first and gets its id in a second step.  A slot in use makes *)
(* the caller try the next number.                                         *)
Reserve(t, c) ==
    LET id == alloc_id + 1 IN
    /\ th[t].pc = "idle" /\ id <= use.ids
    /\ alloc_id' = id
    /\ IF slot[HashId(id)].type = "invalid"
       THEN /\ slot' = [slot EXCEPT ![HashId(id)].type = "reserve"]
            /\ Step(t, [Idle EXCEPT !.pc = "setid", !.id = id, !.c = c])
       ELSE UNCHANGED <<slot, th>>
    /\ UNCHANGED <<pipe, net, ev, wire, known, sent, crash>>

SetId(t) ==
    /\ th[t].pc = "setid"
    /\ slot' = [slot EXCEPT ![S(t)].id = th[t].id, ![S(t)].tcp = FALSE]
    /\ Go(t, "pipe")
    /\ UNCHANGED <<alloc_id, pipe, net, ev, wire, known, sent, crash>>

(* socket_server_send and socket_server_send_lowpriority.                  *)
Usable(id) ==
    \/ id \in known /\ ~(use.listen /\ id = 1)
    \/ /\ Early /\ slot[HashId(id)].id = id
       /\ \A t \in Sender : th[t] = Idle \/ th[t].id # id

Send(t, id, c) ==
    /\ th[t].pc = "idle" /\ sent < use.msgs /\ Usable(id)
    /\ sent' = sent + 1
    /\ IF slot[HashId(id)].id # id \/ slot[HashId(id)].type = "invalid" THEN th' = th
       ELSE Step(t, [pc |-> IF c = "D" THEN "try" ELSE "inc", id |-> id,
                     m |-> <<t, sent + 1, c>>, c |-> c])
    /\ UNCHANGED <<slot, alloc_id, pipe, net, ev, wire, known, crash>>

(* A first look and, when it is promising, a trylock.                      *)
TryDirect(t) ==
    LET ok == CanDirectWrite(S(t), th[t].id) /\ slot[S(t)].lock = None IN
    /\ th[t].pc = "try"
    /\ slot' = IF ok THEN [slot EXCEPT ![S(t)].lock = t] ELSE slot
    /\ Go(t, IF ok THEN "check" ELSE "inc")
    /\ UNCHANGED <<alloc_id, pipe, net, ev, wire, known, sent, crash>>

(* The second look, with the lock.                                         *)
CheckDirect(t) ==
    LET ok == CanDirectWrite(S(t), th[t].id) IN
    /\ th[t].pc = "check"
    /\ slot' = IF ok THEN slot ELSE [slot EXCEPT ![S(t)].lock = None]
    /\ Go(t, IF ok THEN "write" ELSE "inc")
    /\ UNCHANGED <<alloc_id, pipe, net, ev, wire, known, sent, crash>>

(* The kernel takes n units; the rest waits in dw_buffer for the socket    *)
(* thread, which is told to look for the socket's write event.             *)
DirectWrite(t, n) ==
    LET all == UnitsOf(th[t].m)
        s == S(t) IN
    /\ th[t].pc = "write"
    /\ wire' = [wire EXCEPT ![th[t].id] = @ \o SubSeq(all, 1, n)]
    /\ slot' = [slot EXCEPT ![s].lock = None,
                            ![s].dw = SubSeq(all, n + 1, Units),
                            ![s].wr = @ \/ n < Units]
    /\ Step(t, Idle)
    /\ UNCHANGED <<alloc_id, pipe, net, ev, known, sent, crash>>

IncSendingMutant(t) ==
    LET s == S(t) IN
    /\ th[t].pc = "inc"
    /\ slot' = IF slot[s].tcp THEN [slot EXCEPT ![s].cnt = @ + 1] ELSE slot
    /\ Go(t, "pipe")
    /\ UNCHANGED <<alloc_id, pipe, net, ev, wire, known, sent, crash>>

IncSendingSkipped(t) ==
    /\ th[t].pc = "inc" /\ Go(t, "pipe")
    /\ UNCHANGED <<slot, alloc_id, pipe, net, ev, wire, known, sent, crash>>

(* inc_sending_ref, which looks at the tag so as not to count for another  *)
(* socket in the same slot.                                                *)
IncSending(t) ==
    LET s == S(t) IN
    /\ th[t].pc = "inc"
    /\ slot' = IF slot[s].tcp /\ slot[s].tag = IdTag(th[t].id)
               THEN [slot EXCEPT ![s].cnt = @ + 1] ELSE slot
    /\ Go(t, "pipe")
    /\ UNCHANGED <<alloc_id, pipe, net, ev, wire, known, sent, crash>>

SendRequest(t) ==
    /\ th[t].pc = "pipe"
    /\ pipe' = Append(pipe, Cmd(th[t].c, th[t].id, th[t].m, FALSE))
    /\ Step(t, Idle)
    /\ known' = IF th[t].c = "L" THEN known \cup {th[t].id} ELSE known
    /\ UNCHANGED <<slot, alloc_id, net, ev, wire, sent, crash>>

(* socket_server_close, socket_server_shutdown and socket_server_start,    *)
(* each once for a socket: an endless stream of commands keeps the socket  *)
(* thread from its events.                                                 *)
Request(t, c, id, sd) ==
    /\ th[t].pc = "idle" /\ id \in known
    /\ <<c, id, sd>> \notin asked
    /\ asked' = asked \cup {<<c, id, sd>>}
    /\ pipe' = Append(pipe, Cmd(c, id, None, sd))
    /\ UNCHANGED <<slot, alloc_id, th, net, ev, wire, known, sent, crash>>

WorkerStep(t) ==
    \/ SetId(t) \/ TryDirect(t) \/ CheckDirect(t) \/ IncSending(t) \/ SendRequest(t)
    \/ \E n \in 0 .. Units : DirectWrite(t, n)

WorkerCall(t) ==
    \/ Reserve(t, IF use.listen /\ alloc_id = 0 THEN "L" ELSE "O")
    \/ \E id \in Id, c \in use.priority : Send(t, id, c)

WorkerRequest(t) ==
    \E id \in Id : \/ \E sd \in use.kill : Request(t, "K", id, sd)
                   \/ use.listen /\ Request(t, "S", id, FALSE)

-----------------------------------------------------------------------------
(* The socket thread.  It closes a socket in two steps: the lists are      *)
(* freed first, then the lock is taken and the slot given back.  After a   *)
(* command it also looks for events of the closed socket.                  *)

Goto(pc, s, id) == net' = [net EXCEPT !.pc = pc, !.s = s, !.id = id]

Freed(r) == [r EXCEPT !.high = <<>>, !.low = <<>>]

CloseFreedMutant ==
    LET s == net.s IN
    /\ net.pc \in {"close", "ctlclose"}
    /\ slot' = [slot EXCEPT ![s].type = "invalid", ![s].dw = <<>>, ![s].wr = FALSE,
                            ![s].ep = FALSE, ![s].lock = None]
    /\ Goto(IF net.pc = "ctlclose" THEN "clear" ELSE "poll", s, slot[s].id)
    /\ UNCHANGED <<alloc_id, pipe, th, ev, wire, known, sent, crash>>

CloseFreed ==
    LET s == net.s IN
    /\ net.pc \in {"close", "ctlclose"} /\ slot[s].lock \in {None, Net}
    /\ slot' = [slot EXCEPT ![s].type = "invalid", ![s].dw = <<>>, ![s].wr = FALSE,
                            ![s].ep = FALSE, ![s].lock = None]
    /\ Goto(IF net.pc = "ctlclose" THEN "clear" ELSE "poll", s, slot[s].id)
    /\ UNCHANGED <<alloc_id, pipe, th, ev, wire, known, sent, crash>>

(* clear_closed_event: the event stays, without its socket.                *)
ClearEvents ==
    LET Stale(e) == e.s # None /\ slot[e.s].type = "invalid" /\ slot[e.s].id = net.id IN
    /\ net.pc = "clear"
    /\ ev' = [i \in DOMAIN ev |-> IF Stale(ev[i]) THEN [ev[i] EXCEPT !.s = None] ELSE ev[i]]
    /\ Goto("poll", 0, 0)
    /\ UNCHANGED <<slot, alloc_id, pipe, th, wire, known, sent, crash>>

-----------------------------------------------------------------------------
MergedMutant(r) == [r EXCEPT !.high = @ \o r.dw, !.dw = <<>>]

(* send_buffer: what a direct write left over goes first, the high list    *)
(* before the low one, and a message of the low list that was written in   *)
(* part moves to the high list.                                            *)
Merged(r) == [r EXCEPT !.high = r.dw \o @, !.dw = <<>>]

RaiseUncomplete(r) ==
    IF r.high # <<>> \/ r.low = <<>> THEN r
    ELSE LET rest == (Units + 1 - Head(r.low).k) % Units IN
         [r EXCEPT !.high = SubSeq(r.low, 1, rest), !.low = SubSeq(@, rest + 1, Len(@))]

Drain(r, k) ==
    LET h == IF k < Len(r.high) THEN k ELSE Len(r.high)
        rest == [r EXCEPT !.high = SubSeq(@, h + 1, Len(@)),
                          !.low = SubSeq(@, k - h + 1, Len(@))] IN
    [RaiseUncomplete(rest) EXCEPT !.wr = rest.high # <<>> \/ rest.low # <<>>]

(* How much the kernel may take now.                                       *)
Taken(s) == LET r == Merged(slot[s]) IN
    0 .. IF slot[s].type \in {"connected", "halfclose"} THEN Len(r.high) + Len(r.low) ELSE 0

(* The write event of a socket, and the same within a close command.       *)
SendBuffer(s, k) ==
    LET r == Merged(slot[s]) IN
    /\ wire' = [wire EXCEPT ![slot[s].id] = @ \o SubSeq(r.high \o r.low, 1, k)]
    /\ slot' = [slot EXCEPT ![s] = Drain(r, k)]

-----------------------------------------------------------------------------
(* ctrl_cmd, one action per command.                                       *)

Command(cs) ==
    /\ net.pc = "poll" /\ net.ctl /\ pipe # <<>> /\ Head(pipe).c \in cs
    /\ pipe' = Tail(pipe)
    /\ UNCHANGED <<alloc_id, th, sent>>

Target == HashId(Head(pipe).id)
Gone == slot[Target].type = "invalid" \/ slot[Target].id # Head(pipe).id
Live == ~Gone /\ slot[Target].type # "reserve"

NewFd(r, id, type) ==
    [r EXCEPT !.id = id, !.tcp = TRUE, !.tag = IdTag(id), !.cnt = 0, !.dw = <<>>,
              !.type = type, !.wr = type = "connecting",
              !.ep = type \notin {"paccept", "plisten"}]

(* check_wb_list, in new_fd: the lists of a slot that is taken are empty.  *)
Fill(id, type) ==
    /\ slot' = [slot EXCEPT ![HashId(id)] = NewFd(@, id, type)]
    /\ crash' = IF SendBufferEmpty(HashId(id)) THEN crash ELSE "slot"

OpenSocket(type) ==
    /\ Command({"O"})
    /\ Fill(Head(pipe).id, type)
    /\ known' = IF type = "connected" THEN known \cup {Head(pipe).id} ELSE known
    /\ UNCHANGED <<net, ev, wire>>

OpenFails ==
    /\ Command({"O"})
    /\ slot' = [slot EXCEPT ![Target].type = "invalid"]
    /\ UNCHANGED <<net, ev, wire, known, crash>>

ListenSocket ==
    /\ Command({"L"})
    /\ Fill(Head(pipe).id, "plisten")
    /\ UNCHANGED <<net, ev, wire, known>>

StartSocket ==
    /\ Command({"S"})
    /\ slot' = IF Gone THEN slot
               ELSE [slot EXCEPT ![Target].ep = @ \/ slot[Target].type \in {"paccept", "plisten"},
                                 ![Target].type = CASE @ = "paccept" -> "connected"
                                                    [] @ = "plisten" -> "listen"
                                                    [] OTHER -> @]
    /\ UNCHANGED <<net, ev, wire, known, crash>>

(* sp_add fails.                                                           *)
StartFails ==
    /\ Command({"S"}) /\ ~Gone /\ slot[Target].type \in {"paccept", "plisten"}
    /\ slot' = [slot EXCEPT ![Target] = Freed(@)]
    /\ Goto("ctlclose", Target, 0)
    /\ UNCHANGED <<ev, wire, known, crash>>

(* send_socket, then dec_sending_ref with its assertion.  A message to a   *)
(* socket that does not take any is dropped.                               *)
Refuses == Gone \/ slot[Target].type \in {"halfclose", "paccept", "plisten", "listen"}

AppendedMutant(r, c, m) ==
    IF c = "D" THEN [r EXCEPT !.high = @ \o UnitsOf(m)]
    ELSE [r EXCEPT !.low = @ \o UnitsOf(m)]

Appended(r, c, m) ==
    LET first == r.high = <<>> /\ r.low = <<>> /\ r.type = "connected" IN
    IF c = "D" \/ first THEN [r EXCEPT !.high = @ \o UnitsOf(m), !.wr = @ \/ first]
    ELSE [r EXCEPT !.low = @ \o UnitsOf(m)]

SendSocket ==
    LET cmd == Head(pipe)
        after == IF Refuses THEN slot[Target] ELSE Appended(slot[Target], cmd.c, cmd.m)
        counts == slot[Target].id = cmd.id /\ slot[Target].tcp IN
    /\ Command({"D", "P"})
    /\ slot' = [slot EXCEPT ![Target] = [after EXCEPT !.cnt = IF counts THEN @ - 1 ELSE @]]
    /\ crash' = IF counts /\ slot[Target].cnt = 0 THEN "sending" ELSE crash
    /\ UNCHANGED <<net, ev, wire, known>>

(* close_socket: try once more to write what is left, then close, or leave *)
(* the socket half closed until it is written.                             *)
CloseGone ==
    /\ Command({"K"}) /\ Gone
    /\ Goto("clear", 0, Head(pipe).id)
    /\ UNCHANGED <<slot, ev, wire, known, crash>>

(* The slot has been reserved again and still has the old id: force_close  *)
(* refuses to close it or, when that is put off, new_fd to take it.        *)
CloseReserved ==
    /\ Command({"K"}) /\ ~Gone /\ slot[Target].type = "reserve"
    /\ crash' = "slot"
    /\ UNCHANGED <<slot, net, ev, wire, known>>

CloseNow ==
    LET s == Target IN
    /\ Command({"K"}) /\ Live
    /\ NoMoreSending(s) \/ (Head(pipe).sd /\ slot[s].lock # None)
    /\ slot' = [slot EXCEPT ![s] = Freed(@)]
    /\ Goto("ctlclose", s, 0)
    /\ UNCHANGED <<ev, wire, known, crash>>

CloseLaterMutant ==
    LET s == Target IN
    /\ Command({"K"}) /\ Live /\ ~NoMoreSending(s) /\ slot[s].lock # None
    /\ slot' = [slot EXCEPT ![s].type = "halfclose"]
    /\ UNCHANGED <<net, ev, wire, known, crash>>

CloseLater ==
    LET s == Target IN
    /\ Command({"K"}) /\ Live /\ ~NoMoreSending(s)
    /\ slot[s].lock # None /\ ~Head(pipe).sd
    /\ slot' = [slot EXCEPT ![s].type = "halfclose"]
    /\ UNCHANGED <<net, ev, wire, known, crash>>

CloseAfterSend(k) ==
    LET s == Target
        r == Drain(Merged(slot[s]), k)
        empty == r.high = <<>> /\ r.low = <<>>
        closed == \/ empty /\ slot[s].type = "halfclose"
                  \/ empty /\ r.cnt = 0
                  \/ Head(pipe).sd IN
    /\ Command({"K"}) /\ Live /\ ~NoMoreSending(s) /\ slot[s].lock = None
    /\ wire' = [wire EXCEPT ![slot[s].id] =
                    @ \o SubSeq(slot[s].dw \o slot[s].high \o slot[s].low, 1, k)]
    /\ slot' = [slot EXCEPT ![s] = IF closed THEN Freed(r) ELSE [r EXCEPT !.type = "halfclose"]]
    /\ IF closed THEN Goto("ctlclose", s, 0) ELSE net' = net
    /\ UNCHANGED <<ev, known, crash>>

(* The write within a close command fails.                                 *)
CloseSendFails ==
    LET s == Target IN
    /\ Command({"K"}) /\ Live /\ ~NoMoreSending(s) /\ slot[s].lock = None
    /\ slot[s].dw # <<>> \/ ~SendBufferEmpty(s)
    /\ slot' = [slot EXCEPT ![s] = [Freed(Merged(@)) EXCEPT !.lock = Net]]
    /\ Goto("ctlclose", s, 0)
    /\ UNCHANGED <<ev, wire, known, crash>>

-----------------------------------------------------------------------------
(* socket_server_poll.  The first event of an sp_wait is handled at once   *)
(* (unless it is the pipe's); then all commands are carried out, and then  *)
(* the other events without a look at the pipe (checkctrl is net.ctl).     *)
Registered == {s \in Slot : slot[s].ep}
Writable == {s \in Registered : slot[s].wr}

(* The orders in which the kernel may report a set of sockets.             *)
Orders(A) == {f \in [1 .. Cardinality(A) -> A] : \A s \in A : \E i \in DOMAIN f : f[i] = s}

Wait(R, W, pc) ==
    /\ net.pc = "poll" /\ ev = <<>>
    /\ ~net.ctl \/ pipe = <<>>
    /\ R \cup W # {} \/ pipe # <<>>
    /\ \E f \in Orders(R \cup W) :
          ev' = [i \in DOMAIN f |-> [s |-> f[i], read |-> f[i] \in R, write |-> f[i] \in W]]
    /\ pc = "first" => R \cup W # {}
    /\ pc = "poll" => pipe # <<>>
    /\ net' = [net EXCEPT !.ctl = TRUE, !.pc = pc]
    /\ UNCHANGED <<slot, alloc_id, pipe, th, wire, known, sent, crash>>

SomeWait == \E R \in SUBSET Registered : \E W \in SUBSET Writable :
                \E pc \in {"first", "poll"} : Wait(R, W, pc)
FullWait == \E pc \in {"first", "poll"} : Wait({}, Writable, pc)

E == Head(ev)
AtEvent ==
    /\ net.pc = "first" \/ (net.pc = "poll" /\ (~net.ctl \/ pipe = <<>>))
    /\ ev # <<>>
    /\ UNCHANGED <<pipe, th, sent>>
Event(types) == AtEvent /\ E.s # None /\ slot[E.s].type \in types
Handled(pc, s) == net' = [net EXCEPT !.ctl = net.pc = "first", !.pc = pc, !.s = s]
NextEvent == ev' = Tail(ev) /\ Handled("poll", 0)
CloseOnEvent(s) == ev' = Tail(ev) /\ Handled("close", s)

(* report_connect, without the lock: the socket becomes connected, and if  *)
(* nothing waits to be written, its write event is not looked for any      *)
(* longer.  A worker may write to the socket between any two of the steps, *)
(* if it does not wait until it is told, when report_connect returns.      *)
ReportConnect ==
    /\ Event({"connecting"})
    /\ slot' = [slot EXCEPT ![E.s].type = "connected"]
    /\ ev' = Tail(ev) /\ Handled("connect", E.s)
    /\ UNCHANGED <<alloc_id, wire, known, crash>>

ConnectReported ==
    /\ known' = known \cup {slot[net.s].id}
    /\ net' = [net EXCEPT !.pc = "poll", !.s = 0]

ConnectTest ==
    /\ net.pc = "connect"
    /\ IF NoMoreSending(net.s) THEN net' = [net EXCEPT !.pc = "unwatch"] /\ known' = known
       ELSE ConnectReported
    /\ UNCHANGED <<slot, alloc_id, pipe, th, ev, wire, sent, crash>>

ConnectUnwatch ==
    /\ net.pc = "unwatch"
    /\ slot' = [slot EXCEPT ![net.s].wr = FALSE]
    /\ ConnectReported
    /\ UNCHANGED <<alloc_id, pipe, th, ev, wire, sent, crash>>

ConnectFails ==
    /\ Event({"connecting"})
    /\ slot' = [slot EXCEPT ![E.s] = Freed(@)]
    /\ CloseOnEvent(E.s)
    /\ UNCHANGED <<alloc_id, wire, known, crash>>

(* The socket thread reserves and fills the slot of an accepted connection. *)
ReportAccept ==
    LET id == alloc_id + 1 IN
    /\ Event({"listen"}) /\ id <= use.ids
    /\ alloc_id' = id
    /\ IF slot[HashId(id)].type = "invalid"
       THEN Fill(id, "paccept") /\ known' = known \cup {id} /\ NextEvent
       ELSE UNCHANGED <<slot, known, ev, net, crash>>
    /\ UNCHANGED wire

(* accept finds no connection, or no number is left.                       *)
AcceptNothing ==
    /\ Event({"listen"})
    /\ NextEvent
    /\ UNCHANGED <<slot, alloc_id, wire, known, crash>>

(* An event that has lost its socket is passed over.                       *)
NullEvent ==
    /\ AtEvent /\ E.s = None
    /\ NextEvent
    /\ UNCHANGED <<slot, alloc_id, wire, known, crash>>

(* An event of a slot that has been closed since sp_wait is ignored; if    *)
(* the slot has been reserved again, reading from no descriptor fails and  *)
(* force_close refuses to close a reserved slot.                           *)
StaleEvent ==
    /\ Event({"invalid", "reserve"})
    /\ crash' = IF slot[E.s].type = "reserve" /\ E.read THEN "slot" ELSE crash
    /\ NextEvent
    /\ UNCHANGED <<slot, alloc_id, wire, known>>

Open == {"connected", "halfclose", "paccept", "plisten"}

(* Data goes to the service, or nowhere when the socket is half closed; a  *)
(* write event of the same socket follows.                                 *)
ReadData ==
    /\ Event(Open) /\ E.read
    /\ ev' = IF E.write THEN <<[E EXCEPT !.read = FALSE]>> \o Tail(ev) ELSE Tail(ev)
    /\ Handled("poll", 0)
    /\ UNCHANGED <<slot, alloc_id, wire, known, crash>>

(* End of file, or an error.                                               *)
ReadCloses ==
    /\ Event(Open) /\ E.read
    /\ slot' = [slot EXCEPT ![E.s] = Freed(@)]
    /\ CloseOnEvent(E.s)
    /\ UNCHANGED <<alloc_id, wire, known, crash>>

WriteBlocked ==
    /\ Event(Open) /\ ~E.read /\ slot[E.s].lock # None
    /\ NextEvent
    /\ UNCHANGED <<slot, alloc_id, wire, known, crash>>

WriteEvent(k) ==
    LET s == E.s IN
    /\ Event(Open) /\ ~E.read /\ slot[s].lock = None
    /\ SendBuffer(s, k)
    /\ IF slot'[s].high = <<>> /\ slot'[s].low = <<>> /\ slot[s].type = "halfclose"
       THEN CloseOnEvent(s) ELSE NextEvent
    /\ UNCHANGED <<alloc_id, known, crash>>

WriteFails ==
    LET s == E.s IN
    /\ Event(Open) /\ ~E.read /\ slot[s].lock = None
    /\ slot[s].dw # <<>> \/ ~SendBufferEmpty(s)
    /\ slot' = [slot EXCEPT ![s] = [Freed(Merged(@)) EXCEPT !.lock = Net]]
    /\ CloseOnEvent(s)
    /\ UNCHANGED <<alloc_id, wire, known, crash>>

-----------------------------------------------------------------------------
Init ==
    /\ use \in Uses /\ asked = {}
    /\ slot = [s \in Slot |-> [type |-> "invalid", id |-> 0, tcp |-> FALSE, tag |-> 0,
                               cnt |-> 0, high |-> <<>>, low |-> <<>>, dw |-> <<>>,
                               wr |-> FALSE, ep |-> FALSE, lock |-> None]]
    /\ alloc_id = 0 /\ pipe = <<>> /\ ev = <<>> /\ known = {} /\ sent = 0 /\ crash = None
    /\ th = [t \in Sender |-> Idle]
    /\ net = [pc |-> "poll", s |-> 0, id |-> 0, ctl |-> TRUE]
    /\ wire = [id \in Id |-> <<>>]

Commands ==
    \/ \E type \in {"connected", "connecting"} : OpenSocket(type)
    \/ OpenFails
    \/ ListenSocket \/ StartSocket \/ StartFails \/ SendSocket
    \/ CloseGone \/ CloseReserved \/ CloseNow \/ CloseLater \/ CloseSendFails
    \/ pipe # <<>> /\ \E k \in Taken(Target) : CloseAfterSend(k)

Events ==
    \/ NullEvent \/ ReportConnect \/ ConnectFails \/ ReportAccept \/ AcceptNothing
    \/ StaleEvent \/ ReadData \/ ReadCloses \/ WriteBlocked \/ WriteFails
    \/ ev # <<>> /\ E.s # None /\ \E k \in Taken(E.s) : WriteEvent(k)

SocketThread ==
    \/ CloseFreed \/ ClearEvents \/ ConnectTest \/ ConnectUnwatch
    \/ Commands \/ Events \/ SomeWait

(* A failed assertion ends the process.                                    *)
Crashed == crash # None /\ UNCHANGED vars

Runs(step) == crash = None /\ step /\ UNCHANGED <<use, asked>>

Next ==
    \/ Runs(SocketThread)
    \/ \E t \in Sender : Runs(WorkerStep(t))
    \/ \E t \in use.senders : Runs(WorkerCall(t))
    \/ \E t \in use.senders : crash = None /\ WorkerRequest(t) /\ use' = use
    \/ Crashed

Spec == Init /\ [][Next]_vars

(* Every thread runs on, sp_wait reports a socket that can be written, and *)
(* the kernel takes something in the end.                                  *)
Fairness ==
    /\ WF_vars(Runs(SocketThread)) /\ SF_vars(Runs(FullWait))
    /\ SF_vars(Runs(ev # <<>> /\ E.s # None /\ \E k \in Taken(E.s) \ {0} : WriteEvent(k)))
    /\ \A t \in Sender : WF_vars(Runs(WorkerStep(t)))

FairSpec == Spec /\ Fairness

-----------------------------------------------------------------------------
(* Every variable has its type.                                            *)
TypeOK ==
    /\ use \in Uses
    /\ slot \in [Slot -> [type : {"invalid", "reserve", "plisten", "listen", "connecting",
                                  "connected", "halfclose", "paccept"},
                          id : 0 .. use.ids, tcp : BOOLEAN, tag : Nat, cnt : 0 .. use.msgs,
                          high : Seq(Unit), low : Seq(Unit), dw : Seq(Unit),
                          wr : BOOLEAN, ep : BOOLEAN, lock : Sender \cup {None, Net}]]
    /\ alloc_id \in 0 .. use.ids /\ known \subseteq Id /\ sent \in 0 .. use.msgs
    /\ \A t \in Sender : th[t].pc \in {"idle", "setid", "try", "check", "write", "inc", "pipe"}
    /\ net.pc \in {"poll", "first", "close", "ctlclose", "clear", "connect", "unwatch"}
    /\ wire \in [Id -> Seq(Unit)]
    /\ crash \in {None, "sending", "slot"}

(* The socket with this id is in use and not being closed.                 *)
InUse(id) ==
    LET s == HashId(id) IN
    /\ crash = None
    /\ slot[s].id = id /\ slot[s].type \in {"connected", "halfclose"}
    /\ ~(net.pc \in {"close", "ctlclose"} /\ net.s = s)

(* Messages are not torn: what the peer of a socket has got is whole       *)
(* messages, the last one perhaps in part, although three lists and a      *)
(* second thread feed the same descriptor; and the rest of the last one is *)
(* what will be written next.                                              *)
NotTorn ==
    \A id \in Id : InUse(id) =>
        LET r == slot[HashId(id)]
            all == wire[id] \o r.dw \o r.high IN
        /\ Len(all) % Units = 0
        /\ \A i \in 1 .. Len(all) :
               /\ all[i].k = 1 + ((i - 1) % Units)
               /\ all[i].k > 1 => all[i].m = all[i - 1].m
        /\ r.low # <<>> => Head(r.low).k = 1

(* Messages of normal priority that one thread sends arrive in the order   *)
(* in which it sent them, whether it wrote them itself or had them written. *)
InOrder ==
    \A id \in Id : InUse(id) =>
        \A i, j \in 1 .. Len(wire[id]) : LET a == wire[id][i].m  b == wire[id][j].m IN
            i < j /\ a[1] = b[1] /\ a[3] = "D" /\ b[3] = "D" => a[2] <= b[2]

(* A thread that writes to a descriptor outside the socket thread writes  *)
(* to the socket it was asked for: the descriptor is not closed under it.  *)
OwnWire ==
    \A t \in Sender : th[t].pc = "write" =>
        slot[S(t)].id = th[t].id /\ slot[S(t)].type \in {"connected", "halfclose"}

(* What waits to be written will be: the socket thread is looking for the  *)
(* write event of every socket with something in a buffer.                 *)
WriteWatched ==
    \A id \in Id : LET r == slot[HashId(id)] IN
        InUse(id) /\ r.high \o r.low \o r.dw # <<>> => r.wr /\ r.ep

(* sending counts the messages of the socket between inc_sending_ref and   *)
(* dec_sending_ref, so a direct write cannot overtake them.                *)
SendingCounted ==
    \A id \in Id : InUse(id) =>
        slot[HashId(id)].cnt =
            Cardinality({i \in 1 .. Len(pipe) : pipe[i].m # None /\ pipe[i].id = id})
            + Cardinality({t \in Sender : th[t].pc = "pipe" /\ th[t].m # None /\ th[t].id = id})

(* "assert((s->sending & 0xffff) != 0)" in dec_sending_ref.                *)
SendingAssert == crash # "sending"

(* "assert(s->type != SOCKET_TYPE_RESERVE)" in force_close, and the        *)
(* assertions of new_fd that the slot is reserved and its lists are empty. *)
SlotAssert == crash # "slot"

(* A socket that a service has shut down is closed in the end, and so is   *)
(* one it has closed that still has something to write.                    *)
CloseServed == \A id \in Id :
    LET r == slot[HashId(id)] IN
    (\/ \E i \in 1 .. Len(pipe) : pipe[i].c = "K" /\ pipe[i].id = id /\ pipe[i].sd
     \/ r.id = id /\ r.type = "halfclose" /\ ~SendBufferEmpty(HashId(id)))
        ~> (crash # None \/ r.id # id \/ r.type = "invalid")

(* What a peer reads: whole messages of its own socket, in the order in    *)
(* which a thread sent them.                                               *)
WireOK == TypeOK /\ NotTorn /\ InOrder /\ OwnWire

(* The count of messages under way is right where a decision rests on it,  *)
(* and dec_sending_ref's assertion holds.                                  *)
SendingOK == SendingCounted /\ SendingAssert
=============================================================================
