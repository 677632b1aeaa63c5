------------------------------- MODULE Gateway -------------------------------
(***************************************************************************)
(* A client connection from accept to the end: snax/gateserver.lua or      *)
(* gateserver_ws.lua (connection, client_number), tcpGateway.lua           *)
(* (_connection), and the tcpConnection service that the gateway creates   *)
(* for the client.  They talk through mailboxes: the gateway's box holds   *)
(* what the socket thread and the connection services send it.  Creating a *)
(* service, asking the gateway to forward, and asking it to kick are calls *)
(* in the middle of a handler, so other messages are handled meanwhile.    *)
(*                                                                         *)
(* A client's socket and its connection service have the same number. The  *)
(* requests themselves and the closing of a socket with unsent data        *)
(* (SocketServer) are left out.                                            *)
(***************************************************************************)
EXTENDS FiniteSets, Integers, Sequences

CONSTANTS
    Fd,
    MaxClient, \* maxclient
    MaxData,   \* bound: packets of a client
    Web        \* gateserver_ws.lua rather than snax/gateserver.lua?

ASSUME GateAssumption == MaxClient \in Nat /\ MaxData \in Nat /\ Web \in BOOLEAN

VARIABLES
    sock,       \* "new", "accepted", "open", "shut"
    kill,       \* sockets the gateway has asked to close
    gbox,       \* the gateway's mailbox
    connection, \* gateserver's connection[fd]: "nil", "true", "false"
    number,     \* client_number
    entry,      \* _connection[fd]: "nil", "bare" (no agent) or "agent"
    agent,      \* where the connection service is
    exits,      \* connection services with an "exit" in their mailbox
    inbox,      \* per service: packets to be handled
    sent,       \* per client: packets sent
    session,    \* services whose client has logged in
    told        \* clients whose disconnection has been dispatched

vars == <<sock, kill, gbox, connection, number, entry, agent, exits, inbox, sent,
          session, told>>
gate == <<connection, number, entry, kill, exits>>

Msg(t, fd) == [t |-> t, fd |-> fd]
Post(t, fd) == gbox' = Append(gbox, Msg(t, fd))

-----------------------------------------------------------------------------
(* Clients and the socket thread.  A socket is watched once it is started. *)
ClientConnect(fd) ==
    /\ sock[fd] = "new"
    /\ sock' = [sock EXCEPT ![fd] = "accepted"]
    /\ Post("open", fd)
    /\ UNCHANGED <<gate, agent, inbox, sent, session, told>>

(* A packet, or one that is too short.                                     *)
ClientSend(fd, t) ==
    /\ sock[fd] = "open" /\ sent[fd] < MaxData /\ (Web => t = "data")
    /\ sent' = [sent EXCEPT ![fd] = @ + 1]
    /\ Post(t, fd)
    /\ UNCHANGED <<sock, gate, agent, inbox, session, told>>

ClientClose(fd) ==
    /\ sock[fd] = "open"
    /\ sock' = [sock EXCEPT ![fd] = "shut"]
    /\ Post("close", fd)
    /\ UNCHANGED <<gate, agent, inbox, sent, session, told>>

(* The close command is answered also when the socket is closed already.   *)
SocketKill(fd) ==
    /\ fd \in kill
    /\ kill' = kill \ {fd}
    /\ sock' = [sock EXCEPT ![fd] = "shut"]
    /\ Post("close", fd)
    /\ UNCHANGED <<connection, number, entry, agent, exits, inbox, sent, session, told>>

-----------------------------------------------------------------------------
(* The gateway.  gateserver.closeclient, and close_fd of tcpGateway, which *)
(* tells the connection service to exit.                                   *)
Closable(fd) == connection[fd] = "true"

CloseClients(fds) ==
    LET c == {fd \in fds : Closable(fd)} IN
    /\ connection' = [fd \in Fd |-> IF fd \in c THEN (IF Web THEN "nil" ELSE "false")
                                    ELSE connection[fd]]
    /\ kill' = kill \cup c

CloseFdMutant(fd) == exits' = exits /\ entry' = [entry EXCEPT ![fd] = "nil"]

CloseFd(fd) ==
    /\ exits' = IF entry[fd] = "agent" THEN exits \cup {fd} ELSE exits
    /\ entry' = [entry EXCEPT ![fd] = "nil"]

Take(t) == gbox # <<>> /\ Head(gbox).t = t /\ gbox' = Tail(gbox)
F == Head(gbox).fd

(* MSG.open and handler.connect up to the creation of the service.         *)
GateOpen ==
    /\ Take("open")
    /\ IF number >= MaxClient
       THEN kill' = kill \cup {F} /\ UNCHANGED <<connection, number, entry, agent>>
       ELSE /\ connection' = [connection EXCEPT ![F] = "true"]
            /\ number' = number + 1
            /\ entry' = [entry EXCEPT ![F] = "bare"]
            /\ agent' = [agent EXCEPT ![F] = "creating"]
            /\ kill' = kill
    /\ UNCHANGED <<sock, exits, inbox, sent, session, told>>

(* The rest of handler.connect: the service is there and told to start.    *)
AgentCreated(fd) ==
    /\ agent[fd] = "creating"
    /\ agent' = [agent EXCEPT ![fd] = "starting"]
    /\ UNCHANGED <<sock, gbox, gate, inbox, sent, session, told>>

(* CMD.forward, with its assertion; gateserver.openclient starts the       *)
(* socket.  A call that fails ends the service's start, not the service.   *)
GateForward ==
    /\ Take("forward")
    /\ IF entry[F] = "nil"
       THEN agent' = [agent EXCEPT ![F] = "failed"] /\ UNCHANGED <<entry, sock>>
       ELSE /\ entry' = [entry EXCEPT ![F] = "agent"]
            /\ agent' = [agent EXCEPT ![F] = "running"]
            /\ sock' = [sock EXCEPT ![F] = IF Closable(F) /\ @ = "accepted" THEN "open" ELSE @]
    /\ UNCHANGED <<connection, number, kill, exits, inbox, sent, session, told>>

GateMessageMutant ==
    /\ Take("data")
    /\ IF entry[F] = "agent"
       THEN inbox' = [inbox EXCEPT ![F] = @ + 1] /\ UNCHANGED <<exits, entry>>
       ELSE CloseFd(F) /\ inbox' = inbox
    /\ UNCHANGED <<sock, connection, number, kill, agent, sent, session, told>>

(* dispatch_msg and handler.message.                                       *)
GateMessage ==
    /\ Take("data")
    /\ CASE ~Closable(F) -> UNCHANGED <<exits, entry, inbox>>
         [] Closable(F) /\ entry[F] = "agent" ->
                inbox' = [inbox EXCEPT ![F] = @ + 1] /\ UNCHANGED <<exits, entry>>
         [] OTHER -> CloseFd(F) /\ inbox' = inbox
    /\ UNCHANGED <<sock, connection, number, kill, agent, sent, session, told>>

GateBad ==
    /\ Take("bad")
    /\ IF Closable(F) THEN CloseFd(F) ELSE UNCHANGED <<exits, entry>>
    /\ UNCHANGED <<sock, connection, number, kill, agent, inbox, sent, session, told>>

GateCloseMutant ==
    /\ Take("close")
    /\ CloseFd(F)
    /\ connection' = [connection EXCEPT ![F] = "nil"]
    /\ number' = number - 1
    /\ UNCHANGED <<sock, kill, agent, inbox, sent, session, told>>

(* MSG.close.                                                              *)
GateClose ==
    /\ Take("close")
    /\ CloseFd(F)
    /\ connection' = [connection EXCEPT ![F] = "nil"]
    /\ number' = IF connection[F] # "nil" THEN number - 1 ELSE number
    /\ UNCHANGED <<sock, kill, agent, inbox, sent, session, told>>

(* CMD.kick, and the end of the service that called it.                    *)
GateKick ==
    /\ Take("kick")
    /\ CloseClients({F})
    /\ agent' = [agent EXCEPT ![F] = "gone"]
    /\ UNCHANGED <<sock, number, entry, exits, inbox, sent, session, told>>

KickAll ==
    LET fds == {fd \in Fd : entry[fd] # "nil"} IN
    /\ \E fd \in fds : Closable(fd)
    /\ CloseClients(fds)
    /\ UNCHANGED <<sock, gbox, number, entry, agent, exits, inbox, sent, session, told>>

(* onTimercheckTimeout finds a client that has been silent (the check of   *)
(* wsGateway.lua is commented out).                                        *)
Timeout(fd) ==
    /\ ~Web /\ entry[fd] # "nil"
    /\ CloseClients({fd}) /\ CloseFd(fd)
    /\ UNCHANGED <<sock, gbox, number, agent, inbox, sent, session, told>>

-----------------------------------------------------------------------------
(* The connection service.  cmd_start.                                     *)
AgentStart(fd) ==
    /\ agent[fd] = "starting"
    /\ agent' = [agent EXCEPT ![fd] = "asked"]
    /\ Post("forward", fd)
    /\ UNCHANGED <<sock, gate, inbox, sent, session, told>>

(* pbPacketDispatch, in the service's critical section.                    *)
AgentRequest(fd) ==
    /\ agent[fd] = "running" /\ inbox[fd] > 0
    /\ inbox' = [inbox EXCEPT ![fd] = @ - 1]
    /\ agent' = [agent EXCEPT ![fd] = "busy"]
    /\ UNCHANGED <<sock, gbox, gate, sent, session, told>>

(* The controller answers; a login has set the session before.             *)
AgentAnswer(fd, login) ==
    /\ agent[fd] = "busy"
    /\ session' = IF login THEN session \cup {fd} ELSE session
    /\ agent' = [agent EXCEPT ![fd] = "running"]
    /\ UNCHANGED <<sock, gbox, gate, inbox, sent, told>>

LeaveMutant(fd) == agent' = [agent EXCEPT ![fd] = "gone"] /\ told' = told /\ gbox' = gbox

(* exit.                                                                   *)
Leave(fd) ==
    /\ told' = IF fd \in session THEN told \cup {fd} ELSE told
    /\ agent' = [agent EXCEPT ![fd] = "leaving"]
    /\ Post("kick", fd)

AgentRefused(fd) ==
    /\ agent[fd] = "busy"
    /\ Leave(fd)
    /\ UNCHANGED <<sock, gate, inbox, sent, session>>

(* The gateway's "exit" came after the packets, and waits for them.        *)
AgentExit(fd) ==
    /\ fd \in exits /\ agent[fd] = "running" /\ inbox[fd] = 0
    /\ exits' = exits \ {fd}
    /\ Leave(fd)
    /\ UNCHANGED <<sock, connection, number, entry, kill, inbox, sent, session>>

-----------------------------------------------------------------------------
Init ==
    /\ sock = [fd \in Fd |-> "new"] /\ kill = {} /\ gbox = <<>>
    /\ connection = [fd \in Fd |-> "nil"] /\ number = 0
    /\ entry = [fd \in Fd |-> "nil"] /\ agent = [fd \in Fd |-> "none"]
    /\ exits = {} /\ inbox = [fd \in Fd |-> 0] /\ sent = [fd \in Fd |-> 0]
    /\ session = {} /\ told = {}

Gate == GateOpen \/ GateForward \/ GateMessage \/ GateBad \/ GateClose \/ GateKick

Agent(fd) ==
    \/ AgentCreated(fd) \/ AgentStart(fd) \/ AgentRequest(fd) \/ AgentExit(fd)
    \/ AgentRefused(fd) \/ \E login \in BOOLEAN : AgentAnswer(fd, login)

Client(fd) == ClientConnect(fd) \/ ClientClose(fd)
              \/ \E t \in {"data", "bad"} : ClientSend(fd, t)

Next ==
    \/ Gate \/ KickAll
    \/ \E fd \in Fd : Agent(fd) \/ Client(fd) \/ SocketKill(fd) \/ Timeout(fd)

Spec == Init /\ [][Next]_vars

(* skynet dispatches every message, and the socket thread every command.   *)
Fairness == WF_vars(Gate) /\ \A fd \in Fd : WF_vars(Agent(fd)) /\ WF_vars(SocketKill(fd))
FairSpec == Spec /\ Fairness

-----------------------------------------------------------------------------
(* Every variable has its type.                                            *)
TypeOK ==
    /\ sock \in [Fd -> {"new", "accepted", "open", "shut"}] /\ kill \subseteq Fd
    /\ connection \in [Fd -> {"nil", "true", "false"}] /\ number \in 0 .. MaxClient
    /\ entry \in [Fd -> {"nil", "bare", "agent"}]
    /\ agent \in [Fd -> {"none", "creating", "starting", "asked", "failed", "running",
                         "busy", "leaving", "gone"}]
    /\ exits \subseteq Fd /\ session \subseteq Fd /\ told \subseteq Fd
    /\ inbox \in [Fd -> 0 .. MaxData] /\ sent \in [Fd -> 0 .. MaxData]

(* client_number, by which new clients are refused, is the number of        *)
(* clients whose sockets are open whenever the gateway has handled its     *)
(* mailbox, in whatever order kicks, timeouts and disconnections came (a   *)
(* socket may be reported closed twice).                                   *)
ClientsCounted == gbox = <<>> =>
    number = Cardinality({fd \in Fd : agent[fd] # "none" /\ sock[fd] # "shut"})

(* No packet is redirected to a connection service that has exited: that   *)
(* would be a packet lost without a trace.                                 *)
NoPacketLost ==
    [][\A fd \in Fd : inbox'[fd] > inbox[fd] => agent[fd] \in {"running", "busy", "leaving"}]_vars

(* A client that had logged in and whose service is gone has been reported *)
(* disconnected, whether the client, the timer or an answer ended it.      *)
DisconnectTold == \A fd \in session : agent[fd] = "gone" => fd \in told

(* "local c = assert(_connection[fd])" in CMD.forward: the client is still *)
(* there when its service asks for the packets.                            *)
ForwardAssert == \A fd \in Fd : agent[fd] # "failed"

(* When a client's socket is closed its connection service ends, but for   *)
(* one whose request for the packets failed (ForwardAssert).               *)
AgentEnds == \A fd \in Fd : (sock[fd] = "shut") ~> (agent[fd] \in {"none", "gone", "failed"})

(* A client that sends a malformed packet loses its socket, although the   *)
(* gateway only forgets it and leaves the closing to the service.          *)
BadCloses == \A fd \in Fd :
    (gbox # <<>> /\ Head(gbox) = Msg("bad", fd)) ~> (sock[fd] = "shut")

(* The gateway's and the services' books: the count of clients is right    *)
(* and whoever had logged in is reported as gone.                          *)
ClientsOK == TypeOK /\ ClientsCounted /\ DisconnectTold

(* What becomes of a client's packets and of its connection service: no    *)
(* packet goes to a service that has exited, a service whose client is     *)
(* gone ends, and a client that sends a malformed packet is closed.        *)
ClientsServed == NoPacketLost /\ AgentEnds /\ BadCloses
=============================================================================
