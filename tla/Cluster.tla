------------------------------- MODULE Cluster -------------------------------
(***************************************************************************)
(* cluster.call and cluster.send between two servers: clustersender.lua    *)
(* with the sessions of socketchannel.lua on one side, clusteragent.lua on *)
(* the other, and the packages of lua-cluster.c between them.  A message   *)
(* that is too long for a package goes in parts, with low priority, so     *)
(* that shorter ones overtake it (SocketServer).  The connection may break *)
(* at any time; the next request connects again, to a new agent.           *)
(*                                                                         *)
(* A byte is known by its message and its place.  The lines of a package's *)
(* header are the fields of a record.  Addresses and names, traces, and    *)
(* errors of the called service are left out.                              *)
(***************************************************************************)
EXTENDS Integers, Sequences

CONSTANTS
    MaxReq,     \* bound: messages sent in a run
    Part,       \* MULTI_PART
    MaxSession, \* INT32_MAX
    ReqSize, RespSize,
    MaxBreak    \* bound: how often the connection breaks

VARIABLES
    session, \* of the sender
    sent,    \* messages so far: their sessions and sizes
    thread,  \* __thread: the message that waits for a session
    data,    \* per message: __result_data, the parts of its answer
    result,  \* per message: what its caller got
    out,     \* packages to the agent: [high, low]
    back,    \* packages to the sender: [high, low]
    large,   \* large_request of the agent: per session
    serving, \* requests the agent has passed on, with their sessions
    runs,    \* per message: the bodies that the service has got
    breaks

vars == <<session, sent, thread, data, result, out, back, large, serving, runs, breaks>>
Req == 1 .. MaxReq
Session == 0 .. MaxSession
Waiting == [got |-> "none", data |-> <<>>]
Failed == [got |-> "error", data |-> <<>>]
Lanes == [high |-> <<>>, low |-> <<>>]

Bytes(what, r, size) == [k \in 1 .. size |-> [what |-> what, r |-> r, k |-> k]]
Package(t, s, push, size, d) == [t |-> t, session |-> s, push |-> push, size |-> size, data |-> d]

(* A message of which the parts come one by one: of a request in           *)
(* large_request, of an answer in __result_data.                           *)
Nothing == [on |-> FALSE, push |-> FALSE, size |-> 0, got |-> <<>>]
Grown(m, p) ==
    IF p.t = "size" THEN [on |-> TRUE, push |-> p.push, size |-> p.size, got |-> <<>>]
    ELSE [m EXCEPT !.got = @ \o p.data]

(* lconcat: the parts, if they make up the size.                           *)
Concat(m) == IF Len(m.got) = m.size THEN m.got ELSE <<>>

-----------------------------------------------------------------------------
PartsMutant(s, d) ==
    LET n == (Len(d) - 1) \div Part + 1 IN
    [i \in 1 .. n |-> Package(IF i < n THEN "part" ELSE "end", s, FALSE, 0,
                              SubSeq(d, 1, IF i < n THEN Part ELSE Len(d) - (n - 1) * Part))]

(* packreq_multi, and the loop of lpackresponse: the last part may be a    *)
(* full one.                                                               *)
Parts(s, d) ==
    LET n == (Len(d) - 1) \div Part + 1 IN
    [i \in 1 .. n |-> Package(IF i < n THEN "part" ELSE "end", s, FALSE, 0,
                              SubSeq(d, (i - 1) * Part + 1, IF i < n THEN i * Part ELSE Len(d)))]

Single(p) == [Lanes EXCEPT !.high = <<p>>]
Multi(s, push, d) == [Lanes EXCEPT !.low = <<Package("size", s, push, Len(d), <<>>)>> \o Parts(s, d)]

(* packrequest: a message that is pushed has session 0 in a single package *)
(* and its own in several.                                                 *)
PackRequest(s, push, d) ==
    IF Len(d) < Part THEN Single(Package("one", IF push THEN 0 ELSE s, push, 0, d))
    ELSE Multi(s, push, d)

(* lpackresponse.                                                          *)
PackResponse(s, d) ==
    IF Len(d) <= Part THEN Single(Package("one", s, FALSE, 0, d)) ELSE Multi(s, FALSE, d)

Post(lanes, p) == [high |-> lanes.high \o p.high, low |-> lanes.low \o p.low]

(* The socket sends low priority packages when there is no other.          *)
First(lanes) == IF lanes.high # <<>> THEN Head(lanes.high) ELSE Head(lanes.low)
Rest(lanes) ==
    IF lanes.high # <<>> THEN [lanes EXCEPT !.high = Tail(@)] ELSE [lanes EXCEPT !.low = Tail(@)]

-----------------------------------------------------------------------------
NextSession(s) == IF s + 1 > MaxSession THEN 1 ELSE s + 1

SendMutant(push, size) ==
    LET r == Len(sent) + 1 IN
    /\ Len(sent) < MaxReq
    /\ sent' = Append(sent, [session |-> session, push |-> push, size |-> size])
    /\ session' = IF push THEN session ELSE NextSession(session)
    /\ out' = Post(out, PackRequest(session, push, Bytes("req", r, size)))
    /\ thread' = IF push THEN thread ELSE [thread EXCEPT ![session] = r]
    /\ UNCHANGED <<data, result, back, large, serving, runs, breaks>>

(* command.req with send_request, and command.push: a push in a single     *)
(* package leaves the session to the next message.                         *)
Send(push, size) ==
    LET r == Len(sent) + 1 IN
    /\ Len(sent) < MaxReq
    /\ sent' = Append(sent, [session |-> session, push |-> push, size |-> size])
    /\ session' = IF push /\ size < Part THEN session ELSE NextSession(session)
    /\ out' = Post(out, PackRequest(session, push, Bytes("req", r, size)))
    /\ thread' = IF push THEN thread ELSE [thread EXCEPT ![session] = r]
    /\ UNCHANGED <<data, result, back, large, serving, runs, breaks>>

(* A whole message for the service: rawcall, or rawsend for a push.        *)
Serve(s, push, d) ==
    /\ runs' = [runs EXCEPT ![d[1].r] = Append(@, d)]
    /\ serving' = IF push THEN serving ELSE serving \cup {[session |-> s, r |-> d[1].r]}
    /\ back' = back

(* "Invalid large req".                                                    *)
Refuse(s) ==
    /\ back' = Post(back, Single(Package("error", s, FALSE, 0, <<>>)))
    /\ UNCHANGED <<serving, runs>>

RequestMutant ==
    /\ out # Lanes /\ out' = Rest(out)
    /\ LET p == First(out)
           req == Grown(large[p.session], p) IN
       IF p.t \in {"size", "part"}
       THEN large' = [large EXCEPT ![p.session] = req] /\ UNCHANGED <<serving, runs, back>>
       ELSE /\ large' = large
            /\ IF ~req.on THEN Serve(p.session, p.push, p.data)
               ELSE IF Concat(req) # <<>> THEN Serve(p.session, req.push, Concat(req))
               ELSE Refuse(p.session)
    /\ UNCHANGED <<session, sent, thread, data, result, breaks>>

(* dispatch_request: the agent gets a package.  A request of several parts *)
(* is kept in large_request until a package that is not followed by others *)
(* comes for its session.                                                  *)
Request ==
    /\ out # Lanes /\ out' = Rest(out)
    /\ LET p == First(out)
           req == Grown(large[p.session], p) IN
       IF p.t \in {"size", "part"}
       THEN large' = [large EXCEPT ![p.session] = req] /\ UNCHANGED <<serving, runs, back>>
       ELSE /\ large' = [large EXCEPT ![p.session] = Nothing]
            /\ IF ~req.on THEN Serve(p.session, p.push, p.data)
               ELSE IF Concat(req) # <<>> THEN Serve(p.session, req.push, Concat(req))
               ELSE Refuse(p.session)
    /\ UNCHANGED <<session, sent, thread, data, result, breaks>>

(* The service answers, in any order.                                      *)
Answer(c, size) ==
    /\ c \in serving /\ serving' = serving \ {c}
    /\ back' = Post(back, PackResponse(c.session, Bytes("resp", c.r, size)))
    /\ UNCHANGED <<session, sent, thread, data, result, out, large, runs, breaks>>

(* dispatch_by_session: the sender gets a package.  An unknown session is  *)
(* ignored.                                                                *)
Response ==
    /\ back # Lanes /\ back' = Rest(back)
    /\ LET p == First(back)
           r == thread[p.session]
           m == Grown(data[r], p) IN
       IF r = 0 THEN UNCHANGED <<thread, data, result>>
       ELSE IF p.t \in {"size", "part"}
       THEN data' = [data EXCEPT ![r] = m] /\ UNCHANGED <<thread, result>>
       ELSE /\ thread' = [thread EXCEPT ![p.session] = 0]
            /\ data' = [data EXCEPT ![r] = Nothing]
            /\ result' = [result EXCEPT ![r] =
                   IF p.t = "error" THEN Failed
                   ELSE [got |-> "answer", data |-> IF m.on THEN Concat(m) ELSE p.data]]
    /\ UNCHANGED <<session, sent, out, large, serving, runs, breaks>>

BreakMutant ==
    /\ breaks < MaxBreak /\ breaks' = breaks + 1
    /\ out' = Lanes /\ back' = Lanes /\ serving' = {}
    /\ large' = [s \in Session |-> Nothing]
    /\ UNCHANGED <<session, sent, runs, thread, result, data>>

(* The connection breaks: what is on its way is lost, the agent exits, and *)
(* the answers of the service with it; wakeup_all wakes every caller.      *)
Break ==
    /\ breaks < MaxBreak /\ breaks' = breaks + 1
    /\ out' = Lanes /\ back' = Lanes /\ serving' = {}
    /\ large' = [s \in Session |-> Nothing]
    /\ thread' = [s \in Session |-> 0]
    /\ result' = [r \in Req |-> IF \E s \in Session : thread[s] = r THEN Failed ELSE result[r]]
    /\ data' = [r \in 0 .. MaxReq |-> Nothing]
    /\ UNCHANGED <<session, sent, runs>>

-----------------------------------------------------------------------------
(* The sender has used its sessions up to the last but one.               *)
Init ==
    /\ session = MaxSession - 1 /\ sent = <<>> /\ thread = [s \in Session |-> 0]
    /\ data = [r \in 0 .. MaxReq |-> Nothing] /\ result = [r \in Req |-> Waiting]
    /\ out = Lanes /\ back = Lanes /\ large = [s \in Session |-> Nothing] /\ serving = {}
    /\ runs = [r \in Req |-> <<>>] /\ breaks = 0

Deliver == Request \/ Response \/ \E c \in serving, size \in RespSize : Answer(c, size)
Next == Deliver \/ Break \/ \E push \in BOOLEAN, size \in ReqSize : Send(push, size)

Spec == Init /\ [][Next]_vars

(* TCP delivers while the connection lasts, and the service answers.       *)
FairSpec == Spec /\ WF_vars(Deliver)

-----------------------------------------------------------------------------
(* A caller gets the answer to its own request, whole and in order, or an  *)
(* error: not that of a request from before the connection broke, nor one  *)
(* with parts of another.  A session that comes round while a caller still *)
(* waits for it is not met here.                                           *)
OwnAnswer == \A r \in Req : result[r].got = "answer" =>
    \E size \in RespSize : result[r].data = Bytes("resp", r, size)

(* A message reaches the service at most once, as it was sent, however     *)
(* long it is and whatever overtakes it.                                   *)
RunOnce == \A r \in Req :
    runs[r] = <<>> \/ (r <= Len(sent) /\ runs[r] = <<Bytes("req", r, sent[r].size)>>)

(* An error is seen only by the callers of a connection that broke: no     *)
(* request of several parts is put together wrongly.                       *)
NoFalseError == breaks = 0 => \A r \in Req : result[r] # Failed

(* With nothing on its way to it the agent keeps nothing of a request.     *)
LargeDone == out = Lanes => \A s \in Session : large[s] = Nothing

(* Every caller gets an answer or an error.                                *)
AllAnswered == \A r \in Req :
    (r <= Len(sent) /\ ~sent[r].push) ~> (result[r] # Waiting)
=============================================================================
