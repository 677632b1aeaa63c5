------------------------------ MODULE Multicast ------------------------------
(***************************************************************************)
(* lua-multicast.c, multicastd.lua and lualib/skynet/multicast.lua on one  *)
(* node, for one channel: a published package is shared by pointer between *)
(* the subscribers, who run on other threads and each give a reference     *)
(* back; the last one frees it.  mcClient.lua uses it for the broadcasts   *)
(* to the connections of a room.                                           *)
(*                                                                         *)
(* A subscriber's mailbox holds the answer to its SUB and packages.  Left  *)
(* out are channels of other nodes and the deletion of a channel, which    *)
(* game_room does not use.                                                 *)
(***************************************************************************)
EXTENDS FiniteSets, Integers, Sequences

CONSTANTS
    Sub,     \* services that subscribe
    MaxPack, \* bound: packages published
    MaxCall  \* bound: times a service subscribes

VARIABLES
    group,     \* channel[c]
    count,     \* channel_n[c]
    refs,      \* per package: reference
    freed,     \* packages that have been freed
    targets,   \* the rest of publish's loop over the group
    made,      \* packages so far
    dbox,      \* multicastd's mailbox, of SUB and USUB
    box,       \* per service: its mailbox
    subscribed,\* services whose chan.__subscribe is true and dispatch[c] set
    waiting,   \* services in the call of SUB
    calls,     \* per service: subscriptions so far
    unknown,   \* has a package raised "Unknown channel"?
    gone       \* services that have exited

vars == <<group, count, refs, freed, targets, made, dbox, box, subscribed, waiting, calls,
          unknown, gone>>
server == <<group, count, targets, made>>
Pack == 1 .. MaxPack

-----------------------------------------------------------------------------
(* chan:subscribe up to the call, its rest, and chan:unsubscribe.          *)
Subscribe(s) ==
    /\ s \notin subscribed \cup waiting \cup gone /\ calls[s] < MaxCall
    /\ calls' = [calls EXCEPT ![s] = @ + 1] /\ waiting' = waiting \cup {s}
    /\ dbox' = Append(dbox, [t |-> "SUB", s |-> s])
    /\ UNCHANGED <<server, refs, freed, box, subscribed, unknown, gone>>

Answered(s) ==
    /\ box[s] # <<>> /\ Head(box[s]) = 0 /\ s \notin gone
    /\ box' = [box EXCEPT ![s] = Tail(@)]
    /\ waiting' = waiting \ {s} /\ subscribed' = subscribed \cup {s}
    /\ UNCHANGED <<server, refs, freed, dbox, calls, unknown, gone>>

Unsubscribe(s) ==
    /\ s \in subscribed
    /\ subscribed' = subscribed \ {s}
    /\ dbox' = Append(dbox, [t |-> "USUB", s |-> s])
    /\ UNCHANGED <<server, refs, freed, box, waiting, calls, unknown, gone>>

(* mc_closelocal.                                                          *)
Close(p) ==
    /\ refs' = [refs EXCEPT ![p] = @ - 1]
    /\ freed' = IF refs'[p] <= 0 THEN freed \cup {p} ELSE freed

(* dispatch_subscribe, on the subscriber's thread.                         *)
Dispatch(s) ==
    /\ box[s] # <<>> /\ Head(box[s]) # 0 /\ s \notin gone
    /\ box' = [box EXCEPT ![s] = Tail(@)]
    /\ Close(Head(box[s]))
    /\ unknown' = (unknown \/ s \notin subscribed)
    /\ UNCHANGED <<server, dbox, subscribed, waiting, calls, gone>>

(* skynet.exit after unsubscribeAll: the mailbox is dropped.               *)
Exit(s) ==
    /\ s \notin gone \cup subscribed \cup waiting
    /\ gone' = gone \cup {s} /\ box' = [box EXCEPT ![s] = <<>>]
    /\ UNCHANGED <<server, refs, freed, dbox, subscribed, waiting, calls, unknown>>

-----------------------------------------------------------------------------
(* multicastd.  command.SUB for a local channel.                           *)
Daemon(t) == targets = {} /\ dbox # <<>> /\ Head(dbox).t = t /\ dbox' = Tail(dbox)

Sub_(s) ==
    /\ Daemon("SUB") /\ Head(dbox).s = s
    /\ group' = group \cup {s}
    /\ count' = IF s \in group THEN count ELSE count + 1
    /\ box' = [box EXCEPT ![s] = Append(@, 0)]
    /\ UNCHANGED <<refs, freed, targets, made, subscribed, waiting, calls, unknown, gone>>

UsubMutant(s) ==
    /\ Daemon("USUB") /\ Head(dbox).s = s
    /\ group' = group \ {s}
    /\ UNCHANGED <<count, refs, freed, targets, made, box, subscribed, waiting, calls, unknown, gone>>

(* command.USUB.                                                           *)
Usub(s) ==
    /\ Daemon("USUB") /\ Head(dbox).s = s
    /\ group' = group \ {s}
    /\ count' = IF s \in group THEN count - 1 ELSE count
    /\ UNCHANGED <<refs, freed, targets, made, box, subscribed, waiting, calls, unknown, gone>>

PublishMutant ==
    /\ targets = {} /\ made < MaxPack /\ made' = made + 1
    /\ refs' = [refs EXCEPT ![made'] = 1] /\ targets' = group
    /\ freed' = IF group = {} THEN freed \cup {made'} ELSE freed
    /\ UNCHANGED <<group, count, dbox, box, subscribed, waiting, calls, unknown, gone>>

(* command.PUB and publish up to its loop: the package (mc_packlocal) is   *)
(* freed at once (mc_bindrefer to 1, mc_closelocal) or bound to the number *)
(* of subscribers.                                                         *)
Publish ==
    /\ targets = {} /\ made < MaxPack /\ made' = made + 1
    /\ targets' = group
    /\ IF group = {} THEN freed' = freed \cup {made'} /\ refs' = refs
       ELSE freed' = freed /\ refs' = [refs EXCEPT ![made'] = count]
    /\ UNCHANGED <<group, count, dbox, box, subscribed, waiting, calls, unknown, gone>>

(* One turn of the loop; the message of a service that is gone is dropped. *)
Redirect(s) ==
    /\ s \in targets /\ targets' = targets \ {s}
    /\ box' = IF s \in gone THEN box ELSE [box EXCEPT ![s] = Append(@, made)]
    /\ UNCHANGED <<group, count, refs, freed, made, dbox, subscribed, waiting, calls, unknown, gone>>

-----------------------------------------------------------------------------
Init ==
    /\ group = {} /\ count = 0 /\ refs = [p \in Pack |-> 0] /\ freed = {} /\ targets = {}
    /\ made = 0 /\ dbox = <<>> /\ box = [s \in Sub |-> <<>>] /\ subscribed = {}
    /\ waiting = {} /\ calls = [s \in Sub |-> 0] /\ unknown = FALSE /\ gone = {}

Service(s) == Answered(s) \/ Dispatch(s)
Server == \E s \in Sub : Sub_(s) \/ Usub(s) \/ Redirect(s)
Next == \/ Server \/ Publish
        \/ \E s \in Sub : Service(s) \/ Subscribe(s) \/ Unsubscribe(s) \/ Exit(s)

Spec == Init /\ [][Next]_vars

(* skynet dispatches every message.                                        *)
FairSpec == Spec /\ WF_vars(Server) /\ \A s \in Sub : WF_vars(Service(s))

-----------------------------------------------------------------------------
Copies(p) ==
    Cardinality({d \in Sub \X (1 .. MaxPack + MaxCall) :
                     d[2] \in DOMAIN box[d[1]] /\ box[d[1]][d[2]] = p})
    + (IF p = made THEN Cardinality(targets) ELSE 0)

(* A package is not freed while a subscriber's mailbox, or the rest of the *)
(* loop that publishes it, still has a pointer to it: also when the first  *)
(* subscribers give it back before the last ones have got it.              *)
NoDangling == \A p \in freed : Copies(p) = 0

(* The references of a package are the pointers to it, so the last one     *)
(* frees it: subscriptions that change while it is on its way do not       *)
(* matter.  A service that exits drops its pointers without giving them    *)
(* back, which leaves too many references, never too few.                  *)
RefsExact == \A p \in 1 .. made : p \notin freed =>
    refs[p] >= Copies(p) /\ (gone = {} => refs[p] = Copies(p))

(* channel_n is the number of subscribers, by which a package is bound.    *)
CountExact == count = Cardinality(group)

(* lua-multicast.c, multicastd.lua: a package to which there is a pointer  *)
(* is not freed, its references are the pointers to it, and channel_n is   *)
(* the number of subscribers.                                              *)
CastOK == NoDangling /\ RefsExact /\ CountExact

(* With no service exiting, every package is freed.                        *)
AllFreed == \A p \in Pack : (made >= p) ~> (p \in freed \/ gone # {})

(* "maybe unsubscribe first, but the message is send out. drop the message *)
(* unneed" in dispatch_subscribe: a package that comes after unsubscribe   *)
(* is dropped, and no error is raised.                                     *)
LateDropped == ~unknown
=============================================================================
