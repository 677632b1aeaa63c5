---------------------------- MODULE MessageQueue ----------------------------
(***************************************************************************)
(* The ring of a service's message_queue in skynet_mq.c.  Each operation   *)
(* holds the queue's spin lock.  The ring doubles when a push fills it;    *)
(* head = tail therefore means empty.  A pop also notes when the queue has *)
(* become long, each time it is twice as long as when it was last noted.   *)
(***************************************************************************)
EXTENDS Integers, Sequences

CONSTANTS
    Msg,
    Nothing,
    QueueSize,   \* DEFAULT_QUEUE_SIZE
    MqOverload,  \* MQ_OVERLOAD
    MaxPush      \* bound: messages pushed in a run

VARIABLES
    queue,     \* q->queue, from 0 .. cap - 1
    cap, head, tail,
    overload, threshold,
    popped,    \* what the last pop gave
    pushes     \* messages pushed so far

vars == <<queue, cap, head, tail, overload, threshold, popped, pushes>>

(* An index that may have run past the end once.                           *)
Wrap(i, c) == IF i < c THEN i ELSE i - c

(* skynet_mq_length, and the same sum in skynet_mq_pop.                    *)
Length(h, t, c) == IF h <= t THEN t - h ELSE t + c - h

-----------------------------------------------------------------------------
ExpandedMutant(q) ==
    [i \in 0 .. 2 * cap - 1 |-> IF i < cap THEN q[i] ELSE Nothing]

(* expand_queue: the messages in order from the start of a new ring.       *)
Expanded(q) ==
    [i \in 0 .. 2 * cap - 1 |-> IF i < cap THEN q[Wrap(head + i, cap)] ELSE Nothing]

(* skynet_mq_push.                                                         *)
Push(m) ==
    LET q == [queue EXCEPT ![tail] = m]
        t == Wrap(tail + 1, cap) IN
    /\ pushes < MaxPush /\ pushes' = pushes + 1
    /\ IF t = head
       THEN /\ queue' = Expanded(q) /\ cap' = 2 * cap
            /\ head' = 0 /\ tail' = cap
       ELSE /\ queue' = q /\ tail' = t
            /\ UNCHANGED <<cap, head>>
    /\ UNCHANGED <<overload, threshold, popped>>

(* The first of threshold, 2 threshold, ... that is not below length.      *)
Raised[length \in Nat, limit \in Nat \ {0}] ==
    IF length > limit THEN Raised[length, 2 * limit] ELSE limit

PopMutant ==
    LET h == head + 1
        length == Length(h, tail, cap) IN
    /\ head # tail
    /\ popped' = queue[head] /\ head' = h % (cap + 1)
    /\ threshold' = Raised[length, threshold]
    /\ overload' = IF length > threshold THEN length ELSE overload
    /\ UNCHANGED <<queue, cap, tail, pushes>>

PopRaisedOnce ==
    LET h == Wrap(head + 1, cap)
        length == Length(h, tail, cap) IN
    /\ head # tail
    /\ popped' = queue[head] /\ head' = h
    /\ threshold' = IF length > threshold THEN 2 * threshold ELSE threshold
    /\ overload' = IF length > threshold THEN length ELSE overload
    /\ UNCHANGED <<queue, cap, tail, pushes>>

(* skynet_mq_pop.                                                          *)
Pop ==
    LET h == Wrap(head + 1, cap)
        length == Length(h, tail, cap) IN
    /\ head # tail
    /\ popped' = queue[head] /\ head' = h
    /\ threshold' = Raised[length, threshold]
    /\ overload' = IF length > threshold THEN length ELSE overload
    /\ UNCHANGED <<queue, cap, tail, pushes>>

PopEmpty ==
    /\ head = tail
    /\ popped' = Nothing /\ threshold' = MqOverload
    /\ UNCHANGED <<queue, cap, head, tail, overload, pushes>>

(* skynet_mq_overload, read and reset by the thread that pops.             *)
Overload ==
    /\ overload # 0 /\ overload' = 0
    /\ UNCHANGED <<queue, cap, head, tail, threshold, popped, pushes>>

-----------------------------------------------------------------------------
(* skynet_mq_create.                                                       *)
Init ==
    /\ cap = QueueSize /\ queue = [i \in 0 .. QueueSize - 1 |-> Nothing]
    /\ head = 0 /\ tail = 0
    /\ overload = 0 /\ threshold = MqOverload
    /\ popped = Nothing /\ pushes = 0

Next == (\E m \in Msg : Push(m)) \/ Pop \/ PopEmpty \/ Overload

Spec == Init /\ [][Next]_vars

-----------------------------------------------------------------------------
(* Every variable has its type; head and tail are places of the ring.      *)
TypeOK ==
    /\ cap \in Nat /\ cap > 1
    /\ queue \in [0 .. cap - 1 -> Msg \cup {Nothing}]
    /\ head \in 0 .. cap - 1 /\ tail \in 0 .. cap - 1
    /\ overload \in Nat /\ threshold \in Nat \ {0}
    /\ popped \in Msg \cup {Nothing} /\ pushes \in 0 .. MaxPush

Waiting == [i \in 1 .. Length(head, tail, cap) |-> queue[Wrap(head + i - 1, cap)]]

(* The ring is a queue: every push, also one that doubles the ring while   *)
(* its content is wrapped around the end, and every pop is a step of Fifo. *)
F == INSTANCE Fifo WITH line <- Waiting, out <- popped
ImplementsFifo == F!Spec

(* A warning about a long queue is not repeated until the queue is twice   *)
(* as long or has been empty: right after a pop the limit covers what is   *)
(* left, the limit falls only when the queue is found empty, and a longer  *)
(* queue than the limit is noted.                                          *)
WarnedOnce ==
    [][/\ pushes' = pushes /\ head' # head => Length(head', tail', cap') <= threshold'
       /\ threshold' < threshold => head = tail
       /\ threshold' > threshold => overload' > threshold]_vars
=============================================================================
