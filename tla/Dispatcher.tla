----------------------------- MODULE Dispatcher -----------------------------
(***************************************************************************)
(* The heart of skynet: how worker threads share the services among them.  *)
(* skynet_server.c (contexts, their reference counts, launching, sending,  *)
(* dispatching), skynet_mq.c (one queue per service and the global queue   *)
(* of queues) and skynet_start.c (worker, timer and socket threads).       *)
(*                                                                         *)
(* Every lock in this code is held for a few lines, so the model's steps   *)
(* are the sections between two locks or atomic operations.  A thread is   *)
(* the sequence of steps it still has to do: the first is what it does     *)
(* next, a call puts the callee's steps in front, a return drops one.      *)
(*                                                                         *)
(* A service's handle is its name here (HandleStorage has the numbers), a  *)
(* queue is a sequence (MessageQueue has the ring) and a handler does what *)
(* it likes: it sends, launches and kills.  A new handle is known to       *)
(* nobody before its queue exists, so registration and the creation of the *)
(* queue are one step.                                                     *)
(***************************************************************************)
EXTENDS FiniteSetsExt, Integers, Sequences

CONSTANTS
    Worker,  \* worker threads
    Weight,  \* the weight of each worker, -1 to 3
    Poster,  \* threads that send from outside: timer and socket
    Service, \* the services launched in a run
    Boot,    \* the services launched before the threads start, in order
    MaxMsg,  \* bound: messages sent by handlers and threads
    None

Thread == Worker \cup Poster

ASSUME WeightAssumption == Weight \in [Worker -> -1 .. 3]
ASSUME BootAssumption ==
    /\ Boot \in Seq(Service) /\ None \notin Service
    /\ \A i, j \in 1 .. Len(Boot) : Boot[i] = Boot[j] => i = j
ASSUME ThreadAssumption == Worker \cap Poster = {}
ASSUME BoundAssumption == MaxMsg \in Nat /\ Len(Boot) <= MaxMsg

VARIABLES
    slot,    \* the handles skynet_handle_grab finds
    ctx,     \* per service: ref, init and whether the struct is there
    mq,      \* per service: its message_queue
    global,  \* the global queue Q
    todo,    \* per thread: the steps it still has to do
    quit,    \* m->quit
    sent     \* messages sent so far

vars == <<slot, ctx, mq, global, todo, quit, sent>>

(* The reference count that stands for a struct not made yet.              *)
Unborn == -1

(* A message is known by its number; an error reports the one it names.    *)
Msg == [src : Service \cup {None}, id : 1 .. MaxMsg, err : BOOLEAN]
ASSUME NoneAssumption == None \notin Msg

(* A step: what is to be done, about which service, with which message,    *)
(* and how many more messages of the service may follow.                   *)
Step(pc, s) == [pc |-> pc, s |-> s, m |-> None, n |-> 0]
StepMsg(pc, s, m, n) == [pc |-> pc, s |-> s, m |-> m, n |-> n]

At(t, pc) == todo[t] # <<>> /\ todo[t][1].pc = pc
Top(t) == todo[t][1]
Do(t, steps) == todo' = [todo EXCEPT ![t] = steps \o Tail(@)]

Contains(seq, x) == x \in Range(seq)

BootSet == Range(Boot)

-----------------------------------------------------------------------------
(* skynet_mq.c: what one section under a queue's lock does.                *)

NewQueue == [msgs |-> <<>>, in_global |-> TRUE, release |-> FALSE, alive |-> TRUE]

MqPushMutant(s, m) ==
    /\ mq' = [mq EXCEPT ![s].msgs = Append(@, m)]
    /\ global' = IF mq[s].in_global THEN global ELSE Append(global, s)

MqPush(s, m) ==
    /\ mq' = [mq EXCEPT ![s].msgs = Append(@, m), ![s].in_global = TRUE]
    /\ global' = IF mq[s].in_global THEN global ELSE Append(global, s)

MqPopEmptyMutant(s) == mq' = mq

(* An empty queue leaves the global queue: the worker forgets it.          *)
MqPopEmpty(s) == mq' = [mq EXCEPT ![s].in_global = FALSE]

MqPop(s) == mq' = [mq EXCEPT ![s].msgs = Tail(@)]

MarkRelease(s) ==
    /\ mq' = [mq EXCEPT ![s].release = TRUE]
    /\ global' = IF mq[s].in_global THEN global ELSE Append(global, s)

-----------------------------------------------------------------------------
(* Calls any thread makes.                                                 *)

(* skynet_context_push: the destination is held while its queue is used.   *)
(* A message to a handle nobody has is freed and -1 returned.              *)
Send(t) ==
    LET s == Top(t).s IN
    /\ At(t, "send")
    /\ IF s \in slot
       THEN /\ ctx' = [ctx EXCEPT ![s].ref = @ + 1]
            /\ Do(t, <<StepMsg("push", s, Top(t).m, 0), Step("release", s)>>)
       ELSE ctx' = ctx /\ Do(t, <<>>)
    /\ UNCHANGED <<slot, mq, global, quit, sent>>

Push(t) ==
    /\ At(t, "push")
    /\ MqPush(Top(t).s, Top(t).m)
    /\ Do(t, <<>>)
    /\ UNCHANGED <<slot, ctx, quit, sent>>

(* skynet_context_release, and delete_context for the last reference.      *)
Release(t) ==
    LET s == Top(t).s IN
    /\ At(t, "release")
    /\ ctx' = [ctx EXCEPT ![s].ref = @ - 1]
    /\ Do(t, IF ctx[s].ref = 1 THEN <<Step("delete", s)>> ELSE <<>>)
    /\ UNCHANGED <<slot, mq, global, quit, sent>>

Delete(t) ==
    LET s == Top(t).s IN
    /\ At(t, "delete")
    /\ MarkRelease(s)
    /\ ctx' = [ctx EXCEPT ![s].alive = FALSE]
    /\ Do(t, <<>>)
    /\ UNCHANGED <<slot, quit, sent>>

RetireMutant(t) ==
    LET s == Top(t).s IN
    /\ At(t, "retire")
    /\ slot' = slot \ {s}
    /\ Do(t, <<Step("release", s)>>)
    /\ UNCHANGED <<ctx, mq, global, quit, sent>>

(* skynet_handle_retire: of two threads that kill a service one finds it.  *)
Retire(t) ==
    LET s == Top(t).s IN
    /\ At(t, "retire")
    /\ slot' = slot \ {s}
    /\ Do(t, IF s \in slot THEN <<Step("release", s)>> ELSE <<>>)
    /\ UNCHANGED <<ctx, mq, global, quit, sent>>

(* skynet_context_new: two references, one for the handle storage and one  *)
(* for the launch; the queue is not in the global queue until the service  *)
(* has been initialised, but says it is.                                   *)
New(t) ==
    LET s == Top(t).s IN
    /\ At(t, "new")
    /\ slot' = slot \cup {s}
    /\ ctx' = [ctx EXCEPT ![s] = [ref |-> 2, init |-> FALSE, alive |-> TRUE]]
    /\ mq' = [mq EXCEPT ![s] = NewQueue]
    /\ Do(t, <<Step("init", s)>>)
    /\ UNCHANGED <<global, quit, sent>>

InitFailed(t) ==
    LET s == Top(t).s IN
    /\ At(t, "init")
    /\ Do(t, <<Step("release", s), Step("retire", s), Step("mqrelease", s)>>)
    /\ UNCHANGED <<slot, ctx, mq, global, quit, sent>>

InitDoneMutant(t) ==
    LET s == Top(t).s
        next == IF ctx[s].ref = 1 THEN "delete" ELSE "ready" IN
    /\ At(t, "init")
    /\ ctx' = [ctx EXCEPT ![s].ref = @ - 1]
    /\ Do(t, <<Step("gpush", s), Step(next, s)>>)
    /\ UNCHANGED <<slot, mq, global, quit, sent>>

(* The launch gives its reference back and goes by what that returned: a   *)
(* service killed meanwhile is not made ready, but its queue is still put  *)
(* into the global queue, where a worker finds out and drops it.           *)
InitDone(t) ==
    LET s == Top(t).s
        next == IF ctx[s].ref = 1 THEN "delete" ELSE "ready" IN
    /\ At(t, "init")
    /\ ctx' = [ctx EXCEPT ![s].ref = @ - 1]
    /\ Do(t, <<Step(next, s), Step("gpush", s)>>)
    /\ UNCHANGED <<slot, mq, global, quit, sent>>

(* The struct may be gone by now; what a write to freed memory hits is not *)
(* part of the model.                                                      *)
SetReady(t) ==
    LET s == Top(t).s IN
    /\ At(t, "ready")
    /\ ctx' = [ctx EXCEPT ![s].init = ctx[s].alive]
    /\ Do(t, <<>>)
    /\ UNCHANGED <<slot, mq, global, quit, sent>>

GlobalPush(t) ==
    /\ At(t, "gpush")
    /\ global' = Append(global, Top(t).s)
    /\ Do(t, <<>>)
    /\ UNCHANGED <<slot, ctx, mq, quit, sent>>

MqReleaseMutant(t) ==
    LET s == Top(t).s IN
    /\ At(t, "mqrelease")
    /\ global' = global
    /\ Do(t, <<Step("drop", s)>>)
    /\ UNCHANGED <<slot, ctx, mq, quit, sent>>

(* skynet_mq_release: a queue whose service is gone from the handle storage *)
(* is dropped once the last reference is, and goes round till then.        *)
MqRelease(t) ==
    LET s == Top(t).s IN
    /\ At(t, "mqrelease")
    /\ global' = IF mq[s].release THEN global ELSE Append(global, s)
    /\ Do(t, IF mq[s].release THEN <<Step("drop", s)>> ELSE <<>>)
    /\ UNCHANGED <<slot, ctx, mq, quit, sent>>

DropReportMutant(s, m) == <<>>

(* drop_message tells the sender; a message of source 0 has none.          *)
DropReport(s, m) ==
    IF m.src = None THEN <<>>
    ELSE <<StepMsg("send", m.src, [src |-> s, id |-> m.id, err |-> TRUE], 0)>>

Drop(t) ==
    LET s == Top(t).s IN
    /\ At(t, "drop") /\ mq[s].msgs # <<>>
    /\ MqPop(s)
    /\ Do(t, DropReport(s, Head(mq[s].msgs)) \o <<Step("drop", s)>>)
    /\ UNCHANGED <<slot, ctx, global, quit, sent>>

FreeQueue(t) ==
    LET s == Top(t).s IN
    /\ At(t, "drop") /\ mq[s].msgs = <<>>
    /\ mq' = [mq EXCEPT ![s].in_global = FALSE, ![s].alive = FALSE]
    /\ Do(t, <<>>)
    /\ UNCHANGED <<slot, ctx, global, quit, sent>>

-----------------------------------------------------------------------------
(* Workers: skynet_context_message_dispatch and thread_worker around it.   *)

(* What dispatch returns is the queue of the next round; without one the   *)
(* worker goes to sleep.                                                   *)
NextQueue == IF global = <<>> THEN <<Step("sleep", None)>>
                              ELSE <<Step("loop", Head(global))>>
PopGlobal == global' = IF global = <<>> THEN <<>> ELSE Tail(global)

LoopMutant(t) ==
    LET s == Top(t).s IN
    /\ At(t, "loop")
    /\ \/ s # None /\ Do(t, <<Step("grab", s)>>) /\ global' = global
       \/ s = None /\ PopGlobal
          /\ Do(t, IF global = <<>> THEN <<Step("sleep", None)>>
                                    ELSE <<Step("grab", Head(global))>>)
    /\ UNCHANGED <<slot, ctx, mq, quit, sent>>

Loop(t) ==
    LET s == Top(t).s IN
    /\ At(t, "loop")
    /\ \/ quit /\ Do(t, <<>>) /\ global' = global
       \/ ~quit /\ s # None /\ Do(t, <<Step("grab", s)>>) /\ global' = global
       \/ ~quit /\ s = None /\ PopGlobal
          /\ Do(t, IF global = <<>> THEN <<Step("sleep", None)>>
                                    ELSE <<Step("grab", Head(global))>>)
    /\ UNCHANGED <<slot, ctx, mq, quit, sent>>

Grab(t) ==
    LET s == Top(t).s IN
    /\ At(t, "grab")
    /\ IF s \in slot
       THEN /\ ctx' = [ctx EXCEPT ![s].ref = @ + 1]
            /\ Do(t, <<StepMsg("pop", s, None, -1)>>)
       ELSE /\ ctx' = ctx
            /\ Do(t, <<Step("mqrelease", s), Step("nextq", None)>>)
    /\ UNCHANGED <<slot, mq, global, quit, sent>>

NextQ(t) ==
    /\ At(t, "nextq")
    /\ PopGlobal /\ Do(t, NextQueue)
    /\ UNCHANGED <<slot, ctx, mq, quit, sent>>

(* n of a "pop" step is -1 for the first message of a round and then how   *)
(* many may follow this one.                                               *)
PopEmpty(t) ==
    LET s == Top(t).s IN
    /\ At(t, "pop") /\ mq[s].msgs = <<>>
    /\ MqPopEmpty(s)
    /\ Do(t, <<Step("release", s), Step("nextq", None)>>)
    /\ UNCHANGED <<slot, ctx, global, quit, sent>>

Pop(t) ==
    LET s == Top(t).s
        m == Head(mq[s].msgs) IN
    /\ At(t, "pop") /\ mq[s].msgs # <<>>
    /\ MqPop(s)
    /\ Do(t, IF Top(t).n = -1 /\ Weight[t] >= 0
             THEN <<StepMsg("length", s, m, 0)>>
             ELSE <<StepMsg("run", s, m, IF Top(t).n = -1 THEN 0 ELSE Top(t).n)>>)
    /\ UNCHANGED <<slot, ctx, global, quit, sent>>

(* A worker of weight w >= 0 handles up to length >> w messages a round.   *)
Shifted(n, w) == n \div (CASE w = 0 -> 1 [] w = 1 -> 2 [] w = 2 -> 4 [] OTHER -> 8)

Length(t) ==
    LET s == Top(t).s
        n == Shifted(Len(mq[s].msgs), Weight[t]) IN
    /\ At(t, "length")
    /\ Do(t, <<StepMsg("run", s, Top(t).m, IF n = 0 THEN 0 ELSE n - 1)>>)
    /\ UNCHANGED <<slot, ctx, mq, global, quit, sent>>

(* The handler returns.                                                    *)
RunDone(t) ==
    LET s == Top(t).s IN
    /\ At(t, "run")
    /\ Do(t, IF Top(t).n > 0 THEN <<StepMsg("pop", s, None, Top(t).n - 1)>>
                             ELSE <<Step("back", s)>>)
    /\ UNCHANGED <<slot, ctx, mq, global, quit, sent>>

(* With other queues waiting, the worker puts its own at the end and goes  *)
(* on with the first; alone, it keeps the queue.                           *)
Back(t) ==
    LET s == Top(t).s IN
    /\ At(t, "back")
    /\ PopGlobal
    /\ Do(t, IF global = <<>> THEN <<Step("release", s), Step("loop", s)>>
             ELSE <<Step("gpush", s), Step("release", s), Step("loop", Head(global))>>)
    /\ UNCHANGED <<slot, ctx, mq, quit, sent>>

Sleep(t) ==
    /\ At(t, "sleep")
    /\ Do(t, <<Step(IF quit THEN "loop" ELSE "wait", None)>>)
    /\ UNCHANGED <<slot, ctx, mq, global, quit, sent>>

(* Back from pthread_cond_wait with the mutex.                             *)
Woken(t) ==
    /\ At(t, "woken")
    /\ Do(t, <<Step("loop", None)>>)
    /\ UNCHANGED <<slot, ctx, mq, global, quit, sent>>

-----------------------------------------------------------------------------
(* What a handler, or a thread from outside, decides to do.                *)

Free(t) == IF t \in Worker THEN At(t, "run") ELSE todo[t] = <<>>
Self(t) == IF t \in Worker THEN Top(t).s ELSE None
Call(t, step) == todo' = [todo EXCEPT ![t] = <<step>> \o @]

CallSend(t, s) ==
    /\ Free(t) /\ sent < MaxMsg /\ ctx[s].ref # Unborn
    /\ sent' = sent + 1
    /\ Call(t, StepMsg("send", s, [src |-> Self(t), id |-> sent + 1, err |-> FALSE], 0))
    /\ UNCHANGED <<slot, ctx, mq, global, quit>>

CallRetire(t, s) ==
    /\ Free(t) /\ t \in Worker /\ s \in slot
    /\ Call(t, Step("retire", s))
    /\ UNCHANGED <<slot, ctx, mq, global, quit, sent>>

CallNew(t, s) ==
    /\ Free(t) /\ t \in Worker /\ ctx[s].ref = Unborn
    /\ \A u \in Thread : ~Contains(todo[u], Step("new", s))
    /\ Call(t, Step("new", s))
    /\ UNCHANGED <<slot, ctx, mq, global, quit, sent>>

-----------------------------------------------------------------------------
(* thread_timer and thread_socket wake workers.  The timer signals whenever *)
(* one sleeps, the socket thread only when all do.                         *)

Waiting == {w \in Worker : At(w, "wait")}
Asleep == {w \in Worker : At(w, "wait") \/ At(w, "woken")}
Total == Cardinality({s \in Service : ctx[s].alive})

Signal(w) ==
    /\ w \in Waiting
    /\ todo' = [todo EXCEPT ![w] = <<Step("woken", None)>>]
    /\ UNCHANGED <<slot, ctx, mq, global, quit, sent>>

TimerWakeup == Total > 0 /\ Asleep # {} /\ \E w \in Waiting : Signal(w)

SocketWakeup == Asleep = Worker /\ \E w \in Waiting : Signal(w)

(* No context is left: the timer thread stops everybody.                   *)
TimerAbort ==
    /\ Total = 0 /\ ~quit
    /\ quit' = TRUE
    /\ todo' = [t \in Thread |-> IF t \in Waiting THEN <<Step("woken", None)>> ELSE todo[t]]
    /\ UNCHANGED <<slot, ctx, mq, global, sent>>

-----------------------------------------------------------------------------
FirstMsg(s) == [src |-> s, id |-> CHOOSE i \in 1 .. Len(Boot) : Boot[i] = s, err |-> FALSE]

(* skynet_start launches the logger and the bootstrap service before it    *)
(* starts the threads.                                                     *)
Init ==
    /\ slot = BootSet
    /\ ctx = [s \in Service |-> [ref |-> IF s \in BootSet THEN 1 ELSE Unborn,
                                 init |-> s \in BootSet, alive |-> s \in BootSet]]
    /\ mq = [s \in Service |-> [NewQueue EXCEPT !.alive = s \in BootSet,
                                    !.msgs = IF s \in BootSet THEN <<FirstMsg(s)>> ELSE <<>>]]
    /\ global = Boot
    /\ todo = [t \in Thread |-> IF t \in Worker THEN <<Step("loop", None)>> ELSE <<>>]
    /\ quit = FALSE
    /\ sent = Len(Boot)

ThreadStep(t) ==
    \/ Send(t) \/ Push(t) \/ Release(t) \/ Delete(t) \/ Retire(t)
    \/ New(t) \/ InitFailed(t) \/ InitDone(t) \/ SetReady(t) \/ GlobalPush(t)
    \/ MqRelease(t) \/ Drop(t) \/ FreeQueue(t)

WorkerStep(t) ==
    \/ Loop(t) \/ Grab(t) \/ NextQ(t) \/ PopEmpty(t) \/ Pop(t) \/ Length(t)
    \/ RunDone(t) \/ Back(t) \/ Sleep(t) \/ Woken(t)

Decide(t) == \E s \in Service : CallSend(t, s) \/ CallRetire(t, s) \/ CallNew(t, s)

(* All threads have been joined; the process ends.                         *)
Ended == quit /\ (\A t \in Thread : todo[t] = <<>>) /\ UNCHANGED vars

Next ==
    \/ \E t \in Thread : ThreadStep(t) \/ Decide(t)
    \/ \E t \in Worker : WorkerStep(t)
    \/ TimerWakeup \/ SocketWakeup \/ TimerAbort \/ Ended

Spec == Init /\ [][Next]_vars

(* A thread that can run does, a handler returns, and the timer thread     *)
(* never stops ticking.                                                    *)
Fairness == /\ \A t \in Thread : WF_vars(ThreadStep(t))
            /\ \A t \in Worker : WF_vars(WorkerStep(t))
            /\ WF_vars(TimerWakeup) /\ WF_vars(TimerAbort)

FairSpec == Spec /\ Fairness

-----------------------------------------------------------------------------
(* The steps of all threads that are of a kind and about a service, each   *)
(* known by its thread and the number of steps below it, and how many.     *)
Places(kinds, s) ==
    UNION {{<<t, Len(todo[t]) - i>> : i \in {j \in 1 .. Len(todo[t]) :
                todo[t][j].s = s /\ todo[t][j].pc \in kinds}} : t \in Thread}
StepsOf(kinds, s) == Cardinality(Places(kinds, s))
InGlobal(s) == Cardinality({i \in 1 .. Len(global) : global[i] = s})

HoldsQueue == {"loop", "grab", "pop", "length", "run", "back", "gpush",
               "mqrelease", "drop", "init"}
HoldsRef == {"release", "pop", "length", "run", "back", "init"}

(* Every variable has its type.                                            *)
TypeOK ==
    /\ slot \subseteq Service
    /\ ctx \in [Service -> [ref : Nat \cup {Unborn}, init : BOOLEAN, alive : BOOLEAN]]
    /\ mq \in [Service -> [msgs : Seq(Msg), in_global : BOOLEAN,
                           release : BOOLEAN, alive : BOOLEAN]]
    /\ \A s \in Service : ctx[s].ref = Unborn => ~ctx[s].alive /\ ~mq[s].release
    /\ global \in Seq(Service)
    /\ \A t \in Thread : \A i \in 1 .. Len(todo[t]) : todo[t][i].s \in Service \cup {None}
    /\ quit \in BOOLEAN /\ sent \in 0 .. MaxMsg

(* A queue that has something to do is in exactly one place, the global    *)
(* queue or the hands of one thread, and any other queue is nowhere: the   *)
(* flags in_global and release, set and tested in six functions of         *)
(* skynet_mq.c, say which.  Twice would be two workers in one service or a *)
(* broken list (the assert in skynet_globalmq_push), nowhere would be      *)
(* messages that nobody handles.  When the process ends workers leave with *)
(* the queue in hand.                                                      *)
QueueOnce ==
    \A s \in Service :
        LET places == InGlobal(s) + StepsOf(HoldsQueue, s) IN
        IF mq[s].alive
        THEN /\ places <= 1
             /\ ~quit => (places = 1 <=> mq[s].in_global \/ mq[s].release)
        ELSE places = 0

(* The reference count of a context is the number of those who use it: the *)
(* handle storage, the launch, and every thread between grab and release.  *)
RefExact ==
    \A s \in Service : ctx[s].alive =>
        /\ ctx[s].ref = StepsOf(HoldsRef, s) + Cardinality({s} \cap slot)
        /\ (ctx[s].ref = 0) <=> StepsOf({"delete"}, s) = 1

(* A context or a queue is not freed while it can be found or someone      *)
(* holds it, and it is freed once.  The launch is the exception: it writes *)
(* ctx->init and logs (skynet_server.c:166, 170) after it has given its    *)
(* reference back, and if the service was killed meanwhile the context may *)
(* be gone; the queue it puts into the global queue next is not.           *)
HeldNotFreed ==
    \A s \in Service :
        /\ StepsOf(HoldsRef \cup {"push", "delete"}, s) > 0 => ctx[s].alive
        /\ StepsOf(HoldsQueue \cup {"push", "delete"}, s) > 0 => mq[s].alive
        /\ s \in slot => ctx[s].alive
        /\ StepsOf({"ready"}, s) > 0 => mq[s].alive /\ (ctx[s].alive \/ s \notin slot)

(* A launch that was told its service is there marks it initialised; the   *)
(* service is still there.  It need not be: a third service may have       *)
(* killed it.                                                              *)
LaunchAlive == \A s \in Service : StepsOf({"ready"}, s) > 0 => ctx[s].alive

-----------------------------------------------------------------------------
Handling(s) == {step \in UNION {Range(todo[t]) : t \in Worker} :
                   step.pc \in {"length", "run"} /\ step.s = s}

LifeOf(s) == CASE ctx[s].ref = Unborn -> "none"
               [] mq[s].release -> "dead"
               [] s \in slot -> "open"
               [] OTHER -> "closed"

MB == INSTANCE Mailbox WITH
        Boot <- BootSet, Idle <- None,
        life <- [s \in Service |-> LifeOf(s)],
        ready <- {s \in Service : ctx[s].init},
        box <- [s \in Service |-> mq[s].msgs],
        busy <- [s \in Service |-> IF Handling(s) = {} THEN None
                                   ELSE (CHOOSE step \in Handling(s) : TRUE).m]

(* The threads together give every service what Mailbox promises: its      *)
(* messages in order, one handler at a time, only after initialisation,    *)
(* and never after it is gone.                                             *)
ImplementsMailbox == MB!Spec

(* Every queue is emptied in the end, by a handler or because its service  *)
(* is gone (the messages of a run are bounded), although no push wakes a   *)
(* worker: the timer does.                                                 *)
QueuesDrain == \A s \in Service : (mq[s].msgs # <<>>) ~> (mq[s].msgs = <<>> \/ quit)

(* A sender hears of it when its messages die with the service they were   *)
(* sent to, unless the sender is gone itself.                              *)
Dying(s) == \E r \in Service : /\ mq[r].alive /\ mq[r].release
                              /\ \E m \in Range(mq[r].msgs) : m.src = s /\ ~m.err
SenderTold == \A s \in Service :
    Dying(s) ~> (quit \/ s \notin slot \/ \E m \in Range(mq[s].msgs) : m.err)

(* When the last context is gone every worker ends, the sleeping ones too. *)
WorkersEnd == (Total = 0) ~> (\A w \in Worker : todo[w] = <<>>)

(* Contexts: the reference count is the number of those who hold one, and  *)
(* neither a context nor its queue is freed while it is held; only the     *)
(* last steps of a launch may find a context freed.                        *)
ContextsOK == TypeOK /\ RefExact /\ HeldNotFreed
=============================================================================
