-------------------------------- MODULE Ticker --------------------------------
(***************************************************************************)
(* lualib/utility/timer.lua: the timers of a service, driven by a forked   *)
(* ticker.  The ticker yields while it sleeps and while the function of a  *)
(* timer that is due calls another service; then the handlers of the       *)
(* service set and clear timers, stop the ticker and start it again.       *)
(* Errors of a function are caught by xpcall and change nothing.  A timer  *)
(* of interval 0 is due again as soon as its function has returned, and    *)
(* keeps the ticker in its scan until a function that yields lets somebody *)
(* clear it.                                                               *)
(***************************************************************************)
EXTENDS FiniteSets, Integers

CONSTANTS
    MaxTimer,  \* bound: timers set in a run
    MaxDelay,  \* bound: delays, in ticks
    MaxTick,   \* bound: ticks in a run
    MaxStart,  \* bound: calls of start
    Repeats    \* kinds of timers: TRUE for an interval

VARIABLES
    tick,    \* _tick
    on,      \* _tickStep > 0
    enabled, \* _isTickerEnable
    active,  \* _activeTimer: the numbers of its timers
    item,    \* per timer: its item
    made,    \* timers so far (_timerIDGenerator)
    pc,      \* per forked ticker: "none", "tick", "scan", "run", "sleep", "end"
    running, \* per ticker: the timer whose function it runs
    ticks,   \* ticks since the service began
    fired,   \* per timer: how often its function has been called, up to MaxTick + 1
    dropped  \* timers that were cleared, or dropped by a stop

vars == <<tick, on, enabled, active, item, made, pc, running, ticks, fired,
          dropped>>
Timer == 1 .. MaxTimer
Fork == 1 .. MaxStart
NoItem == [interval |-> 0, repeats |-> FALSE, next |-> 0, set |-> 0]

-----------------------------------------------------------------------------
(* doAddTimer.                                                             *)
SetTimer(delay, repeats) ==
    LET id == made + 1 IN
    /\ enabled /\ made < MaxTimer
    /\ made' = id /\ active' = active \cup {id}
    /\ item' = [item EXCEPT ![id] = [interval |-> delay, repeats |-> repeats,
                                     next |-> tick + delay, set |-> ticks]]
    /\ UNCHANGED <<tick, on, enabled, pc, running, ticks, fired, dropped>>

ClearTimer(id) ==
    /\ id \in active
    /\ active' = active \ {id} /\ dropped' = dropped \cup {id}
    /\ UNCHANGED <<tick, on, enabled, item, made, pc, running, ticks, fired>>

Begun == Cardinality({f \in Fork : pc[f] # "none"})

(* start, and stop.                                                        *)
Start ==
    /\ ~on /\ on' = TRUE
    /\ IF enabled THEN UNCHANGED <<tick, enabled, active, pc, dropped>>
       ELSE /\ Begun < MaxStart
            /\ enabled' = TRUE /\ tick' = 0 /\ active' = {} /\ dropped' = dropped \cup active
            /\ pc' = [pc EXCEPT ![Begun + 1] = "tick"]
    /\ UNCHANGED <<item, made, running, ticks, fired>>

StopMutant ==
    /\ on /\ on' = FALSE /\ enabled' = FALSE
    /\ tick' = 0 /\ active' = {} /\ dropped' = dropped \cup active
    /\ UNCHANGED <<item, made, pc, running, ticks, fired>>

Stop ==
    /\ on /\ on' = FALSE
    /\ tick' = 0 /\ active' = {} /\ dropped' = dropped \cup active
    /\ UNCHANGED <<enabled, item, made, pc, running, ticks, fired>>

-----------------------------------------------------------------------------
(* ticker: the head of its loop.                                           *)
Tick(f) ==
    /\ pc[f] = "tick"
    /\ IF on THEN /\ ticks < MaxTick /\ ticks' = ticks + 1
                  /\ tick' = tick + 1 /\ pc' = [pc EXCEPT ![f] = "scan"]
                  /\ UNCHANGED enabled
       ELSE enabled' = FALSE /\ pc' = [pc EXCEPT ![f] = "end"] /\ UNCHANGED <<tick, ticks>>
    /\ UNCHANGED <<on, active, item, made, running, fired, dropped>>

Due == {id \in active : item[id].next <= tick}

(* A timer that is due, in the order of pairs: its function is called.     *)
Fire(f, id) ==
    /\ pc[f] = "scan" /\ id \in Due
    /\ pc' = [pc EXCEPT ![f] = "run"] /\ running' = [running EXCEPT ![f] = id]
    /\ fired' = [fired EXCEPT ![id] = IF @ > MaxTick THEN @ ELSE @ + 1]
    /\ UNCHANGED <<tick, on, enabled, active, item, made, ticks, dropped>>

ReturnMutant(f) ==
    LET id == running[f] IN
    /\ pc[f] = "run" /\ pc' = [pc EXCEPT ![f] = "scan"]
    /\ item' = [item EXCEPT ![id].next = @ + item[id].interval]
    /\ active' = IF item[id].repeats THEN active \cup {id} ELSE active \ {id}
    /\ UNCHANGED <<tick, on, enabled, made, running, ticks, fired, dropped>>

(* The function returns.                                                   *)
Return(f) ==
    LET id == running[f] IN
    /\ pc[f] = "run" /\ pc' = [pc EXCEPT ![f] = "scan"]
    /\ IF item[id].repeats
       THEN item' = [item EXCEPT ![id].next = tick + item[id].interval] /\ active' = active
       ELSE active' = active \ {id} /\ item' = item
    /\ UNCHANGED <<tick, on, enabled, made, running, ticks, fired, dropped>>

ScanDoneMutant(f) ==
    /\ pc[f] = "scan"
    /\ pc' = [pc EXCEPT ![f] = IF on THEN "sleep" ELSE "tick"]
    /\ UNCHANGED <<tick, on, enabled, active, item, made, running, ticks, fired, dropped>>

(* No timer is due any more.                                               *)
ScanDone(f) ==
    /\ pc[f] = "scan" /\ Due = {}
    /\ pc' = [pc EXCEPT ![f] = IF on THEN "sleep" ELSE "tick"]
    /\ UNCHANGED <<tick, on, enabled, active, item, made, running, ticks, fired, dropped>>

Wake(f) ==
    /\ pc[f] = "sleep" /\ pc' = [pc EXCEPT ![f] = "tick"]
    /\ UNCHANGED <<tick, on, enabled, active, item, made, running, ticks, fired, dropped>>

-----------------------------------------------------------------------------
Init ==
    /\ tick = 0 /\ on = FALSE /\ enabled = FALSE /\ active = {} /\ made = 0
    /\ item = [id \in Timer |-> NoItem] /\ pc = [f \in Fork |-> "none"]
    /\ running = [f \in Fork |-> 0] /\ ticks = 0 /\ fired = [id \in Timer |-> 0]
    /\ dropped = {}

Step(f) == Tick(f) \/ (\E id \in Timer : Fire(f, id)) \/ Return(f) \/ ScanDone(f) \/ Wake(f)
Handler == \/ Start \/ Stop
           \/ \E d \in 0 .. MaxDelay, r \in Repeats : SetTimer(d, r)
           \/ \E id \in Timer : ClearTimer(id)

(* The handlers run while the ticker has yielded: not between the head of  *)
(* its loop and the end of a scan, unless a function is running.           *)
Yielded == \A f \in Fork : pc[f] # "scan"
Next == (Yielded /\ Handler) \/ \E f \in Fork : Step(f)

Spec == Init /\ [][Next]_vars

(* skynet wakes the ticker, and the functions return.                      *)
FairSpec == Spec /\ \A f \in Fork : WF_vars(Step(f))

-----------------------------------------------------------------------------
(* However often the ticker is stopped and started, also while it sleeps   *)
(* or a function has yielded, one ticker counts the ticks.                 *)
OneTicker == Cardinality({f \in Fork : pc[f] \notin {"none", "end"}}) <= 1

(* A timer's function is called no sooner than its delay, one interval     *)
(* after the other, and that of a timeout once.                            *)
NotEarly ==
    \A id \in Timer : fired[id] > 0 =>
        IF item[id].repeats THEN ticks - item[id].set >= fired[id] * item[id].interval
        ELSE fired[id] = 1 /\ ticks - item[id].set >= item[id].interval

(* When the ticker goes to sleep no timer that is due is left over, those  *)
(* set by the functions that ran in between included.                      *)
NoneLeft == \A f \in Fork : pc[f] = "sleep" => \A id \in active :
                item[id].next <= tick => ticks = item[id].set

(* A cleared timer, or one from before a stop, is not called again.        *)
ClearedSilent == [][\A id \in dropped : fired'[id] = fired[id]]_vars

(* A timer of interval 0, which is always due.                             *)
Endless == \E id \in active : item[id].repeats /\ item[id].interval = 0

(* A timer that is active while the ticker is on has its function called,  *)
(* if there are ticks enough, or it is cleared or dropped by a stop; only  *)
(* a timer of interval 0 can keep it from that.                            *)
TimerFires == \A id \in Timer :
    (on /\ id \in active /\ item[id].set + item[id].interval < MaxTick)
        ~> (fired[id] > 0 \/ id \notin active \/ Endless)

(* doAddTimer refuses a timer with "timer is not active" when no ticker    *)
(* will call it: a timer that it takes has its function called, unless it  *)
(* is cleared or a stop that comes later drops it.                         *)
TakenFires == \A id \in Timer :
    (id \in active /\ item[id].set + item[id].interval < MaxTick)
        ~> (fired[id] > 0 \/ id \notin active \/ Endless)
=============================================================================
