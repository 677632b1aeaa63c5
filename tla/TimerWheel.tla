----------------------------- MODULE TimerWheel -----------------------------
(***************************************************************************)
(* skynet_timer.c: the hierarchical timing wheel behind skynet.timeout and *)
(* skynet.sleep.  Timers due within the current block of 2^NearShift ticks *)
(* are in a slot of near, the others in one of four levels of slots, and   *)
(* each time a level's counter moves on, one of its slots is spread over   *)
(* the levels below.  The counter of ticks is a machine word and wraps.    *)
(*                                                                         *)
(* The timer thread drops the lock while it pushes the messages of the     *)
(* timers that are due; services set timers meanwhile.                     *)
(***************************************************************************)
EXTENDS Integers, SequencesExt

CONSTANTS
    NearShift,  \* TIME_NEAR_SHIFT, 8 in the code
    LevelShift, \* TIME_LEVEL_SHIFT, 6 in the code
    MaxNode,    \* bound: timers set in a run
    MaxDiff     \* bound: ticks the clock may have moved between two looks at it

Levels == 0 .. 3
WordSize == 2^(NearShift + 4 * LevelShift)
Word == 0 .. WordSize - 1
(* A timeout is a positive int, so it spans less than half of the words.   *)
Timeout == 1 .. WordSize \div 2 - 1

NearIdx == 0 .. 2^NearShift - 1
LevelIdx == 0 .. 2^LevelShift - 1
Node == [id : 1 .. MaxNode, expire : Word]

VARIABLES
    T,      \* the wheel: near and t
    time,   \* T->time
    diff,   \* ticks the running skynet_updatetime still has to do
    phase,  \* where the timer thread is: "idle", or in timer_execute before
            \* ("before") or after ("after") the shift, without the lock
    firing, \* the list dispatch_list is working on
    nodes   \* timers set so far

vars == <<T, time, diff, phase, firing, nodes>>

-----------------------------------------------------------------------------
(* The level i of t for a timer outside the current block: the lowest one  *)
(* whose block has both times in it, or the highest.                       *)
Shift(i) == NearShift + i * LevelShift
SameBlock(a, b, shift) == a \div 2^shift = b \div 2^shift
Digit(x, i) == (x \div 2^Shift(i)) % 2^LevelShift

LevelOfMutant(expire, now) ==
    CHOOSE i \in Levels : /\ i = 2 \/ SameBlock(expire, now, Shift(i + 1))
                          /\ \A j \in 0 .. i - 1 : ~SameBlock(expire, now, Shift(j + 1))

LevelOf(expire, now) ==
    CHOOSE i \in Levels : /\ i = 3 \/ SameBlock(expire, now, Shift(i + 1))
                          /\ \A j \in 0 .. i - 1 : ~SameBlock(expire, now, Shift(j + 1))

AddNode(wheel, node, now) ==
    IF SameBlock(node.expire, now, NearShift)
    THEN [wheel EXCEPT !.near[node.expire % 2^NearShift] = Append(@, node)]
    ELSE LET i == LevelOf(node.expire, now) IN
         [wheel EXCEPT !.t[i][Digit(node.expire, i)] = Append(@, node)]

MoveListMutant(wheel, i, idx, now) ==
    FoldLeft(LAMBDA w, node : AddNode(w, node, now),
             [wheel EXCEPT !.t[i][idx] = <<>>], Reverse(wheel.t[i][idx]))

MoveList(wheel, i, idx, now) ==
    FoldLeft(LAMBDA w, node : AddNode(w, node, now),
             [wheel EXCEPT !.t[i][idx] = <<>>], wheel.t[i][idx])

TimerShiftMutant(ct) ==
    LET turning == {i \in Levels : ct % 2^Shift(i) = 0 /\ Digit(ct, i) # 0} IN
    IF turning = {} THEN T
    ELSE LET i == CHOOSE i \in turning : TRUE IN MoveList(T, i, Digit(ct, i), ct)

(* timer_shift for the new time ct: the lowest level whose digit is not 0  *)
(* has its slot spread, when all the digits below have come round to 0.    *)
TimerShift(ct) ==
    LET turning == {i \in Levels : ct % 2^Shift(i) = 0 /\ Digit(ct, i) # 0} IN
    IF ct = 0 THEN MoveList(T, 3, 0, ct)
    ELSE IF turning = {} THEN T
    ELSE LET i == CHOOSE i \in turning : TRUE IN MoveList(T, i, Digit(ct, i), ct)

-----------------------------------------------------------------------------
(* skynet_timeout by any service while the timer thread has not the lock;  *)
(* a timeout of 0 never gets here.                                         *)
TimerAdd(d) ==
    LET node == [id |-> nodes + 1, expire |-> (time + d) % WordSize] IN
    /\ nodes < MaxNode
    /\ nodes' = nodes + 1
    /\ T' = AddNode(T, node, time)
    /\ UNCHANGED <<time, diff, phase, firing>>

(* skynet_updatetime finds that the clock has moved.                       *)
UpdateTime(d) ==
    /\ phase = "idle" /\ diff = 0
    /\ diff' = d
    /\ UNCHANGED <<T, time, phase, firing, nodes>>

(* The loop of timer_execute: take the list that is due and let go of the  *)
(* lock, or go on.                                                         *)
Take(wheel, now, ph) ==
    LET idx == now % 2^NearShift IN
    /\ T' = [wheel EXCEPT !.near[idx] = <<>>]
    /\ firing' = wheel.near[idx]
    /\ phase' = ph

IsDue(wheel, now) == wheel.near[now % 2^NearShift] # <<>>

(* timer_update with the lock: what is due already is taken (the code      *)
(* calls that rare; no timer is ever set for the current tick), else the   *)
(* time is shifted and what is due now is taken ...                        *)
AtUpdate == (phase = "idle" /\ diff > 0) \/ (phase = "before" /\ firing = <<>>)

ShiftAndExecute ==
    LET ct == (time + 1) % WordSize
        wheel == TimerShift(ct) IN
    /\ time' = ct
    /\ IF IsDue(wheel, ct)
       THEN Take(wheel, ct, "after") /\ diff' = diff
       ELSE T' = wheel /\ phase' = "idle" /\ diff' = diff - 1 /\ firing' = firing

TimerUpdate ==
    /\ AtUpdate
    /\ IF IsDue(T, time) THEN Take(T, time, "before") /\ UNCHANGED <<time, diff>>
                         ELSE ShiftAndExecute
    /\ nodes' = nodes

(* ... and once more, until nothing is.                                    *)
ExecuteAfter ==
    /\ phase = "after" /\ firing = <<>>
    /\ IF IsDue(T, time)
       THEN Take(T, time, "after") /\ diff' = diff
       ELSE T' = T /\ phase' = "idle" /\ diff' = diff - 1 /\ firing' = firing
    /\ UNCHANGED <<time, nodes>>

(* dispatch_list pushes one message.                                       *)
Fire ==
    /\ firing # <<>>
    /\ firing' = Tail(firing)
    /\ UNCHANGED <<T, time, diff, phase, nodes>>

-----------------------------------------------------------------------------
Init ==
    /\ T = [near |-> [i \in NearIdx |-> <<>>],
            t |-> [i \in Levels |-> [j \in LevelIdx |-> <<>>]]]
    /\ time = 0 /\ diff = 0 /\ phase = "idle" /\ firing = <<>> /\ nodes = 0

TimerThread == TimerUpdate \/ ExecuteAfter \/ Fire
               \/ \E d \in 1 .. MaxDiff : UpdateTime(d)

Next == TimerThread \/ \E d \in Timeout : TimerAdd(d)

Spec == Init /\ [][Next]_vars

(* The timer thread looks at the clock every 2.5 ms and the clock moves.   *)
FairSpec == Spec /\ WF_vars(TimerThread)

-----------------------------------------------------------------------------
Slots == {T.near[i] : i \in NearIdx} \cup UNION {{T.t[i][j] : j \in LevelIdx} : i \in Levels}
Pending == UNION {Range(s) : s \in Slots}

(* Every variable has its type.                                            *)
TypeOK ==
    /\ T \in [near : [NearIdx -> Seq(Node)], t : [Levels -> [LevelIdx -> Seq(Node)]]]
    /\ time \in Word /\ diff \in 0 .. MaxDiff
    /\ phase \in {"idle", "before", "after"}
    /\ firing \in Seq(Node) /\ nodes \in 0 .. MaxNode

(* A timer fires at the tick it was set for, never early and never late:   *)
(* what is being fired is due now, and what is not fired yet is due later. *)
(* An expiry that lies behind the wrap of the word counts as later, and a  *)
(* timer that misses its slot would wait for a whole round.                *)
OnTime ==
    /\ \A node \in Range(firing) : node.expire = time
    /\ \A node \in Pending : (node.expire - time) % WordSize \in Timeout

(* Each waiting timer is in the slot add_node would choose for it now, so  *)
(* the slots that timer_shift spreads and timer_execute takes are the ones *)
(* where it is.                                                            *)
InItsSlot ==
    /\ \A i \in NearIdx : \A node \in Range(T.near[i]) :
           SameBlock(node.expire, time, NearShift) /\ node.expire % 2^NearShift = i
    /\ \A i \in Levels, j \in LevelIdx : \A node \in Range(T.t[i][j]) :
           /\ ~SameBlock(node.expire, time, NearShift)
           /\ i = LevelOf(node.expire, time) /\ j = Digit(node.expire, i)

(* Timers of the same tick fire in the order in which they were set, over  *)
(* whatever levels they came down.                                         *)
SameTickInOrder ==
    \A s \in Slots \cup {firing} : \A i, j \in 1 .. Len(s) :
        i < j /\ s[i].expire = s[j].expire => s[i].id < s[j].id

(* Every timer fires.                                                      *)
AllFire == \A n \in 1 .. MaxNode :
    (\E node \in Pending : node.id = n) ~> ~(\E node \in Pending \cup Range(firing) : node.id = n)
=============================================================================
