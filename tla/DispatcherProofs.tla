-------------------------- MODULE DispatcherProofs --------------------------
(***************************************************************************)
(* What Dispatcher guarantees for any number of threads, services and      *)
(* messages.                                                               *)
(*                                                                         *)
(* The steps a thread still has to do are a stack: an action replaces the  *)
(* topmost step or puts one on top of it.  Places knows a step by the      *)
(* number of steps below it, so an action changes a set of places at one   *)
(* end and the reference counts can follow.                                *)
(*                                                                         *)
(* The last part shows that Dispatcher implements Mailbox: every step of   *)
(* the threads is one step of the mailboxes or none.  The inductive        *)
(* invariant says why: a worker that takes a message is alone with the     *)
(* queue, a context in use is not dead, and a service that is handled has  *)
(* been initialised.                                                       *)
(***************************************************************************)
EXTENDS Dispatcher, SequenceTheorems, FiniteSetTheorems, TLAPS

(* What the steps of a thread may be.                                      *)
WithMessage == {"send", "push", "length", "run"}
Plain == {"release", "delete", "retire", "new", "init", "ready", "gpush", "mqrelease", "drop",
          "loop", "grab", "back"}
Unnamed == {"loop", "nextq", "sleep", "wait", "woken"}
StepRecord == [pc : WithMessage, s : Service, m : Msg, n : Int]
              \cup [pc : {"pop"}, s : Service, m : {None}, n : Int]
              \cup [pc : Plain, s : Service, m : {None}, n : {0}]
              \cup [pc : Unnamed, s : {None}, m : {None}, n : {0}]

(* Steps a worker has at the bottom of its stack and nobody has elsewhere. *)
Bottom == {"loop", "grab", "nextq", "pop", "length", "run", "back", "sleep", "wait", "woken"}
Handles == {"pop", "length", "run", "back"}

StackOK ==
    /\ todo \in [Thread -> Seq(StepRecord)]
    /\ \A s \in Service \cup {None} : \A t \in Thread, d \in Nat :
          <<t, d>> \in Places(Bottom, s) => d = 0 /\ t \in Worker

(* A push is done with the reference that the next step gives back.        *)
PushHeld(s) ==
    \A t \in Thread, d \in Nat : <<t, d>> \in Places({"push"}, s) =>
        d > 0 /\ <<t, d - 1>> \in Places({"release"}, s)

InSlot(s) == IF s \in slot THEN 1 ELSE 0

(* References: as many as there are users of the context, none when it is  *)
(* freed, and one thread frees it when the last one is given back.         *)
RefOK(s) ==
    /\ IsFiniteSet(Places(HoldsRef, s))
    /\ ctx[s].alive => ctx[s].ref = Cardinality(Places(HoldsRef, s)) + InSlot(s)
    /\ ~ctx[s].alive => s \notin slot /\ Places(HoldsRef, s) = {}
    /\ Places({"delete"}, s) # {} => ctx[s].alive /\ ctx[s].ref = 0
    /\ ctx[s].alive /\ ctx[s].ref = 0 => Places({"delete"}, s) # {}
    /\ \A p, q \in Places({"delete"}, s) : p = q

Queued(s) == \E i \in 1 .. Len(global) : global[i] = s
Once(s) == \A i, j \in 1 .. Len(global) : global[i] = s /\ global[j] = s => i = j
Somewhere(s) == Queued(s) \/ Places(HoldsQueue, s) # {}

(* Queues: one place at most, and the flags say whether there is one.      *)
QueueOK(s) ==
    /\ \A p, q \in Places(HoldsQueue, s) : p = q
    /\ Once(s)
    /\ Places(HoldsQueue, s) # {} => ~Queued(s)
    /\ Somewhere(s) => mq[s].alive /\ (mq[s].in_global \/ mq[s].release)
    /\ ~quit /\ mq[s].alive /\ (mq[s].in_global \/ mq[s].release) => Somewhere(s)
    /\ Places({"drop"}, s) # {} => mq[s].release
    /\ mq[s].release => ~ctx[s].alive
    /\ ctx[s].alive => mq[s].alive

(* A service is launched once, into an empty place.                        *)
BornOK(s) ==
    /\ ctx[s].ref = Unborn => /\ ~ctx[s].alive /\ ~ctx[s].init
                              /\ ~mq[s].alive /\ ~mq[s].release /\ mq[s].msgs = <<>>
    /\ Places({"new"}, s) # {} => ctx[s].ref = Unborn
    /\ \A p, q \in Places({"new"}, s) : p = q

(* While a service that can be found is not initialised, its queue is with *)
(* the thread that launches it.                                            *)
Launching(s) ==
    \E t \in Thread, d \in Nat :
        \/ <<t, d>> \in Places({"init"}, s)
        \/ <<t, d>> \in Places({"gpush"}, s) /\ <<t, d + 1>> \in Places({"ready"}, s)
        \/ <<t, d>> \in Places({"mqrelease"}, s) /\ <<t, d + 1>> \in Places({"retire"}, s)
ReadyOK(s) ==
    /\ Places({"init", "ready"}, s) # {} => ~ctx[s].init
    /\ \A t \in Thread, d \in Nat : <<t, d>> \in Places({"ready"}, s) =>
          d > 0 /\ <<t, d - 1>> \in Places({"gpush"}, s)
    /\ Places(Handles, s) # {} => ctx[s].init
    /\ s \in slot /\ ~ctx[s].init => Launching(s)

ServiceOK(s) == PushHeld(s) /\ RefOK(s) /\ QueueOK(s) /\ BornOK(s) /\ ReadyOK(s)

(* The types of the variables, the stacks apart.                           *)
Context == [ref : Nat \cup {Unborn}, init : BOOLEAN, alive : BOOLEAN]
Queue == [msgs : Seq(Msg), in_global : BOOLEAN, release : BOOLEAN, alive : BOOLEAN]
DataOK ==
    /\ slot \subseteq Service /\ ctx \in [Service -> Context] /\ mq \in [Service -> Queue]
    /\ global \in Seq(Service) /\ quit \in BOOLEAN /\ sent \in 0 .. MaxMsg

IInv == DataOK /\ StackOK /\ \A s \in Service : ServiceOK(s)

-----------------------------------------------------------------------------
(* Stacks and places.                                                      *)
StackType == todo \in [Thread -> Seq(StepRecord)]
NewAt(x, K, s, p) == IF x.s = s /\ x.pc \in K THEN {p} ELSE {}
Height(t) == Len(todo[t]) - 1

(* Places, for any content td of the stacks.                               *)
PlacesIn(td, K, s) ==
    UNION {{<<t, Len(td[t]) - i>> : i \in {j \in 1 .. Len(td[t]) :
                td[t][j].s = s /\ td[t][j].pc \in K}} : t \in Thread}
Names(td, K, s, t, d) ==
    /\ d < Len(td[t])
    /\ td[t][Len(td[t]) - d].s = s /\ td[t][Len(td[t]) - d].pc \in K

(* A place is a thread and a depth, and names one step.                    *)
LEMMA PlacesInDef ==
    ASSUME NEW td \in [Thread -> Seq(StepRecord)], NEW K, NEW s
    PROVE  /\ PlacesIn(td, K, s) \in SUBSET (Thread \X Nat)
           /\ \A t \in Thread, d \in Nat : <<t, d>> \in PlacesIn(td, K, s) <=> Names(td, K, s, t, d)
<1>1. \A t \in Thread : td[t] \in Seq(StepRecord) /\ Len(td[t]) \in Nat
  OBVIOUS
<1>2. ASSUME NEW t \in Thread, NEW d \in Nat, <<t, d>> \in PlacesIn(td, K, s)
      PROVE  Names(td, K, s, t, d)
  <2>1. PICK i \in 1 .. Len(td[t]) : /\ d = Len(td[t]) - i
                                     /\ td[t][i].s = s /\ td[t][i].pc \in K
    BY <1>2 DEF PlacesIn
  <2>2. i = Len(td[t]) - d
    BY <1>1, <2>1
  <2> QED BY <1>1, <2>1, <2>2 DEF Names
<1>3. ASSUME NEW t \in Thread, NEW d \in Nat, Names(td, K, s, t, d)
      PROVE  <<t, d>> \in PlacesIn(td, K, s)
  <2>1. Len(td[t]) - d \in 1 .. Len(td[t]) /\ d = Len(td[t]) - (Len(td[t]) - d)
    BY <1>1, <1>3 DEF Names
  <2>2. <<t, d>> \in {<<t, Len(td[t]) - i>> : i \in {j \in 1 .. Len(td[t]) :
                          td[t][j].s = s /\ td[t][j].pc \in K}}
    BY <1>3, <2>1 DEF Names
  <2> QED BY <2>2 DEF PlacesIn
<1>4. ASSUME NEW p \in PlacesIn(td, K, s)  PROVE p \in Thread \X Nat
  <2>1. PICK t \in Thread : \E i \in 1 .. Len(td[t]) : p = <<t, Len(td[t]) - i>>
    BY DEF PlacesIn
  <2>2. PICK i \in 1 .. Len(td[t]) : p = <<t, Len(td[t]) - i>>
    BY <2>1
  <2>3. Len(td[t]) - i \in Nat
    BY <1>1
  <2> QED BY <2>2, <2>3
<1> QED BY <1>2, <1>3, <1>4

(* What it is for a place to be one of the steps K of a service.           *)
LEMMA PlaceDef ==
    ASSUME StackType, NEW K, NEW s
    PROVE  /\ Places(K, s) \in SUBSET (Thread \X Nat)
           /\ \A t \in Thread, d \in Nat : <<t, d>> \in Places(K, s) <=> Names(todo, K, s, t, d)
<1>1. Places(K, s) = PlacesIn(todo, K, s)
  BY DEF Places, PlacesIn
<1> QED BY <1>1, PlacesInDef DEF StackType

(* The same after a step.                                                  *)
LEMMA PlaceDefNext ==
    ASSUME StackType', NEW K, NEW s
    PROVE  /\ Places(K, s)' \in SUBSET (Thread \X Nat)
           /\ \A t \in Thread, d \in Nat : <<t, d>> \in Places(K, s)' <=> Names(todo', K, s, t, d)
<1>1. Places(K, s)' = PlacesIn(todo', K, s)
  BY DEF Places, PlacesIn
<1> QED BY <1>1, PlacesInDef DEF StackType

(* Two sets of places with the same pairs are equal.                       *)
LEMMA SamePlaces ==
    ASSUME NEW A \in SUBSET (Thread \X Nat), NEW B \in SUBSET (Thread \X Nat),
           \A t \in Thread, d \in Nat : <<t, d>> \in A <=> <<t, d>> \in B
    PROVE  A = B
  OBVIOUS

(* The topmost step.                                                       *)
LEMMA TopPlace ==
    ASSUME StackType, NEW t \in Thread, todo[t] # <<>>, NEW K, NEW s
    PROVE  /\ Height(t) \in Nat
           /\ <<t, Height(t)>> \in Places(K, s) <=> Top(t).s = s /\ Top(t).pc \in K
           /\ Top(t) \in StepRecord
           /\ \A d \in Nat : <<t, d>> \in Places(K, s) => d <= Height(t)
<1>1. todo[t] \in Seq(StepRecord) /\ Len(todo[t]) \in Nat /\ Len(todo[t]) > 0
  BY EmptySeq DEF StackType
<1>2. Height(t) \in Nat /\ Len(todo[t]) - Height(t) = 1 /\ Height(t) < Len(todo[t])
  BY <1>1 DEF Height
<1>3. \A d \in Nat : <<t, d>> \in Places(K, s) => d <= Height(t)
  BY <1>1, PlaceDef DEF Height, Names
<1>4. Top(t) \in StepRecord
  BY <1>1 DEF Top
<1> QED BY <1>2, <1>3, <1>4, PlaceDef DEF Top, Names

(* Replacing the topmost step: what is below keeps its place.              *)
LEMMA Replaced ==
    ASSUME NEW q \in Seq(StepRecord), q # <<>>, NEW steps \in Seq(StepRecord),
           NEW d \in Nat
    PROVE  LET r == steps \o Tail(q)
               h == Len(q) - 1 IN
           /\ r \in Seq(StepRecord) /\ Len(r) = h + Len(steps) /\ h \in Nat /\ Len(steps) \in Nat
           /\ d < h => d < Len(q) /\ r[Len(r) - d] = q[Len(q) - d]
           /\ d >= h /\ d < Len(r) => r[Len(r) - d] = steps[Len(r) - d]
<1> DEFINE r == steps \o Tail(q)
           h == Len(q) - 1
<1>1. Len(q) \in Nat /\ Len(q) > 0 /\ Len(steps) \in Nat
  BY EmptySeq
<1>2. Tail(q) \in Seq(StepRecord) /\ Len(Tail(q)) = h
      /\ \A i \in 1 .. h : Tail(q)[i] = q[i + 1]
  BY <1>1
<1>3. /\ r \in Seq(StepRecord) /\ Len(r) = Len(steps) + h
      /\ \A i \in 1 .. Len(r) : r[i] = IF i <= Len(steps) THEN steps[i] ELSE Tail(q)[i - Len(steps)]
  BY <1>1, <1>2, ConcatProperties
<1> HIDE DEF r
<1>4. ASSUME d < h  PROVE d < Len(q) /\ r[Len(r) - d] = q[Len(q) - d]
  <2>1. /\ Len(r) - d \in 1 .. Len(r) /\ ~(Len(r) - d <= Len(steps))
        /\ (Len(r) - d) - Len(steps) = h - d /\ h - d \in 1 .. h /\ h - d + 1 = Len(q) - d
    BY <1>1, <1>3, <1>4
  <2>2. r[Len(r) - d] = Tail(q)[(Len(r) - d) - Len(steps)]
    BY <1>3, <2>1
  <2>3. Tail(q)[h - d] = q[h - d + 1]
    BY <1>2, <2>1
  <2>4. r[Len(r) - d] = q[Len(q) - d]
    BY <2>1, <2>2, <2>3, Zenon
  <2>5. d < Len(q)
    BY <1>1, <1>4
  <2> QED BY <2>4, <2>5
<1>5. ASSUME d >= h, d < Len(r)  PROVE r[Len(r) - d] = steps[Len(r) - d]
  <2>1. Len(r) - d \in 1 .. Len(r) /\ Len(r) - d <= Len(steps)
    BY <1>1, <1>3, <1>5
  <2> QED BY <1>3, <2>1
<1>6. h \in Nat
  BY <1>1
<1> QED BY <1>1, <1>3, <1>4, <1>5, <1>6 DEF r

(* Replacing the topmost step of a thread changes no place below it and    *)
(* none of another thread.                                                 *)
LEMMA DoPlaces ==
    ASSUME StackType, NEW t \in Thread, todo[t] # <<>>, NEW steps \in Seq(StepRecord),
           Do(t, steps)
    PROVE  /\ StackType' /\ Height(t) \in Nat /\ Len(steps) \in Nat
           /\ \A K, s : \A u \in Thread, d \in Nat :
                <<u, d>> \in Places(K, s)' <=>
                   IF u = t /\ d >= Height(t)
                   THEN /\ d < Height(t) + Len(steps)
                        /\ steps[Height(t) + Len(steps) - d].s = s
                        /\ steps[Height(t) + Len(steps) - d].pc \in K
                   ELSE <<u, d>> \in Places(K, s)
<1> DEFINE r == steps \o Tail(todo[t])
           h == Len(todo[t]) - 1
<1>1. todo[t] \in Seq(StepRecord)
  BY DEF StackType
<1>2. /\ r \in Seq(StepRecord) /\ Len(r) = h + Len(steps) /\ h \in Nat /\ Len(steps) \in Nat
      /\ \A d \in Nat : /\ d < h => d < Len(todo[t]) /\ r[Len(r) - d] = todo[t][Len(todo[t]) - d]
                        /\ d >= h /\ d < Len(r) => r[Len(r) - d] = steps[Len(r) - d]
  BY <1>1, Replaced
<1>3. todo' = [todo EXCEPT ![t] = r]
  BY DEF Do
<1> HIDE DEF r
<1>4. StackType' /\ todo'[t] = r /\ \A u \in Thread \ {t} : todo'[u] = todo[u]
  BY <1>2, <1>3 DEF StackType
<1>5. ASSUME NEW K, NEW s, NEW u \in Thread, NEW d \in Nat
      PROVE  <<u, d>> \in Places(K, s)' <=>
                IF u = t /\ d >= h
                THEN /\ d < h + Len(steps)
                     /\ steps[h + Len(steps) - d].s = s /\ steps[h + Len(steps) - d].pc \in K
                ELSE <<u, d>> \in Places(K, s)
  <2>1. <<u, d>> \in Places(K, s)' <=>
              /\ d < Len(todo'[u])
              /\ todo'[u][Len(todo'[u]) - d].s = s /\ todo'[u][Len(todo'[u]) - d].pc \in K
    BY <1>4, PlaceDefNext DEF Names
  <2>2. <<u, d>> \in Places(K, s) <=>
              /\ d < Len(todo[u])
              /\ todo[u][Len(todo[u]) - d].s = s /\ todo[u][Len(todo[u]) - d].pc \in K
    BY PlaceDef DEF Names
  <2>3. CASE u # t
    BY <1>4, <2>1, <2>2, <2>3
  <2>4. CASE u = t /\ d < h
    <3>1. d < Len(r) /\ ~(d >= h)
      BY <1>2, <2>4
    <3>2. todo'[u] = r /\ d < Len(todo[t]) /\ r[Len(r) - d] = todo[t][Len(todo[t]) - d]
      BY <1>2, <1>4, <2>4
    <3> HIDE DEF h
    <3> QED BY <2>1, <2>2, <2>4, <3>1, <3>2, Zenon
  <2>5. CASE u = t /\ d >= h
    <3>1. todo'[u] = r /\ Len(r) = h + Len(steps)
      BY <1>2, <1>4, <2>5
    <3>2. d < Len(r) => r[Len(r) - d] = steps[h + Len(steps) - d]
      BY <1>2, <2>5
    <3>3. <<u, d>> \in Places(K, s)' <=>
              d < Len(r) /\ r[Len(r) - d].s = s /\ r[Len(r) - d].pc \in K
      BY <2>1, <3>1
    <3> HIDE DEF h
    <3> QED BY <2>5, <3>1, <3>2, <3>3
  <2> HIDE DEF h
  <2> QED BY <1>2, <2>3, <2>4, <2>5
<1>6. h = Height(t)
  BY DEF Height
<1> HIDE DEF h
<1>7. \A K, s : \A u \in Thread, d \in Nat :
         <<u, d>> \in Places(K, s)' <=>
            IF u = t /\ d >= h
            THEN /\ d < h + Len(steps)
                 /\ steps[h + Len(steps) - d].s = s /\ steps[h + Len(steps) - d].pc \in K
            ELSE <<u, d>> \in Places(K, s)
  BY <1>5, Zenon
<1>8. \A K, s : \A u \in Thread, d \in Nat :
         <<u, d>> \in Places(K, s)' <=>
            IF u = t /\ d >= Height(t)
            THEN /\ d < Height(t) + Len(steps)
                 /\ steps[Height(t) + Len(steps) - d].s = s
                 /\ steps[Height(t) + Len(steps) - d].pc \in K
            ELSE <<u, d>> \in Places(K, s)
  <2> HIDE DEF Height
  <2> QED BY ONLY <1>6, <1>7
<1>9. StackType' /\ Height(t) \in Nat /\ Len(steps) \in Nat
  BY <1>2, <1>4, <1>6
<1> QED BY <1>8, <1>9, Zenon

(* The actions drop the topmost step or put up to three in its place.      *)
LEMMA Do0 ==
    ASSUME StackType, NEW t \in Thread, todo[t] # <<>>, Do(t, <<>>)
    PROVE  /\ StackType'
           /\ \A K, s : Places(K, s)' = Places(K, s) \ {<<t, Height(t)>>}
<1>1. <<>> \in Seq(StepRecord) /\ Len(<<>>) = 0
  OBVIOUS
<1>2. StackType' /\ Height(t) \in Nat
  BY <1>1, DoPlaces
<1>3. ASSUME NEW K, NEW s  PROVE Places(K, s)' = Places(K, s) \ {<<t, Height(t)>>}
  <2> DEFINE S == Places(K, s) \ {<<t, Height(t)>>}
  <2>1. S \in SUBSET (Thread \X Nat)
    BY PlaceDef
  <2>2. \A d \in Nat : <<t, d>> \in Places(K, s) => d <= Height(t)
    BY TopPlace
  <2>3. ASSUME NEW u \in Thread, NEW d \in Nat
        PROVE  <<u, d>> \in Places(K, s)' <=> <<u, d>> \in S
    <3>1. <<u, d>> \in Places(K, s)' <=>
             IF u = t /\ d >= Height(t)
             THEN /\ d < Height(t) + 0
                  /\ <<>>[Height(t) + 0 - d].s = s /\ <<>>[Height(t) + 0 - d].pc \in K
             ELSE <<u, d>> \in Places(K, s)
      BY <1>1, DoPlaces
    <3>2. u = t /\ d >= Height(t) => ~(d < Height(t) + 0)
      BY <1>2
    <3>3. u = t /\ d >= Height(t) /\ <<u, d>> \in Places(K, s) => d = Height(t)
      BY <1>2, <2>2
    <3> QED BY <1>2, <3>1, <3>2, <3>3
  <2>4. Places(K, s)' \in SUBSET (Thread \X Nat)
    BY <1>2, PlaceDefNext
  <2> HIDE DEF S
  <2>5. Places(K, s)' = S
    BY <2>1, <2>3, <2>4, SamePlaces
  <2> QED BY <2>5 DEF S
<1> QED BY <1>2, <1>3

(* One step in place of the topmost one.                                   *)
LEMMA Do1 ==
    ASSUME StackType, NEW t \in Thread, todo[t] # <<>>, NEW x \in StepRecord, Do(t, <<x>>)
    PROVE  /\ StackType'
           /\ \A K, s : Places(K, s)' = (Places(K, s) \ {<<t, Height(t)>>})
                                          \cup NewAt(x, K, s, <<t, Height(t)>>)
<1>1. <<x>> \in Seq(StepRecord) /\ Len(<<x>>) = 1 /\ <<x>>[1] = x
  OBVIOUS
<1>2. StackType' /\ Height(t) \in Nat
  BY <1>1, DoPlaces
<1>3. ASSUME NEW K, NEW s
      PROVE  Places(K, s)' = (Places(K, s) \ {<<t, Height(t)>>})
                               \cup NewAt(x, K, s, <<t, Height(t)>>)
  <2> DEFINE S == (Places(K, s) \ {<<t, Height(t)>>}) \cup NewAt(x, K, s, <<t, Height(t)>>)
  <2>1. S \in SUBSET (Thread \X Nat)
    BY <1>2, PlaceDef DEF NewAt
  <2>2. \A d \in Nat : <<t, d>> \in Places(K, s) => d <= Height(t)
    BY TopPlace
  <2>3. ASSUME NEW u \in Thread, NEW d \in Nat
        PROVE  <<u, d>> \in Places(K, s)' <=> <<u, d>> \in S
    <3>1. <<u, d>> \in Places(K, s)' <=>
             IF u = t /\ d >= Height(t)
             THEN /\ d < Height(t) + 1
                  /\ <<x>>[Height(t) + 1 - d].s = s /\ <<x>>[Height(t) + 1 - d].pc \in K
             ELSE <<u, d>> \in Places(K, s)
      BY <1>1, DoPlaces
    <3>2. CASE u = t /\ d >= Height(t)
      <4>1. d < Height(t) + 1 => d = Height(t) /\ Height(t) + 1 - d = 1
        BY <1>2, <3>2
      <4>2. d = Height(t) => d < Height(t) + 1 /\ Height(t) + 1 - d = 1
        BY <1>2
      <4>3. <<u, d>> \in S <=> d = Height(t) /\ x.s = s /\ x.pc \in K
        BY <2>2, <3>2, <1>2 DEF NewAt
      <4> QED BY <1>1, <3>1, <3>2, <4>1, <4>2, <4>3
    <3>3. CASE ~(u = t /\ d >= Height(t))
      BY <1>2, <3>1, <3>3 DEF NewAt
    <3> QED BY <3>2, <3>3
  <2>4. Places(K, s)' \in SUBSET (Thread \X Nat)
    BY <1>2, PlaceDefNext
  <2> HIDE DEF S
  <2>5. Places(K, s)' = S
    BY <2>1, <2>3, <2>4, SamePlaces
  <2> QED BY <2>5 DEF S
<1> QED BY <1>2, <1>3

(* Two steps in its place: the second takes the old place, the first the   *)
(* next.                                                                   *)
LEMMA Do2 ==
    ASSUME StackType, NEW t \in Thread, todo[t] # <<>>,
           NEW x \in StepRecord, NEW y \in StepRecord, Do(t, <<x, y>>)
    PROVE  /\ StackType'
           /\ \A K, s : Places(K, s)' = (Places(K, s) \ {<<t, Height(t)>>})
                                          \cup NewAt(x, K, s, <<t, Height(t) + 1>>)
                                          \cup NewAt(y, K, s, <<t, Height(t)>>)
<1>1. <<x, y>> \in Seq(StepRecord) /\ Len(<<x, y>>) = 2 /\ <<x, y>>[1] = x /\ <<x, y>>[2] = y
  OBVIOUS
<1>2. StackType' /\ Height(t) \in Nat
  BY <1>1, DoPlaces
<1>3. ASSUME NEW K, NEW s
      PROVE  Places(K, s)' = (Places(K, s) \ {<<t, Height(t)>>})
                               \cup NewAt(x, K, s, <<t, Height(t) + 1>>)
                               \cup NewAt(y, K, s, <<t, Height(t)>>)
  <2> DEFINE S == (Places(K, s) \ {<<t, Height(t)>>})
                    \cup NewAt(x, K, s, <<t, Height(t) + 1>>)
                    \cup NewAt(y, K, s, <<t, Height(t)>>)
  <2>1. S \in SUBSET (Thread \X Nat)
    BY <1>2, PlaceDef DEF NewAt
  <2>2. \A d \in Nat : <<t, d>> \in Places(K, s) => d <= Height(t)
    BY TopPlace
  <2>3. ASSUME NEW u \in Thread, NEW d \in Nat
        PROVE  <<u, d>> \in Places(K, s)' <=> <<u, d>> \in S
    <3>1. <<u, d>> \in Places(K, s)' <=>
             IF u = t /\ d >= Height(t)
             THEN /\ d < Height(t) + 2
                  /\ <<x, y>>[Height(t) + 2 - d].s = s /\ <<x, y>>[Height(t) + 2 - d].pc \in K
             ELSE <<u, d>> \in Places(K, s)
      <4> DEFINE steps == <<x, y>>
      <4>1. steps \in Seq(StepRecord) /\ Do(t, steps) /\ Len(steps) = 2
        BY <1>1
      <4> HIDE DEF steps
      <4>2. <<u, d>> \in Places(K, s)' <=>
               IF u = t /\ d >= Height(t)
               THEN /\ d < Height(t) + Len(steps)
                    /\ steps[Height(t) + Len(steps) - d].s = s
                    /\ steps[Height(t) + Len(steps) - d].pc \in K
               ELSE <<u, d>> \in Places(K, s)
        BY <4>1, DoPlaces, Zenon
      <4> QED BY <4>1, <4>2, Zenon DEF steps
    <3>2. CASE u = t /\ d >= Height(t)
      <4>1. <<u, d>> \in S <=> \/ d = Height(t) /\ y.s = s /\ y.pc \in K
                               \/ d = Height(t) + 1 /\ x.s = s /\ x.pc \in K
        BY <2>2, <3>2, <1>2 DEF NewAt
      <4>2. CASE d = Height(t)
        <5>1. d < Height(t) + 2 /\ Height(t) + 2 - d = 2 /\ d # Height(t) + 1
          BY <1>2, <4>2
        <5> QED BY <1>1, <3>1, <3>2, <4>1, <4>2, <5>1
      <4>3. CASE d = Height(t) + 1
        <5>1. d < Height(t) + 2 /\ Height(t) + 2 - d = 1 /\ d # Height(t)
          BY <1>2, <4>3
        <5> QED BY <1>1, <3>1, <3>2, <4>1, <4>3, <5>1
      <4>4. CASE d >= Height(t) + 2
        <5>1. ~(d < Height(t) + 2) /\ d # Height(t) /\ d # Height(t) + 1
          BY <1>2, <4>4
        <5> QED BY <3>1, <3>2, <4>1, <5>1
      <4> QED BY <1>2, <3>2, <4>2, <4>3, <4>4
    <3>3. CASE ~(u = t /\ d >= Height(t))
      BY <1>2, <3>1, <3>3 DEF NewAt
    <3> QED BY <3>2, <3>3
  <2>4. Places(K, s)' \in SUBSET (Thread \X Nat)
    BY <1>2, PlaceDefNext
  <2> HIDE DEF S
  <2>5. Places(K, s)' = S
    BY <2>1, <2>3, <2>4, SamePlaces
  <2> QED BY <2>5 DEF S
<1> QED BY <1>2, <1>3

(* Three steps in its place.                                               *)
LEMMA Do3 ==
    ASSUME StackType, NEW t \in Thread, todo[t] # <<>>, NEW x \in StepRecord,
           NEW y \in StepRecord, NEW z \in StepRecord, Do(t, <<x, y, z>>)
    PROVE  /\ StackType'
           /\ \A K, s : Places(K, s)' = (Places(K, s) \ {<<t, Height(t)>>})
                                          \cup NewAt(x, K, s, <<t, Height(t) + 2>>)
                                          \cup NewAt(y, K, s, <<t, Height(t) + 1>>)
                                          \cup NewAt(z, K, s, <<t, Height(t)>>)
<1>1. /\ <<x, y, z>> \in Seq(StepRecord) /\ Len(<<x, y, z>>) = 3
      /\ <<x, y, z>>[1] = x /\ <<x, y, z>>[2] = y /\ <<x, y, z>>[3] = z
  OBVIOUS
<1>2. StackType' /\ Height(t) \in Nat
  BY <1>1, DoPlaces
<1>3. ASSUME NEW K, NEW s
      PROVE  Places(K, s)' = (Places(K, s) \ {<<t, Height(t)>>})
                               \cup NewAt(x, K, s, <<t, Height(t) + 2>>)
                               \cup NewAt(y, K, s, <<t, Height(t) + 1>>)
                               \cup NewAt(z, K, s, <<t, Height(t)>>)
  <2> DEFINE S == (Places(K, s) \ {<<t, Height(t)>>})
                    \cup NewAt(x, K, s, <<t, Height(t) + 2>>)
                    \cup NewAt(y, K, s, <<t, Height(t) + 1>>)
                    \cup NewAt(z, K, s, <<t, Height(t)>>)
  <2>1. S \in SUBSET (Thread \X Nat)
    BY <1>2, PlaceDef DEF NewAt
  <2>2. \A d \in Nat : <<t, d>> \in Places(K, s) => d <= Height(t)
    BY TopPlace
  <2>3. ASSUME NEW u \in Thread, NEW d \in Nat
        PROVE  <<u, d>> \in Places(K, s)' <=> <<u, d>> \in S
    <3>1. <<u, d>> \in Places(K, s)' <=>
             IF u = t /\ d >= Height(t)
             THEN /\ d < Height(t) + 3
                  /\ <<x, y, z>>[Height(t) + 3 - d].s = s
                  /\ <<x, y, z>>[Height(t) + 3 - d].pc \in K
             ELSE <<u, d>> \in Places(K, s)
      <4> DEFINE steps == <<x, y, z>>
      <4>1. steps \in Seq(StepRecord) /\ Do(t, steps) /\ Len(steps) = 3
        BY <1>1
      <4> HIDE DEF steps
      <4>2. <<u, d>> \in Places(K, s)' <=>
               IF u = t /\ d >= Height(t)
               THEN /\ d < Height(t) + Len(steps)
                    /\ steps[Height(t) + Len(steps) - d].s = s
                    /\ steps[Height(t) + Len(steps) - d].pc \in K
               ELSE <<u, d>> \in Places(K, s)
        BY <4>1, DoPlaces, Zenon
      <4> QED BY <4>1, <4>2, Zenon DEF steps
    <3>2. CASE u = t /\ d >= Height(t)
      <4>1. <<u, d>> \in S <=> \/ d = Height(t) /\ z.s = s /\ z.pc \in K
                               \/ d = Height(t) + 1 /\ y.s = s /\ y.pc \in K
                               \/ d = Height(t) + 2 /\ x.s = s /\ x.pc \in K
        BY <2>2, <3>2, <1>2 DEF NewAt
      <4>2. CASE d = Height(t)
        <5>1. d < Height(t) + 3 /\ Height(t) + 3 - d = 3
              /\ d # Height(t) + 1 /\ d # Height(t) + 2
          BY <1>2, <4>2
        <5> QED BY <1>1, <3>1, <3>2, <4>1, <4>2, <5>1
      <4>3. CASE d = Height(t) + 1
        <5>1. d < Height(t) + 3 /\ Height(t) + 3 - d = 2
              /\ d # Height(t) /\ d # Height(t) + 2
          BY <1>2, <4>3
        <5> QED BY <1>1, <3>1, <3>2, <4>1, <4>3, <5>1
      <4>4. CASE d = Height(t) + 2
        <5>1. d < Height(t) + 3 /\ Height(t) + 3 - d = 1
              /\ d # Height(t) /\ d # Height(t) + 1
          BY <1>2, <4>4
        <5> QED BY <1>1, <3>1, <3>2, <4>1, <4>4, <5>1
      <4>5. CASE d >= Height(t) + 3
        <5>1. ~(d < Height(t) + 3) /\ d # Height(t) /\ d # Height(t) + 1 /\ d # Height(t) + 2
          BY <1>2, <4>5
        <5> QED BY <3>1, <3>2, <4>1, <5>1
      <4> QED BY <1>2, <3>2, <4>2, <4>3, <4>4, <4>5
    <3>3. CASE ~(u = t /\ d >= Height(t))
      BY <1>2, <3>1, <3>3 DEF NewAt
    <3> QED BY <3>2, <3>3
  <2>4. Places(K, s)' \in SUBSET (Thread \X Nat)
    BY <1>2, PlaceDefNext
  <2> HIDE DEF S
  <2>5. Places(K, s)' = S
    BY <2>1, <2>3, <2>4, SamePlaces
  <2> QED BY <2>5 DEF S
<1> QED BY <1>2, <1>3

(* A call puts one step on top.                                            *)
LEMMA CallPlaces ==
    ASSUME StackType, NEW t \in Thread, NEW x \in StepRecord, Call(t, x)
    PROVE  /\ StackType' /\ Len(todo[t]) \in Nat
           /\ \A K, s : Places(K, s)' = Places(K, s) \cup NewAt(x, K, s, <<t, Len(todo[t])>>)
<1> DEFINE q == todo[t]
           r == <<x>> \o q
<1>1. q \in Seq(StepRecord) /\ Len(q) \in Nat
  BY DEF StackType
<1>2. /\ r \in Seq(StepRecord) /\ Len(r) = Len(q) + 1 /\ r[1] = x
      /\ \A i \in 1 .. Len(q) : r[i + 1] = q[i]
  BY <1>1
<1>3. todo' = [todo EXCEPT ![t] = r]
  BY DEF Call
<1> HIDE DEF r
<1>4. StackType' /\ todo'[t] = r /\ \A u \in Thread \ {t} : todo'[u] = todo[u]
  BY <1>2, <1>3 DEF StackType
<1>5. ASSUME NEW K, NEW s
      PROVE  Places(K, s)' = Places(K, s) \cup NewAt(x, K, s, <<t, Len(q)>>)
  <2> DEFINE S == Places(K, s) \cup NewAt(x, K, s, <<t, Len(q)>>)
  <2>1. S \in SUBSET (Thread \X Nat)
    BY <1>1, PlaceDef DEF NewAt
  <2>2. Places(K, s)' \in SUBSET (Thread \X Nat)
    BY <1>4, PlaceDefNext
  <2>3. ASSUME NEW u \in Thread, NEW d \in Nat
        PROVE  <<u, d>> \in Places(K, s)' <=> <<u, d>> \in S
    <3>1. <<u, d>> \in Places(K, s)' <=> Names(todo', K, s, u, d)
      BY <1>4, PlaceDefNext
    <3>2. <<u, d>> \in Places(K, s) <=> Names(todo, K, s, u, d)
      BY PlaceDef
    <3>3. CASE u # t
      BY <1>4, <3>1, <3>2, <3>3 DEF Names, NewAt
    <3>4. CASE u = t /\ d < Len(q)
      <4>1. /\ Len(q) - d \in 1 .. Len(q) /\ (Len(q) - d) + 1 = Len(r) - d
            /\ d < Len(r) /\ d # Len(q)
        BY <1>1, <1>2, <3>4
      <4>2. r[Len(r) - d] = q[Len(q) - d]
        BY <1>2, <4>1
      <4> QED BY <1>4, <3>1, <3>2, <3>4, <4>1, <4>2 DEF Names, NewAt
    <3>5. CASE u = t /\ d = Len(q)
      <4>1. Len(r) - d = 1 /\ d < Len(r) /\ ~(d < Len(q))
        BY <1>1, <1>2, <3>5
      <4> QED BY <1>2, <1>4, <3>1, <3>2, <3>5, <4>1 DEF Names, NewAt
    <3>6. CASE u = t /\ d > Len(q)
      <4>1. ~(d < Len(r)) /\ ~(d < Len(q)) /\ d # Len(q)
        BY <1>1, <1>2, <3>6
      <4> QED BY <1>4, <3>1, <3>2, <3>6, <4>1 DEF Names, NewAt
    <3> QED BY <1>1, <3>3, <3>4, <3>5, <3>6
  <2> HIDE DEF S
  <2>4. Places(K, s)' = S
    BY <2>1, <2>2, <2>3, SamePlaces
  <2> QED BY <2>4 DEF S
<1> QED BY <1>1, <1>4, <1>5

(* Waking workers that wait: they have nothing else to do.                 *)
LEMMA WakePlaces ==
    ASSUME StackOK, NEW W \in SUBSET Waiting,
           todo' = [t \in Thread |-> IF t \in W THEN <<Step("woken", None)>> ELSE todo[t]]
    PROVE  /\ StackOK'
           /\ \A K : \A s \in Service : Places(K, s)' = Places(K, s)
<1> DEFINE x == Step("woken", None)
<1>1. StackType
  BY DEF StackOK, StackType
<1>2. x \in StepRecord /\ <<x>> \in Seq(StepRecord) /\ x.s = None /\ x.pc = "woken"
  BY DEF Step, StepRecord, Unnamed
<1>3. StackType'
  BY <1>1, <1>2 DEF StackType
<1>4. ASSUME NEW t \in W
      PROVE  /\ t \in Worker /\ t \in Thread /\ Len(todo[t]) = 1 /\ todo[t][1].s = None
             /\ todo'[t] = <<x>> /\ Len(<<x>>) = 1 /\ <<x>>[1] = x
  <2>1. t \in Worker /\ t \in Thread /\ todo[t] # <<>> /\ todo[t][1].pc = "wait"
    BY DEF Waiting, At, Thread
  <2>2. Height(t) \in Nat /\ Top(t) \in StepRecord /\ Top(t).pc = "wait"
    BY <1>1, <2>1, TopPlace DEF Top
  <2>3. Top(t).s = None
    BY <2>2 DEF StepRecord, WithMessage, Plain, Unnamed
  <2>4. <<t, Height(t)>> \in Places(Bottom, None)
    BY <1>1, <2>1, <2>2, <2>3, TopPlace DEF Bottom
  <2>5. Height(t) = 0
    BY <2>1, <2>2, <2>4 DEF StackOK
  <2>6. Len(todo[t]) = 1
    <3>1. Len(todo[t]) \in Nat
      BY <1>1, <2>1 DEF StackType
    <3> QED BY <2>5, <3>1 DEF Height
  <2> QED BY <2>1, <2>3, <2>6 DEF Top
<1>5. ASSUME NEW K, NEW s, NEW u \in Thread, NEW d \in Nat
      PROVE  <<u, d>> \in Places(K, s)' <=>
                IF u \in W THEN d = 0 /\ s = None /\ "woken" \in K ELSE <<u, d>> \in Places(K, s)
  <2>1. <<u, d>> \in Places(K, s)' <=> Names(todo', K, s, u, d)
    BY <1>3, PlaceDefNext
  <2>2. <<u, d>> \in Places(K, s) <=> Names(todo, K, s, u, d)
    BY <1>1, PlaceDef
  <2>3. CASE u \notin W
    BY <2>1, <2>2, <2>3 DEF Names
  <2>4. CASE u \in W
    <3>1. todo'[u] = <<x>> /\ Len(todo'[u]) = 1 /\ <<x>>[1] = x
      BY <1>4, <2>4
    <3>2. d < 1 <=> d = 0
      OBVIOUS
    <3>3. todo'[u][1 - 0] = x
      BY <3>1
    <3> HIDE DEF x
    <3> QED BY <1>2, <2>1, <2>4, <3>1, <3>2, <3>3 DEF Names
  <2> QED BY <2>3, <2>4
<1>6. ASSUME NEW K, NEW s \in Service  PROVE Places(K, s)' = Places(K, s)
  <2>1. Places(K, s)' \in SUBSET (Thread \X Nat) /\ Places(K, s) \in SUBSET (Thread \X Nat)
    BY <1>1, <1>3, PlaceDef, PlaceDefNext
  <2>2. ASSUME NEW u \in Thread, NEW d \in Nat
        PROVE  <<u, d>> \in Places(K, s)' <=> <<u, d>> \in Places(K, s)
    <3>1. CASE u \in W
      <4>1. <<u, d>> \notin Places(K, s)'
        BY <1>5, <3>1, BootAssumption
      <4>2. Len(todo[u]) = 1 /\ todo[u][1].s = None
        BY <1>4, <3>1
      <4>3. Names(todo, K, s, u, d) => d = 0 /\ todo[u][1 - 0].s = s
        BY <4>2 DEF Names
      <4>4. s # None
        BY BootAssumption
      <4>5. <<u, d>> \notin Places(K, s)
        BY <1>1, <4>2, <4>3, <4>4, PlaceDef
      <4> QED BY <4>1, <4>5
    <3>2. CASE u \notin W
      BY <1>5, <3>2
    <3> QED BY <3>1, <3>2
  <2> QED BY <2>1, <2>2, SamePlaces
<1>7. StackOK'
  <2> SUFFICES ASSUME NEW s \in Service \cup {None}, NEW t \in Thread, NEW d \in Nat,
                      <<t, d>> \in Places(Bottom, s)'
               PROVE  d = 0 /\ t \in Worker
    BY <1>3 DEF StackOK, StackType
  <2>1. CASE t \in W
    BY <1>4, <1>5, <2>1
  <2>2. CASE t \notin W
    <3>1. <<t, d>> \in Places(Bottom, s)
      BY <1>5, <2>2
    <3> QED BY <3>1 DEF StackOK
  <2> QED BY <2>1, <2>2
<1> QED BY <1>6, <1>7

-----------------------------------------------------------------------------
(* What an action does to the stack, with the places named: the step it    *)
(* does is Here, and what it puts on top is Above and Above2.              *)
Here(t) == <<t, Height(t)>>
Above(t) == <<t, Height(t) + 1>>
Above2(t) == <<t, Height(t) + 2>>

(* The topmost step of a thread, its place, and the free places above it.  *)
LEMMA Topmost ==
    ASSUME StackOK, NEW t \in Thread, todo[t] # <<>>
    PROVE  /\ Height(t) \in Nat /\ Top(t) \in StepRecord
           /\ Here(t) # Above(t) /\ Here(t) # Above2(t) /\ Above(t) # Above2(t)
           /\ \A K, s : /\ Here(t) \in Places(K, s) <=> Top(t).s = s /\ Top(t).pc \in K
                        /\ \A d \in Nat : <<t, d>> \in Places(K, s) => d <= Height(t)
                        /\ Above(t) \notin Places(K, s) /\ Above2(t) \notin Places(K, s)
           /\ Top(t).pc \in Bottom => Height(t) = 0 /\ t \in Worker
<1>1. StackType
  BY DEF StackOK, StackType
<1>2. Height(t) \in Nat /\ Top(t) \in StepRecord
  BY <1>1, TopPlace
<1>3. ASSUME NEW K, NEW s
      PROVE  /\ Here(t) \in Places(K, s) <=> Top(t).s = s /\ Top(t).pc \in K
             /\ \A d \in Nat : <<t, d>> \in Places(K, s) => d <= Height(t)
             /\ Above(t) \notin Places(K, s) /\ Above2(t) \notin Places(K, s)
  <2>1. /\ <<t, Height(t)>> \in Places(K, s) <=> Top(t).s = s /\ Top(t).pc \in K
        /\ \A d \in Nat : <<t, d>> \in Places(K, s) => d <= Height(t)
    BY <1>1, TopPlace
  <2>2. Height(t) + 1 \in Nat /\ Height(t) + 2 \in Nat
        /\ ~(Height(t) + 1 <= Height(t)) /\ ~(Height(t) + 2 <= Height(t))
    BY <1>2
  <2> QED BY <2>1, <2>2 DEF Here, Above, Above2
<1>4. ASSUME Top(t).pc \in Bottom  PROVE Height(t) = 0 /\ t \in Worker
  <2>1. Top(t).s \in Service \cup {None}
    BY <1>2 DEF StepRecord
  <2>2. <<t, Height(t)>> \in Places(Bottom, Top(t).s)
    BY <1>3, <1>4 DEF Here
  <2> QED BY <1>2, <2>1, <2>2 DEF StackOK
<1>5. Here(t) # Above(t) /\ Here(t) # Above2(t) /\ Above(t) # Above2(t)
  BY <1>2 DEF Here, Above, Above2
<1> QED BY <1>2, <1>3, <1>4, <1>5

(* A place names one step of one kind.                                     *)
LEMMA OneKind ==
    ASSUME StackOK, NEW t \in Thread, NEW d \in Nat, NEW K, NEW L, NEW s, NEW r,
           <<t, d>> \in Places(K, s), <<t, d>> \in Places(L, r)
    PROVE  K \cap L # {} /\ r = s
<1>1. Names(todo, K, s, t, d) /\ Names(todo, L, r, t, d)
  BY PlaceDef DEF StackOK, StackType
<1> QED BY <1>1 DEF Names

(* A thread gives up its topmost step: that place is gone for everyone.    *)
LEMMA Effect0 ==
    ASSUME StackOK, NEW t \in Thread, todo[t] # <<>>, Do(t, <<>>)
    PROVE  StackOK' /\ \A K, s : Places(K, s)' = Places(K, s) \ {Here(t)}
<1>1. StackType' /\ \A K, s : Places(K, s)' = Places(K, s) \ {Here(t)}
  BY Do0 DEF StackOK, StackType, Here
<1> QED BY <1>1 DEF StackOK, StackType

(* A thread goes on to another step.                                       *)
LEMMA Effect1 ==
    ASSUME StackOK, NEW t \in Thread, todo[t] # <<>>, NEW x \in StepRecord, Do(t, <<x>>),
           x.pc \in Bottom => Top(t).pc \in Bottom
    PROVE  /\ StackOK'
           /\ \A K, s : Places(K, s)' = (Places(K, s) \ {Here(t)}) \cup NewAt(x, K, s, Here(t))
<1>1. /\ StackType'
      /\ \A K, s : Places(K, s)' = (Places(K, s) \ {Here(t)}) \cup NewAt(x, K, s, Here(t))
  BY Do1 DEF StackOK, StackType, Here
<1>2. x.pc \in Bottom => Height(t) = 0 /\ t \in Worker
  BY Topmost
<1>3. ASSUME NEW s \in Service \cup {None}, NEW u \in Thread, NEW d \in Nat,
             <<u, d>> \in Places(Bottom, s)'
      PROVE  d = 0 /\ u \in Worker
  <2>1. \/ <<u, d>> \in Places(Bottom, s)
        \/ x.pc \in Bottom /\ <<u, d>> = Here(t)
    BY <1>1, <1>3 DEF NewAt
  <2> QED BY <1>2, <2>1 DEF StackOK, Here
<1> QED BY <1>1, <1>3 DEF StackOK, StackType

(* A thread calls a function that is one step.                             *)
LEMMA Effect2 ==
    ASSUME StackOK, NEW t \in Thread, todo[t] # <<>>,
           NEW x \in StepRecord, NEW y \in StepRecord, Do(t, <<x, y>>),
           x.pc \notin Bottom, y.pc \in Bottom => Top(t).pc \in Bottom
    PROVE  /\ StackOK'
           /\ \A K, s : Places(K, s)' = (Places(K, s) \ {Here(t)}) \cup NewAt(x, K, s, Above(t))
                                          \cup NewAt(y, K, s, Here(t))
<1>1. /\ StackType'
      /\ \A K, s : Places(K, s)' = (Places(K, s) \ {Here(t)}) \cup NewAt(x, K, s, Above(t))
                                     \cup NewAt(y, K, s, Here(t))
  BY Do2 DEF StackOK, StackType, Here, Above
<1>2. y.pc \in Bottom => Height(t) = 0 /\ t \in Worker
  BY Topmost
<1>3. ASSUME NEW s \in Service \cup {None}, NEW u \in Thread, NEW d \in Nat,
             <<u, d>> \in Places(Bottom, s)'
      PROVE  d = 0 /\ u \in Worker
  <2>1. \/ <<u, d>> \in Places(Bottom, s)
        \/ y.pc \in Bottom /\ <<u, d>> = Here(t)
    BY <1>1, <1>3 DEF NewAt
  <2> QED BY <1>2, <2>1 DEF StackOK, Here
<1> QED BY <1>1, <1>3 DEF StackOK, StackType

(* A thread calls a function that is two steps.                            *)
LEMMA Effect3 ==
    ASSUME StackOK, NEW t \in Thread, todo[t] # <<>>, NEW x \in StepRecord,
           NEW y \in StepRecord, NEW z \in StepRecord, Do(t, <<x, y, z>>),
           x.pc \notin Bottom, y.pc \notin Bottom, z.pc \in Bottom => Top(t).pc \in Bottom
    PROVE  /\ StackOK'
           /\ \A K, s : Places(K, s)' = (Places(K, s) \ {Here(t)}) \cup NewAt(x, K, s, Above2(t))
                                          \cup NewAt(y, K, s, Above(t)) \cup NewAt(z, K, s, Here(t))
<1>1. /\ StackType'
      /\ \A K, s : Places(K, s)' = (Places(K, s) \ {Here(t)}) \cup NewAt(x, K, s, Above2(t))
                                     \cup NewAt(y, K, s, Above(t)) \cup NewAt(z, K, s, Here(t))
  BY Do3 DEF StackOK, StackType, Here, Above, Above2
<1>2. z.pc \in Bottom => Height(t) = 0 /\ t \in Worker
  BY Topmost
<1>3. ASSUME NEW s \in Service \cup {None}, NEW u \in Thread, NEW d \in Nat,
             <<u, d>> \in Places(Bottom, s)'
      PROVE  d = 0 /\ u \in Worker
  <2>1. \/ <<u, d>> \in Places(Bottom, s)
        \/ z.pc \in Bottom /\ <<u, d>> = Here(t)
    BY <1>1, <1>3 DEF NewAt
  <2> QED BY <1>2, <2>1 DEF StackOK, Here
<1> QED BY <1>1, <1>3 DEF StackOK, StackType

(* A step of the kinds that threads from outside call.                     *)
LEMMA EffectCall ==
    ASSUME StackOK, NEW t \in Thread, NEW x \in StepRecord, Call(t, x), x.pc \notin Bottom
    PROVE  /\ StackOK' /\ Len(todo[t]) \in Nat
           /\ \A K, s : Places(K, s)' = Places(K, s) \cup NewAt(x, K, s, <<t, Len(todo[t])>>)
<1>1. /\ StackType' /\ Len(todo[t]) \in Nat
      /\ \A K, s : Places(K, s)' = Places(K, s) \cup NewAt(x, K, s, <<t, Len(todo[t])>>)
  BY CallPlaces DEF StackOK, StackType
<1>2. ASSUME NEW s \in Service \cup {None}  PROVE Places(Bottom, s)' = Places(Bottom, s)
  BY <1>1 DEF NewAt
<1> QED BY <1>1, <1>2 DEF StackOK, StackType

-----------------------------------------------------------------------------
(* The global queue.                                                       *)
LEMMA Appended ==
    ASSUME global \in Seq(Service), NEW s \in Service, global' = Append(global, s),
           NEW r \in Service
    PROVE  /\ global' \in Seq(Service)
           /\ r # s => (Queued(r)' <=> Queued(r)) /\ (Once(r)' <=> Once(r))
           /\ Queued(s)' /\ (~Queued(s) => Once(s)')
<1>1. /\ global' \in Seq(Service) /\ Len(global) \in Nat /\ Len(global') = Len(global) + 1
      /\ \A i \in 1 .. Len(global) : global'[i] = global[i]
      /\ global'[Len(global) + 1] = s
  OBVIOUS
<1>2. \A i : i \in 1 .. Len(global') <=> i \in 1 .. Len(global) \/ i = Len(global) + 1
  BY <1>1
<1>3. Len(global) + 1 \notin 1 .. Len(global)
  BY <1>1
<1>4. r # s => (Queued(r)' <=> Queued(r))
  BY <1>1, <1>2 DEF Queued
<1>5. r # s => (Once(r)' <=> Once(r))
  BY <1>1, <1>2 DEF Once
<1>6. Queued(s)'
  BY <1>1, <1>2 DEF Queued
<1>7. ~Queued(s) => Once(s)'
  BY <1>1, <1>2 DEF Queued, Once
<1> QED BY <1>1, <1>4, <1>5, <1>6, <1>7

(* skynet_globalmq_pop takes the head out: that service is not queued any  *)
(* more, and nothing changes for the others.                               *)
LEMMA Taken ==
    ASSUME global \in Seq(Service), global # <<>>, global' = Tail(global),
           NEW r \in Service, Once(r)
    PROVE  /\ global' \in Seq(Service) /\ Head(global) \in Service /\ Queued(Head(global))
           /\ r # Head(global) => (Queued(r)' <=> Queued(r))
           /\ r = Head(global) => ~Queued(r)'
           /\ Once(r)'
<1>1. /\ Len(global) \in Nat /\ Len(global) > 0 /\ Head(global) = global[1]
      /\ Head(global) \in Service
  BY EmptySeq
<1>2. /\ global' \in Seq(Service) /\ Len(global') = Len(global) - 1
      /\ \A i \in 1 .. Len(global') : global'[i] = global[i + 1]
  BY <1>1
<1>3. Queued(Head(global))
  BY <1>1 DEF Queued
<1>4. \A i \in 1 .. Len(global') : i + 1 \in 1 .. Len(global) /\ i + 1 # 1
  BY <1>1, <1>2
<1>5. \A i \in 1 .. Len(global) : i # 1 => i - 1 \in 1 .. Len(global') /\ (i - 1) + 1 = i
  BY <1>1, <1>2
<1>6. r # Head(global) => (Queued(r)' <=> Queued(r))
  <2> SUFFICES ASSUME r # Head(global)  PROVE Queued(r)' <=> Queued(r)
    OBVIOUS
  <2>1. ASSUME Queued(r)'  PROVE Queued(r)
    BY <1>2, <1>4, <2>1 DEF Queued
  <2>2. ASSUME Queued(r)  PROVE Queued(r)'
    <3>1. PICK i \in 1 .. Len(global) : global[i] = r
      BY <2>2 DEF Queued
    <3>2. i # 1
      BY <1>1, <3>1
    <3>3. i - 1 \in 1 .. Len(global') /\ global'[i - 1] = r
      BY <1>2, <1>5, <3>1, <3>2
    <3> QED BY <3>3 DEF Queued
  <2> QED BY <2>1, <2>2
<1>7. r = Head(global) => ~Queued(r)'
  <2> SUFFICES ASSUME r = Head(global), NEW i \in 1 .. Len(global'), global'[i] = r
               PROVE  FALSE
    BY DEF Queued
  <2>1. global[i + 1] = r /\ i + 1 \in 1 .. Len(global) /\ i + 1 # 1
    BY <1>2, <1>4
  <2>2. 1 \in 1 .. Len(global) /\ global[1] = r
    BY <1>1
  <2> QED BY <2>1, <2>2 DEF Once
<1>8. Once(r)'
  <2> SUFFICES ASSUME NEW i \in 1 .. Len(global'), NEW j \in 1 .. Len(global'),
                      global'[i] = r, global'[j] = r
               PROVE  i = j
    BY DEF Once
  <2>1. i + 1 = j + 1
    BY <1>2, <1>4 DEF Once
  <2> QED BY <2>1
<1> QED BY <1>1, <1>2, <1>3, <1>6, <1>7, <1>8

-----------------------------------------------------------------------------
(* The parts of the invariant, when a step leaves what they speak of alone. *)
LEMMA PushFrame ==
    ASSUME NEW s, PushHeld(s),
           Places({"push"}, s)' \in SUBSET Places({"push"}, s),
           Places({"release"}, s) \in SUBSET Places({"release"}, s)'
    PROVE  PushHeld(s)'
  BY DEF PushHeld

(* What RefOK of a service depends on.                                     *)
LEMMA RefFrame ==
    ASSUME NEW s \in Service, RefOK(s),
           Places(HoldsRef, s)' = Places(HoldsRef, s),
           Places({"delete"}, s)' = Places({"delete"}, s),
           (s \in slot') <=> (s \in slot),
           ctx'[s].ref = ctx[s].ref, ctx'[s].alive = ctx[s].alive
    PROVE  RefOK(s)'
<1>1. InSlot(s)' = InSlot(s)
  BY DEF InSlot
<1> QED BY <1>1, Zenon DEF RefOK

(* What QueueOK depends on.                                                *)
LEMMA QueueFrame ==
    ASSUME NEW s \in Service, QueueOK(s),
           Places(HoldsQueue, s)' = Places(HoldsQueue, s),
           Places({"drop"}, s)' = Places({"drop"}, s),
           Queued(s)' <=> Queued(s), Once(s)', quit => quit',
           ctx'[s].alive = ctx[s].alive, mq'[s].in_global = mq[s].in_global,
           mq'[s].release = mq[s].release, mq'[s].alive = mq[s].alive
    PROVE  QueueOK(s)'
<1>1. Somewhere(s)' <=> Somewhere(s)
  BY Zenon DEF Somewhere
<1> QED BY <1>1, Zenon DEF QueueOK

(* What BornOK depends on.                                                 *)
LEMMA BornFrame ==
    ASSUME NEW s \in Service, BornOK(s),
           Places({"new"}, s)' \in SUBSET Places({"new"}, s),
           ctx'[s] = ctx[s], mq'[s] = mq[s]
    PROVE  BornOK(s)'
  BY Zenon DEF BornOK

(* Once a service exists there is no launch of it to come.                 *)
LEMMA BornAfter ==
    ASSUME NEW s \in Service, BornOK(s), ctx[s].ref # Unborn,
           Places({"new"}, s)' \in SUBSET Places({"new"}, s),
           ctx'[s].ref # Unborn
    PROVE  BornOK(s)'
  BY DEF BornOK

(* What Launching depends on.                                              *)
LEMMA LaunchFrame ==
    ASSUME NEW s \in Service, Launching(s),
           Places({"init"}, s)' = Places({"init"}, s),
           Places({"ready"}, s)' = Places({"ready"}, s),
           Places({"gpush"}, s)' = Places({"gpush"}, s),
           Places({"retire"}, s) \in SUBSET Places({"retire"}, s)',
           Places({"mqrelease"}, s)' = Places({"mqrelease"}, s)
    PROVE  Launching(s)'
  BY DEF Launching

(* What ReadyOK depends on, for a service that may leave its slot.         *)
LEMMA ReadyFrame ==
    ASSUME NEW s \in Service, ReadyOK(s),
           Places({"init", "ready"}, s)' \in SUBSET Places({"init", "ready"}, s),
           Places({"ready"}, s)' \in SUBSET Places({"ready"}, s),
           Places({"gpush"}, s) \in SUBSET Places({"gpush"}, s)',
           Places(Handles, s)' \in SUBSET Places(Handles, s),
           ctx'[s].init = ctx[s].init,
           s \in slot' /\ ~ctx[s].init => s \in slot /\ (Launching(s) => Launching(s)')
    PROVE  ReadyOK(s)'
  BY DEF ReadyOK

(* The same for a step that only ends work on the service.                 *)
LEMMA ReadyQuiet ==
    ASSUME NEW s \in Service, ReadyOK(s),
           Places({"init", "ready"}, s)' = Places({"init", "ready"}, s),
           Places({"init"}, s)' = Places({"init"}, s),
           Places({"ready"}, s)' = Places({"ready"}, s),
           Places({"gpush"}, s)' = Places({"gpush"}, s),
           Places({"mqrelease"}, s)' = Places({"mqrelease"}, s),
           Places(Handles, s)' \in SUBSET Places(Handles, s),
           ctx'[s].init = ctx[s].init, s \in slot' => s \in slot,
           s \in slot' => Places({"retire"}, s) \in SUBSET Places({"retire"}, s)'
    PROVE  ReadyOK(s)'
<1>1. s \in slot' => s \in slot /\ (Launching(s) => Launching(s)')
  BY LaunchFrame
<1> QED BY <1>1, ReadyFrame

(* A service the step is not about; a message to it may be on its way.     *)
Untouched(s) ==
    /\ \A K : "send" \notin K => Places(K, s)' = Places(K, s)
    /\ ctx'[s] = ctx[s] /\ mq'[s] = mq[s] /\ (s \in slot' <=> s \in slot)
    /\ (Queued(s)' <=> Queued(s)) /\ (Once(s) => Once(s)')

(* A step that leaves a service and everyone at work on it alone keeps     *)
(* what is said about the service.                                         *)
LEMMA Frame ==
    ASSUME NEW s \in Service, ServiceOK(s), Untouched(s), quit => quit'
    PROVE  ServiceOK(s)'
<1>1. /\ Places({"push"}, s)' = Places({"push"}, s)
      /\ Places({"release"}, s)' = Places({"release"}, s)
      /\ Places({"delete"}, s)' = Places({"delete"}, s)
      /\ Places({"drop"}, s)' = Places({"drop"}, s)
      /\ Places({"new"}, s)' = Places({"new"}, s)
      /\ Places({"init"}, s)' = Places({"init"}, s)
      /\ Places({"ready"}, s)' = Places({"ready"}, s)
      /\ Places({"init", "ready"}, s)' = Places({"init", "ready"}, s)
      /\ Places({"gpush"}, s)' = Places({"gpush"}, s)
      /\ Places({"retire"}, s)' = Places({"retire"}, s)
      /\ Places({"mqrelease"}, s)' = Places({"mqrelease"}, s)
  BY DEF Untouched
<1>2. /\ Places(HoldsRef, s)' = Places(HoldsRef, s)
      /\ Places(HoldsQueue, s)' = Places(HoldsQueue, s)
      /\ Places(Handles, s)' = Places(Handles, s)
  BY DEF Untouched, HoldsRef, HoldsQueue, Handles
<1>3. PushHeld(s) /\ RefOK(s) /\ QueueOK(s) /\ BornOK(s) /\ ReadyOK(s)
  BY DEF ServiceOK
<1>4. ctx'[s] = ctx[s] /\ mq'[s] = mq[s] /\ (s \in slot' <=> s \in slot)
      /\ (Queued(s)' <=> Queued(s)) /\ Once(s)'
  BY <1>3 DEF Untouched, QueueOK
<1>5. PushHeld(s)'
  BY <1>1, <1>3, PushFrame
<1>6. RefOK(s)'
  BY <1>1, <1>2, <1>3, <1>4, RefFrame
<1>7. QueueOK(s)'
  BY <1>1, <1>2, <1>3, <1>4, QueueFrame
<1>8. BornOK(s)'
  BY <1>1, <1>3, <1>4, BornFrame
<1>9. ReadyOK(s)'
  BY <1>1, <1>2, <1>3, <1>4, ReadyQuiet
<1> QED BY <1>5, <1>6, <1>7, <1>8, <1>9 DEF ServiceOK

-----------------------------------------------------------------------------
(* The fields of a step.                                                   *)
LEMMA StepTypes ==
    ASSUME NEW s \in Service
    PROVE  /\ \A pc \in Plain : /\ Step(pc, s) \in StepRecord
                                /\ Step(pc, s).pc = pc /\ Step(pc, s).s = s
           /\ \A pc \in WithMessage : \A m \in Msg, n \in Int :
                 /\ StepMsg(pc, s, m, n) \in StepRecord
                 /\ StepMsg(pc, s, m, n).pc = pc /\ StepMsg(pc, s, m, n).s = s
           /\ \A n \in Int : /\ StepMsg("pop", s, None, n) \in StepRecord
                             /\ StepMsg("pop", s, None, n).pc = "pop"
                             /\ StepMsg("pop", s, None, n).s = s
  BY DEF Step, StepMsg, StepRecord

(* Steps that are about no service.                                        *)
LEMMA UnnamedTypes ==
    ASSUME NEW pc \in Unnamed
    PROVE  Step(pc, None) \in StepRecord /\ Step(pc, None).pc = pc /\ Step(pc, None).s = None
  BY DEF Step, StepRecord

(* What a step carries, by its kind.                                       *)
LEMMA FieldTypes ==
    ASSUME NEW x \in StepRecord
    PROVE  /\ x.pc \in WithMessage => x.s \in Service /\ x.m \in Msg
           /\ x.pc \in (Plain \ {"loop"}) \cup {"pop"} => x.s \in Service
           /\ x.s \in Service \cup {None} /\ x.n \in Int
  BY DEF StepRecord, WithMessage, Plain, Unnamed

(* One context or queue is written.                                        *)
LEMMA CtxRef ==
    ASSUME DataOK, NEW s \in Service, NEW v \in Nat \cup {Unborn},
           ctx' = [ctx EXCEPT ![s].ref = v]
    PROVE  /\ ctx' \in [Service -> Context] /\ ctx'[s].ref = v
           /\ ctx'[s].init = ctx[s].init /\ ctx'[s].alive = ctx[s].alive
           /\ \A r \in Service : r # s => ctx'[r] = ctx[r]
  BY DEF DataOK, Context

-----------------------------------------------------------------------------
(* What every proof about an action starts from: the step the thread does, *)
(* and where it is.                                                        *)
LEMMA Acting ==
    ASSUME IInv, NEW t \in Thread, NEW pc, At(t, pc)
    PROVE  /\ todo[t] # <<>> /\ Top(t).pc = pc /\ Top(t) \in StepRecord
           /\ DataOK /\ StackOK /\ \A r \in Service : ServiceOK(r)
           /\ \A K, r : Here(t) \in Places(K, r) <=> Top(t).s = r /\ pc \in K
           /\ \A K, r : Above(t) \notin Places(K, r) /\ Above2(t) \notin Places(K, r)
           /\ \A K, r : \A d \in Nat : <<t, d>> \in Places(K, r) => d <= Height(t)
           /\ Here(t) # Above(t) /\ Here(t) # Above2(t) /\ Above(t) # Above2(t)
           /\ Height(t) \in Nat
<1>1. todo[t] # <<>> /\ Top(t).pc = pc /\ DataOK /\ StackOK /\ \A r \in Service : ServiceOK(r)
  BY DEF IInv, At, Top
<1> QED BY <1>1, Topmost

(* A step that is about one service only.                                  *)
LEMMA Assembled ==
    ASSUME IInv, DataOK', StackOK', quit => quit', NEW s \in Service, ServiceOK(s)',
           \A r \in Service : r # s => Untouched(r)
    PROVE  IInv'
<1>1. ASSUME NEW r \in Service, r # s  PROVE ServiceOK(r)'
  BY <1>1, Frame DEF IInv
<1> QED BY <1>1 DEF IInv

(* A step that is about no service.                                        *)
LEMMA AssembledQuiet ==
    ASSUME IInv, DataOK', StackOK', quit => quit', \A r \in Service : Untouched(r)
    PROVE  IInv'
<1>1. ASSUME NEW r \in Service  PROVE ServiceOK(r)'
  BY Frame DEF IInv
<1> QED BY <1>1 DEF IInv

(* The step changes only places of steps of the kinds C.                   *)
Changed(C, s) == \A K : K \cap C = {} => Places(K, s)' = Places(K, s)

(* PushHeld, when the steps that begin or end are others.                  *)
LEMMA PushSame ==
    ASSUME NEW s \in Service, PushHeld(s), NEW C, Changed(C, s), "push" \notin C, "release" \notin C
    PROVE  PushHeld(s)'
<1>1. Places({"push"}, s)' = Places({"push"}, s) /\ Places({"release"}, s)' = Places({"release"}, s)
  BY DEF Changed
<1> QED BY <1>1, PushFrame

(* RefOK, when no reference is taken or given back.                        *)
LEMMA RefSame ==
    ASSUME NEW s \in Service, RefOK(s), NEW C, Changed(C, s), C \cap (HoldsRef \cup {"delete"}) = {},
           (s \in slot') <=> (s \in slot),
           ctx'[s].ref = ctx[s].ref, ctx'[s].alive = ctx[s].alive
    PROVE  RefOK(s)'
<1>1. Places(HoldsRef, s)' = Places(HoldsRef, s) /\ Places({"delete"}, s)' = Places({"delete"}, s)
  BY DEF Changed
<1> QED BY <1>1, RefFrame

(* QueueOK, when nobody takes or gives back the queue.                     *)
LEMMA QueueSame ==
    ASSUME NEW s \in Service, QueueOK(s), NEW C, Changed(C, s), C \cap HoldsQueue = {},
           global' = global, quit => quit',
           ctx'[s].alive = ctx[s].alive, mq'[s].in_global = mq[s].in_global,
           mq'[s].release = mq[s].release, mq'[s].alive = mq[s].alive
    PROVE  QueueOK(s)'
<1>1. Places(HoldsQueue, s)' = Places(HoldsQueue, s) /\ Places({"drop"}, s)' = Places({"drop"}, s)
  BY DEF Changed, HoldsQueue
<1>2. (Queued(s)' <=> Queued(s)) /\ Once(s)'
  BY DEF Queued, Once, QueueOK
<1> QED BY <1>1, <1>2, QueueFrame

(* ReadyOK, when the step has nothing to do with a launch.                 *)
LEMMA ReadySame ==
    ASSUME NEW s \in Service, ReadyOK(s), NEW C, Changed(C, s),
           C \cap ({"init", "ready", "gpush", "mqrelease", "retire"} \cup Handles) = {},
           ctx'[s].init = ctx[s].init, s \in slot' => s \in slot
    PROVE  ReadyOK(s)'
<1>1. /\ Places({"init", "ready"}, s)' = Places({"init", "ready"}, s)
      /\ Places({"init"}, s)' = Places({"init"}, s)
      /\ Places({"ready"}, s)' = Places({"ready"}, s)
      /\ Places({"gpush"}, s)' = Places({"gpush"}, s)
      /\ Places({"mqrelease"}, s)' = Places({"mqrelease"}, s)
      /\ Places({"retire"}, s)' = Places({"retire"}, s)
  BY DEF Changed
<1>2. Places(Handles, s)' = Places(Handles, s)
  BY DEF Changed
<1> QED BY <1>1, <1>2, ReadyQuiet

(* BornOK, for a service that has been created.                            *)
LEMMA BornSame ==
    ASSUME NEW s \in Service, BornOK(s), NEW C, Changed(C, s), "new" \notin C,
           ctx[s].ref # Unborn, ctx'[s].ref # Unborn
    PROVE  BornOK(s)'
<1>1. Places({"new"}, s)' = Places({"new"}, s)
  BY DEF Changed
<1> QED BY <1>1, BornAfter

(* A context somebody holds is there, and its queue too.                   *)
LEMMA Held ==
    ASSUME DataOK, NEW s \in Service, ServiceOK(s), Places(HoldsRef, s) # {} \/ s \in slot
    PROVE  /\ ctx[s].alive /\ ctx[s].ref \in Nat \ {0} /\ ctx[s].ref # Unborn
           /\ ctx[s].ref + 1 \in Nat /\ ctx[s].ref - 1 \in Nat
           /\ mq[s].alive /\ ~mq[s].release /\ Places({"delete"}, s) = {}
           /\ IsFiniteSet(Places(HoldsRef, s)) /\ Cardinality(Places(HoldsRef, s)) \in Nat
           /\ ctx[s].ref = Cardinality(Places(HoldsRef, s)) + InSlot(s)
           /\ InSlot(s) \in {0, 1}
<1>1. RefOK(s) /\ QueueOK(s)
  BY DEF ServiceOK
<1>2. ctx[s].alive /\ IsFiniteSet(Places(HoldsRef, s)) /\ InSlot(s) \in {0, 1}
      /\ ctx[s].ref = Cardinality(Places(HoldsRef, s)) + InSlot(s)
  BY <1>1 DEF RefOK, InSlot
<1>3. Cardinality(Places(HoldsRef, s)) \in Nat
  BY <1>2, FS_CardinalityType
<1>4. Cardinality(Places(HoldsRef, s)) = 0 => Places(HoldsRef, s) = {}
  BY <1>2, FS_EmptySet
<1>5. ctx[s].ref \in Nat \ {0} /\ ctx[s].ref + 1 \in Nat /\ ctx[s].ref - 1 \in Nat
  BY <1>2, <1>3, <1>4 DEF InSlot
<1>6. ctx[s].ref # Unborn
  BY <1>5 DEF Unborn
<1>7. mq[s].alive /\ ~mq[s].release /\ Places({"delete"}, s) = {}
  BY <1>1, <1>2, <1>5 DEF RefOK, QueueOK
<1> QED BY <1>2, <1>3, <1>5, <1>6, <1>7

(* A push is done while the context is held.                               *)
LEMMA PushAlive ==
    ASSUME StackOK, NEW s \in Service, ServiceOK(s), NEW t \in Thread, NEW d \in Nat,
           <<t, d>> \in Places({"push"}, s)
    PROVE  Places(HoldsRef, s) # {}
<1>1. d > 0 /\ <<t, d - 1>> \in Places({"release"}, s)
  BY DEF ServiceOK, PushHeld
<1>2. d - 1 \in Nat
  BY <1>1
<1>3. Names(todo, {"release"}, s, t, d - 1)
  BY <1>1, <1>2, PlaceDef DEF StackOK, StackType
<1>4. Names(todo, HoldsRef, s, t, d - 1)
  BY <1>3 DEF Names, HoldsRef
<1> QED BY <1>2, <1>4, PlaceDef DEF StackOK, StackType

(* More kinds of steps, more places.                                       *)
LEMMA Wider ==
    ASSUME StackOK, NEW K, NEW L, K \subseteq L, NEW s
    PROVE  Places(K, s) \subseteq Places(L, s)
<1>1. StackType
  BY DEF StackOK, StackType
<1>2. Places(K, s) \in SUBSET (Thread \X Nat)
  BY <1>1, PlaceDef
<1>3. ASSUME NEW t \in Thread, NEW d \in Nat, <<t, d>> \in Places(K, s)
      PROVE  <<t, d>> \in Places(L, s)
  <2>1. Names(todo, L, s, t, d)
    BY <1>1, <1>3, PlaceDef DEF Names
  <2> QED BY <1>1, <2>1, PlaceDef
<1> QED BY <1>2, <1>3

(* Moving one of several keeps their number.                               *)
LEMMA Moved ==
    ASSUME NEW S, IsFiniteSet(S), NEW p \in S, NEW q, q \notin S
    PROVE  /\ IsFiniteSet((S \ {p}) \cup {q})
           /\ Cardinality((S \ {p}) \cup {q}) = Cardinality(S)
<1>1. IsFiniteSet(S \ {p}) /\ Cardinality(S \ {p}) = Cardinality(S) - 1
  BY FS_RemoveElement
<1>2. /\ IsFiniteSet((S \ {p}) \cup {q})
      /\ Cardinality((S \ {p}) \cup {q}) = Cardinality(S \ {p}) + 1
  BY <1>1, FS_AddElement
<1>3. Cardinality(S) \in Nat
  BY FS_CardinalityType
<1> QED BY <1>1, <1>2, <1>3

-----------------------------------------------------------------------------
(* Sending: the destination is held from the grab to the release.          *)
LEMMA SendStep ==
    ASSUME IInv, NEW t \in Thread, Send(t)
    PROVE  IInv'
<1>1. At(t, "send") /\ todo[t] # <<>> /\ Top(t).pc = "send" /\ DataOK /\ StackOK
      /\ \A r \in Service : ServiceOK(r)
  BY Acting DEF Send
<1>2. PICK s \in Service : s = Top(t).s /\ Top(t).m \in Msg
  BY <1>1, Acting, FieldTypes DEF WithMessage
<1>3. \A K, r : Here(t) \in Places(K, r) <=> s = r /\ "send" \in K
  BY <1>1, <1>2, Acting
<1>4. UNCHANGED <<slot, mq, global, quit, sent>>
  BY DEF Send
<1>5. CASE s \notin slot
  <2>1. ctx' = ctx /\ Do(t, <<>>)
    BY <1>2, <1>5 DEF Send
  <2>2. StackOK' /\ \A K, r : Places(K, r)' = Places(K, r) \ {Here(t)}
    BY <1>1, <2>1, Effect0
  <2>3. ASSUME NEW r \in Service  PROVE Untouched(r)
    <3>1. \A K : "send" \notin K => Places(K, r)' = Places(K, r)
      BY <1>3, <2>2
    <3> QED BY <1>4, <2>1, <3>1 DEF Untouched, Queued, Once
  <2>4. DataOK'
    BY <1>1, <1>4, <2>1 DEF DataOK
  <2> QED BY <1>4, <2>2, <2>3, <2>4, AssembledQuiet
<1>6. CASE s \in slot
  <2> DEFINE x == StepMsg("push", s, Top(t).m, 0)
             y == Step("release", s)
  <2>1. ctx' = [ctx EXCEPT ![s].ref = ctx[s].ref + 1] /\ Do(t, <<x, y>>)
    BY <1>2, <1>6 DEF Send
  <2>2. /\ x \in StepRecord /\ x.pc = "push" /\ x.s = s
        /\ y \in StepRecord /\ y.pc = "release" /\ y.s = s
    BY <1>2, StepTypes DEF WithMessage, Plain
  <2> HIDE DEF x, y
  <2>3. StackOK' /\ \A K, r : Places(K, r)' = (Places(K, r) \ {Here(t)})
                                  \cup NewAt(x, K, r, Above(t)) \cup NewAt(y, K, r, Here(t))
    BY <1>1, <2>1, <2>2, Effect2 DEF Bottom
  <2>4. Changed({"send", "push", "release"}, s)
    BY <1>3, <2>2, <2>3 DEF NewAt, Changed
  <2>5. /\ ctx[s].alive /\ ctx[s].ref \in Nat /\ ctx[s].ref # Unborn /\ ctx[s].ref + 1 \in Nat
        /\ ctx[s].ref + 1 # 0 /\ ctx[s].ref + 1 # Unborn
        /\ IsFiniteSet(Places(HoldsRef, s)) /\ Cardinality(Places(HoldsRef, s)) \in Nat
        /\ ctx[s].ref = Cardinality(Places(HoldsRef, s)) + InSlot(s) /\ InSlot(s) \in {0, 1}
        /\ Places({"delete"}, s) = {}
    BY <1>1, <1>6, Held DEF Unborn
  <2>6. /\ ctx' \in [Service -> Context] /\ ctx'[s].ref = ctx[s].ref + 1
        /\ ctx'[s].init = ctx[s].init /\ ctx'[s].alive = ctx[s].alive
        /\ \A r \in Service : r # s => ctx'[r] = ctx[r]
    <3>1. ctx[s].ref + 1 \in Nat \cup {Unborn}
      BY <2>5
    <3> QED BY <1>1, <2>1, <3>1, CtxRef
  <2>7. ASSUME NEW r \in Service, r # s  PROVE Untouched(r)
    BY <1>3, <1>4, <2>2, <2>3, <2>6, <2>7 DEF Untouched, Queued, Once, NewAt
  <2>8. DataOK'
    BY <1>1, <1>4, <2>6 DEF DataOK
  <2>9. ServiceOK(s)'
    <3>1. PushHeld(s) /\ RefOK(s) /\ QueueOK(s) /\ BornOK(s) /\ ReadyOK(s)
      BY <1>1 DEF ServiceOK
    <3>2. PushHeld(s)'
      <4>1. Places({"push"}, s)' = Places({"push"}, s) \cup {Above(t)}
            /\ Places({"release"}, s)' = Places({"release"}, s) \cup {Here(t)}
        BY <1>3, <2>2, <2>3 DEF NewAt
      <4>2. Height(t) \in Nat /\ Height(t) + 1 > 0 /\ (Height(t) + 1) - 1 = Height(t)
        BY <1>1, Acting
      <4> QED BY <3>1, <4>1, <4>2 DEF PushHeld, Here, Above
    <3>3. RefOK(s)'
      <4>1. Places(HoldsRef, s)' = Places(HoldsRef, s) \cup {Here(t)} /\ Here(t) \notin Places(HoldsRef, s)
        BY <1>3, <2>2, <2>3 DEF HoldsRef, NewAt
      <4>2. /\ IsFiniteSet(Places(HoldsRef, s)')
            /\ Cardinality(Places(HoldsRef, s)') = Cardinality(Places(HoldsRef, s)) + 1
        BY <2>5, <4>1, FS_AddElement
      <4>3. Places({"delete"}, s)' = {}
        BY <2>4, <2>5 DEF Changed
      <4>4. InSlot(s)' = InSlot(s)
        BY <1>4 DEF InSlot
      <4> QED BY <2>5, <2>6, <4>2, <4>3, <4>4 DEF RefOK
    <3>4. QueueOK(s)'
      BY <1>4, <2>4, <2>6, <3>1, QueueSame DEF HoldsQueue
    <3>5. BornOK(s)'
      BY <2>4, <2>5, <2>6, <3>1, BornSame
    <3>6. ReadyOK(s)'
      BY <1>4, <2>4, <2>6, <3>1, ReadySame DEF Handles
    <3> QED BY <3>2, <3>3, <3>4, <3>5, <3>6 DEF ServiceOK
  <2> QED BY <1>4, <2>3, <2>7, <2>8, <2>9, Assembled
<1> QED BY <1>5, <1>6

(* skynet_mq_push: whoever finds in_global clear puts the queue into the   *)
(* global queue.                                                           *)
LEMMA PushStep ==
    ASSUME IInv, NEW t \in Thread, Push(t)
    PROVE  IInv'
<1>1. At(t, "push") /\ todo[t] # <<>> /\ Top(t).pc = "push" /\ DataOK /\ StackOK
      /\ Height(t) \in Nat /\ \A r \in Service : ServiceOK(r)
  BY Acting DEF Push
<1>2. PICK s \in Service : s = Top(t).s /\ Top(t).m \in Msg
  BY <1>1, Acting, FieldTypes DEF WithMessage
<1>3. \A K, r : Here(t) \in Places(K, r) <=> s = r /\ "push" \in K
  BY <1>1, <1>2, Acting
<1>4. /\ UNCHANGED <<slot, ctx, quit, sent>> /\ Do(t, <<>>)
      /\ mq' = [mq EXCEPT ![s].msgs = Append(@, Top(t).m), ![s].in_global = TRUE]
      /\ global' = IF mq[s].in_global THEN global ELSE Append(global, s)
  BY <1>2 DEF Push, MqPush
<1>5. StackOK' /\ \A K, r : Places(K, r)' = Places(K, r) \ {Here(t)}
  BY <1>1, <1>4, Effect0
<1>6. Changed({"push"}, s)
  BY <1>3, <1>5 DEF Changed
<1>7. /\ mq' \in [Service -> Queue] /\ mq'[s].in_global /\ mq'[s].release = mq[s].release
      /\ mq'[s].alive = mq[s].alive /\ \A r \in Service : r # s => mq'[r] = mq[r]
  <2>1. mq \in [Service -> Queue] /\ mq[s].msgs \in Seq(Msg)
    BY <1>1 DEF DataOK, Queue
  <2>2. Append(mq[s].msgs, Top(t).m) \in Seq(Msg)
    BY <1>2, <2>1
  <2> DEFINE q == Append(mq[s].msgs, Top(t).m)
  <2>3. mq' = [mq EXCEPT ![s].msgs = q, ![s].in_global = TRUE]
    BY <1>4
  <2> HIDE DEF q
  <2> QED BY <2>1, <2>2, <2>3 DEF Queue, q
<1>8. /\ ctx[s].alive /\ ctx[s].ref # Unborn /\ mq[s].alive /\ ~mq[s].release
  <2>1. Places(HoldsRef, s) # {}
    BY <1>1, <1>3, PushAlive DEF Here
  <2> QED BY <1>1, <2>1, Held
<1>9. PushHeld(s) /\ RefOK(s) /\ QueueOK(s) /\ BornOK(s) /\ ReadyOK(s)
  BY <1>1 DEF ServiceOK
<1>10. /\ global' \in Seq(Service)
       /\ \A r \in Service : r # s => (Queued(r)' <=> Queued(r)) /\ (Once(r) => Once(r)')
       /\ Once(s)' /\ (mq[s].in_global => (Queued(s)' <=> Queued(s)))
       /\ (~mq[s].in_global => Queued(s)' /\ Places(HoldsQueue, s) = {})
  <2>1. CASE mq[s].in_global
    <3>1. global' = global
      BY <1>4, <2>1
    <3> QED BY <1>1, <1>9, <2>1, <3>1 DEF Queued, Once, DataOK, QueueOK
  <2>2. CASE ~mq[s].in_global
    <3>1. global' = Append(global, s) /\ global \in Seq(Service)
      BY <1>1, <1>4, <2>2 DEF DataOK
    <3>2. ~Queued(s) /\ Places(HoldsQueue, s) = {}
      BY <1>8, <1>9, <2>2 DEF QueueOK, Somewhere
    <3> QED BY <2>2, <3>1, <3>2, Appended
  <2> QED BY <2>1, <2>2
<1>11. ASSUME NEW r \in Service, r # s  PROVE Untouched(r)
  <2>1. \A K : Places(K, r)' = Places(K, r)
    BY <1>3, <1>5, <1>11
  <2>2. ctx'[r] = ctx[r] /\ slot' = slot
    BY <1>4
  <2> QED BY <1>7, <1>10, <1>11, <2>1, <2>2 DEF Untouched
<1>12. DataOK'
  BY <1>1, <1>4, <1>7, <1>10 DEF DataOK
<1>13. ServiceOK(s)'
  <2>1. PushHeld(s)'
    <3>1. Places({"push"}, s)' \in SUBSET Places({"push"}, s)
          /\ Places({"release"}, s)' = Places({"release"}, s)
      BY <1>3, <1>5
    <3> QED BY <1>9, <3>1, PushFrame
  <2>2. RefOK(s)'
    BY <1>4, <1>6, <1>9, RefSame DEF HoldsRef
  <2>3. QueueOK(s)'
    <3>1. Places(HoldsQueue, s)' = Places(HoldsQueue, s) /\ Places({"drop"}, s)' = Places({"drop"}, s)
      BY <1>6 DEF Changed, HoldsQueue
    <3>2. ~mq[s].in_global => Somewhere(s)'
      BY <1>10 DEF Somewhere
    <3>3. mq[s].in_global => (Somewhere(s)' <=> Somewhere(s))
      BY <1>10, <3>1 DEF Somewhere
    <3>4. ctx'[s].alive = ctx[s].alive
      BY <1>4
    <3> QED BY <1>4, <1>7, <1>8, <1>9, <1>10, <3>1, <3>2, <3>3, <3>4 DEF QueueOK
  <2>4. BornOK(s)'
    BY <1>4, <1>6, <1>8, <1>9, BornSame
  <2>5. ReadyOK(s)'
    BY <1>4, <1>6, <1>9, ReadySame DEF Handles
  <2> QED BY <2>1, <2>2, <2>3, <2>4, <2>5 DEF ServiceOK
<1> QED BY <1>4, <1>5, <1>11, <1>12, <1>13, Assembled

(* Giving a reference back; the last one makes the thread free the struct. *)
LEMMA ReleaseStep ==
    ASSUME IInv, NEW t \in Thread, Release(t)
    PROVE  IInv'
<1>1. At(t, "release") /\ todo[t] # <<>> /\ Top(t).pc = "release" /\ DataOK /\ StackOK
      /\ Height(t) \in Nat /\ \A r \in Service : ServiceOK(r)
  BY Acting DEF Release
<1>2. PICK s \in Service : s = Top(t).s
  BY <1>1, Acting, FieldTypes DEF Plain
<1>3. \A K, r : Here(t) \in Places(K, r) <=> s = r /\ "release" \in K
  BY <1>1, <1>2, Acting
<1>4. /\ UNCHANGED <<slot, mq, global, quit, sent>>
      /\ ctx' = [ctx EXCEPT ![s].ref = ctx[s].ref - 1]
      /\ Do(t, IF ctx[s].ref = 1 THEN <<Step("delete", s)>> ELSE <<>>)
  BY <1>2 DEF Release
<1>5. Here(t) \in Places(HoldsRef, s)
  BY <1>3 DEF HoldsRef
<1>6. /\ ctx[s].alive /\ ctx[s].ref \in Nat \ {0} /\ ctx[s].ref # Unborn /\ ctx[s].ref - 1 \in Nat
      /\ IsFiniteSet(Places(HoldsRef, s)) /\ Cardinality(Places(HoldsRef, s)) \in Nat
      /\ ctx[s].ref = Cardinality(Places(HoldsRef, s)) + InSlot(s) /\ InSlot(s) \in {0, 1}
      /\ Places({"delete"}, s) = {}
  BY <1>1, <1>5, Held
<1>7. /\ ctx' \in [Service -> Context] /\ ctx'[s].ref = ctx[s].ref - 1
      /\ ctx'[s].init = ctx[s].init /\ ctx'[s].alive = ctx[s].alive
      /\ \A r \in Service : r # s => ctx'[r] = ctx[r]
  <2>1. ctx[s].ref - 1 \in Nat \cup {Unborn}
    BY <1>6
  <2> QED BY <1>1, <1>4, <2>1, CtxRef
<1>8. StackOK' /\ \A K, r : Places(K, r)' =
          (Places(K, r) \ {Here(t)}) \cup (IF ctx[s].ref = 1 /\ r = s /\ "delete" \in K THEN {Here(t)} ELSE {})
  <2>1. CASE ctx[s].ref = 1
    <3> DEFINE x == Step("delete", s)
    <3>1. x \in StepRecord /\ x.pc = "delete" /\ x.s = s
      BY StepTypes DEF Plain
    <3>2. Do(t, <<x>>)
      BY <1>4, <2>1
    <3> HIDE DEF x
    <3>3. StackOK' /\ \A K, r : Places(K, r)' = (Places(K, r) \ {Here(t)}) \cup NewAt(x, K, r, Here(t))
      BY <1>1, <3>1, <3>2, Effect1 DEF Bottom
    <3> QED BY <2>1, <3>1, <3>3 DEF NewAt
  <2>2. CASE ctx[s].ref # 1
    <3>1. Do(t, <<>>)
      BY <1>4, <2>2
    <3>2. StackOK' /\ \A K, r : Places(K, r)' = Places(K, r) \ {Here(t)}
      BY <1>1, <3>1, Effect0
    <3> QED BY <2>2, <3>2
  <2> QED BY <2>1, <2>2
<1>9. Changed({"release", "delete"}, s)
  BY <1>3, <1>8 DEF Changed
<1>10. ASSUME NEW r \in Service, r # s  PROVE Untouched(r)
  <2>1. \A K : Places(K, r)' = Places(K, r)
    BY <1>3, <1>8, <1>10
  <2> QED BY <1>4, <1>7, <1>10, <2>1 DEF Untouched, Queued, Once
<1>11. DataOK'
  BY <1>1, <1>4, <1>7 DEF DataOK
<1>12. ServiceOK(s)'
  <2>1. PushHeld(s) /\ RefOK(s) /\ QueueOK(s) /\ BornOK(s) /\ ReadyOK(s)
    BY <1>1 DEF ServiceOK
  <2>2. PushHeld(s)'
    <3>1. Places({"push"}, s)' = Places({"push"}, s)
          /\ Places({"release"}, s)' = Places({"release"}, s) \ {Here(t)}
      BY <1>3, <1>8
    <3>2. ASSUME NEW u \in Thread, NEW d \in Nat, <<u, d>> \in Places({"push"}, s)
          PROVE  d > 0 /\ <<u, d - 1>> \in Places({"release"}, s) \ {Here(t)}
      <4>1. d > 0 /\ <<u, d - 1>> \in Places({"release"}, s)
        BY <2>1, <3>2 DEF PushHeld
      <4>2. u = t => d <= Height(t)
        BY <1>1, <3>2, Acting
      <4>3. <<u, d - 1>> # Here(t)
        BY <1>1, <4>2 DEF Here
      <4> QED BY <4>1, <4>3
    <3> QED BY <3>1, <3>2 DEF PushHeld
  <2>3. RefOK(s)'
    <3>1. Places(HoldsRef, s)' = Places(HoldsRef, s) \ {Here(t)}
      BY <1>8 DEF HoldsRef
    <3>2. /\ IsFiniteSet(Places(HoldsRef, s)')
          /\ Cardinality(Places(HoldsRef, s)') = Cardinality(Places(HoldsRef, s)) - 1
      BY <1>5, <1>6, <3>1, FS_RemoveElement
    <3>3. Places({"delete"}, s)' = IF ctx[s].ref = 1 THEN {Here(t)} ELSE {}
      BY <1>6, <1>8
    <3>4. InSlot(s)' = InSlot(s)
      BY <1>4 DEF InSlot
    <3>5. /\ ctx'[s].ref = Cardinality(Places(HoldsRef, s)') + InSlot(s)'
          /\ ctx'[s].ref = 0 <=> ctx[s].ref = 1
      BY <1>6, <1>7, <3>2, <3>4
    <3>6. Places({"delete"}, s)' # {} <=> ctx[s].ref = 1
      BY <3>3
    <3>7. \A p, q \in Places({"delete"}, s)' : p = q
      BY <3>3
    <3> QED BY <1>6, <1>7, <3>2, <3>5, <3>6, <3>7, Zenon DEF RefOK
  <2>4. QueueOK(s)'
    BY <1>4, <1>7, <1>9, <2>1, QueueSame DEF HoldsQueue
  <2>5. BornOK(s)'
    <3>1. ctx'[s].ref # Unborn
      BY <1>6, <1>7 DEF Unborn
    <3> QED BY <1>6, <1>9, <2>1, <3>1, BornSame
  <2>6. ReadyOK(s)'
    BY <1>4, <1>7, <1>9, <2>1, ReadySame DEF Handles
  <2> QED BY <2>2, <2>3, <2>4, <2>5, <2>6 DEF ServiceOK
<1> QED BY <1>4, <1>8, <1>10, <1>11, <1>12, Assembled

(* The struct is freed and the queue marked, once.                         *)
LEMMA DeleteStep ==
    ASSUME IInv, NEW t \in Thread, Delete(t)
    PROVE  IInv'
<1>1. At(t, "delete") /\ todo[t] # <<>> /\ Top(t).pc = "delete" /\ DataOK /\ StackOK
      /\ Height(t) \in Nat /\ \A r \in Service : ServiceOK(r)
  BY Acting DEF Delete
<1>2. PICK s \in Service : s = Top(t).s
  BY <1>1, Acting, FieldTypes DEF Plain
<1>3. \A K, r : Here(t) \in Places(K, r) <=> s = r /\ "delete" \in K
  BY <1>1, <1>2, Acting
<1>4. /\ UNCHANGED <<slot, quit, sent>> /\ Do(t, <<>>)
      /\ ctx' = [ctx EXCEPT ![s].alive = FALSE]
      /\ mq' = [mq EXCEPT ![s].release = TRUE]
      /\ global' = IF mq[s].in_global THEN global ELSE Append(global, s)
  BY <1>2 DEF Delete, MarkRelease
<1>5. StackOK' /\ \A K, r : Places(K, r)' = Places(K, r) \ {Here(t)}
  BY <1>1, <1>4, Effect0
<1>6. Changed({"delete"}, s)
  BY <1>3, <1>5 DEF Changed
<1>7. PushHeld(s) /\ RefOK(s) /\ QueueOK(s) /\ BornOK(s) /\ ReadyOK(s)
  BY <1>1 DEF ServiceOK
<1>8. /\ mq' \in [Service -> Queue] /\ mq'[s].release /\ mq'[s].in_global = mq[s].in_global
      /\ mq'[s].alive = mq[s].alive /\ \A r \in Service : r # s => mq'[r] = mq[r]
      /\ ctx' \in [Service -> Context] /\ ~ctx'[s].alive /\ ctx'[s].ref = ctx[s].ref
      /\ ctx'[s].init = ctx[s].init /\ \A r \in Service : r # s => ctx'[r] = ctx[r]
  BY <1>1, <1>4 DEF DataOK, Queue, Context
<1>9. /\ ctx[s].alive /\ ctx[s].ref = 0 /\ mq[s].alive /\ ~mq[s].release /\ ctx[s].ref # Unborn
      /\ s \notin slot /\ Places(HoldsRef, s) = {}
  <2>1. ctx[s].alive /\ ctx[s].ref = 0 /\ ctx[s].ref # Unborn
    BY <1>3, <1>7 DEF RefOK, Unborn
  <2>2. Cardinality(Places(HoldsRef, s)) \in Nat
    BY <1>7, FS_CardinalityType DEF RefOK
  <2>3. s \notin slot /\ Cardinality(Places(HoldsRef, s)) = 0
    BY <1>7, <2>1, <2>2 DEF RefOK, InSlot
  <2>4. Places(HoldsRef, s) = {}
    BY <1>7, <2>3, FS_EmptySet DEF RefOK
  <2> QED BY <1>7, <2>1, <2>3, <2>4 DEF QueueOK
<1>10. /\ global' \in Seq(Service)
       /\ \A r \in Service : r # s => (Queued(r)' <=> Queued(r)) /\ (Once(r) => Once(r)')
       /\ Once(s)' /\ (mq[s].in_global => (Queued(s)' <=> Queued(s)))
       /\ (~mq[s].in_global => Queued(s)' /\ Places(HoldsQueue, s) = {})
  <2>1. CASE mq[s].in_global
    <3>1. global' = global
      BY <1>4, <2>1
    <3> QED BY <1>1, <1>7, <2>1, <3>1 DEF Queued, Once, DataOK, QueueOK
  <2>2. CASE ~mq[s].in_global
    <3>1. global' = Append(global, s) /\ global \in Seq(Service)
      BY <1>1, <1>4, <2>2 DEF DataOK
    <3>2. ~Queued(s) /\ Places(HoldsQueue, s) = {}
      BY <1>7, <1>9, <2>2 DEF QueueOK, Somewhere
    <3> QED BY <2>2, <3>1, <3>2, Appended
  <2> QED BY <2>1, <2>2
<1>11. ASSUME NEW r \in Service, r # s  PROVE Untouched(r)
  <2>1. \A K : Places(K, r)' = Places(K, r)
    BY <1>3, <1>5, <1>11
  <2>2. slot' = slot
    BY <1>4
  <2> QED BY <1>8, <1>10, <1>11, <2>1, <2>2 DEF Untouched
<1>12. DataOK'
  BY <1>1, <1>4, <1>8, <1>10 DEF DataOK
<1>13. ServiceOK(s)'
  <2>1. PushHeld(s)'
    BY <1>6, <1>7, PushSame
  <2>2. RefOK(s)'
    <3>1. Places(HoldsRef, s)' = {} /\ s \notin slot'
      BY <1>4, <1>6, <1>9 DEF Changed, HoldsRef
    <3>2. Places({"delete"}, s)' = {}
      BY <1>3, <1>5, <1>7 DEF RefOK
    <3>3. IsFiniteSet(Places(HoldsRef, s)')
      BY <3>1, FS_EmptySet
    <3> QED BY <1>8, <3>1, <3>2, <3>3 DEF RefOK
  <2>3. QueueOK(s)'
    <3>1. Places(HoldsQueue, s)' = Places(HoldsQueue, s) /\ Places({"drop"}, s)' = Places({"drop"}, s)
      BY <1>6 DEF Changed, HoldsQueue
    <3>2. ~mq[s].in_global => Somewhere(s)'
      BY <1>10 DEF Somewhere
    <3>3. mq[s].in_global => (Somewhere(s)' <=> Somewhere(s))
      BY <1>10, <3>1 DEF Somewhere
    <3> QED BY <1>4, <1>7, <1>8, <1>9, <1>10, <3>1, <3>2, <3>3 DEF QueueOK
  <2>4. BornOK(s)'
    BY <1>6, <1>7, <1>8, <1>9, BornSame
  <2>5. ReadyOK(s)'
    BY <1>4, <1>6, <1>7, <1>8, ReadySame DEF Handles
  <2> QED BY <2>1, <2>2, <2>3, <2>4, <2>5 DEF ServiceOK
<1> QED BY <1>4, <1>5, <1>11, <1>12, <1>13, Assembled

(* The handle storage gives its reference to the thread that retires.      *)
LEMMA RetireStep ==
    ASSUME IInv, NEW t \in Thread, Retire(t)
    PROVE  IInv'
<1>1. At(t, "retire") /\ todo[t] # <<>> /\ Top(t).pc = "retire" /\ DataOK /\ StackOK
      /\ Height(t) \in Nat /\ \A r \in Service : ServiceOK(r)
  BY Acting DEF Retire
<1>2. PICK s \in Service : s = Top(t).s
  BY <1>1, Acting, FieldTypes DEF Plain
<1>3. \A K, r : Here(t) \in Places(K, r) <=> s = r /\ "retire" \in K
  BY <1>1, <1>2, Acting
<1>4. /\ UNCHANGED <<ctx, mq, global, quit, sent>> /\ slot' = slot \ {s}
      /\ Do(t, IF s \in slot THEN <<Step("release", s)>> ELSE <<>>)
  BY <1>2 DEF Retire
<1>5. StackOK' /\ \A K, r : Places(K, r)' =
          (Places(K, r) \ {Here(t)}) \cup (IF s \in slot /\ r = s /\ "release" \in K THEN {Here(t)} ELSE {})
  <2>1. CASE s \in slot
    <3> DEFINE x == Step("release", s)
    <3>1. x \in StepRecord /\ x.pc = "release" /\ x.s = s
      BY StepTypes DEF Plain
    <3>2. Do(t, <<x>>)
      BY <1>4, <2>1
    <3> HIDE DEF x
    <3>3. StackOK' /\ \A K, r : Places(K, r)' = (Places(K, r) \ {Here(t)}) \cup NewAt(x, K, r, Here(t))
      BY <1>1, <3>1, <3>2, Effect1 DEF Bottom
    <3> QED BY <2>1, <3>1, <3>3 DEF NewAt
  <2>2. CASE s \notin slot
    <3>1. Do(t, <<>>)
      BY <1>4, <2>2
    <3>2. StackOK' /\ \A K, r : Places(K, r)' = Places(K, r) \ {Here(t)}
      BY <1>1, <3>1, Effect0
    <3> QED BY <2>2, <3>2
  <2> QED BY <2>1, <2>2
<1>6. Changed({"retire", "release"}, s)
  BY <1>3, <1>5 DEF Changed
<1>7. PushHeld(s) /\ RefOK(s) /\ QueueOK(s) /\ BornOK(s) /\ ReadyOK(s)
  BY <1>1 DEF ServiceOK
<1>8. ASSUME NEW r \in Service, r # s  PROVE Untouched(r)
  <2>1. \A K : Places(K, r)' = Places(K, r)
    BY <1>3, <1>5, <1>8
  <2> QED BY <1>4, <1>8, <2>1 DEF Untouched, Queued, Once
<1>9. DataOK'
  BY <1>1, <1>4 DEF DataOK
<1>10. ServiceOK(s)'
  <2>1. PushHeld(s)'
    <3>1. Places({"push"}, s)' = Places({"push"}, s)
          /\ Places({"release"}, s) \in SUBSET Places({"release"}, s)'
      BY <1>3, <1>5
    <3> QED BY <1>7, <3>1, PushFrame
  <2>2. RefOK(s)'
    <3>1. CASE s \in slot
      <4>1. Places(HoldsRef, s)' = Places(HoldsRef, s) \cup {Here(t)}
            /\ Here(t) \notin Places(HoldsRef, s)
        BY <1>3, <1>5, <3>1 DEF HoldsRef
      <4>2. /\ ctx[s].alive /\ ctx[s].ref \in Nat \ {0} /\ Places({"delete"}, s) = {}
            /\ IsFiniteSet(Places(HoldsRef, s)) /\ Cardinality(Places(HoldsRef, s)) \in Nat
            /\ ctx[s].ref = Cardinality(Places(HoldsRef, s)) + InSlot(s)
        BY <1>1, <3>1, Held
      <4>3. /\ IsFiniteSet(Places(HoldsRef, s)')
            /\ Cardinality(Places(HoldsRef, s)') = Cardinality(Places(HoldsRef, s)) + 1
        BY <4>1, <4>2, FS_AddElement
      <4>4. Places({"delete"}, s)' = {}
        BY <1>6, <4>2 DEF Changed
      <4>5. InSlot(s)' = 0 /\ InSlot(s) = 1 /\ ctx'[s] = ctx[s]
        BY <1>4, <3>1 DEF InSlot
      <4> QED BY <4>2, <4>3, <4>4, <4>5 DEF RefOK
    <3>2. CASE s \notin slot
      <4>1. Changed({"retire"}, s)
        BY <1>3, <1>5, <3>2 DEF Changed
      <4> QED BY <1>4, <1>7, <3>2, <4>1, RefSame DEF HoldsRef
    <3> QED BY <3>1, <3>2
  <2>3. QueueOK(s)'
    BY <1>4, <1>6, <1>7, QueueSame DEF HoldsQueue
  <2>4. BornOK(s)'
    <3>1. Places({"new"}, s)' = Places({"new"}, s)
      BY <1>6 DEF Changed
    <3> QED BY <1>4, <1>7, <3>1, BornFrame
  <2>5. ReadyOK(s)'
    <3>1. /\ Places({"init", "ready"}, s)' = Places({"init", "ready"}, s)
          /\ Places({"init"}, s)' = Places({"init"}, s)
          /\ Places({"ready"}, s)' = Places({"ready"}, s)
          /\ Places({"gpush"}, s)' = Places({"gpush"}, s)
          /\ Places({"mqrelease"}, s)' = Places({"mqrelease"}, s)
      BY <1>6 DEF Changed
    <3>2. Places(Handles, s)' = Places(Handles, s)
      BY <1>6 DEF Changed, Handles
    <3> QED BY <1>4, <1>7, <3>1, <3>2, ReadyQuiet
  <2> QED BY <2>1, <2>2, <2>3, <2>4, <2>5 DEF ServiceOK
<1> QED BY <1>4, <1>5, <1>8, <1>9, <1>10, Assembled

-----------------------------------------------------------------------------
(* The thread whose next step has the queue of s in hand is the only one   *)
(* with it; unless that step is the init, no launch is under way.          *)
LEMMA SoleHolder ==
    ASSUME IInv, NEW t \in Thread, NEW pc \in HoldsQueue, At(t, pc), NEW s \in Service, Top(t).s = s
    PROVE  /\ Places(HoldsQueue, s) = {Here(t)} /\ ~Queued(s)
           /\ mq[s].alive /\ (mq[s].in_global \/ mq[s].release)
           /\ \A K : K \subseteq HoldsQueue /\ pc \notin K => Places(K, s) = {}
           /\ Places({"ready"}, s) = {}
           /\ pc # "init" => ~Launching(s) /\ (s \in slot => ctx[s].init)
<1>1. /\ StackOK /\ ServiceOK(s) /\ Height(t) \in Nat
      /\ \A K, r : Here(t) \in Places(K, r) <=> Top(t).s = r /\ pc \in K
      /\ \A K, r : Above(t) \notin Places(K, r)
  BY Acting
<1>2. QueueOK(s) /\ ReadyOK(s)
  BY <1>1 DEF ServiceOK
<1>3. Places(HoldsQueue, s) = {Here(t)}
  BY <1>1, <1>2 DEF QueueOK
<1>4. ~Queued(s) /\ mq[s].alive /\ (mq[s].in_global \/ mq[s].release)
  BY <1>2, <1>3 DEF QueueOK, Somewhere
<1>5. ASSUME NEW K, K \subseteq HoldsQueue  PROVE \A p \in Places(K, s) : p = Here(t) /\ pc \in K
  <2>1. Places(K, s) \subseteq {Here(t)}
    BY <1>1, <1>3, <1>5, Wider
  <2> QED BY <1>1, <2>1
<1>6. ASSUME NEW u \in Thread, NEW d \in Nat, <<u, d>> \in Places({"gpush"}, s) \cup Places({"mqrelease"}, s)
      PROVE  \A K : <<u, d + 1>> \notin Places(K, s)
  <2>1. <<u, d>> = Here(t)
    BY <1>5, <1>6 DEF HoldsQueue
  <2>2. <<u, d + 1>> = Above(t)
    BY <2>1 DEF Here, Above
  <2> QED BY <1>1, <2>2
<1>7. Places({"ready"}, s) = {}
  <2>1. Places({"ready"}, s) \in SUBSET (Thread \X Nat)
    BY <1>1, PlaceDef DEF StackOK, StackType
  <2>2. ASSUME NEW u \in Thread, NEW d \in Nat, <<u, d>> \in Places({"ready"}, s)  PROVE FALSE
    <3>1. d > 0 /\ <<u, d - 1>> \in Places({"gpush"}, s)
      BY <1>2, <2>2 DEF ReadyOK
    <3>2. d - 1 \in Nat /\ (d - 1) + 1 = d
      BY <3>1
    <3>3. <<u, (d - 1) + 1>> \notin Places({"ready"}, s)
      BY <1>6, <3>1, <3>2
    <3> QED BY <2>2, <3>2, <3>3
  <2> QED BY <2>1, <2>2
<1>8. ASSUME pc # "init"  PROVE ~Launching(s) /\ (s \in slot => ctx[s].init)
  <2>1. Places({"init"}, s) = {}
    BY <1>5, <1>8 DEF HoldsQueue
  <2>2. ~Launching(s)
    BY <1>6, <2>1 DEF Launching
  <2> QED BY <1>2, <2>2 DEF ReadyOK
<1> QED BY <1>3, <1>4, <1>5, <1>7, <1>8

(* A launch begins: nothing of the service is left from before.            *)
LEMMA NewStep ==
    ASSUME IInv, NEW t \in Thread, New(t)
    PROVE  IInv'
<1>1. At(t, "new") /\ todo[t] # <<>> /\ Top(t).pc = "new" /\ DataOK /\ StackOK
      /\ Height(t) \in Nat /\ \A r \in Service : ServiceOK(r)
  BY Acting DEF New
<1>2. PICK s \in Service : s = Top(t).s
  BY <1>1, Acting, FieldTypes DEF Plain
<1>3. \A K, r : Here(t) \in Places(K, r) <=> s = r /\ "new" \in K
  BY <1>1, <1>2, Acting
<1> DEFINE x == Step("init", s)
<1>4. /\ UNCHANGED <<global, quit, sent>> /\ slot' = slot \cup {s} /\ Do(t, <<x>>)
      /\ ctx' = [ctx EXCEPT ![s] = [ref |-> 2, init |-> FALSE, alive |-> TRUE]]
      /\ mq' = [mq EXCEPT ![s] = NewQueue]
  BY <1>2 DEF New
<1>5. x \in StepRecord /\ x.pc = "init" /\ x.s = s
  BY StepTypes DEF Plain
<1> HIDE DEF x
<1>6. StackOK' /\ \A K, r : Places(K, r)' = (Places(K, r) \ {Here(t)}) \cup NewAt(x, K, r, Here(t))
  BY <1>1, <1>4, <1>5, Effect1 DEF Bottom
<1>7. PushHeld(s) /\ RefOK(s) /\ QueueOK(s) /\ BornOK(s) /\ ReadyOK(s)
  BY <1>1 DEF ServiceOK
<1>8. /\ mq' \in [Service -> Queue] /\ mq'[s].in_global /\ ~mq'[s].release
      /\ mq'[s].alive /\ \A r \in Service : r # s => mq'[r] = mq[r]
      /\ ctx' \in [Service -> Context] /\ ctx'[s].alive /\ ctx'[s].ref = 2
      /\ ~ctx'[s].init /\ \A r \in Service : r # s => ctx'[r] = ctx[r]
  <2>1. NewQueue \in Queue /\ NewQueue.in_global /\ ~NewQueue.release /\ NewQueue.alive
    BY DEF Queue, NewQueue
  <2>2. [ref |-> 2, init |-> FALSE, alive |-> TRUE] \in Context
    BY DEF Context
  <2> QED BY <1>1, <1>4, <2>1, <2>2 DEF DataOK
<1>9. /\ ctx[s].ref = Unborn /\ ~ctx[s].alive /\ ~mq[s].alive /\ Places({"new"}, s) = {Here(t)}
      /\ Places(HoldsRef, s) = {} /\ Places(HoldsQueue, s) = {} /\ Places({"delete"}, s) = {}
      /\ ~Queued(s) /\ Once(s)
  <2>1. Here(t) \in Places({"new"}, s)
    BY <1>3
  <2>2. ctx[s].ref = Unborn /\ ~ctx[s].alive /\ ~mq[s].alive /\ Places({"new"}, s) = {Here(t)}
    BY <1>7, <2>1 DEF BornOK
  <2> QED BY <1>7, <2>2 DEF RefOK, QueueOK, Somewhere
<1>10. /\ Places({"push"}, s) = {} /\ Places({"ready"}, s) = {}
  <2>1. ASSUME NEW K, Places(K, s) # {}
        PROVE  \E u \in Thread, d \in Nat : <<u, d>> \in Places(K, s)
    BY <1>1, <2>1, PlaceDef DEF StackOK, StackType
  <2>2. Places({"push"}, s) = {}
    BY <1>1, <1>9, <2>1, PushAlive
  <2>3. Places({"gpush"}, s) = {}
    BY <1>1, <1>9, Wider DEF HoldsQueue
  <2>4. Places({"ready"}, s) = {}
    BY <1>7, <2>1, <2>3 DEF ReadyOK
  <2> QED BY <2>2, <2>4
<1>11. ASSUME NEW r \in Service, r # s  PROVE Untouched(r)
  <2>1. \A K : Places(K, r)' = Places(K, r)
    BY <1>3, <1>5, <1>6, <1>11 DEF NewAt
  <2>2. global' = global /\ (r \in slot' <=> r \in slot)
    BY <1>4, <1>11
  <2> QED BY <1>8, <1>11, <2>1, <2>2 DEF Untouched, Queued, Once
<1>12. DataOK'
  BY <1>1, <1>4, <1>8 DEF DataOK
<1>13. ServiceOK(s)'
  <2>1. PushHeld(s)'
    <3>1. Places({"push"}, s)' = {}
      BY <1>5, <1>6, <1>10 DEF NewAt
    <3> QED BY <3>1 DEF PushHeld
  <2>2. RefOK(s)'
    <3>1. Places(HoldsRef, s)' = {Here(t)}
      BY <1>5, <1>6, <1>9 DEF NewAt, HoldsRef
    <3>2. IsFiniteSet(Places(HoldsRef, s)') /\ Cardinality(Places(HoldsRef, s)') = 1
      BY <3>1, FS_Singleton
    <3>3. Places({"delete"}, s)' = {} /\ InSlot(s)' = 1
      BY <1>4, <1>5, <1>6, <1>9 DEF NewAt, InSlot
    <3> QED BY <1>8, <3>2, <3>3 DEF RefOK
  <2>3. QueueOK(s)'
    <3>1. Places(HoldsQueue, s)' = {Here(t)}
      BY <1>5, <1>6, <1>9 DEF NewAt, HoldsQueue
    <3>2. Places({"drop"}, s)' = {}
      <4>1. Places({"drop"}, s) = {}
        BY <1>1, <1>9, Wider DEF HoldsQueue
      <4> QED BY <1>5, <1>6, <4>1 DEF NewAt
    <3>3. ~Queued(s)' /\ Once(s)' /\ Somewhere(s)'
      BY <1>4, <1>9, <3>1 DEF Queued, Once, Somewhere
    <3> QED BY <1>8, <3>1, <3>2, <3>3 DEF QueueOK
  <2>4. BornOK(s)'
    <3>1. Places({"new"}, s)' = {}
      BY <1>5, <1>6, <1>9 DEF NewAt
    <3>2. ctx'[s].ref # Unborn
      BY <1>8 DEF Unborn
    <3> QED BY <3>1, <3>2 DEF BornOK
  <2>5. ReadyOK(s)'
    <3>1. Places({"ready"}, s)' = {} /\ Here(t) \in Places({"init"}, s)'
      BY <1>5, <1>6, <1>10 DEF NewAt
    <3>2. Places(Handles, s)' = {}
      <4>1. Places(Handles, s) = {}
        <5>1. Handles \subseteq HoldsRef
          BY DEF HoldsRef, Handles
        <5>2. Places(Handles, s) \subseteq Places(HoldsRef, s)
          BY <1>1, <5>1, Wider
        <5> QED BY <1>9, <5>2
      <4> QED BY <1>5, <1>6, <4>1 DEF NewAt, Handles
    <3>3. Launching(s)'
      BY <1>1, <3>1 DEF Launching, Here
    <3> QED BY <1>8, <3>1, <3>2, <3>3 DEF ReadyOK
  <2> QED BY <2>1, <2>2, <2>3, <2>4, <2>5 DEF ServiceOK
<1> QED BY <1>4, <1>6, <1>11, <1>12, <1>13, Assembled

(* A launch that failed: the launcher still holds its reference and the    *)
(* queue.                                                                  *)
LEMMA InitFailedStep ==
    ASSUME IInv, NEW t \in Thread, InitFailed(t)
    PROVE  IInv'
<1>1. At(t, "init") /\ todo[t] # <<>> /\ Top(t).pc = "init" /\ DataOK /\ StackOK
      /\ Height(t) \in Nat /\ \A r \in Service : ServiceOK(r)
  BY Acting DEF InitFailed
<1>2. PICK s \in Service : s = Top(t).s
  BY <1>1, Acting, FieldTypes DEF Plain
<1>3. /\ \A K, r : Here(t) \in Places(K, r) <=> s = r /\ "init" \in K
      /\ \A K, r : Above(t) \notin Places(K, r) /\ Above2(t) \notin Places(K, r)
      /\ Here(t) # Above(t) /\ Here(t) # Above2(t) /\ Above(t) # Above2(t)
  BY <1>1, <1>2, Acting
<1> DEFINE x == Step("release", s)
           y == Step("retire", s)
           z == Step("mqrelease", s)
<1>4. UNCHANGED <<slot, ctx, mq, global, quit, sent>> /\ Do(t, <<x, y, z>>)
  BY <1>2 DEF InitFailed
<1>5. /\ x \in StepRecord /\ x.pc = "release" /\ x.s = s
      /\ y \in StepRecord /\ y.pc = "retire" /\ y.s = s
      /\ z \in StepRecord /\ z.pc = "mqrelease" /\ z.s = s
  BY StepTypes DEF Plain
<1> HIDE DEF x, y, z
<1>6. StackOK' /\ \A K, r : Places(K, r)' = (Places(K, r) \ {Here(t)})
          \cup NewAt(x, K, r, Above2(t)) \cup NewAt(y, K, r, Above(t)) \cup NewAt(z, K, r, Here(t))
  BY <1>1, <1>4, <1>5, Effect3 DEF Bottom
<1>7. Changed({"init", "release", "retire", "mqrelease"}, s)
  BY <1>3, <1>5, <1>6 DEF Changed, NewAt
<1>8. PushHeld(s) /\ RefOK(s) /\ QueueOK(s) /\ BornOK(s) /\ ReadyOK(s)
  BY <1>1 DEF ServiceOK
<1>9. ASSUME NEW r \in Service, r # s  PROVE Untouched(r)
  <2>1. \A K : Places(K, r)' = Places(K, r)
    BY <1>3, <1>5, <1>6, <1>9 DEF NewAt
  <2> QED BY <1>4, <2>1 DEF Untouched, Queued, Once
<1>10. DataOK'
  BY <1>1, <1>4 DEF DataOK
<1>11. ServiceOK(s)'
  <2>1. PushHeld(s)'
    <3>1. Places({"push"}, s)' = Places({"push"}, s)
          /\ Places({"release"}, s) \in SUBSET Places({"release"}, s)'
      BY <1>3, <1>5, <1>6 DEF NewAt
    <3> QED BY <1>8, <3>1, PushFrame
  <2>2. RefOK(s)'
    <3>1. /\ Places(HoldsRef, s)' = (Places(HoldsRef, s) \ {Here(t)}) \cup {Above2(t)}
          /\ Here(t) \in Places(HoldsRef, s) /\ Above2(t) \notin Places(HoldsRef, s)
      BY <1>3, <1>5, <1>6 DEF HoldsRef, NewAt
    <3>2. IsFiniteSet(Places(HoldsRef, s)) /\ ctx[s].alive
      BY <1>8, <3>1 DEF RefOK
    <3>3. /\ IsFiniteSet(Places(HoldsRef, s)')
          /\ Cardinality(Places(HoldsRef, s)') = Cardinality(Places(HoldsRef, s))
      BY <3>1, <3>2, Moved
    <3>4. Places({"delete"}, s)' = Places({"delete"}, s)
      BY <1>7 DEF Changed
    <3>5. InSlot(s)' = InSlot(s) /\ ctx'[s] = ctx[s]
      BY <1>4 DEF InSlot
    <3> QED BY <1>8, <3>2, <3>3, <3>4, <3>5, Zenon DEF RefOK
  <2>3. QueueOK(s)'
    <3>1. Places(HoldsQueue, s)' = Places(HoldsQueue, s)
      BY <1>3, <1>5, <1>6 DEF HoldsQueue, NewAt
    <3>2. Places({"drop"}, s)' = Places({"drop"}, s)
      BY <1>7 DEF Changed
    <3>3. (Queued(s)' <=> Queued(s)) /\ Once(s)'
      BY <1>4, <1>8 DEF Queued, Once, QueueOK
    <3> QED BY <1>4, <1>8, <3>1, <3>2, <3>3, QueueFrame
  <2>4. BornOK(s)'
    <3>1. Places({"new"}, s)' = Places({"new"}, s)
      BY <1>7 DEF Changed
    <3> QED BY <1>4, <1>8, <3>1, BornFrame
  <2>5. ReadyOK(s)'
    <3>1. /\ Places({"init", "ready"}, s)' \in SUBSET Places({"init", "ready"}, s)
          /\ Here(t) \in Places({"mqrelease"}, s)' /\ Above(t) \in Places({"retire"}, s)'
      BY <1>3, <1>5, <1>6 DEF NewAt
    <3>2. /\ Places({"ready"}, s)' = Places({"ready"}, s)
          /\ Places({"gpush"}, s)' = Places({"gpush"}, s)
      BY <1>7 DEF Changed
    <3>3. Places(Handles, s)' = Places(Handles, s)
      BY <1>7 DEF Changed, Handles
    <3>4. Launching(s)'
      BY <1>1, <3>1 DEF Launching, Here, Above
    <3> QED BY <1>4, <1>8, <3>1, <3>2, <3>3, <3>4, ReadyFrame
  <2> QED BY <2>1, <2>2, <2>3, <2>4, <2>5 DEF ServiceOK
<1> QED BY <1>4, <1>6, <1>9, <1>10, <1>11, Assembled

(* A launch that succeeded: the launcher gives its reference back and is   *)
(* left with the queue.                                                    *)
LEMMA InitDoneStep ==
    ASSUME IInv, NEW t \in Thread, InitDone(t)
    PROVE  IInv'
<1>1. At(t, "init") /\ todo[t] # <<>> /\ Top(t).pc = "init" /\ DataOK /\ StackOK
      /\ Height(t) \in Nat /\ \A r \in Service : ServiceOK(r)
  BY Acting DEF InitDone
<1>2. PICK s \in Service : s = Top(t).s
  BY <1>1, Acting, FieldTypes DEF Plain
<1>3. /\ \A K, r : Here(t) \in Places(K, r) <=> s = r /\ "init" \in K
      /\ \A K, r : Above(t) \notin Places(K, r)
      /\ Here(t) # Above(t)
  BY <1>1, <1>2, Acting
<1>4. PICK next : next = IF ctx[s].ref = 1 THEN "delete" ELSE "ready"
  OBVIOUS
<1> DEFINE x == Step(next, s)
           y == Step("gpush", s)
<1>5. /\ UNCHANGED <<slot, mq, global, quit, sent>> /\ Do(t, <<x, y>>)
      /\ ctx' = [ctx EXCEPT ![s].ref = ctx[s].ref - 1]
  BY <1>2, <1>4 DEF InitDone
<1>6. /\ x \in StepRecord /\ x.pc = next /\ x.s = s
      /\ y \in StepRecord /\ y.pc = "gpush" /\ y.s = s
  BY <1>4, StepTypes DEF Plain
<1> HIDE DEF x, y
<1>7. StackOK' /\ \A K, r : Places(K, r)' = (Places(K, r) \ {Here(t)})
                                  \cup NewAt(x, K, r, Above(t)) \cup NewAt(y, K, r, Here(t))
  BY <1>1, <1>4, <1>5, <1>6, Effect2 DEF Bottom
<1>8. Changed({"init", "delete", "ready", "gpush"}, s)
  <2> SUFFICES ASSUME NEW K, K \cap {"init", "delete", "ready", "gpush"} = {}
               PROVE  Places(K, s)' = Places(K, s)
    BY Zenon DEF Changed
  <2>1. x.pc \notin K /\ y.pc \notin K /\ "init" \notin K
    BY <1>4, <1>6
  <2>2. NewAt(x, K, s, Above(t)) = {} /\ NewAt(y, K, s, Here(t)) = {}
    BY <2>1 DEF NewAt
  <2>3. Here(t) \notin Places(K, s)
    BY <1>3, <2>1
  <2> QED BY <1>7, <2>2, <2>3
<1>9. PushHeld(s) /\ RefOK(s) /\ QueueOK(s) /\ BornOK(s) /\ ReadyOK(s)
  BY <1>1 DEF ServiceOK
<1>10. Here(t) \in Places(HoldsRef, s)
  BY <1>3 DEF HoldsRef
<1>11. /\ ctx[s].alive /\ ctx[s].ref \in Nat \ {0} /\ ctx[s].ref # Unborn /\ ctx[s].ref - 1 \in Nat
       /\ IsFiniteSet(Places(HoldsRef, s)) /\ Cardinality(Places(HoldsRef, s)) \in Nat
       /\ ctx[s].ref = Cardinality(Places(HoldsRef, s)) + InSlot(s) /\ InSlot(s) \in {0, 1}
       /\ Places({"delete"}, s) = {}
  BY <1>1, <1>10, Held
<1>12. /\ ctx' \in [Service -> Context] /\ ctx'[s].ref = ctx[s].ref - 1
       /\ ctx'[s].init = ctx[s].init /\ ctx'[s].alive = ctx[s].alive
       /\ \A r \in Service : r # s => ctx'[r] = ctx[r]
  <2>1. ctx[s].ref - 1 \in Nat \cup {Unborn}
    BY <1>11
  <2> QED BY <1>1, <1>5, <2>1, CtxRef
<1>13. ASSUME NEW r \in Service, r # s  PROVE Untouched(r)
  <2>1. \A K : Places(K, r)' = Places(K, r)
    BY <1>3, <1>6, <1>7, <1>13 DEF NewAt
  <2> QED BY <1>5, <1>12, <1>13, <2>1 DEF Untouched, Queued, Once
<1>14. DataOK'
  BY <1>1, <1>5, <1>12 DEF DataOK
<1>15. ServiceOK(s)'
  <2>1. PushHeld(s)'
    BY <1>8, <1>9, PushSame
  <2>2. RefOK(s)'
    <3>1. Places(HoldsRef, s)' = Places(HoldsRef, s) \ {Here(t)}
      BY <1>4, <1>6, <1>7 DEF HoldsRef, NewAt
    <3>2. /\ IsFiniteSet(Places(HoldsRef, s)')
          /\ Cardinality(Places(HoldsRef, s)') = Cardinality(Places(HoldsRef, s)) - 1
      BY <1>10, <1>11, <3>1, FS_RemoveElement
    <3>3. Places({"delete"}, s)' = IF ctx[s].ref = 1 THEN {Above(t)} ELSE {}
      BY <1>4, <1>6, <1>7, <1>11 DEF NewAt
    <3>4. InSlot(s)' = InSlot(s)
      BY <1>5 DEF InSlot
    <3>5. /\ ctx'[s].ref = Cardinality(Places(HoldsRef, s)') + InSlot(s)'
          /\ ctx'[s].ref = 0 <=> ctx[s].ref = 1
      BY <1>11, <1>12, <3>2, <3>4
    <3>6. Places({"delete"}, s)' # {} <=> ctx[s].ref = 1
      BY <3>3
    <3>7. \A p, q \in Places({"delete"}, s)' : p = q
      BY <3>3
    <3> QED BY <1>11, <1>12, <3>2, <3>5, <3>6, <3>7, Zenon DEF RefOK
  <2>3. QueueOK(s)'
    <3>1. Places(HoldsQueue, s)' = Places(HoldsQueue, s)
      <4>1. next \notin HoldsQueue /\ "gpush" \in HoldsQueue /\ "init" \in HoldsQueue
        BY <1>4 DEF HoldsQueue
      <4> QED BY <1>3, <1>6, <1>7, <4>1 DEF NewAt
    <3>2. Places({"drop"}, s)' = Places({"drop"}, s)
      BY <1>8 DEF Changed
    <3>3. (Queued(s)' <=> Queued(s)) /\ Once(s)'
      BY <1>5, <1>9 DEF Queued, Once, QueueOK
    <3> QED BY <1>5, <1>9, <1>12, <3>1, <3>2, <3>3, QueueFrame
  <2>4. BornOK(s)'
    <3>1. ctx'[s].ref # Unborn
      BY <1>11, <1>12 DEF Unborn
    <3> QED BY <1>8, <1>9, <1>11, <3>1, BornSame
  <2>5. ReadyOK(s)'
    <3>1. ~ctx'[s].init
      <4>1. Here(t) \in Places({"init", "ready"}, s)
        BY <1>3
      <4> QED BY <1>9, <1>12, <4>1 DEF ReadyOK
    <3>2. Places(Handles, s)' = {}
      <4>1. Places(Handles, s)' = Places(Handles, s)
        BY <1>8 DEF Changed, Handles
      <4> QED BY <1>9, <1>12, <3>1, <4>1 DEF ReadyOK
    <3>3. /\ Places({"ready"}, s)' \in SUBSET {Above(t)} /\ Here(t) \in Places({"gpush"}, s)'
          /\ (ctx[s].ref # 1 => Above(t) \in Places({"ready"}, s)')
      <4>1. Places({"ready"}, s) = {}
        BY <1>1, <1>2, SoleHolder DEF HoldsQueue
      <4> QED BY <1>4, <1>6, <1>7, <4>1 DEF NewAt
    <3>4. ASSUME NEW u \in Thread, NEW d \in Nat, <<u, d>> \in Places({"ready"}, s)'
          PROVE  d > 0 /\ <<u, d - 1>> \in Places({"gpush"}, s)'
      <4>1. <<u, d>> = Above(t)
        BY <3>3, <3>4
      <4>2. d > 0 /\ <<u, d - 1>> = Here(t)
        BY <1>1, <4>1 DEF Here, Above
      <4> QED BY <3>3, <4>2
    <3>5. s \in slot' => Launching(s)'
      <4>1. s \in slot => ctx[s].ref # 1
        <5>1. Cardinality(Places(HoldsRef, s)) # 0
          BY <1>10, <1>11, FS_EmptySet
        <5> QED BY <1>11, <5>1 DEF InSlot
      <4> QED BY <1>1, <1>5, <3>3, <4>1 DEF Launching, Here, Above
    <3> QED BY <3>1, <3>2, <3>4, <3>5 DEF ReadyOK
  <2> QED BY <2>1, <2>2, <2>3, <2>4, <2>5 DEF ServiceOK
<1> QED BY <1>5, <1>7, <1>13, <1>14, <1>15, Assembled

(* The initialised service is not handled by anybody yet.                  *)
LEMMA SetReadyStep ==
    ASSUME IInv, NEW t \in Thread, SetReady(t)
    PROVE  IInv'
<1>1. At(t, "ready") /\ todo[t] # <<>> /\ Top(t).pc = "ready" /\ DataOK /\ StackOK
      /\ Height(t) \in Nat /\ \A r \in Service : ServiceOK(r)
  BY Acting DEF SetReady
<1>2. PICK s \in Service : s = Top(t).s
  BY <1>1, Acting, FieldTypes DEF Plain
<1>3. \A K, r : Here(t) \in Places(K, r) <=> s = r /\ "ready" \in K
  BY <1>1, <1>2, Acting
<1>4. /\ UNCHANGED <<slot, mq, global, quit, sent>> /\ Do(t, <<>>)
      /\ ctx' = [ctx EXCEPT ![s].init = ctx[s].alive]
  BY <1>2 DEF SetReady
<1>5. StackOK' /\ \A K, r : Places(K, r)' = Places(K, r) \ {Here(t)}
  BY <1>1, <1>4, Effect0
<1>6. Changed({"ready"}, s)
  BY <1>3, <1>5 DEF Changed
<1>7. PushHeld(s) /\ RefOK(s) /\ QueueOK(s) /\ BornOK(s) /\ ReadyOK(s)
  BY <1>1 DEF ServiceOK
<1>8. /\ ctx' \in [Service -> Context] /\ ctx'[s].ref = ctx[s].ref
      /\ ctx'[s].alive = ctx[s].alive /\ ctx'[s].init = ctx[s].alive
      /\ \A r \in Service : r # s => ctx'[r] = ctx[r]
  BY <1>1, <1>4 DEF DataOK, Context
<1>9. ASSUME NEW r \in Service, r # s  PROVE Untouched(r)
  <2>1. \A K : Places(K, r)' = Places(K, r)
    BY <1>3, <1>5, <1>9
  <2> QED BY <1>4, <1>8, <1>9, <2>1 DEF Untouched, Queued, Once
<1>10. DataOK'
  BY <1>1, <1>4, <1>8 DEF DataOK
<1>11. /\ Height(t) > 0 /\ <<t, Height(t) - 1>> \in Places({"gpush"}, s)
  BY <1>1, <1>3, <1>7 DEF ReadyOK, Here
<1>12. Places({"init", "ready"}, s) \subseteq {Here(t)}
  <2>1. Places({"init", "ready"}, s) \in SUBSET (Thread \X Nat)
    BY <1>1, PlaceDef DEF StackOK, StackType
  <2>2. <<t, Height(t) - 1>> \in Places(HoldsQueue, s)
    BY <1>1, <1>11, Wider DEF HoldsQueue
  <2>3. ASSUME NEW u \in Thread, NEW d \in Nat, <<u, d>> \in Places({"init", "ready"}, s)
        PROVE  <<u, d>> = Here(t)
    <3>1. Names(todo, {"init"}, s, u, d) \/ Names(todo, {"ready"}, s, u, d)
      <4>1. Names(todo, {"init", "ready"}, s, u, d)
        BY <1>1, <2>3, PlaceDef DEF StackOK, StackType
      <4> QED BY <4>1 DEF Names
    <3>2. <<u, d>> \in Places({"init"}, s) \/ <<u, d>> \in Places({"ready"}, s)
      BY <1>1, <3>1, PlaceDef DEF StackOK, StackType
    <3>3. <<u, d>> \notin Places({"init"}, s)
      <4> SUFFICES ASSUME <<u, d>> \in Places({"init"}, s)  PROVE FALSE
        OBVIOUS
      <4>1. <<u, d>> \in Places(HoldsQueue, s)
        BY <1>1, Wider DEF HoldsQueue
      <4>2. <<u, d>> = <<t, Height(t) - 1>>
        BY <1>7, <2>2, <4>1 DEF QueueOK
      <4>3. <<u, d>> \in Places({"gpush"}, s)
        BY <1>11, <4>2
      <4>4. {"init"} \cap {"gpush"} # {}
        BY <1>1, <4>3, OneKind
      <4> QED BY <4>4
    <3>4. d > 0 /\ <<u, d - 1>> \in Places({"gpush"}, s)
      BY <1>7, <3>2, <3>3 DEF ReadyOK
    <3>5. <<u, d - 1>> \in Places(HoldsQueue, s)
      BY <1>1, <3>4, Wider DEF HoldsQueue
    <3>6. <<u, d - 1>> = <<t, Height(t) - 1>>
      BY <1>7, <2>2, <3>5 DEF QueueOK
    <3>7. u = t /\ d - 1 = Height(t) - 1
      BY <3>6
    <3> QED BY <1>1, <3>7 DEF Here
  <2> QED BY <2>1, <2>3
<1>13. ServiceOK(s)'
  <2>1. PushHeld(s)'
    BY <1>6, <1>7, PushSame
  <2>2. RefOK(s)'
    BY <1>4, <1>6, <1>7, <1>8, RefSame DEF HoldsRef
  <2>3. QueueOK(s)'
    BY <1>4, <1>6, <1>7, <1>8, QueueSame DEF HoldsQueue
  <2>4. BornOK(s)'
    <3>1. Places({"new"}, s)' = Places({"new"}, s)
      BY <1>6 DEF Changed
    <3>2. mq'[s] = mq[s]
      BY <1>4
    <3> QED BY <1>7, <1>8, <3>1, <3>2 DEF BornOK
  <2>5. ReadyOK(s)'
    <3>1. Places({"init", "ready"}, s)' = {} /\ Places({"ready"}, s)' = {}
      <4>1. Places({"ready"}, s) \subseteq Places({"init", "ready"}, s)
        BY <1>1, Wider
      <4> QED BY <1>5, <1>12, <4>1
    <3>2. Places(Handles, s)' # {} => ctx[s].alive
      <4>1. Places(Handles, s)' = Places(Handles, s)
        BY <1>6 DEF Changed, Handles
      <4>2. Places(Handles, s) \subseteq Places(HoldsRef, s)
        BY <1>1, Wider DEF Handles, HoldsRef
      <4> QED BY <1>7, <4>1, <4>2 DEF RefOK
    <3>3. s \in slot' => ctx[s].alive
      BY <1>4, <1>7 DEF RefOK
    <3> QED BY <1>8, <3>1, <3>2, <3>3 DEF ReadyOK
  <2> QED BY <2>1, <2>2, <2>3, <2>4, <2>5 DEF ServiceOK
<1> QED BY <1>4, <1>5, <1>9, <1>10, <1>13, Assembled

-----------------------------------------------------------------------------
(* A thread gives a queue in its hand to the global queue.                 *)
LEMMA GivenBack ==
    ASSUME IInv, NEW t \in Thread, NEW pc \in {"gpush", "mqrelease"}, At(t, pc),
           NEW s \in Service, s = Top(t).s, Do(t, <<>>), global' = Append(global, s),
           UNCHANGED <<slot, ctx, mq, quit, sent>>
    PROVE  IInv'
<1>1. todo[t] # <<>> /\ DataOK /\ StackOK /\ \A r \in Service : ServiceOK(r)
  BY Acting
<1>2. \A K, r : Here(t) \in Places(K, r) <=> s = r /\ pc \in K
  BY Acting
<1>3. StackOK' /\ \A K, r : Places(K, r)' = Places(K, r) \ {Here(t)}
  BY <1>1, Effect0
<1>4. Changed({"gpush", "mqrelease"}, s)
  <2>1. ASSUME NEW K, K \cap {"gpush", "mqrelease"} = {}  PROVE Places(K, s)' = Places(K, s)
    <3>1. pc \notin K
      BY <2>1
    <3> QED BY <1>2, <1>3, <3>1
  <2> QED BY <2>1 DEF Changed
<1>5. PushHeld(s) /\ RefOK(s) /\ QueueOK(s) /\ BornOK(s) /\ ReadyOK(s)
  BY <1>1 DEF ServiceOK
<1>6. /\ Places(HoldsQueue, s) = {Here(t)} /\ ~Queued(s)
      /\ mq[s].alive /\ (mq[s].in_global \/ mq[s].release)
      /\ Places({"ready"}, s) = {} /\ (s \in slot => ctx[s].init)
  <2>1. pc \in HoldsQueue /\ pc # "init"
    BY DEF HoldsQueue
  <2> QED BY <2>1, SoleHolder
<1>7. /\ global' \in Seq(Service) /\ Queued(s)' /\ Once(s)'
      /\ \A r \in Service : r # s => (Queued(r)' <=> Queued(r)) /\ (Once(r)' <=> Once(r))
  BY <1>1, <1>6, Appended DEF DataOK
<1>8. ASSUME NEW r \in Service, r # s  PROVE Untouched(r)
  <2>1. \A K : Places(K, r)' = Places(K, r)
    BY <1>2, <1>3, <1>8
  <2> QED BY <1>7, <1>8, <2>1 DEF Untouched
<1>9. DataOK'
  BY <1>1, <1>7 DEF DataOK
<1>10. ServiceOK(s)'
  <2>1. PushHeld(s)'
    BY <1>4, <1>5, PushSame
  <2>2. RefOK(s)'
    BY <1>4, <1>5, RefSame DEF HoldsRef
  <2>3. QueueOK(s)'
    <3>1. Places(HoldsQueue, s)' = {} /\ Places({"drop"}, s)' = Places({"drop"}, s)
      BY <1>3, <1>4, <1>6 DEF Changed
    <3>2. Somewhere(s)'
      BY <1>7 DEF Somewhere
    <3> QED BY <1>5, <1>6, <1>7, <3>1, <3>2 DEF QueueOK
  <2>4. BornOK(s)'
    <3>1. Places({"new"}, s)' = Places({"new"}, s)
      BY <1>4 DEF Changed
    <3> QED BY <1>5, <3>1, BornFrame
  <2>5. ReadyOK(s)'
    <3>1. /\ Places({"ready"}, s)' = {}
          /\ Places({"init", "ready"}, s)' = Places({"init", "ready"}, s)
      BY <1>4, <1>6 DEF Changed
    <3>2. Places(Handles, s)' = Places(Handles, s)
      BY <1>4 DEF Changed, Handles
    <3> QED BY <1>5, <1>6, <3>1, <3>2 DEF ReadyOK
  <2> QED BY <2>1, <2>2, <2>3, <2>4, <2>5 DEF ServiceOK
<1> QED BY <1>3, <1>8, <1>9, <1>10, Assembled

(* The launcher puts the queue, born with in_global set, into the global   *)
(* queue.                                                                  *)
LEMMA GlobalPushStep ==
    ASSUME IInv, NEW t \in Thread, GlobalPush(t)
    PROVE  IInv'
<1>1. At(t, "gpush")
  BY DEF GlobalPush
<1>2. PICK s \in Service : s = Top(t).s
  BY <1>1, Acting, FieldTypes DEF Plain
<1> QED BY <1>1, <1>2, GivenBack DEF GlobalPush

(* skynet_mq_release: a marked queue is dropped by the thread that holds   *)
(* it, another one goes back into the global queue.                        *)
LEMMA MqReleaseStep ==
    ASSUME IInv, NEW t \in Thread, MqRelease(t)
    PROVE  IInv'
<1>1. At(t, "mqrelease") /\ todo[t] # <<>> /\ Top(t).pc = "mqrelease" /\ DataOK /\ StackOK
      /\ \A r \in Service : ServiceOK(r)
  BY Acting DEF MqRelease
<1>2. PICK s \in Service : s = Top(t).s
  BY <1>1, Acting, FieldTypes DEF Plain
<1>3. UNCHANGED <<slot, ctx, mq, quit, sent>>
  BY DEF MqRelease
<1>4. CASE ~mq[s].release
  <2>1. Do(t, <<>>) /\ global' = Append(global, s)
    BY <1>2, <1>4 DEF MqRelease
  <2> QED BY <1>1, <1>2, <1>3, <2>1, GivenBack
<1>5. CASE mq[s].release
  <2> DEFINE x == Step("drop", s)
  <2>1. Do(t, <<x>>) /\ global' = global
    BY <1>2, <1>5 DEF MqRelease
  <2>2. x \in StepRecord /\ x.pc = "drop" /\ x.s = s
    BY StepTypes DEF Plain
  <2> HIDE DEF x
  <2>3. StackOK' /\ \A K, r : Places(K, r)' = (Places(K, r) \ {Here(t)}) \cup NewAt(x, K, r, Here(t))
    BY <1>1, <2>1, <2>2, Effect1 DEF Bottom
  <2>4. \A K, r : Here(t) \in Places(K, r) <=> s = r /\ "mqrelease" \in K
    BY <1>1, <1>2, Acting
  <2>5. Changed({"mqrelease", "drop"}, s)
    BY <2>2, <2>3, <2>4 DEF Changed, NewAt
  <2>6. PushHeld(s) /\ RefOK(s) /\ QueueOK(s) /\ BornOK(s) /\ ReadyOK(s)
    BY <1>1 DEF ServiceOK
  <2>7. ASSUME NEW r \in Service, r # s  PROVE Untouched(r)
    <3>1. \A K : Places(K, r)' = Places(K, r)
      BY <2>2, <2>3, <2>4, <2>7 DEF NewAt
    <3> QED BY <1>3, <2>1, <3>1 DEF Untouched, Queued, Once
  <2>8. DataOK'
    BY <1>1, <1>3, <2>1 DEF DataOK
  <2>9. ServiceOK(s)'
    <3>1. PushHeld(s)'
      BY <2>5, <2>6, PushSame
    <3>2. RefOK(s)'
      BY <1>3, <2>5, <2>6, RefSame DEF HoldsRef
    <3>3. QueueOK(s)'
      <4>1. Places(HoldsQueue, s)' = Places(HoldsQueue, s)
        BY <2>2, <2>3, <2>4 DEF HoldsQueue, NewAt
      <4>2. (Queued(s)' <=> Queued(s)) /\ Once(s)'
        BY <2>1, <2>6 DEF Queued, Once, QueueOK
      <4>3. Somewhere(s)' <=> Somewhere(s)
        BY <4>1, <4>2 DEF Somewhere
      <4> QED BY <1>3, <1>5, <2>6, <4>1, <4>2, <4>3 DEF QueueOK
    <3>4. BornOK(s)'
      <4>1. Places({"new"}, s)' = Places({"new"}, s)
        BY <2>5 DEF Changed
      <4> QED BY <1>3, <2>6, <4>1, BornFrame
    <3>5. ReadyOK(s)'
      <4>1. s \notin slot
        BY <1>5, <2>6 DEF RefOK, QueueOK
      <4>2. /\ Places({"init", "ready"}, s)' = Places({"init", "ready"}, s)
            /\ Places({"ready"}, s)' = Places({"ready"}, s)
            /\ Places({"gpush"}, s)' = Places({"gpush"}, s)
        BY <2>5 DEF Changed
      <4>3. Places(Handles, s)' = Places(Handles, s)
        BY <2>5 DEF Changed, Handles
      <4> QED BY <1>3, <2>6, <4>1, <4>2, <4>3, ReadyFrame
    <3> QED BY <3>1, <3>2, <3>3, <3>4, <3>5 DEF ServiceOK
  <2> QED BY <1>3, <2>3, <2>7, <2>8, <2>9, Assembled
<1> QED BY <1>4, <1>5

(* Two steps put together one by one.                                      *)
LEMMA Pair ==
    ASSUME NEW x \in StepRecord, NEW y \in StepRecord
    PROVE  <<x>> \o <<y>> = <<x, y>>
<1>1. <<x>> \in Seq(StepRecord) /\ Len(<<x>>) = 1 /\ <<x>>[1] = x
      /\ <<y>> \in Seq(StepRecord) /\ Len(<<y>>) = 1 /\ <<y>>[1] = y
  OBVIOUS
<1>2. <<x, y>> \in Seq(StepRecord) /\ Len(<<x, y>>) = 2 /\ <<x, y>>[1] = x /\ <<x, y>>[2] = y
  OBVIOUS
<1> DEFINE a == <<x>>
           b == <<y>>
           c == <<x, y>>
<1> HIDE DEF a, b, c
<1>3. /\ a \o b \in Seq(StepRecord) /\ Len(a \o b) = 2
      /\ (a \o b)[1] = x /\ (a \o b)[2] = y
  BY <1>1, ConcatProperties DEF a, b
<1>4. c \in Seq(StepRecord) /\ Len(c) = 2 /\ c[1] = x /\ c[2] = y
  BY <1>2 DEF c
<1>5. \A i \in 1 .. 2 : (a \o b)[i] = c[i]
  BY <1>3, <1>4
<1>6. a \o b = c
  BY <1>3, <1>4, <1>5, SeqEqual
<1> QED BY <1>6 DEF a, b, c

(* A message of a dead queue is dropped and its sender told.               *)
LEMMA DropStep ==
    ASSUME IInv, NEW t \in Thread, Drop(t)
    PROVE  IInv'
<1>1. At(t, "drop") /\ todo[t] # <<>> /\ Top(t).pc = "drop" /\ DataOK /\ StackOK
      /\ \A r \in Service : ServiceOK(r)
  BY Acting DEF Drop
<1>2. PICK s \in Service : s = Top(t).s
  BY <1>1, Acting, FieldTypes DEF Plain
<1>3. \A K, r : Here(t) \in Places(K, r) <=> s = r /\ "drop" \in K
  BY <1>1, <1>2, Acting
<1>4. /\ UNCHANGED <<slot, ctx, global, quit, sent>> /\ mq[s].msgs # <<>>
      /\ mq' = [mq EXCEPT ![s].msgs = Tail(mq[s].msgs)]
      /\ Do(t, DropReport(s, Head(mq[s].msgs)) \o <<Step("drop", s)>>)
  BY <1>2 DEF Drop, MqPop
<1>5. Head(mq[s].msgs) \in Msg /\ Tail(mq[s].msgs) \in Seq(Msg)
  <2>1. mq[s].msgs \in Seq(Msg)
    BY <1>1 DEF DataOK, Queue
  <2> QED BY <1>4, <2>1
<1>6. /\ mq' \in [Service -> Queue] /\ \A r \in Service : r # s => mq'[r] = mq[r]
      /\ mq'[s].in_global = mq[s].in_global /\ mq'[s].release = mq[s].release
      /\ mq'[s].alive = mq[s].alive
  BY <1>1, <1>4, <1>5 DEF DataOK, Queue
<1> DEFINE y == Step("drop", s)
<1>7. y \in StepRecord /\ y.pc = "drop" /\ y.s = s
  BY StepTypes DEF Plain
<1>8. PICK m \in Msg : m = Head(mq[s].msgs)
  BY <1>5
<1>9. StackOK' /\ \A K : "send" \notin K => \A r : Places(K, r)' = Places(K, r)
  <2>1. CASE m.src = None
    <3>1. DropReport(s, m) \o <<y>> = <<y>>
      <4>1. DropReport(s, m) = <<>>
        BY <2>1 DEF DropReport
      <4>2. <<y>> \in Seq({y}) /\ <<>> \o <<y>> = <<y>>
        OBVIOUS
      <4> QED BY <4>1, <4>2
    <3>2. Do(t, <<y>>)
      BY <1>4, <1>8, <3>1
    <3> HIDE DEF y
    <3>3. StackOK' /\ \A K, r : Places(K, r)' = (Places(K, r) \ {Here(t)}) \cup NewAt(y, K, r, Here(t))
      BY <1>1, <1>7, <3>2, Effect1 DEF Bottom
    <3> QED BY <1>3, <1>7, <3>3 DEF NewAt
  <2>2. CASE m.src # None
    <3> DEFINE e == [src |-> s, id |-> m.id, err |-> TRUE]
               x == StepMsg("send", m.src, e, 0)
    <3>1. m.src \in Service /\ e \in Msg
      BY <2>2 DEF Msg
    <3>2. x \in StepRecord /\ x.pc = "send" /\ x.s = m.src
      BY <3>1, StepTypes DEF WithMessage
    <3>3. DropReport(s, m) \o <<y>> = <<x, y>>
      <4>1. DropReport(s, m) = <<x>>
        BY <2>2 DEF DropReport
      <4> HIDE DEF x, y
      <4>2. <<x>> \o <<y>> = <<x, y>>
        BY <1>7, <3>2, Pair
      <4> QED BY <4>1, <4>2
    <3>4. Do(t, <<x, y>>)
      BY <1>4, <1>8, <3>3
    <3> HIDE DEF x, y
    <3>5. StackOK' /\ \A K, r : Places(K, r)' = (Places(K, r) \ {Here(t)})
                                  \cup NewAt(x, K, r, Above(t)) \cup NewAt(y, K, r, Here(t))
      BY <1>1, <1>7, <3>2, <3>4, Effect2 DEF Bottom
    <3> QED BY <1>3, <1>7, <3>2, <3>5 DEF NewAt
  <2> QED BY <2>1, <2>2
<1>10. ASSUME NEW r \in Service, r # s  PROVE Untouched(r)
  BY <1>4, <1>6, <1>9, <1>10 DEF Untouched, Queued, Once
<1>11. Changed({"send"}, s)
  BY <1>9 DEF Changed
<1>12. DataOK'
  BY <1>1, <1>4, <1>6 DEF DataOK
<1>13. ServiceOK(s)'
  <2>1. PushHeld(s) /\ RefOK(s) /\ QueueOK(s) /\ BornOK(s) /\ ReadyOK(s)
    BY <1>1 DEF ServiceOK
  <2>2. PushHeld(s)'
    BY <1>11, <2>1, PushSame
  <2>3. RefOK(s)'
    BY <1>4, <1>11, <2>1, RefSame DEF HoldsRef
  <2>4. QueueOK(s)'
    BY <1>4, <1>6, <1>11, <2>1, QueueSame DEF HoldsQueue
  <2>5. BornOK(s)'
    <3>1. ctx[s].ref # Unborn
      BY <1>4, <2>1 DEF BornOK
    <3> QED BY <1>4, <1>11, <2>1, <3>1, BornSame
  <2>6. ReadyOK(s)'
    BY <1>4, <1>11, <2>1, ReadySame DEF Handles
  <2> QED BY <2>2, <2>3, <2>4, <2>5, <2>6 DEF ServiceOK
<1> QED BY <1>4, <1>9, <1>10, <1>12, <1>13, Assembled

(* An emptied queue is freed by the thread that holds it.                  *)
LEMMA FreeQueueStep ==
    ASSUME IInv, NEW t \in Thread, FreeQueue(t)
    PROVE  IInv'
<1>1. At(t, "drop") /\ todo[t] # <<>> /\ Top(t).pc = "drop" /\ DataOK /\ StackOK
      /\ \A r \in Service : ServiceOK(r)
  BY Acting DEF FreeQueue
<1>2. PICK s \in Service : s = Top(t).s
  BY <1>1, Acting, FieldTypes DEF Plain
<1>3. \A K, r : Here(t) \in Places(K, r) <=> s = r /\ "drop" \in K
  BY <1>1, <1>2, Acting
<1>4. /\ UNCHANGED <<slot, ctx, global, quit, sent>> /\ Do(t, <<>>)
      /\ mq' = [mq EXCEPT ![s].in_global = FALSE, ![s].alive = FALSE]
  BY <1>2 DEF FreeQueue
<1>5. StackOK' /\ \A K, r : Places(K, r)' = Places(K, r) \ {Here(t)}
  BY <1>1, <1>4, Effect0
<1>6. Changed({"drop"}, s)
  BY <1>3, <1>5 DEF Changed
<1>7. PushHeld(s) /\ RefOK(s) /\ QueueOK(s) /\ BornOK(s) /\ ReadyOK(s)
  BY <1>1 DEF ServiceOK
<1>8. /\ mq' \in [Service -> Queue] /\ \A r \in Service : r # s => mq'[r] = mq[r]
      /\ ~mq'[s].in_global /\ mq'[s].release = mq[s].release /\ ~mq'[s].alive
      /\ mq'[s].msgs = mq[s].msgs
  BY <1>1, <1>4 DEF DataOK, Queue
<1>9. Places(HoldsQueue, s) = {Here(t)} /\ ~Queued(s) /\ mq[s].release /\ ~ctx[s].alive
  <2>1. Places(HoldsQueue, s) = {Here(t)} /\ ~Queued(s)
    BY <1>1, <1>2, SoleHolder DEF HoldsQueue
  <2> QED BY <1>3, <1>7, <2>1 DEF QueueOK
<1>10. ASSUME NEW r \in Service, r # s  PROVE Untouched(r)
  <2>1. \A K : Places(K, r)' = Places(K, r)
    BY <1>3, <1>5, <1>10
  <2> QED BY <1>4, <1>8, <1>10, <2>1 DEF Untouched, Queued, Once
<1>11. DataOK'
  BY <1>1, <1>4, <1>8 DEF DataOK
<1>12. ServiceOK(s)'
  <2>1. PushHeld(s)'
    BY <1>6, <1>7, PushSame
  <2>2. RefOK(s)'
    BY <1>4, <1>6, <1>7, RefSame DEF HoldsRef
  <2>3. QueueOK(s)'
    <3>1. Places(HoldsQueue, s)' = {}
      BY <1>5, <1>9
    <3>2. Places({"drop"}, s)' = {}
      <4>1. Places({"drop"}, s) \subseteq Places(HoldsQueue, s)
        BY <1>1, Wider DEF HoldsQueue
      <4> QED BY <1>5, <1>9, <4>1
    <3>3. ~Queued(s)' /\ Once(s)' /\ ~Somewhere(s)'
      BY <1>4, <1>7, <1>9, <3>1 DEF Queued, Once, QueueOK, Somewhere
    <3>4. ctx'[s] = ctx[s]
      BY <1>4
    <3> QED BY <1>8, <1>9, <3>1, <3>2, <3>3, <3>4 DEF QueueOK
  <2>4. BornOK(s)'
    <3>1. Places({"new"}, s)' = Places({"new"}, s)
      BY <1>6 DEF Changed
    <3>2. ctx'[s] = ctx[s]
      BY <1>4
    <3> QED BY <1>7, <1>8, <3>1, <3>2 DEF BornOK
  <2>5. ReadyOK(s)'
    BY <1>4, <1>6, <1>7, ReadySame DEF Handles
  <2> QED BY <2>1, <2>2, <2>3, <2>4, <2>5 DEF ServiceOK
<1> QED BY <1>4, <1>5, <1>10, <1>11, <1>12, Assembled

-----------------------------------------------------------------------------
(* Workers.  One goes from a step about its service to the next and holds  *)
(* what it held.                                                           *)
Rounds == {"loop", "grab", "pop", "length", "run", "back"}

(* A worker goes on within a round: same service, the queue still in its   *)
(* hands.                                                                  *)
LEMMA Onward ==
    ASSUME IInv, NEW t \in Thread, NEW pc \in Rounds, At(t, pc), NEW s \in Service, s = Top(t).s,
           NEW x \in StepRecord, Do(t, <<x>>), x.s = s, x.pc \in Rounds,
           pc \in HoldsRef <=> x.pc \in HoldsRef,
           UNCHANGED <<slot, ctx, global, quit, sent>>, mq' \in [Service -> Queue],
           mq'[s].in_global = mq[s].in_global, mq'[s].release = mq[s].release,
           mq'[s].alive = mq[s].alive, \A r \in Service : r # s => mq'[r] = mq[r]
    PROVE  IInv'
<1>1. todo[t] # <<>> /\ Top(t).pc = pc /\ DataOK /\ StackOK /\ \A r \in Service : ServiceOK(r)
  BY Acting
<1>2. \A K, r : Here(t) \in Places(K, r) <=> s = r /\ pc \in K
  BY Acting
<1>3. StackOK' /\ \A K, r : Places(K, r)' = (Places(K, r) \ {Here(t)}) \cup NewAt(x, K, r, Here(t))
  BY <1>1, Effect1 DEF Bottom, Rounds
<1>4. Changed(Rounds, s)
  <2>1. ASSUME NEW K, K \cap Rounds = {}  PROVE Places(K, s)' = Places(K, s)
    <3>1. pc \notin K /\ x.pc \notin K
      BY <2>1
    <3> QED BY <1>2, <1>3, <3>1 DEF NewAt
  <2> QED BY <2>1 DEF Changed
<1>5. PushHeld(s) /\ RefOK(s) /\ QueueOK(s) /\ BornOK(s) /\ ReadyOK(s)
  BY <1>1 DEF ServiceOK
<1>6. ASSUME NEW r \in Service, r # s  PROVE Untouched(r)
  <2>1. ASSUME NEW K  PROVE Places(K, r)' = Places(K, r)
    <3>1. Here(t) \notin Places(K, r) /\ NewAt(x, K, r, Here(t)) = {}
      BY <1>2, <1>6 DEF NewAt
    <3> QED BY <1>3, <3>1
  <2> QED BY <1>6, <2>1 DEF Untouched, Queued, Once
<1>7. DataOK'
  BY <1>1 DEF DataOK
<1>8. /\ Places(HoldsQueue, s)' = Places(HoldsQueue, s)
      /\ Places(HoldsRef, s)' = Places(HoldsRef, s)
      /\ Places(Handles, s)' = Places(Handles, s)
  <2>1. pc \in HoldsQueue /\ x.pc \in HoldsQueue /\ (pc \in Handles <=> x.pc \in Handles)
    BY DEF HoldsQueue, HoldsRef, Handles, Rounds
  <2> QED BY <1>2, <1>3, <2>1 DEF NewAt
<1>9. /\ Places({"delete"}, s)' = Places({"delete"}, s) /\ Places({"drop"}, s)' = Places({"drop"}, s)
      /\ Places({"new"}, s)' = Places({"new"}, s)
      /\ Places({"init", "ready"}, s)' = Places({"init", "ready"}, s)
      /\ Places({"init"}, s)' = Places({"init"}, s)
      /\ Places({"ready"}, s)' = Places({"ready"}, s)
      /\ Places({"gpush"}, s)' = Places({"gpush"}, s)
      /\ Places({"mqrelease"}, s)' = Places({"mqrelease"}, s)
      /\ Places({"retire"}, s)' = Places({"retire"}, s)
  BY <1>4 DEF Changed, Rounds
<1>10. ServiceOK(s)'
  <2>1. PushHeld(s)'
    BY <1>4, <1>5, PushSame DEF Rounds
  <2>2. RefOK(s)'
    BY <1>5, <1>8, <1>9, RefFrame
  <2>3. QueueOK(s)'
    <3>1. (Queued(s)' <=> Queued(s)) /\ Once(s)'
      BY <1>5 DEF Queued, Once, QueueOK
    <3> QED BY <1>5, <1>8, <1>9, <3>1, QueueFrame
  <2>4. BornOK(s)'
    <3>1. ctx[s].ref # Unborn
      <4>1. pc \in HoldsQueue
        BY DEF Rounds, HoldsQueue
      <4> QED BY <1>5, <4>1, SoleHolder DEF BornOK
    <3> QED BY <1>4, <1>5, <3>1, BornSame DEF Rounds
  <2>5. ReadyOK(s)'
    BY <1>5, <1>8, <1>9, ReadyQuiet
  <2> QED BY <2>1, <2>2, <2>3, <2>4, <2>5 DEF ServiceOK
<1> QED BY <1>3, <1>6, <1>7, <1>10, Assembled

(* Between queues a worker has nothing in hand.                            *)
LEMMA EmptyHanded ==
    ASSUME IInv, NEW t \in Thread, NEW pc \in Unnamed, At(t, pc), Top(t).s = None,
           NEW k \in Unnamed, Do(t, <<Step(k, None)>>),
           UNCHANGED <<slot, ctx, mq, global, quit, sent>>
    PROVE  IInv'
<1>1. todo[t] # <<>> /\ Top(t).pc = pc /\ DataOK /\ StackOK /\ \A r \in Service : ServiceOK(r)
  BY Acting
<1> DEFINE x == Step(k, None)
<1>2. x \in StepRecord /\ x.pc = k /\ x.s = None /\ Do(t, <<x>>)
  BY UnnamedTypes
<1> HIDE DEF x
<1>3. StackOK' /\ \A K, r : Places(K, r)' = (Places(K, r) \ {Here(t)}) \cup NewAt(x, K, r, Here(t))
  BY <1>1, <1>2, Effect1 DEF Bottom, Unnamed
<1>4. ASSUME NEW r \in Service  PROVE Untouched(r)
  <2>1. r # None
    BY BootAssumption
  <2>2. ASSUME NEW K  PROVE Places(K, r)' = Places(K, r)
    <3>1. Here(t) \notin Places(K, r) /\ NewAt(x, K, r, Here(t)) = {}
      BY <1>2, <2>1, Acting DEF NewAt
    <3> QED BY <1>3, <3>1
  <2> QED BY <2>2 DEF Untouched, Queued, Once
<1>5. DataOK'
  BY <1>1 DEF DataOK
<1> QED BY <1>3, <1>4, <1>5, AssembledQuiet

(* The service whose queue a worker takes from the global queue.           *)
LEMMA TakenService ==
    ASSUME NEW s \in Service, ServiceOK(s), Queued(s), ~Queued(s)', Once(s)',
           Changed({"loop", "grab"}, s), NEW p, Places(HoldsQueue, s)' = Places(HoldsQueue, s) \cup {p},
           UNCHANGED <<slot, ctx, mq, quit>>
    PROVE  ServiceOK(s)'
<1>1. PushHeld(s) /\ RefOK(s) /\ QueueOK(s) /\ BornOK(s) /\ ReadyOK(s)
  BY DEF ServiceOK
<1>2. PushHeld(s)'
  BY <1>1, PushSame
<1>3. RefOK(s)'
  BY <1>1, RefSame DEF HoldsRef
<1>4. QueueOK(s)'
  <2>1. Places(HoldsQueue, s) = {} /\ mq[s].alive /\ (mq[s].in_global \/ mq[s].release)
    BY <1>1 DEF QueueOK, Somewhere
  <2>2. Places(HoldsQueue, s)' = {p} /\ Places({"drop"}, s)' = Places({"drop"}, s)
    BY <2>1 DEF Changed
  <2>3. Somewhere(s)'
    BY <2>2 DEF Somewhere
  <2> QED BY <1>1, <2>1, <2>2, <2>3 DEF QueueOK
<1>5. BornOK(s)'
  <2>1. Places({"new"}, s)' = Places({"new"}, s)
    BY DEF Changed
  <2> QED BY <1>1, <2>1, BornFrame
<1>6. ReadyOK(s)'
  BY <1>1, ReadySame DEF Handles
<1> QED BY <1>2, <1>3, <1>4, <1>5, <1>6 DEF ServiceOK

(* A worker takes the first queue of the global queue.                     *)
LEMMA TakenUp ==
    ASSUME IInv, NEW t \in Thread, NEW pc \in {"loop", "nextq"}, At(t, pc), Top(t).s = None,
           global # <<>>, global' = Tail(global),
           NEW k \in {"loop", "grab"}, Do(t, <<Step(k, Head(global))>>),
           UNCHANGED <<slot, ctx, mq, quit, sent>>
    PROVE  IInv'
<1>1. todo[t] # <<>> /\ Top(t).pc = pc /\ DataOK /\ StackOK /\ \A r \in Service : ServiceOK(r)
  BY Acting
<1>2. \A r \in Service : Once(r)
  BY <1>1 DEF ServiceOK, QueueOK
<1>3. global \in Seq(Service)
  BY <1>1 DEF DataOK
<1>4. PICK s \in Service : s = Head(global) /\ Queued(s)
  <2>1. Head(global) \in Service
    BY <1>3
  <2> QED BY <1>2, <1>3, <2>1, Taken
<1>5. /\ global' \in Seq(Service) /\ ~Queued(s)' /\ Once(s)'
      /\ \A r \in Service : r # s => (Queued(r)' <=> Queued(r)) /\ Once(r)'
  BY <1>2, <1>3, <1>4, Taken
<1> DEFINE x == Step(k, s)
<1>6. x \in StepRecord /\ x.pc = k /\ x.s = s /\ Do(t, <<x>>)
  BY <1>4, StepTypes DEF Plain
<1> HIDE DEF x
<1>7. StackOK' /\ \A K, r : Places(K, r)' = (Places(K, r) \ {Here(t)}) \cup NewAt(x, K, r, Here(t))
  BY <1>1, <1>6, Effect1 DEF Bottom
<1>8. \A K : \A r \in Service : Here(t) \notin Places(K, r)
  <2>1. \A r \in Service : r # None
    BY BootAssumption
  <2> QED BY <2>1, Acting
<1>9. ASSUME NEW K, NEW r \in Service
      PROVE  /\ r # s \/ k \notin K => Places(K, r)' = Places(K, r)
             /\ r = s /\ k \in K => Places(K, r)' = Places(K, r) \cup {Here(t)}
  <2>1. Here(t) \notin Places(K, r)
        /\ NewAt(x, K, r, Here(t)) = IF r = s /\ k \in K THEN {Here(t)} ELSE {}
    BY <1>6, <1>8 DEF NewAt
  <2> QED BY <1>7, <2>1
<1>10. Changed({"loop", "grab"}, s)
  <2>1. ASSUME NEW K, K \cap {"loop", "grab"} = {}  PROVE Places(K, s)' = Places(K, s)
    <3>1. k \notin K
      BY <2>1
    <3> QED BY <1>9, <3>1
  <2> QED BY <2>1 DEF Changed
<1>11. ASSUME NEW r \in Service, r # s  PROVE Untouched(r)
  <2>1. \A K : Places(K, r)' = Places(K, r)
    BY <1>9, <1>11
  <2> QED BY <1>5, <1>11, <2>1 DEF Untouched
<1>12. DataOK'
  BY <1>1, <1>5 DEF DataOK
<1>13. ServiceOK(s)'
  <2>1. Places(HoldsQueue, s)' = Places(HoldsQueue, s) \cup {Here(t)}
    BY <1>9 DEF HoldsQueue
  <2> QED BY <1>1, <1>4, <1>5, <1>10, <2>1, TakenService
<1> QED BY <1>7, <1>11, <1>12, <1>13, Assembled

(* The beginning of a worker's round.                                      *)
LEMMA LoopStep ==
    ASSUME IInv, NEW t \in Thread, Loop(t)
    PROVE  IInv'
<1>1. At(t, "loop") /\ todo[t] # <<>> /\ Top(t).pc = "loop" /\ DataOK /\ StackOK
      /\ \A r \in Service : ServiceOK(r)
  BY Acting DEF Loop
<1>2. PICK s \in Service \cup {None} : s = Top(t).s
  BY <1>1, Acting, FieldTypes
<1>3. UNCHANGED <<slot, ctx, mq, quit, sent>>
  BY DEF Loop
<1>4. CASE quit /\ Do(t, <<>>) /\ global' = global
  <2>1. StackOK' /\ \A K, r : Places(K, r)' = Places(K, r) \ {Here(t)}
    BY <1>1, <1>4, Effect0
  <2>2. \A K, r : Here(t) \in Places(K, r) <=> s = r /\ "loop" \in K
    BY <1>1, <1>2, Acting
  <2>3. ASSUME NEW r \in Service, r # s  PROVE Untouched(r)
    <3>1. \A K : Places(K, r)' = Places(K, r)
      BY <2>1, <2>2, <2>3
    <3> QED BY <1>3, <1>4, <3>1 DEF Untouched, Queued, Once
  <2>4. DataOK'
    BY <1>1, <1>3, <1>4 DEF DataOK
  <2>5. CASE s = None
    <3>1. \A r \in Service : Untouched(r)
      BY <2>3, <2>5, BootAssumption
    <3> QED BY <1>3, <2>1, <2>4, <3>1, AssembledQuiet
  <2>6. CASE s \in Service
    <3>1. PushHeld(s) /\ RefOK(s) /\ QueueOK(s) /\ BornOK(s) /\ ReadyOK(s)
      BY <1>1, <2>6 DEF ServiceOK
    <3>2. Changed({"loop"}, s)
      BY <2>1, <2>2 DEF Changed
    <3>3. PushHeld(s)'
      BY <2>6, <3>1, <3>2, PushSame
    <3>4. RefOK(s)'
      BY <1>3, <2>6, <3>1, <3>2, RefSame DEF HoldsRef
    <3>5. QueueOK(s)'
      <4>1. Places(HoldsQueue, s) = {Here(t)} /\ ~Queued(s)
        BY <1>1, <1>2, <2>6, SoleHolder DEF HoldsQueue
      <4>2. Places(HoldsQueue, s)' = {} /\ Places({"drop"}, s)' = Places({"drop"}, s)
        BY <2>1, <3>2, <4>1 DEF Changed
      <4>3. ~Queued(s)' /\ Once(s)' /\ ~Somewhere(s)'
        BY <1>4, <3>1, <4>1, <4>2 DEF Queued, Once, QueueOK, Somewhere
      <4> QED BY <1>3, <1>4, <3>1, <4>2, <4>3 DEF QueueOK
    <3>6. BornOK(s)'
      <4>1. Places({"new"}, s)' = Places({"new"}, s)
        BY <3>2 DEF Changed
      <4> QED BY <1>3, <2>6, <3>1, <4>1, BornFrame
    <3>7. ReadyOK(s)'
      BY <1>3, <2>6, <3>1, <3>2, ReadySame DEF Handles
    <3>8. ServiceOK(s)'
      BY <3>3, <3>4, <3>5, <3>6, <3>7 DEF ServiceOK
    <3> QED BY <1>3, <2>1, <2>3, <2>4, <2>6, <3>8, Assembled
  <2> QED BY <2>5, <2>6
<1>5. CASE s # None /\ Do(t, <<Step("grab", s)>>) /\ global' = global
  <2>1. s \in Service
    BY <1>5
  <2>2. Step("grab", s) \in StepRecord /\ Step("grab", s).pc = "grab" /\ Step("grab", s).s = s
    BY <2>1, StepTypes DEF Plain
  <2>3. mq' \in [Service -> Queue] /\ UNCHANGED <<slot, ctx, global, quit, sent>> /\ mq' = mq
    BY <1>1, <1>3, <1>5 DEF DataOK
  <2> DEFINE x == Step("grab", s)
  <2> HIDE DEF x
  <2>5. x \in StepRecord /\ x.pc = "grab" /\ x.s = s /\ Do(t, <<x>>)
    BY <1>5, <2>2 DEF x
  <2>6. "loop" \in HoldsRef <=> x.pc \in HoldsRef
    BY <2>5 DEF HoldsRef
  <2>7. x.pc \in Rounds /\ "loop" \in Rounds
    BY <2>5 DEF Rounds
  <2> QED BY <1>1, <1>2, <2>1, <2>3, <2>5, <2>6, <2>7, Onward
<1>6. CASE s = None /\ global = <<>> /\ global' = <<>> /\ Do(t, <<Step("sleep", None)>>)
  <2>1. global' = global
    BY <1>6
  <2> QED BY <1>1, <1>2, <1>3, <1>6, <2>1, EmptyHanded DEF Unnamed
<1>7. CASE s = None /\ global # <<>> /\ global' = Tail(global) /\ Do(t, <<Step("grab", Head(global))>>)
  BY <1>1, <1>2, <1>3, <1>7, TakenUp
<1> QED BY <1>2, <1>4, <1>5, <1>6, <1>7 DEF Loop, PopGlobal

(* A worker that has given its queue away takes another one.               *)
LEMMA NextQStep ==
    ASSUME IInv, NEW t \in Thread, NextQ(t)
    PROVE  IInv'
<1>1. At(t, "nextq") /\ Top(t) \in StepRecord /\ Top(t).pc = "nextq"
  BY Acting DEF NextQ
<1>2. Top(t).s = None
  BY <1>1 DEF StepRecord, WithMessage, Plain
<1>3. UNCHANGED <<slot, ctx, mq, quit, sent>>
  BY DEF NextQ
<1>4. CASE global = <<>>
  <2>1. global' = global /\ Do(t, <<Step("sleep", None)>>)
    BY <1>4 DEF NextQ, NextQueue, PopGlobal
  <2> QED BY <1>1, <1>2, <1>3, <2>1, EmptyHanded DEF Unnamed
<1>5. CASE global # <<>>
  <2>1. global' = Tail(global) /\ Do(t, <<Step("loop", Head(global))>>)
    BY <1>5 DEF NextQ, NextQueue, PopGlobal
  <2> QED BY <1>1, <1>2, <1>3, <1>5, <2>1, TakenUp
<1> QED BY <1>4, <1>5

(* A worker waits on the condition.                                        *)
LEMMA SleepStep ==
    ASSUME IInv, NEW t \in Thread, Sleep(t)
    PROVE  IInv'
<1>1. At(t, "sleep") /\ Top(t) \in StepRecord /\ Top(t).pc = "sleep"
  BY Acting DEF Sleep
<1>2. Top(t).s = None
  BY <1>1 DEF StepRecord, WithMessage, Plain
<1>3. UNCHANGED <<slot, ctx, mq, global, quit, sent>>
  BY DEF Sleep
<1>4. PICK k \in Unnamed : Do(t, <<Step(k, None)>>)
  BY DEF Sleep, Unnamed
<1> QED BY <1>1, <1>2, <1>3, <1>4, EmptyHanded DEF Unnamed

(* It has been woken.                                                      *)
LEMMA WokenStep ==
    ASSUME IInv, NEW t \in Thread, Woken(t)
    PROVE  IInv'
<1>1. At(t, "woken") /\ Top(t) \in StepRecord /\ Top(t).pc = "woken"
  BY Acting DEF Woken
<1>2. Top(t).s = None
  BY <1>1 DEF StepRecord, WithMessage, Plain
<1>3. UNCHANGED <<slot, ctx, mq, global, quit, sent>> /\ Do(t, <<Step("loop", None)>>)
  BY DEF Woken
<1> QED BY <1>1, <1>2, <1>3, EmptyHanded DEF Unnamed

(* A worker that holds the queue of a service it finds handles it; one     *)
(* that does not find it gives the queue up.                               *)
LEMMA GrabStep ==
    ASSUME IInv, NEW t \in Thread, Grab(t)
    PROVE  IInv'
<1>1. At(t, "grab") /\ todo[t] # <<>> /\ Top(t).pc = "grab" /\ DataOK /\ StackOK
      /\ \A r \in Service : ServiceOK(r)
  BY Acting DEF Grab
<1>2. PICK s \in Service : s = Top(t).s
  BY <1>1, Acting, FieldTypes DEF Plain
<1>3. /\ \A K, r : Here(t) \in Places(K, r) <=> s = r /\ "grab" \in K
      /\ \A K, r : Above(t) \notin Places(K, r)
      /\ Here(t) # Above(t)
  BY <1>1, <1>2, Acting
<1>4. UNCHANGED <<slot, mq, global, quit, sent>>
  BY DEF Grab
<1>5. PushHeld(s) /\ RefOK(s) /\ QueueOK(s) /\ BornOK(s) /\ ReadyOK(s)
  BY <1>1 DEF ServiceOK
<1>6. /\ Places(HoldsQueue, s) = {Here(t)} /\ ~Queued(s) /\ mq[s].alive
      /\ Places({"drop"}, s) = {} /\ (s \in slot => ctx[s].init)
  <2>1. "grab" \in HoldsQueue /\ {"drop"} \subseteq HoldsQueue
        /\ "grab" \notin {"drop"} /\ "grab" # "init"
    BY DEF HoldsQueue
  <2> QED BY <1>1, <1>2, <2>1, SoleHolder
<1>7. (Queued(s)' <=> Queued(s)) /\ Once(s)'
  BY <1>4, <1>5 DEF Queued, Once, QueueOK
<1>8. CASE s \in slot
  <2> DEFINE x == StepMsg("pop", s, None, -1)
  <2>1. ctx' = [ctx EXCEPT ![s].ref = ctx[s].ref + 1] /\ Do(t, <<x>>)
    BY <1>2, <1>8 DEF Grab
  <2>2. x \in StepRecord /\ x.pc = "pop" /\ x.s = s
    BY StepTypes
  <2> HIDE DEF x
  <2>3. StackOK' /\ \A K, r : Places(K, r)' = (Places(K, r) \ {Here(t)}) \cup NewAt(x, K, r, Here(t))
    BY <1>1, <2>1, <2>2, Effect1 DEF Bottom
  <2>4. Changed({"grab", "pop"}, s)
    BY <1>3, <2>2, <2>3 DEF NewAt, Changed
  <2>5. /\ ctx[s].alive /\ ctx[s].ref \in Nat /\ ctx[s].ref # Unborn /\ ctx[s].ref + 1 \in Nat
        /\ ctx[s].ref + 1 # 0 /\ ctx[s].ref + 1 # Unborn
        /\ IsFiniteSet(Places(HoldsRef, s)) /\ Cardinality(Places(HoldsRef, s)) \in Nat
        /\ ctx[s].ref = Cardinality(Places(HoldsRef, s)) + InSlot(s) /\ InSlot(s) \in {0, 1}
        /\ Places({"delete"}, s) = {}
    BY <1>1, <1>8, Held DEF Unborn
  <2>6. /\ ctx' \in [Service -> Context] /\ ctx'[s].ref = ctx[s].ref + 1
        /\ ctx'[s].init = ctx[s].init /\ ctx'[s].alive = ctx[s].alive
        /\ \A r \in Service : r # s => ctx'[r] = ctx[r]
    <3>1. ctx[s].ref + 1 \in Nat \cup {Unborn}
      BY <2>5
    <3> QED BY <1>1, <2>1, <3>1, CtxRef
  <2>7. ASSUME NEW r \in Service, r # s  PROVE Untouched(r)
    <3>1. \A K : Places(K, r)' = Places(K, r)
      BY <1>3, <2>2, <2>3, <2>7 DEF NewAt
    <3> QED BY <1>4, <2>6, <2>7, <3>1 DEF Untouched, Queued, Once
  <2>8. DataOK'
    BY <1>1, <1>4, <2>6 DEF DataOK
  <2>9. ServiceOK(s)'
    <3>1. PushHeld(s)'
      BY <1>5, <2>4, PushSame
    <3>2. RefOK(s)'
      <4>1. Places(HoldsRef, s)' = Places(HoldsRef, s) \cup {Here(t)} /\ Here(t) \notin Places(HoldsRef, s)
        BY <1>3, <2>2, <2>3 DEF HoldsRef, NewAt
      <4>2. /\ IsFiniteSet(Places(HoldsRef, s)')
            /\ Cardinality(Places(HoldsRef, s)') = Cardinality(Places(HoldsRef, s)) + 1
        BY <2>5, <4>1, FS_AddElement
      <4>3. Places({"delete"}, s)' = {}
        BY <2>4, <2>5 DEF Changed
      <4>4. InSlot(s)' = InSlot(s)
        BY <1>4 DEF InSlot
      <4> QED BY <2>5, <2>6, <4>2, <4>3, <4>4 DEF RefOK
    <3>3. QueueOK(s)'
      <4>1. Places(HoldsQueue, s)' = Places(HoldsQueue, s)
        BY <1>3, <2>2, <2>3 DEF HoldsQueue, NewAt
      <4>2. Places({"drop"}, s)' = Places({"drop"}, s)
        BY <2>4 DEF Changed
      <4> QED BY <1>4, <1>5, <1>7, <2>6, <4>1, <4>2, QueueFrame
    <3>4. BornOK(s)'
      BY <1>5, <2>4, <2>5, <2>6, BornSame
    <3>5. ReadyOK(s)'
      <4>1. /\ Places({"init", "ready"}, s)' = Places({"init", "ready"}, s)
            /\ Places({"ready"}, s)' = Places({"ready"}, s)
            /\ Places({"gpush"}, s)' = Places({"gpush"}, s)
        BY <2>4 DEF Changed
      <4> QED BY <1>5, <1>6, <1>8, <2>6, <4>1 DEF ReadyOK
    <3> QED BY <3>1, <3>2, <3>3, <3>4, <3>5 DEF ServiceOK
  <2> QED BY <1>4, <2>3, <2>7, <2>8, <2>9, Assembled
<1>9. CASE s \notin slot
  <2> DEFINE x == Step("mqrelease", s)
             y == Step("nextq", None)
  <2>1. ctx' = ctx /\ Do(t, <<x, y>>)
    BY <1>2, <1>9 DEF Grab
  <2>2. /\ x \in StepRecord /\ x.pc = "mqrelease" /\ x.s = s
        /\ y \in StepRecord /\ y.pc = "nextq" /\ y.s = None
    BY StepTypes, UnnamedTypes DEF Plain, Unnamed
  <2> HIDE DEF x, y
  <2>3. StackOK' /\ \A K, r : Places(K, r)' = (Places(K, r) \ {Here(t)})
                                  \cup NewAt(x, K, r, Above(t)) \cup NewAt(y, K, r, Here(t))
    BY <1>1, <2>1, <2>2, Effect2 DEF Bottom
  <2>4. \A K : \A r \in Service : Places(K, r)' = (Places(K, r) \ {Here(t)}) \cup NewAt(x, K, r, Above(t))
    <3>1. \A r \in Service : r # None
      BY BootAssumption
    <3> QED BY <2>2, <2>3, <3>1 DEF NewAt
  <2>5. Changed({"grab", "mqrelease"}, s)
    <3>1. ASSUME NEW K, K \cap {"grab", "mqrelease"} = {}  PROVE Places(K, s)' = Places(K, s)
      <4>1. Here(t) \notin Places(K, s) /\ NewAt(x, K, s, Above(t)) = {}
        BY <1>3, <2>2, <3>1 DEF NewAt
      <4> QED BY <2>4, <4>1
    <3> QED BY <3>1 DEF Changed
  <2>6. ASSUME NEW r \in Service, r # s  PROVE Untouched(r)
    <3>1. ASSUME NEW K  PROVE Places(K, r)' = Places(K, r)
      <4>1. Here(t) \notin Places(K, r) /\ NewAt(x, K, r, Above(t)) = {}
        BY <1>3, <2>2, <2>6 DEF NewAt
      <4> QED BY <2>4, <4>1
    <3> QED BY <1>4, <2>1, <3>1 DEF Untouched, Queued, Once
  <2>7. DataOK'
    BY <1>1, <1>4, <2>1 DEF DataOK
  <2>8. ServiceOK(s)'
    <3>1. PushHeld(s)'
      BY <1>5, <2>5, PushSame
    <3>2. RefOK(s)'
      BY <1>4, <1>5, <2>1, <2>5, RefSame DEF HoldsRef
    <3>3. QueueOK(s)'
      <4>1. Places(HoldsQueue, s)' = {Above(t)}
        BY <1>6, <2>2, <2>4 DEF HoldsQueue, NewAt
      <4>2. Places({"drop"}, s)' = {}
        BY <1>6, <2>5 DEF Changed
      <4>3. Somewhere(s)' /\ Somewhere(s)
        BY <1>6, <4>1 DEF Somewhere
      <4> QED BY <1>4, <1>5, <1>6, <1>7, <2>1, <4>1, <4>2, <4>3 DEF QueueOK
    <3>4. BornOK(s)'
      <4>1. Places({"new"}, s)' = Places({"new"}, s)
        BY <2>5 DEF Changed
      <4> QED BY <1>4, <1>5, <2>1, <4>1, BornFrame
    <3>5. ReadyOK(s)'
      <4>1. /\ Places({"init", "ready"}, s)' = Places({"init", "ready"}, s)
            /\ Places({"ready"}, s)' = Places({"ready"}, s)
            /\ Places({"gpush"}, s)' = Places({"gpush"}, s)
        BY <2>5 DEF Changed
      <4>2. Places(Handles, s)' = Places(Handles, s)
        BY <2>5 DEF Changed, Handles
      <4> QED BY <1>4, <1>5, <1>9, <2>1, <4>1, <4>2, ReadyFrame
    <3> QED BY <3>1, <3>2, <3>3, <3>4, <3>5 DEF ServiceOK
  <2> QED BY <1>4, <2>3, <2>6, <2>7, <2>8, Assembled
<1> QED BY <1>8, <1>9

(* An empty queue is forgotten: nobody has it any more.                    *)
LEMMA PopEmptyStep ==
    ASSUME IInv, NEW t \in Thread, PopEmpty(t)
    PROVE  IInv'
<1>1. At(t, "pop") /\ todo[t] # <<>> /\ Top(t).pc = "pop" /\ DataOK /\ StackOK
      /\ \A r \in Service : ServiceOK(r)
  BY Acting DEF PopEmpty
<1>2. PICK s \in Service : s = Top(t).s
  BY <1>1, Acting, FieldTypes
<1>3. /\ \A K, r : Here(t) \in Places(K, r) <=> s = r /\ "pop" \in K
      /\ \A K, r : Above(t) \notin Places(K, r)
      /\ Here(t) # Above(t)
  BY <1>1, <1>2, Acting
<1> DEFINE x == Step("release", s)
           y == Step("nextq", None)
<1>4. /\ UNCHANGED <<slot, ctx, global, quit, sent>> /\ Do(t, <<x, y>>)
      /\ mq' = [mq EXCEPT ![s].in_global = FALSE]
  BY <1>2 DEF PopEmpty, MqPopEmpty
<1>5. /\ x \in StepRecord /\ x.pc = "release" /\ x.s = s
      /\ y \in StepRecord /\ y.pc = "nextq" /\ y.s = None
  BY StepTypes, UnnamedTypes DEF Plain, Unnamed
<1> HIDE DEF x, y
<1>6. StackOK' /\ \A K, r : Places(K, r)' = (Places(K, r) \ {Here(t)})
                                  \cup NewAt(x, K, r, Above(t)) \cup NewAt(y, K, r, Here(t))
  BY <1>1, <1>4, <1>5, Effect2 DEF Bottom
<1>7. \A K : \A r \in Service : Places(K, r)' = (Places(K, r) \ {Here(t)}) \cup NewAt(x, K, r, Above(t))
  <2>1. \A r \in Service : r # None
    BY BootAssumption
  <2> QED BY <1>5, <1>6, <2>1 DEF NewAt
<1>8. Changed({"pop", "release"}, s)
  BY <1>3, <1>5, <1>7 DEF NewAt, Changed
<1>9. PushHeld(s) /\ RefOK(s) /\ QueueOK(s) /\ BornOK(s) /\ ReadyOK(s)
  BY <1>1 DEF ServiceOK
<1>10. /\ mq' \in [Service -> Queue] /\ \A r \in Service : r # s => mq'[r] = mq[r]
       /\ ~mq'[s].in_global /\ mq'[s].release = mq[s].release /\ mq'[s].alive = mq[s].alive
  BY <1>1, <1>4 DEF DataOK, Queue
<1>11. /\ Places(HoldsQueue, s) = {Here(t)} /\ ~Queued(s) /\ mq[s].alive
       /\ Places({"drop"}, s) = {}
  <2>1. "pop" \in HoldsQueue /\ {"drop"} \subseteq HoldsQueue /\ "pop" \notin {"drop"}
    BY DEF HoldsQueue
  <2> QED BY <1>1, <1>2, <2>1, SoleHolder
<1>12. Here(t) \in Places(HoldsRef, s) /\ Above(t) \notin Places(HoldsRef, s)
  BY <1>3 DEF HoldsRef
<1>13. ctx[s].alive /\ ~mq[s].release /\ ctx[s].ref # Unborn
  BY <1>1, <1>12, Held
<1>14. ASSUME NEW r \in Service, r # s  PROVE Untouched(r)
  <2>1. \A K : Places(K, r)' = Places(K, r)
    BY <1>3, <1>5, <1>7, <1>14 DEF NewAt
  <2> QED BY <1>4, <1>10, <1>14, <2>1 DEF Untouched, Queued, Once
<1>15. DataOK'
  BY <1>1, <1>4, <1>10 DEF DataOK
<1>16. ServiceOK(s)'
  <2>1. PushHeld(s)'
    <3>1. Places({"push"}, s)' = Places({"push"}, s)
          /\ Places({"release"}, s) \in SUBSET Places({"release"}, s)'
      BY <1>3, <1>5, <1>7 DEF NewAt
    <3> QED BY <1>9, <3>1, PushFrame
  <2>2. RefOK(s)'
    <3>1. Places(HoldsRef, s)' = (Places(HoldsRef, s) \ {Here(t)}) \cup {Above(t)}
      BY <1>5, <1>7 DEF HoldsRef, NewAt
    <3>2. IsFiniteSet(Places(HoldsRef, s))
      BY <1>9 DEF RefOK
    <3>3. /\ IsFiniteSet(Places(HoldsRef, s)')
          /\ Cardinality(Places(HoldsRef, s)') = Cardinality(Places(HoldsRef, s))
      BY <1>12, <3>1, <3>2, Moved
    <3>4. Places({"delete"}, s)' = Places({"delete"}, s)
      BY <1>8 DEF Changed
    <3>5. InSlot(s)' = InSlot(s) /\ ctx'[s] = ctx[s]
      BY <1>4 DEF InSlot
    <3> QED BY <1>9, <1>13, <3>3, <3>4, <3>5, Zenon DEF RefOK
  <2>3. QueueOK(s)'
    <3>1. Places(HoldsQueue, s)' = {}
      BY <1>5, <1>7, <1>11 DEF HoldsQueue, NewAt
    <3>2. Places({"drop"}, s)' = {}
      BY <1>8, <1>11 DEF Changed
    <3>3. ~Queued(s)' /\ Once(s)' /\ ~Somewhere(s)'
      BY <1>4, <1>9, <1>11, <3>1 DEF Queued, Once, QueueOK, Somewhere
    <3> QED BY <1>4, <1>10, <1>11, <1>13, <3>1, <3>2, <3>3 DEF QueueOK
  <2>4. BornOK(s)'
    BY <1>4, <1>8, <1>9, <1>13, BornSame
  <2>5. ReadyOK(s)'
    <3>1. /\ Places({"init", "ready"}, s)' = Places({"init", "ready"}, s)
          /\ Places({"init"}, s)' = Places({"init"}, s)
          /\ Places({"ready"}, s)' = Places({"ready"}, s)
          /\ Places({"gpush"}, s)' = Places({"gpush"}, s)
          /\ Places({"mqrelease"}, s)' = Places({"mqrelease"}, s)
          /\ Places({"retire"}, s)' = Places({"retire"}, s)
      BY <1>8 DEF Changed
    <3>2. Places(Handles, s)' \in SUBSET Places(Handles, s)
      BY <1>5, <1>7 DEF Handles, NewAt
    <3> QED BY <1>4, <1>9, <3>1, <3>2, ReadyQuiet
  <2> QED BY <2>1, <2>2, <2>3, <2>4, <2>5 DEF ServiceOK
<1> QED BY <1>4, <1>6, <1>14, <1>15, <1>16, Assembled

(* skynet_mq_pop finds a message.                                          *)
LEMMA PopStep ==
    ASSUME IInv, NEW t \in Thread, Pop(t)
    PROVE  IInv'
<1>1. At(t, "pop") /\ Top(t) \in StepRecord /\ Top(t).pc = "pop" /\ DataOK
  BY Acting DEF Pop
<1>2. PICK s \in Service : s = Top(t).s /\ Top(t).n \in Int
  BY <1>1, FieldTypes
<1>3. /\ UNCHANGED <<slot, ctx, global, quit, sent>> /\ mq[s].msgs # <<>>
      /\ mq' = [mq EXCEPT ![s].msgs = Tail(mq[s].msgs)]
  BY <1>2 DEF Pop, MqPop
<1>4. Head(mq[s].msgs) \in Msg /\ Tail(mq[s].msgs) \in Seq(Msg)
  <2>1. mq[s].msgs \in Seq(Msg)
    BY <1>1 DEF DataOK, Queue
  <2> QED BY <1>3, <2>1
<1>5. /\ mq' \in [Service -> Queue] /\ \A r \in Service : r # s => mq'[r] = mq[r]
      /\ mq'[s].in_global = mq[s].in_global /\ mq'[s].release = mq[s].release
      /\ mq'[s].alive = mq[s].alive
  BY <1>1, <1>3, <1>4 DEF DataOK, Queue
<1>6. PICK m \in Msg : m = Head(mq[s].msgs)
  BY <1>4
<1>7. \E x \in StepRecord : x.s = s /\ x.pc \in {"length", "run"} /\ Do(t, <<x>>)
  <2> DEFINE n == IF Top(t).n = -1 THEN 0 ELSE Top(t).n
             x == StepMsg("length", s, m, 0)
             y == StepMsg("run", s, m, n)
  <2>1. /\ x \in StepRecord /\ x.s = s /\ x.pc = "length"
        /\ y \in StepRecord /\ y.s = s /\ y.pc = "run"
    <3>1. n \in Int
      BY <1>2
    <3> HIDE DEF n
    <3> QED BY <3>1, StepTypes DEF WithMessage
  <2>2. Do(t, <<x>>) \/ Do(t, <<y>>)
    BY <1>2, <1>6 DEF Pop
  <2> HIDE DEF x, y
  <2> QED BY <2>1, <2>2
<1>8. PICK x \in StepRecord : x.s = s /\ x.pc \in {"length", "run"} /\ Do(t, <<x>>)
  BY <1>7
<1>9. x.pc \in Rounds /\ "pop" \in Rounds /\ ("pop" \in HoldsRef <=> x.pc \in HoldsRef)
  BY <1>8 DEF Rounds, HoldsRef
<1> QED BY <1>1, <1>2, <1>3, <1>5, <1>8, <1>9, Onward

(* skynet_mq_length, with the weight of the worker.                        *)
LEMMA LengthStep ==
    ASSUME IInv, NEW t \in Thread, Length(t)
    PROVE  IInv'
<1>1. At(t, "length") /\ Top(t) \in StepRecord /\ Top(t).pc = "length" /\ DataOK
  BY Acting DEF Length
<1>2. PICK s \in Service : s = Top(t).s /\ Top(t).m \in Msg
  BY <1>1, FieldTypes DEF WithMessage
<1>3. UNCHANGED <<slot, ctx, mq, global, quit, sent>> /\ mq' \in [Service -> Queue]
  BY <1>1 DEF Length, DataOK
<1>4. Shifted(Len(mq[s].msgs), Weight[t]) \in Int
  <2>1. Len(mq[s].msgs) \in Nat
    BY <1>1 DEF DataOK, Queue
  <2> QED BY <2>1 DEF Shifted
<1>5. PICK n \in Int : n = Shifted(Len(mq[s].msgs), Weight[t])
  BY <1>4
<1> DEFINE k == IF n = 0 THEN 0 ELSE n - 1
           x == StepMsg("run", s, Top(t).m, k)
<1>6. Do(t, <<x>>)
  BY <1>2, <1>5 DEF Length
<1>7. x \in StepRecord /\ x.pc = "run" /\ x.s = s
  <2>1. k \in Int
    OBVIOUS
  <2> HIDE DEF k
  <2> QED BY <1>2, <2>1, StepTypes DEF WithMessage
<1> HIDE DEF x
<1>8. x.pc \in Rounds /\ "length" \in Rounds /\ ("length" \in HoldsRef <=> x.pc \in HoldsRef)
  BY <1>7 DEF Rounds, HoldsRef
<1> QED BY <1>1, <1>2, <1>3, <1>6, <1>7, <1>8, Onward

(* The callback of the service returns.                                    *)
LEMMA RunDoneStep ==
    ASSUME IInv, NEW t \in Thread, RunDone(t)
    PROVE  IInv'
<1>1. At(t, "run") /\ Top(t) \in StepRecord /\ Top(t).pc = "run" /\ DataOK
  BY Acting DEF RunDone
<1>2. PICK s \in Service : s = Top(t).s /\ Top(t).n \in Int
  BY <1>1, FieldTypes DEF WithMessage
<1>3. UNCHANGED <<slot, ctx, mq, global, quit, sent>> /\ mq' \in [Service -> Queue]
  BY <1>1 DEF RunDone, DataOK
<1>4. \E x \in StepRecord : x.s = s /\ x.pc \in {"pop", "back"} /\ Do(t, <<x>>)
  <2> DEFINE x == StepMsg("pop", s, None, Top(t).n - 1)
             y == Step("back", s)
  <2>1. /\ x \in StepRecord /\ x.s = s /\ x.pc = "pop"
        /\ y \in StepRecord /\ y.s = s /\ y.pc = "back"
    BY <1>2, StepTypes DEF Plain
  <2>2. Do(t, <<x>>) \/ Do(t, <<y>>)
    BY <1>2 DEF RunDone
  <2> HIDE DEF x, y
  <2> QED BY <2>1, <2>2
<1>5. PICK x \in StepRecord : x.s = s /\ x.pc \in {"pop", "back"} /\ Do(t, <<x>>)
  BY <1>4
<1>6. x.pc \in Rounds /\ "run" \in Rounds /\ ("run" \in HoldsRef <=> x.pc \in HoldsRef)
  BY <1>5 DEF Rounds, HoldsRef
<1> QED BY <1>1, <1>2, <1>3, <1>5, <1>6, Onward

(* A round is over: the reference is given back, and the queue too unless  *)
(* it is the only one.                                                     *)
LEMMA BackStep ==
    ASSUME IInv, NEW t \in Thread, Back(t)
    PROVE  IInv'
<1>1. At(t, "back") /\ todo[t] # <<>> /\ Top(t).pc = "back" /\ DataOK /\ StackOK
      /\ \A r \in Service : ServiceOK(r)
  BY Acting DEF Back
<1>2. PICK s \in Service : s = Top(t).s
  BY <1>1, Acting, FieldTypes DEF Plain
<1>3. /\ \A K, r : Here(t) \in Places(K, r) <=> s = r /\ "back" \in K
      /\ \A K, r : Above(t) \notin Places(K, r) /\ Above2(t) \notin Places(K, r)
      /\ Here(t) # Above(t) /\ Here(t) # Above2(t) /\ Above(t) # Above2(t)
  BY <1>1, <1>2, Acting
<1>4. UNCHANGED <<slot, ctx, mq, quit, sent>>
  BY DEF Back
<1>5. PushHeld(s) /\ RefOK(s) /\ QueueOK(s) /\ BornOK(s) /\ ReadyOK(s)
  BY <1>1 DEF ServiceOK
<1>6. /\ Places(HoldsQueue, s) = {Here(t)} /\ ~Queued(s) /\ mq[s].alive
      /\ (mq[s].in_global \/ mq[s].release) /\ Places({"drop"}, s) = {}
      /\ (s \in slot => ctx[s].init)
  <2>1. "back" \in HoldsQueue /\ {"drop"} \subseteq HoldsQueue
        /\ "back" \notin {"drop"} /\ "back" # "init"
    BY DEF HoldsQueue
  <2> QED BY <1>1, <1>2, <2>1, SoleHolder
<1>7. Here(t) \in Places(HoldsRef, s) /\ Above(t) \notin Places(HoldsRef, s)
  BY <1>3 DEF HoldsRef
(* What both cases have in common, about the service.                      *)
<1>8. ASSUME Changed({"back", "release", "loop", "gpush"}, s),
             Places({"release"}, s) \in SUBSET Places({"release"}, s)',
             Places({"gpush"}, s) \in SUBSET Places({"gpush"}, s)',
             Places(HoldsRef, s)' = (Places(HoldsRef, s) \ {Here(t)}) \cup {Above(t)},
             Places(Handles, s)' \in SUBSET Places(Handles, s),
             NEW p, Places(HoldsQueue, s)' = {p}, ~Queued(s)', Once(s)'
      PROVE  ServiceOK(s)'
  <2>1. /\ Places({"push"}, s)' = Places({"push"}, s) /\ Places({"delete"}, s)' = Places({"delete"}, s)
        /\ Places({"drop"}, s)' = {} /\ Places({"new"}, s)' = Places({"new"}, s)
        /\ Places({"init", "ready"}, s)' = Places({"init", "ready"}, s)
        /\ Places({"ready"}, s)' = Places({"ready"}, s)
    BY <1>6, <1>8 DEF Changed
  <2>2. PushHeld(s)'
    BY <1>5, <1>8, <2>1, PushFrame
  <2>3. RefOK(s)'
    <3>1. IsFiniteSet(Places(HoldsRef, s)) /\ ctx[s].alive
      BY <1>5, <1>7 DEF RefOK
    <3>2. /\ IsFiniteSet(Places(HoldsRef, s)')
          /\ Cardinality(Places(HoldsRef, s)') = Cardinality(Places(HoldsRef, s))
      BY <1>7, <1>8, <3>1, Moved
    <3>3. InSlot(s)' = InSlot(s) /\ ctx'[s] = ctx[s]
      BY <1>4 DEF InSlot
    <3> QED BY <1>5, <2>1, <3>1, <3>2, <3>3, Zenon DEF RefOK
  <2>4. QueueOK(s)'
    <3>1. Somewhere(s)'
      BY <1>8 DEF Somewhere
    <3> QED BY <1>4, <1>5, <1>6, <1>8, <2>1, <3>1 DEF QueueOK
  <2>5. BornOK(s)'
    BY <1>4, <1>5, <2>1, BornFrame
  <2>6. ReadyOK(s)'
    BY <1>4, <1>5, <1>6, <1>8, <2>1 DEF ReadyOK
  <2> QED BY <2>2, <2>3, <2>4, <2>5, <2>6 DEF ServiceOK
<1>9. CASE global = <<>>
  <2> DEFINE x == Step("release", s)
             y == Step("loop", s)
  <2>1. global' = global /\ Do(t, <<x, y>>)
    BY <1>2, <1>9 DEF Back, PopGlobal
  <2>2. /\ x \in StepRecord /\ x.pc = "release" /\ x.s = s
        /\ y \in StepRecord /\ y.pc = "loop" /\ y.s = s
    BY StepTypes DEF Plain
  <2> HIDE DEF x, y
  <2>3. StackOK' /\ \A K, r : Places(K, r)' = (Places(K, r) \ {Here(t)})
                                  \cup NewAt(x, K, r, Above(t)) \cup NewAt(y, K, r, Here(t))
    BY <1>1, <2>1, <2>2, Effect2 DEF Bottom
  <2>4. ASSUME NEW r \in Service, r # s  PROVE Untouched(r)
    <3>1. ASSUME NEW K  PROVE Places(K, r)' = Places(K, r)
      <4>1. Here(t) \notin Places(K, r)
            /\ NewAt(x, K, r, Above(t)) = {} /\ NewAt(y, K, r, Here(t)) = {}
        BY <1>3, <2>2, <2>4 DEF NewAt
      <4> QED BY <2>3, <4>1
    <3> QED BY <1>4, <2>1, <3>1 DEF Untouched, Queued, Once
  <2>5. DataOK'
    BY <1>1, <1>4, <2>1 DEF DataOK
  <2>6. Changed({"back", "release", "loop", "gpush"}, s)
    <3>1. ASSUME NEW K, K \cap {"back", "release", "loop", "gpush"} = {}
          PROVE  Places(K, s)' = Places(K, s)
      <4>1. Here(t) \notin Places(K, s)
            /\ NewAt(x, K, s, Above(t)) = {} /\ NewAt(y, K, s, Here(t)) = {}
        BY <1>3, <2>2, <3>1 DEF NewAt
      <4> QED BY <2>3, <4>1
    <3> QED BY <3>1 DEF Changed
  <2>7. /\ Places({"release"}, s) \in SUBSET Places({"release"}, s)'
        /\ Places({"gpush"}, s) \in SUBSET Places({"gpush"}, s)'
    BY <1>3, <2>2, <2>3 DEF NewAt
  <2>8. Places(HoldsRef, s)' = (Places(HoldsRef, s) \ {Here(t)}) \cup {Above(t)}
    BY <2>2, <2>3 DEF NewAt, HoldsRef
  <2>9. Places(Handles, s)' \in SUBSET Places(Handles, s)
    BY <2>2, <2>3 DEF NewAt, Handles
  <2>10. Places(HoldsQueue, s)' = {Here(t)}
    BY <1>6, <2>2, <2>3 DEF NewAt, HoldsQueue
  <2>11. ~Queued(s)' /\ Once(s)'
    BY <1>5, <1>6, <2>1 DEF Queued, Once, QueueOK
  <2>12. ServiceOK(s)'
    BY <1>8, <2>6, <2>7, <2>8, <2>9, <2>10, <2>11
  <2> QED BY <1>4, <2>3, <2>4, <2>5, <2>12, Assembled
<1>10. CASE global # <<>>
  <2>1. global' = Tail(global) /\ global \in Seq(Service) /\ \A r \in Service : Once(r)
    BY <1>1, <1>10 DEF Back, PopGlobal, DataOK, ServiceOK, QueueOK
  <2>2. PICK h \in Service : h = Head(global) /\ Queued(h)
    <3>1. Head(global) \in Service
      BY <1>10, <2>1
    <3> QED BY <1>10, <2>1, <3>1, Taken
  <2>3. /\ global' \in Seq(Service) /\ ~Queued(h)' /\ Once(h)'
        /\ \A r \in Service : r # h => (Queued(r)' <=> Queued(r)) /\ Once(r)'
    BY <1>10, <2>1, <2>2, Taken
  <2>4. h # s
    BY <1>6, <2>2
  <2> DEFINE x == Step("gpush", s)
             y == Step("release", s)
             z == Step("loop", h)
  <2>5. Do(t, <<x, y, z>>)
    BY <1>2, <1>10, <2>2 DEF Back
  <2>6. /\ x \in StepRecord /\ x.pc = "gpush" /\ x.s = s
        /\ y \in StepRecord /\ y.pc = "release" /\ y.s = s
        /\ z \in StepRecord /\ z.pc = "loop" /\ z.s = h
    BY StepTypes DEF Plain
  <2> HIDE DEF x, y, z
  <2>7. StackOK' /\ \A K, r : Places(K, r)' = (Places(K, r) \ {Here(t)})
          \cup NewAt(x, K, r, Above2(t)) \cup NewAt(y, K, r, Above(t)) \cup NewAt(z, K, r, Here(t))
    BY <1>1, <2>5, <2>6, Effect3 DEF Bottom
  <2>8. ASSUME NEW r \in Service, r # s, r # h  PROVE ServiceOK(r)'
    <3>1. ASSUME NEW K  PROVE Places(K, r)' = Places(K, r)
      <4>1. Here(t) \notin Places(K, r) /\ NewAt(x, K, r, Above2(t)) = {}
            /\ NewAt(y, K, r, Above(t)) = {} /\ NewAt(z, K, r, Here(t)) = {}
        BY <1>3, <2>6, <2>8 DEF NewAt
      <4> QED BY <2>7, <4>1
    <3>2. Untouched(r)
      BY <1>4, <2>3, <2>8, <3>1 DEF Untouched
    <3> QED BY <1>1, <1>4, <3>2, Frame
  <2>9. ServiceOK(h)'
    <3>1. ASSUME NEW K  PROVE Places(K, h)' = Places(K, h) \cup (IF "loop" \in K THEN {Here(t)} ELSE {})
      <4>1. Here(t) \notin Places(K, h) /\ NewAt(x, K, h, Above2(t)) = {}
            /\ NewAt(y, K, h, Above(t)) = {}
            /\ NewAt(z, K, h, Here(t)) = IF "loop" \in K THEN {Here(t)} ELSE {}
        BY <1>3, <2>4, <2>6 DEF NewAt
      <4> QED BY <2>7, <4>1
    <3>2. Changed({"loop", "grab"}, h)
      BY <3>1 DEF Changed
    <3>3. Places(HoldsQueue, h)' = Places(HoldsQueue, h) \cup {Here(t)}
      BY <3>1 DEF HoldsQueue
    <3> QED BY <1>1, <1>4, <2>2, <2>3, <3>2, <3>3, TakenService
  <2>10. \A K : Places(K, s)' = (Places(K, s) \ {Here(t)})
                   \cup NewAt(x, K, s, Above2(t)) \cup NewAt(y, K, s, Above(t))
    BY <2>4, <2>6, <2>7 DEF NewAt
  <2>11. Changed({"back", "release", "loop", "gpush"}, s)
    <3>1. ASSUME NEW K, K \cap {"back", "release", "loop", "gpush"} = {}
          PROVE  Places(K, s)' = Places(K, s)
      <4>1. Here(t) \notin Places(K, s)
            /\ NewAt(x, K, s, Above2(t)) = {} /\ NewAt(y, K, s, Above(t)) = {}
        BY <1>3, <2>6, <3>1 DEF NewAt
      <4> QED BY <2>10, <4>1
    <3> QED BY <3>1 DEF Changed
  <2>12. /\ Places({"release"}, s) \in SUBSET Places({"release"}, s)'
         /\ Places({"gpush"}, s) \in SUBSET Places({"gpush"}, s)'
    BY <1>3, <2>6, <2>10 DEF NewAt
  <2>13. Places(HoldsRef, s)' = (Places(HoldsRef, s) \ {Here(t)}) \cup {Above(t)}
    BY <2>6, <2>10 DEF NewAt, HoldsRef
  <2>14. Places(Handles, s)' \in SUBSET Places(Handles, s)
    BY <2>6, <2>10 DEF NewAt, Handles
  <2>15. Places(HoldsQueue, s)' = {Above2(t)}
    BY <1>6, <2>6, <2>10 DEF NewAt, HoldsQueue
  <2>16. ~Queued(s)' /\ Once(s)'
    BY <1>6, <2>3, <2>4
  <2>17. ServiceOK(s)'
    BY <1>8, <2>11, <2>12, <2>13, <2>14, <2>15, <2>16
  <2>18. DataOK'
    BY <1>1, <1>4, <2>3 DEF DataOK
  <2> QED BY <2>7, <2>8, <2>9, <2>17, <2>18 DEF IInv
<1> QED BY <1>9, <1>10

-----------------------------------------------------------------------------
(* What a handler decides: the called step comes on top of its own.        *)
LEMMA CallSendStep ==
    ASSUME IInv, NEW t \in Thread, NEW s \in Service, CallSend(t, s)
    PROVE  IInv'
<1>1. DataOK /\ StackOK /\ \A r \in Service : ServiceOK(r)
  BY DEF IInv
<1>2. UNCHANGED <<slot, ctx, mq, global, quit>> /\ sent' = sent + 1 /\ sent < MaxMsg /\ Free(t)
  BY DEF CallSend
<1>3. sent + 1 \in 1 .. MaxMsg /\ sent' \in 0 .. MaxMsg
  BY <1>1, <1>2, BoundAssumption DEF DataOK
<1>4. Self(t) \in Service \cup {None}
  <2>1. CASE t \in Worker
    <3>1. At(t, "run")
      BY <1>2, <2>1 DEF Free
    <3>2. Top(t).s \in Service
      BY <3>1, Acting, FieldTypes DEF WithMessage
    <3> QED BY <2>1, <3>2 DEF Self
  <2>2. CASE t \notin Worker
    BY <2>2 DEF Self
  <2> QED BY <2>1, <2>2
<1> DEFINE m == [src |-> Self(t), id |-> sent + 1, err |-> FALSE]
           x == StepMsg("send", s, m, 0)
<1>5. m \in Msg
  BY <1>3, <1>4 DEF Msg
<1>6. Call(t, x)
  BY DEF CallSend
<1> HIDE DEF m
<1>7. x \in StepRecord /\ x.pc = "send" /\ x.s = s
  BY <1>5, StepTypes DEF WithMessage
<1> HIDE DEF x
<1>8. /\ StackOK'
      /\ \A K, r : Places(K, r)' = Places(K, r) \cup NewAt(x, K, r, <<t, Len(todo[t])>>)
  BY <1>1, <1>6, <1>7, EffectCall DEF Bottom
<1>9. ASSUME NEW r \in Service  PROVE Untouched(r)
  <2>1. \A K : "send" \notin K => Places(K, r)' = Places(K, r)
    BY <1>7, <1>8 DEF NewAt
  <2> QED BY <1>2, <2>1 DEF Untouched, Queued, Once
<1>10. DataOK'
  BY <1>1, <1>2, <1>3 DEF DataOK
<1> QED BY <1>2, <1>8, <1>9, <1>10, AssembledQuiet

(* A callback kills a service.                                             *)
LEMMA CallRetireStep ==
    ASSUME IInv, NEW t \in Thread, NEW s \in Service, CallRetire(t, s)
    PROVE  IInv'
<1>1. DataOK /\ StackOK /\ \A r \in Service : ServiceOK(r)
  BY DEF IInv
<1> DEFINE x == Step("retire", s)
<1>2. UNCHANGED <<slot, ctx, mq, global, quit, sent>> /\ Call(t, x)
  BY DEF CallRetire
<1>3. x \in StepRecord /\ x.pc = "retire" /\ x.s = s
  BY StepTypes DEF Plain
<1> HIDE DEF x
<1>4. /\ StackOK'
      /\ \A K, r : Places(K, r)' = Places(K, r) \cup NewAt(x, K, r, <<t, Len(todo[t])>>)
  BY <1>1, <1>2, <1>3, EffectCall DEF Bottom
<1>5. ASSUME NEW r \in Service, r # s  PROVE Untouched(r)
  <2>1. \A K : Places(K, r)' = Places(K, r)
    BY <1>3, <1>4, <1>5 DEF NewAt
  <2> QED BY <1>2, <2>1 DEF Untouched, Queued, Once
<1>6. DataOK'
  BY <1>1, <1>2 DEF DataOK
<1>7. Changed({"retire"}, s)
  BY <1>3, <1>4 DEF NewAt, Changed
<1>8. ServiceOK(s)'
  <2>1. PushHeld(s) /\ RefOK(s) /\ QueueOK(s) /\ BornOK(s) /\ ReadyOK(s)
    BY <1>1 DEF ServiceOK
  <2>2. PushHeld(s)'
    BY <1>7, <2>1, PushSame
  <2>3. RefOK(s)'
    BY <1>2, <1>7, <2>1, RefSame DEF HoldsRef
  <2>4. QueueOK(s)'
    BY <1>2, <1>7, <2>1, QueueSame DEF HoldsQueue
  <2>5. BornOK(s)'
    <3>1. Places({"new"}, s)' = Places({"new"}, s)
      BY <1>7 DEF Changed
    <3> QED BY <1>2, <2>1, <3>1, BornFrame
  <2>6. ReadyOK(s)'
    <3>1. /\ Places({"init", "ready"}, s)' = Places({"init", "ready"}, s)
          /\ Places({"init"}, s)' = Places({"init"}, s)
          /\ Places({"ready"}, s)' = Places({"ready"}, s)
          /\ Places({"gpush"}, s)' = Places({"gpush"}, s)
          /\ Places({"mqrelease"}, s)' = Places({"mqrelease"}, s)
      BY <1>7 DEF Changed
    <3>2. Places(Handles, s)' = Places(Handles, s)
      BY <1>7 DEF Changed, Handles
    <3>3. Places({"retire"}, s) \in SUBSET Places({"retire"}, s)'
      BY <1>4
    <3> QED BY <1>2, <2>1, <3>1, <3>2, <3>3, ReadyQuiet
  <2> QED BY <2>2, <2>3, <2>4, <2>5, <2>6 DEF ServiceOK
<1> QED BY <1>2, <1>4, <1>5, <1>6, <1>8, Assembled

(* A callback launches one.                                                *)
LEMMA CallNewStep ==
    ASSUME IInv, NEW t \in Thread, NEW s \in Service, CallNew(t, s)
    PROVE  IInv'
<1>1. DataOK /\ StackOK /\ \A r \in Service : ServiceOK(r)
  BY DEF IInv
<1> DEFINE x == Step("new", s)
<1>2. /\ UNCHANGED <<slot, ctx, mq, global, quit, sent>> /\ Call(t, x)
      /\ ctx[s].ref = Unborn /\ \A u \in Thread : ~Contains(todo[u], x)
  BY DEF CallNew
<1>3. x \in StepRecord /\ x.pc = "new" /\ x.s = s
  BY StepTypes DEF Plain
<1>4. Places({"new"}, s) = {}
  <2>1. Places({"new"}, s) \in SUBSET (Thread \X Nat)
    BY <1>1, PlaceDef DEF StackOK, StackType
  <2>2. ASSUME NEW u \in Thread, NEW d \in Nat, <<u, d>> \in Places({"new"}, s)  PROVE FALSE
    <3>1. Names(todo, {"new"}, s, u, d)
      BY <1>1, <2>2, PlaceDef DEF StackOK, StackType
    <3>2. todo[u] \in Seq(StepRecord) /\ Len(todo[u]) \in Nat /\ DOMAIN todo[u] = 1 .. Len(todo[u])
      BY <1>1 DEF StackOK
    <3>3. PICK i \in 1 .. Len(todo[u]) : todo[u][i].s = s /\ todo[u][i].pc = "new"
      <4>1. Len(todo[u]) - d \in 1 .. Len(todo[u])
        BY <3>1, <3>2 DEF Names
      <4> QED BY <3>1, <4>1 DEF Names
    <3>4. todo[u][i] \in StepRecord
      BY <3>2
    <3>5. todo[u][i] = x
      BY <3>3, <3>4 DEF StepRecord, WithMessage, Plain, Unnamed, Step
    <3>6. Contains(todo[u], x)
      BY <3>2, <3>5 DEF Contains, Range
    <3> QED BY <1>2, <3>6
  <2> QED BY <2>1, <2>2
<1> HIDE DEF x
<1>5. /\ StackOK'
      /\ \A K, r : Places(K, r)' = Places(K, r) \cup NewAt(x, K, r, <<t, Len(todo[t])>>)
  BY <1>1, <1>2, <1>3, EffectCall DEF Bottom
<1>6. ASSUME NEW r \in Service, r # s  PROVE Untouched(r)
  <2>1. \A K : Places(K, r)' = Places(K, r)
    BY <1>3, <1>5, <1>6 DEF NewAt
  <2> QED BY <1>2, <2>1 DEF Untouched, Queued, Once
<1>7. DataOK'
  BY <1>1, <1>2 DEF DataOK
<1>8. Changed({"new"}, s)
  BY <1>3, <1>5 DEF NewAt, Changed
<1>9. ServiceOK(s)'
  <2>1. PushHeld(s) /\ RefOK(s) /\ QueueOK(s) /\ BornOK(s) /\ ReadyOK(s)
    BY <1>1 DEF ServiceOK
  <2>2. PushHeld(s)'
    BY <1>8, <2>1, PushSame
  <2>3. RefOK(s)'
    BY <1>2, <1>8, <2>1, RefSame DEF HoldsRef
  <2>4. QueueOK(s)'
    BY <1>2, <1>8, <2>1, QueueSame DEF HoldsQueue
  <2>5. BornOK(s)'
    <3>1. Places({"new"}, s)' \in SUBSET {<<t, Len(todo[t])>>}
      BY <1>4, <1>5 DEF NewAt
    <3>2. \A p, q \in Places({"new"}, s)' : p = q
      BY <3>1
    <3>3. ctx'[s] = ctx[s] /\ mq'[s] = mq[s] /\ ctx[s].ref = Unborn
      BY <1>2
    <3> QED BY <2>1, <3>2, <3>3, Zenon DEF BornOK
  <2>6. ReadyOK(s)'
    BY <1>2, <1>8, <2>1, ReadySame DEF Handles
  <2> QED BY <2>2, <2>3, <2>4, <2>5, <2>6 DEF ServiceOK
<1> QED BY <1>2, <1>5, <1>6, <1>7, <1>9, Assembled

(* Waking sleepers changes nothing for a service.                          *)
LEMMA WakeStep ==
    ASSUME IInv, NEW W \in SUBSET Waiting,
           todo' = [t \in Thread |-> IF t \in W THEN <<Step("woken", None)>> ELSE todo[t]],
           UNCHANGED <<slot, ctx, mq, global, sent>>, quit' \in BOOLEAN, quit => quit'
    PROVE  IInv'
<1>1. DataOK /\ StackOK /\ \A r \in Service : ServiceOK(r)
  BY DEF IInv
<1>2. StackOK' /\ \A K : \A r \in Service : Places(K, r)' = Places(K, r)
  BY <1>1, WakePlaces
<1>3. ASSUME NEW r \in Service  PROVE Untouched(r)
  BY <1>2 DEF Untouched, Queued, Once
<1>4. DataOK'
  BY <1>1 DEF DataOK
<1> QED BY <1>2, <1>3, <1>4, AssembledQuiet

(* Someone wakes a worker.                                                 *)
LEMMA SignalStep ==
    ASSUME IInv, NEW w, Signal(w)
    PROVE  IInv'
<1>1. {w} \in SUBSET Waiting /\ quit' = quit /\ UNCHANGED <<slot, ctx, mq, global, sent>>
  BY DEF Signal
<1>2. todo \in [Thread -> Seq(StepRecord)] /\ quit \in BOOLEAN
  BY DEF IInv, StackOK, DataOK
<1>3. todo' = [t \in Thread |-> IF t \in {w} THEN <<Step("woken", None)>> ELSE todo[t]]
  BY <1>2 DEF Signal
<1> QED BY <1>1, <1>2, <1>3, WakeStep

(* The timer thread ends the process's threads.                            *)
LEMMA AbortStep ==
    ASSUME IInv, TimerAbort
    PROVE  IInv'
<1>1. /\ Waiting \in SUBSET Waiting /\ quit' = TRUE /\ UNCHANGED <<slot, ctx, mq, global, sent>>
      /\ todo' = [t \in Thread |-> IF t \in Waiting THEN <<Step("woken", None)>> ELSE todo[t]]
  BY DEF TimerAbort
<1> QED BY <1>1, WakeStep

-----------------------------------------------------------------------------
(* The start: the services of Boot are initialised and in the global queue, *)
(* and no thread has begun.                                                *)
LEMMA InitInv ==
    ASSUME Init
    PROVE  IInv
<1>1. Boot \in Seq(Service) /\ Len(Boot) \in Nat /\ DOMAIN Boot = 1 .. Len(Boot)
  BY BootAssumption
<1>2. BootSet \subseteq Service /\ \A s : s \in BootSet <=> \E i \in 1 .. Len(Boot) : Boot[i] = s
  BY <1>1 DEF BootSet, Range
<1>3. ASSUME NEW s \in BootSet  PROVE FirstMsg(s) \in Msg
  <2>1. \E i \in 1 .. Len(Boot) : Boot[i] = s
    BY <1>2
  <2> DEFINE k == CHOOSE i \in 1 .. Len(Boot) : Boot[i] = s
  <2>2. k \in 1 .. Len(Boot)
    BY <2>1
  <2> HIDE DEF k
  <2>3. k \in 1 .. MaxMsg
    BY <1>1, <2>2, BoundAssumption
  <2> QED BY <1>2, <2>3 DEF FirstMsg, Msg, k
<1>4. ASSUME NEW s \in Service
      PROVE  /\ ctx[s].ref = (IF s \in BootSet THEN 1 ELSE Unborn)
             /\ ctx[s].init = (s \in BootSet) /\ ctx[s].alive = (s \in BootSet)
             /\ ctx[s] \in Context
  <2>1. ctx[s] = [ref |-> IF s \in BootSet THEN 1 ELSE Unborn,
                  init |-> s \in BootSet, alive |-> s \in BootSet]
    BY DEF Init
  <2>2. (s \in BootSet) \in BOOLEAN
    OBVIOUS
  <2>3. (IF s \in BootSet THEN 1 ELSE Unborn) \in Nat \cup {Unborn}
    OBVIOUS
  <2>4. ctx[s] \in Context
    BY <2>1, <2>2, <2>3 DEF Context
  <2> QED BY <2>1, <2>4
<1>5. ASSUME NEW s \in Service
      PROVE  /\ mq[s].alive = (s \in BootSet) /\ mq[s].in_global /\ ~mq[s].release
             /\ mq[s].msgs = (IF s \in BootSet THEN <<FirstMsg(s)>> ELSE <<>>)
             /\ mq[s] \in Queue
  <2> DEFINE q == IF s \in BootSet THEN <<FirstMsg(s)>> ELSE <<>>
  <2>1. q \in Seq(Msg)
    BY <1>3
  <2>2. mq[s] = [NewQueue EXCEPT !.alive = s \in BootSet, !.msgs = q]
    BY DEF Init
  <2> HIDE DEF q
  <2>3. mq[s] = [msgs |-> q, in_global |-> TRUE, release |-> FALSE, alive |-> s \in BootSet]
    BY <2>2 DEF NewQueue
  <2>4. (s \in BootSet) \in BOOLEAN
    OBVIOUS
  <2>5. mq[s] \in Queue
    BY <2>1, <2>3, <2>4 DEF Queue
  <2> QED BY <2>3, <2>5 DEF q
<1>6. DataOK
  <2>1. ctx \in [Service -> Context]
    BY <1>4 DEF Init
  <2>2. mq \in [Service -> Queue]
    BY <1>5 DEF Init
  <2>3. sent \in 0 .. MaxMsg
    <3>1. sent = Len(Boot)
      BY DEF Init
    <3> QED BY <1>1, <3>1, BoundAssumption
  <2> QED BY <1>1, <1>2, <2>1, <2>2, <2>3 DEF Init, DataOK
<1> DEFINE x == Step("loop", None)
<1>7. x \in StepRecord /\ x.s = None /\ x.pc = "loop"
  BY UnnamedTypes DEF Unnamed
<1>8. /\ \A t \in Thread : t \in Worker => todo[t] = <<x>>
      /\ \A t \in Thread : t \notin Worker => todo[t] = <<>>
      /\ todo = [t \in Thread |-> IF t \in Worker THEN <<x>> ELSE <<>>]
  BY DEF Init
<1> HIDE DEF x
<1>9. StackType
  BY <1>7, <1>8 DEF StackType
<1>10. ASSUME NEW K, NEW s, NEW t \in Thread, NEW d \in Nat, <<t, d>> \in Places(K, s)
       PROVE  d = 0 /\ t \in Worker /\ s = None
  <2>1. Names(todo, K, s, t, d)
    BY <1>9, <1>10, PlaceDef
  <2>2. CASE t \notin Worker
    <3>1. Len(todo[t]) = 0
      BY <1>8, <2>2
    <3> QED BY <2>1, <3>1 DEF Names
  <2>3. CASE t \in Worker
    <3>1. Len(todo[t]) = 1 /\ todo[t][1] = x
      BY <1>8, <2>3
    <3>2. d = 0 /\ todo[t][1 - 0].s = s
      BY <2>1, <3>1 DEF Names
    <3> QED BY <1>7, <2>3, <3>1, <3>2
  <2> QED BY <2>2, <2>3
<1>11. StackOK
  BY <1>9, <1>10 DEF StackOK, StackType
<1>12. ASSUME NEW K, NEW s \in Service  PROVE Places(K, s) = {}
  <2>1. Places(K, s) \in SUBSET (Thread \X Nat) /\ s # None
    BY <1>9, PlaceDef, BootAssumption
  <2> QED BY <1>10, <2>1
<1>13. ASSUME NEW s \in Service  PROVE ServiceOK(s)
  <2>1. s \in slot <=> s \in BootSet
    BY DEF Init
  <2>2. PushHeld(s)
    BY <1>12 DEF PushHeld
  <2>3. RefOK(s)
    <3>1. IsFiniteSet({}) /\ Cardinality({}) = 0
      BY FS_EmptySet
    <3>2. Places(HoldsRef, s) = {} /\ Places({"delete"}, s) = {}
      BY <1>12
    <3>3. InSlot(s) = IF s \in BootSet THEN 1 ELSE 0
      BY <2>1 DEF InSlot
    <3>4. CASE s \in BootSet
      <4>1. ctx[s].ref = Cardinality(Places(HoldsRef, s)) + InSlot(s) /\ ctx[s].ref # 0 /\ ctx[s].alive
        <5>1. Cardinality(Places(HoldsRef, s)) = 0 /\ InSlot(s) = 1
          BY <3>1, <3>2, <3>3, <3>4, Zenon
        <5>2. ctx[s].ref = 1
          BY <1>4, <3>4
        <5>3. ctx[s].alive
          BY <1>4, <3>4, Zenon
        <5> QED BY <5>1, <5>2, <5>3
      <4> QED BY <3>1, <3>2, <4>1 DEF RefOK
    <3>5. CASE s \notin BootSet
      <4>1. ~ctx[s].alive /\ s \notin slot
        BY <1>4, <2>1, <3>5
      <4> QED BY <3>1, <3>2, <4>1 DEF RefOK
    <3> QED BY <3>4, <3>5
  <2>4. QueueOK(s)
    <3>1. Queued(s) <=> s \in BootSet
      BY <1>2 DEF Init, Queued
    <3>2. Once(s)
      <4>1. \A i, j \in 1 .. Len(Boot) : Boot[i] = Boot[j] => i = j
        BY BootAssumption, Zenon
      <4>2. global = Boot
        BY DEF Init
      <4> QED BY <4>1, <4>2, Zenon DEF Once
    <3>3. Places(HoldsQueue, s) = {} /\ Places({"drop"}, s) = {}
      BY <1>12
    <3>4. Somewhere(s) <=> s \in BootSet
      BY <3>1, <3>3 DEF Somewhere
    <3> QED BY <1>4, <1>5, <3>1, <3>2, <3>3, <3>4 DEF QueueOK
  <2>5. BornOK(s)
    <3>1. Places({"new"}, s) = {}
      BY <1>12
    <3>2. ctx[s].ref = Unborn => s \notin BootSet
      BY <1>4 DEF Unborn
    <3> QED BY <1>4, <1>5, <3>1, <3>2 DEF BornOK
  <2>6. ReadyOK(s)
    <3>1. Places({"init", "ready"}, s) = {} /\ Places({"ready"}, s) = {} /\ Places(Handles, s) = {}
      BY <1>12
    <3> QED BY <1>4, <2>1, <3>1 DEF ReadyOK
  <2> QED BY <2>2, <2>3, <2>4, <2>5, <2>6 DEF ServiceOK
<1> QED BY <1>6, <1>11, <1>13 DEF IInv

(* Every step keeps the invariant.                                         *)
LEMMA NextInv ==
    ASSUME IInv, [Next]_vars
    PROVE  IInv'
<1>1. ASSUME NEW t \in Thread, ThreadStep(t)  PROVE IInv'
  BY <1>1, SendStep, PushStep, ReleaseStep, DeleteStep, RetireStep, NewStep, InitFailedStep,
     InitDoneStep, SetReadyStep, GlobalPushStep, MqReleaseStep, DropStep, FreeQueueStep
     DEF ThreadStep
<1>2. ASSUME NEW t \in Thread, Decide(t)  PROVE IInv'
  BY <1>2, CallSendStep, CallRetireStep, CallNewStep DEF Decide
<1>3. ASSUME NEW t \in Worker, WorkerStep(t)  PROVE IInv'
  <2>1. t \in Thread
    BY DEF Thread
  <2> QED BY <1>3, <2>1, LoopStep, GrabStep, NextQStep, PopEmptyStep, PopStep, LengthStep,
             RunDoneStep, BackStep, SleepStep, WokenStep DEF WorkerStep
<1>4. ASSUME TimerWakeup \/ SocketWakeup  PROVE IInv'
  BY <1>4, SignalStep DEF TimerWakeup, SocketWakeup
<1>5. ASSUME TimerAbort  PROVE IInv'
  BY <1>5, AbortStep
<1>6. ASSUME UNCHANGED vars  PROVE IInv'
  <2>1. \A r \in Service : Untouched(r)
    BY <1>6 DEF vars, Untouched, Queued, Once, Places
  <2>2. DataOK' /\ quit' = quit
    BY <1>6 DEF IInv, DataOK, vars
  <2>3. StackOK'
    <3>1. \A K, r : Places(K, r)' = Places(K, r)
      BY <1>6 DEF vars, Places
    <3> QED BY <1>6, <3>1 DEF IInv, StackOK, vars
  <2> QED BY <2>1, <2>2, <2>3, AssembledQuiet
<1> QED BY <1>1, <1>2, <1>3, <1>4, <1>5, <1>6 DEF Next, Ended

(* The invariant holds in every reachable state.                           *)
LEMMA SpecInv == Spec => []IInv
<1>1. Init => IInv
  BY InitInv
<1>2. IInv /\ [Next]_vars => IInv'
  BY NextInv
<1> QED BY <1>1, <1>2, PTL DEF Spec

-----------------------------------------------------------------------------
(* A set with at most one member.                                          *)
LEMMA AtMostOne ==
    ASSUME NEW S, \A p, q \in S : p = q
    PROVE  /\ S = {} => Cardinality(S) = 0
           /\ S # {} => Cardinality(S) = 1
           /\ IsFiniteSet(S)
<1>1. CASE S = {}
  BY <1>1, FS_EmptySet
<1>2. CASE S # {}
  <2>1. PICK p : p \in S
    BY <1>2
  <2>2. S = {p}
    BY <2>1
  <2> QED BY <1>2, <2>2, FS_Singleton
<1> QED BY <1>1, <1>2

(* It contains the types,                                                  *)
LEMMA InvTypeOK ==
    ASSUME IInv
    PROVE  TypeOK
<1>1. DataOK /\ StackOK /\ \A s \in Service : ServiceOK(s)
  BY DEF IInv
<1>2. \A s \in Service : ctx[s].ref = Unborn => ~ctx[s].alive /\ ~mq[s].release
  BY <1>1 DEF ServiceOK, BornOK
<1>3. ASSUME NEW t \in Thread, NEW i \in 1 .. Len(todo[t])
      PROVE  todo[t][i].s \in Service \cup {None}
  <2>1. todo[t] \in Seq(StepRecord)
    BY <1>1 DEF StackOK
  <2>2. todo[t][i] \in StepRecord
    BY <2>1
  <2> QED BY <2>2, FieldTypes
<1> QED BY <1>1, <1>2, <1>3 DEF TypeOK, DataOK, Context, Queue

(* that a queue is in the global queue or in one worker's hands, and only  *)
(* once,                                                                   *)
LEMMA InvQueueOnce ==
    ASSUME IInv
    PROVE  QueueOnce
<1> SUFFICES ASSUME NEW s \in Service
             PROVE  LET places == InGlobal(s) + StepsOf(HoldsQueue, s) IN
                    IF mq[s].alive
                    THEN /\ places <= 1
                         /\ ~quit => (places = 1 <=> mq[s].in_global \/ mq[s].release)
                    ELSE places = 0
  BY DEF QueueOnce
<1>1. QueueOK(s)
  BY DEF IInv, ServiceOK
<1>2. InGlobal(s) = IF Queued(s) THEN 1 ELSE 0
  <2> DEFINE S == {i \in 1 .. Len(global) : global[i] = s}
  <2>1. \A p, q \in S : p = q
    BY <1>1 DEF QueueOK, Once
  <2>2. S = {} <=> ~Queued(s)
    BY DEF Queued
  <2>3. InGlobal(s) = Cardinality(S)
    BY DEF InGlobal
  <2> HIDE DEF S
  <2> QED BY <2>1, <2>2, <2>3, AtMostOne
<1>3. StepsOf(HoldsQueue, s) = IF Places(HoldsQueue, s) = {} THEN 0 ELSE 1
  <2>1. \A p, q \in Places(HoldsQueue, s) : p = q
    BY <1>1 DEF QueueOK
  <2> QED BY <2>1, AtMostOne DEF StepsOf
<1> QED BY <1>1, <1>2, <1>3 DEF QueueOK, Somewhere

(* and that a context is there while anyone holds it.                      *)
LEMMA InvContexts ==
    ASSUME IInv
    PROVE  ContextsOK
<1>1. DataOK /\ StackOK
  BY DEF IInv
<1>2. ASSUME NEW s \in Service, ctx[s].alive
      PROVE  /\ ctx[s].ref = StepsOf(HoldsRef, s) + Cardinality({s} \cap slot)
             /\ (ctx[s].ref = 0) <=> StepsOf({"delete"}, s) = 1
  <2>1. RefOK(s)
    BY DEF IInv, ServiceOK
  <2>2. Cardinality({s} \cap slot) = InSlot(s)
    <3>1. {s} \cap slot = IF s \in slot THEN {s} ELSE {}
      OBVIOUS
    <3> QED BY <3>1, FS_EmptySet, FS_Singleton DEF InSlot
  <2>3. StepsOf({"delete"}, s) = IF Places({"delete"}, s) = {} THEN 0 ELSE 1
    <3>1. \A p, q \in Places({"delete"}, s) : p = q
      BY <2>1 DEF RefOK
    <3> QED BY <3>1, AtMostOne DEF StepsOf
  <2> QED BY <1>2, <2>1, <2>2, <2>3 DEF RefOK, StepsOf
<1>3. ASSUME NEW s \in Service
      PROVE  /\ Places(HoldsRef \cup {"push", "delete"}, s) # {} => ctx[s].alive
             /\ Places(HoldsQueue \cup {"push", "delete"}, s) # {} => mq[s].alive
             /\ s \in slot => ctx[s].alive
             /\ Places({"ready"}, s) # {} => mq[s].alive
  <2>1. ServiceOK(s) /\ RefOK(s) /\ QueueOK(s)
    BY DEF IInv, ServiceOK
  <2>2. ASSUME NEW K, NEW p \in Places(K \cup {"push", "delete"}, s)
        PROVE  Places(K, s) # {} \/ ctx[s].alive
    <3>1. PICK t \in Thread, d \in Nat : p = <<t, d>>
      BY <1>1, PlaceDef DEF StackOK, StackType
    <3>2. Names(todo, K \cup {"push", "delete"}, s, t, d)
      BY <1>1, <2>2, <3>1, PlaceDef DEF StackOK, StackType
    <3>3. Names(todo, K, s, t, d) \/ Names(todo, {"push"}, s, t, d) \/ Names(todo, {"delete"}, s, t, d)
      BY <3>2 DEF Names
    <3>4. <<t, d>> \in Places(K, s) \/ <<t, d>> \in Places({"push"}, s) \/ <<t, d>> \in Places({"delete"}, s)
      BY <1>1, <3>3, PlaceDef DEF StackOK, StackType
    <3>5. CASE <<t, d>> \in Places({"push"}, s)
      BY <1>1, <2>1, <3>5, PushAlive, Held
    <3>6. CASE <<t, d>> \in Places({"delete"}, s)
      BY <2>1, <3>6 DEF RefOK
    <3> QED BY <3>4, <3>5, <3>6
  <2>3. Places(HoldsRef, s) # {} => ctx[s].alive
    BY <2>1 DEF RefOK
  <2>4. Places(HoldsQueue, s) # {} => mq[s].alive
    BY <2>1 DEF QueueOK, Somewhere
  <2>5. ctx[s].alive => mq[s].alive
    BY <2>1 DEF QueueOK
  <2>6. s \in slot => ctx[s].alive
    BY <2>1 DEF RefOK
  <2>7. ASSUME NEW p \in Places({"ready"}, s)  PROVE mq[s].alive
    <3>1. PICK t \in Thread, d \in Nat : p = <<t, d>>
      BY <1>1, PlaceDef DEF StackOK, StackType
    <3>2. d > 0 /\ <<t, d - 1>> \in Places({"gpush"}, s)
      BY <2>1, <2>7, <3>1 DEF ServiceOK, ReadyOK
    <3>3. d - 1 \in Nat /\ Names(todo, {"gpush"}, s, t, d - 1)
      BY <1>1, <3>2, PlaceDef DEF StackOK, StackType
    <3>4. <<t, d - 1>> \in Places(HoldsQueue, s)
      BY <1>1, <3>3, PlaceDef DEF StackOK, StackType, Names, HoldsQueue
    <3> QED BY <2>4, <3>4
  <2> QED BY <2>2, <2>3, <2>4, <2>5, <2>6, <2>7
<1>4. \A K : \A s \in Service : StepsOf(K, s) > 0 => Places(K, s) # {}
  BY FS_EmptySet DEF StepsOf
<1>5. RefExact
  BY <1>2 DEF RefExact
<1>6. HeldNotFreed
  BY <1>3, <1>4 DEF HeldNotFreed
<1> QED BY <1>5, <1>6, InvTypeOK DEF ContextsOK

(* A service's queue is in one place at most, the global queue or a        *)
(* thread's hands, and exactly then when its flags say that it is: no two  *)
(* workers handle one service and no queue with messages is forgotten.     *)
THEOREM QueueOnceCorrect == Spec => []QueueOnce
<1>1. IInv => QueueOnce
  BY InvQueueOnce
<1> QED BY <1>1, SpecInv, PTL

(* The reference count of a context is the number of those who hold it, it *)
(* is freed by one thread once, and neither it nor its queue is freed      *)
(* while it is held.  The last steps of a launch, which holds nothing any  *)
(* more, may find the context freed if the service was killed, but not the *)
(* queue.                                                                  *)
THEOREM ContextsCorrect == Spec => []ContextsOK
<1>1. IInv => ContextsOK
  BY InvContexts
<1> QED BY <1>1, SpecInv, PTL
-----------------------------------------------------------------------------
(* The refinement of Mailbox.                                              *)

(* The step handles a message of the service.                              *)
Hands == {"length", "run"}
InHand(x, s) == x.pc \in Hands /\ x.s = s

Busy(s) == IF Handling(s) = {} THEN None ELSE (CHOOSE step \in Handling(s) : TRUE).m

(* The step is in the stack.                                               *)
Has(q, x) == \E i \in 1 .. Len(q) : x = q[i]

(* Handling, for any content td of the stacks.                             *)
HandlingIn(td, s) == {x \in UNION {Range(td[t]) : t \in Worker} : x.pc \in Hands /\ x.s = s}

(* Who is handling a message of a service, given the stacks.               *)
LEMMA HandlingInDef ==
    ASSUME NEW td \in [Thread -> Seq(StepRecord)], NEW s
    PROVE  \A x : x \in HandlingIn(td, s) <=>
              InHand(x, s) /\ \E w \in Worker : Has(td[w], x)
<1>1. \A w \in Worker : td[w] \in Seq(StepRecord) /\ DOMAIN td[w] = 1 .. Len(td[w])
  BY DEF Thread
<1>2. \A w \in Worker : \A x : x \in Range(td[w]) <=> Has(td[w], x)
  BY <1>1 DEF Range, Has
<1>3. ASSUME NEW x
      PROVE  x \in HandlingIn(td, s) <=> InHand(x, s) /\ \E w \in Worker : x \in Range(td[w])
  BY Zenon DEF HandlingIn, InHand
<1> QED BY <1>2, <1>3

(* The same now,                                                           *)
LEMMA HandlingDef ==
    ASSUME StackType, NEW s
    PROVE  \A x : x \in Handling(s) <=>
              InHand(x, s) /\ \E w \in Worker : Has(todo[w], x)
<1>1. Handling(s) = HandlingIn(todo, s)
  BY DEF Handling, HandlingIn, Hands
<1> QED BY <1>1, HandlingInDef DEF StackType

(* and after a step.                                                       *)
LEMMA HandlingDefNext ==
    ASSUME StackType', NEW s
    PROVE  \A x : x \in Handling(s)' <=>
              InHand(x, s) /\ \E w \in Worker : Has(todo'[w], x)
<1>1. Handling(s)' = HandlingIn(todo', s)
  BY DEF Handling, HandlingIn, Hands
<1> QED BY <1>1, HandlingInDef DEF StackType

-----------------------------------------------------------------------------
(* A stack whose topmost step is replaced holds the new steps and those    *)
(* that were below.                                                        *)
LEMMA Below ==
    ASSUME NEW q \in Seq(StepRecord), q # <<>>, NEW steps \in Seq(StepRecord)
    PROVE  /\ steps \o Tail(q) \in Seq(StepRecord)
           /\ \A x : Has(q, x) <=> x = q[1] \/ Has(Tail(q), x)
           /\ \A x : Has(steps \o Tail(q), x) <=> Has(steps, x) \/ Has(Tail(q), x)
<1>1. Len(q) \in Nat /\ Len(q) > 0 /\ Tail(q) \in Seq(StepRecord) /\ Len(Tail(q)) = Len(q) - 1
      /\ \A i \in 1 .. Len(q) - 1 : Tail(q)[i] = q[i + 1]
  BY EmptySeq
<1>2. ASSUME NEW x
      PROVE  (\E i \in 1 .. Len(q) : x = q[i]) <=>
                x = q[1] \/ \E i \in 1 .. Len(q) - 1 : x = Tail(q)[i]
  <2>1. ASSUME NEW i \in 1 .. Len(q), x = q[i], i # 1
        PROVE  \E j \in 1 .. Len(q) - 1 : x = Tail(q)[j]
    <3>1. i - 1 \in 1 .. Len(q) - 1 /\ Tail(q)[i - 1] = q[(i - 1) + 1] /\ (i - 1) + 1 = i
      BY <1>1, <2>1
    <3> QED BY <2>1, <3>1
  <2>2. ASSUME NEW i \in 1 .. Len(q) - 1, x = Tail(q)[i]
        PROVE  \E j \in 1 .. Len(q) : x = q[j]
    <3>1. i + 1 \in 1 .. Len(q) /\ x = q[i + 1]
      BY <1>1, <2>2
    <3> QED BY <3>1
  <2>3. 1 \in 1 .. Len(q)
    BY <1>1
  <2> QED BY <2>1, <2>2, <2>3
<1> DEFINE new == steps \o Tail(q)
<1>3. /\ new \in Seq(StepRecord) /\ Len(steps) \in Nat /\ Len(new) = Len(steps) + (Len(q) - 1)
      /\ \A i \in 1 .. Len(steps) : new[i] = steps[i]
      /\ \A i \in 1 .. Len(q) - 1 : new[Len(steps) + i] = Tail(q)[i]
  BY <1>1
<1> HIDE DEF new
<1>4. ASSUME NEW x
      PROVE  (\E i \in 1 .. Len(new) : x = new[i]) <=>
                \/ \E i \in 1 .. Len(steps) : x = steps[i]
                \/ \E i \in 1 .. Len(q) - 1 : x = Tail(q)[i]
  <2>1. ASSUME NEW i \in 1 .. Len(new), x = new[i], i \notin 1 .. Len(steps)
        PROVE  \E j \in 1 .. Len(q) - 1 : x = Tail(q)[j]
    <3>1. i - Len(steps) \in 1 .. Len(q) - 1 /\ Len(steps) + (i - Len(steps)) = i
      BY <1>1, <1>3, <2>1
    <3>2. new[Len(steps) + (i - Len(steps))] = Tail(q)[i - Len(steps)]
      BY <1>3, <3>1
    <3> QED BY <2>1, <3>1, <3>2
  <2>2. ASSUME NEW i \in 1 .. Len(new), x = new[i], i \in 1 .. Len(steps)
        PROVE  \E j \in 1 .. Len(steps) : x = steps[j]
    BY <1>3, <2>2
  <2>3. ASSUME NEW i \in 1 .. Len(steps), x = steps[i]
        PROVE  \E j \in 1 .. Len(new) : x = new[j]
    <3>1. i \in 1 .. Len(new) /\ x = new[i]
      BY <1>1, <1>3, <2>3
    <3> QED BY <3>1
  <2>4. ASSUME NEW i \in 1 .. Len(q) - 1, x = Tail(q)[i]
        PROVE  \E j \in 1 .. Len(new) : x = new[j]
    <3>1. Len(steps) + i \in 1 .. Len(new) /\ x = new[Len(steps) + i]
      BY <1>1, <1>3, <2>4
    <3> QED BY <3>1
  <2> QED BY <2>1, <2>2, <2>3, <2>4
<1>5. \A x : Has(Tail(q), x) <=> \E i \in 1 .. Len(q) - 1 : x = Tail(q)[i]
  BY <1>1 DEF Has
<1>6. \A x : Has(q, x) <=> x = q[1] \/ Has(Tail(q), x)
  BY <1>2, <1>5 DEF Has
<1>7. \A x : Has(new, x) <=> Has(steps, x) \/ Has(Tail(q), x)
  BY <1>4, <1>5 DEF Has
<1> QED BY <1>3, <1>6, <1>7 DEF new

(* A step that is not about handling a message of the service, replaced by *)
(* such steps.                                                             *)
LEMMA Kept ==
    ASSUME StackType, NEW t \in Thread, todo[t] # <<>>, NEW steps \in Seq(StepRecord),
           Do(t, steps), NEW s, ~InHand(Top(t), s),
           \A i \in 1 .. Len(steps) : ~InHand(steps[i], s)
    PROVE  Handling(s)' = Handling(s)
<1>1. todo[t] \in Seq(StepRecord) /\ todo \in [Thread -> Seq(StepRecord)] /\ Worker \subseteq Thread
  BY DEF StackType, Thread
<1>2. steps \o Tail(todo[t]) \in Seq(StepRecord)
  BY <1>1, Below
<1>3. /\ StackType' /\ todo'[t] = steps \o Tail(todo[t])
      /\ \A u \in Thread : u # t => todo'[u] = todo[u]
  BY <1>1, <1>2 DEF StackType, Do
<1>4. ASSUME NEW x, InHand(x, s), NEW w \in Worker
      PROVE  Has(todo'[w], x) <=> Has(todo[w], x)
  <2>1. CASE w = t
    <3>1. x # todo[t][1] /\ ~Has(steps, x)
      BY <1>4 DEF Top, Has
    <3>2. /\ Has(todo[t], x) <=> x = todo[t][1] \/ Has(Tail(todo[t]), x)
          /\ Has(steps \o Tail(todo[t]), x) <=> Has(steps, x) \/ Has(Tail(todo[t]), x)
      BY <1>1, Below
    <3> QED BY <1>3, <2>1, <3>1, <3>2
  <2>2. CASE w # t
    BY <1>1, <1>3, <2>2
  <2> QED BY <2>1, <2>2
<1>5. ASSUME NEW x  PROVE x \in Handling(s)' <=> x \in Handling(s)
  BY <1>3, <1>4, HandlingDef, HandlingDefNext
<1> QED BY <1>5

(* A step that neither takes nor finishes a message of the service.        *)
LEMMA Kept1 ==
    ASSUME StackType, NEW t \in Thread, todo[t] # <<>>, NEW x \in StepRecord, Do(t, <<x>>),
           NEW s, ~InHand(Top(t), s), ~InHand(x, s)
    PROVE  Handling(s)' = Handling(s)
<1>1. <<x>> \in Seq(StepRecord) /\ \A i \in 1 .. Len(<<x>>) : ~InHand(<<x>>[i], s)
  OBVIOUS
<1> QED BY <1>1, Kept

(* Nothing of a handler is touched.                                        *)
HandsSame(S) == \A r \in S : Handling(r)' = Handling(r)

(* A thread gives up a step that handles nothing.                          *)
LEMMA Quiet0 ==
    ASSUME StackOK, NEW t \in Thread, todo[t] # <<>>, Top(t).pc \notin Hands,
           Do(t, << >>)
    PROVE  HandsSame(Service)
<1>1. << >> \in Seq(StepRecord) /\ \A i \in 1 .. Len(<< >>) : \A s : ~InHand(<< >>[i], s)
  BY DEF InHand
<1> QED BY <1>1, Kept DEF StackOK, StackType, InHand, HandsSame

(* It goes on to another such step.                                        *)
LEMMA Quiet1 ==
    ASSUME StackOK, NEW t \in Thread, todo[t] # <<>>, Top(t).pc \notin Hands,
           NEW x \in StepRecord, Do(t, <<x>>),
           x.pc \notin Hands
    PROVE  HandsSame(Service)
<1>1. <<x>> \in Seq(StepRecord) /\ \A i \in 1 .. Len(<<x>>) : \A s : ~InHand(<<x>>[i], s)
  BY DEF InHand
<1> QED BY <1>1, Kept DEF StackOK, StackType, InHand, HandsSame

(* It calls a function of one step.                                        *)
LEMMA Quiet2 ==
    ASSUME StackOK, NEW t \in Thread, todo[t] # <<>>, Top(t).pc \notin Hands,
           NEW x \in StepRecord, NEW y \in StepRecord, Do(t, <<x, y>>),
           x.pc \notin Hands, y.pc \notin Hands
    PROVE  HandsSame(Service)
<1>1. <<x, y>> \in Seq(StepRecord) /\ \A i \in 1 .. Len(<<x, y>>) : \A s : ~InHand(<<x, y>>[i], s)
  BY DEF InHand
<1> QED BY <1>1, Kept DEF StackOK, StackType, InHand, HandsSame

(* It calls a function of two steps.                                       *)
LEMMA Quiet3 ==
    ASSUME StackOK, NEW t \in Thread, todo[t] # <<>>, Top(t).pc \notin Hands,
           NEW x \in StepRecord, NEW y \in StepRecord, NEW z \in StepRecord, Do(t, <<x, y, z>>),
           x.pc \notin Hands, y.pc \notin Hands, z.pc \notin Hands
    PROVE  HandsSame(Service)
<1>1. <<x, y, z>> \in Seq(StepRecord) /\ \A i \in 1 .. Len(<<x, y, z>>) : \A s : ~InHand(<<x, y, z>>[i], s)
  BY DEF InHand
<1> QED BY <1>1, Kept DEF StackOK, StackType, InHand, HandsSame

(* A call, and a worker that is woken.                                     *)
LEMMA KeptCall ==
    ASSUME StackType, NEW t \in Thread, NEW x \in StepRecord, Call(t, x), NEW s, ~InHand(x, s)
    PROVE  Handling(s)' = Handling(s)
<1> DEFINE q == todo[t]
           new == <<x>> \o q
<1>1. q \in Seq(StepRecord) /\ Len(q) \in Nat /\ todo \in [Thread -> Seq(StepRecord)]
  BY DEF StackType
<1>2. /\ new \in Seq(StepRecord) /\ Len(new) = Len(q) + 1 /\ new[1] = x
      /\ \A i \in 1 .. Len(q) : new[i + 1] = q[i]
  BY <1>1
<1>3. StackType' /\ todo'[t] = new /\ \A u \in Thread : u # t => todo'[u] = todo[u]
  BY <1>1, <1>2 DEF StackType, Call
<1> HIDE DEF q, new
<1>4. ASSUME NEW y, y # x  PROVE Has(new, y) <=> Has(q, y)
  <2>1. ASSUME NEW i \in 1 .. Len(new), y = new[i]  PROVE \E j \in 1 .. Len(q) : y = q[j]
    <3>1. i # 1
      BY <1>2, <1>4, <2>1
    <3>2. i - 1 \in 1 .. Len(q) /\ (i - 1) + 1 = i
      BY <1>1, <1>2, <3>1
    <3> QED BY <1>2, <2>1, <3>2
  <2>2. ASSUME NEW i \in 1 .. Len(q), y = q[i]  PROVE \E j \in 1 .. Len(new) : y = new[j]
    <3>1. i + 1 \in 1 .. Len(new) /\ y = new[i + 1]
      BY <1>1, <1>2, <2>2
    <3> QED BY <3>1
  <2> QED BY <2>1, <2>2 DEF Has
<1>5. ASSUME NEW y, InHand(y, s), NEW w \in Worker  PROVE Has(todo'[w], y) <=> Has(todo[w], y)
  <2>1. y # x /\ w \in Thread
    BY <1>5 DEF Thread
  <2>2. CASE w = t
    BY <1>3, <1>4, <2>1, <2>2 DEF q
  <2>3. CASE w # t
    BY <1>3, <2>1, <2>3
  <2> QED BY <2>2, <2>3
<1>6. ASSUME NEW y  PROVE y \in Handling(s)' <=> y \in Handling(s)
  BY <1>3, <1>5, HandlingDef, HandlingDefNext
<1> QED BY <1>6

(* Waking workers takes no message out of anyone's hands.                  *)
LEMMA KeptWake ==
    ASSUME StackOK, StackOK', NEW W \in SUBSET Waiting,
           \A t \in Thread : todo'[t] = IF t \in W THEN <<Step("woken", None)>> ELSE todo[t], NEW s
    PROVE  Handling(s)' = Handling(s)
<1>1. StackType /\ StackType' /\ Worker \subseteq Thread
  BY DEF StackOK, StackType, Thread
<1>2. ASSUME NEW y, InHand(y, s), NEW w \in Worker  PROVE Has(todo'[w], y) <=> Has(todo[w], y)
  <2>1. CASE w \in W
    <3>1. At(w, "wait") /\ w \in Thread
      BY <1>1, <2>1 DEF Waiting
    <3>2. todo[w] # <<>> /\ Top(w).pc = "wait"
      BY <3>1 DEF At, Top
    <3>3. Height(w) = 0
      BY <3>1, <3>2, Topmost DEF Bottom
    <3>4. todo[w] \in Seq(StepRecord) /\ Len(todo[w]) = 1
      BY <1>1, <3>1, <3>3 DEF StackType, Height
    <3>5. ~Has(todo[w], y)
      BY <1>2, <3>2, <3>4 DEF Has, Top, InHand, Hands
    <3>6. ~Has(todo'[w], y)
      BY <1>2, <2>1, <3>1, UnnamedTypes DEF Has, InHand, Hands, Unnamed
    <3> QED BY <3>5, <3>6
  <2>2. CASE w \notin W
    BY <1>1, <2>2
  <2> QED BY <2>1, <2>2
<1>3. ASSUME NEW y  PROVE y \in Handling(s)' <=> y \in Handling(s)
  BY <1>1, <1>2, HandlingDef, HandlingDefNext
<1> QED BY <1>3

-----------------------------------------------------------------------------
(* Whoever handles a message of a service is at a place.                   *)
LEMMA Handler ==
    ASSUME StackType, NEW s, NEW x \in Handling(s)
    PROVE  \E w \in Worker, d \in Nat :
              <<w, d>> \in Places(Hands, s) /\ d < Len(todo[w]) /\ x = todo[w][Len(todo[w]) - d]
<1>1. PICK w \in Worker : Has(todo[w], x) /\ InHand(x, s)
  BY HandlingDef
<1>2. PICK i \in 1 .. Len(todo[w]) : x = todo[w][i]
  BY <1>1 DEF Has
<1>3. w \in Thread /\ todo[w] \in Seq(StepRecord) /\ Len(todo[w]) \in Nat
  BY DEF StackType, Thread
<1>4. /\ Len(todo[w]) - i \in Nat /\ Len(todo[w]) - i < Len(todo[w])
      /\ Len(todo[w]) - (Len(todo[w]) - i) = i
  BY <1>3
<1>5. Names(todo, Hands, s, w, Len(todo[w]) - i)
  BY <1>1, <1>2, <1>4 DEF Names, InHand
<1>6. <<w, Len(todo[w]) - i>> \in Places(Hands, s)
  BY <1>3, <1>4, <1>5, PlaceDef
<1> QED BY <1>2, <1>4, <1>6

(* No worker in the middle of a message, no message in hand.               *)
LEMMA NoHandler ==
    ASSUME StackType, NEW s, Places(Hands, s) = {}
    PROVE  Handling(s) = {}
  BY Handler

(* A worker alone with the service: what it does is what is handled.       *)
LEMMA SoleHandler ==
    ASSUME StackType, NEW t \in Worker, todo[t] # <<>>, NEW s, Places(Hands, s) \subseteq {Here(t)}
    PROVE  Handling(s) = IF InHand(Top(t), s) THEN {Top(t)} ELSE {}
<1>1. todo[t] \in Seq(StepRecord) /\ Len(todo[t]) \in Nat /\ Len(todo[t]) > 0
  BY EmptySeq DEF StackType, Thread
<1>2. ASSUME NEW x \in Handling(s)  PROVE x = Top(t)
  <2>1. PICK w \in Worker, d \in Nat : <<w, d>> \in Places(Hands, s) /\ x = todo[w][Len(todo[w]) - d]
    BY Handler
  <2>2. w = t /\ d = Len(todo[t]) - 1
    BY <2>1 DEF Here, Height
  <2>3. Len(todo[t]) - d = 1
    BY <1>1, <2>2
  <2> QED BY <2>1, <2>2, <2>3 DEF Top
<1>3. \A x \in Handling(s) : InHand(x, s)
  BY HandlingDef
<1>4. ASSUME InHand(Top(t), s)  PROVE Top(t) \in Handling(s)
  <2>1. Has(todo[t], Top(t))
    BY <1>1 DEF Has, Top
  <2> QED BY <1>4, <2>1, HandlingDef
<1> QED BY <1>2, <1>3, <1>4

(* The worker that holds the queue decides what is in hand next.           *)
LEMMA SoleHandlerNext ==
    ASSUME StackOK, NEW t \in Worker, todo[t] # <<>>, Height(t) = 0, NEW s,
           Places(Hands, s) \subseteq {Here(t)}, NEW x \in StepRecord, Do(t, <<x>>)
    PROVE  Handling(s)' = IF InHand(x, s) THEN {x} ELSE {}
<1>1. todo[t] \in Seq(StepRecord) /\ Len(todo[t]) = 1 /\ StackType /\ t \in Thread /\ Worker \subseteq Thread
  BY DEF StackOK, StackType, Thread, Height
<1>2. Tail(todo[t]) \in Seq(StepRecord) /\ Len(Tail(todo[t])) = 0
  BY <1>1
<1>3. <<x>> \in Seq(StepRecord) /\ \A y : Has(<<x>>, y) <=> y = x
  BY DEF Has
<1>4. ~\E y : Has(Tail(todo[t]), y)
  BY <1>2 DEF Has
<1>5. <<x>> \o Tail(todo[t]) \in Seq(StepRecord) /\ \A y : Has(<<x>> \o Tail(todo[t]), y) <=> y = x
  BY <1>1, <1>3, <1>4, Below
<1>6. /\ StackType' /\ todo'[t] = <<x>> \o Tail(todo[t])
      /\ \A u \in Thread : u # t => todo'[u] = todo[u]
  BY <1>1, <1>5 DEF StackType, Do
<1>7. ASSUME NEW w \in Worker, w # t, NEW y, InHand(y, s)  PROVE ~Has(todo'[w], y)
  <2>1. SUFFICES ASSUME NEW i \in 1 .. Len(todo[w]), y = todo[w][i]  PROVE FALSE
    BY <1>1, <1>6, <1>7 DEF Has
  <2>2. w \in Thread /\ todo[w] \in Seq(StepRecord) /\ Len(todo[w]) \in Nat
    BY <1>1 DEF StackType
  <2>3. Len(todo[w]) - i \in Nat /\ Len(todo[w]) - i < Len(todo[w]) /\ Len(todo[w]) - (Len(todo[w]) - i) = i
    BY <2>2
  <2>4. Names(todo, Hands, s, w, Len(todo[w]) - i)
    BY <1>7, <2>1, <2>3 DEF Names, InHand
  <2>5. <<w, Len(todo[w]) - i>> \in Places(Hands, s)
    BY <1>1, <2>2, <2>3, <2>4, PlaceDef
  <2> QED BY <1>7, <2>5 DEF Here
<1>8. ASSUME NEW y  PROVE y \in Handling(s)' <=> y = x /\ InHand(x, s)
  <2>1. y \in Handling(s)' <=> InHand(y, s) /\ \E w \in Worker : Has(todo'[w], y)
    BY <1>6, HandlingDefNext
  <2>2. Has(todo'[t], y) <=> y = x
    BY <1>5, <1>6
  <2> QED BY <1>7, <2>1, <2>2
<1> QED BY <1>8

-----------------------------------------------------------------------------
(* The mailboxes of the services S are as they were.                       *)
LivesSame(S) == \A r \in S : LifeOf(r)' = LifeOf(r)
InitsSame(S) == \A r \in S : ctx'[r].init = ctx[r].init
BoxesSame(S) == \A r \in S : mq'[r].msgs = mq[r].msgs

(* The message of the one step in S.                                       *)
MessageIn(S) == IF S = {} THEN None ELSE (CHOOSE step \in S : TRUE).m

(* The message in hand, from the set of those who have one.                *)
LEMMA BusyDef ==
    /\ \A r : Busy(r) = MessageIn(Handling(r)) /\ Busy(r)' = MessageIn(Handling(r)')
    /\ MessageIn({}) = None /\ \A x : MessageIn({x}) = x.m
<1>1. \A r : Busy(r) = MessageIn(Handling(r))
  BY DEF Busy, MessageIn
<1>2. \A r : Busy(r)' = MessageIn(Handling(r)')
  BY DEF Busy, MessageIn
<1>3. MessageIn({}) = None
  BY DEF MessageIn
<1>4. ASSUME NEW x  PROVE MessageIn({x}) = x.m
  <2>1. (CHOOSE step \in {x} : TRUE) = x
    OBVIOUS
  <2> QED BY <2>1 DEF MessageIn
<1> QED BY <1>1, <1>2, <1>3, <1>4

(* When the mailbox's variables stay as they are.                          *)
LEMMA SameVars ==
    /\ LivesSame(Service) => UNCHANGED [s \in Service |-> LifeOf(s)]
    /\ InitsSame(Service) => UNCHANGED {s \in Service : ctx[s].init}
    /\ BoxesSame(Service) => UNCHANGED [s \in Service |-> mq[s].msgs]
    /\ HandsSame(Service) => UNCHANGED [s \in Service |-> Busy(s)]
<1>1. LivesSame(Service) => UNCHANGED [s \in Service |-> LifeOf(s)]
  BY DEF LivesSame
<1>2. InitsSame(Service) => UNCHANGED {s \in Service : ctx[s].init}
  BY DEF InitsSame
<1>3. BoxesSame(Service) => UNCHANGED [s \in Service |-> mq[s].msgs]
  BY DEF BoxesSame
<1>4. HandsSame(Service) => UNCHANGED [s \in Service |-> Busy(s)]
  BY BusyDef DEF HandsSame
<1> QED BY <1>1, <1>2, <1>3, <1>4

(* A step that touches none of them stutters.                              *)
LEMMA Stutters ==
    ASSUME LivesSame(Service), InitsSame(Service), BoxesSame(Service), HandsSame(Service)
    PROVE  UNCHANGED MB!vars
  BY SameVars DEF MB!vars, Busy

(* Each kind of change is an action of Mailbox: a service comes into       *)
(* being,                                                                  *)
LEMMA Opens ==
    ASSUME NEW s \in Service, LifeOf(s) = "none", LifeOf(s)' = "open", LivesSame(Service \ {s}),
           InitsSame(Service), BoxesSame(Service), HandsSame(Service)
    PROVE  MB!Open(s)
  BY SameVars DEF MB!Open, MB!Move, Busy, LivesSame

(* leaves its slot,                                                        *)
LEMMA Closes ==
    ASSUME NEW s \in Service, LifeOf(s) = "open", LifeOf(s)' = "closed", LivesSame(Service \ {s}),
           InitsSame(Service), BoxesSame(Service), HandsSame(Service)
    PROVE  MB!Close(s)
  BY SameVars DEF MB!Close, MB!Move, Busy, LivesSame

(* loses its context,                                                      *)
LEMMA Dies ==
    ASSUME NEW s \in Service, LifeOf(s) = "closed", LifeOf(s)' = "dead", LivesSame(Service \ {s}),
           InitsSame(Service), BoxesSame(Service), HandsSame(Service), Handling(s) = {}
    PROVE  MB!Die(s)
  BY SameVars DEF MB!Die, MB!Move, Busy, LivesSame

(* ends its init,                                                          *)
LEMMA Readies ==
    ASSUME NEW s \in Service, LifeOf(s) \in {"open", "closed"}, ~ctx[s].init, ctx'[s].init,
           LivesSame(Service), InitsSame(Service \ {s}), BoxesSame(Service), HandsSame(Service)
    PROVE  MB!Ready(s)
  BY SameVars DEF MB!Ready, Busy, InitsSame

(* gets a message,                                                         *)
LEMMA Posts ==
    ASSUME NEW s \in Service, LifeOf(s) \in {"open", "closed"}, NEW m \in Msg,
           mq[s].msgs \in Seq(Msg), mq'[s].msgs = Append(mq[s].msgs, m),
           LivesSame(Service), InitsSame(Service), BoxesSame(Service \ {s}), HandsSame(Service)
    PROVE  MB!Post(s)
<1>1. mq'[s].msgs # mq[s].msgs
  <2>1. Len(Append(mq[s].msgs, m)) = Len(mq[s].msgs) + 1 /\ Len(mq[s].msgs) \in Nat
    OBVIOUS
  <2> QED BY <2>1
<1>2. [r \in Service |-> mq[r].msgs]' =
          [[r \in Service |-> mq[r].msgs] EXCEPT ![s] = Append(@, m)]
  BY DEF BoxesSame
<1>3. [r \in Service |-> mq[r].msgs]'[s] # [r \in Service |-> mq[r].msgs][s]
  BY <1>1
<1>4. \E k \in Msg : [r \in Service |-> mq[r].msgs]' =
          [[r \in Service |-> mq[r].msgs] EXCEPT ![s] = Append(@, k)]
  BY <1>2
<1> QED BY <1>3, <1>4, SameVars DEF MB!Post, Busy

(* loses one unread when its queue is freed,                               *)
LEMMA Discards ==
    ASSUME NEW s \in Service, LifeOf(s) = "dead", mq[s].msgs # <<>>,
           mq'[s].msgs = Tail(mq[s].msgs),
           LivesSame(Service), InitsSame(Service), BoxesSame(Service \ {s}), HandsSame(Service)
    PROVE  MB!Discard(s)
  BY SameVars DEF MB!Discard, Busy, BoxesSame

(* has one taken by a worker,                                              *)
LEMMA Takes ==
    ASSUME NEW s \in Service, LifeOf(s) \in {"open", "closed"}, ctx[s].init,
           mq[s].msgs # <<>>, mq'[s].msgs = Tail(mq[s].msgs), Handling(s) = {},
           NEW x, Handling(s)' = {x}, x.m = Head(mq[s].msgs),
           LivesSame(Service), InitsSame(Service), BoxesSame(Service \ {s}), HandsSame(Service \ {s})
    PROVE  MB!Take(s)
<1>1. Busy(s) = None /\ Busy(s)' = Head(mq[s].msgs) /\ \A r \in Service : r # s => Busy(r)' = Busy(r)
  BY BusyDef DEF HandsSame
<1>2. [r \in Service |-> Busy(r)]' = [[r \in Service |-> Busy(r)] EXCEPT ![s] = Head(mq[s].msgs)]
  BY <1>1
<1>3. [r \in Service |-> mq[r].msgs]' = [[r \in Service |-> mq[r].msgs] EXCEPT ![s] = Tail(@)]
  BY DEF BoxesSame
<1> QED BY <1>1, <1>2, <1>3, SameVars DEF MB!Take, Busy

(* and has it finished.                                                    *)
LEMMA Finishes ==
    ASSUME NEW s \in Service, NEW x, Handling(s) = {x}, x.m # None, Handling(s)' = {},
           LivesSame(Service), InitsSame(Service), BoxesSame(Service), HandsSame(Service \ {s})
    PROVE  MB!Finish(s)
<1>1. Busy(s) = x.m /\ Busy(s)' = None /\ \A r \in Service : r # s => Busy(r)' = Busy(r)
  BY BusyDef DEF HandsSame
<1>2. [r \in Service |-> Busy(r)]' = [[r \in Service |-> Busy(r)] EXCEPT ![s] = None]
  BY <1>1
<1> QED BY <1>1, <1>2, SameVars DEF MB!Finish, Busy

-----------------------------------------------------------------------------
(* A step that the mailboxes do not see.                                   *)
LEMMA Silent ==
    ASSUME \A r \in Service : /\ ctx'[r].ref = Unborn <=> ctx[r].ref = Unborn
                              /\ ctx'[r].init = ctx[r].init
                              /\ mq'[r].release = mq[r].release /\ mq'[r].msgs = mq[r].msgs
                              /\ r \in slot' <=> r \in slot,
           HandsSame(Service)
    PROVE  UNCHANGED MB!vars
<1>1. LivesSame(Service)
  BY DEF LivesSame, LifeOf
<1>2. InitsSame(Service) /\ BoxesSame(Service)
  BY DEF InitsSame, BoxesSame
<1> QED BY <1>1, <1>2, Stutters

(* A context that somebody holds belongs to a mailbox in use.              *)
LEMMA HeldLife ==
    ASSUME DataOK, NEW s \in Service, ServiceOK(s), Places(HoldsRef, s) # {}
    PROVE  LifeOf(s) \in {"open", "closed"}
  BY Held DEF LifeOf

(* skynet_send finds the context: nothing is in the mailbox yet.           *)
LEMMA SendMaps ==
    ASSUME IInv, NEW t \in Thread, Send(t)
    PROVE  UNCHANGED MB!vars
<1>1. At(t, "send") /\ slot' = slot /\ mq' = mq
  BY DEF Send
<1>2. /\ todo[t] # <<>> /\ Top(t).pc = "send" /\ Top(t) \in StepRecord
      /\ DataOK /\ StackOK /\ \A r \in Service : ServiceOK(r)
  BY <1>1, Acting
<1>3. PICK s \in Service : s = Top(t).s
  BY <1>2, FieldTypes DEF WithMessage
<1>4. Top(t).m \in Msg /\ Top(t).pc \notin Hands
  BY <1>2, FieldTypes DEF WithMessage, Hands
<1>5. CASE s \in slot
  <2>1. ctx' = [ctx EXCEPT ![s].ref = ctx[s].ref + 1] /\ ctx[s].ref + 1 \in Nat /\ ctx[s].ref # Unborn
    BY <1>2, <1>3, <1>5, Held DEF Send
  <2>2. ctx[s].ref + 1 # Unborn /\ ctx[s].ref + 1 \in Nat \cup {Unborn}
    BY <2>1 DEF Unborn
  <2>3. /\ ctx'[s].ref = ctx[s].ref + 1 /\ ctx'[s].init = ctx[s].init
        /\ \A r \in Service : r # s => ctx'[r] = ctx[r]
    BY <1>2, <2>1, <2>2, CtxRef
  <2>4. Do(t, <<StepMsg("push", s, Top(t).m, 0), Step("release", s)>>)
    BY <1>3, <1>5 DEF Send
  <2>5. HandsSame(Service)
    BY <1>2, <1>4, <2>4, StepTypes, Quiet2 DEF Hands, WithMessage, Plain
  <2> QED BY <1>1, <2>1, <2>2, <2>3, <2>5, Silent
<1>6. CASE s \notin slot
  <2>1. ctx' = ctx /\ Do(t, <<>>)
    BY <1>3, <1>6 DEF Send
  <2>2. HandsSame(Service)
    BY <1>2, <1>4, <2>1, Quiet0
  <2> QED BY <1>1, <2>1, <2>2, Silent
<1> QED BY <1>5, <1>6

(* A message is posted while its service cannot die.                       *)
LEMMA PushMaps ==
    ASSUME IInv, NEW t \in Thread, Push(t)
    PROVE  MB!Next
<1>1. At(t, "push") /\ slot' = slot /\ ctx' = ctx /\ Do(t, <<>>)
  BY DEF Push
<1>2. /\ todo[t] # <<>> /\ Top(t).pc = "push" /\ Top(t) \in StepRecord
      /\ DataOK /\ StackOK /\ \A r \in Service : ServiceOK(r)
      /\ \A K, r : Here(t) \in Places(K, r) <=> Top(t).s = r /\ "push" \in K
      /\ Height(t) \in Nat
  BY <1>1, Acting
<1>3. PICK s \in Service : s = Top(t).s
  BY <1>2, FieldTypes DEF WithMessage
<1>4. PICK m \in Msg : m = Top(t).m
  BY <1>2, FieldTypes DEF WithMessage
<1>5. LifeOf(s) \in {"open", "closed"}
  <2>1. <<t, Height(t)>> \in Places({"push"}, s)
    BY <1>2, <1>3 DEF Here
  <2> QED BY <1>2, <2>1, PushAlive, HeldLife
<1>6. mq' = [mq EXCEPT ![s].msgs = Append(mq[s].msgs, m), ![s].in_global = TRUE]
  BY <1>3, <1>4 DEF Push, MqPush
<1>7. /\ mq'[s].msgs = Append(mq[s].msgs, m) /\ mq'[s].release = mq[s].release
      /\ \A r \in Service : r # s => mq'[r] = mq[r]
      /\ mq[s].msgs \in Seq(Msg)
  BY <1>2, <1>6 DEF DataOK, Queue
<1>8. HandsSame(Service)
  BY <1>1, <1>2, Quiet0 DEF Hands
<1>9. LivesSame(Service) /\ InitsSame(Service) /\ BoxesSame(Service \ {s})
  BY <1>1, <1>7 DEF LivesSame, LifeOf, InitsSame, BoxesSame
<1>10. MB!Post(s)
  BY <1>5, <1>7, <1>8, <1>9, Posts
<1> QED BY <1>10 DEF MB!Next

(* A reference is given back; the context is marked by the next step.      *)
LEMMA ReleaseMaps ==
    ASSUME IInv, NEW t \in Thread, Release(t)
    PROVE  UNCHANGED MB!vars
<1>1. At(t, "release") /\ slot' = slot /\ mq' = mq
  BY DEF Release
<1>2. /\ todo[t] # <<>> /\ Top(t).pc = "release" /\ Top(t) \in StepRecord
      /\ DataOK /\ StackOK /\ \A r \in Service : ServiceOK(r)
      /\ \A K, r : Here(t) \in Places(K, r) <=> Top(t).s = r /\ "release" \in K
  BY <1>1, Acting
<1>3. PICK s \in Service : s = Top(t).s
  BY <1>2, FieldTypes DEF Plain
<1>4. Places(HoldsRef, s) # {}
  BY <1>2, <1>3 DEF HoldsRef
<1>5. ctx[s].ref # Unborn /\ ctx[s].ref - 1 \in Nat
  BY <1>2, <1>4, Held
<1>6. ctx[s].ref - 1 # Unborn /\ ctx[s].ref - 1 \in Nat \cup {Unborn}
      /\ ctx' = [ctx EXCEPT ![s].ref = ctx[s].ref - 1]
  BY <1>3, <1>5 DEF Unborn, Release
<1>7. /\ ctx'[s].ref = ctx[s].ref - 1 /\ ctx'[s].init = ctx[s].init
      /\ \A r \in Service : r # s => ctx'[r] = ctx[r]
  BY <1>2, <1>6, CtxRef
<1>8. HandsSame(Service)
  <2>1. CASE ctx[s].ref = 1
    BY <1>2, <1>3, <2>1, StepTypes, Quiet1 DEF Release, Hands, Plain
  <2>2. CASE ctx[s].ref # 1
    BY <1>2, <1>3, <2>2, Quiet0 DEF Release, Hands
  <2> QED BY <2>1, <2>2
<1> QED BY <1>1, <1>5, <1>6, <1>7, <1>8, Silent

(* The last reference is gone, so no handler is left and the service was   *)
(* retired: the mailbox dies.                                              *)
LEMMA DeleteMaps ==
    ASSUME IInv, NEW t \in Thread, Delete(t)
    PROVE  MB!Next
<1>1. At(t, "delete") /\ slot' = slot /\ Do(t, <<>>)
  BY DEF Delete
<1>2. /\ todo[t] # <<>> /\ Top(t).pc = "delete" /\ Top(t) \in StepRecord
      /\ DataOK /\ StackOK /\ \A r \in Service : ServiceOK(r)
      /\ \A K, r : Here(t) \in Places(K, r) <=> Top(t).s = r /\ "delete" \in K
  BY <1>1, Acting
<1>3. PICK s \in Service : s = Top(t).s
  BY <1>2, FieldTypes DEF Plain
<1>4. RefOK(s) /\ QueueOK(s)
  BY <1>2 DEF ServiceOK
<1>5. ctx[s].alive /\ ctx[s].ref = 0 /\ ~mq[s].release
  BY <1>2, <1>3, <1>4 DEF RefOK, QueueOK
<1>6. Places(HoldsRef, s) = {} /\ s \notin slot
  BY <1>2, <1>5, Held
<1>7. Handling(s) = {}
  <2>1. Places(Hands, s) \subseteq Places(HoldsRef, s)
    BY <1>2, Wider DEF Hands, HoldsRef
  <2> QED BY <1>2, <1>6, <2>1, NoHandler DEF StackOK, StackType
<1>8. /\ mq' = [mq EXCEPT ![s].release = TRUE]
      /\ ctx' = [ctx EXCEPT ![s].alive = FALSE]
  BY <1>3 DEF Delete, MarkRelease
<1>9. /\ mq'[s].release /\ mq'[s].msgs = mq[s].msgs /\ \A r \in Service : r # s => mq'[r] = mq[r]
      /\ \A r \in Service : ctx'[r].ref = ctx[r].ref /\ ctx'[r].init = ctx[r].init
  BY <1>2, <1>8 DEF DataOK, Queue, Context
<1>10. HandsSame(Service)
  BY <1>1, <1>2, Quiet0 DEF Hands
<1>11. LifeOf(s) = "closed" /\ LifeOf(s)' = "dead"
  BY <1>1, <1>5, <1>6, <1>9 DEF LifeOf, Unborn
<1>12. LivesSame(Service \ {s}) /\ InitsSame(Service) /\ BoxesSame(Service)
  BY <1>1, <1>9 DEF LivesSame, LifeOf, InitsSame, BoxesSame
<1>13. MB!Die(s)
  BY <1>7, <1>10, <1>11, <1>12, Dies
<1> QED BY <1>13 DEF MB!Next

(* Leaving the slot closes the mailbox.                                    *)
LEMMA RetireMaps ==
    ASSUME IInv, NEW t \in Thread, Retire(t)
    PROVE  MB!Next \/ UNCHANGED MB!vars
<1>1. At(t, "retire") /\ ctx' = ctx /\ mq' = mq
  BY DEF Retire
<1>2. /\ todo[t] # <<>> /\ Top(t).pc = "retire" /\ Top(t) \in StepRecord
      /\ DataOK /\ StackOK /\ \A r \in Service : ServiceOK(r)
  BY <1>1, Acting
<1>3. PICK s \in Service : s = Top(t).s
  BY <1>2, FieldTypes DEF Plain
<1>4. slot' = slot \ {s}
  BY <1>3 DEF Retire
<1>5. CASE s \in slot
  <2>1. HandsSame(Service)
    BY <1>2, <1>3, <1>5, StepTypes, Quiet1 DEF Retire, Hands, Plain
  <2>2. LifeOf(s) = "open" /\ LifeOf(s)' = "closed"
    BY <1>1, <1>2, <1>4, <1>5, Held DEF LifeOf
  <2>3. LivesSame(Service \ {s}) /\ InitsSame(Service) /\ BoxesSame(Service)
    BY <1>1, <1>4 DEF LivesSame, LifeOf, InitsSame, BoxesSame
  <2>4. MB!Close(s)
    BY <2>1, <2>2, <2>3, Closes
  <2> QED BY <2>4 DEF MB!Next
<1>6. CASE s \notin slot
  <2>1. HandsSame(Service)
    BY <1>2, <1>3, <1>6, Quiet0 DEF Retire, Hands
  <2> QED BY <1>1, <1>4, <1>6, <2>1, Silent
<1> QED BY <1>5, <1>6

(* A launch finds nothing of an earlier service in the mailbox.            *)
LEMMA NewMaps ==
    ASSUME IInv, NEW t \in Thread, New(t)
    PROVE  MB!Next
<1>1. At(t, "new")
  BY DEF New
<1>2. /\ todo[t] # <<>> /\ Top(t).pc = "new" /\ Top(t) \in StepRecord
      /\ DataOK /\ StackOK /\ \A r \in Service : ServiceOK(r)
      /\ \A K, r : Here(t) \in Places(K, r) <=> Top(t).s = r /\ "new" \in K
  BY <1>1, Acting
<1>3. PICK s \in Service : s = Top(t).s
  BY <1>2, FieldTypes DEF Plain
<1>4. BornOK(s) /\ Places({"new"}, s) # {}
  BY <1>2, <1>3 DEF ServiceOK
<1>5. ctx[s].ref = Unborn /\ ~ctx[s].init /\ mq[s].msgs = <<>>
  BY <1>4 DEF BornOK
<1>6. /\ slot' = slot \cup {s} /\ Do(t, <<Step("init", s)>>)
      /\ ctx' = [ctx EXCEPT ![s] = [ref |-> 2, init |-> FALSE, alive |-> TRUE]]
      /\ mq' = [mq EXCEPT ![s] = NewQueue]
  BY <1>3 DEF New
<1>7. /\ ctx'[s].ref = 2 /\ ~ctx'[s].init /\ \A r \in Service : r # s => ctx'[r] = ctx[r]
      /\ mq'[s].msgs = <<>> /\ ~mq'[s].release /\ \A r \in Service : r # s => mq'[r] = mq[r]
  BY <1>2, <1>6 DEF DataOK, NewQueue
<1>8. HandsSame(Service)
  BY <1>2, <1>6, StepTypes, Quiet1 DEF Hands, Plain
<1>9. LifeOf(s) = "none" /\ LifeOf(s)' = "open"
  <2>1. ctx'[s].ref # Unborn /\ s \in slot'
    BY <1>6, <1>7 DEF Unborn
  <2>2. LifeOf(s) = "none"
    <3>1. ~mq[s].release /\ s \notin slot
      BY <1>2, <1>4, <1>5 DEF BornOK, ServiceOK, RefOK
    <3> QED BY <1>5, <3>1 DEF LifeOf
  <2>3. ~mq'[s].release
    BY <1>7
  <2>4. LifeOf(s)' = "open"
    BY <2>1, <2>3 DEF LifeOf
  <2> QED BY <2>2, <2>4
<1>10. ctx'[s].init = ctx[s].init
  <2>1. ctx[s].init \in BOOLEAN /\ ctx'[s].init = FALSE
    BY <1>2, <1>6 DEF DataOK, Context
  <2> QED BY <1>5, <2>1
<1>11. LivesSame(Service \ {s}) /\ InitsSame(Service) /\ BoxesSame(Service)
  <2>1. \A r \in Service \ {s} : r \in slot' <=> r \in slot
    BY <1>6
  <2>2. LivesSame(Service \ {s})
    BY <1>7, <2>1 DEF LivesSame, LifeOf
  <2> QED BY <1>5, <1>7, <1>10, <2>2 DEF InitsSame, BoxesSame
<1>12. MB!Open(s)
  BY <1>8, <1>9, <1>11, Opens
<1> QED BY <1>12 DEF MB!Next

(* A failed launch only plans what follows.                                *)
LEMMA InitFailedMaps ==
    ASSUME IInv, NEW t \in Thread, InitFailed(t)
    PROVE  UNCHANGED MB!vars
<1>1. At(t, "init") /\ slot' = slot /\ ctx' = ctx /\ mq' = mq
  BY DEF InitFailed
<1>2. todo[t] # <<>> /\ Top(t).pc = "init" /\ Top(t) \in StepRecord /\ StackOK
  BY <1>1, Acting
<1>3. PICK s \in Service : s = Top(t).s
  BY <1>2, FieldTypes DEF Plain
<1>4. HandsSame(Service)
  BY <1>2, <1>3, StepTypes, Quiet3 DEF InitFailed, Hands, Plain
<1> QED BY <1>1, <1>4, Silent

(* So does a launch that succeeded.                                        *)
LEMMA InitDoneMaps ==
    ASSUME IInv, NEW t \in Thread, InitDone(t)
    PROVE  UNCHANGED MB!vars
<1>1. At(t, "init") /\ slot' = slot /\ mq' = mq
  BY DEF InitDone
<1>2. /\ todo[t] # <<>> /\ Top(t).pc = "init" /\ Top(t) \in StepRecord
      /\ DataOK /\ StackOK /\ \A r \in Service : ServiceOK(r)
      /\ \A K, r : Here(t) \in Places(K, r) <=> Top(t).s = r /\ "init" \in K
  BY <1>1, Acting
<1>3. PICK s \in Service : s = Top(t).s
  BY <1>2, FieldTypes DEF Plain
<1>4. Places(HoldsRef, s) # {}
  BY <1>2, <1>3 DEF HoldsRef
<1>5. ctx[s].ref # Unborn /\ ctx[s].ref - 1 \in Nat
  BY <1>2, <1>4, Held
<1>6. ctx[s].ref - 1 # Unborn /\ ctx[s].ref - 1 \in Nat \cup {Unborn}
      /\ ctx' = [ctx EXCEPT ![s].ref = ctx[s].ref - 1]
  BY <1>3, <1>5 DEF Unborn, InitDone
<1>7. /\ ctx'[s].ref = ctx[s].ref - 1 /\ ctx'[s].init = ctx[s].init
      /\ \A r \in Service : r # s => ctx'[r] = ctx[r]
  BY <1>2, <1>6, CtxRef
<1>8. PICK next \in {"delete", "ready"} : Do(t, <<Step(next, s), Step("gpush", s)>>)
  BY <1>3 DEF InitDone
<1>9. HandsSame(Service)
  BY <1>2, <1>8, StepTypes, Quiet2 DEF Hands, Plain
<1> QED BY <1>1, <1>5, <1>6, <1>7, <1>9, Silent

(* A launch marks its service ready once; a service that is gone already   *)
(* stays as it is.                                                         *)
LEMMA SetReadyMaps ==
    ASSUME IInv, NEW t \in Thread, SetReady(t)
    PROVE  MB!Next \/ UNCHANGED MB!vars
<1>1. At(t, "ready") /\ slot' = slot /\ mq' = mq /\ Do(t, <<>>)
  BY DEF SetReady
<1>2. /\ todo[t] # <<>> /\ Top(t).pc = "ready" /\ Top(t) \in StepRecord
      /\ DataOK /\ StackOK /\ \A r \in Service : ServiceOK(r)
      /\ \A K, r : Here(t) \in Places(K, r) <=> Top(t).s = r /\ "ready" \in K
  BY <1>1, Acting
<1>3. PICK s \in Service : s = Top(t).s
  BY <1>2, FieldTypes DEF Plain
<1>4. RefOK(s) /\ QueueOK(s) /\ BornOK(s) /\ ReadyOK(s)
  BY <1>2 DEF ServiceOK
<1>5. ~ctx[s].init
  BY <1>2, <1>3, <1>4 DEF ReadyOK
<1>6. ctx' = [ctx EXCEPT ![s].init = ctx[s].alive]
  BY <1>3 DEF SetReady
<1>7. /\ ctx'[s].init = ctx[s].alive /\ ctx'[s].ref = ctx[s].ref
      /\ \A r \in Service : r # s => ctx'[r] = ctx[r]
      /\ ctx[s].init \in BOOLEAN /\ ctx[s].alive \in BOOLEAN
  BY <1>2, <1>6 DEF DataOK, Context
<1>8. HandsSame(Service)
  BY <1>1, <1>2, Quiet0 DEF Hands
<1>9. CASE ctx[s].alive
  <2>1. LifeOf(s) \in {"open", "closed"}
    BY <1>4, <1>9 DEF LifeOf, BornOK, QueueOK
  <2>2. LivesSame(Service)
    BY <1>1, <1>7 DEF LivesSame, LifeOf
  <2>3. InitsSame(Service \ {s}) /\ BoxesSame(Service)
    BY <1>1, <1>7 DEF InitsSame, BoxesSame
  <2>4. MB!Ready(s)
    BY <1>5, <1>7, <1>8, <1>9, <2>1, <2>2, <2>3, Readies
  <2> QED BY <2>4 DEF MB!Next
<1>10. CASE ~ctx[s].alive
  <2>1. ctx'[s].init = ctx[s].init
    BY <1>5, <1>7, <1>10
  <2> QED BY <1>1, <1>7, <1>8, <2>1, Silent
<1> QED BY <1>9, <1>10

(* The global queue is no part of the mailbox.                             *)
LEMMA GlobalPushMaps ==
    ASSUME IInv, NEW t \in Thread, GlobalPush(t)
    PROVE  UNCHANGED MB!vars
<1>1. At(t, "gpush") /\ slot' = slot /\ ctx' = ctx /\ mq' = mq /\ Do(t, <<>>)
  BY DEF GlobalPush
<1>2. todo[t] # <<>> /\ Top(t).pc = "gpush" /\ StackOK
  BY <1>1, Acting
<1>3. HandsSame(Service)
  BY <1>1, <1>2, Quiet0 DEF Hands
<1> QED BY <1>1, <1>3, Silent

(* Neither is the mark on a queue.                                         *)
LEMMA MqReleaseMaps ==
    ASSUME IInv, NEW t \in Thread, MqRelease(t)
    PROVE  UNCHANGED MB!vars
<1>1. At(t, "mqrelease") /\ slot' = slot /\ ctx' = ctx /\ mq' = mq
  BY DEF MqRelease
<1>2. todo[t] # <<>> /\ Top(t).pc = "mqrelease" /\ Top(t) \in StepRecord /\ StackOK
  BY <1>1, Acting
<1>3. PICK s \in Service : s = Top(t).s
  BY <1>2, FieldTypes DEF Plain
<1>4. HandsSame(Service)
  <2>1. CASE mq[s].release
    BY <1>2, <1>3, <2>1, StepTypes, Quiet1 DEF MqRelease, Hands, Plain
  <2>2. CASE ~mq[s].release
    BY <1>2, <1>3, <2>2, Quiet0 DEF MqRelease, Hands
  <2> QED BY <2>1, <2>2
<1> QED BY <1>1, <1>4, Silent

(* Only a queue marked for release is emptied without a handler.           *)
LEMMA DropMaps ==
    ASSUME IInv, NEW t \in Thread, Drop(t)
    PROVE  MB!Next
<1>1. At(t, "drop") /\ slot' = slot /\ ctx' = ctx
  BY DEF Drop
<1>2. /\ todo[t] # <<>> /\ Top(t).pc = "drop" /\ Top(t) \in StepRecord
      /\ DataOK /\ StackOK /\ \A r \in Service : ServiceOK(r)
      /\ \A K, r : Here(t) \in Places(K, r) <=> Top(t).s = r /\ "drop" \in K
  BY <1>1, Acting
<1>3. PICK s \in Service : s = Top(t).s
  BY <1>2, FieldTypes DEF Plain
<1>4. RefOK(s) /\ QueueOK(s) /\ BornOK(s)
  BY <1>2 DEF ServiceOK
<1>5. mq[s].release
  BY <1>2, <1>3, <1>4 DEF QueueOK
<1>6. LifeOf(s) = "dead"
  <2>1. ctx[s].ref # Unborn /\ ~ctx[s].alive
    BY <1>4, <1>5 DEF BornOK, QueueOK
  <2>2. s \notin slot
    BY <1>4, <2>1 DEF RefOK
  <2> QED BY <1>5, <2>1, <2>2 DEF LifeOf
<1>7. mq[s].msgs # <<>> /\ mq' = [mq EXCEPT ![s].msgs = Tail(mq[s].msgs)]
  BY <1>3 DEF Drop, MqPop
<1>8. /\ mq'[s].msgs = Tail(mq[s].msgs) /\ mq'[s].release = mq[s].release
      /\ \A r \in Service : r # s => mq'[r] = mq[r]
  BY <1>2, <1>7 DEF DataOK, Queue
<1>9. PICK m \in Msg : m = Head(mq[s].msgs)
  BY <1>2, <1>7 DEF DataOK, Queue
<1>10. Do(t, DropReport(s, m) \o <<Step("drop", s)>>)
  BY <1>3, <1>9 DEF Drop
<1>11. HandsSame(Service)
  <2>1. Step("drop", s) \in StepRecord /\ Step("drop", s).pc \notin Hands
    BY StepTypes DEF Plain, Hands
  <2>2. CASE m.src = None
    <3>1. DropReport(s, m) \o <<Step("drop", s)>> = <<Step("drop", s)>>
      BY <2>1, <2>2 DEF DropReport
    <3> QED BY <1>2, <1>10, <2>1, <3>1, Quiet1 DEF Hands
  <2>3. CASE m.src # None
    <3> DEFINE x == StepMsg("send", m.src, [src |-> s, id |-> m.id, err |-> TRUE], 0)
    <3>1. m.src \in Service /\ [src |-> s, id |-> m.id, err |-> TRUE] \in Msg
      BY <2>3 DEF Msg
    <3>2. x \in StepRecord /\ x.pc \notin Hands
      BY <3>1, StepTypes DEF WithMessage, Hands
    <3>3. DropReport(s, m) \o <<Step("drop", s)>> = <<x>> \o <<Step("drop", s)>>
      BY <2>3 DEF DropReport
    <3> HIDE DEF x
    <3>4. <<x>> \o <<Step("drop", s)>> = <<x, Step("drop", s)>>
      BY <2>1, <3>2, Pair
    <3> QED BY <1>2, <1>10, <2>1, <3>2, <3>3, <3>4, Quiet2 DEF Hands
  <2> QED BY <2>2, <2>3
<1>12. LivesSame(Service) /\ InitsSame(Service) /\ BoxesSame(Service \ {s})
  BY <1>1, <1>8 DEF LivesSame, LifeOf, InitsSame, BoxesSame
<1>13. MB!Discard(s)
  BY <1>6, <1>7, <1>8, <1>11, <1>12, Discards
<1> QED BY <1>13 DEF MB!Next

(* A queue that is freed has been emptied.                                 *)
LEMMA FreeQueueMaps ==
    ASSUME IInv, NEW t \in Thread, FreeQueue(t)
    PROVE  UNCHANGED MB!vars
<1>1. At(t, "drop") /\ slot' = slot /\ ctx' = ctx /\ Do(t, <<>>)
  BY DEF FreeQueue
<1>2. todo[t] # <<>> /\ Top(t).pc = "drop" /\ Top(t) \in StepRecord /\ DataOK /\ StackOK
  BY <1>1, Acting
<1>3. PICK s \in Service : s = Top(t).s
  BY <1>2, FieldTypes DEF Plain
<1>4. mq' = [mq EXCEPT ![s].in_global = FALSE, ![s].alive = FALSE]
  BY <1>3 DEF FreeQueue
<1>5. \A r \in Service : mq'[r].release = mq[r].release /\ mq'[r].msgs = mq[r].msgs
  BY <1>2, <1>4 DEF DataOK, Queue
<1>6. HandsSame(Service)
  BY <1>1, <1>2, Quiet0 DEF Hands
<1> QED BY <1>1, <1>5, <1>6, Silent

-----------------------------------------------------------------------------
(* Workers.                                                                *)
LEMMA LoopMaps ==
    ASSUME IInv, NEW t \in Thread, Loop(t)
    PROVE  UNCHANGED MB!vars
<1>1. At(t, "loop") /\ slot' = slot /\ ctx' = ctx /\ mq' = mq
  BY DEF Loop
<1>2. todo[t] # <<>> /\ Top(t).pc = "loop" /\ Top(t) \in StepRecord /\ DataOK /\ StackOK
  BY <1>1, Acting
<1>3. HandsSame(Service)
  <2>1. CASE Do(t, <<>>)
    BY <1>2, <2>1, Quiet0 DEF Hands
  <2>2. ASSUME NEW s \in Service, Do(t, <<Step("grab", s)>>)  PROVE HandsSame(Service)
    BY <1>2, <2>2, StepTypes, Quiet1 DEF Hands, Plain
  <2>3. CASE Do(t, <<Step("sleep", None)>>)
    BY <1>2, <2>3, UnnamedTypes, Quiet1 DEF Hands, Unnamed
  <2>4. Top(t).s \in Service \cup {None} /\ (global # <<>> => Head(global) \in Service)
    BY <1>2, FieldTypes DEF DataOK
  <2> QED BY <2>1, <2>2, <2>3, <2>4 DEF Loop
<1> QED BY <1>1, <1>3, Silent

(* A worker looks up the context of its queue.                             *)
LEMMA GrabMaps ==
    ASSUME IInv, NEW t \in Thread, Grab(t)
    PROVE  UNCHANGED MB!vars
<1>1. At(t, "grab") /\ slot' = slot /\ mq' = mq
  BY DEF Grab
<1>2. /\ todo[t] # <<>> /\ Top(t).pc = "grab" /\ Top(t) \in StepRecord
      /\ DataOK /\ StackOK /\ \A r \in Service : ServiceOK(r)
  BY <1>1, Acting
<1>3. PICK s \in Service : s = Top(t).s
  BY <1>2, FieldTypes DEF Plain
<1>4. CASE s \in slot
  <2>1. ctx' = [ctx EXCEPT ![s].ref = ctx[s].ref + 1] /\ ctx[s].ref + 1 \in Nat /\ ctx[s].ref # Unborn
    BY <1>2, <1>3, <1>4, Held DEF Grab
  <2>2. ctx[s].ref + 1 # Unborn /\ ctx[s].ref + 1 \in Nat \cup {Unborn}
    BY <2>1 DEF Unborn
  <2>3. /\ ctx'[s].ref = ctx[s].ref + 1 /\ ctx'[s].init = ctx[s].init
        /\ \A r \in Service : r # s => ctx'[r] = ctx[r]
    BY <1>2, <2>1, <2>2, CtxRef
  <2>4. HandsSame(Service)
    BY <1>2, <1>3, <1>4, StepTypes, Quiet1 DEF Grab, Hands
  <2> QED BY <1>1, <2>1, <2>2, <2>3, <2>4, Silent
<1>5. CASE s \notin slot
  <2>1. ctx' = ctx /\ Do(t, <<Step("mqrelease", s), Step("nextq", None)>>)
    BY <1>3, <1>5 DEF Grab
  <2>2. HandsSame(Service)
    BY <1>2, <2>1, StepTypes, UnnamedTypes, Quiet2 DEF Hands, Plain, Unnamed
  <2> QED BY <1>1, <2>1, <2>2, Silent
<1> QED BY <1>4, <1>5

(* It takes another queue.                                                 *)
LEMMA NextQMaps ==
    ASSUME IInv, NEW t \in Thread, NextQ(t)
    PROVE  UNCHANGED MB!vars
<1>1. At(t, "nextq") /\ slot' = slot /\ ctx' = ctx /\ mq' = mq /\ Do(t, NextQueue)
  BY DEF NextQ
<1>2. todo[t] # <<>> /\ Top(t).pc = "nextq" /\ DataOK /\ StackOK
  BY <1>1, Acting
<1>3. HandsSame(Service)
  <2>1. CASE global = <<>>
    BY <1>1, <1>2, <2>1, UnnamedTypes, Quiet1 DEF NextQueue, Hands, Unnamed
  <2>2. CASE global # <<>>
    <3>1. Head(global) \in Service
      BY <1>2, <2>2 DEF DataOK
    <3> QED BY <1>1, <1>2, <2>2, <3>1, StepTypes, Quiet1 DEF NextQueue, Hands, Plain
  <2> QED BY <2>1, <2>2
<1> QED BY <1>1, <1>3, Silent

(* It finds its queue empty.                                               *)
LEMMA PopEmptyMaps ==
    ASSUME IInv, NEW t \in Thread, PopEmpty(t)
    PROVE  UNCHANGED MB!vars
<1>1. At(t, "pop") /\ slot' = slot /\ ctx' = ctx
  BY DEF PopEmpty
<1>2. todo[t] # <<>> /\ Top(t).pc = "pop" /\ Top(t) \in StepRecord /\ DataOK /\ StackOK
  BY <1>1, Acting
<1>3. PICK s \in Service : s = Top(t).s
  BY <1>2, FieldTypes
<1>4. mq' = [mq EXCEPT ![s].in_global = FALSE] /\ Do(t, <<Step("release", s), Step("nextq", None)>>)
  BY <1>3 DEF PopEmpty, MqPopEmpty
<1>5. \A r \in Service : mq'[r].release = mq[r].release /\ mq'[r].msgs = mq[r].msgs
  BY <1>2, <1>4 DEF DataOK, Queue
<1>6. HandsSame(Service)
  BY <1>2, <1>4, StepTypes, UnnamedTypes, Quiet2 DEF Hands, Plain, Unnamed
<1> QED BY <1>1, <1>5, <1>6, Silent

(* The worker that takes a message is the only one at the service, which   *)
(* is ready and cannot die: the handler is the first.                      *)
LEMMA PopMaps ==
    ASSUME IInv, NEW t \in Worker, Pop(t)
    PROVE  MB!Next
<1>0. t \in Thread
  BY DEF Thread
<1>1. At(t, "pop") /\ slot' = slot /\ ctx' = ctx
  BY DEF Pop
<1>2. /\ todo[t] # <<>> /\ Top(t).pc = "pop" /\ Top(t) \in StepRecord
      /\ DataOK /\ StackOK /\ \A r \in Service : ServiceOK(r)
      /\ \A K, r : Here(t) \in Places(K, r) <=> Top(t).s = r /\ "pop" \in K
  BY <1>0, <1>1, Acting
<1>3. PICK s \in Service : s = Top(t).s
  BY <1>2, FieldTypes
<1>4. Places(HoldsQueue, s) = {Here(t)} /\ Height(t) = 0
  <2>1. "pop" \in HoldsQueue /\ "pop" \in Bottom
    BY DEF HoldsQueue, Bottom
  <2>2. Places(HoldsQueue, s) = {Here(t)}
    BY <1>0, <1>1, <1>3, <2>1, SoleHolder
  <2>3. Height(t) = 0
    BY <1>0, <1>2, <2>1, Topmost
  <2> QED BY <2>2, <2>3
<1>5. Places(Hands, s) \subseteq {Here(t)}
  <2>1. Hands \subseteq HoldsQueue
    BY DEF Hands, HoldsQueue
  <2> QED BY <1>2, <1>4, <2>1, Wider
<1>6. Handling(s) = {}
  BY <1>2, <1>5, SoleHandler DEF StackOK, StackType, InHand, Hands
<1>7. LifeOf(s) \in {"open", "closed"}
  BY <1>2, <1>3, HeldLife DEF HoldsRef
<1>8. ctx[s].init
  BY <1>2, <1>3 DEF ServiceOK, ReadyOK, Handles
<1>9. mq[s].msgs # <<>> /\ mq' = [mq EXCEPT ![s].msgs = Tail(mq[s].msgs)]
  BY <1>3 DEF Pop, MqPop
<1>10. /\ mq'[s].msgs = Tail(mq[s].msgs) /\ mq'[s].release = mq[s].release
       /\ \A r \in Service : r # s => mq'[r] = mq[r]
  BY <1>2, <1>9 DEF DataOK, Queue
<1>11. PICK m \in Msg : m = Head(mq[s].msgs)
  BY <1>2, <1>9 DEF DataOK, Queue
<1>12. PICK pc \in Hands, n \in Int : Do(t, <<StepMsg(pc, s, m, n)>>)
  <2>1. Top(t).n \in Int
    BY <1>2, FieldTypes
  <2>2. CASE Top(t).n = -1 /\ Weight[t] >= 0
    BY <1>3, <1>11, <2>2 DEF Pop, Hands
  <2>3. CASE ~(Top(t).n = -1 /\ Weight[t] >= 0)
    BY <1>3, <1>11, <2>1, <2>3 DEF Pop, Hands
  <2> QED BY <2>2, <2>3
<1>13. PICK x \in StepRecord : x = StepMsg(pc, s, m, n) /\ x.pc \in Hands /\ x.s = s /\ x.m = m
  <2>1. StepMsg(pc, s, m, n).m = m
    BY DEF StepMsg
  <2> QED BY <2>1, StepTypes DEF Hands, WithMessage
<1>14. Handling(s)' = {x}
  BY <1>2, <1>4, <1>5, <1>12, <1>13, SoleHandlerNext DEF InHand
<1>15. HandsSame(Service \ {s})
  BY <1>0, <1>2, <1>12, <1>13, Kept1 DEF HandsSame, InHand, Hands, StackOK, StackType
<1>16. LivesSame(Service) /\ InitsSame(Service) /\ BoxesSame(Service \ {s})
  BY <1>1, <1>10 DEF LivesSame, LifeOf, InitsSame, BoxesSame
<1>17. MB!Take(s)
  BY <1>6, <1>7, <1>8, <1>9, <1>10, <1>11, <1>13, <1>14, <1>15, <1>16, Takes
<1> QED BY <1>17 DEF MB!Next

(* It counts how many messages to handle in this round.                    *)
LEMMA LengthMaps ==
    ASSUME IInv, NEW t \in Worker, Length(t)
    PROVE  UNCHANGED MB!vars
<1>0. t \in Thread
  BY DEF Thread
<1>1. At(t, "length") /\ slot' = slot /\ ctx' = ctx /\ mq' = mq
  BY DEF Length
<1>2. /\ todo[t] # <<>> /\ Top(t).pc = "length" /\ Top(t) \in StepRecord
      /\ DataOK /\ StackOK
  BY <1>0, <1>1, Acting
<1>3. PICK s \in Service : s = Top(t).s
  BY <1>2, FieldTypes DEF WithMessage
<1>4. Places(HoldsQueue, s) = {Here(t)} /\ Height(t) = 0
  BY <1>0, <1>1, <1>2, <1>3, SoleHolder, Topmost DEF HoldsQueue, Bottom
<1>5. Places(Hands, s) \subseteq {Here(t)}
  <2>1. Hands \subseteq HoldsQueue
    BY DEF Hands, HoldsQueue
  <2> QED BY <1>2, <1>4, <2>1, Wider
<1>6. Handling(s) = {Top(t)}
  BY <1>2, <1>3, <1>5, SoleHandler DEF StackOK, StackType, InHand, Hands
<1>7. PICK m \in Msg : m = Top(t).m
  BY <1>2, FieldTypes DEF WithMessage
<1>8. PICK n \in Int : Do(t, <<StepMsg("run", s, m, n)>>)
  <2>1. Shifted(Len(mq[s].msgs), Weight[t]) \in Int
    <3>1. Len(mq[s].msgs) \in Nat
      BY <1>2 DEF DataOK, Queue
    <3> QED BY <3>1 DEF Shifted
  <2> QED BY <1>3, <1>7, <2>1 DEF Length
<1>9. PICK x \in StepRecord : x = StepMsg("run", s, m, n) /\ x.pc = "run" /\ x.s = s /\ x.m = m
  <2>1. StepMsg("run", s, m, n).m = m
    BY DEF StepMsg
  <2> QED BY <2>1, StepTypes DEF WithMessage
<1>10. Handling(s)' = {x}
  BY <1>2, <1>4, <1>5, <1>8, <1>9, SoleHandlerNext DEF InHand, Hands
<1>11. Busy(s)' = Busy(s)
  BY <1>6, <1>7, <1>9, <1>10, BusyDef
<1>12. HandsSame(Service \ {s})
  BY <1>0, <1>2, <1>3, <1>8, <1>9, Kept1 DEF HandsSame, InHand, Hands, StackOK, StackType
<1>13. \A r \in Service : Busy(r)' = Busy(r)
  BY <1>11, <1>12, BusyDef DEF HandsSame
<1>14. UNCHANGED [r \in Service |-> Busy(r)]
  BY <1>13
<1>15. LivesSame(Service) /\ InitsSame(Service) /\ BoxesSame(Service)
  BY <1>1 DEF LivesSame, LifeOf, InitsSame, BoxesSame
<1> QED BY <1>14, <1>15, SameVars DEF MB!vars, Busy

(* The callback returns: the message is finished.                          *)
LEMMA RunDoneMaps ==
    ASSUME IInv, NEW t \in Worker, RunDone(t)
    PROVE  MB!Next
<1>0. t \in Thread
  BY DEF Thread
<1>1. At(t, "run") /\ slot' = slot /\ ctx' = ctx /\ mq' = mq
  BY DEF RunDone
<1>2. /\ todo[t] # <<>> /\ Top(t).pc = "run" /\ Top(t) \in StepRecord
      /\ DataOK /\ StackOK
  BY <1>0, <1>1, Acting
<1>3. PICK s \in Service : s = Top(t).s
  BY <1>2, FieldTypes DEF WithMessage
<1>4. Places(HoldsQueue, s) = {Here(t)} /\ Height(t) = 0
  <2>1. "run" \in HoldsQueue /\ "run" \in Bottom
    BY DEF HoldsQueue, Bottom
  <2>2. Places(HoldsQueue, s) = {Here(t)}
    BY <1>0, <1>1, <1>3, <2>1, SoleHolder
  <2>3. Height(t) = 0
    BY <1>0, <1>2, <2>1, Topmost
  <2> QED BY <2>2, <2>3
<1>5. Places(Hands, s) \subseteq {Here(t)}
  <2>1. Hands \subseteq HoldsQueue
    BY DEF Hands, HoldsQueue
  <2> QED BY <1>2, <1>4, <2>1, Wider
<1>6. Handling(s) = {Top(t)}
  BY <1>2, <1>3, <1>5, SoleHandler DEF StackOK, StackType, InHand, Hands
<1>7. Top(t).m # None
  BY <1>2, FieldTypes, NoneAssumption DEF WithMessage
<1>8. PICK x \in StepRecord : Do(t, <<x>>) /\ x.pc \notin Hands
  <2>1. Top(t).n \in Int
    BY <1>2, FieldTypes
  <2>2. CASE Top(t).n > 0
    <3>1. Do(t, <<StepMsg("pop", s, None, Top(t).n - 1)>>)
      BY <1>3, <2>2, Zenon DEF RunDone
    <3>2. Top(t).n - 1 \in Int
      BY <2>1
    <3>3. /\ StepMsg("pop", s, None, Top(t).n - 1) \in StepRecord
          /\ StepMsg("pop", s, None, Top(t).n - 1).pc \notin Hands
      BY <3>2, StepTypes DEF Hands
    <3> QED BY <3>1, <3>3, Zenon
  <2>3. CASE ~(Top(t).n > 0)
    BY <1>3, <2>3, StepTypes DEF RunDone, Hands, Plain
  <2> QED BY <2>2, <2>3
<1>9. Handling(s)' = {}
  BY <1>2, <1>4, <1>5, <1>8, SoleHandlerNext DEF InHand
<1>10. HandsSame(Service \ {s})
  BY <1>0, <1>2, <1>3, <1>8, Kept1 DEF HandsSame, InHand, StackOK, StackType
<1>11. LivesSame(Service) /\ InitsSame(Service) /\ BoxesSame(Service)
  BY <1>1 DEF LivesSame, LifeOf, InitsSame, BoxesSame
<1>12. MB!Finish(s)
  BY <1>6, <1>7, <1>9, <1>10, <1>11, Finishes
<1> QED BY <1>12 DEF MB!Next

(* The worker gives its reference back.                                    *)
LEMMA BackMaps ==
    ASSUME IInv, NEW t \in Thread, Back(t)
    PROVE  UNCHANGED MB!vars
<1>1. At(t, "back") /\ slot' = slot /\ ctx' = ctx /\ mq' = mq
  BY DEF Back
<1>2. todo[t] # <<>> /\ Top(t).pc = "back" /\ Top(t) \in StepRecord /\ DataOK /\ StackOK
  BY <1>1, Acting
<1>3. PICK s \in Service : s = Top(t).s
  BY <1>2, FieldTypes DEF Plain
<1>4. HandsSame(Service)
  <2>1. CASE global = <<>>
    BY <1>2, <1>3, <2>1, StepTypes, Quiet2 DEF Back, Hands, Plain
  <2>2. CASE global # <<>>
    <3>1. Head(global) \in Service
      BY <1>2, <2>2 DEF DataOK
    <3> QED BY <1>2, <1>3, <2>2, <3>1, StepTypes, Quiet3 DEF Back, Hands, Plain
  <2> QED BY <2>1, <2>2
<1> QED BY <1>1, <1>4, Silent

(* It sleeps and wakes up.                                                 *)
LEMMA SleepMaps ==
    ASSUME IInv, NEW t \in Thread, Sleep(t) \/ Woken(t)
    PROVE  UNCHANGED MB!vars
<1>1. /\ At(t, "sleep") \/ At(t, "woken")
      /\ slot' = slot /\ ctx' = ctx /\ mq' = mq
  BY DEF Sleep, Woken
<1>2. PICK next \in {"loop", "wait"} : Do(t, <<Step(next, None)>>)
  BY DEF Sleep, Woken
<1>3. todo[t] # <<>> /\ Top(t).pc \in {"sleep", "woken"} /\ StackOK
  BY <1>1, Acting
<1>4. HandsSame(Service)
  BY <1>2, <1>3, UnnamedTypes, Quiet1 DEF Hands, Unnamed
<1> QED BY <1>1, <1>4, Silent

-----------------------------------------------------------------------------
(* What handlers and threads decide to call, and the threads that wake     *)
(* workers: nothing of it is seen before the called step is done.          *)
LEMMA DecideMaps ==
    ASSUME IInv, NEW t \in Thread, NEW s \in Service,
           CallSend(t, s) \/ CallRetire(t, s) \/ CallNew(t, s)
    PROVE  UNCHANGED MB!vars
<1>1. slot' = slot /\ ctx' = ctx /\ mq' = mq /\ StackType /\ DataOK
  BY DEF CallSend, CallRetire, CallNew, IInv, StackOK, StackType
<1>2. HandsSame(Service)
  <2>1. ASSUME NEW x \in StepRecord, Call(t, x), x.pc \notin Hands  PROVE HandsSame(Service)
    BY <1>1, <2>1, KeptCall DEF HandsSame, InHand
  <2>2. CASE CallSend(t, s)
    <3> DEFINE m == [src |-> Self(t), id |-> sent + 1, err |-> FALSE]
    <3>1. Self(t) \in Service \cup {None}
      <4>1. CASE t \in Worker
        <5>1. At(t, "run")
          BY <2>2, <4>1 DEF CallSend, Free
        <5>2. Top(t).s \in Service \cup {None}
          BY <5>1, Acting, FieldTypes
        <5> QED BY <4>1, <5>2 DEF Self
      <4>2. CASE t \notin Worker
        BY <4>2 DEF Self
      <4> QED BY <4>1, <4>2
    <3>2. sent + 1 \in 1 .. MaxMsg
      BY <1>1, <2>2, BoundAssumption DEF CallSend, DataOK
    <3>3. m \in Msg
      BY <3>1, <3>2 DEF Msg
    <3>4. Call(t, StepMsg("send", s, m, 0))
      BY <2>2 DEF CallSend
    <3> HIDE DEF m
    <3>5. StepMsg("send", s, m, 0) \in StepRecord /\ StepMsg("send", s, m, 0).pc = "send"
      BY <3>3, StepTypes DEF WithMessage
    <3> QED BY <2>1, <3>4, <3>5 DEF Hands
  <2>3. CASE CallRetire(t, s)
    BY <2>1, <2>3, StepTypes DEF CallRetire, Plain, Hands
  <2>4. CASE CallNew(t, s)
    BY <2>1, <2>4, StepTypes DEF CallNew, Plain, Hands
  <2> QED BY <2>2, <2>3, <2>4
<1> QED BY <1>1, <1>2, Silent

(* Someone wakes it.                                                       *)
LEMMA SignalMaps ==
    ASSUME IInv, NEW w \in Waiting, Signal(w)
    PROVE  UNCHANGED MB!vars
<1>1. slot' = slot /\ ctx' = ctx /\ mq' = mq /\ StackOK
  BY DEF Signal, IInv
<1>2. StackOK'
  BY SignalStep DEF IInv
<1>3. \A t \in Thread : todo'[t] = IF t \in {w} THEN <<Step("woken", None)>> ELSE todo[t]
  BY <1>1 DEF Signal, StackOK
<1>4. {w} \in SUBSET Waiting
  OBVIOUS
<1>5. HandsSame(Service)
  BY <1>1, <1>2, <1>3, <1>4, KeptWake DEF HandsSame
<1> QED BY <1>1, <1>5, Silent

(* The threads are told to end.                                            *)
LEMMA AbortMaps ==
    ASSUME IInv, TimerAbort
    PROVE  UNCHANGED MB!vars
<1>1. slot' = slot /\ ctx' = ctx /\ mq' = mq /\ StackOK
  BY DEF TimerAbort, IInv
<1>2. StackOK'
  BY AbortStep DEF IInv
<1>3. \A t \in Thread : todo'[t] = IF t \in Waiting THEN <<Step("woken", None)>> ELSE todo[t]
  BY DEF TimerAbort
<1>4. HandsSame(Service)
  BY <1>1, <1>2, <1>3, KeptWake DEF HandsSame
<1> QED BY <1>1, <1>4, Silent

-----------------------------------------------------------------------------
(* Before the threads start, the launched services are open and ready and  *)
(* nothing is handled.                                                     *)
LEMMA InitMaps ==
    ASSUME Init
    PROVE  MB!Init
<1>1. DataOK /\ StackOK
  BY InitInv DEF IInv
<1>2. ASSUME NEW s \in Service
      PROVE  /\ LifeOf(s) = (IF s \in BootSet THEN "open" ELSE "none")
             /\ Busy(s) = None
             /\ ctx[s].init <=> s \in BootSet
             /\ s \notin BootSet => mq[s].msgs = <<>>
  <2>1. /\ ctx[s].ref = IF s \in BootSet THEN 1 ELSE Unborn
        /\ ctx[s].init <=> s \in BootSet
        /\ ~mq[s].release
        /\ s \notin BootSet => mq[s].msgs = <<>>
    BY DEF Init, NewQueue
  <2>2. LifeOf(s) = IF s \in BootSet THEN "open" ELSE "none"
    <3>1. slot = BootSet
      BY DEF Init
    <3>2. CASE s \in BootSet
      <4>1. ctx[s].ref # Unborn
        BY <2>1, <3>2 DEF Unborn
      <4> QED BY <2>1, <3>1, <3>2, <4>1 DEF LifeOf
    <3>3. CASE s \notin BootSet
      BY <2>1, <3>1, <3>3 DEF LifeOf
    <3> QED BY <3>2, <3>3
  <2>3. Handling(s) = {}
    <3>1. ASSUME NEW w \in Worker, NEW x, Has(todo[w], x)  PROVE x = Step("loop", None)
      <4>1. todo[w] = <<Step("loop", None)>>
        BY DEF Init, Thread
      <4> QED BY <3>1, <4>1 DEF Has
    <3>2. ~InHand(Step("loop", None), s)
      BY UnnamedTypes DEF InHand, Hands, Unnamed
    <3> QED BY <1>1, <3>1, <3>2, HandlingDef DEF StackOK, StackType
  <2> QED BY <2>1, <2>2, <2>3, BusyDef
<1>3. [s \in Service |-> LifeOf(s)] = [s \in Service |-> IF s \in BootSet THEN "open" ELSE "none"]
  BY <1>2
<1>4. [s \in Service |-> Busy(s)] = [s \in Service |-> None]
  BY <1>2
<1>5. {s \in Service : ctx[s].init} = BootSet
  BY <1>1, <1>2 DEF DataOK, Init
<1>6. [s \in Service |-> mq[s].msgs] \in [Service -> Seq(Msg)]
  BY <1>1 DEF DataOK, Queue
<1>7. \A s \in Service \ BootSet : [r \in Service |-> mq[r].msgs][s] = <<>>
  BY <1>2
<1> QED BY <1>3, <1>4, <1>5, <1>6, <1>7 DEF MB!Init, Busy

(* Every step of the dispatcher is a step of the mailbox or a stutter.     *)
LEMMA NextMaps ==
    ASSUME IInv, [Next]_vars
    PROVE  MB!Next \/ UNCHANGED MB!vars
<1>1. ASSUME NEW t \in Thread, ThreadStep(t)  PROVE MB!Next \/ UNCHANGED MB!vars
  BY <1>1, SendMaps, PushMaps, ReleaseMaps, DeleteMaps, RetireMaps, NewMaps, InitFailedMaps,
     InitDoneMaps, SetReadyMaps, GlobalPushMaps, MqReleaseMaps, DropMaps, FreeQueueMaps
     DEF ThreadStep
<1>2. ASSUME NEW t \in Thread, Decide(t)  PROVE UNCHANGED MB!vars
  BY <1>2, DecideMaps DEF Decide
<1>3. ASSUME NEW t \in Worker, WorkerStep(t)  PROVE MB!Next \/ UNCHANGED MB!vars
  <2>1. t \in Thread
    BY DEF Thread
  <2> QED BY <1>3, <2>1, LoopMaps, GrabMaps, NextQMaps, PopEmptyMaps, PopMaps, LengthMaps,
             RunDoneMaps, BackMaps, SleepMaps DEF WorkerStep
<1>4. ASSUME TimerWakeup \/ SocketWakeup  PROVE UNCHANGED MB!vars
  BY <1>4, SignalMaps DEF TimerWakeup, SocketWakeup
<1>5. ASSUME UNCHANGED vars  PROVE UNCHANGED MB!vars
  <2>1. slot' = slot /\ ctx' = ctx /\ mq' = mq /\ todo' = todo
    BY <1>5 DEF vars
  <2>2. HandsSame(Service)
    BY <2>1 DEF HandsSame, Handling
  <2> QED BY <2>1, <2>2, Silent
<1> QED BY <1>1, <1>2, <1>3, <1>4, <1>5, AbortMaps DEF Next, Ended

(* Dispatcher implements Mailbox: whatever the threads do, each service    *)
(* gets its messages in the order they were pushed, by one handler at a    *)
(* time, after its initialisation, and none once its context is deleted;   *)
(* what is left in the queue is then dropped, never dispatched.            *)
THEOREM MailboxCorrect == Spec => ImplementsMailbox
<1>1. Init => MB!Init
  BY InitMaps
<1>2. IInv /\ [Next]_vars => [MB!Next]_(MB!vars)
  BY NextMaps
<1> QED BY <1>1, <1>2, SpecInv, PTL DEF Spec, ImplementsMailbox, MB!Spec
=============================================================================
