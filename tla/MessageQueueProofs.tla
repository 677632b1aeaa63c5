------------------------ MODULE MessageQueueProofs --------------------------
(***************************************************************************)
(* The ring of skynet_mq.c implements Fifo, for rings of any initial size  *)
(* of at least two places and any number of messages.  What the proof has  *)
(* to see is that the places from head to tail, around the end or not,     *)
(* hold the waiting messages, and that expand_queue writes them down in    *)
(* that order.  The overload threshold has no part in it.                  *)
(***************************************************************************)
EXTENDS MessageQueue, TLAPS

Value == Msg \cup {Nothing}

(* The ring proper: TypeOK without the overload report.                    *)
RingInv ==
    /\ cap \in Nat /\ cap > 1
    /\ queue \in [0 .. cap - 1 -> Value]
    /\ head \in 0 .. cap - 1 /\ tail \in 0 .. cap - 1

-----------------------------------------------------------------------------
(* Between head and tail there are fewer messages than places.             *)
LEMMA LengthRange ==
    ASSUME NEW c \in Nat, NEW h \in 0 .. c - 1, NEW t \in 0 .. c - 1
    PROVE  Length(h, t, c) \in 0 .. c - 1
  BY DEF Length

(* A function on an initial segment is a sequence.                         *)
LEMMA SegmentSeq ==
    ASSUME NEW S, NEW n \in Nat, NEW f \in [1 .. n -> S]
    PROVE  f \in Seq(S) /\ Len(f) = n /\ DOMAIN f = 1 .. n
  OBVIOUS

(* Sequences of one length with the same elements are the same.            *)
LEMMA SameSeq ==
    ASSUME NEW S, NEW p \in Seq(S), NEW q \in Seq(S), Len(p) = Len(q),
           \A i \in 1 .. Len(p) : p[i] = q[i]
    PROVE  p = q
  OBVIOUS

(* The messages from place h up to place t of a ring of c places.           *)
Between(q, h, t, c) == [i \in 1 .. Length(h, t, c) |-> q[Wrap(h + i - 1, c)]]

(* They are a sequence, shorter than the ring.                             *)
LEMMA BetweenSeq ==
    ASSUME NEW c \in Nat, NEW q \in [0 .. c - 1 -> Value],
           NEW h \in 0 .. c - 1, NEW t \in 0 .. c - 1
    PROVE  /\ Between(q, h, t, c) \in Seq(Value)
           /\ Len(Between(q, h, t, c)) = Length(h, t, c)
           /\ Length(h, t, c) \in 0 .. c - 1
           /\ \A i \in 1 .. Length(h, t, c) : Between(q, h, t, c)[i] = q[Wrap(h + i - 1, c)]
<1>1. Length(h, t, c) \in 0 .. c - 1 /\ Length(h, t, c) \in Nat
  BY LengthRange
<1>2. ASSUME NEW i \in 1 .. Length(h, t, c)
      PROVE  q[Wrap(h + i - 1, c)] \in Value
  <2>1. Wrap(h + i - 1, c) \in 0 .. c - 1
    BY <1>1 DEF Wrap
  <2> QED BY <2>1
<1>3. Between(q, h, t, c) \in [1 .. Length(h, t, c) -> Value]
  BY <1>2 DEF Between
<1>4. /\ Between(q, h, t, c) \in Seq(Value)
      /\ Len(Between(q, h, t, c)) = Length(h, t, c)
  BY <1>1, <1>3, SegmentSeq
<1> QED BY <1>1, <1>4 DEF Between

(* The waiting messages are a sequence, place by place.                    *)
LEMMA WaitingSeq ==
    ASSUME RingInv
    PROVE  /\ Waiting \in Seq(Value) /\ Len(Waiting) = Length(head, tail, cap)
           /\ Length(head, tail, cap) \in 0 .. cap - 1
           /\ \A i \in 1 .. Length(head, tail, cap) :
                 Waiting[i] = queue[Wrap(head + i - 1, cap)]
<1>1. Waiting = Between(queue, head, tail, cap)
  BY DEF Waiting, Between
<1>2. /\ cap \in Nat /\ queue \in [0 .. cap - 1 -> Value]
      /\ head \in 0 .. cap - 1 /\ tail \in 0 .. cap - 1
  BY DEF RingInv
<1> QED BY <1>1, <1>2, BetweenSeq

(* The same in the next state.                                             *)
LEMMA WaitingSeqNext ==
    ASSUME RingInv'
    PROVE  /\ Waiting' \in Seq(Value) /\ Len(Waiting') = Length(head', tail', cap')
           /\ \A i \in 1 .. Length(head', tail', cap') :
                 Waiting'[i] = queue'[Wrap(head' + i - 1, cap')]
<1>1. Waiting' = Between(queue', head', tail', cap')
  BY DEF Waiting, Between, Length, Wrap
<1>2. /\ cap' \in Nat /\ queue' \in [0 .. cap' - 1 -> Value]
      /\ head' \in 0 .. cap' - 1 /\ tail' \in 0 .. cap' - 1
  BY DEF RingInv, Value
<1> QED BY <1>1, <1>2, BetweenSeq

-----------------------------------------------------------------------------
(* A push that leaves room: one more message behind the others.            *)
LEMMA PushFits ==
    ASSUME RingInv, NEW m \in Msg, Push(m), Wrap(tail + 1, cap) # head
    PROVE  RingInv' /\ Waiting' = Append(Waiting, m)
<1> DEFINE L == Length(head, tail, cap)
<1>1. /\ queue' = [queue EXCEPT ![tail] = m] /\ tail' = Wrap(tail + 1, cap)
      /\ cap' = cap /\ head' = head
  BY DEF Push
<1>2. RingInv'
  BY <1>1 DEF RingInv, Wrap, Value
<1>3. Length(head', tail', cap') = L + 1
  BY <1>1 DEF RingInv, Wrap, Length
<1>4. Append(Waiting, m) \in Seq(Value) /\ Len(Append(Waiting, m)) = L + 1
  BY WaitingSeq DEF Value
<1>5. ASSUME NEW i \in 1 .. L + 1
      PROVE  Waiting'[i] = Append(Waiting, m)[i]
  <2>1. Waiting'[i] = queue'[Wrap(head + i - 1, cap)]
    BY <1>1, <1>2, <1>3, WaitingSeqNext
  <2>2. L \in 0 .. cap - 1
    BY WaitingSeq
  <2>3. CASE i = L + 1
    <3>1. Wrap(head + i - 1, cap) = tail
      BY <2>3 DEF RingInv, Wrap, Length
    <3>2. queue'[tail] = m
      BY <1>1 DEF RingInv
    <3> QED BY <2>1, <2>3, <3>1, <3>2, WaitingSeq
  <2>4. CASE i # L + 1
    <3>1. i \in 1 .. L
      BY <2>2, <2>4 DEF RingInv
    <3>2. Wrap(head + i - 1, cap) # tail /\ Wrap(head + i - 1, cap) \in 0 .. cap - 1
      BY <2>2, <3>1 DEF RingInv, Wrap, Length
    <3>3. queue'[Wrap(head + i - 1, cap)] = queue[Wrap(head + i - 1, cap)]
      BY <1>1, <3>2 DEF RingInv
    <3>4. Append(Waiting, m)[i] = Waiting[i]
      BY <3>1, WaitingSeq DEF Value
    <3> QED BY <2>1, <3>1, <3>3, <3>4, WaitingSeq
  <2> QED BY <2>3, <2>4
<1>6. Waiting' \in Seq(Value) /\ Len(Waiting') = L + 1
  BY <1>2, <1>3, WaitingSeqNext
<1>7. Waiting' = Append(Waiting, m)
  BY <1>4, <1>5, <1>6, SameSeq
<1> QED BY <1>2, <1>7

(* A push that fills the ring doubles it: expand_queue writes the messages *)
(* from head around to the new one, which was put just before head.        *)
LEMMA PushExpands ==
    ASSUME RingInv, NEW m \in Msg, Push(m), Wrap(tail + 1, cap) = head
    PROVE  RingInv' /\ Waiting' = Append(Waiting, m)
<1> DEFINE q == [queue EXCEPT ![tail] = m]
<1>1. /\ queue' = Expanded(q) /\ cap' = 2 * cap
      /\ head' = 0 /\ tail' = cap
  BY DEF Push
<1>2. q \in [0 .. cap - 1 -> Value]
  BY DEF RingInv, Value
<1>3. ASSUME NEW i \in 0 .. 2 * cap - 1
      PROVE  /\ Expanded(q)[i] \in Value
             /\ i < cap => Expanded(q)[i] = q[Wrap(head + i, cap)]
  <2>1. Expanded(q)[i] = IF i < cap THEN q[Wrap(head + i, cap)] ELSE Nothing
    BY DEF Expanded
  <2>2. i < cap => Wrap(head + i, cap) \in 0 .. cap - 1
    BY DEF RingInv, Wrap
  <2> HIDE DEF q
  <2> QED BY <1>2, <2>1, <2>2 DEF Value
<1>4. Expanded(q) \in [0 .. 2 * cap - 1 -> Value]
  <2> DEFINE E(i) == IF i < cap THEN q[Wrap(head + i, cap)] ELSE Nothing
  <2>1. Expanded(q) = [i \in 0 .. 2 * cap - 1 |-> E(i)]
    BY DEF Expanded
  <2>2. \A i \in 0 .. 2 * cap - 1 : Expanded(q)[i] = E(i)
    BY <2>1
  <2>3. \A i \in 0 .. 2 * cap - 1 : E(i) \in Value
    <3> HIDE DEF E
    <3> QED BY <1>3, <2>2
  <2> HIDE DEF E, q
  <2> QED BY <2>1, <2>3
<1>5. RingInv'
  <2>1. queue' \in [0 .. cap' - 1 -> Value]
    BY <1>1, <1>4
  <2>2. cap' \in Nat /\ cap' > 1 /\ head' \in 0 .. cap' - 1 /\ tail' \in 0 .. cap' - 1
    BY <1>1 DEF RingInv
  <2> QED BY <2>1, <2>2 DEF RingInv, Value
<1>6. Length(head', tail', cap') = cap /\ Length(head, tail, cap) = cap - 1
  BY <1>1 DEF RingInv, Wrap, Length
<1>7. Append(Waiting, m) \in Seq(Value) /\ Len(Append(Waiting, m)) = cap
  BY <1>6, WaitingSeq DEF Value, RingInv
<1>8. ASSUME NEW i \in 1 .. cap
      PROVE  Waiting'[i] = Append(Waiting, m)[i]
  <2>1. Waiting'[i] = queue'[Wrap(head' + i - 1, cap')]
    BY <1>5, <1>6, WaitingSeqNext
  <2>2. Wrap(head' + i - 1, cap') = i - 1 /\ i - 1 \in 0 .. 2 * cap - 1 /\ i - 1 < cap
    BY <1>1 DEF RingInv, Wrap
  <2>3. Waiting'[i] = q[Wrap(head + (i - 1), cap)]
    <3> HIDE DEF q
    <3> QED BY <1>1, <1>3, <2>1, <2>2
  <2>4. CASE i = cap
    <3>1. Wrap(head + (i - 1), cap) = tail
      BY <2>4 DEF RingInv, Wrap
    <3>2. q[tail] = m
      BY DEF RingInv
    <3> QED BY <1>6, <2>3, <2>4, <3>1, <3>2, WaitingSeq DEF RingInv
  <2>5. CASE i # cap
    <3>1. i \in 1 .. cap - 1
      BY <2>5 DEF RingInv
    <3>2. /\ Wrap(head + (i - 1), cap) # tail /\ Wrap(head + (i - 1), cap) \in 0 .. cap - 1
          /\ Wrap(head + (i - 1), cap) = Wrap(head + i - 1, cap)
      BY <3>1 DEF RingInv, Wrap
    <3>3. q[Wrap(head + (i - 1), cap)] = queue[Wrap(head + i - 1, cap)]
      BY <3>2 DEF RingInv
    <3>4. Append(Waiting, m)[i] = Waiting[i]
      BY <1>6, <3>1, WaitingSeq DEF Value
    <3> QED BY <1>6, <2>3, <3>1, <3>3, <3>4, WaitingSeq
  <2> QED BY <2>4, <2>5
<1>9. Waiting' \in Seq(Value) /\ Len(Waiting') = cap
  BY <1>5, <1>6, WaitingSeqNext
<1>10. Waiting' = Append(Waiting, m)
  BY <1>7, <1>8, <1>9, SameSeq
<1> QED BY <1>5, <1>10

(* skynet_mq_pop gives the message that has waited longest.                *)
LEMMA PopFirst ==
    ASSUME RingInv, Pop
    PROVE  /\ RingInv' /\ Waiting # <<>>
           /\ popped' = Head(Waiting) /\ Waiting' = Tail(Waiting)
<1> DEFINE L == Length(head, tail, cap)
<1>1. /\ popped' = queue[head] /\ head' = Wrap(head + 1, cap) /\ head # tail
      /\ queue' = queue /\ cap' = cap /\ tail' = tail
  BY DEF Pop
<1>2. RingInv'
  BY <1>1 DEF RingInv, Wrap
<1>3. L \in 1 .. cap - 1 /\ Length(head', tail', cap') = L - 1
  BY <1>1 DEF RingInv, Wrap, Length
<1>4. Waiting \in Seq(Value) /\ Len(Waiting) = L /\ L \in Nat
  BY <1>3, WaitingSeq DEF RingInv
<1>5. Waiting # <<>>
  BY <1>3, <1>4
<1>6. Head(Waiting) = queue[head]
  <2>1. Head(Waiting) = Waiting[1] /\ 1 \in 1 .. L
    BY <1>3, <1>4, <1>5 DEF RingInv
  <2>2. Waiting[1] = queue[Wrap(head + 1 - 1, cap)]
    BY <2>1, WaitingSeq
  <2>3. Wrap(head + 1 - 1, cap) = head
    BY DEF RingInv, Wrap
  <2> QED BY <2>1, <2>2, <2>3
<1>7. Tail(Waiting) \in Seq(Value) /\ Len(Tail(Waiting)) = L - 1
  BY <1>4, <1>5
<1>8. ASSUME NEW i \in 1 .. L - 1  PROVE Waiting'[i] = Tail(Waiting)[i]
  <2>1. Tail(Waiting)[i] = Waiting[i + 1] /\ i + 1 \in 1 .. L
    BY <1>4, <1>5, <1>7
  <2>2. Waiting[i + 1] = queue[Wrap(head + (i + 1) - 1, cap)]
    BY <2>1, WaitingSeq
  <2>3. Waiting'[i] = queue[Wrap(head' + i - 1, cap)]
    BY <1>1, <1>2, <1>3, WaitingSeqNext
  <2>4. Wrap(head' + i - 1, cap) = Wrap(head + (i + 1) - 1, cap)
    BY <1>1, <1>3, <1>4 DEF RingInv, Wrap
  <2> QED BY <2>1, <2>2, <2>3, <2>4
<1>9. Waiting' \in Seq(Value) /\ Len(Waiting') = L - 1
  BY <1>2, <1>3, WaitingSeqNext
<1>10. Waiting' = Tail(Waiting)
  BY <1>7, <1>8, <1>9, SameSeq
<1> QED BY <1>1, <1>2, <1>5, <1>6, <1>10

-----------------------------------------------------------------------------
(* The new ring is a ring, and empty.                                      *)
LEMMA InitRing ==
    ASSUME QueueSize \in Nat, QueueSize > 1, Init
    PROVE  RingInv /\ Waiting = <<>>
<1>1. RingInv
  BY DEF Init, RingInv, Value
<1>2. Len(Waiting) = 0 /\ Waiting \in Seq(Value)
  BY <1>1, WaitingSeq DEF Init, Length
<1> QED BY <1>1, <1>2

(* Nothing waits exactly when head and tail meet.                          *)
LEMMA EmptyRing ==
    ASSUME RingInv, head = tail  PROVE Waiting = <<>>
<1>1. Len(Waiting) = 0 /\ Waiting \in Seq(Value)
  BY WaitingSeq DEF RingInv, Length
<1> QED BY <1>1

(* Who leaves the ring alone leaves the waiting messages alone.            *)
LEMMA RingSame ==
    ASSUME RingInv, UNCHANGED <<queue, cap, head, tail>>
    PROVE  RingInv' /\ Waiting' = Waiting
  BY DEF RingInv, Waiting, Length, Wrap

(* Every step of the ring is a step of Fifo or leaves it alone.            *)
LEMMA StepFifo ==
    ASSUME RingInv, [Next]_vars
    PROVE  RingInv' /\ [F!Next]_<<Waiting, popped>>
<1>1. ASSUME NEW m \in Msg, Push(m)
      PROVE  RingInv' /\ F!Put(m)
  <2>1. RingInv' /\ Waiting' = Append(Waiting, m)
    BY <1>1, PushFits, PushExpands
  <2>2. popped' = popped
    BY <1>1 DEF Push
  <2> QED BY <2>1, <2>2 DEF F!Put
<1>2. CASE Pop
  BY <1>2, PopFirst DEF F!Next, F!Get
<1>3. CASE PopEmpty
  <2>1. Waiting = <<>>
    BY <1>3, EmptyRing DEF PopEmpty
  <2>2. RingInv' /\ Waiting' = Waiting
    BY <1>3, RingSame DEF PopEmpty
  <2>3. popped' = Nothing
    BY <1>3 DEF PopEmpty
  <2> QED BY <2>1, <2>2, <2>3 DEF F!Next, F!GetNothing
<1>4. CASE Overload
  <2>1. RingInv' /\ Waiting' = Waiting
    BY <1>4, RingSame DEF Overload
  <2> QED BY <1>4, <2>1 DEF Overload
<1>5. CASE UNCHANGED vars
  <2>1. UNCHANGED <<queue, cap, head, tail>> /\ popped' = popped
    BY <1>5 DEF vars
  <2> QED BY <2>1, RingSame
<1> QED BY <1>1, <1>2, <1>3, <1>4, <1>5 DEF Next, F!Next

(* A ring that starts with at least two places (DEFAULT_QUEUE_SIZE is 64)  *)
(* is an unbounded queue: skynet_mq_push and skynet_mq_pop lose, repeat    *)
(* and reorder nothing, also when expand_queue unrolls a ring whose        *)
(* messages go around its end.                                             *)
THEOREM RingCorrect ==
    ASSUME QueueSize \in Nat, QueueSize > 1
    PROVE  Spec => ImplementsFifo
<1>1. Init => RingInv /\ F!Init
  BY InitRing DEF F!Init, Init
<1>2. RingInv /\ [Next]_vars => RingInv' /\ [F!Next]_<<Waiting, popped>>
  BY StepFifo
<1> QED BY <1>1, <1>2, PTL DEF Spec, ImplementsFifo, F!Spec
=============================================================================
