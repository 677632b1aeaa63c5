---------------------------- MODULE PartsProofs -----------------------------
(***************************************************************************)
(* Four components that share no state with the others, for every value of *)
(* their constants: the connection pool of the database services, the user *)
(* manager of a game server, the multicast of packages, and the            *)
(* reader-writer lock.  Each is an instance of its own module, under the   *)
(* name that the modules for model checking give it, and the parts of the  *)
(* proof of each one begin with its inductive invariant.                   *)
(***************************************************************************)
EXTENDS FiniteSets, Integers, Sequences, SequencesExt, FiniteSetTheorems,
        SequenceTheorems, WellFoundedInduction, TLAPS

CONSTANTS
    Thread, PoolSize, MaxConn, MaxFail,
    User, Item, MaxPlayer, MaxLogin, None,
    Sub, MaxPack, MaxCall

VARIABLES
    pPool, pConn, pStale, pIterator, pMade, pExited, pAnswer, pFails, pH,
    uHash, uPool, uMade, uIndex, uLoaded, uRows, uLogins, uH, uMarred, uLost,
    mGroup, mCount, mRefs, mFreed, mTargets, mMade, mDbox, mBox, mSubscribed, mWaiting,
    mCalls, mUnknown, mGone,
    lWrite, lRead, lPc

Pool == INSTANCE ConnectionPool WITH
    pool <- pPool, conn <- pConn, stale <- pStale, iterator <- pIterator, made <- pMade,
    exited <- pExited, answer <- pAnswer, fails <- pFails, h <- pH

Users == INSTANCE UserManager WITH
    hash <- uHash, pool <- uPool, made <- uMade, index <- uIndex, loaded <- uLoaded,
    rows <- uRows, logins <- uLogins, h <- uH, marred <- uMarred, lost <- uLost

Cast == INSTANCE Multicast WITH
    group <- mGroup, count <- mCount, refs <- mRefs, freed <- mFreed, targets <- mTargets,
    made <- mMade, dbox <- mDbox, box <- mBox, subscribed <- mSubscribed,
    waiting <- mWaiting, calls <- mCalls, unknown <- mUnknown, gone <- mGone

Lock == INSTANCE RWLock WITH write <- lWrite, read <- lRead, pc <- lPc

-----------------------------------------------------------------------------
(* mysqlConnectionPool.lua.  That the pool keeps its size is not           *)
(* inductive: a handler that replaces a connection after an error has      *)
(* taken it out of the pool and will put another in, so that the pool and  *)
(* these handlers together keep the size.  A connection is answered alive  *)
(* because an item of which the connection has been told to exit stays     *)
(* known as old until it is renewed.                                       *)
HandlerType == [pc : {"idle", "grow", "renew", "replace"}, size : Nat, item : 0 .. MaxConn]

(* Every variable has its type; an item that is renewed has been made, and *)
(* the number of a connection that has not been made is its own.           *)
PTypes ==
    /\ pMade \in PoolSize .. MaxConn /\ pPool \in Seq(1 .. pMade)
    /\ pConn \in [Pool!Conn -> Pool!Conn] /\ pStale \subseteq Pool!Conn
    /\ pIterator \in Nat /\ pExited \subseteq 1 .. pMade /\ pAnswer \in 0 .. pMade
    /\ pFails \in Nat
    /\ pH \in [Thread -> HandlerType]
    /\ \A t \in Thread : pH[t].pc = "renew" => pH[t].item \in 1 .. pMade
    /\ \A c \in pMade + 1 .. MaxConn : pConn[c] = c

(* The items of the pool differ, and so do their connections, which have   *)
(* been made; a connection that has been told to exit is known to be old.  *)
Items == \A i, j \in DOMAIN pPool : i # j => pPool[i] # pPool[j]
Mades == \A i \in DOMAIN pPool : pConn[pPool[i]] \in 1 .. pMade
Told == \A i \in DOMAIN pPool : pConn[pPool[i]] \in pExited => pPool[i] \in pStale

(* Handlers that have taken a connection out of the pool.                  *)
Replacing == {t \in Thread : pH[t].pc = "replace"}
Size == /\ IsFiniteSet(Replacing)
        /\ Len(pPool) + Cardinality(Replacing) >= PoolSize - pFails

(* The invariant.                                                          *)
PInv == PTypes /\ Items /\ Mades /\ Told /\ Size /\ Pool!ConnOnce /\ Pool!AnsweredLive

(* The pool starts with PoolSize connections.                              *)
LEMMA PInit == ASSUME PoolSize \in Nat, MaxConn \in Nat, PoolSize <= MaxConn, Pool!Init PROVE PInv
<1>1. Replacing = {}
  BY DEF Pool!Init, Replacing, Pool!Idle
<1>2. IsFiniteSet({}) /\ Cardinality({}) = 0
  BY FS_EmptySet
<1>3. DOMAIN pPool = 1 .. PoolSize /\ Len(pPool) = PoolSize
  BY DEF Pool!Init
<1>4. PTypes
  BY DEF Pool!Init, PTypes, HandlerType, Pool!Idle, Pool!Conn
<1> QED
  BY <1>1, <1>2, <1>3, <1>4 DEF Pool!Init, PInv, Items, Mades, Told, Size, Pool!ConnOnce,
     Pool!AnsweredLive, Pool!Conn

(* The pool p, when the connections in x have been told to exit, the items *)
(* in old are known to be old, and n connections have been made.           *)
Good(p, c, x, old, n) ==
    /\ p \in Seq(1 .. n)
    /\ \A i, j \in DOMAIN p : i # j => p[i] # p[j] /\ c[p[i]] # c[p[j]]
    /\ \A i \in DOMAIN p : c[p[i]] \in 1 .. n /\ (c[p[i]] \in x => p[i] \in old)

(* The invariant says so of the pool that there is, ...                    *)
LEMMA GoodNow == PInv => Good(pPool, pConn, pExited, pStale, pMade)
BY DEF PInv, PTypes, Items, Mades, Told, Pool!ConnOnce, Good

(* ... and what is said of the next pool is part of the invariant.         *)
LEMMA GoodThen ==
    Good(pPool, pConn, pExited, pStale, pMade)' => Items' /\ Mades' /\ Told' /\ Pool!ConnOnce'
BY DEF Items, Mades, Told, Pool!ConnOnce, Good

(* createConnection puts a new item at the end.                            *)
LEMMA CreateStep ==
    ASSUME PInv, Pool!Create, PoolSize \in Nat, MaxConn \in Nat
    PROVE  /\ pMade' = pMade + 1 /\ pMade' \in PoolSize .. MaxConn /\ pConn' = pConn
           /\ Len(pPool') = Len(pPool) + 1 /\ Good(pPool', pConn, pExited, pStale, pMade')
<1>1. /\ pMade \in PoolSize .. MaxConn /\ pMade' = pMade + 1 /\ pMade < MaxConn
      /\ pPool' = Append(pPool, pMade') /\ pConn' = [pConn EXCEPT ![pMade'] = pMade']
  BY DEF PInv, PTypes, Pool!Create
<1>2. /\ pPool \in Seq(1 .. pMade) /\ pConn \in [Pool!Conn -> Pool!Conn]
      /\ pExited \subseteq 1 .. pMade
      /\ \A c \in pMade + 1 .. MaxConn : pConn[c] = c
  BY DEF PInv, PTypes
<1>3. pConn' = pConn /\ pConn[pMade'] = pMade'
  BY <1>1, <1>2 DEF Pool!Conn
<1>4. /\ DOMAIN pPool = 1 .. Len(pPool) /\ DOMAIN pPool' = 1 .. Len(pPool) + 1
      /\ Len(pPool) \in Nat
      /\ pPool'[Len(pPool) + 1] = pMade' /\ Len(pPool') = Len(pPool) + 1
      /\ \A i \in DOMAIN pPool : pPool'[i] = pPool[i] /\ pPool[i] \in 1 .. pMade
  BY <1>1, <1>2
<1>5. pPool' \in Seq(1 .. pMade')
  <2>1. pPool \in Seq(1 .. pMade')
    BY <1>1, <1>2, <1>4
  <2>2. pMade' \in 1 .. pMade'
    BY <1>1
  <2> QED
    BY <1>1, <2>1, <2>2
<1>6. \A i \in DOMAIN pPool : pConn[pPool[i]] \in 1 .. pMade
  BY DEF PInv, Mades
<1>7. ASSUME NEW i \in DOMAIN pPool', NEW j \in DOMAIN pPool', i # j
      PROVE  pPool'[i] # pPool'[j] /\ pConn[pPool'[i]] # pConn[pPool'[j]]
  <2>1. \A k \in DOMAIN pPool : pPool[k] # pMade' /\ pConn[pPool[k]] # pMade'
    BY <1>1, <1>4, <1>6
  <2>2. CASE i \in DOMAIN pPool /\ j \in DOMAIN pPool
    BY <1>4, <1>7, <2>2 DEF PInv, Items, Pool!ConnOnce
  <2>3. CASE i = Len(pPool) + 1
    BY <1>3, <1>4, <1>7, <2>1, <2>3
  <2>4. CASE j = Len(pPool) + 1
    BY <1>3, <1>4, <1>7, <2>1, <2>4
  <2> QED
    BY <1>4, <1>7, <2>2, <2>3, <2>4
<1>8. ASSUME NEW i \in DOMAIN pPool'
      PROVE  pConn[pPool'[i]] \in 1 .. pMade'
                 /\ (pConn[pPool'[i]] \in pExited => pPool'[i] \in pStale)
  <2>1. pMade' \notin pExited /\ pMade' \in 1 .. pMade'
    BY <1>1, <1>2
  <2>2. CASE i \in DOMAIN pPool
    BY <1>1, <1>4, <1>6, <2>2 DEF PInv, Told
  <2>3. CASE i = Len(pPool) + 1
    BY <1>3, <1>4, <2>1, <2>3
  <2> QED
    BY <1>4, <2>2, <2>3
<1>9. Good(pPool', pConn, pExited, pStale, pMade')
  BY <1>5, <1>7, <1>8 DEF Good
<1>10. pMade' \in PoolSize .. MaxConn
  BY <1>1
<1> QED
  BY <1>1, <1>3, <1>4, <1>9, <1>10

(* getConnection from the iterator on: an item that is old is not used     *)
(* before it is renewed, and no other item has the connection that is told *)
(* to exit.                                                                *)
LEMMA TakeStep ==
    ASSUME NEW t \in Thread, NEW p, NEW size \in Nat, NEW n \in Nat, PInv, Pool!Take(t, p, size),
           Good(p, pConn, pExited, pStale, n), pMade <= n, n <= MaxConn, MaxConn \in Nat
    PROVE  /\ pIterator' \in Nat /\ pStale' = pStale /\ pExited' \subseteq 1 .. n
           /\ pAnswer' \in 0 .. n /\ pAnswer' \notin pExited'
           /\ Good(p, pConn, pExited', pStale, n)
           /\ \/ pH' = [pH EXCEPT ![t] = Pool!Idle]
              \/ \E item \in 1 .. n :
                    pH' = [pH EXCEPT ![t] = [pc |-> "renew", size |-> 0, item |-> item]]
<1> DEFINE next == IF pIterator + 1 > size THEN 1 ELSE pIterator + 1
           item == p[next]
<1>1. /\ pIterator \in Nat /\ pExited \subseteq 1 .. pMade /\ pMade \in Nat
  BY DEF PInv, PTypes
<1>2. next \in Nat \ {0}
  BY <1>1
<1>3. pIterator' = next /\ pStale' = pStale
  BY DEF Pool!Take
<1>4. pExited \subseteq 1 .. n
  BY <1>1
<1>5. CASE next > Len(p)
  <2>1. pH' = [pH EXCEPT ![t] = Pool!Idle] /\ pExited' = pExited /\ pAnswer' = 0
    BY <1>5 DEF Pool!Take
  <2> QED
    BY <1>2, <1>3, <1>4, <2>1
<1>6. CASE ~(next > Len(p))
  <2>1. p \in Seq(1 .. n) /\ Len(p) \in Nat /\ DOMAIN p = 1 .. Len(p)
    BY DEF Good
  <2>2. next \in DOMAIN p /\ item \in 1 .. n /\ pConn[item] \in 1 .. n
    <3>1. next \in DOMAIN p
      BY <1>2, <1>6, <2>1
    <3> QED
      BY <2>1, <3>1 DEF Good
  <2> HIDE DEF next
  <2>3. CASE item \in pStale
    <3>1. /\ pExited' = pExited \cup {pConn[item]} /\ pAnswer' = 0
          /\ pH' = [pH EXCEPT ![t] = [pc |-> "renew", size |-> 0, item |-> item]]
      BY <1>6, <2>3 DEF Pool!Take, next
    <3>2. Good(p, pConn, pExited', pStale, n)
      BY <2>2, <2>3, <3>1 DEF Good
    <3>3. pExited' \subseteq 1 .. n
      BY <1>4, <2>2, <3>1
    <3>4. pAnswer' \in 0 .. n /\ pAnswer' \notin pExited'
      BY <3>1, <3>3
    <3> QED
      BY <1>2, <1>3, <2>2, <3>1, <3>2, <3>3, <3>4
  <2>4. CASE item \notin pStale
    <3>1. pAnswer' = pConn[item] /\ pExited' = pExited /\ pH' = [pH EXCEPT ![t] = Pool!Idle]
      BY <1>6, <2>4 DEF Pool!Take, next
    <3>2. pConn[item] \notin pExited
      BY <2>2, <2>4 DEF Good
    <3>3. pAnswer' \in 0 .. n
      BY <2>2, <3>1
    <3> QED
      BY <1>2, <1>3, <1>4, <3>1, <3>2, <3>3
  <2> QED
    BY <2>3, <2>4
<1> QED
  BY <1>5, <1>6

(* A handler that does not replace a connection neither before nor after.  *)
LEMMA SameReplacing ==
    ASSUME PInv, NEW t \in Thread, pH[t].pc # "replace",
           NEW x, pH' = [pH EXCEPT ![t] = x], x.pc # "replace"
    PROVE  Replacing' = Replacing
BY DEF PInv, PTypes, Replacing

(* A sequence without its entry at i: the others stay, in order.           *)
LEMMA Removed ==
    ASSUME NEW S, NEW q \in Seq(S), NEW i \in DOMAIN q
    PROVE  /\ Pool!RemoveAt(q, i) \in Seq(S) /\ Len(Pool!RemoveAt(q, i)) = Len(q) - 1
           /\ \A j \in 1 .. Len(q) - 1 : Pool!RemoveAt(q, i)[j] = IF j < i THEN q[j] ELSE q[j + 1]
<1> DEFINE a == SubSeq(q, 1, i - 1)
           b == SubSeq(q, i + 1, Len(q))
<1>1. i \in 1 .. Len(q) /\ Len(q) \in Nat
  OBVIOUS
<1>2. a \in Seq(S) /\ Len(a) = i - 1 /\ \A j \in 1 .. i - 1 : a[j] = q[j]
  BY <1>1, SubSeqProperties
<1>3. b \in Seq(S) /\ Len(b) = Len(q) - i /\ \A j \in 1 .. Len(q) - i : b[j] = q[i + j]
  BY <1>1, SubSeqProperties
<1> HIDE DEF a, b
<1>4. /\ a \o b \in Seq(S) /\ Len(a \o b) = Len(q) - 1
      /\ \A j \in 1 .. Len(q) - 1 : (a \o b)[j] = IF j <= i - 1 THEN a[j] ELSE b[j - (i - 1)]
  <2>1. /\ a \o b \in Seq(S) /\ Len(a \o b) = Len(a) + Len(b)
        /\ \A j \in 1 .. Len(a) + Len(b) :
               (a \o b)[j] = IF j <= Len(a) THEN a[j] ELSE b[j - Len(a)]
    BY <1>2, <1>3, ConcatProperties
  <2>2. Len(a) + Len(b) = Len(q) - 1
    BY <1>1, <1>2, <1>3
  <2> QED
    BY <1>2, <2>1, <2>2
<1>5. ASSUME NEW j \in 1 .. Len(q) - 1
      PROVE  (a \o b)[j] = IF j < i THEN q[j] ELSE q[j + 1]
  <2>1. CASE j < i
    BY <1>1, <1>2, <1>4, <2>1
  <2>2. CASE ~(j < i)
    <3>1. j - (i - 1) \in 1 .. Len(q) - i /\ ~(j <= i - 1)
      BY <1>1, <2>2
    <3>2. i + (j - (i - 1)) = j + 1
      BY <1>1
    <3> QED
      BY <1>3, <1>4, <2>2, <3>1, <3>2
  <2> QED
    BY <2>1, <2>2
<1>6. Pool!RemoveAt(q, i) = a \o b
  BY DEF Pool!RemoveAt, a, b
<1> QED
  BY <1>4, <1>5, <1>6

-----------------------------------------------------------------------------
(* The invariant from what a step has done.                                *)
LEMMA Assembled ==
    ASSUME PInv, NEW t \in Thread, PoolSize \in Nat, MaxConn \in Nat,
           pMade' \in PoolSize .. MaxConn, pMade <= pMade',
           pConn' \in [Pool!Conn -> Pool!Conn], \A c \in pMade' + 1 .. MaxConn : pConn'[c] = c,
           pStale' \subseteq Pool!Conn, pIterator' \in Nat, pExited' \subseteq 1 .. pMade',
           pAnswer' \in 0 .. pMade', pAnswer' \notin pExited', pFails' \in Nat,
           Good(pPool', pConn', pExited', pStale', pMade'),
           NEW x \in HandlerType,
           x.pc = "renew" => x.item \in 1 .. pMade',
           pH' = [pH EXCEPT ![t] = x], Size'
    PROVE  PInv'
<1>1. PTypes'
  <2>1. pPool' \in Seq(1 .. pMade')
    BY DEF Good
  <2>2. pH' \in [Thread -> HandlerType]
    BY DEF PInv, PTypes, HandlerType
  <2>3. ASSUME NEW u \in Thread, pH'[u].pc = "renew" PROVE pH'[u].item \in 1 .. pMade'
    <3>1. CASE u = t
      BY <2>3, <3>1 DEF PInv, PTypes
    <3>2. CASE u # t
      <4>1. pH[u].pc = "renew" /\ pH'[u] = pH[u] /\ pMade \in Nat
        BY <2>3, <3>2 DEF PInv, PTypes
      <4>2. pH[u].item \in 1 .. pMade
        BY <4>1 DEF PInv, PTypes
      <4> QED
        BY <4>1, <4>2
    <3> QED
      BY <3>1, <3>2
  <2> QED
    BY <2>1, <2>2, <2>3 DEF PTypes
<1>2. Items' /\ Mades' /\ Told' /\ Pool!ConnOnce'
  BY GoodThen
<1>3. Pool!AnsweredLive'
  BY DEF Pool!AnsweredLive
<1> QED
  BY <1>1, <1>2, <1>3 DEF PInv

(* A number that no connection has yet stands for itself.                  *)
LEMMA NotYetMade ==
    ASSUME PInv, PoolSize \in Nat, MaxConn \in Nat, pMade' \in PoolSize .. MaxConn,
           pMade <= pMade', pConn' = pConn
    PROVE  \A c \in pMade' + 1 .. MaxConn : pConn'[c] = c
<1>1. pMade \in Nat /\ pMade' \in Nat
  BY DEF PInv, PTypes
<1>2. ASSUME NEW n \in Nat, NEW m \in Nat, n <= m, NEW c \in m + 1 .. MaxConn
      PROVE  c \in n + 1 .. MaxConn
  BY <1>2
<1>3. \A c \in pMade' + 1 .. MaxConn : c \in pMade + 1 .. MaxConn
  BY <1>1, <1>2
<1> QED
  BY <1>3 DEF PInv, PTypes

(* The handler that goes round the pool ends or waits for a new service.   *)
LEMMA TakeAssembled ==
    ASSUME PInv, NEW t \in Thread, PoolSize \in Nat, MaxConn \in Nat, NEW size \in Nat,
           Pool!Take(t, pPool', size), Good(pPool', pConn, pExited, pStale, pMade'),
           pMade' \in PoolSize .. MaxConn, pMade <= pMade', pConn' = pConn, pFails' = pFails,
           Len(pPool) <= Len(pPool'), pH[t].pc # "replace"
    PROVE  PInv'
<1>1. /\ pIterator' \in Nat /\ pStale' = pStale /\ pExited' \subseteq 1 .. pMade'
      /\ pAnswer' \in 0 .. pMade' /\ pAnswer' \notin pExited'
      /\ Good(pPool', pConn, pExited', pStale, pMade')
      /\ \/ pH' = [pH EXCEPT ![t] = Pool!Idle]
         \/ \E item \in 1 .. pMade' :
               pH' = [pH EXCEPT ![t] = [pc |-> "renew", size |-> 0, item |-> item]]
  BY TakeStep
<1>2. PICK x \in HandlerType :
          pH' = [pH EXCEPT ![t] = x] /\ x.pc # "replace"
              /\ (x.pc = "renew" => x.item \in 1 .. pMade')
  <2>1. CASE pH' = [pH EXCEPT ![t] = Pool!Idle]
    <3>1. Pool!Idle \in HandlerType /\ Pool!Idle.pc = "idle"
      BY DEF Pool!Idle, HandlerType
    <3> QED
      BY <2>1, <3>1
  <2>2. ASSUME NEW item \in 1 .. pMade',
               pH' = [pH EXCEPT ![t] = [pc |-> "renew", size |-> 0, item |-> item]]
        PROVE  \E x \in HandlerType :
                   /\ pH' = [pH EXCEPT ![t] = x] /\ x.pc # "replace"
                   /\ (x.pc = "renew" => x.item \in 1 .. pMade')
    <3> DEFINE x == [pc |-> "renew", size |-> 0, item |-> item]
    <3>1. x \in HandlerType /\ x.pc = "renew" /\ x.item = item
      BY DEF HandlerType
    <3> QED
      BY <2>2, <3>1
  <2> QED
    BY <1>1, <2>1, <2>2
<1>3. Replacing' = Replacing
  BY <1>2, SameReplacing
<1>4. Size'
  <2>1. Len(pPool) \in Nat /\ Len(pPool') \in Nat /\ pFails \in Nat
    BY DEF PInv, PTypes, Good
  <2> QED
    BY <1>3, <2>1, FS_CardinalityType DEF PInv, Size
<1>5. \A c \in pMade' + 1 .. MaxConn : pConn'[c] = c
  BY NotYetMade
<1>6. pStale' \subseteq Pool!Conn /\ pFails' \in Nat /\ pConn' \in [Pool!Conn -> Pool!Conn]
  BY <1>1 DEF PInv, PTypes
<1> QED
  BY <1>1, <1>2, <1>4, <1>5, <1>6, Assembled

(* getConnection: the pool is too small and a connection is asked for, or  *)
(* one of its items is looked at.                                          *)
LEMMA GetStep ==
    ASSUME PInv, NEW t \in Thread, PoolSize \in Nat, MaxConn \in Nat, Pool!GetConnection(t)
    PROVE  PInv'
<1>1. Good(pPool, pConn, pExited, pStale, pMade)
  BY GoodNow
<1>2. pPool' = pPool /\ pConn' = pConn /\ pMade' = pMade /\ pFails' = pFails /\ pH[t].pc = "idle"
  BY DEF Pool!GetConnection
<1>3. Len(pPool) \in Nat /\ pMade \in PoolSize .. MaxConn
  BY DEF PInv, PTypes
<1>4. CASE Len(pPool) < PoolSize
  <2> DEFINE x == [pc |-> "grow", size |-> Len(pPool) + 1, item |-> 0]
  <2>1. pH' = [pH EXCEPT ![t] = x] /\ pAnswer' = 0 /\ UNCHANGED <<pStale, pIterator, pExited>>
    BY <1>4 DEF Pool!GetConnection
  <2>2. x \in HandlerType /\ x.pc = "grow"
    BY <1>3 DEF HandlerType
  <2> HIDE DEF x
  <2>3. Replacing' = Replacing
    BY <1>2, <2>1, <2>2, SameReplacing DEF PInv
  <2>4. Size'
    BY <1>2, <2>3 DEF PInv, Size
  <2>5. Good(pPool', pConn', pExited', pStale', pMade')
    BY <1>1, <1>2, <2>1
  <2>6. pExited' \subseteq 1 .. pMade' /\ pAnswer' \in 0 .. pMade' /\ pAnswer' \notin pExited'
    BY <1>2, <1>3, <2>1 DEF PInv, PTypes
  <2>7. /\ \A c \in pMade' + 1 .. MaxConn : pConn'[c] = c
        /\ pStale' \subseteq Pool!Conn /\ pFails' \in Nat /\ pConn' \in [Pool!Conn -> Pool!Conn]
        /\ pIterator' \in Nat /\ pMade' \in PoolSize .. MaxConn /\ pMade <= pMade'
    BY <1>2, <1>3, <2>1 DEF PInv, PTypes
  <2> QED
    BY <2>1, <2>2, <2>4, <2>5, <2>6, <2>7, Assembled
<1>5. CASE ~(Len(pPool) < PoolSize)
  <2>1. Pool!Take(t, pPool', Len(pPool))
    BY <1>2, <1>5 DEF Pool!GetConnection
  <2> QED
    BY <1>1, <1>2, <1>3, <2>1, TakeAssembled
<1> QED
  BY <1>4, <1>5

(* getConnection after createConnection.                                   *)
LEMMA GrownStep ==
    ASSUME PInv, NEW t \in Thread, PoolSize \in Nat, MaxConn \in Nat, Pool!Grown(t)
    PROVE  PInv'
<1>1. Pool!Create /\ Pool!Take(t, pPool', pH[t].size) /\ pFails' = pFails /\ pH[t].pc = "grow"
  BY DEF Pool!Grown
<1>2. /\ pMade' = pMade + 1 /\ pMade' \in PoolSize .. MaxConn /\ pConn' = pConn
      /\ Len(pPool') = Len(pPool) + 1 /\ Good(pPool', pConn, pExited, pStale, pMade')
  BY <1>1, CreateStep
<1>3. pH[t].size \in Nat /\ Len(pPool) \in Nat /\ pMade \in Nat
  BY DEF PInv, PTypes, HandlerType
<1>4. pMade <= pMade' /\ Len(pPool) <= Len(pPool')
  BY <1>2, <1>3
<1> QED
  BY <1>1, <1>2, <1>3, <1>4, TakeAssembled

(* getConnection after a new service has been made for an old item: the    *)
(* item has its connection, and the handler answers it.                    *)
LEMMA RenewedStep ==
    ASSUME PInv, NEW t \in Thread, PoolSize \in Nat, MaxConn \in Nat, Pool!Renewed(t)
    PROVE  PInv'
<1> DEFINE item == pH[t].item
<1>1. /\ pH[t].pc = "renew" /\ pMade < MaxConn /\ pMade' = pMade + 1
      /\ pConn' = [pConn EXCEPT ![item] = pMade'] /\ pStale' = pStale \ {item}
      /\ pAnswer' = pMade'
      /\ pH' = [pH EXCEPT ![t] = Pool!Idle] /\ UNCHANGED <<pPool, pIterator, pExited, pFails>>
  BY DEF Pool!Renewed
<1>2. /\ pMade \in PoolSize .. MaxConn /\ pPool \in Seq(1 .. pMade)
      /\ pConn \in [Pool!Conn -> Pool!Conn]
      /\ pExited \subseteq 1 .. pMade /\ pStale \subseteq Pool!Conn /\ pIterator \in Nat
      /\ pFails \in Nat
      /\ \A c \in pMade + 1 .. MaxConn : pConn[c] = c
      /\ item \in 1 .. pMade
  BY <1>1 DEF PInv, PTypes
<1> HIDE DEF item
<1>3. Good(pPool, pConn, pExited, pStale, pMade)
  BY GoodNow
<1>4. /\ pMade' \in PoolSize .. MaxConn /\ pMade <= pMade' /\ pMade' \in Pool!Conn
      /\ pAnswer' \in 0 .. pMade' /\ pMade' \notin pExited' /\ pExited' \subseteq 1 .. pMade'
  BY <1>1, <1>2 DEF Pool!Conn
<1>5. pConn' \in [Pool!Conn -> Pool!Conn] /\ \A c \in pMade' + 1 .. MaxConn : pConn'[c] = c
  BY <1>1, <1>2, <1>4 DEF Pool!Conn
<1>6. \A i \in DOMAIN pPool : pPool[i] \in 1 .. pMade /\ pPool[i] \in Pool!Conn
  BY <1>2 DEF Pool!Conn
<1>7. \A c \in Pool!Conn : pConn'[c] = IF c = item THEN pMade' ELSE pConn[c]
  BY <1>1, <1>2
<1>8. Good(pPool', pConn', pExited', pStale', pMade')
  <2>1. pPool' \in Seq(1 .. pMade')
    <3>1. \A i \in 1 .. Len(pPool) : pPool[i] \in 1 .. pMade'
      BY <1>1, <1>2, <1>6
    <3> QED
      BY <1>1, <1>2, <3>1
  <2>2. ASSUME NEW i \in DOMAIN pPool, NEW j \in DOMAIN pPool, i # j
        PROVE  pPool[i] # pPool[j] /\ pConn'[pPool[i]] # pConn'[pPool[j]]
    <3>1. /\ pPool[i] # pPool[j] /\ pConn[pPool[i]] # pConn[pPool[j]]
          /\ pConn[pPool[i]] # pMade' /\ pConn[pPool[j]] # pMade'
      BY <1>1, <1>2, <1>3, <2>2 DEF Good
    <3> QED
      BY <1>6, <1>7, <3>1
  <2>3. ASSUME NEW i \in DOMAIN pPool
        PROVE  pConn'[pPool[i]] \in 1 .. pMade'
                   /\ (pConn'[pPool[i]] \in pExited => pPool[i] \in pStale')
    <3>1. pConn[pPool[i]] \in 1 .. pMade /\ (pConn[pPool[i]] \in pExited => pPool[i] \in pStale)
      BY <1>3 DEF Good
    <3>2. CASE pPool[i] = item
      BY <1>1, <1>2, <1>4, <1>6, <1>7, <3>2
    <3>3. CASE pPool[i] # item
      BY <1>1, <1>2, <1>6, <1>7, <3>1, <3>3
    <3> QED
      BY <3>2, <3>3
  <2> QED
    BY <1>1, <2>1, <2>2, <2>3 DEF Good
<1>9. Pool!Idle \in HandlerType /\ Pool!Idle.pc = "idle"
  BY DEF Pool!Idle, HandlerType
<1>10. Replacing' = Replacing
  BY <1>1, <1>9, SameReplacing
<1>11. Size'
  BY <1>1, <1>10 DEF PInv, Size
<1>12. pStale' \subseteq Pool!Conn
  BY <1>1, <1>2
<1> QED
  BY <1>1, <1>2, <1>4, <1>5, <1>8, <1>9, <1>11, <1>12, Assembled

(* A handler begins, or ends, to replace a connection.                     *)
LEMMA MoreReplacing ==
    ASSUME PInv, NEW t \in Thread, pH[t].pc # "replace",
           NEW x, pH' = [pH EXCEPT ![t] = x], x.pc = "replace"
    PROVE  IsFiniteSet(Replacing') /\ Cardinality(Replacing') = Cardinality(Replacing) + 1
<1>1. Replacing' = Replacing \cup {t} /\ t \notin Replacing
  BY DEF PInv, PTypes, Replacing
<1> QED
  BY <1>1, FS_AddElement DEF PInv, Size

(* A handler that has replaced its connection is one less.                 *)
LEMMA LessReplacing ==
    ASSUME PInv, NEW t \in Thread, pH[t].pc = "replace",
           NEW x, pH' = [pH EXCEPT ![t] = x], x.pc # "replace"
    PROVE  IsFiniteSet(Replacing') /\ Cardinality(Replacing') = Cardinality(Replacing) - 1
<1>1. Replacing' = Replacing \ {t} /\ t \in Replacing
  BY DEF PInv, PTypes, Replacing
<1> QED
  BY <1>1, FS_RemoveElement DEF PInv, Size

(* connectionError: the item of the connection is taken out, if it is      *)
(* there.                                                                  *)
LEMMA ErrorStep ==
    ASSUME PInv, NEW t \in Thread, NEW c \in Pool!Conn, PoolSize \in Nat, MaxConn \in Nat,
           Pool!ConnectionError(t, c)
    PROVE  PInv'
<1> DEFINE at == {i \in DOMAIN pPool : pConn[pPool[i]] = c}
           x == [Pool!Idle EXCEPT !.pc = "replace"]
<1>1. /\ pH[t].pc = "idle" /\ c \in 1 .. pMade
      /\ pPool' = IF at = {} THEN pPool ELSE Pool!RemoveAt(pPool, CHOOSE i \in at : TRUE)
      /\ pExited' = pExited \cup {c} /\ pAnswer' = 0 /\ pH' = [pH EXCEPT ![t] = x]
      /\ UNCHANGED <<pConn, pStale, pIterator, pMade, pFails>>
  BY DEF Pool!ConnectionError
<1>2. x \in HandlerType /\ x.pc = "replace"
  BY DEF Pool!Idle, HandlerType
<1> HIDE DEF x
<1>3. /\ pMade \in PoolSize .. MaxConn /\ pPool \in Seq(1 .. pMade)
      /\ pConn \in [Pool!Conn -> Pool!Conn]
      /\ pExited \subseteq 1 .. pMade /\ pStale \subseteq Pool!Conn /\ pIterator \in Nat
      /\ pFails \in Nat
      /\ \A d \in pMade + 1 .. MaxConn : pConn[d] = d
  BY DEF PInv, PTypes
<1>4. Good(pPool, pConn, pExited, pStale, pMade)
  BY GoodNow
<1>5. Good(pPool', pConn, pExited', pStale, pMade) /\ Len(pPool') \in Nat
          /\ Len(pPool') >= Len(pPool) - 1
  <2>1. CASE at = {}
    <3>1. pPool' = pPool /\ \A i \in DOMAIN pPool : pConn[pPool[i]] # c
      BY <1>1, <2>1
    <3>2. Good(pPool', pConn, pExited', pStale, pMade)
      BY <1>1, <1>4, <3>1 DEF Good
    <3> QED
      BY <1>3, <3>1, <3>2
  <2>2. CASE at # {}
    <3>1. PICK k \in DOMAIN pPool : pPool' = Pool!RemoveAt(pPool, k) /\ pConn[pPool[k]] = c
      BY <1>1, <2>2
    <3>2. /\ pPool' \in Seq(1 .. pMade) /\ Len(pPool') = Len(pPool) - 1
          /\ \A j \in 1 .. Len(pPool) - 1 : pPool'[j] = IF j < k THEN pPool[j] ELSE pPool[j + 1]
      BY <1>3, <3>1, Removed
    <3>3. Len(pPool) \in Nat /\ DOMAIN pPool = 1 .. Len(pPool)
              /\ DOMAIN pPool' = 1 .. Len(pPool) - 1
      BY <1>3, <3>2
    <3> DEFINE f(j) == IF j < k THEN j ELSE j + 1
    <3>4. \A j \in DOMAIN pPool' : f(j) \in DOMAIN pPool /\ f(j) # k /\ pPool'[j] = pPool[f(j)]
      BY <3>2, <3>3
    <3>5. \A i, j \in DOMAIN pPool' : i # j => f(i) # f(j)
      BY <3>3
    <3> HIDE DEF f
    <3>6. \A j \in DOMAIN pPool' : pConn[pPool'[j]] # c
      BY <1>4, <3>1, <3>4 DEF Good
    <3>7. ASSUME NEW i \in DOMAIN pPool', NEW j \in DOMAIN pPool', i # j
          PROVE  pPool'[i] # pPool'[j] /\ pConn[pPool'[i]] # pConn[pPool'[j]]
      BY <1>4, <3>4, <3>5, <3>7 DEF Good
    <3>8. ASSUME NEW i \in DOMAIN pPool'
          PROVE  /\ pConn[pPool'[i]] \in 1 .. pMade
                 /\ pConn[pPool'[i]] \in pExited' => pPool'[i] \in pStale
      BY <1>1, <1>4, <3>4, <3>6 DEF Good
    <3>9. Good(pPool', pConn, pExited', pStale, pMade)
      BY <3>2, <3>7, <3>8 DEF Good
    <3> QED
      BY <3>2, <3>3, <3>9
  <2> QED
    BY <2>1, <2>2
<1>6. Size'
  <2>1. IsFiniteSet(Replacing') /\ Cardinality(Replacing') = Cardinality(Replacing) + 1
    BY <1>1, <1>2, MoreReplacing
  <2>2. Cardinality(Replacing) \in Nat /\ Len(pPool) \in Nat
    BY <1>3, FS_CardinalityType DEF PInv, Size
  <2> QED
    <3>1. Len(pPool) + Cardinality(Replacing) >= PoolSize - pFails /\ pFails' = pFails
      BY <1>1 DEF PInv, Size
    <3>2. Len(pPool') + Cardinality(Replacing') >= PoolSize - pFails'
      BY <1>3, <1>5, <2>1, <2>2, <3>1
    <3> QED
      BY <2>1, <3>2 DEF Size
<1>7. pExited' \subseteq 1 .. pMade' /\ pAnswer' \in 0 .. pMade' /\ pMade' \in PoolSize .. MaxConn
      /\ pMade <= pMade'
  BY <1>1, <1>3
<1>8. pAnswer' \notin pExited'
  BY <1>1, <1>7
<1>9. pStale' \subseteq Pool!Conn /\ pFails' \in Nat /\ pIterator' \in Nat
          /\ pConn' \in [Pool!Conn -> Pool!Conn]
      /\ \A d \in pMade' + 1 .. MaxConn : pConn'[d] = d
  BY <1>1, <1>3
<1>10. Good(pPool', pConn', pExited', pStale', pMade')
  BY <1>1, <1>5
<1> QED
  BY <1>1, <1>2, <1>6, <1>7, <1>8, <1>9, <1>10, Assembled

(* connectionError after createConnection: the pool has one more item, and *)
(* one handler less replaces one.                                          *)
LEMMA ReplacedStep ==
    ASSUME PInv, NEW t \in Thread, PoolSize \in Nat, MaxConn \in Nat, Pool!Replaced(t)
    PROVE  PInv'
<1>1. /\ Pool!Create /\ pH[t].pc = "replace" /\ pH' = [pH EXCEPT ![t] = Pool!Idle] /\ pAnswer' = 0
      /\ UNCHANGED <<pStale, pIterator, pExited, pFails>>
  BY DEF Pool!Replaced
<1>2. /\ pMade' = pMade + 1 /\ pMade' \in PoolSize .. MaxConn /\ pConn' = pConn
      /\ Len(pPool') = Len(pPool) + 1 /\ Good(pPool', pConn, pExited, pStale, pMade')
  BY <1>1, CreateStep
<1>3. Pool!Idle \in HandlerType /\ Pool!Idle.pc = "idle"
  BY DEF Pool!Idle, HandlerType
<1>4. /\ pMade \in Nat /\ Len(pPool) \in Nat /\ pConn \in [Pool!Conn -> Pool!Conn]
      /\ pExited \subseteq 1 .. pMade /\ pStale \subseteq Pool!Conn /\ pIterator \in Nat
      /\ pFails \in Nat
      /\ \A d \in pMade + 1 .. MaxConn : pConn[d] = d
  BY DEF PInv, PTypes
<1>5. Size'
  <2>1. IsFiniteSet(Replacing') /\ Cardinality(Replacing') = Cardinality(Replacing) - 1
    BY <1>1, <1>3, LessReplacing
  <2>2. Cardinality(Replacing) \in Nat
    BY FS_CardinalityType DEF PInv, Size
  <2> QED
    BY <1>1, <1>2, <1>4, <2>1, <2>2 DEF PInv, Size
<1>6. pMade <= pMade' /\ pExited' \subseteq 1 .. pMade' /\ pAnswer' \in 0 .. pMade'
  BY <1>1, <1>2, <1>4
<1>7. pAnswer' \notin pExited'
  BY <1>1, <1>6
<1>8. /\ pStale' \subseteq Pool!Conn /\ pFails' \in Nat /\ pIterator' \in Nat
      /\ pConn' \in [Pool!Conn -> Pool!Conn] /\ \A d \in pMade' + 1 .. MaxConn : pConn'[d] = d
  BY <1>1, <1>2, <1>4
<1>9. Good(pPool', pConn', pExited', pStale', pMade')
  BY <1>1, <1>2
<1> QED
  BY <1>1, <1>2, <1>3, <1>5, <1>6, <1>7, <1>8, <1>9, Assembled

(* A connection that could not be made is counted as a failure.            *)
LEMMA FailsStep ==
    ASSUME PInv, NEW t \in Thread, PoolSize \in Nat, MaxConn \in Nat, Pool!Fails(t)
    PROVE  PInv'
<1>1. /\ pFails' = pFails + 1 /\ pH' = [pH EXCEPT ![t] = Pool!Idle] /\ pAnswer' = 0
      /\ UNCHANGED <<pPool, pConn, pStale, pIterator, pMade, pExited>>
  BY DEF Pool!Fails
<1>2. Pool!Idle \in HandlerType /\ Pool!Idle.pc = "idle"
  BY DEF Pool!Idle, HandlerType
<1>3. /\ pMade \in PoolSize .. MaxConn /\ Len(pPool) \in Nat /\ pConn \in [Pool!Conn -> Pool!Conn]
      /\ pExited \subseteq 1 .. pMade /\ pStale \subseteq Pool!Conn /\ pIterator \in Nat
      /\ pFails \in Nat
      /\ \A d \in pMade + 1 .. MaxConn : pConn[d] = d
  BY DEF PInv, PTypes
<1>4. Good(pPool', pConn', pExited', pStale', pMade')
  BY <1>1, GoodNow
<1>5. Size'
  <2>1. Cardinality(Replacing) \in Nat
    BY FS_CardinalityType DEF PInv, Size
  <2>2. CASE pH[t].pc = "replace"
    <3>1. IsFiniteSet(Replacing') /\ Cardinality(Replacing') = Cardinality(Replacing) - 1
      BY <1>1, <1>2, <2>2, LessReplacing
    <3> QED
      BY <1>1, <1>3, <2>1, <3>1 DEF PInv, Size
  <2>3. CASE pH[t].pc # "replace"
    <3>1. Replacing' = Replacing
      BY <1>1, <1>2, <2>3, SameReplacing DEF PInv
    <3> QED
      BY <1>1, <1>3, <2>1, <3>1 DEF PInv, Size
  <2> QED
    BY <2>2, <2>3
<1>6. /\ pMade' \in PoolSize .. MaxConn /\ pMade <= pMade' /\ pExited' \subseteq 1 .. pMade'
      /\ pAnswer' \in 0 .. pMade'
  BY <1>1, <1>3
<1>7. pAnswer' \notin pExited'
  BY <1>1, <1>6
<1>8. /\ pStale' \subseteq Pool!Conn /\ pFails' \in Nat /\ pIterator' \in Nat
      /\ pConn' \in [Pool!Conn -> Pool!Conn] /\ \A d \in pMade' + 1 .. MaxConn : pConn'[d] = d
  BY <1>1, <1>3
<1> QED
  BY <1>1, <1>2, <1>4, <1>5, <1>6, <1>7, <1>8, Assembled

(* The time passes after which an item is old.                             *)
LEMMA AgesStep ==
    ASSUME PInv, NEW i \in DOMAIN pPool, PoolSize \in Nat, MaxConn \in Nat, Pool!Ages(i)
    PROVE  PInv'
<1>1. pStale' = pStale \cup {pPool[i]} /\ pAnswer' = 0
      /\ UNCHANGED <<pPool, pConn, pIterator, pMade, pExited, pFails, pH>>
  BY DEF Pool!Ages
<1>2. pPool[i] \in Pool!Conn
  <2>1. pPool \in Seq(1 .. pMade) /\ pMade \in PoolSize .. MaxConn
    BY DEF PInv, PTypes
  <2>2. pPool[i] \in 1 .. pMade
    BY <2>1
  <2> QED
    BY <2>1, <2>2 DEF Pool!Conn
<1>3. PTypes'
  BY <1>1, <1>2 DEF PInv, PTypes
<1>4. Pool!AnsweredLive'
  <2>1. 0 \notin pExited
    BY DEF PInv, PTypes
  <2> QED
    BY <1>1, <2>1 DEF Pool!AnsweredLive
<1>5. Items' /\ Mades' /\ Told' /\ Pool!ConnOnce'
  BY <1>1 DEF PInv, Items, Mades, Told, Pool!ConnOnce
<1>6. Size'
  BY <1>1 DEF PInv, Size, Replacing
<1> QED
  BY <1>3, <1>4, <1>5, <1>6 DEF PInv

(* Every step keeps the invariant.                                         *)
LEMMA PStep ==
    ASSUME PInv, PoolSize \in Nat, MaxConn \in Nat, [Pool!Next]_(Pool!vars)
    PROVE  PInv'
<1>1. CASE UNCHANGED Pool!vars
  BY <1>1 DEF PInv, Pool!vars, PTypes, Items, Mades, Told, Size, Replacing, Pool!ConnOnce,
     Pool!AnsweredLive
<1>2. CASE Pool!Next
  BY <1>2, GetStep, GrownStep, RenewedStep, ReplacedStep, FailsStep, ErrorStep,
     AgesStep DEF Pool!Next
<1> QED
  BY <1>1, <1>2

(* mysqlConnectionPool.lua: whatever handlers wait for a connection to be  *)
(* made, getConnection answers none that has been told to exit, no two     *)
(* items have the same connection, and with all handlers done the pool has *)
(* its size but for the connections that could not be made.                *)
THEOREM PoolCorrect ==
    ASSUME PoolSize \in Nat, MaxConn \in Nat, PoolSize <= MaxConn
    PROVE  Pool!Spec => []Pool!PoolOK
<1>1. Pool!Init => PInv
  BY PInit
<1>2. PInv /\ [Pool!Next]_(Pool!vars) => PInv'
  BY PStep
<1>3. PInv => Pool!PoolOK
  <2> SUFFICES ASSUME PInv, \A t \in Thread : pH[t].pc = "idle"
               PROVE  Len(pPool) >= PoolSize - pFails
    BY DEF PInv, Pool!PoolOK, Pool!PoolKept
  <2>1. Replacing = {}
    BY DEF Replacing
  <2>2. Cardinality(Replacing) = 0 /\ Len(pPool) \in Nat
    BY <2>1, FS_EmptySet DEF PInv, PTypes
  <2> QED
    BY <2>2 DEF PInv, Size
<1> QED
  BY <1>1, <1>2, <1>3, PTL DEF Pool!Spec

-----------------------------------------------------------------------------
(* GS_model_userManager.lua.  Users are known by positive numbers;         *)
(* MaxLogin is a bound and may be any.                                     *)
UserConstants == /\ User \subseteq Nat \ {0} /\ None \notin Item /\ MaxLogin \in Nat
             /\ MaxPlayer \in Nat \ {0} /\ IsFiniteSet(Item)

(* The places of a handler that lets a user in, and of one that lets a     *)
(* user out.                                                               *)
Ins == {"load", "record", "check"}
Outs == {"logout", "release", "free"}
Pcs == {"idle", "stand"} \cup Ins \cup Outs
Handler == [pc : Pcs, user : User \cup {0}, item : Item \cup {None}, row : Nat,
            kick : User \cup {0}]

(* The variables have their types; a handler knows its user, one that lets *)
(* a user in knows its row, and one that lets a user out the struct.       *)
UserShapes ==
    /\ uHash \in [User -> Item \cup {None}] /\ uPool \in Seq(Item) /\ uMade \subseteq Item
    /\ uIndex \in [Item -> 0 .. uLogins] /\ uLoaded \subseteq User
    /\ uRows \subseteq 1 .. uLogins /\ uLogins \in 0 .. MaxLogin
    /\ uMarred \subseteq User /\ uLost \subseteq 1 .. uLogins
    /\ uH \in [Thread -> Handler]
    /\ \A t \in Thread : uH[t].pc # "idle" => uH[t].user \in User
    /\ \A t \in Thread : uH[t].pc \in Ins => uH[t].row \in 1 .. uLogins
    /\ \A t \in Thread : uH[t].pc \in Outs => uH[t].item \in Item

(* A struct is made for the user who has it, the pool or the handler that  *)
(* lets its user out, and for one of them only.                            *)
Owners ==
    /\ \A u \in User : uHash[u] # None => uHash[u] \in uMade
    /\ \A i \in DOMAIN uPool : uPool[i] \in uMade
    /\ \A t \in Thread : uH[t].pc \in Outs =>
          /\ uH[t].item \in uMade
          /\ \A u \in User : uHash[u] # uH[t].item
          /\ \A i \in DOMAIN uPool : uPool[i] # uH[t].item
    /\ \A s, t \in Thread : s # t /\ uH[s].pc \in Outs /\ uH[t].pc \in Outs =>
          uH[s].item # uH[t].item

(* Of a user whose stay is not marred, one handler lets the user in, and   *)
(* the user is not in while one lets the user out.                         *)
Entries ==
    /\ \A t \in Thread : uH[t].pc \in Outs =>
       uHash[uH[t].user] = None \/ uH[t].user \in uMarred
    /\ \A s, t \in Thread : s # t /\ uH[s].pc \in Ins /\ uH[t].pc \in Ins =>
       uH[s].user # uH[t].user \/ uH[s].user \in uMarred

(* A user who is in and whose stay is not marred has the data, or a        *)
(* handler that will load it.                                              *)
Loads == \A u \in User : uHash[u] # None /\ u \notin uMarred =>
    u \in uLoaded \/ \E t \in Thread : uH[t].pc = "load" /\ uH[t].user = u

(* A row is one handler's or one struct's.                                 *)
RowOnce ==
    /\ \A t \in Thread : uH[t].pc \in Ins => \A i \in Item : uIndex[i] # uH[t].row
    /\ \A s, t \in Thread : s # t /\ uH[s].pc \in Ins /\ uH[t].pc \in Ins => uH[s].row # uH[t].row
    /\ \A i, j \in Item : i # j /\ uIndex[i] # 0 => uIndex[i] # uIndex[j]
    /\ \A t \in Thread : uH[t].pc \in Ins /\ uHash[uH[t].user] # None =>
       uIndex[uHash[uH[t].user]] = 0 \/ uH[t].user \in uMarred
    /\ \A t \in Thread : uH[t].pc = "check" => uH[t].row \in uRows

(* A user who is in and whose stay is not marred has an open row, or a     *)
(* handler that will set it.                                               *)
RowOpen == \A u \in User : uHash[u] # None /\ u \notin uMarred =>
    uIndex[uHash[u]] \in uRows \/ \E t \in Thread : uH[t].pc \in Ins /\ uH[t].user = u

(* An open row that is not lost has a handler that will look at it, or a   *)
(* struct that is not in the pool, nor on the way there after the end of   *)
(* the row.                                                                *)
Standing(i) == /\ i \in uMade /\ \A j \in DOMAIN uPool : uPool[j] # i
               /\ \A t \in Thread : uH[t].pc \in {"release", "free"} => uH[t].item # i
RowHeld == \A r \in uRows \ uLost : \/ \E t \in Thread : uH[t].pc = "check" /\ uH[t].row = r
                                   \/ \E i \in Item : uIndex[i] = r /\ Standing(i)

(* The invariant.  That rows are kept and ended says something of states   *)
(* without handlers only; RowOpen and RowHeld say what the handlers still  *)
(* owe in the others.                                                      *)
UInv == UserShapes /\ Users!ItemOnce /\ Owners /\ Entries /\ Loads /\ RowOnce /\ RowOpen
    /\ RowHeld

-----------------------------------------------------------------------------
(* The instance counts as FiniteSets does.                                 *)
LEMMA UsersSize == \A S : Users!Cardinality(S) = Cardinality(S)
BY DEF Users!Cardinality, Cardinality

(* An empty room.                                                          *)
LEMMA UInit == ASSUME UserConstants, Users!Init PROVE UInv
<1>1. UserShapes
  BY DEF Users!Init, UserShapes, Users!Idle, Handler, Pcs, Ins, Outs, UserConstants
<1>2. DOMAIN uPool = {} /\ \A t \in Thread : uH[t].pc = "idle"
  BY DEF Users!Init, Users!Idle
<1> QED
  BY <1>1, <1>2 DEF Users!Init, UInv, Users!ItemOnce, Owners, Entries, Loads, RowOnce, RowOpen,
     RowHeld, Ins, Outs

(* The handler of t, or of another thread, after a step in which t goes to *)
(* another place and keeps what it knows.                                  *)
Moved(t, pc) ==
    /\ uH' \in [Thread -> Handler] /\ \A s \in Thread : s # t => uH'[s] = uH[s]
    /\ uH'[t].pc = pc /\ uH'[t].user = uH[t].user /\ uH'[t].item = uH[t].item
    /\ uH'[t].row = uH[t].row

(* Goes moves a handler on.                                                *)
LEMMA GoesMoves ==
    ASSUME UInv, NEW t \in Thread, NEW pc \in Pcs, Users!Goes(t, pc)
    PROVE  Moved(t, pc)
<1>1. uH \in [Thread -> Handler] /\ uH' = [uH EXCEPT ![t].pc = pc]
  BY DEF UInv, UserShapes, Users!Goes
<1>2. uH'[t] = [uH[t] EXCEPT !.pc = pc] /\ uH[t] \in Handler /\ \A s \in Thread : s # t =>
          uH'[s] = uH[s]
  BY <1>1
<1>3. /\ uH'[t] \in Handler /\ uH'[t].pc = pc /\ uH'[t].user = uH[t].user
      /\ uH'[t].item = uH[t].item /\ uH'[t].row = uH[t].row
  BY <1>2 DEF Handler
<1>4. uH' \in [Thread -> Handler]
  BY <1>1, <1>2, <1>3
<1> QED
  BY <1>2, <1>3, <1>4 DEF Moved

(* The places of the ways in and out differ.                               *)
LEMMA Places ==
    /\ "load" \in Ins /\ "record" \in Ins /\ "check" \in Ins /\ "logout" \in Outs
    /\ "release" \in Outs /\ "free" \in Outs /\ Ins \cap Outs = {}
    /\ "idle" \notin Ins \cup Outs /\ "stand" \notin Ins \cup Outs
    /\ Pcs = {"idle", "stand"} \cup Ins \cup Outs
BY DEF Ins, Outs, Pcs

(* A move along the way in, or along the way out.                          *)
LEMMA MoveKeeps ==
    ASSUME UInv, NEW t \in Thread, NEW pc, Moved(t, pc),
           uH[t].pc \in Ins \cup Outs, uH[t].pc \in Ins <=> pc \in Ins,
           uH[t].pc \in Outs <=> pc \in Outs,
           uHash' = uHash, uPool' = uPool, uMade' = uMade, uIndex' = uIndex, uLogins' = uLogins,
           uRows' \subseteq 1 .. uLogins, uLoaded' \subseteq User, uMarred' = uMarred, uLost' = uLost
    PROVE  /\ UserShapes' /\ Users!ItemOnce' /\ Owners' /\ Entries'
           /\ (\A s \in Thread : uH'[s].pc = "check" => uH'[s].row \in uRows') => RowOnce'
<1>1. \A s \in Thread :
          /\ uH'[s].user = uH[s].user /\ uH'[s].item = uH[s].item /\ uH'[s].row = uH[s].row
          /\ uH'[s].pc \in Ins <=> uH[s].pc \in Ins
          /\ uH'[s].pc \in Outs <=> uH[s].pc \in Outs
          /\ uH'[s].pc # "idle" => uH[s].pc # "idle"
  BY Places DEF Moved
<1>2. UserShapes'
  BY <1>1 DEF UInv, UserShapes, Moved
<1>3. Users!ItemOnce'
  BY DEF UInv, Users!ItemOnce
<1>4. Owners'
  BY <1>1 DEF UInv, Owners
<1>5. Entries'
  BY <1>1 DEF UInv, Entries
<1>6. (\A s \in Thread : uH'[s].pc = "check" => uH'[s].row \in uRows') => RowOnce'
  BY <1>1 DEF UInv, RowOnce
<1> QED
  BY <1>2, <1>3, <1>4, <1>5, <1>6

-----------------------------------------------------------------------------
(* cmd_loadUserData: the user of the handler has the data.                 *)
LEMMA LoadStep ==
    ASSUME UInv, NEW t \in Thread, Users!Load(t)
    PROVE  UInv'
<1>1. /\ uH[t].pc = "load" /\ uLoaded' = uLoaded \cup {uH[t].user} /\ Users!Goes(t, "record")
      /\ uHash' = uHash /\ uPool' = uPool /\ uMade' = uMade /\ uIndex' = uIndex /\ uRows' = uRows
      /\ uLogins' = uLogins /\ uMarred' = uMarred /\ uLost' = uLost
  BY DEF Users!Load
<1>2. Moved(t, "record")
  BY <1>1, GoesMoves, Places
<1>3. uLoaded' \subseteq User /\ uRows' \subseteq 1 .. uLogins
  BY <1>1 DEF UInv, UserShapes
<1>4. \A s \in Thread : uH'[s].pc = "check" => uH'[s].row \in uRows'
  BY <1>1, <1>2 DEF UInv, RowOnce, Moved
<1>5. UserShapes' /\ Users!ItemOnce' /\ Owners' /\ Entries' /\ RowOnce'
  BY <1>1, <1>2, <1>3, <1>4, MoveKeeps, Places
<1>6. Loads'
  BY <1>1, <1>2 DEF UInv, Loads, Moved
<1>7. RowOpen'
  BY <1>1, <1>2, Places DEF UInv, RowOpen, Moved
<1>8. RowHeld'
  BY <1>1, <1>2 DEF UInv, RowHeld, Standing, Moved
<1> QED
  BY <1>5, <1>6, <1>7, <1>8 DEF UInv

(* sp_record_user_in: the row of the handler is open, and is nobody        *)
(* else's.                                                                 *)
LEMMA RecordStep ==
    ASSUME UInv, NEW t \in Thread, Users!Record(t)
    PROVE  UInv'
<1>1. /\ uH[t].pc = "record" /\ uRows' = uRows \cup {uH[t].row} /\ Users!Goes(t, "check")
      /\ uHash' = uHash /\ uPool' = uPool /\ uMade' = uMade /\ uIndex' = uIndex
      /\ uLoaded' = uLoaded
      /\ uLogins' = uLogins /\ uMarred' = uMarred /\ uLost' = uLost
  BY DEF Users!Record
<1>2. Moved(t, "check")
  BY <1>1, GoesMoves, Places
<1>3. uLoaded' \subseteq User /\ uRows' \subseteq 1 .. uLogins
  BY <1>1, Places DEF UInv, UserShapes
<1>4. \A s \in Thread : uH'[s].pc = "check" => uH'[s].row \in uRows'
  BY <1>1, <1>2 DEF UInv, RowOnce, Moved
<1>5. UserShapes' /\ Users!ItemOnce' /\ Owners' /\ Entries' /\ RowOnce'
  BY <1>1, <1>2, <1>3, <1>4, MoveKeeps, Places
<1>6. Loads'
  BY <1>1, <1>2 DEF UInv, Loads, Moved
<1>7. RowOpen'
  BY <1>1, <1>2, Places DEF UInv, RowOpen, Moved
<1>8. RowHeld'
  BY <1>1, <1>2 DEF UInv, RowHeld, Standing, Moved
<1> QED
  BY <1>5, <1>6, <1>7, <1>8 DEF UInv

(* doDBUserLogout ends the row of the struct and no other.                 *)
LEMMA LogoutStep ==
    ASSUME UInv, NEW t \in Thread, Users!Logout(t)
    PROVE  UInv'
<1>1. /\ uH[t].pc = "logout" /\ uRows' = uRows \ {uIndex[uH[t].item]} /\ Users!Goes(t, "release")
      /\ uHash' = uHash /\ uPool' = uPool /\ uMade' = uMade /\ uIndex' = uIndex
      /\ uLoaded' = uLoaded
      /\ uLogins' = uLogins /\ uMarred' = uMarred /\ uLost' = uLost
  BY DEF Users!Logout
<1>2. Moved(t, "release")
  BY <1>1, GoesMoves, Places
<1>3. uLoaded' \subseteq User /\ uRows' \subseteq 1 .. uLogins
  BY <1>1, Places DEF UInv, UserShapes
<1>4. ASSUME NEW s \in Thread, uH'[s].pc = "check" PROVE uH'[s].row \in uRows'
  <2>1. s # t /\ uH'[s] = uH[s] /\ uH[s].pc = "check"
    BY <1>2, <1>4 DEF Moved
  <2>2. uH[t].item \in Item
    BY <1>1, Places DEF UInv, UserShapes
  <2> QED
    BY <1>1, <2>1, <2>2, Places DEF UInv, RowOnce
<1>5. UserShapes' /\ Users!ItemOnce' /\ Owners' /\ Entries' /\ RowOnce'
  BY <1>1, <1>2, <1>3, <1>4, MoveKeeps, Places
<1>6. Loads'
  BY <1>1, <1>2 DEF UInv, Loads, Moved
<1>7. RowOpen'
  <2> SUFFICES ASSUME NEW u \in User, uHash[u] # None, u \notin uMarred
               PROVE  uIndex[uHash[u]] \in uRows' \/ \E s \in Thread : uH'[s].pc \in Ins
                          /\ uH'[s].user = u
    BY <1>1 DEF RowOpen
  <2>1. uHash[u] # uH[t].item /\ uHash[u] \in Item /\ uH[t].item \in Item
    BY <1>1, Places DEF UInv, Owners, UserShapes
  <2>2. uIndex[uHash[u]] \in uRows => uIndex[uHash[u]] \in uRows'
    <3>1. uIndex[uHash[u]] \in uRows => uIndex[uHash[u]] # 0
      BY DEF UInv, UserShapes
    <3> QED
      BY <1>1, <2>1, <3>1 DEF UInv, RowOnce
  <2> QED
    BY <1>1, <1>2, <2>2, Places DEF UInv, RowOpen, Moved
<1>8. RowHeld'
  <2> SUFFICES ASSUME NEW r \in uRows' \ uLost
               PROVE  \/ \E s \in Thread : uH'[s].pc = "check" /\ uH'[s].row = r
                      \/ \E i \in Item : uIndex[i] = r /\ Standing(i)'
    BY <1>1 DEF RowHeld
  <2>1. r \in uRows \ uLost /\ r # uIndex[uH[t].item]
    BY <1>1
  <2>2. CASE \E s \in Thread : uH[s].pc = "check" /\ uH[s].row = r
    BY <1>1, <1>2, <2>2 DEF Moved
  <2>3. ASSUME NEW i \in Item, uIndex[i] = r, Standing(i) PROVE Standing(i)'
    <3>1. i # uH[t].item
      BY <2>1, <2>3
    <3> QED
      BY <1>1, <1>2, <2>3, <3>1 DEF Standing, Moved
  <2> QED
    BY <2>1, <2>2, <2>3 DEF UInv, RowHeld
<1> QED
  BY <1>5, <1>6, <1>7, <1>8 DEF UInv

(* cmd_releaseUserData: nobody has come in as the user meanwhile, or the   *)
(* stay of the one who has is marred.                                      *)
LEMMA ReleaseStep ==
    ASSUME UInv, NEW t \in Thread, Users!Release(t)
    PROVE  UInv'
<1>1. /\ uH[t].pc = "release" /\ uLoaded' = uLoaded \ {uH[t].user} /\ Users!Goes(t, "free")
      /\ uHash' = uHash /\ uPool' = uPool /\ uMade' = uMade /\ uIndex' = uIndex /\ uRows' = uRows
      /\ uLogins' = uLogins /\ uMarred' = uMarred /\ uLost' = uLost
  BY DEF Users!Release
<1>2. Moved(t, "free")
  BY <1>1, GoesMoves, Places
<1>3. uLoaded' \subseteq User /\ uRows' \subseteq 1 .. uLogins
  BY <1>1 DEF UInv, UserShapes
<1>4. \A s \in Thread : uH'[s].pc = "check" => uH'[s].row \in uRows'
  BY <1>1, <1>2 DEF UInv, RowOnce, Moved
<1>5. UserShapes' /\ Users!ItemOnce' /\ Owners' /\ Entries' /\ RowOnce'
  BY <1>1, <1>2, <1>3, <1>4, MoveKeeps, Places
<1>6. Loads'
  <2>1. uHash[uH[t].user] = None \/ uH[t].user \in uMarred
    BY <1>1, Places DEF UInv, Entries
  <2> QED
    BY <1>1, <1>2, <2>1 DEF UInv, Loads, Moved
<1>7. RowOpen'
  BY <1>1, <1>2, Places DEF UInv, RowOpen, Moved
<1>8. RowHeld'
  BY <1>1, <1>2 DEF UInv, RowHeld, Standing, Moved
<1> QED
  BY <1>5, <1>6, <1>7, <1>8 DEF UInv

-----------------------------------------------------------------------------
(* The handler of t is over, or is to let somebody out.                    *)
Left(t) ==
    /\ uH' \in [Thread -> Handler] /\ \A s \in Thread : s # t => uH'[s] = uH[s]
    /\ uH'[t].pc \in {"idle", "stand"} /\ (uH'[t].pc = "stand" => uH'[t].user \in User)

(* Ends leaves a handler idle.                                             *)
LEMMA EndsLeaves ==
    ASSUME UInv, NEW t \in Thread, Users!Ends(t)
    PROVE  Left(t)
<1>1. uH \in [Thread -> Handler] /\ uH' = [uH EXCEPT ![t] = Users!Idle]
  BY DEF UInv, UserShapes, Users!Ends
<1>2. Users!Idle \in Handler /\ Users!Idle.pc = "idle"
  BY Places DEF Users!Idle, Handler
<1> QED
  BY <1>1, <1>2 DEF Left

(* A handler that is to let somebody out holds nothing yet.                *)
LEMMA StandLeaves ==
    ASSUME UInv, NEW t \in Thread, NEW u \in User,
           uH' = [uH EXCEPT ![t] = [Users!Idle EXCEPT !.pc = "stand", !.user = u]]
    PROVE  Left(t)
<1> DEFINE x == [Users!Idle EXCEPT !.pc = "stand", !.user = u]
<1>1. uH \in [Thread -> Handler] /\ uH' = [uH EXCEPT ![t] = x]
  BY DEF UInv, UserShapes
<1>2. x \in Handler /\ x.pc = "stand" /\ x.user = u
  BY Places DEF Users!Idle, Handler
<1> HIDE DEF x
<1> QED
  BY <1>1, <1>2 DEF Left

(* What is left of the handlers.                                           *)
LEMMA LeftKeeps ==
    ASSUME UInv, NEW t \in Thread, Left(t), uHash' = uHash, uMade' = uMade, uLogins' = uLogins,
           uLoaded' \subseteq User, uPool' \in Seq(Item), uIndex' \in [Item -> 0 .. uLogins],
           uRows' \subseteq 1 .. uLogins, uMarred \subseteq uMarred', uMarred' \subseteq User,
           uLost' \subseteq 1 .. uLogins
    PROVE  /\ UserShapes' /\ Entries'
           /\ uH'[t].pc \notin Ins /\ uH'[t].pc \notin Outs /\ uH'[t].pc # "check"
           /\ uH'[t].pc # "load"
<1>1. uH'[t].pc \notin Ins /\ uH'[t].pc \notin Outs /\ uH'[t].pc # "check" /\ uH'[t].pc # "load"
  BY Places DEF Left
<1>2. UserShapes'
  BY <1>1 DEF UInv, UserShapes, Left
<1>3. Entries'
  BY <1>1 DEF UInv, Entries, Left
<1> QED
  BY <1>1, <1>2, <1>3

(* A handler leaves that was not about to look at its row.  If it was on   *)
(* the way in, a call has failed and the stay is marred; a row it may have *)
(* written is lost.                                                        *)
LEMMA QuietStep ==
    ASSUME UInv, NEW t \in Thread, Left(t), uH[t].pc # "check",
           uH[t].pc \in Ins => uH[t].user \in uMarred',
           uHash' = uHash, uPool' = uPool, uMade' = uMade, uIndex' = uIndex, uLogins' = uLogins,
           uLoaded' \subseteq User,
           \A v \in uLoaded \ uLoaded' : uHash[v] = None \/ v \in uMarred',
           uRows \subseteq uRows', uRows' \subseteq uRows \cup uLost',
           uMarred \subseteq uMarred', uMarred' \subseteq User,
           uLost \subseteq uLost', uLost' \subseteq 1 .. uLogins
    PROVE  UInv'
<1>1. uPool' \in Seq(Item) /\ uIndex' \in [Item -> 0 .. uLogins] /\ uRows' \subseteq 1 .. uLogins
  BY DEF UInv, UserShapes
<1>2. /\ UserShapes' /\ Entries'
      /\ uH'[t].pc \notin Ins /\ uH'[t].pc \notin Outs /\ uH'[t].pc # "check"
      /\ uH'[t].pc # "load"
  BY <1>1, LeftKeeps
<1>3. uH[t].pc = "load" => uH[t].pc \in Ins
  BY Places
<1>4. Users!ItemOnce'
  BY DEF UInv, Users!ItemOnce
<1>5. Owners'
  BY <1>2 DEF UInv, Owners, Left
<1>6. Loads'
  <2> SUFFICES ASSUME NEW u \in User, uHash[u] # None, u \notin uMarred'
               PROVE  u \in uLoaded' \/ \E s \in Thread : uH'[s].pc = "load" /\ uH'[s].user = u
    BY DEF Loads
  <2>1. u \in uLoaded => u \in uLoaded'
    OBVIOUS
  <2>2. \A s \in Thread : uH[s].pc = "load" /\ uH[s].user = u => uH'[s] = uH[s]
    BY <1>3 DEF Left
  <2> QED
    BY <2>1, <2>2 DEF UInv, Loads
<1>7. RowOnce'
  BY <1>2 DEF UInv, RowOnce, Left
<1>8. RowOpen'
  <2> SUFFICES ASSUME NEW u \in User, uHash[u] # None, u \notin uMarred'
               PROVE  uIndex[uHash[u]] \in uRows' \/ \E s \in Thread : uH'[s].pc \in Ins
                          /\ uH'[s].user = u
    BY DEF RowOpen
  <2>1. \A s \in Thread : uH[s].pc \in Ins /\ uH[s].user = u => uH'[s] = uH[s]
    BY DEF Left
  <2> QED
    BY <2>1 DEF UInv, RowOpen
<1>9. RowHeld'
  <2>1. uH'[t].pc \notin {"release", "free"}
    BY <1>2, Places
  <2>2. \A s \in Thread : uH[s].pc = "check" => uH'[s] = uH[s]
    BY DEF Left
  <2>3. \A i \in Item : Standing(i) => Standing(i)'
    BY <2>1 DEF Standing, Left
  <2>4. uRows' \ uLost' \subseteq uRows \ uLost
    OBVIOUS
  <2> QED
    BY <2>2, <2>3, <2>4 DEF UInv, RowHeld
<1> QED
  BY <1>2, <1>4, <1>5, <1>6, <1>7, <1>8, <1>9 DEF UInv

(* kickUser: the handler is to let the user out.                           *)
LEMMA KickStep ==
    ASSUME UInv, NEW t \in Thread, NEW u \in User, Users!Kick(t, u)
    PROVE  UInv'
<1>1. /\ uH[t].pc = "idle"
      /\ uH' = [uH EXCEPT ![t] = [Users!Idle EXCEPT !.pc = "stand", !.user = u]]
      /\ UNCHANGED <<uHash, uPool, uMade, uIndex, uLoaded, uRows, uLogins, uMarred, uLost>>
  BY DEF Users!Kick
<1>2. Left(t)
  BY <1>1, StandLeaves
<1>3. uLoaded \subseteq User /\ uMarred \subseteq User /\ uLost \subseteq 1 .. uLogins
  BY DEF UInv, UserShapes
<1>4. uH[t].pc \notin Ins /\ uH[t].pc # "check"
  BY <1>1, Places
<1> QED
  BY <1>1, <1>2, <1>3, <1>4, QuietStep

(* A logout that fails: the struct is never used again.                    *)
LEMMA LogoutFailsStep ==
    ASSUME UInv, NEW t \in Thread, Users!LogoutFails(t)
    PROVE  UInv'
<1>1. uH[t].pc = "logout" /\ Users!Ends(t)
          /\ UNCHANGED <<uHash, uPool, uMade, uIndex, uLoaded, uRows, uLogins, uMarred, uLost>>
  BY DEF Users!LogoutFails
<1>2. Left(t)
  BY <1>1, EndsLeaves
<1>3. uLoaded \subseteq User /\ uMarred \subseteq User /\ uLost \subseteq 1 .. uLogins
  BY DEF UInv, UserShapes
<1>4. uH[t].pc \notin Ins /\ uH[t].pc # "check"
  BY <1>1, Places
<1> QED
  BY <1>1, <1>2, <1>3, <1>4, QuietStep

(* cmd_loadUserData that fails: the stay of the user is marred.            *)
LEMMA LoadFailsStep ==
    ASSUME UInv, NEW t \in Thread, Users!LoadFails(t)
    PROVE  UInv'
<1>1. /\ uH[t].pc = "load" /\ Users!Ends(t) /\ uMarred' = uMarred \cup {uH[t].user}
      /\ uLoaded' \in {uLoaded, uLoaded \cup {uH[t].user}}
      /\ UNCHANGED <<uHash, uPool, uMade, uIndex, uRows, uLogins, uLost>>
  BY DEF Users!LoadFails
<1>2. Left(t)
  BY <1>1, EndsLeaves
<1>3. /\ uLoaded \subseteq User /\ uMarred \subseteq User /\ uLost \subseteq 1 .. uLogins
      /\ uH[t].user \in User
  BY <1>1 DEF UInv, UserShapes
<1>4. uLoaded \subseteq uLoaded' /\ uLoaded' \subseteq User
  BY <1>1, <1>3
<1> QED
  BY <1>1, <1>2, <1>3, <1>4, QuietStep

(* sp_record_user_in that fails: the row, if it was written, is lost.      *)
LEMMA RecordFailsStep ==
    ASSUME UInv, NEW t \in Thread, Users!RecordFails(t)
    PROVE  UInv'
<1>1. PICK written \in SUBSET {uH[t].row} :
          uRows' = uRows \cup written /\ uLost' = uLost \cup written
  BY DEF Users!RecordFails
<1>2. /\ uH[t].pc = "record" /\ Users!Ends(t) /\ uMarred' = uMarred \cup {uH[t].user}
      /\ UNCHANGED <<uHash, uPool, uMade, uIndex, uLoaded, uLogins>>
  BY DEF Users!RecordFails
<1>3. Left(t)
  BY <1>2, EndsLeaves
<1>4. /\ uLoaded \subseteq User /\ uMarred \subseteq User /\ uLost \subseteq 1 .. uLogins
      /\ uH[t].user \in User /\ uH[t].row \in 1 .. uLogins
  BY <1>2, Places DEF UInv, UserShapes
<1>5. /\ uLost \subseteq uLost' /\ uLost' \subseteq 1 .. uLogins
      /\ uRows \subseteq uRows' /\ uRows' \subseteq uRows \cup uLost'
  BY <1>1, <1>4
<1> QED
  BY <1>2, <1>3, <1>4, <1>5, QuietStep

(* cmd_releaseUserData that fails: the struct is never used again.         *)
LEMMA ReleaseFailsStep ==
    ASSUME UInv, NEW t \in Thread, Users!ReleaseFails(t)
    PROVE  UInv'
<1>1. /\ uH[t].pc = "release" /\ Users!Ends(t)
      /\ uLoaded' \in {uLoaded, uLoaded \ {uH[t].user}}
      /\ UNCHANGED <<uHash, uPool, uMade, uIndex, uRows, uLogins, uMarred, uLost>>
  BY DEF Users!ReleaseFails
<1>2. Left(t)
  BY <1>1, EndsLeaves
<1>3. /\ uLoaded \subseteq User /\ uMarred \subseteq User /\ uLost \subseteq 1 .. uLogins
      /\ uHash[uH[t].user] = None \/ uH[t].user \in uMarred
  BY <1>1, Places DEF UInv, UserShapes, Entries
<1>4. uH[t].pc \notin Ins /\ uH[t].pc # "check"
  BY <1>1, Places
<1>5. /\ uLoaded' \subseteq User
      /\ \A v \in uLoaded \ uLoaded' : uHash[v] = None \/ v \in uMarred
  BY <1>1, <1>3
<1> QED
  BY <1>1, <1>2, <1>3, <1>4, <1>5, QuietStep

(* CItemBuffer.release: the struct was the handler's alone.                *)
LEMMA FreeStep ==
    ASSUME UInv, NEW t \in Thread, Users!Free(t)
    PROVE  UInv'
<1> DEFINE item == uH[t].item
<1>1. /\ uH[t].pc = "free" /\ Users!Ends(t) /\ uPool' = Append(uPool, item)
      /\ UNCHANGED <<uHash, uMade, uIndex, uLoaded, uRows, uLogins, uMarred, uLost>>
  BY DEF Users!Free
<1>2. /\ item \in Item /\ item \in uMade /\ uPool \in Seq(Item)
      /\ \A u \in User : uHash[u] # item
      /\ \A i \in DOMAIN uPool : uPool[i] # item
      /\ \A s \in Thread : s # t /\ uH[s].pc \in Outs => uH[s].item # item
  BY <1>1, Places DEF UInv, UserShapes, Owners
<1> HIDE DEF item
<1>3. Left(t)
  BY <1>1, EndsLeaves
<1>4. /\ uPool' \in Seq(Item) /\ Len(uPool) \in Nat /\ DOMAIN uPool = 1 .. Len(uPool)
      /\ DOMAIN uPool' = 1 .. Len(uPool) + 1 /\ uPool'[Len(uPool) + 1] = item
      /\ \A i \in DOMAIN uPool : uPool'[i] = uPool[i]
  BY <1>1, <1>2
<1>5. \A i \in DOMAIN uPool' : (i \in DOMAIN uPool /\ uPool'[i] = uPool[i])
          \/ (i = Len(uPool) + 1 /\ uPool'[i] = item)
  BY <1>4
<1>6. /\ UserShapes' /\ Entries'
      /\ uH'[t].pc \notin Ins /\ uH'[t].pc \notin Outs /\ uH'[t].pc # "check"
      /\ uH'[t].pc # "load"
  BY <1>1, <1>3, <1>4, LeftKeeps DEF UInv, UserShapes
<1>7. uH[t].pc \notin Ins /\ uH[t].pc # "check" /\ uH[t].pc # "load"
  BY <1>1, Places
<1>8. Users!ItemOnce'
  BY <1>1, <1>2, <1>5 DEF UInv, Users!ItemOnce
<1>9. Owners'
  <2>1. ASSUME NEW s \in Thread, uH'[s].pc \in Outs
        PROVE  /\ uH[s] = uH'[s] /\ s # t /\ uH[s].item # item
    BY <1>2, <1>3, <1>6, <2>1 DEF Left
  <2>2. \A s \in Thread : uH'[s].pc \in Outs =>
            /\ uH'[s].item \in uMade
            /\ \A u \in User : uHash[u] # uH'[s].item
            /\ \A i \in DOMAIN uPool' : uPool'[i] # uH'[s].item
    BY <1>5, <2>1 DEF UInv, Owners
  <2>3. \A s, r \in Thread : s # r /\ uH'[s].pc \in Outs /\ uH'[r].pc \in Outs =>
            uH'[s].item # uH'[r].item
    BY <2>1 DEF UInv, Owners
  <2>4. (\A u \in User : uHash[u] # None => uHash[u] \in uMade)
            /\ \A i \in DOMAIN uPool' : uPool'[i] \in uMade
    BY <1>2, <1>5 DEF UInv, Owners
  <2> QED
    BY <1>1, <2>2, <2>3, <2>4 DEF Owners
<1>10. Loads'
  BY <1>1, <1>3, <1>7 DEF UInv, Loads, Left
<1>11. RowOnce'
  BY <1>1, <1>3, <1>6 DEF UInv, RowOnce, Left
<1>12. RowOpen'
  BY <1>1, <1>3, <1>7 DEF UInv, RowOpen, Left
<1>13. RowHeld'
  <2>1. uH'[t].pc \notin {"release", "free"}
    BY <1>6, Places
  <2>2. ASSUME NEW i \in Item, Standing(i) PROVE Standing(i)'
    <3>1. i # item
      BY <1>1, <2>2 DEF Standing, item
    <3> QED
      BY <1>1, <1>3, <1>5, <2>1, <2>2, <3>1 DEF Standing, Left
  <2> QED
    BY <1>1, <1>3, <1>7, <2>2 DEF UInv, RowHeld, Left
<1> QED
  BY <1>6, <1>8, <1>9, <1>10, <1>11, <1>12, <1>13 DEF UInv

(* The check for reentry: the row is the user's, or it is taken back.      *)
LEMMA CheckStep ==
    ASSUME UserConstants, UInv, NEW t \in Thread, Users!Check(t)
    PROVE  UInv'
<1> DEFINE u == uH[t].user
           row == uH[t].row
<1>1. uH[t].pc = "check" /\ uHash' = uHash /\ uPool' = uPool /\ uMade' = uMade
          /\ uLoaded' = uLoaded
      /\ uLogins' = uLogins /\ uMarred' = uMarred
  BY DEF Users!Check
<1>2. /\ u \in User /\ row \in 1 .. uLogins /\ row \in uRows /\ \A i \in Item : uIndex[i] # row
      /\ uH[t].pc \in Ins /\ uH[t].pc \notin Outs /\ uRows \subseteq 1 .. uLogins
      /\ uIndex \in [Item -> 0 .. uLogins] /\ uPool \in Seq(Item)
      /\ \A s \in Thread : s # t /\ uH[s].pc \in Ins =>
            uH[s].row # row /\ (uH[s].user # u \/ u \in uMarred)
      /\ uLoaded \subseteq User /\ uMarred \subseteq User /\ uLost \subseteq 1 .. uLogins
  BY <1>1, Places DEF UInv, UserShapes, RowOnce, Entries
<1> HIDE DEF u, row
<1>3. CASE uHash[u] = None
  <2>1. uRows' = uRows \ {row} /\ uIndex' = uIndex /\ uLost' = uLost /\ Users!Ends(t)
    BY <1>3 DEF Users!Check, u, row
  <2>2. Left(t)
    BY <2>1, EndsLeaves
  <2>3. /\ UserShapes' /\ Entries'
        /\ uH'[t].pc \notin Ins /\ uH'[t].pc \notin Outs /\ uH'[t].pc # "check"
        /\ uH'[t].pc # "load"
    <3>1. uRows' \subseteq 1 .. uLogins
      BY <1>2, <2>1
    <3> QED
      BY <1>1, <1>2, <2>1, <2>2, <3>1, LeftKeeps
  <2>4. Users!ItemOnce' /\ Owners'
    BY <1>1, <2>2, <2>3 DEF UInv, Users!ItemOnce, Owners, Left
  <2>5. Loads'
    BY <1>1, <2>2 DEF UInv, Loads, Left
  <2>6. RowOnce'
    <3>1. ASSUME NEW s \in Thread, uH'[s].pc = "check" PROVE uH'[s].row \in uRows'
      <4>1. s # t /\ uH[s] = uH'[s] /\ uH[s].pc \in Ins
        BY <2>2, <2>3, <3>1, Places DEF Left
      <4> QED
        BY <1>2, <2>1, <3>1, <4>1 DEF UInv, RowOnce
    <3> QED
      BY <1>1, <2>1, <2>2, <2>3, <3>1 DEF UInv, RowOnce, Left
  <2>7. RowOpen'
    <3> SUFFICES ASSUME NEW v \in User, uHash[v] # None, v \notin uMarred
                 PROVE  uIndex[uHash[v]] \in uRows' \/ \E s \in Thread : uH'[s].pc \in Ins
                            /\ uH'[s].user = v
      BY <1>1, <2>1 DEF RowOpen
    <3>1. v # u /\ uHash[v] \in Item
      BY <1>3 DEF UInv, UserShapes
    <3>2. CASE uIndex[uHash[v]] \in uRows
      BY <1>2, <2>1, <3>1, <3>2
    <3>3. ASSUME NEW s \in Thread, uH[s].pc \in Ins, uH[s].user = v
          PROVE  uH'[s].pc \in Ins /\ uH'[s].user = v
      BY <2>2, <3>1, <3>3 DEF Left, u
    <3> QED
      BY <3>2, <3>3 DEF UInv, RowOpen
  <2>8. RowHeld'
    <3>1. uH'[t].pc \notin {"release", "free"}
      BY <2>3, Places
    <3>2. ASSUME NEW i \in Item, Standing(i) PROVE Standing(i)'
      BY <1>1, <2>2, <3>1, <3>2 DEF Standing, Left
    <3>3. ASSUME NEW r \in uRows', NEW s \in Thread, uH[s].pc = "check", uH[s].row = r
          PROVE  uH'[s].pc = "check" /\ uH'[s].row = r
      <4>1. s # t
        BY <2>1, <3>3 DEF row
      <4> QED
        BY <2>2, <3>3, <4>1 DEF Left
    <3> QED
      BY <2>1, <3>2, <3>3 DEF UInv, RowHeld
  <2> QED
    BY <2>3, <2>4, <2>5, <2>6, <2>7, <2>8 DEF UInv
<1>4. CASE uHash[u] # None
  <2> DEFINE item == uHash[u]
  <2>1. /\ uRows' = uRows /\ uIndex' = [uIndex EXCEPT ![item] = row]
        /\ uLost' = uLost \cup ({uIndex[item]} \ {0})
        /\ \/ uH[t].kick = 0 /\ Users!Ends(t)
           \/ uH[t].kick # 0
              /\ uH' = [uH EXCEPT ![t] = [Users!Idle EXCEPT !.pc = "stand", !.user = uH[t].kick]]
    BY <1>4 DEF Users!Check, u, row
  <2>2. Left(t)
    <3>1. uH[t].kick \in User \cup {0}
      BY DEF UInv, UserShapes, Handler
    <3> QED
      BY <2>1, <3>1, EndsLeaves, StandLeaves
  <2>3. /\ item \in Item /\ item \in uMade
        /\ \A i \in DOMAIN uPool : uPool[i] # item
        /\ \A s \in Thread : uH[s].pc \in Outs => uH[s].item # item
    BY <1>2, <1>4 DEF UInv, UserShapes, Owners, Users!ItemOnce, RowOnce, u
  <2>4. \A v \in User : v # u => uHash[v] # item
    BY <1>2, <1>4 DEF UInv, Users!ItemOnce
  <2> HIDE DEF item
  <2>5. /\ uIndex' \in [Item -> 0 .. uLogins] /\ uIndex'[item] = row
        /\ \A i \in Item : i # item => uIndex'[i] = uIndex[i]
    BY <1>2, <2>1, <2>3
  <2>6. row # 0 /\ uLost \subseteq uLost' /\ uLost' \subseteq 1 .. uLogins
    <3>1. uIndex[item] \in 0 .. uLogins /\ uLogins \in Nat
      BY <1>2, <2>3 DEF UInv, UserShapes, UserConstants
    <3> QED
      BY <1>2, <2>1, <3>1
  <2>7. /\ UserShapes' /\ Entries'
        /\ uH'[t].pc \notin Ins /\ uH'[t].pc \notin Outs /\ uH'[t].pc # "check"
        /\ uH'[t].pc # "load"
    BY <1>1, <1>2, <2>1, <2>2, <2>5, <2>6, LeftKeeps
  <2>8. Users!ItemOnce' /\ Owners'
    BY <1>1, <2>2, <2>7 DEF UInv, Users!ItemOnce, Owners, Left
  <2>9. Loads'
    BY <1>1, <2>2 DEF UInv, Loads, Left
  <2>10. \A s \in Thread : uH'[s].pc \in Ins =>
             /\ s # t /\ uH'[s] = uH[s] /\ uH[s].row # row
             /\ uH[s].user # u \/ u \in uMarred
    BY <1>2, <2>2, <2>7 DEF Left
  <2>11. RowOnce'
    <3>1. ASSUME NEW s \in Thread, uH'[s].pc \in Ins, NEW i \in Item PROVE uIndex'[i] # uH'[s].row
      BY <2>5, <2>10, <3>1 DEF UInv, RowOnce
    <3>2. \A s, r \in Thread : s # r /\ uH'[s].pc \in Ins /\ uH'[r].pc \in Ins =>
              uH'[s].row # uH'[r].row
      BY <2>10 DEF UInv, RowOnce
    <3>3. ASSUME NEW i \in Item, NEW j \in Item, i # j, uIndex'[i] # 0
          PROVE  uIndex'[i] # uIndex'[j]
      BY <1>2, <2>5, <3>3 DEF UInv, RowOnce
    <3>4. ASSUME NEW s \in Thread, uH'[s].pc \in Ins, uHash[uH'[s].user] # None,
                 uH'[s].user \notin uMarred
          PROVE  uIndex'[uHash[uH'[s].user]] = 0
      <4>1. /\ uH[s].pc \in Ins /\ uH'[s].user = uH[s].user /\ uH[s].user # u
            /\ uH[s].user \in User
            /\ uIndex[uHash[uH[s].user]] = 0 /\ uHash[uH[s].user] \in Item
        BY <2>10, <3>4, Places DEF UInv, RowOnce, UserShapes
      <4> QED
        BY <2>4, <2>5, <4>1
    <3>5. \A s \in Thread : uH'[s].pc = "check" => uH'[s].row \in uRows'
      BY <2>1, <2>10, Places DEF UInv, RowOnce
    <3> QED
      BY <1>1, <3>1, <3>2, <3>3, <3>4, <3>5 DEF RowOnce
  <2>12. RowOpen'
    <3> SUFFICES ASSUME NEW v \in User, uHash[v] # None, v \notin uMarred
                 PROVE  uIndex'[uHash[v]] \in uRows \/ \E s \in Thread : uH'[s].pc \in Ins
                            /\ uH'[s].user = v
      BY <1>1, <2>1 DEF RowOpen
    <3>1. CASE v = u
      BY <1>2, <2>5, <3>1 DEF item
    <3>2. CASE v # u
      <4>1. uHash[v] \in Item /\ uHash[v] # item
        BY <2>4, <3>2 DEF UInv, UserShapes
      <4>2. ASSUME NEW s \in Thread, uH[s].pc \in Ins, uH[s].user = v
            PROVE  uH'[s].pc \in Ins /\ uH'[s].user = v
        BY <2>2, <3>2, <4>2 DEF Left, u
      <4> QED
        BY <2>5, <4>1, <4>2 DEF UInv, RowOpen
    <3> QED
      BY <3>1, <3>2
  <2>13. RowHeld'
    <3>1. uH'[t].pc \notin {"release", "free"}
      BY <2>7, Places
    <3>2. ASSUME NEW i \in Item, Standing(i) PROVE Standing(i)'
      BY <1>1, <2>2, <3>1, <3>2 DEF Standing, Left
    <3>3. Standing(item)
      BY <2>3, Places DEF Standing
    <3> SUFFICES ASSUME NEW r \in uRows \ uLost'
                 PROVE  \/ \E s \in Thread : uH'[s].pc = "check" /\ uH'[s].row = r
                        \/ \E i \in Item : uIndex'[i] = r /\ Standing(i)'
      BY <2>1 DEF RowHeld
    <3>4. CASE r = row
      BY <2>3, <2>5, <3>2, <3>3, <3>4
    <3>5. ASSUME r # row, NEW s \in Thread, uH[s].pc = "check", uH[s].row = r
          PROVE  uH'[s].pc = "check" /\ uH'[s].row = r
      BY <2>2, <3>5 DEF Left, row
    <3>6. ASSUME NEW i \in Item, uIndex[i] = r, Standing(i)
          PROVE  uIndex'[i] = r
      <4>1. r # 0
        BY <1>2 DEF UInv, UserShapes
      <4>2. i # item
        BY <2>1, <3>6, <4>1
      <4> QED
        BY <2>5, <3>6, <4>2
    <3>7. r \in uRows \ uLost
      BY <2>6
    <3> QED
      BY <3>2, <3>4, <3>5, <3>6, <3>7 DEF UInv, RowHeld
  <2> QED
    BY <2>7, <2>8, <2>9, <2>11, <2>12, <2>13 DEF UInv
<1> QED
  BY <1>3, <1>4

(* setUserStatus: the struct passes from the hash to the handler.          *)
LEMMA LeaveStep ==
    ASSUME UserConstants, UInv, NEW t \in Thread, Users!Leave(t)
    PROVE  UInv'
<1> DEFINE u == uH[t].user
           item == uHash[u]
<1>1. /\ uH[t].pc = "stand" /\ uPool' = uPool /\ uMade' = uMade /\ uIndex' = uIndex
      /\ uLoaded' = uLoaded
      /\ uRows' = uRows /\ uLogins' = uLogins /\ uMarred' = uMarred /\ uLost' = uLost
  BY DEF Users!Leave
<1>2. u \in User /\ uH[t].pc \notin Ins /\ uH[t].pc \notin Outs /\ uH[t] \in Handler
  BY <1>1, Places DEF UInv, UserShapes
<1>3. CASE item = None
  <2>1. Users!Ends(t) /\ uHash' = uHash
    BY <1>3 DEF Users!Leave
  <2>2. uLoaded \subseteq User /\ uMarred \subseteq User /\ uLost \subseteq 1 .. uLogins
    BY DEF UInv, UserShapes
  <2> QED
    BY <1>1, <1>2, <2>1, <2>2, EndsLeaves, QuietStep
<1>4. CASE item # None
  <2>1. uH' = [uH EXCEPT ![t].pc = "logout", ![t].item = item]
            /\ uHash' = [uHash EXCEPT ![u] = None]
    BY <1>4 DEF Users!Leave
  <2>2. /\ item \in Item /\ item \in uMade
        /\ \A i \in DOMAIN uPool : uPool[i] # item
        /\ \A s \in Thread : uH[s].pc \in Outs => uH[s].item # item
        /\ \A v \in User : v # u => uHash[v] # item
    BY <1>2, <1>4 DEF UInv, UserShapes, Owners, Users!ItemOnce
  <2> HIDE DEF item
  <2>3. uH'[t] = [uH[t] EXCEPT !.pc = "logout", !.item = item] /\ \A s \in Thread : s # t =>
            uH'[s] = uH[s]
    BY <2>1 DEF UInv, UserShapes
  <2>4. /\ uH'[t] \in Handler /\ uH'[t].pc = "logout" /\ uH'[t].item = item /\ uH'[t].user = u
    BY <1>2, <2>2, <2>3, Places DEF Handler
  <2>5. uH' \in [Thread -> Handler]
    BY <2>1, <2>3, <2>4 DEF UInv, UserShapes
  <2>6. \A s \in Thread : s # t => uH'[s] = uH[s]
    BY <2>3
  <2> HIDE DEF u
  <2>7. /\ uHash' \in [User -> Item \cup {None}] /\ uHash'[u] = None
        /\ \A v \in User : v # u => uHash'[v] = uHash[v]
    BY <1>2, <2>1 DEF UInv, UserShapes
  <2>8. uH'[t].pc \in Outs /\ uH'[t].pc \notin Ins /\ uH'[t].pc # "check" /\ uH'[t].pc # "load"
        /\ uH'[t].pc \notin {"release", "free"}
    BY <2>4, Places
  <2>9. UserShapes'
    BY <1>1, <1>2, <2>2, <2>4, <2>5, <2>6, <2>7, <2>8 DEF UInv, UserShapes
  <2>10. Users!ItemOnce'
    <3>1. ASSUME NEW v \in User, NEW w \in User, v # w, uHash'[v] # None
          PROVE  uHash'[v] # uHash'[w]
      BY <1>2, <2>7, <3>1 DEF UInv, Users!ItemOnce
    <3>2. ASSUME NEW v \in User, NEW i \in DOMAIN uPool PROVE uHash'[v] # uPool[i]
      <4>1. uPool[i] \in Item
        BY DEF UInv, UserShapes
      <4> QED
        BY <2>7, <4>1 DEF UInv, Users!ItemOnce, UserConstants
    <3> QED
      BY <1>1, <3>1, <3>2 DEF UInv, Users!ItemOnce
  <2>11. Owners'
    <3>1. ASSUME NEW s \in Thread, uH'[s].pc \in Outs
          PROVE  /\ uH'[s].item \in uMade
                 /\ \A v \in User : uHash'[v] # uH'[s].item
                 /\ \A i \in DOMAIN uPool : uPool[i] # uH'[s].item
      <4>1. CASE s = t
        BY <2>2, <2>4, <2>7, <4>1 DEF UserConstants
      <4>2. CASE s # t
        <5>1. uH'[s] = uH[s] /\ uH[s].item \in Item /\ uH[s].pc \in Outs
          BY <2>6, <3>1, <4>2 DEF UInv, UserShapes
        <5> QED
          BY <2>7, <5>1 DEF UInv, Owners, UserConstants
      <4> QED
        BY <4>1, <4>2
    <3>2. ASSUME NEW s \in Thread, NEW r \in Thread, s # r, uH'[s].pc \in Outs, uH'[r].pc \in Outs
          PROVE  uH'[s].item # uH'[r].item
      BY <2>2, <2>4, <2>6, <3>2 DEF UInv, Owners
    <3>3. /\ \A v \in User : uHash'[v] # None => uHash'[v] \in uMade
          /\ \A i \in DOMAIN uPool : uPool[i] \in uMade
      BY <2>7 DEF UInv, Owners
    <3> QED
      BY <1>1, <3>1, <3>2, <3>3 DEF Owners
  <2>12. Entries'
    <3>1. ASSUME NEW s \in Thread, uH'[s].pc \in Outs
          PROVE  uHash'[uH'[s].user] = None \/ uH'[s].user \in uMarred
      <4>1. CASE s = t
        BY <2>4, <2>7, <4>1
      <4>2. CASE s # t
        <5>1. uH'[s] = uH[s] /\ uH[s].pc \in Outs /\ uH[s].user \in User
                  /\ (uHash[uH[s].user] = None \/ uH[s].user \in uMarred)
          BY <2>6, <3>1, <4>2, Places DEF UInv, UserShapes, Entries
        <5> QED
          BY <2>7, <5>1
      <4> QED
        BY <4>1, <4>2
    <3>2. \A s, r \in Thread : s # r /\ uH'[s].pc \in Ins /\ uH'[r].pc \in Ins =>
              uH'[s].user # uH'[r].user \/ uH'[s].user \in uMarred
      BY <2>6, <2>8 DEF UInv, Entries
    <3> QED
      BY <1>1, <3>1, <3>2 DEF Entries
  <2>13. Loads'
    <3>1. uH[t].pc # "load"
      BY <1>1
    <3> QED
      BY <1>1, <2>6, <2>7, <3>1 DEF UInv, Loads
  <2>14. RowOnce'
    <3>1. ASSUME NEW s \in Thread, uH'[s].pc \in Ins
          PROVE  /\ uH'[s] = uH[s] /\ uH[s].user \in User
                 /\ uHash'[uH[s].user] # None => uHash'[uH[s].user] = uHash[uH[s].user]
      <4>1. s # t /\ uH'[s] = uH[s] /\ uH[s].pc # "idle"
        BY <2>6, <2>8, <3>1, Places
      <4> QED
        BY <2>7, <4>1 DEF UInv, UserShapes
    <3>2. \A s \in Thread : uH'[s].pc = "check" => uH'[s] = uH[s]
      BY <2>6, <2>8
    <3> QED
      BY <1>1, <3>1, <3>2 DEF UInv, RowOnce
  <2>15. RowOpen'
    <3> SUFFICES ASSUME NEW v \in User, uHash'[v] # None, v \notin uMarred
                 PROVE  uIndex[uHash'[v]] \in uRows \/ \E s \in Thread : uH'[s].pc \in Ins
                            /\ uH'[s].user = v
      BY <1>1 DEF RowOpen
    <3>1. uHash'[v] = uHash[v]
      BY <2>7
    <3> QED
      BY <1>2, <2>6, <3>1 DEF UInv, RowOpen
  <2>16. RowHeld'
    <3>1. ASSUME NEW i \in Item, Standing(i) PROVE Standing(i)'
      BY <1>1, <2>6, <2>8, <3>1 DEF Standing
    <3>2. \A s \in Thread : uH[s].pc = "check" => uH'[s] = uH[s]
      BY <1>1, <2>6
    <3> QED
      BY <1>1, <3>1, <3>2 DEF UInv, RowHeld
  <2> QED
    BY <2>9, <2>10, <2>11, <2>12, <2>13, <2>14, <2>15, <2>16 DEF UInv
<1> QED
  BY <1>3, <1>4

(* A set of numbers has a least one.                                       *)
LEMMA LeastNat ==
    ASSUME NEW T, T \subseteq Nat, T # {}
    PROVE  \E x \in T : \A y \in T : x <= y
<1> DEFINE R == OpToRel(<, Nat)
<1>1. IsWellFoundedOn(R, Nat)
  BY NatLessThanWellFounded
<1>2. \A x, y \in Nat : y < x => <<y, x>> \in R
  BY DEF OpToRel
<1> HIDE DEF R
<1>3. PICK x \in T : \A y \in T : ~(<<y, x>> \in R)
  BY <1>1, WFMin
<1>4. ASSUME NEW y \in T PROVE x <= y
  <2>1. x \in Nat /\ y \in Nat /\ ~(y < x)
    BY <1>2, <1>3
  <2> QED
    BY <2>1
<1> QED
  BY <1>4

(* The user who is to make room is one who is in.                          *)
LEMMA LeastOnline ==
    ASSUME UserConstants, Cardinality(Users!Online) >= MaxPlayer
    PROVE  Users!Min(Users!Online) \in User
<1>1. Users!Online \subseteq User /\ Users!Online \subseteq Nat
  BY DEF Users!Online, UserConstants
<1>2. Users!Online # {}
  <2> SUFFICES ASSUME Users!Online = {} PROVE FALSE
    OBVIOUS
  <2>1. Cardinality(Users!Online) = 0
    BY FS_EmptySet
  <2> QED
    BY <2>1 DEF UserConstants
<1>3. \E x \in Users!Online : \A y \in Users!Online : x <= y
  BY <1>1, <1>2, LeastNat
<1>4. Users!Min(Users!Online) \in Users!Online
  BY <1>3 DEF Users!Min
<1> QED
  BY <1>1, <1>4

(* CItemBuffer.allocate: the struct is from the pool or new, and nobody's. *)
LEMMA InsertStep ==
    ASSUME UserConstants, UInv, NEW t \in Thread, NEW u \in User, Users!Insert(t, u)
    PROVE  UInv'
<1> DEFINE item == IF uPool # <<>> THEN Head(uPool) ELSE CHOOSE i \in Item \ uMade : TRUE
           least == IF Cardinality(Users!Online) >= MaxPlayer THEN Users!Min(Users!Online) ELSE 0
           x == [pc |-> "load", user |-> u, item |-> item, row |-> uLogins + 1, kick |-> least]
<1>1. /\ uH[t].pc = "idle" /\ uHash[u] = None /\ uLogins < MaxLogin
      /\ uPool # <<>> \/ Item \ uMade # {}
      /\ uLogins' = uLogins + 1 /\ uPool' = (IF uPool # <<>> THEN Tail(uPool) ELSE uPool)
      /\ uMade' = uMade \cup {item} /\ uHash' = [uHash EXCEPT ![u] = item]
      /\ uIndex' = [uIndex EXCEPT ![item] = 0] /\ uH' = [uH EXCEPT ![t] = x]
      /\ uLoaded' = uLoaded /\ uRows' = uRows /\ uLost' = uLost
      /\ uMarred' = (IF Users!Crossed(u) THEN uMarred \cup {u} ELSE uMarred \ {u})
  BY UsersSize DEF Users!Insert
<1>2. /\ uPool \in Seq(Item) /\ uMade \subseteq Item /\ uLogins \in 0 .. MaxLogin
      /\ uLogins \in Nat
      /\ uHash \in [User -> Item \cup {None}] /\ uIndex \in [Item -> 0 .. uLogins]
      /\ uRows \subseteq 1 .. uLogins /\ uH \in [Thread -> Handler] /\ MaxLogin \in Nat
  BY DEF UInv, UserShapes, UserConstants
<1>3. least \in User \cup {0}
  BY LeastOnline
<1> HIDE DEF least
<1>4. /\ item \in Item /\ uPool' \in Seq(Item)
      /\ \A v \in User : uHash[v] # item
      /\ \A s \in Thread : uH[s].pc \in Outs => uH[s].item # item
      /\ \A i \in DOMAIN uPool' : uPool'[i] # item
      /\ \A i \in Item : i \in uMade /\ (\A j \in DOMAIN uPool : uPool[j] # i) => i # item
  <2>1. CASE uPool # <<>>
    <3>1. item = uPool[1] /\ 1 \in DOMAIN uPool /\ item \in Item /\ uPool' = Tail(uPool)
          /\ DOMAIN uPool' = 1 .. Len(uPool) - 1 /\ DOMAIN uPool = 1 .. Len(uPool)
          /\ Len(uPool) \in Nat
          /\ \A i \in DOMAIN uPool' : uPool'[i] = uPool[i + 1]
      BY <1>1, <1>2, <2>1
    <3>2. \A i \in DOMAIN uPool' : i + 1 \in DOMAIN uPool /\ i + 1 # 1
      BY <3>1
    <3>3. uPool' \in Seq(Item)
      BY <1>2, <2>1, <3>1
    <3> HIDE DEF item
    <3> QED
      BY <3>1, <3>2, <3>3 DEF UInv, Users!ItemOnce, Owners
  <2>2. CASE uPool = <<>>
    <3>1. item \in Item \ uMade /\ uPool' = uPool /\ DOMAIN uPool = {}
      BY <1>1, <2>2
    <3> HIDE DEF item
    <3>2. item # None
      BY <3>1 DEF UserConstants
    <3> QED
      BY <1>2, <3>1, <3>2 DEF UInv, Owners
  <2> QED
    BY <2>1, <2>2
<1>5. \A i \in DOMAIN uPool' : \E j \in DOMAIN uPool : uPool'[i] = uPool[j]
  BY <1>1, <1>2
<1>6. \A i, j \in DOMAIN uPool' : i # j => uPool'[i] # uPool'[j]
  <2>1. CASE uPool # <<>>
    <3>1. /\ DOMAIN uPool' = 1 .. Len(uPool) - 1 /\ DOMAIN uPool = 1 .. Len(uPool)
          /\ Len(uPool) \in Nat
          /\ \A i \in DOMAIN uPool' : uPool'[i] = uPool[i + 1]
      BY <1>1, <1>2, <2>1
    <3>2. \A i \in DOMAIN uPool' : i + 1 \in DOMAIN uPool /\ i \in Nat
      BY <3>1
    <3> QED
      BY <3>1, <3>2 DEF UInv, Users!ItemOnce
  <2>2. CASE uPool = <<>>
    BY <1>1, <2>2
  <2> QED
    BY <2>1, <2>2
<1> HIDE DEF item
<1>7. /\ x \in Handler /\ x.pc = "load" /\ x.user = u /\ x.row = uLogins + 1
  BY <1>2, <1>3, <1>4, Places DEF Handler
<1> HIDE DEF x
<1>8. /\ uH' \in [Thread -> Handler] /\ \A s \in Thread : s # t => uH'[s] = uH[s]
      /\ uH'[t].pc = "load" /\ uH'[t].user = u /\ uH'[t].row = uLogins + 1
  BY <1>1, <1>2, <1>7
<1>9. uH'[t].pc \in Ins /\ uH'[t].pc \notin Outs /\ uH[t].pc \notin Ins /\ uH[t].pc \notin Outs
  BY <1>1, <1>8, Places
<1>10. /\ uHash' \in [User -> Item \cup {None}] /\ uHash'[u] = item
       /\ \A v \in User : v # u => uHash'[v] = uHash[v]
  BY <1>1, <1>2, <1>4
<1>11. /\ uIndex' \in [Item -> 0 .. uLogins] /\ uIndex'[item] = 0
       /\ \A i \in Item : i # item => uIndex'[i] = uIndex[i]
  BY <1>1, <1>2, <1>4
<1>12. item # None /\ uMade' \subseteq Item
  BY <1>1, <1>2, <1>4 DEF UserConstants
<1>13. /\ \A s \in Thread : uH[s].pc \in Ins \cup Outs => uH[s].user # u \/ u \in uMarred'
       /\ \A v \in User : v # u => (v \in uMarred' <=> v \in uMarred)
       /\ uMarred' \subseteq User
  <2>1. \A s \in Thread : uH[s].pc \in Ins \cup Outs => uH[s].pc \notin {"idle", "stand"}
    BY Places
  <2>2. uMarred \subseteq User
    BY DEF UInv, UserShapes
  <2> QED
    BY <1>1, <2>1, <2>2 DEF Users!Crossed
<1>14. 0 .. uLogins \subseteq 0 .. uLogins' /\ 1 .. uLogins \subseteq 1 .. uLogins'
       /\ uLogins' \in 0 .. MaxLogin /\ uLogins + 1 \in 1 .. uLogins'
       /\ uLogins + 1 \notin 0 .. uLogins
  BY <1>1, <1>2
<1>15. UserShapes'
  <2>1. uIndex' \in [Item -> 0 .. uLogins']
    BY <1>11, <1>14
  <2>2. uRows' \subseteq 1 .. uLogins'
    BY <1>1, <1>2, <1>14
  <2>3. ASSUME NEW s \in Thread, uH'[s].pc # "idle" PROVE uH'[s].user \in User
    BY <1>8, <2>3 DEF UInv, UserShapes
  <2>4. ASSUME NEW s \in Thread, uH'[s].pc \in Ins PROVE uH'[s].row \in 1 .. uLogins'
    BY <1>8, <1>14, <2>4 DEF UInv, UserShapes
  <2>5. ASSUME NEW s \in Thread, uH'[s].pc \in Outs PROVE uH'[s].item \in Item
    BY <1>8, <1>9, <2>5 DEF UInv, UserShapes
  <2>6. uLoaded' \subseteq User /\ uLost' \subseteq 1 .. uLogins'
    BY <1>1, <1>14 DEF UInv, UserShapes
  <2> QED
    BY <1>4, <1>8, <1>10, <1>12, <1>13, <1>14, <2>1, <2>2, <2>3, <2>4, <2>5, <2>6 DEF UserShapes
<1>16. Users!ItemOnce'
  <2>1. \A v, w \in User : v # w /\ uHash'[v] # None => uHash'[v] # uHash'[w]
    BY <1>4, <1>10, <1>12 DEF UInv, Users!ItemOnce
  <2>2. \A v \in User, i \in DOMAIN uPool' : uHash'[v] # uPool'[i]
    BY <1>4, <1>5, <1>10 DEF UInv, Users!ItemOnce
  <2> QED
    BY <1>6, <2>1, <2>2 DEF Users!ItemOnce
<1>17. Owners'
  <2>1. \A s \in Thread : uH'[s].pc \in Outs => s # t /\ uH'[s] = uH[s]
    BY <1>8, <1>9
  <2>2. \A s \in Thread : uH'[s].pc \in Outs =>
            /\ uH'[s].item \in uMade'
            /\ \A v \in User : uHash'[v] # uH'[s].item
            /\ \A i \in DOMAIN uPool' : uPool'[i] # uH'[s].item
    BY <1>1, <1>4, <1>5, <1>10, <2>1 DEF UInv, Owners
  <2>3. \A s, r \in Thread : s # r /\ uH'[s].pc \in Outs /\ uH'[r].pc \in Outs =>
            uH'[s].item # uH'[r].item
    BY <2>1 DEF UInv, Owners
  <2>4. (\A v \in User : uHash'[v] # None => uHash'[v] \in uMade')
            /\ \A i \in DOMAIN uPool' : uPool'[i] \in uMade'
    BY <1>1, <1>5, <1>10 DEF UInv, Owners
  <2> QED
    BY <2>2, <2>3, <2>4 DEF Owners
<1>18. Entries'
  <2>1. ASSUME NEW s \in Thread, uH'[s].pc \in Outs
        PROVE  uHash'[uH'[s].user] = None \/ uH'[s].user \in uMarred'
    <3>1. /\ uH'[s] = uH[s] /\ uH[s].pc \in Outs /\ uH[s].user \in User
          /\ uH[s].user # u \/ u \in uMarred'
      BY <1>8, <1>9, <1>13, <2>1, Places DEF UInv, UserShapes
    <3>2. uHash[uH[s].user] = None \/ uH[s].user \in uMarred
      BY <3>1 DEF UInv, Entries
    <3> QED
      BY <1>10, <1>13, <3>1, <3>2
  <2>2. ASSUME NEW s \in Thread, s # t, uH'[s].pc \in Ins
        PROVE  /\ uH'[s] = uH[s] /\ uH[s].pc \in Ins /\ uH[s].user \in User
               /\ uH[s].user # u \/ u \in uMarred'
    BY <1>8, <1>13, <2>2, Places DEF UInv, UserShapes
  <2>3. ASSUME NEW s \in Thread, NEW r \in Thread, s # r, uH'[s].pc \in Ins, uH'[r].pc \in Ins
        PROVE  uH'[s].user # uH'[r].user \/ uH'[s].user \in uMarred'
    <3>1. CASE s = t
      BY <1>8, <2>2, <2>3, <3>1
    <3>2. CASE r = t
      BY <1>8, <2>2, <2>3, <3>2
    <3>3. CASE s # t /\ r # t
      <4>1. uH[s].user # uH[r].user \/ uH[s].user \in uMarred
        BY <2>2, <2>3, <3>3 DEF UInv, Entries
      <4> QED
        BY <1>13, <2>2, <2>3, <3>3, <4>1
    <3> QED
      BY <3>1, <3>2, <3>3
  <2> QED
    BY <2>1, <2>3 DEF Entries
<1>19. Loads'
  <2> SUFFICES ASSUME NEW v \in User, uHash'[v] # None, v \notin uMarred'
               PROVE  v \in uLoaded \/ \E s \in Thread : uH'[s].pc = "load" /\ uH'[s].user = v
    BY <1>1 DEF Loads
  <2>1. CASE v = u
    BY <1>8, <2>1
  <2>2. CASE v # u
    <3>1. \A s \in Thread : uH[s].pc = "load" => uH'[s] = uH[s]
      BY <1>1, <1>8
    <3> QED
      BY <1>10, <1>13, <2>2, <3>1 DEF UInv, Loads
  <2> QED
    BY <2>1, <2>2
<1>20. RowOnce'
  <2>1. ASSUME NEW s \in Thread, NEW i \in Item, uH'[s].pc \in Ins PROVE uIndex'[i] # uH'[s].row
    <3>1. CASE s = t
      BY <1>8, <1>11, <1>14, <3>1
    <3>2. CASE s # t
      <4>1. uH'[s] = uH[s] /\ uH[s].row # 0 /\ uIndex[i] # uH[s].row
        BY <1>2, <1>8, <2>1, <3>2 DEF UInv, UserShapes, RowOnce
      <4> QED
        BY <1>11, <4>1
    <3> QED
      BY <3>1, <3>2
  <2>2. ASSUME NEW s \in Thread, NEW r \in Thread, s # r, uH'[s].pc \in Ins, uH'[r].pc \in Ins
        PROVE  uH'[s].row # uH'[r].row
    <3>1. \A p \in Thread : p # t /\ uH'[p].pc \in Ins =>
              uH'[p].row \in 0 .. uLogins /\ uH'[p] = uH[p]
      BY <1>2, <1>8 DEF UInv, UserShapes
    <3> QED
      BY <1>8, <1>14, <2>2, <3>1 DEF UInv, RowOnce
  <2>3. \A i, j \in Item : i # j /\ uIndex'[i] # 0 => uIndex'[i] # uIndex'[j]
    BY <1>11 DEF UInv, RowOnce
  <2>4. ASSUME NEW s \in Thread, uH'[s].pc \in Ins, uHash'[uH'[s].user] # None,
               uH'[s].user \notin uMarred'
        PROVE  uIndex'[uHash'[uH'[s].user]] = 0
    <3>1. CASE s = t
      BY <1>8, <1>10, <1>11, <3>1
    <3>2. CASE s # t
      <4>1. uH'[s] = uH[s] /\ uH[s].pc \in Ins /\ uH[s].user \in User /\ uH[s].user # u
        BY <1>8, <1>13, <2>4, <3>2, Places DEF UInv, UserShapes
      <4>2. uHash'[uH[s].user] = uHash[uH[s].user] /\ uHash[uH[s].user] \in Item
        BY <1>2, <1>10, <2>4, <4>1
      <4> QED
        BY <1>11, <1>13, <2>4, <4>1, <4>2 DEF UInv, RowOnce
    <3> QED
      BY <3>1, <3>2
  <2>5. \A s \in Thread : uH'[s].pc = "check" => uH'[s].row \in uRows'
    BY <1>1, <1>8 DEF UInv, RowOnce
  <2> QED
    BY <2>1, <2>2, <2>3, <2>4, <2>5 DEF RowOnce
<1>21. RowOpen'
  <2> SUFFICES ASSUME NEW v \in User, uHash'[v] # None, v \notin uMarred'
               PROVE  uIndex'[uHash'[v]] \in uRows \/ \E s \in Thread : uH'[s].pc \in Ins
                          /\ uH'[s].user = v
    BY <1>1 DEF RowOpen
  <2>1. CASE v = u
    BY <1>8, <1>9, <2>1
  <2>2. CASE v # u
    <3>1. uHash'[v] = uHash[v] /\ uHash[v] \in Item /\ uHash[v] # item
      BY <1>2, <1>4, <1>10, <2>2
    <3>2. \A s \in Thread : uH[s].pc \in Ins => uH'[s] = uH[s]
      BY <1>8, <1>9
    <3> QED
      BY <1>11, <1>13, <2>2, <3>1, <3>2 DEF UInv, RowOpen
  <2> QED
    BY <2>1, <2>2
<1>22. RowHeld'
  <2>1. uH'[t].pc \notin {"release", "free"}
    BY <1>8
  <2>2. ASSUME NEW i \in Item, Standing(i) PROVE Standing(i)' /\ uIndex'[i] = uIndex[i]
    BY <1>1, <1>4, <1>5, <1>8, <1>11, <2>1, <2>2 DEF Standing
  <2>3. \A s \in Thread : uH[s].pc = "check" => uH'[s] = uH[s]
    BY <1>1, <1>8
  <2> QED
    BY <1>1, <2>2, <2>3 DEF UInv, RowHeld
<1> QED
  BY <1>15, <1>16, <1>17, <1>18, <1>19, <1>20, <1>21, <1>22 DEF UInv

-----------------------------------------------------------------------------
(* Every step keeps the invariant.                                         *)
LEMMA UStep ==
    ASSUME UserConstants, UInv, [Users!Next]_(Users!vars)
    PROVE  UInv'
<1>1. CASE UNCHANGED Users!vars
  BY <1>1 DEF UInv, Users!vars, UserShapes, Users!ItemOnce, Owners, Entries, Loads, RowOnce,
     RowOpen, RowHeld,
     Standing
<1>2. CASE Users!Next
  BY <1>2, LoadStep, LoadFailsStep, RecordStep, RecordFailsStep, CheckStep, LeaveStep,
     LogoutStep, LogoutFailsStep, ReleaseStep, ReleaseFailsStep, FreeStep, InsertStep, KickStep
     DEF Users!Next, Users!Steps
<1> QED
  BY <1>1, <1>2

(* A pool without repetition is not longer than the structs are many.      *)
LEMMA PoolShort ==
    ASSUME UserConstants, UInv
    PROVE  Len(uPool) <= Cardinality(Item)
<1>1. uPool \in [1 .. Len(uPool) -> Item] /\ Len(uPool) \in Nat
  BY DEF UInv, UserShapes
<1>2. uPool \in Injection(1 .. Len(uPool), Item)
  BY <1>1 DEF UInv, Users!ItemOnce, Injection, IsInjective
<1>3. Cardinality(1 .. Len(uPool)) <= Cardinality(Item)
  BY <1>2, FS_Injection DEF UserConstants
<1>4. Cardinality(1 .. Len(uPool)) = Len(uPool)
  <2>1. 1 \in Int /\ Len(uPool) \in Int
    BY <1>1
  <2>2. \A a, b \in Int : Cardinality(a .. b) = IF a > b THEN 0 ELSE b - a + 1
    BY FS_Interval
  <2>3. Cardinality(1 .. Len(uPool)) = IF 1 > Len(uPool) THEN 0 ELSE Len(uPool) - 1 + 1
    BY <2>1, <2>2
  <2> QED
    BY <1>1, <2>3
<1> QED
  BY <1>3, <1>4

(* The invariant says what is asked of the user manager.                   *)
LEMMA UImplies ==
    ASSUME UserConstants, UInv
    PROVE  Users!UsersOK
<1>1. Users!TypeOK
  <2>1. 0 .. uLogins \subseteq 0 .. MaxLogin /\ 1 .. uLogins \subseteq 1 .. MaxLogin
    BY DEF UInv, UserShapes, UserConstants
  <2> QED
    BY <2>1, PoolShort, UsersSize DEF UInv, UserShapes, Users!TypeOK
<1>2. Users!ItemOnce
  BY DEF UInv
<1> SUFFICES ASSUME Users!Rest PROVE Users!DataKept /\ Users!RowKept /\ Users!RowsEnd
  BY <1>1, <1>2 DEF Users!UsersOK, Users!DataKept, Users!RowKept, Users!RowsEnd
<1>3. \A t \in Thread : uH[t].pc \notin Ins /\ uH[t].pc # "load" /\ uH[t].pc # "check"
  BY Places DEF Users!Rest
<1>4. Users!DataKept
  BY <1>3 DEF UInv, Loads, Users!DataKept, Users!Online
<1>5. Users!RowKept
  <2>1. \A u \in Users!Online : u \in User /\ uHash[u] # None /\ uHash[u] \in Item
    BY DEF UInv, UserShapes, Users!Online
  <2>2. \A u \in Users!Online \ uMarred : uIndex[uHash[u]] \in uRows
    BY <1>3, <2>1 DEF UInv, RowOpen
  <2>3. \A u, v \in Users!Online : u # v => uHash[u] # uHash[v]
    BY DEF UInv, Users!ItemOnce, Users!Online
  <2>4. \A u, v \in Users!Online : u # v /\ uIndex[uHash[u]] # 0 =>
            uIndex[uHash[u]] # uIndex[uHash[v]]
    BY <2>1, <2>3 DEF UInv, RowOnce
  <2> QED
    BY <2>2, <2>4 DEF Users!RowKept
<1>6. Users!RowsEnd
  <2> SUFFICES ASSUME NEW r \in uRows \ uLost
               PROVE  \/ \E u \in Users!Online : uIndex[uHash[u]] = r
                      \/ \E i \in uMade : /\ uIndex[i] = r /\ \A j \in DOMAIN uPool : uPool[j] # i
                                         /\ \A u \in User : uHash[u] # i
    BY DEF Users!RowsEnd
  <2>1. PICK i \in Item : uIndex[i] = r /\ Standing(i)
    BY <1>3 DEF UInv, RowHeld
  <2>2. CASE \E u \in User : uHash[u] = i
    BY <2>1, <2>2 DEF Users!Online, UserConstants
  <2>3. CASE \A u \in User : uHash[u] # i
    BY <2>1, <2>3 DEF Standing
  <2> QED
    BY <2>2, <2>3
<1> QED
  BY <1>4, <1>5, <1>6

(* GS_model_userManager.lua: whatever handlers wait for the database or    *)
(* for the other services, whichever of their calls fail and however often *)
(* a user comes in again meanwhile, a struct serves one user and no row is *)
(* two users'; a user in the room has data and an open row, unless this    *)
(* stay crossed an earlier one or its load or record failed; and a row     *)
(* gets its end unless a second login overwrote its number or it never     *)
(* came.                                                                   *)
THEOREM UsersCorrect ==
    ASSUME UserConstants
    PROVE  Users!Spec => []Users!UsersOK
<1>1. Users!Init => UInv
  BY UInit
<1>2. UInv /\ [Users!Next]_(Users!vars) => UInv'
  BY UStep
<1>3. UInv => Users!UsersOK
  BY UImplies
<1> QED
  BY <1>1, <1>2, <1>3, PTL DEF Users!Spec

-----------------------------------------------------------------------------
(* lua-multicast.c, multicastd.lua.  That references are pointers is       *)
(* inductive once a package is known to be in a mailbox once; and          *)
(* channel_n, to which a package is bound, is the number of subscribers.   *)
CastBounds == IsFiniteSet(Sub) /\ MaxPack \in Nat /\ MaxCall \in Nat

(* The mailboxes of the services: the answer to a SUB is 0.                *)
CastShapes ==
    /\ mGroup \subseteq Sub /\ mTargets \subseteq Sub /\ mGone \subseteq Sub
    /\ mWaiting \subseteq Sub /\ mMade \in 0 .. MaxPack /\ mRefs \in [Cast!Pack -> Int]
    /\ mFreed \subseteq 1 .. mMade /\ mCalls \in [Sub -> 0 .. MaxCall]
    /\ mDbox \in Seq([t : {"SUB", "USUB"}, s : Sub]) /\ mBox \in [Sub -> Seq(0 .. mMade)]

(* A mailbox of b has the message v.                                       *)
Holds(b, s, v) == \E i \in DOMAIN b[s] : b[s][i] = v

(* A mailbox holds nothing twice, and the package that is on its way to a  *)
(* service is not there yet.                                               *)
Distinct ==
    /\ \A s \in Sub : \A i, j \in DOMAIN mBox[s] : i # j => mBox[s][i] # mBox[s][j]
    /\ \A s \in mTargets : ~Holds(mBox, s, mMade)

(* A service that waits has its SUB in the mailbox of multicastd, or the   *)
(* answer in its own, and nobody else has.                                 *)
Asks(s, i) == mDbox[i].t = "SUB" /\ mDbox[i].s = s
Calling ==
    /\ \A i \in DOMAIN mDbox : mDbox[i].t = "SUB" => mDbox[i].s \in mWaiting
    /\ \A i, j \in DOMAIN mDbox : i # j /\ mDbox[i].t = "SUB" /\ mDbox[j].t = "SUB" =>
           mDbox[i].s # mDbox[j].s
    /\ \A s \in Sub : Holds(mBox, s, 0) =>
           s \in mWaiting /\ \A j \in DOMAIN mDbox : ~Asks(s, j)
    /\ \A s \in mWaiting : mCalls[s] >= 1

(* The services with a pointer to a package, and the pointers.             *)
Holders(p) == {s \in Sub : Holds(mBox, s, p)}
Coming(p) == IF p = mMade THEN mTargets ELSE {}
Pointers(p) == Cardinality(Holders(p)) + Cardinality(Coming(p))

(* A package that is freed has no pointers, and one that is not has the    *)
(* references, or more once a service is gone.                             *)
Counted ==
    /\ \A p \in mFreed : Holders(p) = {} /\ Coming(p) = {}
    /\ \A p \in 1 .. mMade : p \notin mFreed =>
           mRefs[p] >= Pointers(p) /\ (mGone = {} => mRefs[p] = Pointers(p))

(* Nothing is on its way before the first package.                         *)
Idled == mMade = 0 => mTargets = {}

(* The invariant.                                                          *)
CInv == CastShapes /\ Distinct /\ Calling /\ Counted /\ Cast!CountExact /\ Idled

-----------------------------------------------------------------------------
(* The instance counts as FiniteSets does.                                 *)
LEMMA CastSize == \A S : Cast!Cardinality(S) = Cardinality(S)
BY DEF Cast!Cardinality, Cardinality

(* A service cannot have more messages than there are packages and calls.  *)
LEMMA Short ==
    ASSUME CastBounds, CInv, NEW s \in Sub
    PROVE  Len(mBox[s]) <= MaxPack + MaxCall
<1> DEFINE q == mBox[s]
<1>1. /\ q \in Seq(0 .. mMade) /\ Len(q) \in Nat /\ DOMAIN q = 1 .. Len(q)
      /\ mMade \in 0 .. MaxPack
      /\ \A i, j \in DOMAIN q : i # j => q[i] # q[j]
  BY DEF CInv, CastShapes, Distinct
<1>2. \A n \in Nat : IsFiniteSet(1 .. n) /\ Cardinality(1 .. n) = n
  <2>1. \A a, b \in Int : IsFiniteSet(a .. b)
            /\ Cardinality(a .. b) = IF a > b THEN 0 ELSE b - a + 1
    BY FS_Interval
  <2>2. \A n \in Nat : IsFiniteSet(1 .. n) /\ Cardinality(1 .. n) = IF 1 > n THEN 0 ELSE n - 1 + 1
    BY <2>1
  <2> QED
    BY <2>2
<1>3. Cardinality(1 .. Len(q)) = Len(q)
  BY <1>1, <1>2
<1>4. IsFiniteSet(0 .. MaxPack) /\ Cardinality(0 .. MaxPack) = MaxPack + 1
  <2>1. \A a, b \in Int : IsFiniteSet(a .. b)
            /\ Cardinality(a .. b) = IF a > b THEN 0 ELSE b - a + 1
    BY FS_Interval
  <2>2. 0 \in Int /\ MaxPack \in Int /\ ~(0 > MaxPack) /\ MaxPack - 0 + 1 = MaxPack + 1
    BY DEF CastBounds
  <2> QED
    BY <2>1, <2>2
<1> HIDE DEF q
<1>5. CASE \E i \in DOMAIN q : q[i] = 0
  <2>1. MaxCall >= 1
    <3>1. s \in mWaiting /\ mCalls[s] >= 1 /\ mCalls[s] \in 0 .. MaxCall
      BY <1>5 DEF CInv, Calling, Holds, CastShapes, q
    <3> QED
      BY <3>1 DEF CastBounds
  <2>2. q \in [1 .. Len(q) -> 0 .. MaxPack]
    BY <1>1 DEF CastBounds
  <2>3. q \in Injection(1 .. Len(q), 0 .. MaxPack)
    BY <1>1, <2>2 DEF Injection, IsInjective
  <2>4. Cardinality(1 .. Len(q)) <= Cardinality(0 .. MaxPack)
    BY <1>4, <2>3, FS_Injection
  <2> QED
    BY <1>1, <1>3, <1>4, <2>1, <2>4 DEF q, CastBounds
<1>6. CASE \A i \in DOMAIN q : q[i] # 0
  <2>1. q \in [1 .. Len(q) -> 1 .. MaxPack]
    BY <1>1, <1>6 DEF CastBounds
  <2>2. q \in Injection(1 .. Len(q), 1 .. MaxPack)
    BY <1>1, <2>1 DEF Injection, IsInjective
  <2>3. Cardinality(1 .. Len(q)) <= Cardinality(1 .. MaxPack)
    BY <1>2, <2>2, FS_Injection DEF CastBounds
  <2> QED
    BY <1>1, <1>2, <1>3, <2>3 DEF q, CastBounds
<1> QED
  BY <1>5, <1>6

(* So the entries counted by Copies are the services that Pointers counts. *)
LEMMA CopiesPointers ==
    ASSUME CastBounds, CInv, NEW p
    PROVE  Cast!Copies(p) = Pointers(p)
<1> DEFINE N == MaxPack + MaxCall
           P == {d \in Sub \X (1 .. N) : d[2] \in DOMAIN mBox[d[1]] /\ mBox[d[1]][d[2]] = p}
           f == [s \in Holders(p) |-> <<s, CHOOSE i \in DOMAIN mBox[s] : mBox[s][i] = p>>]
<1>1. IsFiniteSet(Holders(p))
  <2>1. Holders(p) \subseteq Sub
    BY DEF Holders
  <2> QED
    BY <2>1, FS_Subset DEF CastBounds
<1>2. \A s \in Sub : \A i \in DOMAIN mBox[s] : i \in 1 .. N
  <2>1. \A s \in Sub : Len(mBox[s]) \in Nat /\ DOMAIN mBox[s] = 1 .. Len(mBox[s])
    BY DEF CInv, CastShapes
  <2>2. \A s \in Sub : Len(mBox[s]) <= N
    BY Short
  <2> QED
    BY <2>1, <2>2 DEF CastBounds
<1>3. ASSUME NEW s \in Holders(p)
      PROVE  /\ s \in Sub /\ f[s] \in P /\ f[s][1] = s
  <2>1. PICK i \in DOMAIN mBox[s] : mBox[s][i] = p
    BY DEF Holders, Holds
  <2> DEFINE c == CHOOSE j \in DOMAIN mBox[s] : mBox[s][j] = p
  <2>2. s \in Sub /\ c \in DOMAIN mBox[s] /\ mBox[s][c] = p /\ f[s] = <<s, c>>
    BY <2>1 DEF Holders, Holds
  <2> HIDE DEF c, f
  <2>3. c \in 1 .. N
    BY <1>2, <2>2
  <2> QED
    BY <2>2, <2>3
<1>4. ASSUME NEW d \in P PROVE d[1] \in Holders(p) /\ f[d[1]] = d
  <2>1. PICK s \in Sub, i \in 1 .. N : d = <<s, i>> /\ i \in DOMAIN mBox[s] /\ mBox[s][i] = p
    OBVIOUS
  <2>2. s \in Holders(p)
    BY <2>1 DEF Holders, Holds
  <2>3. (CHOOSE j \in DOMAIN mBox[s] : mBox[s][j] = p) = i
    BY <2>1 DEF CInv, Distinct
  <2> QED
    BY <2>1, <2>2, <2>3
<1> HIDE DEF P, f
<1>5. f \in [Holders(p) -> P]
  BY <1>3 DEF f
<1>6. f \in Bijection(Holders(p), P)
  <2>1. \A a, b \in Holders(p) : f[a] = f[b] => a = b
    BY <1>3
  <2>2. \A d \in P : \E s \in Holders(p) : f[s] = d
    BY <1>4
  <2> QED
    BY <1>5, <2>1, <2>2 DEF Bijection, Injection, Surjection, IsInjective
<1>7. Cardinality(P) = Cardinality(Holders(p))
  BY <1>1, <1>6, FS_Bijection DEF ExistsBijection
<1>8. Cast!Copies(p) = Cardinality(P) + (IF p = mMade THEN Cardinality(mTargets) ELSE 0)
  BY CastSize DEF Cast!Copies, P
<1>9. Cardinality(Coming(p)) = IF p = mMade THEN Cardinality(mTargets) ELSE 0
  BY FS_EmptySet DEF Coming
<1> QED
  BY <1>7, <1>8, <1>9 DEF Pointers

-----------------------------------------------------------------------------
(* A mailbox without its first message.                                    *)
LEMMA Popped ==
    ASSUME CInv, NEW s \in Sub, mBox[s] # <<>>, mBox' = [mBox EXCEPT ![s] = Tail(@)]
    PROVE  /\ mBox' \in [Sub -> Seq(0 .. mMade)] /\ Head(mBox[s]) \in 0 .. mMade
           /\ \A r \in Sub : \A i, j \in DOMAIN mBox'[r] : i # j => mBox'[r][i] # mBox'[r][j]
           /\ \A r \in Sub, v \in Nat : Holds(mBox', r, v) <=>
                  Holds(mBox, r, v) /\ ~(r = s /\ v = Head(mBox[s]))
           /\ Holds(mBox, s, Head(mBox[s]))
<1> DEFINE q == mBox[s]
<1>1. /\ mBox \in [Sub -> Seq(0 .. mMade)] /\ q \in Seq(0 .. mMade) /\ q # <<>>
      /\ \A r \in Sub : \A i, j \in DOMAIN mBox[r] : i # j => mBox[r][i] # mBox[r][j]
  BY DEF CInv, CastShapes, Distinct
<1>2. mBox'[s] = Tail(q) /\ \A r \in Sub : r # s => mBox'[r] = mBox[r]
  BY <1>1
<1>3. /\ Len(q) \in Nat \ {0} /\ DOMAIN q = 1 .. Len(q) /\ Head(q) = q[1]
      /\ Head(q) \in 0 .. mMade
      /\ Tail(q) \in Seq(0 .. mMade) /\ DOMAIN Tail(q) = 1 .. Len(q) - 1
      /\ \A i \in DOMAIN Tail(q) : Tail(q)[i] = q[i + 1]
  <2>1. /\ Len(q) \in Nat /\ Len(q) # 0 /\ DOMAIN q = 1 .. Len(q) /\ Head(q) = q[1]
    BY <1>1
  <2>2. /\ Head(q) \in 0 .. mMade /\ Tail(q) \in Seq(0 .. mMade) /\ Len(Tail(q)) = Len(q) - 1
        /\ \A i \in 1 .. Len(Tail(q)) : Tail(q)[i] = q[i + 1]
    BY <1>1, HeadTailProperties
  <2>3. DOMAIN Tail(q) = 1 .. Len(Tail(q))
    BY <2>2
  <2> QED
    BY <2>1, <2>2, <2>3
<1>4. /\ 1 \in DOMAIN q /\ \A i \in DOMAIN Tail(q) : i + 1 \in DOMAIN q /\ i + 1 # 1 /\ i \in Nat
      /\ \A i \in DOMAIN q : i # 1 => i - 1 \in DOMAIN Tail(q) /\ (i - 1) + 1 = i
  BY <1>3
<1>5. mBox' \in [Sub -> Seq(0 .. mMade)]
  BY <1>1, <1>2, <1>3
<1> HIDE DEF q
<1>6. ASSUME NEW r \in Sub, NEW i \in DOMAIN mBox'[r], NEW j \in DOMAIN mBox'[r], i # j
      PROVE  mBox'[r][i] # mBox'[r][j]
  <2>1. CASE r = s
    <3>1. i + 1 # j + 1
      BY <1>2, <1>4, <1>6, <2>1
    <3> QED
      BY <1>1, <1>2, <1>3, <1>4, <2>1, <3>1 DEF q
  <2>2. CASE r # s
    BY <1>1, <1>2, <1>6, <2>2
  <2> QED
    BY <2>1, <2>2
<1>7. ASSUME NEW r \in Sub, NEW v \in Nat
      PROVE  Holds(mBox', r, v) <=> Holds(mBox, r, v) /\ ~(r = s /\ v = Head(q))
  <2>1. CASE r # s
    BY <1>2, <2>1 DEF Holds
  <2>2. CASE r = s
    <3>1. ASSUME NEW i \in DOMAIN Tail(q), Tail(q)[i] = v PROVE v # Head(q) /\ Holds(mBox, r, v)
      <4>1. i + 1 \in DOMAIN q /\ 1 \in DOMAIN q /\ i + 1 # 1 /\ q[i + 1] = v /\ Head(q) = q[1]
        BY <1>3, <1>4, <3>1
      <4>2. q[i + 1] # q[1]
        BY <1>1, <4>1 DEF q
      <4> QED
        BY <2>2, <4>1, <4>2 DEF Holds, q
    <3>2. ASSUME NEW i \in DOMAIN q, q[i] = v, v # Head(q)
          PROVE  Tail(q)[i - 1] = v /\ i - 1 \in DOMAIN Tail(q)
      BY <1>3, <1>4, <3>2
    <3> QED
      BY <1>2, <2>2, <3>1, <3>2 DEF Holds, q
  <2> QED
    BY <2>1, <2>2
<1>8. Holds(mBox, s, Head(q))
  BY <1>3, <1>4 DEF Holds, q
<1> QED
  BY <1>3, <1>5, <1>6, <1>7, <1>8 DEF q

(* A mailbox with one message more.                                        *)
LEMMA Pushed ==
    ASSUME CInv, NEW s \in Sub, NEW w \in 0 .. mMade, ~Holds(mBox, s, w),
           mBox' = [mBox EXCEPT ![s] = Append(@, w)]
    PROVE  /\ mBox' \in [Sub -> Seq(0 .. mMade)]
           /\ \A r \in Sub : \A i, j \in DOMAIN mBox'[r] : i # j => mBox'[r][i] # mBox'[r][j]
           /\ \A r \in Sub, v \in Nat : Holds(mBox', r, v) <=>
              Holds(mBox, r, v) \/ (r = s /\ v = w)
<1> DEFINE q == mBox[s]
<1>1. /\ mBox \in [Sub -> Seq(0 .. mMade)] /\ q \in Seq(0 .. mMade)
      /\ \A r \in Sub : \A i, j \in DOMAIN mBox[r] : i # j => mBox[r][i] # mBox[r][j]
  BY DEF CInv, CastShapes, Distinct
<1>2. mBox'[s] = Append(q, w) /\ \A r \in Sub : r # s => mBox'[r] = mBox[r]
  BY <1>1
<1>3. /\ Len(q) \in Nat /\ DOMAIN q = 1 .. Len(q) /\ Append(q, w) \in Seq(0 .. mMade)
      /\ DOMAIN Append(q, w) = 1 .. Len(q) + 1 /\ Append(q, w)[Len(q) + 1] = w
      /\ \A i \in DOMAIN q : Append(q, w)[i] = q[i]
  BY <1>1
<1>4. \A i \in DOMAIN Append(q, w) : i \in DOMAIN q \/ i = Len(q) + 1
  BY <1>3
<1>5. /\ \A i \in DOMAIN q : i \in DOMAIN Append(q, w)
      /\ Len(q) + 1 \in DOMAIN Append(q, w)
  BY <1>3
<1>6. mBox' \in [Sub -> Seq(0 .. mMade)]
  BY <1>1, <1>2, <1>3
<1>7. \A i \in DOMAIN q : q[i] # w
  BY DEF Holds
<1> HIDE DEF q
<1>8. ASSUME NEW r \in Sub, NEW i \in DOMAIN mBox'[r], NEW j \in DOMAIN mBox'[r], i # j
      PROVE  mBox'[r][i] # mBox'[r][j]
  <2>1. CASE r = s
    BY <1>1, <1>2, <1>3, <1>4, <1>7, <1>8, <2>1 DEF q
  <2>2. CASE r # s
    BY <1>1, <1>2, <1>8, <2>2
  <2> QED
    BY <2>1, <2>2
<1>9. ASSUME NEW r \in Sub, NEW v \in Nat
      PROVE  Holds(mBox', r, v) <=> Holds(mBox, r, v) \/ (r = s /\ v = w)
  <2>1. CASE r # s
    BY <1>2, <2>1 DEF Holds
  <2>2. CASE r = s
    <3>1. ASSUME NEW i \in DOMAIN Append(q, w), Append(q, w)[i] = v
          PROVE  v = w \/ Holds(mBox, r, v)
      BY <1>3, <1>4, <2>2, <3>1 DEF Holds, q
    <3>2. ASSUME NEW i \in DOMAIN q, q[i] = v
          PROVE  i \in DOMAIN Append(q, w) /\ Append(q, w)[i] = v
      BY <1>3, <1>5, <3>2
    <3> QED
      BY <1>2, <1>3, <1>5, <2>2, <3>1, <3>2 DEF Holds, q
  <2> QED
    BY <2>1, <2>2
<1> QED
  BY <1>6, <1>8, <1>9

(* The counts stay when the pointers and the references do.                *)
LEMMA SameCount ==
    ASSUME CInv, mMade' = mMade, mTargets' = mTargets, mRefs' = mRefs, mFreed' = mFreed,
               mGone' = mGone,
           \A r \in Sub, p \in 1 .. mMade : Holds(mBox', r, p) <=> Holds(mBox, r, p)
    PROVE  Counted'
<1>1. \A p \in 1 .. mMade : Holders(p)' = Holders(p) /\ Coming(p)' = Coming(p)
  BY DEF Holders, Coming
<1>2. \A p \in 1 .. mMade : Pointers(p)' = Pointers(p)
  BY <1>1 DEF Pointers
<1>3. mFreed \subseteq 1 .. mMade
  BY DEF CInv, CastShapes
<1> QED
  BY <1>1, <1>2, <1>3 DEF CInv, Counted

(* A message for multicastd.                                               *)
LEMMA Sent ==
    ASSUME CInv, NEW m \in [t : {"SUB", "USUB"}, s : Sub], mDbox' = Append(mDbox, m)
    PROVE  /\ mDbox' \in Seq([t : {"SUB", "USUB"}, s : Sub])
           /\ \A i \in DOMAIN mDbox' :
                  (i \in DOMAIN mDbox /\ mDbox'[i] = mDbox[i])
                      \/ (i = Len(mDbox) + 1 /\ mDbox'[i] = m)
<1>1. mDbox \in Seq([t : {"SUB", "USUB"}, s : Sub])
  BY DEF CInv, CastShapes
<1> QED
  BY <1>1

(* A message that multicastd takes.                                        *)
LEMMA Taken ==
    ASSUME CInv, mDbox # <<>>, mDbox' = Tail(mDbox)
    PROVE  /\ mDbox' \in Seq([t : {"SUB", "USUB"}, s : Sub])
           /\ Head(mDbox) = mDbox[1] /\ 1 \in DOMAIN mDbox /\ Head(mDbox).s \in Sub
           /\ \A i \in DOMAIN mDbox' : i + 1 \in DOMAIN mDbox /\ i + 1 # 1
              /\ mDbox'[i] = mDbox[i + 1] /\ i \in Nat
<1>1. mDbox \in Seq([t : {"SUB", "USUB"}, s : Sub])
  BY DEF CInv, CastShapes
<1> DEFINE M == [t : {"SUB", "USUB"}, s : Sub]
<1>2. /\ Head(mDbox) \in M /\ Tail(mDbox) \in Seq(M) /\ Len(Tail(mDbox)) = Len(mDbox) - 1
      /\ \A i \in 1 .. Len(Tail(mDbox)) : Tail(mDbox)[i] = mDbox[i + 1]
  BY <1>1, HeadTailProperties
<1>3. Len(mDbox) \in Nat /\ Len(mDbox) # 0 /\ DOMAIN mDbox = 1 .. Len(mDbox)
          /\ Head(mDbox) = mDbox[1]
  BY <1>1
<1>4. DOMAIN Tail(mDbox) = 1 .. Len(Tail(mDbox))
  BY <1>2
<1>5. Head(mDbox).s \in Sub
  BY <1>2
<1>6. ASSUME NEW i \in DOMAIN mDbox'
      PROVE  i + 1 \in DOMAIN mDbox /\ i + 1 # 1 /\ mDbox'[i] = mDbox[i + 1] /\ i \in Nat
  BY <1>2, <1>3, <1>4
<1>7. 1 \in DOMAIN mDbox
  BY <1>3
<1> QED
  BY <1>2, <1>3, <1>5, <1>6, <1>7

-----------------------------------------------------------------------------
(* No package and no subscriber.                                           *)
LEMMA CInit == ASSUME CastBounds, Cast!Init PROVE CInv
<1>1. CastShapes
  BY DEF Cast!Init, CastShapes, CastBounds
<1>2. DOMAIN mDbox = {} /\ \A s \in Sub : DOMAIN mBox[s] = {}
  BY DEF Cast!Init
<1>3. Distinct /\ Calling
  BY <1>2 DEF Cast!Init, Distinct, Calling, Holds
<1>4. 1 .. mMade = {}
  BY DEF Cast!Init
<1>5. Counted
  BY <1>4 DEF Cast!Init, Counted
<1>6. Cast!CountExact /\ Idled
  BY FS_EmptySet, CastSize DEF Cast!Init, Cast!CountExact, Idled
<1> QED
  BY <1>1, <1>3, <1>5, <1>6 DEF CInv

(* chan:subscribe up to its call: the service asks once.                   *)
LEMMA SubscribeStep ==
    ASSUME CastBounds, CInv, NEW s \in Sub, Cast!Subscribe(s)
    PROVE  CInv'
<1> DEFINE m == [t |-> "SUB", s |-> s]
<1>1. /\ s \notin mWaiting /\ mCalls[s] < MaxCall /\ mCalls' = [mCalls EXCEPT ![s] = @ + 1]
      /\ mWaiting' = mWaiting \cup {s} /\ mDbox' = Append(mDbox, m)
      /\ mGroup' = mGroup /\ mCount' = mCount /\ mTargets' = mTargets /\ mMade' = mMade
      /\ mRefs' = mRefs
      /\ mFreed' = mFreed /\ mBox' = mBox /\ mGone' = mGone
  BY DEF Cast!Subscribe, Cast!server
<1>2. m \in [t : {"SUB", "USUB"}, s : Sub] /\ m.t = "SUB" /\ m.s = s
  OBVIOUS
<1> HIDE DEF m
<1>3. /\ mDbox' \in Seq([t : {"SUB", "USUB"}, s : Sub])
      /\ \A i \in DOMAIN mDbox' :
             (i \in DOMAIN mDbox /\ mDbox'[i] = mDbox[i]) \/ (i = Len(mDbox) + 1 /\ mDbox'[i] = m)
  BY <1>1, <1>2, Sent
<1>4. /\ mCalls \in [Sub -> 0 .. MaxCall] /\ mCalls' \in [Sub -> 0 .. MaxCall] /\ mCalls'[s] >= 1
      /\ \A r \in Sub : r # s => mCalls'[r] = mCalls[r]
  BY <1>1 DEF CInv, CastShapes, CastBounds
<1>5. CastShapes'
  BY <1>1, <1>3, <1>4 DEF CInv, CastShapes
<1>6. Distinct'
  BY <1>1 DEF CInv, Distinct
<1>7. Calling'
  <2>1. \A i \in DOMAIN mDbox' : mDbox'[i].t = "SUB" => mDbox'[i].s \in mWaiting'
    BY <1>1, <1>2, <1>3 DEF CInv, Calling
  <2>2. ASSUME NEW i \in DOMAIN mDbox', NEW j \in DOMAIN mDbox', i # j, mDbox'[i].t = "SUB",
                   mDbox'[j].t = "SUB"
        PROVE  mDbox'[i].s # mDbox'[j].s
    BY <1>1, <1>2, <1>3, <2>2 DEF CInv, Calling
  <2>3. ASSUME NEW r \in Sub, Holds(mBox', r, 0)
        PROVE  r \in mWaiting'
                   /\ \A j \in DOMAIN mDbox' : ~(mDbox'[j].t = "SUB" /\ mDbox'[j].s = r)
    BY <1>1, <1>2, <1>3, <2>3 DEF CInv, Calling, Asks
  <2>4. \A r \in mWaiting' : mCalls'[r] >= 1
    BY <1>1, <1>4 DEF CInv, Calling, CastShapes
  <2> QED
    BY <2>1, <2>2, <2>3, <2>4 DEF Calling, Asks
<1>8. Counted'
  BY <1>1, SameCount
<1>9. Cast!CountExact' /\ Idled'
  BY <1>1 DEF CInv, Cast!CountExact, Idled
<1> QED
  BY <1>5, <1>6, <1>7, <1>8, <1>9 DEF CInv

(* chan:unsubscribe.                                                       *)
LEMMA UnsubscribeStep ==
    ASSUME CastBounds, CInv, NEW s \in Sub, Cast!Unsubscribe(s)
    PROVE  CInv'
<1> DEFINE m == [t |-> "USUB", s |-> s]
<1>1. /\ mDbox' = Append(mDbox, m) /\ mWaiting' = mWaiting /\ mCalls' = mCalls
      /\ mGroup' = mGroup /\ mCount' = mCount /\ mTargets' = mTargets /\ mMade' = mMade
      /\ mRefs' = mRefs
      /\ mFreed' = mFreed /\ mBox' = mBox /\ mGone' = mGone
  BY DEF Cast!Unsubscribe, Cast!server
<1>2. m \in [t : {"SUB", "USUB"}, s : Sub] /\ m.t = "USUB"
  OBVIOUS
<1> HIDE DEF m
<1>3. /\ mDbox' \in Seq([t : {"SUB", "USUB"}, s : Sub])
      /\ \A i \in DOMAIN mDbox' :
             (i \in DOMAIN mDbox /\ mDbox'[i] = mDbox[i]) \/ (i = Len(mDbox) + 1 /\ mDbox'[i] = m)
  BY <1>1, <1>2, Sent
<1>4. CastShapes' /\ Distinct'
  BY <1>1, <1>3 DEF CInv, CastShapes, Distinct
<1>5. \A i \in DOMAIN mDbox' : mDbox'[i].t = "SUB" => i \in DOMAIN mDbox /\ mDbox'[i] = mDbox[i]
  BY <1>2, <1>3
<1>6. Calling'
  BY <1>1, <1>5 DEF CInv, Calling, Asks
<1>7. Counted'
  BY <1>1, SameCount
<1>8. Cast!CountExact' /\ Idled'
  BY <1>1 DEF CInv, Cast!CountExact, Idled
<1> QED
  BY <1>4, <1>6, <1>7, <1>8 DEF CInv

(* chan:subscribe after its call: the only answer is taken.                *)
LEMMA AnsweredStep ==
    ASSUME CastBounds, CInv, NEW s \in Sub, Cast!Answered(s)
    PROVE  CInv'
<1>1. /\ mBox[s] # <<>> /\ Head(mBox[s]) = 0 /\ mBox' = [mBox EXCEPT ![s] = Tail(@)]
      /\ mWaiting' = mWaiting \ {s} /\ mDbox' = mDbox /\ mCalls' = mCalls
      /\ mGroup' = mGroup /\ mCount' = mCount /\ mTargets' = mTargets /\ mMade' = mMade
      /\ mRefs' = mRefs
      /\ mFreed' = mFreed /\ mGone' = mGone
  BY DEF Cast!Answered, Cast!server
<1>2. /\ mBox' \in [Sub -> Seq(0 .. mMade)]
      /\ \A r \in Sub : \A i, j \in DOMAIN mBox'[r] : i # j => mBox'[r][i] # mBox'[r][j]
      /\ \A r \in Sub, v \in Nat : Holds(mBox', r, v) <=> Holds(mBox, r, v) /\ ~(r = s /\ v = 0)
      /\ Holds(mBox, s, 0)
  BY <1>1, Popped
<1>3. mMade \in Nat /\ 0 \in Nat /\ \A p \in 1 .. mMade : p \in Nat /\ p # 0
  BY DEF CInv, CastShapes
<1>4. CastShapes'
  BY <1>1, <1>2 DEF CInv, CastShapes
<1>5. Distinct'
  BY <1>1, <1>2, <1>3 DEF CInv, Distinct, CastShapes
<1>6. Calling'
  <2>1. \A j \in DOMAIN mDbox : mDbox[j].t = "SUB" => mDbox[j].s # s
    BY <1>2 DEF CInv, Calling, Asks
  <2>2. \A r \in Sub : Holds(mBox', r, 0) => r # s /\ Holds(mBox, r, 0)
    BY <1>2, <1>3
  <2> QED
    BY <1>1, <2>1, <2>2 DEF CInv, Calling, Asks
<1>7. Counted'
  BY <1>1, <1>2, <1>3, SameCount
<1>8. Cast!CountExact' /\ Idled'
  BY <1>1 DEF CInv, Cast!CountExact, Idled
<1> QED
  BY <1>4, <1>5, <1>6, <1>7, <1>8 DEF CInv

(* The sets of services are finite.                                        *)
LEMMA Finite ==
    ASSUME CastBounds, CInv, NEW p
    PROVE  /\ IsFiniteSet(Holders(p)) /\ IsFiniteSet(Coming(p)) /\ IsFiniteSet(mGroup)
           /\ Cardinality(Holders(p)) \in Nat /\ Cardinality(Coming(p)) \in Nat
           /\ Cardinality(mGroup) \in Nat
<1>1. Holders(p) \subseteq Sub /\ Coming(p) \subseteq Sub /\ mGroup \subseteq Sub
  BY DEF CInv, CastShapes, Holders, Coming
<1>2. IsFiniteSet(Holders(p)) /\ IsFiniteSet(Coming(p)) /\ IsFiniteSet(mGroup)
  BY <1>1, FS_Subset DEF CastBounds
<1> QED
  BY <1>2, FS_CardinalityType

(* A subscriber that has read a package gives one reference back; the one  *)
(* that frees it held the last pointer.                                    *)
LEMMA DispatchStep ==
    ASSUME CastBounds, CInv, NEW s \in Sub, Cast!Dispatch(s)
    PROVE  CInv'
<1>0. PICK p : p = Head(mBox[s])
  OBVIOUS
<1>1. /\ mBox[s] # <<>> /\ p # 0 /\ mBox' = [mBox EXCEPT ![s] = Tail(@)]
      /\ mRefs' = [mRefs EXCEPT ![p] = @ - 1]
      /\ mFreed' = IF mRefs'[p] <= 0 THEN mFreed \cup {p} ELSE mFreed
      /\ mWaiting' = mWaiting /\ mDbox' = mDbox /\ mCalls' = mCalls
      /\ mGroup' = mGroup /\ mCount' = mCount /\ mTargets' = mTargets /\ mMade' = mMade
      /\ mGone' = mGone
  BY <1>0 DEF Cast!Dispatch, Cast!Close, Cast!server
<1>2. /\ mBox' \in [Sub -> Seq(0 .. mMade)] /\ p \in 0 .. mMade
      /\ \A r \in Sub : \A i, j \in DOMAIN mBox'[r] : i # j => mBox'[r][i] # mBox'[r][j]
      /\ \A r \in Sub, v \in Nat : Holds(mBox', r, v) <=> Holds(mBox, r, v) /\ ~(r = s /\ v = p)
      /\ Holds(mBox, s, p)
  BY <1>0, <1>1, Popped
<1>3. /\ mMade \in Nat /\ p \in 1 .. mMade /\ p \in Cast!Pack /\ mRefs \in [Cast!Pack -> Int]
      /\ \A v \in 1 .. mMade : v \in Nat /\ v \in Cast!Pack
  BY <1>1, <1>2 DEF CInv, CastShapes, Cast!Pack, CastBounds
<1>4. /\ mRefs' \in [Cast!Pack -> Int] /\ mRefs'[p] = mRefs[p] - 1 /\ mRefs[p] \in Int
      /\ \A v \in 1 .. mMade : v # p => mRefs'[v] = mRefs[v]
  BY <1>1, <1>3
<1>5. mFreed' \subseteq 1 .. mMade
  BY <1>1, <1>3 DEF CInv, CastShapes
<1>6. CastShapes'
  BY <1>1, <1>2, <1>4, <1>5 DEF CInv, CastShapes
<1>7. Distinct'
  BY <1>1, <1>2, <1>3 DEF CInv, Distinct, CastShapes
<1>8. Calling'
  <2>1. \A r \in Sub : Holds(mBox', r, 0) => Holds(mBox, r, 0)
    BY <1>2
  <2> QED
    BY <1>1, <2>1 DEF CInv, Calling, Asks
<1>9. Counted'
  <2>1. s \in Holders(p) /\ p \notin mFreed
    BY <1>2 DEF CInv, Counted, Holders
  <2>2. /\ Holders(p)' = Holders(p) \ {s}
        /\ \A v \in 1 .. mMade : v # p => Holders(v)' = Holders(v)
        /\ \A v \in 1 .. mMade : Coming(v)' = Coming(v)
    BY <1>1, <1>2, <1>3 DEF Holders, Coming
  <2>3. /\ IsFiniteSet(Holders(p)) /\ IsFiniteSet(Coming(p))
        /\ Cardinality(Holders(p)) \in Nat /\ Cardinality(Coming(p)) \in Nat
    BY Finite
  <2>4. IsFiniteSet(Holders(p)') /\ Cardinality(Holders(p)') = Cardinality(Holders(p)) - 1
    BY <2>1, <2>2, <2>3, FS_RemoveElement
  <2>5. Pointers(p)' = Pointers(p) - 1 /\ Pointers(p) \in Int
    BY <1>3, <2>2, <2>3, <2>4 DEF Pointers
  <2>6. mRefs[p] >= Pointers(p) /\ (mGone = {} => mRefs[p] = Pointers(p))
    BY <1>3, <2>1 DEF CInv, Counted
  <2>7. mRefs'[p] >= Pointers(p)' /\ (mGone' = {} => mRefs'[p] = Pointers(p)')
    BY <1>1, <1>4, <2>5, <2>6
  <2>8. \A v \in 1 .. mMade : v # p => Pointers(v)' = Pointers(v)
    BY <2>2 DEF Pointers
  <2>9. ASSUME NEW v \in mFreed' PROVE Holders(v)' = {} /\ Coming(v)' = {}
    <3>1. CASE v = p
      <4>1. mRefs'[p] <= 0
        BY <1>1, <2>1, <2>9, <3>1
      <4>2. /\ Pointers(p)' = Cardinality(Holders(p)') + Cardinality(Coming(p))
            /\ Cardinality(Holders(p)') \in Nat
        BY <1>3, <2>2, <2>4, FS_CardinalityType DEF Pointers
      <4>3. Cardinality(Holders(p)') = 0 /\ Cardinality(Coming(p)) = 0
        BY <1>4, <2>3, <2>5, <2>7, <4>1, <4>2
      <4>4. Holders(p)' = {} /\ Coming(p) = {}
        BY <2>3, <2>4, <4>3, FS_EmptySet
      <4> QED
        BY <1>3, <2>2, <3>1, <4>4
    <3>2. CASE v # p
      <4>1. v \in mFreed /\ v \in 1 .. mMade
        BY <1>1, <1>5, <2>9, <3>2
      <4> QED
        BY <2>2, <3>2, <4>1 DEF CInv, Counted
    <3> QED
      BY <3>1, <3>2
  <2>10. ASSUME NEW v \in 1 .. mMade, v \notin mFreed'
         PROVE  mRefs'[v] >= Pointers(v)' /\ (mGone' = {} => mRefs'[v] = Pointers(v)')
    <3>1. CASE v = p
      BY <2>7, <3>1
    <3>2. CASE v # p
      <4>1. v \notin mFreed
        BY <1>1, <2>10
      <4>2. mRefs[v] >= Pointers(v) /\ (mGone = {} => mRefs[v] = Pointers(v))
        BY <4>1 DEF CInv, Counted
      <4> QED
        BY <1>1, <1>4, <2>8, <3>2, <4>2
    <3> QED
      BY <3>1, <3>2
  <2> QED
    BY <1>1, <2>9, <2>10 DEF Counted
<1>10. Cast!CountExact' /\ Idled'
  BY <1>1 DEF CInv, Cast!CountExact, Idled
<1> QED
  BY <1>6, <1>7, <1>8, <1>9, <1>10 DEF CInv

(* A step that leaves a service with fewer pointers, or gives it fewer     *)
(* than it was to get, where a service is gone.                            *)
LEMMA FewerCount ==
    ASSUME CastBounds, CInv, mMade' = mMade, mRefs' = mRefs, mFreed' = mFreed, mGone' # {},
           \A p \in 1 .. mMade : Holders(p)' \subseteq Holders(p)
               /\ Coming(p)' \subseteq Coming(p)
    PROVE  Counted'
<1>1. ASSUME NEW p \in 1 .. mMade PROVE Pointers(p)' <= Pointers(p) /\ Pointers(p)' \in Int
  <2>1. /\ IsFiniteSet(Holders(p)) /\ IsFiniteSet(Coming(p))
        /\ Cardinality(Holders(p)) \in Nat /\ Cardinality(Coming(p)) \in Nat
    BY Finite
  <2>2. /\ IsFiniteSet(Holders(p)') /\ Cardinality(Holders(p)') <= Cardinality(Holders(p))
        /\ IsFiniteSet(Coming(p)') /\ Cardinality(Coming(p)') <= Cardinality(Coming(p))
    BY <2>1, FS_Subset
  <2>3. Cardinality(Holders(p)') \in Nat /\ Cardinality(Coming(p)') \in Nat
    BY <2>2, FS_CardinalityType
  <2> QED
    BY <2>1, <2>2, <2>3 DEF Pointers
<1>2. mFreed \subseteq 1 .. mMade /\ \A p \in 1 .. mMade : mRefs[p] \in Int
  BY DEF CInv, CastShapes, Cast!Pack, CastBounds
<1>3. \A p \in 1 .. mMade : Pointers(p) \in Int
  <2>1. ASSUME NEW p \in 1 .. mMade PROVE Pointers(p) \in Int
    <3>1. Cardinality(Holders(p)) \in Nat /\ Cardinality(Coming(p)) \in Nat
      BY Finite
    <3> QED
      BY <3>1 DEF Pointers
  <2> QED
    BY <2>1
<1>4. \A p \in mFreed : Holders(p)' = {} /\ Coming(p)' = {}
  BY <1>2 DEF CInv, Counted
<1>5. ASSUME NEW p \in 1 .. mMade, p \notin mFreed PROVE mRefs[p] >= Pointers(p)'
  <2>1. mRefs[p] >= Pointers(p)
    BY <1>5 DEF CInv, Counted
  <2> QED
    BY <1>1, <1>2, <1>3, <2>1
<1> QED
  BY <1>4, <1>5 DEF Counted

(* A service that exits drops its mailbox.                                 *)
LEMMA ExitStep ==
    ASSUME CastBounds, CInv, NEW s \in Sub, Cast!Exit(s)
    PROVE  CInv'
<1>1. /\ s \notin mWaiting /\ mGone' = mGone \cup {s} /\ mBox' = [mBox EXCEPT ![s] = <<>>]
      /\ mWaiting' = mWaiting /\ mDbox' = mDbox /\ mCalls' = mCalls /\ mRefs' = mRefs
      /\ mFreed' = mFreed
      /\ mGroup' = mGroup /\ mCount' = mCount /\ mTargets' = mTargets /\ mMade' = mMade
  BY DEF Cast!Exit, Cast!server
<1>2. /\ mBox' \in [Sub -> Seq(0 .. mMade)] /\ DOMAIN mBox'[s] = {}
      /\ \A r \in Sub : r # s => mBox'[r] = mBox[r]
  BY <1>1 DEF CInv, CastShapes
<1>3. \A v : \A r \in Sub : Holds(mBox', r, v) => Holds(mBox, r, v)
  BY <1>2 DEF Holds
<1>4. CastShapes'
  BY <1>1, <1>2 DEF CInv, CastShapes
<1>5. Distinct'
  <2>1. \A r \in Sub : \A i, j \in DOMAIN mBox'[r] : i # j => mBox'[r][i] # mBox'[r][j]
    BY <1>2 DEF CInv, Distinct
  <2>2. \A r \in mTargets : r \in Sub /\ ~Holds(mBox, r, mMade)
    BY DEF CInv, Distinct, CastShapes
  <2>3. \A r \in mTargets' : ~Holds(mBox', r, mMade')
    BY <1>1, <1>3, <2>2
  <2> QED
    BY <2>1, <2>3 DEF Distinct
<1>6. Calling'
  BY <1>1, <1>3 DEF CInv, Calling, Asks
<1>7. Counted'
  <2>1. \A p \in 1 .. mMade : Holders(p)' \subseteq Holders(p) /\ Coming(p)' = Coming(p)
    BY <1>1, <1>3 DEF Holders, Coming
  <2> QED
    BY <1>1, <2>1, FewerCount
<1>8. Cast!CountExact' /\ Idled'
  BY <1>1 DEF CInv, Cast!CountExact, Idled
<1> QED
  BY <1>4, <1>5, <1>6, <1>7, <1>8 DEF CInv

-----------------------------------------------------------------------------
(* command.SUB: the service has no answer in its mailbox yet.              *)
LEMMA SubStep ==
    ASSUME CastBounds, CInv, NEW s \in Sub, Cast!Sub_(s)
    PROVE  CInv'
<1>1. /\ mTargets = {} /\ mDbox # <<>> /\ Head(mDbox).t = "SUB" /\ mDbox' = Tail(mDbox)
      /\ Head(mDbox).s = s /\ mGroup' = mGroup \cup {s}
      /\ mCount' = (IF s \in mGroup THEN mCount ELSE mCount + 1)
      /\ mBox' = [mBox EXCEPT ![s] = Append(@, 0)]
      /\ mWaiting' = mWaiting /\ mCalls' = mCalls /\ mRefs' = mRefs /\ mFreed' = mFreed
      /\ mTargets' = mTargets /\ mMade' = mMade /\ mGone' = mGone
  BY DEF Cast!Sub_, Cast!Daemon
<1>2. /\ mDbox' \in Seq([t : {"SUB", "USUB"}, s : Sub]) /\ Head(mDbox) = mDbox[1]
      /\ 1 \in DOMAIN mDbox
      /\ \A i \in DOMAIN mDbox' : i + 1 \in DOMAIN mDbox /\ i + 1 # 1 /\ mDbox'[i] = mDbox[i + 1]
         /\ i \in Nat
  BY <1>1, Taken
<1>3. mDbox[1].t = "SUB" /\ mDbox[1].s = s /\ s \in mWaiting /\ ~Holds(mBox, s, 0)
  BY <1>1, <1>2 DEF CInv, Calling, Asks
<1>4. mMade \in Nat /\ 0 \in 0 .. mMade /\ \A p \in 1 .. mMade : p \in Nat /\ p # 0
  BY DEF CInv, CastShapes
<1>5. /\ mBox' \in [Sub -> Seq(0 .. mMade)]
      /\ \A r \in Sub : \A i, j \in DOMAIN mBox'[r] : i # j => mBox'[r][i] # mBox'[r][j]
      /\ \A r \in Sub, v \in Nat : Holds(mBox', r, v) <=> Holds(mBox, r, v) \/ (r = s /\ v = 0)
  BY <1>1, <1>3, <1>4, Pushed
<1>6. CastShapes'
  BY <1>1, <1>2, <1>5 DEF CInv, CastShapes
<1>7. Distinct'
  BY <1>1, <1>5 DEF CInv, Distinct
<1>8. Calling'
  <2>1. \A i \in DOMAIN mDbox' : mDbox'[i].t = "SUB" => mDbox'[i].s \in mWaiting'
    BY <1>1, <1>2 DEF CInv, Calling
  <2>2. ASSUME NEW i \in DOMAIN mDbox', NEW j \in DOMAIN mDbox', i # j, mDbox'[i].t = "SUB",
               mDbox'[j].t = "SUB"
        PROVE  mDbox'[i].s # mDbox'[j].s
    <3>1. i + 1 \in DOMAIN mDbox /\ j + 1 \in DOMAIN mDbox /\ i + 1 # j + 1
      BY <1>2, <2>2
    <3> QED
      BY <1>2, <2>2, <3>1 DEF CInv, Calling
  <2>3. \A j \in DOMAIN mDbox' : ~(mDbox'[j].t = "SUB" /\ mDbox'[j].s = s)
    BY <1>2, <1>3 DEF CInv, Calling
  <2>4. ASSUME NEW r \in Sub, Holds(mBox', r, 0)
        PROVE  r \in mWaiting'
                   /\ \A j \in DOMAIN mDbox' : ~(mDbox'[j].t = "SUB" /\ mDbox'[j].s = r)
    <3>1. CASE r = s
      BY <1>1, <1>3, <2>3, <3>1
    <3>2. CASE r # s
      <4>1. Holds(mBox, r, 0)
        BY <1>5, <2>4, <3>2
      <4> QED
        BY <1>1, <1>2, <4>1 DEF CInv, Calling, Asks
    <3> QED
      BY <3>1, <3>2
  <2> QED
    BY <1>1, <2>1, <2>2, <2>4 DEF CInv, Calling, Asks
<1>9. Counted'
  BY <1>1, <1>4, <1>5, SameCount
<1>10. Cast!CountExact'
  <2>1. IsFiniteSet(mGroup) /\ mCount = Cardinality(mGroup)
    BY Finite, CastSize DEF CInv, Cast!CountExact
  <2>2. CASE s \in mGroup
    <3>1. mGroup' = mGroup
      BY <1>1, <2>2
    <3> QED
      BY <1>1, <2>1, <2>2, <3>1, CastSize DEF Cast!CountExact
  <2>3. CASE s \notin mGroup
    BY <1>1, <2>1, <2>3, FS_AddElement, CastSize DEF Cast!CountExact
  <2> QED
    BY <2>2, <2>3
<1>11. Idled'
  BY <1>1 DEF CInv, Idled
<1> QED
  BY <1>6, <1>7, <1>8, <1>9, <1>10, <1>11 DEF CInv

(* command.USUB: channel_n is one less if the service was there.           *)
LEMMA UsubStep ==
    ASSUME CastBounds, CInv, NEW s \in Sub, Cast!Usub(s)
    PROVE  CInv'
<1>1. /\ mDbox # <<>> /\ mDbox' = Tail(mDbox) /\ mGroup' = mGroup \ {s}
      /\ mCount' = (IF s \in mGroup THEN mCount - 1 ELSE mCount)
      /\ mBox' = mBox /\ mWaiting' = mWaiting /\ mCalls' = mCalls /\ mRefs' = mRefs
      /\ mFreed' = mFreed
      /\ mTargets' = mTargets /\ mMade' = mMade /\ mGone' = mGone
  BY DEF Cast!Usub, Cast!Daemon
<1>2. /\ mDbox' \in Seq([t : {"SUB", "USUB"}, s : Sub])
      /\ \A i \in DOMAIN mDbox' : i + 1 \in DOMAIN mDbox /\ mDbox'[i] = mDbox[i + 1] /\ i \in Nat
  BY <1>1, Taken
<1>3. CastShapes' /\ Distinct'
  BY <1>1, <1>2 DEF CInv, CastShapes, Distinct
<1>4. Calling'
  <2>1. ASSUME NEW i \in DOMAIN mDbox', NEW j \in DOMAIN mDbox', i # j, mDbox'[i].t = "SUB",
               mDbox'[j].t = "SUB"
        PROVE  mDbox'[i].s # mDbox'[j].s
    <3>1. i + 1 \in DOMAIN mDbox /\ j + 1 \in DOMAIN mDbox /\ i + 1 # j + 1
      BY <1>2, <2>1
    <3> QED
      BY <1>2, <2>1, <3>1 DEF CInv, Calling
  <2> QED
    BY <1>1, <1>2, <2>1 DEF CInv, Calling, Asks
<1>5. Counted'
  BY <1>1, SameCount
<1>6. Cast!CountExact'
  <2>1. IsFiniteSet(mGroup) /\ mCount = Cardinality(mGroup)
    BY Finite, CastSize DEF CInv, Cast!CountExact
  <2>2. CASE s \in mGroup
    BY <1>1, <2>1, <2>2, FS_RemoveElement, CastSize DEF Cast!CountExact
  <2>3. CASE s \notin mGroup
    <3>1. mGroup' = mGroup
      BY <1>1, <2>3
    <3> QED
      BY <1>1, <2>1, <2>3, <3>1, CastSize DEF Cast!CountExact
  <2> QED
    BY <2>2, <2>3
<1>7. Idled'
  BY <1>1 DEF CInv, Idled
<1> QED
  BY <1>3, <1>4, <1>5, <1>6, <1>7 DEF CInv

(* A package is bound to the number of services that will get it.          *)
LEMMA PublishStep ==
    ASSUME CastBounds, CInv, Cast!Publish
    PROVE  CInv'
<1>0. PICK n : n = mMade + 1
  OBVIOUS
<1>1. /\ mTargets = {} /\ mMade < MaxPack /\ mMade' = n /\ mTargets' = mGroup
      /\ mGroup = {} => mFreed' = mFreed \cup {n} /\ mRefs' = mRefs
      /\ mGroup # {} => mFreed' = mFreed /\ mRefs' = [mRefs EXCEPT ![n] = mCount]
      /\ mBox' = mBox /\ mDbox' = mDbox /\ mWaiting' = mWaiting /\ mCalls' = mCalls
      /\ mGroup' = mGroup /\ mCount' = mCount /\ mGone' = mGone
  BY <1>0 DEF Cast!Publish
<1>2. /\ mMade \in 0 .. MaxPack /\ mMade \in Nat /\ MaxPack \in Nat
      /\ mRefs \in [Cast!Pack -> Int]
      /\ mBox \in [Sub -> Seq(0 .. mMade)] /\ mFreed \subseteq 1 .. mMade
  BY DEF CInv, CastShapes, CastBounds
<1>3. /\ n \in 1 .. MaxPack /\ n \in Cast!Pack /\ n \notin 0 .. mMade
      /\ 0 .. mMade \subseteq 0 .. n
      /\ \A p \in 1 .. n : p \in 1 .. mMade \/ p = n
      /\ \A p \in 1 .. mMade : p # n /\ p \in 1 .. n /\ p \in Cast!Pack
  BY <1>0, <1>1, <1>2 DEF Cast!Pack
<1>4. mCount = Cardinality(mGroup) /\ mCount \in Nat
  BY Finite, CastSize DEF CInv, Cast!CountExact
<1>5. /\ mRefs' \in [Cast!Pack -> Int] /\ (mGroup # {} => mRefs'[n] = mCount)
      /\ \A p \in 1 .. mMade : mRefs'[p] = mRefs[p]
  BY <1>1, <1>2, <1>3, <1>4
<1>6. \A r \in Sub : ~Holds(mBox, r, n)
  <2>1. \A r \in Sub : \A i \in DOMAIN mBox[r] : mBox[r][i] \in 0 .. mMade
    BY <1>2
  <2> QED
    BY <1>3, <2>1 DEF Holds
<1>7. mBox' \in [Sub -> Seq(0 .. mMade')]
  <2>1. \A r \in Sub : mBox[r] \in Seq(0 .. n)
    BY <1>2, <1>3
  <2> QED
    BY <1>1, <1>2, <2>1
<1>8. mFreed' \subseteq 1 .. n
  <2>1. n \in 1 .. n /\ 1 .. mMade \subseteq 1 .. n
    BY <1>3
  <2> QED
    BY <1>1, <1>2, <2>1
<1>9. CastShapes'
  <2>1. n \in 0 .. MaxPack
    BY <1>3
  <2> QED
    BY <1>1, <1>5, <1>7, <1>8, <2>1 DEF CInv, CastShapes
<1>10. Distinct'
  BY <1>1, <1>6 DEF CInv, Distinct, CastShapes
<1>11. Calling'
  BY <1>1 DEF CInv, Calling, Asks
<1>12. Counted'
  <2>1. /\ \A p \in 1 .. n : Holders(p)' = Holders(p)
        /\ Holders(n) = {} /\ Coming(n)' = mGroup
        /\ \A p \in 1 .. mMade : Coming(p)' = {} /\ Coming(p) = {}
    BY <1>1, <1>3, <1>6 DEF Holders, Coming
  <2>2. \A p \in 1 .. mMade : Pointers(p)' = Pointers(p)
    BY <1>3, <2>1 DEF Pointers
  <2>3. Pointers(n)' = mCount
    <3>1. Pointers(n)' = Cardinality({}) + Cardinality(mGroup)
      BY <1>3, <2>1 DEF Pointers
    <3> QED
      BY <1>4, <3>1, FS_EmptySet
  <2>4. ASSUME NEW p \in mFreed' PROVE Holders(p)' = {} /\ Coming(p)' = {}
    <3>1. CASE p = n
      <4>1. n \notin mFreed
        BY <1>2, <1>3
      <4>2. mGroup = {}
        BY <1>1, <2>4, <3>1, <4>1
      <4> QED
        BY <1>3, <2>1, <3>1, <4>2
    <3>2. CASE p # n
      <4>1. p \in mFreed /\ p \in 1 .. mMade
        BY <1>1, <1>2, <2>4, <3>2
      <4> QED
        BY <1>3, <2>1, <4>1 DEF CInv, Counted
    <3> QED
      BY <3>1, <3>2
  <2>5. ASSUME NEW p \in 1 .. n, p \notin mFreed'
        PROVE  mRefs'[p] >= Pointers(p)' /\ (mGone' = {} => mRefs'[p] = Pointers(p)')
    <3>1. CASE p = n
      <4>1. mGroup # {}
        BY <1>1, <2>5, <3>1
      <4> QED
        BY <1>4, <1>5, <2>3, <3>1, <4>1
    <3>2. CASE p # n
      <4>1. p \in 1 .. mMade /\ p \notin mFreed
        BY <1>1, <1>3, <2>5, <3>2
      <4>2. mRefs[p] >= Pointers(p) /\ (mGone = {} => mRefs[p] = Pointers(p))
        BY <4>1 DEF CInv, Counted
      <4> QED
        BY <1>1, <1>5, <2>2, <4>1, <4>2
    <3> QED
      BY <3>1, <3>2
  <2> QED
    BY <1>1, <2>4, <2>5 DEF Counted
<1>13. Cast!CountExact' /\ Idled'
  BY <1>1, <1>3 DEF CInv, Cast!CountExact, Idled
<1> QED
  BY <1>9, <1>10, <1>11, <1>12, <1>13 DEF CInv

(* A pointer that was to come has come, or is lost with a service that is  *)
(* gone.                                                                   *)
LEMMA RedirectStep ==
    ASSUME CastBounds, CInv, NEW s \in Sub, Cast!Redirect(s)
    PROVE  CInv'
<1>1. /\ s \in mTargets /\ mTargets' = mTargets \ {s}
      /\ s \in mGone => mBox' = mBox
      /\ s \notin mGone => mBox' = [mBox EXCEPT ![s] = Append(@, mMade)]
      /\ mDbox' = mDbox /\ mWaiting' = mWaiting /\ mCalls' = mCalls /\ mRefs' = mRefs
      /\ mFreed' = mFreed
      /\ mGroup' = mGroup /\ mCount' = mCount /\ mMade' = mMade /\ mGone' = mGone
  BY DEF Cast!Redirect
<1>2. Cast!CountExact' /\ Idled'
  BY <1>1 DEF CInv, Cast!CountExact, Idled
<1>3. mTargets' \subseteq Sub
  BY <1>1 DEF CInv, CastShapes
<1>4. CASE s \in mGone
  <2>1. CastShapes' /\ Distinct' /\ Calling'
    BY <1>1, <1>3, <1>4 DEF CInv, CastShapes, Distinct, Calling, Asks
  <2>2. \A p \in 1 .. mMade : Holders(p)' \subseteq Holders(p) /\ Coming(p)' \subseteq Coming(p)
    BY <1>1, <1>4 DEF Holders, Coming
  <2>3. Counted'
    BY <1>1, <1>4, <2>2, FewerCount
  <2> QED
    BY <1>2, <2>1, <2>3 DEF CInv
<1>5. CASE s \notin mGone
  <2>1. ~Holds(mBox, s, mMade) /\ mMade \in 0 .. mMade /\ mMade \in Nat
    BY <1>1 DEF CInv, Distinct, CastShapes
  <2>2. mMade # 0
    <3>1. mMade \in 1 .. mMade \/ mMade = 0
      BY <2>1
    <3> QED
      BY <1>1, <3>1 DEF CInv, Idled
  <2>3. /\ mBox' \in [Sub -> Seq(0 .. mMade)]
        /\ \A r \in Sub : \A i, j \in DOMAIN mBox'[r] : i # j => mBox'[r][i] # mBox'[r][j]
        /\ \A r \in Sub, v \in Nat : Holds(mBox', r, v) <=>
           Holds(mBox, r, v) \/ (r = s /\ v = mMade)
    BY <1>1, <1>5, <2>1, Pushed
  <2>4. CastShapes'
    BY <1>1, <1>3, <2>3 DEF CInv, CastShapes
  <2>5. Distinct'
    BY <1>1, <2>1, <2>3 DEF CInv, Distinct, CastShapes
  <2>6. Calling'
    <3>1. \A r \in Sub : Holds(mBox', r, 0) => Holds(mBox, r, 0)
      BY <2>2, <2>3
    <3> QED
      BY <1>1, <3>1 DEF CInv, Calling, Asks
  <2>7. Counted'
    <3>0. PICK n : n = mMade
      OBVIOUS
    <3>1. /\ \A p \in 1 .. mMade : p # n => Holders(p)' = Holders(p) /\ Coming(p)' = Coming(p)
          /\ Holders(n)' = Holders(n) \cup {s} /\ s \notin Holders(n)
          /\ Coming(n)' = Coming(n) \ {s} /\ s \in Coming(n)
      <4>1. \A p \in 1 .. mMade : p \in Nat
        BY <2>1
      <4> QED
        BY <1>1, <2>1, <2>3, <3>0, <4>1 DEF Holders, Coming
    <3>2. n \notin mFreed
      BY <3>1 DEF CInv, Counted
    <3>3. /\ IsFiniteSet(Holders(n)) /\ IsFiniteSet(Coming(n))
          /\ Cardinality(Holders(n)) \in Nat /\ Cardinality(Coming(n)) \in Nat
      BY Finite
    <3>4. /\ Cardinality(Holders(n)') = Cardinality(Holders(n)) + 1
          /\ Cardinality(Coming(n)') = Cardinality(Coming(n)) - 1
      <4>1. Cardinality(Holders(n) \cup {s}) = Cardinality(Holders(n)) + 1
        BY <3>1, <3>3, FS_AddElement
      <4>2. Cardinality(Coming(n) \ {s}) = Cardinality(Coming(n)) - 1
        BY <3>1, <3>3, FS_RemoveElement
      <4> QED
        BY <3>1, <4>1, <4>2
    <3>5. Pointers(n)' = Pointers(n)
      BY <3>3, <3>4 DEF Pointers
    <3>6. \A p \in 1 .. mMade : Pointers(p)' = Pointers(p)
      BY <3>1, <3>5 DEF Pointers
    <3>7. \A p \in mFreed : Holders(p)' = {} /\ Coming(p)' = {}
      BY <3>1, <3>2 DEF CInv, Counted, CastShapes
    <3> QED
      BY <1>1, <3>6, <3>7 DEF CInv, Counted
  <2> QED
    BY <1>2, <2>4, <2>5, <2>6, <2>7 DEF CInv
<1> QED
  BY <1>4, <1>5

-----------------------------------------------------------------------------
(* Every step keeps the invariant.                                         *)
LEMMA CStep == ASSUME CastBounds, CInv, [Cast!Next]_(Cast!vars) PROVE CInv'
<1>1. CASE UNCHANGED Cast!vars
  <2>1. /\ mGroup' = mGroup /\ mCount' = mCount /\ mRefs' = mRefs /\ mFreed' = mFreed
        /\ mTargets' = mTargets
        /\ mMade' = mMade /\ mDbox' = mDbox /\ mBox' = mBox /\ mWaiting' = mWaiting
        /\ mCalls' = mCalls
        /\ mGone' = mGone
    BY <1>1 DEF Cast!vars
  <2>2. Counted'
    BY <2>1, SameCount
  <2>3. CastShapes' /\ Distinct' /\ Calling' /\ Cast!CountExact' /\ Idled'
    BY <2>1 DEF CInv, CastShapes, Distinct, Calling, Asks, Cast!CountExact, Idled
  <2> QED
    BY <2>2, <2>3 DEF CInv
<1>2. CASE Cast!Publish
  BY <1>2, PublishStep
<1>3. ASSUME NEW s \in Sub, Cast!Sub_(s) \/ Cast!Usub(s) \/ Cast!Redirect(s) PROVE CInv'
  BY <1>3, SubStep, UsubStep, RedirectStep
<1>4. ASSUME NEW s \in Sub, Cast!Answered(s) \/ Cast!Dispatch(s) \/ Cast!Subscribe(s)
                 \/ Cast!Unsubscribe(s) \/ Cast!Exit(s)
      PROVE CInv'
  BY <1>4, AnsweredStep, DispatchStep, SubscribeStep, UnsubscribeStep, ExitStep
<1> QED
  BY <1>1, <1>2, <1>3, <1>4 DEF Cast!Next, Cast!Server, Cast!Service

(* lua-multicast.c, multicastd.lua: for any number of subscribers and      *)
(* packages, no package is freed to which a mailbox or the loop of publish *)
(* has a pointer; its references are the pointers, unless a service has    *)
(* exited with some; and channel_n counts the subscribers, however         *)
(* subscriptions and packages interleave.                                  *)
THEOREM CastCorrect == ASSUME CastBounds PROVE Cast!Spec => []Cast!CastOK
<1>1. Cast!Init => CInv
  BY CInit
<1>2. CInv /\ [Cast!Next]_(Cast!vars) => CInv'
  BY CStep
<1>3. CInv => Cast!CastOK
  <2> SUFFICES ASSUME CInv PROVE Cast!CastOK
    OBVIOUS
  <2>1. \A p \in 1 .. mMade : Cast!Copies(p) = Pointers(p)
    BY CopiesPointers
  <2>2. mFreed \subseteq 1 .. mMade
    BY DEF CInv, CastShapes
  <2>3. Cast!NoDangling
    <3>1. ASSUME NEW p \in mFreed PROVE Cast!Copies(p) = 0
      <4>1. Cast!Copies(p) = Cardinality({}) + Cardinality({})
        BY <2>1, <2>2 DEF Pointers, CInv, Counted
      <4> QED
        BY <4>1, FS_EmptySet
    <3> QED
      BY <3>1 DEF Cast!NoDangling
  <2>4. Cast!RefsExact
    BY <2>1 DEF CInv, Counted, Cast!RefsExact
  <2> QED
    BY <2>3, <2>4 DEF CInv, Cast!CastOK
<1> QED
  BY <1>1, <1>2, <1>3, PTL DEF Cast!Spec

-----------------------------------------------------------------------------
(* rwlock.h.  Exclusion alone is not inductive.  That no reader gets in    *)
(* while a writer writes needs the word write to be set, and that none is  *)
(* inside when the writer has waited needs the word read to count the      *)
(* readers, the ones about to back off included: LockWords.  The counting  *)
(* needs the counted threads to be finitely many, which they are because   *)
(* they came one at a time, whatever Thread is.                            *)

(* The threads that the word read counts.                                  *)
Readers == {t \in Thread : lPc[t] \in {"rcheck", "rsub", "reading"}}

Owns(t) == lPc[t] \in {"wwait", "writing"}

LInv == Lock!TypeOK /\ Lock!LockWords /\ Lock!Exclusion /\ IsFiniteSet(Readers)

USE DEF Lock!At, Lock!Go

-----------------------------------------------------------------------------
(* The instance counts as FiniteSets does.                                 *)
LEMMA LockSize == \A S : Lock!Cardinality(S) = Cardinality(S)
BY DEF Lock!Cardinality, Cardinality

(* __sync_add_and_fetch(&lock->read,1): the thread that added itself is    *)
(* one more thread that read counts.                                       *)
LEMMA CountMore ==
    ASSUME LInv, NEW t \in Thread, t \notin Readers, Readers' = Readers \cup {t},
           lRead' = lRead + 1
    PROVE  IsFiniteSet(Readers') /\ lRead' \in Nat /\ lRead' = Cardinality(Readers')
<1>1. lRead = Cardinality(Readers)
  BY LockSize DEF LInv, Lock!LockWords, Readers
<1> QED
  BY <1>1, FS_AddElement, FS_CardinalityType DEF LInv, Lock!TypeOK

(* __sync_sub_and_fetch(&lock->read,1): the word does not underflow.       *)
LEMMA CountLess ==
    ASSUME LInv, NEW t \in Thread, t \in Readers, Readers' = Readers \ {t},
           lRead' = lRead - 1
    PROVE  IsFiniteSet(Readers') /\ lRead' \in Nat /\ lRead' = Cardinality(Readers')
<1>1. lRead = Cardinality(Readers)
  BY LockSize DEF LInv, Lock!LockWords, Readers
<1>2. Cardinality(Readers) # 0
  BY FS_EmptySet DEF LInv
<1>3. lRead' = Cardinality(Readers')
  BY <1>1, FS_RemoveElement DEF LInv
<1> QED
  BY <1>1, <1>2, <1>3, FS_RemoveElement, FS_CardinalityType DEF LInv, Lock!TypeOK

(* A step that changes neither who is counted nor the word.                *)
LEMMA CountSame ==
    ASSUME LInv, Readers' = Readers, lRead' = lRead
    PROVE  IsFiniteSet(Readers') /\ lRead' \in Nat /\ lRead' = Cardinality(Readers')
BY LockSize DEF LInv, Lock!TypeOK, Lock!LockWords, Readers

(* The invariant from its parts.                                           *)
LEMMA Assemble ==
    ASSUME Lock!TypeOK', Lock!Exclusion', IsFiniteSet(Readers'), lRead' = Cardinality(Readers'),
           (lWrite' = 1) <=> \E t \in Thread : Owns(t)',
           \A t, u \in Thread : Owns(t)' /\ Owns(u)' => t = u
    PROVE  LInv'
BY LockSize DEF LInv, Lock!LockWords, Readers, Owns

-----------------------------------------------------------------------------
(* rwlock_rlock and rwlock_runlock: a reader gets past its second look at  *)
(* write only while no writer owns the lock.                               *)
LEMMA ReaderStep ==
    ASSUME LInv, NEW t \in Thread,
           \/ Lock!RLockStart(t) \/ Lock!RLockTest(t) \/ Lock!RLockAdd(t) \/ Lock!RLockCheck(t)
           \/ Lock!RLockSub(t) \/ Lock!RUnlock(t) \/ Lock!WLockStart(t)
    PROVE  LInv'
<1>1. Lock!TypeOK /\ Lock!Exclusion /\ Lock!LockWords
  BY DEF LInv
<1>2. /\ lPc' \in [Thread -> {"idle", "rtest", "radd", "rcheck", "rsub", "reading",
                            "wset", "wwait", "writing"}]
      /\ lWrite' = lWrite
      /\ \A u \in Thread : Owns(u)' <=> Owns(u)
  BY <1>1 DEF Lock!TypeOK, Owns, Lock!RLockStart, Lock!RLockTest, Lock!RLockAdd, Lock!RLockCheck,
     Lock!RLockSub, Lock!RUnlock,
     Lock!WLockStart
<1>3. IsFiniteSet(Readers') /\ lRead' \in Nat /\ lRead' = Cardinality(Readers')
  <2>1. CASE Lock!RLockAdd(t)
    <3>1. t \notin Readers /\ Readers' = Readers \cup {t} /\ lRead' = lRead + 1
      BY <1>1, <2>1 DEF Lock!RLockAdd, Readers, Lock!TypeOK
    <3> QED
      BY <3>1, CountMore
  <2>2. CASE Lock!RLockSub(t) \/ Lock!RUnlock(t)
    <3>1. t \in Readers /\ Readers' = Readers \ {t} /\ lRead' = lRead - 1
      BY <1>1, <2>2 DEF Lock!RLockSub, Lock!RUnlock, Readers, Lock!TypeOK
    <3> QED
      BY <3>1, CountLess
  <2>3. CASE Lock!RLockStart(t) \/ Lock!RLockTest(t) \/ Lock!RLockCheck(t) \/ Lock!WLockStart(t)
    <3>1. Readers' = Readers /\ lRead' = lRead
      BY <1>1, <2>3 DEF Lock!RLockStart, Lock!RLockTest, Lock!RLockCheck, Lock!WLockStart,
         Readers, Lock!TypeOK
    <3> QED
      BY <3>1, CountSame
  <2> QED
    BY <2>1, <2>2, <2>3
<1>4. Lock!Exclusion'
  <2>1. CASE Lock!RLockCheck(t) /\ lWrite = 0
    <3>1. \A u \in Thread : lPc[u] # "writing"
      BY <1>1, <2>1 DEF Lock!LockWords
    <3> QED
      BY <1>1, <2>1, <3>1 DEF Lock!RLockCheck, Lock!Exclusion, Lock!TypeOK
  <2>2. CASE ~(Lock!RLockCheck(t) /\ lWrite = 0)
    BY <1>1, <2>2 DEF Lock!Exclusion, Lock!TypeOK, Lock!RLockStart, Lock!RLockTest, Lock!RLockAdd,
       Lock!RLockCheck,
       Lock!RLockSub, Lock!RUnlock, Lock!WLockStart
  <2> QED
    BY <2>1, <2>2
<1>5. /\ (lWrite' = 1) <=> \E u \in Thread : Owns(u)'
      /\ \A u, v \in Thread : Owns(u)' /\ Owns(v)' => u = v
  BY <1>1, <1>2 DEF Lock!LockWords, Owns
<1> QED
  BY <1>1, <1>2, <1>3, <1>4, <1>5, Assemble DEF Lock!TypeOK

(* rwlock_wlock and rwlock_wunlock: the test-and-set gives the word one    *)
(* owner, and when read is zero no thread is counted, so none reads.       *)
LEMMA WriterStep ==
    ASSUME LInv, NEW t \in Thread, Lock!WLockSet(t) \/ Lock!WLockWait(t) \/ Lock!WUnlock(t)
    PROVE  LInv'
<1>1. Lock!TypeOK /\ Lock!Exclusion /\ Lock!LockWords
  BY DEF LInv
<1>2. Lock!TypeOK'
  BY <1>1 DEF Lock!TypeOK, Lock!WLockSet, Lock!WLockWait, Lock!WUnlock
<1>3. IsFiniteSet(Readers') /\ lRead' = Cardinality(Readers')
  <2>1. Readers' = Readers /\ lRead' = lRead
    BY <1>1 DEF Lock!WLockSet, Lock!WLockWait, Lock!WUnlock, Readers, Lock!TypeOK
  <2> QED
    BY <2>1, CountSame
<1>4. /\ (lWrite' = 1) <=> \E u \in Thread : Owns(u)'
      /\ \A u, v \in Thread : Owns(u)' /\ Owns(v)' => u = v
  <2>1. CASE Lock!WLockSet(t)
    <3>1. \A u \in Thread : ~Owns(u)
      BY <1>1, <2>1 DEF Lock!LockWords, Owns, Lock!WLockSet
    <3>2. lWrite' = 1 /\ \A u \in Thread : Owns(u)' <=> u = t
      BY <1>1, <2>1, <3>1 DEF Lock!WLockSet, Owns, Lock!TypeOK
    <3> QED
      BY <3>2
  <2>2. CASE Lock!WLockWait(t)
    <3>1. lWrite' = lWrite /\ \A u \in Thread : Owns(u)' <=> Owns(u)
      BY <1>1, <2>2 DEF Lock!WLockWait, Owns, Lock!TypeOK
    <3> QED
      BY <1>1, <3>1 DEF Lock!LockWords, Owns
  <2>3. CASE Lock!WUnlock(t)
    <3>1. \A u \in Thread : Owns(u) => u = t
      BY <1>1, <2>3 DEF Lock!WUnlock, Lock!LockWords, Owns
    <3>2. lWrite' = 0 /\ \A u \in Thread : ~Owns(u)'
      BY <1>1, <2>3, <3>1 DEF Lock!WUnlock, Owns, Lock!TypeOK
    <3> QED
      BY <3>2
  <2> QED
    BY <2>1, <2>2, <2>3
<1>5. Lock!Exclusion'
  <2>1. CASE Lock!WLockWait(t)
    <3>1. Readers = {}
      <4>1. Cardinality(Readers) = 0
        BY <1>1, <2>1, LockSize DEF Lock!LockWords, Readers, Lock!WLockWait
      <4> QED
        BY <4>1, FS_EmptySet DEF LInv
    <3>2. \A u \in Thread : lPc[u] # "reading"
      BY <3>1 DEF Readers
    <3>3. \A u \in Thread : lPc[u] = "writing" => u = t
      BY <1>1, <2>1 DEF Lock!LockWords, Lock!WLockWait
    <3> QED
      BY <1>1, <2>1, <3>2, <3>3 DEF Lock!Exclusion, Lock!WLockWait, Lock!TypeOK
  <2>2. CASE Lock!WLockSet(t) \/ Lock!WUnlock(t)
    BY <1>1, <2>2 DEF Lock!Exclusion, Lock!WLockSet, Lock!WUnlock, Lock!TypeOK
  <2> QED
    BY <2>1, <2>2
<1> QED
  BY <1>2, <1>3, <1>4, <1>5, Assemble

(* The invariant is inductive.                                             *)
LEMMA InvNext == LInv /\ [Lock!Next]_(Lock!vars) => LInv'
<1> SUFFICES ASSUME LInv, [Lock!Next]_(Lock!vars) PROVE LInv'
  OBVIOUS
<1>1. CASE UNCHANGED Lock!vars
  BY <1>1 DEF LInv, Lock!TypeOK, Lock!LockWords, Lock!Exclusion, Readers, Lock!vars
<1>2. CASE Lock!Next
  BY <1>2, ReaderStep, WriterStep DEF Lock!Next, Lock!Locking
<1> QED
  BY <1>1, <1>2

(* A lock that nobody has asked for.                                       *)
LEMMA InvInit == Lock!Init => LInv
<1> SUFFICES ASSUME Lock!Init PROVE LInv
  OBVIOUS
<1>1. Readers = {}
  BY DEF Lock!Init, Readers
<1>2. Lock!TypeOK /\ Lock!Exclusion
  BY DEF Lock!Init, Lock!TypeOK, Lock!Exclusion
<1>3. IsFiniteSet(Readers) /\ Cardinality(Readers) = 0
  BY <1>1, FS_EmptySet
<1>4. Lock!LockWords
  BY <1>3, LockSize DEF Lock!Init, Lock!LockWords, Readers
<1> QED
  BY <1>2, <1>3, <1>4 DEF LInv

(* rwlock.h: whoever the threads are, a writer is alone in the lock, the   *)
(* word read counts the readers and never underflows, and the word write   *)
(* is set just while it has its one owner.                                 *)
THEOREM LockCorrect == Lock!Spec => []Lock!LockOK
<1>1. LInv => Lock!LockOK
  BY DEF LInv, Lock!LockOK
<1> QED
  BY <1>1, InvInit, InvNext, PTL DEF Lock!Spec
=============================================================================
