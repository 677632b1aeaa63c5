---------------------------- MODULE ConnectionPool ----------------------------
(***************************************************************************)
(* mysqlConnectionPool.lua: the services that hold a connection to the     *)
(* database.  getConnection goes round the pool, and replaces a connection *)
(* that has not been used for too long; a connection that fails reports    *)
(* itself.  Creating a service yields, and may fail when the database does *)
(* not answer.                                                             *)
(***************************************************************************)
EXTENDS FiniteSets, Integers, Sequences, SequencesExt

CONSTANTS
    Thread,
    PoolSize, \* _poolSize
    MaxConn,  \* bound: connections made in a run
    MaxFail   \* bound: failures to create one

VARIABLES
    pool,     \* _pool: its items, known by their first connection
    conn,     \* per item: conn
    stale,    \* items whose tick is too old
    iterator, \* _iterator
    made,     \* connections made
    exited,   \* connections told to exit
    answer,   \* the connection that the last step has answered, or 0
    fails,    \* failures so far
    h         \* per thread: its handler

vars == <<pool, conn, stale, iterator, made, exited, answer, fails, h>>
Conn == 1 .. MaxConn
Idle == [pc |-> "idle", size |-> 0, item |-> 0]

-----------------------------------------------------------------------------
TakeMutant(t, p, size) ==
    LET next == IF iterator + 1 > size THEN 1 ELSE iterator + 1
        item == p[next] IN
    /\ iterator' = next /\ stale' = stale \ {item}
    /\ IF item \in stale
       THEN /\ exited' = exited \cup {conn[item]} /\ answer' = 0
            /\ h' = [h EXCEPT ![t] = [pc |-> "renew", size |-> 0, item |-> item]]
       ELSE /\ answer' = conn[item]
            /\ exited' = exited /\ h' = [h EXCEPT ![t] = Idle]

(* The next item of the pool as it is now, by its size before the call;    *)
(* when there is none the handler fails.                                   *)
Take(t, p, size) ==
    LET next == IF iterator + 1 > size THEN 1 ELSE iterator + 1
        item == p[next] IN
    /\ iterator' = next /\ stale' = stale
    /\ IF next > Len(p)
       THEN h' = [h EXCEPT ![t] = Idle] /\ exited' = exited /\ answer' = 0
       ELSE IF item \in stale
       THEN /\ exited' = exited \cup {conn[item]} /\ answer' = 0
            /\ h' = [h EXCEPT ![t] = [pc |-> "renew", size |-> 0, item |-> item]]
       ELSE /\ answer' = conn[item]
            /\ exited' = exited /\ h' = [h EXCEPT ![t] = Idle]

(* cmd_getConnection.                                                      *)
GetConnection(t) ==
    /\ h[t].pc = "idle"
    /\ IF Len(pool) < PoolSize
       THEN /\ h' = [h EXCEPT ![t] = [pc |-> "grow", size |-> Len(pool) + 1, item |-> 0]]
            /\ answer' = 0 /\ UNCHANGED <<stale, iterator, exited>>
       ELSE Take(t, pool, Len(pool))
    /\ UNCHANGED <<pool, conn, made, fails>>

(* skynet.newservice answers; createConnection has a new item for it.      *)
Create ==
    /\ made < MaxConn /\ made' = made + 1
    /\ pool' = Append(pool, made') /\ conn' = [conn EXCEPT ![made'] = made']

Grown(t) ==
    /\ h[t].pc = "grow" /\ Create
    /\ Take(t, pool', h[t].size)
    /\ UNCHANGED fails

RenewedMutant(t) ==
    LET item == h[t].item IN
    /\ h[t].pc = "renew" /\ made < MaxConn
    /\ made' = made + 1 /\ conn' = [conn EXCEPT ![item] = made']
    /\ stale' = stale \ {item} /\ answer' = made' /\ pool' = Append(pool, item)
    /\ h' = [h EXCEPT ![t] = Idle]
    /\ UNCHANGED <<iterator, exited, fails>>

(* A connection that was idle for too long has been replaced.              *)
Renewed(t) ==
    LET item == h[t].item IN
    /\ h[t].pc = "renew" /\ made < MaxConn
    /\ made' = made + 1 /\ conn' = [conn EXCEPT ![item] = made']
    /\ stale' = stale \ {item} /\ answer' = made'
    /\ h' = [h EXCEPT ![t] = Idle]
    /\ UNCHANGED <<pool, iterator, exited, fails>>

ConnectionErrorMutant(t, c) ==
    LET at == {i \in DOMAIN pool : conn[pool[i]] = c} IN
    /\ h[t].pc = "idle" /\ c \in (1 .. made) \ exited
    /\ pool' = IF at = {} THEN pool ELSE RemoveAt(pool, CHOOSE i \in at : TRUE)
    /\ exited' = exited \cup {c} /\ answer' = 0
    /\ UNCHANGED <<conn, stale, iterator, made, fails, h>>

(* cmd_connectionError.                                                    *)
ConnectionError(t, c) ==
    LET at == {i \in DOMAIN pool : conn[pool[i]] = c} IN
    /\ h[t].pc = "idle" /\ c \in (1 .. made) \ exited
    /\ pool' = IF at = {} THEN pool ELSE RemoveAt(pool, CHOOSE i \in at : TRUE)
    /\ exited' = exited \cup {c} /\ answer' = 0
    /\ h' = [h EXCEPT ![t] = [Idle EXCEPT !.pc = "replace"]]
    /\ UNCHANGED <<conn, stale, iterator, made, fails>>

Replaced(t) ==
    /\ h[t].pc = "replace" /\ Create
    /\ h' = [h EXCEPT ![t] = Idle] /\ answer' = 0
    /\ UNCHANGED <<stale, iterator, exited, fails>>

(* The service cannot connect: the handler ends with an error.             *)
Fails(t) ==
    /\ h[t].pc # "idle" /\ fails < MaxFail
    /\ fails' = fails + 1 /\ h' = [h EXCEPT ![t] = Idle] /\ answer' = 0
    /\ UNCHANGED <<pool, conn, stale, iterator, made, exited>>

(* Time passes without a use of an item.                                   *)
Ages(i) ==
    /\ i \in DOMAIN pool /\ pool[i] \notin stale
    /\ stale' = stale \cup {pool[i]} /\ answer' = 0
    /\ UNCHANGED <<pool, conn, iterator, made, exited, fails, h>>

Init ==
    /\ pool = [i \in 1 .. PoolSize |-> i] /\ conn = [c \in Conn |-> c] /\ made = PoolSize
    /\ stale = {} /\ iterator = 0 /\ exited = {} /\ answer = 0 /\ fails = 0
    /\ h = [t \in Thread |-> Idle]

Next ==
    \/ \E t \in Thread :
        \/ GetConnection(t) \/ Grown(t) \/ Renewed(t) \/ Replaced(t) \/ Fails(t)
        \/ \E c \in Conn : ConnectionError(t, c)
    \/ \E i \in DOMAIN pool : Ages(i)

Spec == Init /\ [][Next]_vars

-----------------------------------------------------------------------------
(* A connection is answered alive: none that the pool has told to exit,    *)
(* not even by a getConnection that runs while another one replaces it.    *)
AnsweredLive == answer \notin exited

(* No connection is in the pool twice, so two callers in turn do not wait  *)
(* for one connection while another one is idle.                           *)
ConnOnce == \A i, j \in DOMAIN pool : i # j => conn[pool[i]] # conn[pool[j]]

(* Once no handler is at work the pool has its size, but for connections   *)
(* that could not be made, in whatever order errors and growth came.       *)
PoolKept == (\A t \in Thread : h[t].pc = "idle") => Len(pool) >= PoolSize - fails

(* mysqlConnectionPool.lua: a connection is answered alive, none is in the *)
(* pool twice, and the pool keeps its size.                                *)
PoolOK == AnsweredLive /\ ConnOnce /\ PoolKept
=============================================================================
