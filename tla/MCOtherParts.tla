---------------------------- MODULE MCOtherParts ----------------------------
(***************************************************************************)
(* Small instances of the components of which little but safety is asked.  *)
(* They share no state: one of them is chosen at the start, and only that  *)
(* one takes steps.                                                        *)
(***************************************************************************)
EXTENDS Integers, Sequences

CONSTANTS a, b, t1, t2, i1, i2, i3, None

VARIABLES
    part,
    qQueue, qCap, qHead, qTail, qOverload, qThreshold, qPopped, qPushes,
    nSizes, nRest, nUc, nGot, nOpened,
    hList, hRest, hHandshake, hUc, hGot, hTold, hBefore,
    uHash, uPool, uMade, uIndex, uLoaded, uRows, uLogins, uH, uMarred, uLost,
    pPool, pConn, pStale, pIterator, pMade, pExited, pAnswer, pFails, pH,
    kTick, kOn, kEnabled, kActive, kItem, kMade, kPc, kRunning, kTicks, kFired, kDropped

ringVars == <<qQueue, qCap, qHead, qTail, qOverload, qThreshold, qPopped, qPushes>>
netVars == <<nSizes, nRest, nUc, nGot, nOpened>>
wsVars == <<hList, hRest, hHandshake, hUc, hGot, hTold, hBefore>>
usersVars == <<uHash, uPool, uMade, uIndex, uLoaded, uRows, uLogins, uH, uMarred,
               uLost>>
poolVars == <<pPool, pConn, pStale, pIterator, pMade, pExited, pAnswer, pFails, pH>>
tickerVars == <<kTick, kOn, kEnabled, kActive, kItem, kMade, kPc, kRunning, kTicks, kFired,
                kDropped>>

(* A ring of 2 that doubles twice.                                         *)
Ring == INSTANCE MessageQueue WITH
    Msg <- {a, b}, Nothing <- None, QueueSize <- 2, MqOverload <- 1, MaxPush <- 7,
    queue <- qQueue, cap <- qCap, head <- qHead, tail <- qTail, overload <- qOverload,
    threshold <- qThreshold, popped <- qPopped, pushes <- qPushes

(* Up to three packages of up to two bytes, and a connection that is       *)
(* replaced once.                                                          *)
Net == INSTANCE Netpack WITH
    Fd <- {7}, Lists <- UNION {[1 .. k -> 0 .. 2] : k \in 1 .. 3}, MaxOpen <- 1,
    sizes <- nSizes, rest <- nRest, uc <- nUc, got <- nGot, opened <- nOpened

(* A request of three bytes and one or two frames: empty ones, ones that   *)
(* wrap the mask, and close frames.                                        *)
WsFrame(t, len, ext) == [t |-> t, len |-> len, ext |-> ext]
WsRequest == WsFrame("http", 3, 0)
WsDatas == {WsFrame("data", len, ext) : len \in {0, 1, 6}, ext \in {0, 2}}
WsFrames == WsDatas \cup {WsFrame("close", 0, 0), WsFrame("close", 2, 0)}

Ws == INSTANCE WsNetpack WITH
    Lists <- {<<WsRequest, f>> : f \in WsFrames}
             \cup {<<WsRequest, d, f>> : d \in WsDatas, f \in WsFrames},
    list <- hList, rest <- hRest, handshake <- hHandshake, uc <- hUc, got <- hGot,
    told <- hTold, before <- hBefore

(* A room for one, two users who take it from each other, and structs for  *)
(* logouts that fail.                                                      *)
Users == INSTANCE UserManager WITH
    User <- {1, 2}, Item <- {i1, i2, i3}, Thread <- {t1, t2}, MaxPlayer <- 1,
    MaxLogin <- 3, hash <- uHash, pool <- uPool, made <- uMade,
    index <- uIndex, loaded <- uLoaded, rows <- uRows, logins <- uLogins, h <- uH,
    marred <- uMarred, lost <- uLost

Pool == INSTANCE ConnectionPool WITH
    Thread <- {t1, t2}, PoolSize <- 2, MaxConn <- 4, MaxFail <- 1,
    pool <- pPool, conn <- pConn, stale <- pStale, iterator <- pIterator, made <- pMade,
    exited <- pExited, answer <- pAnswer, fails <- pFails, h <- pH

Timers == INSTANCE Ticker WITH
    MaxTimer <- 2, MaxDelay <- 2, MaxTick <- 3, MaxStart <- 2, Repeats <- {TRUE, FALSE},
    tick <- kTick, on <- kOn, enabled <- kEnabled, active <- kActive, item <- kItem,
    made <- kMade, pc <- kPc, running <- kRunning, ticks <- kTicks, fired <- kFired,
    dropped <- kDropped

-----------------------------------------------------------------------------
vars == <<part, ringVars, netVars, wsVars, usersVars, poolVars, tickerVars>>

RingOnly ==
    /\ part = "ring"
    /\ UNCHANGED <<part, netVars, wsVars, usersVars, poolVars, tickerVars>>
NetOnly ==
    /\ part = "net"
    /\ UNCHANGED <<part, ringVars, wsVars, usersVars, poolVars, tickerVars>>
WsOnly ==
    /\ part = "ws"
    /\ UNCHANGED <<part, ringVars, netVars, usersVars, poolVars, tickerVars>>
UsersOnly ==
    /\ part = "users"
    /\ UNCHANGED <<part, ringVars, netVars, wsVars, poolVars, tickerVars>>
PoolOnly ==
    /\ part = "pool"
    /\ UNCHANGED <<part, ringVars, netVars, wsVars, usersVars, tickerVars>>
TimersOnly ==
    /\ part = "timers"
    /\ UNCHANGED <<part, ringVars, netVars, wsVars, usersVars, poolVars>>

(* The inputs of a part vary only when that part is chosen.                *)
Init ==
    /\ part \in {"ring", "net", "ws", "users", "pool", "timers"}
    /\ Ring!Init /\ Users!Init /\ Pool!Init /\ Timers!Init
    /\ Net!Init /\ (part = "net" \/ nSizes = [fd \in {7} |-> <<0>>])
    /\ Ws!Init /\ (part = "ws" \/ hList = <<WsRequest, WsFrame("close", 0, 0)>>)

Next ==
    \/ RingOnly /\ Ring!Next
    \/ NetOnly /\ Net!Next
    \/ WsOnly /\ Ws!Next
    \/ UsersOnly /\ Users!Next
    \/ PoolOnly /\ Pool!Next
    \/ TimersOnly /\ Timers!Next

(* The fairness of the ticker; the other parts need none.                  *)
FairSpec ==
    /\ Init /\ [][Next]_vars
    /\ \A f \in 1 .. 2 : WF_vars(TimersOnly /\ Timers!Step(f))

-----------------------------------------------------------------------------
(* skynet_mq.c: the ring is a queue, also while it doubles, and a long     *)
(* queue is reported once each time it has doubled.                        *)
RingOK == []Ring!TypeOK /\ Ring!ImplementsFifo /\ Ring!WarnedOnce

(* lua-netpack.c, lua-websocketnetpack.c: packages and frames come out     *)
(* whole, unmasked and in order however the bytes are cut, and what is     *)
(* kept is what has come of the next one, also when a connection is        *)
(* replaced; a close frame is reported, and nothing else is, unless it     *)
(* follows other bytes in its chunk, which ends the process.               *)
FramersOK == Net!Framed /\ Net!KeepsRest /\ Ws!WsFramed /\ Ws!CloseTold

(* GS_model_userManager.lua, with users who come in again while their      *)
(* logout is suspended and with calls that fail: no struct serves two      *)
(* users, or a user and the pool; a user in the room has the data of the   *)
(* other services and an open row, unless the stay crossed an earlier one  *)
(* or its load or record failed; no two users share a row; and a row gets  *)
(* its end unless its number was overwritten or never came.                *)
UsersOK == Users!UsersOK

(* mysqlConnectionPool.lua: a connection is answered alive, none is in the *)
(* pool twice, and the pool keeps its size.                                *)
PoolOK == Pool!PoolOK

(* timer.lua: one ticker counts the ticks; no function is called before    *)
(* its time, and the ticker does not sleep while a timer is due; a cleared *)
(* timer, or one from before a stop, stays silent, also when it was due    *)
(* and another timer's function cleared it; one that is active while the   *)
(* ticker is on fires, unless a timer of interval 0 keeps the ticker busy. *)
TimersOK ==
    /\ [](Timers!OneTicker /\ Timers!NotEarly /\ Timers!NoneLeft)
    /\ Timers!ClearedSilent
    /\ Timers!TimerFires
=============================================================================
