---------------------------- MODULE MCFairParts -----------------------------
(***************************************************************************)
(* Small instances of the components that owe something to others, and of  *)
(* the session manager for what it owes.  They share no state: one of them *)
(* is chosen at the start, and only that one takes steps.                  *)
(***************************************************************************)
EXTENDS Integers, Sequences

CONSTANTS t1, t2, t3, s1, s2, i1, p1, u1, a1, a2, x1, None

VARIABLES
    part,
    lWrite, lRead, lPc,
    wT, wTime, wDiff, wPhase, wFiring, wNodes,
    mGroup, mCount, mRefs, mFreed, mTargets, mMade, mDbox, mBox, mSubscribed, mWaiting,
    mCalls, mUnknown, mGone,
    cSession, cSent, cThread, cData, cResult, cOut, cBack, cLarge, cServing, cRuns, cBreaks,
    sSession, sPlatform, sUser, sItem, sSui, sAgent, sCo, sDisconnects, sDowns, sGame,
    sNotices

lockVars == <<lWrite, lRead, lPc>>
wheelVars == <<wT, wTime, wDiff, wPhase, wFiring, wNodes>>
castVars == <<mGroup, mCount, mRefs, mFreed, mTargets, mMade, mDbox, mBox, mSubscribed,
              mWaiting, mCalls, mUnknown, mGone>>
callsVars == <<cSession, cSent, cThread, cData, cResult, cOut, cBack, cLarge, cServing,
               cRuns, cBreaks>>
sessionVars == <<sSession, sPlatform, sUser, sItem, sSui, sAgent, sCo, sDisconnects,
                 sDowns, sGame, sNotices>>

Lock == INSTANCE RWLock WITH
    Thread <- {t1, t2, t3}, write <- lWrite, read <- lRead, pc <- lPc

(* A word of 32 ticks, which wraps.                                        *)
Wheel == INSTANCE TimerWheel WITH
    NearShift <- 1, LevelShift <- 1, MaxNode <- 2, MaxDiff <- 2,
    T <- wT, time <- wTime, diff <- wDiff, phase <- wPhase, firing <- wFiring,
    nodes <- wNodes

Cast == INSTANCE Multicast WITH
    Sub <- {s1, s2}, MaxPack <- 2, MaxCall <- 2,
    group <- mGroup, count <- mCount, refs <- mRefs, freed <- mFreed, targets <- mTargets,
    made <- mMade, dbox <- mDbox, box <- mBox, subscribed <- mSubscribed,
    waiting <- mWaiting, calls <- mCalls, unknown <- mUnknown, gone <- mGone

(* Sessions that wrap, and messages of up to three parts of two bytes.     *)
Calls == INSTANCE Cluster WITH
    MaxReq <- 2, Part <- 2, MaxSession <- 4, ReqSize <- 1 .. 5, RespSize <- {1, 2, 3},
    MaxBreak <- 1, session <- cSession, sent <- cSent, thread <- cThread, data <- cData,
    result <- cResult, out <- cOut, back <- cBack, large <- cLarge, serving <- cServing,
    runs <- cRuns, breaks <- cBreaks

(* Two connections take one account from each other; no game server.       *)
Sessions == INSTANCE SessionManager WITH
    PlatformID <- {p1}, UserID <- {u1}, Session <- {s1, s2}, Agent <- {a1, a2},
    Server <- {}, Item <- {i1}, Sui <- {x1}, Worker <- {t1}, Nil <- None,
    Owner <- [s \in {s1, s2} |-> p1], DbUserID <- [p \in {p1} |-> u1],
    LoadMayFail <- FALSE, hashSession <- sSession, hashPlatformID <- sPlatform,
    hashUserID <- sUser, item <- sItem, sui <- sSui, agent <- sAgent, co <- sCo,
    disconnects <- sDisconnects, serverDowns <- sDowns, inGame <- sGame, notices <- sNotices

-----------------------------------------------------------------------------
vars == <<part, lockVars, wheelVars, castVars, callsVars, sessionVars>>

LockOnly ==
    /\ part = "lock"
    /\ UNCHANGED <<part, wheelVars, castVars, callsVars, sessionVars>>
WheelOnly ==
    /\ part = "wheel"
    /\ UNCHANGED <<part, lockVars, castVars, callsVars, sessionVars>>
CastOnly ==
    /\ part = "cast"
    /\ UNCHANGED <<part, lockVars, wheelVars, callsVars, sessionVars>>
CallsOnly ==
    /\ part = "calls"
    /\ UNCHANGED <<part, lockVars, wheelVars, castVars, sessionVars>>
SessionsOnly ==
    /\ part = "sessions"
    /\ UNCHANGED <<part, lockVars, wheelVars, castVars, callsVars>>

Init ==
    /\ part \in {"lock", "wheel", "cast", "calls", "sessions"}
    /\ Lock!Init /\ Wheel!Init /\ Cast!Init /\ Calls!Init /\ Sessions!Init

Next ==
    \/ LockOnly /\ Lock!Next
    \/ WheelOnly /\ Wheel!Next
    \/ CastOnly /\ Cast!Next
    \/ CallsOnly /\ Calls!Next
    \/ SessionsOnly /\ Sessions!Next

(* The fairness of each part, for the part that is chosen.                 *)
FairSpec ==
    /\ Init /\ [][Next]_vars
    /\ \A t \in {t1, t2, t3} : WF_vars(LockOnly /\ Lock!Locking(t))
    /\ WF_vars(WheelOnly /\ Wheel!TimerThread)
    /\ WF_vars(CastOnly /\ Cast!Server)
    /\ \A s \in {s1, s2} : WF_vars(CastOnly /\ Cast!Service(s))
    /\ WF_vars(CallsOnly /\ Calls!Deliver)
    /\ \A c \in {a1, a2} :
          /\ WF_vars(SessionsOnly /\ Sessions!LoginStep(c))
          /\ SF_vars(SessionsOnly /\ sAgent[c].exit /\ Sessions!AgentExit(c))
          /\ WF_vars(SessionsOnly /\ Sessions!OnEventClientDisconnect(u1, c))
    /\ WF_vars(SessionsOnly /\ Sessions!HandlerStep(t1))

-----------------------------------------------------------------------------
(* rwlock.h: a writer is alone in the lock, and the two words of the lock  *)
(* say who is where, although a reader counts itself before it looks.      *)
LockOK == Lock!LockOK

(* skynet_timer.c: a timer fires at its tick, never early and never late,  *)
(* also where the word wraps; until then it is in a slot that will be      *)
(* looked at for it; timers of one tick fire in the order they were set.   *)
WheelOK == Wheel!TypeOK /\ Wheel!OnTime /\ Wheel!InItsSlot /\ Wheel!SameTickInOrder

(* lua-multicast.c, multicastd.lua: a package to which there is a pointer  *)
(* is not freed, its references are the pointers to it, and channel_n is   *)
(* the number of subscribers.                                              *)
CastOK == Cast!CastOK

(* cluster.call: a caller gets the answer to its own request, whole, or an *)
(* error, and an error only if the connection broke; a message reaches the *)
(* service at most once, and no part of a request is kept for ever.        *)
CallsOK == Calls!OwnAnswer /\ Calls!RunOnce /\ Calls!NoFalseError /\ Calls!LargeDone

(* rwlock_wlock, timer_update, mc_closelocal, cluster.call: a writer that  *)
(* has claimed the lock gets it, every timer fires, every package is freed *)
(* and every caller gets an answer or an error.                            *)
PartsServed == Lock!WriterServed /\ Wheel!AllFire /\ Cast!AllFreed /\ Calls!AllAnswered

(* tcpConnection.lua, LS_model_sessionManager.lua: a connection told to    *)
(* exit closes, although requests and logins race with the command, and    *)
(* one that closed in the lobby is taken out of the user struct.           *)
SessionsServed == Sessions!KickedAgentCloses /\ Sessions!DeadAgentForgotten
=============================================================================
