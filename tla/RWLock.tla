------------------------------- MODULE RWLock -------------------------------
(***************************************************************************)
(* rwlock.h: the spinning readers-writer lock of the handle storage and of *)
(* shared state (stm), in the version built on atomic operations.  Each    *)
(* action is one read or one atomic operation on one of the two words.     *)
(***************************************************************************)
EXTENDS FiniteSets, Integers

CONSTANT Thread

VARIABLES
    write, \* lock->write
    read,  \* lock->read
    pc     \* where each thread is

vars == <<write, read, pc>>

At(t, here) == pc[t] = here
Go(t, there) == pc' = [pc EXCEPT ![t] = there]

(* Passes a test of the lock and goes on, or repeats it: a failed test     *)
(* leaves everything as it is.                                             *)
RLockStart(t) == At(t, "idle") /\ Go(t, "rtest") /\ UNCHANGED <<write, read>>
RLockTest(t) == At(t, "rtest") /\ write = 0 /\ Go(t, "radd") /\ UNCHANGED <<write, read>>
RLockAdd(t) == At(t, "radd") /\ read' = read + 1 /\ Go(t, "rcheck") /\ write' = write

RLockCheckMutant(t) ==
    At(t, "rcheck") /\ Go(t, "reading") /\ UNCHANGED <<write, read>>

(* A writer may have come between the test and the addition.               *)
RLockCheck(t) ==
    At(t, "rcheck") /\ Go(t, IF write = 0 THEN "reading" ELSE "rsub") /\ UNCHANGED <<write, read>>

RLockSubMutant(t) == At(t, "rsub") /\ read' = read /\ Go(t, "rtest") /\ write' = write

RLockSub(t) == At(t, "rsub") /\ read' = read - 1 /\ Go(t, "rtest") /\ write' = write
RUnlock(t) == At(t, "reading") /\ read' = read - 1 /\ Go(t, "idle") /\ write' = write

WLockStart(t) == At(t, "idle") /\ Go(t, "wset") /\ UNCHANGED <<write, read>>
(* The test-and-set that finds the word clear.                             *)
WLockSet(t) == At(t, "wset") /\ write = 0 /\ write' = 1 /\ Go(t, "wwait") /\ read' = read
WLockWait(t) == At(t, "wwait") /\ read = 0 /\ Go(t, "writing") /\ UNCHANGED <<write, read>>
WUnlock(t) == At(t, "writing") /\ write' = 0 /\ Go(t, "idle") /\ read' = read

Init == write = 0 /\ read = 0 /\ pc = [t \in Thread |-> "idle"]

Locking(t) == RLockTest(t) \/ RLockAdd(t) \/ RLockCheck(t) \/ RLockSub(t) \/ RUnlock(t)
              \/ WLockSet(t) \/ WLockWait(t) \/ WUnlock(t)

Next == \E t \in Thread : RLockStart(t) \/ WLockStart(t) \/ Locking(t)

Spec == Init /\ [][Next]_vars

(* A thread inside the lock's functions or its section runs on.            *)
FairSpec == Spec /\ \A t \in Thread : WF_vars(Locking(t))

-----------------------------------------------------------------------------
(* Every variable has its type, and the word read never underflows.        *)
TypeOK ==
    /\ write \in {0, 1} /\ read \in Nat
    /\ pc \in [Thread -> {"idle", "rtest", "radd", "rcheck", "rsub", "reading",
                          "wset", "wwait", "writing"}]

(* A writer is alone: no reader that has passed its second look at write,  *)
(* and no other writer.                                                    *)
Exclusion ==
    \A t, u \in Thread : At(t, "writing") /\ t # u => pc[u] \notin {"reading", "writing"}

(* The two words say who is where: read counts the readers that have added *)
(* themselves, also those about to back off, and write has one owner.      *)
LockWords ==
    /\ read = Cardinality({t \in Thread : pc[t] \in {"rcheck", "rsub", "reading"}})
    /\ (write = 1) <=> \E t \in Thread : pc[t] \in {"wwait", "writing"}
    /\ \A t, u \in Thread : pc[t] \in {"wwait", "writing"} /\ pc[u] \in {"wwait", "writing"} => t = u

(* rwlock.h: a writer is alone in the lock, and the two words of the lock  *)
(* say who is where, although a reader counts itself before it looks.      *)
LockOK == TypeOK /\ Exclusion /\ LockWords

(* A writer that has claimed the lock gets it: readers that come later     *)
(* back off, even though each of them disturbs the count once.             *)
WriterServed == \A t \in Thread : At(t, "wwait") ~> At(t, "writing")
=============================================================================
