---------------------------- MODULE HandleStorage ----------------------------
(***************************************************************************)
(* skynet_handle.c: the table from handles to services and from names to   *)
(* handles.  A handle's low bits are its place in a table whose size is a  *)
(* power of two; the table doubles when it is full.  Every operation holds *)
(* the table's lock, so it is one action, but launching a service is two:  *)
(* skynet_context_new puts the new context into the table and writes the   *)
(* handle into the context only after the lock is given back, and          *)
(* skynet_handle_retireall takes the lock anew for every slot.             *)
(*                                                                         *)
(* The harbor's eight bits, equal in all handles of a process, are left    *)
(* out, and names are numbers, ordered as strcmp orders them.              *)
(***************************************************************************)
EXTENDS FiniteSets, Integers, Sequences, SequencesExt

CONSTANTS
    Ctx,       \* contexts (reused once they are gone)
    HandleMask, \* HANDLE_MASK
    SlotSize,  \* DEFAULT_SLOT_SIZE
    Name,      \* names
    MaxLaunch, \* bound: launches going on at once
    MaxRegister, \* bound: services launched in a run
    None

(* The code's are 0xffffff and 4.                                          *)
ASSUME SizeAssumption == /\ HandleMask \in Nat /\ SlotSize \in 1 .. HandleMask + 1
                         /\ HandleMask % 2 = 1 /\ SlotSize % 2 = 0
                         /\ MaxLaunch \in Nat /\ MaxRegister \in Nat
ASSUME NameAssumption == Name \subseteq Nat
ASSUME NoneAssumption == None \notin Ctx \cup {"null", "collide", "limit"}

VARIABLES
    slot,     \* H->slot: from 0 .. slot_size - 1
    index,    \* H->handle_index
    names,    \* H->name: [n, h] records
    handle,   \* per context: its handle field
    stage,    \* per context: "free", "new" (in the table, no handle), "live", "dying"
    given,    \* per context: what skynet_handle_register returned
    sweep,    \* skynet_handle_retireall: slot looked at, contexts retired, those met
    count,    \* services launched so far
    crash     \* what went wrong in growing the table, or None

vars == <<slot, index, names, handle, stage, given, sweep, count, crash>>

Size(tab) == Len(tab)
At(tab, h) == tab[1 + (h % Size(tab))]
Idle == [i |-> 0, n |-> 0, met |-> {}]

-----------------------------------------------------------------------------
TriedUnwrapped(i) == index + i

TriedMutant(i) == (index + i) % (HandleMask + 1)

(* skynet_handle_register.  The i-th handle tried: 0 is reserved.          *)
Tried(i) == 1 + ((index + i - 1) % HandleMask)

(* The handles tried whose place is free.                                  *)
Vacant(tab) == {i \in 0 .. Size(tab) - 1 : At(tab, Tried(i)) = None}

GrownMutant(tab) ==
    [p \in 1 .. 2 * Size(tab) |-> IF p <= Size(tab) THEN tab[p] ELSE None]

(* The table of twice the size: each context goes where its handle says.   *)
Grown(tab) ==
    [p \in 1 .. 2 * Size(tab) |->
        LET here == {q \in 1 .. Size(tab) : handle[tab[q]] % (2 * Size(tab)) = p - 1} IN
        IF here = {} THEN None ELSE tab[CHOOSE q \in here : TRUE]]

(* "assert(new_slot[hash] == NULL)".                                       *)
Collides(tab) ==
    \E p, q \in 1 .. Size(tab) :
        p # q /\ handle[tab[p]] % (2 * Size(tab)) = handle[tab[q]] % (2 * Size(tab))

Put(c, tab) ==
    LET i == CHOOSE i \in Vacant(tab) : \A j \in Vacant(tab) : i <= j
        h == Tried(i) IN
    /\ slot' = [tab EXCEPT ![1 + (h % Size(tab))] = c]
    /\ index' = h + 1
    /\ given' = [given EXCEPT ![c] = h]
    /\ stage' = [stage EXCEPT ![c] = "new"]
    /\ handle' = [handle EXCEPT ![c] = 0]
    /\ count' = count + 1

Launching == {c \in Ctx : stage[c] = "new"}
CanLaunch(c) ==
    /\ stage[c] = "free" /\ count < MaxRegister
    /\ Cardinality(Launching) < MaxLaunch

Register(c) ==
    /\ CanLaunch(c) /\ Vacant(slot) # {}
    /\ Put(c, slot)
    /\ UNCHANGED <<names, sweep, crash>>

(* No place was found: the table grows.  A place may be free all the same  *)
(* (the walk skips one when it comes to the last handle), and then a       *)
(* context that is not there is asked for its handle.                      *)
RegisterGrow(c) ==
    /\ CanLaunch(c) /\ Vacant(slot) = {}
    /\ 2 * Size(slot) - 1 <= HandleMask
    /\ \A p \in 1 .. Size(slot) : slot[p] # None
    /\ ~Collides(slot)
    /\ Put(c, Grown(slot))
    /\ UNCHANGED <<names, sweep, crash>>

RegisterCrash(c) ==
    /\ CanLaunch(c) /\ Vacant(slot) = {}
    /\ crash' = IF 2 * Size(slot) - 1 > HandleMask THEN "limit"
                ELSE IF \E p \in 1 .. Size(slot) : slot[p] = None THEN "null" ELSE "collide"
    /\ crash' = "collide" => Collides(slot)
    /\ UNCHANGED <<slot, index, names, handle, stage, given, sweep, count>>

(* ctx->handle = skynet_handle_register(ctx).                              *)
Assign(c) ==
    /\ stage[c] = "new"
    /\ handle' = [handle EXCEPT ![c] = given[c]]
    /\ stage' = [stage EXCEPT ![c] = "live"]
    /\ UNCHANGED <<slot, index, names, given, sweep, count, crash>>

-----------------------------------------------------------------------------
(* skynet_handle_retire: the context leaves the table with its names; it   *)
(* goes when nobody uses it any more.                                      *)
Holder(h) == IF At(slot, h) # None /\ handle[At(slot, h)] = h THEN At(slot, h) ELSE None

RetiredMutant(h) == /\ slot' = [slot EXCEPT ![1 + (h % Size(slot))] = None]
                    /\ stage' = [stage EXCEPT ![Holder(h)] = "dying"]
                    /\ UNCHANGED names

Retired(h) ==
    /\ slot' = [slot EXCEPT ![1 + (h % Size(slot))] = None]
    /\ stage' = [stage EXCEPT ![Holder(h)] = "dying"]
    /\ names' = SelectSeq(names, LAMBDA e : e.h # h)

Retire(h) ==
    /\ Holder(h) # None
    /\ Retired(h)
    /\ UNCHANGED <<index, handle, given, sweep, count, crash>>

Release(c) ==
    /\ stage[c] = "dying"
    /\ stage' = [stage EXCEPT ![c] = "free"]
    /\ sweep' = [sweep EXCEPT !.met = @ \ {c}]
    /\ UNCHANGED <<slot, index, names, handle, given, count, crash>>

(* skynet_handle_retireall, one slot a step: it starts over until a whole  *)
(* pass retires nothing.  met: the contexts with a handle when the pass    *)
(* began.                                                                  *)
Live == {c \in Ctx : stage[c] = "live"}

SweepStart ==
    /\ sweep.i = 0
    /\ sweep' = [i |-> 1, n |-> 0, met |-> Live]
    /\ UNCHANGED <<slot, index, names, handle, stage, given, count, crash>>

SweepSlotMutant ==
    LET c == slot[sweep.i]
        h == IF c = None THEN 0 ELSE handle[c] IN
    /\ sweep.i \in 1 .. Size(slot)
    /\ IF h # 0 /\ Holder(h) # None
       THEN Retired(h) /\ sweep' = [sweep EXCEPT !.i = @ + 1, !.n = 1]
       ELSE UNCHANGED <<slot, stage, names>> /\ sweep' = [sweep EXCEPT !.i = Size(slot) + 1]
    /\ UNCHANGED <<index, handle, given, count, crash>>

SweepSlot ==
    LET c == slot[sweep.i]
        h == IF c = None THEN 0 ELSE handle[c] IN
    /\ sweep.i \in 1 .. Size(slot)
    /\ IF h # 0 /\ Holder(h) # None
       THEN Retired(h) /\ sweep' = [sweep EXCEPT !.i = @ + 1, !.n = 1]
       ELSE UNCHANGED <<slot, stage, names>> /\ sweep' = [sweep EXCEPT !.i = @ + 1]
    /\ UNCHANGED <<index, handle, given, count, crash>>

SweepDone == sweep.i > Size(slot) /\ sweep.n = 0

SweepAgain ==
    /\ sweep.i > Size(slot) /\ sweep.n # 0
    /\ sweep' = [i |-> 1, n |-> 0, met |-> Live]
    /\ UNCHANGED <<slot, index, names, handle, stage, given, count, crash>>

SweepReturn ==
    /\ SweepDone
    /\ sweep' = Idle
    /\ UNCHANGED <<slot, index, names, handle, stage, given, count, crash>>

-----------------------------------------------------------------------------
(* The binary search of skynet_handle_findname and _insert_name: where the *)
(* name is, or where it would be.                                          *)
Search(n) ==
    LET f[b \in 0 .. Len(names), e \in -1 .. Len(names) - 1] ==
            IF b > e THEN [found |-> FALSE, at |-> b]
            ELSE LET mid == (b + e) \div 2
                     m == names[mid + 1].n IN
                 IF m = n THEN [found |-> TRUE, at |-> mid]
                 ELSE IF m < n THEN f[mid + 1, e] ELSE f[b, mid - 1] IN
    f[0, Len(names) - 1]

FindName(n) == IF Search(n).found THEN names[Search(n).at + 1].h ELSE 0

InsertNameMutant(n, h) == Append(names, [n |-> n, h |-> h])

InsertName(n, h) == InsertAt(names, Search(n).at + 1, [n |-> n, h |-> h])

(* skynet_handle_namehandle, by a service that runs; it may have been      *)
(* retired by another one meanwhile.                                       *)
NameHandle(c, n) ==
    /\ stage[c] \in {"live", "dying"}
    /\ names' = IF Search(n).found THEN names ELSE InsertName(n, handle[c])
    /\ UNCHANGED <<slot, index, handle, stage, given, sweep, count, crash>>

-----------------------------------------------------------------------------
Init ==
    /\ slot = [p \in 1 .. SlotSize |-> None]
    /\ index = 1 /\ names = <<>> /\ sweep = Idle /\ count = 0 /\ crash = None
    /\ handle = [c \in Ctx |-> 0] /\ given = [c \in Ctx |-> 0]
    /\ stage = [c \in Ctx |-> "free"]

Crashed == crash # None /\ UNCHANGED vars

Next ==
    \/ /\ crash = None
       /\ \/ \E c \in Ctx : Register(c) \/ RegisterGrow(c) \/ RegisterCrash(c)
                            \/ Assign(c) \/ Release(c)
          \/ \E h \in 1 .. HandleMask : Retire(h)
          \/ \E c \in Ctx, n \in Name : NameHandle(c, n)
          \/ SweepStart \/ SweepSlot \/ SweepAgain \/ SweepReturn
    \/ Crashed

Spec == Init /\ [][Next]_vars

-----------------------------------------------------------------------------
(* Every variable has its type, the names apart: NamesFound is about them. *)
TypeOK ==
    /\ slot \in Seq(Ctx \cup {None}) /\ Size(slot) <= HandleMask + 1
    /\ index \in 1 .. HandleMask + 1
    /\ handle \in [Ctx -> 0 .. HandleMask] /\ given \in [Ctx -> 0 .. HandleMask]
    /\ stage \in [Ctx -> {"free", "new", "live", "dying"}]
    /\ crash \in {None, "null", "collide", "limit"}

(* A message sent to a service's handle finds it, however the table has    *)
(* grown and the handles have come round since it was launched: its place  *)
(* in the table is where its handle says.                                  *)
Findable == \A c \in Ctx : stage[c] = "live" => Holder(handle[c]) = c

(* No two services have the same handle, and none has the reserved one.    *)
OwnHandle ==
    \A c \in Live : handle[c] # 0 /\ \A d \in Live \ {c} : handle[d] # handle[c]

(* The binary search finds every name given and no other, and a name is    *)
(* given once: insertion and removal keep the names in order.              *)
NamesFound ==
    /\ names \in Seq([n : Name, h : 1 .. HandleMask])
    /\ \A n \in Name :
          LET holders == {e \in Range(names) : e.n = n} IN
          IF holders = {} THEN FindName(n) = 0 ELSE holders = {[n |-> n, h |-> FindName(n)]}

(* A service that is retired while it does not name itself takes its names *)
(* with it: nobody finds the handle of a service that is gone.             *)
NamesLeave == [][\A h \in 1 .. HandleMask :
                    Holder(h) # None /\ Holder(h)' = None =>
                        \A i \in 1 .. Len(names') : names'[i].h # h]_vars

(* When skynet_handle_retireall returns, every service that was launched   *)
(* when its last pass began is retired, although the table may have grown  *)
(* under the pass.                                                         *)
SweepComplete == SweepDone => \A c \in sweep.met : stage[c] # "live"

(* "assert(new_slot[hash] == NULL)" in skynet_handle_register.             *)
GrowAssert == crash # "collide"

(* When skynet_handle_register doubles the table there is a context in     *)
(* every slot, since it takes the handle of each.                          *)
GrowFull == crash # "null"

(* A handle finds the service it was given to and no other, and growth     *)
(* puts no two services in one slot.                                       *)
HandlesOK == TypeOK /\ Findable /\ OwnHandle /\ GrowAssert

(* A name finds the service it was given to, and leaves with it.           *)
NamesOK == []NamesFound /\ NamesLeave
=============================================================================
