----------------------------- MODULE UserManager -----------------------------
(***************************************************************************)
(* GS_model_userManager.lua: the users of a game server.  A user's struct  *)
(* (ServerUserItem) comes from the pool of cItemBuffer.lua; other services *)
(* keep data of the user, loaded when the user comes in and released when  *)
(* the user leaves; the database keeps a row for every stay.  A handler    *)
(* yields wherever it calls a service or the database, and the others run; *)
(* the user may come in again while an earlier login or logout of the user *)
(* is suspended.  A call that fails raises an error and ends the handler.  *)
(*                                                                         *)
(* Modelled are insertUserItem, kickUser and setUserStatus for a user who  *)
(* leaves.  Users are numbers, and a user with a larger number has a       *)
(* larger score.  Left out are the status of a user who stays and what is  *)
(* broadcast; the six services that keep data are one.                     *)
(***************************************************************************)
EXTENDS FiniteSets, FiniteSetsExt, Integers, Sequences

CONSTANTS
    User, Item, Thread,
    MaxPlayer, \* _serverConfig.MaxPlayer
    MaxLogin,  \* bound: logins in a run
    None

VARIABLES
    hash,   \* _userItemHash
    pool,   \* _itemList of cItemBuffer.lua
    made,   \* items CLibrary.new has made
    index,  \* per item: inoutIndex, 0 for none
    loaded, \* users whose data the other services hold
    rows,   \* UserInOut rows without an end
    logins, \* logins so far; the n-th gets row n
    h,      \* per thread: its handler
    marred, \* history: users in whose stay logins crossed or a call failed
    lost    \* history: rows whose number nobody has any more

vars == <<hash, pool, made, index, loaded, rows, logins, h, marred, lost>>

Idle == [pc |-> "idle", user |-> 0, item |-> None, row |-> 0, kick |-> 0]
(* A handler of the user is suspended on the way in, or on the way out.    *)
Crossed(u) == \E t \in Thread : h[t].pc \notin {"idle", "stand"} /\ h[t].user = u

Online == {u \in User : hash[u] # None}
Goes(t, pc) == h' = [h EXCEPT ![t].pc = pc]
Ends(t) == h' = [h EXCEPT ![t] = Idle]

-----------------------------------------------------------------------------
(* cmd_insertUserItem up to its first call.  The user with the least score *)
(* is chosen to make room.                                                 *)
Insert(t, u) ==
    LET full == Cardinality(Online) >= MaxPlayer
        least == IF full THEN Min(Online) ELSE 0
        item == IF pool # <<>> THEN Head(pool) ELSE CHOOSE i \in Item \ made : TRUE IN
    /\ h[t].pc = "idle" /\ hash[u] = None /\ logins < MaxLogin
    /\ pool # <<>> \/ Item \ made # {}
    /\ full => least < u
    /\ logins' = logins + 1
    /\ pool' = IF pool # <<>> THEN Tail(pool) ELSE pool
    /\ made' = made \cup {item}
    /\ hash' = [hash EXCEPT ![u] = item] /\ index' = [index EXCEPT ![item] = 0]
    /\ h' = [h EXCEPT ![t] = [pc |-> "load", user |-> u, item |-> item, row |-> logins',
                              kick |-> least]]
    /\ marred' = IF Crossed(u) THEN marred \cup {u} ELSE marred \ {u}
    /\ UNCHANGED <<loaded, rows, lost>>

(* cmd_loadUserData.  When it fails the user stays in the hash, with or    *)
(* without the data.                                                       *)
Load(t) ==
    /\ h[t].pc = "load" /\ Goes(t, "record")
    /\ loaded' = loaded \cup {h[t].user}
    /\ UNCHANGED <<hash, pool, made, index, rows, logins, marred, lost>>

LoadFails(t) ==
    /\ h[t].pc = "load" /\ Ends(t)
    /\ loaded' \in {loaded, loaded \cup {h[t].user}}
    /\ marred' = marred \cup {h[t].user}
    /\ UNCHANGED <<hash, pool, made, index, rows, logins, lost>>

(* sp_record_user_in.  When it fails the row may have been written, and    *)
(* its number has not come.                                                *)
Record(t) ==
    /\ h[t].pc = "record" /\ Goes(t, "check")
    /\ rows' = rows \cup {h[t].row}
    /\ UNCHANGED <<hash, pool, made, index, loaded, logins, marred, lost>>

RecordFails(t) ==
    /\ h[t].pc = "record" /\ Ends(t)
    /\ \E written \in SUBSET {h[t].row} :
          rows' = rows \cup written /\ lost' = lost \cup written
    /\ marred' = marred \cup {h[t].user}
    /\ UNCHANGED <<hash, pool, made, index, loaded, logins>>

CheckMutant(t) ==
    LET u == h[t].user IN
    /\ h[t].pc = "check"
    /\ index' = [index EXCEPT ![h[t].item] = h[t].row] /\ rows' = rows
    /\ IF h[t].kick = 0 THEN Ends(t)
       ELSE h' = [h EXCEPT ![t] = [Idle EXCEPT !.pc = "stand", !.user = h[t].kick]]
    /\ UNCHANGED <<hash, pool, made, loaded, logins, marred, lost>>

(* The check for reentry and the rest of cmd_insertUserItem.  The struct   *)
(* may be that of another login of the user, and have a row.               *)
Check(t) ==
    LET u == h[t].user IN
    /\ h[t].pc = "check"
    /\ IF hash[u] = None
       THEN /\ rows' = rows \ {h[t].row} /\ UNCHANGED <<index, lost>>
            /\ Ends(t)
       ELSE /\ index' = [index EXCEPT ![hash[u]] = h[t].row] /\ rows' = rows
            /\ lost' = lost \cup ({index[hash[u]]} \ {0})
            /\ IF h[t].kick = 0 THEN Ends(t)
               ELSE h' = [h EXCEPT ![t] = [Idle EXCEPT !.pc = "stand", !.user = h[t].kick]]
    /\ UNCHANGED <<hash, pool, made, loaded, logins, marred>>

(* kickUser, whose user may stand up from a table first.                   *)
Kick(t, u) ==
    /\ h[t].pc = "idle" /\ hash[u] # None
    /\ h' = [h EXCEPT ![t] = [Idle EXCEPT !.pc = "stand", !.user = u]]
    /\ UNCHANGED <<hash, pool, made, index, loaded, rows, logins, marred, lost>>

LeaveMutant(t) ==
    LET u == h[t].user IN
    /\ h[t].pc = "stand"
    /\ IF hash[u] = None THEN Ends(t)
       ELSE h' = [h EXCEPT ![t].pc = "logout", ![t].item = hash[u]]
    /\ UNCHANGED <<hash, pool, made, index, loaded, rows, logins, marred, lost>>

(* setUserStatus(US_NULL): the user is out of the hash before the calls.   *)
Leave(t) ==
    LET u == h[t].user IN
    /\ h[t].pc = "stand"
    /\ IF hash[u] = None THEN Ends(t) /\ hash' = hash
       ELSE /\ h' = [h EXCEPT ![t].pc = "logout", ![t].item = hash[u]]
            /\ hash' = [hash EXCEPT ![u] = None]
    /\ UNCHANGED <<pool, made, index, loaded, rows, logins, marred, lost>>

(* doDBUserLogout; when it fails the handler returns.                      *)
Logout(t) ==
    /\ h[t].pc = "logout"
    /\ rows' = rows \ {index[h[t].item]}
    /\ Goes(t, "release")
    /\ UNCHANGED <<hash, pool, made, index, loaded, logins, marred, lost>>

LogoutFails(t) ==
    /\ h[t].pc = "logout" /\ Ends(t)
    /\ UNCHANGED <<hash, pool, made, index, loaded, rows, logins, marred, lost>>

(* cmd_releaseUserData.  When it fails the struct is not released.         *)
Release(t) ==
    /\ h[t].pc = "release" /\ Goes(t, "free")
    /\ loaded' = loaded \ {h[t].user}
    /\ UNCHANGED <<hash, pool, made, index, rows, logins, marred, lost>>

ReleaseFails(t) ==
    /\ h[t].pc = "release" /\ Ends(t)
    /\ loaded' \in {loaded, loaded \ {h[t].user}}
    /\ UNCHANGED <<hash, pool, made, index, rows, logins, marred, lost>>

(* CItemBuffer.release.                                                    *)
Free(t) ==
    /\ h[t].pc = "free" /\ Ends(t)
    /\ pool' = Append(pool, h[t].item)
    /\ UNCHANGED <<hash, made, index, loaded, rows, logins, marred, lost>>

-----------------------------------------------------------------------------
Init ==
    /\ hash = [u \in User |-> None] /\ pool = <<>> /\ made = {}
    /\ index = [i \in Item |-> 0] /\ loaded = {} /\ rows = {} /\ logins = 0
    /\ h = [t \in Thread |-> Idle] /\ marred = {} /\ lost = {}

Steps(t) == \/ Load(t) \/ LoadFails(t) \/ Record(t) \/ RecordFails(t) \/ Check(t)
            \/ Leave(t) \/ Logout(t) \/ LogoutFails(t)
            \/ Release(t) \/ ReleaseFails(t) \/ Free(t)
Next == \E t \in Thread : Steps(t) \/ \E u \in User : Insert(t, u) \/ Kick(t, u)

Spec == Init /\ [][Next]_vars

-----------------------------------------------------------------------------
Rest == \A t \in Thread : h[t].pc = "idle"

(* Every variable has its type.                                            *)
TypeOK ==
    /\ hash \in [User -> Item \cup {None}] /\ pool \in Seq(Item) /\ made \subseteq Item
    /\ Len(pool) <= Cardinality(Item)
    /\ index \in [Item -> 0 .. MaxLogin] /\ loaded \subseteq User
    /\ rows \subseteq 1 .. MaxLogin /\ logins \in 0 .. MaxLogin
    /\ marred \subseteq User /\ lost \subseteq 1 .. MaxLogin

(* No struct serves two users, or a user and the pool: not when a user is  *)
(* kicked twice at once, nor when one comes back while the logout runs,    *)
(* nor after a call that failed.                                           *)
ItemOnce ==
    /\ \A u, v \in User : u # v /\ hash[u] # None => hash[u] # hash[v]
    /\ \A i, j \in DOMAIN pool : i # j => pool[i] # pool[j]
    /\ \A u \in User, i \in DOMAIN pool : hash[u] # pool[i]

(* Once no handler is at work, a user in the room has the data that the    *)
(* other services keep of the user.  Excepted is a stay in which the load  *)
(* failed (the user is left in the hash without it), and one that began    *)
(* while a login or logout of the same user was suspended (a logout that   *)
(* is resumed releases the data that the new login has loaded).            *)
DataKept == Rest => Online \ marred \subseteq loaded

(* The check for reentry ("重入检查"): once no handler is at work, a user  *)
(* in the room has an open row, with the same exceptions; and no row is    *)
(* that of two users' structs, without exception.                          *)
RowKept ==
    Rest => /\ \A u \in Online \ marred : index[hash[u]] \in rows
            /\ \A u, v \in Online : u # v /\ index[hash[u]] # 0 => index[hash[u]] # index[hash[v]]

(* Once no handler is at work, every row that has no end belongs to a user *)
(* in the room or to a struct whose logout has failed.  Only two things    *)
(* lose a row: a second login of the user puts its own row into a struct   *)
(* that already has one, or the answer with the row's number fails.        *)
RowsEnd ==
    Rest => \A r \in rows \ lost :
        \/ \E u \in Online : index[hash[u]] = r
        \/ \E i \in made : /\ index[i] = r /\ \A j \in DOMAIN pool : pool[j] # i
                           /\ \A u \in User : hash[u] # i

(* GS_model_userManager.lua, with logins that cross and calls that fail:   *)
(* no struct serves two users, or a user and the pool; a user in the room  *)
(* has the data of the other services and an open row, unless this stay    *)
(* crossed an earlier one or its load or record failed; no two users share *)
(* a row; and a row gets its end unless its number was overwritten by a    *)
(* second login or never came.                                             *)
UsersOK == TypeOK /\ ItemOnce /\ DataKept /\ RowKept /\ RowsEnd
=============================================================================
