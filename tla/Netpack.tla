------------------------------- MODULE Netpack -------------------------------
(***************************************************************************)
(* lua-netpack.c: packages of a two byte size and a body, cut out of the   *)
(* chunks in which the bytes of a connection come.  What a chunk leaves    *)
(* over, in the middle of a size or of a body, is kept per connection.     *)
(*                                                                         *)
(* A byte is known by the package it belongs to and its place in it; the   *)
(* two bytes of a size taken together give the size of their package, and  *)
(* any other two bytes a wrong one.  The hash lists of the connections are *)
(* one function; the ring of packages that wait to be popped, which the    *)
(* gate server empties before it takes the next chunk, is a sequence.      *)
(***************************************************************************)
EXTENDS Integers, Sequences, SequencesExt

CONSTANTS
    Fd,
    Lists,   \* the lists of package sizes a peer may send
    MaxOpen, \* bound: connections in a run
    None

VARIABLES
    sizes,  \* per connection: the sizes of the packages its peer sends
    rest,   \* bytes that have not come yet
    uc,     \* the uncomplete package of a connection, or None
    got,    \* bodies given to the service
    opened  \* connections so far

vars == <<sizes, rest, uc, got, opened>>

Package(p, size) == [k \in 1 .. size + 2 |-> [p |-> p, k |-> k]]
Stream(list) == FlattenSeq([p \in 1 .. Len(list) |-> Package(p, list[p])])
Body(p, size) == SubSeq(Package(p, size), 3, size + 2)

(* read_size.                                                              *)
ReadSize(fd, b1, b2) ==
    IF b1.p = b2.p /\ b1.k = 1 /\ b2.k = 2 THEN sizes[fd][b1.p] ELSE 0

Header(b) == [read |-> -1, header |-> b, size |-> 0, body |-> <<>>]
Partial(size, body) == [read |-> Len(body), header |-> None, size |-> size, body |-> body]

-----------------------------------------------------------------------------
PushMoreMutant(fd, c, from) ==
    LET n == Len(c)
        more[i \in 1 .. n + 1] ==
            IF i >= n THEN [packs |-> <<>>, uc |-> None]
            ELSE LET size == ReadSize(fd, c[i], c[i + 1]) IN
                 IF n - i - 1 < size
                 THEN [packs |-> <<>>, uc |-> Partial(size, SubSeq(c, i + 2, n))]
                 ELSE LET next == more[i + 2 + size] IN
                      [next EXCEPT !.packs = <<SubSeq(c, i + 2, i + 1 + size)>> \o @] IN
    more[from]

(* push_more from the i-th byte of a chunk on: the packages that are whole *)
(* and what is left over.                                                  *)
PushMore(fd, c, from) ==
    LET n == Len(c)
        more[i \in 1 .. n + 1] ==
            IF i > n THEN [packs |-> <<>>, uc |-> None]
            ELSE IF i = n THEN [packs |-> <<>>, uc |-> Header(c[n])]
            ELSE LET size == ReadSize(fd, c[i], c[i + 1]) IN
                 IF n - i - 1 < size
                 THEN [packs |-> <<>>, uc |-> Partial(size, SubSeq(c, i + 2, n))]
                 ELSE LET next == more[i + 2 + size] IN
                      [next EXCEPT !.packs = <<SubSeq(c, i + 2, i + 1 + size)>> \o @] IN
    more[from]

(* filter_data_ with a package that was begun: fill it.                    *)
Fill(fd, c) ==
    LET u == uc[fd]
        from == IF u.read < 0 THEN 2 ELSE 1
        size == IF u.read < 0 THEN ReadSize(fd, u.header, c[1]) ELSE u.size
        need == size - Len(u.body) IN
    IF Len(c) - from + 1 < need
    THEN [packs |-> <<>>, uc |-> Partial(size, u.body \o SubSeq(c, from, Len(c)))]
    ELSE LET next == PushMore(fd, c, from + need) IN
         [next EXCEPT !.packs = <<u.body \o SubSeq(c, from, from + need - 1)>> \o @]

(* The next n bytes of a connection come.                                  *)
Data(fd, n) ==
    LET c == SubSeq(rest[fd], 1, n)
        r == IF uc[fd] = None THEN PushMore(fd, c, 1) ELSE Fill(fd, c) IN
    /\ n \in 1 .. Len(rest[fd])
    /\ rest' = [rest EXCEPT ![fd] = SubSeq(@, n + 1, Len(@))]
    /\ uc' = [uc EXCEPT ![fd] = r.uc]
    /\ got' = [got EXCEPT ![fd] = @ \o r.packs]
    /\ UNCHANGED <<sizes, opened>>

CloseMutant(fd, list) ==
    /\ opened < MaxOpen /\ opened' = opened + 1
    /\ sizes' = [sizes EXCEPT ![fd] = list] /\ rest' = [rest EXCEPT ![fd] = Stream(list)]
    /\ got' = [got EXCEPT ![fd] = <<>>]
    /\ uc' = uc

(* A connection is closed or fails, with bytes still on their way          *)
(* (close_uncomplete), and its number is given to a new one.               *)
Close(fd, list) ==
    /\ opened < MaxOpen /\ opened' = opened + 1
    /\ sizes' = [sizes EXCEPT ![fd] = list] /\ rest' = [rest EXCEPT ![fd] = Stream(list)]
    /\ got' = [got EXCEPT ![fd] = <<>>]
    /\ uc' = [uc EXCEPT ![fd] = None]

Init ==
    /\ sizes \in [Fd -> Lists]
    /\ rest = [fd \in Fd |-> Stream(sizes[fd])]
    /\ uc = [fd \in Fd |-> None] /\ got = [fd \in Fd |-> <<>>]
    /\ opened = 0

Next == \E fd \in Fd : \/ \E n \in 1 .. Len(rest[fd]) : Data(fd, n)
                       \/ \E list \in Lists : Close(fd, list)

Spec == Init /\ [][Next]_vars

-----------------------------------------------------------------------------
(* The number of packages of a connection whose last byte has come.        *)
Arrived(fd) ==
    LET last == Len(Stream(sizes[fd])) - Len(rest[fd])
        ends(p) == Len(Stream(SubSeq(sizes[fd], 1, p))) IN
    CHOOSE k \in 0 .. Len(sizes[fd]) :
        ends(k) <= last /\ (k = Len(sizes[fd]) \/ ends(k + 1) > last)

(* However the bytes are cut into chunks, empty packages and chunks that   *)
(* end within a size included, the service has got the packages that have  *)
(* come so far: each once, whole, in order, and none late.                 *)
Framed ==
    \A fd \in Fd : got[fd] = [p \in 1 .. Arrived(fd) |-> Body(p, sizes[fd][p])]

(* What is kept of a connection is what has come of its next package, so   *)
(* nothing is kept between packages.                                       *)
KeepsRest ==
    \A fd \in Fd :
        LET come == Len(Stream(sizes[fd])) - Len(rest[fd])
            part == SubSeq(Stream(sizes[fd]),
                           Len(Stream(SubSeq(sizes[fd], 1, Arrived(fd)))) + 1, come) IN
        CASE Len(part) = 0 -> uc[fd] = None
          [] Len(part) = 1 -> uc[fd] = Header(part[1])
          [] OTHER -> uc[fd] = Partial(sizes[fd][part[1].p], SubSeq(part, 3, Len(part)))
=============================================================================
