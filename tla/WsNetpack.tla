------------------------------ MODULE WsNetpack ------------------------------
(***************************************************************************)
(* lua-websocketnetpack.c for one connection: the request of the handshake *)
(* and then frames with a header of variable length and a masked body, cut *)
(* out of the chunks in which the bytes come.                              *)
(*                                                                         *)
(* A byte is known by the frame it belongs to and its place in it, and an  *)
(* unmasked one by the byte of the mask that was used on it too.  Left out *)
(* are fragmented frames, of which two bytes at a time are thrown away,    *)
(* the limits of a request's and a frame's size, and what is kept per      *)
(* connection and per queue, which Netpack models.                         *)
(***************************************************************************)
EXTENDS FiniteSets, Integers, Sequences, SequencesExt

CONSTANTS
    Lists,  \* what a client may send after its request: lists of frames
    None

VARIABLES
    list,      \* the frames of this client, its request before them
    rest,      \* bytes that have not come yet
    handshake, \* connection[fd].iswebsocket_handeshake
    uc,        \* struct uncomplete, or None
    got,       \* packages given to the service
    told,      \* has the client's closing been reported?
    before     \* history: bytes that came before the last chunk

vars == <<list, rest, handshake, uc, got, told, before>>

MaskLen == 4
HeadLen(f) == IF f.t = "http" THEN 0 ELSE 2 + f.ext + MaskLen
Frame(p) == [k \in 1 .. HeadLen(list[p]) + list[p].len |-> [p |-> p, k |-> k]]
Stream == FlattenSeq([p \in 1 .. Len(list) |-> Frame(p)])

-----------------------------------------------------------------------------
(* read_size, -1 for a header that has not come as a whole and -3 for a    *)
(* client that closes, and get_http_header.                                *)
ReadSize(b) ==
    LET f == list[b[1].p]
        at == b[Len(b)].k IN
    CASE handshake -> IF at = f.len THEN f.len ELSE -1
      [] ~handshake /\ Len(b) < 2 -> -1
      [] ~handshake /\ Len(b) >= 2 /\ f.t = "close" -> -3
      [] OTHER -> IF Len(b) < HeadLen(f) THEN -1 ELSE f.len

UnmaskMutant(b, done) ==
    [i \in DOMAIN b |-> [p |-> b[i].p, k |-> b[i].k, mask |-> (i - 1) % MaskLen]]

(* decode_wsmask_data after done bytes of the frame.                       *)
Unmask(b, done) ==
    [i \in DOMAIN b |-> [p |-> b[i].p, k |-> b[i].k, mask |-> (i - 1 + done) % MaskLen]]

Decoded(b, done) == IF handshake THEN b ELSE Unmask(b, done)

Header(b) == [header |-> b, size |-> 0, body |-> <<>>]
Partial(size, body) == [header |-> <<>>, size |-> size, body |-> body]
Result(packs, u, close) == [packs |-> packs, uc |-> u, close |-> close]

(* push_more from the i-th byte of a chunk on.  It does not expect a -3    *)
(* and copies a package of that many bytes, which ends the process: None.  *)
PushMore(c, from) ==
    LET n == Len(c)
        more[i \in 1 .. n + 1] ==
            IF i > n THEN Result(<<>>, None, FALSE)
            ELSE LET size == ReadSize(SubSeq(c, i, n))
                     body == i + HeadLen(list[c[i].p]) IN
                 CASE size = -1 -> Result(<<>>, Header(SubSeq(c, i, n)), FALSE)
                   [] size = -3 -> Result(<<None>>, None, FALSE)
                   [] size >= 0 /\ n - body + 1 < size ->
                          Result(<<>>, Partial(size, Decoded(SubSeq(c, body, n), 0)), FALSE)
                   [] OTHER ->
                          LET next == more[body + size] IN
                          [next EXCEPT !.packs =
                               <<Decoded(SubSeq(c, body, body + size - 1), 0)>> \o @] IN
    more[from]

FirstMutant(c) == PushMore(c, 1)

(* filter_data_ when nothing is kept of an earlier chunk.                  *)
First(c) == IF ReadSize(c) = -3 THEN Result(<<>>, None, TRUE) ELSE PushMore(c, 1)

(* filter_data_ with a frame whose size is known.                          *)
FillBody(size, body, c, from) ==
    LET need == size - Len(body)
        next == PushMore(c, from + need) IN
    IF Len(c) - from + 1 < need
    THEN Result(<<>>, Partial(size, body \o Decoded(SubSeq(c, from, Len(c)), Len(body))), FALSE)
    ELSE [next EXCEPT !.packs =
              <<body \o Decoded(SubSeq(c, from, from + need - 1), Len(body))>> \o @]

(* filter_data_ with a part of a header: byte by byte until it is whole.   *)
FillHeader(h, c) ==
    LET enough == {i \in DOMAIN c : ReadSize(h \o SubSeq(c, 1, i)) >= 0}
        taken == IF enough = {} THEN Len(c) ELSE CHOOSE i \in enough : \A j \in enough : i <= j
        header == h \o SubSeq(c, 1, taken)
        size == ReadSize(header) IN
    CASE size = -1 -> Result(<<>>, Header(header), FALSE)
      [] size = -3 -> Result(<<>>, None, TRUE)
      [] OTHER -> FillBody(size, IF handshake THEN header ELSE <<>>, c, taken + 1)

Filter(c) ==
    CASE uc = None -> First(c)
      [] uc # None /\ uc.header # <<>> -> FillHeader(uc.header, c)
      [] OTHER -> FillBody(uc.size, uc.body, c, 1)

Crashed == got # <<>> /\ Last(got) = None
Come == Len(Stream) - Len(rest)

(* The next n bytes come.  A client waits for the answer to its request,   *)
(* with which the gateway ends the handshake.                              *)
Data(n) ==
    LET c == SubSeq(rest, 1, n)
        r == Filter(c) IN
    /\ ~told /\ ~Crashed
    /\ handshake => c[n].p = 1
    /\ rest' = SubSeq(rest, n + 1, Len(rest)) /\ before' = Come
    /\ uc' = r.uc /\ got' = got \o r.packs /\ told' = r.close
    /\ handshake' = (handshake /\ r.packs = <<>>)
    /\ UNCHANGED list

Init ==
    /\ list \in Lists /\ rest = Stream
    /\ handshake = TRUE /\ uc = None /\ got = <<>> /\ told = FALSE /\ before = 0

Next == \E n \in 1 .. Len(rest) : Data(n)

Spec == Init /\ [][Next]_vars

-----------------------------------------------------------------------------
EndOf(p) == Len(FlattenSeq([q \in 1 .. p |-> Frame(q)]))
Arrived == {p \in 1 .. Len(list) : list[p].t # "close" /\ EndOf(p) <= Come}
Body(p) ==
    LET h == HeadLen(list[p]) IN
    IF list[p].t = "http" THEN Frame(p)
    ELSE [i \in 1 .. list[p].len |-> [p |-> p, k |-> h + i, mask |-> (i - 1) % MaskLen]]

(* However the bytes are cut into chunks, within a header, a mask or a     *)
(* body, the service has got the request and the frames that have come:    *)
(* each once, whole, in order, every byte unmasked with its byte of the    *)
(* mask.  That also holds of the chunk on which the process ends.          *)
WsFramed ==
    (IF Crashed THEN Front(got) ELSE got) = [p \in 1 .. Cardinality(Arrived) |-> Body(p)]

(* The first two bytes of the client's close frame have come, and the      *)
(* chunk that brought the second of them began before the frame.           *)
CloseCome(p) == list[p].t = "close" /\ EndOf(p - 1) + 2 <= Come
Joined(p) == before < EndOf(p - 1)

(* A close frame is reported as soon as its first two bytes have come if   *)
(* the chunk with the second one begins with the frame or within it, and   *)
(* nothing else is reported.  If the chunk has bytes of another frame      *)
(* before it, push_more meets the -3 of read_size and ends the process;    *)
(* nothing else does.                                                      *)
CloseTold ==
    /\ told = \E p \in 1 .. Len(list) : CloseCome(p) /\ ~Joined(p)
    /\ Crashed = \E p \in 1 .. Len(list) : CloseCome(p) /\ Joined(p)

(* -3 from read_size means that the client's browser closes, as the        *)
(* comment on read_size says: once the first two bytes of a close frame    *)
(* have come the closing has been reported, however the bytes were cut.    *)
CloseReported == (\E p \in 1 .. Len(list) : CloseCome(p)) => told
=============================================================================
