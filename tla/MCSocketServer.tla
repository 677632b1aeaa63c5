--------------------------- MODULE MCSocketServer ---------------------------
(* Small instances of SocketServer.                                        *)
EXTENDS SocketServer

CONSTANTS t1, t2

OneSocket == [slots |-> 1, ids |-> 1, msgs |-> 2, senders |-> {t1, t2}, priority |-> {"D"},
              kill |-> {FALSE, TRUE}, listen |-> FALSE]

(* Two threads send and close; a slot is used twice, with messages or with *)
(* a second close; one thread sends with both priorities; a connection is  *)
(* accepted.                                                               *)
AllUses ==
    {OneSocket,
     [OneSocket EXCEPT !.ids = 2, !.kill = {FALSE}],
     [OneSocket EXCEPT !.ids = 2, !.msgs = 0],
     [OneSocket EXCEPT !.msgs = 4, !.senders = {t1}, !.priority = {"D", "P"}, !.kill = {FALSE}],
     [OneSocket EXCEPT !.slots = 2, !.ids = 2, !.msgs = 1, !.senders = {t1}, !.kill = {FALSE},
                       !.listen = TRUE]}
=============================================================================
