---------------------------- MODULE MCDispatcher ----------------------------
(* Small instances of Dispatcher.                                          *)
EXTENDS Dispatcher, TLC

CONSTANTS w1, w2, p1, a, b, c

(* One worker takes one message of a queue at a time, the other all.       *)
Mixed == w1 :> -1 @@ w2 :> 0

(* The service that is running at the start; others may be launched.  With *)
(* three services one of them may kill another that is being launched.     *)
BootA == <<a>>
=============================================================================
