-------------------------------- MODULE Fifo --------------------------------
(***************************************************************************)
(* What a mailbox promises: an unbounded queue that gives its messages     *)
(* back once each, in the order in which they came.                        *)
(***************************************************************************)
EXTENDS Sequences

CONSTANTS Msg, Nothing

VARIABLES
    line, \* the messages waiting
    out   \* what the last pop gave

Init == line = <<>> /\ out = Nothing

Put(m) == line' = Append(line, m) /\ out' = out
Get == line # <<>> /\ out' = Head(line) /\ line' = Tail(line)
GetNothing == line = <<>> /\ out' = Nothing /\ line' = line

Next == (\E m \in Msg : Put(m)) \/ Get \/ GetNothing
Spec == Init /\ [][Next]_<<line, out>>
=============================================================================
