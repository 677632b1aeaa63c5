------------------------------ MODULE Mailbox ------------------------------
(***************************************************************************)
(* What skynet promises a service about its messages, whatever threads     *)
(* carry them: one mailbox per service, emptied in the order it was        *)
(* filled, by one handler at a time; no handler before the service has     *)
(* been initialised; and once the service is gone, what is left in the     *)
(* mailbox is discarded, never handled.  Dispatcher implements this.       *)
(***************************************************************************)
EXTENDS Sequences

CONSTANTS Service, Boot, Msg, Idle

VARIABLES
    life,  \* "none", "open", "closed" (retired, still in use) or "dead"
    ready, \* the services whose initialisation succeeded
    box,   \* the mailbox of a service
    busy   \* the message a service is handling, or Idle

vars == <<life, ready, box, busy>>

Init == /\ life = [s \in Service |-> IF s \in Boot THEN "open" ELSE "none"]
        /\ ready = Boot
        /\ box \in [Service -> Seq(Msg)] /\ \A s \in Service \ Boot : box[s] = <<>>
        /\ busy = [s \in Service |-> Idle]

Move(s, from, to) == life[s] \in from /\ life' = [life EXCEPT ![s] = to]

Open(s)  == Move(s, {"none"}, "open") /\ UNCHANGED <<ready, box, busy>>
Close(s) == Move(s, {"open"}, "closed") /\ UNCHANGED <<ready, box, busy>>
Die(s)   == busy[s] = Idle /\ Move(s, {"closed"}, "dead") /\ UNCHANGED <<ready, box, busy>>

Ready(s) == /\ life[s] \in {"open", "closed"} /\ s \notin ready
            /\ ready' = ready \cup {s} /\ UNCHANGED <<life, box, busy>>

(* A message is put at the end of a mailbox.  That the mailbox changes is  *)
(* said first so that TLC need not try every message in every step.        *)
Post(s) == /\ life[s] \in {"open", "closed"} /\ box'[s] # box[s]
           /\ \E m \in Msg : box' = [box EXCEPT ![s] = Append(@, m)]
           /\ UNCHANGED <<life, ready, busy>>

Take(s) == /\ life[s] \in {"open", "closed"} /\ s \in ready
           /\ busy[s] = Idle /\ box[s] # <<>>
           /\ busy' = [busy EXCEPT ![s] = Head(box[s])]
           /\ box' = [box EXCEPT ![s] = Tail(@)]
           /\ UNCHANGED <<life, ready>>

Finish(s) == /\ busy[s] # Idle
             /\ busy' = [busy EXCEPT ![s] = Idle] /\ UNCHANGED <<life, ready, box>>

Discard(s) == /\ life[s] = "dead" /\ box[s] # <<>>
              /\ box' = [box EXCEPT ![s] = Tail(@)] /\ UNCHANGED <<life, ready, busy>>

Next == \E s \in Service :
            \/ Open(s) \/ Close(s) \/ Die(s) \/ Ready(s)
            \/ Post(s) \/ Take(s) \/ Finish(s) \/ Discard(s)

Spec == Init /\ [][Next]_vars
=============================================================================
