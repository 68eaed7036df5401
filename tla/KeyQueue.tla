------------------------------- MODULE KeyQueue -------------------------------
(***************************************************************************)
(* What the keyboard monitor's device promises: the last Capacity key      *)
(* events, oldest first, each handed to one reader; when one more arrives  *)
(* the oldest is dropped.                                                  *)
(***************************************************************************)
EXTENDS Naturals, Sequences

CONSTANTS Clients, Events, Capacity, NoEvent,
          Interrupts    \* BOOLEAN: reads may be interrupted

VARIABLES pending,      \* the events not read yet, oldest first
          held          \* the event each client's current read has taken

abstractVars == <<pending, held>>

Init == pending = <<>> /\ held = [t \in Clients |-> NoEvent]

Arrive(e) == /\ pending' = LET all == Append(pending, e)
                           IN  IF Len(all) > Capacity THEN Tail(all) ELSE all
             /\ UNCHANGED held

Take(t) == /\ pending # <<>>
           /\ held' = [held EXCEPT ![t] = Head(pending)]
           /\ pending' = Tail(pending)

\* An interrupted read does not look whether there is an event: it is given what
\* an empty queue's storage holds, and everything in it looks unread again.
Relapse(t) == /\ Interrupts
              /\ pending = <<>>
              /\ \E e \in Events \cup {NoEvent} : held' = [held EXCEPT ![t] = e]
              /\ pending' \in [1 .. Capacity -> Events \cup {NoEvent}]

\* A read ends; its event is in user memory, or lost with a bad address.
Finish(t) == held' = [held EXCEPT ![t] = NoEvent] /\ UNCHANGED pending

Next == \/ \E e \in Events : Arrive(e)
        \/ \E t \in Clients : Take(t) \/ Relapse(t) \/ Finish(t)

Spec == Init /\ [][Next]_abstractVars
=============================================================================
