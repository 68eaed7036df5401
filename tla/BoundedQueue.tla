----------------------------- MODULE BoundedQueue -----------------------------
(***************************************************************************)
(* What a byte device promises its callers, with no lock, no wait queue    *)
(* and no ring: a FIFO of at most Capacity bytes.  A byte that is accepted *)
(* is delivered to exactly one client, in the order of acceptance, or is   *)
(* thrown away by a reset; nothing else changes the queue.                 *)
(***************************************************************************)
EXTENDS Naturals, Sequences

CONSTANTS Clients,     \* the threads that make calls
          Bytes,       \* the values of a byte
          Capacity     \* the most bytes the device holds, a natural number

VARIABLES contents,    \* the bytes held, oldest first
          received     \* what each client's current read call has been given

abstractVars == <<contents, received>>

Init == /\ contents = <<>>
        /\ received = [t \in Clients |-> <<>>]

\* A client starts or ends a call: its receive buffer is a new one.
NewCall(t) == /\ received' = [received EXCEPT ![t] = <<>>]
              /\ UNCHANGED contents

\* One byte is accepted.
Enqueue(c) == /\ Len(contents) < Capacity
              /\ contents' = Append(contents, c)
              /\ UNCHANGED received

\* The oldest byte is handed to client t, and to nobody else.
Dequeue(t) == /\ contents # <<>>
              /\ received' = [received EXCEPT ![t] = Append(@, Head(contents))]
              /\ contents' = Tail(contents)

\* Everything held is thrown away.
Reset == /\ contents' = <<>>
         /\ UNCHANGED received

Next == \/ \E t \in Clients : NewCall(t) \/ Dequeue(t)
        \/ \E c \in Bytes : Enqueue(c)
        \/ Reset

Spec == Init /\ [][Next]_abstractVars
=============================================================================
