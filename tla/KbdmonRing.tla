------------------------------ MODULE KbdmonRing ------------------------------
(***************************************************************************)
(* The event ring of Keyboard_monitor/kbdmon_chrdev.c: keyboards push key  *)
(* events from the input core's callbacks, processes read them from        *)
(* /dev/kbdmon.  The ring is under a spinlock, so each critical section is *)
(* one step; the wake-up and the wait are outside it.                      *)
(***************************************************************************)
EXTENDS Integers, Sequences

CONSTANTS BUF_SIZE,
          Events,       \* the key events, as (code, value) pairs
          NoEvent,      \* an empty slot, which reads as code 0, value 0
          Readers,      \* processes that read the device
          Keyboards,    \* connected input devices
          Signals       \* BOOLEAN: a sleeping reader may be interrupted

ASSUME KbdmonAssumption ==
    /\ BUF_SIZE \in Nat \ {0, 1}
    /\ NoEvent \notin Events
    /\ Readers \cap Keyboards = {}
    /\ Signals \in BOOLEAN

VARIABLES ring, head, tail,
          pc,           \* of the readers and of the keyboards' callbacks
          ev            \* the event a read has copied off the ring

vars == <<ring, head, tail, pc, ev>>

Actors == Readers \cup Keyboards
Slots == 0 .. BUF_SIZE - 1

Init == /\ ring = [i \in Slots |-> NoEvent]
        /\ head = 0
        /\ tail = 0
        /\ pc = [a \in Actors |-> "idle"]
        /\ ev = [r \in Readers |-> NoEvent]

Goto(a, point) == pc' = [pc EXCEPT ![a] = point]

\* An operator named X_m... is wrong on purpose: it is what a plausible slip
\* would make of X, and shows that a property notices.  No action uses it.

Advance(i) == (i + 1) % BUF_SIZE

\* The oldest event is not dropped when the ring is full.
push_event_mNoDrop(k, e) == /\ pc[k] = "idle"
                            /\ ring' = [ring EXCEPT ![head] = e]
                            /\ head' = Advance(head)
                            /\ Goto(k, "push_wake")
                            /\ UNCHANGED <<tail, ev>>

\* push_event under the lock: a full ring drops its oldest event.
push_event(k, e) ==
    /\ pc[k] = "idle"
    /\ ring' = [ring EXCEPT ![head] = e]
    /\ head' = Advance(head)
    /\ tail' = IF Advance(head) = tail THEN Advance(tail) ELSE tail
    /\ Goto(k, "push_wake")
    /\ UNCHANGED ev

push_wake_mSilent(k) == /\ pc[k] = "push_wake"
                        /\ Goto(k, "idle")
                        /\ UNCHANGED <<ring, head, tail, ev>>

\* push_event after the lock: wake_up_interruptible(&readq).
push_wake(k) ==
    /\ pc[k] = "push_wake"
    /\ pc' = [a \in Actors |-> IF a = k THEN "idle"
                               ELSE IF pc[a] = "rd_sleep" THEN "rd_wait" ELSE pc[a]]
    /\ UNCHANGED <<ring, head, tail, ev>>

\* A read with room for an event; a shorter one fails and changes nothing.
ReadBegin(r) == pc[r] = "idle" /\ Goto(r, "rd_wait") /\ UNCHANGED <<ring, head, tail, ev>>

\* wait_event_interruptible(readq, head != tail), without the lock.
ReadWait(r) == /\ pc[r] = "rd_wait"
               /\ Goto(r, IF head # tail THEN "rd_take" ELSE "rd_sleep")
               /\ UNCHANGED <<ring, head, tail, ev>>

\* A signal ends the wait whether there is an event or not: its result is
\* ignored, and the read goes on.
ReadInterrupted(r) == /\ pc[r] \in {"rd_wait", "rd_sleep"}
                      /\ Signals
                      /\ Goto(r, "rd_take")
                      /\ UNCHANGED <<ring, head, tail, ev>>

\* The event is taken under the lock, without looking at head again.
ReadTake(r) == /\ pc[r] = "rd_take"
               /\ ev' = [ev EXCEPT ![r] = ring[tail]]
               /\ tail' = Advance(tail)
               /\ Goto(r, "rd_copy")
               /\ UNCHANGED <<ring, head>>

\* copy_to_user succeeds or not: the event is off the ring either way.
ReadCopy(r) == /\ pc[r] = "rd_copy"
               /\ ev' = [ev EXCEPT ![r] = NoEvent]
               /\ Goto(r, "idle")
               /\ UNCHANGED <<ring, head, tail>>

kbdmon_read(r) == ReadWait(r) \/ ReadTake(r) \/ ReadCopy(r)

Next == \/ \E k \in Keyboards : push_wake(k) \/ \E e \in Events : push_event(k, e)
        \/ \E r \in Readers : ReadBegin(r) \/ kbdmon_read(r) \/ ReadInterrupted(r)

Spec == Init /\ [][Next]_vars

-----------------------------------------------------------------------------
(* Properties *)

\* Type invariant: the indices stay on the ring and a slot holds an event.
TypeOK ==
    /\ ring \in [Slots -> Events \cup {NoEvent}]
    /\ head \in Slots
    /\ tail \in Slots
    /\ pc \in [Actors -> {"idle", "push_wake", "rd_wait", "rd_sleep", "rd_take", "rd_copy"}]
    /\ ev \in [Readers -> Events \cup {NoEvent}]

\* With one reader, its sleep while the ring holds an event is not for long: a
\* wake-up is on its way, which is given outside the spinlock, after every push.
\* (A second reader can move tail past head, and head # tail then says nothing.)
ReaderWakeupPending ==
    \A r \in Readers : pc[r] = "rd_sleep" /\ head # tail
                       => \E k \in Keyboards : pc[k] = "push_wake"

\* What holds between any two steps of the callbacks and one reader.
RingInv == TypeOK /\ ReaderWakeupPending

Pending == LET n == (head - tail) % BUF_SIZE
           IN  [i \in 1 .. n |-> ring[(tail + i - 1) % BUF_SIZE]]

Queue == INSTANCE KeyQueue WITH Clients <- Readers,
                                Capacity <- BUF_SIZE - 1,
                                Interrupts <- Signals,
                                pending <- Pending,
                                held <- ev

\* With one reader, the ring is the queue of the last BUF_SIZE - 1 events: none
\* is read twice, out of order or after it was dropped, until a signal ends the
\* wait of a read on an empty ring.
ImplementsKeyQueue == Queue!Spec
=============================================================================
