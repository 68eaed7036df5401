------------------------ MODULE KeyboardMonitors_proofs ------------------------
(***************************************************************************)
(* Theorems about the keyboard monitors: about the event ring with one     *)
(* reader, for every ring size and every set of events, and about the      *)
(* monitors without a device, for any number of keyboards whose callbacks  *)
(* interleave.                                                             *)
(***************************************************************************)
EXTENDS KeyboardMonitors, SequenceTheorems, TLAPS

-----------------------------------------------------------------------------
(* The event ring *)

\* There is one reader (see ReaderWakeupPending).
OneReader == \E r : Readers = {r}

\* Only a signal takes a read to the ring while it is empty.
TakeInv == \A r \in Readers : pc[r] = "rd_take" => Signals \/ head # tail

IInv == RingInv /\ TakeInv

Stored == Events \cup {NoEvent}

USE KbdmonAssumption

\* The slot after the last is slot 0.
LEMMA NextSlot ==
    \A i \in Slots : Advance(i) \in Slots /\ Advance(i) = IF i = BUF_SIZE - 1 THEN 0 ELSE i + 1
BY SMT DEF Slots, Advance

\* A push leaves the ring with an event, whether it drops the oldest or not.
LEMMA NotEmptied ==
    ASSUME NEW h \in Slots, NEW i \in Slots
    PROVE  Advance(h) # IF Advance(h) = i THEN Advance(i) ELSE i
BY NextSlot, SMT DEF Slots

\* What kbdmon_init leaves satisfies the inductive invariant.
LEMMA InitInv == Init => IInv
BY SMT DEF Init, IInv, RingInv, TypeOK, ReaderWakeupPending, TakeInv, Actors, Slots

\* The callbacks of the keyboards keep it,
LEMMA KeyboardInv ==
    ASSUME IInv, NEW k \in Keyboards, push_wake(k) \/ \E e \in Events : push_event(k, e)
    PROVE  IInv'
<1> USE DEF IInv, RingInv, Goto, Actors
<1>1. ASSUME NEW e \in Events, push_event(k, e) PROVE IInv'
  <2> USE <1>1 DEF push_event
  <2>1. head' \in Slots /\ tail' \in Slots /\ head' # tail'
    BY NextSlot, NotEmptied, Zenon DEF TypeOK
  <2>2. pc' = [pc EXCEPT ![k] = "push_wake"] /\ ring' = [ring EXCEPT ![head] = e] OBVIOUS
  <2>3. TypeOK' BY <2>1, <2>2, SMT DEF TypeOK
  <2>4. pc'[k] = "push_wake" BY <2>2, SMT DEF TypeOK
  <2>5. ReaderWakeupPending' BY <2>4, Zenon DEF ReaderWakeupPending
  <2>6. TakeInv' BY <2>1 DEF TakeInv
  <2> QED BY <2>3, <2>5, <2>6
<1>2. CASE push_wake(k)
  <2> USE <1>2 DEF push_wake
  <2>1. TypeOK' BY SMT DEF TypeOK
  <2>2. \A r \in Readers : pc'[r] # "rd_sleep" BY SMT
  <2>3. TakeInv' BY SMT DEF TakeInv
  <2> QED BY <2>1, <2>2, <2>3 DEF ReaderWakeupPending
<1> QED BY <1>1, <1>2

\* and so does the read: with one reader, nobody sleeps while an event is taken.
LEMMA ReaderInv ==
    ASSUME OneReader, IInv, NEW r \in Readers,
           ReadBegin(r) \/ kbdmon_read(r) \/ ReadInterrupted(r)
    PROVE  IInv'
<1> USE DEF IInv, RingInv, Goto, Actors
<1>1. \A q \in Readers : q = r BY DEF OneReader
<1>2. CASE ReadBegin(r)
  BY <1>2, SMT DEF ReadBegin, TypeOK, ReaderWakeupPending, TakeInv
<1>3. CASE ReadWait(r)
  BY <1>3, SMT DEF ReadWait, TypeOK, ReaderWakeupPending, TakeInv
<1>4. CASE ReadInterrupted(r)
  BY <1>4, SMT DEF ReadInterrupted, TypeOK, ReaderWakeupPending, TakeInv
<1>5. CASE ReadTake(r)
  <2> USE <1>5 DEF ReadTake
  <2>1. tail' \in Slots BY NextSlot DEF TypeOK
  <2>2. pc'[r] = "rd_copy" BY SMT DEF TypeOK
  <2>3. TypeOK' BY <2>1, SMT DEF TypeOK
  <2>4. ReaderWakeupPending' /\ TakeInv' BY <1>1, <2>2 DEF ReaderWakeupPending, TakeInv
  <2> QED BY <2>3, <2>4
<1>6. CASE ReadCopy(r)
  BY <1>6, SMT DEF ReadCopy, TypeOK, ReaderWakeupPending, TakeInv
<1> QED BY <1>2, <1>3, <1>4, <1>5, <1>6 DEF kbdmon_read

\* Every step keeps the inductive invariant.
LEMMA StepInv == ASSUME OneReader PROVE IInv /\ [Next]_vars => IInv'
<1> SUFFICES ASSUME IInv, [Next]_vars PROVE IInv' OBVIOUS
<1>1. CASE Next BY <1>1, KeyboardInv, ReaderInv DEF Next
<1>2. CASE UNCHANGED vars
  BY <1>2 DEF vars, IInv, RingInv, TypeOK, ReaderWakeupPending, TakeInv
<1> QED BY <1>1, <1>2

\* kbdmon: a single reader that sleeps beside an event has its wake-up on the way,
LEMMA RingWakes == ASSUME OneReader PROVE Spec => []RingInv
<1>1. IInv => RingInv BY DEF IInv
<1> QED BY <1>1, InitInv, StepInv, PTL DEF Spec

-----------------------------------------------------------------------------
\* The ring between tail and head: how many events, and where they are.
Held == IF head >= tail THEN head - tail ELSE head - tail + BUF_SIZE
Slot(first, i) == IF first + i - 1 < BUF_SIZE THEN first + i - 1 ELSE first + i - 1 - BUF_SIZE

PendingOnRing == /\ Held \in 0 .. BUF_SIZE - 1
                 /\ Held = 0 <=> head = tail
                 /\ Pending \in Seq(Stored)
                 /\ Len(Pending) = Held
                 /\ \A i \in 1 .. Held : /\ Slot(tail, i) \in Slots
                                         /\ Slot(tail, i) # head
                                         /\ Pending[i] = ring[Slot(tail, i)]

\* A position less than two turns ahead wraps around at most once.
LEMMA Wrap ==
    \A i \in 0 .. 2 * BUF_SIZE - 1 :
        i % BUF_SIZE = IF i < BUF_SIZE THEN i ELSE i - BUF_SIZE
BY SMT

\* In a state of the right types the ring holds a sequence of Held events, none of
\* them in the slot that the next push takes.
LEMMA PendingAt == TypeOK => PendingOnRing
<1> SUFFICES ASSUME TypeOK PROVE PendingOnRing OBVIOUS
<1>t. /\ head \in 0 .. BUF_SIZE - 1 /\ tail \in 0 .. BUF_SIZE - 1
      /\ ring \in [0 .. BUF_SIZE - 1 -> Stored]
  BY DEF TypeOK, Slots, Stored
<1>1. Held \in 0 .. BUF_SIZE - 1 /\ (Held = 0 <=> head = tail) BY <1>t, SMT DEF Held
<1>2. (head - tail) % BUF_SIZE = Held BY <1>t, SMT DEF Held
<1>3. ASSUME NEW i \in 1 .. Held
      PROVE  /\ (tail + i - 1) % BUF_SIZE = Slot(tail, i)
             /\ Slot(tail, i) \in 0 .. BUF_SIZE - 1
             /\ Slot(tail, i) # head
  <2>1. tail + i - 1 \in 0 .. 2 * BUF_SIZE - 1 BY <1>t, <1>1, SMT
  <2> DEFINE k == tail + i - 1
  <2>2. Slot(tail, i) = IF k < BUF_SIZE THEN k ELSE k - BUF_SIZE
    BY <1>t, <1>1, SMT DEF Slot
  <2>4. k % BUF_SIZE = Slot(tail, i)
    <3> HIDE DEF k
    <3> QED BY <2>1, <2>2, Wrap DEF k
  <2>3. Slot(tail, i) \in 0 .. BUF_SIZE - 1 /\ Slot(tail, i) # head
    BY <1>t, <1>1, SMT DEF Slot, Held
  <2> QED BY <2>3, <2>4
<1>4. Pending = [i \in 1 .. Held |-> ring[(tail + i - 1) % BUF_SIZE]] BY <1>2 DEF Pending
<1>5. Pending = [i \in 1 .. Held |-> ring[Slot(tail, i)]] BY <1>3, <1>4
<1>6. \A i \in 1 .. Held : ring[Slot(tail, i)] \in Stored BY <1>t, <1>3
<1>7. Held \in Nat BY <1>1, SMT
<1>8. Pending \in Seq(Stored) /\ Len(Pending) = Held
  <2> HIDE DEF Held, Slot
  <2> QED BY <1>5, <1>6, <1>7, SMT
<1>9. \A i \in 1 .. Held : Pending[i] = ring[Slot(tail, i)] BY <1>5
<1> QED BY <1>1, <1>3, <1>8, <1>9 DEF PendingOnRing, Slots

\* Taking the slot at the tail of a ring with events takes the oldest off.
LEMMA TakeIsTail ==
    ASSUME TypeOK, TypeOK', head # tail, tail' = Advance(tail), UNCHANGED <<ring, head>>
    PROVE  Pending # <<>> /\ Head(Pending) = ring[tail] /\ Pending' = Tail(Pending)
<1>c. PendingOnRing /\ PendingOnRing' BY PendingAt, PTL
<1>t. /\ head \in 0 .. BUF_SIZE - 1 /\ tail \in 0 .. BUF_SIZE - 1
      /\ tail' = IF tail = BUF_SIZE - 1 THEN 0 ELSE tail + 1
  BY NextSlot DEF TypeOK, Slots
<1>1. Held \in 1 .. BUF_SIZE - 1 /\ Held' = Held - 1 BY <1>t, SMT DEF Held
<1>2. Pending # <<>> BY <1>c, <1>1, SMT DEF PendingOnRing
<1>3. Head(Pending) = ring[tail]
  <2>1. Slot(tail, 1) = tail /\ 1 \in 1 .. Held BY <1>t, <1>1, SMT DEF Slot
  <2>2. Head(Pending) = Pending[1] BY <1>c, <1>2 DEF PendingOnRing
  <2> QED BY <1>c, <2>1, <2>2 DEF PendingOnRing
<1>4. /\ Tail(Pending) \in Seq(Stored)
      /\ Len(Tail(Pending)) = Held - 1
      /\ \A i \in 1 .. Held - 1 : Tail(Pending)[i] = Pending[i + 1]
  BY <1>c, <1>2, HeadTailProperties DEF PendingOnRing
<1>5. ASSUME NEW i \in 1 .. Held - 1 PROVE Pending'[i] = Tail(Pending)[i]
  <2>1. /\ Slot(tail', i) = Slot(tail, i + 1)
        /\ i \in 1 .. Held' /\ i + 1 \in 1 .. Held
    BY <1>t, <1>1, SMT DEF Slot
  <2>2. Pending'[i] = ring'[Slot(tail', i)] BY <1>c, <2>1 DEF PendingOnRing, Slot
  <2>3. Pending[i + 1] = ring[Slot(tail, i + 1)] BY <1>c, <2>1 DEF PendingOnRing
  <2> QED BY <1>4, <2>1, <2>2, <2>3
<1>6. Pending' \in Seq(Stored) /\ Len(Pending') = Held - 1 BY <1>c, <1>1 DEF PendingOnRing
<1>7. Pending' = Tail(Pending) BY <1>4, <1>5, <1>6, SeqEqual
<1> QED BY <1>2, <1>3, <1>7

\* A push puts its event behind the youngest; when that leaves no slot free, it drops
\* the oldest.
LEMMA PushIsArrive ==
    ASSUME TypeOK, TypeOK', NEW e \in Events,
           ring' = [ring EXCEPT ![head] = e],
           head' = Advance(head),
           tail' = IF Advance(head) = tail THEN Advance(tail) ELSE tail
    PROVE  Pending' = LET all == Append(Pending, e)
                      IN  IF Len(all) > BUF_SIZE - 1 THEN Tail(all) ELSE all
<1>c. PendingOnRing /\ PendingOnRing' BY PendingAt, PTL
<1>t. /\ head \in 0 .. BUF_SIZE - 1 /\ tail \in 0 .. BUF_SIZE - 1
      /\ head' = IF head = BUF_SIZE - 1 THEN 0 ELSE head + 1
      /\ Advance(tail) = IF tail = BUF_SIZE - 1 THEN 0 ELSE tail + 1
      /\ tail' = IF head' = tail THEN Advance(tail) ELSE tail
  BY NextSlot DEF TypeOK, Slots
<1> DEFINE all == Append(Pending, e)
<1>1. /\ all \in Seq(Stored) /\ all # <<>>
      /\ Len(all) = Held + 1
      /\ \A i \in 1 .. Held : all[i] = Pending[i]
      /\ all[Held + 1] = e
  <2>1. e \in Stored BY DEF Stored
  <2> QED BY <1>c, <2>1, AppendProperties DEF PendingOnRing
<1>2. ring'[head] = e /\ \A i \in Slots : i # head => ring'[i] = ring[i]
  BY DEF TypeOK
<1>3. ASSUME NEW i \in 1 .. Held + 1 PROVE ring'[Slot(tail, i)] = all[i]
  <2>1. CASE i = Held + 1
    <3>1. Slot(tail, i) = head BY <1>t, <2>1, SMT DEF Slot, Held
    <3> QED BY <1>1, <1>2, <2>1, <3>1
  <2>2. CASE i # Held + 1
    <3>0. Held \in 0 .. BUF_SIZE - 1 BY <1>c DEF PendingOnRing
    <3>1. i \in 1 .. Held BY <2>2, <3>0, SMT
    <3> QED BY <1>c, <1>1, <1>2, <3>1 DEF PendingOnRing
  <2> QED BY <2>1, <2>2
<1>h. Held \in 0 .. BUF_SIZE - 1 BY <1>c DEF PendingOnRing
<1>p. Pending' \in Seq(Stored) /\ Len(Pending') = Held' BY <1>c DEF PendingOnRing
<1>q. \A i \in 1 .. Held' : Pending'[i] = ring'[Slot(tail', i)]
  BY <1>c DEF PendingOnRing, Slot
<1> HIDE DEF all
<1>4. CASE head' # tail
  <2>1. tail' = tail /\ Held' = Held + 1 /\ ~(Held + 1 > BUF_SIZE - 1)
    BY <1>t, <1>h, <1>4, SMT DEF Held
  <2>2. \A i \in 1 .. Len(Pending') : Pending'[i] = all[i]
    BY <1>3, <1>p, <1>q, <2>1
  <2>3. Pending' = all BY <1>1, <1>p, <2>1, <2>2, SeqEqual
  <2> QED BY <1>1, <2>1, <2>3 DEF all
<1>5. CASE head' = tail
  <2>1. tail' = Advance(tail) /\ Held = BUF_SIZE - 1 /\ Held' = Held /\ Held + 1 > BUF_SIZE - 1
    BY <1>t, <1>h, <1>5, SMT DEF Held
  <2>2. /\ Tail(all) \in Seq(Stored) /\ Len(Tail(all)) = Held
        /\ \A i \in 1 .. Held : Tail(all)[i] = all[i + 1]
    BY <1>1, <1>h, HeadTailProperties, SMT
  <2>3. ASSUME NEW i \in 1 .. Held' PROVE Pending'[i] = Tail(all)[i]
    <3>1. Slot(tail', i) = Slot(tail, i + 1) /\ i + 1 \in 1 .. Held + 1 /\ i \in 1 .. Held
      BY <1>t, <1>h, <2>1, SMT DEF Slot
    <3> QED BY <1>3, <1>q, <2>2, <3>1
  <2>4. Pending' = Tail(all) BY <1>p, <2>1, <2>2, <2>3, SeqEqual
  <2> QED BY <1>1, <2>1, <2>4 DEF all
<1> QED BY <1>4, <1>5

\* Taking the slot at the tail of an empty ring makes every slot but one look unread.
LEMMA TakeIsRelapse ==
    ASSUME TypeOK, TypeOK', head = tail, tail' = Advance(tail), UNCHANGED <<ring, head>>
    PROVE  Pending = <<>> /\ Pending' \in [1 .. BUF_SIZE - 1 -> Stored]
<1>c. PendingOnRing /\ PendingOnRing' BY PendingAt, PTL
<1>t. /\ head \in 0 .. BUF_SIZE - 1 /\ tail \in 0 .. BUF_SIZE - 1
      /\ tail' = IF tail = BUF_SIZE - 1 THEN 0 ELSE tail + 1
  BY NextSlot DEF TypeOK, Slots
<1>1. Held = 0 /\ Held' = BUF_SIZE - 1 BY <1>t, SMT DEF Held
<1>2. Pending = <<>> BY <1>c, <1>1, SMT DEF PendingOnRing
<1>3. Pending' \in Seq(Stored) /\ Len(Pending') = BUF_SIZE - 1 BY <1>c, <1>1 DEF PendingOnRing
<1>4. Pending' \in [1 .. BUF_SIZE - 1 -> Stored] BY <1>3, LenProperties
<1> QED BY <1>2, <1>4

QueueStep == [Queue!Next]_(Queue!abstractVars)

\* A step that touches neither the ring nor an event taken is invisible.
LEMMA Invisible == ASSUME UNCHANGED <<ring, head, tail, ev>> PROVE QueueStep
BY Zenon DEF QueueStep, Queue!abstractVars, Pending

\* Every step of the ring is a step of the queue or leaves it alone.
LEMMA StepRefines == IInv /\ IInv' /\ [Next]_vars => QueueStep
<1> SUFFICES ASSUME IInv, IInv', [Next]_vars PROVE QueueStep OBVIOUS
<1>t. TypeOK /\ TypeOK' BY DEF IInv, RingInv
<1>1. ASSUME NEW k \in Keyboards, push_wake(k) PROVE QueueStep
  BY <1>1, Invisible DEF push_wake
<1>2. ASSUME NEW k \in Keyboards, NEW e \in Events, push_event(k, e) PROVE QueueStep
  <2>1. Queue!Arrive(e) BY <1>t, <1>2, PushIsArrive DEF push_event, Queue!Arrive
  <2> QED BY <2>1 DEF QueueStep, Queue!Next
<1>3. ASSUME NEW r \in Readers, ReadBegin(r) \/ ReadWait(r) \/ ReadInterrupted(r) PROVE QueueStep
  BY <1>3, Invisible DEF ReadBegin, ReadWait, ReadInterrupted
<1>4. ASSUME NEW r \in Readers, ReadTake(r) PROVE QueueStep
  <2>1. /\ ev' = [ev EXCEPT ![r] = ring[tail]] /\ tail' = Advance(tail)
        /\ UNCHANGED <<ring, head>> /\ pc[r] = "rd_take"
    BY <1>4 DEF ReadTake
  <2>2. CASE head # tail
    <3>1. Queue!Take(r) BY <1>t, <2>1, <2>2, TakeIsTail DEF Queue!Take
    <3> QED BY <3>1 DEF QueueStep, Queue!Next
  <2>3. CASE head = tail
    <3>1. Signals BY <2>1, <2>3 DEF IInv, TakeInv
    <3>2. Pending = <<>> /\ Pending' \in [1 .. BUF_SIZE - 1 -> Stored]
      BY <1>t, <2>1, <2>3, TakeIsRelapse
    <3>3. ring[tail] \in Stored BY <1>t DEF TypeOK, Stored
    <3>4. Queue!Relapse(r) BY <2>1, <3>1, <3>2, <3>3 DEF Queue!Relapse, Stored
    <3> QED BY <3>4 DEF QueueStep, Queue!Next
  <2> QED BY <2>2, <2>3
<1>5. ASSUME NEW r \in Readers, ReadCopy(r) PROVE QueueStep
  <2>1. UNCHANGED Pending BY <1>5, Zenon DEF ReadCopy, Pending
  <2>2. Queue!Finish(r) BY <1>5, <2>1 DEF ReadCopy, Queue!Finish
  <2> QED BY <2>2 DEF QueueStep, Queue!Next
<1>6. CASE UNCHANGED vars BY <1>6, Invisible DEF vars
<1> QED BY <1>1, <1>2, <1>3, <1>4, <1>5, <1>6 DEF Next, kbdmon_read

\* and every step of the ring maps to a step of the queue or to none.
LEMMA RingRefines == ASSUME OneReader PROVE Spec => ImplementsKeyQueue
<1>1. Init => Queue!Init
  <2> SUFFICES ASSUME Init PROVE Queue!Init OBVIOUS
  <2>1. PendingOnRing BY InitInv, PendingAt DEF IInv, RingInv
  <2>2. Held = 0 BY SMT DEF Init, Held
  <2>3. Pending = <<>> BY <2>1, <2>2, SMT DEF PendingOnRing
  <2> QED BY <2>3 DEF Init, Queue!Init
<1> QED BY InitInv, StepInv, StepRefines, <1>1, PTL
        DEF Spec, ImplementsKeyQueue, Queue!Spec, QueueStep

-----------------------------------------------------------------------------
(* The monitors *)

\* The ring under the input core is the ring: the core, and the monitors that are
\* loaded in its place, leave it alone.
LEMMA MonitorsKeepRing == MonitorsSpec => Spec
<1> USE DEF Ring, Log, Detect, Time
<1>1. MonitorsInit => Init BY DEF MonitorsInit
<1>2. [MonitorsNext]_monitorsVars => [Next]_vars
  <2> SUFFICES ASSUME [MonitorsNext]_monitorsVars PROVE [Next]_vars OBVIOUS
  <2>1. CASE UNCHANGED monitorsVars BY <2>1 DEF monitorsVars
  <2>2. CASE MonitorStep
    BY <2>2 DEF MonitorStep, Next, monitorsVars
  <2>3. ASSUME NEW k \in Keyboards, Plug(k) \/ Unplug(k) \/ Disconnect(k) PROVE UNCHANGED vars
    BY <2>3 DEF Plug, Unplug, Disconnect
  <2>4. ASSUME NEW k \in Keyboards, NEW key \in KeysOf[loaded], NEW val \in {0, 1, 2},
               InputEvent(k, key, val)
        PROVE  [Next]_vars
    <3> DEFINE e == [code |-> key, value |-> val]
    <3>1. kbdmon_event(k, e) BY <2>4 DEF InputEvent
    <3>2. CASE Ring(push_event(k, e))
      <4>1. e \in Events BY <3>2, MonitorsAssumption
      <4> QED BY <3>2, <4>1 DEF Next
    <3>3. CASE ~Ring(push_event(k, e))
      BY <3>1, <3>3 DEF kbdmon_event
    <3> QED BY <3>2, <3>3
  <2> QED BY <2>1, <2>2, <2>3, <2>4 DEF MonitorsNext
<1> QED BY <1>1, <1>2, PTL DEF MonitorsSpec, Spec

\* push_event and kbdmon_read: a single reader that sleeps beside an event has a
\* keyboard that is about to wake it, whatever is plugged in and out.
THEOREM NoMissedWakeup == ASSUME OneReader PROVE MonitorsSpec => []RingInv
BY RingWakes, MonitorsKeepRing, PTL

\* With one reader, and whatever the keyboards, the ring is the queue of the last
\* BUF_SIZE - 1 events until a signal ends the wait of a read on an empty ring.
THEOREM Refinement == ASSUME OneReader PROVE MonitorsSpec => ImplementsKeyQueue
BY RingRefines, MonitorsKeepRing, PTL

-----------------------------------------------------------------------------
(* The key logger *)

LogTypes ==
    /\ logbuf \in [0 .. LOG_SIZE - 1 -> KeysOf["keylogger"] \cup {NUL}]
    /\ logpos \in Nat
    /\ log_pc \in [Keyboards -> {"idle", "load", "both", "store", "bump"}]
    /\ log_key \in [Keyboards -> KeysOf["keylogger"] \cup {NUL}]
    /\ log_at \in [Keyboards -> Nat]
    /\ exfil \in {"off", "armed", "load", "terminate", "print", "reset", "rearm"}
    /\ exfil_at \in Nat
    /\ typed \in Seq(KeysOf["keylogger"])
    /\ overrun \in BOOLEAN /\ raced \in BOOLEAN /\ crossed \in BOOLEAN

\* At most one callback is in the log.
Alone == \A k, l \in Keyboards : log_pc[k] # "idle" /\ log_pc[l] # "idle" => k = l

\* As long as callbacks have not run into each other, what one has tested still holds
\* when it stores, and the last byte is nobody's.
LastByteFree ==
    ~crossed =>
        /\ Alone
        /\ logpos <= LOG_SIZE - 1 /\ exfil_at <= LOG_SIZE - 1
        /\ \A k \in Keyboards :
               /\ log_pc[k] = "load" => logpos < LOG_SIZE - 1
               /\ log_pc[k] \in {"both", "store", "bump"} => log_at[k] < LOG_SIZE - 1
        /\ ~overrun
        /\ logbuf[LOG_SIZE - 1] = NUL

\* The first n bytes of the log are the first n keys that were typed.
Logged(n) == n \in 0 .. Len(typed) /\ \A i \in 1 .. n : logbuf[i - 1] = typed[i]

\* Without a race there is at most one callback in the log, none while the handler
\* is, and the log holds what was typed, but for what that callback has yet to do.
Intact ==
    ~raced =>
        /\ Alone
        /\ Logger!Handling => \A k \in Keyboards : log_pc[k] = "idle"
        /\ Len(typed) <= LOG_SIZE - 1
        /\ (\A k \in Keyboards : log_pc[k] = "idle") => logpos = Len(typed) /\ Logged(Len(typed))
        /\ \A k \in Keyboards : log_pc[k] # "idle" =>
               /\ log_pc[k] # "load" => log_at[k] = Len(typed) - 1
               /\ typed[Len(typed)] = log_key[k]
               /\ logpos = IF log_pc[k] = "store" THEN Len(typed) ELSE Len(typed) - 1
               /\ Logged(IF log_pc[k] = "bump" THEN Len(typed) ELSE Len(typed) - 1)
        /\ exfil = "terminate" => exfil_at = logpos
        /\ exfil = "print" => logbuf[Len(typed)] = NUL

LogInv == LogTypes /\ LastByteFree /\ Intact

\* The log starts empty.
LEMMA LogInitInv == Logger!LoggerInit => LogInv
<1> SUFFICES ASSUME Logger!LoggerInit PROVE LogInv OBVIOUS
<1> USE DEF Logger!LoggerInit
<1>1. typed = <<>> /\ Len(typed) = 0 /\ typed \in Seq(KeysOf["keylogger"]) OBVIOUS
<1>2. LogTypes
  <2>1. 0 \in Nat OBVIOUS
  <2>2. /\ logbuf \in [0 .. LOG_SIZE - 1 -> KeysOf["keylogger"] \cup {NUL}]
        /\ log_pc \in [Keyboards -> {"idle", "load", "both", "store", "bump"}]
        /\ log_key \in [Keyboards -> KeysOf["keylogger"] \cup {NUL}]
        /\ log_at \in [Keyboards -> Nat]
    BY <2>1
  <2> QED BY <1>1, <2>1, <2>2 DEF LogTypes
<1>3. \A k \in Keyboards : log_pc[k] = "idle" OBVIOUS
<1>4. LastByteFree
  <2>1. LOG_SIZE - 1 \in 0 .. LOG_SIZE - 1 /\ 0 <= LOG_SIZE - 1 BY MonitorsAssumption
  <2>2. logbuf[LOG_SIZE - 1] = NUL BY <2>1
  <2> QED BY <1>3, <2>1, <2>2 DEF LastByteFree, Alone
<1>5. Intact
  <2>1. 0 <= LOG_SIZE - 1 BY MonitorsAssumption
  <2> QED BY <1>1, <1>3, <2>1 DEF Intact, Alone, Logged, Logger!Handling
<1> QED BY <1>2, <1>4, <1>5 DEF LogInv

\* kbdmon_event: the key joins those typed, unless somebody else is in the log.
LEMMA LogPressInv ==
    ASSUME LogInv, NEW k \in Keyboards, NEW c \in KeysOf["keylogger"], Logger!LogPress(k, c)
    PROVE  LogInv'
<1> USE DEF LogInv
<1>1. /\ log_pc[k] = "idle" /\ logpos < LOG_SIZE - 1
      /\ log_pc' = [log_pc EXCEPT ![k] = "load"]
      /\ log_key' = [log_key EXCEPT ![k] = c]
      /\ raced' = (raced \/ Logger!Handling \/ Logger!Logging # {})
      /\ crossed' = (crossed \/ Logger!Logging # {})
      /\ typed' = IF raced' THEN <<>> ELSE Append(typed, c)
      /\ UNCHANGED <<logbuf, logpos, overrun, log_at, exfil, exfil_at>>
  BY DEF Logger!LogPress, Logger!log, Logger!handler
<1>2. raced' \in BOOLEAN /\ crossed' \in BOOLEAN BY <1>1
<1>3. typed' \in Seq(KeysOf["keylogger"])
  <2>1. <<>> \in Seq(KeysOf["keylogger"]) OBVIOUS
  <2>2. Append(typed, c) \in Seq(KeysOf["keylogger"]) BY DEF LogTypes
  <2> QED BY <1>1, <2>1, <2>2
<1>4. LogTypes' BY <1>1, <1>2, <1>3 DEF LogTypes
<1>5. \A l \in Keyboards : l # k => log_pc'[l] = log_pc[l] BY <1>1 DEF LogTypes
<1>6. log_pc'[k] = "load" BY <1>1 DEF LogTypes
<1>7. LastByteFree'
  <2> SUFFICES ASSUME ~crossed' PROVE LastByteFree' BY DEF LastByteFree
  <2>1. ~crossed /\ \A l \in Keyboards : log_pc[l] = "idle" BY <1>1 DEF Logger!Logging
  <2>2. \A l \in Keyboards : l # k => log_pc'[l] = "idle" BY <1>5, <2>1
  <2>3. Alone' BY <1>6, <2>2 DEF Alone
  <2>4. \A l \in Keyboards : log_pc'[l] \notin {"both", "store", "bump"} BY <1>6, <2>2
  <2> QED BY <1>1, <2>1, <2>3, <2>4 DEF LastByteFree
<1>8. Intact'
  <2> SUFFICES ASSUME ~raced' PROVE Intact' BY DEF Intact
  <2>1. /\ ~raced /\ ~Logger!Handling /\ \A l \in Keyboards : log_pc[l] = "idle"
        /\ typed' = Append(typed, c)
    BY <1>1 DEF Logger!Logging
  <2>2. logpos = Len(typed) /\ \A i \in 1 .. Len(typed) : logbuf[i - 1] = typed[i]
    BY <2>1 DEF Intact, Logged
  <2>3. /\ Len(typed') = Len(typed) + 1 /\ Len(typed) \in Nat /\ typed'[Len(typed) + 1] = c
        /\ \A i \in 1 .. Len(typed) : typed'[i] = typed[i]
    BY <2>1 DEF LogTypes
  <2>4. Logged(Len(typed) - 1)' BY <1>1, <2>2, <2>3 DEF Logged
  <2>5. log_key'[k] = c BY <1>1 DEF LogTypes
  <2>6. \A l \in Keyboards : l # k => log_pc'[l] = "idle" BY <1>5, <2>1
  <2>7. Alone' BY <2>6 DEF Alone
  <2>8. ~Logger!Handling' BY <1>1, <2>1 DEF Logger!Handling
  <2>9. /\ typed'[Len(typed')] = log_key'[k] /\ logpos' = Len(typed') - 1
        /\ Len(typed') <= LOG_SIZE - 1
    BY <1>1, <2>2, <2>3, <2>5, MonitorsAssumption
  <2> QED BY <1>6, <2>4, <2>6, <2>7, <2>8, <2>9 DEF Intact, Logger!Handling
<1> QED BY <1>4, <1>7, <1>8

\* The load of the position that was tested.
LEMMA LogLoadInv ==
    ASSUME LogInv, NEW k \in Keyboards, Logger!LogLoad(k) PROVE LogInv'
<1> USE DEF LogInv
<1>1. /\ log_pc[k] = "load"
      /\ log_at' = [log_at EXCEPT ![k] = logpos]
      /\ log_pc' = [log_pc EXCEPT ![k] = "both"]
      /\ UNCHANGED <<logbuf, logpos, overrun, log_key, exfil, exfil_at, typed, raced, crossed>>
  BY DEF Logger!LogLoad, Logger!log, Logger!handler, Logger!ghosts
<1>2. LogTypes' BY <1>1 DEF LogTypes
<1>3. /\ log_pc'[k] = "both" /\ log_at'[k] = logpos
      /\ \A l \in Keyboards : l # k => log_pc'[l] = log_pc[l] /\ log_at'[l] = log_at[l]
  BY <1>1 DEF LogTypes
<1>4. Alone => Alone' BY <1>1, <1>3 DEF Alone
<1>5. LastByteFree' BY <1>1, <1>3, <1>4 DEF LastByteFree
<1>6. Intact'
  <2> SUFFICES ASSUME ~raced PROVE Intact' BY <1>1 DEF Intact
  <2>1. /\ typed[Len(typed)] = log_key[k] /\ logpos = Len(typed) - 1
        /\ Logged(Len(typed) - 1) /\ ~Logger!Handling /\ Len(typed) <= LOG_SIZE - 1
        /\ \A l \in Keyboards : l # k => log_pc[l] = "idle"
    BY <1>1 DEF Intact, Alone
  <2>2. Logged(Len(typed) - 1)' BY <1>1, <2>1 DEF Logged
  <2>3. ~Logger!Handling' BY <1>1, <2>1 DEF Logger!Handling
  <2>4. Alone' BY <1>4 DEF Intact
  <2> QED BY <1>1, <1>3, <2>1, <2>2, <2>3, <2>4 DEF Intact, Logger!Handling
<1> QED BY <1>2, <1>5, <1>6

\* A callback that goes on to "to", or ends, after one of its stores.
CallbackGoes(k, to) ==
    \/ log_pc' = [log_pc EXCEPT ![k] = to] /\ UNCHANGED <<log_key, log_at>>
    \/ /\ log_pc' = [log_pc EXCEPT ![k] = "idle"]
       /\ log_key' = [log_key EXCEPT ![k] = NUL] /\ log_at' = [log_at EXCEPT ![k] = 0]

LEMMA CallbackTypes ==
    ASSUME LogTypes, NEW k \in Keyboards, NEW to \in {"store", "bump"}, CallbackGoes(k, to)
    PROVE  /\ log_pc' \in [Keyboards -> {"idle", "load", "both", "store", "bump"}]
           /\ log_key' \in [Keyboards -> KeysOf["keylogger"] \cup {NUL}]
           /\ log_at' \in [Keyboards -> Nat]
           /\ log_pc'[k] \in {"idle", to}
           /\ log_pc'[k] = to => log_at'[k] = log_at[k] /\ log_key'[k] = log_key[k]
           /\ \A l \in Keyboards : l # k => log_pc'[l] = log_pc[l] /\ log_at'[l] = log_at[l]
<1>1. CASE log_pc' = [log_pc EXCEPT ![k] = to] /\ UNCHANGED <<log_key, log_at>>
  BY <1>1 DEF LogTypes
<1>2. CASE /\ log_pc' = [log_pc EXCEPT ![k] = "idle"]
           /\ log_key' = [log_key EXCEPT ![k] = NUL] /\ log_at' = [log_at EXCEPT ![k] = 0]
  <2>1. NUL \in KeysOf["keylogger"] \cup {NUL} /\ 0 \in Nat OBVIOUS
  <2> QED BY <1>2, <2>1 DEF LogTypes
<1> QED BY <1>1, <1>2 DEF CallbackGoes

\* The two stores of a callback, in either order.
LEMMA LogStoreInv ==
    ASSUME LogInv, NEW k \in Keyboards, Logger!LogStore(k) PROVE LogInv'
<1> USE DEF LogInv
<1>1. /\ log_pc[k] \in {"both", "store"}
      /\ Logger!Put(log_at[k], log_key[k])
      /\ UNCHANGED <<logpos, exfil, exfil_at, typed, raced, crossed>>
  BY DEF Logger!LogStore, Logger!handler, Logger!ghosts
<1>2. /\ CallbackGoes(k, "bump")
      /\ log_pc[k] = "both" => log_pc' = [log_pc EXCEPT ![k] = "bump"]
      /\ log_pc[k] = "store" => log_pc' = [log_pc EXCEPT ![k] = "idle"]
  BY DEF Logger!LogStore, Logger!LogEnd, CallbackGoes
<1>3. log_at[k] \in Nat BY DEF LogTypes
<1>4. log_at[k] < LOG_SIZE =>
         UNCHANGED overrun /\ logbuf' = [logbuf EXCEPT ![log_at[k]] = log_key[k]]
  BY <1>1 DEF Logger!Put
<1>5. LogTypes'
  <2>1. /\ logbuf' \in [0 .. LOG_SIZE - 1 -> KeysOf["keylogger"] \cup {NUL}]
        /\ overrun' \in BOOLEAN
    BY <1>1, <1>3 DEF Logger!Put, LogTypes
  <2> QED BY <1>1, <1>2, <2>1, CallbackTypes DEF LogTypes
<1>6. Alone => Alone' BY <1>1, <1>2, CallbackTypes DEF Alone
<1>7. LastByteFree'
  <2> SUFFICES ASSUME ~crossed PROVE LastByteFree' BY <1>1 DEF LastByteFree
  <2>1. log_at[k] < LOG_SIZE - 1 BY <1>1 DEF LastByteFree
  <2>2. UNCHANGED overrun /\ logbuf' = [logbuf EXCEPT ![log_at[k]] = log_key[k]]
    BY <1>3, <1>4, <2>1, MonitorsAssumption
  <2>3. logbuf'[LOG_SIZE - 1] = NUL BY <2>1, <2>2, MonitorsAssumption DEF LastByteFree, LogTypes
  <2>4. \A l \in Keyboards :
           /\ log_pc'[l] = "load" => logpos' < LOG_SIZE - 1
           /\ log_pc'[l] \in {"both", "store", "bump"} => log_at'[l] < LOG_SIZE - 1
    BY <1>1, <1>2, <2>1, CallbackTypes DEF LastByteFree
  <2> QED BY <1>1, <1>6, <2>2, <2>3, <2>4 DEF LastByteFree
<1>8. Intact'
  <2> SUFFICES ASSUME ~raced PROVE Intact' BY <1>1 DEF Intact
  <2>1. /\ log_at[k] = Len(typed) - 1 /\ typed[Len(typed)] = log_key[k]
        /\ logpos = IF log_pc[k] = "store" THEN Len(typed) ELSE Len(typed) - 1
        /\ Logged(Len(typed) - 1)
        /\ ~Logger!Handling
        /\ Len(typed) <= LOG_SIZE - 1
        /\ \A l \in Keyboards : l # k => log_pc[l] = "idle"
    BY <1>1 DEF Intact, Alone
  <2>2. Len(typed) \in Nat /\ Len(typed) >= 1
    <3>1. Len(typed) \in Nat BY DEF LogTypes
    <3> QED BY <1>3, <2>1, <3>1
  <2>3. logbuf' = [logbuf EXCEPT ![log_at[k]] = log_key[k]]
    BY <1>3, <1>4, <2>1, <2>2, MonitorsAssumption
  <2>4. logbuf'[Len(typed) - 1] = typed[Len(typed)]
        /\ \A i \in 0 .. Len(typed) - 2 : logbuf'[i] = logbuf[i]
    BY <2>1, <2>2, <2>3, MonitorsAssumption DEF LogTypes
  <2>5. Logged(Len(typed))' BY <1>1, <2>1, <2>2, <2>4 DEF Logged
  <2>6. \A l \in Keyboards : l # k => log_pc'[l] = "idle" BY <1>2, <2>1, CallbackTypes
  <2>7. ~Logger!Handling' BY <1>1, <2>1 DEF Logger!Handling
  <2>8. Alone' BY <2>6 DEF Alone
  <2>9. CASE log_pc[k] = "both"
    <3>1. log_pc'[k] = "bump" /\ log_at'[k] = log_at[k] /\ log_key'[k] = log_key[k]
      BY <1>2, <2>9, CallbackTypes DEF LogTypes
    <3> QED BY <1>1, <2>1, <2>5, <2>6, <2>7, <2>8, <2>9, <3>1 DEF Intact, Logger!Handling
  <2>10. CASE log_pc[k] = "store"
    <3>1. log_pc'[k] = "idle" BY <1>2, <2>10 DEF LogTypes
    <3> QED BY <1>1, <2>1, <2>5, <2>6, <2>7, <2>8, <2>10, <3>1 DEF Intact, Logger!Handling
  <2> QED BY <1>1, <2>9, <2>10
<1> QED BY <1>5, <1>7, <1>8

\* The increment of the position, before or after the store.
LEMMA LogBumpInv ==
    ASSUME LogInv, NEW k \in Keyboards, Logger!LogBump(k) PROVE LogInv'
<1> USE DEF LogInv
<1>1. /\ log_pc[k] \in {"both", "bump"}
      /\ logpos' = log_at[k] + 1
      /\ UNCHANGED <<logbuf, overrun, exfil, exfil_at, typed, raced, crossed>>
  BY DEF Logger!LogBump, Logger!handler, Logger!ghosts
<1>2. /\ CallbackGoes(k, "store")
      /\ log_pc[k] = "both" => log_pc' = [log_pc EXCEPT ![k] = "store"]
      /\ log_pc[k] = "bump" => log_pc' = [log_pc EXCEPT ![k] = "idle"]
  BY DEF Logger!LogBump, Logger!LogEnd, CallbackGoes
<1>3. log_at[k] \in Nat BY DEF LogTypes
<1>4. LogTypes'
  <2>1. logpos' \in Nat BY <1>1, <1>3
  <2> QED BY <1>1, <1>2, <2>1, CallbackTypes DEF LogTypes
<1>5. Alone => Alone' BY <1>1, <1>2, CallbackTypes DEF Alone
<1>6. LastByteFree'
  <2> SUFFICES ASSUME ~crossed PROVE LastByteFree' BY <1>1 DEF LastByteFree
  <2>1. log_at[k] < LOG_SIZE - 1 BY <1>1 DEF LastByteFree
  <2>2. logpos' <= LOG_SIZE - 1 BY <1>1, <1>3, <2>1, MonitorsAssumption
  <2>3. \A l \in Keyboards :
           /\ log_pc'[l] # "load"
           /\ log_pc'[l] \in {"both", "store", "bump"} => log_at'[l] < LOG_SIZE - 1
    BY <1>1, <1>2, <2>1, CallbackTypes DEF LastByteFree, Alone
  <2> QED BY <1>1, <1>5, <2>2, <2>3 DEF LastByteFree
<1>7. Intact'
  <2> SUFFICES ASSUME ~raced PROVE Intact' BY <1>1 DEF Intact
  <2>1. /\ log_at[k] = Len(typed) - 1 /\ typed[Len(typed)] = log_key[k]
        /\ IF log_pc[k] = "bump" THEN Logged(Len(typed)) ELSE Logged(Len(typed) - 1)
        /\ ~Logger!Handling
        /\ Len(typed) <= LOG_SIZE - 1
        /\ \A l \in Keyboards : l # k => log_pc[l] = "idle"
    BY <1>1 DEF Intact, Alone
  <2>2. Len(typed) \in Nat /\ logpos' = Len(typed)
    <3>1. Len(typed) \in Nat BY DEF LogTypes
    <3> QED BY <1>1, <2>1, <3>1
  <2>3. IF log_pc[k] = "bump" THEN Logged(Len(typed))' ELSE Logged(Len(typed) - 1)'
    BY <1>1, <2>1 DEF Logged
  <2>4. \A l \in Keyboards : l # k => log_pc'[l] = "idle" BY <1>2, <2>1, CallbackTypes
  <2>5. ~Logger!Handling' BY <1>1, <2>1 DEF Logger!Handling
  <2>6. Alone' BY <2>4 DEF Alone
  <2>7. CASE log_pc[k] = "both"
    <3>1. log_pc'[k] = "store" /\ log_at'[k] = log_at[k] /\ log_key'[k] = log_key[k]
      BY <1>2, <2>7, CallbackTypes DEF LogTypes
    <3> QED BY <1>1, <2>1, <2>2, <2>3, <2>4, <2>5, <2>6, <2>7, <3>1 DEF Intact, Logger!Handling
  <2>8. CASE log_pc[k] = "bump"
    <3>1. log_pc'[k] = "idle" BY <1>2, <2>8 DEF LogTypes
    <3> QED BY <1>1, <2>1, <2>2, <2>3, <2>4, <2>5, <2>6, <2>8, <3>1 DEF Intact, Logger!Handling
  <2> QED BY <1>1, <2>7, <2>8
<1> QED BY <1>4, <1>6, <1>7

\* exfiltrate and the end of the timer.
LEMMA LogTimerInv ==
    ASSUME LogInv, Logger!exfiltrate \/ Logger!DelTimer PROVE LogInv'
<1> USE DEF LogInv, Logger!log, Logger!callback, Logger!ghosts
<1>1. CASE Logger!ExfilBegin
  <2> USE <1>1 DEF Logger!ExfilBegin
  <2>1. CASE logpos = 0
    <3>1. /\ exfil' = "rearm"
          /\ UNCHANGED <<logbuf, logpos, overrun, log_pc, log_key, log_at, exfil_at,
                         typed, raced, crossed>>
      BY <2>1
    <3> QED BY <3>1 DEF LogTypes, LastByteFree, Intact, Alone, Logged, Logger!Handling
  <2>2. CASE logpos # 0
    <3>1. /\ exfil' = "load"
          /\ raced' = (raced \/ Logger!Logging # {})
          /\ typed' = IF raced' THEN <<>> ELSE typed
          /\ UNCHANGED <<logbuf, logpos, overrun, log_pc, log_key, log_at, exfil_at, crossed>>
      BY <2>2
    <3>2. raced' \in BOOLEAN /\ typed' \in Seq(KeysOf["keylogger"])
      <4>1. <<>> \in Seq(KeysOf["keylogger"]) OBVIOUS
      <4> QED BY <3>1, <4>1 DEF LogTypes
    <3>3. LogTypes' /\ LastByteFree' BY <3>1, <3>2 DEF LogTypes, LastByteFree, Alone
    <3>4. Intact'
      <4> SUFFICES ASSUME ~raced' PROVE Intact' BY DEF Intact
      <4>1. ~raced /\ UNCHANGED typed /\ \A l \in Keyboards : log_pc[l] = "idle"
        BY <3>1 DEF Logger!Logging
      <4> QED BY <3>1, <4>1 DEF Intact, Alone, Logged
    <3> QED BY <3>3, <3>4
  <2> QED BY <2>1, <2>2
<1>2. CASE Logger!ExfilLoad
  <2>1. /\ exfil = "load" /\ exfil_at' = logpos /\ exfil' = "terminate"
        /\ UNCHANGED <<logbuf, logpos, overrun, log_pc, log_key, log_at, typed, raced, crossed>>
    BY <1>2 DEF Logger!ExfilLoad
  <2>2. LogTypes' /\ LastByteFree' BY <2>1 DEF LogTypes, LastByteFree, Alone
  <2>3. Intact' BY <2>1 DEF Intact, Alone, Logged, Logger!Handling
  <2> QED BY <2>2, <2>3
<1>3. CASE Logger!ExfilTerminate
  <2>1. /\ exfil = "terminate" /\ Logger!Put(exfil_at, NUL)
        /\ exfil' = "print" /\ exfil_at' = 0
        /\ UNCHANGED <<logpos, log_pc, log_key, log_at, typed, raced, crossed>>
    BY <1>3 DEF Logger!ExfilTerminate
  <2>2. LogTypes' BY <2>1 DEF LogTypes, Logger!Put
  <2>3. exfil_at < LOG_SIZE => UNCHANGED overrun /\ logbuf' = [logbuf EXCEPT ![exfil_at] = NUL]
    BY <2>1 DEF Logger!Put
  <2>4. LastByteFree'
    <3> SUFFICES ASSUME ~crossed PROVE LastByteFree' BY <2>1 DEF LastByteFree
    <3>1. exfil_at \in 0 .. LOG_SIZE - 1 BY MonitorsAssumption DEF LastByteFree, LogTypes
    <3>2. UNCHANGED overrun /\ logbuf' = [logbuf EXCEPT ![exfil_at] = NUL]
      BY <2>3, <3>1, MonitorsAssumption
    <3>3. logbuf'[LOG_SIZE - 1] = NUL
      BY <3>1, <3>2, MonitorsAssumption DEF LastByteFree, LogTypes
    <3>4. exfil_at' <= LOG_SIZE - 1 BY <2>1, MonitorsAssumption
    <3> QED BY <2>1, <3>2, <3>3, <3>4 DEF LastByteFree, Alone
  <2>5. Intact'
    <3> SUFFICES ASSUME ~raced PROVE Intact' BY <2>1 DEF Intact
    <3>1. /\ \A l \in Keyboards : log_pc[l] = "idle"
          /\ logpos = Len(typed) /\ Logged(Len(typed)) /\ exfil_at = Len(typed)
          /\ Len(typed) <= LOG_SIZE - 1
      BY <2>1 DEF Intact, Logger!Handling
    <3>2. Len(typed) \in Nat BY DEF LogTypes
    <3>3. logbuf' = [logbuf EXCEPT ![exfil_at] = NUL]
      BY <2>3, <3>1, <3>2, MonitorsAssumption
    <3>4. logbuf'[Len(typed)] = NUL /\ \A i \in 0 .. Len(typed) - 1 : logbuf'[i] = logbuf[i]
      BY <3>1, <3>2, <3>3, MonitorsAssumption DEF LogTypes
    <3>5. Logged(Len(typed))' BY <2>1, <3>1, <3>2, <3>4 DEF Logged
    <3> QED BY <2>1, <3>1, <3>4, <3>5 DEF Intact, Alone
  <2> QED BY <2>2, <2>4, <2>5
<1>4. CASE Logger!ExfilPrint
  BY <1>4 DEF Logger!ExfilPrint, LogTypes, LastByteFree, Intact, Alone, Logged,
         Logger!Handling
<1>5. CASE Logger!ExfilReset
  <2>1. /\ exfil = "reset" /\ exfil' = "rearm" /\ logpos' = 0 /\ typed' = <<>>
        /\ raced' = (Logger!Logging # {})
        /\ UNCHANGED <<logbuf, overrun, log_pc, log_key, log_at, exfil_at, crossed>>
    BY <1>5 DEF Logger!ExfilReset
  <2>2. LogTypes' BY <2>1 DEF LogTypes
  <2>3. LastByteFree' BY <2>1, MonitorsAssumption DEF LastByteFree, Alone, LogTypes
  <2>4. Intact'
    <3> SUFFICES ASSUME ~raced' PROVE Intact' BY DEF Intact
    <3>1. \A l \in Keyboards : log_pc'[l] = "idle" BY <2>1 DEF Logger!Logging
    <3>2. 0 <= LOG_SIZE - 1 BY MonitorsAssumption
    <3> QED BY <2>1, <3>1, <3>2 DEF Intact, Alone, Logged
  <2> QED BY <2>2, <2>3, <2>4
<1>6. CASE Logger!ExfilRearm \/ Logger!DelTimer
  <2>1. /\ exfil \in {"rearm", "armed"} /\ exfil' \in {"armed", "off"}
        /\ UNCHANGED <<logbuf, logpos, overrun, log_pc, log_key, log_at, exfil_at,
                       typed, raced, crossed>>
    BY <1>6 DEF Logger!ExfilRearm, Logger!DelTimer
  <2>2. LogTypes' /\ LastByteFree' BY <2>1 DEF LogTypes, LastByteFree, Alone
  <2>3. Intact' BY <2>1 DEF Intact, Alone, Logged, Logger!Handling
  <2> QED BY <2>2, <2>3
<1> QED BY <1>1, <1>2, <1>3, <1>4, <1>5, <1>6 DEF Logger!exfiltrate

\* The invariant of the log is about its own variables,
LEMMA LogUnchanged == ASSUME LogInv, UNCHANGED logger PROVE LogInv'
BY DEF logger, LogInv, LogTypes, LastByteFree, Intact, Alone, Logged, Logger!Handling

\* and so every step of the three monitors keeps it.
LEMMA LogStep == LogInv /\ [MonitorsNext]_monitorsVars => LogInv'
<1> SUFFICES ASSUME LogInv, [MonitorsNext]_monitorsVars PROVE LogInv' OBVIOUS
<1> USE DEF Ring, Log, Detect, Time
<1>1. CASE MonitorStep
  <2>1. CASE Logger!LoggerStep
    BY <2>1, LogLoadInv, LogStoreInv, LogBumpInv, LogTimerInv DEF Logger!LoggerStep
  <2>2. CASE UNCHANGED logger BY <2>2, LogUnchanged
  <2> QED BY <1>1, <2>1, <2>2 DEF MonitorStep, monitorsVars
<1>2. ASSUME NEW k \in Keyboards, NEW key \in KeysOf[loaded], NEW val \in {0, 1, 2},
             InputEvent(k, key, val)
      PROVE  LogInv'
  <2>1. \/ UNCHANGED logger
        \/ loaded = "keylogger" /\ (Logger!LogPress(k, key) \/ Logger!LogFull(k))
    BY <1>2 DEF InputEvent, kbdmon_event
  <2>2. Logger!LogFull(k) => UNCHANGED logger
    BY DEF Logger!LogFull, Logger!loggerVars, Logger!log, Logger!callback, Logger!handler,
           Logger!ghosts, logger
  <2> QED BY <2>1, <2>2, LogPressInv, LogUnchanged
<1>3. CASE \/ UNCHANGED monitorsVars
           \/ \E k \in Keyboards : Plug(k) \/ Unplug(k) \/ Disconnect(k)
  BY <1>3, LogUnchanged DEF monitorsVars, Plug, Unplug, Disconnect
<1> QED BY <1>1, <1>2, <1>3 DEF MonitorsNext

\* kbdmon_event and exfiltrate: as long as no callback has come between another's
\* test and its stores, the log stays in its bounds and ends with a NUL, however the
\* timer's handler runs into the callbacks; and a print that no race has spoilt is of
\* the keys pressed since the last one.
THEOREM LogStaysPrintable == MonitorsSpec => []LogPrintable
<1>1. MonitorsInit => LogInv BY LogInitInv DEF MonitorsInit
<1>2. LogInv => LogPrintable
  <2> SUFFICES ASSUME LogInv PROVE LogPrintable OBVIOUS
  <2>1. ~crossed => logpos \in 0 .. LOG_SIZE - 1
    BY MonitorsAssumption DEF LogInv, LogTypes, LastByteFree
  <2> QED BY <2>1 DEF LogInv, LastByteFree, Intact, Logged, Logger!Handling, LogPrintable,
                      Logger!LogPrintable
<1> QED BY <1>1, <1>2, LogStep, PTL DEF MonitorsSpec

-----------------------------------------------------------------------------
(* The sequence detector *)

\* A callback of the sequence detector has the event that its keyboard is in.
EventOfKeyboard ==
    \A k \in Keyboards : seq_pc[k] # "idle" /\ seq_event[k].value # 0
                         => seq_event[k].code \in held[k]

\* A flag that is set is that of a key held down, or its release is on its way.
Accounted(flag, key) ==
    flag # 0 => \E k \in Keyboards : \/ key \in held[k]
                                     \/ /\ seq_pc[k] = "flags"
                                        /\ seq_event[k] = [code |-> key, value |-> 0]

SeqTypes ==
    /\ seq_pc \in [Keyboards -> {"idle", "flags", "ctrl", "alt", "report"}]
    /\ seq_event \in [Keyboards -> [code : KeysOf["sequence"] \cup {"none"}, value : {0, 1, 2}]]
    /\ held \in [Keyboards -> SUBSET UNION {KeysOf[m] : m \in Monitors}]
    /\ loaded \in Monitors
    /\ loaded # "sequence" => /\ ctrl_down = 0 /\ alt_down = 0
                              /\ \A k \in Keyboards : seq_pc[k] = "idle"

SeqInv == /\ SeqTypes /\ EventOfKeyboard
          /\ Accounted(ctrl_down, LeftCtrl) /\ Accounted(alt_down, LeftAlt)

\* A step that changes nothing the detector knows, nor the keys held.
LEMMA SeqUnchanged == ASSUME SeqInv, UNCHANGED <<loaded, held, detector>> PROVE SeqInv'
BY DEF detector, SeqInv, SeqTypes, EventOfKeyboard, Accounted

\* kbdmon_event: the core has given the callback the event that its keyboard is in.
LEMMA SeqInputInv ==
    ASSUME SeqInv, NEW k \in Keyboards, NEW key \in KeysOf[loaded], NEW val \in {0, 1, 2},
           InputEvent(k, key, val)
    PROVE  SeqInv'
<1> USE DEF SeqInv
<1>1. /\ loaded' = loaded /\ seq_pc[k] = "idle"
      /\ held' = [held EXCEPT ![k] = IF val = 0 THEN @ \ {key} ELSE @ \cup {key}]
  BY DEF InputEvent, Returned
<1>2. held' \in [Keyboards -> SUBSET UNION {KeysOf[m] : m \in Monitors}]
  <2>1. key \in UNION {KeysOf[m] : m \in Monitors} BY DEF SeqTypes
  <2> QED BY <1>1, <2>1 DEF SeqTypes
<1>3. CASE loaded # "sequence"
  <2>1. UNCHANGED detector
    BY <1>3 DEF InputEvent, kbdmon_event, Ring, Log, Detect, Time
  <2> QED BY <1>1, <1>2, <1>3, <2>1 DEF detector, SeqTypes, EventOfKeyboard, Accounted
<1>4. CASE loaded = "sequence"
  <2> DEFINE e == [code |-> key, value |-> val]
  <2>1. Detector!SeqEvent(k, e)
    BY <1>4 DEF InputEvent, kbdmon_event, Ring, Log, Detect, Time
  <2>2. /\ seq_event' = [seq_event EXCEPT ![k] = e]
        /\ seq_pc' = [seq_pc EXCEPT ![k] = "flags"]
        /\ UNCHANGED <<ctrl_down, alt_down>>
    BY <2>1 DEF Detector!SeqEvent
  <2>3. e \in [code : KeysOf["sequence"] \cup {"none"}, value : {0, 1, 2}] BY <1>4
  <2>4. e.code = key /\ e.value = val OBVIOUS
  <2> HIDE DEF e
  <2>5. SeqTypes' BY <1>1, <1>2, <1>4, <2>2, <2>3 DEF SeqTypes
  <2>6. /\ seq_event'[k] = e /\ seq_pc'[k] = "flags"
        /\ held'[k] = IF val = 0 THEN held[k] \ {key} ELSE held[k] \cup {key}
        /\ \A l \in Keyboards : l # k =>
               seq_event'[l] = seq_event[l] /\ seq_pc'[l] = seq_pc[l] /\ held'[l] = held[l]
    BY <1>1, <2>2 DEF SeqTypes
  <2>7. EventOfKeyboard' BY <2>4, <2>6 DEF EventOfKeyboard
  <2>8. ASSUME NEW flag, NEW modifier, Accounted(flag, modifier)
        PROVE  flag # 0 => \E l \in Keyboards :
                   \/ modifier \in held'[l]
                   \/ seq_pc'[l] = "flags" /\ seq_event'[l] = [code |-> modifier, value |-> 0]
    <3> SUFFICES ASSUME flag # 0
                 PROVE  \E l \in Keyboards :
                   \/ modifier \in held'[l]
                   \/ seq_pc'[l] = "flags" /\ seq_event'[l] = [code |-> modifier, value |-> 0]
      OBVIOUS
    <3>1. PICK l \in Keyboards :
              \/ modifier \in held[l]
              \/ seq_pc[l] = "flags" /\ seq_event[l] = [code |-> modifier, value |-> 0]
      BY <2>8 DEF Accounted
    <3>2. CASE l # k BY <2>6, <3>1, <3>2
    <3>3. CASE l = k
      <4>1. modifier \in held[k] BY <1>1, <3>1, <3>3
      <4>2. CASE modifier \in held'[k] BY <4>2
      <4>3. CASE modifier \notin held'[k]
        <5>1. val = 0 /\ modifier = key BY <2>6, <4>1, <4>3
        <5>2. seq_event'[k] = [code |-> modifier, value |-> 0] BY <2>6, <5>1 DEF e
        <5> QED BY <2>6, <5>2
      <4> QED BY <4>2, <4>3
    <3> QED BY <3>2, <3>3
  <2> QED BY <2>2, <2>5, <2>7, <2>8, ZenonT(30) DEF Accounted
<1> QED BY <1>3, <1>4

\* The callback takes its flag from its event, and then only looks at the flags.
LEMMA SeqStepInv ==
    ASSUME SeqInv, loaded = "sequence", UNCHANGED <<loaded, held>>, Detector!DetectorStep
    PROVE  SeqInv'
<1> USE DEF SeqInv
<1>1. ASSUME NEW k \in Keyboards, Detector!SeqFlags(k) PROVE SeqInv'
  <2> DEFINE e == seq_event[k]
  <2>1. /\ seq_pc[k] = "flags" /\ seq_pc' = [seq_pc EXCEPT ![k] = "ctrl"]
        /\ ctrl_down' = IF e.code = LeftCtrl THEN e.value ELSE ctrl_down
        /\ alt_down' = IF e.code = LeftAlt THEN e.value ELSE alt_down
        /\ UNCHANGED seq_event
    BY <1>1 DEF Detector!SeqFlags
  <2>2. SeqTypes' BY <2>1 DEF SeqTypes
  <2>3. EventOfKeyboard' BY <2>1 DEF EventOfKeyboard, SeqTypes
  <2>4. e.value # 0 => e.code \in held[k] BY <2>1 DEF EventOfKeyboard
  <2>5. ASSUME NEW flag, NEW modifier, Accounted(flag, modifier)
        PROVE  (IF e.code = modifier THEN e.value ELSE flag) # 0 =>
                   \E l \in Keyboards :
                       \/ modifier \in held'[l]
                       \/ /\ seq_pc'[l] = "flags"
                          /\ seq_event'[l] = [code |-> modifier, value |-> 0]
    <3>1. CASE e.code = modifier BY <2>4, <3>1
    <3>2. CASE e.code # modifier
      <4>1. e # [code |-> modifier, value |-> 0] BY <3>2
      <4>2. \A l \in Keyboards : l # k => seq_pc'[l] = seq_pc[l] BY <2>1 DEF SeqTypes
      <4> QED BY <2>1, <2>5, <3>2, <4>1, <4>2 DEF Accounted
    <3> QED BY <3>1, <3>2
  <2> QED BY <2>1, <2>2, <2>3, <2>5 DEF Accounted
<1>2. ASSUME NEW k \in Keyboards,
             Detector!SeqCtrl(k) \/ Detector!SeqAlt(k) \/ Detector!SeqReport(k)
      PROVE  SeqInv'
  <2>1. /\ seq_pc[k] \in {"ctrl", "alt", "report"}
        /\ UNCHANGED <<ctrl_down, alt_down>>
    BY <1>2 DEF Detector!SeqCtrl, Detector!SeqAlt, Detector!SeqReport
  <2>2. \/ /\ seq_pc' = [seq_pc EXCEPT ![k] = "idle"]
           /\ seq_event' = [seq_event EXCEPT ![k] = [code |-> "none", value |-> 0]]
        \/ /\ \E point \in {"alt", "report"} : seq_pc' = [seq_pc EXCEPT ![k] = point]
           /\ UNCHANGED seq_event
    BY <1>2 DEF Detector!SeqCtrl, Detector!SeqAlt, Detector!SeqReport, Detector!SeqEnd,
           Detector!NoKey
  <2>3. SeqTypes' BY <2>1, <2>2 DEF SeqTypes
  <2>4. \A l \in Keyboards : l # k => seq_pc'[l] = seq_pc[l] /\ seq_event'[l] = seq_event[l]
    BY <2>2 DEF SeqTypes
  <2>5. \/ seq_pc'[k] = "idle"
        \/ seq_pc'[k] \in {"alt", "report"} /\ seq_event'[k] = seq_event[k]
    BY <2>2 DEF SeqTypes
  <2>6. EventOfKeyboard' BY <2>1, <2>4, <2>5 DEF EventOfKeyboard
  <2>7. Accounted(ctrl_down, LeftCtrl)' /\ Accounted(alt_down, LeftAlt)'
    BY <2>1, <2>4 DEF Accounted
  <2> QED BY <2>3, <2>6, <2>7
<1> QED BY <1>1, <1>2 DEF Detector!DetectorStep

\* Every step of the three monitors keeps the invariant of the sequence detector.
LEMMA SeqStep == SeqInv /\ [MonitorsNext]_monitorsVars => SeqInv'
<1> SUFFICES ASSUME SeqInv, [MonitorsNext]_monitorsVars PROVE SeqInv' OBVIOUS
<1>1. CASE MonitorStep
  <2>1. UNCHANGED <<loaded, held>> BY <1>1 DEF MonitorStep, core
  <2>2. UNCHANGED detector \/ (loaded = "sequence" /\ Detector!DetectorStep)
    BY <1>1 DEF MonitorStep, Ring, Log, Detect, Time, monitorsVars
  <2> QED BY <2>1, <2>2, SeqUnchanged, SeqStepInv
<1>2. CASE \/ UNCHANGED monitorsVars
           \/ \E k \in Keyboards : Plug(k) \/ Unplug(k) \/ Disconnect(k)
  BY <1>2, SeqUnchanged DEF monitorsVars, core, Plug, Unplug, Disconnect
<1> QED BY <1>1, <1>2, SeqInputInv DEF MonitorsNext

\* kbdmon_event: whatever the keyboards do to the shared flags, also when one is
\* unplugged with a key down, a flag that is set is that of a key held somewhere,
\* or its release is being handled.
THEOREM ModifiersAreHeld == MonitorsSpec => []ModifiersHeld
<1>1. MonitorsInit => SeqInv
  <2> SUFFICES ASSUME MonitorsInit PROVE SeqInv OBVIOUS
  <2>1. Detector!DetectorInit /\ held = [k \in Keyboards |-> {}] /\ loaded \in Monitors
    BY DEF MonitorsInit
  <2> QED BY <2>1 DEF Detector!DetectorInit, Detector!NoKey, SeqInv, SeqTypes, EventOfKeyboard,
                Accounted
<1>2. SeqInv => ModifiersHeld BY DEF SeqInv, Accounted, ModifiersHeld
<1> QED BY <1>1, <1>2, SeqStep, PTL DEF MonitorsSpec

-----------------------------------------------------------------------------
(* The timing monitor *)

TimeTypes ==
    /\ time \in Nat /\ last_press \in Nat /\ last_press <= time
    /\ tim_pc \in [Keyboards -> {"idle", "delta", "store"}]
    /\ now \in [Keyboards -> Nat]
    /\ delta \in [Keyboards -> Int]
    /\ overlapped \subseteq Keyboards

\* A callback that is alone since it has taken the time has taken it after the last
\* time that was stored.
TimeInv ==
    /\ TimeTypes
    /\ \A k \in Keyboards :
           /\ now[k] <= time
           /\ tim_pc[k] # "store" => delta[k] = 0
           /\ tim_pc[k] # "idle" /\ k \notin overlapped =>
                  /\ \A l \in Keyboards : tim_pc[l] # "idle" => l = k
                  /\ last_press <= now[k]
                  /\ delta[k] >= 0

\* The invariant of the timing monitor is about its own variables.
LEMMA TimeUnchanged == ASSUME TimeInv, UNCHANGED timing PROVE TimeInv'
BY DEF timing, TimeInv, TimeTypes

\* A press that begins while others are handled overlaps with all of them.
LEMMA TimePressInv ==
    ASSUME TimeInv, NEW k \in Keyboards, Timer!TimePress(k) PROVE TimeInv'
<1>1. /\ tim_pc[k] = "idle"
      /\ now' = [now EXCEPT ![k] = time]
      /\ tim_pc' = [tim_pc EXCEPT ![k] = "delta"]
      /\ overlapped' = IF Timer!Timing = {} THEN {} ELSE overlapped \cup Timer!Timing \cup {k}
      /\ UNCHANGED <<time, last_press, delta>>
  BY DEF Timer!TimePress
<1>2. TimeTypes' BY <1>1 DEF TimeInv, TimeTypes, Timer!Timing
<1>3. CASE Timer!Timing = {}
  <2>1. \A l \in Keyboards : tim_pc[l] = "idle" BY <1>3 DEF Timer!Timing
  <2> QED BY <1>1, <1>2, <1>3, <2>1 DEF TimeInv, TimeTypes
<1>4. CASE Timer!Timing # {}
  <2>1. \A l \in Keyboards : tim_pc'[l] # "idle" => l \in overlapped'
    BY <1>1, <1>4 DEF Timer!Timing, TimeInv, TimeTypes
  <2> QED BY <1>1, <1>2, <2>1 DEF TimeInv, TimeTypes
<1> QED BY <1>3, <1>4

\* The clock runs on, a callback subtracts the last time and stores its own,
LEMMA TimeStepInv == ASSUME TimeInv, Timer!TimingStep PROVE TimeInv'
<1>1. CASE Timer!TimingTick
  BY <1>1 DEF Timer!TimingTick, TimeInv, TimeTypes
<1>2. ASSUME NEW k \in Keyboards, Timer!TimeDelta(k) PROVE TimeInv'
  BY <1>2 DEF Timer!TimeDelta, TimeInv, TimeTypes
<1>3. ASSUME NEW k \in Keyboards, Timer!TimeStore(k) PROVE TimeInv'
  BY <1>3 DEF Timer!TimeStore, TimeInv, TimeTypes
<1> QED BY <1>1, <1>2, <1>3 DEF Timer!TimingStep

\* and so every step of the three monitors keeps it.
LEMMA TimeStep == TimeInv /\ [MonitorsNext]_monitorsVars => TimeInv'
<1> SUFFICES ASSUME TimeInv, [MonitorsNext]_monitorsVars PROVE TimeInv' OBVIOUS
<1>1. CASE MonitorStep
  <2>1. UNCHANGED timing \/ Timer!TimingStep
    BY <1>1 DEF MonitorStep, Ring, Log, Detect, Time, monitorsVars
  <2> QED BY <2>1, TimeUnchanged, TimeStepInv
<1>2. ASSUME NEW k \in Keyboards, NEW key \in KeysOf[loaded], NEW val \in {0, 1, 2},
             InputEvent(k, key, val)
      PROVE  TimeInv'
  <2>1. UNCHANGED timing \/ Timer!TimePress(k)
    BY <1>2 DEF InputEvent, kbdmon_event, Ring, Log, Detect, Time
  <2> QED BY <2>1, TimeUnchanged, TimePressInv
<1>3. CASE \/ UNCHANGED monitorsVars
           \/ \E k \in Keyboards : Plug(k) \/ Unplug(k) \/ Disconnect(k)
  BY <1>3, TimeUnchanged DEF monitorsVars, Plug, Unplug, Disconnect
<1> QED BY <1>1, <1>2, <1>3 DEF MonitorsNext

\* kbdmon_event: a press is timed as earlier than the last one only if another
\* keyboard's press was handled at the same time.
THEOREM NegativeNeedsOverlap == MonitorsSpec => []NegativeOnlyByOverlap
<1>1. MonitorsInit => TimeInv
  BY DEF MonitorsInit, Timer!TimingInit, TimeInv, TimeTypes
<1>2. TimeInv => NegativeOnlyByOverlap
  BY DEF TimeInv, TimeTypes, NegativeOnlyByOverlap, Timer!NegativeOnlyByOverlap
<1> QED BY <1>1, <1>2, TimeStep, PTL DEF MonitorsSpec
=============================================================================
