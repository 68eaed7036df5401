------------------------------ MODULE GoldDevice ------------------------------
(***************************************************************************)
(* The driver of mutex_sleep_ioctl_exercise/gold_device.c after gold_init: *)
(* a ring of BUF_SIZE bytes under one mutex, two wait queues, read and     *)
(* write in blocking and non-blocking mode, poll and ioctl.                *)
(*                                                                         *)
(* A thread is a process that has at most one file open and makes one      *)
(* system call at a time; pc[t] is the point it has reached in the handler *)
(* ("idle" in user space).  Between two points other threads run.  The     *)
(* wait queues are the threads at the sleeping points: wait_event queues   *)
(* the caller before it checks its condition, so "check, else sleep" is    *)
(* one step, and wake_up sends every sleeper back to the check.            *)
(***************************************************************************)
EXTENDS Integers, Sequences, FiniteSets

CONSTANTS BUF_SIZE,
          Bytes,        \* the byte values a writer sends
          NoThread,     \* the mutex has no owner
          Readers,      \* threads that call read,
          Writers,      \* write,
          Pollers,      \* poll
          Resetters,    \* and ioctl
          Counts,       \* the lengths asked of read
          Messages,     \* the user buffers given to write
          PollEvents,   \* the event sets asked of poll
          Signals,      \* BOOLEAN: a waiting thread may be interrupted
          Faults        \* BOOLEAN: user memory may be unmapped

Threads == Readers \cup Writers \cup Pollers \cup Resetters

ASSUME GoldAssumption ==
    /\ BUF_SIZE \in Nat \ {0}
    /\ NoThread \notin Threads
    /\ 0 \in Bytes                      \* the static buffer starts zeroed
    /\ Counts \subseteq Nat
    /\ Messages \subseteq Seq(Bytes)
    /\ PollEvents \subseteq SUBSET {"in", "out"}
    /\ Signals \in BOOLEAN
    /\ Faults \in BOOLEAN

VARIABLES buffer, head, tail, size, \* struct gold_dev
          lock,         \* the owner of dev.lock, or NoThread
          ctx,          \* file_ctx of each thread's file: "none" when not open
          pc,
          count,        \* the length of the call in progress
          copied,       \* the bytes it has moved
          data,         \* the user buffer of a write
          received,     \* the bytes a read has put in user memory
          interest,     \* the events a poll waits for
          triggered     \* a wake-up reached this poll since it last slept

ring == <<buffer, head, tail, size>>
call == <<count, copied, data, received, interest>>
vars == <<ring, lock, ctx, pc, call, triggered>>

ReadPoints  == {"rd_wait", "rd_sleep", "rd_lock", "rd_check", "rd_copy", "rd_wake"}
WritePoints == {"wr_wait", "wr_sleep", "wr_lock", "wr_check", "wr_copy", "wr_wake"}
PollPoints  == {"pl_lock", "pl_mask", "pl_sched", "pl_sleep"}
ResetPoints == {"rs_lock", "rs_clear", "rs_wake"}
Points == {"idle"} \cup ReadPoints \cup WritePoints \cup PollPoints \cup ResetPoints

\* The points between mutex_lock and mutex_unlock.
CriticalPoints == {"rd_check", "rd_copy", "wr_check", "wr_copy", "pl_mask", "rs_clear"}

Init == /\ buffer = [i \in 0 .. BUF_SIZE - 1 |-> 0]
        /\ head = 0
        /\ tail = 0
        /\ size = 0
        /\ lock = NoThread
        /\ ctx = [t \in Threads |-> "none"]
        /\ pc = [t \in Threads |-> "idle"]
        /\ count = [t \in Threads |-> 0]
        /\ copied = [t \in Threads |-> 0]
        /\ data = [t \in Threads |-> <<>>]
        /\ received = [t \in Threads |-> <<>>]
        /\ interest = [t \in Threads |-> {}]
        /\ triggered = [t \in Threads |-> FALSE]

-----------------------------------------------------------------------------
\* An operator named X_m... is wrong on purpose: it is what a plausible slip
\* would make of X, and shows that a property notices.  No action uses it.

buffer_empty == size = 0

buffer_full_mOffByOne == size > BUF_SIZE
buffer_full == size = BUF_SIZE

Goto(t, point) == pc' = [pc EXCEPT ![t] = point]

\* A call that ends leaves nothing behind in the driver.
EndCall(t) == /\ count' = [count EXCEPT ![t] = 0]
              /\ copied' = [copied EXCEPT ![t] = 0]
              /\ data' = [data EXCEPT ![t] = <<>>]
              /\ received' = [received EXCEPT ![t] = <<>>]
              /\ interest' = [interest EXCEPT ![t] = {}]

Return(t) == Goto(t, "idle") /\ EndCall(t)

Acquire(t) == lock = NoThread /\ lock' = t
Release(t) == lock' = NoThread

\* mutex_lock_interruptible gives up only when it would have to wait.
LockInterrupted(t) == /\ Signals
                      /\ lock # NoThread
                      /\ Return(t)
                      /\ UNCHANGED <<ring, lock, ctx, triggered>>

\* A poll that registers on the queues only after it has computed its mask.
WakeAndReturn_mLatePollWait(t, sleeping, waiting) ==
    /\ pc' = [u \in Threads |-> IF u = t THEN "idle"
                                ELSE IF pc[u] = sleeping THEN waiting
                                ELSE IF pc[u] = "pl_sleep" THEN "pl_lock"
                                ELSE pc[u]]
    /\ UNCHANGED triggered
    /\ EndCall(t)

\* wake_up_interruptible(queue) by t, whose call ends with the same step: the
\* sleepers re-check; a poll, which is on both queues, is marked as triggered.
WakeAndReturn(t, sleeping, waiting) ==
    /\ pc' = [u \in Threads |-> IF u = t THEN "idle"
                                ELSE IF pc[u] = sleeping THEN waiting
                                ELSE IF pc[u] = "pl_sleep" THEN "pl_lock"
                                ELSE pc[u]]
    /\ triggered' = [u \in Threads |-> IF pc[u] \in {"pl_lock", "pl_mask", "pl_sched"}
                                       THEN TRUE ELSE triggered[u]]
    /\ EndCall(t)

WakeReaders_mWrongQueue(t) == WakeAndReturn(t, "wr_sleep", "wr_wait")
WakeReaders(t) == WakeAndReturn(t, "rd_sleep", "rd_wait")
WakeWriters(t) == WakeAndReturn(t, "wr_sleep", "wr_wait")

\* wait_event_interruptible(queue, condition) at point waiting.
WaitEvent(t, condition, sleeping, locking) ==
    \/ /\ condition
       /\ Goto(t, locking)
       /\ UNCHANGED <<ring, lock, ctx, call, triggered>>
    \/ /\ ~condition
       /\ Goto(t, sleeping)
       /\ UNCHANGED <<ring, lock, ctx, call, triggered>>
    \/ /\ ~condition
       /\ Signals
       /\ Return(t)
       /\ UNCHANGED <<ring, lock, ctx, triggered>>

\* A signal reaches a sleeper: wait_event looks at its condition once more, and
\* ends the call if it does not hold.
SleepInterrupted(t, condition, locking) ==
    /\ Signals
    /\ \/ /\ condition
          /\ Goto(t, locking)
          /\ UNCHANGED <<ring, lock, ctx, call, triggered>>
       \/ /\ ~condition
          /\ Return(t)
          /\ UNCHANGED <<ring, lock, ctx, triggered>>

Again_mKeepsLock(t) == Return(t) /\ UNCHANGED <<ring, lock, ctx, triggered>>

\* A non-blocking caller that cannot proceed gives the lock back.
Again(t) == /\ Release(t)
            /\ Return(t)
            /\ UNCHANGED <<ring, ctx, triggered>>

Fault_mKeepsLock(t) == Faults /\ Return(t) /\ UNCHANGED <<ring, lock, ctx, triggered>>

\* put_user or get_user fails: the lock is released and nobody is woken.
Fault(t) == /\ Faults
            /\ Release(t)
            /\ Return(t)
            /\ UNCHANGED <<ring, ctx, triggered>>

-----------------------------------------------------------------------------
(* open and release.  An open that kmalloc refuses (-ENOMEM) changes nothing. *)

gold_open(t) ==
    /\ pc[t] = "idle"
    /\ ctx[t] = "none"
    /\ \E mode \in {"blocking", "nonblocking"} : ctx' = [ctx EXCEPT ![t] = mode]
    /\ UNCHANGED <<ring, lock, pc, call, triggered>>

gold_release(t) ==
    /\ pc[t] = "idle"
    /\ ctx[t] # "none"
    /\ ctx' = [ctx EXCEPT ![t] = "none"]
    /\ UNCHANGED <<ring, lock, pc, call, triggered>>

-----------------------------------------------------------------------------
(* read *)

ReadBegin(t, n) ==
    /\ pc[t] = "idle"
    /\ ctx[t] # "none"
    /\ count' = [count EXCEPT ![t] = n]
    /\ Goto(t, IF ctx[t] = "nonblocking" THEN "rd_lock" ELSE "rd_wait")
    /\ UNCHANGED <<ring, lock, ctx, copied, data, received, interest, triggered>>

ReadWait(t) == pc[t] = "rd_wait" /\ WaitEvent(t, ~buffer_empty, "rd_sleep", "rd_lock")

\* The result of wait_event_interruptible is not looked at.
ReadInterrupted_mIgnored(t) == /\ pc[t] = "rd_sleep"
                               /\ Signals
                               /\ Goto(t, "rd_lock")
                               /\ UNCHANGED <<ring, lock, ctx, call, triggered>>

ReadInterrupted(t) == /\ pc[t] = "rd_sleep"
                      /\ SleepInterrupted(t, ~buffer_empty, "rd_lock")

\* Only the non-blocking path looks at the ring again once it has the lock.
ReadLock(t) ==
    /\ pc[t] = "rd_lock"
    /\ \/ /\ Acquire(t)
          /\ Goto(t, IF ctx[t] = "nonblocking" THEN "rd_check" ELSE "rd_copy")
          /\ UNCHANGED <<ring, ctx, call, triggered>>
       \/ LockInterrupted(t)

ReadCheck(t) ==
    /\ pc[t] = "rd_check"
    /\ \/ buffer_empty /\ Again(t)
       \/ /\ ~buffer_empty
          /\ Goto(t, "rd_copy")
          /\ UNCHANGED <<ring, lock, ctx, call, triggered>>

\* One turn of the copy loop, or its exit.
ReadCopy(t) ==
    /\ pc[t] = "rd_copy"
    /\ \/ /\ copied[t] < count[t]
          /\ ~buffer_empty
          /\ \/ /\ received' = [received EXCEPT ![t] = Append(@, buffer[tail])]
                /\ tail' = (tail + 1) % BUF_SIZE
                /\ size' = size - 1
                /\ copied' = [copied EXCEPT ![t] = @ + 1]
                /\ UNCHANGED <<buffer, head, lock, ctx, pc, count, data, interest, triggered>>
             \/ Fault(t)
       \/ /\ copied[t] >= count[t] \/ buffer_empty
          /\ Release(t)
          /\ Goto(t, "rd_wake")
          /\ UNCHANGED <<ring, ctx, call, triggered>>

ReadWake_mSilent(t) == /\ pc[t] = "rd_wake"
                       /\ Return(t)
                       /\ UNCHANGED <<ring, lock, ctx, triggered>>

ReadWake(t) == /\ pc[t] = "rd_wake"
               /\ WakeWriters(t)
               /\ UNCHANGED <<ring, lock, ctx>>

-----------------------------------------------------------------------------
(* write *)

WriteBegin(t, m) ==
    /\ pc[t] = "idle"
    /\ ctx[t] # "none"
    /\ data' = [data EXCEPT ![t] = m]
    /\ count' = [count EXCEPT ![t] = Len(m)]
    /\ Goto(t, IF ctx[t] = "nonblocking" THEN "wr_lock" ELSE "wr_wait")
    /\ UNCHANGED <<ring, lock, ctx, copied, received, interest, triggered>>

WriteWait(t) == pc[t] = "wr_wait" /\ WaitEvent(t, ~buffer_full, "wr_sleep", "wr_lock")

WriteInterrupted(t) == /\ pc[t] = "wr_sleep"
                       /\ SleepInterrupted(t, ~buffer_full, "wr_lock")

WriteLock(t) ==
    /\ pc[t] = "wr_lock"
    /\ \/ /\ Acquire(t)
          /\ Goto(t, IF ctx[t] = "nonblocking" THEN "wr_check" ELSE "wr_copy")
          /\ UNCHANGED <<ring, ctx, call, triggered>>
       \/ LockInterrupted(t)

WriteCheck(t) ==
    /\ pc[t] = "wr_check"
    /\ \/ buffer_full /\ Again(t)
       \/ /\ ~buffer_full
          /\ Goto(t, "wr_copy")
          /\ UNCHANGED <<ring, lock, ctx, call, triggered>>

WriteCopy(t) ==
    /\ pc[t] = "wr_copy"
    /\ \/ /\ copied[t] < count[t]
          /\ ~buffer_full
          /\ \/ /\ buffer' = [buffer EXCEPT ![head] = data[t][copied[t] + 1]]
                /\ head' = (head + 1) % BUF_SIZE
                /\ size' = size + 1
                /\ copied' = [copied EXCEPT ![t] = @ + 1]
                /\ UNCHANGED <<tail, lock, ctx, pc, count, data, received, interest, triggered>>
             \/ Fault(t)
       \/ /\ copied[t] >= count[t] \/ buffer_full
          /\ Release(t)
          /\ Goto(t, "wr_wake")
          /\ UNCHANGED <<ring, ctx, call, triggered>>

WriteWake(t) == /\ pc[t] = "wr_wake"
                /\ WakeReaders(t)
                /\ UNCHANGED <<ring, lock, ctx>>

-----------------------------------------------------------------------------
(* poll: gold_poll computes a mask under the lock; the poll(2) loop around it *)
(* sleeps on both queues until the mask has an event the caller asked for.    *)

PollBegin(t, events) ==
    /\ pc[t] = "idle"
    /\ ctx[t] # "none"
    /\ interest' = [interest EXCEPT ![t] = events]
    /\ triggered' = [triggered EXCEPT ![t] = FALSE]
    /\ Goto(t, "pl_lock")
    /\ UNCHANGED <<ring, lock, ctx, count, copied, data, received>>

\* mutex_lock: a signal does not end the wait.
PollLock(t) == /\ pc[t] = "pl_lock"
               /\ Acquire(t)
               /\ Goto(t, "pl_mask")
               /\ UNCHANGED <<ring, ctx, call, triggered>>

Mask == {e \in {"in", "out"} : (e = "in" /\ ~buffer_empty) \/ (e = "out" /\ ~buffer_full)}

\* poll(2) returns when there is an event, or with -EINTR after a signal.
PollMask(t) ==
    /\ pc[t] = "pl_mask"
    /\ Release(t)
    /\ \/ Mask \cap interest[t] # {} /\ Return(t)
       \/ Mask \cap interest[t] = {} /\ Signals /\ Return(t)
       \/ /\ Mask \cap interest[t] = {}
          /\ Goto(t, "pl_sched")
          /\ UNCHANGED call
    /\ UNCHANGED <<ring, ctx, triggered>>

PollSched(t) == /\ pc[t] = "pl_sched"
                /\ Goto(t, IF triggered[t] THEN "pl_lock" ELSE "pl_sleep")
                /\ triggered' = [triggered EXCEPT ![t] = FALSE]
                /\ UNCHANGED <<ring, lock, ctx, call>>

\* A signal wakes a poll, which computes its mask once more.
PollInterrupted(t) == /\ pc[t] = "pl_sleep"
                      /\ Signals
                      /\ Goto(t, "pl_lock")
                      /\ UNCHANGED <<ring, lock, ctx, call, triggered>>

-----------------------------------------------------------------------------
(* ioctl: IOCTL_GET_BUFSIZE and unknown commands take no lock and change nothing. *)

ResetBegin(t) == /\ pc[t] = "idle"
                 /\ ctx[t] # "none"
                 /\ Goto(t, "rs_lock")
                 /\ UNCHANGED <<ring, lock, ctx, call, triggered>>

ResetLock(t) == /\ pc[t] = "rs_lock"
                /\ \/ /\ Acquire(t)
                      /\ Goto(t, "rs_clear")
                      /\ UNCHANGED <<ring, ctx, call, triggered>>
                   \/ LockInterrupted(t)

ResetClear_mKeepsTail(t) == /\ pc[t] = "rs_clear"
                            /\ head' = 0
                            /\ size' = 0
                            /\ Release(t)
                            /\ Goto(t, "rs_wake")
                            /\ UNCHANGED <<buffer, tail, ctx, call, triggered>>

ResetClear_mKeepsSize(t) == /\ pc[t] = "rs_clear"
                            /\ head' = 0
                            /\ tail' = 0
                            /\ Release(t)
                            /\ Goto(t, "rs_wake")
                            /\ UNCHANGED <<buffer, size, ctx, call, triggered>>

ResetClear(t) == /\ pc[t] = "rs_clear"
                 /\ head' = 0
                 /\ tail' = 0
                 /\ size' = 0
                 /\ Release(t)
                 /\ Goto(t, "rs_wake")
                 /\ UNCHANGED <<buffer, ctx, call, triggered>>

ResetWake_mSilent(t) == /\ pc[t] = "rs_wake"
                        /\ Return(t)
                        /\ UNCHANGED <<ring, lock, ctx, triggered>>

ResetWake(t) == /\ pc[t] = "rs_wake"
                /\ WakeWriters(t)
                /\ UNCHANGED <<ring, lock, ctx>>

-----------------------------------------------------------------------------
\* What a process decides to do next.
Begin(t) == \/ gold_open(t)
            \/ gold_release(t)
            \/ t \in Readers /\ \E n \in Counts : ReadBegin(t, n)
            \/ t \in Writers /\ \E m \in Messages : WriteBegin(t, m)
            \/ t \in Pollers /\ \E events \in PollEvents : PollBegin(t, events)
            \/ t \in Resetters /\ ResetBegin(t)

gold_read(t) == \/ ReadWait(t) \/ ReadInterrupted(t) \/ ReadLock(t)
                \/ ReadCheck(t) \/ ReadCopy(t) \/ ReadWake(t)

gold_write(t) == \/ WriteWait(t) \/ WriteInterrupted(t) \/ WriteLock(t)
                 \/ WriteCheck(t) \/ WriteCopy(t) \/ WriteWake(t)

gold_poll(t) == PollLock(t) \/ PollMask(t) \/ PollSched(t) \/ PollInterrupted(t)

gold_ioctl(t) == ResetLock(t) \/ ResetClear(t) \/ ResetWake(t)

Next == \E t \in Threads : \/ Begin(t)
                           \/ gold_read(t)
                           \/ gold_write(t)
                           \/ gold_poll(t)
                           \/ gold_ioctl(t)

Spec == Init /\ [][Next]_vars

(***************************************************************************)
(* Fairness.  The scheduler runs every runnable thread: a handler that can *)
(* take a step takes one.  The kernel's mutex hands itself over to a       *)
(* waiter that has waited for long, so a thread that wants the lock gets   *)
(* it if it is free again and again.  Nothing obliges a process to make a  *)
(* call, and no signal is obliged to arrive.                               *)
(***************************************************************************)
Runnable(t) == \/ ReadWait(t) \/ ReadCheck(t) \/ ReadCopy(t) \/ ReadWake(t)
               \/ WriteWait(t) \/ WriteCheck(t) \/ WriteCopy(t) \/ WriteWake(t)
               \/ PollMask(t) \/ PollSched(t)
               \/ ResetClear(t) \/ ResetWake(t)

Locking(t) == ReadLock(t) \/ WriteLock(t) \/ PollLock(t) \/ ResetLock(t)

Fairness == \A t \in Threads : /\ WF_vars(Runnable(t))
                               /\ SF_vars(lock = NoThread /\ Locking(t))

FairSpec == Spec /\ Fairness

-----------------------------------------------------------------------------
(* Properties *)

\* Type invariant: every variable of the driver and of its callers stays in
\* the range the C declarations and the handlers give it.
TypeOK ==
    /\ buffer \in [0 .. BUF_SIZE - 1 -> Bytes]
    /\ head \in 0 .. BUF_SIZE - 1
    /\ tail \in 0 .. BUF_SIZE - 1
    /\ size \in 0 .. BUF_SIZE
    /\ lock \in Threads \cup {NoThread}
    /\ ctx \in [Threads -> {"none", "blocking", "nonblocking"}]
    /\ pc \in [Threads -> Points]
    /\ count \in [Threads -> Nat]
    /\ copied \in [Threads -> Nat]
    /\ data \in [Threads -> Seq(Bytes)]
    /\ received \in [Threads -> Seq(Bytes)]
    /\ interest \in [Threads -> SUBSET {"in", "out"}]
    /\ triggered \in [Threads -> BOOLEAN]

\* head, tail and size are updated by different handlers and by the reset, and
\* always describe the same ring: head is size slots after tail.
RingConsistent == head = (tail + size) % BUF_SIZE

\* The mutex is owned exactly by the thread that is between a mutex_lock and
\* its mutex_unlock: two threads are never there together, and none of the
\* early returns (-EAGAIN, -EFAULT, -EINTR) leaves with the lock.
LockHeldWhenCritical == \A t \in Threads : lock = t <=> pc[t] \in CriticalPoints

\* A thread that will call wake_up on the readers, or on the writers, before
\* its call ends: it has changed the ring and can only go on to the wake-up.
WillWakeReaders(t) == pc[t] = "wr_wake" \/ (pc[t] = "wr_copy" /\ copied[t] > 0)
WillWakeWriters(t) == \/ pc[t] \in {"rd_wake", "rs_wake"}
                      \/ pc[t] = "rd_copy" /\ copied[t] > 0

\* No missed wake-up in gold_read: a reader asleep while the ring holds bytes
\* has a wake_up_interruptible(&d->read_queue) on its way.
ReaderWakeupPending ==
    \A r \in Threads : pc[r] = "rd_sleep" /\ size > 0
                       => \E t \in Threads : WillWakeReaders(t)

\* No missed wake-up in gold_write: a writer asleep while the ring has room has
\* a wake_up_interruptible(&d->write_queue) on its way, after a read or a reset.
WriterWakeupPending ==
    \A w \in Threads : pc[w] = "wr_sleep" /\ size < BUF_SIZE
                       => \E t \in Threads : WillWakeWriters(t)

\* No missed event in poll: gold_poll registers on both queues before it looks
\* at the ring, so a poll about to sleep or asleep whose event has happened is
\* already triggered or has a wake-up on its way.
PollWakeupPending ==
    \A p \in Threads : /\ pc[p] \in {"pl_sched", "pl_sleep"}
                       /\ Mask \cap interest[p] # {}
                       => \/ pc[p] = "pl_sched" /\ triggered[p]
                          \/ \E t \in Threads : WillWakeReaders(t) \/ WillWakeWriters(t)

\* A blocking read of at least one byte does not return 0, which its caller
\* would take for the end of the file.  (With one reader: a second one, or a
\* reset, can take the bytes between the wait and the lock.)
BlockingReadDelivers ==
    \A r \in Threads : pc[r] = "rd_wake" /\ ctx[r] = "blocking" /\ count[r] > 0
                       => copied[r] > 0

\* A call that is past its wait comes back: nobody keeps the mutex for ever,
\* whatever mixture of errors and retries the other threads go through.
CommittedCallReturns ==
    \A t \in Threads :
        pc[t] \notin {"idle", "rd_wait", "rd_sleep", "wr_wait", "wr_sleep"} \cup PollPoints
        ~> pc[t] = "idle"

\* A sleeper whose condition holds is woken: a reader when the ring has bytes,
\* a writer when it has room, a poll when one of its events has happened.
SleepersWoken ==
    \A t \in Threads :
        /\ pc[t] = "rd_sleep" /\ size > 0 ~> pc[t] # "rd_sleep"
        /\ pc[t] = "wr_sleep" /\ size < BUF_SIZE ~> pc[t] # "wr_sleep"
        /\ pc[t] = "pl_sleep" /\ Mask \cap interest[t] # {} ~> pc[t] # "pl_sleep"

-----------------------------------------------------------------------------
\* The bytes held, oldest first, as they are read off the ring.
Contents == [i \in 1 .. size |-> buffer[(tail + i - 1) % BUF_SIZE]]

Queue == INSTANCE BoundedQueue WITH Clients <- Threads,
                                    Capacity <- BUF_SIZE,
                                    contents <- Contents

\* gold_read, gold_write and the reset implement a FIFO of BUF_SIZE bytes:
\* whatever the interleaving, a byte goes to one reader, in order.
ImplementsQueue == Queue!Spec
=============================================================================
