------------------------------ MODULE FixedDevice ------------------------------
(***************************************************************************)
(* The driver of mutex_sleep_ioctl_exercise/fixed_device.c after           *)
(* fixed_init: one message buffer under one mutex, readers that wait for a *)
(* message, and two ioctls.  A write replaces the message, a read takes    *)
(* it.  The copies to and from user memory go byte by byte, so that the    *)
(* mutex has something to protect.                                         *)
(***************************************************************************)
EXTENDS Integers, Sequences

CONSTANTS BUF_SIZE,
          Bytes,        \* the byte values a message is made of
          NoThread,     \* the mutex has no owner
          Readers,      \* threads that call read,
          Writers,      \* write
          Controllers,  \* and ioctl
          Counts,       \* the lengths asked of read
          Messages,     \* the user buffers given to write
          Signals,      \* BOOLEAN: a waiting thread may be interrupted
          Faults        \* BOOLEAN: user memory may be unmapped

Threads == Readers \cup Writers \cup Controllers

ASSUME FixedAssumption ==
    /\ BUF_SIZE \in Nat \ {0}
    /\ NoThread \notin Threads
    /\ 0 \in Bytes                      \* the static buffer starts zeroed
    /\ Counts \subseteq Nat
    /\ Messages \subseteq Seq(Bytes)
    /\ Signals \in BOOLEAN
    /\ Faults \in BOOLEAN

VARIABLES buffer, data_size, blocking_mode,
          lock,         \* the owner of lock, or NoThread
          pc,
          count,        \* the length of the call in progress, then its to_copy;
                        \* the value of a SET_BLOCKING
          copied,       \* the bytes it has moved
          data,         \* the user buffer of a write
          received,     \* the bytes a read has put in user memory
          torn          \* (not in the code) the last write met a bad address
                        \* and left the buffer half overwritten

device == <<buffer, data_size, blocking_mode, torn>>
call == <<count, copied, data, received>>
vars == <<device, lock, pc, call>>

ReadPoints == {"rd_wait", "rd_sleep", "rd_lock", "rd_trylock", "rd_check", "rd_min", "rd_copy"}
WritePoints == {"wr_lock", "wr_copy", "wr_wake"}
IoctlPoints == {"rs_lock", "rs_clear", "sb_lock", "sb_set"}
CriticalPoints == {"rd_check", "rd_min", "rd_copy", "wr_copy", "rs_clear", "sb_set"}
Points == {"idle"} \cup ReadPoints \cup WritePoints \cup IoctlPoints

Init == /\ buffer = [i \in 0 .. BUF_SIZE - 1 |-> 0]
        /\ data_size = 0
        /\ blocking_mode = 1
        /\ lock = NoThread
        /\ pc = [t \in Threads |-> "idle"]
        /\ count = [t \in Threads |-> 0]
        /\ copied = [t \in Threads |-> 0]
        /\ data = [t \in Threads |-> <<>>]
        /\ received = [t \in Threads |-> <<>>]
        /\ torn = FALSE

-----------------------------------------------------------------------------
\* An operator named X_m... is wrong on purpose: it is what a plausible slip
\* would make of X, and shows that a property notices.  No action uses it.

min(a, b) == IF a < b THEN a ELSE b

Goto(t, point) == pc' = [pc EXCEPT ![t] = point]

\* A call that ends leaves nothing behind but what it did to the device.
EndCall(t) == /\ count' = [count EXCEPT ![t] = 0]
              /\ copied' = [copied EXCEPT ![t] = 0]
              /\ data' = [data EXCEPT ![t] = <<>>]
              /\ received' = [received EXCEPT ![t] = <<>>]

Return(t) == Goto(t, "idle") /\ EndCall(t)

\* mutex_lock_interruptible at the current point, which leads to the next one;
\* it gives up (-EINTR) only when it would have to wait.
LockInterruptible(t, next) ==
    \/ /\ lock = NoThread
       /\ lock' = t
       /\ Goto(t, next)
       /\ UNCHANGED <<device, call>>
    \/ /\ Signals
       /\ lock # NoThread
       /\ Return(t)
       /\ UNCHANGED <<device, lock>>

UnlockAndReturn_mKeepsLock(t) == Return(t) /\ UNCHANGED lock
UnlockAndReturn(t) == lock' = NoThread /\ Return(t)

-----------------------------------------------------------------------------
(* read *)

\* blocking_mode is read without the lock, once, when the call starts.
ReadBegin(t, n) ==
    /\ pc[t] = "idle"
    /\ count' = [count EXCEPT ![t] = n]
    /\ Goto(t, IF blocking_mode = 0 THEN "rd_trylock" ELSE "rd_wait")
    /\ UNCHANGED <<device, lock, copied, data, received>>

\* wait_event_interruptible(read_queue, data_size > 0): check, else sleep.
ReadWait(t) ==
    /\ pc[t] = "rd_wait"
    /\ \/ /\ data_size > 0
          /\ Goto(t, "rd_lock")
          /\ UNCHANGED <<device, lock, call>>
       \/ /\ data_size = 0
          /\ Goto(t, "rd_sleep")
          /\ UNCHANGED <<device, lock, call>>
       \/ /\ data_size = 0
          /\ Signals
          /\ Return(t)
          /\ UNCHANGED <<device, lock>>

\* A signal reaches a sleeper, which looks at its condition once more.
ReadInterrupted(t) == /\ pc[t] = "rd_sleep"
                      /\ Signals
                      /\ \/ data_size > 0 /\ Goto(t, "rd_lock") /\ UNCHANGED call
                         \/ data_size = 0 /\ Return(t)
                      /\ UNCHANGED <<device, lock>>

ReadLock(t) == pc[t] = "rd_lock" /\ LockInterruptible(t, "rd_min")

ReadTryLock(t) == pc[t] = "rd_trylock" /\ LockInterruptible(t, "rd_check")

\* The non-blocking path looks at data_size again once it has the lock.
ReadCheck(t) == /\ pc[t] = "rd_check"
                /\ \/ data_size = 0 /\ UnlockAndReturn(t)
                   \/ /\ data_size > 0
                      /\ Goto(t, "rd_min")
                      /\ UNCHANGED <<lock, call>>
                /\ UNCHANGED device

ReadMin(t) == /\ pc[t] = "rd_min"
              /\ count' = [count EXCEPT ![t] = min(@, data_size)]
              /\ Goto(t, "rd_copy")
              /\ UNCHANGED <<device, lock, copied, data, received>>

\* copy_to_user, a byte at a time; then the whole message is gone.
ReadCopy(t) ==
    /\ pc[t] = "rd_copy"
    /\ \/ /\ copied[t] < count[t]
          /\ received' = [received EXCEPT ![t] = Append(@, buffer[copied[t]])]
          /\ copied' = [copied EXCEPT ![t] = @ + 1]
          /\ UNCHANGED <<device, lock, pc, count, data>>
       \/ /\ copied[t] < count[t]
          /\ Faults
          /\ UnlockAndReturn(t)
          /\ UNCHANGED device
       \/ /\ copied[t] >= count[t]
          /\ data_size' = 0
          /\ UnlockAndReturn(t)
          /\ UNCHANGED <<buffer, blocking_mode, torn>>

-----------------------------------------------------------------------------
(* write *)

WriteBegin(t, m) ==
    /\ pc[t] = "idle"
    /\ data' = [data EXCEPT ![t] = m]
    /\ count' = [count EXCEPT ![t] = min(Len(m), BUF_SIZE)]
    /\ Goto(t, "wr_lock")
    /\ UNCHANGED <<device, lock, copied, received>>

WriteLock_mNoLock(t) == /\ pc[t] = "wr_lock"
                        /\ Goto(t, "wr_copy")
                        /\ UNCHANGED <<device, lock, call>>
WriteLock(t) == pc[t] = "wr_lock" /\ LockInterruptible(t, "wr_copy")

\* copy_from_user, a byte at a time.  On a fault the kernel's copy_from_user
\* zeroes the rest of the destination; data_size stays what it was.
WriteCopy(t) ==
    /\ pc[t] = "wr_copy"
    /\ \/ /\ copied[t] < count[t]
          /\ buffer' = [buffer EXCEPT ![copied[t]] = data[t][copied[t] + 1]]
          /\ copied' = [copied EXCEPT ![t] = @ + 1]
          /\ UNCHANGED <<data_size, blocking_mode, torn, lock, pc, count, data, received>>
       \/ /\ copied[t] < count[t]
          /\ Faults
          /\ buffer' = [i \in DOMAIN buffer |->
                            IF i \in copied[t] .. count[t] - 1 THEN 0 ELSE buffer[i]]
          /\ torn' = TRUE
          /\ UnlockAndReturn(t)
          /\ UNCHANGED <<data_size, blocking_mode>>
       \/ /\ copied[t] >= count[t]
          /\ data_size' = count[t]
          /\ torn' = FALSE
          /\ lock' = NoThread
          /\ Goto(t, "wr_wake")
          /\ UNCHANGED <<buffer, blocking_mode, call>>

WriteWake_mSilent(t) == /\ pc[t] = "wr_wake"
                        /\ Return(t)
                        /\ UNCHANGED <<device, lock>>

\* wake_up_interruptible(&read_queue): every sleeper re-checks.
WriteWake(t) ==
    /\ pc[t] = "wr_wake"
    /\ pc' = [u \in Threads |-> IF u = t THEN "idle"
                                ELSE IF pc[u] = "rd_sleep" THEN "rd_wait" ELSE pc[u]]
    /\ EndCall(t)
    /\ UNCHANGED <<device, lock>>

-----------------------------------------------------------------------------
(* ioctl; a command that is unknown, or whose argument cannot be read or is     *)
(* neither 0 nor 1, changes nothing.                                            *)

ResetBegin(t) == /\ pc[t] = "idle"
                 /\ Goto(t, "rs_lock")
                 /\ UNCHANGED <<device, lock, call>>

ResetLock(t) == pc[t] = "rs_lock" /\ LockInterruptible(t, "rs_clear")

ResetClear(t) == /\ pc[t] = "rs_clear"
                 /\ data_size' = 0
                 /\ UnlockAndReturn(t)
                 /\ UNCHANGED <<buffer, blocking_mode, torn>>

SetBlockingBegin(t, val) == /\ pc[t] = "idle"
                            /\ count' = [count EXCEPT ![t] = val]
                            /\ Goto(t, "sb_lock")
                            /\ UNCHANGED <<device, lock, copied, data, received>>

SetBlockingLock(t) == pc[t] = "sb_lock" /\ LockInterruptible(t, "sb_set")

SetBlocking(t) == /\ pc[t] = "sb_set"
                  /\ blocking_mode' = count[t]
                  /\ UnlockAndReturn(t)
                  /\ UNCHANGED <<buffer, data_size, torn>>

-----------------------------------------------------------------------------
\* What a process decides to do next.
Begin(t) == \/ t \in Readers /\ \E n \in Counts : ReadBegin(t, n)
            \/ t \in Writers /\ \E m \in Messages : WriteBegin(t, m)
            \/ t \in Controllers /\ \/ ResetBegin(t)
                                    \/ \E val \in {0, 1} : SetBlockingBegin(t, val)

\* The steps of a call that the scheduler will have taken,
Runnable(t) == \/ ReadWait(t) \/ ReadCheck(t) \/ ReadMin(t) \/ ReadCopy(t)
               \/ WriteCopy(t) \/ WriteWake(t)
               \/ ResetClear(t) \/ SetBlocking(t)

\* and those that wait for the mutex.
Locking(t) == \/ ReadLock(t) \/ ReadTryLock(t) \/ WriteLock(t)
              \/ ResetLock(t) \/ SetBlockingLock(t)

Next == \E t \in Threads : Begin(t) \/ Runnable(t) \/ Locking(t) \/ ReadInterrupted(t)

Spec == Init /\ [][Next]_vars

\* A handler that can run runs, and a mutex that is free again and again is
\* obtained; no process is obliged to call, no signal to arrive.
Fairness == \A t \in Threads : /\ WF_vars(Runnable(t))
                               /\ SF_vars(lock = NoThread /\ Locking(t))

FairSpec == Spec /\ Fairness

-----------------------------------------------------------------------------
(* Properties *)

\* Type invariant: the device and the calls in progress keep the ranges of the
\* C declarations.
TypeOK ==
    /\ buffer \in [0 .. BUF_SIZE - 1 -> Bytes]
    /\ data_size \in 0 .. BUF_SIZE
    /\ blocking_mode \in {0, 1}
    /\ torn \in BOOLEAN
    /\ lock \in Threads \cup {NoThread}
    /\ pc \in [Threads -> Points]
    /\ count \in [Threads -> Nat]
    /\ copied \in [Threads -> Nat]
    /\ data \in [Threads -> Seq(Bytes)]
    /\ received \in [Threads -> Seq(Bytes)]

\* The mutex is owned exactly by the thread between a lock and its unlock; no
\* return path of my_read, my_write or my_ioctl keeps it.
LockHeldWhenCritical == \A t \in Threads : lock = t <=> pc[t] \in CriticalPoints

\* What a read hands out is the beginning of one message that was written, never
\* a mixture of two: my_write fills the buffer while nobody reads it.  (After a
\* write that met a bad address it is a mixture; the next good write ends that.)
ReadsOneMessage ==
    \A t \in Threads : received[t] # <<>> /\ ~torn =>
        \E m \in Messages : /\ Len(received[t]) <= Len(m)
                            /\ received[t] = SubSeq(m, 1, Len(received[t]))

\* A reader asleep while there is a message has a wake-up on its way: my_write
\* wakes the queue after it has set data_size, whatever else happens.
ReaderWakeupPending ==
    \A r \in Threads : pc[r] = "rd_sleep" /\ data_size > 0
                       => \E t \in Threads : pc[t] = "wr_wake"

\* What holds of the device between any two steps: nobody sleeps beside a
\* message unless the wake-up is coming, nobody keeps the mutex after a return.
Inv == TypeOK /\ LockHeldWhenCritical /\ ReaderWakeupPending

\* A call past its wait comes back, whatever the order of signals, faults and mode
\* switches.
CommittedCallReturns ==
    \A t \in Threads : pc[t] \notin {"idle", "rd_wait", "rd_sleep"} ~> pc[t] = "idle"
=============================================================================
