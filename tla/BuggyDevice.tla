----------------------------- MODULE BuggyDevice -----------------------------
(***************************************************************************)
(* The driver of mutex_sleep_ioctl_exercise/buggy_device.c after           *)
(* buggy_init: the exercise, whose comments mark eleven bugs.  The one     *)
(* mutex is tried by open, released by close, and taken by read; write and *)
(* ioctl use no lock.  Of the message only its length is modelled, since   *)
(* nothing in the code protects the bytes; a write is no longer than the   *)
(* buffer.                                                                 *)
(***************************************************************************)
EXTENDS Naturals, FiniteSets

CONSTANTS Processes,    \* each opens the device at most once at a time
          NoProcess,    \* the mutex has no owner
          Counts,       \* the lengths written
          Signals,      \* BOOLEAN: a sleeping reader may be interrupted
          MaxCloses     \* bound: how often the device is closed

ASSUME BuggyAssumption == /\ NoProcess \notin Processes
                          /\ Counts \subseteq Nat
                          /\ Signals \in BOOLEAN
                          /\ MaxCloses \in Nat

VARIABLES data_size, blocking_mode,
          lock,         \* the process that holds the mutex, or NoProcess
          pc,           \* "closed", "idle" with the device open, or in a call
          count,        \* the length of the write in progress
          closes        \* (not in the code) how often the device was closed

device == <<data_size, blocking_mode>>
vars == <<device, lock, pc, count, closes>>

CriticalPoints == {"rd_check", "rd_wait", "rd_sleep", "rd_copy", "rd_clear", "rd_unlock"}
Points == CriticalPoints \cup {"closed", "idle", "rd_lock", "wr_size", "wr_wake"}

Init == /\ data_size = 0
        /\ blocking_mode = 1
        /\ lock = NoProcess
        /\ pc = [t \in Processes |-> "closed"]
        /\ count = [t \in Processes |-> 0]
        /\ closes = 0

Goto(t, point) == pc' = [pc EXCEPT ![t] = point]

\* An operator named X_m... is wrong on purpose: it is what a plausible slip
\* would make of X, and shows that a property notices.  No action uses it.

\* mutex_trylock, whose result is not looked at.
my_open(t) == /\ pc[t] = "closed"
              /\ lock' = IF lock = NoProcess THEN t ELSE lock
              /\ Goto(t, "idle")
              /\ UNCHANGED <<device, count, closes>>

\* mutex_unlock, whoever holds the mutex and if anybody does.
my_release(t) == /\ pc[t] = "idle"
                 /\ closes < MaxCloses
                 /\ closes' = closes + 1
                 /\ lock' = NoProcess
                 /\ Goto(t, "closed")
                 /\ UNCHANGED <<device, count>>

-----------------------------------------------------------------------------
(* read *)

ReadBegin(t) == /\ pc[t] = "idle"
                /\ Goto(t, "rd_lock")
                /\ UNCHANGED <<device, lock, count, closes>>

\* As my_open does it: a trylock whose result is not looked at.
ReadLock_mTry(t) == /\ pc[t] = "rd_lock"
                    /\ lock' = IF lock = NoProcess THEN t ELSE lock
                    /\ Goto(t, "rd_check")
                    /\ UNCHANGED <<device, count, closes>>

ReadLock_mInterruptible(t) == /\ pc[t] = "rd_lock"
                              /\ \/ lock = NoProcess /\ lock' = t /\ Goto(t, "rd_check")
                                 \/ Signals /\ Goto(t, "idle") /\ UNCHANGED lock
                              /\ UNCHANGED <<device, count, closes>>

\* mutex_lock: no signal ends the wait, not even for a mutex that the process
\* took itself when it opened the device.
ReadLock(t) == /\ pc[t] = "rd_lock"
               /\ lock = NoProcess
               /\ lock' = t
               /\ Goto(t, "rd_check")
               /\ UNCHANGED <<device, count, closes>>

ReadCheck(t) == /\ pc[t] = "rd_check"
                /\ \/ /\ data_size # 0
                      /\ Goto(t, "rd_copy")
                      /\ UNCHANGED lock
                   \/ /\ data_size = 0
                      /\ blocking_mode # 0
                      /\ Goto(t, "rd_wait")
                      /\ UNCHANGED lock
                   \/ /\ data_size = 0
                      /\ blocking_mode = 0        \* -EAGAIN
                      /\ lock' = NoProcess
                      /\ Goto(t, "idle")
                /\ UNCHANGED <<device, count, closes>>

\* wait_event_interruptible(read_queue, data_size > 0), with the mutex held.
ReadWait(t) == /\ pc[t] = "rd_wait"
               /\ Goto(t, IF data_size > 0 THEN "rd_copy" ELSE "rd_sleep")
               /\ UNCHANGED <<device, lock, count, closes>>

\* A signal ends the wait; its result is ignored and the read goes on.
ReadInterrupted(t) == /\ pc[t] \in {"rd_wait", "rd_sleep"}
                      /\ Signals
                      /\ Goto(t, "rd_copy")
                      /\ UNCHANGED <<device, lock, count, closes>>

\* copy_to_user, whose result is ignored.
ReadCopy(t) == /\ pc[t] = "rd_copy"
               /\ Goto(t, "rd_clear")
               /\ UNCHANGED <<device, lock, count, closes>>

ReadClear(t) == /\ pc[t] = "rd_clear"
                /\ data_size' = 0
                /\ Goto(t, "rd_unlock")
                /\ UNCHANGED <<blocking_mode, lock, count, closes>>

\* mutex_unlock, and the return of data_size as it is by then.
ReadUnlock(t) == /\ pc[t] = "rd_unlock"
                 /\ lock' = NoProcess
                 /\ Goto(t, "idle")
                 /\ UNCHANGED <<device, count, closes>>

my_read(t) == \/ ReadCheck(t) \/ ReadWait(t) \/ ReadCopy(t)
              \/ ReadClear(t) \/ ReadUnlock(t)

-----------------------------------------------------------------------------
(* write and ioctl, without a lock *)

\* copy_from_user, whose result is ignored.
WriteBegin(t, n) == /\ pc[t] = "idle"
                    /\ count' = [count EXCEPT ![t] = n]
                    /\ Goto(t, "wr_size")
                    /\ UNCHANGED <<device, lock, closes>>

\* The length is stored after the wake-up instead of before it.
WriteSize_mAfterWake(t) ==
    /\ pc[t] = "wr_size"
    /\ \/ data_size' = count[t] /\ Goto(t, "idle")
       \/ /\ pc' = [u \in Processes |-> IF pc[u] = "rd_sleep" THEN "rd_wait" ELSE pc[u]]
          /\ UNCHANGED data_size
    /\ UNCHANGED <<blocking_mode, lock, count, closes>>

WriteSize(t) == /\ pc[t] = "wr_size"
                /\ data_size' = count[t]
                /\ Goto(t, "wr_wake")
                /\ UNCHANGED <<blocking_mode, lock, count, closes>>

\* wake_up_interruptible(&read_queue): every sleeper looks at data_size again.
WriteWake(t) ==
    /\ pc[t] = "wr_wake"
    /\ pc' = [u \in Processes |-> IF u = t THEN "idle"
                                  ELSE IF pc[u] = "rd_sleep" THEN "rd_wait" ELSE pc[u]]
    /\ count' = [count EXCEPT ![t] = 0]
    /\ UNCHANGED <<device, lock, closes>>

my_write(t) == WriteSize(t) \/ WriteWake(t)

Reset(t) == /\ pc[t] = "idle"
            /\ data_size' = 0
            /\ UNCHANGED <<blocking_mode, lock, pc, count, closes>>

SetBlocking(t, val) == /\ pc[t] = "idle"
                       /\ blocking_mode' = val
                       /\ UNCHANGED <<data_size, lock, pc, count, closes>>

my_ioctl(t) == Reset(t) \/ \E val \in {0, 1} : SetBlocking(t, val)

-----------------------------------------------------------------------------
Call(t) == \/ my_open(t) \/ my_release(t) \/ ReadBegin(t) \/ my_ioctl(t)
           \/ \E n \in Counts : WriteBegin(t, n)

Next == \E t \in Processes : \/ Call(t) \/ my_read(t) \/ my_write(t)
                             \/ ReadLock(t) \/ ReadInterrupted(t)

Spec == Init /\ [][Next]_vars

-----------------------------------------------------------------------------
(* Properties *)

InRead == {t \in Processes : pc[t] \in CriticalPoints}

\* The first open takes the mutex and keeps it, so no read at all gets past
\* mutex_lock before the device is closed for the first time; and each close,
\* which unlocks whatever is locked, can let one more reader in beside those that
\* are inside.  (BUG 1 to 3: the trylock, the unlock, and the lock between them.)
ReadersBoundedByCloses == Cardinality(InRead) <= closes

\* A process that waits in read for the mutex it took itself when it opened the
\* device waits until another process unlocks a mutex that is not its own, by
\* closing the device or by ending a read that has lost the mutex to a close:
\* nothing else, and no signal, gets it out (BUG 3).
StuckUntilOthersUnlock ==
    [][\A t \in Processes : pc[t] = "rd_lock" /\ lock = t =>
          /\ pc'[t] = "rd_lock"
          /\ \/ lock' = t
             \/ /\ lock' = NoProcess
                /\ \E u \in Processes : \/ pc[u] = "idle" /\ pc'[u] = "closed"
                                        \/ u \in InRead /\ pc'[u] = "idle"]_vars

\* A reader asleep while there is data has a wake-up on its way, although the
\* write takes no lock (BUG 8): it stores the length before it wakes the queue.
WakeupPending == \A r \in Processes : pc[r] = "rd_sleep" /\ data_size > 0
                                      => \E w \in Processes : pc[w] = "wr_wake"
=============================================================================
