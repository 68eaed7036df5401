-------------------------- MODULE FixedDevice_proofs --------------------------
(***************************************************************************)
(* Theorem about FixedDevice for every buffer size, every set of threads   *)
(* and every set of messages, with signals and bad addresses.              *)
(***************************************************************************)
EXTENDS FixedDevice, SequenceTheorems, TLAPS

\* What Inv needs to be inductive: the lengths a call works with fit the buffer and
\* its data, and the value of a SET_BLOCKING is one that my_ioctl lets through.
CallInv ==
    \A t \in Threads :
        /\ pc[t] = "rd_copy" => count[t] <= BUF_SIZE
        /\ pc[t] \in {"wr_lock", "wr_copy"} => count[t] <= Len(data[t]) /\ count[t] <= BUF_SIZE
        /\ pc[t] \in {"sb_lock", "sb_set"} => count[t] \in {0, 1}

IInv == TypeOK /\ LockHeldWhenCritical /\ ReaderWakeupPending /\ CallInv

USE FixedAssumption

\* What fixed_init leaves satisfies the inductive invariant.
LEMMA InitInv == Init => IInv
<1> SUFFICES ASSUME Init PROVE IInv OBVIOUS
<1>1. TypeOK
  <2>1. buffer \in [0 .. BUF_SIZE - 1 -> Bytes] /\ data_size \in 0 .. BUF_SIZE
    BY SMT DEF Init
  <2>2. /\ pc \in [Threads -> Points]
        /\ count \in [Threads -> Nat]
        /\ copied \in [Threads -> Nat]
        /\ data \in [Threads -> Seq(Bytes)]
        /\ received \in [Threads -> Seq(Bytes)]
    BY SMT DEF Init, Points
  <2> QED BY <2>1, <2>2 DEF Init, TypeOK
<1>2. LockHeldWhenCritical BY SMT DEF Init, LockHeldWhenCritical, CriticalPoints
<1>3. ReaderWakeupPending BY SMT DEF Init, ReaderWakeupPending
<1>4. CallInv BY SMT DEF Init, CallInv
<1> QED BY <1>1, <1>2, <1>3, <1>4 DEF IInv

\* A step that only takes a call from one of its points to the next, with what
\* that does to the mutex: it lies down only when there is no message.
LEMMA MoveInv ==
    ASSUME NEW t \in Threads, IInv,
           NEW point \in Points,
           Goto(t, point),
           UNCHANGED <<device, call>>,
           pc[t] # "wr_wake",
           point # "rd_copy",
           point = "rd_sleep" => data_size = 0,
           point \in {"wr_lock", "wr_copy"} => pc[t] = "wr_lock",
           point \in {"sb_lock", "sb_set"} => pc[t] = "sb_lock",
           \/ pc[t] \notin CriticalPoints /\ point \in CriticalPoints
              /\ lock = NoThread /\ lock' = t
           \/ (pc[t] \in CriticalPoints <=> point \in CriticalPoints) /\ UNCHANGED lock
    PROVE  IInv'
<1> USE DEF IInv, Goto, device, call
<1>1. TypeOK'
  <2>1. pc' \in [Threads -> Points] BY SMT DEF TypeOK
  <2>2. lock' \in Threads \cup {NoThread} BY SMT DEF TypeOK
  <2> QED BY <2>1, <2>2, Zenon DEF TypeOK
<1>2. LockHeldWhenCritical' BY SMT DEF TypeOK, LockHeldWhenCritical, CriticalPoints
<1>3. ReaderWakeupPending' BY SMT DEF TypeOK, ReaderWakeupPending
<1>4. CallInv' BY SMT DEF TypeOK, CallInv
<1> QED BY <1>1, <1>2, <1>3, <1>4

\* A step that ends a call, after what it has done to the message.
LEMMA ReturnInv ==
    ASSUME NEW t \in Threads, IInv, Return(t),
           buffer' \in [0 .. BUF_SIZE - 1 -> Bytes],
           data_size' \in {0, data_size},
           blocking_mode' \in {0, 1},
           torn' \in BOOLEAN,
           pc[t] # "wr_wake",
           \/ pc[t] \in CriticalPoints /\ lock' = NoThread
           \/ pc[t] \notin CriticalPoints /\ UNCHANGED lock
    PROVE  IInv'
<1> USE DEF IInv, Return, EndCall, Goto
<1>1. TypeOK'
  <2>1. pc' \in [Threads -> Points] BY SMT DEF TypeOK, Points
  <2>2. lock' \in Threads \cup {NoThread} BY SMT DEF TypeOK
  <2>3. data_size' \in 0 .. BUF_SIZE BY SMT DEF TypeOK
  <2>4. /\ count' \in [Threads -> Nat]
        /\ copied' \in [Threads -> Nat]
        /\ data' \in [Threads -> Seq(Bytes)]
        /\ received' \in [Threads -> Seq(Bytes)]
    BY SMT DEF TypeOK
  <2> QED BY <2>1, <2>2, <2>3, <2>4, Zenon DEF TypeOK
<1>2. LockHeldWhenCritical' BY SMT DEF TypeOK, LockHeldWhenCritical, CriticalPoints
<1>3. ReaderWakeupPending' BY SMT DEF TypeOK, ReaderWakeupPending
<1>4. CallInv' BY SMT DEF TypeOK, CallInv
<1> QED BY <1>1, <1>2, <1>3, <1>4

\* Starting a call keeps the inductive invariant.
LEMMA BeginInv == ASSUME NEW t \in Threads, IInv, Begin(t) PROVE IInv'
<1> USE DEF IInv, Goto, device, call
<1>1. ASSUME NEW n \in Counts, ReadBegin(t, n) PROVE IInv'
  <2>1. TypeOK' BY <1>1, SMT DEF ReadBegin, TypeOK, Points, ReadPoints
  <2>2. LockHeldWhenCritical'
    BY <1>1, SMT DEF ReadBegin, TypeOK, LockHeldWhenCritical, CriticalPoints
  <2>3. ReaderWakeupPending' BY <1>1, SMT DEF ReadBegin, TypeOK, ReaderWakeupPending
  <2>4. CallInv' BY <1>1, SMT DEF ReadBegin, TypeOK, CallInv
  <2> QED BY <2>1, <2>2, <2>3, <2>4
<1>2. ASSUME NEW m \in Messages, WriteBegin(t, m) PROVE IInv'
  <2>1. m \in Seq(Bytes) /\ Len(m) \in Nat BY SMT
  <2>2. min(Len(m), BUF_SIZE) \in Nat /\ min(Len(m), BUF_SIZE) <= Len(m)
        /\ min(Len(m), BUF_SIZE) <= BUF_SIZE
    BY <2>1, SMT DEF min
  <2>3. TypeOK' BY <1>2, <2>1, <2>2, SMT DEF WriteBegin, TypeOK, Points, WritePoints
  <2>4. LockHeldWhenCritical'
    BY <1>2, SMT DEF WriteBegin, TypeOK, LockHeldWhenCritical, CriticalPoints
  <2>5. ReaderWakeupPending' BY <1>2, SMT DEF WriteBegin, TypeOK, ReaderWakeupPending
  <2>6. CallInv' BY <1>2, <2>1, <2>2, SMT DEF WriteBegin, TypeOK, CallInv
  <2> QED BY <2>3, <2>4, <2>5, <2>6
<1>3. CASE ResetBegin(t)
  <2>1. TypeOK' BY <1>3, SMT DEF ResetBegin, TypeOK, Points, IoctlPoints
  <2>2. LockHeldWhenCritical'
    BY <1>3, SMT DEF ResetBegin, TypeOK, LockHeldWhenCritical, CriticalPoints
  <2>3. ReaderWakeupPending' BY <1>3, SMT DEF ResetBegin, TypeOK, ReaderWakeupPending
  <2>4. CallInv' BY <1>3, SMT DEF ResetBegin, TypeOK, CallInv
  <2> QED BY <2>1, <2>2, <2>3, <2>4
<1>4. ASSUME NEW val \in {0, 1}, SetBlockingBegin(t, val) PROVE IInv'
  <2>1. TypeOK' BY <1>4, SMT DEF SetBlockingBegin, TypeOK, Points, IoctlPoints
  <2>2. LockHeldWhenCritical'
    BY <1>4, SMT DEF SetBlockingBegin, TypeOK, LockHeldWhenCritical, CriticalPoints
  <2>3. ReaderWakeupPending' BY <1>4, SMT DEF SetBlockingBegin, TypeOK, ReaderWakeupPending
  <2>4. CallInv' BY <1>4, SMT DEF SetBlockingBegin, TypeOK, CallInv
  <2> QED BY <2>1, <2>2, <2>3, <2>4
<1> QED BY <1>1, <1>2, <1>3, <1>4 DEF Begin

\* So does obtaining the mutex, or giving up after a signal.
LEMMA LockingInv == ASSUME NEW t \in Threads, IInv, Locking(t) PROVE IInv'
<1>t. /\ buffer \in [0 .. BUF_SIZE - 1 -> Bytes]
      /\ blocking_mode \in {0, 1}
      /\ torn \in BOOLEAN
  BY DEF IInv, TypeOK
<1>1. ASSUME NEW point \in CriticalPoints, LockInterruptible(t, point),
             pc[t] \in Points \ (CriticalPoints \cup {"wr_wake"}),
             point # "rd_copy",
             point = "wr_copy" => pc[t] = "wr_lock",
             point = "sb_set" => pc[t] = "sb_lock"
      PROVE  IInv'
  <2>1. CASE lock = NoThread /\ lock' = t /\ Goto(t, point) /\ UNCHANGED <<device, call>>
    <3>1. point \in Points
      BY SMT DEF CriticalPoints, Points, ReadPoints, WritePoints, IoctlPoints
    <3> QED BY <1>1, <2>1, <3>1, MoveInv, SMT DEF CriticalPoints
  <2>2. CASE Return(t) /\ UNCHANGED <<device, lock>>
    <3>1. pc[t] \notin CriticalPoints /\ pc[t] # "wr_wake" BY <1>1
    <3> QED BY <1>t, <2>2, <3>1, ReturnInv, SMT DEF device
  <2> QED BY <1>1, <2>1, <2>2 DEF LockInterruptible
<1> USE DEF CriticalPoints, Points, ReadPoints, WritePoints, IoctlPoints
<1>2. CASE ReadLock(t) BY <1>1, <1>2, SMT DEF ReadLock
<1>3. CASE ReadTryLock(t) BY <1>1, <1>3, SMT DEF ReadTryLock
<1>4. CASE WriteLock(t) BY <1>1, <1>4, SMT DEF WriteLock
<1>5. CASE ResetLock(t) BY <1>1, <1>5, SMT DEF ResetLock
<1>6. CASE SetBlockingLock(t) BY <1>1, <1>6, SMT DEF SetBlockingLock
<1> QED BY <1>2, <1>3, <1>4, <1>5, <1>6 DEF Locking

\* The steps of my_read keep the inductive invariant.
LEMMA ReadInv ==
    ASSUME NEW t \in Threads, IInv,
           ReadWait(t) \/ ReadInterrupted(t) \/ ReadCheck(t) \/ ReadMin(t) \/ ReadCopy(t)
    PROVE  IInv'
<1>t. /\ buffer \in [0 .. BUF_SIZE - 1 -> Bytes]
      /\ data_size \in 0 .. BUF_SIZE
      /\ blocking_mode \in {0, 1}
      /\ torn \in BOOLEAN
  BY DEF IInv, TypeOK
<1> USE DEF CriticalPoints, Points, ReadPoints
<1>1. CASE ReadWait(t) BY <1>1, <1>t, MoveInv, ReturnInv, SMT DEF ReadWait, device
<1>2. CASE ReadInterrupted(t)
  BY <1>2, <1>t, MoveInv, ReturnInv, SMT DEF ReadInterrupted, device
<1>3. CASE ReadCheck(t)
  BY <1>3, <1>t, MoveInv, ReturnInv, SMT DEF ReadCheck, UnlockAndReturn, device
<1>4. CASE ReadMin(t)
  <2> USE DEF IInv, Goto, device
  <2>1. min(count[t], data_size) \in 0 .. BUF_SIZE BY <1>t, SMT DEF min, TypeOK
  <2>2. TypeOK' BY <1>4, <2>1, SMT DEF ReadMin, TypeOK
  <2>3. LockHeldWhenCritical' BY <1>4, SMT DEF ReadMin, TypeOK, LockHeldWhenCritical
  <2>4. ReaderWakeupPending' BY <1>4, SMT DEF ReadMin, TypeOK, ReaderWakeupPending
  <2>5. CallInv' BY <1>4, <2>1, SMT DEF ReadMin, TypeOK, CallInv
  <2> QED BY <2>2, <2>3, <2>4, <2>5
<1>5. CASE ReadCopy(t)
  <2>1. CASE /\ pc[t] = "rd_copy"
             /\ received' = [received EXCEPT ![t] = Append(@, buffer[copied[t]])]
             /\ copied' = [copied EXCEPT ![t] = @ + 1]
             /\ copied[t] < count[t]
             /\ UNCHANGED <<device, lock, pc, count, data>>
    <3>1. TypeOK'
      <4>1. copied[t] \in 0 .. BUF_SIZE - 1 BY <2>1, SMT DEF IInv, TypeOK, CallInv
      <4>2. Append(received[t], buffer[copied[t]]) \in Seq(Bytes)
        BY <4>1, SMT DEF IInv, TypeOK
      <4>3. received' \in [Threads -> Seq(Bytes)] /\ copied' \in [Threads -> Nat]
        BY <2>1, <4>2, SMT DEF IInv, TypeOK
      <4> QED BY <2>1, <4>3 DEF IInv, TypeOK, device
    <3>2. LockHeldWhenCritical' BY <2>1 DEF IInv, LockHeldWhenCritical
    <3>3. ReaderWakeupPending' BY <2>1 DEF IInv, ReaderWakeupPending, device
    <3>4. CallInv' BY <2>1 DEF IInv, CallInv
    <3> QED BY <3>1, <3>2, <3>3, <3>4 DEF IInv
  <2>2. CASE pc[t] = "rd_copy" /\ UnlockAndReturn(t) /\ UNCHANGED device
    BY <2>2, <1>t, ReturnInv, SMT DEF UnlockAndReturn, device
  <2>3. CASE /\ pc[t] = "rd_copy"
             /\ data_size' = 0
             /\ UnlockAndReturn(t)
             /\ UNCHANGED <<buffer, blocking_mode, torn>>
    BY <2>3, <1>t, ReturnInv, SMT DEF UnlockAndReturn
  <2> QED BY <1>5, <2>1, <2>2, <2>3 DEF ReadCopy
<1> QED BY <1>1, <1>2, <1>3, <1>4, <1>5

\* The steps of my_write keep it too: the length is stored by a thread that can only
\* go on to its wake-up, after which nobody sleeps.
LEMMA WriteInv == ASSUME NEW t \in Threads, IInv, WriteCopy(t) \/ WriteWake(t) PROVE IInv'
<1>t. /\ buffer \in [0 .. BUF_SIZE - 1 -> Bytes]
      /\ data_size \in 0 .. BUF_SIZE
      /\ blocking_mode \in {0, 1}
  BY DEF IInv, TypeOK
<1>1. CASE WriteCopy(t)
  <2>1. pc[t] = "wr_copy" BY <1>1 DEF WriteCopy
  <2>2. CASE /\ copied[t] < count[t]
             /\ buffer' = [buffer EXCEPT ![copied[t]] = data[t][copied[t] + 1]]
             /\ copied' = [copied EXCEPT ![t] = @ + 1]
             /\ UNCHANGED <<data_size, blocking_mode, torn, lock, pc, count, data, received>>
    <3>1. TypeOK'
      <4>1. copied[t] + 1 \in 1 .. Len(data[t]) BY <2>1, <2>2, SMT DEF IInv, TypeOK, CallInv
      <4>2. data[t] \in Seq(Bytes) BY DEF IInv, TypeOK
      <4>3. data[t][copied[t] + 1] \in Bytes BY <4>1, <4>2, SMT
      <4>4. \A i, b : b \in Bytes => [buffer EXCEPT ![i] = b] \in [0 .. BUF_SIZE - 1 -> Bytes]
        BY <1>t, SMT
      <4>5. copied' \in [Threads -> Nat] BY <2>2, SMT DEF IInv, TypeOK
      <4> QED BY <2>2, <4>3, <4>4, <4>5 DEF IInv, TypeOK
    <3>2. LockHeldWhenCritical' BY <2>2 DEF IInv, LockHeldWhenCritical
    <3>3. ReaderWakeupPending' BY <2>2 DEF IInv, ReaderWakeupPending
    <3>4. CallInv' BY <2>2 DEF IInv, CallInv
    <3> QED BY <3>1, <3>2, <3>3, <3>4 DEF IInv
  <2>3. CASE /\ buffer' = [i \in DOMAIN buffer |->
                               IF i \in copied[t] .. count[t] - 1 THEN 0 ELSE buffer[i]]
             /\ torn' = TRUE
             /\ UnlockAndReturn(t)
             /\ UNCHANGED <<data_size, blocking_mode>>
    <3>1. buffer' \in [0 .. BUF_SIZE - 1 -> Bytes] BY <1>t, <2>3, SMT
    <3> QED BY <1>t, <2>1, <2>3, <3>1, ReturnInv, SMT DEF UnlockAndReturn, CriticalPoints
  <2>4. CASE /\ data_size' = count[t]
             /\ torn' = FALSE
             /\ lock' = NoThread
             /\ Goto(t, "wr_wake")
             /\ UNCHANGED <<buffer, blocking_mode, call>>
    <3> USE DEF IInv, Goto, call
    <3>1. TypeOK'
      <4>1. data_size' \in 0 .. BUF_SIZE BY <2>1, <2>4, SMT DEF TypeOK, CallInv
      <4>2. pc' \in [Threads -> Points] BY <2>4, SMT DEF TypeOK, Points, WritePoints
      <4> QED BY <2>4, <4>1, <4>2 DEF TypeOK
    <3>2. LockHeldWhenCritical'
      BY <2>1, <2>4, SMT DEF TypeOK, LockHeldWhenCritical, CriticalPoints
    <3>3. ReaderWakeupPending'
      <4>1. pc'[t] = "wr_wake" BY <2>4, SMT DEF TypeOK
      <4> QED BY <4>1 DEF ReaderWakeupPending
    <3>4. CallInv' BY <2>4, SMT DEF TypeOK, CallInv
    <3> QED BY <3>1, <3>2, <3>3, <3>4
  <2> QED BY <1>1, <2>2, <2>3, <2>4 DEF WriteCopy
<1>2. CASE WriteWake(t)
  <2> USE DEF IInv, EndCall, device
  <2>1. TypeOK'
    <3>1. pc' \in [Threads -> Points]
      BY <1>2, SMT DEF WriteWake, TypeOK, Points, ReadPoints
    <3>2. /\ count' \in [Threads -> Nat]
          /\ copied' \in [Threads -> Nat]
          /\ data' \in [Threads -> Seq(Bytes)]
          /\ received' \in [Threads -> Seq(Bytes)]
      BY <1>2, SMT DEF WriteWake, TypeOK
    <3> QED BY <1>2, <3>1, <3>2 DEF WriteWake, TypeOK
  <2>2. LockHeldWhenCritical'
    BY <1>2, SMT DEF WriteWake, TypeOK, LockHeldWhenCritical, CriticalPoints
  <2>3. \A r \in Threads : pc'[r] # "rd_sleep" BY <1>2, SMT DEF WriteWake
  <2>4. ReaderWakeupPending' BY <2>3 DEF ReaderWakeupPending
  <2>5. CallInv' BY <1>2, SMT DEF WriteWake, TypeOK, CallInv
  <2> QED BY <2>1, <2>2, <2>4, <2>5
<1> QED BY <1>1, <1>2

\* So do the ioctls.
LEMMA IoctlInv == ASSUME NEW t \in Threads, IInv, ResetClear(t) \/ SetBlocking(t) PROVE IInv'
<1>t. /\ buffer \in [0 .. BUF_SIZE - 1 -> Bytes]
      /\ blocking_mode \in {0, 1}
      /\ torn \in BOOLEAN
  BY DEF IInv, TypeOK
<1>1. CASE ResetClear(t)
  BY <1>1, <1>t, ReturnInv, SMT DEF ResetClear, UnlockAndReturn, CriticalPoints
<1>2. CASE SetBlocking(t)
  <2>1. count[t] \in {0, 1} BY <1>2 DEF IInv, CallInv, SetBlocking
  <2> QED BY <1>2, <1>t, <2>1, ReturnInv, SMT DEF SetBlocking, UnlockAndReturn, CriticalPoints
<1> QED BY <1>1, <1>2

\* Every step keeps the inductive invariant.
LEMMA StepInv == IInv /\ [Next]_vars => IInv'
<1> SUFFICES ASSUME IInv, [Next]_vars PROVE IInv' OBVIOUS
<1>1. ASSUME NEW t \in Threads, Runnable(t) PROVE IInv'
  BY <1>1, ReadInv, WriteInv, IoctlInv DEF Runnable
<1>2. CASE Next BY <1>2, <1>1, BeginInv, LockingInv, ReadInv DEF Next
<1>3. CASE UNCHANGED vars
  BY <1>3 DEF vars, device, call, IInv, TypeOK, LockHeldWhenCritical,
              ReaderWakeupPending, CallInv
<1> QED BY <1>2, <1>3

\* The mutex discipline of fixed_device.c, its types, and no missed wake-up: a
\* reader that sleeps beside a message has a writer that is about to wake it, and no
\* return path keeps the mutex, whatever signals and bad addresses come.
THEOREM NoMissedWakeup == Spec => []Inv
<1>1. Spec => []IInv BY InitInv, StepInv, PTL DEF Spec
<1>2. IInv => Inv BY DEF IInv, Inv
<1> QED BY <1>1, <1>2, PTL

-----------------------------------------------------------------------------
\* A read in progress has handed out the first bytes of the buffer, and a call that
\* is not copying has handed out nothing.
ReadsInOrder ==
    \A t \in Threads :
        IF pc[t] = "rd_copy"
        THEN /\ copied[t] <= count[t]
             /\ count[t] <= data_size
             /\ Len(received[t]) = copied[t]
             /\ \A i \in 1 .. copied[t] : received[t][i] = buffer[i - 1]
        ELSE received[t] = <<>>

\* A write in progress has put the first bytes of its message in the buffer.
WritesInOrder ==
    \A t \in Threads :
        /\ pc[t] \in {"wr_lock", "wr_copy"} => data[t] \in Messages
        /\ pc[t] \notin {"rd_copy", "wr_copy", "wr_wake"} => copied[t] = 0
        /\ pc[t] = "wr_copy" => /\ copied[t] <= count[t]
                                /\ \A i \in 1 .. copied[t] : buffer[i - 1] = data[t][i]

\* While nobody writes, the first data_size bytes are those of one message.
Stored == ~torn /\ data_size > 0 /\ (\A t \in Threads : pc[t] # "wr_copy")
          => \E m \in Messages : /\ data_size <= Len(m)
                                  /\ \A i \in 1 .. data_size : buffer[i - 1] = m[i]

DataInv == ReadsInOrder /\ WritesInOrder /\ Stored

\* Two threads are never between a lock and its unlock at once.
LEMMA Exclusion ==
    ASSUME IInv, NEW t \in Threads, NEW u \in Threads,
           pc[t] \in CriticalPoints, pc[u] \in CriticalPoints
    PROVE  t = u
BY DEF IInv, LockHeldWhenCritical

\* A step that moves a call on and touches no data.
LEMMA MoveData ==
    ASSUME NEW t \in Threads, IInv, DataInv,
           NEW point \in Points,
           Goto(t, point),
           UNCHANGED <<buffer, data_size, torn, copied, data, received>>,
           pc[t] \notin {"rd_copy", "wr_copy", "wr_wake"},
           count' = count \/ pc[t] # "wr_lock",
           \A u \in Threads \ {t} : count'[u] = count[u],
           point = "rd_copy" => count'[t] \in Nat /\ count'[t] <= data_size,
           point # "wr_lock",
           point = "wr_copy" => pc[t] = "wr_lock"
    PROVE  DataInv'
<1> USE DEF IInv, DataInv, TypeOK, Goto
<1>1. ReadsInOrder' BY SMT DEF ReadsInOrder, WritesInOrder
<1>2. WritesInOrder' BY SMT DEF WritesInOrder
<1>3. Stored' BY SMT DEF Stored
<1> QED BY <1>1, <1>2, <1>3

\* A step that ends a call: without touching the message, taking it away, or leaving
\* it half overwritten.
LEMMA ReturnData ==
    ASSUME NEW t \in Threads, IInv, DataInv, Return(t),
           \/ /\ pc[t] # "wr_copy"
              /\ buffer' = buffer /\ data_size' = data_size /\ torn' = torn
           \/ /\ pc[t] \in CriticalPoints
              /\ data_size' = 0 /\ buffer' = buffer
           \/ /\ pc[t] \in CriticalPoints
              /\ torn' = TRUE /\ data_size' = data_size
    PROVE  DataInv'
<1> USE DEF DataInv, Return, EndCall, Goto
<1>1. \A u \in Threads \ {t} : /\ pc'[u] = pc[u] /\ count'[u] = count[u]
                               /\ copied'[u] = copied[u] /\ data'[u] = data[u]
                               /\ received'[u] = received[u]
  BY SMT DEF IInv, TypeOK
<1>2. /\ pc'[t] = "idle" /\ copied'[t] = 0 /\ received'[t] = <<>>
  BY SMT DEF IInv, TypeOK
<1>3. \A u \in Threads \ {t} :
          pc[u] \in {"rd_copy", "wr_copy"} => UNCHANGED <<buffer, data_size>>
  BY Exclusion, Zenon DEF CriticalPoints
<1>4. ReadsInOrder' BY <1>1, <1>2, <1>3, SMT DEF ReadsInOrder
<1>5. WritesInOrder' BY <1>1, <1>2, <1>3, SMT DEF WritesInOrder
<1>6. Stored'
  <2>1. CASE /\ pc[t] # "wr_copy"
             /\ buffer' = buffer /\ data_size' = data_size /\ torn' = torn
    BY <1>1, <2>1, SMT DEF Stored
  <2>2. CASE data_size' = 0 \/ torn' = TRUE BY <2>2, SMT DEF Stored
  <2> QED BY <2>1, <2>2
<1> QED BY <1>4, <1>5, <1>6

\* A call that ends without having touched the device.
LEMMA PlainReturn ==
    ASSUME NEW t \in Threads, IInv, DataInv, Return(t), UNCHANGED device, pc[t] # "wr_copy"
    PROVE  DataInv'
BY ReturnData DEF device

\* Starting a call does not touch the message.
LEMMA BeginData == ASSUME NEW t \in Threads, IInv, DataInv, Begin(t) PROVE DataInv'
<1>t. /\ pc \in [Threads -> Points]
      /\ count \in [Threads -> Nat]
      /\ data \in [Threads -> Seq(Bytes)]
  BY DEF IInv, TypeOK
<1> USE DEF Points, ReadPoints, IoctlPoints, WritePoints
<1>1. ASSUME NEW n \in Counts, ReadBegin(t, n) PROVE DataInv'
  <2>1. \A u \in Threads \ {t} : count'[u] = count[u] BY <1>1, <1>t, SMT DEF ReadBegin
  <2>2. PICK point \in {"rd_trylock", "rd_wait"} : Goto(t, point) BY <1>1 DEF ReadBegin
  <2> QED BY <1>1, <2>1, <2>2, MoveData, SMT DEF ReadBegin, device
<1>2. ASSUME NEW m \in Messages, WriteBegin(t, m) PROVE DataInv'
  <2> USE DEF DataInv, WriteBegin, Goto, device
  <2>1. ReadsInOrder' BY <1>2, <1>t, SMT DEF ReadsInOrder
  <2>2. WritesInOrder' BY <1>2, <1>t, SMT DEF WritesInOrder
  <2>3. Stored' BY <1>2, <1>t, SMT DEF Stored
  <2> QED BY <2>1, <2>2, <2>3
<1>3. CASE ResetBegin(t) BY <1>3, <1>t, MoveData, SMT DEF ResetBegin, device, call
<1>4. ASSUME NEW val \in {0, 1}, SetBlockingBegin(t, val) PROVE DataInv'
  <2>1. \A u \in Threads \ {t} : count'[u] = count[u]
    BY <1>4, <1>t, SMT DEF SetBlockingBegin
  <2> QED BY <1>4, <2>1, MoveData, SMT DEF SetBlockingBegin, device
<1> QED BY <1>1, <1>2, <1>3, <1>4 DEF Begin

\* Nor does obtaining the mutex.
LEMMA LockingData == ASSUME NEW t \in Threads, IInv, DataInv, Locking(t) PROVE DataInv'
<1> USE DEF Points, ReadPoints, IoctlPoints, WritePoints
<1>1. ASSUME NEW point \in Points, LockInterruptible(t, point),
             pc[t] \notin {"rd_copy", "wr_copy", "wr_wake"},
             point \notin {"rd_copy", "wr_lock"},
             point = "wr_copy" => pc[t] = "wr_lock"
      PROVE  DataInv'
  <2>1. CASE Goto(t, point) /\ UNCHANGED <<device, call>>
    BY <1>1, <2>1, MoveData, SMT DEF device, call
  <2>2. CASE Return(t) /\ UNCHANGED <<device, lock>>
    BY <1>1, <2>2, PlainReturn
  <2> QED BY <1>1, <2>1, <2>2 DEF LockInterruptible
<1>2. CASE ReadLock(t) BY <1>1, <1>2, SMT DEF ReadLock
<1>3. CASE ReadTryLock(t) BY <1>1, <1>3, SMT DEF ReadTryLock
<1>4. CASE WriteLock(t) BY <1>1, <1>4, SMT DEF WriteLock
<1>5. CASE ResetLock(t) BY <1>1, <1>5, SMT DEF ResetLock
<1>6. CASE SetBlockingLock(t) BY <1>1, <1>6, SMT DEF SetBlockingLock
<1> QED BY <1>2, <1>3, <1>4, <1>5, <1>6 DEF Locking

\* my_read copies from the first byte on, no further than the message goes, while
\* the mutex keeps writers away.
LEMMA ReadData ==
    ASSUME NEW t \in Threads, IInv, DataInv,
           ReadWait(t) \/ ReadInterrupted(t) \/ ReadCheck(t) \/ ReadMin(t) \/ ReadCopy(t)
    PROVE  DataInv'
<1>t. /\ pc \in [Threads -> Points]
      /\ count \in [Threads -> Nat]
      /\ copied \in [Threads -> Nat]
      /\ received \in [Threads -> Seq(Bytes)]
      /\ data_size \in Nat
  BY SMT DEF IInv, TypeOK
<1> USE DEF Points, ReadPoints
<1>m. ASSUME NEW point \in {"rd_sleep", "rd_lock", "rd_min"}, Goto(t, point),
             pc[t] \in {"rd_wait", "rd_sleep", "rd_check"},
             UNCHANGED device, UNCHANGED call
      PROVE  DataInv'
  BY <1>m, MoveData, SMT DEF device, call
<1>r. ASSUME Return(t), UNCHANGED device, pc[t] # "wr_copy" PROVE DataInv'
  BY <1>r, PlainReturn
<1>1. CASE ReadWait(t)
  BY <1>1, <1>m, <1>r, SMT DEF ReadWait
<1>2. CASE ReadInterrupted(t)
  BY <1>2, <1>m, <1>r, SMT DEF ReadInterrupted
<1>3. CASE ReadCheck(t)
  BY <1>3, <1>m, <1>r, SMT DEF ReadCheck, UnlockAndReturn
<1>4. CASE ReadMin(t)
  <2>1. min(count[t], data_size) \in Nat /\ min(count[t], data_size) <= data_size
    BY <1>t, SMT DEF min
  <2>2. count'[t] \in Nat /\ count'[t] <= data_size BY <1>4, <1>t, <2>1, SMT DEF ReadMin
  <2>3. \A u \in Threads \ {t} : count'[u] = count[u] BY <1>4, <1>t, SMT DEF ReadMin
  <2> QED BY <1>4, <2>2, <2>3, MoveData, SMT DEF ReadMin, device
<1>5. CASE ReadCopy(t)
  <2>1. pc[t] = "rd_copy" BY <1>5 DEF ReadCopy
  <2>2. CASE /\ copied[t] < count[t]
             /\ received' = [received EXCEPT ![t] = Append(@, buffer[copied[t]])]
             /\ copied' = [copied EXCEPT ![t] = @ + 1]
             /\ UNCHANGED <<device, lock, pc, count, data>>
    <3> USE DEF DataInv, device
    <3>1. ReadsInOrder'
      <4>1. /\ copied[t] \in Nat /\ count[t] \in Nat /\ count[t] <= data_size
            /\ received[t] \in Seq(Bytes) /\ Len(received[t]) = copied[t]
            /\ \A i \in 1 .. copied[t] : received[t][i] = buffer[i - 1]
        BY <1>t, <2>1, SMT DEF ReadsInOrder
      <4>2. buffer[copied[t]] \in Bytes
        BY <4>1, <2>2, SMT DEF IInv, TypeOK
      <4>3. received'[t] = Append(received[t], buffer[copied[t]]) /\ copied'[t] = copied[t] + 1
        BY <2>2, <1>t, SMT
      <4>4. Len(received'[t]) = copied'[t] /\ copied'[t] <= count[t]
        BY <4>1, <4>2, <4>3, <2>2, SMT
      <4>5. \A i \in 1 .. copied'[t] : received'[t][i] = buffer[i - 1]
        BY <4>1, <4>2, <4>3, SMT
      <4>6. \A u \in Threads \ {t} : received'[u] = received[u] /\ copied'[u] = copied[u]
        BY <2>2, <1>t, SMT
      <4> QED BY <2>1, <2>2, <4>1, <4>4, <4>5, <4>6, SMT DEF ReadsInOrder
    <3>2. WritesInOrder' BY <2>1, <2>2, <1>t, SMT DEF WritesInOrder
    <3>3. Stored' BY <2>2 DEF Stored
    <3> QED BY <3>1, <3>2, <3>3
  <2>3. CASE UnlockAndReturn(t) /\ UNCHANGED device
    BY <2>1, <2>3, <1>r DEF UnlockAndReturn
  <2>4. CASE /\ data_size' = 0
             /\ UnlockAndReturn(t)
             /\ UNCHANGED <<buffer, blocking_mode, torn>>
    BY <2>1, <2>4, ReturnData DEF UnlockAndReturn, CriticalPoints
  <2> QED BY <1>5, <2>2, <2>3, <2>4 DEF ReadCopy
<1> QED BY <1>1, <1>2, <1>3, <1>4, <1>5

\* my_write copies from the first byte on while the mutex keeps everyone away, and
\* stores the length of a message that is all there.
LEMMA WriteData == ASSUME NEW t \in Threads, IInv, DataInv, WriteCopy(t) \/ WriteWake(t) PROVE DataInv'
<1>t. /\ pc \in [Threads -> Points]
      /\ count \in [Threads -> Nat]
      /\ copied \in [Threads -> Nat]
      /\ data \in [Threads -> Seq(Bytes)]
      /\ received \in [Threads -> Seq(Bytes)]
      /\ buffer \in [0 .. BUF_SIZE - 1 -> Bytes]
      /\ data_size \in Nat
  BY SMT DEF IInv, TypeOK
<1> USE DEF DataInv
<1>1. CASE WriteCopy(t)
  <2>1. pc[t] = "wr_copy" BY <1>1 DEF WriteCopy
  <2>2. \A u \in Threads \ {t} : pc[u] \notin {"rd_copy", "wr_copy"}
    BY <2>1, Exclusion, Zenon DEF CriticalPoints
  <2>3. /\ copied[t] <= count[t] /\ count[t] <= Len(data[t]) /\ count[t] <= BUF_SIZE
        /\ data[t] \in Messages
        /\ \A i \in 1 .. copied[t] : buffer[i - 1] = data[t][i]
    BY <2>1 DEF IInv, CallInv, WritesInOrder
  <2>4. CASE /\ copied[t] < count[t]
             /\ buffer' = [buffer EXCEPT ![copied[t]] = data[t][copied[t] + 1]]
             /\ copied' = [copied EXCEPT ![t] = @ + 1]
             /\ UNCHANGED <<data_size, blocking_mode, torn, lock, pc, count, data, received>>
    <3>1. ReadsInOrder' BY <2>1, <2>2, <2>4, SMT DEF ReadsInOrder
    <3>2. WritesInOrder'
      <4>1. copied'[t] = copied[t] + 1 /\ copied'[t] <= count[t]
        BY <2>4, <1>t, SMT
      <4>2. \A i \in 1 .. copied'[t] : buffer'[i - 1] = data[t][i]
        <5> TAKE i \in 1 .. copied'[t]
        <5>1. CASE i = copied[t] + 1
          <6>1. copied[t] \in 0 .. BUF_SIZE - 1 /\ i - 1 = copied[t]
            BY <5>1, <1>t, <2>3, <2>4, SMT
          <6>2. buffer'[copied[t]] = data[t][copied[t] + 1] BY <6>1, <1>t, <2>4
          <6> QED BY <5>1, <6>1, <6>2
        <5>2. CASE i # copied[t] + 1
          <6>1. i \in 1 .. copied[t] /\ i - 1 \in 0 .. BUF_SIZE - 1 /\ i - 1 # copied[t]
            BY <5>2, <1>t, <2>3, <2>4, <4>1, SMT
          <6>2. buffer'[i - 1] = buffer[i - 1] BY <6>1, <1>t, <2>4
          <6> QED BY <6>1, <6>2, <2>3
        <5> QED BY <5>1, <5>2
      <4>3. \A u \in Threads \ {t} : copied'[u] = copied[u] BY <2>4, <1>t, SMT
      <4> QED BY <2>1, <2>2, <2>4, <4>1, <4>2, <4>3, SMT DEF WritesInOrder
    <3>3. Stored' BY <2>1, <2>4 DEF Stored
    <3> QED BY <3>1, <3>2, <3>3
  <2>5. CASE /\ torn' = TRUE
             /\ UnlockAndReturn(t)
             /\ UNCHANGED <<data_size, blocking_mode>>
    BY <2>1, <2>5, ReturnData DEF UnlockAndReturn, CriticalPoints
  <2>6. CASE /\ copied[t] >= count[t]
             /\ data_size' = count[t]
             /\ torn' = FALSE
             /\ lock' = NoThread
             /\ Goto(t, "wr_wake")
             /\ UNCHANGED <<buffer, blocking_mode, call>>
    <3> USE DEF Goto, call
    <3>1. pc'[t] = "wr_wake" /\ \A u \in Threads \ {t} : pc'[u] = pc[u] BY <2>6, <1>t, SMT
    <3>2. ReadsInOrder' BY <2>1, <2>2, <2>6, <3>1, SMT DEF ReadsInOrder
    <3>3. WritesInOrder' BY <2>6, <3>1, SMT DEF WritesInOrder
    <3>4. copied[t] = count[t] BY <1>t, <2>3, <2>6, SMT
    <3>5. Stored' BY <2>3, <2>6, <3>4 DEF Stored
    <3> QED BY <3>2, <3>3, <3>5
  <2> QED BY <1>1, <2>4, <2>5, <2>6 DEF WriteCopy
<1>2. CASE WriteWake(t)
  <2> USE DEF WriteWake, EndCall, device
  <2>1. \A u \in Threads \ {t} : /\ copied'[u] = copied[u] /\ count'[u] = count[u]
                                 /\ data'[u] = data[u] /\ received'[u] = received[u]
    BY <1>2, <1>t, SMT
  <2>2. copied'[t] = 0 /\ received'[t] = <<>> /\ pc'[t] = "idle" BY <1>2, <1>t, SMT
  <2>3. \A u \in Threads \ {t} : pc'[u] = IF pc[u] = "rd_sleep" THEN "rd_wait" ELSE pc[u]
    BY <1>2, SMT
  <2>4. ReadsInOrder' BY <1>2, <2>1, <2>2, <2>3, SMT DEF ReadsInOrder
  <2>5. WritesInOrder' BY <1>2, <2>1, <2>2, <2>3, SMT DEF WritesInOrder
  <2>6. Stored' BY <1>2, <2>3, SMT DEF Stored
  <2> QED BY <2>4, <2>5, <2>6
<1> QED BY <1>1, <1>2

\* The ioctls take the message away or leave it alone.
LEMMA IoctlData ==
    ASSUME NEW t \in Threads, IInv, DataInv, ResetClear(t) \/ SetBlocking(t)
    PROVE  DataInv'
<1>1. CASE ResetClear(t)
  BY <1>1, ReturnData DEF ResetClear, UnlockAndReturn, CriticalPoints
<1>2. CASE SetBlocking(t)
  BY <1>2, ReturnData DEF SetBlocking, UnlockAndReturn, CriticalPoints
<1> QED BY <1>1, <1>2

\* Every step keeps the message whole.
LEMMA StepData == IInv /\ DataInv /\ [Next]_vars => DataInv'
<1> SUFFICES ASSUME IInv, DataInv, [Next]_vars PROVE DataInv' OBVIOUS
<1>1. ASSUME NEW t \in Threads, Runnable(t) PROVE DataInv'
  BY <1>1, ReadData, WriteData, IoctlData DEF Runnable
<1>2. CASE Next BY <1>2, <1>1, BeginData, LockingData, ReadData DEF Next
<1>3. CASE UNCHANGED vars
  BY <1>3 DEF vars, device, call, DataInv, ReadsInOrder, WritesInOrder, Stored
<1> QED BY <1>2, <1>3

\* What a read in progress has handed out begins the message that is stored.
LEMMA DataInvSuffices == IInv /\ DataInv => ReadsOneMessage
<1> SUFFICES ASSUME IInv, DataInv, NEW t \in Threads, received[t] # <<>>, ~torn
             PROVE  \E m \in Messages : /\ Len(received[t]) <= Len(m)
                                        /\ received[t] = SubSeq(m, 1, Len(received[t]))
  BY DEF ReadsOneMessage
<1>1. /\ received[t] \in Seq(Bytes) /\ data_size \in Nat
      /\ copied[t] \in Nat /\ count[t] \in Nat
  BY SMT DEF IInv, TypeOK
<1>2. /\ pc[t] = "rd_copy" /\ copied[t] <= data_size /\ Len(received[t]) = copied[t]
      /\ \A i \in 1 .. copied[t] : received[t][i] = buffer[i - 1]
  BY <1>1, SMT DEF DataInv, ReadsInOrder
<1>3. \A u \in Threads : pc[u] # "wr_copy" BY <1>2, Exclusion, Zenon DEF CriticalPoints
<1>4. copied[t] # 0 BY <1>1, <1>2, SMT
<1>5. PICK m \in Messages : /\ data_size <= Len(m)
                            /\ \A i \in 1 .. data_size : buffer[i - 1] = m[i]
  BY <1>1, <1>2, <1>3, <1>4, SMT DEF DataInv, Stored
<1>6. m \in Seq(Bytes) BY SMT
<1>7. copied[t] <= Len(m) /\ \A i \in 1 .. copied[t] : received[t][i] = m[i]
  BY <1>1, <1>2, <1>5, <1>6, SMT
<1> DEFINE u == SubSeq(m, 1, copied[t])
<1>8. u \in Seq(Bytes) /\ Len(u) = copied[t] BY <1>1, <1>6, <1>7, SMT
<1>9. \A i \in 1 .. copied[t] : received[t][i] = u[i] BY <1>1, <1>6, <1>7, SMT
<1>10. received[t] = u
  <2> HIDE DEF u
  <2> QED BY <1>1, <1>2, <1>8, <1>9, SeqEqual
<1> QED BY <1>2, <1>7, <1>10

\* Whatever the threads, the sizes and the order of writes, resets, signals and bad
\* addresses, a read hands out the beginning of one message, unless the last write
\* was cut short.
THEOREM NoMixture == Spec => []ReadsOneMessage
<1>1. Spec => []IInv BY InitInv, StepInv, PTL DEF Spec
<1>2. Init => DataInv
  BY SMT DEF Init, DataInv, ReadsInOrder, WritesInOrder, Stored
<1>3. Spec => []DataInv BY <1>1, <1>2, StepData, PTL DEF Spec
<1> QED BY <1>1, <1>3, DataInvSuffices, PTL
=============================================================================
