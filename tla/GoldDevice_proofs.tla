--------------------------- MODULE GoldDevice_proofs ---------------------------
(***************************************************************************)
(* Theorems about GoldDevice for every ring size, every set of threads and *)
(* every set of messages.                                                  *)
(***************************************************************************)
EXTENDS GoldDevice, SequenceTheorems, TLAPS

\* What TypeOK needs to be inductive: a write's data is as long as its count
\* says, a call that has not reached its loop has moved nothing, and a call is
\* only ever made by a thread of its kind.
CallInv ==
    \A t \in Threads :
        /\ pc[t] \in WritePoints => count[t] = Len(data[t])
        /\ pc[t] \notin {"rd_copy", "rd_wake", "wr_copy", "wr_wake"} => copied[t] = 0
        /\ pc[t] \in ReadPoints => t \in Readers
        /\ pc[t] \in ResetPoints => t \in Resetters

IInv == TypeOK /\ LockHeldWhenCritical /\ RingConsistent /\ CallInv

USE GoldAssumption

\* The slot after the last is slot 0.
LEMMA NextSlot ==
    \A i \in 0 .. BUF_SIZE - 1 :
        (i + 1) % BUF_SIZE = IF i = BUF_SIZE - 1 THEN 0 ELSE i + 1
BY SMT

\* A position less than two turns ahead wraps around at most once.
LEMMA Wrap ==
    \A i \in 0 .. 2 * BUF_SIZE - 1 :
        i % BUF_SIZE = IF i < BUF_SIZE THEN i ELSE i - BUF_SIZE
BY SMT

\* Taking a byte moves the tail and leaves the head where it is.
LEMMA TakeSlot ==
    \A i \in 0 .. BUF_SIZE - 1, n \in 1 .. BUF_SIZE :
        (i + n) % BUF_SIZE = (((i + 1) % BUF_SIZE) + (n - 1)) % BUF_SIZE
<1> TAKE i \in 0 .. BUF_SIZE - 1, n \in 1 .. BUF_SIZE
<1>1. i + n \in 0 .. 2 * BUF_SIZE - 1 BY SMT
<1>2. CASE i = BUF_SIZE - 1
  <2>1. (i + 1) % BUF_SIZE = 0 BY <1>2, NextSlot, SMT
  <2>2. n - 1 \in 0 .. 2 * BUF_SIZE - 1 BY SMT
  <2>3. (n - 1) % BUF_SIZE = n - 1 BY <2>2, Wrap, SMT
  <2>4. (i + n) % BUF_SIZE = IF i + n < BUF_SIZE THEN i + n ELSE i + n - BUF_SIZE
    BY <1>1, SMT
  <2> QED BY <1>2, <2>1, <2>3, <2>4, SMT
<1>3. CASE i # BUF_SIZE - 1
  <2>1. (i + 1) % BUF_SIZE = i + 1 BY <1>3, NextSlot, SMT
  <2> QED BY <2>1, SMT
<1> QED BY <1>2, <1>3

\* Adding a byte moves the head, one slot further from the tail.
LEMMA PutSlot ==
    \A i \in 0 .. BUF_SIZE - 1, n \in 0 .. BUF_SIZE - 1 :
        (((i + n) % BUF_SIZE) + 1) % BUF_SIZE = (i + (n + 1)) % BUF_SIZE
<1> TAKE i \in 0 .. BUF_SIZE - 1, n \in 0 .. BUF_SIZE - 1
<1>1. i + n \in 0 .. 2 * BUF_SIZE - 1 /\ i + (n + 1) \in 0 .. 2 * BUF_SIZE - 1 BY SMT
<1>2. (i + n) % BUF_SIZE = IF i + n < BUF_SIZE THEN i + n ELSE i + n - BUF_SIZE
  BY <1>1, SMT
<1>3. (i + n) % BUF_SIZE \in 0 .. BUF_SIZE - 1 BY <1>2, SMT
<1>4. (((i + n) % BUF_SIZE) + 1) % BUF_SIZE =
        IF (i + n) % BUF_SIZE = BUF_SIZE - 1 THEN 0 ELSE ((i + n) % BUF_SIZE) + 1
  BY <1>3, NextSlot
<1>5. (i + (n + 1)) % BUF_SIZE =
        IF i + (n + 1) < BUF_SIZE THEN i + (n + 1) ELSE i + (n + 1) - BUF_SIZE
  BY <1>1, SMT
<1> QED BY <1>2, <1>4, <1>5, SMT

\* What gold_init leaves satisfies the inductive invariant.
LEMMA InitInv == Init => IInv
BY Wrap, SMT DEF Init, IInv, TypeOK, LockHeldWhenCritical, RingConsistent, CallInv,
      Points, CriticalPoints, WritePoints, ReadPoints, ResetPoints, PollPoints, Threads

\* Opening, closing and starting a call keep the inductive invariant.
LEMMA BeginInv == ASSUME NEW t \in Threads, IInv, Begin(t) PROVE IInv'
<1> USE DEF IInv, TypeOK, LockHeldWhenCritical, RingConsistent, CallInv, ring, call,
            Points, CriticalPoints, WritePoints, ReadPoints, ResetPoints, PollPoints, Goto
<1>1. CASE gold_open(t) BY <1>1, SMT DEF gold_open
<1>2. CASE gold_release(t) BY <1>2, SMT DEF gold_release
<1>3. ASSUME t \in Readers, NEW n \in Counts, ReadBegin(t, n) PROVE IInv'
  BY <1>3, SMTT(30) DEF ReadBegin
<1>4. ASSUME t \in Writers, NEW m \in Messages, WriteBegin(t, m) PROVE IInv'
  BY <1>4, SMT DEF WriteBegin
<1>5. ASSUME t \in Pollers, NEW events \in PollEvents, PollBegin(t, events) PROVE IInv'
  BY <1>5, SMT DEF PollBegin
<1>6. CASE t \in Resetters /\ ResetBegin(t) BY <1>6, SMT DEF ResetBegin
<1> QED BY <1>1, <1>2, <1>3, <1>4, <1>5, <1>6 DEF Begin

\* A step that ends a call with -EINTR, -EAGAIN or -EFAULT, or a successful poll.
LEMMA ReturnInv ==
    ASSUME NEW t \in Threads, IInv, Return(t),
           UNCHANGED <<ring, ctx, triggered>>,
           \/ pc[t] \in CriticalPoints /\ Release(t)
           \/ pc[t] \notin CriticalPoints /\ UNCHANGED lock
    PROVE  IInv'
<1> USE DEF IInv, Return, EndCall, Goto, Release, ring
<1>1. TypeOK' BY SMT DEF TypeOK, Points
<1>2. LockHeldWhenCritical' BY SMT DEF TypeOK, LockHeldWhenCritical, CriticalPoints
<1>3. RingConsistent' BY SMT DEF RingConsistent
<1>4. CallInv' BY SMT DEF TypeOK, CallInv, WritePoints, ReadPoints, ResetPoints
<1> QED BY <1>1, <1>2, <1>3, <1>4

\* A step that only takes a call from one of its points to the next, with what
\* that does to the lock.
LEMMA MoveInv ==
    ASSUME NEW t \in Threads, IInv,
           NEW point \in Points,
           Goto(t, point),
           UNCHANGED <<ring, ctx, call>>,
           triggered' \in [Threads -> BOOLEAN],
           pc[t] \in ReadPoints <=> point \in ReadPoints,
           pc[t] \in WritePoints <=> point \in WritePoints,
           pc[t] \in ResetPoints <=> point \in ResetPoints,
           pc[t] \in {"rd_copy", "rd_wake", "wr_copy", "wr_wake"}
               => point \in {"rd_copy", "rd_wake", "wr_copy", "wr_wake"},
           \/ pc[t] \in CriticalPoints /\ point \notin CriticalPoints /\ Release(t)
           \/ pc[t] \notin CriticalPoints /\ point \in CriticalPoints /\ Acquire(t)
           \/ (pc[t] \in CriticalPoints <=> point \in CriticalPoints) /\ UNCHANGED lock
    PROVE  IInv'
<1> USE DEF IInv, Goto, Release, Acquire, ring, call
<1>1. TypeOK'
  <2>1. pc' \in [Threads -> Points] BY SMT DEF TypeOK
  <2>2. lock' \in Threads \cup {NoThread} BY SMT DEF TypeOK
  <2> QED BY <2>1, <2>2, Zenon DEF TypeOK
<1>2. LockHeldWhenCritical' BY SMT DEF TypeOK, LockHeldWhenCritical, CriticalPoints
<1>3. RingConsistent' BY SMT DEF RingConsistent
<1>4. CallInv' BY SMT DEF TypeOK, CallInv
<1> QED BY <1>1, <1>2, <1>3, <1>4

\* wake_up: the other threads only move between points outside the lock.
LEMMA WakeInv ==
    ASSUME NEW t \in Threads, IInv, pc[t] \notin CriticalPoints,
           NEW sleeping, NEW waiting,
           \/ sleeping = "rd_sleep" /\ waiting = "rd_wait"
           \/ sleeping = "wr_sleep" /\ waiting = "wr_wait",
           WakeAndReturn(t, sleeping, waiting),
           UNCHANGED <<ring, lock, ctx>>
    PROVE  IInv'
<1> USE DEF IInv, WakeAndReturn, EndCall, ring
<1>1. TypeOK'
  <2>1. pc' \in [Threads -> Points]
    BY SMT DEF TypeOK, Points, ReadPoints, WritePoints, PollPoints
  <2>2. triggered' \in [Threads -> BOOLEAN] BY Zenon DEF TypeOK
  <2>3. /\ count' \in [Threads -> Nat]
        /\ copied' \in [Threads -> Nat]
        /\ data' \in [Threads -> Seq(Bytes)]
        /\ received' \in [Threads -> Seq(Bytes)]
        /\ interest' \in [Threads -> SUBSET {"in", "out"}]
    BY SMT DEF TypeOK
  <2> QED BY <2>1, <2>2, <2>3, Zenon DEF TypeOK
<1>2. LockHeldWhenCritical' BY SMT DEF TypeOK, LockHeldWhenCritical, CriticalPoints
<1>3. RingConsistent' BY SMT DEF RingConsistent
<1>4. CallInv' BY SMT DEF TypeOK, CallInv, WritePoints, ReadPoints, ResetPoints
<1> QED BY <1>1, <1>2, <1>3, <1>4

\* So does every step of gold_read,
LEMMA ReadInv == ASSUME NEW t \in Threads, IInv, gold_read(t) PROVE IInv'
<1> USE DEF Points, CriticalPoints, ReadPoints, WritePoints, ResetPoints
<1>t. triggered \in [Threads -> BOOLEAN] BY DEF IInv, TypeOK
<1>1. CASE ReadWait(t)
  BY <1>1, <1>t, MoveInv, ReturnInv, SMT DEF ReadWait, WaitEvent
<1>2. CASE ReadInterrupted(t)
  BY <1>2, <1>t, MoveInv, ReturnInv, SMT DEF ReadInterrupted, SleepInterrupted
<1>3. CASE ReadLock(t)
  BY <1>3, <1>t, MoveInv, ReturnInv, SMT DEF ReadLock, LockInterrupted
<1>4. CASE ReadCheck(t)
  BY <1>4, <1>t, MoveInv, ReturnInv, SMT DEF ReadCheck, Again
<1>5. CASE ReadCopy(t)
  <2>1. ASSUME Fault(t) PROVE IInv' BY <1>5, <2>1, ReturnInv, SMT DEF ReadCopy, Fault
  <2>2. ASSUME Goto(t, "rd_wake"), Release(t), UNCHANGED <<ring, ctx, call, triggered>>
        PROVE  IInv'
    BY <1>5, <2>2, <1>t, MoveInv, SMT DEF ReadCopy
  <2>3. ASSUME ~buffer_empty,
               received' = [received EXCEPT ![t] = Append(@, buffer[tail])],
               tail' = (tail + 1) % BUF_SIZE,
               size' = size - 1,
               copied' = [copied EXCEPT ![t] = @ + 1],
               UNCHANGED <<buffer, head, lock, ctx, pc, count, data, interest, triggered>>
        PROVE  IInv'
    <3> USE DEF IInv
    <3>1. TypeOK'
      <4>1. size # 0 BY <2>3 DEF buffer_empty
      <4>2. tail' \in 0 .. BUF_SIZE - 1 BY <2>3, NextSlot, SMT DEF TypeOK
      <4>3. size' \in 0 .. BUF_SIZE BY <2>3, <4>1, SMT DEF TypeOK
      <4>4. received' \in [Threads -> Seq(Bytes)] BY <2>3, SMT DEF TypeOK
      <4>5. copied' \in [Threads -> Nat] BY <2>3, SMT DEF TypeOK
      <4> QED BY <2>3, <4>2, <4>3, <4>4, <4>5, Zenon DEF TypeOK
    <3>2. LockHeldWhenCritical' BY <2>3, SMT DEF LockHeldWhenCritical
    <3>3. RingConsistent'
      <4>1. tail \in 0 .. BUF_SIZE - 1 /\ size \in 1 .. BUF_SIZE
        BY <2>3, SMT DEF TypeOK, buffer_empty
      <4> QED BY <2>3, <4>1, TakeSlot DEF RingConsistent
    <3>4. CallInv' BY <1>5, <2>3, SMT DEF ReadCopy, CallInv, TypeOK
    <3> QED BY <3>1, <3>2, <3>3, <3>4
  <2> QED BY <1>5, <2>1, <2>2, <2>3 DEF ReadCopy
<1>6. CASE ReadWake(t) BY <1>6, WakeInv, SMT DEF ReadWake, WakeWriters
<1> QED BY <1>1, <1>2, <1>3, <1>4, <1>5, <1>6 DEF gold_read

\* of gold_write,
LEMMA WriteInv == ASSUME NEW t \in Threads, IInv, gold_write(t) PROVE IInv'
<1> USE DEF Points, CriticalPoints, ReadPoints, WritePoints, ResetPoints
<1>t. triggered \in [Threads -> BOOLEAN] BY DEF IInv, TypeOK
<1>1. CASE WriteWait(t)
  BY <1>1, <1>t, MoveInv, ReturnInv, SMT DEF WriteWait, WaitEvent
<1>2. CASE WriteInterrupted(t)
  BY <1>2, <1>t, MoveInv, ReturnInv, SMT DEF WriteInterrupted, SleepInterrupted
<1>3. CASE WriteLock(t)
  BY <1>3, <1>t, MoveInv, ReturnInv, SMT DEF WriteLock, LockInterrupted
<1>4. CASE WriteCheck(t)
  BY <1>4, <1>t, MoveInv, ReturnInv, SMT DEF WriteCheck, Again
<1>5. CASE WriteCopy(t)
  <2>1. ASSUME Fault(t) PROVE IInv' BY <1>5, <2>1, ReturnInv, SMT DEF WriteCopy, Fault
  <2>2. ASSUME Goto(t, "wr_wake"), Release(t), UNCHANGED <<ring, ctx, call, triggered>>
        PROVE  IInv'
    BY <1>5, <2>2, <1>t, MoveInv, SMT DEF WriteCopy
  <2>3. ASSUME copied[t] < count[t],
               ~buffer_full,
               buffer' = [buffer EXCEPT ![head] = data[t][copied[t] + 1]],
               head' = (head + 1) % BUF_SIZE,
               size' = size + 1,
               copied' = [copied EXCEPT ![t] = @ + 1],
               UNCHANGED <<tail, lock, ctx, pc, count, data, received, interest, triggered>>
        PROVE  IInv'
    <3> USE DEF IInv
    <3>1. TypeOK'
      <4>1. size < BUF_SIZE BY <2>3, SMT DEF buffer_full, TypeOK
      <4>2. head' \in 0 .. BUF_SIZE - 1 BY <2>3, NextSlot, SMT DEF TypeOK
      <4>3. size' \in 0 .. BUF_SIZE BY <2>3, <4>1, SMT DEF TypeOK
      <4>4. data[t][copied[t] + 1] \in Bytes
        <5>1. count[t] = Len(data[t]) BY <1>5 DEF WriteCopy, CallInv
        <5>2. copied[t] + 1 \in 1 .. Len(data[t]) BY <2>3, <5>1, SMT DEF TypeOK
        <5> QED BY <5>2, SMT DEF TypeOK
      <4>5. buffer' \in [0 .. BUF_SIZE - 1 -> Bytes] BY <2>3, <4>4, SMT DEF TypeOK
      <4>6. copied' \in [Threads -> Nat] BY <2>3, SMT DEF TypeOK
      <4> QED BY <2>3, <4>2, <4>3, <4>5, <4>6, Zenon DEF TypeOK
    <3>2. LockHeldWhenCritical' BY <2>3, SMT DEF LockHeldWhenCritical
    <3>3. RingConsistent'
      BY <2>3, PutSlot, SMT DEF RingConsistent, TypeOK, buffer_full
    <3>4. CallInv' BY <1>5, <2>3, SMT DEF WriteCopy, CallInv, TypeOK
    <3> QED BY <3>1, <3>2, <3>3, <3>4
  <2> QED BY <1>5, <2>1, <2>2, <2>3 DEF WriteCopy
<1>6. CASE WriteWake(t) BY <1>6, WakeInv, SMT DEF WriteWake, WakeReaders
<1> QED BY <1>1, <1>2, <1>3, <1>4, <1>5, <1>6 DEF gold_write

\* of gold_poll,
LEMMA PollInv == ASSUME NEW t \in Threads, IInv, gold_poll(t) PROVE IInv'
<1> USE DEF Points, CriticalPoints, ReadPoints, WritePoints, ResetPoints, PollPoints
<1>t. triggered \in [Threads -> BOOLEAN] BY DEF IInv, TypeOK
<1>1. CASE PollLock(t) BY <1>1, <1>t, MoveInv, SMT DEF PollLock
<1>2. CASE PollMask(t) BY <1>2, <1>t, MoveInv, ReturnInv, SMT DEF PollMask
<1>3. CASE PollSched(t)
  <2>1. triggered' \in [Threads -> BOOLEAN] BY <1>3, <1>t, Zenon DEF PollSched
  <2>2. CASE triggered[t] BY <1>3, <2>1, <2>2, MoveInv, SMT DEF PollSched
  <2>3. CASE ~triggered[t] BY <1>3, <2>1, <2>3, MoveInv, SMT DEF PollSched
  <2> QED BY <2>2, <2>3
<1>4. CASE PollInterrupted(t)
  BY <1>4, <1>t, MoveInv, SMT DEF PollInterrupted
<1> QED BY <1>1, <1>2, <1>3, <1>4 DEF gold_poll

\* and of gold_ioctl.
LEMMA IoctlInv == ASSUME NEW t \in Threads, IInv, gold_ioctl(t) PROVE IInv'
<1> USE DEF Points, CriticalPoints, ReadPoints, WritePoints, ResetPoints
<1>t. triggered \in [Threads -> BOOLEAN] BY DEF IInv, TypeOK
<1>1. CASE ResetLock(t)
  BY <1>1, <1>t, MoveInv, ReturnInv, SMT DEF ResetLock, LockInterrupted
<1>2. CASE ResetClear(t)
  <2> USE <1>2 DEF IInv, ResetClear, Goto, Release, call
  <2>1. TypeOK'
    <3>1. pc' \in [Threads -> Points] BY SMT DEF TypeOK
    <3>2. head' \in 0 .. BUF_SIZE - 1 /\ tail' \in 0 .. BUF_SIZE - 1 /\ size' \in 0 .. BUF_SIZE
      BY SMT
    <3> QED BY <3>1, <3>2, Zenon DEF TypeOK
  <2>2. LockHeldWhenCritical' BY SMT DEF TypeOK, LockHeldWhenCritical
  <2>3. RingConsistent' BY Wrap, SMT DEF RingConsistent
  <2>4. CallInv' BY SMT DEF TypeOK, CallInv
  <2> QED BY <2>1, <2>2, <2>3, <2>4
<1>3. CASE ResetWake(t) BY <1>3, WakeInv, SMT DEF ResetWake, WakeWriters
<1> QED BY <1>1, <1>2, <1>3 DEF gold_ioctl

\* And a step that changes nothing.
LEMMA StutterInv == IInv /\ UNCHANGED vars => IInv'
BY Zenon DEF IInv, TypeOK, LockHeldWhenCritical, RingConsistent, CallInv, vars, ring, call

\* The inductive invariant holds in every reachable state of the driver.
THEOREM Inductive == Spec => []IInv
<1>1. IInv /\ [Next]_vars => IInv'
  BY BeginInv, ReadInv, WriteInv, PollInv, IoctlInv, StutterInv DEF Next
<1> QED BY InitInv, <1>1, PTL DEF Spec

\* Every variable of the driver keeps its type, for every ring size and every
\* set of callers.
THEOREM TypeCorrect == Spec => []TypeOK
BY Inductive, PTL DEF IInv

\* head stays size slots after tail through every mixture of reads, writes and
\* resets.
THEOREM RingAlwaysConsistent == Spec => []RingConsistent
BY Inductive, PTL DEF IInv

\* The mutex is held exactly inside the critical sections, and no return path
\* keeps it.
THEOREM MutualExclusion == Spec => []LockHeldWhenCritical
BY Inductive, PTL DEF IInv

-----------------------------------------------------------------------------
(* No missed wake-up.  A sleeper goes to sleep only on a ring that is empty     *)
(* (full); the thread that then changes that is, from that step to its own     *)
(* wake-up, a thread that will wake the queue: only a fault leaves the loop     *)
(* otherwise.                                                                   *)

\* The three ways a step can keep ReaderWakeupPending, put together.
LEMMA KeepsReaderWakeup ==
    ASSUME ReaderWakeupPending,
           \A u \in Threads : pc'[u] = "rd_sleep" => pc[u] = "rd_sleep" \/ ~(size' > 0),
           \A u \in Threads : WillWakeReaders(u) => WillWakeReaders(u)',
           size' > 0 => size > 0 \/ \E u \in Threads : WillWakeReaders(u)'
    PROVE  ReaderWakeupPending'
BY Zenon DEF ReaderWakeupPending

\* The same for WriterWakeupPending.
LEMMA KeepsWriterWakeup ==
    ASSUME WriterWakeupPending,
           \A u \in Threads : pc'[u] = "wr_sleep" => pc[u] = "wr_sleep" \/ ~(size' < BUF_SIZE),
           \A u \in Threads : WillWakeWriters(u) => WillWakeWriters(u)',
           size' < BUF_SIZE => size < BUF_SIZE \/ \E u \in Threads : WillWakeWriters(u)'
    PROVE  WriterWakeupPending'
BY Zenon DEF WriterWakeupPending

\* Without faults, no step of the driver leaves a reader asleep on data.
LEMMA ReaderWakeupStep ==
    ASSUME Faults = FALSE, IInv, ReaderWakeupPending, [Next]_vars
    PROVE  ReaderWakeupPending'
<1> USE DEF IInv, TypeOK, CallInv, WillWakeReaders, ring, call, Goto
<1>1. ASSUME NEW t \in Threads, Begin(t) PROVE ReaderWakeupPending'
  BY <1>1, KeepsReaderWakeup, SMT DEF Begin, gold_open, gold_release, ReadBegin, WriteBegin,
     PollBegin, ResetBegin
<1>2. ASSUME NEW t \in Threads, gold_read(t) PROVE ReaderWakeupPending'
  <2>1. CASE ReadWait(t)
    BY <1>2, <2>1, KeepsReaderWakeup, SMT DEF ReadWait, WaitEvent, buffer_empty, Return, EndCall
  <2>2. CASE ReadInterrupted(t)
    <3>1. ASSUME Goto(t, "rd_lock"), UNCHANGED <<ring, call>> PROVE ReaderWakeupPending'
      BY <2>2, <3>1, KeepsReaderWakeup, SMT DEF ReadInterrupted
    <3>2. ASSUME Return(t), UNCHANGED ring PROVE ReaderWakeupPending'
      BY <2>2, <3>2, KeepsReaderWakeup, SMT DEF ReadInterrupted, Return, EndCall
    <3> QED BY <2>2, <3>1, <3>2, Zenon DEF ReadInterrupted, SleepInterrupted
  <2>3. CASE ReadLock(t)
    BY <1>2, <2>3, KeepsReaderWakeup, SMT DEF ReadLock, Acquire, LockInterrupted, Return, EndCall
  <2>4. CASE ReadCheck(t)
    <3>1. ASSUME Goto(t, "rd_copy"), UNCHANGED <<ring, call>> PROVE ReaderWakeupPending'
      BY <2>4, <3>1, KeepsReaderWakeup, SMT DEF ReadCheck
    <3>2. ASSUME Return(t), UNCHANGED ring PROVE ReaderWakeupPending'
      BY <2>4, <3>2, KeepsReaderWakeup, SMT DEF ReadCheck, Return, EndCall
    <3> QED BY <2>4, <3>1, <3>2, Zenon DEF ReadCheck, Again
  <2>5. CASE ReadCopy(t)
    <3>1. ASSUME ~buffer_empty, size' = size - 1, copied' = [copied EXCEPT ![t] = @ + 1], UNCHANGED pc
          PROVE  ReaderWakeupPending'
      BY <2>5, <3>1, KeepsReaderWakeup, SMT DEF ReadCopy, buffer_empty
    <3>2. ASSUME UNCHANGED <<ring, call>>, Goto(t, "rd_wake") PROVE ReaderWakeupPending'
      BY <2>5, <3>2, KeepsReaderWakeup, SMT DEF ReadCopy
    <3> QED BY <2>5, <3>1, <3>2, Zenon DEF ReadCopy, Fault
  <2>6. CASE ReadWake(t)
    BY <1>2, <2>6, KeepsReaderWakeup, SMT DEF ReadWake, WakeWriters, WakeAndReturn, EndCall
  <2> QED BY <1>2, <2>1, <2>2, <2>3, <2>4, <2>5, <2>6 DEF gold_read
<1>3. ASSUME NEW t \in Threads, gold_write(t) PROVE ReaderWakeupPending'
  <2>1. CASE WriteWait(t)
    BY <1>3, <2>1, KeepsReaderWakeup, SMTT(30) DEF WriteWait, WaitEvent, buffer_full, Return, EndCall
  <2>2. CASE WriteInterrupted(t)
    <3>1. ASSUME Goto(t, "wr_lock"), UNCHANGED <<ring, call>> PROVE ReaderWakeupPending'
      BY <2>2, <3>1, KeepsReaderWakeup, SMT DEF WriteInterrupted
    <3>2. ASSUME Return(t), UNCHANGED ring PROVE ReaderWakeupPending'
      BY <2>2, <3>2, KeepsReaderWakeup, SMT DEF WriteInterrupted, Return, EndCall
    <3> QED BY <2>2, <3>1, <3>2, Zenon DEF WriteInterrupted, SleepInterrupted
  <2>3. CASE WriteLock(t)
    BY <1>3, <2>3, KeepsReaderWakeup, SMT DEF WriteLock, Acquire, LockInterrupted, Return, EndCall
  <2>4. CASE WriteCheck(t)
    <3>1. ASSUME Goto(t, "wr_copy"), UNCHANGED <<ring, call>> PROVE ReaderWakeupPending'
      BY <2>4, <3>1, KeepsReaderWakeup, SMT DEF WriteCheck
    <3>2. ASSUME Return(t), UNCHANGED ring PROVE ReaderWakeupPending'
      BY <2>4, <3>2, KeepsReaderWakeup, SMT DEF WriteCheck, Return, EndCall
    <3> QED BY <2>4, <3>1, <3>2, Zenon DEF WriteCheck, Again
  <2>5. CASE WriteCopy(t)
    <3>1. ASSUME ~buffer_full, size' = size + 1, copied' = [copied EXCEPT ![t] = @ + 1], UNCHANGED pc
          PROVE  ReaderWakeupPending'
      BY <2>5, <3>1, KeepsReaderWakeup, SMT DEF WriteCopy, buffer_full
    <3>2. ASSUME UNCHANGED <<ring, call>>, Goto(t, "wr_wake") PROVE ReaderWakeupPending'
      BY <2>5, <3>2, KeepsReaderWakeup, SMT DEF WriteCopy
    <3> QED BY <2>5, <3>1, <3>2, Zenon DEF WriteCopy, Fault
  <2>6. CASE WriteWake(t)
    BY <1>3, <2>6, KeepsReaderWakeup, SMT DEF WriteWake, WakeReaders, WakeAndReturn, EndCall, ReaderWakeupPending
  <2> QED BY <1>3, <2>1, <2>2, <2>3, <2>4, <2>5, <2>6 DEF gold_write
<1>4. ASSUME NEW t \in Threads, gold_poll(t) PROVE ReaderWakeupPending'
  BY <1>4, KeepsReaderWakeup, SMTT(30) DEF gold_poll, PollLock, PollMask, PollSched, PollInterrupted,
     Acquire, Release, Return, EndCall
<1>5. ASSUME NEW t \in Threads, gold_ioctl(t) PROVE ReaderWakeupPending'
  <2>1. CASE ResetLock(t)
    BY <1>5, <2>1, KeepsReaderWakeup, SMT DEF ResetLock, Acquire, LockInterrupted, Return, EndCall
  <2>2. CASE ResetClear(t)
    BY <1>5, <2>2, KeepsReaderWakeup, SMT DEF ResetClear, Release
  <2>3. CASE ResetWake(t)
    BY <1>5, <2>3, KeepsReaderWakeup, SMT DEF ResetWake, WakeWriters, WakeAndReturn, EndCall
  <2> QED BY <1>5, <2>1, <2>2, <2>3 DEF gold_ioctl
<1>6. CASE UNCHANGED vars BY <1>6, KeepsReaderWakeup, SMT DEF vars
<1> QED BY <1>1, <1>2, <1>3, <1>4, <1>5, <1>6 DEF Next

\* Nor a writer asleep on room.
LEMMA WriterWakeupStep ==
    ASSUME Faults = FALSE, IInv, WriterWakeupPending, [Next]_vars
    PROVE  WriterWakeupPending'
<1> USE DEF IInv, TypeOK, CallInv, WillWakeWriters, ring, call, Goto
<1>1. ASSUME NEW t \in Threads, Begin(t) PROVE WriterWakeupPending'
  BY <1>1, KeepsWriterWakeup, SMT DEF Begin, gold_open, gold_release, ReadBegin, WriteBegin,
     PollBegin, ResetBegin
<1>2. ASSUME NEW t \in Threads, gold_read(t) PROVE WriterWakeupPending'
  <2>1. CASE ReadWait(t)
    BY <1>2, <2>1, KeepsWriterWakeup, SMT DEF ReadWait, WaitEvent, buffer_empty, Return, EndCall
  <2>2. CASE ReadInterrupted(t)
    <3>1. ASSUME Goto(t, "rd_lock"), UNCHANGED <<ring, call>> PROVE WriterWakeupPending'
      BY <2>2, <3>1, KeepsWriterWakeup, SMT DEF ReadInterrupted
    <3>2. ASSUME Return(t), UNCHANGED ring PROVE WriterWakeupPending'
      BY <2>2, <3>2, KeepsWriterWakeup, SMT DEF ReadInterrupted, Return, EndCall
    <3> QED BY <2>2, <3>1, <3>2, Zenon DEF ReadInterrupted, SleepInterrupted
  <2>3. CASE ReadLock(t)
    <3>1. CASE LockInterrupted(t)
      BY <2>3, <3>1, KeepsWriterWakeup, SMT DEF ReadLock, LockInterrupted, Return, EndCall
    <3> QED BY <2>3, <3>1, KeepsWriterWakeup, SMT DEF ReadLock
  <2>4. CASE ReadCheck(t)
    <3>1. ASSUME Goto(t, "rd_copy"), UNCHANGED <<ring, call>> PROVE WriterWakeupPending'
      BY <2>4, <3>1, KeepsWriterWakeup, SMT DEF ReadCheck
    <3>2. ASSUME Return(t), UNCHANGED ring PROVE WriterWakeupPending'
      BY <2>4, <3>2, KeepsWriterWakeup, SMT DEF ReadCheck, Return, EndCall
    <3> QED BY <2>4, <3>1, <3>2, Zenon DEF ReadCheck, Again
  <2>5. CASE ReadCopy(t)
    <3>1. ASSUME ~buffer_empty, size' = size - 1, copied' = [copied EXCEPT ![t] = @ + 1], UNCHANGED pc
          PROVE  WriterWakeupPending'
      BY <2>5, <3>1, KeepsWriterWakeup, SMT DEF ReadCopy, buffer_empty
    <3>2. ASSUME UNCHANGED <<ring, call>>, Goto(t, "rd_wake") PROVE WriterWakeupPending'
      BY <2>5, <3>2, KeepsWriterWakeup, SMT DEF ReadCopy
    <3> QED BY <2>5, <3>1, <3>2, Zenon DEF ReadCopy, Fault
  <2>6. CASE ReadWake(t)
    BY <1>2, <2>6, KeepsWriterWakeup, SMT DEF ReadWake, WakeWriters, WakeAndReturn, EndCall, WriterWakeupPending
  <2> QED BY <1>2, <2>1, <2>2, <2>3, <2>4, <2>5, <2>6 DEF gold_read
<1>3. ASSUME NEW t \in Threads, gold_write(t) PROVE WriterWakeupPending'
  <2>1. CASE WriteWait(t)
    BY <1>3, <2>1, KeepsWriterWakeup, SMT DEF WriteWait, WaitEvent, buffer_full, Return, EndCall
  <2>2. CASE WriteInterrupted(t)
    <3>1. ASSUME Goto(t, "wr_lock"), UNCHANGED <<ring, call>> PROVE WriterWakeupPending'
      BY <2>2, <3>1, KeepsWriterWakeup, SMT DEF WriteInterrupted
    <3>2. ASSUME Return(t), UNCHANGED ring PROVE WriterWakeupPending'
      BY <2>2, <3>2, KeepsWriterWakeup, SMT DEF WriteInterrupted, Return, EndCall
    <3> QED BY <2>2, <3>1, <3>2, Zenon DEF WriteInterrupted, SleepInterrupted
  <2>3. CASE WriteLock(t)
    <3>1. CASE LockInterrupted(t)
      BY <2>3, <3>1, KeepsWriterWakeup, SMT DEF WriteLock, LockInterrupted, Return, EndCall
    <3> QED BY <2>3, <3>1, KeepsWriterWakeup, SMT DEF WriteLock
  <2>4. CASE WriteCheck(t)
    <3>1. ASSUME Goto(t, "wr_copy"), UNCHANGED <<ring, call>> PROVE WriterWakeupPending'
      BY <2>4, <3>1, KeepsWriterWakeup, SMT DEF WriteCheck
    <3>2. ASSUME Return(t), UNCHANGED ring PROVE WriterWakeupPending'
      BY <2>4, <3>2, KeepsWriterWakeup, SMT DEF WriteCheck, Return, EndCall
    <3> QED BY <2>4, <3>1, <3>2, Zenon DEF WriteCheck, Again
  <2>5. CASE WriteCopy(t)
    <3>1. ASSUME ~buffer_full, size' = size + 1, copied' = [copied EXCEPT ![t] = @ + 1], UNCHANGED pc
          PROVE  WriterWakeupPending'
      BY <2>5, <3>1, KeepsWriterWakeup, SMT DEF WriteCopy, buffer_full
    <3>2. ASSUME UNCHANGED <<ring, call>>, Goto(t, "wr_wake") PROVE WriterWakeupPending'
      BY <2>5, <3>2, KeepsWriterWakeup, SMT DEF WriteCopy
    <3> QED BY <2>5, <3>1, <3>2, Zenon DEF WriteCopy, Fault
  <2>6. CASE WriteWake(t)
    BY <1>3, <2>6, KeepsWriterWakeup, SMT DEF WriteWake, WakeReaders, WakeAndReturn, EndCall
  <2> QED BY <1>3, <2>1, <2>2, <2>3, <2>4, <2>5, <2>6 DEF gold_write
<1>4. ASSUME NEW t \in Threads, gold_poll(t) PROVE WriterWakeupPending'
  <2>1. CASE PollLock(t) BY <2>1, KeepsWriterWakeup, SMT DEF PollLock
  <2>2. CASE PollMask(t) BY <2>2, KeepsWriterWakeup, SMT DEF PollMask, Return, EndCall
  <2>3. CASE PollSched(t) BY <2>3, KeepsWriterWakeup, SMT DEF PollSched
  <2>4. CASE PollInterrupted(t)
    BY <2>4, KeepsWriterWakeup, SMT DEF PollInterrupted
  <2> QED BY <1>4, <2>1, <2>2, <2>3, <2>4 DEF gold_poll
<1>5. ASSUME NEW t \in Threads, gold_ioctl(t) PROVE WriterWakeupPending'
  <2>1. CASE ResetLock(t)
    <3>1. CASE LockInterrupted(t)
      BY <2>1, <3>1, KeepsWriterWakeup, SMT DEF ResetLock, LockInterrupted, Return, EndCall
    <3> QED BY <2>1, <3>1, KeepsWriterWakeup, SMT DEF ResetLock
  <2>2. CASE ResetClear(t)
    BY <1>5, <2>2, KeepsWriterWakeup, SMT DEF ResetClear, Release
  <2>3. CASE ResetWake(t)
    BY <1>5, <2>3, KeepsWriterWakeup, SMT DEF ResetWake, WakeWriters, WakeAndReturn, EndCall, WriterWakeupPending
  <2> QED BY <1>5, <2>1, <2>2, <2>3 DEF gold_ioctl
<1>6. CASE UNCHANGED vars BY <1>6, KeepsWriterWakeup, SMT DEF vars
<1> QED BY <1>1, <1>2, <1>3, <1>4, <1>5, <1>6 DEF Next

\* With user memory that does not fault, a reader asleep while the ring holds
\* bytes has a wake-up on its way.
THEOREM NoMissedReaderWakeup ==
    ASSUME Faults = FALSE PROVE Spec => []ReaderWakeupPending
<1>1. Init => ReaderWakeupPending BY DEF Init, ReaderWakeupPending
<1>2. IInv /\ ReaderWakeupPending /\ [Next]_vars => ReaderWakeupPending'
  BY ReaderWakeupStep
<1> QED BY Inductive, <1>1, <1>2, PTL DEF Spec

\* And a writer asleep while the ring has room.
THEOREM NoMissedWriterWakeup ==
    ASSUME Faults = FALSE PROVE Spec => []WriterWakeupPending
<1>1. Init => WriterWakeupPending BY DEF Init, WriterWakeupPending
<1>2. IInv /\ WriterWakeupPending /\ [Next]_vars => WriterWakeupPending'
  BY WriterWakeupStep
<1> QED BY Inductive, <1>1, <1>2, PTL DEF Spec

-----------------------------------------------------------------------------
(* The same for poll, which sleeps on both queues: the step that makes one of   *)
(* its events happen makes its thread one that will wake a queue, and that     *)
(* wake-up finds the poll asleep or marks it.                                   *)

AwaitsEvent(p) == pc[p] \in {"pl_sched", "pl_sleep"}
Marked(p) == pc[p] = "pl_sched" /\ triggered[p]
WillWake(t) == WillWakeReaders(t) \/ WillWakeWriters(t)

\* The three ways a step can keep PollWakeupPending, put together.
LEMMA KeepsPollWakeup ==
    ASSUME PollWakeupPending,
           \A p \in Threads : AwaitsEvent(p)' => \/ Mask' \cap interest'[p] = {}
                                                 \/ /\ AwaitsEvent(p)
                                                    /\ interest'[p] = interest[p]
                                                    /\ Marked(p) => Marked(p)',
           \A u \in Threads : WillWake(u) => WillWake(u)',
           Mask' \subseteq Mask \/ \E u \in Threads : WillWake(u)'
    PROVE  PollWakeupPending'
<1> SUFFICES ASSUME NEW p \in Threads, AwaitsEvent(p)', Mask' \cap interest'[p] # {},
                    ~ \E u \in Threads : WillWake(u)'
             PROVE  Marked(p)'
  BY Zenon DEF PollWakeupPending, AwaitsEvent, Marked, WillWake
<1>1. AwaitsEvent(p) /\ interest'[p] = interest[p] /\ (Marked(p) => Marked(p)') OBVIOUS
<1>2. Mask \cap interest[p] # {} BY <1>1
<1>3. Marked(p)
  BY <1>1, <1>2, Zenon DEF PollWakeupPending, AwaitsEvent, Marked, WillWake
<1> QED BY <1>1, <1>3

\* A wake-up reaches every poll that waits.
LEMMA WakeReachesPolls ==
    ASSUME IInv, NEW t \in Threads, NEW sleeping, NEW waiting,
           waiting \in {"rd_wait", "wr_wait"},
           WakeAndReturn(t, sleeping, waiting)
    PROVE  PollWakeupPending'
BY SMT DEF IInv, TypeOK, WakeAndReturn, PollWakeupPending

\* A step that ends a call which has changed nothing.
LEMMA ReturnKeepsPolls ==
    ASSUME IInv, PollWakeupPending, NEW t \in Threads, Return(t),
           pc[t] \notin {"rd_copy", "rd_wake", "wr_copy", "wr_wake", "rs_wake"},
           UNCHANGED <<ring, triggered>>
    PROVE  PollWakeupPending'
<1>1. Mask' = Mask BY DEF Mask, buffer_empty, buffer_full, ring
<1> QED
  BY <1>1, KeepsPollWakeup, SMT
     DEF IInv, TypeOK, Return, EndCall, Goto, AwaitsEvent, Marked, WillWake, WillWakeReaders,
         WillWakeWriters

\* A step that takes a call from one of its points to another, not past its wake-up.
LEMMA MoveKeepsPolls ==
    ASSUME IInv, PollWakeupPending, NEW t \in Threads, NEW point, Goto(t, point),
           point \notin {"pl_sched", "pl_sleep"},
           UNCHANGED <<ring, call, triggered>>,
           pc[t] \in {"rd_copy", "wr_copy"} => point \in {"rd_wake", "wr_wake"},
           pc[t] \notin {"rd_wake", "wr_wake", "rs_wake"}
    PROVE  PollWakeupPending'
<1>1. Mask' = Mask BY DEF Mask, buffer_empty, buffer_full, ring
<1> QED
  BY <1>1, KeepsPollWakeup, SMT
     DEF IInv, TypeOK, Goto, AwaitsEvent, Marked, WillWake, WillWakeReaders, WillWakeWriters, call

\* The turn of a copy loop that moves a byte.
LEMMA CopyKeepsPolls ==
    ASSUME IInv, PollWakeupPending, NEW t \in Threads, pc[t] \in {"rd_copy", "wr_copy"},
           copied' = [copied EXCEPT ![t] = @ + 1], UNCHANGED <<pc, interest, triggered>>
    PROVE  PollWakeupPending'
BY KeepsPollWakeup, SMT
   DEF IInv, TypeOK, AwaitsEvent, Marked, WillWake, WillWakeReaders, WillWakeWriters

\* Without faults, no step of the driver leaves a poll asleep on its event.
LEMMA PollWakeupStep ==
    ASSUME Faults = FALSE, IInv, PollWakeupPending, [Next]_vars
    PROVE  PollWakeupPending'
<1>1. ASSUME NEW t \in Threads, Begin(t) PROVE PollWakeupPending'
  <2> USE DEF IInv, TypeOK, Goto, AwaitsEvent, Marked, WillWake, WillWakeReaders, WillWakeWriters,
              call
  <2>1. Mask' = Mask
    BY <1>1 DEF Mask, buffer_empty, buffer_full, ring, Begin, gold_open, gold_release, ReadBegin,
                WriteBegin, PollBegin, ResetBegin
  <2>2. CASE gold_open(t) \/ gold_release(t)
    BY <2>1, <2>2, KeepsPollWakeup, SMT DEF gold_open, gold_release
  <2>3. ASSUME NEW n \in Counts, ReadBegin(t, n) PROVE PollWakeupPending'
    BY <2>1, <2>3, KeepsPollWakeup, SMT DEF ReadBegin
  <2>4. ASSUME NEW m \in Messages, WriteBegin(t, m) PROVE PollWakeupPending'
    BY <2>1, <2>4, KeepsPollWakeup, SMT DEF WriteBegin
  <2>5. ASSUME NEW events \in PollEvents, PollBegin(t, events) PROVE PollWakeupPending'
    BY <2>1, <2>5, KeepsPollWakeup, SMT DEF PollBegin
  <2>6. CASE ResetBegin(t) BY <2>1, <2>6, KeepsPollWakeup, SMT DEF ResetBegin
  <2> QED BY <1>1, <2>2, <2>3, <2>4, <2>5, <2>6 DEF Begin
<1>2. ASSUME NEW t \in Threads, gold_read(t) PROVE PollWakeupPending'
  <2>1. CASE ReadWait(t)
    BY <2>1, MoveKeepsPolls, ReturnKeepsPolls, SMT DEF ReadWait, WaitEvent
  <2>2. CASE ReadInterrupted(t)
    BY <2>2, MoveKeepsPolls, ReturnKeepsPolls, SMT DEF ReadInterrupted, SleepInterrupted
  <2>3. CASE ReadLock(t)
    BY <2>3, MoveKeepsPolls, ReturnKeepsPolls, SMT DEF ReadLock, LockInterrupted
  <2>4. CASE ReadCheck(t)
    BY <2>4, MoveKeepsPolls, ReturnKeepsPolls, SMT DEF ReadCheck, Again
  <2>5. CASE ReadCopy(t)
    BY <2>5, MoveKeepsPolls, CopyKeepsPolls, SMT DEF ReadCopy, Fault
  <2>6. CASE ReadWake(t) BY <2>6, WakeReachesPolls DEF ReadWake, WakeWriters
  <2> QED BY <1>2, <2>1, <2>2, <2>3, <2>4, <2>5, <2>6 DEF gold_read
<1>3. ASSUME NEW t \in Threads, gold_write(t) PROVE PollWakeupPending'
  <2>1. CASE WriteWait(t)
    BY <2>1, MoveKeepsPolls, ReturnKeepsPolls, SMT DEF WriteWait, WaitEvent
  <2>2. CASE WriteInterrupted(t)
    BY <2>2, MoveKeepsPolls, ReturnKeepsPolls, SMT DEF WriteInterrupted, SleepInterrupted
  <2>3. CASE WriteLock(t)
    BY <2>3, MoveKeepsPolls, ReturnKeepsPolls, SMT DEF WriteLock, LockInterrupted
  <2>4. CASE WriteCheck(t)
    BY <2>4, MoveKeepsPolls, ReturnKeepsPolls, SMT DEF WriteCheck, Again
  <2>5. CASE WriteCopy(t)
    BY <2>5, MoveKeepsPolls, CopyKeepsPolls, SMT DEF WriteCopy, Fault
  <2>6. CASE WriteWake(t) BY <2>6, WakeReachesPolls DEF WriteWake, WakeReaders
  <2> QED BY <1>3, <2>1, <2>2, <2>3, <2>4, <2>5, <2>6 DEF gold_write
<1>4. ASSUME NEW t \in Threads, gold_poll(t) PROVE PollWakeupPending'
  <2>1. CASE PollLock(t) BY <2>1, MoveKeepsPolls, SMT DEF PollLock
  <2>2. CASE PollMask(t)
    <3>1. ASSUME Mask \cap interest[t] = {}, Goto(t, "pl_sched"), UNCHANGED <<ring, call, triggered>>
          PROVE  PollWakeupPending'
      <4>1. Mask' = Mask BY <3>1 DEF Mask, buffer_empty, buffer_full, ring
      <4> QED
        BY <2>2, <3>1, <4>1, KeepsPollWakeup, SMT
           DEF PollMask, IInv, TypeOK, Goto, AwaitsEvent, Marked, WillWake, WillWakeReaders,
               WillWakeWriters, call
    <3>2. CASE Return(t) BY <2>2, <3>2, ReturnKeepsPolls, SMT DEF PollMask
    <3> QED BY <2>2, <3>1, <3>2, Zenon DEF PollMask
  <2>3. CASE PollSched(t)
    <3> USE DEF IInv, TypeOK, Goto, AwaitsEvent, Marked, WillWake, WillWakeReaders,
                WillWakeWriters, call
    <3>1. Mask' = Mask BY <2>3 DEF PollSched, Mask, buffer_empty, buffer_full, ring
    <3>2. CASE triggered[t] BY <2>3, <3>1, <3>2, KeepsPollWakeup, SMT DEF PollSched
    <3>3. CASE ~triggered[t] BY <2>3, <3>1, <3>3, KeepsPollWakeup, SMT DEF PollSched
    <3> QED BY <3>2, <3>3
  <2>4. CASE PollInterrupted(t) BY <2>4, MoveKeepsPolls, SMT DEF PollInterrupted
  <2> QED BY <1>4, <2>1, <2>2, <2>3, <2>4 DEF gold_poll
<1>5. ASSUME NEW t \in Threads, gold_ioctl(t) PROVE PollWakeupPending'
  <2>1. CASE ResetLock(t)
    BY <2>1, MoveKeepsPolls, ReturnKeepsPolls, SMT DEF ResetLock, LockInterrupted
  <2>2. CASE ResetClear(t)
    BY <2>2, KeepsPollWakeup, SMT
       DEF ResetClear, IInv, TypeOK, Goto, AwaitsEvent, Marked, WillWake, WillWakeReaders,
           WillWakeWriters, call
  <2>3. CASE ResetWake(t) BY <2>3, WakeReachesPolls DEF ResetWake, WakeWriters
  <2> QED BY <1>5, <2>1, <2>2, <2>3 DEF gold_ioctl
<1>6. CASE UNCHANGED vars
  <2>1. Mask' = Mask BY <1>6 DEF vars, Mask, buffer_empty, buffer_full, ring
  <2> QED BY <1>6, <2>1, Zenon DEF vars, call, PollWakeupPending, WillWakeReaders, WillWakeWriters
<1> QED BY <1>1, <1>2, <1>3, <1>4, <1>5, <1>6 DEF Next

\* And a poll whose event has happened is marked, or has a wake-up on its way.
THEOREM NoMissedPollWakeup ==
    ASSUME Faults = FALSE PROVE Spec => []PollWakeupPending
<1>1. Init => PollWakeupPending BY DEF Init, PollWakeupPending
<1>2. IInv /\ PollWakeupPending /\ [Next]_vars => PollWakeupPending'
  BY PollWakeupStep
<1> QED BY Inductive, <1>1, <1>2, PTL DEF Spec

-----------------------------------------------------------------------------
(* A blocking read delivers: what it found in the ring when its wait ended is   *)
(* there when it has the lock, if nobody else takes bytes off the ring.         *)

\* One thread reads, and resets if anybody does.
SoleTaker == \A t \in Readers \cup Resetters, u \in Readers \cup Resetters : t = u

\* Between the end of the wait and the first byte the ring is not empty.
DeliverInv ==
    \A r \in Threads : ctx[r] = "blocking" =>
        /\ pc[r] # "rd_check"
        /\ pc[r] = "rd_lock" => size > 0
        /\ pc[r] = "rd_copy" => size > 0 \/ copied[r] > 0

\* A step of a thread that takes nothing off the ring, and does not move a reader on.
LEMMA OthersDeliver ==
    ASSUME IInv, DeliverInv, BlockingReadDelivers,
           size' \in Nat, size' >= size,
           \A r \in Threads :
              \/ pc'[r] \notin {"rd_lock", "rd_check", "rd_copy", "rd_wake"}
              \/ pc'[r] = pc[r] /\ ctx'[r] = ctx[r] /\ count'[r] = count[r] /\ copied'[r] = copied[r]
    PROVE  (DeliverInv /\ BlockingReadDelivers)'
BY SMT DEF IInv, TypeOK, DeliverInv, BlockingReadDelivers

\* No step of the driver lets a blocking read come away with nothing.
LEMMA DeliverStep ==
    ASSUME SoleTaker, IInv, DeliverInv, BlockingReadDelivers, [Next]_vars
    PROVE  (DeliverInv /\ BlockingReadDelivers)'
<1>s. size \in 0 .. BUF_SIZE BY DEF IInv, TypeOK
<1> USE DEF call, ring, Goto
<1>1. ASSUME NEW t \in Threads, Begin(t) PROVE (DeliverInv /\ BlockingReadDelivers)'
  <2> USE DEF IInv, TypeOK
  <2>1. CASE gold_open(t) BY <1>s, <2>1, OthersDeliver, SMT DEF gold_open
  <2>2. CASE gold_release(t) BY <1>s, <2>2, OthersDeliver, SMT DEF gold_release
  <2>3. ASSUME NEW n \in Counts, ReadBegin(t, n) PROVE (DeliverInv /\ BlockingReadDelivers)'
    BY <2>3, SMT DEF ReadBegin, DeliverInv, BlockingReadDelivers
  <2>4. ASSUME NEW m \in Messages, WriteBegin(t, m) PROVE (DeliverInv /\ BlockingReadDelivers)'
    BY <2>4, OthersDeliver, SMT DEF WriteBegin
  <2>5. ASSUME NEW events \in PollEvents, PollBegin(t, events)
        PROVE (DeliverInv /\ BlockingReadDelivers)'
    BY <2>5, OthersDeliver, SMT DEF PollBegin
  <2>6. CASE ResetBegin(t) BY <1>s, <2>6, OthersDeliver, SMT DEF ResetBegin
  <2> QED BY <1>1, <2>1, <2>2, <2>3, <2>4, <2>5, <2>6 DEF Begin
<1>2. ASSUME NEW t \in Threads, gold_read(t) PROVE (DeliverInv /\ BlockingReadDelivers)'
  <2>r. ASSUME Return(t), UNCHANGED <<ring, ctx>> PROVE (DeliverInv /\ BlockingReadDelivers)'
    BY <1>s, <2>r, OthersDeliver, SMT DEF Return, EndCall, IInv, TypeOK
  <2> USE DEF IInv, TypeOK, DeliverInv, BlockingReadDelivers
  <2>1. CASE ReadWait(t)
    <3>1. ASSUME ~buffer_empty, Goto(t, "rd_lock"), UNCHANGED <<ring, ctx, call>>
          PROVE  (DeliverInv /\ BlockingReadDelivers)'
      BY <3>1, SMT DEF buffer_empty
    <3>2. ASSUME Goto(t, "rd_sleep"), UNCHANGED <<ring, ctx, call>>
          PROVE  (DeliverInv /\ BlockingReadDelivers)'
      BY <3>2, <1>s, OthersDeliver, SMT
    <3> QED BY <2>1, <2>r, <3>1, <3>2, Zenon DEF ReadWait, WaitEvent
  <2>2. CASE ReadInterrupted(t)
    <3>1. ASSUME ~buffer_empty, Goto(t, "rd_lock"), UNCHANGED <<ring, ctx, call>>
          PROVE  (DeliverInv /\ BlockingReadDelivers)'
      BY <3>1, SMT DEF buffer_empty
    <3> QED BY <2>2, <2>r, <3>1, Zenon DEF ReadInterrupted, SleepInterrupted
  <2>3. CASE ReadLock(t)
    <3>1. ASSUME Goto(t, IF ctx[t] = "nonblocking" THEN "rd_check" ELSE "rd_copy"),
                 UNCHANGED <<ring, ctx, call>>
          PROVE  (DeliverInv /\ BlockingReadDelivers)'
      BY <2>3, <3>1, SMT DEF ReadLock
    <3> QED BY <2>3, <2>r, <3>1, Zenon DEF ReadLock, LockInterrupted
  <2>4. CASE ReadCheck(t)
    <3>1. ASSUME Goto(t, "rd_copy"), UNCHANGED <<ring, ctx, call>>
          PROVE  (DeliverInv /\ BlockingReadDelivers)'
      BY <2>4, <3>1, SMT DEF ReadCheck
    <3> QED BY <2>4, <2>r, <3>1, Zenon DEF ReadCheck, Again
  <2>5. CASE ReadCopy(t)
    <3>1. ASSUME copied' = [copied EXCEPT ![t] = @ + 1], size' = size - 1,
                 UNCHANGED <<pc, count, ctx>>
          PROVE  (DeliverInv /\ BlockingReadDelivers)'
      <4>1. \A r \in Threads : pc[r] \in ReadPoints => r = t
        BY <2>5 DEF ReadCopy, ReadPoints, SoleTaker, CallInv
      <4> QED BY <2>5, <3>1, <4>1, SMT DEF ReadCopy, ReadPoints
    <3>2. ASSUME copied[t] >= count[t] \/ buffer_empty, Goto(t, "rd_wake"),
                 UNCHANGED <<ring, ctx, call>>
          PROVE  (DeliverInv /\ BlockingReadDelivers)'
      BY <2>5, <3>2, SMT DEF ReadCopy, buffer_empty
    <3> QED BY <2>5, <2>r, <3>1, <3>2, Zenon DEF ReadCopy, Fault
  <2>6. CASE ReadWake(t)
    BY <2>6, <1>s, OthersDeliver, SMT DEF ReadWake, WakeWriters, WakeAndReturn, EndCall
  <2> QED BY <1>2, <2>1, <2>2, <2>3, <2>4, <2>5, <2>6 DEF gold_read
<1>3. ASSUME NEW t \in Threads, gold_write(t) PROVE (DeliverInv /\ BlockingReadDelivers)'
  <2> USE DEF IInv, TypeOK
  <2>r. ASSUME Return(t), UNCHANGED <<ring, ctx>> PROVE (DeliverInv /\ BlockingReadDelivers)'
    BY <1>s, <2>r, OthersDeliver, SMT DEF Return, EndCall
  <2>m. ASSUME NEW point \in {"wr_sleep", "wr_lock", "wr_check", "wr_copy", "wr_wake"},
               Goto(t, point), UNCHANGED <<ring, ctx, call>>
        PROVE  (DeliverInv /\ BlockingReadDelivers)'
    BY <1>s, <2>m, OthersDeliver, SMT
  <2>1. CASE WriteWait(t) BY <2>1, <2>r, <2>m, Zenon DEF WriteWait, WaitEvent
  <2>2. CASE WriteInterrupted(t)
    BY <2>2, <2>r, <2>m, Zenon DEF WriteInterrupted, SleepInterrupted
  <2>3. CASE WriteLock(t)
    <3>1. (IF ctx[t] = "nonblocking" THEN "wr_check" ELSE "wr_copy") \in {"wr_check", "wr_copy"}
      OBVIOUS
    <3> QED BY <2>3, <3>1, <2>r, <2>m, Zenon DEF WriteLock, LockInterrupted
  <2>4. CASE WriteCheck(t) BY <2>4, <2>r, <2>m, Zenon DEF WriteCheck, Again
  <2>5. CASE WriteCopy(t)
    <3>1. ASSUME copied' = [copied EXCEPT ![t] = @ + 1], size' = size + 1,
                 UNCHANGED <<pc, count, ctx>>
          PROVE  (DeliverInv /\ BlockingReadDelivers)'
      BY <1>s, <2>5, <3>1, OthersDeliver, SMT DEF WriteCopy
    <3> QED BY <2>5, <2>r, <2>m, <3>1, Zenon DEF WriteCopy, Fault
  <2>6. CASE WriteWake(t)
    BY <2>6, <1>s, OthersDeliver, SMT DEF WriteWake, WakeReaders, WakeAndReturn, EndCall
  <2> QED BY <1>3, <2>1, <2>2, <2>3, <2>4, <2>5, <2>6 DEF gold_write
<1>4. ASSUME NEW t \in Threads, gold_poll(t) PROVE (DeliverInv /\ BlockingReadDelivers)'
  <2> USE DEF IInv, TypeOK
  <2>1. CASE PollLock(t) BY <1>s, <2>1, OthersDeliver, SMT DEF PollLock
  <2>2. CASE PollMask(t) BY <1>s, <2>2, OthersDeliver, SMT DEF PollMask, Return, EndCall
  <2>3. CASE PollSched(t) BY <1>s, <2>3, OthersDeliver, SMT DEF PollSched
  <2>4. CASE PollInterrupted(t) BY <1>s, <2>4, OthersDeliver, SMT DEF PollInterrupted
  <2> QED BY <1>4, <2>1, <2>2, <2>3, <2>4 DEF gold_poll
<1>5. ASSUME NEW t \in Threads, gold_ioctl(t) PROVE (DeliverInv /\ BlockingReadDelivers)'
  <2> USE DEF IInv, TypeOK
  <2>1. CASE ResetLock(t)
    BY <1>s, <2>1, OthersDeliver, SMTT(30) DEF ResetLock, LockInterrupted, Return, EndCall
  <2>2. CASE ResetClear(t)
    <3>1. \A r \in Threads : pc[r] \notin ReadPoints
      BY <2>2 DEF ResetClear, ReadPoints, ResetPoints, SoleTaker, CallInv
    <3> QED
      BY <2>2, <3>1, SMT DEF ResetClear, ReadPoints, DeliverInv, BlockingReadDelivers
  <2>3. CASE ResetWake(t)
    BY <2>3, <1>s, OthersDeliver, SMT DEF ResetWake, WakeWriters, WakeAndReturn, EndCall
  <2> QED BY <1>5, <2>1, <2>2, <2>3 DEF gold_ioctl
<1>6. CASE UNCHANGED vars
  BY <1>6, Zenon DEF vars, DeliverInv, BlockingReadDelivers
<1> QED BY <1>1, <1>2, <1>3, <1>4, <1>5, <1>6 DEF Next

\* A blocking read of at least one byte returns at least one, if its thread is the
\* only one that takes bytes off the ring, and whatever the writers do.
THEOREM SoleReaderServed ==
    ASSUME SoleTaker PROVE Spec => []BlockingReadDelivers
<1>1. Init => DeliverInv /\ BlockingReadDelivers BY DEF Init, DeliverInv, BlockingReadDelivers
<1>2. IInv /\ DeliverInv /\ BlockingReadDelivers /\ [Next]_vars
      => (DeliverInv /\ BlockingReadDelivers)'
  BY DeliverStep
<1> QED BY Inductive, <1>1, <1>2, PTL DEF Spec

-----------------------------------------------------------------------------
(* The driver implements BoundedQueue: the ring, read from its tail, is a FIFO  *)
(* whatever the interleaving of reads, writes and resets.                      *)

\* The i-th oldest byte is i - 1 slots after the tail.
ContentsOnRing == /\ Contents \in Seq(Bytes)
                  /\ Len(Contents) = size
                  /\ \A i \in 1 .. size : Contents[i] = buffer[(tail + i - 1) % BUF_SIZE]

\* In a state of the right types the ring holds a sequence of size bytes.
LEMMA ContentsAt == TypeOK => ContentsOnRing
<1> SUFFICES ASSUME TypeOK PROVE ContentsOnRing OBVIOUS
<1>1. ASSUME NEW i \in 1 .. size PROVE (tail + i - 1) % BUF_SIZE \in 0 .. BUF_SIZE - 1
  <2>1. tail + i - 1 \in 0 .. 2 * BUF_SIZE - 1 BY SMT DEF TypeOK
  <2> QED BY <2>1, SMT
<1>2. size \in Nat BY SMT DEF TypeOK
<1>3. \A i \in 1 .. size : buffer[(tail + i - 1) % BUF_SIZE] \in Bytes BY <1>1 DEF TypeOK
<1> QED BY <1>2, <1>3, SMT DEF Contents, ContentsOnRing

\* The FIFO is empty exactly when size is 0.
LEMMA EmptyContents == ASSUME TypeOK PROVE Contents = <<>> <=> size = 0
BY ContentsAt, SMT DEF TypeOK, ContentsOnRing

\* put_user takes the oldest byte off.
LEMMA TakeIsDequeue ==
    ASSUME TypeOK, TypeOK', size # 0,
           tail' = (tail + 1) % BUF_SIZE, size' = size - 1, UNCHANGED buffer
    PROVE  /\ Contents # <<>>
           /\ Head(Contents) = buffer[tail]
           /\ Contents' = Tail(Contents)
<1>1. Contents # <<>> BY EmptyContents
<1>c. ContentsOnRing /\ ContentsOnRing' BY ContentsAt, PTL
<1>2. Head(Contents) = buffer[tail]
  <2>1. Head(Contents) = Contents[1] BY <1>1, <1>c, SMT DEF ContentsOnRing
  <2>2. 1 \in 1 .. size BY SMT DEF TypeOK
  <2>3. tail \in 0 .. BUF_SIZE - 1 BY DEF TypeOK
  <2>4. tail + 1 - 1 = tail BY <2>3, SMT
  <2>5. tail % BUF_SIZE = tail BY <2>3, SMT
  <2>6. Contents[1] = buffer[(tail + 1 - 1) % BUF_SIZE] BY <2>2, <1>c, Zenon DEF ContentsOnRing
  <2> QED BY <2>1, <2>4, <2>5, <2>6, Zenon
<1>3. /\ Tail(Contents) \in Seq(Bytes)
      /\ Len(Tail(Contents)) = size - 1
      /\ \A i \in 1 .. size - 1 : Tail(Contents)[i] = Contents[i + 1]
  BY <1>1, <1>c, HeadTailProperties, SMT DEF ContentsOnRing
<1>4. ASSUME NEW i \in 1 .. size - 1
      PROVE  (tail' + i - 1) % BUF_SIZE = (tail + (i + 1) - 1) % BUF_SIZE
  <2>1. CASE tail = BUF_SIZE - 1
    <3>1. tail' = 0 BY <2>1, NextSlot, SMT DEF TypeOK
    <3>2. tail + (i + 1) - 1 = BUF_SIZE + (i - 1) /\ i - 1 \in 0 .. BUF_SIZE - 1
      BY <2>1, SMT DEF TypeOK
    <3>3. (BUF_SIZE + (i - 1)) % BUF_SIZE = i - 1 BY <3>2, SMT
    <3>4. (i - 1) % BUF_SIZE = i - 1 BY <3>2, SMT
    <3>5. tail' + i - 1 = i - 1 BY <3>1, SMT
    <3> QED BY <3>2, <3>3, <3>4, <3>5
  <2>2. CASE tail # BUF_SIZE - 1
    <3>1. tail' = tail + 1 BY <2>2, NextSlot, SMT DEF TypeOK
    <3>2. tail \in Int BY SMT DEF TypeOK
    <3>3. tail' + i - 1 = tail + (i + 1) - 1 BY <3>1, <3>2, SMT
    <3> QED BY <3>3
  <2> QED BY <2>1, <2>2
<1>5. ASSUME NEW i \in 1 .. size - 1 PROVE Contents'[i] = Tail(Contents)[i]
  <2>1. i + 1 \in 1 .. size /\ i \in 1 .. size' BY SMT DEF TypeOK
  <2>2. Contents'[i] = buffer[(tail' + i - 1) % BUF_SIZE] BY <1>c, <2>1 DEF ContentsOnRing
  <2>3. Contents[i + 1] = buffer[(tail + (i + 1) - 1) % BUF_SIZE]
    BY <1>c, <2>1 DEF ContentsOnRing
  <2> QED BY <1>3, <1>4, <2>2, <2>3
<1>6. Contents' \in Seq(Bytes) /\ Len(Contents') = size - 1 BY <1>c DEF ContentsOnRing
<1>7. Contents' = Tail(Contents) BY <1>3, <1>5, <1>6, SeqEqual, SMT
<1> QED BY <1>1, <1>2, <1>7

\* get_user's byte goes behind the youngest.
LEMMA PutIsEnqueue ==
    ASSUME TypeOK, TypeOK', RingConsistent, size < BUF_SIZE, NEW c \in Bytes,
           buffer' = [buffer EXCEPT ![head] = c], size' = size + 1, UNCHANGED tail
    PROVE  Contents' = Append(Contents, c)
<1>c. ContentsOnRing /\ ContentsOnRing' BY ContentsAt, PTL
<1>1. ASSUME NEW i \in 1 .. size PROVE Contents'[i] = Contents[i]
  <2> DEFINE k == (tail + i - 1) % BUF_SIZE
  <2>t. tail \in 0 .. BUF_SIZE - 1 /\ size \in 0 .. BUF_SIZE BY DEF TypeOK
  <2>1. tail + i - 1 \in 0 .. 2 * BUF_SIZE - 1 /\ tail + size \in 0 .. 2 * BUF_SIZE - 1
    BY <2>t, SMT
  <2>2. k = IF tail + i - 1 < BUF_SIZE THEN tail + i - 1 ELSE tail + i - 1 - BUF_SIZE
    BY <2>1, <2>t, SMT
  <2>3. (tail + size) % BUF_SIZE
          = IF tail + size < BUF_SIZE THEN tail + size ELSE tail + size - BUF_SIZE
    BY <2>1, <2>t, SMT
  <2>4. k # head /\ k \in 0 .. BUF_SIZE - 1
    <3> HIDE DEF k
    <3> QED BY <2>t, <2>2, <2>3, SMT DEF RingConsistent
  <2>5. buffer'[k] = buffer[k] BY <2>4 DEF TypeOK
  <2>6. i \in 1 .. size' BY SMT DEF TypeOK
  <2> QED BY <1>c, <2>5, <2>6 DEF ContentsOnRing
<1>2. Contents'[size + 1] = c
  <2>1. size + 1 \in 1 .. size' BY SMT DEF TypeOK
  <2>2. tail + (size + 1) - 1 = tail + size BY SMT DEF TypeOK
  <2>3. buffer'[head] = c BY DEF TypeOK
  <2> QED BY <1>c, <2>1, <2>2, <2>3 DEF ContentsOnRing, RingConsistent
<1>3. /\ Append(Contents, c) \in Seq(Bytes)
      /\ Len(Append(Contents, c)) = size + 1
      /\ \A i \in 1 .. size : Append(Contents, c)[i] = Contents[i]
      /\ Append(Contents, c)[size + 1] = c
  BY <1>c, AppendProperties DEF ContentsOnRing
<1>4. Contents' \in Seq(Bytes) /\ Len(Contents') = size + 1 BY <1>c DEF ContentsOnRing
<1>5. \A i \in 1 .. size + 1 : Contents'[i] = Append(Contents, c)[i]
  <2>1. \A i \in 1 .. size + 1 : i \in 1 .. size \/ i = size + 1 BY SMT DEF TypeOK
  <2> QED BY <1>1, <1>2, <1>3, <2>1, Zenon
<1> QED BY <1>3, <1>4, <1>5, SeqEqual, Zenon

\* The FIFO depends on nothing but the ring.
LEMMA SameContents == ASSUME UNCHANGED ring PROVE UNCHANGED Contents
BY Zenon DEF ring, Contents

QueueStep == [Queue!Next]_(Queue!abstractVars)

\* A step that touches neither the ring nor user memory is invisible.
LEMMA Invisible == ASSUME UNCHANGED <<ring, received>> PROVE QueueStep
BY SameContents DEF QueueStep, Queue!abstractVars

\* The end of a call gives its thread a new receive buffer.
LEMMA EndIsNewCall ==
    ASSUME NEW t \in Threads, EndCall(t), UNCHANGED ring PROVE QueueStep
BY SameContents DEF QueueStep, EndCall, Queue!Next, Queue!NewCall

\* Every step of gold_read takes a byte off the FIFO or leaves it alone.
LEMMA ReadStep == ASSUME NEW t \in Threads, IInv, IInv', gold_read(t) PROVE QueueStep
<1>1. CASE ReadWait(t)
  BY <1>1, Invisible, EndIsNewCall DEF ReadWait, WaitEvent, Return, call
<1>2. CASE ReadInterrupted(t)
  BY <1>2, Invisible, EndIsNewCall DEF ReadInterrupted, SleepInterrupted, Return, call
<1>3. CASE ReadLock(t)
  BY <1>3, Invisible, EndIsNewCall DEF ReadLock, LockInterrupted, Return, call
<1>4. CASE ReadCheck(t)
  BY <1>4, Invisible, EndIsNewCall DEF ReadCheck, Again, Return, call
<1>5. CASE ReadCopy(t)
  <2>1. CASE Fault(t) BY <2>1, EndIsNewCall DEF Fault, Return
  <2>2. CASE UNCHANGED <<ring, ctx, call, triggered>> BY <2>2, Invisible DEF call
  <2>3. ASSUME ~buffer_empty,
               received' = [received EXCEPT ![t] = Append(@, buffer[tail])],
               tail' = (tail + 1) % BUF_SIZE,
               size' = size - 1,
               UNCHANGED buffer
        PROVE  QueueStep
    <3>1. /\ Contents # <<>>
          /\ Head(Contents) = buffer[tail]
          /\ Contents' = Tail(Contents)
      BY <2>3, TakeIsDequeue DEF IInv, buffer_empty
    <3>2. Queue!Dequeue(t) BY <2>3, <3>1 DEF Queue!Dequeue
    <3> QED BY <3>2 DEF QueueStep, Queue!Next
  <2> QED BY <1>5, <2>1, <2>2, <2>3 DEF ReadCopy
<1>6. CASE ReadWake(t)
  BY <1>6, EndIsNewCall DEF ReadWake, WakeWriters, WakeAndReturn
<1> QED BY <1>1, <1>2, <1>3, <1>4, <1>5, <1>6 DEF gold_read

\* Every step of gold_write adds a byte to it or leaves it alone.
LEMMA WriteStep == ASSUME NEW t \in Threads, IInv, IInv', gold_write(t) PROVE QueueStep
<1>1. CASE WriteWait(t)
  BY <1>1, Invisible, EndIsNewCall DEF WriteWait, WaitEvent, Return, call
<1>2. CASE WriteInterrupted(t)
  BY <1>2, Invisible, EndIsNewCall DEF WriteInterrupted, SleepInterrupted, Return, call
<1>3. CASE WriteLock(t)
  BY <1>3, Invisible, EndIsNewCall DEF WriteLock, LockInterrupted, Return, call
<1>4. CASE WriteCheck(t)
  BY <1>4, Invisible, EndIsNewCall DEF WriteCheck, Again, Return, call
<1>5. CASE WriteCopy(t)
  <2>1. CASE Fault(t) BY <2>1, EndIsNewCall DEF Fault, Return
  <2>2. CASE UNCHANGED <<ring, ctx, call, triggered>> BY <2>2, Invisible DEF call
  <2>3. ASSUME copied[t] < count[t], ~buffer_full,
               buffer' = [buffer EXCEPT ![head] = data[t][copied[t] + 1]],
               size' = size + 1,
               UNCHANGED <<tail, received>>
        PROVE  QueueStep
    <3> DEFINE c == data[t][copied[t] + 1]
    <3>1. size < BUF_SIZE BY <2>3, SMT DEF buffer_full, IInv, TypeOK
    <3>2. c \in Bytes
      <4>1. pc[t] \in WritePoints BY <1>5 DEF WriteCopy, WritePoints
      <4>2. count[t] = Len(data[t]) BY <4>1 DEF IInv, CallInv
      <4>3. copied[t] \in Nat /\ data[t] \in Seq(Bytes) BY DEF IInv, TypeOK
      <4>4. copied[t] < Len(data[t]) BY <2>3, <4>2
      <4>5. copied[t] + 1 \in 1 .. Len(data[t]) BY <4>3, <4>4, SMT
      <4> QED BY <4>3, <4>5, ElementOfSeq
    <3>3. Contents' = Append(Contents, c)
      <4> HIDE DEF c
      <4>1. buffer' = [buffer EXCEPT ![head] = c] BY <2>3 DEF c
      <4> QED BY <2>3, <3>1, <3>2, <4>1, PutIsEnqueue DEF IInv
    <3>4. Len(Contents) < BUF_SIZE BY <3>1, ContentsAt DEF IInv, ContentsOnRing
    <3>5. Queue!Enqueue(c) BY <2>3, <3>3, <3>4 DEF Queue!Enqueue
    <3> QED BY <3>2, <3>5 DEF QueueStep, Queue!Next
  <2> QED BY <1>5, <2>1, <2>2, <2>3 DEF WriteCopy
<1>6. CASE WriteWake(t)
  BY <1>6, EndIsNewCall DEF WriteWake, WakeReaders, WakeAndReturn
<1> QED BY <1>1, <1>2, <1>3, <1>4, <1>5, <1>6 DEF gold_write

\* gold_poll leaves it alone.
LEMMA PollStep == ASSUME NEW t \in Threads, gold_poll(t) PROVE QueueStep
BY Invisible, EndIsNewCall
   DEF gold_poll, PollLock, PollMask, PollSched, PollInterrupted, Return, call

\* A reset empties it.
LEMMA IoctlStep == ASSUME NEW t \in Threads, IInv, IInv', gold_ioctl(t) PROVE QueueStep
<1>1. CASE ResetLock(t)
  BY <1>1, Invisible, EndIsNewCall DEF ResetLock, LockInterrupted, Return, call
<1>2. CASE ResetClear(t)
  <2>1. (TypeOK => (Contents = <<>> <=> size = 0))' BY EmptyContents, PTL
  <2>2. Contents' = <<>> BY <1>2, <2>1 DEF ResetClear, IInv
  <2>3. Queue!Reset BY <1>2, <2>2 DEF Queue!Reset, ResetClear, call
  <2> QED BY <2>3 DEF QueueStep, Queue!Next
<1>3. CASE ResetWake(t)
  BY <1>3, EndIsNewCall DEF ResetWake, WakeWriters, WakeAndReturn
<1> QED BY <1>1, <1>2, <1>3 DEF gold_ioctl

\* A call that starts leaves it alone.
LEMMA BeginStep == ASSUME NEW t \in Threads, Begin(t) PROVE QueueStep
BY Invisible
   DEF Begin, gold_open, gold_release, ReadBegin, WriteBegin, PollBegin, ResetBegin, call

\* Every step of the driver is a step of the FIFO or leaves it alone.
THEOREM Refinement == Spec => ImplementsQueue
<1>1. Init => Queue!Init
  <2> SUFFICES ASSUME Init PROVE Queue!Init OBVIOUS
  <2>1. TypeOK BY InitInv DEF IInv
  <2>2. Contents = <<>> BY <2>1, EmptyContents DEF Init
  <2> QED BY <2>2 DEF Init, Queue!Init
<1>2. IInv /\ IInv' /\ [Next]_vars => QueueStep
  <2> SUFFICES ASSUME IInv, IInv', [Next]_vars PROVE QueueStep OBVIOUS
  <2>1. CASE UNCHANGED vars BY <2>1, Invisible DEF vars, call
  <2> QED BY <2>1, BeginStep, ReadStep, WriteStep, PollStep, IoctlStep DEF Next
<1> QED BY Inductive, <1>1, <1>2, PTL DEF Spec, ImplementsQueue, Queue!Spec, QueueStep
=============================================================================
