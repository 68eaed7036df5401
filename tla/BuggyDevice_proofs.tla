-------------------------- MODULE BuggyDevice_proofs --------------------------
(***************************************************************************)
(* Theorems about BuggyDevice for any processes, also infinitely many, any *)
(* lengths and any number of closes: what the driver still keeps, with the *)
(* bugs its comments mark.                                                 *)
(***************************************************************************)
EXTENDS BuggyDevice, FiniteSetTheorems, TLAPS

TypeOK == /\ data_size \in Nat
          /\ blocking_mode \in {0, 1}
          /\ lock \in Processes \cup {NoProcess}
          /\ pc \in [Processes -> Points]
          /\ count \in [Processes -> Nat]
          /\ closes \in Nat

\* A mutex that is free although the device is open was freed by one of the closes,
\* and that close has let nobody in yet.
FreeByClose == lock = NoProcess /\ (\E t \in Processes : pc[t] # "closed")
               => Cardinality(InRead) + 1 <= closes

ReadersInv == IsFiniteSet(InRead) /\ ReadersBoundedByCloses /\ FreeByClose

USE BuggyAssumption

\* Every variable keeps its type.
LEMMA TypeStep == TypeOK /\ [Next]_vars => TypeOK'
<1> SUFFICES ASSUME TypeOK, [Next]_vars PROVE TypeOK' OBVIOUS
<1> USE DEF TypeOK, Points, CriticalPoints, device, Goto
<1>1. ASSUME NEW t \in Processes, Call(t) PROVE TypeOK'
  BY <1>1, SMT DEF Call, my_open, my_release, ReadBegin, my_ioctl, Reset, SetBlocking, WriteBegin
<1>2. ASSUME NEW t \in Processes, my_read(t) PROVE TypeOK'
  BY <1>2, SMT DEF my_read, ReadCheck, ReadWait, ReadCopy, ReadClear, ReadUnlock
<1>3. ASSUME NEW t \in Processes, my_write(t) PROVE TypeOK'
  BY <1>3, SMT DEF my_write, WriteSize, WriteWake
<1>4. ASSUME NEW t \in Processes, ReadLock(t) \/ ReadInterrupted(t) PROVE TypeOK'
  BY <1>4, SMT DEF ReadLock, ReadInterrupted
<1>5. CASE UNCHANGED vars BY <1>5 DEF vars
<1> QED BY <1>1, <1>2, <1>3, <1>4, <1>5 DEF Next

\* So it does from the start.
LEMMA TypeCorrect == Spec => []TypeOK
<1>1. Init => TypeOK BY SMT DEF Init, TypeOK, Points
<1> QED BY <1>1, TypeStep, PTL DEF Spec

-----------------------------------------------------------------------------
(* The wake-up that the write without a lock gives *)

\* A write makes data_size positive before it wakes the queue, and whoever goes to
\* sleep has seen data_size at 0.
LEMMA WakeupStep == TypeOK /\ WakeupPending /\ [Next]_vars => WakeupPending'
<1> SUFFICES ASSUME TypeOK, WakeupPending, [Next]_vars PROVE WakeupPending' OBVIOUS
<1> USE DEF TypeOK, WakeupPending, device, Goto
<1>1. ASSUME NEW t \in Processes, Call(t) PROVE WakeupPending'
  BY <1>1, SMT DEF Call, my_open, my_release, ReadBegin, my_ioctl, Reset, SetBlocking, WriteBegin
<1>2. ASSUME NEW t \in Processes, my_read(t) PROVE WakeupPending'
  BY <1>2, SMT DEF my_read, ReadCheck, ReadWait, ReadCopy, ReadClear, ReadUnlock
<1>3. ASSUME NEW t \in Processes, my_write(t) PROVE WakeupPending'
  BY <1>3, SMT DEF my_write, WriteSize, WriteWake
<1>4. ASSUME NEW t \in Processes, ReadLock(t) \/ ReadInterrupted(t) PROVE WakeupPending'
  BY <1>4, SMT DEF ReadLock, ReadInterrupted
<1>5. CASE UNCHANGED vars BY <1>5 DEF vars
<1> QED BY <1>1, <1>2, <1>3, <1>4, <1>5 DEF Next

\* BUG 8 of the source, a write without the lock, loses no wake-up: a reader asleep
\* beside data has one on its way.
THEOREM NoMissedWakeup == Spec => []WakeupPending
<1>1. Init => WakeupPending BY DEF Init, WakeupPending
<1> QED BY <1>1, TypeCorrect, WakeupStep, PTL DEF Spec

-----------------------------------------------------------------------------
(* A process that waits for itself *)

\* No step of its own, no signal and no write gets a process out of mutex_lock that
\* waits there for the mutex it took in open: another process has to unlock what is
\* not its own.
THEOREM OnlyOthersUnlock == Spec => StuckUntilOthersUnlock
<1> DEFINE Stuck(t) == pc[t] = "rd_lock" /\ lock = t
           Step(t) == /\ pc'[t] = "rd_lock"
                      /\ \/ lock' = t
                         \/ /\ lock' = NoProcess
                            /\ \E u \in Processes : \/ pc[u] = "idle" /\ pc'[u] = "closed"
                                                    \/ u \in InRead /\ pc'[u] = "idle"
<1>1. TypeOK /\ [Next]_vars => \A t \in Processes : Stuck(t) => Step(t)
  <2> SUFFICES ASSUME TypeOK, [Next]_vars, NEW t \in Processes, Stuck(t) PROVE Step(t)
    OBVIOUS
  <2> USE DEF TypeOK, device, Goto
  <2>1. ASSUME NEW u \in Processes, Call(u) PROVE Step(t)
    BY <2>1, SMT DEF Call, my_open, my_release, ReadBegin, my_ioctl, Reset, SetBlocking, WriteBegin
  <2>2. ASSUME NEW u \in Processes, my_read(u) PROVE Step(t)
    BY <2>2, SMT DEF my_read, ReadCheck, ReadWait, ReadCopy, ReadClear, ReadUnlock, InRead,
                     CriticalPoints
  <2>3. ASSUME NEW u \in Processes, my_write(u) PROVE Step(t)
    BY <2>3, SMT DEF my_write, WriteSize, WriteWake
  <2>4. ASSUME NEW u \in Processes, ReadLock(u) \/ ReadInterrupted(u) PROVE Step(t)
    BY <2>4, SMT DEF ReadLock, ReadInterrupted
  <2>5. CASE UNCHANGED vars BY <2>5 DEF vars
  <2> QED BY <2>1, <2>2, <2>3, <2>4, <2>5 DEF Next
<1> QED BY <1>1, TypeCorrect, PTL DEF Spec, StuckUntilOthersUnlock

-----------------------------------------------------------------------------
(* How many readers the closes let in *)

\* A step that leaves the readers, and with a device that was closed or a mutex that is
\* not freed.
LEMMA SameReaders ==
    ASSUME TypeOK, ReadersInv, InRead' = InRead,
           closes' \in Nat, closes' >= closes,
           lock' = NoProcess => \/ lock = NoProcess /\ \A t \in Processes :
                                      pc'[t] # "closed" => \E u \in Processes : pc[u] # "closed"
                                \/ closes' > closes
    PROVE  ReadersInv'
<1>1. Cardinality(InRead) \in Nat BY FS_CardinalityType DEF ReadersInv
<1> QED
  BY <1>1, SMT DEF TypeOK, ReadersInv, ReadersBoundedByCloses, FreeByClose

\* The step of a reader that ends with the mutex freed.
LEMMA ReaderLeaves ==
    ASSUME TypeOK, ReadersInv, NEW t \in InRead, InRead' = InRead \ {t}, UNCHANGED closes
    PROVE  ReadersInv'
<1>1. Cardinality(InRead) \in Nat BY FS_CardinalityType DEF ReadersInv
<1>2. IsFiniteSet(InRead \ {t}) /\ Cardinality(InRead \ {t}) = Cardinality(InRead) - 1
  BY FS_RemoveElement DEF ReadersInv
<1> QED
  BY <1>1, <1>2, SMT DEF TypeOK, ReadersInv, ReadersBoundedByCloses, FreeByClose

\* Every step pays for the reader it lets in with a close.
LEMMA ReadersStep == TypeOK /\ ReadersInv /\ [Next]_vars => ReadersInv'
<1> SUFFICES ASSUME TypeOK, ReadersInv, [Next]_vars PROVE ReadersInv' OBVIOUS
<1> USE DEF Goto, device
<1>1. ASSUME NEW t \in Processes, Call(t) PROVE ReadersInv'
  <2>1. CASE my_open(t)
    <3>1. InRead' = InRead BY <2>1, SMT DEF my_open, InRead, TypeOK, CriticalPoints
    <3>2. CASE lock = NoProcess
      BY <2>1, <3>1, <3>2, SameReaders, SMT DEF my_open, TypeOK
    <3>3. CASE lock # NoProcess
      BY <2>1, <3>1, <3>3, SameReaders, SMT DEF my_open, TypeOK
    <3> QED BY <3>2, <3>3
  <2>2. CASE my_release(t)
    <3>1. InRead' = InRead BY <2>2, SMT DEF my_release, InRead, TypeOK, CriticalPoints
    <3> QED BY <2>2, <3>1, SameReaders, SMT DEF my_release, TypeOK
  <2>3. CASE ReadBegin(t) \/ my_ioctl(t) \/ \E n \in Counts : WriteBegin(t, n)
    <3>1. /\ InRead' = InRead
          /\ pc[t] # "closed"
      BY <2>3, SMT DEF ReadBegin, my_ioctl, Reset, SetBlocking, WriteBegin, InRead, TypeOK,
                       CriticalPoints
    <3>2. UNCHANGED <<lock, closes>>
      BY <2>3 DEF ReadBegin, my_ioctl, Reset, SetBlocking, WriteBegin
    <3> QED BY <3>1, <3>2, SameReaders, SMT DEF TypeOK
  <2> QED BY <1>1, <2>1, <2>2, <2>3 DEF Call
<1>2. ASSUME NEW t \in Processes, my_read(t) PROVE ReadersInv'
  <2>1. t \in InRead
    BY <1>2 DEF my_read, ReadCheck, ReadWait, ReadCopy, ReadClear, ReadUnlock, InRead,
                CriticalPoints
  <2>2. pc[t] # "closed" BY <2>1 DEF InRead, CriticalPoints
  <2>3. UNCHANGED closes
    BY <1>2 DEF my_read, ReadCheck, ReadWait, ReadCopy, ReadClear, ReadUnlock
  <2>4. CASE Goto(t, "idle")
    <3>1. InRead' = InRead \ {t} BY <2>4, SMT DEF InRead, TypeOK, CriticalPoints
    <3> QED BY <2>1, <2>3, <3>1, ReaderLeaves
  <2>5. ASSUME NEW point \in CriticalPoints, Goto(t, point), UNCHANGED lock PROVE ReadersInv'
    <3>1. InRead' = InRead BY <2>1, <2>5, SMT DEF InRead, TypeOK
    <3> QED BY <2>2, <2>3, <2>5, <3>1, SameReaders, SMT DEF TypeOK
  <2> QED
    BY <1>2, <2>4, <2>5
       DEF my_read, ReadCheck, ReadWait, ReadCopy, ReadClear, ReadUnlock, CriticalPoints
<1>3. ASSUME NEW t \in Processes, my_write(t) PROVE ReadersInv'
  <2>1. InRead' = InRead /\ pc[t] # "closed"
    BY <1>3, SMT DEF my_write, WriteSize, WriteWake, InRead, TypeOK, CriticalPoints
  <2>2. UNCHANGED <<lock, closes>> BY <1>3 DEF my_write, WriteSize, WriteWake
  <2> QED BY <2>1, <2>2, SameReaders, SMT DEF TypeOK
<1>4. ASSUME NEW t \in Processes, ReadLock(t) PROVE ReadersInv'
  <2>1. InRead' = InRead \cup {t} /\ t \notin InRead
    BY <1>4, SMT DEF ReadLock, InRead, TypeOK, CriticalPoints
  <2>2. Cardinality(InRead) \in Nat BY FS_CardinalityType DEF ReadersInv
  <2>3. /\ IsFiniteSet(InRead \cup {t})
        /\ Cardinality(InRead \cup {t}) = Cardinality(InRead) + 1
    BY <2>1, FS_AddElement DEF ReadersInv
  <2>4. Cardinality(InRead) + 1 <= closes
    BY <1>4 DEF ReadLock, ReadersInv, FreeByClose
  <2> QED
    BY <1>4, <2>1, <2>3, <2>4, SMT DEF ReadLock, ReadersInv, ReadersBoundedByCloses, FreeByClose
<1>5. ASSUME NEW t \in Processes, ReadInterrupted(t) PROVE ReadersInv'
  <2>1. InRead' = InRead /\ pc[t] # "closed"
    BY <1>5, SMT DEF ReadInterrupted, InRead, TypeOK, CriticalPoints
  <2> QED BY <1>5, <2>1, SameReaders, SMT DEF ReadInterrupted, TypeOK
<1>6. CASE UNCHANGED vars
  <2>1. InRead' = InRead BY <1>6 DEF vars, InRead
  <2> QED BY <1>6, <2>1, SameReaders, SMT DEF vars, TypeOK
<1> QED BY <1>1, <1>2, <1>3, <1>4, <1>5, <1>6 DEF Next

\* Every reader past mutex_lock, beside those the mutex was meant to let in one by one,
\* is owed to a close that unlocked what another process had locked.
THEOREM ReadersOwedToCloses == Spec => []ReadersBoundedByCloses
<1>1. Init => ReadersInv
  <2> SUFFICES ASSUME Init PROVE ReadersInv OBVIOUS
  <2>1. InRead = {} BY DEF Init, InRead, CriticalPoints
  <2>2. IsFiniteSet(InRead) /\ Cardinality(InRead) = 0 BY <2>1, FS_EmptySet
  <2> QED BY <2>2 DEF Init, ReadersInv, ReadersBoundedByCloses, FreeByClose
<1>2. ReadersInv => ReadersBoundedByCloses BY DEF ReadersInv
<1> QED BY <1>1, <1>2, TypeCorrect, ReadersStep, PTL DEF Spec
=============================================================================
