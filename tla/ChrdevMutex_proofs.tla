-------------------------- MODULE ChrdevMutex_proofs --------------------------
(***************************************************************************)
(* Theorems about ChrdevMutex for every buffer size, every set of          *)
(* processes and every set of messages, with forks, signals and faults.    *)
(***************************************************************************)
EXTENDS ChrdevMutex, SequenceTheorems, TLAPS

Copying(p) == pc[p] \in {"rd_copy", "wr_copy"}

\* What the invariants need to be inductive, whoever has the file: a write's length
\* is within its data, a process that is not copying has copied nothing, only one
\* with the file copies, and a close forgets what was written.
CallInv ==
    /\ copied \in [Processes -> Nat]
    /\ data \in [Processes -> Seq(Bytes)]
    /\ received \in [Processes -> Seq(Bytes)]
    /\ written \in [Processes -> Seq(Bytes)]
    /\ \A p \in Processes :
          /\ pc[p] = "wr_copy" => to_copy[p] <= Len(data[p])
          /\ ~Copying(p) => copied[p] = 0 /\ received[p] = <<>>
          /\ Copying(p) \/ written[p] # <<>> => file[p] # NoProcess
          /\ pc[p] = "open_lock" => file[p] = NoProcess

IInv == MutexTypeOK /\ OneOpenFile /\ CallInv

USE BufferAssumption, MutexAssumption

\* What the module's init leaves satisfies the inductive invariant.
LEMMA InitInv == MutexInit => IInv
<1> SUFFICES ASSUME MutexInit PROVE IInv OBVIOUS
<1> USE DEF MutexInit, Init
<1>1. MutexTypeOK
  <2>1. buffer \in [0 .. Size - 1 -> Bytes] /\ buffer_pointer \in 0 .. Size BY SMT
  <2>2. to_copy \in [Processes -> 0 .. Size] /\ \A p \in Processes : copied[p] \in 0 .. to_copy[p]
    BY SMT
  <2> QED BY <2>1, <2>2 DEF MutexTypeOK
<1>2. OneOpenFile BY DEF OneOpenFile
<1>3. CallInv BY SMT DEF CallInv, Copying
<1> QED BY <1>1, <1>2, <1>3 DEF IInv

\* What MutexTypeOK says of the calls, and the steps that change it.
CallsOK(pc_, to_copy_, copied_) ==
    /\ to_copy_ \in [Processes -> 0 .. Size]
    /\ \A p \in Processes : copied_[p] \in 0 .. to_copy_[p]
    /\ pc_ \in [Processes -> {"idle", "open_lock", "rd_copy", "wr_copy"}]

\* Storing a byte leaves a buffer of bytes.
LEMMA StoreByte ==
    ASSUME NEW f \in [0 .. Size - 1 -> Bytes], NEW i, NEW b \in Bytes
    PROVE  [f EXCEPT ![i] = b] \in [0 .. Size - 1 -> Bytes]
BY SMT

\* Opening, forking and closing: the mutex goes with the file.
LEMMA FileInv ==
    ASSUME IInv, NEW p \in Processes,
           OpenBegin(p) \/ OpenLock(p) \/ driver_close(p)
           \/ \E q \in Processes : Inherit(p, q)
    PROVE  IInv'
<1> USE DEF IInv, device, call, Goto
<1>1. CASE OpenBegin(p)
  <2> USE <1>1 DEF OpenBegin
  <2>1. MutexTypeOK' BY SMT DEF MutexTypeOK
  <2>2. OneOpenFile' BY DEF OneOpenFile
  <2>3. CallInv' BY SMT DEF CallInv, MutexTypeOK, Copying
  <2> QED BY <2>1, <2>2, <2>3
<1>2. CASE OpenLock(p)
  <2>1. /\ pc[p] = "open_lock" /\ file[p] = NoProcess
        /\ pc' = [pc EXCEPT ![p] = "idle"]
        /\ UNCHANGED <<buffer, buffer_pointer, to_copy, copied, data, received, written, inherited>>
    BY <1>2 DEF OpenLock, CallInv
  <2>2. /\ file \in [Processes -> Processes \cup {NoProcess}]
        /\ pc' \in [Processes -> {"idle", "open_lock", "rd_copy", "wr_copy"}]
    BY <2>1, SMT DEF MutexTypeOK
  <2>3. CASE UNCHANGED <<my_dyn_mutex, file>>
    <3>1. MutexTypeOK' BY <2>1, <2>2, <2>3 DEF MutexTypeOK
    <3>2. OneOpenFile' BY <2>3 DEF OneOpenFile
    <3>3. CallInv' BY <2>1, <2>3, SMT DEF CallInv, MutexTypeOK, Copying
    <3> QED BY <3>1, <3>2, <3>3
  <2>4. CASE /\ my_dyn_mutex = NoProcess /\ my_dyn_mutex' = p
             /\ file' = [file EXCEPT ![p] = p]
    <3>1. file' \in [Processes -> Processes \cup {NoProcess}] BY <2>2, <2>4
    <3>2. MutexTypeOK' BY <2>1, <2>2, <2>4, <3>1 DEF MutexTypeOK
    <3>3. file'[p] = p /\ \A q \in Processes \ {p} : file'[q] = NoProcess
      BY <2>2, <2>4, Zenon DEF OneOpenFile
    <3>4. OneOpenFile' BY <2>4, <3>3 DEF OneOpenFile
    <3>5. \A q \in Processes : q # p => file'[q] = file[q] BY <2>2, <2>4
    <3>6. CallInv'
      <4>1. pc'[p] = "idle" /\ \A q \in Processes : q # p => pc'[q] = pc[q]
        BY <2>1, SMT DEF MutexTypeOK
      <4>2. ASSUME NEW q \in Processes
            PROVE  /\ pc'[q] = "wr_copy" => to_copy[q] <= Len(data[q])
                   /\ pc'[q] \notin {"rd_copy", "wr_copy"} => copied[q] = 0 /\ received[q] = <<>>
                   /\ pc'[q] \in {"rd_copy", "wr_copy"} \/ written[q] # <<>>
                         => file'[q] # NoProcess
                   /\ pc'[q] = "open_lock" => file'[q] = NoProcess
        <5>1. CASE q = p BY <2>1, <3>3, <4>1, <5>1, Zenon DEF CallInv, Copying
        <5>2. CASE q # p BY <3>5, <4>1, <5>2, Zenon DEF CallInv, Copying
        <5> QED BY <5>1, <5>2
      <4> QED BY <2>1, <4>2 DEF CallInv, Copying
    <3> QED BY <3>2, <3>4, <3>6
  <2> QED BY <1>2, <2>3, <2>4 DEF OpenLock
<1>3. CASE driver_close(p)
  <2>1. /\ pc[p] = "idle" /\ file[p] # NoProcess
        /\ file' = [file EXCEPT ![p] = NoProcess]
        /\ written' = [written EXCEPT ![p] = <<>>]
        /\ UNCHANGED <<buffer, buffer_pointer, pc, to_copy, copied, data, received>>
    BY <1>3 DEF driver_close
  <2>2. file \in [Processes -> Processes \cup {NoProcess}] BY DEF MutexTypeOK
  <2>3. file' \in [Processes -> Processes \cup {NoProcess}] BY <2>1, <2>2
  <2>4. CallInv' BY <2>1, <2>2, SMTT(30) DEF CallInv, MutexTypeOK, Copying
  <2>5. CASE \E q \in Processes \ {p} : file[q] = file[p]
    <3>1. UNCHANGED <<my_dyn_mutex, inherited>> BY <1>3, <2>5 DEF driver_close
    <3>2. MutexTypeOK' BY <2>1, <2>3, <3>1 DEF MutexTypeOK
    <3>3. OneOpenFile' BY <2>1, <2>2, <2>5, <3>1, SMT DEF OneOpenFile
    <3> QED BY <2>4, <3>2, <3>3
  <2>6. CASE ~ \E q \in Processes \ {p} : file[q] = file[p]
    <3>1. my_dyn_mutex' = NoProcess /\ inherited' = FALSE BY <1>3, <2>6 DEF driver_close
    <3>2. MutexTypeOK' BY <2>1, <2>3, <3>1 DEF MutexTypeOK
    <3>3. \A q \in Processes : file'[q] = NoProcess
      BY <2>1, <2>2, <2>6, SMT DEF OneOpenFile
    <3>4. OneOpenFile' BY <3>1, <3>3 DEF OneOpenFile
    <3> QED BY <2>4, <3>2, <3>4
  <2> QED BY <2>5, <2>6
<1>4. ASSUME NEW q \in Processes, Inherit(p, q) PROVE IInv'
  <2> USE <1>4 DEF Inherit, vars
  <2>1. MutexTypeOK' BY SMT DEF MutexTypeOK
  <2>2. OneOpenFile' BY SMT DEF MutexTypeOK, OneOpenFile
  <2>3. UNCHANGED <<pc, to_copy, copied, data, received, written>> OBVIOUS
  <2>4. \A r \in Processes : /\ file[r] # NoProcess => file'[r] # NoProcess
                             /\ pc[r] = "open_lock" => file'[r] = file[r]
    BY SMT DEF MutexTypeOK
  <2> HIDE <1>4 DEF Inherit, vars
  <2>5. CallInv' BY <2>3, <2>4, Zenon DEF CallInv, Copying
  <2> QED BY <2>1, <2>2, <2>5
<1> QED BY <1>1, <1>2, <1>3, <1>4

\* The steps of a read,
LEMMA ReadInv ==
    ASSUME IInv, NEW p \in Processes, UseFile(p), driver_read(p)
    PROVE  IInv'
<1> USE DEF IInv, device, call, Goto
<1>1. file[p] # NoProcess /\ UNCHANGED <<my_dyn_mutex, file, inherited>> BY DEF UseFile
<1>2. OneOpenFile' BY <1>1 DEF OneOpenFile
<1>3. ASSUME NEW n \in Counts, ReadBegin(p, n) PROVE IInv'
  <2> USE <1>3 DEF ReadBegin
  <2>1. min(n, buffer_pointer) \in 0 .. Size BY SMT DEF min, MutexTypeOK
  <2>2. MutexTypeOK'
    <3>0. PICK k \in 0 .. Size : to_copy' = [to_copy EXCEPT ![p] = k] BY <2>1
    <3>1. CallsOK(pc', to_copy', copied')
      BY <3>0, SMT DEF MutexTypeOK, CallInv, Copying, CallsOK
    <3> QED BY <1>1, <3>1 DEF MutexTypeOK, CallsOK
  <2>3. CallInv' BY <1>1, SMT DEF CallInv, MutexTypeOK, Copying
  <2> QED BY <1>2, <2>2, <2>3
<1>4. CASE /\ pc[p] = "rd_copy"
           /\ copied[p] < to_copy[p]
           /\ received' = [received EXCEPT ![p] = Append(@, buffer[copied[p]])]
           /\ copied' = [copied EXCEPT ![p] = @ + 1]
           /\ UNCHANGED <<pc, to_copy, data, device, written>>
  <2>1. buffer[copied[p]] \in Bytes BY <1>4, SMT DEF MutexTypeOK
  <2>2. Append(received[p], buffer[copied[p]]) \in Seq(Bytes) BY <2>1, SMT DEF CallInv
  <2>3. MutexTypeOK'
    <3>1. CallsOK(pc', to_copy', copied')
      BY <1>4, SMT DEF MutexTypeOK, CallInv, Copying, CallsOK
    <3> QED BY <1>1, <1>4, <3>1 DEF MutexTypeOK, CallsOK
  <2>4. CallInv' BY <1>1, <1>4, <2>2, SMT DEF CallInv, MutexTypeOK, Copying
  <2> QED BY <1>2, <2>3, <2>4
<1>5. CASE pc[p] = "rd_copy" /\ Return(p) /\ UNCHANGED <<device, written>>
  <2> USE DEF Return
  <2>1. MutexTypeOK'
    <3>1. CallsOK(pc', to_copy', copied')
      BY <1>5, SMT DEF MutexTypeOK, CallInv, Copying, CallsOK
    <3> QED BY <1>1, <1>5, <3>1 DEF MutexTypeOK, CallsOK
  <2>2. CallInv' BY <1>1, <1>5, SMT DEF CallInv, MutexTypeOK, Copying
  <2> QED BY <1>2, <2>1, <2>2
<1> QED BY <1>3, <1>4, <1>5 DEF driver_read, ReadCopy

\* and of a write.
LEMMA WriteInv ==
    ASSUME IInv, NEW p \in Processes, UseFile(p),
           WriteByte(p) \/ MutexWriteEnd(p) \/ \E m \in Messages : WriteBegin(p, m)
    PROVE  IInv'
<1> USE DEF IInv, device, call, Goto
<1>1. file[p] # NoProcess /\ UNCHANGED <<my_dyn_mutex, file, inherited>> BY DEF UseFile
<1>2. OneOpenFile' BY <1>1 DEF OneOpenFile
<1>3. ASSUME NEW m \in Messages, WriteBegin(p, m) PROVE IInv'
  <2> USE <1>3 DEF WriteBegin
  <2>1. m \in Seq(Bytes) /\ Len(m) \in Nat BY SMT
  <2>2. min(Len(m), Size) \in 0 .. Size /\ min(Len(m), Size) <= Len(m) BY <2>1, SMT DEF min
  <2>3. MutexTypeOK'
    <3>0. PICK k \in 0 .. Size : to_copy' = [to_copy EXCEPT ![p] = k] BY <2>2
    <3>1. CallsOK(pc', to_copy', copied')
      <4>1. copied' = copied /\ copied[p] = 0 /\ pc' = [pc EXCEPT ![p] = "wr_copy"]
        BY DEF CallInv, Copying
      <4> HIDE <1>3
      <4> QED BY <3>0, <4>1, SMT DEF MutexTypeOK, CallsOK
    <3> QED BY <1>1, <3>1 DEF MutexTypeOK, CallsOK
  <2>4. CallInv' BY <1>1, <2>1, <2>2, SMT DEF CallInv, MutexTypeOK, Copying
  <2> QED BY <1>2, <2>3, <2>4
<1>4. CASE WriteByte(p)
  <2> USE <1>4 DEF WriteByte
  <2>1. copied[p] + 1 \in 1 .. Len(data[p]) /\ data[p] \in Seq(Bytes)
    BY SMT DEF MutexTypeOK, CallInv
  <2>2. data[p][copied[p] + 1] \in Bytes BY <2>1, SMT
  <2>3. buffer' \in [0 .. Size - 1 -> Bytes]
    BY <2>2, StoreByte DEF MutexTypeOK
  <2>4. MutexTypeOK'
    <3>1. CallsOK(pc', to_copy', copied')
      BY <1>4, SMT DEF MutexTypeOK, CallInv, Copying, CallsOK
    <3> QED BY <1>1, <2>3, <3>1 DEF MutexTypeOK, CallsOK
  <2>5. CallInv' BY <1>1, SMT DEF CallInv, MutexTypeOK, Copying
  <2> QED BY <1>2, <2>4, <2>5
<1>5. CASE MutexWriteEnd(p)
  <2> USE <1>5 DEF MutexWriteEnd, WriteDone, Return
  <2>1. buffer' \in [0 .. Size - 1 -> Bytes] BY SMT DEF MutexTypeOK
  <2>2. buffer_pointer' \in 0 .. Size BY SMT DEF MutexTypeOK
  <2>3. MutexTypeOK'
    <3>1. CallsOK(pc', to_copy', copied')
      BY <1>5, SMT DEF MutexTypeOK, CallInv, Copying, CallsOK
    <3> QED BY <1>1, <2>1, <2>2, <3>1 DEF MutexTypeOK, CallsOK
  <2>4. SubSeq(data[p], 1, copied[p]) \in Seq(Bytes)
    BY SMT DEF MutexTypeOK, CallInv
  <2>5. CallInv' BY <1>1, <2>4, SMT DEF CallInv, MutexTypeOK, Copying
  <2> QED BY <1>2, <2>3, <2>5
<1> QED BY <1>3, <1>4, <1>5

\* Every step keeps the inductive invariant.
LEMMA StepInv == IInv /\ [MutexNext]_mutexVars => IInv'
<1> SUFFICES ASSUME IInv, [MutexNext]_mutexVars PROVE IInv' OBVIOUS
<1>1. ASSUME NEW p \in Processes, UseFile(p) PROVE IInv'
  BY <1>1, ReadInv, WriteInv DEF UseFile
<1>2. CASE MutexNext BY <1>1, <1>2, FileInv DEF MutexNext
<1>3. CASE UNCHANGED mutexVars
  BY <1>3 DEF mutexVars, vars, device, call, IInv, MutexTypeOK, OneOpenFile, CallInv, Copying
<1> QED BY <1>2, <1>3

\* One open file at a time, and a mutex that is held exactly as long as somebody has
\* it, whichever of the processes that share it closes last.
THEOREM OneFile == MutexSpec => []MutexInv
<1>1. IInv => MutexInv BY DEF IInv, MutexInv
<1> QED BY <1>1, InitInv, StepInv, PTL DEF MutexSpec

-----------------------------------------------------------------------------
\* While the file has not been shared, only its opener has one; its write has put the
\* first bytes of its data in the buffer, its read has handed out the first bytes of
\* the buffer, and the buffer is what it wrote.
HolderInv(p) ==
    /\ file[p] \in {p, NoProcess}
    /\ pc[p] = "wr_copy" => \A i \in 1 .. copied[p] : buffer[i - 1] = data[p][i]
    /\ pc[p] = "rd_copy" => /\ to_copy[p] <= buffer_pointer
                            /\ Len(received[p]) = copied[p]
                            /\ \A i \in 1 .. copied[p] : received[p][i] = buffer[i - 1]
    /\ pc[p] # "wr_copy" /\ written[p] # <<>> =>
          /\ Len(written[p]) = buffer_pointer
          /\ \A i \in 1 .. buffer_pointer : buffer[i - 1] = written[p][i]

OwnerInv == ~inherited => \A p \in Processes : HolderInv(p)

\* A process without the file is in no call and remembers nothing.
LEMMA Without ==
    ASSUME IInv, NEW q \in Processes, file[q] = NoProcess
    PROVE  pc[q] \notin {"rd_copy", "wr_copy"} /\ written[q] = <<>>
BY DEF IInv, CallInv, Copying

\* While the file has not been shared, one that has it is the only one.
LEMMA OnlyHolder ==
    ASSUME IInv, OwnerInv, ~inherited,
           NEW p \in Processes, NEW q \in Processes \ {p}, file[p] # NoProcess
    PROVE  file[q] = NoProcess
BY DEF IInv, OneOpenFile, OwnerInv, HolderInv

\* What a process does to the device leaves the others in order, as they have no file.
LEMMA OthersIdle ==
    ASSUME IInv, OwnerInv, ~inherited, NEW p \in Processes, UseFile(p),
           NEW q \in Processes \ {p},
           pc'[q] = pc[q], written'[q] = written[q]
    PROVE  HolderInv(q)'
<1>1. file[p] # NoProcess /\ file' = file BY DEF UseFile
<1>2. file[q] = NoProcess BY <1>1, OnlyHolder
<1> QED BY <1>1, <1>2, Without DEF HolderInv

\* Opening, forking and closing.
LEMMA FileOwner ==
    ASSUME IInv, OwnerInv, NEW p \in Processes,
           OpenBegin(p) \/ OpenLock(p) \/ driver_close(p)
           \/ \E q \in Processes : Inherit(p, q)
    PROVE  OwnerInv'
<1>t. /\ pc \in [Processes -> {"idle", "open_lock", "rd_copy", "wr_copy"}]
      /\ file \in [Processes -> Processes \cup {NoProcess}]
      /\ written \in [Processes -> Seq(Bytes)]
  BY DEF IInv, MutexTypeOK, CallInv
<1> USE DEF device, call, Goto
<1>1. CASE OpenBegin(p)
  <2>1. ASSUME NEW q \in Processes, HolderInv(q) PROVE HolderInv(q)'
    <3>1. pc'[q] = pc[q] \/ (pc[q] = "idle" /\ pc'[q] = "open_lock")
      BY <1>t, <1>1, SMT DEF OpenBegin
    <3> QED BY <1>1, <2>1, <3>1 DEF OpenBegin, HolderInv
  <2> QED BY <1>1, <2>1 DEF OpenBegin, OwnerInv
<1>2. CASE OpenLock(p)
  <2>1. ASSUME NEW q \in Processes, HolderInv(q) PROVE HolderInv(q)'
    <3>1. pc'[q] = pc[q] \/ (pc[q] = "open_lock" /\ pc'[q] = "idle")
      BY <1>t, <1>2, SMT DEF OpenLock
    <3>2. file'[q] \in {q, NoProcess}
      BY <1>t, <1>2, <2>1, Zenon DEF OpenLock, HolderInv
    <3> QED BY <1>2, <2>1, <3>1, <3>2 DEF OpenLock, HolderInv
  <2> QED BY <1>2, <2>1 DEF OpenLock, OwnerInv
<1>3. CASE driver_close(p)
  <2>0. /\ pc' = pc /\ pc[p] = "idle" /\ file[p] # NoProcess
        /\ file' = [file EXCEPT ![p] = NoProcess]
        /\ written' = [written EXCEPT ![p] = <<>>]
        /\ UNCHANGED <<buffer, buffer_pointer, to_copy, copied, data, received>>
    BY <1>3 DEF driver_close
  <2>p. file'[p] = NoProcess /\ written'[p] = <<>> BY <2>0, <1>t
  <2>1. HolderInv(p)' BY <2>0, <2>p DEF HolderInv
  <2>q. ASSUME NEW q \in Processes \ {p} PROVE file'[q] = file[q] /\ written'[q] = written[q]
    BY <2>0, <1>t
  <2>2. CASE \E q \in Processes \ {p} : file[q] = file[p]
    <3>1. UNCHANGED inherited BY <1>3, <2>2 DEF driver_close
    <3>2. ASSUME NEW q \in Processes \ {p}, HolderInv(q) PROVE HolderInv(q)'
      BY <2>0, <2>q, <3>2 DEF HolderInv
    <3> QED BY <2>1, <3>1, <3>2 DEF OwnerInv
  <2>3. CASE ~ \E q \in Processes \ {p} : file[q] = file[p]
    <3>1. ASSUME NEW q \in Processes \ {p} PROVE HolderInv(q)'
      <4>1. file[q] = NoProcess BY <2>0, <2>3 DEF IInv, OneOpenFile
      <4> QED BY <2>0, <2>q, <4>1, Without DEF HolderInv
    <3> QED BY <2>1, <3>1 DEF OwnerInv
  <2> QED BY <2>2, <2>3
<1>4. ASSUME NEW q \in Processes, Inherit(p, q) PROVE OwnerInv'
  BY <1>4 DEF Inherit, OwnerInv
<1> QED BY <1>1, <1>2, <1>3, <1>4

\* The steps of a read that the holder makes,
LEMMA ReadOwner ==
    ASSUME IInv, OwnerInv, NEW p \in Processes, UseFile(p), driver_read(p)
    PROVE  OwnerInv'
<1> SUFFICES ASSUME ~inherited PROVE \A q \in Processes : HolderInv(q)'
  BY DEF OwnerInv, UseFile
<1>t. /\ pc \in [Processes -> {"idle", "open_lock", "rd_copy", "wr_copy"}]
      /\ buffer \in [0 .. Size - 1 -> Bytes]
      /\ buffer_pointer \in 0 .. Size
      /\ to_copy \in [Processes -> 0 .. Size]
      /\ copied \in [Processes -> Nat]
      /\ copied[p] \in 0 .. to_copy[p]
      /\ received \in [Processes -> Seq(Bytes)]
  BY DEF IInv, MutexTypeOK, CallInv
<1>f. file[p] # NoProcess /\ file' = file BY DEF UseFile
<1>h. HolderInv(p) BY DEF OwnerInv
<1>c. file'[p] \in {p, NoProcess} BY <1>f, <1>h DEF HolderInv
<1>o. UNCHANGED written /\ \A q \in Processes \ {p} : pc'[q] = pc[q]
  BY <1>t, SMT DEF driver_read, ReadBegin, ReadCopy, Return, Goto
<1>1. \A q \in Processes \ {p} : HolderInv(q)' BY <1>o, OthersIdle
<1> USE DEF device, Goto
<1>2. ASSUME NEW n \in Counts, ReadBegin(p, n) PROVE HolderInv(p)'
  <2>1. pc[p] = "idle" /\ pc'[p] = "rd_copy" BY <1>2, <1>t, SMT DEF ReadBegin
  <2>2. copied[p] = 0 /\ received[p] = <<>> BY <2>1 DEF IInv, CallInv, Copying
  <2>3. to_copy'[p] <= buffer_pointer BY <1>2, <1>t, SMT DEF ReadBegin, min
  <2>4. UNCHANGED <<buffer, buffer_pointer, copied, data, received, written>>
    BY <1>2 DEF ReadBegin
  <2> QED BY <1>f, <1>h, <2>1, <2>2, <2>3, <2>4, SMT DEF HolderInv
<1>3. ASSUME pc[p] = "rd_copy",
             copied[p] < to_copy[p],
             received' = [received EXCEPT ![p] = Append(@, buffer[copied[p]])],
             copied' = [copied EXCEPT ![p] = @ + 1],
             UNCHANGED <<pc, to_copy, data, device, written>>
      PROVE  HolderInv(p)'
  <2>1. /\ to_copy[p] <= buffer_pointer /\ Len(received[p]) = copied[p]
        /\ \A i \in 1 .. copied[p] : received[p][i] = buffer[i - 1]
    BY <1>3, <1>h DEF HolderInv
  <2>2. buffer[copied[p]] \in Bytes BY <1>3, <1>t, SMT
  <2>3. received'[p] = Append(received[p], buffer[copied[p]]) /\ copied'[p] = copied[p] + 1
    BY <1>3, <1>t, SMT
  <2>4. /\ Len(received'[p]) = copied'[p]
        /\ \A i \in 1 .. copied'[p] : received'[p][i] = buffer[i - 1]
    BY <1>t, <2>1, <2>2, <2>3, SMT
  <2>5. pc' = pc /\ UNCHANGED <<buffer, buffer_pointer, to_copy, written>> BY <1>3
  <2>6. pc'[p] # "wr_copy" /\ to_copy'[p] <= buffer_pointer' BY <1>3, <2>1, <2>5
  <2>7. \A i \in 1 .. copied'[p] : received'[p][i] = buffer'[i - 1] BY <2>4, <2>5
  <2>8. /\ pc[p] # "wr_copy"
        /\ written[p] # <<>> => /\ Len(written[p]) = buffer_pointer
                                /\ \A i \in 1 .. buffer_pointer : buffer[i - 1] = written[p][i]
    BY <1>3, <1>h DEF HolderInv
  <2>9. written'[p] # <<>> => /\ Len(written'[p]) = buffer_pointer'
                             /\ \A i \in 1 .. buffer_pointer' : buffer'[i - 1] = written'[p][i]
    BY <2>5, <2>8
  <2> QED BY <1>c, <2>4, <2>6, <2>7, <2>9 DEF HolderInv
<1>4. ASSUME pc[p] = "rd_copy", Return(p), UNCHANGED <<device, written>>
      PROVE  HolderInv(p)'
  <2>1. pc'[p] = "idle" BY <1>4, <1>t, SMT DEF Return
  <2>2. UNCHANGED <<buffer, buffer_pointer, written>> BY <1>4
  <2>3. pc[p] # "wr_copy" /\ pc'[p] \notin {"rd_copy", "wr_copy"} BY <1>4, <2>1
  <2> QED BY <1>c, <1>h, <2>2, <2>3 DEF HolderInv
<1> QED BY <1>1, <1>2, <1>3, <1>4 DEF driver_read, ReadCopy

\* and of a write: its end counts the bytes that were copied, and nothing else is in
\* the way of its data.
LEMMA WriteOwner ==
    ASSUME IInv, OwnerInv, NEW p \in Processes, UseFile(p),
           WriteByte(p) \/ MutexWriteEnd(p) \/ \E m \in Messages : WriteBegin(p, m)
    PROVE  OwnerInv'
<1> SUFFICES ASSUME ~inherited PROVE \A q \in Processes : HolderInv(q)'
  BY DEF OwnerInv, UseFile
<1>t. /\ pc \in [Processes -> {"idle", "open_lock", "rd_copy", "wr_copy"}]
      /\ buffer \in [0 .. Size - 1 -> Bytes]
      /\ buffer_pointer \in 0 .. Size
      /\ to_copy \in [Processes -> 0 .. Size]
      /\ copied \in [Processes -> Nat]
      /\ copied[p] \in 0 .. to_copy[p]
      /\ data \in [Processes -> Seq(Bytes)]
      /\ written \in [Processes -> Seq(Bytes)]
      /\ pc[p] = "wr_copy" => to_copy[p] <= Len(data[p])
  BY DEF IInv, MutexTypeOK, CallInv
<1>f. file[p] # NoProcess /\ file' = file BY DEF UseFile
<1>h. HolderInv(p) BY DEF OwnerInv
<1>c. file'[p] \in {p, NoProcess} BY <1>f, <1>h DEF HolderInv
<1>o. \A q \in Processes \ {p} : pc'[q] = pc[q] /\ written'[q] = written[q]
  BY <1>t, SMT DEF WriteByte, MutexWriteEnd, WriteDone, WriteBegin, Return, Goto
<1>1. \A q \in Processes \ {p} : HolderInv(q)' BY <1>o, OthersIdle
<1> USE DEF device, Goto
<1>2. ASSUME NEW m \in Messages, WriteBegin(p, m) PROVE HolderInv(p)'
  <2>1. pc[p] = "idle" /\ pc'[p] = "wr_copy" BY <1>2, <1>t, SMT DEF WriteBegin
  <2>2. copied'[p] = 0 BY <1>2, <2>1 DEF IInv, CallInv, Copying, WriteBegin
  <2> QED BY <1>f, <1>h, <2>1, <2>2, SMT DEF HolderInv
<1>3. ASSUME WriteByte(p) PROVE HolderInv(p)'
  <2>1. /\ pc[p] = "wr_copy" /\ copied[p] < to_copy[p]
        /\ buffer' = [buffer EXCEPT ![copied[p]] = data[p][copied[p] + 1]]
        /\ copied' = [copied EXCEPT ![p] = @ + 1]
        /\ UNCHANGED <<buffer_pointer, pc, data>>
    BY <1>3 DEF WriteByte
  <2>2. \A i \in 1 .. copied'[p] : buffer'[i - 1] = data[p][i]
    <3> TAKE i \in 1 .. copied'[p]
    <3>1. copied'[p] = copied[p] + 1 /\ i - 1 \in 0 .. Size - 1 /\ i \in 1 .. copied[p] + 1
      BY <1>t, <2>1, SMT
    <3>2. CASE i - 1 = copied[p]
      <4>1. i = copied[p] + 1 BY <1>t, <3>1, <3>2, SMT
      <4>2. buffer'[i - 1] = data[p][copied[p] + 1] BY <1>t, <2>1, <3>1, <3>2
      <4> QED BY <4>1, <4>2
    <3>3. CASE i - 1 # copied[p]
      <4>1. i \in 1 .. copied[p] BY <1>t, <3>1, <3>3, SMT
      <4>2. buffer'[i - 1] = buffer[i - 1] BY <1>t, <2>1, <3>1, <3>3
      <4> QED BY <1>h, <2>1, <4>1, <4>2 DEF HolderInv
    <3> QED BY <3>2, <3>3
  <2>3. pc'[p] = "wr_copy" /\ pc'[p] # "rd_copy" /\ data' = data BY <2>1
  <2>4. \A i \in 1 .. copied'[p] : buffer'[i - 1] = data'[p][i] BY <2>2, <2>3
  <2> QED BY <1>c, <2>3, <2>4 DEF HolderInv
<1>4. ASSUME MutexWriteEnd(p) PROVE HolderInv(p)'
  <2>1. /\ pc[p] = "wr_copy"
        /\ buffer' = [i \in DOMAIN buffer |->
                          IF i \in copied[p] .. to_copy[p] - 1 THEN 0 ELSE buffer[i]]
        /\ buffer_pointer' = copied[p]
        /\ written' = [written EXCEPT ![p] = SubSeq(data[p], 1, copied[p])]
        /\ pc' = [pc EXCEPT ![p] = "idle"]
    BY <1>4 DEF MutexWriteEnd, WriteDone, Return
  <2>2. pc'[p] = "idle" /\ written'[p] = SubSeq(data[p], 1, copied[p]) BY <1>t, <2>1
  <2>3. Len(written'[p]) = copied[p] /\ \A i \in 1 .. copied[p] : written'[p][i] = data[p][i]
    BY <1>t, <2>1, <2>2, SMT
  <2>4. \A i \in 1 .. copied[p] : buffer'[i - 1] = buffer[i - 1]
    <3> TAKE i \in 1 .. copied[p]
    <3>1. i - 1 \in 0 .. Size - 1 /\ i - 1 \notin copied[p] .. to_copy[p] - 1 BY <1>t, SMT
    <3> QED BY <1>t, <2>1, <3>1
  <2>5. \A i \in 1 .. copied[p] : buffer[i - 1] = data[p][i] BY <1>h, <2>1 DEF HolderInv
  <2>6. pc'[p] \notin {"rd_copy", "wr_copy"} BY <2>2
  <2>7. \A i \in 1 .. copied[p] : buffer'[i - 1] = written'[p][i]
    BY <2>3, <2>4, <2>5, Zenon
  <2>8. Len(written'[p]) = buffer_pointer' /\ buffer_pointer' = copied[p] BY <2>1, <2>3
  <2> QED BY <1>c, <2>6, <2>7, <2>8 DEF HolderInv
<1> QED BY <1>1, <1>2, <1>3, <1>4

\* Every step keeps the buffer the holder's.
LEMMA StepOwner == IInv /\ OwnerInv /\ [MutexNext]_mutexVars => OwnerInv'
<1> SUFFICES ASSUME IInv, OwnerInv, [MutexNext]_mutexVars PROVE OwnerInv' OBVIOUS
<1>1. ASSUME NEW p \in Processes, UseFile(p) PROVE OwnerInv'
  BY <1>1, ReadOwner, WriteOwner DEF UseFile
<1>2. CASE MutexNext BY <1>1, <1>2, FileOwner DEF MutexNext
<1>3. CASE UNCHANGED mutexVars
  BY <1>3 DEF mutexVars, vars, device, call, OwnerInv, HolderInv
<1> QED BY <1>2, <1>3

\* What the holder reads is the beginning of what it wrote.
LEMMA OwnerSuffices == IInv /\ OwnerInv => OwnerReadsBack
<1> SUFFICES ASSUME IInv, OwnerInv, ~inherited, NEW p \in Processes,
                    pc[p] = "rd_copy", written[p] # <<>>
             PROVE  /\ to_copy[p] <= Len(written[p])
                    /\ received[p] = SubSeq(written[p], 1, copied[p])
  BY DEF OwnerReadsBack, ReadBack
<1>t. /\ buffer_pointer \in 0 .. Size
      /\ to_copy[p] \in 0 .. Size
      /\ copied[p] \in 0 .. to_copy[p]
      /\ received[p] \in Seq(Bytes)
      /\ written[p] \in Seq(Bytes)
  BY DEF IInv, MutexTypeOK, CallInv
<1>1. /\ to_copy[p] <= buffer_pointer
      /\ Len(received[p]) = copied[p]
      /\ \A i \in 1 .. copied[p] : received[p][i] = buffer[i - 1]
      /\ Len(written[p]) = buffer_pointer
      /\ \A i \in 1 .. buffer_pointer : buffer[i - 1] = written[p][i]
  BY DEF OwnerInv, HolderInv
<1>2. copied[p] <= Len(written[p]) /\ \A i \in 1 .. copied[p] : received[p][i] = written[p][i]
  <2>1. copied[p] <= buffer_pointer BY <1>t, <1>1, SMT
  <2>2. \A i \in 1 .. copied[p] : i \in 1 .. buffer_pointer BY <1>t, <2>1, SMT
  <2> QED BY <1>1, <2>1, <2>2, Zenon
<1> DEFINE u == SubSeq(written[p], 1, copied[p])
<1>3. u \in Seq(Bytes) /\ Len(u) = copied[p] BY <1>t, <1>2, SMT
<1>4. \A i \in 1 .. copied[p] : received[p][i] = u[i] BY <1>t, <1>2, SMT
<1>5. received[p] = u
  <2> HIDE DEF u
  <2> QED BY <1>t, <1>1, <1>3, <1>4, SeqEqual
<1> QED BY <1>1, <1>5

\* A process that has opened the device and not shared it reads back what it wrote,
\* whatever the lengths, whoever waits, and wherever a copy was cut short.
THEOREM ReadsBack == MutexSpec => []OwnerReadsBack
<1>1. MutexSpec => []IInv BY InitInv, StepInv, PTL DEF MutexSpec
<1>2. MutexInit => OwnerInv
  BY DEF MutexInit, Init, OwnerInv, HolderInv
<1>3. MutexSpec => []OwnerInv BY <1>1, <1>2, StepOwner, PTL DEF MutexSpec
<1> QED BY <1>1, <1>3, OwnerSuffices, PTL
=============================================================================
