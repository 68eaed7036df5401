------------------------------ MODULE ChrdevMutex ------------------------------
(***************************************************************************)
(* chrdev_mutex/read_write_mutex.c: the driver of ChrdevBuffer with a      *)
(* mutex that is taken by open and given back by close, so that a process  *)
(* has the device to itself from one to the other.  An open file outlives  *)
(* its opener when a child inherits it: close then is the last holder's.   *)
(***************************************************************************)
EXTENDS ChrdevBuffer

CONSTANTS NoProcess,    \* the mutex has no owner; a process has no file
          Forks,        \* BOOLEAN: open files are inherited by other processes
          Signals       \* BOOLEAN: a process waiting in open may be interrupted

ASSUME MutexAssumption == /\ NoProcess \notin Processes
                          /\ Forks \in BOOLEAN
                          /\ Signals \in BOOLEAN

VARIABLES my_dyn_mutex, \* its owner
          file,         \* the open file of each process, named by who opened it
          inherited     \* (not in the code) the open file has had two holders

mutexVars == <<vars, my_dyn_mutex, file, inherited>>

MutexInit == /\ Init
             /\ my_dyn_mutex = NoProcess
             /\ file = [p \in Processes |-> NoProcess]
             /\ inherited = FALSE

OpenBegin(p) == /\ pc[p] = "idle"
                /\ file[p] = NoProcess
                /\ Goto(p, "open_lock")
                /\ UNCHANGED <<device, call, written, my_dyn_mutex, file, inherited>>

\* mutex_lock_interruptible; its -EINTR is what open returns.
OpenLock(p) ==
    /\ pc[p] = "open_lock"
    /\ Goto(p, "idle")
    /\ \/ /\ my_dyn_mutex = NoProcess
          /\ my_dyn_mutex' = p
          /\ file' = [file EXCEPT ![p] = p]
       \/ /\ my_dyn_mutex # NoProcess
          /\ Signals
          /\ UNCHANGED <<my_dyn_mutex, file>>
    /\ UNCHANGED <<device, call, written, inherited>>

\* fork: the child has its parent's open file, without calling open.
Inherit(p, q) == /\ Forks
                 /\ pc[p] = "idle" /\ file[p] # NoProcess
                 /\ pc[q] = "idle" /\ file[q] = NoProcess
                 /\ file' = [file EXCEPT ![q] = file[p]]
                 /\ inherited' = TRUE
                 /\ UNCHANGED <<vars, my_dyn_mutex>>

\* close unlocks the mutex even for the first of several holders.
driver_close_mFirst(p) == /\ pc[p] = "idle" /\ file[p] # NoProcess
                          /\ file' = [file EXCEPT ![p] = NoProcess]
                          /\ written' = [written EXCEPT ![p] = <<>>]
                          /\ my_dyn_mutex' = NoProcess
                          /\ inherited' = FALSE
                          /\ UNCHANGED <<device, pc, call>>

driver_close_mKeeps(p) == /\ pc[p] = "idle" /\ file[p] # NoProcess
                          /\ file' = [file EXCEPT ![p] = NoProcess]
                          /\ written' = [written EXCEPT ![p] = <<>>]
                          /\ UNCHANGED <<device, pc, call, my_dyn_mutex, inherited>>

\* The release callback runs when the last holder closes, and unlocks.
driver_close(p) ==
    /\ pc[p] = "idle" /\ file[p] # NoProcess
    /\ file' = [file EXCEPT ![p] = NoProcess]
    /\ written' = [written EXCEPT ![p] = <<>>]
    /\ IF \E q \in Processes \ {p} : file[q] = file[p]
       THEN UNCHANGED <<my_dyn_mutex, inherited>>
       ELSE my_dyn_mutex' = NoProcess /\ inherited' = FALSE
    /\ UNCHANGED <<device, pc, call>>

\* This driver counts the bytes that were copied.
MutexWriteEnd_mAsked(p) == WriteDone(p, to_copy[p])
MutexWriteEnd(p) == WriteDone(p, copied[p])

\* Calls on the open file.
UseFile(p) ==
    /\ file[p] # NoProcess
    /\ \/ driver_read(p)
       \/ WriteByte(p)
       \/ MutexWriteEnd(p)
       \/ \E m \in Messages : WriteBegin(p, m)
    /\ UNCHANGED <<my_dyn_mutex, file, inherited>>

MutexNext == \E p \in Processes : \/ OpenBegin(p)
                                  \/ OpenLock(p)
                                  \/ UseFile(p)
                                  \/ driver_close(p)
                                  \/ \E q \in Processes : Inherit(p, q)

MutexSpec == MutexInit /\ [][MutexNext]_mutexVars

\* A process in open gets a mutex that is free again and again, a copy goes on
\* to its end, and a process that has the device sooner or later closes it.
MutexFairSpec == /\ MutexSpec
                 /\ \A p \in Processes : /\ SF_mutexVars(my_dyn_mutex = NoProcess /\ OpenLock(p))
                                         /\ SF_mutexVars(driver_close(p))
                                         /\ WF_mutexVars(UseFile(p) /\ pc[p] # "idle")

-----------------------------------------------------------------------------
(* Properties *)

\* Type invariant: the length and the copies never exceed the buffer.
MutexTypeOK == /\ my_dyn_mutex \in Processes \cup {NoProcess}
               /\ file \in [Processes -> Processes \cup {NoProcess}]
               /\ inherited \in BOOLEAN
               /\ buffer \in [0 .. Size - 1 -> Bytes]
               /\ buffer_pointer \in 0 .. Size
               /\ to_copy \in [Processes -> 0 .. Size]
               /\ \A p \in Processes : copied[p] \in 0 .. to_copy[p]
               /\ pc \in [Processes -> {"idle", "open_lock", "rd_copy", "wr_copy"}]

\* There is at most one open file, and the mutex is held by its opener exactly
\* as long as somebody still has it, whichever process closes last.
OneOpenFile == /\ \A p \in Processes : file[p] # NoProcess => file[p] = my_dyn_mutex
               /\ my_dyn_mutex # NoProcess => \E p \in Processes : file[p] # NoProcess

\* What holds of the device, its mutex and its open file between any two steps: the
\* lengths fit the buffer, and the exclusion outlives every order of closes.
MutexInv == MutexTypeOK /\ OneOpenFile

\* A process that has opened the device, and has not shared it, reads back what
\* it wrote, whatever the others try and wherever a copy was cut short.
OwnerReadsBack == ~inherited => ReadBack

\* A process that waits in open gets the device, or is interrupted, if those that
\* have it close it.
OpenReturns == \A p \in Processes : pc[p] = "open_lock" ~> pc[p] # "open_lock"
=============================================================================
