----------------------------- MODULE ChrdevBuffer -----------------------------
(***************************************************************************)
(* The driver of chrdev_read_write/read_write.c: a buffer and the length   *)
(* of the last message, shared by every process that opens the device,     *)
(* without a lock.  The processes do what rwtodev.c does: they write a     *)
(* message and read it back.                                               *)
(***************************************************************************)
EXTENDS Integers, Sequences

CONSTANTS Size,         \* sizeof(buffer)
          Bytes,
          Processes,
          Counts,       \* the lengths asked of read
          Messages,     \* the user buffers given to write
          Faults        \* BOOLEAN: user memory may be unmapped

ASSUME BufferAssumption == /\ Size \in Nat \ {0}
                           /\ 0 \in Bytes       \* a static buffer starts zeroed
                           /\ Counts \subseteq Nat
                           /\ Messages \subseteq Seq(Bytes)
                           /\ Faults \in BOOLEAN

VARIABLES buffer, buffer_pointer,
          pc,
          to_copy, copied,      \* of the call in progress
          data,                 \* the user buffer of a write
          received,             \* the bytes the read in progress has delivered
          written               \* what the process knows its last write stored

device == <<buffer, buffer_pointer>>
call == <<to_copy, copied, data, received>>
vars == <<device, pc, call, written>>

Init == /\ buffer = [i \in 0 .. Size - 1 |-> 0]
        /\ buffer_pointer = 0
        /\ pc = [p \in Processes |-> "idle"]
        /\ to_copy = [p \in Processes |-> 0]
        /\ copied = [p \in Processes |-> 0]
        /\ data = [p \in Processes |-> <<>>]
        /\ received = [p \in Processes |-> <<>>]
        /\ written = [p \in Processes |-> <<>>]

min(a, b) == IF a < b THEN a ELSE b

Goto(p, point) == pc' = [pc EXCEPT ![p] = point]

Return(p) == /\ Goto(p, "idle")
             /\ to_copy' = [to_copy EXCEPT ![p] = 0]
             /\ copied' = [copied EXCEPT ![p] = 0]
             /\ data' = [data EXCEPT ![p] = <<>>]
             /\ received' = [received EXCEPT ![p] = <<>>]

-----------------------------------------------------------------------------
ReadBegin(p, n) == /\ pc[p] = "idle"
                   /\ to_copy' = [to_copy EXCEPT ![p] = min(n, buffer_pointer)]
                   /\ Goto(p, "rd_copy")
                   /\ UNCHANGED <<device, copied, data, received, written>>

\* copy_to_user, a byte at a time; a fault ends it early and shortens the result.
ReadCopy(p) ==
    /\ pc[p] = "rd_copy"
    /\ \/ /\ copied[p] < to_copy[p]
          /\ received' = [received EXCEPT ![p] = Append(@, buffer[copied[p]])]
          /\ copied' = [copied EXCEPT ![p] = @ + 1]
          /\ UNCHANGED <<pc, to_copy, data>>
       \/ /\ copied[p] = to_copy[p] \/ Faults
          /\ Return(p)
    /\ UNCHANGED <<device, written>>

WriteBegin(p, m) == /\ pc[p] = "idle"
                    /\ data' = [data EXCEPT ![p] = m]
                    /\ to_copy' = [to_copy EXCEPT ![p] = min(Len(m), Size)]
                    /\ Goto(p, "wr_copy")
                    /\ UNCHANGED <<device, copied, received, written>>

\* copy_from_user, a byte at a time; after a fault it zeroes the rest.
WriteByte(p) ==
    /\ pc[p] = "wr_copy"
    /\ copied[p] < to_copy[p]
    /\ buffer' = [buffer EXCEPT ![copied[p]] = data[p][copied[p] + 1]]
    /\ copied' = [copied EXCEPT ![p] = @ + 1]
    /\ UNCHANGED <<buffer_pointer, pc, to_copy, data, received, written>>

\* The end of the copy: new_pointer becomes the length of the message, and the
\* process learns how many bytes were stored.
WriteDone(p, new_pointer) ==
    /\ pc[p] = "wr_copy"
    /\ copied[p] = to_copy[p] \/ Faults
    /\ buffer' = [i \in DOMAIN buffer |->
                      IF i \in copied[p] .. to_copy[p] - 1 THEN 0 ELSE buffer[i]]
    /\ buffer_pointer' = new_pointer
    /\ written' = [written EXCEPT ![p] = SubSeq(data[p], 1, copied[p])]
    /\ Return(p)

\* This driver counts the bytes it was asked for, copied or not.
WriteEnd(p) == WriteDone(p, to_copy[p])

driver_read(p) == ReadCopy(p) \/ \E n \in Counts : ReadBegin(p, n)
driver_write(p) == WriteByte(p) \/ WriteEnd(p) \/ \E m \in Messages : WriteBegin(p, m)

Next == \E p \in Processes : driver_read(p) \/ driver_write(p)

Spec == Init /\ [][Next]_vars

-----------------------------------------------------------------------------
(* Properties *)

\* rwtodev.c: what a process reads back is the message it has written.
ReadBack == \A p \in Processes :
                pc[p] = "rd_copy" /\ written[p] # <<>>
                => /\ to_copy[p] <= Len(written[p])
                   /\ received[p] = SubSeq(written[p], 1, copied[p])
=============================================================================
