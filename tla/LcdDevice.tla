------------------------------ MODULE LcdDevice ------------------------------
(***************************************************************************)
(* GPIO_LCD/LKM_lcd.c once its eleven pins are outputs: ModuleInit sets the *)
(* screen up, processes write texts to /dev/LKM_lcd, ModuleExit clears the *)
(* screen.  Every byte is put on the data pins one after the other and     *)
(* latched by a pulse on the enable pin, with msleep in between and no     *)
(* lock: calls that overlap share the pins and lcd_buffer.  The screen is  *)
(* the device at the other end of the pins.                                *)
(***************************************************************************)
EXTENDS Integers, Sequences, FiniteSets

CONSTANTS Writers,      \* processes that write
          Loader,       \* runs ModuleInit and ModuleExit
          Width,        \* the number of data pins
          BufferSize,   \* sizeof(lcd_buffer)
          Cells,        \* the characters of a line of the screen; what is written
                        \*   beyond them is out of sight
          Texts,        \* the texts written
          MaxCalls,     \* bound: how many calls are in progress at a time
          FunctionSet, DisplayOn, Clear, Seven    \* 0x30, 0xF, 0x1, '7'

Actors == Writers \cup {Loader}

\* 1 << k
Power[k \in 0 .. Width] == IF k = 0 THEN 1 ELSE 2 * Power[k - 1]
Bytes == 0 .. Power[Width] - 1

ASSUME LcdAssumption ==
    /\ Loader \notin Writers
    /\ Width \in Nat \ {0}
    /\ BufferSize \in Nat \ {0}
    /\ Cells \in Nat
    /\ Texts \subseteq Seq(Bytes)
    /\ MaxCalls \in Nat
    /\ {FunctionSet, DisplayOn, Clear, Seven} \subseteq Bytes

VARIABLES rs, enable, D,    \* the pins
          lcd_buffer,
          phase,            \* of the module: "init", "loaded", "exit" or "gone"
          pc,
          to_copy, i,       \* the locals of driver_write
          cmd, bit,         \* the byte being sent, with its mode, and the next pin
          text,             \* the bytes that a write got from user memory
          shown,            \* on the screen: its characters,
          garbled,          \*   and whether it took an instruction nobody meant
          disturbed         \* (not in the code) calls overlap, or did so in the
                            \* last stretch of calls without a pause

pins == <<rs, enable, D>>
call == <<to_copy, i, text>>
screen == <<shown, garbled>>
vars == <<pins, lcd_buffer, phase, pc, call, cmd, bit, screen, disturbed>>

Bit(byte, k) == (byte \div Power[k]) % 2
min(a, b) == IF a < b THEN a ELSE b

Instruction(byte) == [rs |-> 0, byte |-> byte]
Data(byte) == [rs |-> 1, byte |-> byte]

Startup == << Instruction(FunctionSet), Instruction(DisplayOn),
              Instruction(Clear), Data(Seven) >>

Init == /\ rs = 0 /\ enable = 0 /\ D = [k \in 0 .. Width - 1 |-> 0]
        /\ lcd_buffer = [k \in 0 .. BufferSize - 1 |-> 0]
        /\ phase = "init"
        /\ pc = [t \in Actors |-> IF t = Loader THEN "next" ELSE "idle"]
        /\ to_copy = [t \in Actors |-> 0]
        /\ i = [t \in Actors |-> 0]
        /\ cmd = [t \in Actors |-> Instruction(0)]
        /\ bit = [t \in Actors |-> 0]
        /\ text = [t \in Actors |-> <<>>]
        /\ shown = <<>>
        /\ garbled = FALSE
        /\ disturbed = FALSE

Busy == {t \in Actors : pc[t] # "idle"}

Goto(t, point) == pc' = [pc EXCEPT ![t] = point]

\* An operator named X_m... is wrong on purpose: it is what a plausible slip
\* would make of X, and shows that a property notices.  No action uses it.

-----------------------------------------------------------------------------
(* lcd_instruction and lcd_data: the same but for the register select pin.  *)

Send(t, c) == /\ cmd' = [cmd EXCEPT ![t] = c]
              /\ Goto(t, "select")

\* lcd_data does not raise the pin.
Select_mLow(t) == /\ pc[t] = "select"
                  /\ rs' = 0
                  /\ Goto(t, "bits")
                  /\ UNCHANGED <<enable, D, lcd_buffer, phase, call, cmd, bit, screen, disturbed>>

Select(t) == /\ pc[t] = "select"
             /\ rs' = cmd[t].rs
             /\ Goto(t, "bits")
             /\ UNCHANGED <<enable, D, lcd_buffer, phase, call, cmd, bit, screen, disturbed>>

\* lcd_send_byte: one data pin after the other.
SendBit(t) ==
    /\ pc[t] = "bits"
    /\ D' = [D EXCEPT ![bit[t]] = Bit(cmd[t].byte, bit[t])]
    /\ bit' = [bit EXCEPT ![t] = @ + 1]
    /\ Goto(t, IF bit'[t] < Width THEN "bits" ELSE "high")
    /\ UNCHANGED <<rs, enable, lcd_buffer, phase, call, cmd, screen, disturbed>>

\* lcd_enable raises the pin, sleeps, and lowers it.
EnableHigh(t) == /\ pc[t] = "high"
                 /\ enable' = 1
                 /\ Goto(t, "low")
                 /\ UNCHANGED <<rs, D, lcd_buffer, phase, call, cmd, bit, screen, disturbed>>

\* The screen takes what is on the pins when the enable pin falls.
Latch == LET byte == CHOOSE b \in Bytes : \A k \in 0 .. Width - 1 : Bit(b, k) = D[k]
         IN  /\ shown' = IF rs = 1 THEN SubSeq(Append(shown, byte), 1,
                                               min(Len(shown) + 1, Cells))
                         ELSE IF byte = Clear THEN <<>> ELSE shown
             /\ garbled' = (garbled \/ (rs = 0 /\ byte \notin {FunctionSet, DisplayOn, Clear}))

EnableLow(t) == /\ pc[t] = "low"
                /\ enable' = 0
                /\ IF enable = 1 THEN Latch ELSE UNCHANGED screen
                /\ Goto(t, "next")
                /\ cmd' = [cmd EXCEPT ![t] = Instruction(0)]
                /\ bit' = [bit EXCEPT ![t] = 0]
                /\ UNCHANGED <<rs, D, lcd_buffer, phase, call, disturbed>>

lcd_send(t) == Select(t) \/ SendBit(t) \/ EnableHigh(t) \/ EnableLow(t)

-----------------------------------------------------------------------------
(* driver_write *)

\* The first n bytes of the text m can be read; copy_from_user zeroes the rest.
WriteBegin(t, m, n) ==
    LET len == min(Len(m), BufferSize)
    IN  /\ pc[t] = "idle"
        /\ phase \in {"init", "loaded"}
        /\ Cardinality(Busy) < MaxCalls
        /\ n <= len
        /\ to_copy' = [to_copy EXCEPT ![t] = len]
        /\ lcd_buffer' = [k \in DOMAIN lcd_buffer |->
                             IF k < n THEN m[k + 1] ELSE IF k < len THEN 0 ELSE lcd_buffer[k]]
        /\ text' = [text EXCEPT ![t] = SubSeq(m, 1, n)]
        /\ i' = [i EXCEPT ![t] = 0]
        /\ disturbed' = (Busy # {})
        /\ Send(t, Instruction(Clear))
        /\ UNCHANGED <<pins, phase, bit, screen>>

\* The loop starts at 1.
WriteNext_mSkipsFirst(t) ==
    /\ pc[t] = "next"
    /\ \/ /\ i[t] < to_copy[t] - 1
          /\ Send(t, Data(lcd_buffer[i[t] + 1]))
          /\ i' = [i EXCEPT ![t] = @ + 1]
       \/ /\ i[t] >= to_copy[t] - 1
          /\ Goto(t, "return")
          /\ UNCHANGED <<i, cmd>>
    /\ UNCHANGED <<pins, lcd_buffer, phase, to_copy, text, bit, screen, disturbed>>

\* The loop reads lcd_buffer as it is by then, bad bytes included.
WriteNext(t) ==
    /\ pc[t] = "next"
    /\ \/ /\ i[t] < to_copy[t]
          /\ Send(t, Data(lcd_buffer[i[t]]))
          /\ i' = [i EXCEPT ![t] = @ + 1]
       \/ /\ i[t] >= to_copy[t]
          /\ Goto(t, "return")
          /\ UNCHANGED <<i, cmd>>
    /\ UNCHANGED <<pins, lcd_buffer, phase, to_copy, text, bit, screen, disturbed>>

\* to_copy - not_copied.
WriteReturn(t) == /\ pc[t] = "return"
                  /\ Goto(t, "idle")
                  /\ to_copy' = [to_copy EXCEPT ![t] = 0]
                  /\ text' = [text EXCEPT ![t] = <<>>]
                  /\ i' = [i EXCEPT ![t] = 0]
                  /\ UNCHANGED <<pins, lcd_buffer, phase, cmd, bit, screen, disturbed>>

driver_write(t) == lcd_send(t) \/ WriteNext(t) \/ WriteReturn(t)

-----------------------------------------------------------------------------
(* ModuleInit and ModuleExit *)

ModuleInit ==
    /\ phase = "init"
    /\ pc[Loader] = "next"
    /\ \/ /\ i[Loader] < Len(Startup)
          /\ Send(Loader, Startup[i[Loader] + 1])
          /\ i' = [i EXCEPT ![Loader] = @ + 1]
          /\ UNCHANGED phase
       \/ /\ i[Loader] = Len(Startup)
          /\ phase' = "loaded"
          /\ Goto(Loader, "idle")
          /\ UNCHANGED <<i, cmd>>
    /\ UNCHANGED <<pins, lcd_buffer, to_copy, text, bit, screen, disturbed>>

\* rmmod succeeds once no process has the device open.
ExitBegin == /\ phase = "loaded"
             /\ Busy = {}
             /\ phase' = "exit"
             /\ disturbed' = FALSE
             /\ Send(Loader, Instruction(Clear))
             /\ UNCHANGED <<pins, lcd_buffer, call, bit, screen>>

\* The pins go low one after the other; none of them is a pulse.
ExitPins == /\ phase = "exit"
            /\ pc[Loader] = "next"
            /\ rs' = 0 /\ enable' = 0 /\ D' = [k \in DOMAIN D |-> 0]
            /\ phase' = "gone"
            /\ Goto(Loader, "idle")
            /\ UNCHANGED <<lcd_buffer, call, cmd, bit, screen, disturbed>>

Next == \/ \E t \in Writers : \/ driver_write(t)
                              \/ \E m \in Texts : \E n \in 0 .. Len(m) : WriteBegin(t, m, n)
        \/ lcd_send(Loader) \/ ModuleInit \/ ExitBegin \/ ExitPins

Spec == Init /\ [][Next]_vars

-----------------------------------------------------------------------------
(* Properties *)

\* A write that overlaps with no other call ends with its text on the screen, from
\* the first cell on, and as many cells as were asked for (with bytes that could not
\* be read shown as 0), up to the end of the line: the buffer has one byte more than
\* the line has characters.  Whatever the writes before it did to each other is
\* repaired, unless they made the screen take an instruction nobody meant.
AloneShowsText ==
    \A t \in Writers : pc[t] = "return" /\ ~disturbed /\ ~garbled =>
        /\ Len(shown) = min(to_copy[t], Cells)
        /\ \A k \in 1 .. min(Len(text[t]), Cells) : shown[k] = text[t][k]

\* Only calls that overlap can do that: no byte of a text is ever latched as an
\* instruction, and no instruction is ever latched half changed, while one call
\* has the pins for itself.  The first call after a load, or one that follows
\* others, finds the pins in any state.
GarbledByOverlap == [][garbled' /\ ~garbled => disturbed]_vars
=============================================================================
