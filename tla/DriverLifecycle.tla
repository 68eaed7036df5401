---------------------------- MODULE DriverLifecycle ----------------------------
(***************************************************************************)
(* The life of a driver between insmod and rmmod: the kernel runs its init *)
(* function, in which any request may be refused, and, if that succeeded   *)
(* and nobody has the device open, its exit function.  Meanwhile processes *)
(* open the device as soon as it is there, be init finished or not.        *)
(***************************************************************************)
EXTENDS DriverTables

CONSTANTS Drivers,      \* the drivers to load
          MaxWriting    \* bound: the writes at a time to a device without a buffer

Driver(init, exit, interface, needs) ==
    [init |-> init, exit |-> exit, interface |-> interface, needs |-> needs]

chrdev == {"cdev", "device"}

\* interface: what makes the callbacks reachable; needs: what they use that
\* init prepares (what is initialised statically is not listed).
Table == [gold |-> Driver(gold_init, gold_exit, chrdev, {"lock", "queues", "ring"}),
          fixed |-> Driver(fixed_init, fixed_exit, chrdev, {"queues"}),
          buggy |-> Driver(buggy_init, buggy_exit, chrdev, {"lock", "queues"}),
          mouette |-> Driver(mouette_init, mouette_exit, chrdev, {}),
          read_write |-> Driver(read_write_init, read_write_exit, chrdev, {"length"}),
          sleepy |-> Driver(sleepy_init, sleepy_exit, chrdev, {"queues"}),
          mutex |-> Driver(mutex_init, mutex_exit, chrdev, {"lock"}),
          leaky |-> Driver(leaky_init, leaky_exit, chrdev, {"buffer"}),
          gpio |-> Driver(gpio_init, gpio_exit, chrdev, {"led"}),
          lcd |-> Driver(lcd_init, lcd_exit, chrdev, {Pins[i] : i \in 1 .. Len(Pins)}),
          eeprom |-> Driver(eeprom_init, eeprom_exit, chrdev, {"client"}),
          mcp |-> Driver(mcp_init, mcp_exit, chrdev, {"client"}),
          demo |-> Driver(demo_init, demo_exit, {}, {}),
          irq |-> Driver(irq_init, irq_exit, {"irq"}, {"led"}),
          monster |-> Driver(kernel_monster_init, kernel_monster_exit, {"proc"}, {"monster"}),
          kbdmon |-> Driver(kbdmon_init, kbdmon_exit, {"handler"}, {}),
          timing |-> Driver(timing_init, timing_exit, {"handler"}, {}),
          sequence |-> Driver(sequence_init, sequence_exit, {"handler"}, {}),
          kbdmon_chrdev |-> Driver(kbdmon_chrdev_init, kbdmon_chrdev_exit, {"misc"}, {}),
          keylogger |-> Driver(keylogger_init, keylogger_exit, {"timer"}, {"timer_fn"}),
          connection |-> Driver(connection_connect, connection_disconnect, {"open"}, {"kbd"}),
          keylogger_connection |->
              Driver(keylogger_connect, keylogger_disconnect, {"open"}, {"kbd"})]

ASSUME DriversAssumption == /\ Drivers \subseteq DOMAIN Table
                            /\ MaxWriting \in Nat

VARIABLES driver,
          phase,
          step,         \* the next step of init
          held,         \* obtained from the kernel and not given back
          ready,        \* initialised
          undo,         \* what is still to be released
          stray,        \* released without being held
          opened,       \* a process has the device open
          writing,      \* the writes that have found no buffer and will store one
          led           \* GPIO 49

files == <<opened, writing>>
vars == <<driver, phase, step, held, ready, undo, stray, files, led>>

Init == /\ driver \in Drivers
        /\ phase = "loading"
        /\ step = 1
        /\ held = {}
        /\ ready = {}
        /\ undo = <<>>
        /\ stray = {}
        /\ opened = FALSE
        /\ writing = 0
        /\ led = 0

steps == Table[driver].init
now == steps[step]

Loading == phase = "loading" /\ step <= Len(steps)
Applies == now.when \subseteq held

\* A pointer that is stored over another one, NULL included, loses what that one
\* pointed to.
Store(res, granted) == (IF res \in held THEN (held \ {res}) \cup {"lost"} ELSE held)
                       \cup (IF granted THEN {res} ELSE {})

LedAfter(res) == IF res = "led_on" THEN 1 ELSE IF res = "led_off" THEN 0 ELSE led

\* The kernel grants what the step asks for.
Granted == /\ Loading
           /\ Applies
           /\ now.kind = "use" => now.res \in held
           /\ step' = step + 1
           /\ held' = IF now.kind \in {"try", "ignored", "take"} THEN Store(now.res, TRUE)
                      ELSE IF now.kind = "give" THEN held \ {now.res} ELSE held
           /\ ready' = IF now.kind = "ready" THEN ready \cup {now.res} ELSE ready
           /\ led' = LedAfter(now.res)
           /\ UNCHANGED <<driver, phase, undo, stray, files>>

\* It refuses, and the code does not notice.
Unnoticed == /\ Loading
             /\ Applies
             /\ now.kind = "ignored"
             /\ step' = step + 1
             /\ held' = Store(now.res, FALSE)
             /\ UNCHANGED <<driver, phase, ready, undo, stray, files, led>>

Skipped == /\ Loading
           /\ ~Applies
           /\ step' = step + 1
           /\ UNCHANGED <<driver, phase, held, ready, undo, stray, files, led>>

\* It refuses, and init starts to undo: the labels at its end.
Refused == /\ Loading
           /\ Applies
           /\ now.kind \in {"try", "check"}
           /\ phase' = "undoing"
           /\ undo' = now.undo
           /\ UNCHANGED <<driver, step, held, ready, stray, files, led>>

\* Init follows a pointer to what it was refused: it never returns, and the module
\* can neither be removed nor has it undone anything.
Crash == /\ Loading
         /\ Applies
         /\ now.kind = "use"
         /\ now.res \notin held
         /\ phase' = "crashed"
         /\ UNCHANGED <<driver, step, held, ready, undo, stray, files, led>>

Loaded == /\ phase = "loading"
          /\ step > Len(steps)
          /\ phase' = "loaded"
          /\ UNCHANGED <<driver, step, held, ready, undo, stray, files, led>>

\* The entry of blocks[] for this half was never written: the block before was refused.
Unwritten(res) == res \in {"low2", "high2"} /\ "block1" \notin held

\* kfree(NULL) and class_destroy of an error pointer do nothing, neither does
\* device_destroy when the class has no such device, and a NULL block is passed over.
Harmless(res) == \/ res \in {"led_on", "led_off", "buffer", "class", "block1", "block2"}
                 \/ res = "device" /\ "class" \in held
                 \/ res \in DOMAIN BlockOf /\ BlockOf[res] \notin held

Release == LET res == Head(undo)
           IN  /\ phase \in {"undoing", "unloading"}
               /\ undo # <<>>
               /\ undo' = Tail(undo)
               /\ held' = held \ {res}
               /\ led' = LedAfter(res)
               /\ \/ /\ res \in held \/ Harmless(res)
                     /\ UNCHANGED stray
                  \/ /\ res \notin held
                     /\ ~Harmless(res) \/ Unwritten(res)
                     /\ stray' = stray \cup {res}
               /\ UNCHANGED <<driver, phase, step, ready, files>>

Gone == /\ phase \in {"undoing", "unloading"}
        /\ undo = <<>>
        /\ phase' = IF phase = "undoing" THEN "failed" ELSE "unloaded"
        /\ UNCHANGED <<driver, step, held, ready, undo, stray, files, led>>

\* The callbacks can be called.
Live == /\ phase \in {"loading", "undoing", "crashed", "loaded"}
        /\ Table[driver].interface # {}
        /\ Table[driver].interface \subseteq held

HasFile == Table[driver].interface \subseteq {"cdev", "device", "misc"}

Open == /\ Live
        /\ HasFile
        /\ opened' = TRUE
        /\ UNCHANGED <<driver, phase, step, held, ready, undo, stray, writing, led>>

Close == /\ opened
         /\ writing = 0
         /\ opened' = FALSE
         /\ UNCHANGED <<driver, phase, step, held, ready, undo, stray, writing, led>>

\* dev_write of the leak demonstration finds no buffer, because init could not
\* allocate one or has not come to it yet,
WriteTest == /\ driver = "leaky"
             /\ opened
             /\ "buffer" \notin held
             /\ writing < MaxWriting
             /\ writing' = writing + 1
             /\ UNCHANGED <<driver, phase, step, held, ready, undo, stray, opened, led>>

\* and stores what kmalloc returns, whatever has been stored meanwhile.
WriteAlloc == /\ writing > 0
              /\ writing' = writing - 1
              /\ \E granted \in BOOLEAN : held' = Store("buffer", granted)
              /\ UNCHANGED <<driver, phase, step, ready, undo, stray, opened, led>>

\* driver_write of the GPIO driver sets the LED, clears it, or finds some other
\* byte; if it got none from user memory, value is whatever was on the stack.
GpioWrite == /\ driver = "gpio"
             /\ opened
             /\ led' \in {0, 1}
             /\ UNCHANGED <<driver, phase, step, held, ready, undo, stray, files>>

\* gpio_irq_handler, as long as the interrupt is not freed.
gpio_irq_handler == /\ "irq" \in held
                    /\ led' = 1 - led
                    /\ UNCHANGED <<driver, phase, step, held, ready, undo, stray, files>>

\* A driver without .owner = THIS_MODULE in its fops.
Unload_mNoOwner == /\ phase = "loaded"
                   /\ phase' = "unloading"
                   /\ undo' = Table[driver].exit
                   /\ UNCHANGED <<driver, step, held, ready, stray, files, led>>

\* rmmod: an open file holds the module, because its fops name their owner.
Unload == /\ phase = "loaded"
          /\ ~opened
          /\ phase' = "unloading"
          /\ undo' = Table[driver].exit
          /\ UNCHANGED <<driver, step, held, ready, stray, files, led>>

Next == \/ Granted \/ Unnoticed \/ Skipped \/ Refused \/ Crash \/ Loaded
        \/ Release \/ Gone \/ Open \/ Close \/ Unload
        \/ WriteTest \/ WriteAlloc \/ GpioWrite \/ gpio_irq_handler

Spec == Init /\ [][Next]_vars

-----------------------------------------------------------------------------
(* Properties *)

Labs == {"mouette", "read_write", "sleepy", "mutex", "leaky", "gpio", "lcd", "eeprom", "mcp"}

\* What a driver is known to leave behind: the labs their device numbers (they
\* call unregister_chrdev with the wrong number), two keyboard monitors what they
\* had obtained before their input handler was refused, and the leak demonstration
\* a buffer that two writes, or a write and init, both allocated.
Leaves(d, end) == (IF d \in Labs THEN {"region"} ELSE {})
                  \cup (IF d = "leaky" THEN {"lost"} ELSE {})
                  \cup (IF d = "kbdmon_chrdev" /\ end = "failed" THEN {"misc"} ELSE {})
                  \cup (IF d = "keylogger" /\ end = "failed" THEN {"timer"} ELSE {})

\* What it is known to release without having it: what it may have been refused
\* without noticing (LKM_gpio_irq then frees the LED of LKM_gpio), for the LCD the
\* pin that was refused, for the kmalloc demonstration halves of blocks.
Strays(d) == {Table[d].init[i].res : i \in
                 {j \in 1 .. Len(Table[d].init) : Table[d].init[j].kind = "ignored"}}
             \cup (IF d = "lcd" THEN {Pins[i] : i \in 1 .. Len(Pins)} ELSE {})
             \cup (IF d = "demo" THEN {"low1", "low2", "high2"} ELSE {})

\* The drivers whose init uses what it may have been refused without noticing.
Trusting == {"eeprom", "mcp", "keylogger_connection"}

\* "When a step fails, anything that may have been initialised before must be
\* undone": where init gives up, and after rmmod, nothing is left but what Leaves
\* names, and nothing was released but what was held or Strays names, for every
\* driver, whatever was refused and whatever its callbacks did meanwhile; only the
\* drivers of Trusting crash instead.  The LED is off after rmmod, and where init
\* gives up too, unless a process has switched it on: LKM_gpio requests the pin
\* only after its device can be written to.
RequestsUndone == /\ phase \in {"failed", "unloaded"} => held \subseteq Leaves(driver, phase)
                  /\ stray \subseteq Strays(driver)
                  /\ phase = "crashed" => driver \in Trusting
                  /\ phase = "unloaded" => led = 0
                  /\ phase = "failed" => led = 0 \/ driver = "gpio"

\* The drivers that check every request.
Careful == {"gold", "fixed", "monster", "kbdmon", "timing", "sequence", "connection"}

\* What the callbacks of a loaded driver may have to do without: what it was
\* refused without noticing, then or later.
Refusable(d) ==
    LET of(kind) == {Table[d].init[i].res : i \in
                        {j \in 1 .. Len(Table[d].init) : Table[d].init[j].kind = kind}}
    IN  of("ignored") \ of("use")

\* What a driver is known to prepare only after its callbacks can be called, or to
\* release while they still can: init of all the drivers with a character device of
\* their own makes it first and the locks, queues, counters and pins behind it later.
Late(d) == IF Table[d].interface = chrdev THEN Table[d].needs ELSE {}

\* A process never has the device of a module open that is gone; a load that
\* fails after the device appeared would leave one.
FileKeepsModule == driver \in Careful /\ phase \in {"failed", "unloading", "unloaded"} => ~opened

\* When a driver is loaded its callbacks find prepared what they use, but for what
\* was refused unnoticed; and the drivers without a character device of their own,
\* the proc file, the timer and the input handlers, prepare it before the callbacks
\* can be called at all, and keep it as long as they can.
ReadyBeforeLive ==
    Live => Table[driver].needs \ (ready \cup held)
                \subseteq Refusable(driver) \cup (IF phase = "loaded" THEN {} ELSE Late(driver))
=============================================================================
