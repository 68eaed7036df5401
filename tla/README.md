# Verification of the linux-kernel-modules labs

TLA+ models of the kernel modules in this repository, model-checked with TLC
and partly proved with TLAPS. The repository is a set of teaching drivers for
the BeagleBone Black: small modules, but with real concurrency (system calls of
several processes, interrupts and input callbacks, timers, kernel threads),
real failure paths (signals, bad user addresses, refused requests) and two
documented classes of bug, lost wake-ups and locks that are kept.

Paths below are relative to `src/`; `LKM/` stands for the directory of the
modules as `PROJECT.json` spells it out for each component.

## 1. The system

| Component | State | Operations | What is hard | What makes it correct |
|---|---|---|---|---|
| `gold_device.c` | ring (`buffer`, `head`, `tail`, `size`), mutex, two wait queues, mode of each file | open, release, read, write, poll, reset ioctl | readers, writers, polls and resets interleave; test-then-sleep; `-EINTR`, `-EAGAIN`, `-EFAULT` in mid-call | FIFO, ring consistent, mutex never kept, no missed wake-up |
| `fixed_device.c` | one message, `data_size`, `blocking_mode`, mutex, one wait queue | read, write, reset, set mode | the same, and a mode that changes under sleeping readers | a read hands out one message, mutex never kept, no missed wake-up |
| `buggy_device.c` | one message, `data_size`, `blocking_mode`, mutex, one wait queue | open, release, read, write, reset, set mode | the eleven bugs its comments mark: a trylock nobody looks at, an unlock of what is not locked, a sleep with the mutex held | what still holds: see section 4 |
| `kbdmon_chrdev.c` | event ring under a spinlock, wait queue | input callback, read | callbacks of several keyboards against readers, drop-oldest overflow, a wait whose result is ignored | last events, each once, in order; no missed wake-up |
| other keyboard monitors | log and timer; modifier flags; time of the last press | input callbacks, timer | callbacks of several keyboards and a timer on unprotected data; keyboards unplugged with keys down | log printable unless callbacks cross, no flag outlives its key, times not negative |
| `chrdev_sleepy` | a flag, a wait queue, no lock | read sleeps, write wakes | unlocked test and clear | no missed wake-up |
| `chrdev_read_write`, `chrdev_mutex` | buffer, length; a mutex from open to close | open, close, read, write | shared buffer; a file inherited by fork | who has the device alone reads back what it wrote |
| `crypto_challenge.c` | worker threads with their crypto objects, control thread, timer, samples, score | start, duty cycle, sampling, scoring, `rmmod` | timer, threads and unload in any order; refused requests | score belongs to the final samples; unload ends and leaves nothing |
| all `module_init` / `module_exit` | what the kernel has granted | load, refusal at any step, unload | unwinding in the right order; the device is live during init | nothing left behind, nothing released twice, nothing reachable too early |
| `LKM_lcd.c` | eleven pins, a text buffer | write, set-up, clearing | bytes put on the pins bit by bit with sleeps in between and no lock | a write shows its text, up to the end of the line |
| `pocket_monster.c` | a monster, a delayed work | tick, `/proc` read, `rmmod` | a read during a tick, a work that schedules itself again | state that belongs to the age; nothing runs after unload |
| GPIO, GPIO interrupt, leak demo, kmalloc demo | an LED; a buffer; an array of blocks | write, interrupt, load, unload | use during load, refusals in mid-load | everything given back, LED off after `rmmod` |
| I2C EEPROM, I2C thermometer | a bus client | load, read, unload | refusals in mid-load, a client used although it was refused | everything given back, or a crash |

The drivers do not call each other. What they share is the kernel: wait queues,
mutexes, spinlocks, timers, kernel threads and the module loader. These are not
under `src/`, so each model contains what the code in `src/` relies on:
`wait_event_interruptible` queues the caller before it tests, so "test, else
sleep" is one step; `wake_up_interruptible` sends every sleeper back to its
test; `mutex_lock_interruptible` gives up only if it would have to wait;
`del_timer_sync` waits for a running handler; `cancel_delayed_work_sync` waits too,
and a handler cannot schedule itself meanwhile; `proc_remove` waits for readers;
the input core delivers the events of one keyboard one after the other, and
releases the keys that are down before it disconnects a handler; `kthread_stop` marks, wakes and
waits. The poll(2) loop around `gold_poll`, fork, insmod and rmmod are modelled
in the same way.

## 2. Modules

Each handler is cut into actions at the points where another thread can run and
matter: before it waits, before and after the lock, at every byte of a copy
loop, before the wake-up that follows the unlock. `pc[t]` is the point thread
`t` has reached. A definition is named after the C function or variable where
there is one, and `map` in `PROJECT.json` gives the lines of each.

| Module | Models | Correspondence |
|---|---|---|
| `GoldDevice` | `gold_device.c` after `gold_init` | `buffer head tail size lock ctx` are the fields of `struct gold_dev` and `file_ctx`; `Read*`, `Write*`, `Poll*`, `Reset*` are the steps of the four handlers; `Fault` is a `put_user`/`get_user` that fails in mid-loop |
| `BoundedQueue` | what the gold driver promises | a FIFO of bytes: accept, deliver once, reset |
| `FixedDevice` | `fixed_device.c` after `fixed_init` | `buffer data_size blocking_mode lock`; copies go byte by byte; `torn` is an auxiliary variable |
| `KbdmonRing` | `kbdmon_chrdev.c`: `push_event`, `kbdmon_read` | one step per spinlock section; wait and wake-up outside it |
| `KeyQueue` | what it promises | the last events, oldest first, the oldest dropped on overflow |
| `KeyLogger` | `kbdmon_keylogger.c` | the test of `logpos`, then `logbuf[logpos++] = c` as a load of its own and two stores in either order; the steps of `exfiltrate`, which also tests and loads; `typed`, `raced`, `crossed` and `overrun` are auxiliary |
| `SequenceDetector` | `kbdmon_sequence_detector.c` | the flags of `seq_buf`, read one after the other |
| `TimingMonitor` | `kbdmon_timing.c` | load of the clock, difference, store of `last_press`; `overlapped` is auxiliary |
| `KeyboardMonitors` | one of the four monitors under the input core | keyboards are plugged in and out, keys pressed, repeated and released; `held` is what is down on each |
| `BuggyDevice` | `buggy_device.c` after `buggy_init` | `my_open`, `my_release` are one step, read and write are cut where another process can come between; `closes` is auxiliary |
| `LcdDevice` | `LKM_lcd.c`: `lcd_*`, `driver_write`, the set-up of `ModuleInit`, the clearing of `ModuleExit` | one step per pin; `Latch` is the screen, outside the code; `disturbed`, `garbled`, `text` are auxiliary |
| `PocketMonster` | `pocket_monster.c` | one step per store of `monster_tick` in any order the compiler may choose, one per field of `/proc` |
| `SleepyDevice` | `read_write_sleepy.c` | `flag` and the wait queue |
| `ChrdevBuffer` | `read_write.c` with the demo `rwtodev.c` as its processes | `buffer`, `buffer_pointer`, byte-wise copies |
| `ChrdevMutex` | `read_write_mutex.c` | extends `ChrdevBuffer` with the mutex of open and close, and with fork; `inherited` is auxiliary |
| `DriverTables` | every `module_init`, `module_exit`, `connect` and `disconnect` | one table per function: the requests in their order, with the labels each failure jumps to, the initialisations among them, and the uses (`Use`) of what may have been refused |
| `DriverLifecycle` | insmod, open, close and rmmod over those tables, with the callbacks that allocate or touch the LED: `dev_write` of the leak demo, `driver_write` of the GPIO driver, `gpio_irq_handler` | each request is granted, refused and noticed, or refused unnoticed; an unnoticed refusal may crash init later (`Crash`) |
| `CryptoChallenge` | `crypto_challenge.c` | worker, control, timer, `mod_init`, `mod_exit` as five interleaved actors; `sampling_from` and `scored` are auxiliary |
| `GoldDevice_proofs`, `FixedDevice_proofs`, `BuggyDevice_proofs`, `KeyboardMonitors_proofs`, `ChrdevMutex_proofs`, `LcdDevice_proofs`, `DriverLifecycle_proofs`; `WorkAndWait_proofs` for `SleepyDevice`, `CryptoChallenge` and `PocketMonster` | | theorems, section 5 |
| `MC_*` | | constants for the runs |

Compositions: `ChrdevMutex` extends `ChrdevBuffer`; `KeyboardMonitors` extends
`KbdmonRing` and instantiates the other three monitors; `DriverLifecycle` extends
`DriverTables` and drives 22 tables through one state machine; `GoldDevice`
instantiates `BoundedQueue` and `KbdmonRing` instantiates `KeyQueue` under
refinement mappings (`Contents` and `Pending`, the bytes and events in the order
in which they come off the ring).

Operators named `X_m...` are wrong on purpose: each is what a plausible slip
would make of `X` (a dropped wake-up, an off-by-one, a kept lock). No action
uses them; `mutants` in `PROJECT.json` pairs each with a property that fails
when `X` is replaced by it.

## 3. Runs

Passing runs:

| Run | Instance | Shows |
|---|---|---|
| `gold_safety` | 2 readers, 1 writer, 1 resetter, ring of 2; signals and faults | `RingConsistent`, `LockHeldWhenCritical`, and `ImplementsQueue`: the driver is the FIFO of `BoundedQueue`, whatever the interleaving |
| `gold_wakeups` | 1 reader that also resets, 1 writer, 1 poll, ring of 2; signals | no missed wake-up for readers, writers and polls; sleepers whose condition holds are woken; calls past their wait return; a blocking read delivers |
| `fixed` | 3 threads: a reader, a reader that writes, a writer that resets and switches the mode; signals and faults | `Inv` (mutex discipline, no missed wake-up), reads of one message, progress |
| `buggy` | 3 processes, messages of no length and of some, 3 closes; signals | what the mutex still does, what frees a process that waits for itself, no missed wake-up |
| `keyboards` | 1 reader, 2 keyboards, 4 slots, a log of 3 bytes, a clock of 4; signals; each of the four monitors | `ImplementsKeyQueue`, `RingInv`, and the log, the flags and the times of the others |
| `sleepy` | 3 readers, 2 writers; signals | no missed wake-up without a lock; a reader asleep beside the flag goes on unless another read takes the flag |
| `lcd` | 2 writers and the loader, at most 2 calls at a time, 2 data pins, a buffer of 3 bytes and a line of 2 cells | a write that is not disturbed shows its text, up to the end of the line; instructions nobody meant come from overlap only |
| `monster` | 3 pairs of parameters, 18 ticks, at most 2 of them during one read | the state belongs to the age, a read shows nothing out of its time, nothing runs after the cancel |
| `mutex` | 2 processes, 2 bytes; forks, signals, faults | one open file at a time, its owner alone reads back what it wrote, a waiting open returns |
| `lifecycle` | all 22 tables, each request refused in turn, 2 writes at a time without a buffer | what a failed load and an unload leave, stray releases, crashes, what is reachable too early, open files of a module that is gone |
| `crypto` | 1 worker, 2 samples, clock of 4 ticks, counter wrapping at 3; refused requests | samples fit, score matches the final samples (of which there is one unless the control thread was held up too long), no use after free, rmmod ends and leaves nothing, the benchmark comes to its score |

One run TLC finds violated, a disagreement between the code and what the
repository says of it (quoted under `findings`):

| Run | What the code does |
|---|---|
| `gold_lost_wakeup` | `gold_write` stores some bytes, meets a bad address, returns `-EFAULT` and wakes nobody: a reader sleeps on a ring that holds data, in the driver that `readme.md` calls a gold standard |

Disagreements that have no run of their own, because a property of a passing run
states them as its exception, or because they only repeat one that has:

- `gold_read`, like `my_read`, does not test the ring again under the lock; with
  two readers, or a reset by another thread, a blocking read returns 0, and the
  comment of `my_read`, "At this point: lock held + data_size > 0", is false.
  `gold_wakeups` therefore has one reader.
- A write to `fixed_device` that meets a bad address leaves a mixture that the
  next read hands out; `ReadsOneMessage` exempts such reads by `torn`.
- `kbdmon_read` ignores the result of its wait. An interrupted read on an empty
  ring moves `tail` past `head` and old events come back: `Relapse` in
  `KeyQueue`. A second reader does the same, so `keyboards` has one.
- In `chrdev_sleepy` a write may release no sleeping reader at all: a reader that
  comes between the write and its wake-up, or that a signal sent on, clears the
  flag, and all sleepers test 0 and sleep on. `SleeperGoesOrIsOvertaken` says
  what is left of "wake up on write".
- `kbdmon_keylogger` tests `logpos` and loads it again for the index. If another
  keyboard's callback comes in between, the byte goes where the NUL of the log
  should be, or behind the array; `LogPrintable` claims the end of the log only until
  two callbacks cross (`crossed`). What a byte behind the array hits is not followed.
- The text of a write to the LCD may be one byte longer than the line.
- `read_write.c` has no lock: one of two processes reads back what it did not
  write. It counts bytes that `copy_from_user` did not copy
  (`read_write_mutex.c` does not).
- What a driver leaves behind or releases wrongly is named in `Leaves` and
  `Strays`: the character device labs call `unregister_chrdev` with a device
  number and keep their numbers; a refused `input_register_handler` leaves
  `/dev/kbdmon` registered, or the key logger's timer armed, by a module that is
  gone; the LCD driver frees the pin whose request was refused; `GPIO_irq` goes
  on without its LED and frees it, be it another module's; the kmalloc demo
  frees its half blocks a second time at exit, and reads entries of its array
  that were never written; the leak demo loses a buffer when two writes, or a
  write and init, find none.
- Every driver with a character device of its own is live before its locks, queues,
  counters, pins or buffer are prepared, if it has any: `Late` in `DriverLifecycle`.
  `read_write` sets its length to 0 then, and forgets that of a write that came
  before. `ReadyBeforeLive` says of these drivers that all is there once they are
  loaded, and of the others that it is there before anybody can call them.
- The EEPROM, the thermometer and the key logger's `kbdmon_connect` go on with a
  NULL pointer when their client or `kbd` is refused, and crash: `Trusting`.
- A load of `LKM_gpio` that fails late leaves the LED on if a process has
  switched it on meanwhile.
- `crypto_challenge` looks at the clock twice, for the benchmark and for the timer.
  A control thread held up in between may end before its first sample, and
  `compute_score` reads `samples[-1]`: the exception of `ScoreIsOfSamples`.
- Of the bugs that `buggy_device.c` marks, `BuggyDevice` confirms 1, 2, 3, 4, 7
  and 9 as behaviours. "BUG 6: returns 0 always" is not quite so: `data_size` is
  read again after the unlock, when a write may have changed it. `readme.md:33`,
  "we might miss the wake up signal", does not come from "BUG 8": the length is
  stored before the wake-up, and `WakeupPending` holds. What keeps a reader
  waiting for ever is the mutex: all processes can end in `mutex_lock`, so the
  run does not check deadlock.
- The release of Ctrl on one keyboard clears the flag of a Ctrl held on another.
- Two keyboards make `kbdmon_timing` print a negative time.
- `crypto_challenge` ignores the result of `start_worker`: what a refused
  worker had obtained is never freed, and `kthread_stop` is called on an error
  pointer.

### Bounds, and why they are enough

- Rings and buffers have 2 bytes (4 slots, 3 usable, in `keyboards`): empty, partly
  full, full and wrapped around all occur. User buffers are shorter than, as
  long as and longer than the free space.
- Two or three threads: one to sleep, one to change the state, and one to come
  between them. What more readers and writers could do to the gold driver is
  covered by the theorems.
- `crypto`: `MaxJiffies` is where the clock stops; a benchmark of two ticks with
  a sample at each, and one tick more, in which a late sample finds the array
  full. The operation counter wraps at `OPS_RANGE`. One worker stands for all:
  workers share nothing but the counter, and `rmmod` stops one after the other.
  With two, the four invariants hold as well (1.5 million states), but the
  liveness properties take minutes.
- `lifecycle`: `MaxWriting` is the number of writes at a time that have found no
  buffer; two are enough to lose one. The kmalloc demo has two blocks.
- `keyboards`: one monitor at a time, as they do not share anything; `KeysOf` are
  the keys struck under each, `MaxTime` is where the clock stops. A log of three
  bytes is full after two keys.
- `buggy`: `MaxCloses` is the number of closes; after three, every process has
  been let in beside another once.
- `lcd`: `Width` is the number of data pins (2 for 8; the loop over them is the
  same), `MaxCalls` the number of calls at a time. Two calls are enough to mix
  pins and buffer. The line has one cell less than the buffer, as in the code (16
  and 17).
- `monster`: `MaxTicks` lets hunger and energy come to their limits from all three
  pairs of parameters, `MaxPerRead` is the number of ticks that begin during a read.
- `gold_safety` uses the symmetry of its two readers; it has no temporal
  property but the refinement, which is a safety property. No run with
  fairness uses symmetry.

Deadlock is checked everywhere but in `lifecycle`, `crypto`, `lcd` and `monster`,
where the system stops (the module is unloaded, or the clock ends), and `buggy`
(see above).

### Fairness

Weak fairness for every step of a handler, thread or callback that can run: the
scheduler runs runnable threads. Strong fairness for obtaining a mutex: the
kernel hands a mutex to a waiter that has waited too long, so a thread obtains
one that is free again and again. `OpenReturns` also assumes that a process that
has the device closes it (strong fairness of `driver_close`), which the mutex
lab needs by design. In `crypto`, the handler of a timer that is due starts
before the next tick (it may run for longer), and the clock runs. No fairness for starting a call, for signals, for
faults, for keys or for rmmod: nobody is obliged to do any of these.
`SleepersWoken` is checked with valid addresses; with faults it is what
`gold_lost_wakeup` refutes.

## 4. Properties

Besides one type invariant per module:

- exclusion and its release: `LockHeldWhenCritical` (gold, fixed), `OneOpenFile`;
- data: `RingConsistent`, `ImplementsQueue`, `ReadsOneMessage`,
  `ImplementsKeyQueue`, `OwnerReadsBack`, `ScoreIsOfSamples`, `LogPrintable`,
  `AloneShowsText`, `RestState`, `ReadIsOfItsTime`;
- wake-ups as invariants ("who sleeps although he need not has a wake-up on its
  way"): `ReaderWakeupPending`, `WriterWakeupPending`, `PollWakeupPending`,
  `WakeupPending`; and as progress: `SleepersWoken`,
  `SleeperGoesOrIsOvertaken`, `CommittedCallReturns`, `OpenReturns`, `UnloadCompletes`,
  `BenchmarkEnds`;
- shared state without a lock, what it can come to and what it cannot:
  `ModifiersHeld`, `NegativeOnlyByOverlap`, `GarbledByOverlap`,
  `ReadersBoundedByCloses`, `StuckUntilOthersUnlock`;
- life cycle: `RequestsUndone`, `FileKeepsModule`, `ReadyBeforeLive`,
  `EncryptsWithMemory`, `NothingLeftBehind`, `NothingRunsOnceGone`.

Where a run checks one invariant for several (`Inv` of `FixedDevice` and
`SleepyDevice`, `RingInv`, `MutexInv`), its conjuncts are the type invariant and
the properties named above.

## 5. Proofs

Each theorem holds for every value of the constants, from the module's assumption
on them (`GoldAssumption`, `FixedAssumption`, ...) and what the last column adds.
Every invariant that a passing run checks is stated by one of them, and so is
every action property and both refinements.

| Module | Theorem | Statement | Assuming also |
|---|---|---|---|
| `GoldDevice_proofs` | `TypeCorrect` | `Spec => []TypeOK` | |
| | `RingAlwaysConsistent` | `Spec => []RingConsistent` | |
| | `MutualExclusion` | `Spec => []LockHeldWhenCritical` | |
| | `NoMissedReaderWakeup` | `Spec => []ReaderWakeupPending` | `Faults = FALSE` |
| | `NoMissedWriterWakeup` | `Spec => []WriterWakeupPending` | `Faults = FALSE` |
| | `NoMissedPollWakeup` | `Spec => []PollWakeupPending` | `Faults = FALSE` |
| | `SoleReaderServed` | `Spec => []BlockingReadDelivers` | `SoleTaker` |
| | `Refinement` | `Spec => ImplementsQueue` | |
| `FixedDevice_proofs` | `NoMissedWakeup` | `Spec => []Inv` | |
| | `NoMixture` | `Spec => []ReadsOneMessage` | |
| `BuggyDevice_proofs` | `NoMissedWakeup` | `Spec => []WakeupPending` | |
| | `OnlyOthersUnlock` | `Spec => StuckUntilOthersUnlock` | |
| | `ReadersOwedToCloses` | `Spec => []ReadersBoundedByCloses` | |
| `ChrdevMutex_proofs` | `OneFile` | `MutexSpec => []MutexInv` | |
| | `ReadsBack` | `MutexSpec => []OwnerReadsBack` | |
| `KeyboardMonitors_proofs` | `NoMissedWakeup` | `MonitorsSpec => []RingInv` | `OneReader` |
| | `Refinement` | `MonitorsSpec => ImplementsKeyQueue` | `OneReader` |
| | `LogStaysPrintable` | `MonitorsSpec => []LogPrintable` | |
| | `ModifiersAreHeld` | `MonitorsSpec => []ModifiersHeld` | |
| | `NegativeNeedsOverlap` | `MonitorsSpec => []NegativeOnlyByOverlap` | |
| `LcdDevice_proofs` | `WriteShowsText` | `Spec => []AloneShowsText` | |
| | `OnlyOverlapGarbles` | `Spec => GarbledByOverlap` | |
| `DriverLifecycle_proofs` | `NothingLeft` | `Spec => []RequestsUndone` | |
| | `NoFileWithoutModule` | `Spec => []FileKeepsModule` | |
| | `PreparedWhenLive` | `Spec => []ReadyBeforeLive` | |
| `WorkAndWait_proofs` | `NoMissedWakeup` | `SleepySpec => []Inv` | |
| | `TypeCorrect` | `Spec => []TypeOK` (crypto) | |
| | `MemoryOutlivesWorker` | `Spec => []EncryptsWithMemory` | |
| | `ScoreFinal` | `Spec => []ScoreIsOfSamples` | |
| | `UnloadLeavesNothing` | `Spec => []NothingLeftBehind` | |
| | `NothingRuns` | `MonsterSpec => []NothingRunsOnceGone` | |
| | `StateBelongsToAge` | `MonsterSpec => []RestState` | |
| | `ReadsOfItsTime` | `MonsterSpec => []ReadIsOfItsTime` | |

Gold driver. `IInv` is `TypeOK`, `LockHeldWhenCritical`, `RingConsistent` and
`CallInv`. `TypeOK` is not inductive alone: `get_user` reads `data[copied + 1]`,
so a write's `count` must be the length of its data, and a call that has not
reached its loop must have moved nothing; `CallInv` says so. Each handler has a
lemma with one step per action; two lemmas, `MoveInv` and `ReturnInv`, cover the
actions that only move a call on or end it. `RingConsistent` rests on the
arithmetic of `TakeSlot` and `PutSlot` (adding one slot to the head, removing
one at the tail, modulo the size of the ring).

The wake-up theorems add one step to `IInv`: a thread goes to sleep only on an
empty (full) ring, and the step that then adds (removes) a byte makes its thread
one that can only go on to its wake-up. `Faults = FALSE` is needed for readers
because of the behaviour of `gold_lost_wakeup`; for writers the same holds of a
read that delivers some bytes and then faults. A poll sleeps on both queues:
`KeepsPollWakeup` lists the ways a step can leave it served, and
`WakeReachesPolls` says that a wake-up finds it asleep, or marks it while it is
between its test and its sleep.

`SoleReaderServed` needs `SoleTaker`, one thread that reads and, if anybody does,
resets: `gold_read` does not test the ring again under the lock. `DeliverInv`
carries what it saw, a ring that is not empty, from the end of the wait to
the first byte it delivers. Faults and signals are allowed.

The refinement shows that `Contents`, the bytes from `tail` on, loses its head
when a byte is taken and gains one at its end when a byte is put
(`TakeIsDequeue`, `PutIsEnqueue`); every other step leaves it alone
(`Invisible`) or starts a new receive buffer (`EndIsNewCall`).

Fixed driver. `Inv` needs `CallInv` (lengths that fit the buffer and the data, the
value of a mode switch). No assumption on faults: the length is stored by the very
step that leads to the wake-up. `NoMixture` adds `DataInv`: a read has handed out
the first bytes of the buffer (`ReadsInOrder`), a write has stored the first
bytes of its message (`WritesInOrder`), and while nobody writes and the last
write was not cut short, the first `data_size` bytes are those of one message
(`Stored`). The mutex (`Exclusion`) keeps one copy from disturbing another.

Buggy driver. `WakeupPending` is inductive beside the types: `data_size` is
written before the wake-up, lock or no lock. `OnlyOthersUnlock` looks at the
steps of a state alone. `ReadersBoundedByCloses` counts: the mutex is taken from
the first open on, and by each read that passes it, so another read needs an
unlock first. A read that ends gives one and leaves one read fewer; a close gives
one beside those that are inside. The strengthening `FreeByClose` says that a
free mutex on an open device is owed to a close that has let nobody in yet;
`SameReaders` and `ReaderLeaves` are the facts about cardinality. The set of
processes may be infinite: that `InRead` is finite is part of the invariant.

Mutex lab. `MutexInv` needs `CallInv`: whoever copies, or remembers a write, has the
file. `OwnerInv` then says, as long as the file was not inherited, what
`DataInv` says of the fixed driver, for the one process that has it. An inherited
file ends that until its last holder has closed, when nobody remembers a write.

Sleep lab: `Inv` is inductive as it stands.

Keyboard monitors. All five theorems are about `MonitorsSpec`, the monitors under
the input core with keyboards that come and go. `MonitorsKeepRing` shows that it
implies the `Spec` of `KbdmonRing`, so what is proved of the ring carries over.

- Ring. `TakeInv` is added: only a signal takes a read to an empty ring.
  `OneReader` is needed: a second reader moves `tail` past `head` (see
  section 3). For the refinement, `Held` and `Slot` state the modular arithmetic
  by cases (`PendingAt`); a push is `Arrive`, dropping the oldest when no slot is
  left free (`PushIsArrive`); a take is `Take` on a ring with events, and
  `Relapse` on an empty one (`TakeIsTail`, `TakeIsRelapse`).
- Log. `LastByteFree`: until two callbacks cross, what a callback has tested still
  holds when it loads its index and when it stores, whatever the handler does in
  between (a reset only lowers `logpos`), so the last byte stays NUL and no byte
  goes behind it. That the test is stale once they cross is why the theorem is
  conditional. `Intact`: until the first race, at most one callback is
  in the log and none while the handler of the timer is, and the log is `typed`
  but for what that callback has yet to do.
- Modifiers. `Accounted`: a flag that is set is that of a key down on some
  keyboard, or of a release that has reached the callback but not the flag.
  The core's promise to release what is down before it disconnects
  (`Disconnect`) is what keeps it.
- Times. `TimeInv`: a callback that has been alone since it read the clock read
  it after the last time that was stored.

Pocket monster. `MonsterInv` describes a tick. `TickInv` says, for every set of stores that are still to do, which
tick each field belongs to; `OneMore`, that clamping after each of `n` ticks is
clamping once, is the arithmetic. `ReadsOfItsTime` follows a read through its
fields: what has been printed is of a tick between the last one before the read
and the one in progress, before or after its clamp (`ShownInv`), and the interval
only grows (`LongerRead`). A mood may be half the old one and half the new.

Crypto challenge. `CryptoInv` has four parts.

- `Types`, which includes that `final_score` is a natural number: no sum of costs and no
  quotient of the score leaves `Nat`.
- `CoreInv`: for every point that `mod_init` and `mod_exit` have reached, which
  cores may have a worker, and that a worker that runs has all its memory.
- `ExitInv`: once exit has stopped the timer, the control thread has ended, so
  nobody arms it again.
- `SampleInv`: from `start_sampling` to the first sample, the timer is due one period
  after `sampling_from` and not overdue. If the benchmark has ended without a
  sample, the first one was therefore due only after the end, which is counted from
  the earlier look at the clock, `start_jiffies`: `NoSampleWasDue`. This
  rests on the timer handler that starts before the next tick (section 3), and is
  the reason `Tick` is in the argument of a safety property. Once scored,
  nothing is armed, so the samples stay.

`ThermalCost` is a sum over all samples and cores (`SumFunction`). That the sum of
naturals is a natural is proved for every finite set (`SumIsNat`), and that its
recursion has a solution (`SumRecursion`), each by taking a smallest
counterexample (`SmallestNumber`, from the library's well-foundedness of the
subset relation). What the sum is, beyond being a natural, is not proved.

LCD driver. `IInv` is `Types`, `SendInv`, `PinsInv`, `TextInv` and `LoaderInv`.

- The bits. `Latch` chooses the byte whose bits are on the pins. That there is
  exactly one is `BitsAreByte`, proved for every number of pins by induction: the
  last bit of a byte is its remainder, and the others are those of its half
  (`BitsOfHalf`). `Power` is the recursive function `1 << k`; `PowerIs` shows that
  its recursion has a solution. `Induction` is a statement about sets of numbers
  and needs no theorem with an operator for a parameter.
- The pins. While nothing disturbs the call that sends, the select pin and the
  pins below the next one are those of its byte (`PinsInv`), so the byte that is
  latched is the one it sends (`LatchedAlone`), an instruction only if it
  was meant as one: `OnlyOverlapGarbles`.
- The text. `TextInv`: while an undisturbed write is at its `i`-th byte, the
  screen has the `i` bytes before it and no other, since the write has cleared
  it (`Shows`), as far as the line has cells for them. (What an instruction nobody meant does to the screen is open;
  `AloneShowsText` says nothing of a screen that has taken one.)
- The loader. Writes may come before `ModuleInit` has ended, but not after rmmod
  has begun.

Life cycle. The argument has two halves, of the 22 tables and of the machine that
goes through them. `Proper` says of one table what a step may assume of the steps
before it:

- at a step that may fail, the list of its label releases all that the earlier
  steps may have obtained, but what `Leaves` names, each resource once, and
  nothing that they have not, but what `Strays` names (`Undoes`); the same of the exit
  function at the end;
- what a step obtains no step before it mentions, and what it gives back none has
  obtained for certain;
- once the device of `gold`, `fixed`, the leak demonstration or a keyboard is there,
  no later step can fail or crash (`Doors`);
- only the tables of `Trusting` use what they may have been refused.

One lemma per driver shows that its tables are proper (`AllProper`). `IInv` is then
about the steps that init has come past (`Taken`), and knows the tables by `Proper`
and four facts about single ones (`DemoSteps`, `Exits`, `Interfaces`,
`NeedsPrepared`): what is held comes from them (`HeldInv`), what they have prepared is ready
(`ReadyInv`), what is still to be undone is what is still held, up to `Leaves` and
`Strays` (`UndoInv`), until at the end nothing else is left (`LeftInv`). An open
file means that init has come past its device (`FilesInv`), so that the load of a
careful driver cannot fail any more. `LedInv` follows the LED from
the callbacks to the exit functions that switch it off, that of `GPIO_irq` after
the interrupt is freed. `DemoInv` is for the kmalloc demonstration, whose halves
of a block come and go together. The list of the resources still to be released is
the part that is not obvious from the code: it is not what was obtained, but
what the label says, and `ListTail` keeps the two together as it is worked off. For `ReadyBeforeLive`, `NeedsPrepared`
finds in each table a step for everything its callbacks need, which init has come
past when the driver is loaded (`LoadedHasAll`); of the drivers without a character
device of their own, `PreparesFirst` shows that this step comes before the one that
makes their callbacks reachable.

Only model-checked:

- all liveness, `SleepersWoken`, `CommittedCallReturns`,
  `SleeperGoesOrIsOvertaken`, `OpenReturns`, `UnloadCompletes` and `BenchmarkEnds`: fairness and `ENABLED` are
  out of the prover's reach.

What a recursive definition computes for every input is only proved where it is a
recursive function over a finite set of numbers or subsets (`Power`, the sum
of the score), from the smallest counterexample; the bounds of the runs are not
theorems, but no theorem depends on them.

## 6. Not modelled, and the plan

Not modelled:

- what only prints: log messages, `stats_read`, the listing of memory zones, the
  timing demo, key names, the plain keyboard monitor's callback, `hello.c`;
- the bytes of messages in `buggy_device.c` and the leak demo, which nothing
  protects, so that nothing can be said of them but their length;
- what goes over the I2C bus: the EEPROM's write and read-back during init, the
  thermometer's registers and the conversion of its readings. Both drivers'
  requests, their unwinding and their unload are in `DriverLifecycle`;
- the user programs, except as the processes of the models; `stress_test.c`, whose
  readers and writers are those of `GoldDevice` and `FixedDevice`; the build
  script;
- reordering of unlocked accesses by compiler and processor, except where a model
  says so (`PocketMonster`, `KeyLogger`): `data_size`, `flag` and `size` are
  read as whole words.

Next, in this order:

1. `MonitorsSpec` with the key logger shown to implement a log of keys while
   nothing races, as the ring implements its queue.
2. The transfers of the EEPROM's init against a read of a device that is live
   already; the thermometer's conversion against a reference.
