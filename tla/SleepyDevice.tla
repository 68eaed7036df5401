----------------------------- MODULE SleepyDevice -----------------------------
(***************************************************************************)
(* chrdev_sleepy/read_write_sleepy.c: "Sleep on read, wake up on write."   *)
(* One flag, one wait queue and no lock: a read sleeps until the flag is   *)
(* set and clears it, a write sets it and wakes the queue.                 *)
(***************************************************************************)
EXTENDS Naturals

CONSTANTS Readers,
          Writers,
          Signals       \* BOOLEAN: a sleeping reader may be interrupted

ASSUME SleepyAssumption == Readers \cap Writers = {} /\ Signals \in BOOLEAN

VARIABLES flag, pc

sleepyVars == <<flag, pc>>

Threads == Readers \cup Writers

SleepyInit == flag = 0 /\ pc = [t \in Threads |-> "idle"]

Goto(t, point) == pc' = [pc EXCEPT ![t] = point]

ReadBegin(r) == pc[r] = "idle" /\ Goto(r, "rd_wait") /\ UNCHANGED flag

\* wait_event_interruptible(my_queue, flag != 0).
ReadWait(r) == /\ pc[r] = "rd_wait"
               /\ Goto(r, IF flag # 0 THEN "rd_clear" ELSE "rd_sleep")
               /\ UNCHANGED flag

\* A signal ends the wait; its result is ignored and the read goes on.
ReadInterrupted(r) == /\ pc[r] \in {"rd_wait", "rd_sleep"}
                      /\ Signals
                      /\ Goto(r, "rd_clear")
                      /\ UNCHANGED flag

ReadClear(r) == /\ pc[r] = "rd_clear"
                /\ flag' = 0
                /\ Goto(r, "idle")

\* An operator named X_m... is wrong on purpose: it is what a plausible slip
\* would make of X, and shows that a property notices.  No action uses it.

WriteSet(w) == /\ pc[w] = "idle"
               /\ flag' = 1
               /\ Goto(w, "wr_wake")

WriteWake_mSilent(w) == pc[w] = "wr_wake" /\ Goto(w, "idle") /\ UNCHANGED flag

\* wake_up_interruptible(&my_queue): every sleeper re-checks the flag.
WriteWake(w) ==
    /\ pc[w] = "wr_wake"
    /\ pc' = [t \in Threads |-> IF t = w THEN "idle"
                                ELSE IF pc[t] = "rd_sleep" THEN "rd_wait" ELSE pc[t]]
    /\ UNCHANGED flag

driver_read(r) == ReadWait(r) \/ ReadClear(r)

SleepyNext == \/ \E r \in Readers : ReadBegin(r) \/ driver_read(r) \/ ReadInterrupted(r)
              \/ \E w \in Writers : WriteSet(w) \/ WriteWake(w)

SleepySpec == SleepyInit /\ [][SleepyNext]_sleepyVars

\* A call that can run runs; nobody has to call, and no signal has to come.
SleepyFairSpec == /\ SleepySpec
                  /\ \A r \in Readers : WF_sleepyVars(driver_read(r))
                  /\ \A w \in Writers : WF_sleepyVars(WriteWake(w))

-----------------------------------------------------------------------------
(* Properties *)

\* Type invariant.
SleepyTypeOK == /\ flag \in {0, 1}
                /\ pc \in [Threads -> {"idle", "rd_wait", "rd_sleep", "rd_clear", "wr_wake"}]

\* A reader asleep while the flag is set has a wake-up on its way, although the
\* flag is set, tested and cleared by several processes without a lock.
WakeupPending == \A r \in Readers : pc[r] = "rd_sleep" /\ flag = 1
                                    => \E w \in Writers : pc[w] = "wr_wake"

\* What holds between any two steps of the readers and writers.
Inv == SleepyTypeOK /\ WakeupPending

\* "Sleep on read, wake up on write": a reader that sleeps while the flag is set goes
\* on, unless another read takes the flag first.  That is all a sleeper has: the read
\* that takes it may be one that came between the write and its wake-up and never
\* slept, or one that a signal sent on, and then every sleeper tests 0 and sleeps on.
SleeperGoesOrIsOvertaken ==
    \A r \in Readers : pc[r] = "rd_sleep" /\ flag = 1 ~> pc[r] = "rd_clear" \/ flag = 0
=============================================================================
