----------------------------- MODULE TimingMonitor -----------------------------
(***************************************************************************)
(* Keyboard_monitor/kbdmon_timing.c: each key press is timed against the   *)
(* last one, on whatever keyboard that was.                                *)
(***************************************************************************)
EXTENDS Integers

CONSTANTS Keyboards,
          MaxTime       \* bound: when the clock stops

VARIABLES time,         \* the kernel clock
          last_press,
          tim_pc, now, delta,   \* of the callbacks
          overlapped    \* (not in the code) the callbacks during which another
                        \* keyboard's ran

timingVars == <<time, last_press, tim_pc, now, delta, overlapped>>

TimingInit == /\ time = 1
              /\ last_press = 0
              /\ tim_pc = [k \in Keyboards |-> "idle"]
              /\ now = [k \in Keyboards |-> 0]
              /\ delta = [k \in Keyboards |-> 0]
              /\ overlapped = {}

TimingTick == /\ time < MaxTime
              /\ time' = time + 1
              /\ UNCHANGED <<last_press, tim_pc, now, delta, overlapped>>

Timing == {k \in Keyboards : tim_pc[k] # "idle"}

\* now = ktime_get(), for a press only.
TimePress(k) == /\ tim_pc[k] = "idle"
                /\ now' = [now EXCEPT ![k] = time]
                /\ tim_pc' = [tim_pc EXCEPT ![k] = "delta"]
                /\ overlapped' = IF Timing = {} THEN {} ELSE overlapped \cup Timing \cup {k}
                /\ UNCHANGED <<time, last_press, delta>>

\* An operator named X_m... is wrong on purpose: it is what a plausible slip
\* would make of X, and shows that a property notices.  No action uses it.

\* ktime_sub with its arguments exchanged.
TimeDelta_mExchanged(k) ==
    /\ tim_pc[k] = "delta"
    /\ delta' = [delta EXCEPT ![k] = IF last_press # 0 THEN last_press - now[k] ELSE 0]
    /\ tim_pc' = [tim_pc EXCEPT ![k] = "store"]
    /\ UNCHANGED <<time, last_press, now, overlapped>>

\* The time since the last press is printed, unless this is the first one.
TimeDelta(k) ==
    /\ tim_pc[k] = "delta"
    /\ delta' = [delta EXCEPT ![k] = IF last_press # 0 THEN now[k] - last_press ELSE 0]
    /\ tim_pc' = [tim_pc EXCEPT ![k] = "store"]
    /\ UNCHANGED <<time, last_press, now, overlapped>>

TimeStore(k) == /\ tim_pc[k] = "store"
                /\ last_press' = now[k]
                /\ tim_pc' = [tim_pc EXCEPT ![k] = "idle"]
                /\ now' = [now EXCEPT ![k] = 0]
                /\ delta' = [delta EXCEPT ![k] = 0]
                /\ UNCHANGED <<time, overlapped>>

TimingStep == TimingTick \/ \E k \in Keyboards : TimeDelta(k) \/ TimeStore(k)

-----------------------------------------------------------------------------
\* A negative time is printed only for a press during which another keyboard's
\* press was handled: the one that came first may find the other's time stored.
NegativeOnlyByOverlap == \A k \in Keyboards : delta[k] < 0 => k \in overlapped
=============================================================================
