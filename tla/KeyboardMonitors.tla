--------------------------- MODULE KeyboardMonitors ---------------------------
(***************************************************************************)
(* The keyboard monitors of Keyboard_monitor/ under the input core, which  *)
(* delivers the events of each keyboard, one after the other, to the       *)
(* monitor that is loaded; the callbacks of different keyboards run at the *)
(* same time.  When a keyboard is unplugged, the core delivers the         *)
(* releases of the keys held on it before it disconnects the monitor.      *)
(***************************************************************************)
EXTENDS KbdmonRing, FiniteSets

CONSTANTS KeysOf,               \* bound: the keys struck under each monitor
          LOG_SIZE, NUL,        \* of the key logger
          LeftCtrl, LeftAlt, K, \* of the sequence detector
          MaxTime               \* of the timing monitor

Monitors == {"chrdev", "keylogger", "sequence", "timing"}

ASSUME MonitorsAssumption ==
    /\ DOMAIN KeysOf = Monitors
    /\ \A m \in Monitors : NUL \notin KeysOf[m]
    /\ Events = [code : KeysOf["chrdev"], value : {0, 1, 2}]
    /\ LOG_SIZE \in Nat \ {0}
    /\ MaxTime \in Nat
    /\ LeftCtrl # LeftAlt

VARIABLES loaded,       \* the monitor
          plugged,      \* of each keyboard: "out", "in" or "leaving"
          held,         \* the keys down on it
          logbuf, logpos, overrun, log_pc, log_key, log_at, exfil, exfil_at,
          typed, raced, crossed,
          ctrl_down, alt_down, seq_pc, seq_event,
          time, last_press, tim_pc, now, delta, overlapped

Logger == INSTANCE KeyLogger
Detector == INSTANCE SequenceDetector
Timer == INSTANCE TimingMonitor

core == <<loaded, plugged, held>>
logger == <<logbuf, logpos, overrun, log_pc, log_key, log_at, exfil, exfil_at,
            typed, raced, crossed>>
detector == <<ctrl_down, alt_down, seq_pc, seq_event>>
timing == <<time, last_press, tim_pc, now, delta, overlapped>>
monitorsVars == <<core, vars, logger, detector, timing>>

MonitorsInit == /\ loaded \in Monitors
                /\ plugged = [k \in Keyboards |-> "out"]
                /\ held = [k \in Keyboards |-> {}]
                /\ Init
                /\ Logger!LoggerInit
                /\ Detector!DetectorInit
                /\ Timer!TimingInit

-----------------------------------------------------------------------------
\* kbdmon_event of the monitor that is loaded.  (What the key logger does once it
\* has stored past its log is not followed.)
Ring(A) == loaded = "chrdev" /\ A /\ UNCHANGED <<logger, detector, timing>>
Log(A) == loaded = "keylogger" /\ ~overrun /\ A /\ UNCHANGED <<vars, detector, timing>>
Detect(A) == loaded = "sequence" /\ A /\ UNCHANGED <<vars, logger, timing>>
Time(A) == loaded = "timing" /\ A /\ UNCHANGED <<vars, logger, detector>>

kbdmon_event(k, e) ==
    \/ Ring(push_event(k, e))
    \/ Log(IF e.value = 1 THEN Logger!LogPress(k, e.code) \/ Logger!LogFull(k)
                          ELSE UNCHANGED logger)
    \/ Detect(Detector!SeqEvent(k, e))
    \/ Time(IF e.value = 1 THEN Timer!TimePress(k) ELSE UNCHANGED timing)

\* The core delivers the next event once the callback for the last has returned.
Returned(k) == pc[k] = "idle" /\ log_pc[k] = "idle" /\ seq_pc[k] = "idle" /\ tim_pc[k] = "idle"

InputEvent(k, key, val) ==
    /\ plugged[k] = "in" \/ (plugged[k] = "leaving" /\ val = 0)
    /\ Returned(k)
    /\ key \in held[k] <=> val # 1
    /\ held' = [held EXCEPT ![k] = IF val = 0 THEN @ \ {key} ELSE @ \cup {key}]
    /\ kbdmon_event(k, [code |-> key, value |-> val])
    /\ UNCHANGED <<loaded, plugged>>

Plug(k) == /\ plugged[k] = "out"
           /\ plugged' = [plugged EXCEPT ![k] = "in"]
           /\ UNCHANGED <<loaded, held, vars, logger, detector, timing>>

Unplug(k) == /\ plugged[k] = "in"
             /\ plugged' = [plugged EXCEPT ![k] = "leaving"]
             /\ UNCHANGED <<loaded, held, vars, logger, detector, timing>>

Disconnect(k) == /\ plugged[k] = "leaving"
                 /\ held[k] = {}
                 /\ Returned(k)
                 /\ plugged' = [plugged EXCEPT ![k] = "out"]
                 /\ UNCHANGED <<loaded, held, vars, logger, detector, timing>>

\* What goes on inside the monitor: its readers, callbacks and timer.
MonitorStep == /\ UNCHANGED core
               /\ \/ Ring(\E k \in Keyboards : push_wake(k))
                  \/ Ring(\E r \in Readers : \/ ReadBegin(r) \/ kbdmon_read(r)
                                             \/ ReadInterrupted(r))
                  \/ Log(Logger!LoggerStep)
                  \/ overrun /\ UNCHANGED monitorsVars
                  \/ Detect(Detector!DetectorStep)
                  \/ Time(Timer!TimingStep)

MonitorsNext == \/ MonitorStep
                \/ \E k \in Keyboards : \/ Plug(k) \/ Unplug(k) \/ Disconnect(k)
                                        \/ \E key \in KeysOf[loaded], val \in {0, 1, 2} :
                                              InputEvent(k, key, val)

MonitorsSpec == MonitorsInit /\ [][MonitorsNext]_monitorsVars

-----------------------------------------------------------------------------
(* Properties *)

\* The key logger's: see KeyLogger.
LogPrintable == Logger!LogPrintable

\* The timing monitor's: see TimingMonitor.
NegativeOnlyByOverlap == Timer!NegativeOnlyByOverlap

\* A modifier whose flag is set is held on some keyboard, or its release is just
\* being handled there: whatever the keyboards do to the shared flags, also when
\* one is unplugged with the key down, none stays set.  (The converse fails: the
\* release on one keyboard clears the flag of a key held on another.)
ModifiersHeld ==
    LET known(flag, key) == flag # 0 =>
            \E k \in Keyboards : \/ key \in held[k]
                                 \/ seq_event[k] = [code |-> key, value |-> 0]
    IN  known(ctrl_down, LeftCtrl) /\ known(alt_down, LeftAlt)
=============================================================================
