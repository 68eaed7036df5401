--------------------------- MODULE SequenceDetector ---------------------------
(***************************************************************************)
(* Keyboard_monitor/kbdmon_sequence_detector.c: the callbacks of all       *)
(* keyboards keep one pair of flags, and report Ctrl + Alt + K.            *)
(***************************************************************************)
EXTENDS Integers

CONSTANTS Keyboards,
          LeftCtrl, LeftAlt, K          \* KEY_LEFTCTRL, KEY_LEFTALT, KEY_K

VARIABLES ctrl_down, alt_down,  \* seq_buf
          seq_pc, seq_event     \* of the callbacks

detectorVars == <<ctrl_down, alt_down, seq_pc, seq_event>>

NoKey == [code |-> "none", value |-> 0]

DetectorInit == /\ ctrl_down = 0
                /\ alt_down = 0
                /\ seq_pc = [k \in Keyboards |-> "idle"]
                /\ seq_event = [k \in Keyboards |-> NoKey]

SeqEvent(k, e) == /\ seq_pc[k] = "idle"
                  /\ seq_event' = [seq_event EXCEPT ![k] = e]
                  /\ seq_pc' = [seq_pc EXCEPT ![k] = "flags"]
                  /\ UNCHANGED <<ctrl_down, alt_down>>

SeqEnd(k) == /\ seq_pc' = [seq_pc EXCEPT ![k] = "idle"]
             /\ seq_event' = [seq_event EXCEPT ![k] = NoKey]

\* An operator named X_m... is wrong on purpose: it is what a plausible slip
\* would make of X, and shows that a property notices.  No action uses it.

\* Only a press is looked at.
SeqFlags_mOnlyPress(k) ==
    LET e == seq_event[k]
    IN  /\ seq_pc[k] = "flags"
        /\ ctrl_down' = IF e.code = LeftCtrl /\ e.value = 1 THEN e.value ELSE ctrl_down
        /\ alt_down' = IF e.code = LeftAlt /\ e.value = 1 THEN e.value ELSE alt_down
        /\ seq_pc' = [seq_pc EXCEPT ![k] = "ctrl"]
        /\ UNCHANGED seq_event

\* A press (1), a release (0) and a repetition (2) all set their flag.
SeqFlags(k) ==
    LET e == seq_event[k]
    IN  /\ seq_pc[k] = "flags"
        /\ ctrl_down' = IF e.code = LeftCtrl THEN e.value ELSE ctrl_down
        /\ alt_down' = IF e.code = LeftAlt THEN e.value ELSE alt_down
        /\ seq_pc' = [seq_pc EXCEPT ![k] = "ctrl"]
        /\ UNCHANGED seq_event

\* The flags are read one after the other, and another keyboard may set them.
SeqCtrl(k) == /\ seq_pc[k] = "ctrl"
              /\ \/ /\ ctrl_down # 0
                    /\ seq_pc' = [seq_pc EXCEPT ![k] = "alt"]
                    /\ UNCHANGED seq_event
                 \/ ctrl_down = 0 /\ SeqEnd(k)
              /\ UNCHANGED <<ctrl_down, alt_down>>

SeqAlt(k) == /\ seq_pc[k] = "alt"
             /\ \/ /\ alt_down # 0
                   /\ seq_event[k].code = K
                   /\ seq_event[k].value = 1
                   /\ seq_pc' = [seq_pc EXCEPT ![k] = "report"]
                   /\ UNCHANGED seq_event
                \/ /\ ~(alt_down # 0 /\ seq_event[k].code = K /\ seq_event[k].value = 1)
                   /\ SeqEnd(k)
             /\ UNCHANGED <<ctrl_down, alt_down>>

\* "SECRET HOTKEY DETECTED"
SeqReport(k) == /\ seq_pc[k] = "report"
                /\ SeqEnd(k)
                /\ UNCHANGED <<ctrl_down, alt_down>>

DetectorStep == \E k \in Keyboards : SeqFlags(k) \/ SeqCtrl(k) \/ SeqAlt(k) \/ SeqReport(k)
=============================================================================
