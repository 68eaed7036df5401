------------------------------ MODULE KeyLogger ------------------------------
(***************************************************************************)
(* Keyboard_monitor/kbdmon_keylogger.c: the callback of each keyboard adds *)
(* the keys that are pressed to one log, a timer prints the log and starts *)
(* it again.  Nothing protects logbuf and logpos: the test of logpos and   *)
(* its use as an index are two loads, and the two stores of                *)
(* "logbuf[logpos++] = c" may come in either order.                        *)
(***************************************************************************)
EXTENDS Integers, Sequences

CONSTANTS Keyboards,
          LOG_SIZE,
          NUL           \* the byte that ends a string

VARIABLES logbuf, logpos,
          overrun,      \* (not in the code) a byte was stored past the end of logbuf;
                        \* what it has hit, and what comes of it, is not followed
          log_pc,       \* of the callbacks
          log_key,      \* the character a callback is to store,
          log_at,       \*   and the logpos it has loaded
          exfil,        \* the timer: "off", "armed", or the point of its handler
          exfil_at,     \* the logpos the handler has loaded
          typed,        \* (not in the code) the keys pressed since the last print;
                        \* none once raced
          raced,        \* (not in the code) since then two of the callbacks and
                        \* the handler were in the log at the same time
          crossed       \* (not in the code) two callbacks have ever been

log == <<logbuf, logpos, overrun>>
callback == <<log_pc, log_key, log_at>>
handler == <<exfil, exfil_at>>
ghosts == <<typed, raced, crossed>>
loggerVars == <<log, callback, handler, ghosts>>

LoggerInit == /\ logbuf = [i \in 0 .. LOG_SIZE - 1 |-> NUL]
              /\ logpos = 0
              /\ overrun = FALSE
              /\ log_pc = [k \in Keyboards |-> "idle"]
              /\ log_key = [k \in Keyboards |-> NUL]
              /\ log_at = [k \in Keyboards |-> 0]
              /\ exfil = "armed"
              /\ exfil_at = 0
              /\ typed = <<>>
              /\ raced = FALSE
              /\ crossed = FALSE

Handling == exfil \in {"load", "terminate", "print", "reset"}
Logging == {k \in Keyboards : log_pc[k] # "idle"}

\* logbuf[i] = c.
Put(i, c) == IF i < LOG_SIZE THEN logbuf' = [logbuf EXCEPT ![i] = c] /\ UNCHANGED overrun
                             ELSE overrun' = TRUE /\ UNCHANGED logbuf

\* An operator named X_m... is wrong on purpose: it is what a plausible slip
\* would make of X, and shows that a property notices.  No action uses it.

-----------------------------------------------------------------------------
(* kbdmon_event; a release or a repeated key changes nothing. *)

LogPress_mNoRoomKept(k, c) ==
    /\ log_pc[k] = "idle"
    /\ logpos < LOG_SIZE
    /\ log_pc' = [log_pc EXCEPT ![k] = "load"]
    /\ log_key' = [log_key EXCEPT ![k] = c]
    /\ raced' = (raced \/ Handling \/ Logging # {})
    /\ crossed' = (crossed \/ Logging # {})
    /\ typed' = IF raced' THEN <<>> ELSE Append(typed, c)
    /\ UNCHANGED <<log, log_at, handler>>

\* The test keeps the last byte of the log free for the NUL, unless another
\* callback comes between it and the load.
LogPress(k, c) ==
    /\ log_pc[k] = "idle"
    /\ logpos < LOG_SIZE - 1
    /\ log_pc' = [log_pc EXCEPT ![k] = "load"]
    /\ log_key' = [log_key EXCEPT ![k] = c]
    /\ raced' = (raced \/ Handling \/ Logging # {})
    /\ crossed' = (crossed \/ Logging # {})
    /\ typed' = IF raced' THEN <<>> ELSE Append(typed, c)
    /\ UNCHANGED <<log, log_at, handler>>

LogFull(k) == /\ log_pc[k] = "idle"
              /\ logpos >= LOG_SIZE - 1
              /\ UNCHANGED loggerVars

LogLoad(k) == /\ log_pc[k] = "load"
              /\ log_at' = [log_at EXCEPT ![k] = logpos]
              /\ log_pc' = [log_pc EXCEPT ![k] = "both"]
              /\ UNCHANGED <<log, log_key, handler, ghosts>>

\* The end of the callback, with its locals.
LogEnd(k) == /\ log_pc' = [log_pc EXCEPT ![k] = "idle"]
             /\ log_key' = [log_key EXCEPT ![k] = NUL]
             /\ log_at' = [log_at EXCEPT ![k] = 0]

\* logbuf[logpos] = c, before or after logpos is stored.
LogStore(k) ==
    /\ log_pc[k] \in {"both", "store"}
    /\ Put(log_at[k], log_key[k])
    /\ \/ /\ log_pc[k] = "both"
          /\ log_pc' = [log_pc EXCEPT ![k] = "bump"]
          /\ UNCHANGED <<log_key, log_at>>
       \/ log_pc[k] = "store" /\ LogEnd(k)
    /\ UNCHANGED <<logpos, handler, ghosts>>

LogBump(k) ==
    /\ log_pc[k] \in {"both", "bump"}
    /\ logpos' = log_at[k] + 1
    /\ \/ /\ log_pc[k] = "both"
          /\ log_pc' = [log_pc EXCEPT ![k] = "store"]
          /\ UNCHANGED <<log_key, log_at>>
       \/ log_pc[k] = "bump" /\ LogEnd(k)
    /\ UNCHANGED <<logbuf, overrun, handler, ghosts>>

-----------------------------------------------------------------------------
(* exfiltrate, ten seconds after the last time: at any time. *)

ExfilBegin == /\ exfil = "armed"
              /\ \/ /\ logpos > 0
                    /\ exfil' = "load"
                    /\ raced' = (raced \/ Logging # {})
                    /\ typed' = IF raced' THEN <<>> ELSE typed
                 \/ /\ logpos = 0
                    /\ exfil' = "rearm"
                    /\ UNCHANGED <<raced, typed>>
              /\ UNCHANGED <<log, callback, exfil_at, crossed>>

ExfilLoad == /\ exfil = "load"
             /\ exfil_at' = logpos
             /\ exfil' = "terminate"
             /\ UNCHANGED <<log, callback, ghosts>>

ExfilTerminate == /\ exfil = "terminate"
                  /\ Put(exfil_at, NUL)
                  /\ exfil' = "print"
                  /\ exfil_at' = 0
                  /\ UNCHANGED <<logpos, callback, ghosts>>

ExfilPrint == /\ exfil = "print"
              /\ exfil' = "reset"
              /\ UNCHANGED <<log, callback, exfil_at, ghosts>>

\* A reset with nobody else in the log ends what races have left.
ExfilReset == /\ exfil = "reset"
              /\ logpos' = 0
              /\ exfil' = "rearm"
              /\ typed' = <<>>
              /\ raced' = (Logging # {})
              /\ UNCHANGED <<logbuf, overrun, callback, exfil_at, crossed>>

ExfilRearm == /\ exfil = "rearm"
              /\ exfil' = "armed"
              /\ UNCHANGED <<log, callback, exfil_at, ghosts>>

exfiltrate == \/ ExfilBegin \/ ExfilLoad \/ ExfilTerminate \/ ExfilPrint
              \/ ExfilReset \/ ExfilRearm

\* exit_mod: del_timer_sync, which waits for the handler.  The callbacks are
\* unregistered after it.
DelTimer == /\ exfil = "armed"
            /\ exfil' = "off"
            /\ UNCHANGED <<log, callback, exfil_at, ghosts>>

LoggerStep == \/ \E k \in Keyboards : LogLoad(k) \/ LogStore(k) \/ LogBump(k)
              \/ exfiltrate
              \/ DelTimer

-----------------------------------------------------------------------------
\* Only callbacks that run into each other can spoil the end of the log: as long as
\* none has come between another's test and its stores, the last byte stays NUL and
\* nothing is stored behind it, whatever the handler does between the loads and
\* stores of a callback, and a callback between those of the handler.  (When they
\* do, the last byte is overwritten, or a byte behind it: the test is stale.)  And
\* what is printed, when no race has spoilt it, is the keys pressed since the last
\* print, all of them and once.
LogPrintable ==
    /\ ~crossed => /\ ~overrun
                   /\ logpos \in 0 .. LOG_SIZE - 1
                   /\ logbuf[LOG_SIZE - 1] = NUL
    /\ exfil = "print" /\ ~raced =>
          /\ \A i \in 1 .. Len(typed) : logbuf[i - 1] = typed[i]
          /\ logbuf[Len(typed)] = NUL
=============================================================================
