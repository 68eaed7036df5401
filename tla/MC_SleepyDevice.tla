---------------------------- MODULE MC_SleepyDevice ----------------------------
(***************************************************************************)
(* A small instance of SleepyDevice: three readers, so that one may be     *)
(* passed over by two others, and two writers.                             *)
(***************************************************************************)
EXTENDS SleepyDevice

CONSTANTS r1, r2, r3, w1, w2
=============================================================================
