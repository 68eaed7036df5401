---------------------------- MODULE MC_BuggyDevice ----------------------------
(***************************************************************************)
(* Small instance of BuggyDevice: a process that has the device, one that  *)
(* waits for it, and one that closes it in between; data of no length and  *)
(* of some.                                                                *)
(***************************************************************************)
EXTENDS BuggyDevice

CONSTANTS p1, p2, p3
=============================================================================
