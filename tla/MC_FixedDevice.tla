---------------------------- MODULE MC_FixedDevice ----------------------------
(***************************************************************************)
(* Small instances of FixedDevice: a buffer of two bytes, messages that    *)
(* fill it, half fill it and overflow it, and whose bytes tell which       *)
(* message they come from.                                                 *)
(***************************************************************************)
EXTENDS FixedDevice

CONSTANTS r1, r2, w1

MCBytes == {0, 1, 2}

MCCounts == {1, 3}

\* One that fills the buffer, one that does not fit, a short one.
MCMessages == {<<1, 1>>, <<2, 2, 2>>, <<2>>}
=============================================================================
