---------------------------- MODULE MC_ChrdevMutex ----------------------------
(***************************************************************************)
(* Small instances of ChrdevMutex: a buffer of two bytes, messages that    *)
(* fill it, half fill it and overflow it.                                  *)
(***************************************************************************)
EXTENDS ChrdevMutex

CONSTANTS p1, p2

MCBytes == {0, 1, 2}
MCCounts == {1, 3}
MCMessages == {<<1, 1, 1>>, <<2>>}
=============================================================================
