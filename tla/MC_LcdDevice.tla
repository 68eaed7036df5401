----------------------------- MODULE MC_LcdDevice -----------------------------
(***************************************************************************)
(* Small instance of LcdDevice: two data pins carry the instructions 1 and *)
(* 3, and the characters 0 and 2.                                          *)
(***************************************************************************)
EXTENDS LcdDevice

CONSTANTS w1, w2, loader

\* One that is too long for the buffer and the line, one that fits.
MCTexts == {<<2, 0, 2, 0>>, <<0>>}
=============================================================================
