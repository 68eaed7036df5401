---------------------------- MODULE MC_GoldDevice ----------------------------
(***************************************************************************)
(* Small instances of GoldDevice: a ring of two or three bytes is enough   *)
(* for it to be empty, full and wrapped around, and user buffers longer    *)
(* than the free space make partial reads and writes happen.               *)
(***************************************************************************)
EXTENDS GoldDevice, TLC

CONSTANTS r1, r2, w1, w2, p1, x1

MCBytes == {0, 1, 2}

\* Reads of one byte and of more than the ring holds; and of none.
MCCounts == {1, 3}
MCShortCounts == {0, 1}

\* A write that fits, and one that may be cut short by a full ring.
MCMessages == {<<1>>, <<1, 2>>}
MCLong == {<<1, 2>>}

MCPollEvents == {{"in"}, {"out"}, {"in", "out"}}

MCSingleEvents == {{"in"}, {"out"}}

ReaderSymmetry == Permutations({r1, r2})
=============================================================================
