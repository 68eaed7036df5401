--------------------------- MODULE MC_PocketMonster ---------------------------
(***************************************************************************)
(* Small instance of PocketMonster: the default parameters, some that are  *)
(* near the limits, and some that are out of range.                        *)
(***************************************************************************)
EXTENDS PocketMonster

MCParameters == {<<20, 90>>, <<95, 23>>, <<-15, 120>>}
=============================================================================
