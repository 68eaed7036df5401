-------------------------- MODULE MC_KeyboardMonitors --------------------------
(***************************************************************************)
(* Small instance of KeyboardMonitors: a ring of four slots holds three    *)
(* events, so that a fourth one drops the oldest and the indices wrap      *)
(* around; a log of three bytes holds two keys.                            *)
(***************************************************************************)
EXTENDS KeyboardMonitors

CONSTANTS r1, k1, k2

MCKeysOf == [m \in Monitors |-> IF m = "chrdev" THEN {"a"}
                                ELSE IF m = "keylogger" THEN {"a", "b"}
                                ELSE IF m = "sequence" THEN {LeftCtrl, LeftAlt, K}
                                ELSE {"a"}]

MCEvents == [code : {"a"}, value : {0, 1, 2}]
=============================================================================
