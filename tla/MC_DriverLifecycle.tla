-------------------------- MODULE MC_DriverLifecycle --------------------------
(***************************************************************************)
(* The drivers that the run of DriverLifecycle loads: all of them.         *)
(***************************************************************************)
EXTENDS DriverLifecycle

AllDrivers == DOMAIN Table
=============================================================================
