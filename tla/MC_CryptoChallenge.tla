-------------------------- MODULE MC_CryptoChallenge --------------------------
(***************************************************************************)
(* Small instances of CryptoChallenge: a benchmark of two ticks with a     *)
(* sample at each, temperatures below and above the limit.                 *)
(***************************************************************************)
EXTENDS CryptoChallenge

MCTemperatures == {1, 3}

=============================================================================
