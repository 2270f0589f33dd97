-------------------------- MODULE MCRelayLifecycle --------------------------
(***************************************************************************)
(* Instances of RelayLifecycle for TLC.                                    *)
(***************************************************************************)
EXTENDS RelayLifecycle

CONSTANTS s1, s2, tick, flush
=============================================================================
