---------------------------- MODULE MCSmsgChannel ----------------------------
(* SmsgChannel with the constants of the chan_*.cfg files.                   *)
EXTENDS SmsgChannel
=============================================================================
