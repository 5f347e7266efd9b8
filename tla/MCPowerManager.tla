--------------------------- MODULE MCPowerManager ---------------------------
(* PowerManager with the constants of the power_*.cfg files.                *)
EXTENDS PowerManager, TLC

TaskSymmetry == Permutations(Shared)
=============================================================================
