------------------------------- MODULE MCMhiPm -------------------------------
(* MhiPm with the constants of the mhi_*.cfg files.                         *)
EXTENDS MhiPm
=============================================================================
