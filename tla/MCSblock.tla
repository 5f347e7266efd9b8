------------------------------ MODULE MCSblock ------------------------------
(* Sblock with the constants of sblock_pool.cfg.                            *)
EXTENDS Sblock
=============================================================================
