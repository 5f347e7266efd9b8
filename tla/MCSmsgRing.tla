----------------------------- MODULE MCSmsgRing -----------------------------
(* SmsgRing with the constants of ring_fifo.cfg.                            *)
EXTENDS SmsgRing
=============================================================================
