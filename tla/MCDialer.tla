------------------------------ MODULE MCDialer ------------------------------
(* Dialer with the constants of the dial_*.cfg files.                        *)
EXTENDS Dialer
=============================================================================
