------------------------------- MODULE MCSbuf -------------------------------
(* Sbuf with the constants of the sbuf_*.cfg files.                          *)
EXTENDS Sbuf
=============================================================================
