----------------------------- MODULE MCQmiProxy -----------------------------
(* Instances of QmiProxy for TLC. *)
EXTENDS QmiProxy
=============================================================================
