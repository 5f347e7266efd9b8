------------------------------ MODULE BytePipe ------------------------------
(***************************************************************************)
(* What one direction of an sbuf promises to the users of sbuf_write and   *)
(* sbuf_read (include/sipc.h): a pipe of at most N bytes, from which each  *)
(* read takes the oldest bytes, in order and without gaps.  A restart of   *)
(* the peer may flush the pipe.                                            *)
(***************************************************************************)
EXTENDS Naturals, Sequences

CONSTANT N       \* capacity in bytes
VARIABLES
  pipe,          \* bytes written and neither read nor flushed, oldest first
  got            \* the bytes a read has taken and not yet handed over

Init == pipe = <<>> /\ got = <<>>

Put ==
  /\ Len(pipe') > Len(pipe) /\ Len(pipe') <= N
  /\ SubSeq(pipe', 1, Len(pipe)) = pipe
  /\ UNCHANGED got

Get ==
  /\ got = <<>>
  /\ \E k \in 1..Len(pipe) :
       /\ got' = SubSeq(pipe, 1, k)
       /\ pipe' = SubSeq(pipe, k + 1, Len(pipe))

HandOver == got' = <<>> /\ UNCHANGED pipe

Flush ==
  /\ pipe' = <<>>
  /\ UNCHANGED got

Next == Put \/ Get \/ HandOver \/ Flush

Spec == Init /\ [][Next]_<<pipe, got>>
=============================================================================
