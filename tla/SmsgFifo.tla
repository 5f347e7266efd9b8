------------------------------ MODULE SmsgFifo ------------------------------
(***************************************************************************)
(* What the smsg transport promises its users (sipc.h: smsg_send returns 0 *)
(* on success): an accepted message is queued, at most N of them at a time, *)
(* and the other processor handles the accepted messages in order, each    *)
(* exactly once.                                                           *)
(***************************************************************************)
EXTENDS Naturals, Sequences

CONSTANTS Messages, N

VARIABLES
  queue,    \* accepted messages that the peer has not handled
  handled   \* the message handled last, or the initial NoMsg

CONSTANT NoMsg

Init == queue = <<>> /\ handled = NoMsg

Accept(m) ==
  /\ Len(queue) < N
  /\ queue' = Append(queue, m)
  /\ UNCHANGED handled

Handle ==
  /\ queue # <<>>
  /\ handled' = Head(queue)
  /\ queue' = Tail(queue)

Next == Handle \/ \E m \in Messages : Accept(m)

Spec == Init /\ [][Next]_<<queue, handled>>
=============================================================================
