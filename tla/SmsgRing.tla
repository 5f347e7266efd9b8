------------------------------ MODULE SmsgRing ------------------------------
(***************************************************************************)
(* One direction of the smsg transport (sipc/smsg.c): the threads of one   *)
(* processor that call smsg_send (and smsg_senddie), the ring of messages  *)
(* in shared memory with its two free-running pointers, the doorbell, and  *)
(* the irq handler of the other processor that drains the ring.            *)
(*                                                                         *)
(* The pointers are u32: they count modulo W = 2^32 and the slot is the    *)
(* pointer modulo the ring size, a power of two.                           *)
(***************************************************************************)
EXTENDS Integers, Sequences, FiniteSets

CONSTANTS
  SendThreads,     \* threads that call smsg_send
  DieSenders,  \* threads that call smsg_senddie
  Size,        \* ipc->txbuf_size, 128 messages in the code
  W,           \* 2^32
  MaxSends     \* bound: calls of smsg_send and smsg_senddie

NoOne == "none"   \* not a thread

ASSUME RingAssumption ==
  /\ Size \in Nat \ {0}
  /\ W \in Nat /\ W > Size
  /\ MaxSends \in Nat
  /\ SendThreads \cap DieSenders = {}
  /\ NoOne \notin SendThreads \union DieSenders

VARIABLES
  wrptr, rdptr,  \* *txbuf_wrptr, *txbuf_rdptr
  ring,          \* the slots at txbuf_addr
  txpinlock,     \* holder of ipc->txpinlock, or NoOne
  pc, msg,       \* per sending thread: control, and the message it sends
  irq,           \* doorbell rung and not yet taken by the peer
  rxPc, rxMsg,   \* sipc_process_all_msg of the peer: control, msg_recv
  nsent,         \* calls started
  accepted,      \* history: messages stored, oldest first, not yet handled
  handled        \* history: the message handled last

ringVars == <<wrptr, rdptr, ring>>
txVars == <<txpinlock, pc, msg, nsent>>
rxVars == <<rxPc, rxMsg>>
allRingVars == <<ringVars, txVars, irq, rxVars, accepted, handled>>

NoMsg == 0
Threads == SendThreads \union DieSenders
Messages == 1..MaxSends
Slots == 0..(Size - 1)
Ptr == 0..(W - 1)

\* u32 arithmetic: p + 1, and wr - rd.
Inc(p) == IF p = W - 1 THEN 0 ELSE p + 1
Used(wr, rd) == IF wr >= rd THEN wr - rd ELSE wr - rd + W

RingTypeOK ==
  /\ wrptr \in Ptr /\ rdptr \in Ptr
  /\ ring \in [Slots -> Messages \union {NoMsg}]
  /\ txpinlock \in SendThreads \union {NoOne}
  /\ pc \in [Threads -> {"idle", "lock", "check", "write", "bump", "trigger"}]
  /\ msg \in [Threads -> Messages \union {NoMsg}]
  /\ irq \in BOOLEAN
  /\ rxPc \in {"idle", "test", "read", "bump"}
  /\ rxMsg \in Messages \union {NoMsg}
  /\ nsent \in 0..MaxSends
  /\ accepted \in Seq(Messages)
  /\ handled \in Messages \union {NoMsg}

\* smsg_ipc_smem_init clears the ring.
RingInit ==
  /\ wrptr = 0 /\ rdptr = 0
  /\ ring = [i \in Slots |-> NoMsg]
  /\ txpinlock = NoOne
  /\ pc = [t \in Threads |-> "idle"] /\ msg = [t \in Threads |-> NoMsg]
  /\ irq = FALSE
  /\ rxPc = "idle" /\ rxMsg = NoMsg
  /\ nsent = 0 /\ accepted = <<>> /\ handled = NoMsg

-----------------------------------------------------------------------------
(* smsg_send                                                                *)

Goto(t, l) == pc' = [pc EXCEPT ![t] = l]
rxSide == <<rxVars, handled>>

\* A call with a new message; smsg_senddie goes straight to the test.
Call(t) ==
  /\ pc[t] = "idle" /\ nsent < MaxSends
  /\ nsent' = nsent + 1
  /\ msg' = [msg EXCEPT ![t] = nsent + 1]
  /\ Goto(t, IF t \in DieSenders THEN "check" ELSE "lock")
  /\ UNCHANGED <<ringVars, txpinlock, irq, accepted, rxSide>>

Lock(t) ==
  /\ pc[t] = "lock" /\ txpinlock = NoOne
  /\ txpinlock' = t
  /\ Goto(t, "check")
  /\ UNCHANGED <<ringVars, msg, nsent, irq, accepted, rxSide>>

Unlock(t) == txpinlock' = IF txpinlock = t THEN NoOne ELSE txpinlock

CheckOffByOne(t) ==
  /\ pc[t] = "check"
  /\ IF Used(wrptr, rdptr) > Size
     THEN Goto(t, "trigger") /\ Unlock(t)
     ELSE Goto(t, "write") /\ UNCHANGED txpinlock
  /\ UNCHANGED <<ringVars, msg, nsent, irq, accepted, rxSide>>

\* A full ring: -EBUSY, but the doorbell is rung all the same.
Check(t) ==
  /\ pc[t] = "check"
  /\ IF Used(wrptr, rdptr) >= Size
     THEN Goto(t, "trigger") /\ Unlock(t)
     ELSE Goto(t, "write") /\ UNCHANGED txpinlock
  /\ UNCHANGED <<ringVars, msg, nsent, irq, accepted, rxSide>>

Write(t) ==
  /\ pc[t] = "write"
  /\ ring' = [ring EXCEPT ![wrptr % Size] = msg[t]]
  /\ Goto(t, "bump")
  /\ UNCHANGED <<wrptr, rdptr, txpinlock, msg, nsent, irq, accepted, rxSide>>

Bump(t) ==
  /\ pc[t] = "bump"
  /\ wrptr' = Inc(wrptr)
  /\ accepted' = Append(accepted, msg[t])
  /\ Unlock(t)
  /\ Goto(t, "trigger")
  /\ UNCHANGED <<rdptr, ring, msg, nsent, irq, rxSide>>

TriggerOnFirst(t) ==
  /\ pc[t] = "trigger"
  /\ irq' = (irq \/ Used(wrptr, rdptr) = 1)
  /\ Goto(t, "idle")
  /\ UNCHANGED <<ringVars, txpinlock, msg, nsent, accepted, rxSide>>

\* txirq_trigger, after the lock is released.
Trigger(t) ==
  /\ pc[t] = "trigger"
  /\ irq' = TRUE
  /\ Goto(t, "idle")
  /\ UNCHANGED <<ringVars, txpinlock, msg, nsent, accepted, rxSide>>

SmsgSend(t) == Lock(t) \/ Check(t) \/ Write(t) \/ Bump(t) \/ Trigger(t)

-----------------------------------------------------------------------------
(* smsg_irq_handler and sipc_process_all_msg on the other processor.        *)

txSide == <<wrptr, ring, txVars>>

RxIrq ==
  /\ rxPc = "idle" /\ irq
  /\ irq' = FALSE
  /\ rxPc' = "test"
  /\ UNCHANGED <<rdptr, rxMsg, accepted, handled, txSide>>

RxTest ==
  /\ rxPc = "test"
  /\ rxPc' = IF wrptr # rdptr THEN "read" ELSE "idle"
  /\ UNCHANGED <<rdptr, rxMsg, irq, accepted, handled, txSide>>

\* The message is copied out of the ring and given to smsg_msg_process.
RxRead ==
  /\ rxPc = "read"
  /\ rxMsg' = ring[rdptr % Size]
  /\ rxPc' = "bump"
  /\ UNCHANGED <<rdptr, irq, accepted, handled, txSide>>

RxBumpToEnd ==
  /\ rxPc = "bump"
  /\ rdptr' = wrptr
  /\ handled' = rxMsg
  /\ accepted' = Tail(accepted)
  /\ rxPc' = "test"
  /\ UNCHANGED <<rxMsg, irq, txSide>>

\* The slot may be reused from here on: the message leaves the queue.
RxBump ==
  /\ rxPc = "bump"
  /\ rdptr' = Inc(rdptr)
  /\ handled' = rxMsg
  /\ accepted' = Tail(accepted)
  /\ rxPc' = "test"
  /\ UNCHANGED <<rxMsg, irq, txSide>>

Rx == RxIrq \/ RxTest \/ RxRead \/ RxBump

RingNext == Rx \/ \E t \in Threads : Call(t) \/ SmsgSend(t)

\* A thread inside smsg_send runs on and an irq is serviced.
RingFairness == WF_allRingVars(Rx) /\ \A t \in Threads : WF_allRingVars(SmsgSend(t))

RingSpec == RingInit /\ [][RingNext]_allRingVars
RingFairSpec == RingSpec /\ RingFairness

-----------------------------------------------------------------------------
(* Properties                                                               *)

\* The ring never holds more messages than it has slots, across every wrap of
\* the pointers: the occupancy test and the write are one critical section.
NoOverflow == Used(wrptr, rdptr) <= Size

\* Every pointer stays a u32, the spinlock has one holder, and the ring is never
\* overfilled.
RingSafe == RingTypeOK /\ NoOverflow

\* The content of the ring between the pointers.
Content == [i \in 1..Used(wrptr, rdptr) |-> ring[((rdptr + i - 1) % W) % Size]]

\* The ring implements the bounded queue its users rely on.
Fifo == INSTANCE SmsgFifo WITH N <- Size, queue <- Content
FifoSpec == Fifo!Spec

\* Every accepted message is handled: the doorbell is rung after the write
\* pointer moved and taken before the ring is drained, so none is left behind.
AcceptedIsHandled ==
  \A m \in Messages :
    (\E i \in DOMAIN accepted : accepted[i] = m) ~> (handled = m)
=============================================================================
