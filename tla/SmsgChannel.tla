---------------------------- MODULE SmsgChannel ----------------------------
(***************************************************************************)
(* Life cycle of one smsg channel of one ipc (sipc/smsg.c): the interrupt  *)
(* handler that files incoming messages, the service thread that opens the *)
(* channel and then receives from it, the thread that closes it, and the   *)
(* threads that send on it.                                                *)
(*                                                                         *)
(* The steps of the four kinds of thread interleave at the granularity of  *)
(* one access to the shared fields of struct smsg_ipc: channels[], busy[]  *)
(* and states[] of the channel's index.  A struct smsg_channel is a number *)
(* in Obj; NULL is 0.  `live' holds the objects that kzalloc returned and  *)
(* kfree has not taken back, so "uses ch" means "needs ch \in live".       *)
(*                                                                         *)
(* Every channel of this driver has one receiving thread (sbuf_thread,     *)
(* sblock_thread, conn_thread), which is also the one that opens it, so    *)
(* ch->rxlock is never contended; all callers pass timeout -1 to open and  *)
(* receive, and kernel threads take no signals, so a wait ends only when   *)
(* its condition holds.                                                    *)
(***************************************************************************)
EXTENDS Integers, Sequences, FiniteSets

CONSTANTS
  Senders,     \* threads that call smsg_send on the open channel
  CacheNR,     \* SMSG_CACHE_NR, the capacity of ch->caches
  MaxOpens,    \* bound: calls of smsg_ch_open
  MaxMsgs,     \* bound: messages the peer puts on the channel
  EarlyPeer,   \* may smsg_ch_open start while the irq handles this channel?
  CloseInOpen, \* may smsg_ch_close start while smsg_ch_open is running?
  SendInClose  \* may smsg_send and smsg_ch_close overlap?

ASSUME ChannelAssumption ==
  /\ IsFiniteSet(Senders)
  /\ CacheNR \in Nat \ {0}
  /\ MaxOpens \in Nat
  /\ MaxMsgs \in Nat
  /\ {EarlyPeer, CloseInOpen, SendInClose} \subseteq BOOLEAN

VARIABLES
  channels,  \* ipc->channels[ch_index]
  states,    \* ipc->states[ch_index]
  busy,      \* ipc->busy[ch_index], an atomic_t
  live,      \* the struct smsg_channel objects that are allocated
  caches,    \* ch->caches between ch->rdptr and ch->wrptr, per object
  rxring,    \* messages of the peer for this channel, not yet processed
  irqPc, irqCh,                    \* smsg_irq_handler: control and local ch
  svcPc, svcCh, svcMsg, inOpen,    \* service thread; svcCh is smsg_ch_open's ch
  recvCh,                          \* smsg_recv's ch
  clsPc, clsCh,                    \* smsg_ch_close and kthread_stop
  sndPc, sndCh,                    \* smsg_send, per sender
  opens,     \* objects allocated so far
  peer,      \* is the peer's end of the channel open?
  nmsg,      \* messages the peer has sent so far
  openSent,  \* has this side put an OPEN on the wire?
  openGot,   \* OPENs of the peer that were recorded or cached
  openDone   \* smsg_ch_open calls that returned 0

chanVars == <<channels, states, busy, live, caches>>
irqVars  == <<irqPc, irqCh>>
svcVars  == <<svcPc, svcCh, svcMsg, inOpen, recvCh>>
clsVars  == <<clsPc, clsCh>>
sndVars  == <<sndPc, sndCh>>
peerVars == <<rxring, peer, nmsg>>
histVars == <<opens, openSent, openGot, openDone>>
vars == <<chanVars, irqVars, svcVars, clsVars, sndVars, peerVars, histVars>>

NULL == 0
Obj  == 1..MaxOpens
Msg  == {"OPEN", "CLOSE", "DATA", "BAD"}   \* BAD: type >= SMSG_TYPE_NR
ChanState == {"UNUSED", "CLIENT_OPENED", "HOST_OPENED", "OPENED", "FREE"}

IrqPc == {"idle", "load", "nochan", "setstate", "cache", "exit"}
RecvPc == {"r_load", "r_wait", "r_check", "r_read", "r_exit"}
OpenPc == {"publish", "send", "check", "host", "done", "put",
           "f_state", "f_null", "f_put", "f_spin"}
SvcPc == {"none", "r_enter", "run", "ack", "ack_load", "ack_use", "exit"} \union RecvPc \union OpenPc
ClsPc == {"idle", "c_send", "c_mark", "c_wake", "c_spin", "c_test",
          "c_spin2", "c_unused", "stop"}

TypeOK ==
  /\ channels \in Obj \union {NULL}
  /\ states \in ChanState
  /\ busy \in Int
  /\ live \subseteq Obj
  /\ caches \in [Obj -> Seq(Msg)]
  /\ \A o \in Obj : Len(caches[o]) <= CacheNR
  /\ rxring \in Seq(Msg)
  /\ irqPc \in IrqPc /\ irqCh \in Obj \union {NULL}
  /\ svcPc \in SvcPc /\ svcCh \in Obj \union {NULL}
  /\ svcMsg \in Msg \union {"NONE", "EIO", "ENODEV"}
  /\ inOpen \in BOOLEAN
  /\ recvCh \in Obj \union {NULL}
  /\ clsPc \in ClsPc /\ clsCh \in Obj \union {NULL}
  /\ sndPc \in [Senders -> {"idle", "load", "use"}]
  /\ sndCh \in [Senders -> Obj \union {NULL}]
  /\ opens \in 0..MaxOpens
  /\ peer \in BOOLEAN
  /\ nmsg \in 0..MaxMsgs
  /\ openSent \in BOOLEAN
  /\ openGot \in Nat
  /\ openDone \in Nat

Init ==
  /\ channels = NULL /\ states = "UNUSED" /\ busy = 0 /\ live = {}
  /\ caches = [o \in Obj |-> <<>>]
  /\ rxring = <<>>
  /\ irqPc = "idle" /\ irqCh = NULL
  /\ svcPc = "none" /\ svcCh = NULL /\ svcMsg = "NONE" /\ inOpen = FALSE
  /\ recvCh = NULL
  /\ clsPc = "idle" /\ clsCh = NULL
  /\ sndPc = [s \in Senders |-> "idle"] /\ sndCh = [s \in Senders |-> NULL]
  /\ opens = 0 /\ peer = FALSE /\ nmsg = 0
  /\ openSent = FALSE /\ openGot = 0 /\ openDone = 0

-----------------------------------------------------------------------------
(* The peer (external): it opens its end, sends data once both ends have    *)
(* sent OPEN, and closes its end.                                           *)

PeerPut(m) ==
  /\ nmsg < MaxMsgs
  /\ rxring' = Append(rxring, m)
  /\ nmsg' = nmsg + 1
  /\ UNCHANGED <<chanVars, irqVars, svcVars, clsVars, sndVars, histVars>>

PeerOpen  == ~peer /\ peer' = TRUE /\ PeerPut("OPEN")
PeerData  == peer /\ openSent /\ UNCHANGED peer /\ PeerPut("DATA")
PeerBad   == UNCHANGED peer /\ PeerPut("BAD")
PeerClose == peer /\ peer' = FALSE /\ PeerPut("CLOSE")

-----------------------------------------------------------------------------
(* smsg_msg_process, called from the irq handler for the oldest message;    *)
(* the read pointer of the ring moves on when it returns.                   *)

IrqBegin ==
  /\ irqPc = "idle" /\ rxring # <<>>
  /\ busy' = busy + 1
  /\ irqPc' = "load"
  /\ UNCHANGED <<channels, states, live, caches, irqCh, svcVars, clsVars,
                 sndVars, peerVars, histVars>>

IrqInvalid ==
  /\ irqPc = "load" /\ Head(rxring) = "BAD"
  /\ irqPc' = "exit"
  /\ UNCHANGED <<chanVars, irqCh, svcVars, clsVars, sndVars, peerVars, histVars>>

IrqLoad ==
  /\ irqPc = "load" /\ Head(rxring) # "BAD"
  /\ irqCh' = channels
  /\ irqPc' = IF channels = NULL THEN "nochan" ELSE "cache"
  /\ UNCHANGED <<chanVars, svcVars, clsVars, sndVars, peerVars, histVars>>

\* No channel: an OPEN is remembered in states[], anything else is dropped.
IrqNoChannel ==
  /\ irqPc = "nochan"
  /\ irqPc' = IF states = "UNUSED" /\ Head(rxring) = "OPEN"
              THEN "setstate" ELSE "exit"
  /\ UNCHANGED <<chanVars, irqCh, svcVars, clsVars, sndVars, peerVars, histVars>>

IrqSetState ==
  /\ irqPc = "setstate"
  /\ states' = "CLIENT_OPENED"
  /\ openGot' = openGot + 1
  /\ irqPc' = "exit"
  /\ UNCHANGED <<channels, busy, live, caches, irqCh, svcVars, clsVars,
                 sndVars, peerVars, opens, openSent, openDone>>

\* A full cache drops the message; the waiting reader is woken either way.
IrqCache ==
  /\ irqPc = "cache"
  /\ IF Len(caches[irqCh]) >= CacheNR
     THEN UNCHANGED <<caches, openGot>>
     ELSE /\ caches' = [caches EXCEPT ![irqCh] = Append(@, Head(rxring))]
          /\ openGot' = IF Head(rxring) = "OPEN" THEN openGot + 1 ELSE openGot
  /\ irqPc' = "exit"
  /\ UNCHANGED <<channels, states, busy, live, irqCh, svcVars, clsVars,
                 sndVars, peerVars, opens, openSent, openDone>>

IrqEnd ==
  /\ irqPc = "exit"
  /\ busy' = busy - 1
  /\ irqPc' = "idle"
  /\ rxring' = Tail(rxring)
  /\ UNCHANGED <<channels, states, live, caches, irqCh, svcVars, clsVars,
                 sndVars, peer, nmsg, histVars>>

Irq == IrqBegin \/ IrqInvalid \/ IrqLoad \/ IrqNoChannel \/ IrqSetState
       \/ IrqCache \/ IrqEnd

-----------------------------------------------------------------------------
(* The service thread: smsg_ch_open, then a loop of smsg_recv until         *)
(* kthread_should_stop().                                                   *)

Closing == clsPc \notin {"idle", "stop"}

notSvc == <<clsVars, sndVars, irqVars, peerVars>>

\* kzalloc fails: the thread returns -ENOMEM.
OpenNoMem ==
  /\ svcPc = "none" /\ clsPc = "idle" /\ opens < MaxOpens
  /\ opens' = opens + 1
  /\ svcPc' = "exit"
  /\ UNCHANGED <<chanVars, svcCh, svcMsg, inOpen, recvCh, openSent, openGot,
                 openDone, notSvc>>

\* kzalloc and atomic_set(&busy, 1): the count the irq may hold is lost.
OpenBegin ==
  /\ svcPc = "none" /\ clsPc = "idle" /\ opens < MaxOpens
  /\ EarlyPeer \/ irqPc = "idle"
  /\ opens' = opens + 1
  /\ svcCh' = opens + 1
  /\ live' = live \union {opens + 1}
  /\ busy' = 1
  /\ inOpen' = TRUE
  /\ svcPc' = "publish"
  /\ UNCHANGED <<channels, states, caches, svcMsg, recvCh, openSent, openGot,
                 openDone, notSvc>>

OpenPublish ==
  /\ svcPc = "publish"
  /\ channels' = svcCh
  /\ svcPc' = "send"
  /\ UNCHANGED <<states, busy, live, caches, svcCh, svcMsg, inOpen, recvCh,
                 histVars, notSvc>>

\* smsg_send of the OPEN message; it fails when the link does not come up or
\* the transmit ring is full.
OpenSend ==
  /\ svcPc = "send"
  /\ \/ svcPc' = "check" /\ openSent' = TRUE
     \/ svcPc' = "f_state" /\ UNCHANGED openSent
  /\ UNCHANGED <<chanVars, svcCh, svcMsg, inOpen, recvCh, opens, openGot,
                 openDone, notSvc>>

OpenCheckNotHost ==
  /\ svcPc = "check"
  /\ svcPc' = IF states # "HOST_OPENED" THEN "done" ELSE "host"
  /\ UNCHANGED <<chanVars, svcCh, svcMsg, inOpen, recvCh, histVars, notSvc>>

OpenCheck ==
  /\ svcPc = "check"
  /\ svcPc' = IF states = "CLIENT_OPENED" THEN "done" ELSE "host"
  /\ UNCHANGED <<chanVars, svcCh, svcMsg, inOpen, recvCh, histVars, notSvc>>

OpenHost ==
  /\ svcPc = "host"
  /\ states' = "HOST_OPENED"
  /\ svcPc' = "r_enter"
  /\ UNCHANGED <<channels, busy, live, caches, svcCh, svcMsg, inOpen, recvCh,
                 histVars, notSvc>>

OpenDone ==
  /\ svcPc = "done"
  /\ states' = "OPENED"
  /\ svcPc' = "put"
  /\ UNCHANGED <<channels, busy, live, caches, svcCh, svcMsg, inOpen, recvCh,
                 histVars, notSvc>>

OpenPut ==
  /\ svcPc = "put"
  /\ busy' = busy - 1
  /\ inOpen' = FALSE
  /\ openDone' = openDone + 1
  /\ svcPc' = "run"
  /\ UNCHANGED <<channels, states, live, caches, svcCh, svcMsg, recvCh, opens,
                 openSent, openGot, notSvc>>

\* smsg_ch_open's two error exits, which are the same code.
FailState ==
  /\ svcPc = "f_state"
  /\ states' = "UNUSED"
  /\ svcPc' = "f_null"
  /\ UNCHANGED <<channels, busy, live, caches, svcCh, svcMsg, inOpen, recvCh,
                 histVars, notSvc>>

FailNullForgotten ==
  /\ svcPc = "f_null"
  /\ svcPc' = "f_put"
  /\ UNCHANGED <<chanVars, svcCh, svcMsg, inOpen, recvCh, histVars, notSvc>>

FailNull ==
  /\ svcPc = "f_null"
  /\ channels' = NULL
  /\ svcPc' = "f_put"
  /\ UNCHANGED <<states, busy, live, caches, svcCh, svcMsg, inOpen, recvCh,
                 histVars, notSvc>>

FailPut ==
  /\ svcPc = "f_put"
  /\ busy' = busy - 1
  /\ inOpen' = FALSE
  /\ svcPc' = "f_spin"
  /\ UNCHANGED <<channels, states, live, caches, svcCh, svcMsg, recvCh,
                 histVars, notSvc>>

FailNoFree ==
  /\ svcPc = "f_spin" /\ busy = 0
  /\ svcPc' = "exit"
  /\ UNCHANGED <<chanVars, svcCh, svcMsg, inOpen, recvCh, histVars, notSvc>>

FailFree ==
  /\ svcPc = "f_spin" /\ busy = 0
  /\ live' = live \ {svcCh}
  /\ svcPc' = "exit"
  /\ UNCHANGED <<channels, states, busy, caches, svcCh, svcMsg, inOpen, recvCh,
                 histVars, notSvc>>

-----------------------------------------------------------------------------
(* smsg_recv, with timeout -1, from the open handshake or from the loop.    *)

RecvEnter ==
  /\ svcPc = "r_enter" \/ (svcPc = "run" /\ clsPc # "stop")
  /\ busy' = busy + 1
  /\ svcPc' = "r_load"
  /\ UNCHANGED <<channels, states, live, caches, svcCh, svcMsg, inOpen, recvCh,
                 histVars, notSvc>>

RecvLoad ==
  /\ svcPc = "r_load"
  /\ recvCh' = channels
  /\ IF channels = NULL
     THEN svcMsg' = "ENODEV" /\ svcPc' = "r_exit"
     ELSE svcPc' = "r_wait" /\ UNCHANGED svcMsg
  /\ UNCHANGED <<chanVars, svcCh, inOpen, histVars, notSvc>>

RecvWait ==
  /\ svcPc = "r_wait"
  /\ caches[recvCh] # <<>> \/ states = "FREE"
  /\ svcPc' = "r_check"
  /\ UNCHANGED <<chanVars, svcCh, svcMsg, inOpen, recvCh, histVars, notSvc>>

RecvCheck ==
  /\ svcPc = "r_check"
  /\ IF states = "FREE"
     THEN svcMsg' = "EIO" /\ svcPc' = "r_exit"
     ELSE svcPc' = "r_read" /\ UNCHANGED svcMsg
  /\ UNCHANGED <<chanVars, svcCh, inOpen, recvCh, histVars, notSvc>>

\* An empty cache can be read only if FREE was seen by the wait and gone at
\* the check; rdptr then passes wrptr and the message is whatever was there.
RecvRead ==
  /\ svcPc = "r_read"
  /\ IF caches[recvCh] # <<>>
     THEN /\ svcMsg' = Head(caches[recvCh])
          /\ caches' = [caches EXCEPT ![recvCh] = Tail(@)]
     ELSE svcMsg' \in Msg /\ UNCHANGED caches
  /\ svcPc' = "r_exit"
  /\ UNCHANGED <<channels, states, busy, live, svcCh, inOpen, recvCh, histVars,
                 notSvc>>

\* The caller's reaction: smsg_ch_open loops until it has an OPEN or an error;
\* the service loop acknowledges OPEN and CLOSE and ignores errors.
RecvNext ==
  CASE inOpen /\ svcMsg = "OPEN"                  -> "done"
    [] inOpen /\ svcMsg \in {"EIO", "ENODEV"}     -> "f_state"
    [] inOpen /\ svcMsg \in Msg \ {"OPEN"}        -> "r_enter"
    [] ~inOpen /\ svcMsg \in {"OPEN", "CLOSE"}    -> "ack"
    [] OTHER                                      -> "run"

RecvExit ==
  /\ svcPc = "r_exit"
  /\ busy' = busy - 1
  /\ svcPc' = RecvNext
  /\ UNCHANGED <<channels, states, live, caches, svcCh, svcMsg, inOpen, recvCh,
                 histVars, notSvc>>

\* smsg_open_ack / smsg_close_ack: smsg_send of an OPEN or CLOSE, which needs
\* a channel but not the OPENED state.
AckBegin ==
  /\ svcPc = "ack"
  /\ SendInClose \/ ~Closing
  /\ svcPc' = IF channels = NULL THEN "run" ELSE "ack_load"
  /\ UNCHANGED <<chanVars, svcCh, svcMsg, inOpen, recvCh, histVars, notSvc>>

AckLoad ==
  /\ svcPc = "ack_load"
  /\ recvCh' = channels
  /\ svcPc' = "ack_use"
  /\ UNCHANGED <<chanVars, svcCh, svcMsg, inOpen, histVars, notSvc>>

AckUse ==
  /\ svcPc = "ack_use"
  /\ svcPc' = "run"
  /\ UNCHANGED <<chanVars, svcCh, svcMsg, inOpen, recvCh, histVars, notSvc>>

\* kthread_should_stop() ends the loop.
SvcStop ==
  /\ svcPc = "run" /\ clsPc = "stop"
  /\ svcPc' = "exit"
  /\ UNCHANGED <<chanVars, svcCh, svcMsg, inOpen, recvCh, histVars, notSvc>>

Recv == RecvEnter \/ RecvLoad \/ RecvWait \/ RecvCheck \/ RecvRead \/ RecvExit
Open == OpenPublish \/ OpenSend \/ OpenCheck \/ OpenHost \/ OpenDone \/ OpenPut
Fail == FailState \/ FailNull \/ FailPut \/ FailFree
Ack  == AckBegin \/ AckLoad \/ AckUse
Svc  == Open \/ Fail \/ Recv \/ Ack \/ SvcStop

-----------------------------------------------------------------------------
(* The closing thread (sbuf_destroy, sblock_destroy, sipa_dele_remove):     *)
(* smsg_ch_close, then kthread_stop of the service thread.                  *)

notCls == <<irqVars, svcVars, sndVars, peerVars, histVars>>

Opening == inOpen \/ svcPc \in OpenPc

CloseBegin ==
  /\ clsPc = "idle" /\ svcPc # "none"
  /\ CloseInOpen \/ ~Opening
  /\ SendInClose \/ (svcPc \notin {"ack_load", "ack_use"} /\ \A s \in Senders : sndPc[s] = "idle")
  /\ clsCh' = channels
  /\ clsPc' = IF channels = NULL THEN "stop" ELSE "c_send"
  /\ UNCHANGED <<chanVars, notCls>>

\* smsg_send of the CLOSE; its result is ignored.
CloseSend ==
  /\ clsPc = "c_send"
  /\ clsPc' = "c_mark"
  /\ UNCHANGED <<chanVars, clsCh, notCls>>

CloseMarkForgotten ==
  /\ clsPc = "c_mark"
  /\ clsPc' = "c_wake"
  /\ UNCHANGED <<chanVars, clsCh, notCls>>

CloseMark ==
  /\ clsPc = "c_mark"
  /\ states' = "FREE"
  /\ clsPc' = "c_wake"
  /\ UNCHANGED <<channels, busy, live, caches, clsCh, notCls>>

\* wake_up_interruptible_all(&ch->rxwait)
CloseWake ==
  /\ clsPc = "c_wake"
  /\ clsPc' = "c_spin"
  /\ UNCHANGED <<chanVars, clsCh, notCls>>

CloseSpin ==
  /\ clsPc = "c_spin" /\ busy = 0
  /\ clsPc' = "c_test"
  /\ UNCHANGED <<chanVars, clsCh, notCls>>

CloseTest ==
  /\ clsPc = "c_test"
  /\ IF channels # NULL
     THEN channels' = NULL /\ clsPc' = "c_spin2"
     ELSE clsPc' = "c_unused" /\ UNCHANGED channels
  /\ UNCHANGED <<states, busy, live, caches, clsCh, notCls>>

CloseFree ==
  /\ clsPc = "c_spin2" /\ busy = 0
  /\ live' = live \ {clsCh}
  /\ clsPc' = "c_unused"
  /\ UNCHANGED <<channels, states, busy, caches, clsCh, notCls>>

CloseUnused ==
  /\ clsPc = "c_unused"
  /\ states' = "UNUSED"
  /\ clsPc' = "stop"
  /\ UNCHANGED <<channels, busy, live, caches, clsCh, notCls>>

\* kthread_stop returns when the service thread has returned.
CloseStopped ==
  /\ clsPc = "stop" /\ svcPc = "exit"
  /\ clsPc' = "idle"
  /\ svcPc' = "none"
  /\ UNCHANGED <<chanVars, clsCh, irqVars, svcCh, svcMsg, inOpen, recvCh,
                 sndVars, peerVars, histVars>>

Close == CloseSend \/ CloseMark \/ CloseWake \/ CloseSpin \/ CloseTest
         \/ CloseFree \/ CloseUnused \/ CloseStopped

-----------------------------------------------------------------------------
(* smsg_send of an event or a command by some other thread.  It reads       *)
(* channels[] and states[], then uses ch->tx_pms; it never takes busy[].    *)

notSnd == <<chanVars, irqVars, svcVars, clsVars, peerVars, histVars>>

SendBegin(s) ==
  /\ sndPc[s] = "idle" /\ channels # NULL /\ states = "OPENED"
  /\ SendInClose \/ ~Closing
  /\ sndPc' = [sndPc EXCEPT ![s] = "load"]
  /\ UNCHANGED <<sndCh, notSnd>>

\* ch is read from channels[] a second time.
SendLoad(s) ==
  /\ sndPc[s] = "load"
  /\ sndCh' = [sndCh EXCEPT ![s] = channels]
  /\ sndPc' = [sndPc EXCEPT ![s] = "use"]
  /\ UNCHANGED notSnd

SendEnd(s) ==
  /\ sndPc[s] = "use"
  /\ sndPc' = [sndPc EXCEPT ![s] = "idle"]
  /\ UNCHANGED <<sndCh, notSnd>>

-----------------------------------------------------------------------------
Peer == PeerOpen \/ PeerData \/ PeerClose \/ PeerBad
Send == \E s \in Senders : SendBegin(s) \/ SendLoad(s) \/ SendEnd(s)

Next ==
  Peer \/ Irq \/ OpenNoMem \/ OpenBegin \/ Svc \/ CloseBegin \/ Close \/ Send

\* Interrupts are serviced and runnable threads run.  The three busy-wait
\* loops poll a count that other threads raise and lower: the service loop
\* sleeps 20 ms after each -EIO, so a poll hits busy = 0 again and again.
Fairness ==
  /\ WF_vars(Irq) /\ WF_vars(Svc) /\ WF_vars(Close)
  /\ SF_vars(CloseSpin) /\ SF_vars(CloseFree) /\ SF_vars(FailFree)

Spec == Init /\ [][Next]_vars
FairSpec == Spec /\ Fairness

-----------------------------------------------------------------------------
(* Properties                                                               *)

One(b) == IF b THEN 1 ELSE 0

\* busy[ch] counts exactly the users of the channel: the irq handler while it
\* processes a message, smsg_ch_open, and smsg_recv.  The spin loops of
\* smsg_ch_close and of the error exits of smsg_ch_open rely on it.
BusyCount ==
  busy = One(irqPc # "idle") + One(inOpen) + One(svcPc \in RecvPc)

\* The users that hold a count (irq handler, smsg_recv, smsg_ch_open) never
\* touch a struct smsg_channel that was freed.
HoldersSafe ==
  /\ irqPc = "cache" => irqCh \in live
  /\ svcPc \in {"r_wait", "r_check", "r_read"} => recvCh \in live
  /\ svcPc = "r_exit" /\ svcMsg # "ENODEV" => recvCh \in live
  /\ inOpen => svcCh \in live

\* smsg_ch_close touches its ch (the CLOSE message's pms, ch->rxwait, and the
\* final kfree) only while ch is allocated.
CloserSafe ==
  clsPc \in {"c_send", "c_wake", "c_spin2"} => clsCh \in live

\* smsg_send, which holds no count, touches ch->tx_pms only while ch is
\* allocated.
SendersSafe ==
  /\ \A s \in Senders : sndPc[s] = "use" => sndCh[s] \in live
  /\ svcPc = "ack_use" => recvCh \in live

\* Nobody ever uses a struct smsg_channel that was freed: not the irq handler,
\* smsg_recv and smsg_ch_open, which hold a count, nor smsg_ch_close and
\* smsg_send, which do not.
ChannelSafe == TypeOK /\ HoldersSafe /\ CloserSafe /\ SendersSafe

\* No struct smsg_channel leaks: each allocated one is the published one, or
\* is in the hands of the smsg_ch_open or smsg_ch_close that will publish or
\* free it.
NoLeak ==
  \A o \in live :
    \/ o = channels
    \/ o = svcCh /\ svcPc \in {"publish", "f_put", "f_spin"}
    \/ o = clsCh /\ clsPc = "c_spin2"

\* smsg_ch_open returns 0 only for an OPEN of the peer that was really
\* received and not already used up by an earlier smsg_ch_open.
OpenHandshake == openDone <= openGot

\* A smsg_ch_close that started returns, and so does the kthread_stop after it.
CloseReturns == clsPc # "idle" ~> clsPc = "idle"

\* An OPEN of the peer that reached this side ends the smsg_ch_open that waits
\* for it ("open msg might be got before", smsg.c:644).
OpenReturns == (svcPc = "r_wait" /\ inOpen /\ openGot > openDone) ~> ~inOpen
=============================================================================
