------------------------------- MODULE Sblock -------------------------------
(***************************************************************************)
(* One direction of an sblock (sipc/sblock.c) under its users in           *)
(* sipc/spool.c.  N fixed blocks of shared memory circulate: the sending   *)
(* end takes one from the pool (sblock_get), fills it and queues it on the *)
(* ring (sblock_send); the receiving end takes it from the ring            *)
(* (sblock_receive), empties it and returns it to the pool                 *)
(* (sblock_release).  Pool and ring are arrays of block numbers with u32   *)
(* pointers.  The host also keeps, per block, whether one of its callers   *)
(* has it (txrecord, rxrecord), and rebuilds pool and ring from that       *)
(* record when the modem opens its channel again (sblock_recover).         *)
(*                                                                         *)
(* A step is one critical section of the code, or the code between two.    *)
(***************************************************************************)
EXTENDS Integers, Sequences, FiniteSets

CONSTANTS
  Senders, Receivers, \* threads in spool_write, spool_read
  Putters,            \* the senders that may also call sblock_put
  Host,               \* the end that is not sipc->client: "tx" or "rx"
  N,                  \* number of blocks
  W,                  \* 2^32, the pointers are u32
  IdleInHand,         \* the host may become idle while a caller has a block
  SlowHost,           \* the client may start again while the host's thread has messages of
                      \* its earlier life left
  Ways,               \* how the client goes: subset of {"crash","close","remove"}
  MaxSends,           \* bound: blocks sent
  MaxStops            \* bound: times the client goes

Ends == {"tx", "rx"}
Other(e) == IF e = "tx" THEN "rx" ELSE "tx"
Client == Other(Host)
Threads == Senders \union Receivers
Blocks == 0..(N - 1)
NoBlock == N
Slots == 0..(N - 1)

ASSUME SblockAssumption ==
  /\ Host \in Ends /\ {IdleInHand, SlowHost} \subseteq BOOLEAN
  /\ N \in Nat \ {0} /\ W \in Nat /\ W > N /\ W % N = 0
  /\ Ways \subseteq {"crash", "close", "remove"}
  /\ MaxSends \in Nat /\ MaxStops \in Nat
  /\ Senders \cap Receivers = {} /\ Putters \subseteq Senders

VARIABLES
  pool, prd, pwt,  \* the pool's array of blocks, its read and write pointer
  ring, rrd, rwt,  \* the same of the ring
  record,          \* blocks whose record is PENDING at the host
  recovery,        \* sblock_thread's flag at the host
  recovering,      \* the host's thread is inside sblock_recover
  state,           \* sblock->state of each end
  mask,            \* poll_mask: POLLOUT at the sending, POLLIN at the receiving end
  inbox,           \* messages on their way to each sblock_thread
  client,          \* progress of the client's sblock_thread
  pc, blk,         \* control of each thread, the block in its hands
  sends, stops     \* number of sends, of times the client went

poolVars == <<pool, prd, pwt>>
ringVars == <<ring, rrd, rwt>>
hostVars == <<record, recovery, recovering>>
bounds == <<sends, stops>>
vars == <<poolVars, ringVars, hostVars, state, mask, inbox, client, pc, blk, bounds>>

EndOf(t) == IF t \in Senders THEN "tx" ELSE "rx"

\* u32 arithmetic, and sblock_get_ringpos.
Add(p, n) == (p + n) % W
Dist(rd, wt) == (wt - rd + W) % W
Pos(p) == p % N

TypeOK ==
  /\ pool \in [Slots -> Blocks] /\ ring \in [Slots -> Blocks]
  /\ {prd, pwt, rrd, rwt} \subseteq 0..(W - 1)
  /\ record \subseteq Blocks /\ recovery \in BOOLEAN /\ recovering \in BOOLEAN
  /\ state \in [Ends -> {"idle", "ready"}] /\ mask \in [Ends -> BOOLEAN]
  /\ inbox \in [Ends -> Seq({"OPEN", "CLOSE", "CMD", "DONE", "SEND", "RELEASE"})]
  /\ client \in {"off", "opening", "init", "up"}
  /\ pc \in [Threads -> {"out", "look", "wait", "asleep", "woken", "take", "mask",
                         "hand", "give", "put", "event", "finish"}]
  /\ blk \in [Threads -> Blocks \union {NoBlock}]
  /\ sends \in 0..MaxSends /\ stops \in 0..MaxStops

\* sblock_host_init fills the pool; the channel is open at both ends and the
\* client has sent SMSG_CMD_SBLOCK_INIT.
Init ==
  /\ pool = [s \in Slots |-> s] /\ prd = 0 /\ pwt = N
  /\ ring = [s \in Slots |-> 0] /\ rrd = 0 /\ rwt = 0
  /\ record = {} /\ recovery = FALSE /\ recovering = FALSE
  /\ state = [e \in Ends |-> "idle"]
  /\ mask = [e \in Ends |-> e = "tx"]
  /\ inbox = [e \in Ends |-> IF e = Host THEN <<"CMD">> ELSE <<>>]
  /\ client = "init"
  /\ pc = [t \in Threads |-> "out"] /\ blk = [t \in Threads |-> NoBlock]
  /\ sends = 0 /\ stops = 0

-----------------------------------------------------------------------------
(* sblock_get and sblock_receive.                                           *)

Goto(t, l) == pc' = [pc EXCEPT ![t] = l]

\* Nothing to get, nothing to receive.
Empty(e) == IF e = "tx" THEN prd = pwt ELSE rrd = rwt

\* sblock_has_data: the host's memory is local, the client's is remote.
HasData(e) == IF e = Host THEN ~Empty(e) ELSE mask[e]

\* The control of the threads after wake_up_interruptible_all at the ends E.
Woken(E) ==
  [t \in Threads |->
     IF pc[t] = "asleep" /\ EndOf(t) \in E THEN "wait" ELSE pc[t]]

\* The inboxes after smsg_send of m to end e.
Sent(e, m) ==
  IF e = Client /\ client = "off" THEN inbox
  ELSE [inbox EXCEPT ![e] = Append(@, m)]

Call(t) ==
  /\ pc[t] = "out" /\ state[EndOf(t)] = "ready"
  /\ t \in Senders => sends < MaxSends
  /\ Goto(t, "look")
  /\ UNCHANGED <<poolVars, ringVars, hostVars, state, mask, inbox, client, blk, bounds>>

\* The first look, under poll_lock; with timeout 0 an empty one is an error.
Look(t) ==
  /\ pc[t] = "look"
  /\ mask' = [mask EXCEPT ![EndOf(t)] = ~Empty(EndOf(t))]
  /\ IF Empty(EndOf(t)) THEN Goto(t, "wait") \/ Goto(t, "out") ELSE Goto(t, "take")
  /\ UNCHANGED <<poolVars, ringVars, hostVars, state, inbox, client, blk, bounds>>

\* wait_event_interruptible: only sblock_get ends its wait when the state is idle.
Wait(t) ==
  /\ pc[t] = "wait"
  /\ IF HasData(EndOf(t)) \/ (t \in Senders /\ state["tx"] = "idle")
     THEN Goto(t, "woken") ELSE Goto(t, "asleep")
  /\ UNCHANGED <<poolVars, ringVars, hostVars, state, mask, inbox, client, blk, bounds>>

\* A signal ends the wait.
Abort(t) ==
  /\ pc[t] = "asleep"
  /\ Goto(t, "out")
  /\ UNCHANGED <<poolVars, ringVars, hostVars, state, mask, inbox, client, blk, bounds>>

AfterWait(t) ==
  /\ pc[t] = "woken"
  /\ Goto(t, IF state[EndOf(t)] = "idle" THEN "out" ELSE "take")
  /\ UNCHANGED <<poolVars, ringVars, hostVars, state, mask, inbox, client, blk, bounds>>

\* The host notes that its caller has, or no longer has, block b.
Pending(t, b) == record' = IF EndOf(t) = Host THEN record \union {b} ELSE record
Settled(t, b) == record' = IF EndOf(t) = Host THEN record \ {b} ELSE record

\* Under p_txlock (get) or r_rxlock (receive): another caller may have been
\* faster, the state may have changed.
Take(t) ==
  LET e == EndOf(t)
      b == IF e = "tx" THEN pool[Pos(prd)] ELSE ring[Pos(rrd)]
  IN /\ pc[t] = "take"
     /\ IF ~Empty(e) /\ state[e] = "ready"
        THEN /\ blk' = [blk EXCEPT ![t] = b] /\ Pending(t, b)
             /\ prd' = IF e = "tx" THEN Add(prd, 1) ELSE prd
             /\ rrd' = IF e = "rx" THEN Add(rrd, 1) ELSE rrd
        ELSE UNCHANGED <<blk, record, prd, rrd>>
     /\ Goto(t, "mask")
     /\ UNCHANGED <<pool, pwt, ring, rwt, recovery, recovering, state, mask, inbox,
                    client, bounds>>

SetMask(t) ==
  /\ pc[t] = "mask"
  /\ mask' = [mask EXCEPT ![EndOf(t)] = ~Empty(EndOf(t))]
  /\ Goto(t, IF blk[t] = NoBlock THEN "out" ELSE "hand")
  /\ UNCHANGED <<poolVars, ringVars, hostVars, state, inbox, client, blk, bounds>>

-----------------------------------------------------------------------------
(* sblock_send, sblock_put and sblock_release.                              *)

\* The test of the state.  When the end is idle the call fails; spool_write and
\* spool_read ignore the error and forget the block.
Hand(t) ==
  /\ pc[t] = "hand"
  /\ IF state[EndOf(t)] = "ready"
     THEN Goto(t, "give") /\ UNCHANGED blk
     ELSE Goto(t, "out") /\ blk' = [blk EXCEPT ![t] = NoBlock]
  /\ UNCHANGED <<poolVars, ringVars, hostVars, state, mask, inbox, client, bounds>>

\* sblock_send_ex under r_txlock; sblock_send tells the peer, and
\* sblock_send_prepare leaves that to sblock_send_finish.
Send(t) ==
  /\ pc[t] = "give" /\ t \in Senders
  /\ ring' = [ring EXCEPT ![Pos(rwt)] = blk[t]]
  /\ rwt' = Add(rwt, 1)
  /\ Settled(t, blk[t])
  /\ blk' = [blk EXCEPT ![t] = NoBlock]
  /\ sends' = IF sends < MaxSends THEN sends + 1 ELSE sends
  /\ \/ Goto(t, IF state["tx"] = "ready" THEN "event" ELSE "out")
     \/ Goto(t, "finish")
  /\ UNCHANGED <<poolVars, rrd, recovery, recovering, state, mask, inbox, client, stops>>

\* sblock_send_finish
Finish(t) ==
  /\ pc[t] = "finish"
  /\ Goto(t, IF state["tx"] = "ready" /\ ~Empty("rx") THEN "event" ELSE "out")
  /\ UNCHANGED <<poolVars, ringVars, hostVars, state, mask, inbox, client, blk, bounds>>

\* A form of Release that tells the peer when the pool has become full.
ReleaseLate(t) ==
  /\ pc[t] = "give" /\ t \in Receivers
  /\ pool' = [pool EXCEPT ![Pos(pwt)] = blk[t]]
  /\ pwt' = Add(pwt, 1)
  /\ Settled(t, blk[t])
  /\ blk' = [blk EXCEPT ![t] = NoBlock]
  /\ Goto(t, IF Dist(prd, pwt') = N /\ state["rx"] = "ready" THEN "event" ELSE "out")
  /\ UNCHANGED <<prd, ringVars, recovery, recovering, state, mask, inbox, client, bounds>>

\* sblock_release under p_rxlock: the peer is told when the pool was empty.
Release(t) ==
  /\ pc[t] = "give" /\ t \in Receivers
  /\ pool' = [pool EXCEPT ![Pos(pwt)] = blk[t]]
  /\ pwt' = Add(pwt, 1)
  /\ Settled(t, blk[t])
  /\ blk' = [blk EXCEPT ![t] = NoBlock]
  /\ Goto(t, IF Dist(prd, pwt') = 1 /\ state["rx"] = "ready" THEN "event" ELSE "out")
  /\ UNCHANGED <<prd, ringVars, recovery, recovering, state, mask, inbox, client, bounds>>

Event(t) ==
  /\ pc[t] = "event"
  /\ inbox' = IF t \in Senders THEN Sent("rx", "SEND") ELSE Sent("tx", "RELEASE")
  /\ Goto(t, "out")
  /\ UNCHANGED <<poolVars, ringVars, hostVars, state, mask, client, blk, bounds>>

\* sblock_put under p_txlock: the block goes back in front of the pool's first.
Put(t) ==
  /\ pc[t] = "hand" /\ t \in Putters
  /\ prd' = Add(prd, W - 1)
  /\ pool' = [pool EXCEPT ![Pos(prd')] = blk[t]]
  /\ Settled(t, blk[t])
  /\ blk' = [blk EXCEPT ![t] = NoBlock]
  /\ pc' = [(IF Dist(prd', pwt) = 1 THEN Woken({"tx"}) ELSE pc) EXCEPT ![t] = "put"]
  /\ UNCHANGED <<pwt, ringVars, recovery, recovering, state, mask, inbox, client, bounds>>

PutMask(t) ==
  /\ pc[t] = "put"
  /\ mask' = [mask EXCEPT !["tx"] = TRUE]
  /\ Goto(t, "out")
  /\ UNCHANGED <<poolVars, ringVars, hostVars, state, inbox, client, blk, bounds>>

Step(t) ==
  \/ Look(t) \/ Wait(t) \/ AfterWait(t) \/ Take(t) \/ SetMask(t)
  \/ Hand(t) \/ Send(t) \/ Finish(t) \/ Release(t) \/ Event(t) \/ PutMask(t)

-----------------------------------------------------------------------------
(* sblock_thread of both ends, and sblock_recover at the host.              *)

Taken(e) == [inbox EXCEPT ![e] = Tail(@)]
Head1(e, m) == inbox[e] # <<>> /\ Head(inbox[e]) = m
\* smsg_send from the handler of a message at end e.
Reply(e, m) ==
  IF e = Host /\ client = "off" THEN Taken(e)
  ELSE [Taken(e) EXCEPT ![Other(e)] = Append(@, m)]

\* The sblock_thread of end e is in its loop, and not inside sblock_recover.
EventAt(e) == IF e = Host THEN ~recovering ELSE client = "up"

\* SEND sets POLLIN and wakes recvwait; RELEASE sets POLLOUT and wakes getwait.
OnEvent(e) ==
  /\ EventAt(e) /\ (Head1(e, "SEND") \/ Head1(e, "RELEASE"))
  /\ mask' = [mask EXCEPT ![e] = TRUE]
  /\ pc' = Woken({e})
  /\ inbox' = Taken(e)
  /\ UNCHANGED <<poolVars, ringVars, hostVars, state, client, blk, bounds>>

\* A thread of the host has a block in its hands.
InHand == \E t \in Threads : EndOf(t) = Host /\ blk[t] # NoBlock

\* OPEN: with recovery set sblock_recover begins, else the channel is acknowledged.
OnOpen ==
  /\ EventAt(Host) /\ Head1(Host, "OPEN")
  /\ IdleInHand \/ ~InHand
  /\ IF recovery
     THEN /\ recovering' = TRUE
          /\ state' = [state EXCEPT ![Host] = "idle"]
          /\ pc' = Woken({Host})
          /\ UNCHANGED inbox
     ELSE inbox' = Reply(Host, "OPEN") /\ UNCHANGED <<recovering, state, pc>>
  /\ UNCHANGED <<poolVars, ringVars, record, recovery, mask, client, blk, bounds>>

\* The k-th block, from 0, whose record is DONE.
Done == Blocks \ record
NthDone(k) == CHOOSE b \in Done : Cardinality({c \in Done : c < b}) = k

\* A form of Recover that does not empty the ring.
RecoverPoolOnly ==
  /\ recovering
  /\ IF Host = "tx"
     THEN prd' = pwt /\ pwt' = Add(pwt, Cardinality(Done))
     ELSE pwt' = Add(prd, Cardinality(Done)) /\ UNCHANGED prd
  /\ pool' = [s \in Slots |-> IF s < Cardinality(Done) THEN NthDone(s) ELSE pool[s]]
  /\ mask' = [mask EXCEPT ![Host] = IF Host = "tx" THEN TRUE ELSE @]
  /\ recovering' = FALSE
  /\ inbox' = Reply(Host, "OPEN")
  /\ UNCHANGED <<ringVars, record, recovery, state, client, pc, blk, bounds>>

\* The rest of sblock_recover: ring and pool are emptied by the pointer of this
\* end, and the blocks that no caller has are stored from slot 0 of the pool on.
\* Then the channel is acknowledged.
Recover ==
  /\ recovering
  /\ IF Host = "tx"
     THEN rwt' = rrd /\ prd' = pwt /\ pwt' = Add(pwt, Cardinality(Done)) /\ UNCHANGED rrd
     ELSE rrd' = rwt /\ pwt' = Add(prd, Cardinality(Done)) /\ UNCHANGED <<rwt, prd>>
  /\ pool' = [s \in Slots |-> IF s < Cardinality(Done) THEN NthDone(s) ELSE pool[s]]
  /\ mask' = [mask EXCEPT ![Host] = IF Host = "tx" THEN TRUE ELSE @]
  /\ recovering' = FALSE
  /\ inbox' = Reply(Host, "OPEN")
  /\ UNCHANGED <<ring, record, recovery, state, client, pc, blk, bounds>>

\* CLOSE: acknowledged; nobody is woken.  (To a client that is up it is the late
\* answer to the CLOSE of an earlier life.)
OnClose(e) ==
  /\ EventAt(e) /\ Head1(e, "CLOSE")
  /\ e = Host => IdleInHand \/ ~InHand
  /\ inbox' = Reply(e, "CLOSE")
  /\ state' = [state EXCEPT ![e] = "idle"]
  /\ UNCHANGED <<poolVars, ringVars, hostVars, mask, client, pc, blk, bounds>>

\* SMSG_CMD_SBLOCK_INIT is answered with the address of the memory.
OnCmd ==
  /\ EventAt(Host) /\ Head1(Host, "CMD")
  /\ inbox' = Reply(Host, "DONE")
  /\ state' = [state EXCEPT ![Host] = "ready"]
  /\ recovery' = TRUE
  /\ UNCHANGED <<poolVars, ringVars, record, recovering, mask, client, pc, blk, bounds>>

\* The client in smsg_ch_open, then waiting for SMSG_DONE_SBLOCK_INIT; other
\* messages are dropped.  sblock_client_init takes over the pointers as they are.
\* Once it is up, the answer to an earlier OPEN is acknowledged like an OPEN.
ClientRecv ==
  /\ client # "off" /\ inbox[Client] # <<>>
  /\ client = "up" => Head(inbox[Client]) \in {"OPEN", "DONE"}
  /\ \/ /\ client = "opening" /\ Head1(Client, "OPEN")
        /\ client' = "init"
        /\ inbox' = [Taken(Client) EXCEPT ![Host] = Append(@, "CMD")]
        /\ UNCHANGED state
     \/ /\ client = "init" /\ Head1(Client, "DONE")
        /\ client' = "up"
        /\ state' = [state EXCEPT ![Client] = "ready"]
        /\ inbox' = Taken(Client)
     \/ /\ ~(client = "opening" /\ Head1(Client, "OPEN"))
        /\ ~(client = "init" /\ Head1(Client, "DONE"))
        /\ inbox' = IF client = "up" /\ Head1(Client, "OPEN")
                    THEN Reply(Client, "OPEN") ELSE Taken(Client)
        /\ UNCHANGED <<client, state>>
  /\ UNCHANGED <<poolVars, ringVars, hostVars, mask, pc, blk, bounds>>

Thread ==
  \/ \E e \in Ends : OnEvent(e)
  \/ OnOpen \/ Recover \/ OnCmd \/ \E e \in Ends : OnClose(e)
  \/ ClientRecv

-----------------------------------------------------------------------------
(* The client goes, with its threads, and comes back.                       *)

\* "crash": nothing is said.  "close": sblock_destroy at the client sends CLOSE.
\* "remove": spool_device_down calls sblock_down at the host.
ClientStop(way) ==
  LET down == way = "remove"
  IN /\ client # "off" /\ stops < MaxStops
     /\ down => IdleInHand \/ ~InHand
     /\ client' = "off" /\ stops' = stops + 1
     /\ inbox' = [inbox EXCEPT ![Client] = <<>>,
                               ![Host] = IF way = "close" THEN Append(@, "CLOSE") ELSE @]
     /\ state' = [e \in Ends |-> IF e = Client \/ down THEN "idle" ELSE state[e]]
     /\ mask' = [mask EXCEPT ![Client] = (Client = "tx")]
     /\ pc' = [t \in Threads |->
                 IF EndOf(t) = Client THEN "out"
                 ELSE IF down THEN Woken({Host})[t] ELSE pc[t]]
     /\ blk' = [t \in Threads |-> IF EndOf(t) = Client THEN NoBlock ELSE blk[t]]
     /\ UNCHANGED <<poolVars, ringVars, hostVars, sends>>

\* smsg_ch_open of the client that starts again.
ClientStart ==
  /\ client = "off"
  /\ SlowHost \/ inbox[Host] = <<>>
  /\ client' = "opening"
  /\ inbox' = [inbox EXCEPT ![Host] = Append(@, "OPEN")]
  /\ UNCHANGED <<poolVars, ringVars, hostVars, state, mask, pc, blk, bounds>>

-----------------------------------------------------------------------------
Next ==
  \/ \E t \in Threads : Call(t) \/ Step(t) \/ Put(t) \/ Abort(t)
  \/ Thread
  \/ \E way \in Ways : ClientStop(way)
  \/ ClientStart

\* A thread that is not asleep runs, and so does the sblock_thread.
Fairness == WF_vars(Thread) /\ \A t \in Threads : WF_vars(Step(t))

Spec == Init /\ [][Next]_vars
FairSpec == Spec /\ Fairness

-----------------------------------------------------------------------------
(* Properties                                                               *)

\* The blocks between the pointers, oldest first.
Content(a, rd, wt) == [i \in 1..Dist(rd, wt) |-> a[Pos(Add(rd, i - 1))]]
InPool == Content(pool, prd, pwt)
InRing == Content(ring, rrd, rwt)
Holders(b) == {t \in Threads : blk[t] = b}

\* The number of places where block b is: in the pool, in the ring, in the hands
\* of a caller.
Places(b) ==
  Cardinality({i \in DOMAIN InPool : InPool[i] = b})
  + Cardinality({i \in DOMAIN InRing : InRing[i] = b})
  + Cardinality(Holders(b))

\* No block is ever in two places, so no two users write to the same memory: not
\* with concurrent callers at both ends, not with put racing get, and not after
\* sblock_recover rebuilt the pool.
OnePlace == \A b \in Blocks : Places(b) <= 1

\* While both ends are up every block is somewhere: what the client held when it
\* went is back in the pool.
NoneLost ==
  (client = "up" /\ state[Host] = "ready") => \A b \in Blocks : Places(b) >= 1

\* The pointers and the threads keep their types, and the blocks are neither
\* shared nor lost, whatever get, put, release and sblock_recover do.
PoolSafe == TypeOK /\ OnePlace /\ NoneLost

\* While the client is up nobody sleeps on although a block is there for it:
\* release tells the peer only when the pool was empty.
SleepersWoken ==
  \A t \in Threads :
    (pc[t] = "asleep" /\ ~Empty(EndOf(t))) ~> (pc[t] # "asleep" \/ client # "up")
=============================================================================
