-------------------------------- MODULE Sbuf --------------------------------
(***************************************************************************)
(* One direction of a ring of an sbuf (sipc/sbuf.c): the byte ring in      *)
(* shared memory, the threads of one end inside sbuf_write, the threads of *)
(* the other end inside sbuf_read, the sbuf_thread of each end, and the    *)
(* life of the client (modem) end: its start, its crash or close, its      *)
(* restart, and the removal of its PCIe device from the host.              *)
(*                                                                         *)
(* Each end has a state, a mutex, a poll mask and a queue of messages from *)
(* the other end; the smsg channel delivers them in order (SmsgRing) and   *)
(* drops what is sent to a client that is not there (SmsgChannel).         *)
(* A step is the code between two accesses to what the ends share.         *)
(***************************************************************************)
EXTENDS Integers, Sequences, FiniteSets

CONSTANTS
  Writers, Readers,  \* threads that call sbuf_write, sbuf_read
  Host,              \* the end that is not sipc->client: "w" or "r"
  LocalEnds,         \* the ends whose smem_type is SMEM_LOCAL
  ForceSend,         \* sbuf->force_send of the writing end
  Signals,           \* a signal may interrupt mutex_lock_interruptible
  SkipInRead,        \* OPEN or CLOSE may be handled while a read is copying
  SlowHost,          \* the client may start again while the host's thread has messages of
                     \* its earlier life left
  Ways,              \* how the client goes: subset of {"crash","close","remove"}
  Size,              \* size of the ring in bytes
  W,                 \* 2^32, the pointers are u32
  MaxLen,            \* bound: bytes of one call
  MaxBytes,          \* bound: bytes copied into the ring
  MaxStops           \* bound: times the client goes

Ends == {"w", "r"}
Other(e) == IF e = "w" THEN "r" ELSE "w"
Client == Other(Host)
Threads == Writers \union Readers
NoOne == "none"

ASSUME SbufAssumption ==
  /\ Host \in Ends /\ LocalEnds \subseteq Ends
  /\ ForceSend \in BOOLEAN /\ {Signals, SkipInRead, SlowHost} \subseteq BOOLEAN
  /\ Ways \subseteq {"crash", "close", "remove"}
  /\ Size \in Nat \ {0} /\ W \in Nat /\ W > Size
  /\ MaxLen \in Nat \ {0} /\ MaxBytes \in Nat /\ MaxStops \in Nat
  /\ Writers \cap Readers = {} /\ NoOne \notin Threads

VARIABLES
  wt, rd, buf,   \* write and read pointer, the bytes of the ring
  state,         \* sbuf->state of each end
  mask,          \* poll_mask: POLLOUT at the writing, POLLIN at the reading end
  lock,          \* holder of txlock, of rxlock
  inbox,         \* messages on their way to each sbuf_thread
  client,        \* progress of the client's sbuf_thread
  stops,         \* times the client went
  pc,            \* control of each thread
  nonblock,      \* timeout = 0
  left,          \* number of bytes still to be written or read
  chunk,         \* bytes copied whose pointer update is pending
  issued,        \* history: number of bytes copied into the ring
  sent,          \* history: bytes written and neither read nor skipped
  stale          \* history: the last byte copied in an earlier client life

ring == <<wt, rd, buf>>
hist == <<issued, sent, stale>>
peerVars == <<client, stops>>
threadVars == <<pc, nonblock, left, chunk>>
vars == <<ring, state, mask, lock, inbox, peerVars, threadVars, hist>>

Bytes == 0..MaxBytes
EndOf(t) == IF t \in Writers THEN "w" ELSE "r"

\* u32 arithmetic.  (int)(wt - rd) is compared with the u32 size: unsigned.
Add(p, n) == IF p + n >= W THEN p + n - W ELSE p + n
Used == IF wt >= rd THEN wt - rd ELSE wt - rd + W
Least(a, b) == IF a < b THEN a ELSE b

TypeOK ==
  /\ wt \in 0..(W - 1) /\ rd \in 0..(W - 1)
  /\ buf \in [0..(Size - 1) -> Bytes]
  /\ state \in [Ends -> {"idle", "ready"}]
  /\ mask \in [Ends -> BOOLEAN]
  /\ lock \in [Ends -> Threads \union {NoOne}]
  /\ inbox \in [Ends -> Seq({"OPEN", "CLOSE", "CMD", "DONE", "RDPTR", "WRPTR"})]
  /\ client \in {"off", "gone", "opening", "init", "up"}
  /\ stops \in 0..MaxStops
  /\ pc \in [Threads -> {"out", "lock", "test", "none", "some", "wait",
                         "asleep", "enter", "loop", "bump", "notify", "done"}]
  /\ nonblock \in [Threads -> BOOLEAN]
  /\ left \in [Threads -> 0..MaxLen]
  /\ chunk \in [Threads -> Seq(Bytes)]
  /\ issued \in Bytes /\ sent \in Seq(Bytes)
  /\ stale \in Bytes

\* sbuf_host_init and sbuf_comm_init; the channel is open at both ends and the
\* client has sent SMSG_CMD_SBUF_INIT.
Init ==
  /\ wt = 0 /\ rd = 0 /\ buf = [i \in 0..(Size - 1) |-> 0]
  /\ state = [e \in Ends |-> "idle"]
  /\ mask = [e \in Ends |-> e = "w"]
  /\ lock = [e \in Ends |-> NoOne]
  /\ inbox = [e \in Ends |-> IF e = Host THEN <<"CMD">> ELSE <<>>]
  /\ client = "init" /\ stops = 0
  /\ pc = [t \in Threads |-> "out"]
  /\ nonblock = [t \in Threads |-> FALSE]
  /\ left = [t \in Threads |-> 0]
  /\ chunk = [t \in Threads |-> <<>>]
  /\ issued = 0 /\ sent = <<>> /\ stale = 0

-----------------------------------------------------------------------------
(* sbuf_write and sbuf_read, the part they have in common.                  *)

Goto(t, l) == pc' = [pc EXCEPT ![t] = l]
\* The mutex is released and the call returns.
Leave(t) ==
  /\ Goto(t, "out")
  /\ lock' = [lock EXCEPT ![EndOf(t)] = NoOne]
  /\ left' = [left EXCEPT ![t] = 0] /\ nonblock' = [nonblock EXCEPT ![t] = FALSE]
Stay(t, l) == Goto(t, l) /\ UNCHANGED <<lock, left, nonblock>>

\* The client is not there: it crashed or closed ("off"), or its device was
\* removed from the host ("gone").
Away == client \in {"off", "gone"}

\* The inbox of end e after message m is sent to it.
Sent(e, m) ==
  IF e = Client /\ Away THEN inbox
  ELSE [inbox EXCEPT ![e] = Append(@, m)]

\* The control of the threads after wake_up_interruptible_all at the ends E.
Woken(E) ==
  [t \in Threads |->
     IF pc[t] = "asleep" /\ EndOf(t) \in E THEN "wait" ELSE pc[t]]

\* The ring is full for a writer, empty for a reader.
Blocked(e) == IF e = "w" THEN Used >= Size ELSE wt = rd

\* sbuf_has_data
HasData(e) == IF e \in LocalEnds THEN ~Blocked(e) ELSE mask[e]

Call(t) ==
  /\ pc[t] = "out" /\ state[EndOf(t)] = "ready"
  /\ \E n \in 1..MaxLen, nb \in BOOLEAN :
       /\ nonblock' = [nonblock EXCEPT ![t] = nb]
       /\ left' = [left EXCEPT ![t] = n]
  /\ Goto(t, "lock")
  /\ UNCHANGED <<ring, state, mask, lock, inbox, peerVars, chunk, hist>>

\* mutex_trylock, or mutex_lock_interruptible, whose result is not looked at:
\* an interrupted caller goes on without the mutex.
Lock(t) ==
  LET e == EndOf(t)
      free == lock[e] = NoOne
  IN /\ pc[t] = "lock"
     /\ free \/ nonblock[t] \/ Signals
     /\ IF ~free /\ nonblock[t]
        THEN /\ Goto(t, "out") /\ UNCHANGED lock
             /\ left' = [left EXCEPT ![t] = 0]
             /\ nonblock' = [nonblock EXCEPT ![t] = FALSE]
        ELSE /\ Goto(t, "test") /\ UNCHANGED <<left, nonblock>>
             /\ lock' = [lock EXCEPT ![e] = IF free THEN t ELSE @]
     /\ UNCHANGED <<ring, state, mask, inbox, peerVars, chunk, hist>>

\* no_data is computed outside poll_lock.
Test(t) ==
  /\ pc[t] = "test"
  /\ Stay(t, IF Blocked(EndOf(t)) THEN "none" ELSE "some")
  /\ UNCHANGED <<ring, state, mask, inbox, peerVars, chunk, hist>>

\* The poll mask follows no_data; without timeout a blocked call ends here.
SetMask(t) ==
  /\ pc[t] \in {"none", "some"}
  /\ mask' = [mask EXCEPT ![EndOf(t)] = (pc[t] = "some")]
  /\ IF pc[t] = "none" /\ nonblock[t]
     THEN Leave(t)
     ELSE Stay(t, IF pc[t] = "some" THEN "enter" ELSE "wait")
  /\ UNCHANGED <<ring, state, inbox, peerVars, chunk, hist>>

\* A form of Wait that does not look at the state.
WaitIgnoresIdle(t) ==
  /\ pc[t] = "wait"
  /\ Stay(t, IF HasData(EndOf(t)) THEN "enter" ELSE "asleep")
  /\ UNCHANGED <<ring, state, mask, inbox, peerVars, chunk, hist>>

\* wait_event_interruptible: on the queue, then the condition; -EIO when idle.
Wait(t) ==
  /\ pc[t] = "wait"
  /\ IF state[EndOf(t)] = "idle"
     THEN Leave(t)
     ELSE Stay(t, IF HasData(EndOf(t)) THEN "enter" ELSE "asleep")
  /\ UNCHANGED <<ring, state, mask, inbox, peerVars, chunk, hist>>

\* The wait is interrupted, or sipc_smem_request_resource fails.
Abort(t) ==
  /\ pc[t] \in {"test", "asleep", "enter"}
  /\ Leave(t)
  /\ UNCHANGED <<ring, state, mask, inbox, peerVars, chunk, hist>>

\* copy_from_user or copy_to_user fails: -EFAULT.
Fault(t) ==
  /\ pc[t] \in {"enter", "loop"} /\ left[t] > 0
  /\ ~Blocked(EndOf(t)) /\ state[EndOf(t)] = "ready"
  /\ Stay(t, "done")
  /\ UNCHANGED <<ring, state, mask, inbox, peerVars, chunk, hist>>

\* The poll mask again, now under poll_lock, and the mutex is released.
Done(t) ==
  /\ pc[t] = "done"
  /\ mask' = [mask EXCEPT ![EndOf(t)] = ~Blocked(EndOf(t))]
  /\ Leave(t)
  /\ UNCHANGED <<ring, state, inbox, peerVars, chunk, hist>>

-----------------------------------------------------------------------------
(* The copy loops.                                                          *)

Slot(p) == p % Size

\* Bytes are numbered in the order in which they are copied into the ring.

\* The write of n bytes behind wt.
CopyIn(t, n) ==
  LET \* the bytes that go to slot s
      into(s) == {issued + i : i \in {j \in 1..n : (Slot(wt) + j - 1) % Size = s}}
  IN /\ issued + n <= MaxBytes
     /\ issued' = issued + n
     /\ buf' = [s \in DOMAIN buf |->
                  IF into(s) = {} THEN buf[s] ELSE CHOOSE b \in into(s) : TRUE]
     /\ chunk' = [chunk EXCEPT ![t] = [i \in 1..n |-> issued + i]]
     /\ left' = [left EXCEPT ![t] = @ - n]
     /\ Goto(t, "bump")

\* A form of WriteLoop that copies more than there is room for.
WriteLoopNoMin(t) ==
  /\ pc[t] \in {"enter", "loop"}
  /\ IF left[t] > 0 /\ ~Blocked("w") /\ state["w"] = "ready"
     THEN CopyIn(t, left[t])
     ELSE Goto(t, "done") /\ UNCHANGED <<issued, buf, chunk, left>>
  /\ UNCHANGED <<wt, rd, state, mask, lock, inbox, peerVars, nonblock, sent, stale>>

\* One turn of sbuf_write's loop: as much as fits.
WriteLoop(t) ==
  /\ pc[t] \in {"enter", "loop"}
  /\ IF left[t] > 0 /\ ~Blocked("w") /\ state["w"] = "ready"
     THEN CopyIn(t, Least(Size - Used, left[t]))
     ELSE Goto(t, "done") /\ UNCHANGED <<issued, buf, chunk, left>>
  /\ UNCHANGED <<wt, rd, state, mask, lock, inbox, peerVars, nonblock, sent, stale>>

WriteBump(t) ==
  /\ pc[t] = "bump"
  /\ wt' = Add(wt, Len(chunk[t]))
  /\ sent' = sent \o chunk[t]
  /\ Goto(t, "notify")
  /\ UNCHANGED <<rd, buf, state, mask, lock, inbox, peerVars, nonblock, left, chunk,
                 issued, stale>>

\* A form of WriteNotify that waits until the ring is full.
WriteNotifyWhenFull(t) ==
  /\ pc[t] = "notify"
  /\ inbox' = IF ForceSend \/ Used = Size THEN Sent("r", "WRPTR") ELSE inbox
  /\ chunk' = [chunk EXCEPT ![t] = <<>>]
  /\ Goto(t, "loop")
  /\ UNCHANGED <<ring, state, mask, lock, peerVars, nonblock, left, hist>>

\* SMSG_EVENT_SBUF_WRPTR, when forced or when the ring was empty.
WriteNotify(t) ==
  /\ pc[t] = "notify"
  /\ inbox' = IF ForceSend \/ Used = Len(chunk[t]) THEN Sent("r", "WRPTR") ELSE inbox
  /\ chunk' = [chunk EXCEPT ![t] = <<>>]
  /\ Goto(t, "loop")
  /\ UNCHANGED <<ring, state, mask, lock, peerVars, nonblock, left, hist>>

\* One turn of sbuf_read's loop.
ReadLoop(t) ==
  LET n == Least(Used, left[t])
  IN /\ pc[t] \in {"enter", "loop"}
     /\ IF left[t] > 0 /\ ~Blocked("r") /\ state["r"] = "ready"
        THEN /\ chunk' = [chunk EXCEPT
                            ![t] = [i \in 1..n |-> buf[(Slot(rd) + i - 1) % Size]]]
             /\ left' = [left EXCEPT ![t] = @ - n]
             /\ Goto(t, "bump")
        ELSE Goto(t, "done") /\ UNCHANGED <<chunk, left>>
     /\ UNCHANGED <<ring, state, mask, lock, inbox, peerVars, nonblock, hist>>

\* A form of ReadBump that moves the pointer by one byte.
ReadBumpShort(t) ==
  /\ pc[t] = "bump"
  /\ rd' = Add(rd, 1)
  /\ sent' = SubSeq(sent, Len(chunk[t]) + 1, Len(sent))
  /\ Goto(t, "notify")
  /\ UNCHANGED <<wt, buf, state, mask, lock, inbox, peerVars, nonblock, left, chunk,
                 issued, stale>>

ReadBump(t) ==
  /\ pc[t] = "bump"
  /\ rd' = Add(rd, Len(chunk[t]))
  /\ sent' = SubSeq(sent, Len(chunk[t]) + 1, Len(sent))
  /\ Goto(t, "notify")
  /\ UNCHANGED <<wt, buf, state, mask, lock, inbox, peerVars, nonblock, left, chunk,
                 issued, stale>>

\* SMSG_EVENT_SBUF_RDPTR, when the ring was full.
ReadNotify(t) ==
  /\ pc[t] = "notify"
  /\ inbox' = IF Used = Size - Len(chunk[t]) THEN Sent("w", "RDPTR") ELSE inbox
  /\ chunk' = [chunk EXCEPT ![t] = <<>>]
  /\ Goto(t, "loop")
  /\ UNCHANGED <<ring, state, mask, lock, peerVars, nonblock, left, hist>>

Copy(t) ==
  \/ t \in Writers /\ (WriteLoop(t) \/ WriteBump(t) \/ WriteNotify(t))
  \/ t \in Readers /\ (ReadLoop(t) \/ ReadBump(t) \/ ReadNotify(t))

Step(t) == Lock(t) \/ Test(t) \/ SetMask(t) \/ Wait(t) \/ Copy(t) \/ Done(t)

-----------------------------------------------------------------------------
(* sbuf_thread                                                              *)

\* The inboxes after end e took its first message.
Taken(e) == [inbox EXCEPT ![e] = Tail(@)]
Head1(e, m) == inbox[e] # <<>> /\ Head(inbox[e]) = m
\* smsg_send from the handler of a message at end e.
Reply(e, m) ==
  IF e = Host /\ Away THEN Taken(e)
  ELSE [Taken(e) EXCEPT ![Other(e)] = Append(@, m)]

EventAt(e) == e = Host \/ client = "up"

\* RDPTR sets POLLOUT and wakes txwait; WRPTR sets POLLIN and wakes rxwait.
OnEvent(e) ==
  /\ EventAt(e) /\ (Head1(e, "RDPTR") \/ Head1(e, "WRPTR"))
  /\ mask' = [mask EXCEPT ![e] = TRUE]
  /\ pc' = Woken({e})
  /\ inbox' = Taken(e)
  /\ UNCHANGED <<ring, state, lock, peerVars, nonblock, left, chunk, hist>>

\* sbuf_skip_old_data at end e: its rx ring is emptied, its tx ring is not.
SkipOldData(e) ==
  /\ mask' = [mask EXCEPT ![e] = (e = "w")]
  /\ IF e = "r" THEN rd' = wt /\ sent' = <<>> ELSE UNCHANGED <<rd, sent>>

CopiesDone == \A t \in Readers : pc[t] # "bump"

\* The host's thread skips old data when its state is still ready.
OnOpen ==
  /\ Head1(Host, "OPEN")
  /\ SkipInRead \/ CopiesDone
  /\ state' = [state EXCEPT ![Host] = "idle"]
  /\ IF state[Host] = "ready" THEN SkipOldData(Host) ELSE UNCHANGED <<rd, mask, sent>>
  /\ inbox' = Reply(Host, "OPEN")
  /\ UNCHANGED <<wt, buf, lock, peerVars, threadVars, issued, stale>>

\* Nobody is woken.  (To a client that is up it is the late answer to the CLOSE of
\* an earlier life.)
OnClose(e) ==
  /\ EventAt(e) /\ Head1(e, "CLOSE")
  /\ SkipInRead \/ CopiesDone
  /\ SkipOldData(e)
  /\ state' = [state EXCEPT ![e] = "idle"]
  /\ inbox' = Reply(e, "CLOSE")
  /\ UNCHANGED <<wt, buf, lock, peerVars, threadVars, issued, stale>>

\* SMSG_CMD_SBUF_INIT is answered only when idle.
OnCmd ==
  /\ Head1(Host, "CMD")
  /\ state' = [state EXCEPT ![Host] = "ready"]
  /\ inbox' = IF state[Host] = "idle" THEN Reply(Host, "DONE") ELSE Taken(Host)
  /\ UNCHANGED <<ring, mask, lock, peerVars, threadVars, hist>>

\* The client in smsg_ch_open, then waiting for SMSG_DONE_SBUF_INIT; other
\* messages are dropped.  sbuf_client_init makes a new poll mask.  Once it is
\* up it drops the answers to an earlier OPEN or CMD.
ClientRecv ==
  /\ ~Away /\ inbox[Client] # <<>>
  /\ client = "up" => Head(inbox[Client]) \in {"OPEN", "DONE"}
  /\ \/ /\ client = "opening" /\ Head1(Client, "OPEN")
        /\ client' = "init"
        /\ inbox' = [Taken(Client) EXCEPT ![Host] = Append(@, "CMD")]
        /\ UNCHANGED <<state, mask>>
     \/ /\ client = "init" /\ Head1(Client, "DONE")
        /\ client' = "up"
        /\ state' = [state EXCEPT ![Client] = "ready"]
        /\ mask' = [mask EXCEPT ![Client] = (Client = "w")]
        /\ inbox' = Taken(Client)
     \/ /\ ~(client = "opening" /\ Head1(Client, "OPEN"))
        /\ ~(client = "init" /\ Head1(Client, "DONE"))
        /\ inbox' = Taken(Client)
        /\ UNCHANGED <<client, state, mask>>
  /\ UNCHANGED <<ring, lock, stops, threadVars, hist>>

Thread ==
  \/ \E e \in Ends : OnEvent(e)
  \/ OnOpen \/ OnCmd \/ \E e \in Ends : OnClose(e)
  \/ ClientRecv

-----------------------------------------------------------------------------
(* The client goes, with its threads, and comes back.                       *)

ClientThread(t) == EndOf(t) = Client

\* "crash": nothing is said.  "close": sbuf_destroy at the client sends CLOSE.
\* "remove": sprd_pci_ep_dev_remove calls sbuf_down at the host.
ClientStop(way) ==
  LET down == way = "remove"
  IN /\ ~Away /\ stops < MaxStops
     /\ client' = (IF down THEN "gone" ELSE "off") /\ stops' = stops + 1
     /\ stale' = IF down THEN stale ELSE issued
     /\ inbox' = [inbox EXCEPT ![Client] = <<>>,
                               ![Host] = IF way = "close" THEN Append(@, "CLOSE") ELSE @]
     /\ state' = [e \in Ends |-> IF e = Client \/ down THEN "idle" ELSE state[e]]
     /\ lock' = [lock EXCEPT ![Client] = NoOne]
     /\ pc' = [t \in Threads |->
                 IF ClientThread(t) THEN "out"
                 ELSE IF down THEN Woken({Host})[t] ELSE pc[t]]
     /\ left' = [t \in Threads |-> IF ClientThread(t) THEN 0 ELSE left[t]]
     /\ nonblock' = [t \in Threads |-> ~ClientThread(t) /\ nonblock[t]]
     /\ chunk' = [t \in Threads |-> IF ClientThread(t) THEN <<>> ELSE chunk[t]]
     /\ UNCHANGED <<ring, mask, issued, sent>>

\* smsg_ch_open of the client that starts again.
ClientStart ==
  /\ Away
  /\ SlowHost \/ inbox[Host] = <<>>
  /\ client' = "opening"
  /\ inbox' = [inbox EXCEPT ![Host] = Append(@, "OPEN")]
  /\ UNCHANGED <<ring, state, mask, lock, stops, threadVars, hist>>

-----------------------------------------------------------------------------
Next ==
  \/ \E t \in Threads : Call(t) \/ Step(t) \/ Abort(t) \/ Fault(t)
  \/ Thread
  \/ \E way \in Ways : ClientStop(way)
  \/ ClientStart

Spec == Init /\ [][Next]_vars

-----------------------------------------------------------------------------
(* Properties                                                               *)

\* The pointers never pass each other: at most Size bytes lie between them,
\* across every wrap, with both ends and the handlers of OPEN and CLOSE moving.
NoOverrun == Used <= Size

\* The bytes of the ring between the pointers, as sbuf_read would find them.
Content == [i \in 1..Used |-> buf[(Slot(rd) + i - 1) % Size]]

\* What lies between the pointers is what was written and not read or skipped.
ContentIntact == Content = sent

\* The chunk that a reader has just taken out of the ring.
Delivered ==
  LET R == {t \in Readers : pc[t] = "notify"}
  IN IF R = {} THEN <<>> ELSE chunk[CHOOSE t \in R : TRUE]

\* The ring implements the pipe of include/sipc.h: concurrent sbuf_write calls
\* only append, and what sbuf_read copies before it moves the pointer is exactly
\* what leaves the pipe.
Pipe == INSTANCE BytePipe WITH N <- Size, pipe <- Content, got <- Delivered
PipeSpec == Pipe!Spec

\* When a client is up again after a crash or a close, the host reads nothing
\* that the earlier life of the client wrote: sbuf_skip_old_data ran in between.
\* (After a removal of the device the state is idle already and OPEN skips
\* nothing; the bytes stay.)
FreshData ==
  (Host = "r" /\ client = "up") => \A i \in DOMAIN sent : sent[i] > stale

\* With writers and readers, blocking or not, at both ends, and the client's end
\* coming and going, the ring of an sbuf is neither overrun nor damaged, and the
\* host is given no bytes of an earlier life of the client.
PipeSafe == TypeOK /\ NoOverrun /\ ContentIntact /\ FreshData

\* The wake-up of end e is on its way: the event is with its sbuf_thread, or a thread
\* of the other end has moved its pointer and is about to send it.
WakeComing(e) ==
  \/ \E i \in DOMAIN inbox[e] : inbox[e][i] \in {"RDPTR", "WRPTR"}
  \/ \E t \in Threads : EndOf(t) = Other(e) /\ pc[t] = "notify"

\* No wake-up is lost at end e: as long as the client has not gone, a thread sleeps
\* although what it waits for is there only while its wake-up is on its way.  Events
\* are sent on the edge from empty (from full) only, so an edge missed by who is about
\* to sleep comes from nobody again.  (A client that crashes between moving its
\* pointer and sending the event takes the wake-up with it.)
NoWakeLost(e) ==
  stops = 0 =>
    \A t \in Threads :
      EndOf(t) = e /\ pc[t] = "asleep" /\ ~Blocked(e) => WakeComing(e)

\* At an end with local memory (the host of this build), whose sleepers look at the
\* pointers (sbuf_has_data), no wake-up is lost.
LocalSleepersWoken == \A e \in LocalEnds : NoWakeLost(e)

\* The same of an end with remote memory (the client of this build), whose sleepers
\* look at the poll mask, which "must be accurate enough" (sbuf.c:87).  It is not: a
\* caller that found the ring full clears the mask after an event has set it.
RemoteSleepersWoken == \A e \in Ends \ LocalEnds : NoWakeLost(e)

\* While the device is gone, nobody sleeps in a call on the sbuf that sbuf_down
\* made idle: it wakes the sleepers after the state has changed, and who is
\* about to sleep looks at the state once more.
DownReleases ==
  client = "gone" => \A t \in Threads : state[EndOf(t)] = "idle" => pc[t] # "asleep"
=============================================================================
