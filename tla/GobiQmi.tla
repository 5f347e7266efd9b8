------------------------------ MODULE GobiQmi ------------------------------
(***************************************************************************)
(* The QMI clients of the GobiNet driver (quectel_Gobinet/src/QMIDevice.c).*)
(* Every open file of the character device has a client of a QMI service;  *)
(* client QMICTL serves the driver's own requests (a client id is asked    *)
(* for, and given back, by a request of QMICTL), client QMIWDS its         *)
(* callback.  A client has the messages read for it (mpList), those who    *)
(* wait for one (mpReadNotifyList) and its writes on the way (mpURBList),  *)
(* all under mClientMemLock.  The lock is given up around every            *)
(* notification and every usb_kill_urb.                                    *)
(*                                                                         *)
(* A step is one critical section of the code, or the code between two.    *)
(***************************************************************************)
EXTENDS Integers, SequencesExt, FiniteSetsExt

CONSTANTS
  Files, Listened,   \* open files of the character device; those somebody reads
  QMICTL, QMIWDS,    \* the driver's two clients
  Ids, NoId,         \* client ids the modem gives out; none
  MaxTid,            \* 255, the largest transaction id (u8)
  Wda, WdaId,        \* the files that ask for QMIWDA; the only id it has
  Allowed,           \* what may happen besides, see Circumstances
  MaxWrites, MaxInds \* bounds: requests written, indications received

Circumstances ==
  {"overtake",  \* a writer is back from its wait before one that queued earlier
   "sigrace",   \* a reader gives up while a notification of it is under way
   "cbrace",    \* a client is released while ReadCallback has given up the lock
   "busy",      \* the device goes while requests are under way
   "overflow"}  \* the interrupt URB ends with -EOVERFLOW

Clients == Ids \union {QMICTL, QMIWDS}
User(f) == <<f, "user">>      \* thread of f in open, ioctl, write, close
Reader(f) == <<f, "reader">>  \* thread of f in poll and read
Remover == <<"usb", "unbind">>
ReadCb == <<"usb", "callback">>
Readers == {Reader(f) : f \in Listened}
Procs == {User(f) : f \in Files} \union Readers \union {Remover}
Notifiers == Procs \union {ReadCb}
Urbs == 1..MaxWrites

ASSUME GobiAssumption ==
  /\ QMICTL # QMIWDS /\ {QMICTL, QMIWDS, NoId} \cap Ids = {}
  /\ NoId \notin {QMICTL, QMIWDS}
  /\ MaxTid \in Nat \ {0} /\ MaxWrites \in Nat /\ MaxInds \in Nat
  /\ Listened \subseteq Files /\ Wda \subseteq Files /\ WdaId \in Ids /\ Allowed \subseteq Circumstances

VARIABLES
  clist,    \* mpClientMemList
  mem,      \* mpList, mpReadNotifyList, mpURBList of each client
  task,     \* the local variables of each process
  held,     \* the entry that NotifyAndPopNotifyList of each notifier runs
  urb,      \* each write's URB
  ntid,     \* mQMICTLTransactionID
  file,     \* each file: open, and its mClientID
  device,   \* mbQMIValid and mbDeregisterQMIDevice
  reading,  \* the chain of interrupt and read URBs
  cb,       \* ReadCallback's message, and where it is in mpClientMemList
  wire,     \* requests the modem has not answered
  used,     \* the modem's client ids in use
  inds      \* number of indications

gobiVars ==
  <<clist, mem, task, held, urb, ntid, file, device, reading, cb, wire, used, inds>>
modem == <<wire, used, inds>>

NoMem == [list |-> <<>>, notify |-> <<>>, urbs |-> <<>>]
NoMsg == [tid |-> 0, of |-> 0, id |-> NoId]
\* An entry of mpReadNotifyList: UpSem of a reader, or QMIWDSCallback, which runs
\* in two steps.
Entry(p, tid) == [who |-> p, tid |-> tid, step |-> "run"]
NoEntry == Entry(<<>>, 0)
WdsEntry == Entry(ReadCb, 0)
Gone == [at |-> NoId, to |-> {}, m |-> NoMsg]
NoTask ==
  [pc |-> "idle", op |-> "none", c |-> NoId, tid |-> 0, u |-> 0, got |-> NoMsg,
   arg |-> NoId, nxt |-> NoId, fresh |-> FALSE, sig |-> FALSE]

Present(c) == Contains(clist, c)                               \* FindClientMem
Position(c) == SelectInSeq(clist, LAMBDA x : x = c)
Succ(c) ==
  IF Position(c) < Len(clist) THEN clist[Position(c) + 1] ELSE NoId

GobiTypeOK ==
  /\ \A i \in 1..Len(clist) : clist[i] \in Clients
  /\ \A c \in Clients :
       /\ \A i \in 1..Len(mem[c].list) : mem[c].list[i].tid \in 0..MaxTid
       /\ \A i \in 1..Len(mem[c].notify) : mem[c].notify[i].who \in Notifiers
       /\ \A i \in 1..Len(mem[c].urbs) : mem[c].urbs[i] \in Urbs
  /\ \A p \in Procs :
       /\ task[p].pc \in {"idle", "w_add", "w_submit", "w_wait", "w_pop", "r_look", "r_wait",
                          "r_remove", "poll", "alloc", "clean", "c_up", "c_more", "c_kill",
                          "c_next", "again", "d_loop", "d_wait", "d_done"}
       /\ task[p].op \in {"none", "get", "get2", "rel", "force", "write", "read", "poll"}
       /\ task[p].u \in 0..MaxWrites /\ task[p].tid \in 0..MaxTid
  /\ \A n \in Notifiers : held[n].who \in Notifiers \union {<<>>}
  /\ urb \in [Urbs -> {"none", "alloc", "flying", "done", "freed"}]
  /\ ntid \in 0..MaxTid
  /\ file \in [Files -> [open : BOOLEAN, id : Ids \union {NoId}]]
  /\ device \in {"live", "removing", "invalid"}
  /\ reading \in {"armed", "read", "notify", "back", "dead"}
  /\ used \subseteq Ids /\ inds \in 0..MaxInds

\* RegisterQMIDevice is done: QMICTL was set up first, SetupQMIWDSCallback has
\* started its asynchronous read, the interrupt URB is submitted.
GobiInit ==
  /\ clist = <<QMICTL, QMIWDS>>
  /\ mem = [c \in Clients |->
              IF c = QMIWDS THEN [NoMem EXCEPT !.notify = <<WdsEntry>>] ELSE NoMem]
  /\ task = [p \in Procs |-> NoTask]
  /\ held = [n \in Notifiers |-> NoEntry]
  /\ urb = [u \in Urbs |-> "none"]
  /\ ntid = 0
  /\ file = [f \in Files |-> [open |-> FALSE, id |-> NoId]]
  /\ device = "live" /\ reading = "armed" /\ cb = Gone
  /\ wire = {} /\ used = {} /\ inds = 0

IsDeviceValid == device # "invalid"

-----------------------------------------------------------------------------
(* The lists of a client.                                                   *)

Matches(want, tid) == want = 0 \/ want = tid

\* PopFromReadMemList: index of the first message for transaction tid, or 0.
FirstRead(c, tid) == SelectInSeq(mem[c].list, LAMBDA m : Matches(tid, m.tid))

\* NotifyAndPopNotifyList: index of the first to be told of tid, or 0.
FirstWaiterExact(c, tid) ==
  SelectInSeq(mem[c].notify, LAMBDA e : tid = 0 \/ e.tid = tid)
FirstWaiter(c, tid) ==
  SelectInSeq(mem[c].notify, LAMBDA e : tid = 0 \/ Matches(e.tid, tid))

\* Process p goes on at l; when its call returns its local variables are gone.
Onward(r, l) == IF l = "idle" THEN NoTask ELSE [r EXCEPT !.pc = l]
Goto(p, l) == task' = [task EXCEPT ![p] = Onward(@, l)]

\* A call returns; after GetClientID has failed for QMIWDA there is another try.
Failed(p) == IF task[p].op = "get" /\ p[1] \in Wda THEN "again" ELSE "idle"

\* Where a process goes on when its WriteSync, its ReadSync has returned.
AfterWrite(p, ok) ==
  CASE task[p].op \in {"rel", "force"} -> IF ok THEN "r_look" ELSE "clean"
    [] task[p].op \in {"get", "get2"} /\ ok -> "r_look"
    [] OTHER -> Failed(p)
AfterRead(p, ok) ==
  CASE task[p].op \in {"rel", "force"} -> "clean"
    [] task[p].op \in {"get", "get2"} /\ ok -> "alloc"
    [] OTHER -> Failed(p)

-----------------------------------------------------------------------------
(* The calls of user space.                                                 *)

UserspaceOpen(f) ==
  /\ ~file[f].open /\ IsDeviceValid /\ task[User(f)].pc = "idle"
  /\ file' = [file EXCEPT ![f] = [open |-> TRUE, id |-> NoId]]
  /\ UNCHANGED <<clist, mem, task, held, urb, ntid, device, reading, cb, modem>>

\* QMIXactionIDGet: the next id, and no answer to an earlier request with it; the
\* other messages keep their order.
NextTid == IF ntid = MaxTid THEN 1 ELSE ntid + 1
PurgeNothing(list) == list
Purged(list) ==
  LET kept == {i \in 1..Len(list) : list[i].tid # NextTid} IN
  [k \in 1..Cardinality(kept) |->
     list[CHOOSE i \in kept : Cardinality({j \in kept : j < i}) = k - 1]]

\* GetClientID and ReleaseClientID of client c up to their WriteSync.  No request is
\* under way, and no answer to come, for as long as 255 further requests take.
CtlRequest(p, o, c) ==
  /\ \A r \in wire : r.c = QMICTL => r.tid # NextTid
  /\ \A q \in Procs :
       task[q].pc \notin {"idle", "again"} /\ task[q].c = QMICTL => task[q].tid # NextTid
  /\ ntid' = NextTid
  /\ mem' = [mem EXCEPT ![QMICTL].list = Purged(@)]
  /\ task' = [task EXCEPT ![p] = [NoTask EXCEPT !.pc = "w_add", !.op = o, !.c = QMICTL,
                                                !.tid = NextTid, !.arg = c]]

\* The ids of the service that f asks for are those that go with this one.
Service(f) == IF f \in Wda THEN WdaId ELSE NoId
IdsOf(s) == IF s = WdaId THEN {WdaId} ELSE Ids \ {WdaId}

\* While the device is removed, new requests come only if "busy" is allowed.
MayWrite == device = "live" \/ "busy" \in Allowed
Spare == \E u \in Urbs : urb[u] = "none"

\* IOCTL_QMI_GET_SERVICE_FILE.
GetServiceFile(f) ==
  /\ task[User(f)].pc = "idle" /\ file[f].open /\ file[f].id = NoId
  /\ IsDeviceValid /\ MayWrite /\ Spare
  /\ CtlRequest(User(f), "get", Service(f))
  /\ UNCHANGED <<clist, held, urb, file, device, reading, cb, modem>>

UserspaceWrite(f) ==
  /\ task[User(f)].pc = "idle" /\ file[f].open /\ file[f].id # NoId
  /\ IsDeviceValid /\ MayWrite /\ Spare
  /\ task' = [task EXCEPT ![User(f)] = [NoTask EXCEPT !.pc = "w_add", !.op = "write",
                                                      !.c = file[f].id]]
  /\ UNCHANGED <<clist, mem, held, urb, ntid, file, device, reading, cb, modem>>

Leaving(f) == task[User(f)].op = "rel"

UserspaceRead(f) ==
  /\ f \in Listened /\ task[Reader(f)].pc = "idle" /\ ~Leaving(f) /\ file[f].id # NoId /\ IsDeviceValid
  /\ task' = [task EXCEPT ![Reader(f)] = [NoTask EXCEPT !.pc = "r_look", !.op = "read",
                                                        !.c = file[f].id]]
  /\ UNCHANGED <<clist, mem, held, urb, ntid, file, device, reading, cb, modem>>

\* UserspacePoll that has to wait; with data, or without client, it returns.
UserspacePoll(f) ==
  /\ f \in Listened /\ task[Reader(f)].pc = "idle" /\ ~Leaving(f) /\ file[f].id # NoId /\ device = "live"
  /\ Present(file[f].id) /\ mem[file[f].id].list = <<>>
  /\ task' = [task EXCEPT ![Reader(f)] = [NoTask EXCEPT !.pc = "poll", !.op = "poll",
                                                        !.c = file[f].id]]
  /\ UNCHANGED <<clist, mem, held, urb, ntid, file, device, reading, cb, modem>>

\* UserspaceClose is the file's release: no other call of f is under way.
UserspaceClose(f) ==
  /\ task[User(f)].pc = "idle" /\ file[f].open
  /\ f \in Listened => task[Reader(f)].pc = "idle"
  /\ IF device = "live" /\ file[f].id # NoId
     THEN /\ Spare
          /\ CtlRequest(User(f), "rel", file[f].id)
          /\ UNCHANGED file
     ELSE /\ file' = [file EXCEPT ![f] = [open |-> FALSE, id |-> NoId]]
          /\ UNCHANGED <<mem, ntid, task>>
  /\ UNCHANGED <<clist, held, urb, device, reading, cb, modem>>

-----------------------------------------------------------------------------
(* WriteSync.                                                               *)

\* The woken or interrupted writer takes its URB off the list.
PopFromURBList(c) == [mem EXCEPT ![c].urbs = IF @ = <<>> THEN @ ELSE Tail(@)]
OwnIsFirst(p) ==
  /\ Present(task[p].c) /\ mem[task[p].c].urbs # <<>>
  /\ Head(mem[task[p].c].urbs) = task[p].u
InTurn(p) == "overtake" \in Allowed \/ OwnIsFirst(p) \/ ~Present(task[p].c)

\* Up to AddToURBList; it fails when the device could not be woken or the
\* client is gone.
AddToURBList(p) ==
  /\ task[p].pc = "w_add"
  /\ \/ /\ Goto(p, AfterWrite(p, FALSE))
        /\ UNCHANGED <<mem, urb>>
     \/ LET u == Min({x \in Urbs : urb[x] = "none"}) IN
        /\ Spare /\ IsDeviceValid /\ Present(task[p].c)
        /\ urb' = [urb EXCEPT ![u] = "alloc"]
        /\ mem' = [mem EXCEPT ![task[p].c].urbs = Append(@, u)]
        /\ task' = [task EXCEPT ![p].pc = "w_submit", ![p].u = u]
  /\ UNCHANGED <<clist, held, ntid, file, device, reading, cb, modem>>

\* usb_submit_urb, outside the lock.
Submit(p) ==
  /\ task[p].pc = "w_submit"
  /\ urb' = [urb EXCEPT ![task[p].u] = IF @ = "alloc" THEN "flying" ELSE @]
  /\ Goto(p, "w_wait")
  /\ UNCHANGED <<clist, mem, held, ntid, file, device, reading, cb, modem>>

\* It fails: the URB is taken back and freed if it is the writer's own.
SubmitFails(p) ==
  /\ task[p].pc = "w_submit" /\ InTurn(p)
  /\ urb' = [urb EXCEPT ![task[p].u] = IF OwnIsFirst(p) THEN "freed" ELSE @]
  /\ mem' = PopFromURBList(task[p].c)
  /\ Goto(p, AfterWrite(p, FALSE))
  /\ UNCHANGED <<clist, held, ntid, file, device, reading, cb, modem>>

\* WriteSyncCallback, with the status good: the modem has the request.
WriteSyncCallback(p) ==
  /\ task[p].pc \in {"w_wait", "w_pop"} /\ urb[task[p].u] = "flying"
  /\ urb' = [urb EXCEPT ![task[p].u] = "done"]
  /\ wire' = wire \union {[op |-> task[p].op, c |-> task[p].c, tid |-> task[p].tid,
                           of |-> task[p].u, arg |-> task[p].arg]}
  /\ UNCHANGED <<clist, mem, task, held, ntid, file, device, reading, cb, used, inds>>

\* down_interruptible returns: the URB is done, or a signal came and 200 ms passed.
WriteDown(p) ==
  /\ task[p].pc = "w_wait"
  /\ \E s \in BOOLEAN :
       /\ ~s => urb[task[p].u] \in {"done", "freed"}
       /\ s => urb[task[p].u] = "flying"
       /\ task' = [task EXCEPT ![p].pc = "w_pop", ![p].sig = s]
  /\ UNCHANGED <<clist, mem, held, urb, ntid, file, device, reading, cb, modem>>

\* An URB that is not the writer's own came back ("This shouldn't happen"): its
\* own is killed and not freed.
WritePop(p) ==
  /\ task[p].pc = "w_pop" /\ InTurn(p)
  /\ mem' = IF IsDeviceValid THEN PopFromURBList(task[p].c) ELSE mem
  /\ urb' = [urb EXCEPT ![task[p].u] =
               IF @ = "freed" \/ (IsDeviceValid /\ OwnIsFirst(p)) THEN "freed" ELSE "done"]
  /\ Goto(p, AfterWrite(p, IsDeviceValid /\ OwnIsFirst(p) /\ ~task[p].sig))
  /\ UNCHANGED <<clist, held, ntid, file, device, reading, cb, modem>>

-----------------------------------------------------------------------------
(* ReadSync.                                                                *)

\* The lock is had at once by a reader that gives up, and by one that notifies
\* right after the notification.
Prompt(c) ==
  /\ "sigrace" \in Allowed \/ \A p \in Procs : task[p].pc # "r_remove"
  /\ \A p \in Procs : ~(task[p].pc = "c_more" /\ task[p].arg = c)

\* Pop a message, or wait for one; fails when the client is gone.
Look(p) ==
  LET c == task[p].c
      i == FirstRead(c, task[p].tid) IN
  /\ task[p].pc = "r_look" /\ Prompt(c)
  /\ \/ /\ ~IsDeviceValid \/ ~Present(c)
        /\ Goto(p, AfterRead(p, FALSE))
        /\ UNCHANGED mem
     \/ /\ IsDeviceValid /\ Present(c) /\ i > 0
        /\ task' = [task EXCEPT ![p] = Onward([@ EXCEPT !.got = mem[c].list[i]], AfterRead(p, TRUE))]
        /\ mem' = [mem EXCEPT ![c].list = RemoveAt(@, i)]
     \/ /\ IsDeviceValid /\ Present(c) /\ i = 0
        /\ task' = [task EXCEPT ![p].pc = "r_wait", ![p].fresh = TRUE]
        /\ mem' = [mem EXCEPT ![c].notify = Append(@, Entry(p, task[p].tid))]
  /\ UNCHANGED <<clist, held, urb, ntid, file, device, reading, cb, modem>>

\* A signal, and nothing within 200 ms.
ReadTimeout(p) ==
  /\ task[p].pc = "r_wait"
  /\ "sigrace" \in Allowed \/ \A n \in Notifiers : held[n].who # p
  /\ Goto(p, "r_remove")
  /\ UNCHANGED <<clist, mem, held, urb, ntid, file, device, reading, cb, modem>>

\* readSem falls out of scope: its entry is removed, through the pClientMem that
\* was found before the wait.
ReadGiveUpOnly(p) ==
  /\ task[p].pc = "r_remove"
  /\ Goto(p, AfterRead(p, FALSE))
  /\ UNCHANGED <<clist, mem, held, urb, ntid, file, device, reading, cb, modem>>
ReadGiveUp(p) ==
  /\ task[p].pc = "r_remove"
  /\ mem' = [mem EXCEPT ![task[p].c].notify = RemoveFirstMatch(@, LAMBDA e : e.who = p)]
  /\ Goto(p, AfterRead(p, FALSE))
  /\ UNCHANGED <<clist, held, urb, ntid, file, device, reading, cb, modem>>

-----------------------------------------------------------------------------
(* IntCallback, ReadCallback, the modem.                                    *)

\* An interrupt says that there is something to read.  After -EOVERFLOW the
\* interrupt URB is not submitted again.
IntCallback ==
  /\ reading = "armed" /\ (wire # {} \/ inds < MaxInds)
  /\ \/ reading' = "read"
     \/ "overflow" \in Allowed /\ reading' = "dead"
  /\ UNCHANGED <<clist, mem, task, held, urb, ntid, file, device, cb, modem>>

\* Readers in poll() on the clients C are woken.
PollersWoken(C) ==
  [p \in Procs |-> IF task[p].pc = "poll" /\ task[p].c \in C THEN NoTask ELSE task[p]]

\* The walk along mpClientMemList from position k on, for message m to the clients
\* C: up to the first that has somebody to notify, where the lock is given up.  Of
\* the clients in served only poll() is still to be woken.
ServeFrom(k, C, m, served) ==
  LET hits == {i \in k..Len(clist) : clist[i] \in C}
      stops == {i \in hits : FirstWaiter(clist[i], m.tid) > 0}
      end == IF stops = {} THEN Len(clist) ELSE Min(stops)
      seen == {clist[i] : i \in {j \in hits : j <= end}}
      at == IF stops = {} THEN NoId ELSE clist[end] IN
  /\ mem' = [c \in Clients |->
       IF c \notin seen THEN mem[c]
       ELSE [mem[c] EXCEPT !.list = Append(@, m),
                           !.notify = IF c = at THEN RemoveAt(@, FirstWaiter(c, m.tid)) ELSE @]]
  /\ held' = [held EXCEPT ![ReadCb] =
       IF stops = {} THEN NoEntry ELSE mem[at].notify[FirstWaiter(at, m.tid)]]
  /\ cb' = IF stops = {} THEN Gone ELSE [at |-> at, to |-> C, m |-> m]
  /\ reading' = IF stops = {} THEN "armed" ELSE "notify"
  /\ task' = PollersWoken((seen \ {at}) \union served)

\* The modem's answer to request r; it has given out or taken back a client id.
Answer(r) ==
  /\ wire' = wire \ {r}
  /\ UNCHANGED inds
  /\ \/ /\ r.op = "write"
        /\ UNCHANGED used
        /\ ServeFrom(1, {r.c}, [tid |-> 1, of |-> r.of, id |-> NoId], {})
     \/ /\ r.op \in {"rel", "force"}
        /\ used' = used \ {r.arg}
        /\ ServeFrom(1, {QMICTL}, [tid |-> r.tid, of |-> r.of, id |-> NoId], {})
     \/ /\ r.op \in {"get", "get2"}
        /\ \E id \in (IdsOf(r.arg) \ used) \union {NoId} :
             /\ id = NoId => IdsOf(r.arg) \subseteq used
             /\ used' = IF id = NoId THEN used ELSE used \union {id}
             /\ ServeFrom(1, {QMICTL}, [tid |-> r.tid, of |-> r.of, id |-> id], {})

\* An indication, for one client or for all clients of QMIWDS.
Indication ==
  /\ inds < MaxInds /\ inds' = inds + 1
  /\ \E C \in {{c} : c \in Ids \union {QMIWDS}} \union {IdsOf(NoId) \union {QMIWDS}} :
       ServeFrom(1, C, NoMsg, {})
  /\ UNCHANGED <<wire, used>>

ReadCallback ==
  /\ reading = "read" /\ Prompt(NoId)
  /\ (\E r \in wire : Answer(r)) \/ Indication
  /\ UNCHANGED <<clist, urb, ntid, file, device>>

\* The read URB failed: only the interrupt URB is submitted again.
ReadFailsDies ==
  /\ reading = "read"
  /\ reading' = "dead"
  /\ UNCHANGED <<clist, mem, task, held, urb, ntid, file, device, cb, modem>>
ReadFails ==
  /\ reading = "read"
  /\ reading' = "armed"
  /\ UNCHANGED <<clist, mem, task, held, urb, ntid, file, device, cb, modem>>

\* The lock is taken again, poll() woken, the walk goes on.
ReadCallbackResumes ==
  /\ reading = "back" /\ Prompt(NoId)
  /\ ServeFrom(Position(cb.at) + 1, cb.to, cb.m, {cb.at})
  /\ UNCHANGED <<clist, urb, ntid, file, device, modem>>

-----------------------------------------------------------------------------
(* Notifications, by ReadCallback or by a process that releases a client;   *)
(* the lock is not held.                                                    *)

Notifying(n) == IF n = ReadCb THEN reading = "notify" ELSE task[n].pc = "c_up"

\* The notification is over.
Notified(n, tsk) ==
  /\ held' = [held EXCEPT ![n] = NoEntry]
  /\ reading' = IF n = ReadCb THEN "back" ELSE reading
  /\ task' = IF n = ReadCb THEN tsk ELSE [tsk EXCEPT ![n].pc = "c_more"]

UpSem(n) ==
  LET p == held[n].who IN
  /\ Notifying(n) /\ p \in Procs
  /\ Notified(n, [task EXCEPT ![p].pc = IF @ = "r_wait" THEN "r_look" ELSE @])
  /\ UNCHANGED <<clist, mem, urb, ntid, file, device, cb, modem>>

\* QMIWDSCallback takes one message; without one it does not start another read.
QMIWDSCallback(n) ==
  /\ Notifying(n) /\ held[n] = WdsEntry
  /\ IF Present(QMIWDS) /\ mem[QMIWDS].list # <<>>
     THEN /\ mem' = [mem EXCEPT ![QMIWDS].list = Tail(@)]
          /\ held' = [held EXCEPT ![n].step = "arm"]
          /\ UNCHANGED <<task, reading>>
     ELSE Notified(n, task) /\ UNCHANGED mem
  /\ UNCHANGED <<clist, urb, ntid, file, device, cb, modem>>

\* Its ReadAsync: the callback again if there is data, else the entry is queued.
ReadAsync(n) ==
  /\ Notifying(n) /\ held[n].step = "arm"
  /\ IF Present(QMIWDS) /\ mem[QMIWDS].list # <<>>
     THEN /\ held' = [held EXCEPT ![n] = WdsEntry]
          /\ UNCHANGED <<mem, task, reading>>
     ELSE /\ Notified(n, task)
          /\ mem' = [mem EXCEPT ![QMIWDS].notify =
                       IF Present(QMIWDS) THEN Append(@, WdsEntry) ELSE @]
  /\ UNCHANGED <<clist, urb, ntid, file, device, cb, modem>>

-----------------------------------------------------------------------------
(* The last parts of GetClientID and ReleaseClientID; DeregisterQMIDevice.  *)

\* The modem's id becomes a client, unless there is one.
GetClientIDUnchecked(f) ==
  LET p == User(f)
      id == task[p].got.id IN
  /\ task[p].pc = "alloc" /\ id # NoId
  /\ clist' = Append(clist, id)
  /\ file' = [file EXCEPT ![f].id = id]
  /\ Goto(p, "idle")
  /\ UNCHANGED <<mem, held, urb, ntid, device, reading, cb, modem>>
GetClientID(f) ==
  LET p == User(f)
      id == task[p].got.id IN
  /\ task[p].pc = "alloc"
  /\ IF id # NoId /\ ~Present(id)
     THEN /\ clist' = Append(clist, id)
          /\ file' = [file EXCEPT ![f].id = id]
          /\ Goto(p, "idle")
     ELSE /\ Goto(p, Failed(p))
          /\ UNCHANGED <<clist, file>>
  /\ UNCHANGED <<mem, held, urb, ntid, device, reading, cb, modem>>

\* It failed, and the service is QMIWDA: its only client is released by force,
\* then a client is asked for once more.
ForceRelease(f) ==
  /\ task[User(f)].pc = "again"
  /\ IF IsDeviceValid
     THEN Spare /\ CtlRequest(User(f), IF task[User(f)].op = "get" THEN "force" ELSE "get2", WdaId)
     ELSE Goto(User(f), "idle") /\ UNCHANGED <<mem, ntid>>
  /\ UNCHANGED <<clist, held, urb, file, device, reading, cb, modem>>

\* Where a process goes on after ReleaseClientID of its client, and its file.
Released(p, C) ==
  /\ task' = [q \in Procs |->
       IF q = p
       THEN [NoTask EXCEPT !.op = IF task[p].op = "force" THEN "force" ELSE "none",
                           !.pc = CASE p = Remover -> "d_loop"
                                    [] task[p].op = "force" -> "again"
                                    [] OTHER -> "idle"]
       ELSE [task[q] EXCEPT !.fresh = @ /\ task[q].c \notin C]]
  /\ file' = IF task[p].op = "rel" THEN [file EXCEPT ![p[1]] = [open |-> FALSE, id |-> NoId]]
             ELSE file

\* With nobody left to notify: the next write of client c is taken to be killed, or
\* the client is deleted and its predecessor linked to the one that was next.
FreeUrbsOrDelete(p, c, nxt) ==
  IF mem[c].urbs # <<>>
  THEN /\ mem' = PopFromURBList(c)
       /\ task' = [task EXCEPT ![p].pc = "c_kill", ![p].u = Head(mem[c].urbs), ![p].nxt = nxt]
       /\ UNCHANGED <<clist, file>>
  ELSE /\ mem' = [mem EXCEPT ![c] = NoMem]
       /\ clist' = SubSeq(clist, 1, Position(c) - 1) \o
            (IF nxt = NoId \/ ~Present(nxt) THEN <<>>
             ELSE SubSeq(clist, Position(nxt), Len(clist)))
       /\ Released(p, {c})

\* ReleaseClientID has the lock.
Exclusive ==
  Prompt(NoId) /\ ("cbrace" \in Allowed \/ reading \notin {"notify", "back"})

\* "Notify all clients", then their URBs.
Clean(p) ==
  LET c == task[p].arg
      nxt == IF task[p].pc = "clean" THEN Succ(c) ELSE task[p].nxt IN
  /\ task[p].pc \in {"clean", "c_more"} /\ Exclusive
  /\ CASE ~Present(c) -> Released(p, {}) /\ UNCHANGED <<mem, held, clist>>
       [] Present(c) /\ mem[c].notify # <<>> ->
            /\ held' = [held EXCEPT ![p] = Head(mem[c].notify)]
            /\ mem' = [mem EXCEPT ![c].notify = Tail(@)]
            /\ task' = [task EXCEPT ![p].pc = "c_up", ![p].nxt = nxt]
            /\ UNCHANGED <<clist, file>>
       [] OTHER -> FreeUrbsOrDelete(p, c, nxt) /\ UNCHANGED held
  /\ UNCHANGED <<urb, ntid, device, reading, cb, modem>>

\* usb_kill_urb and usb_free_urb, outside the lock.
KillUrb(p) ==
  /\ task[p].pc = "c_kill"
  /\ urb' = [urb EXCEPT ![task[p].u] = "freed"]
  /\ Goto(p, "c_next")
  /\ UNCHANGED <<clist, mem, held, ntid, file, device, reading, cb, modem>>

NextUrb(p) ==
  /\ task[p].pc = "c_next" /\ Exclusive
  /\ IF Present(task[p].arg)
     THEN FreeUrbsOrDelete(p, task[p].arg, task[p].nxt)
     ELSE Released(p, {}) /\ UNCHANGED <<mem, clist>>
  /\ UNCHANGED <<held, urb, ntid, device, reading, cb, modem>>

\* DeregisterQMIDevice.  Unless "busy" is allowed no request is under way.
Deregister ==
  /\ device = "live"
  /\ "busy" \in Allowed \/ \A f \in Files : task[User(f)].pc = "idle"
  /\ device' = "removing"
  /\ Goto(Remover, "d_loop")
  /\ UNCHANGED <<clist, mem, held, urb, ntid, file, reading, cb, modem>>

\* The first client of the list: those in poll() are woken until they have left,
\* then it is released.  QMICTL is the first of all, so that no request is sent.
DeregisterNoWake ==
  /\ task[Remover].pc = "d_loop" /\ clist # <<>>
  /\ \A p \in Procs : ~(task[p].pc = "poll" /\ task[p].c = Head(clist))
  /\ task' = [task EXCEPT ![Remover] = [NoTask EXCEPT !.pc = "clean", !.arg = Head(clist)]]
  /\ UNCHANGED <<clist, mem, held, urb, ntid, file, device, reading, cb, modem>>
DeregisterClient ==
  /\ task[Remover].pc = "d_loop" /\ clist # <<>>
  /\ task' = IF \E p \in Procs : task[p].pc = "poll" /\ task[p].c = Head(clist)
             THEN PollersWoken({Head(clist)})
             ELSE [task EXCEPT ![Remover] = [NoTask EXCEPT !.pc = "clean", !.arg = Head(clist)]]
  /\ UNCHANGED <<clist, mem, held, urb, ntid, file, device, reading, cb, modem>>

\* KillRead, which waits for the callbacks; the device is no longer valid.
KillRead ==
  /\ task[Remover].pc = "d_loop" /\ clist = <<>>
  /\ reading \in {"armed", "read", "dead"}
  /\ reading' = "dead" /\ device' = "invalid"
  /\ Goto(Remover, "d_wait")
  /\ UNCHANGED <<clist, mem, held, urb, ntid, file, cb, modem>>

\* Every file is closed, or 30 s have passed.
DeregisterEnds ==
  /\ task[Remover].pc = "d_wait"
  /\ Goto(Remover, "d_done")
  /\ UNCHANGED <<clist, mem, held, urb, ntid, file, device, reading, cb, modem>>

WriteSteps(p) ==
  AddToURBList(p) \/ Submit(p) \/ SubmitFails(p) \/ WriteSyncCallback(p)
    \/ WriteDown(p) \/ WritePop(p)
ReadSteps(p) == Look(p) \/ ReadGiveUp(p)
ReleaseSteps(p) == Clean(p) \/ KillUrb(p) \/ NextUrb(p)
Calls(f) ==
  UserspaceOpen(f) \/ GetServiceFile(f) \/ UserspaceWrite(f) \/ UserspaceRead(f)
    \/ UserspacePoll(f) \/ UserspaceClose(f)
NotifySteps(n) == UpSem(n) \/ QMIWDSCallback(n) \/ ReadAsync(n)
ReadUrbs == IntCallback \/ ReadCallback \/ ReadFails \/ ReadCallbackResumes
RemoverSteps == DeregisterClient \/ KillRead \/ DeregisterEnds

GobiNext ==
  \/ \E f \in Files : Calls(f) \/ GetClientID(f) \/ ForceRelease(f)
  \/ \E p \in Procs : WriteSteps(p) \/ ReadSteps(p) \/ ReleaseSteps(p) \/ ReadTimeout(p)
  \/ \E n \in Notifiers : NotifySteps(n)
  \/ ReadUrbs
  \/ Deregister
  \/ RemoverSteps

GobiSpec == GobiInit /\ [][GobiNext]_gobiVars

\* Every process goes on, and gets the lock when others take it again and again; the
\* modem answers, and in the end a read URB succeeds.
OwnSteps(p) ==
  WriteSteps(p) \/ ReadSteps(p) \/ ReleaseSteps(p) \/ NotifySteps(p)
GobiFairSpec ==
  /\ GobiSpec
  /\ \A f \in Files : SF_gobiVars(OwnSteps(User(f)) \/ GetClientID(f) \/ ForceRelease(f))
  /\ \A p \in Readers : SF_gobiVars(OwnSteps(p))
  /\ SF_gobiVars(OwnSteps(Remover) \/ RemoverSteps)
  /\ WF_gobiVars(IntCallback)
  /\ SF_gobiVars(ReadCallback /\ wire' # wire)
  /\ SF_gobiVars(NotifySteps(ReadCb) \/ ReadCallbackResumes)

-----------------------------------------------------------------------------
(* Properties.                                                              *)

\* Nothing is used after it was freed: the semaphore on a reader's stack is there
\* while its notification is under way ("remove from notify list so it's not
\* referenced"), the client that ReadSync, ReadCallback and ReleaseClientID have a
\* pointer to is in the list when they use it, a writer's URB is its own.
NoUseAfterFree ==
  /\ \A n \in Notifiers : held[n].who \in Procs => task[held[n].who].pc = "r_wait"
  /\ \A p \in Procs :
       /\ task[p].pc = "r_remove" => task[p].fresh
       /\ task[p].pc \in {"w_submit", "w_wait", "w_pop"} => urb[task[p].u] # "freed"
       /\ task[p].pc \in {"c_up", "c_more", "c_kill", "c_next"} =>
            Present(task[p].arg) /\ task[p].nxt = Succ(task[p].arg)
  /\ reading \in {"notify", "back"} => Present(cb.at)

\* Nobody waits in ReadSync, for the WDS callback or in poll() for a message that
\* is there, unless the one that brought it is about to say so.
NoMissedData ==
  /\ \A c \in Clients : \A i \in 1..Len(mem[c].notify) :
       FirstRead(c, mem[c].notify[i].tid) = 0
  /\ \A p \in Procs :
       task[p].pc = "poll" /\ mem[task[p].c].list # <<>> =>
         reading \in {"notify", "back"} /\ cb.at = task[p].c

\* Who sleeps in ReadSync can be woken: it is on the list of a client that exists,
\* or its notification is under way.  DeregisterQMIDevice relies on it ("Timeout
\* should never happen").
SleepersReachable ==
  \A p \in Procs : task[p].pc = "r_wait" =>
    \/ Present(task[p].c) /\ \E i \in 1..Len(mem[task[p].c].notify) :
                              mem[task[p].c].notify[i].who = p
    \/ \E n \in Notifiers : held[n].who = p

\* A sleeper misses neither the message nor the end of its client.
SleepersServed == NoMissedData /\ SleepersReachable

\* GetClientID takes the answer to its own request, not one to an earlier request
\* with the same transaction id.
AnswerIsOwn ==
  \A p \in Procs : task[p].pc = "alloc" => task[p].got.of = task[p].u

\* Two files never have the same client, and a file's client has its memory until
\* the device is removed.
OwnClient ==
  \A f \in Files : file[f].id # NoId =>
    /\ \A g \in Files \ {f} : file[g].id # file[f].id
    /\ device = "live" /\ task[User(f)].op # "rel" => Present(file[f].id)

\* A write's URB is freed when its WriteSync has returned.
UrbsFreed ==
  \A u \in Urbs : urb[u] \notin {"none", "freed"} =>
    \E p \in Procs : task[p].pc \in {"w_submit", "w_wait", "w_pop"} /\ task[p].u = u

\* The lists hold what they may hold; nothing is used after it was freed, and no
\* URB is forgotten.
ClientsSafe == GobiTypeOK /\ NoUseAfterFree /\ UrbsFreed

\* While the device stays, a request of QMICTL and a write end: opening a client and
\* closing it return.
RequestsReturn ==
  \A f \in Files :
    task[User(f)].pc # "idle" ~> task[User(f)].pc \in {"idle", "again"} \/ device # "live"

\* The removal of the device comes to an end.
RemovalEnds == device = "removing" ~> task[Remover].pc = "d_done"
=============================================================================
