# TLA+ models of 5G-Modem-Support

The repository collects what an OpenWrt router needs to drive 5G modems: kernel
drivers, user-space dialers, LuCI pages and scripts.  Most of it is sequential
configuration code.  The parts with protocol logic of their own are three kernel
drivers, and the dialer with its QMI server above them; these are modelled:

* the Unisoc (Spreadtrum) PCIe driver, `src/quectel_SRPD_PCIE/src`: host and modem
  share memory and doorbells; messages, byte pipes, block rings, power votes and
  the PCIe link itself come and go with the modem;
* the QMI clients of the GobiNet USB driver, `src/quectel_Gobinet/src/QMIDevice.c`;
* the power states of the MHI host bus, `src/quectel_MHI/src`;
* the dialer `fibocom-dial` and its server `fibo_qmimsg_server`,
  `src/fibocom-dial/src`.

Paths below are relative to `src/quectel_SRPD_PCIE/src` unless they start with
`src/`.

## Inventory

| Component | State | Operations | Interaction | Hard behaviours |
|---|---|---|---|---|
| smsg channels, `sipc/smsg.c` | per channel `channels[]`, `states[]`, `busy[]`, message cache | `smsg_ch_open/close`, `smsg_send`, `smsg_recv`, `smsg_msg_process` | every sbuf, sblock and SIPA thread opens one and receives from it | lifetime of the channel object under irq, receiver, closer, senders; open handshake; spin loops |
| smsg transport ring, `sipc/smsg.c` | ring of 128 messages, two u32 pointers, `txpinlock` | `smsg_send`, `smsg_senddie`, `sipc_process_all_msg` | carries all messages of all channels | concurrent senders, full ring, wrap, doorbell after the write |
| sbuf, `sipc/sbuf.c` | two byte rings per buffer, state, mutexes, poll mask, wait queues | `sbuf_create/destroy/down`, `sbuf_write/read`, `sbuf_poll_wait`, `sbuf_thread` | over one smsg channel; used by spipe | edge-triggered events, sleeping callers, modem restart |
| spipe, `sipc/spipe.c` | character devices | open, read, write, poll | calls sbuf with timeout 0 or -1 | error paths of registration |
| sblock, `sipc/sblock.c`; spool, `sipc/spool.c` | a ring and a pool of blocks per direction, a record per block | get, put, send, receive, release, recover | over one smsg channel; the modem's log | a block lost or in two places, the record against the real holder |
| smem, `sipc/smem.c` | gen_pool and record list | alloc, free, map | used by sbuf, sblock, smsg | rounding, lists of several pools |
| power manager, `power_manager/` | votes per user (pms) and modem (mpm), wakelock counts, two timers | request, release, wakelock for good or for a period | around each access to shared memory; asks for the link | counts, a timer that fires while it is cancelled, two works |
| PCIe resource, `pcie/pcie_host_resource.c`, `pcie_client_resource.c`, `sprd_pcie_ep_device.c` | link state of both ends, scan and removal works | request, release, wait, scan, remove, doorbells | callbacks of the power manager | both ends change their minds while scan or removal is under way |
| modem control, `mcd/modem_ctrl.c` | GPIO-driven modem state | power, reset, notify | user commands, GPIO irqs | reboot during a command |
| SIPA, `sipa/` | FIFO descriptors, NIC state, flow control | send, receive, delegator messages | network devices; smsg channel | ring limits, flow control races |
| MHI host, `src/quectel_MHI`, `src/fibocom_MHI` | `pm_state`, `dev_state`, `ee`, rings, `pending_pkts`, runtime PM | queue, suspend, resume, error recovery, removal | PCI runtime PM; network and character devices | the state changes between a test and the doorbell; recovery against removal |
| GobiNet, `src/quectel_Gobinet` | per client: messages read, readers waiting, writes on the way | open, ioctl, read, write, poll, close; URB callbacks | USB core; user-space dialers | the lock is given up around callbacks; removal under callers |
| qmi_wwan, `src/*_QMI_WWAN` | vendor copies of kernel network drivers | | | |
| Dialers, `src/fibocom-dial`, `src/meig-cm` | calls, their handles, addresses and client ids; one pending request; three timers | dial, watch, dial again, reset the radio, hang up | talk QMI to the drivers; a reader thread; signals to themselves | late answers, queued signals and events, a modem that goes, SIGTERM at any moment |
| QMI server, `src/fibocom-dial/src/fibo_qmimsg_server.c` | connections, client ids of each, list of control requests | initialise the modem, accept, forward both ways, restart | several dialers and one modem | equal transaction ids, a dialer that leaves, a modem that is silent or goes |
| LuCI, rooter, scripts | uci configuration | web pages, shell | start the dialers | none of protocol kind |

`PROJECT.json` says of each component which module models it, or why none does.

What makes each layer correct:

* *channel*: nobody uses a freed channel and none is leaked; an open succeeds
  only when the peer has opened; close returns;
* *ring*: a bounded FIFO whose accepted messages are all handled;
* *sbuf*: a byte pipe that never overruns, whose callers at the host are woken when
  they can go on, and which after a modem restart holds nothing from before;
* *sblock*: every block is in exactly one place, also after a recovery;
* *power manager*: the link is asked for while anybody holds it, and given back
  some time after the last one went; a wakelock lasts for its period;
* *PCIe resource*: who holds the link has one; a vote of the modem is not
  forgotten; who asks is served; an idle link is removed;
* *GobiNet*: no freed client or semaphore is used, no answer goes to another
  request, no message stays unread behind a sleeping reader, removal ends;
* *MHI*: a queued transfer is announced and carried out, the link sleeps again, a
  suspended device is left alone, errors end in recovery, and after a removal
  nothing is left that uses the controller;
* *dialer*: no request waits for nobody, no late answer is taken for another one,
  the calls come and stay up after a fault, SIGTERM ends it and leaves no call;
* *QMI server*: one control request at a time, every answer to the connection that
  asked, everyone is answered, it comes back with the modem, SIGINT ends it.

## Modules

* `SmsgChannel` — one channel.  Four kinds of thread interleave at single
  accesses to `channels[]`, `states[]`, `busy[]`: the irq handler (`Irq*`), the
  service thread that opens and then receives (`Open*`, `Fail*`, `Recv*`,
  `Ack*`), the closing thread (`Close*`, up to the return of `kthread_stop`), and
  threads in `smsg_send` (`Send*`).  Channel objects are numbers; `live` is the
  set of allocated ones.  The peer (external) opens, sends, closes and may send
  a message of unknown type.
* `SmsgFifo` — what the transport promises: a bounded queue.
  `SmsgRing` — the ring that implements it; pointers count modulo `W` (2^32 in
  the code), a slot is the pointer modulo the size.
* `BytePipe` — what an sbuf direction promises: a bounded byte pipe that a
  restart may flush.  `Sbuf` — the code: threads of `sbuf_write` and `sbuf_read`
  (the shared steps `Call` … `Done`, then the two copy loops), the `sbuf_thread`
  of both ends (`OnEvent`, `OnOpen`, `OnClose`, `OnCmd`, `ClientRecv`), and the
  client's life (`ClientStop`, after which it is "off", or "gone" when the PCIe
  device was removed, and `ClientStart`).  Answers of the host to an earlier life
  may reach the client when it is up again: a late `CLOSE` is handled like any
  other, a late `OPEN` or `DONE` is dropped.  `Host` says whether the host is the
  writing or the reading end, `LocalEnds` which ends use local memory (the host's,
  in the PCIe build); the runs have the host reading.  The smsg layer
  appears as one reliable FIFO per end, which is what `SmsgRing` establishes.
* `Sblock` — one direction of an sblock under `spool_write` and `spool_read`.
  `pool` and `ring` are arrays of block numbers with u32 pointers, `record` the
  host's note of the blocks its callers have.  `Call`, `Look`, `Wait`, `Take`,
  `SetMask` are the critical sections that `sblock_get` and `sblock_receive`
  share; then `Send`/`Finish`, `Release` or `Put`.  `Recover` is
  `sblock_recover`, run by the host's thread when the modem opens again.  Late answers
  to an earlier life of the client are handled as in `Sbuf`, but a late `OPEN` is
  acknowledged with an `OPEN`, as the client's flag `recovery` is never set.
* `Mpm` — the manager alone, as an abstract specification: votes, state, the two
  works.  `PowerManager` — the code: users that share a pms or have their own
  (`Request` … `Down`), the idle timer whose handler may have begun when it is
  cancelled (`TimerExpires`, `DeactiveTimer`), and beside it the wakelock of one
  pms with its period timer (`Stay*`, `Relax*`).  `Mpm` is refined by it, and
  extended by
* `PcieResource` — the link between the two ends, above the manager: works of the
  host (`ScanFn`, `RemoveFn`, `Unconfigure`, `NotifyFn`), its irq handler and the
  modem's wake-up (`HostIrq`, `HostWake`), and the modem's end (`Client*`).  That a
  vote starts a scan and its end a removal is under `CONFIG_SPRD_PCIE`
  (`pcie/pcie_host_resource.c:673`, 698), which `Makefile` does not define: the module
  is of a build that does.  As the Makefile stands, votes only hold a wakeup source,
  and the link stays as the first probe left it.
* `GobiQmi` — the clients of QMIDevice.c.  `clist` is `mpClientMemList`, `mem`
  the three lists of each client.  A step is one critical section under
  `mClientMemLock`, or the code between two; `held` is the entry that
  `NotifyAndPopNotifyList` runs with the lock given up.  Processes are one writer
  and one reader per file, the unbinding of the device, and the URB callbacks.
* `MhiPm` — pm_state, dev_state and ee over one uplink channel, as critical
  sections of the client (`Queue*`), the control tasklet (`Task*`), the data
  tasklet (`Data*`), the irq thread, `st_worker` (`St*`, `Ready*`), the runtime-PM
  callbacks (`Suspend*`, `Resume*`), and `mhi_pm_disable_transition` (`Off*`) run
  by `syserr_worker` and by the removal.  A ring is three counts: elements not
  announced, announced, completed.  `Transitions` is the code's table.
* `Dialer` — the main thread of fibocom-dial, its reader `QmiWwanThread`, and the
  modem.  What main has still to do in its present handler is the list `todo`: the
  branch of a signal or event (`OnSignal`, `OnEvent`) puts its steps there, and a
  step may put others before the rest.  A step that is a request goes through
  `QmiThreadSendQMITimeout` (`Send`, then `Wake`, `Timeout` or `TooLate`) and is
  applied to the globals `d` by its own action (`SetupDone`, `Query`, `Judge`,
  `GetIPAddress` …).  Signals, events and commands are the three socket queues
  `sigq`, `evq`, `cmdq`.  `SimStatus` is the loop of the start that asks for the state
  of the SIM for as long as the modem calls that unsupported, which ends when the
  modem chooses (`SimUp`).  Transaction ids are kept as an age: how many requests of
  the same counter ago, modulo `MaxTid`.
* `QmiProxy` — `main` with `qmi_proxy_init` (`Init*`, `Again`), the thread
  `qmi_proxy_loop` (`Accept`, `Cleanup`, `SendQmi`, `Recv*`, `LoopExit`), SIGINT,
  SIGPIPE (`Killed`: a message for a dialer that has hung up is written before its
  POLLHUP is handled), and around them dialers and the modem.  One step is one
  descriptor's turn in the loop.
* `MC*` — the modules TLC starts from.
* `SmsgProofs` (of `SmsgRing` and `SmsgChannel`), `SbufProofs`, `SblockProofs`,
  `PowerLinkProofs` (of `PowerManager` and `PcieResource`), `QuectelProofs` (of
  `MhiPm` and of the types and answers of `GobiQmi`), `GobiClientsProofs` (of the
  clients of `GobiQmi`), `QmiProxyProofs`, `DialerProofs` — theorems and proofs.

What the modules leave out: log output, the mailbox transport (`SIPC_BASE_MBOX`,
not built here), waits with a positive timeout of the sipc layers (no caller of
this driver uses one; it ends like an interrupted wait, `Abort`), the registered
notifier callbacks, failures of `kmalloc`.  Payloads are numbers.  In `Sbuf`
bytes are numbered when they are copied, so every byte is distinguishable.
`dev_wake` of the MHI host stays 0, because `mhi_assert_dev_wake` returns before
it counts (`src/quectel_MHI/src/core/mhi_pm.c:160`); the tests of it are left out.

## Assumptions that the constants switch

Each of these is a circumstance in which the code, with TLC's counterexample, does
not keep a property.  The runs exclude it by the named constant; the section
*Circumstances that break a property* says what happens otherwise, and a table of the
section *Runs* where a comment of the code promises better.

* `SmsgChannel`: `EarlyPeer` (an open may start while the irq handler is in a
  message of the same channel), `CloseInOpen` (`smsg_ch_close` during
  `smsg_ch_open`), `SendInClose` (`smsg_send` during `smsg_ch_close`).
* `SmsgRing`: `DieSenders`, callers of `smsg_senddie`.
* `Sbuf`: `Signals` (a signal may end the wait for the mutex), `SkipInRead`
  (`OPEN`/`CLOSE` handled while a reader is between copy and pointer update),
  `LocalEnds` (ends whose `smem_type` is `SMEM_LOCAL`; the client must use
  `SMEM_PCIE`, `sipc/sipc.c:401`, so in all runs this is the host),
  `SlowHost` (the modem may be back before the host's thread has handled all
  messages of its earlier life), `Ways` (how the modem goes: crash, close, PCIe
  removal).
* `Sblock`: `IdleInHand` (the host becomes idle while a caller has a block),
  `SlowHost` (as for `Sbuf`), `Putters`, `Host`, `Ways`.
* `PowerManager`: `Serial` (no call on a wakelock begins while another one is under
  way, or while the timer's handler, which has given up its lock, relaxes it; the
  timer may fire, and its handler begin, at any moment of a call), `InOrder`
  (works run in order), `Prompt` (a work is done before the next idle second ends).
* `PcieResource`: `MsiInOrder`, `InTime` (a release has run when the next vote
  comes).
* `GobiQmi`: `Allowed`, a subset of `Circumstances`; `Wda`, the files that ask for
  the service QMIWDA.
* `Dialer`: `Faults`, a subset of `FaultKinds`, and `MaxFaults`, how many of them;
  `Returns` (a modem that went may be plugged in again).
* `QmiProxy`: `Allowed`, a subset of its `Circumstances`.
* `MhiPm`: `Overtaken` (others may run between the ring element of a transfer and
  its count), `Slow` (the waits that may time out), `ErrInDown` (errors during a
  removal).

## Runs

These pass:

| Run | Shows | Bounds | States |
|---|---|---|---|
| `chan_orderly` | `ChannelSafe`, `NoLeak`, `OpenHandshake`, `CloseReturns`: channel objects are safe and none leaks, an open meets the peer's, close returns | 2 opens, 3 peer messages, cache of 2, 1 sender | 112 327 |
| `ring_fifo` | `RingSafe`, `FifoSpec`, `AcceptedIsHandled`: the ring implements `SmsgFifo`; every accepted message is handled | 2 senders, 2 slots, pointers modulo 4, 5 sends | 55 001 |
| `sbuf_pipe` | `PipeSafe`, `PipeSpec`, `DownReleases`, `LocalSleepersWoken`: the sbuf implements `BytePipe`; no overrun, no damaged byte, after a crash or close of the modem no old data; a removal releases all sleepers, and the host's end loses no wake-up | a writer at the client, a reader at the host, ring of 2 bytes, pointers modulo 4, 5 bytes, calls of up to 2 bytes, 1 stop | 2 732 513 |
| `sblock_pool` | `PoolSafe`, `SleepersWoken`: no block in two places, none lost, nobody asleep with a block there, through crash, close and removal | 2 senders (one also puts), 1 receiver, 2 blocks, 2 sends, 1 stop | 290 902 |
| `power_link` | `ManagerSafe`, `Manager`, `GoesIdle`, `SourceFollows`, `HeldForPeriod`: counts agree with the users, a held link is busy, the manager refines `Mpm` and goes idle, the wakeup source follows, a wakelock lasts its period | 2 users of a shared pms, 1 of its own, 2 callers of one wakelock beside its timer | 277 728 |
| `pcie_vote` | `LinkSafe`, `Served`, `IdleRemoves`: who holds the link has one, votes are kept, requests are served, an idle link goes | 2 users at the host, the modem; nothing else bounded | 1 385 |
| `gobi_clients` | `ClientsSafe`, `SleepersServed`, `OwnClient`: no use after free, all URBs freed, no missed data, reachable sleepers, own clients | 2 files, one of them read, 3 requests, 1 indication, ids modulo 2; symmetric ids | 1 295 640 |
| `gobi_removal` | `AnswerIsOwn`, `RequestsReturn`, `RemovalEnds`: answers go to their requests; requests return and the removal ends, with requests under way and the forced release of QMIWDA | 1 file, 3 requests, ids modulo 2 | 74 788 |
| `mhi_power` | `SleepSafe`, `TransfersKept`, `GoneIsGone`, `Delivered`, `Recovers`: transfers are announced and delivered, references are given back, a suspended device is quiet, errors recover, nothing is left after a removal | 2 elements, 2 transfers, 2 suspends, 1 M2, 1 error | 239 484 |
| `dial_online` | `DialerSafe`, `StaysOnline`: no request waits for nobody, no late answer is taken for another, the IPv4 call comes and stays up | 1 fault of 7 kinds, 2 addresses, ids modulo 5, 2 SYNCs; the modem returns | 221 252 |
| `dial_quit` | `NothingLeft`, `Quits`: SIGTERM at any moment ends the dialer and leaves no call | IPv4, 1 fault of 7 kinds, among them a modem that goes for good and a SIM not supported for a while; the network need not come | 940 431 |
| `proxy_clients` | `ProxySafe`, `AnswersFindOwner`, `Answered`, `ServesUntilQuit`: one control request at a time, a finished init is a real one, answers and client ids go to the right connection, who asks is answered, the server comes back with the modem until SIGINT ends it, or a dialer that has hung up with a message for it pending | 2 dialers, 2 ids, 3 connections with 2 requests each, 1 fault (an unanswered init, an indication, a removal), 1 SYNC, 1 retry | 186 270 |

No run is expected to fail.  Where a comment or message of the code promises more than
the code keeps, the property is stated all the same, and TLC refutes it as soon as the
named constant lets the case in:

| Property | The promise | Refuted in |
|---|---|---|
| `ChannelSafe` | "guarantee that channel resource isn't used in irq handler" (`sipc/smsg.c:635`) | `chan_orderly` with `EarlyPeer = TRUE` |
| `OpenReturns`, in no run | "open msg might be got before" (`sipc/smsg.c:644`) | `chan_orderly` as it is |
| `RemoteSleepersWoken`, in no run | "the poll_mask must be accurate enough" (`sipc/sbuf.c:87`) | `sbuf_pipe` as it is |
| `HeldForPeriod` | "auto reaslse in msec ms" (`power_manager/power_manager.c:820`) | `power_link` with `Serial = FALSE`, also with one caller |
| `SleepersServed` | "Timeout should never happen" (`src/quectel_Gobinet/src/QMIDevice.c:3604`) | `gobi_clients` with "busy" |
| `GoneIsGone` | "Waiting for all pending threads to complete" (`src/quectel_MHI/src/core/mhi_pm.c:596`) | `mhi_power` with `ErrInDown = TRUE` |
| `ServesInitialised`, in no run | "init function must be successfully" (`src/fibocom-dial/src/fibo_qmimsg_server.c:1304`) | `proxy_clients` with `MaxFaults = 2`: "mute" once in each of the two attempts |

The bounds let every pointer wrap modulo its width, the rings be full and empty at
the wrap, the cache overflow, an object be freed and a second one be allocated while the first
is still referenced, the modem come back once, transaction ids be used again, a
transfer meet each of M2, M3 and their transitions, a suspend follow a resume, a
call fail in every step of the dialer's handlers, and a connection get the
descriptor and the client id of an earlier one.  More messages, bytes or transfers
repeat these situations: the code compares pointers only by their difference, and
keeps no other history.  The same properties hold with these constants, which no run
keeps: in `sbuf_pipe` two writers with 2 bytes in all (900 629 states), or the writing end
at the host (2 117 221 states), in
`dial_online` IPv4 and IPv6 together on a network that may refuse IPv6 for good
(`Families = {"v4", "v6"}`, `Unicom = TRUE`, the kinds "refuse", "drop", "net",
"nosim" and "unplug", 2 167 087 states), and in `dial_quit` a modem that may come back (`Returns = TRUE` with the kinds "loss",
"nosim" and "unplug", 1 692 516 states).

A property that is a conjunction has a named part for each hazard: `ChannelSafe` is
`HoldersSafe`, `CloserSafe` and `SendersSafe`; `PipeSafe` is `NoOverrun`,
`ContentIntact` and `FreshData`; `PoolSafe` is `OnePlace` and `NoneLost`;
`ManagerSafe` is `CountsAgree` and `HeldBusy`; `LinkSafe` is `HeldMeansUp` and
`VoteKept`; `ClientsSafe` is `NoUseAfterFree` and `UrbsFreed`; `SleepersServed` is
`NoMissedData` and `SleepersReachable`; `TransfersKept` is `Announced` and
`IdleRefs`; `DialerSafe` is `WaitEnds` and `AnswerIsOwn`; `ProxySafe` is
`OneRequest` and `InitIsReal`; `AnswersFindOwner` is `AnswerIsOwn` and
`IdsAreListed`; `ServesUntilQuit` is that only an
abandoned id brings SIGPIPE (`OnlyAbandonedKill`), that the server comes back and that
SIGINT ends it; each with the module's type invariant where it has one.

`chan_orderly`, `ring_fifo`, the GobiNet and the MHI runs switch deadlock checking
off: when the bounds on opens, messages, requests or suspends are used up, or the
device is gone, these components really are at rest.  So do the runs of the dialer
and its server, which end at a signal.  The other runs check it.

## Circumstances that break a property

Found with TLC by changing a constant of a passing run, and named by the part that
fails; the table above has those of which a comment says otherwise, and the hazards in
`PROJECT.json` give the lines.

Dialer, with one fault of the named kind added to `dial_online` unless said:
* "ind" and "addr" refute `StaysOnline`.  `alarm(5)` is armed after every SIGUSR1,
  also when all is well, so that the 15 seconds of the main loop's poll do not pass
  again, and what only that timeout asks for is not asked any more: a lost
  indication leaves a dead call, an unanswered address leaves none on the interface;
* "client" refutes it: a client id that is not given in time stays 0, and every
  request of that service is refused until the modem is unplugged;
* "radio" and "loss" together (two faults) refute it: the radio is reset once in a
  series of failures, and the retry of a call whose START was lost needs the reset;
  "radio" or "release" alone breaks nothing;
* a lost START and a drop (two faults), or a lost START with both families, leave the
  link up without an address, since the handle the code would test is 0;
* without the fairness of `SimUp`, a modem that never supports its SIM, `Quits` is
  refuted: SIGTERM aborts a request for the state of the SIM, and so ends the loop of
  `src/fibocom-dial/src/main.c:1454`, but between two requests nobody looks at it;
* "release" in `dial_quit`, or IPv6 among its families, refutes `NothingLeft`: an
  aborted START counts as success with no handle, and the release of the IPv6
  client names the service 0x11;
* without a network the radio is never reset: the comment of `CONFIG_RESET_RADIO`
  ("when cann not register network or", `src/fibocom-dial/src/QMIThread.h:17`) names
  that case too, but `FailDailRadioTime` is set only where a data call was tried and
  failed (`src/fibocom-dial/src/main.c:1561`, 1618), and the test at 1630 needs it;
* two faults of "refuse", "drop", "net" and "unplug" break nothing, in `dial_online`
  (2.3 M states) or with both families (2.4 M); a late answer is told from another as long
  as fewer than `MaxTid` requests are made while it is pending: with both families
  the requests of the other one suffice to go round, and "slow" refutes `DialerSafe`.

QMI server:
* "leave" refutes `AnswerIsOwn`, `IdsAreListed`, `Answered` and `OneRequest`:
  `cleanup_qmi_connection` frees a request that is with the modem, and its answer
  is given to the next one in the list;
* "deaf" refutes `Answered`: without a timeout the unanswered request stays first,
  and nobody's control request is sent any more;
* "ctlind" refutes these four: an indication of the control service makes `recv_qmi`
  send the first request again;
* "late" refutes `OneRequest` and `Answered` (an answer to main, given up, arrives
  when the server is up, and is taken for a dialer's), with them `AnswerIsOwn`, and,
  four times, `InitIsReal`: every attempt begins again with transaction id 0xC1;
* "sigrace", SIGINT between the test of `qmi_proxy_quit` and poll, which has no
  timeout then, is among the circumstances of the run: `ServesUntilQuit` excepts it
  from the promise that SIGINT ends the server, as the server ends only with the
  next message;
* "giveup" breaks nothing;
* "mute" in every attempt (two faults with one retry) uses up the retries, and refutes
  `ServesInitialised`: the server starts although the init failed, where the comment of the retry loop says "init function must be
  successfully" (`src/fibocom-dial/src/fibo_qmimsg_server.c:1304`, the call at 1319 is
  made either way);
* a dialer that hangs up with a message for it still to be handed over ends the
  server, in every run: `recv_qmi` writes before the POLLHUP of that dialer is
  handled, and nobody ignores SIGPIPE.  The other dialers lose their connections.
  `Answered` and `ServesUntilQuit` take this end for what it is, and the latter's
  conjunct `OnlyAbandonedKill` says that nothing else ends the server so: such a dialer
  had a client id that it never gave back.

MHI:
* `ErrInDown = TRUE` refutes `GoneIsGone`.
  `mhi_pm_disable_transition` flushes
  `ready_worker`, `st_worker` and `fw_worker` (`src/quectel_MHI/src/core/mhi_pm.c:598`)
  under the comment "Waiting for all pending threads to complete", but not
  `syserr_worker`: an error that was noticed just before a removal leaves it to run
  on a controller whose rings `mhi_unregister_mhi_controller` frees.
* `Overtaken = TRUE` refutes `IdleRefs`: the element of a transfer is in the ring
  before it is counted, and a completion or a recovery in between lets
  `pending_pkts` pass zero, so that a runtime reference is never given back.
* `Slow = {"suspend"}` refutes `Announced` and `Delivered`: after a late M3
  `pm_state` stays in M3_ENTER, and the -EIO of the callback blocks runtime PM, so
  that nobody resumes.  `Slow = {"reset"}` or `{"ready"}` refutes `Recovers`: the
  recovery is given up.  `{"resume"}`, `{"mission"}` and two errors break nothing.

GobiNet:
* "sigrace" refutes `NoUseAfterFree`: `UpSem` raises a semaphore on the stack of a
  reader that a signal has sent home; "cbrace" likewise lets `ReadCallback` go on
  from a freed client; "overtake" refutes `UrbsFreed` (a writer gets another
  one's URB, which "shouldn't happen"); "busy" refutes `SleepersReachable`
  and `UrbsFreed` (a reader sleeps on a deleted client); "overflow" refutes
  `RequestsReturn` (the interrupt URB is never submitted again);
* `Wda = {f1, f2}` refutes `OwnClient`: the only client of QMIWDA is released by
  force while another file has it.

Power and link:
* `Serial = FALSE` refutes `HeldForPeriod` with one caller and the timer already,
  the more with the two of `rx_pms`; `InOrder = FALSE`
  refutes `SourceFollows` and `Manager`, `Prompt = FALSE` refutes `SourceFollows`;
* `MsiInOrder = FALSE` refutes `VoteKept`; `InTime = FALSE` refutes
  `HeldMeansUp`, `Served` and `IdleRemoves`: the release work takes down a
  link that a user has asked for again.

sblock:
* `IdleInHand = TRUE` refutes `NoneLost` (spool drops its block when the call is
  refused) and `OnePlace` (`sblock_recover` fills the pool from slot 0 while its
  window begins at the read pointer: with a block in somebody's hands the window
  holds stale slots);
* `SlowHost = TRUE` with `MaxStops = 3` refutes `OnePlace`: the `OPEN` of an earlier
  life reaches the host's thread when the modem is up and has a block, and
  `sblock_recover` puts that block back into the pool;
* `Host = "rx"` with callers of `sblock_put` refutes `SleepersWoken`: it wakes
  before it sets the mask that a remote end waits for.

sbuf:
* `SkipInRead = TRUE`: `sbuf_skip_old_data` without `rxlock` lets a reader pass
  the write pointer; `Signals = TRUE`: a signal lets a writer in without `txlock`
  (both `PipeSafe`);
* after a removal, which `FreshData` excepts, the old data is not skipped when the
  modem comes back, since `sbuf_down` has made the state idle.  So a removal among
  `Ways`, with `MaxStops = 2`, refutes `FreshData` also for the bytes of a crash
  that the removal follows at once;
* `SlowHost = TRUE` with `MaxStops = 2` refutes `DownReleases`: a `CMD` of an
  earlier life of the modem makes the host ready again after `sbuf_down`, a caller
  goes to sleep, and the `OPEN` behind it makes the state idle and wakes nobody;
* a `CLOSE` and a repeated `OPEN` make the host idle without waking anybody, so
  `DownReleases` speaks of the removal only;
* a modem that crashes between moving its pointer and sending the event takes the
  wake-up with it: the host's caller sleeps on beside data (or room) also after the
  restart, until the next edge.  `LocalSleepersWoken` excepts what follows a stop;
* a caller of the client's end, on PCIe memory, may miss its wake-up without any stop:
  a stale `no_data` clears the POLLOUT an event has just set, which refutes
  `RemoteSleepersWoken`;
* `Size = 3`, `W = 4`, `MaxLen = 1`, `MaxBytes = 6` refutes `PipeSafe`: a size
  that does not divide 2^32 (0x40400 for `snv_nr`, `sipc/spipe.c:383`) damages
  data when the pointers wrap.

smsg:
* `EarlyPeer = TRUE` refutes `ChannelSafe`: `atomic_set(&busy, 1)` drops the irq
  handler's count, and an open that fails frees the channel under it;
* `OpenReturns` is refuted in orderly use too: an OPEN that races the
  open is recorded in a state that is overwritten, and the open waits for ever;
* `CloseInOpen = TRUE` refutes `ChannelSafe` (close wakes a wait queue inside a
  channel that a failing open has freed) and `CloseReturns` (an open overwrites
  FREE, and the close spins for ever);
* `SendInClose = TRUE` refutes `ChannelSafe`: close frees the channel a sender uses;
* a caller of `smsg_senddie` in `DieSenders` refutes `FifoSpec`: it writes without
  `txpinlock` (nothing in the repository calls it yet);
* `Size = 3`, `W = 4` refutes `FifoSpec`; the 128 messages of the code divide 2^32.

## Fairness

Weak fairness of every thread that is inside a call, of works, timers and
interrupts: the kernel schedules runnable threads and services irqs.  Nothing is
assumed of callers, of the peer or of the modem's life, save that a modem that has
not failed obeys a command it was given (`MhiPm`) and answers a request
(`GobiQmi`, `Dialer`, `QmiProxy`, save those that a fault takes away, of which
there are finitely many); no code here could make up for one that does not.
`Dialer` has two specifications: `RunSpec` assumes threads, timers, answers, and that
the modem supports its SIM in the end, as nothing else bounds the loop that asks;
`FairSpec`, which only `StaysOnline` needs, also that a network
within reach is found and the modem is plugged in again, for without them no call
can be up.  Strong fairness is
used where a thread polls or contends:

* the spin loops of `smsg_ch_close` and of a failing open poll `busy[]`, which the
  service thread raises and drops with each `smsg_recv`; that thread sleeps 20 ms
  after each `-EIO` (`sipc/sbuf.c:576`), so the poll does see the zero in between;
* the processes of `GobiQmi` contend for a spin lock that others take again and
  again; a read URB that fails is tried again and succeeds in the end;
* in `PcieResource` three actions are held up for a moment by `InTime`, which
  stands for the order of events and not for a condition the code waits for.

`Abort`, `Fault`, signals, time-outs, `SuspendStart`, `DevIdle`, `DevFails` and
removals are never forced.

## Proofs

For every value of the constants:

* `SmsgProofs`, the channel.  `CountInv` joins the type invariant with "`busy` equals
  the number of sections that hold a count" and "a channel that a counted section
  has loaded is live and still is the published one, or its owner waits for the
  count".  The count alone is not inductive: that a holder is safe when the count
  drops to zero needs to know who may free, and when.  From it, assuming only
  `~EarlyPeer`: `BusyIsExact`, `HoldersNeverUseFreed` (closes during opens and
  sends during closes included).  `OrderInv` adds who may run together, and gives,
  for orderly callers, `NobodyUsesFreed` (`ChannelSafe`: types, holders, closers
  and senders) and `ChannelsNeverLeak`.
  `OpensAreAnswered` (`OpenHandshake`) assumes `~EarlyPeer` and `~CloseInOpen`: an
  account that gives every OPEN of the peer to one place at a time, the state
  `CLIENT_OPENED`, the open that has seen it, or the opens that have succeeded.
* `SmsgProofs`, the ring, without `smsg_senddie`: `RingIsSafe` (`RingSafe`: types, and
  never more than the size between the pointers).  The invariant adds mutual
  exclusion between the occupancy test and the pointer update, and that a sender
  past the test has a free slot.  `RingIsFifo` (`FifoSpec`) assumes besides that
  the size divides the range of the pointers, as 128 divides 2^32: then the slots
  between the pointers are distinct across a wrap, each keeps its message, and every
  step is one of `SmsgFifo` or changes nothing that it names.
* `SbufProofs`, without `Signals` and `SkipInRead` and with a size that divides the
  range, for any number of threads, lengths and stops.  `PipeInv` says who is
  between a copy and its pointer update (at most one thread of each end, the holder
  of the mutex), and that the bytes from `rd` on are `sent` followed by the chunk of
  such a writer, and begin with the chunk of such a reader.  It gives
  `PipeIsIntact` (types, `NoOverrun`, `ContentIntact`) and `PipeIsImplemented`
  (`PipeSpec`).  `LifeInv` follows the conversation of the two `sbuf_thread`s: which
  of OPEN, CMD, DONE and CLOSE can be under way in each phase of the client, and that
  the host's state follows.  It needs `~SlowHost`, and with it gives
  `RemovalReleases` (`DownReleases`) and, without removals, `PipeIsSafe`
  (`PipeSafe`, that is also `FreshData`).  `NoLocalWakeLost` (`LocalSleepersWoken`) is
  about the time before the first stop, so it needs neither: `WakeInv` says that nobody
  then speaks of lives (`FirstLife`), and that whoever sleeps beside its bytes is told
  already, or will be by a thread that has just moved its pointer over the edge
  (`Sure`).
* `SblockProofs`: `PoolIsSafe` (`PoolSafe`: types, `OnePlace`, `NoneLost`), without
  `IdleInHand` and with `~SlowHost`, for any number of callers, blocks and stops, either
  end being the host, and with `sblock_put`.  `BlocksOnce` says that the windows between
  the pointers of pool and ring hold no block twice and none in common, and that no
  caller has a block of theirs or of another caller; so whoever gives a block back finds
  a slot outside the window for it (`Room`, by counting), across a wrap because the
  number of blocks divides the range of the pointers.  `Records` says that the host's
  record is right, and `Talk` that a recovery only runs while the client has not started:
  then nobody has a block, and the pool that `sblock_recover` rebuilds is a whole one.
  `Kept` is the induction for `NoneLost`: what a client took with it is missing until
  the host has handled the next OPEN.
* `PowerLinkProofs`, first part (`PowerManager`), for any finite sets of tasks.  `ManagerInv` counts: the
  count of a pms is the number of its tasks inside the calls, the count of the
  manager the pms in use, corrected by the tasks between the two locks; at
  most one task of a pms is there on the way up, which maps those tasks one to one
  to pms and so keeps the count from falling below 0.  `ManagerIsSafe`
  (`ManagerSafe`) assumes nothing, `ManagerRefines` (`Manager`: the code implements
  `Mpm`) that works run in order, `SourceIsRight` (`SourceFollows`) `InOrder` and
  `Prompt`, and `WakelockIsHeld` (`HeldForPeriod`) `Serial`: a handler that has begun
  before a call that asks anew, or begins in it, finds under its lock that the period
  was cancelled or has time left.
* `PowerLinkProofs`, second part (`PcieResource`): `LinkIsSafe` (`LinkSafe`) for any
  finite set of users, with `MsiInOrder` and `InTime`.  The endpoint is in one of four phases (`Gone`,
  `Probed`, `InUse`, `Removing`), each with the doorbells and messages that can be
  under way in it; a vote of the modem is counted by the host or still on its
  way (`Vote`).
* `QuectelProofs`, first part (`MhiPm`), for any size of the ring and any number of
  transfers, suspends and failures.  `SleepIsSafe` (`SleepSafe`: types, `AsleepQuiet`) assumes nothing.  A
  device is runtime-suspended without an error only in the first life of the modem,
  before a failed wait, a recovery or a removal (`Unbroken`), so `SleepInv` speaks of
  that life: the one report of the mission image passes from the event ring to
  `st_worker` (`Once`), the modem is silent before it is brought to M0 (`Boot`), and
  M3 is entered by one suspend and told of by one event, the last before the resume
  (`Sleep`).  `RemovalIsFinal` (`GoneIsGone`) assumes `~ErrInDown`: where a recovery
  or the removal is tells the state of the controller (`Recovery`, `RemovalIs`), and
  what each has waited for stays so (`Closing`).  `TransfersAreKept` (`TransfersKept`:
  `Announced`, `IdleRefs`) assumes besides `~Overtaken` and that "suspend" is not
  `Slow`.  `Announced` needs to know, inside the call of mhi_queue_buf too, who is
  bound to ring (`Announcing`); that it stays so needs what `pm_state` says of the
  modem and its events, since M2 is left by a modem that still has to answer or has an
  M0 under way (`Link`), and that a link in M3 belongs to a suspend that has not
  failed (`Suspended`).  `Counts` gives `IdleRefs`.
* `QuectelProofs`, second part (`GobiQmi`), for any files, client ids, transaction
  ids, writes and indications.  `GobiHasTypes` (types) and `AnswersAreOwn`
  (`AnswerIsOwn`) assume nothing: they hold in all `Circumstances`.  `AskInv` follows
  a transaction id of `QMICTL` while a process asks with it: no other process does
  (`AskApart`), a request that the modem has with that id is the one this process has
  written (`AskWire`), a message in the list of `QMICTL` with that id is an answer to
  it (`AskList`), and while `ReadCallback` has given up the lock over such an answer,
  the answer is for `QMICTL` alone and is appended nowhere else (`AskCb`).  A new
  request keeps this because `QMIXactionIDGet` has dropped what was left with its id.
* `GobiClientsProofs`, which extends `QuectelProofs`, for as many of each.
  `ClientsAreSafe` (`ClientsSafe`), `ClientsAreOwn` (`OwnClient`) and
  `SleepersAreServed` (`SleepersServed`) assume `Undisturbed`: nothing of
  `Circumstances` but "overflow" is allowed, and one file at most asks for QMIWDA.
  `CalmInv` follows every process through its call (`UserInv`, `ReaderInv`,
  `RemoverInv`): while the device is there the list of clients is the driver's own and
  those of the files, each once (`ClientApart`, `FileInv`, `LiveInv`), so a client is
  deleted by the one file that has it, with nobody inside another call of that file,
  or by the removal.  A write's URB is in the list of its client and in no other
  hands (`UrbInv`); a reader that sleeps is once in the list of its client or held by
  one that notifies it, and a client that is gone has nobody in its list
  (`NotifyInv`, `GoneInv`).  Only the walk of `ReadCallback` brings a message
  (`EasesOf`), and it tells one reader per client; that this is enough is `OneWaits`:
  a file's client has one reader, and those at `QMICTL` wait for different ids, which
  `AskInv` has shown (`DataInv`).
* `QmiProxyProofs`, for any dialers, ids, connections, requests and tries, with
  faults of all kinds but "leave", "late" and "ctlind" (`Orderly`).  `ProxyIsSafe`
  (`ProxySafe`): the queues of the modem hold answers to main while main waits for
  one (`Setup`), nothing but indications before that (`Idle`), and while the server
  runs only messages of dialers, of which at most one is a control request, the
  first of the list (`Traffic`).  `OwnerIsFound` (`AnswersFindOwner`) needs to know
  what is under way: a dialer's messages are in the order in which it asked, across
  its socket, the list, the modem and the way back, and behind a control request
  there is only a request for an id (`Order`, `CtlOrder`); each is of a connection
  that still waits, and names an id in the list of that connection (`Owned`); the
  lists are disjoint, and the modem has each listed id for the dialer it is
  listed for, or has its release answered (`Lists`, `Known`).
* `DialerProofs`, for any families, faults, addresses and tries.  `BaseInv` (types,
  the life of the reader, what each branch of main's loop leaves in `todo`, and that
  the signal or event on whose behalf main runs is still in its queue) is inductive
  alone, and with it `WaitEnds`, so `NobodyWaits` (`WaitEnds`) assumes nothing.  That
  main takes the answer of its own request needs `OwnIsOne`: while main waits, no
  other message has the id of its request.  Ids wrap round, so `DialerIsSafe`
  (`DialerSafe`) assumes `Timely`: no message is as late as the whole round of 65534
  (QMUX) or 254 (QMICTL) later requests.  `NothingIsLeft` (`NothingLeft`) assumes that
  there is no IPv6 client and that no release of a client fails, which both refute it.
  Its invariant `LeftInv` orders what main has still to do (`InOrderOfStart`: the
  client comes before the call; `InOrderOfEnd`: SIGTERM ends with the release of the
  client) and what is under way (`ReleasesLast`), says that the modem has a call for a
  client only (`ModemInOrder`), and that a client that main does not know, or has
  asked to end, keeps no call once the requests under way are served (`NoneForgotten`).

All inductive invariants were checked with TLC before they were proved.  The
assumptions are the constants of the section *Assumptions that the constants switch*,
that the size of a ring divides the range of its pointers, and `Timely`.  Without any
one of them TLC finds the property violated, as told above (for `Timely`: with
`MaxTid = 2`, `dial_online` refutes `DialerSafe`, since an answer two requests late
has the id of the present one), with two exceptions: each thing that `Undisturbed`
excludes refutes one of the three properties, not all of them; and `OpenHandshake`
holds with `EarlyPeer` and `CloseInOpen` as well where TLC can look (3 opens,
3 messages, 7 997 301 states), but the account of the proof does not cover a close
that ends the object under a waiting open.

Only model-checked: everything that needs fairness (`CloseReturns`,
`AcceptedIsHandled`, `SleepersWoken`, `GoesIdle`, `Served`, `IdleRemoves`,
`RequestsReturn`, `RemovalEnds`, `Delivered`, `Recovers`, `StaysOnline`, `Quits`,
`Answered`, `ServesUntilQuit`, the latter with its action property
`OnlyAbandonedKill`), which is out of the prover's reach.  Every invariant that a passing run checks is proved.

## Not modelled, and why

* SIPA: its FIFOs are moved by hardware that the repository does not describe.
* smem, sipc glue, spipe, modem control: allocation at creation, registration, GPIO
  sequences; sequential code without a protocol.
* MHI: the boot stages (PBL, EDL, firmware download, `ready_worker`), RDDM, time
  sync, the command ring behind channel start, `queue_skb` and `queue_dma`,
  downlink channels, system sleep; they add data paths beside the power states
  rather than states to them.  `src/fibocom_MHI` is an older copy of the same code.
* GobiNet: link state, `QMIReady` and the sync thread, MEID and data-format requests
  (sequences of the modelled `WriteSync`/`ReadSync`), the build variants
  `READ_QMI_URB_ERROR` and `QUECTEL_QMI_MERGE`, and the network half in
  `GobiUSBNet.c`.
* PCIe: the two-BAR boot with its rescan thread, `reboot_ep`, a scan that fails;
  BAR and iATU windows.
* dialer: entering the PIN, profiles and data formats (one step `setup`, since main
  only shows the answers or gives them back), the readers for GobiNet, MBIM and the
  MHI character device, DHCP and the address scripts, the socket between dialers
  and `multi-pdn-manager.c`.  `src/meig-cm` is an older relative of the same code.
* QMI server: finding the device, failing `open` and `malloc`, a write that fails
  otherwise than by a dialer that has hung up, spurious
  wakeups, a name that is already bound, more than 64 connections.
* LuCI pages and scripts; most of the repository's lines are these,
  vendored tables and packet formats, so that the map covers a small share of all
  lines although it covers most of the protocol code it names.

## Plan

1. Done: `SmsgChannel`, `SmsgRing`/`SmsgFifo` with proofs; `Sbuf`/`BytePipe`,
   `Sblock`, `Mpm`/`PowerManager`, `PcieResource`, `GobiQmi`, `MhiPm`; `Dialer` and
   `QmiProxy`.
2. Done: the proofs of the section *Proofs*.
3. Extensions: MHI downlink channels, the freeing in `sbuf_destroy`, the MBIM
   session of fibocom-dial.
