------------------------------ MODULE QmiProxy ------------------------------
(***************************************************************************)
(* The QMI server of fibocom-dial (fibo_qmimsg_server.c): several dialers  *)
(* share one modem through it.  main opens the modem, initialises it and   *)
(* starts the server; the thread qmi_proxy_loop forwards.  Requests to the *)
(* control service wait in qmi_proxy_ctl_msg, the first one is with the    *)
(* modem; answers of the other services find their way by client id.       *)
(***************************************************************************)
EXTENDS Integers, SequencesExt, FiniteSetsExt

CONSTANTS
  Dialers,     \* the processes that connect
  Ids,         \* client ids of the modem
  SyncTries,   \* 10 in qmi_proxy_init
  Retries,     \* 5 in main
  Allowed,     \* what may happen, see Circumstances
  MaxFaults,   \* bound: answers that come late, or never, indications, removals
  MaxConns,    \* bound: connections of all dialers
  MaxAsks,     \* bound: requests in a connection
  NoOne

Circumstances ==
  {"leave",    \* a dialer leaves while its control request is under way
   "giveup",   \* a dialer sends a request before the last was answered
   "late",     \* the modem answers main after its timeout
   "mute",     \* the modem does not answer main
   "deaf",     \* nor a dialer's control request
   "ind",      \* the modem sends an indication to all clients of a service
   "ctlind",   \* or one of the control service
   "unplug",   \* the modem goes
   "sigint",   \* SIGINT
   "sigrace"}  \* and that between the test of qmi_proxy_quit and poll

ASSUME ProxyAssumption ==
  /\ SyncTries \in Nat \ {0} /\ Retries \in Nat /\ Allowed \subseteq Circumstances
  /\ {MaxFaults, MaxConns, MaxAsks} \subseteq Nat
  /\ IsFiniteSet(Dialers) /\ NoOne \notin Dialers \union Ids \union (Dialers \X (0..MaxConns))

VARIABLES
  pc,       \* main: open, init, serve, done; killed by a signal
  init,     \* where qmi_proxy_init is: step (Done after success), try, retry, its
            \* TransactionId, and whether it took each answer for what it is
  wait,     \* main waits in send_qmi_timeout
  rsq,      \* s_pCtlRsq
  loop,     \* qmi_proxy_loop: none, on, missed (SIGINT unseen in poll), gone
  quit,     \* qmi_proxy_quit
  server,   \* qmi_proxy_server_fd is open
  fd,       \* of each dialer's connection, 0 when it is not accepted
  list,     \* client_qnode of the connection with that fd
  ctlq,     \* qmi_proxy_ctl_msg
  conns,    \* how many connections there were
  dlr,      \* the dialers: state, connection number, requests, request, id
  up,       \* what each sent and the server did not read
  inbox,    \* what each was sent
  plugged, ids, inq, outq,   \* the modem, and who has its ids
  format,   \* the modem has the data format main sets
  faults

vars == <<pc, init, wait, rsq, loop, quit, server, fd, list, ctlq, conns, dlr, up, inbox,
          plugged, ids, inq, outq, format, faults>>
mainVars == <<pc, init>>
answerVars == <<wait, rsq>>
proxyVars == <<fd, list, ctlq>>
dialerVars == <<conns, dlr, up, inbox>>
modemVars == <<plugged, ids, inq, outq, format>>

Fds == 1..Cardinality(Dialers)
Steps == <<"sync", "version", "getid", "format">>
Done == Len(Steps) + 1
Start == [step |-> 1, try |-> 1, retry |-> 0, tid |-> 1, own |-> TRUE]
None == [kind |-> "none", ok |-> FALSE]
Off == [st |-> "off", n |-> 0, asks |-> 0, ask |-> "none", id |-> NoOne]

TypeOK ==
  /\ pc \in {"open", "init", "serve", "done", "killed"} /\ loop \in {"none", "on", "missed", "gone"}
  /\ init.step \in 1..Done /\ init.own \in BOOLEAN /\ init.try \in 1..SyncTries /\ init.retry \in 0..Retries
  /\ init.tid \in 1..(SyncTries + 4)
  /\ {wait, quit, server, plugged, format} \subseteq BOOLEAN
  /\ fd \in [Dialers -> {0} \union Fds] /\ list \in [Fds -> SUBSET Ids]
  /\ \A c \in Dialers :
       /\ dlr[c].st \in {"off", "queued", "on", "closed"} /\ dlr[c].n \in 0..conns
       /\ dlr[c].asks \in 0..MaxAsks /\ dlr[c].ask \in {"none", "get", "release", "mux"}
       /\ dlr[c].id \in Ids \union {NoOne}
  /\ conns \in 0..MaxConns /\ faults \in 0..MaxFaults

Init ==
  /\ pc = "open" /\ init = Start /\ wait = FALSE /\ rsq = None
  /\ loop = "none" /\ quit = FALSE /\ server = FALSE
  /\ fd = [c \in Dialers |-> 0] /\ list = [f \in Fds |-> {}] /\ ctlq = <<>>
  /\ conns = 0 /\ dlr = [c \in Dialers |-> Off] /\ up = [c \in Dialers |-> <<>>]
  /\ inbox = [c \in Dialers |-> <<>>]
  /\ plugged = TRUE /\ ids = [i \in Ids |-> NoOne] /\ inq = <<>> /\ outq = <<>>
  /\ format = FALSE /\ faults = 0

Fault(k) == k \in Allowed /\ faults < MaxFaults /\ faults' = faults + 1
\* After a removal the descriptor is dead, also when the modem is back.
ToModem(m) == inq' = IF plugged /\ loop # "gone" THEN Append(inq, m) ELSE inq

-----------------------------------------------------------------------------
(* main and qmi_proxy_init.                                                 *)

\* The modem is there; qmi_proxy_loop is created, and begins with empty lists.
Open ==
  /\ pc = "open"
  /\ IF quit THEN pc' = "done" /\ UNCHANGED <<init, loop, proxyVars>>
     ELSE /\ plugged
          /\ pc' = "init" /\ init' = Start /\ loop' = "on"
          /\ ctlq' = <<>> /\ UNCHANGED <<fd, list>>
  /\ UNCHANGED <<answerVars, quit, server, dialerVars, modemVars, faults>>

\* send_qmi_timeout up to its wait.
InitSend ==
  /\ pc = "init" /\ ~wait
  /\ wait' = TRUE /\ rsq' = None
  /\ ToModem([kind |-> Steps[init.step], tid |-> init.tid, who |-> NoOne, id |-> NoOne,
              own |-> init.own])
  /\ UNCHANGED <<mainVars, loop, quit, server, proxyVars, dialerVars, plugged, ids, outq, format,
                 faults>>

\* The init failed; main tries again, a few times, while the modem is there.
Again ==
  IF init.retry < Retries /\ plugged
    THEN init' = [Start EXCEPT !.retry = init.retry + 1] /\ UNCHANGED <<pc, server>>
    ELSE init' = Start /\ pc' = "serve" /\ server' = TRUE

\* send_qmi_timeout has an answer, by its transaction id alone.  All answers of the
\* control service have their result at one place; an answer of that service is no
\* proper one to the data format request.
Accepts ==
  CASE Steps[init.step] = "sync" -> {TRUE}
    [] Steps[init.step] = "format" /\ rsq.kind # "format" -> BOOLEAN
    [] OTHER -> {rsq.ok}

InitNext ==
  /\ pc = "init" /\ wait /\ rsq # None
  /\ wait' = FALSE /\ rsq' = None
  /\ \E ok \in Accepts :
       LET next == [init EXCEPT !.step = @ + 1, !.tid = @ + 1,
                                !.own = @ /\ rsq.kind = Steps[init.step]]
       IN CASE ~ok -> Again
            [] ok /\ next.step < Done -> init' = next /\ UNCHANGED <<pc, server>>
            [] OTHER -> init' = [Start EXCEPT !.step = Done] /\ pc' = "serve" /\ server' = TRUE
  /\ UNCHANGED <<loop, quit, proxyVars, dialerVars, modemVars, faults>>

Coming ==
  \/ rsq # None
  \/ loop # "gone" /\ \E q \in {inq, outq} : \E i \in DOMAIN q : q[i].tid = init.tid /\ q[i].who = NoOne
InitTimeout ==
  /\ pc = "init" /\ wait
  /\ wait' = FALSE /\ rsq' = None
  /\ IF Coming THEN Fault("late") ELSE UNCHANGED faults
  /\ IF Steps[init.step] = "sync" /\ init.try < SyncTries
       THEN init' = [init EXCEPT !.try = @ + 1, !.tid = @ + 1] /\ UNCHANGED <<pc, server>>
       ELSE Again
  /\ UNCHANGED <<loop, quit, proxyVars, dialerVars, modemVars>>

\* pthread_join; the server is closed, and with it who is not yet accepted.
Join ==
  /\ pc = "serve" /\ loop = "gone"
  /\ server' = FALSE /\ loop' = "none" /\ pc' = "open" /\ UNCHANGED init
  /\ dlr' = [c \in Dialers |-> IF dlr[c].st = "queued" THEN [Off EXCEPT !.n = dlr[c].n] ELSE dlr[c]]
  /\ UNCHANGED <<answerVars, quit, proxyVars, conns, up, inbox, modemVars, faults>>

\* sig_action; poll of the loop is interrupted, when it has begun.
Sigint ==
  /\ "sigint" \in Allowed /\ ~quit /\ pc \notin {"done", "killed"}
  /\ quit' = TRUE
  /\ \/ UNCHANGED loop
     \/ "sigrace" \in Allowed /\ loop = "on" /\ loop' = "missed"
  /\ UNCHANGED <<mainVars, answerVars, server, proxyVars, dialerVars, modemVars, faults>>

-----------------------------------------------------------------------------
(* qmi_proxy_loop.                                                          *)

Running == loop = "missed" \/ (loop = "on" /\ ~quit)
Connected == {c \in Dialers : fd[c] # 0}
Owner(f) == CHOOSE c \in Connected : fd[c] = f
Live(f) == \E c \in Connected : fd[c] = f

\* cleanup_qmi_connection frees the first of the connection's control messages.
EntriesOf(f, q) == {i \in DOMAIN q : q[i].fd = f}
Cleaned(f, q) == IF EntriesOf(f, q) = {} THEN q ELSE RemoveAt(q, Min(EntriesOf(f, q)))
AllCleaned(F, q) == FoldSet(Cleaned, q, F)

\* The loop goes on with its next round.
Round == loop' = "on" /\ UNCHANGED <<mainVars, quit, server>>

\* accept_qmi_connection; the kernel gives the lowest free descriptor.
Accept(c) ==
  /\ Running /\ server /\ dlr[c].st = "queued"
  /\ fd' = [fd EXCEPT ![c] = Min({f \in Fds : ~Live(f)})]
  /\ dlr' = [dlr EXCEPT ![c].st = "on"]
  /\ Round /\ UNCHANGED <<answerVars, list, ctlq, conns, up, inbox, modemVars, faults>>

\* The dialer hung up: what it sent last is not read.
Cleanup(c) ==
  /\ Running /\ fd[c] # 0 /\ dlr[c].st = "closed"
  /\ ctlq' = Cleaned(fd[c], ctlq) /\ list' = [list EXCEPT ![fd[c]] = {}] /\ fd' = [fd EXCEPT ![c] = 0]
  /\ up' = [up EXCEPT ![c] = <<>>] /\ dlr' = [dlr EXCEPT ![c] = [Off EXCEPT !.n = dlr[c].n]]
  /\ Round /\ UNCHANGED <<answerVars, conns, inbox, modemVars, faults>>

\* send_qmi
IsCtl(m) == m.kind \in {"get", "release"}

\* Faulty variant: it does not wait for the answers to earlier ones.
SendsAll(m) == TRUE

SendsNow(m) == ~IsCtl(m) \/ ctlq = <<>>
SendQmi(c) ==
  LET m == Head(up[c]) IN
  /\ Running /\ fd[c] # 0 /\ dlr[c].st # "closed" /\ up[c] # <<>>
  /\ up' = [up EXCEPT ![c] = Tail(@)]
  /\ IF SendsNow(m) THEN ToModem(m) ELSE UNCHANGED inq
  /\ ctlq' = IF IsCtl(m) THEN Append(ctlq, [fd |-> fd[c], qmi |-> m]) ELSE ctlq
  /\ Round /\ UNCHANGED <<answerVars, fd, list, conns, dlr, inbox, plugged, ids, outq, format, faults>>

\* Whom recv_qmi sends a message of the modem to, when the server is there: an
\* answer of the control service to the first request of the list, whoever that is,
\* and a message of another service by client id; client id 0 is everybody (NoOne).
AreFor(a) == {c \in Connected : (a.id = NoOne /\ list[fd[c]] # {}) \/ a.id \in list[fd[c]]}
IsReply(a) == a.kind \notin {"mux", "ctlind"} /\ ctlq # <<>>
Targets(a) ==
  CASE a.kind = "mux" -> AreFor(a)
    [] IsReply(a) /\ Live(ctlq[1].fd) -> {Owner(ctlq[1].fd)}
    [] OTHER -> {}

\* send_qmi_to_client.  To a dialer that has hung up it is not that the message is
\* lost: poll says POLLOUT, and write raises SIGPIPE, see Killed.
HungUp(C) == \E c \in C : dlr[c].st = "closed"
To(C, a) ==
  /\ ~HungUp(C)
  /\ inbox' = [c \in Dialers |-> IF c \in C THEN Append(inbox[c], a) ELSE inbox[c]]

\* recv_qmi before the server is there: the answer main waits for.
RecvInit ==
  LET a == Head(outq) IN
  /\ Running /\ ~server /\ outq # <<>>
  /\ outq' = Tail(outq)
  /\ rsq' = IF wait /\ a.tid = init.tid /\ (a.kind = "format" => Steps[init.step] = "format")
              THEN [kind |-> a.kind, ok |-> a.ok] ELSE rsq
  /\ Round /\ UNCHANGED <<wait, proxyVars, dialerVars, plugged, ids, inq, format, faults>>

\* Faulty variant: release_client_id does not find the id.
ListedOnly(f, a) ==
  IF a.ok /\ a.kind = "get" THEN [list EXCEPT ![f] = @ \union {a.id}] ELSE list

\* get_client_id, release_client_id
Listed(f, a) ==
  CASE a.ok /\ a.kind = "get" -> [list EXCEPT ![f] = @ \union {a.id}]
    [] a.ok /\ a.kind = "release" -> [list EXCEPT ![f] = @ \ {a.id}]
    [] OTHER -> list

\* Faulty variant: the next request is left in the list.
SendNone(q) == UNCHANGED inq

SendFirst(q) == IF q # <<>> /\ Live(q[1].fd) THEN ToModem(q[1].qmi) ELSE UNCHANGED inq

\* recv_qmi, a message of the control service; then the next request of the list
\* goes to the modem.
RecvCtl ==
  LET a == Head(outq)
      q == IF IsReply(a) THEN Tail(ctlq) ELSE ctlq
  IN /\ Running /\ server /\ outq # <<>> /\ a.kind # "mux"
     /\ outq' = Tail(outq) /\ ctlq' = q
     /\ To(Targets(a), a)
     /\ list' = IF Targets(a) # {} THEN Listed(ctlq[1].fd, a) ELSE list
     /\ SendFirst(q)
     /\ Round /\ UNCHANGED <<answerVars, fd, conns, dlr, up, plugged, ids, format, faults>>

\* recv_qmi, a message of another service.
RecvMux ==
  LET a == Head(outq) IN
  /\ Running /\ server /\ outq # <<>> /\ a.kind = "mux"
  /\ outq' = Tail(outq)
  /\ To(Targets(a), a)
  /\ Round /\ UNCHANGED <<answerVars, proxyVars, conns, dlr, up, plugged, ids, inq, format, faults>>

\* poll without the server ends after 200 ms.
Tick ==
  /\ loop = "missed" /\ ~server
  /\ Round /\ UNCHANGED <<answerVars, proxyVars, dialerVars, modemVars, faults>>

\* Faulty variant: the loop does not look at qmi_proxy_quit.
HangupOnly == ~plugged

LoopEnds == ~plugged \/ (quit /\ loop = "on")

\* The connections whose dialer is in C end; what the dialer has not read is lost.
End(C) ==
  /\ fd' = [c \in Dialers |-> 0] /\ list' = [f \in Fds |-> {}]
  /\ dlr' = [c \in Dialers |-> IF c \in C THEN [Off EXCEPT !.n = dlr[c].n] ELSE dlr[c]]
  /\ up' = [c \in Dialers |-> IF c \in C THEN <<>> ELSE up[c]]
  /\ inbox' = [c \in Dialers |-> IF c \in C THEN <<>> ELSE inbox[c]]

\* The modem hangs up, or the loop sees qmi_proxy_quit: all connections are closed.
LoopExit ==
  /\ loop \in {"on", "missed"} /\ LoopEnds
  /\ loop' = "gone"
  /\ ctlq' = AllCleaned({fd[c] : c \in Connected}, ctlq)
  /\ End(Connected)
  /\ UNCHANGED <<mainVars, answerVars, quit, server, conns, modemVars, faults>>

\* The read of the modem comes before the POLLHUP of the connections (pollfds), so
\* recv_qmi may write to a dialer that has hung up.  main handles SIGINT only: the
\* SIGPIPE ends the process, and with it all its descriptors.
Killed ==
  /\ Running /\ server /\ outq # <<>> /\ HungUp(Targets(Head(outq)))
  /\ pc' = "killed" /\ loop' = "gone" /\ server' = FALSE
  /\ ctlq' = <<>>
  /\ End({c \in Dialers : dlr[c].st # "off"})
  /\ UNCHANGED <<init, answerVars, quit, conns, modemVars, faults>>

-----------------------------------------------------------------------------
(* The dialers.                                                             *)

Who(c) == <<c, dlr[c].n>>
DialerStep == UNCHANGED <<mainVars, answerVars, loop, quit, server, proxyVars, modemVars, faults>>

Connect(c) ==
  /\ server /\ dlr[c].st = "off" /\ conns < MaxConns /\ conns' = conns + 1
  /\ dlr' = [dlr EXCEPT ![c] = [Off EXCEPT !.st = "queued", !.n = dlr[c].n + 1]]
  /\ DialerStep /\ UNCHANGED <<up, inbox>>

\* The id is forgotten with its release, also when that is not answered.
Holds(c) == IF dlr[c].ask = "release" THEN NoOne ELSE dlr[c].id

\* QmiWwanGetClientID, QmiWwanReleaseClientID, and a request of a service.
Asking(c) == IF Holds(c) = NoOne THEN {"get"} ELSE {"release", "mux"}
Ask(c) ==
  /\ dlr[c].st = "on" /\ dlr[c].asks < MaxAsks /\ (dlr[c].ask = "none" \/ "giveup" \in Allowed)
  /\ \E k \in Asking(c) :
       /\ dlr' = [dlr EXCEPT ![c].ask = k, ![c].asks = @ + 1, ![c].id = Holds(c)]
       /\ up' = [up EXCEPT ![c] = Append(@, [kind |-> k, who |-> Who(c), id |-> Holds(c),
                                             tid |-> dlr[c].asks + 1])]
  /\ DialerStep /\ UNCHANGED <<conns, inbox>>

\* QmiThreadRecvQMI: answers of requests that were given up are passed over.
Receive(c) ==
  LET a == Head(inbox[c])
      mine == a.kind = dlr[c].ask /\ a.tid = dlr[c].asks
  IN /\ inbox[c] # <<>>
     /\ inbox' = [inbox EXCEPT ![c] = Tail(@)]
     /\ dlr' = IF ~mine THEN dlr
               ELSE [dlr EXCEPT ![c].ask = "none",
                                ![c].id = CASE a.ok /\ a.kind = "get" -> a.id
                                            [] a.ok /\ a.kind = "release" -> NoOne
                                            [] OTHER -> @]
     /\ DialerStep /\ UNCHANGED <<conns, up>>

Pending(c) == \E i \in DOMAIN ctlq : fd[c] # 0 /\ ctlq[i].fd = fd[c]
Close(c) ==
  /\ dlr[c].st = "on"
  /\ "leave" \in Allowed \/ (dlr[c].ask = "none" /\ ~Pending(c) /\ up[c] = <<>>)
  /\ dlr' = [dlr EXCEPT ![c].st = "closed", ![c].ask = "none"]
  /\ inbox' = [inbox EXCEPT ![c] = <<>>]
  /\ DialerStep /\ UNCHANGED <<conns, up>>

-----------------------------------------------------------------------------
(* The modem.                                                               *)

Free == {i \in Ids : ids[i] = NoOne}
Answer(m, ok, i) == [kind |-> m.kind, tid |-> m.tid, who |-> m.who, ok |-> ok, id |-> i]
ModemStep == UNCHANGED <<mainVars, answerVars, loop, quit, server, proxyVars, dialerVars, plugged>>

\* What it answers to m, and who has its ids then.
Effects(m) ==
  CASE m.kind = "sync" -> {<<Answer(m, TRUE, NoOne), [i \in Ids |-> NoOne]>>}
    [] m.kind = "get" /\ Free # {} ->
         {<<Answer(m, TRUE, i), [ids EXCEPT ![i] = m.who]>> : i \in Free}
    [] m.kind = "get" /\ Free = {} -> {<<Answer(m, FALSE, NoOne), ids>>}
    [] m.kind = "release" -> {<<Answer(m, TRUE, m.id), [ids EXCEPT ![m.id] = NoOne]>>}
    [] m.kind = "format" ->
         {<<Answer(m, ok, m.id), ids>> : ok \in IF m.own THEN {TRUE} ELSE BOOLEAN}
    [] OTHER -> {<<Answer(m, TRUE, m.id), ids>>}

Serve ==
  /\ inq # <<>> /\ inq' = Tail(inq)
  /\ \E e \in Effects(Head(inq)) :
       /\ outq' = Append(outq, e[1]) /\ ids' = e[2]
       /\ format' = IF Head(inq).kind = "format" THEN e[1].ok ELSE format
  /\ ModemStep /\ UNCHANGED faults

Mute ==
  /\ inq # <<>> /\ inq' = Tail(inq) /\ UNCHANGED <<outq, ids, format>>
  /\ IF Head(inq).who = NoOne THEN Fault("mute") ELSE IsCtl(Head(inq)) /\ Fault("deaf")
  /\ ModemStep

Indicate ==
  /\ plugged /\ server
  /\ \E k \in {"ind", "ctlind"} :
       /\ Fault(k)
       /\ outq' = Append(outq, [kind |-> IF k = "ind" THEN "mux" ELSE k, tid |-> 0,
                                who |-> NoOne, ok |-> TRUE, id |-> NoOne])
  /\ ModemStep /\ UNCHANGED <<inq, ids, format>>

Unplug ==
  /\ plugged /\ Fault("unplug")
  /\ plugged' = FALSE /\ ids' = [i \in Ids |-> NoOne] /\ inq' = <<>> /\ outq' = <<>>
  /\ format' = FALSE
  /\ UNCHANGED <<mainVars, answerVars, loop, quit, server, proxyVars, dialerVars>>

\* It is not back before the server has seen that it went.
Replug ==
  /\ ~plugged /\ loop \in {"none", "gone"}
  /\ plugged' = TRUE
  /\ UNCHANGED <<mainVars, answerVars, loop, quit, server, proxyVars, dialerVars, ids, inq, outq, format, faults>>

-----------------------------------------------------------------------------
MainAct == Open \/ InitSend \/ InitNext \/ InitTimeout \/ Join
LoopAct ==
  \/ \E c \in Dialers : Accept(c) \/ Cleanup(c) \/ SendQmi(c)
  \/ RecvInit \/ RecvCtl \/ RecvMux \/ Killed \/ Tick \/ LoopExit
DialerAct == \E c \in Dialers : Connect(c) \/ Ask(c) \/ Receive(c) \/ Close(c)

Next == MainAct \/ Sigint \/ LoopAct \/ DialerAct \/ Serve \/ Mute \/ Indicate \/ Unplug \/ Replug

Spec == Init /\ [][Next]_vars

\* Threads run, dialers read, the modem answers and comes back.
FairSpec ==
  /\ Spec /\ WF_vars(MainAct) /\ WF_vars(Serve) /\ WF_vars(Replug)
  /\ WF_vars(RecvInit \/ RecvCtl \/ RecvMux \/ Killed) /\ WF_vars(Tick \/ LoopExit)
  /\ \A c \in Dialers : WF_vars(Accept(c) \/ Cleanup(c) \/ SendQmi(c)) /\ WF_vars(Receive(c))

-----------------------------------------------------------------------------
Serving == server /\ loop \in {"on", "missed"}

\* The control service tells no requests of different dialers apart (transaction ids
\* are the dialers' own), so it has at most one, the first of the list.
OneRequest ==
  LET q == inq \o outq
      ctl == {i \in DOMAIN q : IsCtl(q[i])}
  IN Serving => \A i \in ctl : ctl = {i} /\ ctlq # <<>> /\ q[i].who = ctlq[1].qmi.who

\* When main reports that the init finished, the modem has set the data format.
InitIsReal == Serving /\ init.step = Done /\ plugged => format

\* main tries the init again until it is done, before it starts the server ("init
\* function must be successfully", 1304): a modem that is there is served only then.
ServesInitialised == Serving /\ plugged => init.step = Done

\* The server serves a modem that was set up, or that main gave up to set up, and
\* asks it one thing at a time.
ProxySafe == TypeOK /\ OneRequest /\ InitIsReal

\* An answer reaches the connection that asked, and no later one with its
\* descriptor.
AnswerIsOwn ==
  \A c \in Dialers : \A i \in DOMAIN inbox[c] : inbox[c][i].who \in {NoOne, Who(c)}

\* What a dialer takes for its id is listed for it, and for it alone, so that the
\* answers to its requests are sent there.
IdsAreListed ==
  \A c \in Connected :
    dlr[c].st = "on" /\ dlr[c].id # NoOne /\ dlr[c].ask # "release" =>
      \A x \in Connected : dlr[c].id \in list[fd[x]] <=> x = c

\* Every answer finds the dialer it is for, across connections that come and go, a
\* modem that restarts, and descriptors and ids that are used again.
AnswersFindOwner == AnswerIsOwn /\ IdsAreListed

\* Who asks is answered, unless it leaves, or its connection ends: when the modem
\* goes, and when the server is killed.
Answered == \A c \in Dialers : dlr[c].ask # "none" ~> dlr[c].ask = "none"

\* What kills the server is a dialer that hung up with a client id it never gave
\* back: a dialer that releases its ids and then leaves does no harm to the others,
\* whatever the modem indicates or answers meanwhile.
OnlyAbandonedKill ==
  [][pc' = "killed" /\ pc # "killed" =>
       \E c \in Connected : dlr[c].st = "closed" /\ dlr[c].id # NoOne]_vars

\* The server comes back with the modem, also when main gets no answers, until
\* SIGINT, or the SIGPIPE of Killed; SIGINT ends it, unless it comes between the
\* loop's test of qmi_proxy_quit and its poll ("sigrace"), which then waits for the
\* next event.
ServesUntilQuit ==
  /\ OnlyAbandonedKill
  /\ <>[](server \/ quit \/ pc = "killed")
  /\ quit ~> pc \in {"done", "killed"} \/ loop = "missed"
=============================================================================
