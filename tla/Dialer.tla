------------------------------- MODULE Dialer -------------------------------
(***************************************************************************)
(* The dialer fibocom-dial (main.c, QMIThread.c, QmiWwanCM.c): the main    *)
(* thread sets up and watches the data calls of a modem, one per IP        *)
(* family, with QMI requests; QmiWwanThread reads what the modem says and  *)
(* hands an answer over under s_commandmutex.  Signals and events reach    *)
(* the main loop through two socket pairs.                                 *)
(*                                                                         *)
(* What main still has to do in the handler it is in is a list of steps,   *)
(* todo.  A step that is a request is sent, and applied when its result    *)
(* is there; a step without one is done at once.                           *)
(***************************************************************************)
EXTENDS Integers, SequencesExt, FiniteSetsExt

CONSTANTS
  Families,    \* the families asked for, of "v4" and "v6"
  Auth,        \* user and password are given
  Unicom,      \* the network is 460-01 or 460-06
  MainLoop,    \* option -l: wait for the modem to come back
  MaxAddr,     \* bound: the addresses the network gives
  MaxTid,      \* 65535 (QMUX) or 255 (QMICTL), the largest transaction id
  SyncTries,   \* 10 in QmiWwanInit
  Faults,      \* what may go wrong, see FaultKinds
  MaxFaults,   \* bound: how often
  Returns,     \* a modem that went may be plugged in again
  Signals      \* SIGTERM may be sent

FaultKinds ==
  {"loss",     \* the modem does not answer a request
   "client",   \*   nor (in time) one for a client id
   "release",  \*   nor one for its release
   "radio",    \*   nor one for the operating mode
   "addr",     \*   nor (in time) one for the address of a new call
   "slow",     \* an answer comes after the timeout
   "refuse",   \* a call is refused
   "drop",     \* the network ends a call
   "net",      \* the network is lost
   "ind",      \* an indication is lost
   "nosim",    \* a modem just plugged in does not support its SIM for a while
   "unplug"}   \* the modem goes

Both == {"v4", "v6"}
Clients == Both \union {"nas", "dms"}   \* UIM and WDA are used like DMS
Addrs == 1..MaxAddr

ASSUME DialerAssumption ==
  /\ Families \subseteq Both /\ Families # {}
  /\ {Auth, Unicom, MainLoop, Returns, Signals} \subseteq BOOLEAN
  /\ MaxTid \in Nat \ {0} /\ SyncTries \in Nat \ {0} /\ MaxFaults \in Nat
  /\ MaxAddr \in Nat \ {0}
  /\ Faults \subseteq FaultKinds

VARIABLES
  pc,      \* main: detect, connect, poll, run, wait, join, exited
  todo,    \* steps of main's handler still to do, the current one first
  res,     \* result of the current step's request
  req,     \* s_pRequest
  rsp,     \* s_pResponse
  woken,   \* s_commandcond was signalled for main
  sigq,    \* signal_control_fd
  evq,     \* qmidevice_control_fd, to main
  cmdq,    \* qmidevice_control_fd, to the reader
  d,       \* the globals of main.c and QMIThread.c
  rd,      \* reader: none, open, poll, closed, told, exited
  m,       \* the modem
  inq,     \* requests the modem has not answered
  outq,    \* what the reader has not read
  faults, term

vars == <<pc, todo, res, req, rsp, woken, sigq, evq, cmdq, d, rd, m, inq, outq, faults, term>>
cond == <<req, rsp, woken>>
pipes == <<sigq, evq, cmdq>>
modem == <<m, inq, outq>>
env == <<faults, term>>

NoAnswer == [a |-> "none", own |-> TRUE]

TypeOK ==
  /\ pc \in {"detect", "connect", "poll", "run", "wait", "join", "exited"}
  /\ res \in {"none", "ok", "rej", "unsup", "up", "down", "att", "det", "timeout", "nodev", "abort"}
  /\ req \in {"none", "ctl"} \union Clients /\ woken \in BOOLEAN
  /\ d.fam \subseteq Families /\ d.status \in [Both -> {"unknown", "conn", "disc"}]
  /\ d.hdl \in [Both -> BOOLEAN] /\ d.local \in [Both -> {0} \union Addrs]
  /\ d.client \in [Clients -> BOOLEAN] /\ d.attached \in BOOLEAN
  /\ d.link \in -1..1 /\ d.tmo \in 0..3 /\ d.fail \in {"zero", "fresh", "late", "used"}
  /\ d.alarm \in BOOLEAN /\ d.loop \in BOOLEAN
  /\ rd \in {"none", "open", "poll", "closed", "told", "exited"}
  /\ m.plugged \in BOOLEAN /\ m.sim \in BOOLEAN /\ m.reg \in BOOLEAN /\ m.lpm \in BOOLEAN
  /\ m.call \in [Both -> BOOLEAN] /\ m.addr \in [Both -> Addrs] /\ m.cid \in [Clients -> BOOLEAN]
  /\ faults \in 0..MaxFaults /\ term \in BOOLEAN

All(S, v) == [x \in S |-> v]

\* A modem that was just plugged in; addr keeps the addresses of the last calls.
Fresh(addr) ==
  [plugged |-> TRUE, sim |-> "nosim" \notin Faults, reg |-> FALSE, lpm |-> FALSE, call |-> All(Both, FALSE),
   addr |-> addr, cid |-> All(Clients, FALSE)]

Init ==
  /\ pc = "detect" /\ todo = <<>> /\ res = "none"
  /\ req = "none" /\ rsp = NoAnswer /\ woken = FALSE
  /\ sigq = <<>> /\ evq = <<>> /\ cmdq = <<>>
  /\ d = [fam |-> Families, status |-> All(Both, "unknown"), hdl |-> All(Both, FALSE),
          local |-> All(Both, 0), client |-> All(Clients, FALSE), attached |-> FALSE,
          link |-> -1, tmo |-> 0, fail |-> "zero", alarm |-> FALSE, loop |-> MainLoop]
  /\ rd = "none" /\ m = Fresh(All(Both, 1)) /\ inq = <<>> /\ outq = <<>>
  /\ faults = 0 /\ term = FALSE

-----------------------------------------------------------------------------
(* Steps.                                                                   *)

Step(name, arg) == [op |-> name, arg |-> arg]
Do(name) == Step(name, "-")
When(b, s) == IF b THEN s ELSE <<>>

\* Steps name for the families of F, v4 first.
Each(name, F) ==
  When("v4" \in F, <<Step(name, "v4")>>) \o When("v6" \in F, <<Step(name, "v6")>>)

\* QmiWwanInit and the requests of main before its loop.  Those whose answers
\* main only shows, or gives back to the modem, are one: setup of the data
\* format, SIM card and profile.  sim is requestGetSIMStatus, which has a loop.
Startup ==
  <<Step("sync", 1), Do("version")>> \o Each("getid", d.fam)
    \o <<Step("getid", "dms"), Step("getid", "nas"), Do("format"), Do("sim"), Do("reg"), Do("refresh")>>

\* Faulty variant: The service of the calls is left out.
ReleasesOthers ==
  Each("release", {}) \o When(d.client["dms"], <<Step("release", "dms")>>)
    \o When(d.client["nas"], <<Step("release", "nas")>>)

\* The requests of TERM: QmiWwanDeInit releases what qmiclientId has, in its order.
Held == {c \in Clients : d.client[c]}
Releases ==
  Each("release", {"v4"} \intersect Held) \o When("dms" \in Held, <<Step("release", "dms")>>)
    \o When("nas" \in Held, <<Step("release", "nas")>>) \o Each("release", {"v6"} \intersect Held)

Down(f) == f \in d.fam /\ d.status[f] = "disc"

OnSignal(s) ==
  CASE s = "USR1" -> Each("redial", d.fam) \o <<Do("radio")>>
    [] s = "USR2" -> When("v4" \in d.fam, <<Step("query", "v4"), Step("check", "v4")>>)
                       \o When("v6" \in d.fam, <<Step("query", "v6")>>) \o <<Do("judge")>>
    [] s = "TERM" -> Each("stop", {f \in d.fam : d.status[f] = "conn"})
                       \o <<Do("link0")>> \o Releases \o <<Do("quit")>>

OnEvent(e) ==
  CASE e = "gone" -> <<Do("link0"), Do("leave")>>
    [] e = "net" -> <<Do("reg"), Do("redialnow")>>
    [] e = "call" -> When(\E f \in Both : d.status[f] = "conn", <<Do("refresh")>>)

\* The client of a step's request; a step without a request has none.
ClientOf(s) ==
  CASE s.op \in {"sync", "version", "getid", "release"} -> "ctl"
    [] s.op = "reg" -> "nas"
    [] s.op \in {"format", "sim", "mode"} -> "dms"
    [] s.op \in {"setup", "setup2", "query"} -> s.arg
    [] s.op \in {"stop", "getip"} /\ d.hdl[s.arg] -> s.arg
    [] s.op = "check" /\ d.status[s.arg] = "conn" /\ d.hdl[s.arg] -> s.arg
    [] OTHER -> "none"

Here == Head(todo)
Asks == todo # <<>> /\ ClientOf(Here) # "none"

\* The step is done and s comes next; D are the new globals.
Then(s, D) ==
  /\ todo' = s \o Tail(todo) /\ d' = D /\ res' = "none"
  /\ UNCHANGED <<pc, cond, rd, modem, env>>
Go(s, D) == Then(s, D) /\ UNCHANGED pipes

-----------------------------------------------------------------------------
(* The main thread.                                                         *)

\* qmidevice_detect, and QmiWwanThread is created.
Detect ==
  /\ pc = "detect"
  /\ \/ m.plugged /\ pc' = "connect" /\ rd' = "open"
     \/ ~m.plugged /\ ~d.loop /\ pc' = "exited" /\ UNCHANGED rd
  /\ UNCHANGED <<todo, res, cond, pipes, d, modem, env>>

\* The first event has to be RIL_INDICATE_DEVICE_CONNECTED.
Connect ==
  /\ pc = "connect" /\ evq # <<>>
  /\ evq' = Tail(evq)
  /\ IF Head(evq) = "connected"
       THEN pc' = "run" /\ todo' = Startup
       ELSE pc' = "exited" /\ UNCHANGED todo
  /\ UNCHANGED <<res, cond, sigq, cmdq, d, rd, modem, env>>

\* poll, and the handlers of one signal and of one event.
Poll ==
  /\ pc = "poll" /\ (sigq # <<>> \/ evq # <<>>)
  /\ pc' = "run"
  /\ todo' = When(sigq # <<>>, <<Do("signal")>>) \o When(evq # <<>>, <<Do("event")>>)
  /\ UNCHANGED <<res, cond, pipes, d, rd, modem, env>>

\* 15 seconds without either; an alarm comes after 5.
PollTimeout ==
  /\ pc = "poll" /\ sigq = <<>> /\ evq = <<>> /\ ~d.alarm
  /\ sigq' = <<"USR2">>
  /\ UNCHANGED <<pc, todo, res, cond, evq, cmdq, d, rd, modem, env>>

LoopAgain ==
  /\ pc = "run" /\ todo = <<>>
  /\ pc' = "poll"
  /\ UNCHANGED <<todo, res, cond, pipes, d, rd, modem, env>>

At(op) == pc = "run" /\ todo # <<>> /\ Here.op = op

ReadSignal ==
  /\ At("signal")
  /\ sigq' = Tail(sigq)
  /\ Then(OnSignal(Head(sigq)), [d EXCEPT !.alarm = FALSE])
  /\ UNCHANGED <<evq, cmdq>>

ReadEvent ==
  /\ At("event")
  /\ evq' = Tail(evq)
  /\ Then(OnEvent(Head(evq)), d)
  /\ UNCHANGED <<sigq, cmdq>>

\* Transaction ids are relative to the last request of their counter
\* (GetQCTLTransactionId or GetQMUXTransactionId), whose messages have age 0.
Counter(c) == IF c = "ctl" THEN "ctl" ELSE "mux"
Later(q, c) ==
  [i \in DOMAIN q |->
     [q[i] EXCEPT !.own = FALSE,
                  !.age = IF @ >= 0 /\ Counter(q[i].c) = Counter(c) THEN (@ + 1) % MaxTid ELSE @]]

Known(c) == IF c = "ctl" THEN TRUE ELSE d.client[c]

\* ComposeQMUXMsg gives no request without a client id.
SendNothing ==
  /\ pc = "run" /\ Asks /\ res = "none" /\ ~Known(ClientOf(Here))
  /\ res' = "nodev"
  /\ UNCHANGED <<pc, todo, cond, pipes, d, rd, modem, env>>

\* QmiThreadSendQMITimeout up to its wait, with QmiWwanSendQMI: s_commandmutex is
\* held.  A modem that is gone makes the write fail, or poll return 1.
Send ==
  LET c == ClientOf(Here) IN
  /\ pc = "run" /\ Asks /\ res = "none" /\ Known(c)
  /\ req' = c /\ rsp' = NoAnswer /\ woken' = FALSE
  /\ outq' = Later(outq, c)
  /\ IF rd = "poll" /\ m.plugged
       THEN /\ inq' = Append(Later(inq, c), [s |-> Here, c |-> c, age |-> 0, own |-> TRUE])
            /\ pc' = "wait" /\ UNCHANGED res
       ELSE /\ res' \in (IF rd = "poll" THEN {"nodev", "rej"} ELSE {"nodev"})
            /\ inq' = Later(inq, c) /\ UNCHANGED pc
  /\ UNCHANGED <<todo, pipes, d, rd, m, env>>

\* pthread_cond_timedwait returns 0.  Without an answer, after QmiThreadRecvQMI(NULL),
\* the callers' err is 0 too.
Wake ==
  /\ pc = "wait" /\ woken
  /\ res' = IF rsp = NoAnswer THEN "abort" ELSE rsp.a
  /\ pc' = "run" /\ woken' = FALSE /\ rsp' = NoAnswer
  /\ UNCHANGED <<todo, req, pipes, d, rd, modem, env>>

Coming == \E q \in {inq, outq} : \E i \in DOMAIN q : q[i].own

\* It returns ETIMEDOUT; s_pRequest stays.
Fault(k) == k \in Faults /\ faults < MaxFaults /\ faults' = faults + 1 /\ UNCHANGED term
GiveUp ==
  /\ pc = "wait"
  /\ res' = "timeout" /\ pc' = "run" /\ woken' = FALSE
  /\ UNCHANGED <<todo, req, rsp, pipes, d, rd, modem>>
Timeout == GiveUp /\ ~woken /\ ~Coming /\ UNCHANGED env
TooLate ==
  /\ GiveUp /\ (woken \/ Coming)
  /\ Fault(CASE Here.op = "getid" -> "client" [] Here.op = "getip" -> "addr" [] OTHER -> "slow")

\* The request's function returned 0; it returned an error above 0.
Err0 == res \in {"ok", "up", "down", "att", "det", "abort"}
ErrPositive == res \in {"rej", "unsup", "timeout"}
Has(op) == At(op) /\ (Asks => res # "none")

-----------------------------------------------------------------------------
(* The start, and the requests without consequences in main.                *)

\* The SYNC loop; when all tries fail main returns.
Sync ==
  /\ Has("sync")
  /\ IF Err0 THEN Go(<<>>, d)
     ELSE IF Here.arg < SyncTries THEN Go(<<Step("sync", Here.arg + 1)>>, d)
     ELSE /\ pc' = "exited"
          /\ UNCHANGED <<todo, res, cond, pipes, d, rd, modem, env>>

\* Faulty variant: Any error is a reason to ask again.
SimAsksOn == Has("sim") /\ Go(When(~Err0, <<Do("sim")>>), d)

\* QMI_ERR_OP_DEVICE_UNSUPPORTED: ask again, after a second.
SimStatus == Has("sim") /\ Go(When(res = "unsup", <<Do("sim")>>), d)

Plain == (Has("version") \/ Has("format") \/ Has("mode")) /\ Go(<<>>, d)
GetClientID == Has("getid") /\ Go(<<>>, [d EXCEPT !.client[Here.arg] = res = "ok"])
ReleaseClientID == Has("release") /\ Go(<<>>, [d EXCEPT !.client[Here.arg] = FALSE])

\* requestRegistrationState2
Registration == Has("reg") /\ Go(<<>>, [d EXCEPT !.attached = res = "att"])

\* send_signo_to_main
Tell(op, s, b) ==
  /\ At(op) /\ Then(<<>>, d)
  /\ sigq' = IF b THEN Append(sigq, s) ELSE sigq
  /\ UNCHANGED <<evq, cmdq>>
Refresh == Tell("refresh", "USR2", TRUE)
RedialNow == Tell("redialnow", "USR1", d.attached /\ \E f \in Both : Down(f))
Kick == Tell("kick", "USR1", TRUE)

-----------------------------------------------------------------------------
(* SIGUSR1: dial the families that are not connected.                       *)

Redial ==
  LET f == Here.arg IN
  /\ At("redial")
  /\ Go(When(d.status[f] # "conn",
             When(f = "v4" \/ "v4" \notin d.fam, <<Do("link0")>>) \o <<Do("reg"), Step("dial", f)>>),
        d)

Dial == At("dial") /\ Go(When(d.attached, <<Step("setup", Here.arg)>>), d)

SetupDone ==
  /\ Has("setup") \/ Has("setup2")
  /\ Err0
  /\ Go(<<Step("getip", Here.arg), Step("connected", Here.arg)>>,
        [d EXCEPT !.hdl[Here.arg] = @ \/ res = "ok"])

Connected ==
  /\ At("connected")
  /\ Go(<<>>, [d EXCEPT !.status[Here.arg] = "conn", !.fail = "zero"])

\* Faulty variant: The time of the first failure is not kept.
FirstFailForgets == d

FirstFail == [d EXCEPT !.fail = IF @ = "zero" THEN "fresh" ELSE @]

\* No IPv6 there: main goes on without it, and leaves the handler.
QuitIPv6(f) == Unicom /\ f = "v6" /\ "v4" \in d.fam /\ ErrPositive

\* The second try is with the other kind of authentication.
SetupFails ==
  LET f == Here.arg IN
  /\ Has("setup") /\ ~Err0
  /\ \/ /\ QuitIPv6(f)
        /\ d' = [d EXCEPT !.fam = @ \ {"v6"}] /\ res' = "none"
        /\ todo' = Tail(Tail(todo))
        /\ UNCHANGED <<pc, cond, pipes, rd, modem, env>>
     \/ ~QuitIPv6(f) /\ ErrPositive /\ Auth /\ Go(<<Step("setup2", f)>>, d)
     \/ ~QuitIPv6(f) /\ ~(ErrPositive /\ Auth) /\ Go(<<>>, FirstFail)

SetupFailsAgain == Has("setup2") /\ ~Err0 /\ Go(<<>>, FirstFail)

\* The radio is switched off and on when calls have failed for 45 seconds, and
\* began to after the last time; alarm(5).
Radio ==
  LET now == d.fail = "late" /\ \E f \in d.fam : d.status[f] # "conn" IN
  /\ At("radio")
  /\ Go(When(now, <<Step("mode", "off"), Step("mode", "on")>>) \o <<Do("alarm")>>,
        IF now THEN [d EXCEPT !.fail = "used"] ELSE d)

SetAlarm == At("alarm") /\ Go(<<>>, [d EXCEPT !.alarm = TRUE])

-----------------------------------------------------------------------------
(* SIGUSR2: ask for the state of the calls.                                 *)

\* requestQueryDataCall
Query ==
  LET f == Here.arg IN
  /\ Has("query")
  /\ Go(<<>>, CASE res = "up" -> [d EXCEPT !.status[f] = "conn"]
                [] res = "down" -> [d EXCEPT !.status[f] = "disc", !.hdl[f] = FALSE]
                [] OTHER -> d)

\* check_address compares with what requestGetIPAddress gets: address 0 when there
\* is no handle, or no answer.
Check ==
  LET f == Here.arg
      n == d.tmo + 1
      same == CASE res = "ok" -> d.local[f] = m.addr[f]
                [] res \in {"none", "abort"} -> d.local[f] = 0
                [] res = "timeout" -> n < 3
                [] OTHER -> FALSE
      tmo == CASE res = "timeout" -> Min({n, 3})
               [] res \in {"ok", "none", "abort"} -> 0
               [] OTHER -> d.tmo
  IN /\ Has("check")
     /\ IF d.status[f] # "conn"
          THEN Go(<<>>, d)
          ELSE Go(When(~same, <<Step("stop", f), Step("ended", f)>>), [d EXCEPT !.tmo = tmo])

\* requestDeactivateDefaultPDP
Stop == Has("stop") /\ Go(<<>>, IF res = "ok" THEN [d EXCEPT !.hdl[Here.arg] = FALSE] ELSE d)
Ended == At("ended") /\ Go(<<>>, [d EXCEPT !.status[Here.arg] = "disc"])

Judge ==
  LET st == [f \in Both |-> IF f \in d.fam THEN d.status[f] ELSE "disc"] IN
  /\ At("judge")
  /\ Go(When(\A f \in Both : st[f] = "disc", <<Do("link0")>>)
          \o When(\E f \in Both : st[f] = "conn", <<Do("link1")>>)
          \o When(\E f \in d.fam : st[f] = "disc", <<Do("kick")>>),
        [d EXCEPT !.status = st])

\* usbnet_link_change
LinkDown == At("link0") /\ Go(<<>>, [d EXCEPT !.link = 0])
LinkUp == At("link1") /\ Go(When(d.link # 1, Each("getip", d.fam)), [d EXCEPT !.link = 1])

\* requestGetIPAddress; without an answer the address is 0.
GetIPAddress ==
  LET f == Here.arg IN
  Has("getip") /\ Go(<<>>, [d EXCEPT !.local[f] = IF res = "ok" THEN m.addr[f] ELSE 0])

-----------------------------------------------------------------------------
(* The end.                                                                 *)

\* RIL_REQUEST_QUIT, and __main_quit.
Quit ==
  /\ At("quit")
  /\ cmdq' = Append(cmdq, "QUIT")
  /\ d' = [d EXCEPT !.link = 0] /\ pc' = "join" /\ todo' = <<>>
  /\ UNCHANGED <<res, cond, sigq, evq, rd, modem, env>>

\* RIL_INDICATE_DEVICE_DISCONNECTED
Leave ==
  /\ At("leave")
  /\ pc' = "join" /\ todo' = When(d.loop, <<Do("again")>>)
  /\ UNCHANGED <<res, cond, pipes, d, rd, modem, env>>

Join ==
  /\ pc = "join" /\ rd = "exited"
  /\ pc' = IF todo = <<>> THEN "exited" ELSE "detect"
  /\ todo' = <<>>
  /\ UNCHANGED <<res, cond, pipes, d, rd, modem, env>>

\* fibo_sigaction; main_loop is cleared first.
Sigterm ==
  /\ Signals /\ ~term /\ pc # "exited"
  /\ term' = TRUE
  /\ d' = [d EXCEPT !.loop = FALSE]
  /\ sigq' = Append(sigq, "TERM") /\ cmdq' = Append(cmdq, "TERM")
  /\ UNCHANGED <<pc, todo, res, cond, evq, rd, modem, faults>>

Sigalrm ==
  /\ d.alarm /\ pc # "exited"
  /\ d' = [d EXCEPT !.alarm = FALSE]
  /\ sigq' = Append(sigq, "USR1")
  /\ UNCHANGED <<pc, todo, res, cond, evq, cmdq, rd, modem, env>>

\* 45 seconds since the first failure.
Elapse ==
  /\ d.fail = "fresh" /\ pc # "exited"
  /\ d' = [d EXCEPT !.fail = "late"]
  /\ UNCHANGED <<pc, todo, res, cond, pipes, rd, modem, env>>

-----------------------------------------------------------------------------
(* The reader, QmiWwanThread.                                               *)

\* QmiThreadRecvQMI(NULL)
RecvNull ==
  IF req = "none" THEN UNCHANGED cond
  ELSE req' = "none" /\ rsp' = NoAnswer /\ woken' = (pc = "wait")

is_response(a) == a.c = req /\ a.age = 0

Reads(ev) ==
  /\ evq' = IF ev = "none" THEN evq ELSE Append(evq, ev)
  /\ UNCHANGED <<pc, todo, res, sigq, d, m, inq, env>>

Open ==
  /\ rd = "open"
  /\ rd' = IF m.plugged THEN "poll" ELSE "exited"
  /\ Reads(IF m.plugged THEN "connected" ELSE "gone")
  /\ UNCHANGED <<cond, cmdq, outq>>

ReadCmd ==
  /\ rd = "poll" /\ cmdq # <<>> /\ pc # "exited"
  /\ cmdq' = Tail(cmdq)
  /\ IF Head(cmdq) = "QUIT"
       THEN rd' = "closed" /\ UNCHANGED cond
       ELSE RecvNull /\ UNCHANGED rd
  /\ Reads("none") /\ UNCHANGED outq

\* QmiThreadRecvQMI of an answer, or of an indication.
RecvQMI ==
  LET a == Head(outq) IN
  /\ rd = "poll" /\ outq # <<>> /\ pc # "exited"
  /\ outq' = Tail(outq)
  /\ IF is_response(a)
       THEN /\ rsp' = [a |-> a.a, own |-> a.own] /\ req' = "none" /\ woken' = (pc = "wait")
            /\ Reads("none")
       ELSE Reads(IF a.age < 0 THEN a.a ELSE "none") /\ UNCHANGED cond
  /\ UNCHANGED <<cmdq, rd>>

Hangup ==
  /\ rd = "poll" /\ ~m.plugged
  /\ rd' = "closed"
  /\ Reads("none") /\ UNCHANGED <<cond, cmdq, outq>>

TellGone ==
  /\ rd = "closed" /\ rd' = "told"
  /\ Reads("gone") /\ UNCHANGED <<cond, cmdq, outq>>

\* Faulty variant: Main is not woken after the event.
ExitOnly ==
  /\ rd = "told" /\ rd' = "exited"
  /\ Reads("none") /\ UNCHANGED <<cond, cmdq, outq>>

Exit ==
  /\ rd = "told" /\ rd' = "exited"
  /\ RecvNull
  /\ Reads("none") /\ UNCHANGED <<cmdq, outq>>

-----------------------------------------------------------------------------
(* The modem.                                                               *)

Ind(c, a) == [a |-> a, c |-> c, age |-> -1, own |-> FALSE]
CallInd(f) == When(m.cid[f], <<Ind(f, "call")>>)
Hung(C) == [f \in Both |-> m.call[f] /\ f \notin C]

\* What the modem makes of request s of its control service: its answer and new state.
CtlEffect(s) ==
  CASE s.op = "sync" ->
         {[a |-> "ok", n |-> [m EXCEPT !.cid = All(Clients, FALSE), !.call = All(Both, FALSE)]]}
    [] s.op = "getid" -> {[a |-> "ok", n |-> [m EXCEPT !.cid[s.arg] = TRUE]]}
    [] s.op = "release" /\ s.arg = "v6" -> {[a |-> "rej", n |-> m]}
    [] s.op = "release" /\ s.arg # "v6" ->
         {[a |-> "ok", n |-> [m EXCEPT !.cid[s.arg] = FALSE, !.call = Hung({s.arg})]]}
    [] s.op = "version" -> {[a |-> "ok", n |-> m]}

\* The same for a request of client c, which it knows.
ClientEffect(c, s) ==
  CASE s.op = "format" -> {[a |-> "ok", n |-> m]}
    [] s.op = "sim" -> {[a |-> IF m.sim THEN "ok" ELSE "unsup", n |-> m]}
    [] s.op = "reg" -> {[a |-> IF m.reg THEN "att" ELSE "det", n |-> m]}
    [] s.op = "mode" ->
         {[a |-> "ok", n |-> IF s.arg = "on" THEN [m EXCEPT !.lpm = FALSE]
                             ELSE [m EXCEPT !.lpm = TRUE, !.reg = FALSE, !.call = Hung(Both)]]}
    [] s.op = "query" -> {[a |-> IF m.call[c] THEN "up" ELSE "down", n |-> m]}
    [] s.op \in {"getip", "check"} -> {[a |-> IF m.call[c] THEN "ok" ELSE "rej", n |-> m]}
    [] s.op = "stop" -> {[a |-> IF m.call[c] THEN "ok" ELSE "rej", n |-> [m EXCEPT !.call = Hung({c})]]}
    [] s.op \in {"setup", "setup2"} ->
         IF m.reg /\ ~m.call[c]
           THEN {[a |-> "ok", n |-> [m EXCEPT !.call[c] = TRUE, !.addr[c] = x]] : x \in Addrs}
           ELSE {[a |-> "rej", n |-> m]}

Effect(c, s) ==
  IF c = "ctl" THEN CtlEffect(s)
  ELSE IF m.cid[c] THEN ClientEffect(c, s) ELSE {[a |-> "rej", n |-> m]}

\* Indications of what a step of the modem changes.
Changes(n) ==
  When(n.reg # m.reg /\ m.cid["nas"], <<Ind("nas", "net")>>)
    \o When(n.call["v4"] # m.call["v4"], CallInd("v4"))
    \o When(n.call["v6"] # m.call["v6"], CallInd("v6"))

Quiet == UNCHANGED <<pc, todo, res, cond, pipes, d, rd>>

\* Requests of one client are answered in order.
Next1(i) == \A j \in 1..(i - 1) : inq[j].c # inq[i].c
Answer(i, a) == [a |-> a, c |-> inq[i].c, age |-> inq[i].age, own |-> inq[i].own]

Serve ==
  \E i \in DOMAIN inq : \E e \in Effect(inq[i].c, inq[i].s) :
    /\ Next1(i)
    /\ m' = e.n /\ inq' = RemoveAt(inq, i)
    /\ outq' \in {outq \o <<Answer(i, e.a)>> \o Changes(e.n), outq \o Changes(e.n) \o <<Answer(i, e.a)>>}
    /\ Quiet /\ UNCHANGED env

Refuse ==
  \E i \in DOMAIN inq :
    /\ Next1(i) /\ inq[i].s.op \in {"setup", "setup2"}
    /\ inq' = RemoveAt(inq, i) /\ outq' = Append(outq, Answer(i, "rej"))
    /\ Fault("refuse") /\ Quiet /\ UNCHANGED m

\* A request is lost before, or after, it is carried out.
LossOf(s) ==
  CASE s.op = "getid" -> "client"
    [] s.op = "release" -> "release"
    [] s.op = "mode" -> "radio"
    [] s.op = "getip" -> "addr"
    [] OTHER -> "loss"
Lose ==
  \E i \in DOMAIN inq : \E e \in Effect(inq[i].c, inq[i].s) \union {[a |-> "none", n |-> m]} :
    /\ Next1(i)
    /\ m' = e.n /\ inq' = RemoveAt(inq, i) /\ outq' = outq \o Changes(e.n)
    /\ Fault(LossOf(inq[i].s)) /\ Quiet

LoseInd ==
  \E i \in DOMAIN outq :
    /\ outq[i].age < 0 /\ outq' = RemoveAt(outq, i)
    /\ Fault("ind") /\ Quiet /\ UNCHANGED <<m, inq>>

Becomes(n, k) == m' = n /\ outq' = outq \o Changes(n) /\ Fault(k) /\ Quiet /\ UNCHANGED inq
CallDrop == \E f \in Both : m.call[f] /\ Becomes([m EXCEPT !.call[f] = FALSE], "drop")
NetDown == m.reg /\ Becomes([m EXCEPT !.reg = FALSE, !.call = Hung(Both)], "net")

SimUp ==
  /\ m.plugged /\ ~m.sim
  /\ m' = [m EXCEPT !.sim = TRUE]
  /\ Quiet /\ UNCHANGED <<inq, outq, env>>

NetUp ==
  /\ m.plugged /\ ~m.reg /\ ~m.lpm
  /\ m' = [m EXCEPT !.reg = TRUE] /\ outq' = outq \o Changes(m')
  /\ Quiet /\ UNCHANGED <<inq, env>>

Unplug ==
  /\ m.plugged /\ Fault("unplug")
  /\ m' = [Fresh(m.addr) EXCEPT !.plugged = FALSE] /\ inq' = <<>> /\ outq' = <<>>
  /\ Quiet

\* The modem is found again once its old device file is closed.
Replug ==
  /\ Returns /\ ~m.plugged /\ rd # "poll"
  /\ m' = Fresh(m.addr)
  /\ Quiet /\ UNCHANGED <<inq, outq, env>>

-----------------------------------------------------------------------------
MainAct ==
  \/ Detect \/ Connect \/ Poll \/ LoopAgain \/ ReadSignal \/ ReadEvent
  \/ SendNothing \/ Send \/ Wake \/ Sync \/ SimStatus \/ Plain \/ GetClientID \/ ReleaseClientID
  \/ Registration \/ Refresh \/ RedialNow \/ Kick
  \/ Redial \/ Dial \/ SetupDone \/ Connected \/ SetupFails \/ SetupFailsAgain
  \/ Radio \/ SetAlarm \/ Query \/ Check \/ Stop \/ Ended \/ Judge
  \/ LinkDown \/ LinkUp \/ GetIPAddress \/ Quit \/ Leave \/ Join
Timers == PollTimeout \/ Timeout \/ Sigalrm \/ Elapse
ReaderAct == Open \/ ReadCmd \/ RecvQMI \/ Hangup \/ TellGone \/ Exit
FaultAct ==
  TooLate \/ Refuse \/ Lose \/ LoseInd \/ CallDrop \/ NetDown \/ Unplug

Next ==
  \/ MainAct \/ Timers \/ Sigterm \/ ReaderAct
  \/ Serve \/ SimUp \/ NetUp \/ Replug \/ FaultAct

Spec == Init /\ [][Next]_vars

\* Threads run, timers fire, the modem answers what it does not lose, and supports
\* its SIM in the end: the loop of SimStatus has no other bound.
RunSpec ==
  /\ Spec
  /\ WF_vars(MainAct) /\ WF_vars(ReaderAct) /\ WF_vars(Serve) /\ WF_vars(SimUp)
  /\ WF_vars(PollTimeout) /\ WF_vars(Timeout) /\ WF_vars(Sigalrm) /\ WF_vars(Elapse)

\* And it finds its network, and is plugged in again.
FairSpec == RunSpec /\ WF_vars(NetUp) /\ WF_vars(Replug)

-----------------------------------------------------------------------------
\* Main never waits for an answer that nobody can give it: its request is known
\* to the reader, and the reader is not gone (it closes the device before it
\* wakes main).
WaitEnds == pc = "wait" /\ ~woken => req # "none" /\ rd # "exited"

\* The answer that main takes is that of its request, also when earlier ones
\* were given up and are answered late.
AnswerIsOwn == pc = "wait" /\ rsp # NoAnswer => rsp.own

\* Main and the reader agree about the request that main waits for.
DialerSafe == TypeOK /\ WaitEnds /\ AnswerIsOwn

\* No call is left behind: when the dialer has ended, the modem has no call of
\* it, or the request that ends it is on its way.
NothingLeft ==
  pc = "exited" =>
    \A f \in Families :
      m.call[f] => \E i \in DOMAIN inq : inq[i].s \in {Step("stop", f), Step("release", f)}

\* SIGTERM ends the dialer.
Quits == term ~> (pc = "exited")

\* Every family has its call, the dialer knows, and the interface is up with its
\* address.
Online ==
  d.link = 1 /\ \A f \in d.fam : m.call[f] /\ d.status[f] = "conn" /\ d.local[f] = m.addr[f]

\* With finitely many faults the dialer gets the calls up, and keeps them.
StaysOnline == <>[](Online \/ pc = "exited")
=============================================================================
