---------------------------- MODULE DialerProofs ----------------------------
(***************************************************************************)
(* What main and QmiWwanThread agree on, for any families, faults and      *)
(* numbers of attempts: no request waits for nobody; an answer that is     *)
(* taken is that of its request, as long as no answer is MaxTid - 1        *)
(* requests late; and a dialer that has ended leaves no call, unless it    *)
(* dials IPv6 or the release of a client id is lost.                       *)
(***************************************************************************)
EXTENDS Dialer, SequenceTheorems, TLAPS

-----------------------------------------------------------------------------
(* Types.                                                                   *)

Results == {"ok", "rej", "unsup", "up", "down", "att", "det"}
Peers == Clients \union {"ctl"}
Ages == 0..(MaxTid - 1)

CtlOps == {"sync", "version", "getid", "release"}
CallOps == {"setup", "setup2", "query", "stop", "getip", "check"}
DialOps == {"redial", "dial", "setup", "setup2"}
PlainOps ==
  {"version", "format", "sim", "reg", "refresh", "radio", "alarm", "judge", "link0", "link1",
   "quit", "leave", "again", "redialnow", "kick", "signal", "event"}

Steps ==
  [op : {"sync"}, arg : 1..SyncTries]
    \union [op : {"getid", "release"}, arg : Clients]
    \union [op : CallOps \union {"redial", "dial", "connected", "ended"}, arg : Both]
    \union [op : {"mode"}, arg : {"on", "off"}]
    \union [op : PlainOps, arg : {"-"}]

\* c is the client of request s.
Fits(s, c) ==
  \/ s.op \in CtlOps /\ c = "ctl"
  \/ s.op = "reg" /\ c = "nas"
  \/ s.op \in {"format", "sim", "mode"} /\ c = "dms"
  \/ s.op \in CallOps /\ s.arg \in Both /\ c = s.arg

Requests ==
  {r \in [s : Steps, c : Peers, age : Ages, own : BOOLEAN] : Fits(r.s, r.c)}
Messages ==
  [a : Results, c : Peers, age : Ages, own : BOOLEAN]
    \union [a : {"net", "call"}, c : Clients, age : {-1}, own : {FALSE}]

Globals ==
  [fam : SUBSET Families, status : [Both -> {"unknown", "conn", "disc"}],
   hdl : [Both -> BOOLEAN], local : [Both -> {0} \union Addrs], client : [Clients -> BOOLEAN],
   attached : BOOLEAN, link : -1..1, tmo : 0..3, fail : {"zero", "fresh", "late", "used"},
   alarm : BOOLEAN, loop : BOOLEAN]
Modems ==
  [plugged : BOOLEAN, sim : BOOLEAN, reg : BOOLEAN, lpm : BOOLEAN, call : [Both -> BOOLEAN],
   addr : [Both -> Addrs], cid : [Clients -> BOOLEAN]]

PipeTypes ==
  /\ sigq \in Seq({"USR1", "USR2", "TERM"})
  /\ evq \in Seq({"connected", "gone", "net", "call"})
  /\ cmdq \in Seq({"QUIT", "TERM"})

Types ==
  /\ TypeOK
  /\ d \in Globals /\ m \in Modems
  /\ todo \in Seq(Steps)
  /\ rsp \in [a : Results, own : BOOLEAN] \union {NoAnswer}
  /\ inq \in Seq(Requests) /\ outq \in Seq(Messages)
  /\ PipeTypes

\* A handler does not end with a step of a dial: SIGUSR1 ends with the radio.
Handler == todo # <<>> => todo[Len(todo)].op \notin DialOps

\* The life of a reader: it begins with one event, "connected" or "gone", which main
\* waits for, and ends with "gone", the last.
Lives ==
  /\ \A i \in DOMAIN evq : evq[i] = "gone" => i = Len(evq) /\ rd \in {"told", "exited"}
  /\ \A i \in DOMAIN evq : evq[i] = "connected" => i = 1 /\ pc = "connect"
  /\ pc = "connect" /\ rd # "open" => evq # <<>> /\ evq[1] \in {"connected", "gone"}
  /\ rd = "open" => pc = "connect" /\ evq = <<>>
  /\ pc = "detect" => rd \in {"none", "exited"} /\ evq = <<>>
  /\ (\E i \in DOMAIN todo : todo[i].op = "leave") \/ (pc = "join" /\ todo # <<>>) =>
       rd \in {"told", "exited"} /\ evq = <<>>

\* Main has steps to do in its handlers only.
Rests == pc \in {"poll", "detect", "connect"} => todo = <<>>

\* A signal is read first and an event last, and they are there.
Pending ==
  /\ \A i \in DOMAIN todo : todo[i].op = "signal" => i = 1 /\ sigq # <<>>
  /\ \A i \in DOMAIN todo : todo[i].op = "event" => i = Len(todo) /\ evq # <<>>

BaseInv == Types /\ Handler /\ Lives /\ Rests /\ Pending

-----------------------------------------------------------------------------
(* Waiting.                                                                 *)

\* No message is a whole round of transaction ids late: its id is not used again
\* while it is under way.
Sendings == ToSet(inq) \union ToSet(outq)
Timely == \A x \in Sendings : x.age # MaxTid - 1

\* While main waits, the id of its request is that of no other.
OwnIsOne ==
  pc = "wait" =>
    /\ \A x \in Sendings : x.c = req /\ x.age = 0 => x.own
    /\ rsp # NoAnswer => rsp.own

-----------------------------------------------------------------------------
(* The end.                                                                 *)

GetId == Step("getid", "v4")
Release == Step("release", "v4")
Setups == {Step("setup", "v4"), Step("setup2", "v4")}
Under(S) == \E x \in ToSet(inq) : x.s \in S
ToDo(op) == \E i \in DOMAIN todo : todo[i].op = op

\* There is no call, and none to come.
Clean == ~m.call["v4"] /\ ~Under(Setups)

\* A call that is there or may come is ended by the release of its client.
Cut ==
  (m.cid["v4"] \/ Under({GetId})) /\ (m.call["v4"] \/ Under(Setups)) => Under({Release})

\* The start, up to the client of the call.
IsStart(x) == x.op = "sync" \/ x = GetId
Starting == \E i \in DOMAIN todo : IsStart(todo[i])
StartOps == {"sync", "version", "getid"}
InOrderOfStart ==
  \A i \in DOMAIN todo : IsStart(todo[i]) => \A j \in 1..i : todo[j].op \in StartOps

\* The dialer has ended, or only waits for the reader to end.
Over == pc = "exited" \/ (pc = "join" /\ todo = <<>>)

\* What SIGTERM still has to do: the release of the client comes before the end.
EndOps == {"stop", "link0", "release"}
InOrderOfEnd ==
  /\ \A i \in DOMAIN todo : todo[i].op = "signal" =>
       i = 1 /\ \A j \in 2..Len(todo) : todo[j].op = "event"
  /\ \A i \in DOMAIN todo : todo[i].op = "quit" =>
       /\ \A j \in 1..(i - 1) : todo[j].op \in EndOps
       /\ \A j \in (i + 1)..Len(todo) : todo[j].op = "event"
       /\ d.client["v4"] => \E j \in 1..(i - 1) : todo[j] = Release
  /\ ToDo("release") => ToDo("quit")
  /\ pc = "join" => ~ToDo("quit")

\* The request of the current step has been sent.
Sent == pc = "wait" \/ (pc = "run" /\ res # "none")

\* The modem has a call for a client only, and nothing when it is unplugged.
ModemInOrder ==
  /\ m.call["v4"] => m.cid["v4"]
  /\ ~m.plugged => inq = <<>> /\ Clean

\* Where there is no call.
Idle ==
  \/ pc \in {"detect", "connect"}
  \/ rd # "poll" /\ ~Over
  \/ pc = "join" /\ todo # <<>>
  \/ Starting

\* A client that main does not know, or no longer needs, has no call.
NoneForgotten ==
  /\ Idle => Clean
  /\ d.client["v4"] \/ Cut
  /\ Over => Cut
  /\ Sent /\ todo # <<>> /\ todo[1] = Release => Cut

\* Releases are the last requests.
ReleasesLast ==
  /\ Under({Release}) => ToDo("quit") \/ Over
  /\ \A i, j \in DOMAIN inq : i < j => ~(inq[i].s = Release /\ inq[j].s = GetId)
  /\ (\E i \in DOMAIN cmdq : cmdq[i] = "QUIT") => Over

LeftInv ==
  ModemInOrder /\ InOrderOfStart /\ InOrderOfEnd /\ NoneForgotten /\ ReleasesLast

-----------------------------------------------------------------------------
(* Lists.                                                                   *)

StepsOf(O) == {x \in Steps : x.op \in O}

\* Head is the first element of a nonempty list, and Tail the others, moved by one.
LEMMA TailOf ==
  ASSUME NEW S, NEW q \in Seq(S), q # <<>>
  PROVE  /\ Head(q) \in S /\ Head(q) = q[1] /\ Tail(q) \in Seq(S)
         /\ Len(Tail(q)) = Len(q) - 1 /\ Len(q) \in Nat \ {0}
         /\ \A i \in 1..(Len(q) - 1) : Tail(q)[i] = q[i + 1]
         /\ DOMAIN Tail(q) = 1..(Len(q) - 1) /\ DOMAIN q = 1..Len(q)
  OBVIOUS

\* Concatenation puts the elements of the second list behind those of the first.
LEMMA ConcatOf ==
  ASSUME NEW S, NEW p \in Seq(S), NEW q \in Seq(S)
  PROVE  /\ p \o q \in Seq(S) /\ Len(p \o q) = Len(p) + Len(q)
         /\ Len(p) \in Nat /\ Len(q) \in Nat /\ DOMAIN (p \o q) = 1..(Len(p) + Len(q))
         /\ \A i \in 1..Len(p) : (p \o q)[i] = p[i]
         /\ \A i \in (Len(p) + 1)..(Len(p) + Len(q)) : (p \o q)[i] = q[i - Len(p)]
  OBVIOUS

\* Append puts one element behind the others.
LEMMA AppendOf ==
  ASSUME NEW S, NEW q \in Seq(S), NEW x \in S
  PROVE  /\ Append(q, x) \in Seq(S) /\ Len(Append(q, x)) = Len(q) + 1 /\ Len(q) \in Nat
         /\ DOMAIN Append(q, x) = 1..(Len(q) + 1) /\ DOMAIN q = 1..Len(q)
         /\ Append(q, x)[Len(q) + 1] = x
         /\ \A i \in 1..Len(q) : Append(q, x)[i] = q[i]
  OBVIOUS

\* RemoveAt keeps the other elements in their order.
LEMMA RemoveOf ==
  ASSUME NEW S, NEW q \in Seq(S), NEW k \in DOMAIN q
  PROVE  /\ RemoveAt(q, k) \in Seq(S) /\ Len(RemoveAt(q, k)) = Len(q) - 1
         /\ DOMAIN RemoveAt(q, k) = 1..(Len(q) - 1) /\ DOMAIN q = 1..Len(q) /\ Len(q) \in Nat
         /\ \A i \in 1..(Len(q) - 1) : RemoveAt(q, k)[i] = IF i < k THEN q[i] ELSE q[i + 1]
<1> DEFINE a == SubSeq(q, 1, k - 1)
           b == SubSeq(q, k + 1, Len(q))
<1>1. k \in 1..Len(q) /\ Len(q) \in Nat /\ DOMAIN q = 1..Len(q) /\ \A i \in 1..Len(q) : q[i] \in S
  OBVIOUS
<1>2. a \in Seq(S) /\ Len(a) = k - 1 /\ \A i \in 1..(k - 1) : a[i] = q[i]
  BY <1>1
<1>3. b \in Seq(S) /\ Len(b) = Len(q) - k /\ \A i \in 1..(Len(q) - k) : b[i] = q[k + i]
  <2>1. b \in Seq(S) /\ Len(b) = Len(q) - k /\ \A i \in 1..(Len(q) - k) : b[i] = q[k + 1 + i - 1]
    BY <1>1, SubSeqProperties
  <2>2. \A i \in 1..(Len(q) - k) : k + 1 + i - 1 = k + i
    BY <1>1
  <2> QED
    BY <2>1, <2>2
<1>4. RemoveAt(q, k) = a \o b
  BY DEF RemoveAt
<1> HIDE DEF a, b
<1>5. /\ a \o b \in Seq(S) /\ Len(a \o b) = Len(a) + Len(b)
      /\ \A i \in 1..Len(a) : (a \o b)[i] = a[i]
      /\ \A i \in (Len(a) + 1)..(Len(a) + Len(b)) : (a \o b)[i] = b[i - Len(a)]
  BY <1>2, <1>3, ConcatOf, ZenonT(60)
<1>6. \A i \in 1..(Len(q) - 1) : (a \o b)[i] = IF i < k THEN q[i] ELSE q[i + 1]
  <2> TAKE i \in 1..(Len(q) - 1)
  <2>1. CASE i < k
    BY <1>1, <1>2, <1>5, <2>1
  <2>2. CASE ~(i < k)
    <3>1. i \in (Len(a) + 1)..(Len(a) + Len(b)) /\ i - (k - 1) \in 1..(Len(q) - k) /\ Len(a) = k - 1
      BY <1>1, <1>2, <1>3, <2>2
    <3>2. (a \o b)[i] = b[i - (k - 1)] /\ b[i - (k - 1)] = q[k + (i - (k - 1))]
      BY <1>3, <1>5, <3>1
    <3>3. k + (i - (k - 1)) = i + 1
      BY <1>1
    <3> QED
      BY <2>2, <3>2, <3>3
  <2> QED
    BY <2>1, <2>2
<1>7. Len(a \o b) = Len(q) - 1 /\ DOMAIN (a \o b) = 1..Len(a \o b)
  BY <1>1, <1>2, <1>3, <1>5
<1> QED
  BY <1>1, <1>4, <1>5, <1>6, <1>7

\* A list of one element has an empty tail.
LEMMA OneOf ==
  ASSUME NEW S, NEW q \in Seq(S), Len(q) = 1
  PROVE  Tail(q) = <<>>
<1>1. q # <<>>
  BY EmptySeq
<1>2. Tail(q) \in Seq(S) /\ Len(Tail(q)) = Len(q) - 1
  BY <1>1, TailOf
<1>3. Len(Tail(q)) = 0
  BY <1>2
<1> QED
  BY <1>2, <1>3, EmptySeq

\* A list under a condition is a list.
LEMMA WhenOf ==
  ASSUME NEW S, NEW b, NEW s \in Seq(S)
  PROVE  When(b, s) \in Seq(S)
  BY DEF When

\* The steps for the families are a list.
LEMMA EachOf ==
  ASSUME NEW S, NEW n, NEW F, Step(n, "v4") \in S, Step(n, "v6") \in S
  PROVE  Each(n, F) \in Seq(S)
<1>1. <<Step(n, "v4")>> \in Seq(S) /\ <<Step(n, "v6")>> \in Seq(S)
  OBVIOUS
<1>2. When("v4" \in F, <<Step(n, "v4")>>) \in Seq(S) /\ When("v6" \in F, <<Step(n, "v6")>>) \in Seq(S)
  BY <1>1, WhenOf
<1> QED
  BY <1>2, ConcatOf DEF Each

\* The steps that a step adds come first, then what was left of the handler.
LEMMA ThenOf ==
  ASSUME Types, todo # <<>>, NEW O, NEW s \in Seq(StepsOf(O)), todo' = s \o Tail(todo)
  PROVE  /\ todo' \in Seq(Steps) /\ s \in Seq(Steps) /\ Tail(todo) \in Seq(Steps)
         /\ Len(todo) \in Nat \ {0} /\ Len(s) \in Nat
         /\ Len(todo') = Len(s) + (Len(todo) - 1) /\ DOMAIN todo' = 1..(Len(s) + (Len(todo) - 1))
         /\ DOMAIN todo = 1..Len(todo) /\ DOMAIN s = 1..Len(s)
         /\ \A i \in 1..Len(s) : todo'[i] = s[i] /\ todo'[i].op \in O
         /\ \A i \in (Len(s) + 1)..(Len(s) + (Len(todo) - 1)) : todo'[i] = todo[i - Len(s) + 1]
<1>1. s \in Seq(Steps) /\ \A i \in 1..Len(s) : s[i].op \in O
  BY DEF StepsOf
<1>2. /\ todo \in Seq(Steps) /\ Tail(todo) \in Seq(Steps) /\ Len(Tail(todo)) = Len(todo) - 1
      /\ \A i \in 1..(Len(todo) - 1) : Tail(todo)[i] = todo[i + 1] /\ Len(todo) \in Nat \ {0}
      /\ DOMAIN todo = 1..Len(todo)
  BY TailOf DEF Types
<1>3. /\ s \o Tail(todo) \in Seq(Steps) /\ Len(s \o Tail(todo)) = Len(s) + Len(Tail(todo))
      /\ DOMAIN (s \o Tail(todo)) = 1..(Len(s) + Len(Tail(todo))) /\ Len(s) \in Nat
      /\ \A i \in 1..Len(s) : (s \o Tail(todo))[i] = s[i]
      /\ \A i \in (Len(s) + 1)..(Len(s) + Len(Tail(todo))) : (s \o Tail(todo))[i] = Tail(todo)[i - Len(s)]
  BY <1>1, <1>2, ConcatOf
<1>4. \A i \in (Len(s) + 1)..(Len(s) + (Len(todo) - 1)) : todo'[i] = todo[i - Len(s) + 1]
  <2> TAKE i \in (Len(s) + 1)..(Len(s) + (Len(todo) - 1))
  <2>1. i - Len(s) \in 1..(Len(todo) - 1)
    BY <1>2, <1>3
  <2> QED
    BY <1>2, <1>3, <2>1
<1> QED
  BY <1>1, <1>2, <1>3, <1>4

-----------------------------------------------------------------------------
(* BaseInv is inductive.                                                    *)

\* Globals and modems have the types of TypeOK.
LEMMA TypeOKOf ==
  ASSUME NEW D \in Globals, NEW M \in Modems
  PROVE  /\ D.fam \subseteq Families /\ D.status \in [Both -> {"unknown", "conn", "disc"}]
         /\ D.hdl \in [Both -> BOOLEAN] /\ D.local \in [Both -> {0} \union Addrs]
         /\ D.client \in [Clients -> BOOLEAN] /\ D.attached \in BOOLEAN
         /\ D.link \in -1..1 /\ D.tmo \in 0..3 /\ D.fail \in {"zero", "fresh", "late", "used"}
         /\ D.alarm \in BOOLEAN /\ D.loop \in BOOLEAN
         /\ M.plugged \in BOOLEAN /\ M.sim \in BOOLEAN /\ M.reg \in BOOLEAN /\ M.lpm \in BOOLEAN
         /\ M.call \in [Both -> BOOLEAN] /\ M.addr \in [Both -> Addrs] /\ M.cid \in [Clients -> BOOLEAN]
  BY DEF Globals, Modems

\* BaseInv holds at first.
LEMMA BaseInit == Init => BaseInv
<1> SUFFICES ASSUME Init PROVE BaseInv
  OBVIOUS
<1>1. All(Both, FALSE) \in [Both -> BOOLEAN] /\ All(Clients, FALSE) \in [Clients -> BOOLEAN]
  BY DEF All
<1>2. All(Both, "unknown") \in [Both -> {"unknown", "conn", "disc"}]
      /\ All(Both, 0) \in [Both -> {0} \union Addrs] /\ All(Both, 1) \in [Both -> Addrs]
  BY DialerAssumption DEF All, Addrs
<1>3. MainLoop \in BOOLEAN /\ Families \subseteq Both /\ MaxFaults \in Nat
  BY DialerAssumption
<1>4. d \in Globals
  <2>1. Families \in SUBSET Families /\ -1 \in -1..1 /\ 0 \in 0..3 /\ FALSE \in BOOLEAN
    OBVIOUS
  <2> DEFINE D == [fam |-> Families, status |-> All(Both, "unknown"), hdl |-> All(Both, FALSE),
                   local |-> All(Both, 0), client |-> All(Clients, FALSE), attached |-> FALSE,
                   link |-> -1, tmo |-> 0, fail |-> "zero", alarm |-> FALSE, loop |-> MainLoop]
  <2>2. D \in Globals
    BY <1>1, <1>2, <1>3, <2>1 DEF Globals
  <2> QED
    BY <2>2 DEF Init
<1>5. m \in Modems
  <2>1. ("nosim" \notin Faults) \in BOOLEAN
    BY Zenon
  <2> QED
    BY <1>1, <1>2, <2>1 DEF Init, Modems, Fresh
<1>6. TypeOK
  <2>1. /\ pc = "detect" /\ res = "none" /\ req = "none" /\ woken = FALSE
        /\ rd = "none" /\ faults = 0 /\ term = FALSE
    BY DEF Init
  <2>2. term \in BOOLEAN /\ woken \in BOOLEAN
    BY <2>1, Zenon
  <2>3. faults \in 0..MaxFaults
    BY <1>3, <2>1
  <2> QED
    BY <1>4, <1>5, <2>1, <2>2, <2>3, TypeOKOf DEF TypeOK
<1> QED
  BY <1>4, <1>5, <1>6 DEF Init, BaseInv, Types, PipeTypes, Handler, Lives, Rests, Pending

\* The current step is the first one, and its argument is of the kind its name has.
LEMMA HereOf ==
  ASSUME Types, todo # <<>>
  PROVE  /\ Here \in Steps /\ Here = todo[1] /\ 1 \in DOMAIN todo
         /\ Here.op \in CallOps \union {"redial", "dial", "connected", "ended"} => Here.arg \in Both
         /\ Here.op \in {"getid", "release"} => Here.arg \in Clients
         /\ Here.op = "sync" => Here.arg \in 1..SyncTries
<1>1. Here \in Steps /\ Here = todo[1] /\ 1 \in DOMAIN todo
  BY TailOf DEF Types, Here
<1>2. \A x \in Steps :
         /\ x.op \in CallOps \union {"redial", "dial", "connected", "ended"} => x.arg \in Both
         /\ x.op \in {"getid", "release"} => x.arg \in Clients
         /\ x.op = "sync" => x.arg \in 1..SyncTries
  BY DEF Steps, CallOps, PlainOps
<1> QED
  BY <1>1, <1>2

\* A step of main that adds steps s and leads to globals D keeps the types.
LEMMA ThenTypes ==
  ASSUME BaseInv, todo # <<>>, pc = "run",
         NEW O, NEW s \in Seq(StepsOf(O)), NEW D \in Globals,
         Then(s, D),
         PipeTypes',
         O \cap DialOps = {} \/ Here.op \in DialOps \/ (s # <<>> /\ s[Len(s)].op \notin DialOps)
  PROVE  Types' /\ Handler' /\ Rests'
<1>0. Types
  BY DEF BaseInv
<1>1. /\ todo' = s \o Tail(todo) /\ d' = D /\ res' = "none" /\ pc' = pc /\ rd' = rd /\ m' = m
      /\ inq' = inq /\ outq' = outq /\ req' = req /\ rsp' = rsp /\ woken' = woken
      /\ faults' = faults /\ term' = term
  BY DEF Then, cond, modem, env
<1>2. /\ todo' \in Seq(Steps) /\ Len(todo) \in Nat \ {0} /\ Len(s) \in Nat
      /\ Len(todo') = Len(s) + (Len(todo) - 1)
      /\ \A i \in 1..Len(s) : todo'[i] = s[i] /\ todo'[i].op \in O
      /\ \A i \in (Len(s) + 1)..(Len(s) + (Len(todo) - 1)) : todo'[i] = todo[i - Len(s) + 1]
  BY <1>0, <1>1, ThenOf
<1>3. TypeOK'
  BY <1>0, <1>1, TypeOKOf DEF TypeOK, Types
<1>4. Types'
  BY <1>0, <1>1, <1>2, <1>3 DEF Types
<1>5. Handler'
  <2> SUFFICES ASSUME todo' # <<>> PROVE todo'[Len(todo')].op \notin DialOps
    BY DEF Handler
  <2>1. todo[Len(todo)].op \notin DialOps /\ Here = todo[1]
    BY <1>0, HereOf DEF Handler, BaseInv
  <2>2. CASE Len(todo) > 1
    <3>1. /\ Len(todo') \in (Len(s) + 1)..(Len(s) + (Len(todo) - 1))
          /\ Len(todo') - Len(s) + 1 = Len(todo)
      BY <1>2, <2>2
    <3>2. todo'[Len(todo')] = todo[Len(todo') - Len(s) + 1]
      BY <1>2, <3>1
    <3> QED
      BY <2>1, <3>1, <3>2
  <2>3. CASE ~(Len(todo) > 1)
    <3>1. Len(todo) = 1
      <4>1. \A n \in Nat \ {0} : ~(n > 1) => n = 1
        OBVIOUS
      <4>2. Len(todo) \in Nat \ {0}
        BY <1>2
      <4> QED
        BY <2>3, <4>1, <4>2, Zenon
    <3>2. Len(todo') \in 1..Len(s) /\ Len(todo') = Len(s)
      BY <1>2, <2>1, <3>1
    <3>3. CASE O \cap DialOps = {}
      BY <1>2, <3>2, <3>3
    <3>4. CASE s # <<>> /\ s[Len(s)].op \notin DialOps
      BY <1>2, <3>2, <3>4
    <3> QED
      BY <2>1, <3>1, <3>3, <3>4
  <2> QED
    BY <2>2, <2>3
<1>6. Rests'
  BY <1>1 DEF Rests, BaseInv
<1> QED
  BY <1>4, <1>5, <1>6

\* It keeps BaseInv, when it reads no event and adds neither "leave" nor reading.
LEMMA ThenBase ==
  ASSUME BaseInv, todo # <<>>, pc = "run",
         NEW O, NEW s \in Seq(StepsOf(O)), NEW D \in Globals,
         Then(s, D), PipeTypes', evq' = evq,
         O \cap {"leave", "signal", "event"} = {},
         O \cap DialOps = {} \/ Here.op \in DialOps \/ (s # <<>> /\ s[Len(s)].op \notin DialOps)
  PROVE  BaseInv'
<1>1. todo' = s \o Tail(todo) /\ pc' = pc /\ rd' = rd
  BY DEF Then
<1>2. Types' /\ Handler' /\ Rests'
  BY ThenTypes
<1>3. /\ Len(todo) \in Nat \ {0} /\ Len(s) \in Nat /\ DOMAIN todo = 1..Len(todo)
      /\ Len(todo') = Len(s) + (Len(todo) - 1)
      /\ DOMAIN todo' = 1..(Len(s) + (Len(todo) - 1))
      /\ \A k \in 1..Len(s) : todo'[k].op \in O
      /\ \A k \in (Len(s) + 1)..(Len(s) + (Len(todo) - 1)) : todo'[k] = todo[k - Len(s) + 1]
  <2> USE DEF BaseInv
  <2>1. Types
    OBVIOUS
  <2> QED
    BY <1>1, <2>1, ThenOf, Zenon
<1>4. \A i \in DOMAIN todo' : todo'[i].op \in {"leave", "signal", "event"} =>
        /\ i - Len(s) + 1 \in 2..Len(todo) /\ todo'[i] = todo[i - Len(s) + 1]
        /\ i = Len(todo') <=> i - Len(s) + 1 = Len(todo)
  <2> SUFFICES ASSUME NEW i \in DOMAIN todo', todo'[i].op \in {"leave", "signal", "event"}
               PROVE  /\ i - Len(s) + 1 \in 2..Len(todo) /\ todo'[i] = todo[i - Len(s) + 1]
                      /\ i = Len(todo') <=> i - Len(s) + 1 = Len(todo)
    OBVIOUS
  <2>1. i \in (Len(s) + 1)..(Len(s) + (Len(todo) - 1))
    BY <1>3
  <2>2. todo'[i] = todo[i - Len(s) + 1]
    BY <1>3, <2>1
  <2> DEFINE n == Len(todo)
             k == Len(s)
  <2>3. n \in Nat \ {0} /\ k \in Nat /\ i \in (k + 1)..(k + (n - 1)) /\ Len(todo') = k + (n - 1)
    BY <1>3, <2>1
  <2> HIDE DEF n, k
  <2>4. i - k + 1 \in 2..n /\ (i = k + (n - 1) <=> i - k + 1 = n)
    BY <2>3
  <2> QED
    BY <2>2, <2>3, <2>4 DEF n, k
<1>5. \A i \in DOMAIN todo' : todo'[i].op \in {"leave", "signal", "event"} =>
        \E j \in DOMAIN todo :
          j # 1 /\ todo'[i] = todo[j] /\ (j = Len(todo) => i = Len(todo'))
  <2>1. \A j \in 2..Len(todo) : j \in DOMAIN todo /\ j # 1
    BY <1>3
  <2> QED
    BY <1>4, <2>1, ZenonT(60)
<1>6. Lives'
  <2>1. (\E i \in DOMAIN todo' : todo'[i].op = "leave") => \E i \in DOMAIN todo : todo[i].op = "leave"
    BY <1>5, Zenon
  <2> QED
    BY <1>1, <2>1 DEF BaseInv, Lives
<1>7. Pending'
  <2>1. Pending
    BY DEF BaseInv
  <2>2. \A i \in DOMAIN todo' : todo'[i].op # "signal"
    BY <1>5, <2>1, Zenon DEF Pending
  <2>3. \A i \in DOMAIN todo' : todo'[i].op = "event" => i = Len(todo') /\ evq # <<>>
    BY <1>5, <2>1, Zenon DEF Pending
  <2> QED
    BY <2>2, <2>3 DEF Pending
<1> QED
  BY <1>2, <1>6, <1>7 DEF BaseInv

\* So does one that leaves the pipes alone.
LEMMA GoBase ==
  ASSUME BaseInv, todo # <<>>, pc = "run",
         NEW O, NEW s \in Seq(StepsOf(O)), NEW D \in Globals,
         Go(s, D), O \cap {"leave", "signal", "event"} = {},
         O \cap DialOps = {} \/ Here.op \in DialOps
  PROVE  BaseInv'
<1>1. sigq' = sigq /\ evq' = evq /\ cmdq' = cmdq /\ Then(s, D)
  BY DEF Go, pipes
<1>2. PipeTypes'
  BY <1>1 DEF BaseInv, Types, PipeTypes
<1> QED
  BY <1>1, <1>2, ThenBase

\* A step of main that adds none keeps BaseInv.
LEMMA PopBase ==
  ASSUME BaseInv, todo # <<>>, pc = "run", NEW D \in Globals, Go(<<>>, D)
  PROVE  BaseInv'
<1> DEFINE O == {}
<1>1. <<>> \in Seq(StepsOf(O)) /\ O \cap {"leave", "signal", "event"} = {} /\ O \cap DialOps = {}
  OBVIOUS
<1> HIDE DEF O
<1> QED
  BY <1>1, GoBase

\* The steps that only change the globals keep BaseInv.
LEMMA PlainBase ==
  ASSUME BaseInv,
         \/ Plain \/ GetClientID \/ ReleaseClientID \/ Registration \/ Connected
         \/ SetupFailsAgain \/ SetAlarm \/ Query \/ Stop \/ Ended \/ LinkDown \/ GetIPAddress
  PROVE  BaseInv'
<1>1. d \in Globals /\ d.fam \subseteq Families /\ Types
  BY DEF BaseInv, Types, TypeOK
<1>2. \A a \in Both : /\ [d EXCEPT !.status[a] = "conn", !.fail = "zero"] \in Globals
                      /\ [d EXCEPT !.status[a] = "conn"] \in Globals
                      /\ [d EXCEPT !.status[a] = "disc", !.hdl[a] = FALSE] \in Globals
                      /\ [d EXCEPT !.hdl[a] = FALSE] \in Globals
                      /\ [d EXCEPT !.status[a] = "disc"] \in Globals
                      /\ \A x \in {0} \union Addrs : [d EXCEPT !.local[a] = x] \in Globals
  BY <1>1 DEF Globals
<1>3. \A b \in BOOLEAN : /\ \A c \in Clients : [d EXCEPT !.client[c] = b] \in Globals
                         /\ [d EXCEPT !.attached = b] \in Globals
                         /\ [d EXCEPT !.alarm = b] \in Globals
  BY <1>1 DEF Globals
<1>4. FirstFail \in Globals
  BY <1>1 DEF Globals, FirstFail
<1>5. [d EXCEPT !.link = 0] \in Globals
  <2>1. 0 \in -1..1
    OBVIOUS
  <2> QED
    BY <1>1, <2>1 DEF Globals
<1>6. (res = "ok") \in BOOLEAN /\ (res = "att") \in BOOLEAN /\ TRUE \in BOOLEAN /\ FALSE \in BOOLEAN
  BY Zenon
<1> DEFINE D == d'
<1>7. CASE Plain
  BY <1>1, <1>7, PopBase DEF Plain, Has, At
<1>8. CASE GetClientID
  <2>1. Here.arg \in Clients
    BY <1>1, <1>8, HereOf DEF GetClientID, Has, At
  <2> QED
    BY <1>3, <1>6, <1>8, <2>1, PopBase DEF GetClientID, Has, At
<1>9. CASE ReleaseClientID
  <2>1. Here.arg \in Clients
    BY <1>1, <1>9, HereOf DEF ReleaseClientID, Has, At
  <2> QED
    BY <1>3, <1>6, <1>9, <2>1, PopBase DEF ReleaseClientID, Has, At
<1>10. CASE Registration
  BY <1>3, <1>6, <1>10, PopBase DEF Registration, Has, At
<1>11. CASE Connected
  <2>1. Here.arg \in Both
    BY <1>1, <1>11, HereOf DEF Connected, At
  <2> QED
    BY <1>2, <1>11, <2>1, PopBase DEF Connected, At
<1>12. CASE SetupFailsAgain
  BY <1>4, <1>12, PopBase DEF SetupFailsAgain, Has, At
<1>13. CASE SetAlarm
  <2>1. [d EXCEPT !.alarm = TRUE] \in Globals
    BY <1>3, <1>6, Zenon
  <2>2. Go(<<>>, [d EXCEPT !.alarm = TRUE]) /\ pc = "run" /\ todo # <<>>
    BY <1>13 DEF SetAlarm, At
  <2> QED
    BY <2>1, <2>2, PopBase, Zenon
<1>14. CASE Query
  <2>1. Here.arg \in Both /\ At("query")
    BY <1>1, <1>14, HereOf DEF Query, Has, At, CallOps
  <2> DEFINE D14 == CASE res = "up" -> [d EXCEPT !.status[Here.arg] = "conn"]
                     [] res = "down" -> [d EXCEPT !.status[Here.arg] = "disc", !.hdl[Here.arg] = FALSE]
                     [] OTHER -> d
  <2>2. D14 \in Globals
    BY <1>1, <1>2, <2>1
  <2>3. Go(<<>>, D14)
    BY <1>14 DEF Query
  <2> QED
    BY <2>1, <2>2, <2>3, PopBase DEF At
<1>15. CASE Stop
  <2>1. Here.arg \in Both /\ At("stop")
    BY <1>1, <1>15, HereOf DEF Stop, Has, At, CallOps
  <2> DEFINE D15 == IF res = "ok" THEN [d EXCEPT !.hdl[Here.arg] = FALSE] ELSE d
  <2>2. D15 \in Globals
    BY <1>1, <1>2, <2>1
  <2>3. Go(<<>>, D15)
    BY <1>15 DEF Stop
  <2> QED
    BY <2>1, <2>2, <2>3, PopBase DEF At
<1>16. CASE Ended
  <2>1. Here.arg \in Both
    BY <1>1, <1>16, HereOf DEF Ended, At
  <2> QED
    BY <1>2, <1>16, <2>1, PopBase DEF Ended, At
<1>17. CASE LinkDown
  BY <1>5, <1>17, PopBase DEF LinkDown, At
<1>18. CASE GetIPAddress
  <2>1. Here.arg \in Both /\ At("getip")
    BY <1>1, <1>18, HereOf DEF GetIPAddress, Has, At, CallOps
  <2> DEFINE x == IF res = "ok" THEN m.addr[Here.arg] ELSE 0
  <2>2. x \in {0} \union Addrs
    BY <1>1, <2>1 DEF Types, Modems
  <2>3. [d EXCEPT !.local[Here.arg] = x] \in Globals
    BY <1>2, <2>1, <2>2
  <2>4. Go(<<>>, [d EXCEPT !.local[Here.arg] = x])
    BY <1>18 DEF GetIPAddress
  <2> QED
    BY <2>1, <2>3, <2>4, PopBase DEF At
<1> QED
  BY <1>7, <1>8, <1>9, <1>10, <1>11, <1>12, <1>13, <1>14, <1>15, <1>16, <1>17, <1>18

\* The steps there are, by name and argument.
LEMMA StepIn ==
  ASSUME NEW O
  PROVE  /\ \A n \in PlainOps \cap O : Do(n) \in StepsOf(O)
         /\ \A n \in (CallOps \union {"redial", "dial", "connected", "ended"}) \cap O :
              \A a \in Both : Step(n, a) \in StepsOf(O)
         /\ \A n \in {"getid", "release"} \cap O : \A a \in Clients : Step(n, a) \in StepsOf(O)
         /\ "mode" \in O => Step("mode", "on") \in StepsOf(O) /\ Step("mode", "off") \in StepsOf(O)
         /\ "sync" \in O => \A n \in 1..SyncTries : Step("sync", n) \in StepsOf(O)
<1> DEFINE C == CallOps \union {"redial", "dial", "connected", "ended"}
<1>1. \A n \in PlainOps : [op |-> n, arg |-> "-"] \in Steps
  BY DEF Steps
<1>2. \A n \in C : \A a \in Both : [op |-> n, arg |-> a] \in Steps
  BY DEF Steps
<1>3. \A n \in {"getid", "release"} : \A a \in Clients : [op |-> n, arg |-> a] \in Steps
  BY DEF Steps
<1>4. \A a \in {"on", "off"} : [op |-> "mode", arg |-> a] \in Steps
  BY DEF Steps
<1>5. \A n \in 1..SyncTries : [op |-> "sync", arg |-> n] \in Steps
  BY DEF Steps
<1> QED
  BY <1>1, <1>2, <1>3, <1>4, <1>5 DEF StepsOf, Step, Do

\* Lists of one, two and three elements, their concatenations, and the steps for the families.
LEMMA ListIn ==
  ASSUME NEW S
  PROVE  /\ <<>> \in Seq(S)
         /\ \A x \in S : <<x>> \in Seq(S)
         /\ \A x, y \in S : <<x, y>> \in Seq(S)
         /\ \A b : \A s \in Seq(S) : When(b, s) \in Seq(S)
         /\ \A s, t \in Seq(S) : s \o t \in Seq(S)
<1>1. \A b : \A s \in Seq(S) : When(b, s) \in Seq(S)
  BY WhenOf
<1>2. \A s, t \in Seq(S) : s \o t \in Seq(S)
  BY ConcatOf
<1> QED
  BY <1>1, <1>2

\* The steps of a dial keep BaseInv: what they add is followed by the rest of SIGUSR1.
LEMMA DialBase ==
  ASSUME BaseInv, Redial \/ Dial \/ SetupDone
  PROVE  BaseInv'
<1>1. d \in Globals /\ Types /\ Here.op \in DialOps /\ todo # <<>> /\ pc = "run"
  BY DEF BaseInv, Types, Redial, Dial, SetupDone, Has, At, DialOps
<1>2. Here.arg \in Both
  BY <1>1, HereOf DEF DialOps, CallOps
<1>3. CASE Redial
  <2> DEFINE O == {"link0", "reg", "dial"}
             S == StepsOf(O)
             s == When(d.status[Here.arg] # "conn",
                       When(Here.arg = "v4" \/ "v4" \notin d.fam, <<Do("link0")>>)
                         \o <<Do("reg"), Step("dial", Here.arg)>>)
  <2>1. Do("link0") \in S /\ Do("reg") \in S /\ Step("dial", Here.arg) \in S
    BY <1>2, StepIn DEF PlainOps
  <2>2. Go(s, d) /\ O \cap {"leave", "signal", "event"} = {}
    BY <1>3 DEF Redial
  <2> HIDE DEF S
  <2>3. s \in Seq(S)
    BY <2>1, ListIn
  <2> HIDE DEF s, O
  <2> QED
    BY <1>1, <2>2, <2>3, GoBase DEF S
<1>4. CASE Dial
  <2> DEFINE O == {"setup"}
             S == StepsOf(O)
             s == When(d.attached, <<Step("setup", Here.arg)>>)
  <2>1. Step("setup", Here.arg) \in S
    BY <1>2, StepIn DEF CallOps
  <2>2. Go(s, d) /\ O \cap {"leave", "signal", "event"} = {}
    BY <1>4 DEF Dial
  <2> HIDE DEF S
  <2>3. s \in Seq(S)
    BY <2>1, ListIn
  <2> HIDE DEF s, O
  <2> QED
    BY <1>1, <2>2, <2>3, GoBase DEF S
<1>5. CASE SetupDone
  <2> DEFINE O == {"getip", "connected"}
             S == StepsOf(O)
             s == <<Step("getip", Here.arg), Step("connected", Here.arg)>>
             D == [d EXCEPT !.hdl[Here.arg] = @ \/ res = "ok"]
  <2>1. Step("getip", Here.arg) \in S /\ Step("connected", Here.arg) \in S
    BY <1>2, StepIn DEF CallOps
  <2>2. Go(s, D) /\ O \cap {"leave", "signal", "event"} = {}
    BY <1>5 DEF SetupDone
  <2>3. D \in Globals
    <3>1. \A b \in BOOLEAN : [d EXCEPT !.hdl[Here.arg] = b] \in Globals
      BY <1>1, <1>2 DEF Globals
    <3>2. (d.hdl[Here.arg] \/ res = "ok") \in BOOLEAN
      BY Zenon
    <3> QED
      BY <3>1, <3>2
  <2> HIDE DEF S
  <2>4. s \in Seq(S)
    BY <2>1, ListIn
  <2> HIDE DEF s, O, D
  <2> QED
    BY <1>1, <2>2, <2>3, <2>4, GoBase DEF S
<1> QED
  BY <1>3, <1>4, <1>5

\* A refused call keeps BaseInv, also when main goes on without IPv6 and drops the next step:
\* there is one, as a handler does not end with a dial.
LEMMA SetupFailsBase ==
  ASSUME BaseInv, SetupFails
  PROVE  BaseInv'
<1>1. d \in Globals /\ Types /\ Here.op = "setup" /\ todo # <<>> /\ pc = "run"
  BY DEF BaseInv, Types, SetupFails, Has, At
<1>2. Here.arg \in Both /\ Here = todo[1]
  BY <1>1, HereOf DEF CallOps
<1>3. CASE Go(<<Step("setup2", Here.arg)>>, d)
  <2> DEFINE O == {"setup2"}
             s == <<Step("setup2", Here.arg)>>
  <2>1. Step("setup2", Here.arg) \in StepsOf(O)
    BY <1>2, StepIn DEF CallOps
  <2>2. s \in Seq(StepsOf(O)) /\ O \cap {"leave", "signal", "event"} = {} /\ Here.op \in DialOps
    BY <1>1, <2>1, ListIn DEF DialOps
  <2> HIDE DEF s, O
  <2> QED
    BY <1>1, <1>3, <2>2, GoBase DEF s
<1>4. CASE Go(<<>>, FirstFail)
  <2>1. FirstFail \in Globals
    BY <1>1 DEF Globals, FirstFail
  <2> QED
    BY <1>1, <1>4, <2>1, PopBase
<1>5. CASE /\ d' = [d EXCEPT !.fam = @ \ {"v6"}] /\ res' = "none"
           /\ todo' = Tail(Tail(todo))
           /\ UNCHANGED <<pc, cond, pipes, rd, modem, env>>
  <2>1. todo \in Seq(Steps) /\ todo[Len(todo)].op # "setup"
    BY <1>1 DEF BaseInv, Types, Handler, DialOps
  <2>2. /\ Tail(todo) \in Seq(Steps) /\ Len(Tail(todo)) = Len(todo) - 1 /\ Len(todo) \in Nat \ {0}
        /\ \A i \in 1..(Len(todo) - 1) : Tail(todo)[i] = todo[i + 1]
        /\ DOMAIN todo = 1..Len(todo)
    BY <1>1, <2>1, TailOf
  <2>3. Len(todo) # 1
    BY <1>1, <1>2, <2>1
  <2>4. Len(todo) - 1 \in Nat \ {0}
    BY <2>2, <2>3
  <2>5. Tail(todo) # <<>>
    BY <2>2, <2>4
  <2>6. /\ todo' \in Seq(Steps) /\ Len(todo') = Len(todo) - 2
        /\ \A i \in 1..(Len(todo) - 2) : Tail(Tail(todo))[i] = Tail(todo)[i + 1]
        /\ DOMAIN todo' = 1..(Len(todo) - 2)
    BY <1>5, <2>2, <2>5, TailOf
  <2>7. \A i \in 1..(Len(todo) - 2) : todo'[i] = todo[i + 2] /\ i + 2 \in DOMAIN todo
    BY <1>5, <2>2, <2>6
  <2>8. d' \in Globals
    BY <1>1, <1>5 DEF Globals
  <2>9. Types'
    <3>1. /\ pc' = pc /\ rd' = rd /\ m' = m /\ inq' = inq /\ outq' = outq /\ req' = req /\ rsp' = rsp
          /\ woken' = woken /\ faults' = faults /\ term' = term /\ res' = "none"
          /\ sigq' = sigq /\ evq' = evq /\ cmdq' = cmdq
      BY <1>5 DEF cond, modem, env, pipes
    <3>2. TypeOK'
      BY <1>1, <2>8, <3>1, TypeOKOf DEF TypeOK, Types
    <3> QED
      BY <1>1, <2>6, <2>8, <3>1, <3>2 DEF Types, PipeTypes
  <2>10. Handler'
    <3> SUFFICES ASSUME todo' # <<>> PROVE todo'[Len(todo')].op \notin DialOps
      BY DEF Handler
    <3>1. Len(todo') \in 1..(Len(todo) - 2) /\ Len(todo') + 2 = Len(todo)
      BY <2>2, <2>6
    <3> QED
      BY <1>1, <2>7, <3>1 DEF BaseInv, Handler
  <2>11. Lives'
    <3>1. pc' = pc /\ rd' = rd /\ evq' = evq
      BY <1>5 DEF pipes
    <3>2. (\E i \in DOMAIN todo' : todo'[i].op = "leave") => \E i \in DOMAIN todo : todo[i].op = "leave"
      BY <2>6, <2>7
    <3> QED
      BY <1>1, <3>1, <3>2 DEF BaseInv, Lives
  <2>12. Rests'
    BY <1>1, <1>5 DEF Rests
  <2>13. Pending'
    <3>1. sigq' = sigq /\ evq' = evq
      BY <1>5 DEF pipes
    <3>2. \A i \in DOMAIN todo' : i \in 1..(Len(todo) - 2) /\ i + 2 # 1 /\ (i + 2 = Len(todo) => i = Len(todo'))
      BY <2>2, <2>6
    <3>3. Pending
      BY DEF BaseInv
    <3>4. \A i \in DOMAIN todo' : todo'[i].op # "signal"
      BY <2>7, <3>2, <3>3 DEF Pending
    <3>5. \A i \in DOMAIN todo' : todo'[i].op = "event" => i = Len(todo') /\ evq # <<>>
      BY <2>7, <3>2, <3>3 DEF Pending
    <3> QED
      BY <3>1, <3>4, <3>5 DEF Pending
  <2> QED
    BY <2>9, <2>10, <2>11, <2>12, <2>13 DEF BaseInv
<1> QED
  BY <1>3, <1>4, <1>5 DEF SetupFails

\* The steps that look after the calls, and the tries at the start, keep BaseInv.
LEMMA WatchBase ==
  ASSUME BaseInv, Radio \/ Check \/ Judge \/ LinkUp \/ Sync \/ SimStatus
  PROVE  BaseInv'
<1>1. d \in Globals /\ Types /\ todo # <<>> /\ pc = "run"
  BY DEF BaseInv, Types, Radio, Check, Judge, LinkUp, Sync, SimStatus, Has, At
<1>2. CASE Radio
  <2> DEFINE O == {"mode", "alarm"}
             S == StepsOf(O)
             now == d.fail = "late" /\ \E f \in d.fam : d.status[f] # "conn"
             s == When(now, <<Step("mode", "off"), Step("mode", "on")>>) \o <<Do("alarm")>>
             D == IF now THEN [d EXCEPT !.fail = "used"] ELSE d
  <2>1. Step("mode", "off") \in S /\ Step("mode", "on") \in S /\ Do("alarm") \in S
    BY StepIn DEF PlainOps
  <2>2. Go(s, D) /\ O \cap {"leave", "signal", "event"} = {} /\ O \cap DialOps = {}
    BY <1>2 DEF Radio, DialOps
  <2>3. D \in Globals
    BY <1>1 DEF Globals
  <2> HIDE DEF S
  <2>4. s \in Seq(S)
    BY <2>1, ListIn
  <2> HIDE DEF s, O, D
  <2> QED
    BY <1>1, <2>2, <2>3, <2>4, GoBase DEF S
<1>3. CASE Check
  <2> DEFINE n == d.tmo + 1
             same == CASE res = "ok" -> d.local[Here.arg] = m.addr[Here.arg]
                       [] res \in {"none", "abort"} -> d.local[Here.arg] = 0
                       [] res = "timeout" -> n < 3
                       [] OTHER -> FALSE
             tmo == CASE res = "timeout" -> Min({n, 3})
                      [] res \in {"ok", "none", "abort"} -> 0
                      [] OTHER -> d.tmo
             O == {"stop", "ended"}
             S == StepsOf(O)
             s == When(~same, <<Step("stop", Here.arg), Step("ended", Here.arg)>>)
             D == [d EXCEPT !.tmo = tmo]
  <2>1. Here.arg \in Both
    <3>1. Here.op = "check"
      BY <1>3 DEF Check, Has, At
    <3> QED
      BY <1>1, <3>1, HereOf DEF CallOps
  <2>2. Step("stop", Here.arg) \in S /\ Step("ended", Here.arg) \in S
    BY <2>1, StepIn DEF CallOps
  <2>3. d.tmo \in 0..3
    BY <1>1 DEF Globals
  <2>4. Min({n, 3}) \in 0..3
    <3>1. n \in 1..4
      BY <2>3
    <3> HIDE DEF n
    <3>2. \E x \in {n, 3} : \A y \in {n, 3} : x <= y
      BY <3>1
    <3>3. Min({n, 3}) \in {n, 3} /\ \A y \in {n, 3} : Min({n, 3}) <= y
      BY <3>2 DEF Min
    <3> QED
      BY <3>1, <3>3
  <2>5. D \in Globals
    <3>1. tmo \in 0..3
      BY <2>3, <2>4
    <3> HIDE DEF tmo
    <3> QED
      BY <1>1, <3>1 DEF Globals
  <2>6. Go(<<>>, d) \/ Go(s, D)
    BY <1>3 DEF Check
  <2>7. O \cap {"leave", "signal", "event"} = {} /\ O \cap DialOps = {}
    BY DEF DialOps
  <2> HIDE DEF S, same
  <2>8. s \in Seq(S)
    BY <2>2, ListIn
  <2> HIDE DEF s, O, D
  <2>9. CASE Go(<<>>, d)
    BY <1>1, <2>9, PopBase
  <2>10. CASE Go(s, D)
    BY <1>1, <2>5, <2>7, <2>8, <2>10, GoBase DEF S
  <2> QED
    BY <2>6, <2>9, <2>10
<1>4. CASE Judge
  <2> DEFINE O == {"link0", "link1", "kick"}
             S == StepsOf(O)
             st == [f \in Both |-> IF f \in d.fam THEN d.status[f] ELSE "disc"]
             s1 == When(\A f \in Both : st[f] = "disc", <<Do("link0")>>)
             s2 == When(\E f \in Both : st[f] = "conn", <<Do("link1")>>)
             s3 == When(\E f \in d.fam : st[f] = "disc", <<Do("kick")>>)
             D == [d EXCEPT !.status = st]
  <2>1. Do("link0") \in S /\ Do("link1") \in S /\ Do("kick") \in S
    BY StepIn DEF PlainOps
  <2>2. Go(s1 \o s2 \o s3, D) /\ O \cap {"leave", "signal", "event"} = {} /\ O \cap DialOps = {}
    BY <1>4 DEF Judge, DialOps
  <2>3. D \in Globals
    <3>1. st \in [Both -> {"unknown", "conn", "disc"}]
      BY <1>1 DEF Globals
    <3> HIDE DEF st
    <3> QED
      BY <1>1, <3>1 DEF Globals
  <2> HIDE DEF S
  <2>4. <<Do("link0")>> \in Seq(S) /\ <<Do("link1")>> \in Seq(S) /\ <<Do("kick")>> \in Seq(S)
    BY <2>1, ListIn
  <2>5. s1 \in Seq(S) /\ s2 \in Seq(S) /\ s3 \in Seq(S)
    BY <2>4, ListIn, Zenon
  <2> HIDE DEF s1, s2, s3
  <2>6. s1 \o s2 \o s3 \in Seq(S)
    BY <2>5, ListIn
  <2> HIDE DEF O, D
  <2> QED
    BY <1>1, <2>2, <2>3, <2>6, GoBase DEF S
<1>5. CASE LinkUp
  <2> DEFINE O == {"getip"}
             S == StepsOf(O)
             s == When(d.link # 1, Each("getip", d.fam))
             D == [d EXCEPT !.link = 1]
  <2>1. Step("getip", "v4") \in S /\ Step("getip", "v6") \in S
    BY StepIn DEF CallOps, Both
  <2>2. Go(s, D) /\ O \cap {"leave", "signal", "event"} = {} /\ O \cap DialOps = {}
    BY <1>5 DEF LinkUp, DialOps
  <2>3. D \in Globals
    <3>1. 1 \in -1..1
      OBVIOUS
    <3> QED
      BY <1>1, <3>1 DEF Globals
  <2> HIDE DEF S
  <2>4. s \in Seq(S)
    BY <2>1, EachOf, WhenOf
  <2> HIDE DEF s, O, D
  <2> QED
    BY <1>1, <2>2, <2>3, <2>4, GoBase DEF S
<1>6. CASE Sync
  <2>1. CASE Go(<<>>, d)
    BY <1>1, <2>1, PopBase
  <2>2. CASE Here.arg < SyncTries /\ Go(<<Step("sync", Here.arg + 1)>>, d)
    <3> DEFINE O == {"sync"}
               s == <<Step("sync", Here.arg + 1)>>
    <3>1. Here.arg \in 1..SyncTries /\ SyncTries \in Nat
      <4>1. Here.op = "sync"
        BY <1>6 DEF Sync, Has, At
      <4> QED
        BY <1>1, <4>1, HereOf, DialerAssumption
    <3>2. Here.arg + 1 \in 1..SyncTries
      BY <2>2, <3>1
    <3>3. Step("sync", Here.arg + 1) \in StepsOf(O)
      BY <3>2, StepIn
    <3>4. s \in Seq(StepsOf(O)) /\ O \cap {"leave", "signal", "event"} = {} /\ O \cap DialOps = {}
      BY <3>3, ListIn DEF DialOps
    <3>5. Go(s, d)
      BY <2>2
    <3> HIDE DEF s, O
    <3> QED
      BY <1>1, <3>4, <3>5, GoBase
  <2>3. CASE pc' = "exited" /\ UNCHANGED <<todo, res, cond, pipes, d, rd, modem, env>>
    <3>1. /\ todo' = todo /\ res' = res /\ d' = d /\ rd' = rd /\ m' = m /\ inq' = inq /\ outq' = outq
          /\ req' = req /\ rsp' = rsp /\ woken' = woken /\ faults' = faults /\ term' = term
          /\ sigq' = sigq /\ evq' = evq /\ cmdq' = cmdq /\ pc' = "exited"
      BY <2>3 DEF cond, pipes, modem, env
    <3>2. Types'
      BY <1>1, <3>1 DEF Types, TypeOK, PipeTypes
    <3>3. Handler' /\ Rests' /\ Pending'
      BY <3>1 DEF BaseInv, Handler, Rests, Pending
    <3>4. Lives'
      BY <1>1, <3>1 DEF BaseInv, Lives
    <3> QED
      BY <3>2, <3>3, <3>4 DEF BaseInv
  <2> QED
    BY <1>6, <2>1, <2>2, <2>3 DEF Sync
<1>7. CASE SimStatus
  <2> DEFINE O == {"sim"}
             s == When(res = "unsup", <<Do("sim")>>)
  <2>1. Do("sim") \in StepsOf(O)
    BY StepIn DEF PlainOps
  <2>2. Go(s, d) /\ O \cap {"leave", "signal", "event"} = {} /\ O \cap DialOps = {}
    BY <1>7 DEF SimStatus, DialOps
  <2> HIDE DEF O
  <2>3. s \in Seq(StepsOf(O))
    BY <2>1, ListIn
  <2> HIDE DEF s
  <2> QED
    BY <1>1, <2>2, <2>3, GoBase
<1> QED
  BY <1>2, <1>3, <1>4, <1>5, <1>6, <1>7

\* The steps that signal main keep BaseInv.
LEMMA TellBase ==
  ASSUME BaseInv, Refresh \/ RedialNow \/ Kick
  PROVE  BaseInv'
<1>1. d \in Globals /\ PipeTypes /\ todo # <<>> /\ pc = "run"
  BY DEF BaseInv, Types, Refresh, RedialNow, Kick, Tell, At
<1>2. /\ Then(<<>>, d) /\ evq' = evq /\ cmdq' = cmdq
      /\ sigq' = sigq \/ sigq' = Append(sigq, "USR1") \/ sigq' = Append(sigq, "USR2")
  BY DEF Refresh, RedialNow, Kick, Tell
<1>3. PipeTypes'
  <2>1. "USR1" \in {"USR1", "USR2", "TERM"} /\ "USR2" \in {"USR1", "USR2", "TERM"}
    OBVIOUS
  <2> DEFINE S == {"USR1", "USR2", "TERM"}
  <2>2. sigq \in Seq(S) /\ "USR1" \in S /\ "USR2" \in S
    BY <1>1, <2>1 DEF PipeTypes
  <2> HIDE DEF S
  <2>3. sigq' \in Seq(S)
    BY <1>2, <2>2, AppendOf
  <2> QED
    BY <1>1, <1>2, <2>3 DEF PipeTypes, S
<1> DEFINE O == {}
<1>4. <<>> \in Seq(StepsOf(O)) /\ O \cap {"leave", "signal", "event"} = {} /\ O \cap DialOps = {}
  OBVIOUS
<1> HIDE DEF O
<1> QED
  BY <1>1, <1>2, <1>3, <1>4, ThenBase

\* A list with one more element ends with it.
LEMMA LastOf ==
  ASSUME NEW S, NEW s \in Seq(S), NEW x \in S
  PROVE  s \o <<x>> # <<>> /\ (s \o <<x>>)[Len(s \o <<x>>)] = x
<1>1. <<x>> \in Seq(S) /\ Len(<<x>>) = 1 /\ <<x>>[1] = x
  OBVIOUS
<1>2. /\ s \o <<x>> \in Seq(S) /\ Len(s \o <<x>>) = Len(s) + 1 /\ Len(s) \in Nat
      /\ (s \o <<x>>)[Len(s) + 1] = <<x>>[Len(s) + 1 - Len(s)]
  BY <1>1, ConcatOf
<1> QED
  BY <1>1, <1>2

\* The handlers of signals are lists of steps that do not end with one of a dial.
SignalOps == {"redial", "radio", "query", "check", "judge", "stop", "link0", "release", "quit"}

\* The handlers of signals are lists of such steps that do not end with one of a dial.
LEMMA OnSignalIn ==
  ASSUME NEW x \in {"USR1", "USR2", "TERM"}
  PROVE  /\ OnSignal(x) \in Seq(StepsOf(SignalOps))
         /\ OnSignal(x) # <<>> /\ OnSignal(x)[Len(OnSignal(x))].op \notin DialOps
<1> DEFINE S == StepsOf(SignalOps)
<1>1. \A n \in {"redial", "query", "check", "stop"} : \A a \in Both : Step(n, a) \in S
  BY StepIn DEF SignalOps, CallOps
<1>2. \A a \in Clients : Step("release", a) \in S
  BY StepIn DEF SignalOps
<1>3. Do("radio") \in S /\ Do("judge") \in S /\ Do("link0") \in S /\ Do("quit") \in S
  BY StepIn DEF SignalOps, PlainOps
<1>7. Do("radio").op \notin DialOps /\ Do("judge").op \notin DialOps /\ Do("quit").op \notin DialOps
  BY DEF Do, Step, DialOps
<1> HIDE DEF S
<1>4. CASE x = "USR1"
  <2>1. Each("redial", d.fam) \in Seq(S)
    BY <1>1, EachOf DEF Both
  <2>2. OnSignal(x) = Each("redial", d.fam) \o <<Do("radio")>>
    BY <1>4 DEF OnSignal
  <2> QED
    BY <1>3, <1>7, <2>1, <2>2, ListIn, LastOf DEF S
<1>5. CASE x = "USR2"
  <2> DEFINE a == When("v4" \in d.fam, <<Step("query", "v4"), Step("check", "v4")>>)
             b == When("v6" \in d.fam, <<Step("query", "v6")>>)
  <2>1. Step("query", "v4") \in S /\ Step("check", "v4") \in S /\ Step("query", "v6") \in S
    BY <1>1 DEF Both
  <2>2. a \in Seq(S) /\ b \in Seq(S)
    BY <2>1, ListIn
  <2>3. OnSignal(x) = a \o b \o <<Do("judge")>>
    BY <1>5 DEF OnSignal
  <2> HIDE DEF a, b
  <2>4. <<Do("judge")>> \in Seq(S)
    BY <1>3, ListIn
  <2>5. a \o b \in Seq(S)
    BY <2>2, ListIn
  <2> QED
    BY <1>3, <1>7, <2>3, <2>4, <2>5, ListIn, LastOf DEF S
<1>6. CASE x = "TERM"
  <2> DEFINE a == Each("stop", {f \in d.fam : d.status[f] = "conn"})
  <2>1. a \in Seq(S)
    BY <1>1, EachOf DEF Both
  <2>2. Releases \in Seq(S)
    <3> DEFINE r1 == Each("release", {"v4"} \intersect Held)
               r2 == When("dms" \in Held, <<Step("release", "dms")>>)
               r3 == When("nas" \in Held, <<Step("release", "nas")>>)
               r4 == Each("release", {"v6"} \intersect Held)
    <3>1. Step("release", "v4") \in S /\ Step("release", "v6") \in S
          /\ Step("release", "dms") \in S /\ Step("release", "nas") \in S
      BY <1>2 DEF Clients, Both
    <3>2. r1 \in Seq(S) /\ r4 \in Seq(S)
      BY <3>1, EachOf
    <3>3. r2 \in Seq(S) /\ r3 \in Seq(S)
      BY <3>1, ListIn
    <3>4. Releases = r1 \o r2 \o r3 \o r4
      BY DEF Releases
    <3> HIDE DEF r1, r2, r3, r4
    <3>5. r1 \o r2 \in Seq(S)
      BY <3>2, <3>3, ListIn
    <3>6. r1 \o r2 \o r3 \in Seq(S)
      BY <3>3, <3>5, ListIn
    <3> QED
      BY <3>2, <3>4, <3>6, ListIn
  <2>3. OnSignal(x) = a \o <<Do("link0")>> \o Releases \o <<Do("quit")>>
    BY <1>6 DEF OnSignal
  <2> HIDE DEF a
  <2>4. <<Do("link0")>> \in Seq(S) /\ <<Do("quit")>> \in Seq(S)
    BY <1>3, ListIn
  <2>5. a \o <<Do("link0")>> \in Seq(S)
    BY <2>1, <2>4, ListIn
  <2>6. a \o <<Do("link0")>> \o Releases \in Seq(S)
    BY <2>2, <2>5, ListIn
  <2> QED
    BY <1>3, <1>7, <2>3, <2>4, <2>6, ListIn, LastOf DEF S
<1> QED
  BY <1>4, <1>5, <1>6

\* Reading a signal keeps BaseInv.
LEMMA ReadSignalBase ==
  ASSUME BaseInv, ReadSignal
  PROVE  BaseInv'
<1>1. /\ d \in Globals /\ PipeTypes /\ todo # <<>> /\ pc = "run" /\ todo[1].op = "signal" /\ 1 \in DOMAIN todo
      /\ Pending
  <2>1. At("signal") /\ Types
    BY DEF BaseInv, ReadSignal
  <2>2. Here = todo[1] /\ 1 \in DOMAIN todo
    BY <2>1, HereOf DEF At
  <2> QED
    BY <2>1, <2>2 DEF BaseInv, Types, At
<1>2. sigq # <<>>
  BY <1>1 DEF Pending
<1> DEFINE P == {"USR1", "USR2", "TERM"}
           s == OnSignal(Head(sigq))
           D == [d EXCEPT !.alarm = FALSE]
<1>3. Then(s, D) /\ sigq' = Tail(sigq) /\ evq' = evq /\ cmdq' = cmdq
  BY DEF ReadSignal
<1>4. sigq \in Seq(P)
  BY <1>1 DEF PipeTypes
<1> HIDE DEF P
<1>5. Head(sigq) \in P /\ Tail(sigq) \in Seq(P)
  BY <1>2, <1>4, TailOf
<1>6. s \in Seq(StepsOf(SignalOps))
  BY <1>5, OnSignalIn DEF P
<1>7. D \in Globals
  BY <1>1 DEF Globals
<1>8. PipeTypes'
  BY <1>1, <1>3, <1>5 DEF PipeTypes, P
<1>9. SignalOps \cap {"leave", "signal", "event"} = {}
  BY DEF SignalOps
<1>10. s # <<>> /\ s[Len(s)].op \notin DialOps
  BY <1>5, OnSignalIn DEF P
<1> HIDE DEF s, D
<1> QED
  BY <1>1, <1>3, <1>6, <1>7, <1>8, <1>9, <1>10, ThenBase

\* The handlers of events are lists of steps.
EventOps == {"link0", "leave", "reg", "redialnow", "refresh"}

\* The handlers of events are lists of such steps, and only that of "gone" leaves.
LEMMA OnEventIn ==
  ASSUME NEW x \in {"connected", "gone", "net", "call"}, x # "connected"
  PROVE  /\ OnEvent(x) \in Seq(StepsOf(EventOps))
         /\ x # "gone" => OnEvent(x) \in Seq(StepsOf(EventOps \ {"leave"}))
<1>1. \A S : Do("reg") \in S /\ Do("redialnow") \in S /\ Do("refresh") \in S => (x # "gone" => OnEvent(x) \in Seq(S))
  <2> SUFFICES ASSUME NEW S, Do("reg") \in S, Do("redialnow") \in S, Do("refresh") \in S, x # "gone"
               PROVE  OnEvent(x) \in Seq(S)
    OBVIOUS
  <2>1. OnEvent(x) = <<Do("reg"), Do("redialnow")>>
          \/ OnEvent(x) = When(\E f \in Both : d.status[f] = "conn", <<Do("refresh")>>)
    BY DEF OnEvent
  <2>2. <<Do("reg"), Do("redialnow")>> \in Seq(S) /\ <<Do("refresh")>> \in Seq(S)
    OBVIOUS
  <2> QED
    BY <2>1, <2>2, WhenOf
<1>2. x = "gone" => OnEvent(x) = <<Do("link0"), Do("leave")>>
  BY DEF OnEvent
<1>3. \A O : {"reg", "redialnow", "refresh"} \subseteq O =>
        Do("reg") \in StepsOf(O) /\ Do("redialnow") \in StepsOf(O) /\ Do("refresh") \in StepsOf(O)
  BY StepIn DEF PlainOps
<1>4. Do("link0") \in StepsOf(EventOps) /\ Do("leave") \in StepsOf(EventOps)
  BY StepIn DEF PlainOps, EventOps
<1>5. {"reg", "redialnow", "refresh"} \subseteq EventOps /\ {"reg", "redialnow", "refresh"} \subseteq EventOps \ {"leave"}
  BY DEF EventOps
<1>6. x # "gone" => OnEvent(x) \in Seq(StepsOf(EventOps)) /\ OnEvent(x) \in Seq(StepsOf(EventOps \ {"leave"}))
  BY <1>1, <1>3, <1>5, Zenon
<1>7. x = "gone" => OnEvent(x) \in Seq(StepsOf(EventOps))
  BY <1>2, <1>4, ListIn
<1> QED
  BY <1>6, <1>7

\* Reading an event keeps BaseInv: it is the last step of the handler of poll.
LEMMA ReadEventBase ==
  ASSUME BaseInv, ReadEvent
  PROVE  BaseInv'
<1>1. /\ d \in Globals /\ PipeTypes /\ todo # <<>> /\ pc = "run" /\ todo[1].op = "event" /\ 1 \in DOMAIN todo
      /\ Pending /\ todo \in Seq(Steps) /\ Lives
  <2>1. At("event") /\ Types
    BY DEF BaseInv, ReadEvent
  <2>2. Here = todo[1] /\ 1 \in DOMAIN todo
    BY <2>1, HereOf DEF At
  <2> QED
    BY <2>1, <2>2 DEF BaseInv, Types, At
<1>2. evq # <<>> /\ Len(todo) = 1
  BY <1>1 DEF Pending
<1> DEFINE P == {"connected", "gone", "net", "call"}
           s == OnEvent(Head(evq))
<1>3. Then(s, d) /\ evq' = Tail(evq) /\ sigq' = sigq /\ cmdq' = cmdq
  BY DEF ReadEvent
<1>4. evq \in Seq(P)
  BY <1>1 DEF PipeTypes
<1> HIDE DEF P
<1>5. /\ Head(evq) \in P /\ Tail(evq) \in Seq(P) /\ Head(evq) = evq[1]
      /\ \A i \in 1..(Len(evq) - 1) : Tail(evq)[i] = evq[i + 1]
      /\ DOMAIN Tail(evq) = 1..(Len(evq) - 1) /\ DOMAIN evq = 1..Len(evq) /\ Len(evq) \in Nat \ {0}
      /\ Len(Tail(evq)) = Len(evq) - 1
  BY <1>2, <1>4, TailOf
<1>6. Head(evq) # "connected"
  BY <1>1, <1>5 DEF Lives
<1>7. s \in Seq(StepsOf(EventOps)) /\ (Head(evq) # "gone" => s \in Seq(StepsOf(EventOps \ {"leave"})))
  BY <1>5, <1>6, OnEventIn DEF P
<1>8. PipeTypes'
  BY <1>1, <1>3, <1>5 DEF PipeTypes, P
<1>9. EventOps \cap DialOps = {} /\ EventOps \cap {"signal", "event"} = {}
  BY DEF EventOps, DialOps
<1>10. Types' /\ Handler' /\ Rests' /\ pc' = "run" /\ rd' = rd
  <2>1. pc' = "run" /\ rd' = rd
    BY <1>1, <1>3 DEF Then
  <2> HIDE DEF s
  <2> QED
    BY <1>1, <1>3, <1>7, <1>8, <1>9, <2>1, ThenTypes
<1> HIDE DEF s
<1>11. todo' = s
  <2>1. todo' = s \o Tail(todo)
    BY <1>3 DEF Then
  <2>2. Tail(todo) = <<>>
    BY <1>1, <1>2, OneOf
  <2> QED
    BY <1>7, <2>1, <2>2, ConcatEmptySeq
<1>12. \A i \in DOMAIN todo' : todo'[i].op \in EventOps
  BY <1>7, <1>11 DEF StepsOf
<1>13. Pending'
  BY <1>9, <1>12 DEF Pending
<1>14. Lives'
  <2>1. \A i \in DOMAIN evq' : evq'[i] = "gone" => i = Len(evq') /\ rd' \in {"told", "exited"}
    BY <1>1, <1>3, <1>5, <1>10 DEF Lives
  <2>2. \A i \in DOMAIN evq' : evq'[i] # "connected"
    BY <1>1, <1>3, <1>5, <1>10 DEF Lives
  <2>3. rd' # "open"
    BY <1>1, <1>10 DEF Lives
  <2>4. (\E i \in DOMAIN todo' : todo'[i].op = "leave") => rd' \in {"told", "exited"} /\ evq' = <<>>
    <3>1. CASE Head(evq) # "gone"
      <4>1. \A i \in DOMAIN todo' : todo'[i].op # "leave"
        BY <1>7, <1>11, <3>1 DEF StepsOf
      <4> QED
        BY <4>1
    <3>2. CASE Head(evq) = "gone"
      <4>1. 1 = Len(evq) /\ rd \in {"told", "exited"}
        BY <1>1, <1>5, <3>2 DEF Lives
      <4>2. Tail(evq) = <<>>
        BY <1>4, <4>1, OneOf
      <4> QED
        BY <1>3, <1>10, <4>1, <4>2
    <3> QED
      BY <3>1, <3>2
  <2> QED
    BY <1>10, <2>1, <2>2, <2>3, <2>4 DEF Lives
<1> QED
  BY <1>10, <1>13, <1>14 DEF BaseInv

\* The steps of the loop of main keep BaseInv: the first event is "connected" or "gone".
LEMMA LoopBase ==
  ASSUME BaseInv, Detect \/ Connect \/ Poll \/ PollTimeout \/ LoopAgain
  PROVE  BaseInv'
<1>1. Types /\ d \in Globals /\ PipeTypes /\ Pending /\ todo \in Seq(Steps) /\ Lives /\ Rests /\ TypeOK
      /\ Handler
  BY DEF BaseInv, Types
<1>2. CASE Detect
  <2>1. /\ todo' = todo /\ res' = res /\ d' = d /\ m' = m /\ inq' = inq /\ outq' = outq
        /\ req' = req /\ rsp' = rsp /\ woken' = woken /\ faults' = faults /\ term' = term
        /\ sigq' = sigq /\ evq' = evq /\ cmdq' = cmdq
        /\ pc = "detect"
        /\ (pc' = "connect" /\ rd' = "open") \/ (pc' = "exited" /\ rd' = rd)
    BY <1>2 DEF Detect, cond, pipes, modem, env
  <2>2. todo = <<>>
    BY <1>1, <2>1 DEF Rests
  <2>3. Types'
    BY <1>1, <2>1 DEF Types, TypeOK, PipeTypes
  <2>4. Lives'
    BY <1>1, <2>1, <2>2 DEF Lives
  <2>5. Handler' /\ Rests' /\ Pending'
    BY <2>1, <2>2 DEF Handler, Rests, Pending
  <2> QED
    BY <2>3, <2>4, <2>5 DEF BaseInv
<1>3. CASE Connect
  <2>1. /\ res' = res /\ d' = d /\ m' = m /\ inq' = inq /\ outq' = outq /\ rd' = rd
        /\ req' = req /\ rsp' = rsp /\ woken' = woken /\ faults' = faults /\ term' = term
        /\ sigq' = sigq /\ evq' = Tail(evq) /\ cmdq' = cmdq
        /\ pc = "connect" /\ evq # <<>>
        /\ (pc' = "run" /\ todo' = Startup) \/ (pc' = "exited" /\ todo' = todo)
    BY <1>3 DEF Connect, cond, modem, env
  <2>2. todo = <<>>
    BY <1>1, <2>1 DEF Rests
  <2> DEFINE P == {"connected", "gone", "net", "call"}
             O == {"sync", "version", "getid", "format", "sim", "reg", "refresh"}
             S == StepsOf(O)
  <2>3. evq \in Seq(P)
    BY <1>1 DEF PipeTypes
  <2> HIDE DEF P
  <2>4. /\ Tail(evq) \in Seq(P)
        /\ \A i \in 1..(Len(evq) - 1) : Tail(evq)[i] = evq[i + 1]
        /\ DOMAIN Tail(evq) = 1..(Len(evq) - 1) /\ DOMAIN evq = 1..Len(evq) /\ Len(evq) \in Nat \ {0}
        /\ Len(Tail(evq)) = Len(evq) - 1
    BY <2>1, <2>3, TailOf
  <2>5. /\ Step("sync", 1) \in S /\ Do("version") \in S /\ Do("format") \in S /\ Do("reg") \in S
        /\ Do("sim") \in S
        /\ Do("refresh") \in S /\ Step("getid", "dms") \in S /\ Step("getid", "nas") \in S
        /\ Step("getid", "v4") \in S /\ Step("getid", "v6") \in S
    BY StepIn, DialerAssumption DEF PlainOps, Clients, Both
  <2> HIDE DEF S
  <2>6. Startup \in Seq(S) /\ Startup[Len(Startup)] = Do("refresh") /\ Startup # <<>>
    <3> DEFINE a == <<Step("sync", 1), Do("version")>> \o Each("getid", d.fam)
               b == <<Step("getid", "dms"), Step("getid", "nas"), Do("format"), Do("sim"), Do("reg"),
                      Do("refresh")>>
    <3>1. a \in Seq(S)
      <4>1. <<Step("sync", 1), Do("version")>> \in Seq(S)
        BY <2>5, ListIn
      <4>2. Each("getid", d.fam) \in Seq(S)
        BY <2>5, EachOf
      <4> QED
        BY <4>1, <4>2, ListIn
    <3>2. b \in Seq(S) /\ Len(b) = 6 /\ b[6] = Do("refresh")
      BY <2>5
    <3>3. Startup = a \o b
      BY DEF Startup
    <3> HIDE DEF a, b
    <3>4. /\ a \o b \in Seq(S) /\ Len(a \o b) = Len(a) + 6 /\ Len(a) \in Nat
          /\ \A i \in (Len(a) + 1)..(Len(a) + 6) : (a \o b)[i] = b[i - Len(a)]
      <4>1. /\ a \o b \in Seq(S) /\ Len(a \o b) = Len(a) + Len(b) /\ Len(a) \in Nat
            /\ \A i \in (Len(a) + 1)..(Len(a) + Len(b)) : (a \o b)[i] = b[i - Len(a)]
        BY <3>1, <3>2, ConcatOf, Zenon
      <4> QED
        BY <3>2, <4>1
    <3>5. Len(a) + 6 \in (Len(a) + 1)..(Len(a) + 6) /\ Len(a) + 6 - Len(a) = 6
      BY <3>4
    <3>6. (a \o b)[Len(a) + 6] = b[6]
      BY <3>4, <3>5
    <3>7. a \o b # <<>>
      BY <3>4, EmptySeq
    <3> QED
      BY <3>2, <3>3, <3>4, <3>6, <3>7
  <2>7. todo' \in Seq(Steps) /\ \A i \in DOMAIN todo' : todo'[i].op \in O
    <3>1. \A q \in Seq(S) : q \in Seq(Steps) /\ \A i \in DOMAIN q : q[i].op \in O
      BY DEF StepsOf, S
    <3>2. CASE todo' = Startup
      BY <2>6, <3>1, <3>2
    <3>3. CASE todo' = <<>>
      BY <3>3
    <3> QED
      BY <2>1, <2>2, <3>2, <3>3
  <2>8. TypeOK'
    BY <1>1, <2>1 DEF TypeOK
  <2>9. Types'
    BY <1>1, <2>1, <2>4, <2>7, <2>8 DEF Types, PipeTypes, P
  <2>10. Lives'
    <3>1. \A i \in DOMAIN evq' : evq'[i] = "gone" => i = Len(evq') /\ rd' \in {"told", "exited"}
      BY <1>1, <2>1, <2>4 DEF Lives
    <3>2. \A i \in DOMAIN evq' : evq'[i] # "connected"
      BY <1>1, <2>1, <2>4 DEF Lives
    <3>3. rd' # "open"
      BY <1>1, <2>1 DEF Lives
    <3>4. \A i \in DOMAIN todo' : todo'[i].op # "leave"
      BY <2>7
    <3> QED
      BY <2>1, <3>1, <3>2, <3>3, <3>4 DEF Lives
  <2>11. Handler'
    BY <2>1, <2>2, <2>6 DEF Handler, Do, Step, DialOps
  <2>12. Rests' /\ Pending'
    BY <2>1, <2>7 DEF Rests, Pending
  <2> QED
    BY <2>9, <2>10, <2>11, <2>12 DEF BaseInv
<1>4. CASE Poll
  <2>1. /\ res' = res /\ d' = d /\ m' = m /\ inq' = inq /\ outq' = outq /\ rd' = rd
        /\ req' = req /\ rsp' = rsp /\ woken' = woken /\ faults' = faults /\ term' = term
        /\ sigq' = sigq /\ evq' = evq /\ cmdq' = cmdq
        /\ pc = "poll" /\ pc' = "run"
        /\ todo' = When(sigq # <<>>, <<Do("signal")>>) \o When(evq # <<>>, <<Do("event")>>)
    BY <1>4 DEF Poll, cond, modem, env, pipes
  <2>2. \/ todo' = <<>> \o <<>>
        \/ todo' = <<Do("signal")>> \o <<>> /\ sigq # <<>>
        \/ todo' = <<>> \o <<Do("event")>> /\ evq # <<>>
        \/ todo' = <<Do("signal")>> \o <<Do("event")>> /\ evq # <<>> /\ sigq # <<>>
    BY <2>1 DEF When
  <2>3. Do("signal") \in Steps /\ Do("event") \in Steps
    BY DEF Do, Step, Steps, PlainOps
  <2>4. \/ todo' = <<>>
        \/ todo' = <<Do("signal")>> /\ sigq # <<>>
        \/ todo' = <<Do("event")>> /\ evq # <<>>
        \/ todo' = <<Do("signal"), Do("event")>> /\ evq # <<>> /\ sigq # <<>>
    BY <2>2, <2>3
  <2>5. Do("signal").op = "signal" /\ Do("event").op = "event"
    BY DEF Do, Step
  <2>6. todo' \in Seq(Steps)
    <3>1. \A x, y \in Steps : <<x>> \in Seq(Steps) /\ <<x, y>> \in Seq(Steps) /\ <<>> \in Seq(Steps)
      BY ListIn
    <3> QED
      BY <2>3, <2>4, <3>1, Zenon
  <2>7. /\ \A i \in DOMAIN todo' : todo'[i].op \in {"signal", "event"}
        /\ \A i \in DOMAIN todo' : todo'[i].op = "signal" => i = 1 /\ sigq # <<>>
        /\ \A i \in DOMAIN todo' : todo'[i].op = "event" => i = Len(todo') /\ evq # <<>>
        /\ todo' # <<>> => Len(todo') \in DOMAIN todo'
    BY <2>4, <2>5
  <2>8. Handler'
    BY <2>7 DEF Handler, DialOps
  <2>9. Types'
    BY <1>1, <2>1, <2>6 DEF Types, TypeOK, PipeTypes
  <2>10. Lives'
    BY <1>1, <2>1, <2>7 DEF Lives
  <2>11. Rests' /\ Pending'
    BY <2>1, <2>7 DEF Rests, Pending
  <2> QED
    BY <2>8, <2>9, <2>10, <2>11 DEF BaseInv
<1>5. CASE PollTimeout
  <2>1. /\ res' = res /\ d' = d /\ m' = m /\ inq' = inq /\ outq' = outq /\ rd' = rd /\ pc' = pc /\ todo' = todo
        /\ req' = req /\ rsp' = rsp /\ woken' = woken /\ faults' = faults /\ term' = term
        /\ sigq' = <<"USR2">> /\ evq' = evq /\ cmdq' = cmdq /\ pc = "poll"
    BY <1>5 DEF PollTimeout, cond, modem, env
  <2>2. todo = <<>>
    BY <1>1, <2>1 DEF Rests
  <2>3. PipeTypes'
    BY <1>1, <2>1 DEF PipeTypes
  <2>4. Types'
    BY <1>1, <2>1, <2>3 DEF Types, TypeOK
  <2>5. Lives' /\ Handler' /\ Rests' /\ Pending'
    BY <1>1, <2>1, <2>2 DEF Lives, Handler, Rests, Pending
  <2> QED
    BY <2>4, <2>5 DEF BaseInv
<1>6. CASE LoopAgain
  <2>1. /\ res' = res /\ d' = d /\ m' = m /\ inq' = inq /\ outq' = outq /\ rd' = rd /\ pc' = "poll" /\ todo' = todo
        /\ req' = req /\ rsp' = rsp /\ woken' = woken /\ faults' = faults /\ term' = term
        /\ sigq' = sigq /\ evq' = evq /\ cmdq' = cmdq /\ pc = "run" /\ todo = <<>>
    BY <1>6 DEF LoopAgain, cond, modem, env, pipes
  <2>2. Types'
    BY <1>1, <2>1 DEF Types, TypeOK, PipeTypes
  <2>3. Lives' /\ Handler' /\ Rests' /\ Pending'
    BY <1>1, <2>1 DEF Lives, Handler, Rests, Pending
  <2> QED
    BY <2>2, <2>3 DEF BaseInv
<1> QED
  BY <1>2, <1>3, <1>4, <1>5, <1>6

\* The age of x after another request of client c.
Aged(x, c) == IF x.age >= 0 /\ Counter(x.c) = Counter(c) THEN (x.age + 1) % MaxTid ELSE x.age

\* When another request has been sent, the earlier ones stay, are not the own one, and age.
LEMMA LaterOf ==
  ASSUME NEW S \in {Requests, Messages}, NEW q \in Seq(S), NEW c
  PROVE  /\ Later(q, c) \in Seq(S) /\ Len(Later(q, c)) = Len(q)
         /\ DOMAIN Later(q, c) = DOMAIN q /\ DOMAIN q = 1..Len(q) /\ Len(q) \in Nat
         /\ \A i \in DOMAIN q : Later(q, c)[i].c = q[i].c
         /\ \A i \in DOMAIN q : Later(q, c)[i].own = FALSE
         /\ \A i \in DOMAIN q : Later(q, c)[i].age = Aged(q[i], c)
         /\ S = Requests => \A i \in DOMAIN q : Later(q, c)[i].s = q[i].s
<1> DEFINE L(x) == [x EXCEPT !.own = FALSE,
                     !.age = IF @ >= 0 /\ Counter(x.c) = Counter(c) THEN (@ + 1) % MaxTid ELSE @]
           N(x) == Aged(x, c)
<1>1. DOMAIN q = 1..Len(q) /\ Len(q) \in Nat /\ \A i \in DOMAIN q : q[i] \in S
  OBVIOUS
<1>2. Later(q, c) = [i \in DOMAIN q |-> L(q[i])]
  BY DEF Later
<1>3. MaxTid \in Nat \ {0} /\ \A n \in Ages : (n + 1) % MaxTid \in Ages
  <2>1. MaxTid \in Nat \ {0}
    BY DialerAssumption
  <2> QED
    BY <2>1 DEF Ages
<1>4. \A x \in Requests : /\ L(x) \in Requests /\ L(x).c = x.c /\ L(x).own = FALSE /\ L(x).age = N(x) /\ L(x).s = x.s
  <2> SUFFICES ASSUME NEW x \in Requests
               PROVE  L(x) \in Requests /\ L(x).c = x.c /\ L(x).own = FALSE /\ L(x).age = N(x) /\ L(x).s = x.s
    OBVIOUS
  <2>1. x \in [s : Steps, c : Peers, age : Ages, own : BOOLEAN] /\ Fits(x.s, x.c) /\ x.age \in Ages
    BY DEF Requests
  <2>2. N(x) \in Ages
    BY <1>3, <2>1 DEF Aged
  <2>3. L(x) = [x EXCEPT !.own = FALSE, !.age = N(x)]
    BY <2>1 DEF Aged
  <2> HIDE DEF L, N
  <2>4. /\ L(x) \in [s : Steps, c : Peers, age : Ages, own : BOOLEAN]
        /\ L(x).c = x.c /\ L(x).own = FALSE /\ L(x).age = N(x) /\ L(x).s = x.s
    BY <2>1, <2>2, <2>3
  <2> QED
    BY <2>1, <2>4 DEF Requests
<1>5. \A x \in Messages : /\ L(x) \in Messages /\ L(x).c = x.c /\ L(x).own = FALSE /\ L(x).age = N(x)
  <2> SUFFICES ASSUME NEW x \in Messages
               PROVE  L(x) \in Messages /\ L(x).c = x.c /\ L(x).own = FALSE /\ L(x).age = N(x)
    OBVIOUS
  <2>1. CASE x \in [a : Results, c : Peers, age : Ages, own : BOOLEAN]
    <3>1. N(x) \in Ages
      BY <1>3, <2>1 DEF Aged
    <3>2. L(x) = [x EXCEPT !.own = FALSE, !.age = N(x)]
      BY <2>1 DEF Aged
    <3> HIDE DEF L, N
    <3>3. /\ L(x) \in [a : Results, c : Peers, age : Ages, own : BOOLEAN]
          /\ L(x).c = x.c /\ L(x).own = FALSE /\ L(x).age = N(x)
      BY <2>1, <3>1, <3>2
    <3> QED
      BY <3>3 DEF Messages
  <2>2. CASE x \in [a : {"net", "call"}, c : Clients, age : {-1}, own : {FALSE}]
    <3>1. x.age = -1 /\ ~(-1 >= 0)
      BY <2>2
    <3>2. N(x) = -1
      BY <3>1 DEF Aged
    <3>3. L(x) = [x EXCEPT !.own = FALSE, !.age = N(x)]
      BY <2>2 DEF Aged
    <3> HIDE DEF L, N
    <3>4. /\ L(x) \in [a : {"net", "call"}, c : Clients, age : {-1}, own : {FALSE}]
          /\ L(x).c = x.c /\ L(x).own = FALSE /\ L(x).age = N(x)
      BY <2>2, <3>2, <3>3
    <3> QED
      BY <3>4 DEF Messages
  <2> QED
    BY <2>1, <2>2 DEF Messages
<1> HIDE DEF L
<1>6. Later(q, c) \in Seq(S) /\ Len(Later(q, c)) = Len(q) /\ DOMAIN Later(q, c) = DOMAIN q
  <2>1. \A i \in 1..Len(q) : L(q[i]) \in S
    BY <1>1, <1>4, <1>5
  <2>2. [i \in 1..Len(q) |-> L(q[i])] \in Seq(S) /\ Len([i \in 1..Len(q) |-> L(q[i])]) = Len(q)
    BY <1>1, <2>1, IsASeq
  <2> QED
    BY <1>1, <1>2, <2>2
<1> QED
  BY <1>1, <1>2, <1>4, <1>5, <1>6

\* The client of a step's request is the one that Fits it.
LEMMA ClientFits ==
  ASSUME NEW x \in Steps, ClientOf(x) # "none"
  PROVE  Fits(x, ClientOf(x)) /\ ClientOf(x) \in Peers
<1>1. /\ x.op \in {"sync"} \union {"getid", "release"} \union CallOps
           \union {"redial", "dial", "connected", "ended"} \union {"mode"} \union PlainOps
      /\ x.op \in CallOps => x.arg \in Both
  BY DEF Steps, CallOps, PlainOps
<1>2. CASE x.op \in {"sync", "version", "getid", "release"}
  BY <1>2 DEF ClientOf, Fits, CtlOps, Peers
<1>3. CASE x.op = "reg"
  BY <1>3 DEF ClientOf, Fits, Peers, Clients
<1>4. CASE x.op \in {"format", "sim", "mode"}
  BY <1>4 DEF ClientOf, Fits, Peers, Clients
<1>5. CASE x.op \in CallOps
  <2>1. x.arg \in Both /\ (ClientOf(x) = x.arg \/ ClientOf(x) = "none")
    BY <1>1, <1>5 DEF ClientOf, CallOps
  <2> QED
    BY <1>5, <2>1 DEF Fits, Peers, Clients
<1> QED
  <2>1. x.op \notin CtlOps \union CallOps \union {"reg", "format", "sim", "mode"} => ClientOf(x) = "none"
    BY DEF ClientOf, CtlOps, CallOps
  <2> QED
    BY <1>2, <1>3, <1>4, <1>5, <2>1 DEF CtlOps

\* BaseInv holds after a step that keeps the types, main's steps and what is in the pipes.
LEMMA SameSteps ==
  ASSUME BaseInv, todo' = todo, evq' = evq, rd' = rd, sigq # <<>> => sigq' # <<>>,
         pc' = pc \/ (pc \in {"run", "wait"} /\ pc' \in {"run", "wait"}),
         Types'
  PROVE  BaseInv'
<1>1. Handler' /\ Pending'
  BY DEF BaseInv, Handler, Pending
<1>2. Lives' /\ Rests'
  BY DEF BaseInv, Lives, Rests
<1> QED
  BY <1>1, <1>2 DEF BaseInv

\* Sending a request, and taking its result, keeps BaseInv.
LEMMA RequestBase ==
  ASSUME BaseInv, SendNothing \/ Send \/ Wake \/ Timeout \/ TooLate
  PROVE  BaseInv'
<1>1. Types /\ TypeOK /\ PipeTypes
  BY DEF BaseInv, Types
<1>2. CASE SendNothing
  <2>1. /\ res' = "nodev" /\ d' = d /\ m' = m /\ inq' = inq /\ outq' = outq /\ rd' = rd /\ pc' = pc
        /\ req' = req /\ rsp' = rsp /\ woken' = woken /\ faults' = faults /\ term' = term
        /\ sigq' = sigq /\ evq' = evq /\ cmdq' = cmdq /\ todo' = todo
    BY <1>2 DEF SendNothing, cond, modem, env, pipes
  <2>2. Types'
    BY <1>1, <2>1 DEF Types, TypeOK, PipeTypes
  <2> QED
    BY <2>1, <2>2, SameSteps
<1>3. CASE Send
  <2> DEFINE c == ClientOf(Here)
             r == [s |-> Here, c |-> c, age |-> 0, own |-> TRUE]
  <2>1. /\ d' = d /\ m' = m /\ outq' = Later(outq, c) /\ rd' = rd
        /\ req' = c /\ rsp' = NoAnswer /\ woken' = FALSE /\ faults' = faults /\ term' = term
        /\ sigq' = sigq /\ evq' = evq /\ cmdq' = cmdq /\ todo' = todo
        /\ pc = "run" /\ pc' \in {"run", "wait"} /\ res' \in {res, "nodev", "rej"}
        /\ inq' = Append(Later(inq, c), r) \/ inq' = Later(inq, c)
        /\ c # "none" /\ todo # <<>>
    BY <1>3 DEF Send, env, pipes, Asks
  <2>2. Here \in Steps
    BY <1>1, <2>1, HereOf
  <2>3. Fits(Here, c) /\ c \in Peers
    BY <2>1, <2>2, ClientFits
  <2> HIDE DEF c
  <2>4. r \in Requests
    <3>1. 0 \in Ages /\ TRUE \in BOOLEAN
      BY DialerAssumption DEF Ages
    <3> QED
      BY <2>2, <2>3, <3>1 DEF Requests
  <2> HIDE DEF r
  <2>5. inq \in Seq(Requests) /\ outq \in Seq(Messages)
    BY <1>1 DEF Types
  <2>6. Later(inq, c) \in Seq(Requests) /\ Later(outq, c) \in Seq(Messages)
    BY <2>5, LaterOf
  <2>7. inq' \in Seq(Requests)
    BY <2>1, <2>4, <2>6, AppendOf
  <2>8. TypeOK'
    <3>1. woken' \in BOOLEAN
      BY <2>1, Zenon
    <3>2. req' \in {"none", "ctl"} \union Clients
      BY <2>1, <2>3 DEF Peers
    <3> QED
      BY <1>1, <2>1, <3>1, <3>2 DEF TypeOK
  <2>9. Types'
    BY <1>1, <2>1, <2>6, <2>7, <2>8 DEF Types, PipeTypes
  <2> QED
    BY <2>1, <2>9, SameSteps
<1>4. CASE Wake
  <2>1. /\ d' = d /\ m' = m /\ inq' = inq /\ outq' = outq /\ rd' = rd /\ pc = "wait" /\ pc' = "run"
        /\ req' = req /\ rsp' = NoAnswer /\ woken' = FALSE /\ faults' = faults /\ term' = term
        /\ sigq' = sigq /\ evq' = evq /\ cmdq' = cmdq /\ todo' = todo
        /\ res' = IF rsp = NoAnswer THEN "abort" ELSE rsp.a
    BY <1>4 DEF Wake, modem, env, pipes
  <2>2. res' \in Results \union {"abort"}
    BY <1>1, <2>1 DEF Types
  <2>3. TypeOK'
    <3>1. woken' \in BOOLEAN
      BY <2>1, Zenon
    <3> QED
      BY <1>1, <2>1, <2>2, <3>1 DEF TypeOK, Results
  <2>4. Types'
    BY <1>1, <2>1, <2>3 DEF Types, PipeTypes
  <2> QED
    BY <2>1, <2>4, SameSteps
<1>5. CASE Timeout \/ TooLate
  <2>1. /\ d' = d /\ m' = m /\ inq' = inq /\ outq' = outq /\ rd' = rd /\ pc = "wait" /\ pc' = "run"
        /\ req' = req /\ rsp' = rsp /\ woken' = FALSE /\ term' = term
        /\ sigq' = sigq /\ evq' = evq /\ cmdq' = cmdq /\ todo' = todo /\ res' = "timeout"
        /\ faults' = faults \/ (faults < MaxFaults /\ faults' = faults + 1)
    BY <1>5 DEF GiveUp, Timeout, TooLate, Fault, modem, env, pipes
  <2>2. faults' \in 0..MaxFaults
    BY <1>1, <2>1, DialerAssumption DEF TypeOK
  <2>3. TypeOK'
    <3>1. woken' \in BOOLEAN
      BY <2>1, Zenon
    <3> QED
      BY <1>1, <2>1, <2>2, <3>1 DEF TypeOK
  <2>4. Types'
    BY <1>1, <2>1, <2>3 DEF Types, PipeTypes
  <2> QED
    BY <2>1, <2>4, SameSteps
<1> QED
  BY <1>2, <1>3, <1>4, <1>5

\* The end of main keeps BaseInv.
LEMMA EndBase ==
  ASSUME BaseInv, Quit \/ Leave \/ Join
  PROVE  BaseInv'
<1>1. Types /\ TypeOK /\ PipeTypes /\ Lives /\ d \in Globals
  BY DEF BaseInv, Types
<1>2. CASE Quit
  <2>1. /\ d' = [d EXCEPT !.link = 0] /\ m' = m /\ inq' = inq /\ outq' = outq /\ rd' = rd /\ pc' = "join"
        /\ req' = req /\ rsp' = rsp /\ woken' = woken /\ faults' = faults /\ term' = term /\ res' = res
        /\ sigq' = sigq /\ evq' = evq /\ cmdq' = Append(cmdq, "QUIT") /\ todo' = <<>> /\ pc = "run"
    BY <1>2 DEF Quit, At, cond, modem, env
  <2>2. d' \in Globals
    <3>1. 0 \in -1..1
      OBVIOUS
    <3> QED
      BY <1>1, <2>1, <3>1 DEF Globals
  <2>3. PipeTypes'
    <3> DEFINE S == {"QUIT", "TERM"}
    <3>1. cmdq \in Seq(S) /\ "QUIT" \in S
      BY <1>1 DEF PipeTypes
    <3> HIDE DEF S
    <3>2. cmdq' \in Seq(S)
      BY <2>1, <3>1, AppendOf
    <3> QED
      BY <1>1, <2>1, <3>2 DEF PipeTypes, S
  <2>4. TypeOK'
    BY <1>1, <2>1, <2>2, TypeOKOf DEF TypeOK, Types
  <2>5. Types'
    BY <1>1, <2>1, <2>2, <2>3, <2>4 DEF Types
  <2>6. Handler' /\ Pending' /\ Rests'
    BY <2>1 DEF Handler, Pending, Rests
  <2>7. Lives'
    BY <1>1, <2>1 DEF Lives
  <2> QED
    BY <2>5, <2>6, <2>7 DEF BaseInv
<1>3. CASE Leave
  <2>1. /\ d' = d /\ m' = m /\ inq' = inq /\ outq' = outq /\ rd' = rd /\ pc' = "join"
        /\ req' = req /\ rsp' = rsp /\ woken' = woken /\ faults' = faults /\ term' = term /\ res' = res
        /\ sigq' = sigq /\ evq' = evq /\ cmdq' = cmdq /\ todo' = When(d.loop, <<Do("again")>>) /\ pc = "run"
        /\ todo # <<>> /\ Here.op = "leave"
    BY <1>3 DEF Leave, At, cond, modem, env, pipes
  <2>2. rd \in {"told", "exited"} /\ evq = <<>>
    <3>1. 1 \in DOMAIN todo /\ todo[1].op = "leave"
      BY <1>1, <2>1, HereOf
    <3> QED
      BY <1>1, <3>1 DEF Lives
  <2>3. todo' = <<>> \/ todo' = <<Do("again")>>
    BY <2>1 DEF When
  <2>4. Do("again") \in Steps /\ Do("again").op = "again"
    BY DEF Do, Step, Steps, PlainOps
  <2>5. todo' \in Seq(Steps) /\ \A i \in DOMAIN todo' : i = 1 /\ todo'[i].op = "again"
    <3>1. CASE todo' = <<>>
      BY <3>1
    <3> DEFINE x == Do("again")
    <3>2. x \in Steps /\ x.op = "again"
      BY <2>4
    <3> HIDE DEF x
    <3>3. CASE todo' = <<x>>
      BY <3>2, <3>3
    <3> QED
      BY <2>3, <3>1, <3>3 DEF x
  <2>6. Types'
    BY <1>1, <2>1, <2>5 DEF Types, TypeOK, PipeTypes
  <2>7. Handler'
    BY <2>3, <2>4 DEF Handler, DialOps
  <2>8. Pending' /\ Rests'
    BY <2>1, <2>5 DEF Pending, Rests
  <2>9. Lives'
    BY <1>1, <2>1, <2>2, <2>5 DEF Lives
  <2> QED
    BY <2>6, <2>7, <2>8, <2>9 DEF BaseInv
<1>4. CASE Join
  <2>1. /\ d' = d /\ m' = m /\ inq' = inq /\ outq' = outq /\ rd' = rd /\ pc = "join" /\ rd = "exited"
        /\ req' = req /\ rsp' = rsp /\ woken' = woken /\ faults' = faults /\ term' = term /\ res' = res
        /\ sigq' = sigq /\ evq' = evq /\ cmdq' = cmdq /\ todo' = <<>>
        /\ pc' = IF todo = <<>> THEN "exited" ELSE "detect"
    BY <1>4 DEF Join, cond, modem, env, pipes
  <2>2. Types'
    BY <1>1, <2>1 DEF Types, TypeOK, PipeTypes
  <2>3. Handler' /\ Pending' /\ Rests'
    BY <2>1 DEF Handler, Pending, Rests
  <2>4. Lives'
    BY <1>1, <2>1 DEF Lives
  <2> QED
    BY <2>2, <2>3, <2>4 DEF BaseInv
<1> QED
  BY <1>2, <1>3, <1>4

\* SIGTERM and the timers keep BaseInv.
LEMMA SignalBase ==
  ASSUME BaseInv, Sigterm \/ Sigalrm \/ Elapse
  PROVE  BaseInv'
<1>1. Types /\ TypeOK /\ PipeTypes /\ d \in Globals
  BY DEF BaseInv, Types
<1> DEFINE S == {"USR1", "USR2", "TERM"}
           C == {"QUIT", "TERM"}
<1>2. sigq \in Seq(S) /\ cmdq \in Seq(C) /\ "TERM" \in S /\ "TERM" \in C /\ "USR1" \in S
  BY <1>1 DEF PipeTypes
<1> HIDE DEF S, C
<1>3. /\ m' = m /\ inq' = inq /\ outq' = outq /\ rd' = rd /\ pc' = pc /\ todo' = todo
      /\ req' = req /\ rsp' = rsp /\ woken' = woken /\ faults' = faults /\ res' = res /\ evq' = evq
      /\ sigq' = sigq \/ sigq' = Append(sigq, "TERM") \/ sigq' = Append(sigq, "USR1")
      /\ cmdq' = cmdq \/ cmdq' = Append(cmdq, "TERM")
      /\ term' = term \/ term' = TRUE
      /\ \/ d' = [d EXCEPT !.loop = FALSE] \/ d' = [d EXCEPT !.alarm = FALSE]
         \/ d' = [d EXCEPT !.fail = "late"]
  BY DEF Sigterm, Sigalrm, Elapse, cond, modem, env, pipes
<1>4. d' \in Globals
  <2>1. \A b \in BOOLEAN : [d EXCEPT !.loop = b] \in Globals /\ [d EXCEPT !.alarm = b] \in Globals
    BY <1>1 DEF Globals
  <2>2. [d EXCEPT !.fail = "late"] \in Globals
    BY <1>1 DEF Globals
  <2>3. FALSE \in BOOLEAN
    OBVIOUS
  <2>4. [d EXCEPT !.loop = FALSE] \in Globals /\ [d EXCEPT !.alarm = FALSE] \in Globals
    BY <2>1, <2>3, Zenon
  <2> QED
    BY <1>3, <2>2, <2>4, Zenon
<1>5. sigq' \in Seq(S) /\ cmdq' \in Seq(C) /\ (sigq # <<>> => sigq' # <<>>)
  <2>1. sigq' \in Seq(S) /\ cmdq' \in Seq(C)
    <3>1. Append(sigq, "TERM") \in Seq(S) /\ Append(sigq, "USR1") \in Seq(S) /\ Append(cmdq, "TERM") \in Seq(C)
      BY <1>2, AppendOf
    <3> QED
      BY <1>2, <1>3, <3>1, Zenon
  <2>2. Append(sigq, "TERM") # <<>> /\ Append(sigq, "USR1") # <<>>
    BY <1>2, AppendProperties
  <2> QED
    BY <1>3, <2>1, <2>2
<1>6. PipeTypes'
  BY <1>1, <1>3, <1>5 DEF PipeTypes, S, C
<1>7. TypeOK'
  <2>1. term' \in BOOLEAN
    BY <1>1, <1>3, Zenon DEF TypeOK
  <2> QED
    BY <1>1, <1>3, <1>4, <2>1, TypeOKOf DEF TypeOK, Types
<1>8. Types'
  BY <1>1, <1>3, <1>4, <1>6, <1>7 DEF Types
<1> QED
  BY <1>3, <1>5, <1>8, SameSteps

\* BaseInv holds after a step that main does not take, if it keeps the types and the life of the
\* reader, and takes no event away.
LEMMA SameMain ==
  ASSUME BaseInv, todo' = todo, pc' = pc, sigq' = sigq, evq # <<>> => evq' # <<>>, Types', Lives'
  PROVE  BaseInv'
  BY DEF BaseInv, Handler, Pending, Rests

\* What the reader does to the request, and its own state, have their types.
LEMMA ReaderTypes ==
  ASSUME Types,
         \/ UNCHANGED cond
         \/ /\ req' = "none" /\ woken' = (pc = "wait")
            /\ rsp' \in [a : Results, own : BOOLEAN] \union {NoAnswer},
         rd' \in {"none", "open", "poll", "closed", "told", "exited"},
         evq' \in Seq({"connected", "gone", "net", "call"}), cmdq' \in Seq({"QUIT", "TERM"}),
         outq' \in Seq(Messages),
         UNCHANGED <<pc, todo, res, sigq, d, m, inq, env>>
  PROVE  Types'
<1>1. TypeOK /\ PipeTypes
  BY DEF Types
<1>2. faults' = faults /\ term' = term
  BY DEF env
<1>3. req' \in {"none", "ctl"} \union Clients
  BY <1>1 DEF TypeOK, cond
<1>4. woken' \in BOOLEAN
  <2>1. (pc = "wait") \in BOOLEAN
    BY Zenon
  <2>2. woken' = woken \/ woken' = (pc = "wait")
    BY DEF cond
  <2> QED
    BY <1>1, <2>1, <2>2, Zenon DEF TypeOK
<1>5. rsp' \in [a : Results, own : BOOLEAN] \union {NoAnswer}
  BY DEF Types, cond
<1>6. TypeOK'
  BY <1>1, <1>2, <1>3, <1>4 DEF TypeOK
<1> QED
  BY <1>1, <1>5, <1>6 DEF Types, PipeTypes

\* What the reader tells main has its type.
LEMMA ReadsTypes ==
  ASSUME Types, NEW e \in {"none", "connected", "gone", "net", "call"}, Reads(e)
  PROVE  /\ evq' \in Seq({"connected", "gone", "net", "call"}) /\ evq \in Seq({"connected", "gone", "net", "call"})
         /\ evq # <<>> => evq' # <<>>
         /\ e = "none" => evq' = evq
         /\ DOMAIN evq = 1..Len(evq) /\ Len(evq) \in Nat
         /\ e # "none" => /\ Len(evq') = Len(evq) + 1 /\ evq'[Len(evq) + 1] = e
                          /\ DOMAIN evq' = 1..(Len(evq) + 1)
                          /\ \A i \in 1..Len(evq) : evq'[i] = evq[i]
                          /\ evq' # <<>>
<1> DEFINE P == {"connected", "gone", "net", "call"}
<1>1. evq \in Seq(P)
  BY DEF Types, PipeTypes
<1>2. evq' = IF e = "none" THEN evq ELSE Append(evq, e)
  BY DEF Reads
<1>3. e # "none" => e \in P
  OBVIOUS
<1> HIDE DEF P
<1>4. DOMAIN evq = 1..Len(evq) /\ Len(evq) \in Nat
  BY <1>1
<1>5. CASE e = "none"
  BY <1>1, <1>2, <1>4, <1>5 DEF P
<1>6. CASE e # "none"
  <2>1. evq' = Append(evq, e) /\ e \in P
    BY <1>2, <1>3, <1>6
  <2>2. /\ Append(evq, e) \in Seq(P) /\ Len(Append(evq, e)) = Len(evq) + 1
        /\ DOMAIN Append(evq, e) = 1..(Len(evq) + 1) /\ Append(evq, e)[Len(evq) + 1] = e
        /\ \A i \in 1..Len(evq) : Append(evq, e)[i] = evq[i]
    BY <1>1, <2>1, AppendOf
  <2>3. Append(evq, e) # <<>>
    BY <1>1, <2>1, AppendProperties
  <2>4. evq' \in Seq(P)
    BY <2>1, <2>2
  <2>5. evq' \in Seq({"connected", "gone", "net", "call"}) /\ evq \in Seq({"connected", "gone", "net", "call"})
    BY <1>1, <2>4 DEF P
  <2>6. /\ Len(evq') = Len(evq) + 1 /\ evq'[Len(evq) + 1] = e /\ DOMAIN evq' = 1..(Len(evq) + 1)
        /\ \A i \in 1..Len(evq) : evq'[i] = evq[i]
        /\ evq' # <<>>
    BY <2>1, <2>2, <2>3
  <2> QED
    BY <1>4, <1>6, <2>5, <2>6, Zenon
<1> QED
  BY <1>5, <1>6, Zenon

\* The steps of the reader keep BaseInv: it tells of the modem first, and of its end last.
LEMMA ReaderBase ==
  ASSUME BaseInv, Open \/ ReadCmd \/ RecvQMI \/ Hangup \/ TellGone \/ Exit
  PROVE  BaseInv'
<1>1. Types /\ TypeOK /\ PipeTypes /\ Lives /\ Rests
  BY DEF BaseInv, Types
<1>2. evq \in Seq({"connected", "gone", "net", "call"}) /\ cmdq \in Seq({"QUIT", "TERM"}) /\ outq \in Seq(Messages)
  BY <1>1 DEF Types, PipeTypes
<1>3. RecvNull => \/ UNCHANGED cond
                  \/ /\ req' = "none" /\ woken' = (pc = "wait")
                     /\ rsp' \in [a : Results, own : BOOLEAN] \union {NoAnswer}
  BY DEF RecvNull
<1>4. CASE Open
  <2> DEFINE e == IF m.plugged THEN "connected" ELSE "gone"
  <2>1. Reads(e) /\ UNCHANGED cond /\ cmdq' = cmdq /\ outq' = outq /\ rd = "open"
        /\ rd' = IF m.plugged THEN "poll" ELSE "exited"
    BY <1>4 DEF Open
  <2>2. e \in {"none", "connected", "gone", "net", "call"} /\ e # "none"
        /\ (e = "gone" => rd' = "exited") /\ rd' \in {"poll", "exited"} /\ e \in {"connected", "gone"}
    BY <2>1
  <2> HIDE DEF e
  <2>3. UNCHANGED <<pc, todo, res, sigq, d, m, inq, env>>
    BY <2>1 DEF Reads
  <2>4. /\ evq' \in Seq({"connected", "gone", "net", "call"})
        /\ DOMAIN evq = 1..Len(evq) /\ Len(evq) \in Nat
        /\ Len(evq') = Len(evq) + 1 /\ evq'[Len(evq) + 1] = e
        /\ DOMAIN evq' = 1..(Len(evq) + 1)
        /\ evq' # <<>>
    BY <1>1, <2>1, <2>2, ReadsTypes, Zenon
  <2>5. Types'
    BY <1>1, <1>2, <2>1, <2>2, <2>3, <2>4, ReaderTypes
  <2>6. pc = "connect" /\ evq = <<>> /\ todo = <<>>
    BY <1>1, <2>1 DEF Lives, Rests
  <2>7. Len(evq) = 0
    BY <2>6
  <2>8. DOMAIN evq' = 1..1 /\ evq'[1] = e /\ Len(evq') = 1
    BY <2>4, <2>7
  <2>9. Lives'
    BY <2>2, <2>3, <2>4, <2>6, <2>8 DEF Lives
  <2> QED
    BY <2>3, <2>4, <2>5, <2>9, SameMain
<1>5. CASE ReadCmd
  <2>1. Reads("none") /\ outq' = outq /\ cmdq # <<>> /\ cmdq' = Tail(cmdq) /\ rd = "poll"
        /\ rd' \in {"poll", "closed"} /\ (UNCHANGED cond \/ RecvNull)
    BY <1>5 DEF ReadCmd
  <2>2. evq' = evq
    BY <2>1 DEF Reads
  <2>3. UNCHANGED <<pc, todo, res, sigq, d, m, inq, env>>
    BY <2>1 DEF Reads
  <2>4. cmdq' \in Seq({"QUIT", "TERM"})
    BY <1>2, <2>1, TailOf
  <2>5. Types'
    BY <1>1, <1>2, <1>3, <2>1, <2>2, <2>3, <2>4, ReaderTypes
  <2>6. Lives'
    BY <1>1, <2>1, <2>2, <2>3 DEF Lives
  <2> QED
    BY <2>2, <2>3, <2>5, <2>6, SameMain
<1>6. CASE RecvQMI
  <2> DEFINE a == Head(outq)
  <2>1. /\ outq # <<>> /\ outq' = Tail(outq) /\ rd = "poll" /\ rd' = "poll" /\ cmdq' = cmdq
        /\ \/ is_response(a) /\ Reads("none") /\ req' = "none" /\ woken' = (pc = "wait")
              /\ rsp' = [a |-> a.a, own |-> a.own]
           \/ ~is_response(a) /\ Reads(IF a.age < 0 THEN a.a ELSE "none") /\ UNCHANGED cond
    BY <1>6 DEF RecvQMI
  <2>2. a \in Messages /\ outq' \in Seq(Messages)
    BY <1>2, <2>1, TailOf
  <2> HIDE DEF a
  <2>3. a.age < 0 => a.a \in {"net", "call"}
    <3>1. a \in [a : Results, c : Peers, age : Ages, own : BOOLEAN] => ~(a.age < 0)
      BY DialerAssumption DEF Ages
    <3> QED
      BY <2>2, <3>1 DEF Messages
  <2>4. is_response(a) => [a |-> a.a, own |-> a.own] \in [a : Results, own : BOOLEAN]
    <3>1. is_response(a) => a.age = 0 /\ a.age # -1
      BY DEF is_response
    <3>2. is_response(a) => a \in [a : Results, c : Peers, age : Ages, own : BOOLEAN]
      BY <2>2, <3>1 DEF Messages
    <3> QED
      BY <3>2
  <2>5. PICK e \in {"none", "net", "call"} : Reads(e)
    <3>1. \E e \in {"none", "net", "call"} : Reads(e)
      <4>1. CASE is_response(a)
        BY <2>1, <4>1
      <4>2. CASE ~is_response(a)
        <5>1. (IF a.age < 0 THEN a.a ELSE "none") \in {"none", "net", "call"}
          BY <2>3
        <5> QED
          BY <2>1, <4>2, <5>1
      <4> QED
        BY <4>1, <4>2
    <3> QED
      BY <3>1
  <2>6. UNCHANGED <<pc, todo, res, sigq, d, m, inq, env>>
    BY <2>5 DEF Reads
  <2>7. e \in {"none", "connected", "gone", "net", "call"}
    OBVIOUS
  <2>8. /\ evq' \in Seq({"connected", "gone", "net", "call"})
        /\ evq # <<>> => evq' # <<>>
        /\ e = "none" => evq' = evq
        /\ DOMAIN evq = 1..Len(evq) /\ Len(evq) \in Nat
        /\ e # "none" => /\ Len(evq') = Len(evq) + 1 /\ evq'[Len(evq) + 1] = e
                         /\ DOMAIN evq' = 1..(Len(evq) + 1)
                         /\ \A i \in 1..Len(evq) : evq'[i] = evq[i]
    BY <1>1, <2>5, <2>7, ReadsTypes
  <2>9. Types'
    <3>1. \/ UNCHANGED cond
          \/ /\ req' = "none" /\ woken' = (pc = "wait")
             /\ rsp' \in [a : Results, own : BOOLEAN] \union {NoAnswer}
      BY <2>1, <2>4
    <3> QED
      BY <1>1, <1>2, <2>1, <2>2, <2>6, <2>8, <3>1, ReaderTypes
  <2>10. Lives'
    <3>1. CASE e = "none"
      BY <1>1, <2>1, <2>6, <2>8, <3>1 DEF Lives
    <3>2. CASE e # "none"
      <4>1. \A i \in DOMAIN evq' : evq'[i] = "gone" => FALSE
        BY <1>1, <2>1, <2>8, <3>2 DEF Lives
      <4>2. \A i \in DOMAIN evq' : evq'[i] = "connected" => i = 1 /\ pc = "connect"
        BY <1>1, <2>1, <2>8, <3>2 DEF Lives
      <4>3. pc = "connect" => evq' # <<>> /\ evq'[1] \in {"connected", "gone"}
        <5>1. pc = "connect" => evq # <<>> /\ evq[1] \in {"connected", "gone"}
          BY <1>1, <2>1 DEF Lives
        <5>2. evq # <<>> => 1 \in 1..Len(evq)
          BY <1>2, EmptySeq
        <5> QED
          BY <2>8, <3>2, <5>1, <5>2
      <4> QED
        BY <1>1, <2>1, <2>6, <4>1, <4>2, <4>3 DEF Lives
    <3> QED
      BY <3>1, <3>2
  <2> QED
    BY <2>6, <2>8, <2>9, <2>10, SameMain
<1>7. CASE Hangup
  <2>1. Reads("none") /\ outq' = outq /\ cmdq' = cmdq /\ rd = "poll" /\ rd' = "closed" /\ UNCHANGED cond
    BY <1>7 DEF Hangup
  <2>2. evq' = evq
    BY <2>1 DEF Reads
  <2>3. UNCHANGED <<pc, todo, res, sigq, d, m, inq, env>>
    BY <2>1 DEF Reads
  <2>4. Types'
    BY <1>1, <1>2, <2>1, <2>2, <2>3, ReaderTypes
  <2>5. Lives'
    BY <1>1, <2>1, <2>2, <2>3 DEF Lives
  <2> QED
    BY <2>2, <2>3, <2>4, <2>5, SameMain
<1>8. CASE TellGone
  <2>1. Reads("gone") /\ outq' = outq /\ cmdq' = cmdq /\ rd = "closed" /\ rd' = "told" /\ UNCHANGED cond
    BY <1>8 DEF TellGone
  <2>2. UNCHANGED <<pc, todo, res, sigq, d, m, inq, env>>
    BY <2>1 DEF Reads
  <2>3. /\ evq' \in Seq({"connected", "gone", "net", "call"})
        /\ evq # <<>> => evq' # <<>>
        /\ DOMAIN evq = 1..Len(evq) /\ Len(evq) \in Nat
        /\ Len(evq') = Len(evq) + 1 /\ evq'[Len(evq) + 1] = "gone"
        /\ DOMAIN evq' = 1..(Len(evq) + 1)
        /\ \A i \in 1..Len(evq) : evq'[i] = evq[i]
    <3>1. "gone" \in {"none", "connected", "gone", "net", "call"} /\ "gone" # "none"
      OBVIOUS
    <3> QED
      BY <1>1, <2>1, <3>1, ReadsTypes, Zenon
  <2>4. Types'
    BY <1>1, <1>2, <2>1, <2>2, <2>3, ReaderTypes
  <2>5. Lives'
    <3>1. \A i \in DOMAIN evq' : evq'[i] = "gone" => i = Len(evq')
      BY <1>1, <2>1, <2>3 DEF Lives
    <3>2. \A i \in DOMAIN evq' : evq'[i] = "connected" => i = 1 /\ pc = "connect"
      BY <1>1, <2>1, <2>3 DEF Lives
    <3>3. pc = "connect" => evq' # <<>> /\ evq'[1] \in {"connected", "gone"}
      <4>1. pc = "connect" => evq # <<>> /\ evq[1] \in {"connected", "gone"}
        BY <1>1, <2>1 DEF Lives
      <4>2. evq # <<>> => 1 \in 1..Len(evq)
        BY <1>2, EmptySeq
      <4> QED
        BY <2>3, <4>1, <4>2
    <3> QED
      BY <1>1, <2>1, <2>2, <3>1, <3>2, <3>3 DEF Lives
  <2> QED
    BY <2>2, <2>3, <2>4, <2>5, SameMain
<1>9. CASE Exit
  <2>1. Reads("none") /\ outq' = outq /\ cmdq' = cmdq /\ rd = "told" /\ rd' = "exited" /\ RecvNull
    BY <1>9 DEF Exit
  <2>2. evq' = evq
    BY <2>1 DEF Reads
  <2>3. UNCHANGED <<pc, todo, res, sigq, d, m, inq, env>>
    BY <2>1 DEF Reads
  <2>4. Types'
    BY <1>1, <1>2, <1>3, <2>1, <2>2, <2>3, ReaderTypes
  <2>5. Lives'
    BY <1>1, <2>1, <2>2, <2>3 DEF Lives
  <2> QED
    BY <2>2, <2>3, <2>4, <2>5, SameMain
<1> QED
  BY <1>4, <1>5, <1>6, <1>7, <1>8, <1>9

-----------------------------------------------------------------------------
(* The modem.                                                               *)

\* The calls without those of C: none begins.
LEMMA HungOf ==
  ASSUME m \in Modems, NEW C
  PROVE  Hung(C) \in [Both -> BOOLEAN] /\ \A f \in Both : Hung(C)[f] => m.call[f] /\ f \notin C
<1>1. \A f \in Both : (m.call[f] /\ f \notin C) \in BOOLEAN
  BY Zenon
<1> QED
  BY <1>1 DEF Hung

\* What the modem makes of a request s of client c: it loses its clients and calls; it
\* knows one more client; it forgets one; the radio is switched; a call ends; one
\* begins; or nothing changes.
Outcome(c, s, e) ==
  \/ /\ s.op = "sync" /\ e.a = "ok"
     /\ e.n = [m EXCEPT !.cid = All(Clients, FALSE), !.call = All(Both, FALSE)]
  \/ /\ s.op = "getid" /\ s.arg \in Clients /\ e.a = "ok"
     /\ e.n = [m EXCEPT !.cid[s.arg] = TRUE]
  \/ /\ s.op = "release" /\ s.arg \in Clients /\ e.a = "ok"
     /\ e.n = [m EXCEPT !.cid[s.arg] = FALSE, !.call = Hung({s.arg})]
  \/ /\ s.op = "mode" /\ e.a = "ok"
     /\ \/ e.n = [m EXCEPT !.lpm = FALSE]
        \/ e.n = [m EXCEPT !.lpm = TRUE, !.reg = FALSE, !.call = Hung(Both)]
  \/ /\ s.op = "stop" /\ e.a \in Results
     /\ e.n = [m EXCEPT !.call = Hung({c})]
  \/ /\ s.op \in {"setup", "setup2"} /\ c \in Both /\ c = s.arg /\ m.cid[c] /\ e.a = "ok"
     /\ \E x \in Addrs : e.n = [m EXCEPT !.call[c] = TRUE, !.addr[c] = x]
  \/ /\ s.op \notin {"sync", "getid"} /\ (s.op = "release" => s.arg = "v6")
     /\ e.n = m /\ e.a \in Results

\* The answer of the modem to a request, and its new state, are one of these outcomes.
LEMMA EffectOf ==
  ASSUME NEW s \in Steps, NEW c, Fits(s, c), NEW e \in Effect(c, s)
  PROVE  Outcome(c, s, e)
<1>1. s.op \in {"getid", "release"} => s.arg \in Clients
  BY DEF Steps, CallOps, PlainOps
<1>2. s.op \notin {"sync", "getid", "release"} /\ e.n = m /\ e.a \in Results => Outcome(c, s, e)
  <2>1. s.op \notin {"sync", "getid", "release"} => s.op \notin {"sync", "getid"} /\ s.op # "release"
    OBVIOUS
  <2> QED
    BY <2>1, Zenon DEF Outcome
<1>3. {"ok", "rej", "unsup", "up", "down", "att", "det"} = Results
  BY DEF Results
<1>4. CASE s.op \in CtlOps
  <2>1. c = "ctl"
    BY <1>4 DEF Fits, CtlOps, CallOps
  <2>2. e \in CtlEffect(s)
    BY <2>1 DEF Effect
  <2>3. CASE s.op = "sync"
    <3>1. CtlEffect(s) = {[a |-> "ok", n |-> [m EXCEPT !.cid = All(Clients, FALSE), !.call = All(Both, FALSE)]]}
      BY <2>3 DEF CtlEffect
    <3> QED
      BY <2>2, <2>3, <3>1 DEF Outcome
  <2>4. CASE s.op = "getid"
    <3>1. CtlEffect(s) = {[a |-> "ok", n |-> [m EXCEPT !.cid[s.arg] = TRUE]]}
      BY <2>4 DEF CtlEffect
    <3> QED
      BY <1>1, <2>2, <2>4, <3>1 DEF Outcome
  <2>5. CASE s.op = "release" /\ s.arg = "v6"
    <3>1. CtlEffect(s) = {[a |-> "rej", n |-> m]}
      BY <2>5 DEF CtlEffect
    <3> QED
      BY <1>3, <2>2, <2>5, <3>1 DEF Outcome
  <2>6. CASE s.op = "release" /\ s.arg # "v6"
    <3>1. CtlEffect(s) = {[a |-> "ok", n |-> [m EXCEPT !.cid[s.arg] = FALSE, !.call = Hung({s.arg})]]}
      BY <2>6 DEF CtlEffect
    <3> QED
      BY <1>1, <2>2, <2>6, <3>1 DEF Outcome
  <2>7. CASE s.op = "version"
    <3>1. CtlEffect(s) = {[a |-> "ok", n |-> m]}
      BY <2>7 DEF CtlEffect
    <3> QED
      BY <1>2, <1>3, <2>2, <2>7, <3>1
  <2> QED
    BY <1>4, <2>3, <2>4, <2>5, <2>6, <2>7 DEF CtlOps
<1>5. CASE s.op \notin CtlOps
  <2>1. /\ c \in Clients /\ (s.op \in CallOps => c \in Both /\ c = s.arg)
        /\ s.op \in {"reg", "format", "sim", "mode"} \union CallOps
    BY <1>5 DEF Fits, Clients, CallOps, Both
  <2>2. c # "ctl" /\ s.op \notin {"sync", "getid", "release"}
    BY <1>5, <2>1 DEF Clients, Both, CtlOps
  <2>3. CASE ~m.cid[c]
    <3>1. Effect(c, s) = {[a |-> "rej", n |-> m]}
      BY <2>2, <2>3 DEF Effect
    <3> QED
      BY <1>2, <1>3, <2>2, <3>1
  <2>4. CASE m.cid[c]
    <3>1. e \in ClientEffect(c, s)
      BY <2>2, <2>4 DEF Effect
    <3>2. CASE s.op = "format"
      <4>1. ClientEffect(c, s) = {[a |-> "ok", n |-> m]}
        BY <3>2 DEF ClientEffect
      <4> QED
        BY <1>2, <1>3, <2>2, <3>1, <4>1
    <3>3. CASE s.op = "reg"
      <4>1. ClientEffect(c, s) = {[a |-> IF m.reg THEN "att" ELSE "det", n |-> m]}
        BY <3>3 DEF ClientEffect
      <4> QED
        BY <1>2, <1>3, <2>2, <3>1, <4>1
    <3>9. CASE s.op = "sim"
      <4>1. ClientEffect(c, s) = {[a |-> IF m.sim THEN "ok" ELSE "unsup", n |-> m]}
        BY <3>9 DEF ClientEffect
      <4> QED
        BY <1>2, <1>3, <2>2, <3>1, <4>1
    <3>4. CASE s.op = "mode"
      <4>1. ClientEffect(c, s) =
              {[a |-> "ok", n |-> IF s.arg = "on" THEN [m EXCEPT !.lpm = FALSE]
                                  ELSE [m EXCEPT !.lpm = TRUE, !.reg = FALSE, !.call = Hung(Both)]]}
        BY <3>4 DEF ClientEffect
      <4> QED
        BY <3>1, <3>4, <4>1 DEF Outcome
    <3>5. CASE s.op = "query"
      <4>1. ClientEffect(c, s) = {[a |-> IF m.call[c] THEN "up" ELSE "down", n |-> m]}
        BY <3>5 DEF ClientEffect
      <4> QED
        BY <1>2, <1>3, <2>2, <3>1, <4>1
    <3>6. CASE s.op = "getip" \/ s.op = "check"
      <4>1. ClientEffect(c, s) = {[a |-> IF m.call[c] THEN "ok" ELSE "rej", n |-> m]}
        <5>1. s.op = "getip" => ClientEffect(c, s) = {[a |-> IF m.call[c] THEN "ok" ELSE "rej", n |-> m]}
          BY DEF ClientEffect
        <5>2. s.op = "check" => ClientEffect(c, s) = {[a |-> IF m.call[c] THEN "ok" ELSE "rej", n |-> m]}
          BY DEF ClientEffect
        <5> QED
          BY <3>6, <5>1, <5>2
      <4> QED
        BY <1>2, <1>3, <2>2, <3>1, <4>1
    <3>7. CASE s.op = "stop"
      <4>1. ClientEffect(c, s) = {[a |-> IF m.call[c] THEN "ok" ELSE "rej", n |-> [m EXCEPT !.call = Hung({c})]]}
        BY <3>7 DEF ClientEffect
      <4> QED
        BY <1>3, <3>1, <3>7, <4>1 DEF Outcome
    <3>8. CASE s.op = "setup" \/ s.op = "setup2"
      <4> DEFINE n(x) == [m EXCEPT !.call[c] = TRUE, !.addr[c] = x]
                 new == {[a |-> "ok", n |-> n(x)] : x \in Addrs}
                 rej == {[a |-> "rej", n |-> m]}
      <4>1. ClientEffect(c, s) = IF m.reg /\ ~m.call[c] THEN new ELSE rej
        <5>1. s.op = "setup" => ClientEffect(c, s) = IF m.reg /\ ~m.call[c] THEN new ELSE rej
          BY DEF ClientEffect
        <5>2. s.op = "setup2" => ClientEffect(c, s) = IF m.reg /\ ~m.call[c] THEN new ELSE rej
          BY DEF ClientEffect
        <5> HIDE DEF new, rej
        <5> QED
          BY <3>8, <5>1, <5>2
      <4>2. e \in new \/ e \in rej
        <5> HIDE DEF new, rej
        <5> QED
          BY <3>1, <4>1
      <4>3. CASE e \in rej
        BY <1>2, <1>3, <2>2, <4>3
      <4>4. CASE e \in new
        <5>1. e.a = "ok" /\ \E x \in Addrs : e.n = n(x)
          <6> HIDE DEF n
          <6> QED
            BY <4>4
        <5>2. s.op \in CallOps /\ s.op \in {"setup", "setup2"}
          BY <3>8 DEF CallOps
        <5>3. c \in Both /\ c = s.arg
          BY <2>1, <5>2
        <5> QED
          BY <2>4, <5>1, <5>2, <5>3, Zenon DEF Outcome
      <4> HIDE DEF new, rej
      <4> QED
        BY <4>2, <4>3, <4>4
    <3> QED
      BY <2>1, <3>2, <3>3, <3>4, <3>5, <3>6, <3>7, <3>8, <3>9 DEF CallOps
  <2> QED
    BY <2>3, <2>4
<1> QED
  BY <1>4, <1>5

\* They have their types.
LEMMA EffectTypes ==
  ASSUME m \in Modems, NEW r \in Requests, NEW e \in Effect(r.c, r.s)
  PROVE  e.a \in Results /\ e.n \in Modems /\ Outcome(r.c, r.s, e)
<1>1. \A C : Hung(C) \in [Both -> BOOLEAN]
  BY HungOf
<1>2. All(Clients, FALSE) \in [Clients -> BOOLEAN] /\ All(Both, FALSE) \in [Both -> BOOLEAN]
  BY DEF All
<1>3. [m EXCEPT !.cid = All(Clients, FALSE), !.call = All(Both, FALSE)] \in Modems
  BY <1>2 DEF Modems
<1>4. \A x \in Clients : [m EXCEPT !.cid[x] = TRUE] \in Modems
  BY DEF Modems
<1>5. \A x \in Clients : \A h \in [Both -> BOOLEAN] : [m EXCEPT !.cid[x] = FALSE, !.call = h] \in Modems
  BY DEF Modems
<1>6. [m EXCEPT !.lpm = FALSE] \in Modems
  BY DEF Modems
<1>7. \A h \in [Both -> BOOLEAN] : /\ [m EXCEPT !.lpm = TRUE, !.reg = FALSE, !.call = h] \in Modems
                                   /\ [m EXCEPT !.call = h] \in Modems
  BY DEF Modems
<1>8. r.c \in Both => \A x \in Addrs : [m EXCEPT !.call[r.c] = TRUE, !.addr[r.c] = x] \in Modems
  BY DEF Modems
<1>9. "ok" \in Results
  BY DEF Results
<1>10. Outcome(r.c, r.s, e)
  BY EffectOf DEF Requests
<1>11. \A C : [m EXCEPT !.call = Hung(C)] \in Modems
  BY <1>1, <1>7, Zenon
<1>12. [m EXCEPT !.lpm = TRUE, !.reg = FALSE, !.call = Hung(Both)] \in Modems
  BY <1>1, <1>7, Zenon
<1>13. \A x \in Clients : [m EXCEPT !.cid[x] = FALSE, !.call = Hung({x})] \in Modems
  BY <1>1, <1>5, Zenon
<1>14. e.a \in Results
  BY <1>9, <1>10, Zenon DEF Outcome
<1>15. e.n \in Modems
  BY <1>3, <1>4, <1>6, <1>8, <1>10, <1>11, <1>12, <1>13, ZenonT(60) DEF Outcome
<1> QED
  BY <1>10, <1>14, <1>15

\* The indications of a change are messages.
LEMMA ChangesTypes ==
  ASSUME NEW n
  PROVE  Changes(n) \in Seq(Messages)
<1>1. Ind("nas", "net") \in Messages /\ Ind("v4", "call") \in Messages /\ Ind("v6", "call") \in Messages
  BY DEF Ind, Messages, Clients, Both
<1> DEFINE S == Messages
<1>2. Ind("nas", "net") \in S /\ Ind("v4", "call") \in S /\ Ind("v6", "call") \in S
  BY <1>1
<1> HIDE DEF S
<1> DEFINE a == When(n.reg # m.reg /\ m.cid["nas"], <<Ind("nas", "net")>>)
           b == When(n.call["v4"] # m.call["v4"], CallInd("v4"))
           e == When(n.call["v6"] # m.call["v6"], CallInd("v6"))
<1>3. a \in Seq(S)
  BY <1>2, ListIn
<1>4. CallInd("v4") \in Seq(S) /\ CallInd("v6") \in Seq(S)
  BY <1>2, ListIn DEF CallInd
<1>5. b \in Seq(S) /\ e \in Seq(S)
  BY <1>4, ListIn
<1>6. Changes(n) = a \o b \o e
  BY DEF Changes
<1> HIDE DEF a, b, e
<1>7. a \o b \in Seq(S)
  BY <1>3, <1>5, ListIn
<1>8. a \o b \o e \in Seq(S)
  BY <1>5, <1>7, ListIn
<1> QED
  BY <1>6, <1>8 DEF S

\* A step that changes only the modem, and keeps its types, keeps BaseInv.
LEMMA ModemBase ==
  ASSUME BaseInv, Quiet, m' \in Modems, inq' \in Seq(Requests), outq' \in Seq(Messages),
         UNCHANGED env \/ \E k : Fault(k)
  PROVE  BaseInv'
<1>1. Types /\ TypeOK /\ PipeTypes /\ Lives /\ d \in Globals
  BY DEF BaseInv, Types
<1>2. /\ pc' = pc /\ todo' = todo /\ res' = res /\ req' = req /\ rsp' = rsp /\ woken' = woken
      /\ sigq' = sigq /\ evq' = evq /\ cmdq' = cmdq /\ d' = d /\ rd' = rd /\ term' = term
      /\ faults' = faults \/ (faults < MaxFaults /\ faults' = faults + 1)
  BY DEF Quiet, cond, pipes, env, Fault
<1>3. faults' \in 0..MaxFaults
  BY <1>1, <1>2, DialerAssumption DEF TypeOK
<1>4. TypeOK'
  BY <1>1, <1>2, <1>3, TypeOKOf DEF TypeOK
<1>5. Types'
  BY <1>1, <1>2, <1>4 DEF Types, PipeTypes
<1> QED
  BY <1>2, <1>5, SameSteps

\* The steps of the modem are such steps.
LEMMA ModemSteps ==
  ASSUME Types,
         \/ Serve \/ Refuse \/ Lose \/ LoseInd \/ CallDrop \/ NetDown \/ SimUp \/ NetUp \/ Unplug \/ Replug
  PROVE  /\ Quiet /\ m' \in Modems /\ inq' \in Seq(Requests) /\ outq' \in Seq(Messages)
         /\ UNCHANGED env \/ \E k : Fault(k)
<1>1. /\ m \in Modems /\ inq \in Seq(Requests) /\ outq \in Seq(Messages)
      /\ \A i \in DOMAIN inq : inq[i] \in Requests
  BY DEF Types
<1>2. \A i \in DOMAIN inq : RemoveAt(inq, i) \in Seq(Requests)
  BY <1>1, RemoveOf
<1>3. \A n : Changes(n) \in Seq(Messages) /\ outq \o Changes(n) \in Seq(Messages)
  <2> TAKE n
  <2>1. Changes(n) \in Seq(Messages)
    BY ChangesTypes
  <2> QED
    BY <1>1, <2>1, ConcatOf
<1>4. \A i \in DOMAIN inq : \A a \in Results : Answer(i, a) \in Messages
  BY <1>1 DEF Answer, Requests, Messages
<1>5. \A i \in DOMAIN inq : \A e \in Effect(inq[i].c, inq[i].s) : e.n \in Modems /\ e.a \in Results
  BY <1>1, EffectTypes
<1>6. \A h \in [Both -> BOOLEAN] : [m EXCEPT !.reg = FALSE, !.call = h] \in Modems
  BY <1>1 DEF Modems
<1>7. /\ Fresh(m.addr) \in Modems /\ [Fresh(m.addr) EXCEPT !.plugged = FALSE] \in Modems
  <2>1. ("nosim" \notin Faults) \in BOOLEAN
    BY Zenon
  <2> QED
    BY <1>1, <2>1 DEF Fresh, Modems, All
<1>8. CASE Serve
  <2>0. PICK i \in DOMAIN inq : \E e \in Effect(inq[i].c, inq[i].s) :
          /\ m' = e.n /\ inq' = RemoveAt(inq, i)
          /\ outq' \in {outq \o <<Answer(i, e.a)>> \o Changes(e.n), outq \o Changes(e.n) \o <<Answer(i, e.a)>>}
          /\ Quiet /\ UNCHANGED env
    BY <1>8 DEF Serve
  <2>1. PICK e \in Effect(inq[i].c, inq[i].s) :
          /\ m' = e.n /\ inq' = RemoveAt(inq, i)
          /\ outq' \in {outq \o <<Answer(i, e.a)>> \o Changes(e.n), outq \o Changes(e.n) \o <<Answer(i, e.a)>>}
          /\ Quiet /\ UNCHANGED env
    BY <2>0
  <2>2. e.n \in Modems /\ e.a \in Results
    BY <1>5
  <2> DEFINE a == Answer(i, e.a)
             t == Changes(e.n)
  <2>3. a \in Messages /\ t \in Seq(Messages)
    BY <1>3, <1>4, <2>2
  <2>4. outq' \in {outq \o <<a>> \o t, outq \o t \o <<a>>}
    BY <2>1
  <2> HIDE DEF a, t
  <2>5. <<a>> \in Seq(Messages)
    BY <2>3, ListIn
  <2>6. outq \o <<a>> \in Seq(Messages) /\ outq \o t \in Seq(Messages)
    BY <1>1, <2>3, <2>5, ListIn
  <2>7. outq \o <<a>> \o t \in Seq(Messages) /\ outq \o t \o <<a>> \in Seq(Messages)
    BY <2>3, <2>5, <2>6, ListIn
  <2> QED
    BY <1>2, <2>1, <2>2, <2>4, <2>7
<1>9. CASE Refuse
  <2>1. PICK i \in DOMAIN inq :
          inq' = RemoveAt(inq, i) /\ outq' = Append(outq, Answer(i, "rej")) /\ Fault("refuse") /\ Quiet /\ m' = m
    BY <1>9 DEF Refuse
  <2>2. Answer(i, "rej") \in Messages
    BY <1>4 DEF Results
  <2> QED
    BY <1>1, <1>2, <2>1, <2>2, AppendOf
<1>10. CASE Lose
  <2>0. PICK i \in DOMAIN inq : \E e \in Effect(inq[i].c, inq[i].s) \union {[a |-> "none", n |-> m]} :
          /\ m' = e.n /\ inq' = RemoveAt(inq, i) /\ outq' = outq \o Changes(e.n)
          /\ Fault(LossOf(inq[i].s)) /\ Quiet
    BY <1>10 DEF Lose
  <2>1. PICK e \in Effect(inq[i].c, inq[i].s) \union {[a |-> "none", n |-> m]} :
          /\ m' = e.n /\ inq' = RemoveAt(inq, i) /\ outq' = outq \o Changes(e.n)
          /\ Fault(LossOf(inq[i].s)) /\ Quiet
    BY <2>0
  <2>2. e.n \in Modems
    BY <1>1, <1>5
  <2> QED
    BY <1>2, <1>3, <2>1, <2>2
<1>11. CASE LoseInd
  <2>1. PICK i \in DOMAIN outq : outq' = RemoveAt(outq, i) /\ Fault("ind") /\ Quiet /\ m' = m /\ inq' = inq
    BY <1>11 DEF LoseInd
  <2> QED
    BY <1>1, <2>1, RemoveOf
<1>12. CASE CallDrop
  <2>1. PICK f \in Both : Becomes([m EXCEPT !.call[f] = FALSE], "drop")
    BY <1>12 DEF CallDrop
  <2>2. [m EXCEPT !.call[f] = FALSE] \in Modems
    BY <1>1 DEF Modems
  <2> QED
    BY <1>1, <1>3, <2>1, <2>2 DEF Becomes
<1>13. CASE NetDown
  <2>1. Becomes([m EXCEPT !.reg = FALSE, !.call = Hung(Both)], "net")
    BY <1>13 DEF NetDown
  <2>2. [m EXCEPT !.reg = FALSE, !.call = Hung(Both)] \in Modems
    <3>1. Hung(Both) \in [Both -> BOOLEAN]
      BY <1>1, HungOf
    <3> QED
      BY <1>6, <3>1, Zenon
  <2> QED
    BY <1>1, <1>3, <2>1, <2>2 DEF Becomes
<1>14. CASE NetUp
  <2>1. m' = [m EXCEPT !.reg = TRUE] /\ outq' = outq \o Changes(m') /\ Quiet /\ inq' = inq /\ UNCHANGED env
    BY <1>14 DEF NetUp
  <2>2. [m EXCEPT !.reg = TRUE] \in Modems
    BY <1>1 DEF Modems
  <2> QED
    BY <1>1, <1>3, <2>1, <2>2
<1>15. CASE Unplug
  <2>1. /\ m' = [Fresh(m.addr) EXCEPT !.plugged = FALSE] /\ inq' = <<>> /\ outq' = <<>> /\ Quiet
        /\ Fault("unplug")
    BY <1>15 DEF Unplug
  <2> QED
    BY <1>7, <2>1
<1>16. CASE Replug
  <2>1. m' = Fresh(m.addr) /\ Quiet /\ inq' = inq /\ outq' = outq /\ UNCHANGED env
    BY <1>16 DEF Replug
  <2> QED
    BY <1>1, <1>7, <2>1
<1>17. CASE SimUp
  <2>1. m' = [m EXCEPT !.sim = TRUE] /\ Quiet /\ inq' = inq /\ outq' = outq /\ UNCHANGED env
    BY <1>17 DEF SimUp
  <2>2. [m EXCEPT !.sim = TRUE] \in Modems
    BY <1>1 DEF Modems
  <2> QED
    BY <1>1, <2>1, <2>2
<1> QED
  BY <1>8, <1>9, <1>10, <1>11, <1>12, <1>13, <1>14, <1>15, <1>16, <1>17

\* BaseInv is inductive.
LEMMA BaseNext == BaseInv /\ [Next]_vars => BaseInv'
<1> SUFFICES ASSUME BaseInv, [Next]_vars PROVE BaseInv'
  OBVIOUS
<1>1. CASE \/ Serve \/ Refuse \/ Lose \/ LoseInd \/ CallDrop \/ NetDown \/ SimUp \/ NetUp \/ Unplug \/ Replug
  <2>1. Types
    BY DEF BaseInv
  <2> QED
    BY <1>1, <2>1, ModemSteps, ModemBase
<1>2. CASE Open \/ ReadCmd \/ RecvQMI \/ Hangup \/ TellGone \/ Exit
  BY <1>2, ReaderBase
<1>3. CASE Sigterm \/ Sigalrm \/ Elapse
  BY <1>3, SignalBase
<1>4. CASE Quit \/ Leave \/ Join
  BY <1>4, EndBase
<1>5. CASE SendNothing \/ Send \/ Wake \/ Timeout \/ TooLate
  BY <1>5, RequestBase
<1>6. CASE Detect \/ Connect \/ Poll \/ PollTimeout \/ LoopAgain
  BY <1>6, LoopBase
<1>7. CASE ReadSignal
  BY <1>7, ReadSignalBase
<1>8. CASE ReadEvent
  BY <1>8, ReadEventBase
<1>9. CASE Refresh \/ RedialNow \/ Kick
  BY <1>9, TellBase
<1>10. CASE Radio \/ Check \/ Judge \/ LinkUp \/ Sync \/ SimStatus
  BY <1>10, WatchBase
<1>11. CASE SetupFails
  BY <1>11, SetupFailsBase
<1>12. CASE Redial \/ Dial \/ SetupDone
  BY <1>12, DialBase
<1>13. CASE \/ Plain \/ GetClientID \/ ReleaseClientID \/ Registration \/ Connected
            \/ SetupFailsAgain \/ SetAlarm \/ Query \/ Stop \/ Ended \/ LinkDown \/ GetIPAddress
  BY <1>13, PlainBase
<1>14. CASE UNCHANGED vars
  <2>1. /\ todo' = todo /\ evq' = evq /\ rd' = rd /\ sigq' = sigq /\ pc' = pc
        /\ Types'
    BY <1>14 DEF vars, BaseInv, Types, TypeOK, PipeTypes
  <2> QED
    BY <2>1, SameSteps
<1> QED
  BY <1>1, <1>2, <1>3, <1>4, <1>5, <1>6, <1>7, <1>8, <1>9, <1>10, <1>11, <1>12, <1>13, <1>14
    DEF Next, MainAct, Timers, ReaderAct, FaultAct

-----------------------------------------------------------------------------
(* Main and the reader agree.                                               *)

\* A concatenation holds what its parts hold.
LEMMA HoldsOf ==
  ASSUME NEW S, NEW p \in Seq(S), NEW q \in Seq(S)
  PROVE  \A x \in ToSet(p \o q) : x \in ToSet(p) \/ x \in ToSet(q)
<1>1. \A x \in ToSet(p \o q) : x \in ToSet(p) \/ x \in ToSet(q)
  <2> SUFFICES ASSUME NEW j \in DOMAIN (p \o q)
               PROVE  (p \o q)[j] \in ToSet(p) \/ (p \o q)[j] \in ToSet(q)
    BY DEF ToSet
  <2>1. /\ Len(p) \in Nat /\ Len(q) \in Nat /\ DOMAIN (p \o q) = 1..(Len(p) + Len(q))
        /\ DOMAIN p = 1..Len(p) /\ DOMAIN q = 1..Len(q)
        /\ \A i \in 1..Len(p) : (p \o q)[i] = p[i]
        /\ \A i \in (Len(p) + 1)..(Len(p) + Len(q)) : (p \o q)[i] = q[i - Len(p)]
    <3>1. DOMAIN p = 1..Len(p) /\ DOMAIN q = 1..Len(q)
      OBVIOUS
    <3> QED
      BY <3>1, ConcatOf, Zenon
  <2>2. CASE j \in 1..Len(p)
    BY <2>1, <2>2 DEF ToSet
  <2>3. CASE j \notin 1..Len(p)
    <3>1. j \in (Len(p) + 1)..(Len(p) + Len(q)) /\ j - Len(p) \in DOMAIN q
      BY <2>1, <2>3
    <3> QED
      BY <2>1, <3>1 DEF ToSet
  <2> QED
    BY <2>2, <2>3
<1> QED
  BY <1>1

\* What a list of one, and an empty one, hold; a list over S holds elements of S.
LEMMA HoldsIn ==
  ASSUME NEW S, NEW p \in Seq(S)
  PROVE  /\ \A x \in S : ToSet(<<x>>) = {x}
         /\ ToSet(<<>>) = {}
         /\ ToSet(p) \subseteq S
  BY DEF ToSet

\* The indications of a change are no answers.
LEMMA ChangesHold ==
  ASSUME NEW n, NEW x \in ToSet(Changes(n))
  PROVE  x.age = -1
<1> DEFINE S == {y \in Messages : y.age = -1}
<1>1. Ind("nas", "net") \in S /\ Ind("v4", "call") \in S /\ Ind("v6", "call") \in S
  BY DEF Ind, Messages, Clients, Both
<1> HIDE DEF S
<1> DEFINE a == When(n.reg # m.reg /\ m.cid["nas"], <<Ind("nas", "net")>>)
           b == When(n.call["v4"] # m.call["v4"], CallInd("v4"))
           e == When(n.call["v6"] # m.call["v6"], CallInd("v6"))
<1>2. a \in Seq(S)
  BY <1>1, ListIn
<1>3. CallInd("v4") \in Seq(S) /\ CallInd("v6") \in Seq(S)
  BY <1>1, ListIn DEF CallInd
<1>4. b \in Seq(S) /\ e \in Seq(S)
  BY <1>3, ListIn
<1>5. Changes(n) = a \o b \o e
  BY DEF Changes
<1> HIDE DEF a, b, e
<1>6. a \o b \in Seq(S)
  BY <1>2, <1>4, ListIn
<1>7. a \o b \o e \in Seq(S)
  BY <1>4, <1>6, ListIn
<1>8. x \in S
  BY <1>5, <1>7, HoldsIn
<1> QED
  BY <1>8 DEF S

\* What is under way after a step of the modem was under way, answers such a request, or is no
\* answer.
LEMMA ModemHolds ==
  ASSUME Types,
         \/ Serve \/ Refuse \/ Lose \/ LoseInd \/ CallDrop \/ NetDown \/ SimUp \/ NetUp \/ Unplug \/ Replug
  PROVE  /\ \A x \in ToSet(inq') : x \in ToSet(inq)
         /\ \A x \in ToSet(outq') :
              \/ x \in ToSet(outq) \/ x.age = -1
              \/ \E y \in ToSet(inq) : x.c = y.c /\ x.age = y.age /\ x.own = y.own
<1>1. m \in Modems /\ inq \in Seq(Requests) /\ outq \in Seq(Messages)
  BY DEF Types
<1>2. \A S : \A q \in Seq(S) : \A i \in DOMAIN q : \A x \in ToSet(RemoveAt(q, i)) : x \in ToSet(q)
  <2> SUFFICES ASSUME NEW S, NEW q \in Seq(S), NEW i \in DOMAIN q, NEW j \in DOMAIN RemoveAt(q, i)
               PROVE  RemoveAt(q, i)[j] \in ToSet(q)
    BY DEF ToSet
  <2>1. /\ DOMAIN RemoveAt(q, i) = 1..(Len(q) - 1) /\ DOMAIN q = 1..Len(q) /\ Len(q) \in Nat
        /\ \A k \in 1..(Len(q) - 1) : RemoveAt(q, i)[k] = IF k < i THEN q[k] ELSE q[k + 1]
    BY RemoveOf
  <2>2. j \in DOMAIN q /\ j + 1 \in DOMAIN q
    BY <2>1
  <2>3. RemoveAt(q, i)[j] \in {q[j], q[j + 1]}
    BY <2>1
  <2> QED
    BY <2>2, <2>3 DEF ToSet
<1>3. \A n : \A x \in ToSet(outq \o Changes(n)) : x \in ToSet(outq) \/ x.age = -1
  <2> TAKE n
  <2>1. Changes(n) \in Seq(Messages)
    BY ChangesTypes
  <2> QED
    BY <1>1, <2>1, HoldsOf, ChangesHold
<1>4. \A i \in DOMAIN inq : \A a \in Results :
        /\ Answer(i, a) \in Messages
        /\ \E y \in ToSet(inq) : Answer(i, a).c = y.c /\ Answer(i, a).age = y.age /\ Answer(i, a).own = y.own
  <2> SUFFICES ASSUME NEW i \in DOMAIN inq, NEW a \in Results
               PROVE  /\ Answer(i, a) \in Messages
                      /\ \E y \in ToSet(inq) :
                           Answer(i, a).c = y.c /\ Answer(i, a).age = y.age /\ Answer(i, a).own = y.own
    BY Zenon
  <2>1. inq[i] \in Requests /\ inq[i] \in ToSet(inq)
    BY <1>1 DEF ToSet
  <2>2. Answer(i, a).c = inq[i].c /\ Answer(i, a).age = inq[i].age /\ Answer(i, a).own = inq[i].own
    BY DEF Answer
  <2>3. Answer(i, a) \in Messages
    BY <2>1 DEF Answer, Requests, Messages
  <2> QED
    BY <2>1, <2>2, <2>3
<1>5. CASE Serve
  <2>1. PICK i \in DOMAIN inq : \E e \in Effect(inq[i].c, inq[i].s) :
          /\ inq' = RemoveAt(inq, i)
          /\ outq' \in {outq \o <<Answer(i, e.a)>> \o Changes(e.n), outq \o Changes(e.n) \o <<Answer(i, e.a)>>}
    BY <1>5 DEF Serve
  <2>2. PICK e \in Effect(inq[i].c, inq[i].s) :
          outq' \in {outq \o <<Answer(i, e.a)>> \o Changes(e.n), outq \o Changes(e.n) \o <<Answer(i, e.a)>>}
    BY <2>1
  <2>3. e.a \in Results
    <3>1. inq[i] \in Requests
      BY <1>1
    <3> QED
      BY <1>1, <3>1, EffectTypes
  <2> DEFINE a == Answer(i, e.a)
             t == Changes(e.n)
  <2>4. /\ a \in Messages /\ t \in Seq(Messages)
        /\ \E y \in ToSet(inq) : a.c = y.c /\ a.age = y.age /\ a.own = y.own
        /\ \A x \in ToSet(t) : x.age = -1
    BY <1>4, <2>3, ChangesTypes, ChangesHold
  <2>5. outq' \in {outq \o <<a>> \o t, outq \o t \o <<a>>}
    BY <2>2
  <2> HIDE DEF a, t
  <2>6. <<a>> \in Seq(Messages) /\ ToSet(<<a>>) = {a}
    BY <1>1, <2>4, ListIn, HoldsIn
  <2>7. outq \o <<a>> \in Seq(Messages) /\ outq \o t \in Seq(Messages)
    BY <1>1, <2>4, <2>6, ListIn
  <2>8. \A x \in ToSet(outq') : x \in ToSet(outq) \/ x \in ToSet(t) \/ x = a
    <3>1. \A x \in ToSet(outq \o <<a>> \o t) : x \in ToSet(outq \o <<a>>) \/ x \in ToSet(t)
      BY <2>4, <2>7, HoldsOf, Zenon
    <3>2. \A x \in ToSet(outq \o t \o <<a>>) : x \in ToSet(outq \o t) \/ x \in ToSet(<<a>>)
      BY <2>6, <2>7, HoldsOf, Zenon
    <3>3. \A x \in ToSet(outq \o <<a>>) : x \in ToSet(outq) \/ x \in ToSet(<<a>>)
      BY <1>1, <2>6, HoldsOf, Zenon
    <3>4. \A x \in ToSet(outq \o t) : x \in ToSet(outq) \/ x \in ToSet(t)
      BY <1>1, <2>4, HoldsOf, Zenon
    <3> QED
      BY <2>5, <2>6, <3>1, <3>2, <3>3, <3>4
  <2> QED
    BY <1>1, <1>2, <2>1, <2>4, <2>8
<1>6. CASE Refuse
  <2>1. PICK i \in DOMAIN inq : inq' = RemoveAt(inq, i) /\ outq' = Append(outq, Answer(i, "rej"))
    BY <1>6 DEF Refuse
  <2> DEFINE a == Answer(i, "rej")
  <2>2. a \in Messages /\ \E y \in ToSet(inq) : a.c = y.c /\ a.age = y.age /\ a.own = y.own
    BY <1>4 DEF Results
  <2> HIDE DEF a
  <2>3. \A x \in ToSet(Append(outq, a)) : x \in ToSet(outq) \/ x = a
    BY <1>1, <2>2, AppendOf DEF ToSet
  <2> QED
    BY <1>1, <1>2, <2>1, <2>2, <2>3 DEF a
<1>7. CASE Lose
  <2>1. PICK i \in DOMAIN inq : \E e : inq' = RemoveAt(inq, i) /\ outq' = outq \o Changes(e.n)
    BY <1>7 DEF Lose
  <2> QED
    BY <1>1, <1>2, <1>3, <2>1
<1>8. CASE LoseInd
  <2>1. PICK i \in DOMAIN outq : outq' = RemoveAt(outq, i) /\ inq' = inq
    BY <1>8 DEF LoseInd
  <2> QED
    BY <1>1, <1>2, <2>1
<1>9. CASE CallDrop \/ NetDown \/ NetUp
  <2>1. inq' = inq /\ \E n : outq' = outq \o Changes(n)
    BY <1>9 DEF CallDrop, NetDown, NetUp, Becomes
  <2> QED
    BY <1>3, <2>1
<1>10. CASE Unplug
  BY <1>10 DEF Unplug, ToSet
<1>11. CASE Replug \/ SimUp
  BY <1>11 DEF Replug, SimUp
<1> QED
  BY <1>5, <1>6, <1>7, <1>8, <1>9, <1>10, <1>11

\* The steps of main's handlers are taken while it does not wait, and leave the request alone.
LEMMA RunSteps ==
  ASSUME \/ ReadSignal \/ ReadEvent \/ Sync \/ SimStatus \/ Plain \/ GetClientID \/ ReleaseClientID
         \/ Registration \/ Refresh \/ RedialNow \/ Kick \/ Redial \/ Dial \/ SetupDone \/ Connected
         \/ SetupFails \/ SetupFailsAgain \/ Radio \/ SetAlarm \/ Query \/ Check \/ Stop \/ Ended
         \/ Judge \/ LinkDown \/ LinkUp \/ GetIPAddress
  PROVE  /\ pc = "run" /\ todo # <<>> /\ pc' \in {"run", "exited"}
         /\ UNCHANGED <<cond, rd, modem, env>>
<1>1. \A s, D : Go(s, D) => pc' = pc /\ UNCHANGED <<cond, rd, modem, env>>
  BY DEF Go, Then
<1>2. \A s, D : Then(s, D) => pc' = pc /\ UNCHANGED <<cond, rd, modem, env>>
  BY DEF Then
<1>3. \A op : Has(op) => pc = "run" /\ todo # <<>>
  BY DEF Has, At
<1>4. \A op : At(op) => pc = "run" /\ todo # <<>>
  BY DEF At
<1>5. CASE ReadSignal \/ ReadEvent
  BY <1>2, <1>4, <1>5 DEF ReadSignal, ReadEvent
<1>6. CASE Refresh \/ RedialNow \/ Kick
  BY <1>2, <1>4, <1>6 DEF Refresh, RedialNow, Kick, Tell
<1>7. CASE Sync
  BY <1>1, <1>3, <1>7 DEF Sync
<1>8. CASE SimStatus \/ Plain \/ GetClientID \/ ReleaseClientID \/ Registration
  BY <1>1, <1>3, <1>8 DEF SimStatus, Plain, GetClientID, ReleaseClientID, Registration
<1>9. CASE Redial \/ Dial \/ SetupDone \/ Connected
  BY <1>1, <1>3, <1>4, <1>9 DEF Redial, Dial, SetupDone, Connected
<1>10. CASE SetupFails
  <2>1. \/ UNCHANGED <<pc, cond, pipes, rd, modem, env>>
        \/ \E s, D : Go(s, D)
    BY <1>10 DEF SetupFails
  <2> QED
    BY <1>1, <1>3, <1>10, <2>1 DEF SetupFails
<1>11. CASE SetupFailsAgain \/ Radio \/ SetAlarm
  BY <1>1, <1>3, <1>4, <1>11 DEF SetupFailsAgain, Radio, SetAlarm
<1>12. CASE Query \/ Stop \/ Ended
  BY <1>1, <1>3, <1>4, <1>12 DEF Query, Stop, Ended
<1>13. CASE Check
  <2>1. \E s, D : Go(s, D)
    BY <1>13 DEF Check
  <2> QED
    BY <1>1, <1>3, <1>13, <2>1 DEF Check
<1>14. CASE Judge \/ LinkDown \/ LinkUp \/ GetIPAddress
  BY <1>1, <1>3, <1>4, <1>14 DEF Judge, LinkDown, LinkUp, GetIPAddress
<1> QED
  BY <1>5, <1>6, <1>7, <1>8, <1>9, <1>10, <1>11, <1>12, <1>13, <1>14

\* Main does not wait for nobody: it sends to a reader that polls, and the reader
\* wakes it when it forgets the request and when it leaves.
LEMMA WaitNext ==
  ASSUME BaseInv, WaitEnds, [Next]_vars
  PROVE  WaitEnds'
<1>1. CASE Send
  BY <1>1 DEF Send, Asks, WaitEnds
<1>2. CASE SendNothing \/ Wake \/ Timeout \/ TooLate
  BY <1>2 DEF SendNothing, Wake, Timeout, TooLate, GiveUp, WaitEnds
<1>3. CASE Open \/ ReadCmd \/ RecvQMI \/ Hangup \/ TellGone \/ Exit
  <2>1. pc' = pc
    BY <1>3 DEF Open, ReadCmd, RecvQMI, Hangup, TellGone, Exit, Reads
  <2>2. \/ req' = req /\ woken' = woken
        \/ req # "none" /\ woken' = (pc = "wait")
        \/ req' = "none" /\ woken' = (pc = "wait")
    BY <1>3 DEF Open, ReadCmd, RecvQMI, Hangup, TellGone, Exit, RecvNull, cond
  <2>3. CASE rd' = "exited" /\ Open
    BY <2>1, <2>3 DEF BaseInv, Lives, Open, WaitEnds
  <2>4. CASE Exit
    <3>1. RecvNull
      BY <2>4 DEF Exit
    <3>2. req = "none" => req' = req /\ woken' = woken
      BY <3>1 DEF RecvNull, cond
    <3>3. req # "none" => woken' = (pc = "wait")
      BY <3>1 DEF RecvNull
    <3> QED
      BY <2>1, <3>2, <3>3 DEF WaitEnds
  <2>5. CASE rd' # "exited"
    BY <2>1, <2>2, <2>5 DEF WaitEnds
  <2>6. rd' = "exited" => Open \/ Exit \/ (rd' = rd /\ ReadCmd) \/ (rd' = rd /\ RecvQMI)
    BY <1>3 DEF Hangup, TellGone, ReadCmd, RecvQMI
  <2>7. CASE (rd' = rd /\ ReadCmd) \/ (rd' = rd /\ RecvQMI)
    <3>1. (UNCHANGED <<req, woken>> /\ rd' = rd) \/ (woken' = (pc = "wait"))
      BY <2>2, <2>7
    <3> QED
      BY <2>1, <3>1, Zenon DEF WaitEnds
  <2> QED
    BY <2>3, <2>4, <2>5, <2>6, <2>7
<1>4. CASE \/ Serve \/ Refuse \/ Lose \/ LoseInd \/ CallDrop \/ NetDown \/ SimUp \/ NetUp \/ Unplug \/ Replug
  <2>1. Types
    BY DEF BaseInv
  <2>2. Quiet
    BY <1>4, <2>1, ModemSteps
  <2> QED
    BY <2>2 DEF Quiet, cond, WaitEnds
<1>5. CASE Sigterm \/ Sigalrm \/ Elapse \/ PollTimeout \/ UNCHANGED vars
  BY <1>5 DEF Sigterm, Sigalrm, Elapse, PollTimeout, vars, cond, WaitEnds
<1>6. CASE \/ Detect \/ Connect \/ Poll \/ LoopAgain \/ Quit \/ Leave \/ Join
  BY <1>6 DEF Detect, Connect, Poll, LoopAgain, Quit, Leave, Join, WaitEnds
<1>7. CASE pc = "run" /\ pc' \in {"run", "exited"}
  BY <1>7 DEF WaitEnds
<1>8. ASSUME \/ ReadSignal \/ ReadEvent \/ Sync \/ SimStatus \/ Plain \/ GetClientID \/ ReleaseClientID
             \/ Registration \/ Refresh \/ RedialNow \/ Kick \/ Redial \/ Dial \/ SetupDone \/ Connected
             \/ SetupFails \/ SetupFailsAgain \/ Radio \/ SetAlarm \/ Query \/ Check \/ Stop \/ Ended
             \/ Judge \/ LinkDown \/ LinkUp \/ GetIPAddress
      PROVE  pc = "run" /\ pc' \in {"run", "exited"}
  BY <1>8, RunSteps
<1> QED
  BY <1>1, <1>2, <1>3, <1>4, <1>5, <1>6, <1>7, <1>8 DEF Next, MainAct, Timers, ReaderAct, FaultAct

\* LaterOf for the ages and the requests alone.
LEMMA LaterAges ==
  ASSUME NEW S \in {Requests, Messages}, NEW q \in Seq(S), NEW c
  PROVE  /\ DOMAIN Later(q, c) = DOMAIN q
         /\ \A i \in DOMAIN q : Later(q, c)[i].c = q[i].c
         /\ \A i \in DOMAIN q : Later(q, c)[i].age = Aged(q[i], c)
<1>1. /\ Later(q, c) \in Seq(S) /\ Len(Later(q, c)) = Len(q)
      /\ DOMAIN Later(q, c) = DOMAIN q /\ DOMAIN q = 1..Len(q) /\ Len(q) \in Nat
      /\ \A i \in DOMAIN q : Later(q, c)[i].c = q[i].c
      /\ \A i \in DOMAIN q : Later(q, c)[i].own = FALSE
      /\ \A i \in DOMAIN q : Later(q, c)[i].age = Aged(q[i], c)
      /\ S = Requests => \A i \in DOMAIN q : Later(q, c)[i].s = q[i].s
  BY LaterOf, ZenonT(100)
<1> QED
  BY <1>1

\* No request or message that was under way has the id of the one that is sent: that takes a
\* whole round.
LEMMA LaterHolds ==
  ASSUME Timely, NEW S \in {Requests, Messages}, NEW q \in Seq(S), ToSet(q) \subseteq Sendings,
         NEW c, NEW x \in ToSet(Later(q, c)), x.c = c
  PROVE  x.age # 0
<1> DEFINE p == Later(q, c)
           C(l) == DOMAIN l = DOMAIN q /\ \A i \in DOMAIN q : l[i].c = q[i].c
           A(l) == \A i \in DOMAIN q : l[i].age = Aged(q[i], c)
<1>0. C(p) /\ A(p)
  BY LaterAges
<1> HIDE DEF p
<1>1. PICK i \in DOMAIN q : x = p[i]
  BY <1>0 DEF ToSet, p
<1>2. q[i] \in S /\ q[i] \in Sendings
  BY DEF ToSet
<1>3. /\ x.c = q[i].c
      /\ x.age = IF q[i].age >= 0 /\ Counter(q[i].c) = Counter(c) THEN (q[i].age + 1) % MaxTid ELSE q[i].age
  BY <1>0, <1>1 DEF Aged
<1>4. q[i].age # MaxTid - 1 /\ (q[i].age \in Ages \/ q[i].age = -1)
  <2>1. q[i].age # MaxTid - 1
    BY <1>2 DEF Timely
  <2>2. \A y \in Requests : y.age \in Ages
    BY DEF Requests
  <2>3. \A y \in Messages : y.age \in Ages \/ y.age = -1
    BY DEF Messages
  <2>4. S = Requests \/ S = Messages
    OBVIOUS
  <2> QED
    BY <1>2, <2>1, <2>2, <2>3, <2>4
<1>5. Counter(q[i].c) = Counter(c) /\ MaxTid \in Nat \ {0}
  BY <1>3, DialerAssumption
<1>6. CASE q[i].age = -1
  <2>1. ~(-1 >= 0) /\ -1 # 0
    OBVIOUS
  <2> QED
    BY <1>3, <1>6, <2>1
<1>7. CASE q[i].age \in Ages
  <2>1. \A a \in Ages : a # MaxTid - 1 => (a + 1) % MaxTid # 0 /\ a >= 0
    <3> SUFFICES ASSUME NEW a \in Ages, a # MaxTid - 1 PROVE (a + 1) % MaxTid # 0 /\ a >= 0
      OBVIOUS
    <3>1. a \in Nat /\ a + 1 < MaxTid
      BY <1>5 DEF Ages
    <3>2. (a + 1) % MaxTid = a + 1
      BY <1>5, <3>1
    <3> QED
      BY <3>1, <3>2
  <2>2. q[i].age >= 0 /\ (q[i].age + 1) % MaxTid # 0
    BY <1>4, <1>7, <2>1
  <2> QED
    BY <1>3, <1>5, <2>2
<1> QED
  BY <1>4, <1>6, <1>7

\* The answer that is taken is the answer to main's request.
LEMMA OwnNext ==
  ASSUME BaseInv, Timely, OwnIsOne, [Next]_vars
  PROVE  OwnIsOne'
<1>1. Types /\ inq \in Seq(Requests) /\ outq \in Seq(Messages)
  BY DEF BaseInv, Types
<1>2. CASE Send
  <2> DEFINE c == ClientOf(Here)
             r == [s |-> Here, c |-> c, age |-> 0, own |-> TRUE]
  <2>1. req' = c /\ rsp' = NoAnswer /\ outq' = Later(outq, c)
        /\ (inq' = Append(Later(inq, c), r) \/ inq' = Later(inq, c))
    BY <1>2 DEF Send
  <2> HIDE DEF c
  <2>2. Later(inq, c) \in Seq(Requests)
    BY <1>1, LaterOf
  <2>3. r.own = TRUE
    OBVIOUS
  <2> HIDE DEF r
  <2>5. \A x \in ToSet(inq') : x \in ToSet(Later(inq, c)) \/ x = r
    <3> DEFINE S == Requests \union {r}
               q == Later(inq, c)
    <3>1. q \in Seq(S) /\ r \in S
      BY <2>2
    <3>2. inq' = Append(q, r) \/ inq' = q
      BY <2>1
    <3> HIDE DEF S, q
    <3>3. /\ DOMAIN Append(q, r) = 1..(Len(q) + 1) /\ DOMAIN q = 1..Len(q) /\ Append(q, r)[Len(q) + 1] = r
          /\ \A i \in 1..Len(q) : Append(q, r)[i] = q[i]
          /\ Len(q) \in Nat
      BY <3>1, AppendOf
    <3>4. \A i \in DOMAIN Append(q, r) : i \in DOMAIN q \/ i = Len(q) + 1
      BY <3>3
    <3>5. \A x \in ToSet(Append(q, r)) : x \in ToSet(q) \/ x = r
      BY <3>3, <3>4 DEF ToSet
    <3> QED
      BY <3>2, <3>5 DEF q
  <2>6. \A x \in ToSet(Later(inq, c)) : x.c = c => x.age # 0
    BY <1>1, LaterHolds DEF Sendings
  <2>7. \A x \in ToSet(Later(outq, c)) : x.c = c => x.age # 0
    BY <1>1, LaterHolds DEF Sendings
  <2> QED
    BY <2>1, <2>3, <2>5, <2>6, <2>7 DEF OwnIsOne, Sendings
<1>3. CASE SendNothing \/ Wake \/ Timeout \/ TooLate
  BY <1>3 DEF SendNothing, Wake, Timeout, TooLate, GiveUp, OwnIsOne
<1>4. CASE Open \/ ReadCmd \/ RecvQMI \/ Hangup \/ TellGone \/ Exit
  <2>1. pc' = pc /\ inq' = inq
    BY <1>4 DEF Open, ReadCmd, RecvQMI, Hangup, TellGone, Exit, Reads
  <2>2. outq # <<>> => /\ Head(outq) \in ToSet(outq)
                       /\ \A x \in ToSet(Tail(outq)) : x \in ToSet(outq)
    <3> SUFFICES ASSUME outq # <<>>
                 PROVE  Head(outq) \in ToSet(outq) /\ \A x \in ToSet(Tail(outq)) : x \in ToSet(outq)
      OBVIOUS
    <3>1. /\ Head(outq) = outq[1] /\ Len(outq) \in Nat \ {0} /\ DOMAIN outq = 1..Len(outq)
          /\ \A i \in 1..(Len(outq) - 1) : Tail(outq)[i] = outq[i + 1]
          /\ DOMAIN Tail(outq) = 1..(Len(outq) - 1)
      BY <1>1, TailOf
    <3>2. 1 \in DOMAIN outq /\ \A i \in 1..(Len(outq) - 1) : i + 1 \in DOMAIN outq
      BY <3>1
    <3> QED
      BY <3>1, <3>2 DEF ToSet
  <2>3. \A x \in Sendings' : x \in Sendings
    BY <1>4, <2>1, <2>2 DEF Open, ReadCmd, RecvQMI, Hangup, TellGone, Exit, Sendings
  <2>4. \A x \in Sendings : x.c # "none"
    <3>1. \A x \in Requests \union Messages : x.c # "none"
      BY DEF Requests, Messages, Peers, Clients, Both
    <3>2. ToSet(inq) \subseteq Requests /\ ToSet(outq) \subseteq Messages
      BY <1>1, HoldsIn
    <3> QED
      BY <3>1, <3>2 DEF Sendings
  <2>5. \/ req' = req /\ rsp' = rsp
        \/ req' = "none" /\ rsp' = NoAnswer
        \/ /\ req' = "none" /\ outq # <<>> /\ Head(outq).c = req /\ Head(outq).age = 0
           /\ rsp' = [a |-> Head(outq).a, own |-> Head(outq).own]
    BY <1>4 DEF Open, ReadCmd, RecvQMI, Hangup, TellGone, Exit, RecvNull, cond, is_response
  <2>6. CASE req' = req /\ rsp' = rsp
    BY <2>1, <2>3, <2>6 DEF OwnIsOne
  <2>7. CASE req' = "none" /\ rsp' = NoAnswer
    BY <2>3, <2>4, <2>7 DEF OwnIsOne
  <2>8. CASE /\ req' = "none" /\ outq # <<>> /\ Head(outq).c = req /\ Head(outq).age = 0
             /\ rsp' = [a |-> Head(outq).a, own |-> Head(outq).own]
    <3>1. pc = "wait" => Head(outq).own
      BY <2>2, <2>8 DEF OwnIsOne, Sendings
    <3>2. rsp'.own = Head(outq).own
      BY <2>8
    <3>3. pc = "wait" => rsp'.own
      BY <3>1, <3>2
    <3>4. \A x \in Sendings' : x.c # req'
      BY <2>3, <2>4, <2>8
    <3> QED
      BY <2>1, <3>3, <3>4, Zenon DEF OwnIsOne
  <2> QED
    BY <2>5, <2>6, <2>7, <2>8
<1>5. CASE \/ Serve \/ Refuse \/ Lose \/ LoseInd \/ CallDrop \/ NetDown \/ SimUp \/ NetUp \/ Unplug \/ Replug
  <2>1. Quiet
    BY <1>1, <1>5, ModemSteps
  <2>2. pc' = pc /\ req' = req /\ rsp' = rsp
    BY <2>1 DEF Quiet, cond
  <2>3. /\ \A x \in ToSet(inq') : x \in ToSet(inq)
        /\ \A x \in ToSet(outq') :
              \/ x \in ToSet(outq) \/ x.age = -1
              \/ \E y \in ToSet(inq) : x.c = y.c /\ x.age = y.age /\ x.own = y.own
    BY <1>1, <1>5, ModemHolds
  <2>4. -1 # 0
    OBVIOUS
  <2>5. \A x \in Sendings' : x.c = req /\ x.age = 0 =>
          \E y \in Sendings : y.c = req /\ y.age = 0 /\ x.own = y.own
    BY <2>3, <2>4 DEF Sendings
  <2> QED
    BY <2>2, <2>5 DEF OwnIsOne
<1>6. CASE Sigterm \/ Sigalrm \/ Elapse \/ PollTimeout \/ UNCHANGED vars
  BY <1>6 DEF Sigterm, Sigalrm, Elapse, PollTimeout, vars, cond, modem, OwnIsOne, Sendings
<1>7. CASE \/ Detect \/ Connect \/ Poll \/ LoopAgain \/ Quit \/ Leave \/ Join
  BY <1>7 DEF Detect, Connect, Poll, LoopAgain, Quit, Leave, Join, OwnIsOne
<1>8. CASE pc' \in {"run", "exited"}
  BY <1>8 DEF OwnIsOne
<1> QED
  BY <1>2, <1>3, <1>4, <1>5, <1>6, <1>7, <1>8, RunSteps DEF Next, MainAct, Timers, ReaderAct, FaultAct

\* Main and the reader agree, whatever is lost, late or unplugged: no request waits
\* for nobody; and as long as no answer is a whole round of transaction ids late, the
\* answer that main takes is that of its request (WaitEnds and AnswerIsOwn).
THEOREM DialerIsSafe == Spec /\ []Timely => []DialerSafe
<1> DEFINE Inv == BaseInv /\ WaitEnds /\ OwnIsOne
<1>1. Init => Inv
  <2>1. Init => WaitEnds /\ OwnIsOne
    BY DEF Init, WaitEnds, OwnIsOne
  <2> QED
    BY <2>1, BaseInit
<1>2. Inv /\ Timely /\ [Next]_vars => Inv'
  BY BaseNext, WaitNext, OwnNext
<1>3. Inv => DialerSafe
  BY DEF BaseInv, Types, OwnIsOne, DialerSafe, AnswerIsOwn
<1> QED
  BY <1>1, <1>2, <1>3, PTL DEF Spec

\* Without any hypothesis, the types are right and no request waits for nobody.
THEOREM NobodyWaits == Spec => [](TypeOK /\ WaitEnds)
<1> DEFINE Inv == BaseInv /\ WaitEnds
<1>1. Init => Inv
  <2>1. Init => WaitEnds
    BY DEF Init, WaitEnds
  <2> QED
    BY <2>1, BaseInit
<1>2. Inv /\ [Next]_vars => Inv'
  BY BaseNext, WaitNext
<1>3. Inv => TypeOK /\ WaitEnds
  BY DEF BaseInv, Types
<1> QED
  BY <1>1, <1>2, <1>3, PTL DEF Spec

-----------------------------------------------------------------------------
(* LeftInv is inductive, when no release is lost.                           *)

\* Without a call, and none to come, there is nothing to release.
LEMMA CleanCut == Clean => Cut
  BY DEF Clean, Cut

\* A step that leaves the modem and its requests alone keeps LeftInv, if it keeps these parts.
LEMMA StillLeft ==
  ASSUME LeftInv, m' = m, inq' = inq, InOrderOfStart', InOrderOfEnd',
         Idle' => Clean, d'.client["v4"] \/ Cut, Over' => Cut,
         Sent' /\ todo' # <<>> /\ todo'[1] = Release => Cut,
         Under({Release}) => ToDo("quit")' \/ Over',
         (\E i \in DOMAIN cmdq' : cmdq'[i] = "QUIT") => Over'
  PROVE  LeftInv'
<1>1. /\ Clean' <=> Clean
      /\ Cut' <=> Cut
      /\ Under({Release})' <=> Under({Release})
  BY DEF Clean, Cut, Under
<1>2. ModemInOrder'
  BY <1>1 DEF LeftInv, ModemInOrder
<1>3. NoneForgotten'
  BY <1>1 DEF NoneForgotten
<1>4. ReleasesLast'
  BY <1>1 DEF LeftInv, ReleasesLast
<1> QED
  BY <1>2, <1>3, <1>4 DEF LeftInv

\* A step that also leaves main's steps and the reader alone keeps LeftInv.
LEMMA SameLeft ==
  ASSUME LeftInv, m' = m, inq' = inq, pc' = pc, todo' = todo, res' = res, rd' = rd,
         d'.client = d.client, (\E i \in DOMAIN cmdq' : cmdq'[i] = "QUIT") => \E i \in DOMAIN cmdq : cmdq[i] = "QUIT"
  PROVE  LeftInv'
<1>1. /\ InOrderOfStart' <=> InOrderOfStart
      /\ Over' <=> Over
      /\ Sent' <=> Sent
      /\ ToDo("quit")' <=> ToDo("quit")
      /\ ToDo("release")' <=> ToDo("release")
      /\ Starting' <=> Starting
  BY DEF InOrderOfStart, Over, Sent, ToDo, Starting
<1>2. InOrderOfEnd'
  BY <1>1 DEF LeftInv, InOrderOfEnd
<1>3. Idle' => Clean
  BY <1>1 DEF Idle, LeftInv, NoneForgotten
<1> QED
  BY <1>1, <1>2, <1>3, StillLeft DEF LeftInv, NoneForgotten, ReleasesLast

\* The steps of main's handler while it neither starts nor ends, and reads nothing.
Watches(x) == ~IsStart(x) /\ x.op \notin {"signal", "quit", "release"}

\* In such a handler no release is to be sent or under way, and it goes on as one.
LEMMA WatchOf ==
  ASSUME LeftInv, BaseInv, pc = "run", todo # <<>>, Here.op \notin StartOps \union EndOps \union {"quit"}
  PROVE  /\ ~Under({Release}) /\ ~Starting /\ ~ToDo("quit") /\ ~ToDo("release")
         /\ \A i \in DOMAIN todo : i # 1 => Watches(todo[i])
<1>1. Here = todo[1] /\ Len(todo) \in Nat \ {0} /\ DOMAIN todo = 1..Len(todo) /\ 1 \in DOMAIN todo
  BY HereOf, TailOf DEF BaseInv, Types
<1>2. \A i \in DOMAIN todo : ~IsStart(todo[i])
  <2> SUFFICES ASSUME NEW i \in DOMAIN todo, IsStart(todo[i]) PROVE FALSE
    OBVIOUS
  <2>1. 1 \in 1..i
    BY <1>1
  <2> QED
    BY <1>1, <2>1 DEF LeftInv, InOrderOfStart
<1>3. \A i \in DOMAIN todo : todo[i].op # "quit"
  <2> SUFFICES ASSUME NEW i \in DOMAIN todo, todo[i].op = "quit" PROVE FALSE
    OBVIOUS
  <2>1. i # 1
    BY <1>1
  <2>2. 1 \in 1..(i - 1)
    BY <1>1, <2>1
  <2> QED
    BY <1>1, <2>2 DEF LeftInv, InOrderOfEnd
<1>4. ~ToDo("quit") /\ ~ToDo("release")
  BY <1>3 DEF LeftInv, InOrderOfEnd, ToDo
<1>5. ~Over
  BY DEF Over
<1>6. ~Under({Release})
  BY <1>4, <1>5 DEF LeftInv, ReleasesLast
<1>7. \A i \in DOMAIN todo : todo[i].op = "signal" => i = 1
  BY DEF BaseInv, Pending
<1> QED
  BY <1>2, <1>3, <1>4, <1>6, <1>7 DEF Starting, ToDo, Watches

\* A step of main that leads to such a handler keeps LeftInv.
LEMMA WatchLeft ==
  ASSUME LeftInv, BaseInv, pc \in {"run", "poll"}, pc' = "run", rd' = rd, m' = m, inq' = inq, cmdq' = cmdq,
         res' = "none" \/ (todo' # <<>> => todo'[1] # Release),
         d'.client = d.client, ~Under({Release}),
         \A i \in DOMAIN todo' : Watches(todo'[i])
  PROVE  LeftInv'
<1>1. ~Over /\ ~Over' /\ ~Starting'
  BY DEF Over, Starting, Watches
<1>2. InOrderOfStart' /\ InOrderOfEnd'
  BY DEF InOrderOfStart, InOrderOfEnd, Watches, ToDo
<1>3. Idle' => Clean
  BY <1>1 DEF Idle, LeftInv, NoneForgotten
<1>4. d'.client["v4"] \/ Cut
  BY DEF LeftInv, NoneForgotten
<1>5. Sent' /\ todo' # <<>> => todo'[1] # Release
  BY DEF Sent
<1>6. ~(\E i \in DOMAIN cmdq' : cmdq'[i] = "QUIT")
  BY <1>1 DEF LeftInv, ReleasesLast
<1> QED
  BY <1>1, <1>2, <1>3, <1>4, <1>5, <1>6, StillLeft

\* A step that adds steps of such a handler only keeps LeftInv.
LEMMA GoLeft ==
  ASSUME LeftInv, BaseInv, pc = "run", todo # <<>>,
         Here.op \notin StartOps \union EndOps \union {"quit"},
         NEW O, NEW s \in Seq(StepsOf(O)), NEW D, Then(s, D), cmdq' = cmdq, D.client = d.client,
         O \cap {"sync", "getid", "signal", "quit", "release"} = {}
  PROVE  LeftInv'
<1>1. /\ todo' = s \o Tail(todo) /\ d' = D /\ res' = "none" /\ pc' = "run" /\ rd' = rd /\ m' = m
      /\ inq' = inq
  BY DEF Then, modem
<1>2. ~Under({Release}) /\ \A i \in DOMAIN todo : i # 1 => Watches(todo[i])
  BY WatchOf
<1>3. /\ Len(todo) \in Nat \ {0} /\ Len(s) \in Nat /\ DOMAIN todo = 1..Len(todo)
      /\ DOMAIN todo' = 1..(Len(s) + (Len(todo) - 1))
      /\ \A k \in 1..Len(s) : todo'[k].op \in O
      /\ \A k \in (Len(s) + 1)..(Len(s) + (Len(todo) - 1)) : todo'[k] = todo[k - Len(s) + 1]
  <2>1. Types
    BY DEF BaseInv
  <2> QED
    BY <1>1, <2>1, ThenOf, Zenon
<1>4. \A x : x.op \in O => Watches(x)
  BY DEF Watches, IsStart, GetId, Step
<1>5. \A i \in DOMAIN todo' : Watches(todo'[i])
  <2> TAKE i \in DOMAIN todo'
  <2>1. CASE i \in 1..Len(s)
    BY <1>3, <1>4, <2>1
  <2>2. CASE i \notin 1..Len(s)
    <3>1. i \in (Len(s) + 1)..(Len(s) + (Len(todo) - 1))
      BY <1>3, <2>2
    <3>2. i - Len(s) + 1 \in DOMAIN todo /\ i - Len(s) + 1 # 1
      BY <1>3, <3>1
    <3>3. todo'[i] = todo[i - Len(s) + 1]
      BY <1>3, <3>1
    <3> QED
      BY <1>2, <3>2, <3>3
  <2> QED
    BY <2>1, <2>2
<1> QED
  BY <1>1, <1>2, <1>5, WatchLeft

\* A step of main, but the last of SIGTERM, that adds none keeps LeftInv, if the client of the
\* call is known after its request only, and not after its release.
LEMMA PopLeft ==
  ASSUME LeftInv, BaseInv, pc = "run", todo # <<>>, Here.op \notin {"quit", "signal"},
         NEW D, Go(<<>>, D),
         D.client["v4"] => d.client["v4"] \/ Here.op = "getid",
         D.client["v4"] => Here # Release,
         D.client["v4"] \/ Cut
  PROVE  LeftInv'
<1>1. /\ todo' = <<>> \o Tail(todo) /\ d' = D /\ res' = "none" /\ pc' = "run" /\ rd' = rd /\ m' = m
      /\ inq' = inq /\ cmdq' = cmdq
  BY DEF Go, Then, modem, pipes
<1>2. /\ todo \in Seq(Steps) /\ Len(todo) \in Nat \ {0} /\ DOMAIN todo = 1..Len(todo) /\ Here = todo[1]
      /\ Tail(todo) \in Seq(Steps)
      /\ \A i \in 1..(Len(todo) - 1) : Tail(todo)[i] = todo[i + 1]
      /\ DOMAIN Tail(todo) = 1..(Len(todo) - 1)
  BY TailOf, HereOf DEF BaseInv, Types
<1>3. todo' = Tail(todo)
  BY <1>1, <1>2, ConcatEmptySeq
<1> DEFINE n == Len(todo)
<1>4. /\ n \in Nat \ {0} /\ DOMAIN todo = 1..n /\ DOMAIN todo' = 1..(n - 1) /\ Len(todo') = n - 1
      /\ \A i \in 1..(n - 1) : todo'[i] = todo[i + 1]
  BY <1>2, <1>3
<1> HIDE DEF n
<1>5. /\ \A i \in 1..(n - 1) : i + 1 \in 1..n /\ i + 1 # 1
      /\ \A i \in 2..n : i - 1 \in 1..(n - 1) /\ (i - 1) + 1 = i
  BY <1>4
<1>6. \A i \in DOMAIN todo' : i + 1 \in DOMAIN todo /\ i + 1 # 1 /\ todo'[i] = todo[i + 1]
  BY <1>4, <1>5, Zenon
<1>7. ~Over /\ ~Over'
  BY <1>1 DEF Over
<1>8. InOrderOfStart'
  <2> SUFFICES ASSUME NEW i \in DOMAIN todo', IsStart(todo'[i]), NEW j \in 1..i
               PROVE  todo'[j].op \in StartOps
    BY DEF InOrderOfStart
  <2>1. IsStart(todo[i + 1]) /\ i + 1 \in DOMAIN todo
    BY <1>6
  <2>2. j + 1 \in 1..(i + 1) /\ j \in DOMAIN todo'
    BY <1>4
  <2>3. todo[j + 1].op \in StartOps
    BY <2>1, <2>2 DEF LeftInv, InOrderOfStart
  <2> QED
    BY <1>6, <2>2, <2>3
<1>9. \A i \in DOMAIN todo' : todo'[i].op # "signal"
  BY <1>6 DEF BaseInv, Pending
<1>10. \A i \in DOMAIN todo' : todo'[i].op = "quit" =>
         /\ \A j \in 1..(i - 1) : todo'[j].op \in EndOps
         /\ \A j \in (i + 1)..Len(todo') : todo'[j].op = "event"
         /\ d'.client["v4"] => \E j \in 1..(i - 1) : todo'[j] = Release
  <2> SUFFICES ASSUME NEW i \in DOMAIN todo', todo'[i].op = "quit"
               PROVE  /\ \A j \in 1..(i - 1) : todo'[j].op \in EndOps
                      /\ \A j \in (i + 1)..Len(todo') : todo'[j].op = "event"
                      /\ d'.client["v4"] => \E j \in 1..(i - 1) : todo'[j] = Release
    OBVIOUS
  <2>1. i \in 1..(n - 1) /\ i + 1 \in DOMAIN todo /\ todo[i + 1].op = "quit"
    BY <1>4, <1>6
  <2>2. /\ \A j \in 1..i : todo[j].op \in EndOps
        /\ \A j \in (i + 2)..n : todo[j].op = "event"
        /\ d.client["v4"] => \E j \in 1..i : todo[j] = Release
    <3>1. (i + 1) - 1 = i /\ (i + 1) + 1 = i + 2
      BY <2>1
    <3> QED
      BY <2>1, <3>1 DEF LeftInv, InOrderOfEnd, n
  <2>3. \A j \in 1..(i - 1) : j \in 1..(n - 1) /\ j + 1 \in 1..i
    BY <1>4, <2>1
  <2>4. \A j \in (i + 1)..(n - 1) : j \in 1..(n - 1) /\ j + 1 \in (i + 2)..n
    BY <1>4, <2>1
  <2>5. ASSUME d'.client["v4"] PROVE \E j \in 1..(i - 1) : todo'[j] = Release
    <3>1. 1 \in 1..i
      BY <1>4, <2>1
    <3>2. Here.op \in EndOps
      BY <1>2, <2>2, <3>1
    <3>3. d.client["v4"] /\ Here # Release
      BY <1>1, <2>5, <3>2 DEF EndOps
    <3>4. PICK j \in 1..i : todo[j] = Release
      BY <2>2, <3>3
    <3>5. j # 1
      BY <1>2, <3>3, <3>4
    <3>6. j - 1 \in 1..(i - 1) /\ (j - 1) + 1 = j /\ j - 1 \in 1..(n - 1)
      BY <1>4, <2>1, <3>5
    <3>7. todo'[j - 1] = Release
      BY <1>4, <3>4, <3>6
    <3> QED
      BY <3>6, <3>7
  <2> QED
    BY <1>4, <2>2, <2>3, <2>4, <2>5
<1>11. \A op : op # Here.op => (ToDo(op) <=> ToDo(op)')
  <2> SUFFICES ASSUME NEW op, op # Here.op PROVE ToDo(op) <=> ToDo(op)'
    OBVIOUS
  <2>1. ASSUME NEW i \in DOMAIN todo, todo[i].op = op PROVE ToDo(op)'
    <3>1. i # 1
      BY <1>2, <2>1
    <3>2. i - 1 \in DOMAIN todo' /\ (i - 1) + 1 = i
      BY <1>4, <3>1
    <3>3. todo'[i - 1] = todo[i]
      BY <1>6, <3>2
    <3> QED
      BY <2>1, <3>2, <3>3 DEF ToDo
  <2>2. ToDo(op)' => ToDo(op)
    BY <1>6 DEF ToDo
  <2> QED
    BY <2>1, <2>2 DEF ToDo
<1>12. ToDo("release")' => ToDo("release")
  BY <1>6 DEF ToDo
<1>13. InOrderOfEnd'
  <2>1. ToDo("release")' => ToDo("quit")'
    BY <1>11, <1>12 DEF LeftInv, InOrderOfEnd
  <2>2. pc' # "join"
    BY <1>1
  <2> QED
    BY <1>9, <1>10, <2>1, <2>2 DEF InOrderOfEnd
<1>14. Idle' => Clean
  <2>1. Starting' => Starting
    BY <1>6 DEF Starting
  <2> QED
    BY <1>1, <1>7, <2>1 DEF Idle, LeftInv, NoneForgotten
<1>15. ~Sent'
  BY <1>1 DEF Sent
<1>16. Under({Release}) => ToDo("quit")'
  BY <1>7, <1>11 DEF LeftInv, ReleasesLast
<1>17. ~(\E i \in DOMAIN cmdq' : cmdq'[i] = "QUIT")
  BY <1>1, <1>7 DEF LeftInv, ReleasesLast
<1> QED
  BY <1>1, <1>7, <1>8, <1>13, <1>14, <1>15, <1>16, <1>17, StillLeft

\* The steps of the start keep LeftInv: when one fails the dialer ends, and has dialed nothing.
LEMMA StartLeft ==
  ASSUME LeftInv, BaseInv, Sync \/ GetClientID
  PROVE  LeftInv'
<1>1. pc = "run" /\ todo # <<>> /\ Here = todo[1] /\ 1 \in DOMAIN todo /\ Types
      /\ (Here.op = "getid" => Here.arg \in Clients) /\ (Here.op = "sync" => Here.arg \in 1..SyncTries)
  <2>1. pc = "run" /\ todo # <<>> /\ Types
    BY DEF Sync, GetClientID, Has, At, BaseInv
  <2> QED
    BY <2>1, HereOf
<1>2. Starting => Cut /\ Clean
  BY CleanCut DEF LeftInv, NoneForgotten, Idle
<1>3. CASE GetClientID
  <2>1. Here.op = "getid" /\ Go(<<>>, [d EXCEPT !.client[Here.arg] = res = "ok"])
    BY <1>3 DEF GetClientID, Has, At
  <2> DEFINE D == [d EXCEPT !.client[Here.arg] = res = "ok"]
  <2>2. Here # Release
    BY <2>1 DEF Release, Step
  <2>3. D.client["v4"] \/ Cut
    <3>1. CASE Here.arg = "v4"
      <4>1. Here = GetId
        <5>1. \A x \in Steps : x.op = "getid" /\ x.arg = "v4" => x = [op |-> "getid", arg |-> "v4"]
          BY DEF Steps
        <5>2. Here \in Steps
          BY <1>1, HereOf
        <5> QED
          BY <2>1, <3>1, <5>1, <5>2 DEF GetId, Step
      <4>2. Starting
        BY <1>1, <4>1 DEF Starting, IsStart
      <4> QED
        BY <1>2, <4>2
    <3>2. CASE Here.arg # "v4"
      <4>1. d \in Globals
        BY <1>1 DEF Types
      <4>2. D.client["v4"] = d.client["v4"]
        BY <3>2, <4>1 DEF Globals
      <4> QED
        BY <4>2 DEF LeftInv, NoneForgotten
    <3> QED
      BY <3>1, <3>2
  <2> HIDE DEF D
  <2> QED
    BY <1>1, <2>1, <2>2, <2>3, PopLeft DEF D
<1>4. CASE Sync
  <2>1. Here.op = "sync" /\ Starting
    BY <1>1, <1>4 DEF Sync, Has, At, Starting, IsStart
  <2>2. Here # Release
    BY <2>1 DEF Release, Step
  <2>3. CASE Go(<<>>, d)
    BY <1>1, <1>2, <2>1, <2>2, <2>3, PopLeft
  <2>4. CASE Here.arg < SyncTries /\ Go(<<Step("sync", Here.arg + 1)>>, d)
    <3> DEFINE x == Step("sync", Here.arg + 1)
               O == {"sync"}
    <3>1. x \in StepsOf(O) /\ x.op = "sync"
      <4>1. Here.arg + 1 \in 1..SyncTries
        BY <1>1, <2>1, <2>4, DialerAssumption
      <4> QED
        BY <4>1, StepIn DEF Step
    <3>2. todo' = <<x>> \o Tail(todo) /\ d' = d /\ res' = "none" /\ pc' = pc /\ m' = m /\ inq' = inq
          /\ rd' = rd /\ cmdq' = cmdq
      BY <2>4 DEF Go, Then, modem, pipes
    <3> HIDE DEF x, O
    <3>3. <<x>> \in Seq(StepsOf(O)) /\ Len(<<x>>) = 1 /\ <<x>>[1] = x
      BY <3>1
    <3>4. /\ Len(todo) \in Nat \ {0} /\ DOMAIN todo = 1..Len(todo)
          /\ DOMAIN todo' = 1..(1 + (Len(todo) - 1)) /\ Len(todo') = 1 + (Len(todo) - 1)
          /\ \A i \in 1..1 : todo'[i] = <<x>>[i]
          /\ \A i \in (1 + 1)..(1 + (Len(todo) - 1)) : todo'[i] = todo[i - 1 + 1]
      BY <1>1, <3>2, <3>3, ThenOf
    <3>5. /\ DOMAIN todo' = DOMAIN todo /\ todo'[1] = x /\ Len(todo') = Len(todo)
          /\ \A i \in DOMAIN todo : i # 1 => todo'[i] = todo[i]
      BY <3>3, <3>4
    <3>6. \A i \in DOMAIN todo : todo'[i].op = todo[i].op
      BY <1>1, <2>1, <3>1, <3>5
    <3>7. InOrderOfStart'
      <4> SUFFICES ASSUME NEW i \in DOMAIN todo', IsStart(todo'[i]), NEW j \in 1..i
                   PROVE  todo'[j].op \in StartOps
        BY DEF InOrderOfStart
      <4>1. IsStart(todo[i])
        BY <1>1, <2>1, <3>5 DEF IsStart
      <4>2. j \in DOMAIN todo
        BY <3>4, <3>5
      <4> QED
        BY <3>5, <3>6, <4>1, <4>2 DEF LeftInv, InOrderOfStart
    <3>8. ~Over /\ ~Over' /\ ~Sent'
      BY <1>1, <3>2 DEF Over, Sent
    <3>9. \A op : ToDo(op)' <=> ToDo(op)
      BY <3>5, <3>6, Zenon DEF ToDo
    <3>10. ~ToDo("quit") /\ ~ToDo("release") /\ ~Under({Release})
      <4>1. Here.op \notin EndOps \union {"quit"}
        BY <2>1 DEF EndOps
      <4>2. \A i \in DOMAIN todo : todo[i].op # "quit"
        <5> SUFFICES ASSUME NEW i \in DOMAIN todo, todo[i].op = "quit" PROVE FALSE
          OBVIOUS
        <5>1. i # 1 /\ 1 \in 1..(i - 1)
          BY <1>1, <3>4, <4>1
        <5> QED
          BY <1>1, <4>1, <5>1 DEF LeftInv, InOrderOfEnd
      <4> QED
        BY <3>8, <4>2 DEF LeftInv, InOrderOfEnd, ReleasesLast, ToDo
    <3>11. InOrderOfEnd'
      <4>1. \A i \in DOMAIN todo' : todo'[i].op # "quit"
        BY <3>9, <3>10 DEF ToDo
      <4>2. \A i \in DOMAIN todo' : todo'[i].op # "signal"
        <5> SUFFICES ASSUME NEW i \in DOMAIN todo', todo'[i].op = "signal" PROVE FALSE
          OBVIOUS
        <5>1. todo[i].op = "signal" /\ i \in DOMAIN todo
          BY <3>5, <3>6
        <5>2. i = 1
          BY <5>1 DEF BaseInv, Pending
        <5> QED
          BY <1>1, <2>1, <5>1, <5>2
      <4> QED
        BY <3>9, <3>10, <4>1, <4>2 DEF InOrderOfEnd, ToDo
    <3>12. ~(\E i \in DOMAIN cmdq' : cmdq'[i] = "QUIT")
      BY <3>2, <3>8 DEF LeftInv, ReleasesLast
    <3> QED
      BY <1>2, <2>1, <3>2, <3>7, <3>8, <3>10, <3>11, <3>12, StillLeft
  <2>5. CASE pc' = "exited" /\ UNCHANGED <<todo, res, cond, pipes, d, rd, modem, env>>
    <3>1. todo' = todo /\ res' = res /\ d' = d /\ m' = m /\ inq' = inq /\ cmdq' = cmdq
      BY <2>5 DEF modem, pipes
    <3>2. Over' /\ ~Sent'
      BY <2>5 DEF Over, Sent
    <3>3. InOrderOfStart' /\ InOrderOfEnd'
      BY <2>5, <3>1 DEF LeftInv, InOrderOfStart, InOrderOfEnd, ToDo
    <3> QED
      BY <1>2, <2>1, <3>1, <3>2, <3>3, StillLeft
  <2> QED
    BY <1>4, <2>3, <2>4, <2>5 DEF Sync
<1> QED
  BY <1>3, <1>4

\* The release of a client keeps LeftInv: it is done once it has been sent.
LEMMA ReleaseLeft ==
  ASSUME LeftInv, BaseInv, ReleaseClientID
  PROVE  LeftInv'
<1>1. /\ pc = "run" /\ todo # <<>> /\ Here.op = "release" /\ (Asks => res # "none")
      /\ Go(<<>>, [d EXCEPT !.client[Here.arg] = FALSE])
  BY DEF ReleaseClientID, Has, At
<1> DEFINE D == [d EXCEPT !.client[Here.arg] = FALSE]
<1>2. d \in Globals /\ Here.arg \in Clients /\ Here \in Steps /\ Here = todo[1]
  BY <1>1, HereOf DEF BaseInv, Types
<1>3. /\ D.client["v4"] => d.client["v4"] /\ Here.arg # "v4"
      /\ Here.arg # "v4" => D.client["v4"] = d.client["v4"]
  <2>0. D.client = [d.client EXCEPT ![Here.arg] = FALSE] /\ DOMAIN d.client = Clients
    BY <1>2 DEF Globals
  <2> HIDE DEF D
  <2>1. Here.arg # "v4" => D.client["v4"] = d.client["v4"]
    BY <1>2, <2>0 DEF Clients, Both
  <2>2. Here.arg = "v4" => D.client["v4"] = FALSE
    BY <1>2, <2>0
  <2> QED
    BY <2>1, <2>2
<1>4. Release.arg = "v4"
  BY DEF Release, Step
<1>5. D.client["v4"] \/ Cut
  <2>1. CASE Here.arg = "v4"
    <3>1. Here = Release
      <4>1. \A x \in Steps : x.op = "release" /\ x.arg = "v4" => x = [op |-> "release", arg |-> "v4"]
        BY DEF Steps
      <4> QED
        BY <1>1, <1>2, <2>1, <4>1 DEF Release, Step
    <3>2. Asks
      BY <1>1 DEF Asks, ClientOf
    <3>3. Sent
      BY <1>1, <3>2 DEF Sent
    <3> QED
      BY <1>1, <1>2, <3>1, <3>3 DEF LeftInv, NoneForgotten
  <2>2. CASE Here.arg # "v4"
    BY <1>3, <2>2 DEF LeftInv, NoneForgotten
  <2> QED
    BY <2>1, <2>2
<1> HIDE DEF D
<1> QED
  BY <1>1, <1>3, <1>4, <1>5, PopLeft DEF D

\* The steps that the handlers of a signal, and the loop for the SIM, add while they go on.
WatchOps ==
  {"sim", "link0", "link1", "reg", "dial", "setup", "setup2", "getip", "connected", "mode", "alarm",
   "stop", "ended", "kick"}

\* The steps that add some are such steps, and add such steps.
LEMMA WatchSteps ==
  ASSUME BaseInv, Redial \/ Dial \/ SetupDone \/ Radio \/ Check \/ Judge \/ LinkUp \/ SimStatus
  PROVE  /\ pc = "run" /\ todo # <<>> /\ Here.op \notin StartOps \union EndOps \union {"quit"}
         /\ \E s \in Seq(StepsOf(WatchOps)) : \E D : Go(s, D) /\ D.client = d.client
<1>1. d \in Globals /\ Types /\ todo # <<>> /\ pc = "run"
      /\ Here.op \in {"redial", "dial", "setup", "setup2", "radio", "check", "judge", "link1", "sim"}
  BY DEF BaseInv, Types, Redial, Dial, SetupDone, Radio, Check, Judge, LinkUp, SimStatus, Has, At
<1>2. Here.op \notin StartOps \union EndOps \union {"quit"}
  BY <1>1 DEF StartOps, EndOps
<1>3. Here.op \in {"redial", "dial", "setup", "setup2", "check"} => Here.arg \in Both
  BY <1>1, HereOf DEF CallOps
<1> DEFINE S == StepsOf(WatchOps)
           f == Here.arg
<1>4. \A a \in Both : /\ Step("setup", a) \in S /\ Step("setup2", a) \in S /\ Step("dial", a) \in S
                      /\ Step("getip", a) \in S /\ Step("connected", a) \in S
                      /\ Step("stop", a) \in S /\ Step("ended", a) \in S
  BY StepIn DEF CallOps, WatchOps
<1>5. /\ Do("link0") \in S /\ Do("link1") \in S /\ Do("reg") \in S /\ Do("alarm") \in S /\ Do("kick") \in S
      /\ Step("mode", "off") \in S /\ Step("mode", "on") \in S /\ Do("sim") \in S
  BY StepIn DEF PlainOps, WatchOps
<1> HIDE DEF S
<1>6. CASE Redial
  <2> DEFINE s == When(d.status[f] # "conn",
                       When(f = "v4" \/ "v4" \notin d.fam, <<Do("link0")>>)
                         \o <<Do("reg"), Step("dial", f)>>)
  <2>1. Go(s, d) /\ f \in Both
    BY <1>3, <1>6 DEF Redial, At
  <2>2. s \in Seq(S)
    BY <1>4, <1>5, <2>1, ListIn
  <2> HIDE DEF s
  <2> QED
    BY <1>1, <1>2, <2>1, <2>2, Zenon DEF S
<1>7. CASE Dial
  <2> DEFINE s == When(d.attached, <<Step("setup", f)>>)
  <2>1. Go(s, d) /\ f \in Both
    BY <1>3, <1>7 DEF Dial, At
  <2>2. s \in Seq(S)
    BY <1>4, <2>1, ListIn
  <2> HIDE DEF s
  <2> QED
    BY <1>1, <1>2, <2>1, <2>2, Zenon DEF S
<1>8. CASE SetupDone
  <2> DEFINE s == <<Step("getip", f), Step("connected", f)>>
             D == [d EXCEPT !.hdl[f] = @ \/ res = "ok"]
  <2>1. Go(s, D) /\ f \in Both
    BY <1>3, <1>8 DEF SetupDone, Has, At
  <2>2. s \in Seq(S)
    BY <1>4, <2>1, ListIn
  <2>3. D.client = d.client
    BY <1>1 DEF Globals
  <2> HIDE DEF s, D
  <2> QED
    BY <1>1, <1>2, <2>1, <2>2, <2>3, Zenon DEF S
<1>9. CASE Radio
  <2> DEFINE now == d.fail = "late" /\ \E a \in d.fam : d.status[a] # "conn"
             s == When(now, <<Step("mode", "off"), Step("mode", "on")>>) \o <<Do("alarm")>>
             D == IF now THEN [d EXCEPT !.fail = "used"] ELSE d
  <2>1. Go(s, D)
    BY <1>9 DEF Radio
  <2>2. s \in Seq(S)
    BY <1>5, ListIn
  <2>3. D.client = d.client
    BY <1>1 DEF Globals
  <2> HIDE DEF s, D
  <2> QED
    BY <1>1, <1>2, <2>1, <2>2, <2>3, Zenon DEF S
<1>10. CASE Check
  <2> DEFINE n == d.tmo + 1
             same == CASE res = "ok" -> d.local[f] = m.addr[f]
                       [] res \in {"none", "abort"} -> d.local[f] = 0
                       [] res = "timeout" -> n < 3
                       [] OTHER -> FALSE
             tmo == CASE res = "timeout" -> Min({n, 3})
                      [] res \in {"ok", "none", "abort"} -> 0
                      [] OTHER -> d.tmo
             s == When(~same, <<Step("stop", f), Step("ended", f)>>)
             D == [d EXCEPT !.tmo = tmo]
  <2>1. Go(<<>>, d) \/ Go(s, D)
    BY <1>10 DEF Check
  <2>2. f \in Both
    BY <1>3, <1>10 DEF Check, Has, At
  <2> HIDE DEF same
  <2>3. s \in Seq(S) /\ <<>> \in Seq(S)
    BY <1>4, <2>2, ListIn
  <2> HIDE DEF tmo
  <2>4. D.client = d.client
    BY <1>1 DEF Globals
  <2> HIDE DEF s, D
  <2> QED
    BY <1>1, <1>2, <2>1, <2>3, <2>4, Zenon DEF S
<1>11. CASE Judge
  <2> DEFINE st == [a \in Both |-> IF a \in d.fam THEN d.status[a] ELSE "disc"]
             s1 == When(\A a \in Both : st[a] = "disc", <<Do("link0")>>)
             s2 == When(\E a \in Both : st[a] = "conn", <<Do("link1")>>)
             s3 == When(\E a \in d.fam : st[a] = "disc", <<Do("kick")>>)
             D == [d EXCEPT !.status = st]
  <2>1. Go(s1 \o s2 \o s3, D)
    BY <1>11 DEF Judge
  <2> HIDE DEF st
  <2>2. D.client = d.client
    BY <1>1 DEF Globals
  <2>3. <<Do("link0")>> \in Seq(S) /\ <<Do("link1")>> \in Seq(S) /\ <<Do("kick")>> \in Seq(S)
    BY <1>5, ListIn
  <2>4. s1 \in Seq(S) /\ s2 \in Seq(S) /\ s3 \in Seq(S)
    BY <2>3, ListIn, Zenon
  <2> HIDE DEF s1, s2, s3
  <2>5. s1 \o s2 \o s3 \in Seq(S)
    BY <2>4, ListIn
  <2> HIDE DEF D
  <2> QED
    BY <1>1, <1>2, <2>1, <2>2, <2>5, Zenon DEF S
<1>12. CASE LinkUp
  <2> DEFINE s == When(d.link # 1, Each("getip", d.fam))
             D == [d EXCEPT !.link = 1]
  <2>1. Go(s, D)
    BY <1>12 DEF LinkUp
  <2>2. s \in Seq(S)
    BY <1>4, EachOf, WhenOf DEF Both
  <2>3. D.client = d.client
    BY <1>1 DEF Globals
  <2> HIDE DEF s, D
  <2> QED
    BY <1>1, <1>2, <2>1, <2>2, <2>3, Zenon DEF S
<1>13. CASE SimStatus
  <2> DEFINE s == When(res = "unsup", <<Do("sim")>>)
  <2>1. Go(s, d)
    BY <1>13 DEF SimStatus
  <2>2. s \in Seq(S)
    BY <1>5, ListIn
  <2> HIDE DEF s
  <2> QED
    BY <1>1, <1>2, <2>1, <2>2, Zenon DEF S
<1> QED
  BY <1>6, <1>7, <1>8, <1>9, <1>10, <1>11, <1>12, <1>13

\* The steps of main's handlers between its start and its end keep LeftInv.
LEMMA HandlerLeft ==
  ASSUME LeftInv, BaseInv,
         \/ Redial \/ Dial \/ SetupDone \/ Radio \/ Check \/ Judge \/ LinkUp \/ SimStatus
         \/ Plain \/ Registration \/ Connected \/ SetupFailsAgain \/ SetAlarm \/ Query \/ Stop
         \/ Ended \/ LinkDown \/ GetIPAddress \/ Refresh \/ RedialNow \/ Kick
  PROVE  LeftInv'
<1>1. d \in Globals /\ (d.client["v4"] \/ Cut)
  BY DEF BaseInv, Types, LeftInv, NoneForgotten
<1>2. CASE Redial \/ Dial \/ SetupDone \/ Radio \/ Check \/ Judge \/ LinkUp \/ SimStatus
  <2>1. /\ pc = "run" /\ todo # <<>> /\ Here.op \notin StartOps \union EndOps \union {"quit"}
        /\ \E s \in Seq(StepsOf(WatchOps)) : \E D : Go(s, D) /\ D.client = d.client
    BY <1>2, WatchSteps
  <2>2. PICK s \in Seq(StepsOf(WatchOps)) : \E D : Go(s, D) /\ D.client = d.client
    BY <2>1
  <2>3. PICK D : Go(s, D) /\ D.client = d.client
    BY <2>2
  <2>4. Then(s, D) /\ cmdq' = cmdq
    BY <2>3 DEF Go, pipes
  <2>5. WatchOps \cap {"sync", "getid", "signal", "quit", "release"} = {}
    BY DEF WatchOps
  <2> QED
    BY <2>1, <2>3, <2>4, <2>5, GoLeft
<1>3. CASE \/ Plain \/ Registration \/ Connected \/ SetupFailsAgain \/ SetAlarm \/ Query \/ Stop
           \/ Ended \/ LinkDown \/ GetIPAddress
  <2>1. pc = "run" /\ todo # <<>> /\ Here.op \notin {"quit", "signal", "release"}
    BY <1>3 DEF Plain, Registration, Connected, SetupFailsAgain, SetAlarm, Query, Stop, Ended, LinkDown,
                GetIPAddress, Has, At
  <2>2. \E D : Go(<<>>, D) /\ D.client = d.client
    <3>1. CASE Plain
      BY <3>1 DEF Plain
    <3>2. CASE Registration
      <4> DEFINE D == [d EXCEPT !.attached = res = "att"]
      <4>1. Go(<<>>, D)
        BY <3>2 DEF Registration
      <4>2. D.client = d.client
        BY <1>1 DEF Globals
      <4> HIDE DEF D
      <4> QED
        BY <4>1, <4>2
    <3>3. CASE Connected
      <4> DEFINE D == [d EXCEPT !.status[Here.arg] = "conn", !.fail = "zero"]
      <4>1. Go(<<>>, D)
        BY <3>3 DEF Connected
      <4>2. D.client = d.client
        BY <1>1 DEF Globals
      <4> HIDE DEF D
      <4> QED
        BY <4>1, <4>2
    <3>4. CASE SetupFailsAgain
      <4> DEFINE D == FirstFail
      <4>1. Go(<<>>, D)
        BY <3>4 DEF SetupFailsAgain
      <4>2. D.client = d.client
        BY <1>1 DEF Globals, FirstFail
      <4> HIDE DEF D
      <4> QED
        BY <4>1, <4>2
    <3>5. CASE SetAlarm
      <4> DEFINE D == [d EXCEPT !.alarm = TRUE]
      <4>1. Go(<<>>, D)
        BY <3>5 DEF SetAlarm
      <4>2. D.client = d.client
        BY <1>1 DEF Globals
      <4> HIDE DEF D
      <4> QED
        BY <4>1, <4>2
    <3>6. CASE Query
      <4> DEFINE D == CASE res = "up" -> [d EXCEPT !.status[Here.arg] = "conn"]
                    [] res = "down" -> [d EXCEPT !.status[Here.arg] = "disc", !.hdl[Here.arg] = FALSE]
                    [] OTHER -> d
      <4>1. Go(<<>>, D)
        BY <3>6 DEF Query
      <4>2. D.client = d.client
        BY <1>1 DEF Globals
      <4> HIDE DEF D
      <4> QED
        BY <4>1, <4>2
    <3>7. CASE Stop
      <4> DEFINE D == IF res = "ok" THEN [d EXCEPT !.hdl[Here.arg] = FALSE] ELSE d
      <4>1. Go(<<>>, D)
        BY <3>7 DEF Stop
      <4>2. D.client = d.client
        BY <1>1 DEF Globals
      <4> HIDE DEF D
      <4> QED
        BY <4>1, <4>2
    <3>8. CASE Ended
      <4> DEFINE D == [d EXCEPT !.status[Here.arg] = "disc"]
      <4>1. Go(<<>>, D)
        BY <3>8 DEF Ended
      <4>2. D.client = d.client
        BY <1>1 DEF Globals
      <4> HIDE DEF D
      <4> QED
        BY <4>1, <4>2
    <3>9. CASE LinkDown
      <4> DEFINE D == [d EXCEPT !.link = 0]
      <4>1. Go(<<>>, D)
        BY <3>9 DEF LinkDown
      <4>2. D.client = d.client
        BY <1>1 DEF Globals
      <4> HIDE DEF D
      <4> QED
        BY <4>1, <4>2
    <3>10. CASE GetIPAddress
      <4> DEFINE D == [d EXCEPT !.local[Here.arg] = IF res = "ok" THEN m.addr[Here.arg] ELSE 0]
      <4>1. Go(<<>>, D)
        BY <3>10 DEF GetIPAddress
      <4>2. D.client = d.client
        BY <1>1 DEF Globals
      <4> HIDE DEF D
      <4> QED
        BY <4>1, <4>2
    <3> QED
      BY <1>3, <3>1, <3>2, <3>3, <3>4, <3>5, <3>6, <3>7, <3>8, <3>9, <3>10
  <2>3. PICK D : Go(<<>>, D) /\ D.client = d.client
    BY <2>2
  <2>4. Here # Release
    BY <2>1 DEF Release, Step
  <2> QED
    BY <1>1, <2>1, <2>3, <2>4, PopLeft
<1>4. CASE Refresh \/ RedialNow \/ Kick
  <2>1. /\ pc = "run" /\ todo # <<>> /\ Here.op \notin StartOps \union EndOps \union {"quit"}
        /\ Then(<<>>, d) /\ cmdq' = cmdq
    BY <1>4 DEF Refresh, RedialNow, Kick, Tell, At, StartOps, EndOps
  <2> DEFINE O == {}
  <2>2. <<>> \in Seq(StepsOf(O)) /\ O \cap {"sync", "getid", "signal", "quit", "release"} = {}
    OBVIOUS
  <2> HIDE DEF O
  <2> QED
    BY <2>1, <2>2, GoLeft
<1> QED
  BY <1>2, <1>3, <1>4

\* A refused call keeps LeftInv: main goes on without IPv6 and leaves the handler, or tries
\* again, or gives up.
LEMMA SetupFailsLeft ==
  ASSUME LeftInv, BaseInv, SetupFails
  PROVE  LeftInv'
<1>1. d \in Globals /\ Types /\ Here.op = "setup" /\ todo # <<>> /\ pc = "run"
      /\ (d.client["v4"] \/ Cut)
  BY DEF BaseInv, Types, SetupFails, Has, At, LeftInv, NoneForgotten
<1>2. Here.arg \in Both /\ Here.op \notin StartOps \union EndOps \union {"quit"} /\ Here # Release
      /\ Here = todo[1]
  BY <1>1, HereOf DEF CallOps, StartOps, EndOps, Release, Step
<1>3. CASE Go(<<Step("setup2", Here.arg)>>, d)
  <2>1. Step("setup2", Here.arg) \in StepsOf(WatchOps)
    BY <1>2, StepIn DEF CallOps, WatchOps
  <2> DEFINE s == <<Step("setup2", Here.arg)>>
  <2>2. s \in Seq(StepsOf(WatchOps))
    BY <2>1, ListIn
  <2>3. Then(s, d) /\ cmdq' = cmdq
    BY <1>3 DEF Go, pipes
  <2>4. WatchOps \cap {"sync", "getid", "signal", "quit", "release"} = {}
    BY DEF WatchOps
  <2> HIDE DEF s
  <2> QED
    BY <1>1, <1>2, <2>2, <2>3, <2>4, GoLeft
<1>4. CASE Go(<<>>, FirstFail)
  <2>1. FirstFail.client = d.client
    BY <1>1 DEF Globals, FirstFail
  <2>2. FirstFail.client["v4"] <=> d.client["v4"]
    BY <2>1
  <2>3. Here.op \notin {"quit", "signal"}
    BY <1>1
  <2> QED
    BY <1>1, <1>2, <1>4, <2>2, <2>3, PopLeft
<1>5. CASE /\ d' = [d EXCEPT !.fam = @ \ {"v6"}] /\ res' = "none"
           /\ todo' = Tail(Tail(todo))
           /\ UNCHANGED <<pc, cond, pipes, rd, modem, env>>
  <2>1. todo \in Seq(Steps) /\ todo[Len(todo)].op # "setup"
    BY <1>1 DEF BaseInv, Types, Handler, DialOps
  <2>2. /\ Tail(todo) \in Seq(Steps) /\ Len(Tail(todo)) = Len(todo) - 1 /\ Len(todo) \in Nat \ {0}
        /\ \A i \in 1..(Len(todo) - 1) : Tail(todo)[i] = todo[i + 1]
        /\ DOMAIN todo = 1..Len(todo)
    BY <1>1, <2>1, TailOf
  <2>3. Len(todo) # 1
    BY <1>1, <1>2, <2>1
  <2>4. Len(todo) - 1 \in Nat \ {0}
    BY <2>2, <2>3
  <2>5. Tail(todo) # <<>>
    BY <2>2, <2>4
  <2>6. /\ \A i \in 1..(Len(todo) - 2) : Tail(Tail(todo))[i] = Tail(todo)[i + 1]
        /\ DOMAIN todo' = 1..(Len(todo) - 2)
    BY <1>5, <2>2, <2>5, TailOf
  <2>7. \A i \in 1..(Len(todo) - 2) : todo'[i] = todo[i + 2] /\ i + 2 \in DOMAIN todo /\ i + 2 # 1
    BY <1>5, <2>2, <2>6
  <2>8. ~Under({Release}) /\ \A i \in DOMAIN todo : i # 1 => Watches(todo[i])
    BY <1>1, <1>2, WatchOf
  <2>9. \A i \in DOMAIN todo' : Watches(todo'[i])
    BY <2>6, <2>7, <2>8
  <2>10. d'.client = d.client
    BY <1>1, <1>5 DEF Globals
  <2>11. pc' = "run" /\ rd' = rd /\ m' = m /\ inq' = inq /\ cmdq' = cmdq /\ res' = "none"
    BY <1>1, <1>5 DEF pipes, modem
  <2> QED
    BY <1>1, <2>8, <2>9, <2>10, <2>11, WatchLeft
<1> QED
  BY <1>3, <1>4, <1>5 DEF SetupFails

\* The handler of SIGTERM: stops and the link; the releases, that of the call's client first;
\* the end.
LEMMA TermOf ==
  ASSUME d \in Globals
  PROVE  \E s \in Seq(StepsOf(EndOps)) :
           /\ OnSignal("TERM") = s \o <<Do("quit")>>
           /\ d.client["v4"] => \E j \in DOMAIN s : s[j] = Release
<1> DEFINE S == StepsOf(EndOps)
<1>1. \A a \in Both : Step("stop", a) \in S
  BY StepIn DEF EndOps, CallOps
<1>2. \A a \in Clients : Step("release", a) \in S
  BY StepIn DEF EndOps
<1>3. Do("link0") \in S
  BY StepIn DEF EndOps, PlainOps
<1> HIDE DEF S
<1> DEFINE a0 == Each("stop", {f \in d.fam : d.status[f] = "conn"})
           a == a0 \o <<Do("link0")>>
           r1 == Each("release", {"v4"} \intersect Held)
           r2 == When("dms" \in Held, <<Step("release", "dms")>>)
           r3 == When("nas" \in Held, <<Step("release", "nas")>>)
           r4 == Each("release", {"v6"} \intersect Held)
           r == r1 \o r2 \o r3 \o r4
<1>4. OnSignal("TERM") = a0 \o <<Do("link0")>> \o Releases \o <<Do("quit")>>
  BY DEF OnSignal
<1>5. Releases = r
  BY DEF Releases
<1>6. a0 \in Seq(S)
  BY <1>1, EachOf DEF Both
<1>7. /\ Step("release", "v4") \in S /\ Step("release", "v6") \in S
      /\ Step("release", "dms") \in S /\ Step("release", "nas") \in S
  BY <1>2 DEF Clients, Both
<1>8. r1 \in Seq(S) /\ r4 \in Seq(S)
  BY <1>7, EachOf
<1>9. r2 \in Seq(S) /\ r3 \in Seq(S)
  BY <1>7, ListIn
<1>10. d.client["v4"] => r1 = <<Release>> /\ Release \in S
  <2> SUFFICES ASSUME d.client["v4"] PROVE r1 = <<Release>> /\ Release \in S
    OBVIOUS
  <2>1. "v4" \in {"v4"} \intersect Held /\ "v6" \notin {"v4"} \intersect Held
    BY DEF Held, Clients, Both
  <2>2. r1 = <<Step("release", "v4")>> \o <<>>
    BY <2>1 DEF Each, When
  <2>3. <<Step("release", "v4")>> \in Seq(S)
    BY <1>7, ListIn
  <2> HIDE DEF r1
  <2>4. r1 = <<Step("release", "v4")>>
    BY <2>2, <2>3, ConcatEmptySeq
  <2> QED
    BY <1>7, <2>4 DEF Release
<1> HIDE DEF a0, r1, r2, r3, r4
<1>11. a \in Seq(S)
  <2>1. <<Do("link0")>> \in Seq(S)
    BY <1>3, ListIn
  <2> QED
    BY <1>6, <2>1, ListIn
<1>12. r1 \o r2 \in Seq(S)
  BY <1>8, <1>9, ListIn
<1>13. r1 \o r2 \o r3 \in Seq(S)
  BY <1>9, <1>12, ListIn
<1>14. r \in Seq(S)
  BY <1>8, <1>13, ListIn
<1>15. a \o r \in Seq(S)
  BY <1>11, <1>14, ListIn
<1>16. d.client["v4"] => \E j \in DOMAIN (a \o r) : (a \o r)[j] = Release
  <2> SUFFICES ASSUME d.client["v4"] PROVE \E j \in DOMAIN (a \o r) : (a \o r)[j] = Release
    OBVIOUS
  <2>1. Len(r1) = 1 /\ r1[1] = Release
    BY <1>10
  <2>2. Len(r1 \o r2) \in Nat \ {0} /\ (r1 \o r2)[1] = Release
    <3>1. /\ Len(r1 \o r2) = Len(r1) + Len(r2) /\ Len(r2) \in Nat
          /\ \A i \in 1..Len(r1) : (r1 \o r2)[i] = r1[i]
      BY <1>8, <1>9, ConcatOf, Zenon
    <3> QED
      BY <2>1, <3>1
  <2> DEFINE p == r1 \o r2
             q == p \o r3
  <2>3. p \in Seq(S) /\ Len(p) \in Nat \ {0} /\ p[1] = Release
    BY <1>12, <2>2
  <2>4. q \in Seq(S) /\ r = q \o r4
    BY <1>13
  <2> HIDE DEF p
  <2>5. Len(q) \in Nat \ {0} /\ q[1] = Release
    <3>1. /\ Len(q) = Len(p) + Len(r3) /\ Len(r3) \in Nat
          /\ \A i \in 1..Len(p) : q[i] = p[i]
      BY <1>9, <2>3, ConcatOf, ZenonT(60)
    <3> QED
      BY <2>3, <3>1
  <2> HIDE DEF q, r
  <2>6. Len(r) \in Nat \ {0} /\ r[1] = Release
    <3>1. /\ Len(r) = Len(q) + Len(r4) /\ Len(r4) \in Nat
          /\ \A i \in 1..Len(q) : r[i] = q[i]
      BY <1>8, <2>4, ConcatOf, Zenon
    <3> QED
      BY <2>5, <3>1
  <2> HIDE DEF a
  <2>7. /\ Len(a) \in Nat /\ DOMAIN (a \o r) = 1..(Len(a) + Len(r))
        /\ \A i \in (Len(a) + 1)..(Len(a) + Len(r)) : (a \o r)[i] = r[i - Len(a)]
    <3>1. a \in Seq(S) /\ r \in Seq(S)
      BY <1>11, <1>14
    <3> QED
      BY <3>1, ConcatOf
  <2>8. Len(a) + 1 \in 1..(Len(a) + Len(r)) /\ Len(a) + 1 \in (Len(a) + 1)..(Len(a) + Len(r))
        /\ Len(a) + 1 - Len(a) = 1
    BY <2>6, <2>7
  <2> QED
    BY <2>6, <2>7, <2>8
<1>17. OnSignal("TERM") = (a \o r) \o <<Do("quit")>>
  BY <1>4, <1>5
<1> HIDE DEF a, r
<1> QED
  BY <1>15, <1>16, <1>17 DEF S

\* Reading a signal keeps LeftInv: SIGTERM is the only one that ends main.
LEMMA ReadSignalLeft ==
  ASSUME LeftInv, BaseInv, ReadSignal
  PROVE  LeftInv'
<1>1. /\ d \in Globals /\ Types /\ todo # <<>> /\ pc = "run" /\ Here.op = "signal"
      /\ todo \in Seq(Steps) /\ PipeTypes /\ Pending
  BY DEF BaseInv, Types, ReadSignal, At
<1>2. /\ Here = todo[1] /\ 1 \in DOMAIN todo
      /\ Len(todo) \in Nat \ {0} /\ DOMAIN todo = 1..Len(todo)
  BY <1>1, HereOf, TailOf
<1>3. /\ sigq # <<>>
      /\ \A j \in 2..Len(todo) : todo[j].op = "event"
  BY <1>1, <1>2 DEF Pending, LeftInv, InOrderOfEnd
<1> DEFINE P == {"USR1", "USR2", "TERM"}
           D == [d EXCEPT !.alarm = FALSE]
<1>4. Head(sigq) \in P
  <2>1. sigq \in Seq(P)
    BY <1>1 DEF PipeTypes
  <2> HIDE DEF P
  <2> QED
    BY <1>3, <2>1, TailOf
<1>5. Then(OnSignal(Head(sigq)), D) /\ cmdq' = cmdq
  BY DEF ReadSignal
<1>6. D.client = d.client
  BY <1>1 DEF Globals
<1>7. Here.op \notin StartOps \union EndOps \union {"quit"}
  BY <1>1 DEF StartOps, EndOps
<1>8. CASE Head(sigq) # "TERM"
  <2> DEFINE O == {"redial", "radio", "query", "check", "judge"}
             S == StepsOf(O)
             s == OnSignal(Head(sigq))
  <2>1. \A f \in Both : Step("redial", f) \in S /\ Step("query", f) \in S /\ Step("check", f) \in S
    BY StepIn DEF CallOps
  <2>2. Do("radio") \in S /\ Do("judge") \in S
    BY StepIn DEF PlainOps
  <2>3. O \cap {"sync", "getid", "signal", "quit", "release"} = {}
    OBVIOUS
  <2> HIDE DEF S
  <2>4. CASE Head(sigq) = "USR1"
    <3>1. Each("redial", d.fam) \in Seq(S) /\ <<Do("radio")>> \in Seq(S)
      BY <2>1, <2>2, EachOf, ListIn DEF Both
    <3>2. s = Each("redial", d.fam) \o <<Do("radio")>>
      BY <2>4 DEF OnSignal
    <3>3. s \in Seq(S)
      BY <3>1, <3>2, ListIn
    <3> HIDE DEF s, D, O
    <3> QED
      BY <1>1, <1>5, <1>6, <1>7, <2>3, <3>3, GoLeft DEF s, S
  <2>5. CASE Head(sigq) = "USR2"
    <3> DEFINE a == When("v4" \in d.fam, <<Step("query", "v4"), Step("check", "v4")>>)
               b == When("v6" \in d.fam, <<Step("query", "v6")>>)
    <3>1. Step("query", "v4") \in S /\ Step("check", "v4") \in S /\ Step("query", "v6") \in S
      BY <2>1 DEF Both
    <3>2. a \in Seq(S) /\ b \in Seq(S) /\ <<Do("judge")>> \in Seq(S)
      BY <2>2, <3>1, ListIn
    <3>3. s = a \o b \o <<Do("judge")>>
      BY <2>5 DEF OnSignal
    <3> HIDE DEF a, b
    <3>4. a \o b \in Seq(S)
      BY <3>2, ListIn
    <3>5. s \in Seq(S)
      BY <3>2, <3>3, <3>4, ListIn
    <3> HIDE DEF s, D, O
    <3> QED
      BY <1>1, <1>5, <1>6, <1>7, <2>3, <3>5, GoLeft DEF s, S
  <2> QED
    BY <1>4, <1>8, <2>4, <2>5
<1>9. CASE Head(sigq) = "TERM"
  <2>1. PICK s \in Seq(StepsOf(EndOps)) :
          /\ OnSignal("TERM") = s \o <<Do("quit")>>
          /\ d.client["v4"] => \E j \in DOMAIN s : s[j] = Release
    BY <1>1, TermOf
  <2> DEFINE k == Len(s)
             n == Len(todo)
             O == EndOps \union {"quit"}
             t == s \o <<Do("quit")>>
  <2>2. Do("quit") \in StepsOf(O) /\ s \in Seq(StepsOf(O)) /\ Do("quit").op = "quit"
    <3>1. Do("quit") \in StepsOf(O)
      BY StepIn DEF PlainOps
    <3>2. s \in Seq(StepsOf(O))
      BY DEF StepsOf
    <3> QED
      BY <3>1, <3>2 DEF Do, Step
  <2>3. \A i \in DOMAIN s : s[i].op \in EndOps
    BY DEF StepsOf
  <2>4. <<Do("quit")>> \in Seq(StepsOf(O)) /\ Len(<<Do("quit")>>) = 1 /\ <<Do("quit")>>[1] = Do("quit")
    BY <2>2
  <2> HIDE DEF O
  <2>5. /\ t \in Seq(StepsOf(O)) /\ k \in Nat /\ DOMAIN s = 1..k /\ Len(t) = k + 1
        /\ \A i \in 1..k : t[i] = s[i]
        /\ t[k + 1] = Do("quit")
    <3> DEFINE q == <<Do("quit")>>
    <3>1. q \in Seq(StepsOf(O)) /\ Len(q) = 1 /\ q[1] = Do("quit")
      BY <2>4
    <3> HIDE DEF q
    <3>2. /\ s \o q \in Seq(StepsOf(O)) /\ Len(s \o q) = Len(s) + Len(q) /\ Len(s) \in Nat
          /\ \A i \in 1..Len(s) : (s \o q)[i] = s[i]
          /\ \A i \in (Len(s) + 1)..(Len(s) + Len(q)) : (s \o q)[i] = q[i - Len(s)]
      BY <2>2, <3>1, ConcatOf, Zenon
    <3>3. k + 1 \in (k + 1)..(k + 1) /\ k + 1 - k = 1
      BY <3>2
    <3>4. (s \o q)[k + 1] = q[1]
      BY <3>1, <3>2, <3>3
    <3> QED
      BY <3>1, <3>2, <3>4 DEF q
  <2>6. todo' = t \o Tail(todo)
    BY <1>5, <1>9, <2>1 DEF Then
  <2> HIDE DEF t
  <2>7. /\ DOMAIN todo' = 1..(Len(t) + (n - 1)) /\ Len(todo') = Len(t) + (n - 1)
        /\ \A i \in 1..Len(t) : todo'[i] = t[i]
        /\ \A i \in (Len(t) + 1)..(Len(t) + (n - 1)) : todo'[i] = todo[i - Len(t) + 1]
    BY <1>1, <2>5, <2>6, ThenOf
  <2> HIDE DEF k, n
  <2>8. n \in Nat \ {0} /\ k \in Nat
    BY <1>2, <2>5 DEF n
  <2>9. /\ DOMAIN todo' = 1..(k + n) /\ Len(todo') = k + n
        /\ \A i \in 1..k : todo'[i] = s[i] /\ todo'[i].op \in EndOps
        /\ todo'[k + 1].op = "quit"
        /\ \A i \in (k + 2)..(k + n) : todo'[i].op = "event"
    <3>1. Len(t) + (n - 1) = k + n /\ k + 1 \in 1..Len(t) /\ \A i \in 1..k : i \in 1..Len(t)
      BY <2>5, <2>8
    <3>2. \A i \in 1..k : todo'[i] = s[i] /\ todo'[i].op \in EndOps
      BY <2>3, <2>5, <2>7, <3>1
    <3>3. todo'[k + 1].op = "quit"
      BY <2>2, <2>5, <2>7, <3>1
    <3>4. ASSUME NEW i \in (k + 2)..(k + n) PROVE todo'[i].op = "event"
      <4>1. i \in (Len(t) + 1)..(Len(t) + (n - 1)) /\ i - Len(t) + 1 \in 2..n
        BY <2>5, <2>8
      <4> QED
        BY <1>3, <2>7, <4>1 DEF n
    <3> QED
      BY <2>7, <3>1, <3>2, <3>3, <3>4
  <2>10. \A i \in DOMAIN todo' : i \in 1..k \/ i = k + 1 \/ i \in (k + 2)..(k + n)
    BY <2>8, <2>9
  <2>11. \A i \in DOMAIN todo' : todo'[i].op \in EndOps \union {"quit", "event"}
    BY <2>9, <2>10
  <2>12. \A i \in DOMAIN todo' : todo'[i].op = "quit" => i = k + 1
    BY <2>9, <2>10 DEF EndOps
  <2>13. d' = D /\ res' = "none" /\ pc' = "run" /\ rd' = rd /\ m' = m /\ inq' = inq
    BY <1>1, <1>5 DEF Then, modem
  <2>14. d'.client = d.client
    BY <1>6, <2>13
  <2>15. ToDo("quit")'
    <3>1. k + 1 \in DOMAIN todo'
      BY <2>8, <2>9
    <3> QED
      BY <2>9, <3>1 DEF ToDo
  <2>16. InOrderOfEnd'
    <3>1. \A i \in DOMAIN todo' : todo'[i].op # "signal"
      BY <2>11 DEF EndOps
    <3>2. ASSUME NEW i \in DOMAIN todo', todo'[i].op = "quit"
          PROVE  /\ \A j \in 1..(i - 1) : todo'[j].op \in EndOps
                 /\ \A j \in (i + 1)..Len(todo') : todo'[j].op = "event"
                 /\ d'.client["v4"] => \E j \in 1..(i - 1) : todo'[j] = Release
      <4>1. i = k + 1
        BY <2>12, <3>2
      <4>2. i - 1 = k /\ i + 1 = k + 2
        BY <2>8, <4>1
      <4>3. d'.client["v4"] => \E j \in 1..k : todo'[j] = Release
        BY <2>1, <2>5, <2>9, <2>14 DEF k
      <4> QED
        BY <2>9, <4>2, <4>3
    <3> QED
      BY <2>13, <2>15, <3>1, <3>2 DEF InOrderOfEnd
  <2>17. \A i \in DOMAIN todo' : ~IsStart(todo'[i])
    BY <2>11 DEF EndOps, IsStart, GetId, Step
  <2>18. ~Over /\ ~Over' /\ ~Starting' /\ ~Sent' /\ InOrderOfStart'
    BY <1>1, <2>13, <2>17 DEF Over, Starting, Sent, InOrderOfStart
  <2>19. Idle' => Clean
    BY <2>13, <2>18 DEF Idle, LeftInv, NoneForgotten
  <2>20. d'.client["v4"] \/ Cut
    BY <2>14 DEF LeftInv, NoneForgotten
  <2>21. ~(\E i \in DOMAIN cmdq' : cmdq'[i] = "QUIT")
    BY <1>5, <2>18 DEF LeftInv, ReleasesLast
  <2> QED
    BY <2>13, <2>15, <2>16, <2>18, <2>19, <2>20, <2>21, StillLeft
<1> QED
  BY <1>8, <1>9

\* Reading an event keeps LeftInv.
LEMMA ReadEventLeft ==
  ASSUME LeftInv, BaseInv, ReadEvent
  PROVE  LeftInv'
<1>1. /\ Types /\ todo # <<>> /\ pc = "run" /\ Here.op = "event" /\ Pending /\ Lives
  BY DEF BaseInv, ReadEvent, At
<1>2. evq # <<>>
  <2>1. Here = todo[1] /\ 1 \in DOMAIN todo
    BY <1>1, HereOf
  <2> QED
    BY <1>1, <2>1 DEF Pending
<1> DEFINE P == {"connected", "gone", "net", "call"}
           s == OnEvent(Head(evq))
<1>3. evq \in Seq(P)
  BY <1>1 DEF Types, PipeTypes
<1> HIDE DEF P
<1>4. Head(evq) \in P /\ Head(evq) # "connected"
  <2>1. Head(evq) \in P /\ Head(evq) = evq[1] /\ 1 \in DOMAIN evq
    <3>1. Head(evq) \in P /\ Head(evq) = evq[1] /\ Len(evq) \in Nat \ {0} /\ DOMAIN evq = 1..Len(evq)
      BY <1>2, <1>3, TailOf
    <3> QED
      BY <3>1
  <2> QED
    BY <1>1, <2>1 DEF Lives
<1>5. s \in Seq(StepsOf(EventOps))
  BY <1>4, OnEventIn DEF P
<1>6. Then(s, d) /\ cmdq' = cmdq
  BY DEF ReadEvent
<1>7. Here.op \notin StartOps \union EndOps \union {"quit"}
  BY <1>1 DEF StartOps, EndOps
<1>8. EventOps \cap {"sync", "getid", "signal", "quit", "release"} = {}
  BY DEF EventOps
<1> HIDE DEF s
<1> QED
  BY <1>1, <1>5, <1>6, <1>7, <1>8, GoLeft

\* Of the first steps of main only those up to the clients start.
LEMMA StartupOf ==
  /\ \A i \in DOMAIN Startup : Startup[i].op \in {"sync", "version", "getid", "format", "sim", "reg", "refresh"}
  /\ \A i \in DOMAIN Startup : IsStart(Startup[i]) => \A j \in 1..i : Startup[j].op \in StartOps
<1> DEFINE S == StepsOf(StartOps)
           O == {"getid", "format", "sim", "reg", "refresh"}
           T == {x \in StepsOf(O) : ~IsStart(x)}
           a1 == <<Step("sync", 1), Do("version")>>
           a == a1 \o Each("getid", d.fam)
           b == <<Step("getid", "dms"), Step("getid", "nas"), Do("format"), Do("sim"), Do("reg"),
                  Do("refresh")>>
<1>1. /\ Step("sync", 1) \in S /\ Do("version") \in S /\ Step("getid", "v4") \in S
      /\ Step("getid", "v6") \in S
  BY StepIn, DialerAssumption DEF PlainOps, Clients, Both, StartOps
<1>2. /\ Step("getid", "dms") \in T /\ Step("getid", "nas") \in T
      /\ Do("format") \in T /\ Do("sim") \in T /\ Do("reg") \in T /\ Do("refresh") \in T
  <2>1. /\ Step("getid", "dms") \in StepsOf(O) /\ Step("getid", "nas") \in StepsOf(O)
        /\ Do("format") \in StepsOf(O) /\ Do("sim") \in StepsOf(O) /\ Do("reg") \in StepsOf(O) /\ Do("refresh") \in StepsOf(O)
    BY StepIn DEF PlainOps, Clients
  <2>2. /\ ~IsStart(Step("getid", "dms")) /\ ~IsStart(Step("getid", "nas"))
        /\ ~IsStart(Do("format")) /\ ~IsStart(Do("sim")) /\ ~IsStart(Do("reg")) /\ ~IsStart(Do("refresh"))
    BY DEF IsStart, GetId, Step, Do
  <2> QED
    BY <2>1, <2>2
<1>3. \A x \in T : x.op \in O /\ ~IsStart(x)
  BY DEF StepsOf
<1>4. \A x \in S : x.op \in StartOps
  BY DEF StepsOf
<1> HIDE DEF S, T
<1>5. a1 \in Seq(S) /\ Each("getid", d.fam) \in Seq(S) /\ b \in Seq(T)
  BY <1>1, <1>2, EachOf, ListIn
<1>6. a \in Seq(S)
  BY <1>5, ListIn
<1>7. Startup = a \o b
  BY DEF Startup
<1> HIDE DEF a, b
<1>8. /\ Len(a) \in Nat /\ Len(b) \in Nat /\ DOMAIN Startup = 1..(Len(a) + Len(b))
      /\ \A i \in 1..Len(a) : Startup[i].op \in StartOps
      /\ \A i \in (Len(a) + 1)..(Len(a) + Len(b)) : Startup[i] \in T
  <2> DEFINE W == S \union T
  <2>1. a \in Seq(W) /\ b \in Seq(W)
    BY <1>5, <1>6
  <2> HIDE DEF W
  <2>2. /\ Len(a \o b) = Len(a) + Len(b)
        /\ Len(a) \in Nat /\ Len(b) \in Nat /\ DOMAIN (a \o b) = 1..(Len(a) + Len(b))
        /\ \A i \in 1..Len(a) : (a \o b)[i] = a[i]
        /\ \A i \in (Len(a) + 1)..(Len(a) + Len(b)) : (a \o b)[i] = b[i - Len(a)]
    BY <2>1, ConcatOf
  <2>3. \A i \in 1..Len(a) : a[i] \in S
    BY <1>6
  <2>4. \A i \in 1..Len(b) : b[i] \in T
    BY <1>5
  <2>5. \A i \in (Len(a) + 1)..(Len(a) + Len(b)) : i - Len(a) \in 1..Len(b)
    BY <2>2
  <2> QED
    BY <1>4, <1>7, <2>2, <2>3, <2>4, <2>5
<1>9. \A i \in DOMAIN Startup : i \in 1..Len(a) \/ i \in (Len(a) + 1)..(Len(a) + Len(b))
  BY <1>8
<1>10. \A i \in DOMAIN Startup : Startup[i].op \in {"sync", "version", "getid", "format", "sim", "reg", "refresh"}
  BY <1>3, <1>8, <1>9 DEF StartOps
<1>11. \A i \in DOMAIN Startup : IsStart(Startup[i]) => \A j \in 1..i : Startup[j].op \in StartOps
  <2> SUFFICES ASSUME NEW i \in DOMAIN Startup, IsStart(Startup[i]), NEW j \in 1..i
               PROVE  Startup[j].op \in StartOps
    OBVIOUS
  <2>1. i \in 1..Len(a)
    BY <1>3, <1>8, <1>9
  <2>2. j \in 1..Len(a)
    BY <1>8, <2>1
  <2> QED
    BY <1>8, <2>2
<1> QED
  BY <1>10, <1>11

\* The loop of main keeps LeftInv.
LEMMA LoopLeft ==
  ASSUME LeftInv, BaseInv, Detect \/ Connect \/ Poll \/ PollTimeout \/ LoopAgain
  PROVE  LeftInv'
<1>1. /\ m' = m /\ inq' = inq /\ d' = d /\ cmdq' = cmdq /\ Rests
      /\ (d.client["v4"] \/ Cut)
  BY DEF Detect, Connect, Poll, PollTimeout, LoopAgain, modem, pipes, BaseInv, LeftInv, NoneForgotten
<1>2. CASE Detect
  <2>1. /\ pc = "detect" /\ pc' \in {"connect", "exited"} /\ todo' = todo /\ todo = <<>>
    BY <1>1, <1>2 DEF Detect, Rests
  <2>2. ~Over /\ Clean /\ Cut /\ ~Sent'
    BY <2>1, CleanCut DEF Over, Idle, LeftInv, NoneForgotten, Sent
  <2>3. InOrderOfStart' /\ InOrderOfEnd' /\ ~ToDo("quit")
    BY <2>1 DEF InOrderOfStart, InOrderOfEnd, ToDo
  <2> QED
    BY <1>1, <2>2, <2>3, StillLeft DEF LeftInv, ReleasesLast
<1>3. CASE Connect
  <2>1. /\ pc = "connect" /\ todo = <<>> /\ res' = res
        /\ (pc' = "run" /\ todo' = Startup) \/ (pc' = "exited" /\ todo' = todo)
    BY <1>1, <1>3 DEF Connect, Rests
  <2>2. ~Over /\ Clean /\ Cut
    BY <2>1, CleanCut DEF Over, Idle, LeftInv, NoneForgotten
  <2>3. \A i \in DOMAIN todo' : todo'[i].op \in {"sync", "version", "getid", "format", "sim", "reg", "refresh"}
    BY <2>1, StartupOf
  <2>4. InOrderOfStart'
    BY <2>1, StartupOf DEF InOrderOfStart
  <2>5. InOrderOfEnd'
    <3>1. pc' # "join"
      BY <2>1
    <3> QED
      BY <2>3, <3>1 DEF InOrderOfEnd, ToDo
  <2>6. ~Under({Release}) /\ ~(\E i \in DOMAIN cmdq' : cmdq'[i] = "QUIT")
    BY <1>1, <2>1, <2>2 DEF LeftInv, ReleasesLast, ToDo
  <2> QED
    BY <1>1, <2>2, <2>4, <2>5, <2>6, StillLeft
<1>4. CASE Poll
  <2>1. /\ pc = "poll" /\ todo = <<>> /\ pc' = "run" /\ rd' = rd
        /\ todo' = When(sigq # <<>>, <<Do("signal")>>) \o When(evq # <<>>, <<Do("event")>>)
    BY <1>1, <1>4 DEF Poll, Rests
  <2>2. \/ todo' = <<>> \o <<>>
        \/ todo' = <<Do("signal")>> \o <<>>
        \/ todo' = <<>> \o <<Do("event")>>
        \/ todo' = <<Do("signal")>> \o <<Do("event")>>
    BY <2>1 DEF When
  <2>3. Do("signal") \in Steps /\ Do("event") \in Steps
    BY DEF Do, Step, Steps, PlainOps
  <2>4. \/ todo' = <<>>
        \/ todo' = <<Do("signal")>>
        \/ todo' = <<Do("event")>>
        \/ todo' = <<Do("signal"), Do("event")>>
    BY <2>2, <2>3
  <2> DEFINE x == Do("signal")
             y == Do("event")
  <2>5. x.op = "signal" /\ y.op = "event"
    BY DEF Do, Step
  <2>6. /\ \A i \in DOMAIN todo' : todo'[i].op \in {"signal", "event"}
        /\ \A i \in DOMAIN todo' : todo'[i].op = "signal" => i = 1
        /\ \A j \in 2..Len(todo') : todo'[j].op = "event"
        /\ todo' # <<>> => todo'[1].op \in {"signal", "event"}
    <3>1. todo' = <<>> \/ todo' = <<x>> \/ todo' = <<y>> \/ todo' = <<x, y>>
      BY <2>4
    <3> HIDE DEF x, y
    <3>2. CASE todo' = <<>>
      BY <3>2
    <3>3. CASE todo' = <<x>> \/ todo' = <<y>>
      <4>1. Len(todo') = 1 /\ DOMAIN todo' = 1..1 /\ (todo'[1] = x \/ todo'[1] = y)
        BY <3>3
      <4> QED
        BY <2>5, <4>1
    <3>4. CASE todo' = <<x, y>>
      <4>1. Len(todo') = 2 /\ DOMAIN todo' = 1..2 /\ todo'[1] = x /\ todo'[2] = y
        BY <3>4
      <4> QED
        BY <2>5, <4>1
    <3> QED
      BY <3>1, <3>2, <3>3, <3>4
  <2>7. ~Over /\ ~Over' /\ ~Starting' /\ InOrderOfStart'
    <3>1. \A z : z.op \in {"signal", "event"} => ~IsStart(z)
      BY DEF IsStart, GetId, Step
    <3>2. ~Over /\ ~Over'
      BY <2>1 DEF Over
    <3> QED
      BY <2>6, <3>1, <3>2 DEF Starting, InOrderOfStart
  <2>8. InOrderOfEnd'
    <3>1. pc' # "join"
      BY <2>1
    <3> QED
      BY <2>6, <3>1 DEF InOrderOfEnd, ToDo
  <2>9. Idle' => Clean
    BY <2>1, <2>7 DEF Idle, LeftInv, NoneForgotten
  <2>10. todo' # <<>> => todo'[1] # Release
    BY <2>6 DEF Release, Step
  <2>11. ~Under({Release}) /\ ~(\E i \in DOMAIN cmdq' : cmdq'[i] = "QUIT")
    BY <1>1, <2>1, <2>7 DEF LeftInv, ReleasesLast, ToDo
  <2> QED
    BY <1>1, <2>7, <2>8, <2>9, <2>10, <2>11, StillLeft
<1>5. CASE PollTimeout
  <2>1. pc' = pc /\ todo' = todo /\ rd' = rd /\ res' = res
    BY <1>5 DEF PollTimeout
  <2> QED
    BY <1>1, <2>1, SameLeft
<1>6. CASE LoopAgain
  <2>1. pc = "run" /\ pc' = "poll" /\ todo = <<>> /\ todo' = todo /\ rd' = rd
    BY <1>6 DEF LoopAgain
  <2>2. ~Over /\ ~Over' /\ ~Starting' /\ ~ToDo("quit") /\ InOrderOfStart' /\ InOrderOfEnd'
    BY <2>1 DEF Over, Starting, ToDo, InOrderOfStart, InOrderOfEnd
  <2>3. Idle' => Clean
    BY <2>1, <2>2 DEF Idle, LeftInv, NoneForgotten
  <2>4. ~Under({Release}) /\ ~(\E i \in DOMAIN cmdq' : cmdq'[i] = "QUIT")
    BY <1>1, <2>2 DEF LeftInv, ReleasesLast
  <2> QED
    BY <1>1, <2>1, <2>2, <2>3, <2>4, StillLeft
<1> QED
  BY <1>2, <1>3, <1>4, <1>5, <1>6

\* The end of main keeps LeftInv: the client of the call has been released before QUIT, and a
\* modem that is gone has no call.
LEMMA EndLeft ==
  ASSUME LeftInv, BaseInv, Quit \/ Leave \/ Join
  PROVE  LeftInv'
<1>1. m' = m /\ inq' = inq /\ rd' = rd /\ d'.client = d.client /\ (d.client["v4"] \/ Cut)
  <2>1. d \in Globals
    BY DEF BaseInv, Types
  <2>2. [d EXCEPT !.link = 0].client = d.client
    BY <2>1 DEF Globals
  <2> QED
    BY <2>2 DEF Quit, Leave, Join, modem, LeftInv, NoneForgotten
<1>2. CASE Quit
  <2>1. /\ pc = "run" /\ pc' = "join" /\ todo' = <<>> /\ todo # <<>> /\ Here.op = "quit"
        /\ cmdq' = Append(cmdq, "QUIT")
    BY <1>2 DEF Quit, At
  <2>2. Here = todo[1] /\ 1 \in DOMAIN todo
    BY <2>1, HereOf DEF BaseInv
  <2>3. ~d.client["v4"]
    <3>1. d.client["v4"] => \E j \in 1..(1 - 1) : todo[j] = Release
      BY <2>1, <2>2 DEF LeftInv, InOrderOfEnd
    <3> QED
      BY <3>1
  <2>4. Over' /\ ~Sent'
    BY <2>1 DEF Over, Sent
  <2>5. InOrderOfStart' /\ InOrderOfEnd'
    BY <2>1 DEF InOrderOfStart, InOrderOfEnd, ToDo
  <2>6. ~Idle'
    BY <2>1, <2>4 DEF Idle, Starting
  <2> QED
    BY <1>1, <2>3, <2>4, <2>5, <2>6, StillLeft
<1>3. CASE Leave
  <2>1. /\ pc = "run" /\ pc' = "join" /\ todo # <<>> /\ Here.op = "leave" /\ cmdq' = cmdq
        /\ todo' = When(d.loop, <<Do("again")>>)
    BY <1>3 DEF Leave, At, pipes
  <2>2. Here = todo[1] /\ 1 \in DOMAIN todo
    BY <2>1, HereOf DEF BaseInv
  <2>3. rd \in {"told", "exited"}
    BY <2>1, <2>2 DEF BaseInv, Lives
  <2>4. ~Over
    BY <2>1 DEF Over
  <2>5. Clean /\ Cut
    BY <2>3, <2>4, CleanCut DEF Idle, LeftInv, NoneForgotten
  <2>6. Here.op \notin StartOps \union EndOps \union {"quit"}
    BY <2>1 DEF StartOps, EndOps
  <2>7. ~Under({Release})
    BY <2>1, <2>6, WatchOf
  <2>8. ~(\E i \in DOMAIN cmdq' : cmdq'[i] = "QUIT")
    BY <2>1, <2>4 DEF LeftInv, ReleasesLast
  <2>9. \A i \in DOMAIN todo' : todo'[i].op = "again"
    <3>1. todo' = <<>> \/ todo' = <<Do("again")>>
      BY <2>1 DEF When
    <3>2. Do("again").op = "again"
      BY DEF Do, Step
    <3> QED
      BY <3>1, <3>2
  <2>10. \A x : x.op = "again" => ~IsStart(x)
    BY DEF IsStart, GetId, Step
  <2>11. InOrderOfStart' /\ InOrderOfEnd' /\ ~Sent'
    BY <2>1, <2>9, <2>10 DEF InOrderOfStart, InOrderOfEnd, ToDo, Sent
  <2> QED
    BY <1>1, <2>5, <2>7, <2>8, <2>11, StillLeft
<1>4. CASE Join
  <2>1. /\ pc = "join" /\ rd = "exited" /\ todo' = <<>> /\ cmdq' = cmdq
        /\ todo = <<>> => pc' = "exited"
        /\ todo # <<>> => pc' = "detect"
    BY <1>4 DEF Join, pipes
  <2>2. InOrderOfStart' /\ InOrderOfEnd' /\ ~Sent'
    BY <2>1 DEF InOrderOfStart, InOrderOfEnd, ToDo, Sent
  <2>3. ~ToDo("quit")
    BY <2>1 DEF LeftInv, InOrderOfEnd
  <2>4. CASE todo = <<>>
    <3>1. Over /\ Over'
      BY <2>1, <2>4 DEF Over
    <3>2. ~Idle'
      BY <2>1, <2>4, <3>1 DEF Idle, Starting
    <3> QED
      BY <1>1, <2>2, <3>1, <3>2, StillLeft DEF LeftInv, NoneForgotten
  <2>5. CASE todo # <<>>
    <3>1. ~Over
      BY <2>1, <2>5 DEF Over
    <3>2. Clean /\ Cut
      BY <2>1, <2>5, CleanCut DEF Idle, LeftInv, NoneForgotten
    <3>3. ~Under({Release}) /\ ~(\E i \in DOMAIN cmdq' : cmdq'[i] = "QUIT")
      BY <2>1, <2>3, <3>1 DEF LeftInv, ReleasesLast
    <3> QED
      BY <1>1, <2>2, <3>2, <3>3, StillLeft
  <2> QED
    BY <2>4, <2>5
<1> QED
  BY <1>2, <1>3, <1>4

\* SIGTERM, the timers and the reader keep LeftInv: the reader ends when the modem is unplugged,
\* or when it is told to.
LEMMA ReaderLeft ==
  ASSUME LeftInv, BaseInv,
         \/ Sigterm \/ Sigalrm \/ Elapse \/ UNCHANGED vars
         \/ Open \/ ReadCmd \/ RecvQMI \/ Hangup \/ TellGone \/ Exit
  PROVE  LeftInv'
<1>0. d \in Globals /\ PipeTypes
  BY DEF BaseInv, Types
<1>1. CASE Sigterm \/ Sigalrm \/ Elapse \/ UNCHANGED vars
  <2>1. /\ m' = m /\ inq' = inq /\ pc' = pc /\ todo' = todo /\ res' = res /\ rd' = rd
        /\ cmdq' = cmdq \/ cmdq' = Append(cmdq, "TERM")
    BY <1>1 DEF Sigterm, Sigalrm, Elapse, vars, modem, pipes
  <2>2. d'.client = d.client
    <3>1. CASE Sigterm
      BY <1>0, <3>1 DEF Globals, Sigterm
    <3>2. CASE Sigalrm
      BY <1>0, <3>2 DEF Globals, Sigalrm
    <3>3. CASE Elapse
      BY <1>0, <3>3 DEF Globals, Elapse
    <3>4. CASE UNCHANGED vars
      BY <3>4 DEF vars
    <3> QED
      BY <1>1, <3>1, <3>2, <3>3, <3>4
  <2>3. (\E i \in DOMAIN cmdq' : cmdq'[i] = "QUIT") => \E i \in DOMAIN cmdq : cmdq[i] = "QUIT"
    <3> DEFINE P == {"QUIT", "TERM"}
    <3>1. cmdq \in Seq(P) /\ "TERM" \in P
      BY <1>0 DEF PipeTypes
    <3> HIDE DEF P
    <3> DEFINE q == Append(cmdq, "TERM")
               n == Len(cmdq)
    <3>2. /\ DOMAIN q = 1..(n + 1) /\ DOMAIN cmdq = 1..n /\ q[n + 1] = "TERM" /\ n \in Nat
          /\ \A i \in 1..n : q[i] = cmdq[i]
      BY <3>1, AppendOf
    <3>3. cmdq' = cmdq \/ cmdq' = q
      BY <2>1
    <3> HIDE DEF q, n
    <3>4. \A i \in DOMAIN q : q[i] = "QUIT" => i \in DOMAIN cmdq /\ cmdq[i] = "QUIT"
      BY <3>2
    <3> QED
      BY <3>3, <3>4
  <2> QED
    BY <2>1, <2>2, <2>3, SameLeft
<1>2. CASE Open \/ ReadCmd \/ RecvQMI \/ Hangup \/ TellGone \/ Exit
  <2>1. /\ pc' = pc /\ todo' = todo /\ res' = res /\ d' = d /\ m' = m /\ inq' = inq
        /\ cmdq' = cmdq \/ (cmdq # <<>> /\ cmdq' = Tail(cmdq))
    BY <1>2 DEF Open, ReadCmd, RecvQMI, Hangup, TellGone, Exit, Reads
  <2>2. (\E i \in DOMAIN cmdq' : cmdq'[i] = "QUIT") => \E i \in DOMAIN cmdq : cmdq[i] = "QUIT"
    <3> DEFINE P == {"QUIT", "TERM"}
    <3>1. cmdq \in Seq(P)
      BY <1>0 DEF PipeTypes
    <3> HIDE DEF P
    <3>2. cmdq # <<>> => /\ \A i \in 1..(Len(cmdq) - 1) : Tail(cmdq)[i] = cmdq[i + 1]
                         /\ DOMAIN Tail(cmdq) = 1..(Len(cmdq) - 1) /\ DOMAIN cmdq = 1..Len(cmdq)
                         /\ Len(cmdq) \in Nat \ {0}
      BY <3>1, TailOf
    <3>3. cmdq # <<>> => \A i \in DOMAIN Tail(cmdq) : i + 1 \in DOMAIN cmdq /\ Tail(cmdq)[i] = cmdq[i + 1]
      BY <3>2
    <3> QED
      BY <2>1, <3>3
  <2>3. rd' # "poll" => rd # "poll" \/ Over \/ Clean
    <3>1. CASE ReadCmd
      <4>1. CASE Head(cmdq) = "QUIT"
        <5>1. cmdq # <<>>
          BY <3>1 DEF ReadCmd
        <5> DEFINE P == {"QUIT", "TERM"}
        <5>2. cmdq \in Seq(P)
          BY <1>0 DEF PipeTypes
        <5> HIDE DEF P
        <5>3. 1 \in DOMAIN cmdq /\ cmdq[1] = "QUIT"
          <6>1. Head(cmdq) = cmdq[1] /\ DOMAIN cmdq = 1..Len(cmdq) /\ Len(cmdq) \in Nat \ {0}
            BY <5>1, <5>2, TailOf
          <6> QED
            BY <4>1, <6>1
        <5> QED
          BY <5>3 DEF LeftInv, ReleasesLast
      <4>2. CASE Head(cmdq) # "QUIT"
        BY <3>1, <4>2 DEF ReadCmd
      <4> QED
        BY <4>1, <4>2
    <3>2. CASE Hangup
      BY <3>2 DEF Hangup, LeftInv, ModemInOrder
    <3>3. CASE RecvQMI
      BY <3>3 DEF RecvQMI
    <3>4. CASE Open \/ TellGone \/ Exit
      BY <3>4 DEF Open, TellGone, Exit
    <3> QED
      BY <1>2, <3>1, <3>2, <3>3, <3>4
  <2>4. /\ InOrderOfStart' <=> InOrderOfStart
        /\ Over' <=> Over
        /\ Sent' <=> Sent
        /\ ToDo("quit")' <=> ToDo("quit")
        /\ ToDo("release")' <=> ToDo("release")
        /\ Starting' <=> Starting
    BY <2>1 DEF InOrderOfStart, Over, Sent, ToDo, Starting
  <2>5. InOrderOfEnd'
    BY <2>1, <2>4 DEF LeftInv, InOrderOfEnd
  <2>6. Idle' => Idle \/ Clean
    BY <2>1, <2>3, <2>4 DEF Idle
  <2> QED
    BY <2>1, <2>2, <2>4, <2>5, <2>6, StillLeft DEF LeftInv, NoneForgotten, ReleasesLast
<1> QED
  BY <1>1, <1>2

\* When another request of client c has been sent, or not, the earlier ones are under way, and
\* it comes last.
LEMMA UnderLater ==
  ASSUME Types, NEW c, NEW r,
         \/ inq' = Later(inq, c)
         \/ r \in Requests /\ inq' = Append(Later(inq, c), r)
  PROVE  /\ \A S : Under(S) => Under(S)'
         /\ \A S : Under(S)' => Under(S) \/ (inq' # Later(inq, c) /\ r.s \in S)
         /\ inq' # Later(inq, c) => \A S : r.s \in S => Under(S)'
         /\ \A i, j \in DOMAIN inq' : i < j =>
              \/ i \in DOMAIN inq /\ j \in DOMAIN inq /\ inq'[i].s = inq[i].s /\ inq'[j].s = inq[j].s
              \/ inq' # Later(inq, c) /\ i \in DOMAIN inq /\ inq'[i].s = inq[i].s /\ inq'[j].s = r.s
<1> DEFINE q == Later(inq, c)
           n == Len(inq)
<1>1. inq \in Seq(Requests)
  BY DEF Types
<1>2. /\ q \in Seq(Requests) /\ Len(q) = n /\ DOMAIN q = 1..n /\ DOMAIN inq = 1..n /\ n \in Nat
      /\ \A i \in 1..n : q[i].s = inq[i].s
  <2>1. /\ q \in Seq(Requests) /\ Len(q) = Len(inq) /\ DOMAIN q = DOMAIN inq /\ DOMAIN inq = 1..Len(inq)
        /\ Len(inq) \in Nat /\ \A i \in DOMAIN inq : q[i].s = inq[i].s
    <3>1. q \in Seq(Requests) /\ Len(q) = Len(inq) /\ DOMAIN q = DOMAIN inq /\ DOMAIN inq = 1..Len(inq)
          /\ Len(inq) \in Nat
      BY <1>1, LaterOf
    <3>2. \A i \in DOMAIN inq : inq[i] \in Requests
      BY <1>1, <3>1
    <3>3. \A i \in DOMAIN inq : q[i].s = inq[i].s
      BY <3>2 DEF Later, Requests
    <3> QED
      BY <3>1, <3>3
  <2> HIDE DEF q
  <2> QED
    BY <2>1
<1> HIDE DEF q, n
<1>3. inq' = q \/ (r \in Requests /\ inq' = Append(q, r))
  BY DEF q
<1>4. \A S : Under(S) <=> \E i \in 1..n : inq[i].s \in S
  <2>1. \A S : Under(S) <=> \E i \in DOMAIN inq : inq[i].s \in S
    BY DEF Under, ToSet
  <2> QED
    BY <1>2, <2>1
<1>5. \A S : Under(S)' <=> \E i \in DOMAIN inq' : inq'[i].s \in S
  BY DEF Under, ToSet
<1>6. CASE inq' = q
  <2>1. \A S : Under(S)' <=> Under(S)
    BY <1>2, <1>4, <1>5, <1>6
  <2>2. \A i, j \in DOMAIN inq' : inq'[i].s = inq[i].s /\ inq'[j].s = inq[j].s /\ i \in DOMAIN inq /\ j \in DOMAIN inq
    BY <1>2, <1>6
  <2> QED
    BY <1>6, <2>1, <2>2 DEF q
<1>7. CASE r \in Requests /\ inq' = Append(q, r)
  <2>1. /\ DOMAIN inq' = 1..(n + 1) /\ inq'[n + 1] = r
        /\ \A i \in 1..n : inq'[i] = q[i]
        /\ Len(inq') = n + 1
    BY <1>2, <1>7, AppendOf
  <2>2. inq' # q
    BY <1>2, <2>1
  <2>3. \A i \in 1..(n + 1) : i \in 1..n \/ i = n + 1
    BY <1>2
  <2>4. \A i \in 1..n : i \in 1..(n + 1) /\ inq'[i].s = inq[i].s
    BY <1>2, <2>1
  <2>5. \A S : Under(S) => Under(S)'
    BY <1>4, <1>5, <2>1, <2>4
  <2>6. \A S : Under(S)' => Under(S) \/ r.s \in S
    BY <1>4, <1>5, <2>1, <2>3, <2>4
  <2>7. \A S : r.s \in S => Under(S)'
    <3>1. n + 1 \in DOMAIN inq'
      BY <1>2, <2>1
    <3> QED
      BY <1>5, <2>1, <3>1
  <2>8. \A i, j \in DOMAIN inq' : i < j =>
          \/ i \in DOMAIN inq /\ j \in DOMAIN inq /\ inq'[i].s = inq[i].s /\ inq'[j].s = inq[j].s
          \/ i \in DOMAIN inq /\ inq'[i].s = inq[i].s /\ inq'[j].s = r.s
    <3> SUFFICES ASSUME NEW i \in DOMAIN inq', NEW j \in DOMAIN inq', i < j
                 PROVE  \/ i \in DOMAIN inq /\ j \in DOMAIN inq /\ inq'[i].s = inq[i].s /\ inq'[j].s = inq[j].s
                        \/ i \in DOMAIN inq /\ inq'[i].s = inq[i].s /\ inq'[j].s = r.s
      OBVIOUS
    <3>1. i \in 1..n
      BY <1>2, <2>1
    <3>2. CASE j \in 1..n
      BY <1>2, <2>4, <3>1, <3>2
    <3>3. CASE j = n + 1
      BY <1>2, <2>1, <2>4, <3>1, <3>3
    <3> QED
      BY <2>1, <2>3, <3>2, <3>3
  <2> QED
    BY <2>2, <2>5, <2>6, <2>7, <2>8 DEF q
<1> QED
  BY <1>3, <1>6, <1>7

\* Sending a request keeps LeftInv: one for a call is sent only with its client, whose release
\* is the last.
LEMMA SendLeft ==
  ASSUME LeftInv, BaseInv, Send
  PROVE  LeftInv'
<1>1. /\ Types /\ pc = "run" /\ todo # <<>> /\ ClientOf(Here) # "none"
      /\ (ClientOf(Here) = "ctl" \/ d.client[ClientOf(Here)])
      /\ todo' = todo /\ d' = d /\ rd' = rd /\ m' = m /\ cmdq' = cmdq /\ pc' \in {"run", "wait"}
  BY DEF BaseInv, Send, Asks, pipes, Known
<1>2. Here \in Steps /\ Here = todo[1] /\ 1 \in DOMAIN todo /\ DOMAIN todo = 1..Len(todo) /\ Len(todo) \in Nat \ {0}
  BY <1>1, HereOf, TailOf DEF Types
<1> DEFINE c == ClientOf(Here)
           r == [s |-> Here, c |-> c, age |-> 0, own |-> TRUE]
           q == Later(inq, c)
<1>3. r \in Requests /\ r.s = Here
  <2>1. 0 \in Ages /\ TRUE \in BOOLEAN
    BY DialerAssumption DEF Ages
  <2>2. Fits(Here, c) /\ c \in Peers
    BY <1>1, <1>2, ClientFits
  <2> HIDE DEF c
  <2> QED
    BY <1>2, <2>1, <2>2 DEF Requests
<1>4. \/ inq' = q /\ ~(rd = "poll" /\ m.plugged)
      \/ inq' = Append(q, r) /\ rd = "poll" /\ m.plugged
  BY DEF Send
<1>5. (Here = Release => c = "ctl") /\ (Here \in Setups => c = "v4") /\ (Here = GetId => c = "ctl")
  BY DEF ClientOf, Release, GetId, Setups, Step
<1> DEFINE new == inq' # q
<1>6. /\ \A S : Under(S) => Under(S)'
      /\ \A S : Under(S)' => Under(S) \/ (new /\ Here \in S)
      /\ new => \A S : Here \in S => Under(S)'
      /\ \A i, j \in DOMAIN inq' : i < j =>
           \/ i \in DOMAIN inq /\ j \in DOMAIN inq /\ inq'[i].s = inq[i].s /\ inq'[j].s = inq[j].s
           \/ new /\ i \in DOMAIN inq /\ inq'[i].s = inq[i].s /\ inq'[j].s = Here
  BY <1>1, <1>3, <1>4, UnderLater
<1>7. ~m.plugged => ~new /\ inq = <<>>
  BY <1>4 DEF LeftInv, ModemInOrder
<1>8. new => rd = "poll" /\ m.plugged
  BY <1>4
<1>9. ~new /\ inq' = Append(q, r) => FALSE
  <2> HIDE DEF r
  <2>1. inq \in Seq(Requests) /\ r \in Requests
    BY <1>1, <1>3 DEF Types
  <2> HIDE DEF c
  <2>2. q \in Seq(Requests)
    BY <2>1, LaterOf
  <2> HIDE DEF q
  <2>3. Len(Append(q, r)) = Len(q) + 1 /\ Len(q) \in Nat
    BY <2>1, <2>2, AppendOf
  <2>4. Append(q, r) # q
    BY <2>3
  <2> QED
    BY <2>4
<1>10. new \/ rd # "poll" \/ ~m.plugged
  BY <1>4, <1>9
<1>11. ~m.plugged => inq' = <<>>
  <2> SUFFICES ASSUME ~m.plugged PROVE inq' = <<>>
    OBVIOUS
  <2>1. inq = <<>> /\ inq' = Later(inq, c) /\ inq \in Seq(Requests)
    BY <1>1, <1>7 DEF Types
  <2> HIDE DEF c
  <2>2. inq' \in Seq(Requests) /\ Len(inq') = Len(inq)
    BY <2>1, LaterOf
  <2> QED
    BY <2>1, <2>2, EmptySeq
<1> HIDE DEF new, r, q
<1>12. ~Over /\ ~Over'
  BY <1>1 DEF Over
<1>13. Clean /\ ~(new /\ Here \in Setups) => Clean'
  BY <1>1, <1>6 DEF Clean
<1>14. Starting => Here.op \in StartOps
  <2>1. 1 \in 1..1 /\ \A i \in DOMAIN todo : 1 \in 1..i
    BY <1>2
  <2> QED
    BY <1>2, <2>1 DEF Starting, LeftInv, InOrderOfStart
<1>15. Here \in Setups => ~Starting
  BY <1>14 DEF Setups, Step, StartOps
<1>16. Idle => Clean
  BY DEF LeftInv, NoneForgotten
<1>17. Idle' => Idle /\ (new => Starting)
  BY <1>1, <1>8, <1>12 DEF Idle, Starting
<1>18. Idle' => Clean'
  BY <1>13, <1>15, <1>16, <1>17
<1>19. ModemInOrder'
  <2>1. ~m.plugged => Clean
    BY DEF LeftInv, ModemInOrder
  <2>2. ~m'.plugged => inq' = <<>> /\ Clean'
    BY <1>1, <1>7, <1>11, <1>13, <2>1
  <2> QED
    BY <1>1, <2>2 DEF LeftInv, ModemInOrder
<1>20. Clean' => Cut'
  BY DEF Clean, Cut
<1>21. d'.client["v4"] \/ Cut'
  <2> SUFFICES ASSUME ~d.client["v4"] PROVE Cut'
    BY <1>1
  <2>1. Here \notin Setups
    BY <1>1, <1>5
  <2>2. CASE Here = GetId /\ new
    <3>1. Starting
      BY <1>2, <2>2 DEF Starting, IsStart
    <3> QED
      BY <1>13, <1>16, <1>20, <2>1, <3>1 DEF Idle
  <2>3. CASE ~(Here = GetId /\ new)
    <3>1. Cut
      BY DEF LeftInv, NoneForgotten
    <3>2. Under({GetId})' => Under({GetId})
      BY <1>6, <2>3
    <3>3. Under(Setups)' => Under(Setups)
      BY <1>6, <2>1
    <3>4. Under({Release}) => Under({Release})'
      BY <1>6
    <3> QED
      BY <1>1, <3>1, <3>2, <3>3, <3>4 DEF Cut
  <2> QED
    BY <2>2, <2>3
<1>22. todo'[1] = Release => Cut'
  <2> SUFFICES ASSUME Here = Release PROVE Cut'
    BY <1>1, <1>2
  <2>1. CASE new
    BY <1>6, <2>1 DEF Cut
  <2>2. CASE ~new
    <3>1. Clean
      BY <1>10, <1>12, <1>16, <2>2 DEF Idle, LeftInv, ModemInOrder
    <3> QED
      BY <1>13, <1>20, <2>2, <3>1
  <2> QED
    BY <2>1, <2>2
<1>23. InOrderOfStart' /\ InOrderOfEnd' /\ (ToDo("quit") => ToDo("quit")')
  <2>1. /\ InOrderOfStart' <=> InOrderOfStart
        /\ ToDo("quit")' <=> ToDo("quit")
        /\ ToDo("release")' <=> ToDo("release")
    BY <1>1 DEF InOrderOfStart, ToDo
  <2>2. InOrderOfEnd /\ pc # "join" /\ pc' # "join"
    BY <1>1 DEF LeftInv
  <2>3. InOrderOfEnd'
    BY <1>1, <2>1, <2>2 DEF InOrderOfEnd
  <2> QED
    BY <2>1, <2>3 DEF LeftInv
<1>24. Under({Release})' => ToDo("quit")'
  <2>1. Here = Release => ToDo("release")
    <3>1. Release.op = "release"
      BY DEF Release, Step
    <3>2. todo[1] = Here /\ 1 \in DOMAIN todo
      BY <1>2
    <3> QED
      BY <3>1, <3>2 DEF ToDo
  <2>2. Under({Release}) \/ Here = Release => ToDo("quit")
    BY <1>12, <2>1 DEF LeftInv, InOrderOfEnd, ReleasesLast
  <2> QED
    BY <1>6, <1>23, <2>2
<1>25. \A i, j \in DOMAIN inq' : i < j => ~(inq'[i].s = Release /\ inq'[j].s = GetId)
  <2> SUFFICES ASSUME NEW i \in DOMAIN inq', NEW j \in DOMAIN inq', i < j,
                      inq'[i].s = Release, inq'[j].s = GetId
               PROVE  FALSE
    OBVIOUS
  <2>1. CASE i \in DOMAIN inq /\ j \in DOMAIN inq /\ inq'[i].s = inq[i].s /\ inq'[j].s = inq[j].s
    BY <2>1 DEF LeftInv, ReleasesLast
  <2>2. CASE i \in DOMAIN inq /\ inq'[i].s = inq[i].s /\ inq'[j].s = Here
    <3>1. Here = GetId /\ Under({Release})
      BY <2>2 DEF Under, ToSet
    <3>2. Here.op \notin EndOps \union {"quit"}
      BY <3>1 DEF GetId, Step, EndOps
    <3>3. PICK k \in DOMAIN todo : todo[k].op = "quit"
      BY <1>12, <3>1 DEF LeftInv, ReleasesLast, ToDo
    <3>4. k # 1
      BY <1>2, <3>2, <3>3
    <3>5. 1 \in 1..(k - 1)
      BY <1>2, <3>4
    <3> QED
      BY <1>2, <3>2, <3>3, <3>5 DEF LeftInv, InOrderOfEnd
  <2> QED
    BY <1>6, <2>1, <2>2
<1>26. ~(\E i \in DOMAIN cmdq' : cmdq'[i] = "QUIT")
  BY <1>1, <1>12 DEF LeftInv, ReleasesLast
<1>27. NoneForgotten'
  BY <1>12, <1>18, <1>21, <1>22 DEF NoneForgotten
<1>28. ReleasesLast'
  BY <1>24, <1>25, <1>26 DEF ReleasesLast
<1> QED
  BY <1>19, <1>23, <1>27, <1>28 DEF LeftInv

\* The result of a request, or none, keeps LeftInv.
LEMMA AnswerLeft ==
  ASSUME LeftInv, BaseInv, SendNothing \/ Wake \/ Timeout \/ TooLate
  PROVE  LeftInv'
<1>1. m' = m /\ inq' = inq /\ todo' = todo /\ d' = d /\ rd' = rd /\ cmdq' = cmdq /\ pc' = "run"
      /\ pc \in {"run", "wait"}
  BY DEF SendNothing, Wake, Timeout, TooLate, GiveUp, modem, pipes
<1>2. ~Over /\ ~Over'
  BY <1>1 DEF Over
<1>3. InOrderOfStart' /\ InOrderOfEnd' /\ (ToDo("quit")' <=> ToDo("quit")) /\ (Starting' <=> Starting)
  BY <1>1 DEF LeftInv, InOrderOfStart, InOrderOfEnd, ToDo, Starting
<1>4. Idle' => Clean
  BY <1>1, <1>2, <1>3 DEF Idle, LeftInv, NoneForgotten
<1>5. todo' # <<>> /\ todo'[1] = Release => Cut
  <2> SUFFICES ASSUME todo # <<>>, todo[1] = Release PROVE Cut
    BY <1>1
  <2>1. ~SendNothing
    <3>1. Here = Release
      BY HereOf DEF BaseInv
    <3>2. ClientOf(Here) = "ctl"
      BY <3>1 DEF ClientOf, Release, Step
    <3> QED
      BY <3>2 DEF SendNothing, Known
  <2>2. pc = "wait"
    BY <2>1 DEF Wake, Timeout, TooLate, GiveUp
  <2> QED
    BY <2>2 DEF Sent, LeftInv, NoneForgotten
<1> QED
  BY <1>1, <1>2, <1>3, <1>4, <1>5, StillLeft DEF LeftInv, NoneForgotten, ReleasesLast

\* A step of the modem keeps LeftInv, if it keeps these parts.
LEMMA QuietLeft ==
  ASSUME LeftInv, Quiet, ModemInOrder', Clean => Clean', Cut => Cut',
         Under({Release})' => Under({Release}),
         \A i, j \in DOMAIN inq' : i < j => ~(inq'[i].s = Release /\ inq'[j].s = GetId)
  PROVE  LeftInv'
<1>1. pc' = pc /\ todo' = todo /\ res' = res /\ rd' = rd /\ cmdq' = cmdq /\ d' = d
  BY DEF Quiet, pipes
<1>2. /\ InOrderOfStart' <=> InOrderOfStart
      /\ Over' <=> Over
      /\ Sent' <=> Sent
      /\ ToDo("quit")' <=> ToDo("quit")
      /\ ToDo("release")' <=> ToDo("release")
      /\ Starting' <=> Starting
  BY <1>1 DEF InOrderOfStart, Over, Sent, ToDo, Starting
<1>3. InOrderOfEnd'
  BY <1>1, <1>2 DEF LeftInv, InOrderOfEnd
<1>4. Idle' => Idle
  BY <1>1, <1>2 DEF Idle
<1>5. NoneForgotten'
  BY <1>1, <1>2, <1>4 DEF LeftInv, NoneForgotten
<1>6. ReleasesLast'
  BY <1>1, <1>2 DEF LeftInv, ReleasesLast
<1> QED
  BY <1>2, <1>3, <1>5, <1>6 DEF LeftInv

\* When one request has been taken, the others are under way, in their order.
LEMMA UnderTaken ==
  ASSUME Types, NEW k \in DOMAIN inq, inq' = RemoveAt(inq, k)
  PROVE  /\ \A S : Under(S)' => \E i \in DOMAIN inq : i # k /\ inq[i].s \in S
         /\ \A S : Under(S) => Under(S)' \/ inq[k].s \in S
         /\ \A i, j \in DOMAIN inq' : i < j =>
              \E i1, j1 \in DOMAIN inq : i1 < j1 /\ inq'[i] = inq[i1] /\ inq'[j] = inq[j1]
<1> DEFINE n == Len(inq)
<1>1. /\ DOMAIN inq' = 1..(n - 1) /\ DOMAIN inq = 1..n /\ n \in Nat
      /\ \A i \in 1..(n - 1) : inq'[i] = IF i < k THEN inq[i] ELSE inq[i + 1]
  <2>1. inq \in Seq(Requests)
    BY DEF Types
  <2> QED
    BY <2>1, RemoveOf
<1> HIDE DEF n
<1>2. k \in 1..n
  BY <1>1
<1> DEFINE old(i) == IF i < k THEN i ELSE i + 1
<1>3. \A i \in 1..(n - 1) : old(i) \in 1..n /\ old(i) # k /\ inq'[i] = inq[old(i)]
  BY <1>1, <1>2
<1>4. \A i, j \in 1..(n - 1) : i < j => old(i) < old(j)
  BY <1>1, <1>2
<1>5. \A i \in 1..n : i # k => \E j \in 1..(n - 1) : old(j) = i
  <2> SUFFICES ASSUME NEW i \in 1..n, i # k PROVE \E j \in 1..(n - 1) : old(j) = i
    OBVIOUS
  <2>1. CASE i < k
    <3>1. i \in 1..(n - 1) /\ old(i) = i
      BY <1>1, <1>2, <2>1
    <3> QED
      BY <3>1
  <2>2. CASE i > k
    <3>1. i - 1 \in 1..(n - 1) /\ old(i - 1) = i
      BY <1>1, <1>2, <2>2
    <3> QED
      BY <3>1
  <2> QED
    BY <1>2, <2>1, <2>2
<1> HIDE DEF old
<1>6. ASSUME NEW S, Under(S)' PROVE \E i \in DOMAIN inq : i # k /\ inq[i].s \in S
  <2>1. PICK i \in DOMAIN inq' : inq'[i].s \in S
    BY <1>6 DEF Under, ToSet
  <2> QED
    BY <1>1, <1>3, <2>1
<1>7. ASSUME NEW S, Under(S) PROVE Under(S)' \/ inq[k].s \in S
  <2>1. PICK i \in DOMAIN inq : inq[i].s \in S
    BY <1>7 DEF Under, ToSet
  <2>2. CASE i = k
    BY <2>1, <2>2
  <2>3. CASE i # k
    <3>1. i \in 1..n
      BY <1>1
    <3>2. PICK j \in 1..(n - 1) : old(j) = i
      BY <1>5, <2>3, <3>1
    <3>3. j \in DOMAIN inq' /\ inq'[j] = inq[i]
      BY <1>1, <1>3, <3>2
    <3> QED
      BY <2>1, <3>3 DEF Under, ToSet
  <2> QED
    BY <2>2, <2>3
<1>8. ASSUME NEW i \in DOMAIN inq', NEW j \in DOMAIN inq', i < j
      PROVE  \E i1, j1 \in DOMAIN inq : i1 < j1 /\ inq'[i] = inq[i1] /\ inq'[j] = inq[j1]
  BY <1>1, <1>3, <1>4, <1>8
<1> QED
  BY <1>6, <1>7, <1>8

\* The call and the client after a request: a call needs a setup, a client its
\* request, and a release leaves neither.
LEMMA OutcomeLeft ==
  ASSUME m \in Modems, m.call["v4"] => m.cid["v4"], NEW c, NEW s, NEW e, Outcome(c, s, e)
  PROVE  /\ e.n.plugged = m.plugged
         /\ e.n.call["v4"] => e.n.cid["v4"]
         /\ e.n.call["v4"] => m.call["v4"] \/ (s.op \in {"setup", "setup2"} /\ s.arg = "v4")
         /\ e.n.cid["v4"] => m.cid["v4"] \/ (s.op = "getid" /\ s.arg = "v4")
         /\ s.op = "release" /\ s.arg = "v4" => ~e.n.cid["v4"]
<1> DEFINE Goal == /\ e.n.plugged = m.plugged
                   /\ e.n.call["v4"] => e.n.cid["v4"]
                   /\ e.n.call["v4"] => m.call["v4"] \/ (s.op \in {"setup", "setup2"} /\ s.arg = "v4")
                   /\ e.n.cid["v4"] => m.cid["v4"] \/ (s.op = "getid" /\ s.arg = "v4")
                   /\ s.op = "release" /\ s.arg = "v4" => ~e.n.cid["v4"]
<1>1. /\ "v4" \in Both /\ "v4" \in Clients /\ DOMAIN m.call = Both /\ DOMAIN m.cid = Clients
      /\ m = [plugged |-> m.plugged, sim |-> m.sim, reg |-> m.reg, lpm |-> m.lpm, call |-> m.call,
                addr |-> m.addr, cid |-> m.cid]
  BY DEF Modems, Both, Clients
<1>2. \A C : Hung(C)["v4"] => m.call["v4"] /\ "v4" \notin C
  BY <1>1, HungOf
<1>3. ASSUME s.op = "sync", e.n = [m EXCEPT !.cid = All(Clients, FALSE), !.call = All(Both, FALSE)]
      PROVE  Goal
  <2>1. e.n.plugged = m.plugged /\ e.n.cid = All(Clients, FALSE) /\ e.n.call = All(Both, FALSE)
    BY <1>1, <1>3
  <2> QED
    BY <1>1, <2>1 DEF All
<1>4. ASSUME s.op = "getid", e.n = [m EXCEPT !.cid[s.arg] = TRUE] PROVE Goal
  <2>1. e.n.plugged = m.plugged /\ e.n.cid = [m.cid EXCEPT ![s.arg] = TRUE] /\ e.n.call = m.call
    BY <1>1, <1>4
  <2>2. e.n.cid["v4"] = IF s.arg = "v4" THEN TRUE ELSE m.cid["v4"]
    BY <1>1, <2>1
  <2> QED
    BY <1>4, <2>1, <2>2
<1>5. ASSUME s.op = "release", e.n = [m EXCEPT !.cid[s.arg] = FALSE, !.call = Hung({s.arg})] PROVE Goal
  <2>1. e.n.plugged = m.plugged /\ e.n.cid = [m.cid EXCEPT ![s.arg] = FALSE] /\ e.n.call = Hung({s.arg})
    BY <1>1, <1>5
  <2>2. e.n.cid["v4"] = IF s.arg = "v4" THEN FALSE ELSE m.cid["v4"]
    BY <1>1, <2>1
  <2>3. e.n.call["v4"] => m.call["v4"] /\ s.arg # "v4"
    BY <1>2, <2>1
  <2> QED
    BY <1>5, <2>1, <2>2, <2>3
<1>6. ASSUME s.op = "mode", e.n = [m EXCEPT !.lpm = FALSE] PROVE Goal
  <2>1. e.n.plugged = m.plugged /\ e.n.cid = m.cid /\ e.n.call = m.call
    BY <1>1, <1>6
  <2> QED
    BY <1>6, <2>1
<1>7. ASSUME s.op = "mode", e.n = [m EXCEPT !.lpm = TRUE, !.reg = FALSE, !.call = Hung(Both)] PROVE Goal
  <2>1. e.n.plugged = m.plugged /\ e.n.cid = m.cid /\ e.n.call = Hung(Both)
    BY <1>1, <1>7
  <2> QED
    BY <1>2, <1>7, <2>1
<1>8. ASSUME s.op = "stop", e.n = [m EXCEPT !.call = Hung({c})] PROVE Goal
  <2>1. e.n.plugged = m.plugged /\ e.n.cid = m.cid /\ e.n.call = Hung({c})
    BY <1>1, <1>8
  <2> QED
    BY <1>2, <1>8, <2>1
<1>9. ASSUME s.op \in {"setup", "setup2"}, c = s.arg, m.cid[c], NEW x,
             e.n = [m EXCEPT !.call[c] = TRUE, !.addr[c] = x]
      PROVE  Goal
  <2>1. e.n.plugged = m.plugged /\ e.n.cid = m.cid /\ e.n.call = [m.call EXCEPT ![c] = TRUE]
    BY <1>1, <1>9
  <2>2. e.n.call["v4"] = IF c = "v4" THEN TRUE ELSE m.call["v4"]
    BY <1>1, <2>1
  <2> QED
    BY <1>9, <2>1, <2>2
<1>10. ASSUME s.op = "release" => s.arg = "v6", e.n = m PROVE Goal
  BY <1>10
<1> HIDE DEF Goal
<1>11. Goal
  BY <1>3, <1>4, <1>5, <1>6, <1>7, <1>8, <1>9, <1>10, Zenon DEF Outcome
<1> QED
  BY <1>11 DEF Goal

\* A step with the name and argument of GetId, or of Setups, is that step.
LEMMA StepIs ==
  ASSUME NEW s \in Steps
  PROVE  /\ s.op = "getid" /\ s.arg = "v4" => s = GetId
         /\ s.op \in {"setup", "setup2"} /\ s.arg = "v4" => s \in Setups
<1>1. s = [op |-> s.op, arg |-> s.arg]
  BY DEF Steps
<1> QED
  BY <1>1 DEF GetId, Setups, Step

\* Carrying out a request, or losing it, keeps LeftInv, if it is not the release of the call's
\* client that is lost.
LEMMA TakenLeft ==
  ASSUME LeftInv, BaseInv, Quiet, NEW k \in DOMAIN inq, Next1(k), inq' = RemoveAt(inq, k),
         \/ m' = m /\ inq[k].s # Release
         \/ \E e \in Effect(inq[k].c, inq[k].s) : m' = e.n
  PROVE  LeftInv'
<1> DEFINE s == inq[k].s
<1>1. /\ Types /\ m \in Modems /\ (m.call["v4"] => m.cid["v4"]) /\ inq # <<>>
      /\ inq \in Seq(Requests) /\ \A i \in DOMAIN inq : inq[i] \in Requests
  BY DEF BaseInv, Types, LeftInv, ModemInOrder
<1>2. \A i \in DOMAIN inq : inq[i].s \in Steps /\ Fits(inq[i].s, inq[i].c)
  BY <1>1 DEF Requests
<1>3. /\ \A S : Under(S)' => \E i \in DOMAIN inq : i # k /\ inq[i].s \in S
      /\ \A S : Under(S) => Under(S)' \/ s \in S
      /\ \A i, j \in DOMAIN inq' : i < j =>
           \E i1, j1 \in DOMAIN inq : i1 < j1 /\ inq'[i] = inq[i1] /\ inq'[j] = inq[j1]
  BY <1>1, UnderTaken
<1>4. \A S : Under(S)' => Under(S)
  BY <1>3 DEF Under, ToSet
<1>5. \A S : s \in S => Under(S)
  BY DEF Under, ToSet
<1>6. /\ m'.plugged = m.plugged
      /\ m'.call["v4"] => m'.cid["v4"]
      /\ m'.call["v4"] => m.call["v4"] \/ s \in Setups
      /\ m'.cid["v4"] => m.cid["v4"] \/ s = GetId
      /\ s = Release => ~m'.cid["v4"]
  <2>1. CASE m' = m /\ s # Release
    BY <1>1, <2>1
  <2>2. CASE \E e \in Effect(inq[k].c, inq[k].s) : m' = e.n
    <3>1. PICK e \in Effect(inq[k].c, inq[k].s) : m' = e.n
      BY <2>2
    <3>2. Outcome(inq[k].c, s, e)
      BY <1>1, EffectTypes
    <3>3. /\ m'.plugged = m.plugged
          /\ m'.call["v4"] => m'.cid["v4"]
          /\ m'.call["v4"] => m.call["v4"] \/ (s.op \in {"setup", "setup2"} /\ s.arg = "v4")
          /\ m'.cid["v4"] => m.cid["v4"] \/ (s.op = "getid" /\ s.arg = "v4")
          /\ s.op = "release" /\ s.arg = "v4" => ~m'.cid["v4"]
      BY <1>1, <3>1, <3>2, OutcomeLeft
    <3>4. s = Release => s.op = "release" /\ s.arg = "v4"
      BY DEF Release, Step
    <3> QED
      BY <1>2, <3>3, <3>4, StepIs
  <2> QED
    BY <2>1, <2>2
<1> HIDE DEF s
<1>7. ModemInOrder'
  <2>1. m.plugged
    BY <1>1 DEF LeftInv, ModemInOrder
  <2> QED
    BY <1>6, <2>1 DEF ModemInOrder
<1>8. Clean => Clean'
  BY <1>4, <1>5, <1>6 DEF Clean
<1>9. s = Release => ~Under({GetId})'
  <2> SUFFICES ASSUME s = Release, Under({GetId})' PROVE FALSE
    OBVIOUS
  <2>1. PICK i \in DOMAIN inq : i # k /\ inq[i].s \in {GetId}
    BY <1>3
  <2>2. inq[k].s = Release /\ inq[i].s = GetId
    BY <2>1 DEF s
  <2>3. inq[k].c = "ctl" /\ inq[i].c = "ctl"
    BY <1>2, <2>2 DEF Fits, Release, GetId, Step, CtlOps, CallOps
  <2>4. ~(i \in 1..(k - 1))
    BY <2>3 DEF Next1
  <2>5. k < i
    <3>1. DOMAIN inq = 1..Len(inq) /\ Len(inq) \in Nat
      BY <1>1
    <3> QED
      BY <2>1, <2>4, <3>1
  <2> QED
    BY <2>2, <2>5 DEF LeftInv, ReleasesLast
<1>10. Cut => Cut'
  <2> SUFFICES ASSUME Cut, m'.cid["v4"] \/ Under({GetId})', m'.call["v4"] \/ Under(Setups)'
               PROVE  Under({Release})'
    BY DEF Cut
  <2>1. (m.cid["v4"] \/ Under({GetId})) /\ (m.call["v4"] \/ Under(Setups))
    BY <1>4, <1>5, <1>6
  <2>2. Under({Release})
    BY <2>1 DEF Cut
  <2>3. s # Release
    BY <1>6, <1>9
  <2> QED
    BY <1>3, <2>2, <2>3
<1>11. \A i, j \in DOMAIN inq' : i < j => ~(inq'[i].s = Release /\ inq'[j].s = GetId)
  <2> SUFFICES ASSUME NEW i \in DOMAIN inq', NEW j \in DOMAIN inq', i < j
               PROVE  ~(inq'[i].s = Release /\ inq'[j].s = GetId)
    OBVIOUS
  <2>1. PICK i1, j1 \in DOMAIN inq : i1 < j1 /\ inq'[i] = inq[i1] /\ inq'[j] = inq[j1]
    BY <1>3
  <2> QED
    BY <2>1 DEF LeftInv, ReleasesLast
<1> QED
  BY <1>4, <1>7, <1>8, <1>10, <1>11, QuietLeft

\* A step in which calls only end keeps LeftInv.
LEMMA NetworkLeft ==
  ASSUME LeftInv, Quiet, inq' = inq, m'.plugged = m.plugged, m'.cid = m.cid,
         m'.call["v4"] => m.call["v4"]
  PROVE  LeftInv'
<1>1. \A S : Under(S)' <=> Under(S)
  BY DEF Under
<1>2. Clean => Clean'
  BY <1>1 DEF Clean
<1>3. Cut => Cut'
  BY <1>1 DEF Cut
<1>4. ModemInOrder'
  BY <1>2 DEF LeftInv, ModemInOrder
<1>5. \A i, j \in DOMAIN inq' : i < j => ~(inq'[i].s = Release /\ inq'[j].s = GetId)
  BY DEF LeftInv, ReleasesLast
<1> QED
  BY <1>1, <1>2, <1>3, <1>4, <1>5, QuietLeft

\* A modem that goes, or comes, keeps LeftInv: it has no call and no request.
LEMMA PlugLeft ==
  ASSUME LeftInv, Quiet, inq' = <<>>, ~m'.call["v4"]
  PROVE  LeftInv'
<1>1. \A S : ~Under(S)'
  BY DEF Under, ToSet
<1>2. Clean' /\ Cut'
  BY <1>1 DEF Clean, Cut
<1>3. ModemInOrder'
  BY <1>2 DEF ModemInOrder
<1>4. \A i, j \in DOMAIN inq' : i < j => ~(inq'[i].s = Release /\ inq'[j].s = GetId)
  OBVIOUS
<1> QED
  BY <1>1, <1>2, <1>3, <1>4, QuietLeft

\* The steps of the modem keep LeftInv, when no release is lost.
LEMMA ModemLeft ==
  ASSUME LeftInv, BaseInv, "release" \notin Faults,
         \/ Serve \/ Refuse \/ Lose \/ LoseInd \/ CallDrop \/ NetDown \/ SimUp \/ NetUp \/ Unplug \/ Replug
  PROVE  LeftInv'
<1>1. Types /\ Quiet /\ m \in Modems
  BY ModemSteps DEF BaseInv, Types
<1>2. /\ "v4" \in Both /\ DOMAIN m.call = Both
      /\ m = [plugged |-> m.plugged, sim |-> m.sim, reg |-> m.reg, lpm |-> m.lpm, call |-> m.call,
                addr |-> m.addr, cid |-> m.cid]
  BY <1>1 DEF Modems, Both
<1>3. CASE Serve
  <2>1. PICK k \in DOMAIN inq : \E e \in Effect(inq[k].c, inq[k].s) :
          Next1(k) /\ m' = e.n /\ inq' = RemoveAt(inq, k)
    BY <1>3 DEF Serve
  <2>2. Next1(k) /\ inq' = RemoveAt(inq, k) /\ \E e \in Effect(inq[k].c, inq[k].s) : m' = e.n
    BY <2>1
  <2> QED
    BY <1>1, <2>2, TakenLeft
<1>4. CASE Refuse
  <2>1. PICK k \in DOMAIN inq :
          Next1(k) /\ inq[k].s.op \in {"setup", "setup2"} /\ inq' = RemoveAt(inq, k) /\ m' = m
    BY <1>4 DEF Refuse
  <2>2. inq[k].s # Release
    BY <2>1 DEF Release, Step
  <2> QED
    BY <1>1, <2>1, <2>2, TakenLeft
<1>5. CASE Lose
  <2>1. PICK k \in DOMAIN inq : \E e \in Effect(inq[k].c, inq[k].s) \union {[a |-> "none", n |-> m]} :
          Next1(k) /\ m' = e.n /\ inq' = RemoveAt(inq, k) /\ Fault(LossOf(inq[k].s))
    BY <1>5 DEF Lose
  <2>2. PICK e \in Effect(inq[k].c, inq[k].s) \union {[a |-> "none", n |-> m]} :
          Next1(k) /\ m' = e.n /\ inq' = RemoveAt(inq, k) /\ Fault(LossOf(inq[k].s))
    BY <2>1
  <2>3. inq[k].s # Release
    <3>1. LossOf(Release) = "release"
      BY DEF LossOf, Release, Step
    <3>2. LossOf(inq[k].s) \in Faults
      BY <2>2 DEF Fault
    <3> QED
      BY <3>1, <3>2
  <2>4. m' = m \/ \E x \in Effect(inq[k].c, inq[k].s) : m' = x.n
    BY <2>2
  <2> QED
    BY <1>1, <2>2, <2>3, <2>4, TakenLeft
<1>6. CASE LoseInd
  <2>1. m' = m /\ inq' = inq
    BY <1>6 DEF LoseInd
  <2> QED
    BY <1>1, <2>1, NetworkLeft
<1>7. CASE CallDrop
  <2>1. PICK f \in Both : m' = [m EXCEPT !.call[f] = FALSE] /\ inq' = inq
    BY <1>7 DEF CallDrop, Becomes
  <2>2. m'.plugged = m.plugged /\ m'.cid = m.cid /\ m'.call = [m.call EXCEPT ![f] = FALSE]
    BY <1>2, <2>1
  <2>3. m'.call["v4"] => m.call["v4"]
    BY <1>2, <2>2
  <2> QED
    BY <1>1, <2>1, <2>2, <2>3, NetworkLeft
<1>8. CASE NetDown
  <2>1. m' = [m EXCEPT !.reg = FALSE, !.call = Hung(Both)] /\ inq' = inq
    BY <1>8 DEF NetDown, Becomes
  <2>2. m'.plugged = m.plugged /\ m'.cid = m.cid /\ m'.call = Hung(Both)
    BY <1>2, <2>1
  <2>3. m'.call["v4"] => m.call["v4"]
    BY <1>1, <1>2, <2>2, HungOf
  <2> QED
    BY <1>1, <2>1, <2>2, <2>3, NetworkLeft
<1>9. CASE NetUp
  <2>1. m' = [m EXCEPT !.reg = TRUE] /\ inq' = inq
    BY <1>9 DEF NetUp
  <2>2. m'.plugged = m.plugged /\ m'.cid = m.cid /\ m'.call = m.call
    BY <1>2, <2>1
  <2> QED
    BY <1>1, <2>1, <2>2, NetworkLeft
<1>13. CASE SimUp
  <2>1. m' = [m EXCEPT !.sim = TRUE] /\ inq' = inq
    BY <1>13 DEF SimUp
  <2>2. m'.plugged = m.plugged /\ m'.cid = m.cid /\ m'.call = m.call
    BY <1>2, <2>1
  <2> QED
    BY <1>1, <2>1, <2>2, NetworkLeft
<1>10. \A a : ~Fresh(a).call["v4"] /\ ~[Fresh(a) EXCEPT !.plugged = FALSE].call["v4"]
  BY <1>2 DEF Fresh, All
<1>11. CASE Unplug
  <2>1. m' = [Fresh(m.addr) EXCEPT !.plugged = FALSE] /\ inq' = <<>>
    BY <1>11 DEF Unplug
  <2> QED
    BY <1>1, <1>10, <2>1, PlugLeft
<1>12. CASE Replug
  <2>1. m' = Fresh(m.addr) /\ inq' = inq /\ ~m.plugged
    BY <1>12 DEF Replug
  <2>2. inq' = <<>>
    BY <2>1 DEF LeftInv, ModemInOrder
  <2> QED
    BY <1>1, <1>10, <2>1, <2>2, PlugLeft
<1> QED
  BY <1>3, <1>4, <1>5, <1>6, <1>7, <1>8, <1>9, <1>11, <1>12, <1>13

\* LeftInv holds at first.
LEMMA LeftInit == Init => LeftInv
<1> SUFFICES ASSUME Init PROVE LeftInv
  OBVIOUS
<1>1. /\ pc = "detect" /\ todo = <<>> /\ inq = <<>> /\ cmdq = <<>> /\ m = Fresh(All(Both, 1))
      /\ DOMAIN todo = {} /\ DOMAIN inq = {} /\ DOMAIN cmdq = {}
  BY DEF Init
<1>2. \A S : ~Under(S)
  BY <1>1 DEF Under, ToSet
<1>3. ~m.call["v4"] /\ m.plugged
  BY <1>1 DEF Fresh, All, Both
<1>4. Clean /\ Cut
  BY <1>2, <1>3 DEF Clean, Cut
<1>5. ModemInOrder
  BY <1>3 DEF ModemInOrder
<1>6. InOrderOfStart /\ InOrderOfEnd
  BY <1>1 DEF InOrderOfStart, InOrderOfEnd, ToDo
<1>7. NoneForgotten
  BY <1>4 DEF NoneForgotten
<1>8. ReleasesLast
  BY <1>1, <1>2 DEF ReleasesLast
<1> QED
  BY <1>5, <1>6, <1>7, <1>8 DEF LeftInv

\* LeftInv is inductive, when no release is lost.
LEMMA LeftNext ==
  ASSUME "release" \notin Faults
  PROVE  BaseInv /\ LeftInv /\ [Next]_vars => LeftInv'
<1> SUFFICES ASSUME BaseInv, LeftInv, [Next]_vars PROVE LeftInv'
  OBVIOUS
<1>1. CASE Sync \/ GetClientID
  BY <1>1, StartLeft
<1>2. CASE ReleaseClientID
  BY <1>2, ReleaseLeft
<1>3. CASE \/ Redial \/ Dial \/ SetupDone \/ Radio \/ Check \/ Judge \/ LinkUp \/ SimStatus
           \/ Plain \/ Registration \/ Connected \/ SetupFailsAgain \/ SetAlarm \/ Query \/ Stop
           \/ Ended \/ LinkDown \/ GetIPAddress \/ Refresh \/ RedialNow \/ Kick
  BY <1>3, HandlerLeft
<1>4. CASE SetupFails
  BY <1>4, SetupFailsLeft
<1>5. CASE ReadSignal
  BY <1>5, ReadSignalLeft
<1>6. CASE ReadEvent
  BY <1>6, ReadEventLeft
<1>7. CASE Detect \/ Connect \/ Poll \/ PollTimeout \/ LoopAgain
  BY <1>7, LoopLeft
<1>8. CASE Quit \/ Leave \/ Join
  BY <1>8, EndLeft
<1>9. CASE \/ Sigterm \/ Sigalrm \/ Elapse \/ UNCHANGED vars
           \/ Open \/ ReadCmd \/ RecvQMI \/ Hangup \/ TellGone \/ Exit
  BY <1>9, ReaderLeft
<1>10. CASE Send
  BY <1>10, SendLeft
<1>11. CASE SendNothing \/ Wake \/ Timeout \/ TooLate
  BY <1>11, AnswerLeft
<1>12. CASE \/ Serve \/ Refuse \/ Lose \/ LoseInd \/ CallDrop \/ NetDown \/ SimUp \/ NetUp \/ Unplug \/ Replug
  BY <1>12, ModemLeft
<1> QED
  BY <1>1, <1>2, <1>3, <1>4, <1>5, <1>6, <1>7, <1>8, <1>9, <1>10, <1>11, <1>12
    DEF Next, MainAct, Timers, ReaderAct, FaultAct

\* When the dialer has ended its call is not left behind, if it dials no IPv6 (whose
\* client id the modem does not take back) and no release is lost: NothingLeft.
THEOREM NothingIsLeft ==
  ASSUME "v6" \notin Families, "release" \notin Faults
  PROVE  Spec => []NothingLeft
<1> DEFINE Inv == BaseInv /\ LeftInv
<1>1. Init => Inv
  BY BaseInit, LeftInit
<1>2. Inv /\ [Next]_vars => Inv'
  BY BaseNext, LeftNext
<1>3. Inv => NothingLeft
  <2> SUFFICES ASSUME LeftInv, pc = "exited", NEW f \in Families, m.call[f]
               PROVE  \E i \in DOMAIN inq : inq[i].s \in {Step("stop", f), Step("release", f)}
    BY DEF NothingLeft
  <2>1. f = "v4"
    BY DialerAssumption DEF Both
  <2>2. Cut /\ m.cid["v4"]
    BY <2>1 DEF LeftInv, NoneForgotten, Over, ModemInOrder
  <2>3. Under({Release})
    BY <2>1, <2>2 DEF Cut
  <2> QED
    BY <2>1, <2>3 DEF Under, ToSet, Release
<1> QED
  BY <1>1, <1>2, <1>3, PTL DEF Spec
=============================================================================
