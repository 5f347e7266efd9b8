--------------------------- MODULE QmiProxyProofs ---------------------------
(***************************************************************************)
(* Proofs about QmiProxy for any number of dialers, connections, requests, *)
(* client ids and tries: the control service is asked one thing at a time  *)
(* and the server that says it is set up is (ProxyIsSafe), and every       *)
(* answer reaches the connection that asked (OwnerIsFound).  Assumed is    *)
(* what Orderly says.                                                      *)
(***************************************************************************)
EXTENDS QmiProxy, FiniteSetTheorems, WellFoundedInduction, TLAPS

\* No dialer leaves while its control request is under way, the modem answers
\* main in time, and sends no indications of the control service.
Orderly == {"leave", "late", "ctlind"} \intersect Allowed = {}

-----------------------------------------------------------------------------
(* The invariant behind ProxySafe.                                          *)

MainKinds == {"sync", "version", "getid", "format"}
AskKinds == {"get", "release", "mux"}
Whos == Dialers \X (0..MaxConns)

MainRequests ==
  [kind : MainKinds, tid : 1..(SyncTries + 4), who : {NoOne}, id : {NoOne}, own : BOOLEAN]
Requests == [kind : AskKinds, who : Whos, id : Ids \union {NoOne}, tid : 1..MaxAsks]
Answers ==
  [kind : MainKinds \union AskKinds, tid : Nat, who : Whos \union {NoOne}, ok : BOOLEAN,
   id : Ids \union {NoOne}]

\* What an answer or an indication may be: an id is given by the modem, and it takes
\* back what it is given.
Proper(a) ==
  a \in Answers /\ (a.kind = "get" /\ a.ok => a.id \in Ids) /\ (a.kind = "release" => a.ok)
IsInd(a) == a.kind = "mux" /\ a.who = NoOne /\ a.id = NoOne /\ a.tid = 0

MainType ==
  /\ pc \in {"open", "init", "serve", "done", "killed"} /\ loop \in {"none", "on", "missed", "gone"}
  /\ {wait, quit, server, plugged, format} \subseteq BOOLEAN
  /\ conns \in 0..MaxConns /\ faults \in 0..MaxFaults

InitType ==
  /\ init \in [step : 1..Done, try : 1..SyncTries, retry : 0..Retries, tid : 1..(SyncTries + 4),
               own : BOOLEAN]
  /\ init.step < Done => init.tid = init.try + init.step - 1
  /\ pc = "init" => init.step < Done
  /\ rsq \in [kind : {"none"} \union MainKinds \union AskKinds, ok : BOOLEAN]
  /\ pc # "init" => ~wait /\ rsq = None

DialerType ==
  /\ dlr \in [Dialers -> [st : {"off", "queued", "on", "closed"}, n : 0..conns, asks : 0..MaxAsks,
                          ask : {"none"} \union AskKinds, id : Ids \union {NoOne}]]
  /\ up \in [Dialers -> Seq(Requests)]
  /\ inbox \in [Dialers -> Seq(Answers)]
  /\ \A c \in Dialers : \A i \in DOMAIN inbox[c] : Proper(inbox[c][i])

QueueType ==
  /\ ctlq \in Seq([fd : Fds, qmi : Requests]) \/ ~Serving
  /\ inq \in Seq(MainRequests \union Requests)
  /\ outq \in Seq(Answers) /\ \A i \in DOMAIN outq : Proper(outq[i])
  /\ fd \in [Dialers -> {0} \union Fds] /\ list \in [Fds -> SUBSET Ids]
  /\ ids \in [Ids -> Whos \union {NoOne}]

\* main, the thread and the modem.
Active == loop \in {"on", "missed"}
Phase ==
  /\ pc \in {"open", "done"} <=> loop = "none"
  /\ server <=> pc = "serve"
  /\ loop = "missed" => quit
  /\ ~plugged => inq = <<>> /\ outq = <<>>

\* Without a thread there are no connections; what is left after a removal are
\* indications (what a killed server leaves nobody reads).
Idle ==
  /\ ~Active /\ ~quit /\ pc # "killed" => inq = <<>> /\ \A i \in DOMAIN outq : IsInd(outq[i])
  /\ ~Serving => (\A c \in Dialers : fd[c] = 0) /\ (\A f \in Fds : list[f] = {})
  /\ Active /\ ~server => ctlq = <<>>

\* The init asks one thing at a time, and its answers are what it takes them for.
IsMine(a) == a.kind = Steps[init.step] /\ a.tid = init.tid
Setup ==
  pc = "init" /\ Active =>
    /\ init.own /\ Len(inq) <= 1
    /\ inq # <<>> => inq[1].kind = Steps[init.step] /\ inq[1].tid = init.tid
                     /\ inq[1].who = NoOne /\ inq[1].own
    /\ \A i \in DOMAIN outq : IsInd(outq[i]) \/ (IsMine(outq[i]) /\ outq[i].who = NoOne)
    /\ \A i, j \in DOMAIN outq : IsMine(outq[i]) /\ IsMine(outq[j]) => i = j
    /\ inq # <<>> => \A i \in DOMAIN outq : ~IsMine(outq[i])
    /\ inq # <<>> \/ (\E i \in DOMAIN outq : IsMine(outq[i])) => wait /\ rsq = None
    /\ rsq # None => wait /\ rsq.kind = Steps[init.step]
    /\ \A i \in DOMAIN outq : outq[i].kind = "format" /\ outq[i].ok => format
    /\ rsq.kind = "format" /\ rsq.ok /\ plugged => format

\* While the server runs there are only messages of dialers, and indications; a
\* control request that is with the modem is the first of the list.
IsFirst(m) == ctlq # <<>> /\ m.who = ctlq[1].qmi.who
Traffic ==
  Serving =>
    /\ \A i \in DOMAIN inq : inq[i].kind \in AskKinds
    /\ \A i \in DOMAIN outq : outq[i].kind \in AskKinds
    /\ \A i, j \in DOMAIN inq : IsCtl(inq[i]) /\ IsCtl(inq[j]) => i = j
    /\ \A i, j \in DOMAIN outq : IsCtl(outq[i]) /\ IsCtl(outq[j]) => i = j
    /\ \A i \in DOMAIN inq, j \in DOMAIN outq : ~(IsCtl(inq[i]) /\ IsCtl(outq[j]))
    /\ \A i \in DOMAIN inq : IsCtl(inq[i]) => IsFirst(inq[i])
    /\ \A i \in DOMAIN outq : IsCtl(outq[i]) => IsFirst(outq[i])

\* The connections have descriptors of their own, and who has hung up waits for
\* nothing.
Connections ==
  /\ \A c \in Dialers : fd[c] # 0 <=> dlr[c].st \in {"on", "closed"}
  /\ \A c, x \in Dialers : fd[c] = fd[x] /\ fd[c] # 0 => c = x
  /\ \A c \in Dialers : dlr[c].st # "on" => up[c] = <<>> /\ inbox[c] = <<>>
  /\ Serving => \A c \in Dialers : \A i \in DOMAIN ctlq :
       fd[c] # 0 /\ ctlq[i].fd = fd[c] => dlr[c].st = "on"

ProxyInv ==
  /\ MainType /\ InitType /\ DialerType /\ QueueType
  /\ Phase /\ Idle /\ Setup /\ Traffic /\ Connections /\ InitIsReal

-----------------------------------------------------------------------------
(* The invariant behind AnswersFindOwner.                                   *)

\* What a dialer asked first is under way first; once it has asked the control
\* service it has no id, and can only ask for one.
Precedes(m, x) ==
  m.who = x.who /\ m.who # NoOne => m.tid < x.tid /\ (IsCtl(m) => x.kind = "get")
Sorted(q) == \A i, j \in DOMAIN q : i < j => Precedes(q[i], q[j])
Ahead(p, q) == \A i \in DOMAIN p, j \in DOMAIN q : Precedes(p[i], q[j])

\* On its way are the answers a dialer has not read, ...
Order ==
  Serving =>
    /\ Sorted(outq) /\ Sorted(inq) /\ Ahead(outq, inq)
    /\ \A c \in Dialers :
         /\ Sorted(inbox[c]) /\ Sorted(up[c])
         /\ Ahead(inbox[c], outq) /\ Ahead(inbox[c], inq) /\ Ahead(inbox[c], up[c])
         /\ Ahead(outq, up[c]) /\ Ahead(inq, up[c])

\* ... and the control requests that wait, the first of which may be with the modem.
CtlOrder ==
  Serving =>
    /\ \A i, j \in DOMAIN ctlq : i < j => Precedes(ctlq[i].qmi, ctlq[j].qmi)
    /\ \A k \in DOMAIN ctlq :
         /\ IsCtl(ctlq[k].qmi)
         /\ \A i \in DOMAIN outq : ~IsCtl(outq[i]) => Precedes(outq[i], ctlq[k].qmi)
         /\ \A i \in DOMAIN inq : ~IsCtl(inq[i]) => Precedes(inq[i], ctlq[k].qmi)
         /\ \A c \in Dialers :
              /\ \A i \in DOMAIN inbox[c] : Precedes(inbox[c][i], ctlq[k].qmi)
              /\ \A i \in DOMAIN up[c] : Precedes(ctlq[k].qmi, up[c][i])
    /\ \A i \in DOMAIN inq : IsCtl(inq[i]) => inq[i] = ctlq[1].qmi
    /\ \A i \in DOMAIN outq : IsCtl(outq[i]) =>
         /\ outq[i].tid = ctlq[1].qmi.tid /\ outq[i].kind = ctlq[1].qmi.kind
         /\ outq[i].kind = "release" => outq[i].id = ctlq[1].qmi.id

\* A message m of dialer c is one of its requests, or the answer to one: it waits for
\* one, and the id it uses is listed for it.
Of(m, c) == dlr[c].st = "on" /\ m.who = Who(c)
OwnMessage(m, c) ==
  /\ Of(m, c) /\ dlr[c].ask # "none" /\ m.tid \in 1..dlr[c].asks
  /\ IsCtl(m) => Holds(c) = NoOne
  /\ m.kind # "get" => m.id \in list[fd[c]]
Owned ==
  Serving =>
    /\ \A i \in DOMAIN inq : \E c \in Dialers : OwnMessage(inq[i], c)
    /\ \A i \in DOMAIN outq : IsInd(outq[i]) \/ \E c \in Dialers : OwnMessage(outq[i], c)
    /\ \A c \in Dialers : \A i \in DOMAIN up[c] : OwnMessage(up[c][i], c)
    /\ \A i \in DOMAIN ctlq : \E c \in Dialers :
         OwnMessage(ctlq[i].qmi, c) /\ ctlq[i].fd = fd[c]

\* What was sent to a dialer.
Delivered ==
  \A c \in Dialers : \A i \in DOMAIN inbox[c] :
    LET a == inbox[c][i] IN
    \/ IsInd(a)
    \/ /\ a.who = Who(c) /\ a.tid \in 1..dlr[c].asks /\ dlr[c].ask # "none"
       /\ IsCtl(a) => Holds(c) = NoOne
       /\ a.kind = "get" /\ a.ok /\ a.tid = dlr[c].asks => a.id \in list[fd[c]]

\* The lists are disjoint, and have what the dialers hold.
Lists ==
  /\ \A c, x \in Connected : c # x => list[fd[c]] \intersect list[fd[x]] = {}
  /\ \A f \in Fds : ~Live(f) => list[f] = {}
  /\ \A c \in Dialers : dlr[c].st = "on" /\ Holds(c) # NoOne => Holds(c) \in list[fd[c]]

\* The modem knows whose the ids are; one that it took back is listed until its
\* answer is there.
Known ==
  Serving /\ plugged =>
    /\ \A c \in Connected : \A i \in list[fd[c]] :
         \/ ids[i] = Who(c)
         \/ \E k \in DOMAIN outq :
              outq[k].kind = "release" /\ outq[k].who = Who(c) /\ outq[k].id = i
    /\ \A k \in DOMAIN outq :
         outq[k].kind = "get" /\ outq[k].ok => ids[outq[k].id] = outq[k].who

\* A dialer that has no connection yet has no id, and who waits has asked.
Fresh ==
  \A c \in Dialers :
    /\ dlr[c].st \in {"off", "queued"} => dlr[c].ask = "none" /\ dlr[c].id = NoOne
    /\ dlr[c].ask # "none" => dlr[c].asks > 0

OwnerInv == ProxyInv /\ Order /\ CtlOrder /\ Owned /\ Delivered /\ Lists /\ Known /\ Fresh

-----------------------------------------------------------------------------
(* Facts about the constants, queues and messages.                          *)

\* The steps of the init.
LEMMA StepsAre ==
  /\ Done = 5
  /\ Steps[1] = "sync" /\ Steps[2] = "version" /\ Steps[3] = "getid" /\ Steps[4] = "format"
  /\ \A s \in 1..4 : Steps[s] \in MainKinds /\ (Steps[s] = "format" => s = 4)
<1>1. Len(Steps) = 4 /\ Steps[1] = "sync" /\ Steps[2] = "version" /\ Steps[3] = "getid"
      /\ Steps[4] = "format"
  BY DEF Steps
<1>2. \A s \in 1..4 : s = 1 \/ s = 2 \/ s = 3 \/ s = 4
  OBVIOUS
<1> QED
  BY <1>1, <1>2 DEF Done, MainKinds

\* The first element of a queue leaves.
LEMMA TailIs ==
  ASSUME NEW S, NEW q \in Seq(S), q # <<>>
  PROVE  /\ Tail(q) \in Seq(S) /\ Head(q) = q[1] /\ 1 \in DOMAIN q /\ q[1] \in S
         /\ Len(q) \in Nat \ {0} /\ Len(Tail(q)) = Len(q) - 1
         /\ \A i \in DOMAIN Tail(q) : i \in Nat \ {0} /\ i + 1 \in DOMAIN q /\ Tail(q)[i] = q[i + 1]
         /\ \A i \in DOMAIN q : i = 1 \/ (i - 1 \in DOMAIN Tail(q) /\ q[i] = Tail(q)[i - 1])
<1>1. Tail(q) \in Seq(S) /\ Head(q) = q[1] /\ Len(q) \in Nat \ {0} /\ Len(Tail(q)) = Len(q) - 1
      /\ \A i \in 1..Len(Tail(q)) : Tail(q)[i] = q[i + 1]
  OBVIOUS
<1>2. DOMAIN q = 1..Len(q) /\ DOMAIN Tail(q) = 1..Len(Tail(q))
  BY <1>1
<1>3. q[1] \in S
  OBVIOUS
<1> QED
  BY <1>1, <1>2, <1>3

\* An element is added to a queue.
LEMMA AppendIs ==
  ASSUME NEW S, NEW q \in Seq(S), NEW m \in S
  PROVE  /\ Append(q, m) \in Seq(S) /\ Append(q, m) # <<>> /\ Len(q) \in Nat
         /\ Len(Append(q, m)) = Len(q) + 1
         /\ Len(q) + 1 \in DOMAIN Append(q, m) /\ Append(q, m)[Len(q) + 1] = m
         /\ \A i \in DOMAIN q : i \in DOMAIN Append(q, m) /\ Append(q, m)[i] = q[i]
                                /\ i \in 1..Len(q)
         /\ \A i \in DOMAIN Append(q, m) :
              (i \in DOMAIN q /\ Append(q, m)[i] = q[i]) \/ (i = Len(q) + 1 /\ Append(q, m)[i] = m)
<1>1. /\ Append(q, m) \in Seq(S) /\ Len(q) \in Nat /\ Len(Append(q, m)) = Len(q) + 1
      /\ Append(q, m)[Len(q) + 1] = m
      /\ \A i \in 1..Len(q) : Append(q, m)[i] = q[i]
  OBVIOUS
<1>2. DOMAIN q = 1..Len(q) /\ DOMAIN Append(q, m) = 1..Len(Append(q, m))
  BY <1>1
<1>3. Append(q, m) # <<>>
  BY <1>1
<1> QED
  BY <1>1, <1>2, <1>3

\* An element is added to an empty queue.
LEMMA SingleIs ==
  ASSUME NEW m
  PROVE  Append(<<>>, m) = <<m>> /\ DOMAIN <<m>> = {1} /\ <<m>>[1] = m /\ Len(<<m>>) = 1
OBVIOUS

\* The parts of a queue.
LEMMA QueueIs ==
  ASSUME NEW S, NEW q \in Seq(S)
  PROVE  /\ DOMAIN q = 1..Len(q) /\ Len(q) \in Nat
         /\ \A i \in DOMAIN q : q[i] \in S /\ q # <<>> /\ 1 \in DOMAIN q
         /\ q = <<>> <=> Len(q) = 0
         /\ q = <<>> <=> DOMAIN q = {}
OBVIOUS

\* What the modem makes of a request.
LEMMA EffectIs ==
  ASSUME NEW m \in MainRequests \union Requests, ids \in [Ids -> Whos \union {NoOne}],
         NEW e \in Effects(m)
  PROVE  /\ Proper(e[1]) /\ e[2] \in [Ids -> Whos \union {NoOne}]
         /\ e[1].kind = m.kind /\ e[1].tid = m.tid /\ e[1].who = m.who
         /\ m.kind = "mux" => e[1].id = m.id /\ e[2] = ids
         /\ m.kind = "get" =>
              \/ ~e[1].ok /\ e[2] = ids
              \/ e[1].ok /\ e[1].id \in Free /\ e[2] = [ids EXCEPT ![e[1].id] = m.who]
         /\ m.kind = "release" => e[1].id = m.id /\ e[2] = [ids EXCEPT ![m.id] = NoOne]
         /\ m.kind = "format" /\ m.own => e[1].ok
<1> USE DEF Free, Answer, Proper, Answers
<1>1. /\ m.kind \in MainKinds \union AskKinds /\ m.tid \in Nat
      /\ m.who \in Whos \union {NoOne} /\ m.id \in Ids \union {NoOne}
  BY ProxyAssumption DEF MainRequests, Requests
<1>2. CASE m.kind = "sync"
  <2>1. e = <<Answer(m, TRUE, NoOne), [i \in Ids |-> NoOne]>>
    BY <1>2 DEF Effects
  <2> QED
    BY <1>1, <1>2, <2>1
<1>3. CASE m.kind = "get" /\ Free # {}
  <2>1. PICK i \in Free : e = <<Answer(m, TRUE, i), [ids EXCEPT ![i] = m.who]>>
    BY <1>3 DEF Effects
  <2> QED
    BY <1>1, <1>3, <2>1
<1>4. CASE m.kind = "get" /\ Free = {}
  <2>1. e = <<Answer(m, FALSE, NoOne), ids>>
    BY <1>4 DEF Effects
  <2> QED
    BY <1>1, <1>4, <2>1
<1>5. CASE m.kind = "release"
  <2>1. e = <<Answer(m, TRUE, m.id), [ids EXCEPT ![m.id] = NoOne]>>
    BY <1>5 DEF Effects
  <2> QED
    BY <1>1, <1>5, <2>1
<1>6. CASE m.kind = "format"
  <2>1. PICK ok \in BOOLEAN : e = <<Answer(m, ok, m.id), ids>> /\ (m.own => ok)
    BY <1>6 DEF Effects
  <2> QED
    BY <1>1, <1>6, <2>1
<1>7. CASE m.kind \notin {"sync", "get", "release", "format"}
  <2>1. e = <<Answer(m, TRUE, m.id), ids>>
    BY <1>7 DEF Effects
  <2> QED
    BY <1>1, <1>7, <2>1
<1> QED
  BY <1>2, <1>3, <1>4, <1>5, <1>6, <1>7

\* The first descriptor that is free.
LEMMA FreeFd ==
  ASSUME fd \in [Dialers -> {0} \union Fds], NEW c \in Dialers, fd[c] = 0,
         NEW f, f = Min({g \in Fds : ~Live(g)})
  PROVE  f \in Fds /\ \A x \in Dialers : fd[x] # f
<1> DEFINE n == Cardinality(Dialers)
           F == {g \in Fds : ~Live(g)}
           C == Dialers \ {c}
           U == {fd[x] : x \in C}
<1>1. IsFiniteSet(Dialers)
  BY ProxyAssumption
<1>2. n \in Nat /\ Fds = 1..n
  BY <1>1, FS_CardinalityType DEF Fds
<1>3. IsFiniteSet(Fds) /\ Cardinality(Fds) = n
  <2>1. n \in Nat
    BY <1>2
  <2>2. IsFiniteSet(1..n) /\ Cardinality(1..n) = IF 1 > n THEN 0 ELSE n - 1 + 1
    BY <2>1, FS_Interval
  <2>3. IF 1 > n THEN n = 0 ELSE TRUE
    BY <2>1
  <2> HIDE DEF n
  <2> QED
    BY <1>2, <2>1, <2>2, <2>3
<1>4. IsFiniteSet(C) /\ Cardinality(C) = n - 1
  BY <1>1, FS_RemoveElement
<1>5. IsFiniteSet(U) /\ Cardinality(U) <= Cardinality(C)
  <2> DEFINE h == [x \in C |-> fd[x]]
  <2>1. h \in Surjection(C, U)
    BY DEF Surjection
  <2>2. IsFiniteSet(C)
    BY <1>4
  <2> HIDE DEF h, C, U
  <2> QED
    BY <2>1, <2>2, FS_Surjection
<1>6. F # {}
  <2> SUFFICES ASSUME F = {} PROVE FALSE
    OBVIOUS
  <2>1. \A g \in Fds : \E x \in C : fd[x] = g
    BY <1>2 DEF Live, Connected
  <2>2. Fds \subseteq U
    BY <2>1
  <2> HIDE DEF C, U
  <2>3. Cardinality(Fds) <= Cardinality(U)
    BY <1>5, <2>2, FS_Subset
  <2>4. Cardinality(U) \in Nat /\ Cardinality(C) \in Nat
    BY <1>4, <1>5, FS_CardinalityType
  <2> HIDE DEF n
  <2> QED
    BY <1>2, <1>3, <1>4, <1>5, <2>3, <2>4
<1>7. \E x \in F : \A y \in F : x <= y
  <2>1. F \subseteq Nat
    BY <1>2
  <2> HIDE DEF F
  <2>2. PICK x \in F : \A y \in F : <<y, x>> \notin OpToRel(<, Nat)
    BY <1>6, <2>1, NatLessThanWellFounded, WFMin
  <2>3. \A y \in F : ~(y < x)
    BY <2>1, <2>2, Zenon DEF OpToRel
  <2> QED
    BY <2>1, <2>3
<1>8. f \in F
  BY <1>7 DEF Min
<1>9. f \in Fds /\ f # 0 /\ ~Live(f)
  BY <1>2, <1>8
<1> QED
  BY <1>9 DEF Live, Connected

-----------------------------------------------------------------------------
(* The types.                                                               *)

Types == MainType /\ InitType /\ DialerType /\ QueueType

\* The types are those of TypeOK.
LEMMA TypesAreOK == ASSUME Types PROVE TypeOK
<1>1. /\ init.step \in 1..Done /\ init.own \in BOOLEAN /\ init.try \in 1..SyncTries
      /\ init.retry \in 0..Retries /\ init.tid \in 1..(SyncTries + 4)
  BY DEF Types, InitType
<1>2. \A c \in Dialers :
        /\ dlr[c].st \in {"off", "queued", "on", "closed"} /\ dlr[c].n \in 0..conns
        /\ dlr[c].asks \in 0..MaxAsks /\ dlr[c].ask \in {"none", "get", "release", "mux"}
        /\ dlr[c].id \in Ids \union {NoOne}
  BY DEF Types, DialerType, AskKinds
<1> QED
  BY <1>1, <1>2 DEF Types, MainType, QueueType, TypeOK

\* What main starts an init with, and what it goes on to.
LEMMA StartIs ==
  /\ Start \in [step : 1..Done, try : 1..SyncTries, retry : 0..Retries, tid : 1..(SyncTries + 4),
                own : BOOLEAN]
  /\ Start.step = 1 /\ Start.try = 1 /\ Start.tid = 1 /\ Start.own = TRUE
BY ProxyAssumption, StepsAre DEF Start

\* The attempts of main keep their types.
LEMMA AgainTypes ==
  ASSUME InitType, pc = "init", Again, ~wait', rsq' = None
  PROVE  InitType' /\ pc' \in {"init", "serve"} /\ (server' = server \/ server' = TRUE)
         /\ (pc' = "serve" => server') /\ (pc' = "init" => UNCHANGED server)
         /\ init'.step = 1 /\ init'.own = TRUE
<1>1. None \in [kind : {"none"} \union MainKinds \union AskKinds, ok : BOOLEAN]
  BY DEF None
<1>2. CASE init.retry < Retries /\ plugged
  <2>1. init' = [Start EXCEPT !.retry = init.retry + 1] /\ pc' = pc /\ server' = server
    BY <1>2 DEF Again
  <2>2. init.retry + 1 \in 0..Retries
    BY <1>2, ProxyAssumption DEF InitType
  <2> QED
    BY <1>1, <2>1, <2>2, StartIs, StepsAre DEF InitType
<1>3. CASE ~(init.retry < Retries /\ plugged)
  <2>1. init' = Start /\ pc' = "serve" /\ server' = TRUE
    BY <1>3 DEF Again
  <2> QED
    BY <1>1, <2>1, StartIs, StepsAre DEF InitType
<1> QED
  BY <1>2, <1>3

\* A step of main, and one of the init by main.
LEMMA MainTypes ==
  ASSUME ProxyInv, MainAct PROVE MainType' /\ InitType'
<1> USE DEF mainVars, answerVars, proxyVars, dialerVars, modemVars
<1>0. MainType /\ InitType
  BY DEF ProxyInv
<1>1. None \in [kind : {"none"} \union MainKinds \union AskKinds, ok : BOOLEAN]
  BY DEF None
<1>2. CASE Open
  <2>1. init' = init \/ init' = Start
    BY <1>2 DEF Open
  <2> QED
    BY <1>0, <1>1, <1>2, <2>1, StartIs, StepsAre DEF Open, MainType, InitType
<1>3. CASE InitSend
  BY <1>0, <1>1, <1>3 DEF InitSend, MainType, InitType
<1>4. CASE InitNext
  <2>0. pc = "init" /\ wait' = FALSE /\ rsq' = None
        /\ UNCHANGED <<loop, quit, conns, plugged, format, faults>>
    BY <1>4 DEF InitNext
  <2>1. PICK ok \in Accepts :
       LET next == [init EXCEPT !.step = @ + 1, !.tid = @ + 1,
                                !.own = @ /\ rsq.kind = Steps[init.step]]
       IN CASE ~ok -> Again
            [] ok /\ next.step < Done -> init' = next /\ UNCHANGED <<pc, server>>
            [] OTHER -> init' = [Start EXCEPT !.step = Done] /\ pc' = "serve" /\ server' = TRUE
    BY <1>4 DEF InitNext
  <2> DEFINE next == [init EXCEPT !.step = @ + 1, !.tid = @ + 1,
                                  !.own = @ /\ rsq.kind = Steps[init.step]]
  <2>2. CASE ~ok
    <3>1. Again
      BY <2>1, <2>2
    <3> QED
      BY <1>0, <2>0, <3>1, AgainTypes DEF MainType
  <2>3. CASE ok /\ next.step < Done
    <3>1. init' = next /\ pc' = pc /\ server' = server
      BY <2>1, <2>3
    <3>2. next.step = init.step + 1 /\ next.tid = init.tid + 1 /\ next.try = init.try
          /\ next.retry = init.retry /\ next.own \in BOOLEAN
          /\ next = [step |-> next.step, try |-> next.try, retry |-> next.retry, tid |-> next.tid,
                     own |-> next.own]
      <4> DEFINE b == init.own /\ rsq.kind = Steps[init.step]
                 s == init.step + 1
                 t == init.tid + 1
      <4>1. next = [init EXCEPT !.step = s, !.tid = t, !.own = b]
        OBVIOUS
      <4>2. b \in BOOLEAN
        OBVIOUS
      <4>3. init \in [step : 1..Done, try : 1..SyncTries, retry : 0..Retries,
                      tid : 1..(SyncTries + 4), own : BOOLEAN]
        BY <1>0 DEF InitType
      <4> HIDE DEF next, b, s, t
      <4>4. /\ next.step = s /\ next.tid = t /\ next.own = b
            /\ next.try = init.try /\ next.retry = init.retry
            /\ next = [step |-> s, try |-> init.try, retry |-> init.retry, tid |-> t, own |-> b]
        BY <4>1, <4>3
      <4> QED
        BY <4>2, <4>4 DEF s, t
    <3>3. next.step \in 1..Done /\ next.tid = next.try + next.step - 1
          /\ next.tid \in 1..(SyncTries + 4)
      BY <1>0, <2>0, <2>3, <3>2, StepsAre, ProxyAssumption DEF InitType
    <3> HIDE DEF next
    <3>4. next \in [step : 1..Done, try : 1..SyncTries, retry : 0..Retries,
                    tid : 1..(SyncTries + 4), own : BOOLEAN]
      BY <1>0, <3>2, <3>3 DEF InitType
    <3>5. InitType'
      BY <1>1, <2>0, <2>3, <3>1, <3>3, <3>4 DEF InitType
    <3> QED
      BY <1>0, <2>0, <3>1, <3>5 DEF MainType
  <2>4. CASE ok /\ ~(next.step < Done)
    <3>1. init' = [Start EXCEPT !.step = Done] /\ pc' = "serve" /\ server' = TRUE
      BY <2>1, <2>4
    <3>2. InitType'
      BY <1>1, <2>0, <3>1, StartIs, StepsAre DEF InitType
    <3> QED
      BY <1>0, <2>0, <3>1, <3>2 DEF MainType
  <2> QED
    BY <2>2, <2>3, <2>4
<1>5. CASE InitTimeout
  <2>0. pc = "init" /\ ~wait' /\ rsq' = None /\ UNCHANGED <<loop, quit, conns, plugged, format>>
        /\ wait' = FALSE /\ faults' \in 0..MaxFaults
    BY <1>0, <1>5, ProxyAssumption DEF InitTimeout, Fault, MainType
  <2>1. CASE Again
    BY <1>0, <2>0, <2>1, AgainTypes DEF MainType
  <2>2. CASE ~Again
    <3>1. /\ Steps[init.step] = "sync" /\ init.try < SyncTries
          /\ init' = [init EXCEPT !.try = @ + 1, !.tid = @ + 1] /\ UNCHANGED <<pc, server>>
      BY <1>5, <2>2 DEF InitTimeout
    <3>2. init.step = 1
      <4>1. init.step \in 1..4
        BY <1>0, <2>0, StepsAre DEF InitType
      <4> QED
        BY <3>1, <4>1, StepsAre
    <3>3. init'.step = init.step /\ init'.tid = init.tid + 1 /\ init'.try = init.try + 1
          /\ init'.retry = init.retry /\ init'.own = init.own
          /\ init' = [step |-> init'.step, try |-> init'.try, retry |-> init'.retry,
                      tid |-> init'.tid, own |-> init'.own]
      BY <1>0, <3>1 DEF InitType
    <3>4. init'.try \in 1..SyncTries /\ init'.tid \in 1..(SyncTries + 4)
          /\ init'.tid = init'.try + init'.step - 1
      BY <1>0, <2>0, <3>1, <3>2, <3>3, StepsAre, ProxyAssumption DEF InitType
    <3>5. InitType'
      BY <1>0, <1>1, <2>0, <3>1, <3>3, <3>4 DEF InitType
    <3> QED
      BY <1>0, <2>0, <3>1, <3>5 DEF MainType
  <2> QED
    BY <2>1, <2>2
<1>6. CASE Join
  BY <1>0, <1>1, <1>6 DEF Join, MainType, InitType
<1> QED
  BY <1>2, <1>3, <1>4, <1>5, <1>6 DEF MainAct

\* No other step changes them.
LEMMA OtherTypes ==
  ASSUME ProxyInv, Sigint \/ LoopAct \/ DialerAct \/ Serve \/ Mute \/ Indicate \/ Unplug \/ Replug
  PROVE  MainType' /\ InitType'
<1> USE DEF mainVars, answerVars, proxyVars, dialerVars, modemVars
<1>0. MainType /\ InitType
  BY DEF ProxyInv
<1>a. ASSUME UNCHANGED <<pc, init, wait, rsq>> PROVE InitType'
  BY <1>0, <1>a DEF InitType
<1>b. ASSUME NEW k, Fault(k) PROVE faults' \in 0..MaxFaults
  BY <1>0, <1>b, ProxyAssumption DEF Fault, MainType
<1>1. CASE Sigint
  BY <1>0, <1>a, <1>1 DEF Sigint, MainType
<1>2. CASE LoopAct
  <2>1. CASE RecvInit
    <3>1. MainType'
      BY <1>0, <2>1 DEF RecvInit, Round, MainType
    <3>2. rsq' \in [kind : {"none"} \union MainKinds \union AskKinds, ok : BOOLEAN]
      <4>1. outq # <<>> /\ outq \in Seq(Answers)
        BY <2>1 DEF RecvInit, ProxyInv, QueueType
      <4>2. Head(outq) \in Answers
        BY <4>1, TailIs
      <4>3. [kind |-> Head(outq).kind, ok |-> Head(outq).ok]
              \in [kind : {"none"} \union MainKinds \union AskKinds, ok : BOOLEAN]
        BY <4>2 DEF Answers
      <4>4. rsq' = [kind |-> Head(outq).kind, ok |-> Head(outq).ok] \/ rsq' = rsq
        BY <2>1 DEF RecvInit
      <4> QED
        BY <1>0, <4>3, <4>4 DEF InitType
    <3>3. pc # "init" => rsq' = rsq
      BY <1>0, <2>1 DEF RecvInit, InitType
    <3> QED
      BY <1>0, <2>1, <3>1, <3>2, <3>3 DEF RecvInit, Round, InitType
  <2>2. CASE \E c \in Dialers : Accept(c) \/ Cleanup(c) \/ SendQmi(c)
    BY <1>0, <1>a, <2>2 DEF Accept, Cleanup, SendQmi, Round, MainType
  <2>3. CASE RecvCtl \/ RecvMux \/ Tick \/ LoopExit
    BY <1>0, <1>a, <2>3 DEF RecvCtl, RecvMux, Tick, LoopExit, Round, MainType
  <2>4. CASE Killed
    <3>1. pc # "init"
      BY <2>4 DEF Killed, ProxyInv, Phase
    <3> QED
      BY <1>0, <2>4, <3>1 DEF Killed, MainType, InitType
  <2> QED
    BY <1>2, <2>1, <2>2, <2>3, <2>4 DEF LoopAct
<1>3. CASE DialerAct
  <2>1. UNCHANGED <<pc, init, wait, rsq, loop, quit, server, plugged, format, faults>>
    BY <1>3 DEF DialerAct, Connect, Ask, Receive, Close, DialerStep
  <2>2. conns' \in 0..MaxConns
    <3>1. conns' = conns \/ (conns < MaxConns /\ conns' = conns + 1)
      BY <1>3 DEF DialerAct, Connect, Ask, Receive, Close
    <3> QED
      BY <1>0, <3>1, ProxyAssumption DEF MainType
  <2> QED
    BY <1>0, <1>a, <2>1, <2>2 DEF MainType
<1>4. CASE Serve
  <2>1. format' \in BOOLEAN
    <3>1. inq # <<>> /\ inq \in Seq(MainRequests \union Requests)
          /\ ids \in [Ids -> Whos \union {NoOne}]
      BY <1>4 DEF Serve, ProxyInv, QueueType
    <3>2. Head(inq) \in MainRequests \union Requests
      BY <3>1, TailIs
    <3>3. PICK e \in Effects(Head(inq)) :
                 format' = IF Head(inq).kind = "format" THEN e[1].ok ELSE format
      BY <1>4 DEF Serve
    <3>4. e[1] \in Answers
      BY <3>1, <3>2, EffectIs DEF Proper
    <3> QED
      BY <1>0, <3>3, <3>4 DEF Answers, MainType
  <2> QED
    BY <1>0, <1>a, <1>4, <2>1 DEF Serve, ModemStep, MainType
<1>5. CASE Mute
  BY <1>0, <1>a, <1>b, <1>5 DEF Mute, ModemStep, MainType
<1>6. CASE Indicate
  BY <1>0, <1>a, <1>b, <1>6 DEF Indicate, ModemStep, MainType
<1>7. CASE Unplug
  BY <1>0, <1>a, <1>b, <1>7 DEF Unplug, MainType
<1>8. CASE Replug
  BY <1>0, <1>a, <1>8 DEF Replug, MainType
<1> QED
  BY <1>1, <1>2, <1>3, <1>4, <1>5, <1>6, <1>7, <1>8

\* A dialer is told at most what the answer is.
LEMMA ToIs ==
  ASSUME DialerType, NEW C, NEW a, Proper(a), To(C, a), \A c \in C : dlr[c].st = "on"
  PROVE  /\ inbox' \in [Dialers -> Seq(Answers)]
         /\ \A c \in Dialers :
              \/ inbox'[c] = inbox[c]
              \/ c \in C /\ dlr[c].st = "on" /\ inbox'[c] = Append(inbox[c], a)
         /\ \A c \in Dialers : \A i \in DOMAIN inbox'[c] :
              \/ i \in DOMAIN inbox[c] /\ inbox'[c][i] = inbox[c][i]
              \/ c \in C /\ dlr[c].st = "on" /\ inbox'[c][i] = a
<1>1. inbox' = [c \in Dialers |-> IF c \in C THEN Append(inbox[c], a) ELSE inbox[c]]
  BY DEF To
<1>2. \A c \in Dialers :
        \/ inbox'[c] = inbox[c]
        \/ c \in C /\ dlr[c].st = "on" /\ inbox'[c] = Append(inbox[c], a)
  BY <1>1
<1>3. ASSUME NEW c \in Dialers
      PROVE  /\ inbox'[c] \in Seq(Answers)
             /\ \A i \in DOMAIN inbox'[c] :
                  \/ i \in DOMAIN inbox[c] /\ inbox'[c][i] = inbox[c][i]
                  \/ c \in C /\ dlr[c].st = "on" /\ inbox'[c][i] = a
  <2>1. inbox[c] \in Seq(Answers) /\ a \in Answers
    BY DEF DialerType, Proper
  <2>2. CASE inbox'[c] = inbox[c]
    BY <2>1, <2>2
  <2>3. CASE c \in C /\ dlr[c].st = "on" /\ inbox'[c] = Append(inbox[c], a)
    <3> HIDE DEF Answers
    <3> QED
      BY <2>1, <2>3, AppendIs
  <2> QED
    BY <1>2, <2>2, <2>3
<1>4. DOMAIN inbox' = Dialers /\ inbox' = [c \in Dialers |-> inbox'[c]]
  BY <1>1
<1> QED
  BY <1>2, <1>3, <1>4

\* Whom recv_qmi writes to has not hung up: the process was not killed.
LEMMA TargetsAre ==
  ASSUME ProxyInv, RecvCtl \/ RecvMux
  PROVE  /\ To(Targets(Head(outq)), Head(outq))
         /\ \A c \in Targets(Head(outq)) : c \in Connected /\ dlr[c].st = "on"
<1> DEFINE a == Head(outq)
<1>1. To(Targets(a), a)
  BY DEF RecvCtl, RecvMux
<1>2. \A c \in Targets(a) : c \in Connected
  <2>1. \A f : Live(f) => Owner(f) \in Connected
    BY DEF Live, Owner
  <2> QED
    BY <2>1 DEF Targets, AreFor
<1>3. \A c \in Targets(a) : dlr[c].st # "closed"
  BY <1>1 DEF To, HungUp
<1> QED
  BY <1>1, <1>2, <1>3 DEF ProxyInv, Connections, Connected

\* When the loop ends, or the process, all connections end, and maybe who is not
\* accepted yet is sent away.
LEMMA EndIs ==
  ASSUME ProxyInv, LoopExit \/ Killed
  PROVE  /\ ~Active' /\ ~Serving'
         /\ UNCHANGED <<conns, quit, inq, outq, ids, plugged, format>>
         /\ fd' = [c \in Dialers |-> 0] /\ list' = [f \in Fds |-> {}]
         /\ \E C \in SUBSET Dialers :
              /\ \A c \in Dialers \ C : fd[c] = 0
              /\ dlr' = [c \in Dialers |-> IF c \in C THEN [Off EXCEPT !.n = dlr[c].n] ELSE dlr[c]]
              /\ up' = [c \in Dialers |-> IF c \in C THEN <<>> ELSE up[c]]
              /\ inbox' = [c \in Dialers |-> IF c \in C THEN <<>> ELSE inbox[c]]
<1>1. ~Active' /\ ~Serving' /\ UNCHANGED <<conns, quit, inq, outq, ids, plugged, format>>
  BY DEF LoopExit, Killed, Active, Serving, modemVars
<1>2. CASE LoopExit
  <2>1. End(Connected) /\ Connected \in SUBSET Dialers /\ \A c \in Dialers \ Connected : fd[c] = 0
    BY <1>2 DEF LoopExit, Connected
  <2> QED
    BY <1>1, <2>1 DEF End
<1>3. CASE Killed
  <2> DEFINE C == {c \in Dialers : dlr[c].st # "off"}
  <2>1. End(C) /\ C \in SUBSET Dialers
    BY <1>3 DEF Killed
  <2>2. \A c \in Dialers \ C : fd[c] = 0
    BY DEF ProxyInv, Connections
  <2> HIDE DEF C
  <2> QED
    BY <1>1, <2>1, <2>2 DEF End
<1> QED
  BY <1>2, <1>3

DialerStates ==
  [st : {"off", "queued", "on", "closed"}, n : 0..conns, asks : 0..MaxAsks,
   ask : {"none"} \union AskKinds, id : Ids \union {NoOne}]

\* A dialer without a connection.
LEMMA OffIs ==
  ASSUME MainType, DialerType, NEW c \in Dialers
  PROVE  /\ [Off EXCEPT !.n = dlr[c].n] \in DialerStates
         /\ [Off EXCEPT !.n = dlr[c].n].st = "off" /\ [Off EXCEPT !.n = dlr[c].n].ask = "none"
         /\ [Off EXCEPT !.n = dlr[c].n].n = dlr[c].n /\ [Off EXCEPT !.n = dlr[c].n].id = NoOne
<1>1. dlr[c].n \in 0..conns
  BY DEF DialerType
<1> QED
  BY <1>1, ProxyAssumption DEF Off, DialerStates

\* A step of the thread keeps the types of the dialers.
LEMMA LoopDialerTypes ==
  ASSUME ProxyInv, LoopAct PROVE DialerType'
<1> USE DEF mainVars, answerVars, proxyVars, dialerVars, modemVars
<1>0. MainType /\ DialerType /\ QueueType
  BY DEF ProxyInv
<1>s. dlr \in [Dialers -> DialerStates] /\ up \in [Dialers -> Seq(Requests)]
  BY <1>0 DEF DialerType, DialerStates
<1>d. ASSUME UNCHANGED <<conns, up, inbox>>, dlr' \in [Dialers -> DialerStates] PROVE DialerType'
  BY <1>0, <1>d DEF DialerType, DialerStates
<1>1. ASSUME NEW c \in Dialers, Accept(c) PROVE DialerType'
  <2>1. dlr' = [dlr EXCEPT ![c].st = "on"] /\ UNCHANGED <<conns, up, inbox>>
    BY <1>1 DEF Accept
  <2>2. dlr' \in [Dialers -> DialerStates]
    BY <1>s, <2>1 DEF DialerStates
  <2> QED
    BY <1>d, <2>1, <2>2
<1>2. ASSUME NEW c \in Dialers, Cleanup(c) PROVE DialerType'
  <2>1. dlr' = [dlr EXCEPT ![c] = [Off EXCEPT !.n = dlr[c].n]] /\ up' = [up EXCEPT ![c] = <<>>]
        /\ UNCHANGED <<conns, inbox>>
    BY <1>2 DEF Cleanup
  <2>2. dlr' \in [Dialers -> DialerStates]
    BY <1>0, <1>s, <2>1, OffIs
  <2>3. up' \in [Dialers -> Seq(Requests)]
    BY <1>s, <2>1
  <2> QED
    BY <1>0, <2>1, <2>2, <2>3 DEF DialerType, DialerStates
<1>3. ASSUME NEW c \in Dialers, SendQmi(c) PROVE DialerType'
  <2>1. up' = [up EXCEPT ![c] = Tail(@)] /\ up[c] # <<>> /\ UNCHANGED <<conns, dlr, inbox>>
    BY <1>3 DEF SendQmi
  <2>2. Tail(up[c]) \in Seq(Requests)
    <3>1. up[c] \in Seq(Requests)
      BY <1>s
    <3> HIDE DEF Requests
    <3> QED
      BY <2>1, <3>1, TailIs
  <2>3. up' \in [Dialers -> Seq(Requests)]
    BY <1>s, <2>1, <2>2
  <2> QED
    BY <1>0, <2>1, <2>3 DEF DialerType
<1>4. CASE RecvInit \/ Tick
  <2>1. UNCHANGED <<conns, dlr, up, inbox>>
    BY <1>4 DEF RecvInit, Tick
  <2> QED
    BY <1>s, <1>d, <2>1
<1>5. CASE RecvCtl \/ RecvMux
  <2>1. UNCHANGED <<conns, dlr, up>> /\ outq # <<>>
    BY <1>5 DEF RecvCtl, RecvMux
  <2>2. Proper(Head(outq))
    BY <1>0, <2>1, TailIs DEF QueueType
  <2> DEFINE C == Targets(Head(outq))
  <2>3. To(C, Head(outq)) /\ \A c \in C : dlr[c].st = "on"
    BY <1>5, TargetsAre
  <2> HIDE DEF C
  <2>5. DialerType'
    <3>1. inbox' \in [Dialers -> Seq(Answers)]
          /\ \A c \in Dialers : \A i \in DOMAIN inbox'[c] : Proper(inbox'[c][i])
      <4> DEFINE a == Head(outq)
      <4>1. Proper(a) /\ To(C, a)
        BY <2>2, <2>3
      <4> HIDE DEF a
      <4>2. /\ inbox' \in [Dialers -> Seq(Answers)]
            /\ \A c \in Dialers : \A i \in DOMAIN inbox'[c] :
                 \/ i \in DOMAIN inbox[c] /\ inbox'[c][i] = inbox[c][i]
                 \/ c \in C /\ dlr[c].st = "on" /\ inbox'[c][i] = a
        BY <1>0, <2>3, <4>1, ToIs
      <4> QED
        BY <1>0, <4>1, <4>2 DEF DialerType
    <3> QED
      BY <1>0, <2>1, <3>1 DEF DialerType, Proper
  <2> QED
    BY <2>5
<1>6. CASE LoopExit \/ Killed
  <2>1. PICK C \in SUBSET Dialers :
        /\ dlr' = [c \in Dialers |-> IF c \in C THEN [Off EXCEPT !.n = dlr[c].n] ELSE dlr[c]]
        /\ up' = [c \in Dialers |-> IF c \in C THEN <<>> ELSE up[c]]
        /\ inbox' = [c \in Dialers |-> IF c \in C THEN <<>> ELSE inbox[c]]
        /\ conns' = conns
    BY <1>6, EndIs
  <2>2. dlr' \in [Dialers -> DialerStates]
    <3>1. \A c \in Dialers : [Off EXCEPT !.n = dlr[c].n] \in DialerStates /\ dlr[c] \in DialerStates
      BY <1>0, <1>s, OffIs
    <3> QED
      BY <2>1, <3>1
  <2>3. up' \in [Dialers -> Seq(Requests)]
    BY <1>s, <2>1
  <2>4. inbox' \in [Dialers -> Seq(Answers)]
    BY <1>0, <2>1 DEF DialerType
  <2>5. \A c \in Dialers : \A i \in DOMAIN inbox'[c] : Proper(inbox'[c][i])
    BY <1>0, <2>1 DEF DialerType
  <2> QED
    BY <2>1, <2>2, <2>3, <2>4, <2>5 DEF DialerType, DialerStates, Proper
<1> QED
  BY <1>1, <1>2, <1>3, <1>4, <1>5, <1>6 DEF LoopAct

\* What a dialer asks is a request.
LEMMA AskTypes ==
  ASSUME MainType, DialerType, NEW c \in Dialers, NEW k \in Asking(c), dlr[c].asks < MaxAsks
  PROVE  /\ k \in AskKinds /\ Holds(c) \in Ids \union {NoOne}
         /\ [kind |-> k, who |-> Who(c), id |-> Holds(c), tid |-> dlr[c].asks + 1] \in Requests
         /\ dlr[c].asks \in Nat /\ dlr[c].asks + 1 \in 1..MaxAsks
         /\ k = "get" <=> Holds(c) = NoOne
<1>1. dlr[c].n \in 0..MaxConns /\ dlr[c].asks \in 0..MaxAsks /\ dlr[c].id \in Ids \union {NoOne}
  BY ProxyAssumption DEF MainType, DialerType
<1>2. k \in AskKinds /\ Holds(c) \in Ids \union {NoOne} /\ (k = "get" <=> Holds(c) = NoOne)
  BY <1>1 DEF Asking, AskKinds, Holds
<1>3. Who(c) \in Whos
  BY <1>1 DEF Who, Whos
<1>4. dlr[c].asks \in Nat /\ dlr[c].asks + 1 \in 1..MaxAsks
  BY <1>1, ProxyAssumption
<1> QED
  BY <1>2, <1>3, <1>4 DEF Requests

\* And so does a step of a dialer, and one of main.
LEMMA DialerTypes ==
  ASSUME ProxyInv, DialerAct \/ Join PROVE DialerType'
<1> USE DEF mainVars, answerVars, proxyVars, dialerVars, modemVars
<1>0. MainType /\ DialerType /\ QueueType
  BY DEF ProxyInv
<1>s. dlr \in [Dialers -> DialerStates] /\ up \in [Dialers -> Seq(Requests)]
      /\ inbox \in [Dialers -> Seq(Answers)]
  BY <1>0 DEF DialerType, DialerStates
<1>d. ASSUME UNCHANGED <<conns, up, inbox>>, dlr' \in [Dialers -> DialerStates] PROVE DialerType'
  BY <1>0, <1>d DEF DialerType, DialerStates
<1>1. ASSUME NEW c \in Dialers, Connect(c) PROVE DialerType'
  <2>1. dlr' = [dlr EXCEPT ![c] = [Off EXCEPT !.st = "queued", !.n = dlr[c].n + 1]]
        /\ conns' = conns + 1 /\ conns \in Nat /\ UNCHANGED <<up, inbox>>
    BY <1>0, <1>1 DEF Connect, MainType
  <2>2. \A x \in Dialers : dlr[x] \in DialerStates'
    <3>1. \A x \in Dialers : dlr[x] \in DialerStates
      BY <1>s
    <3>2. 0..conns \subseteq 0..conns'
      BY <2>1
    <3> QED
      BY <3>1, <3>2 DEF DialerStates
  <2>3. [Off EXCEPT !.st = "queued", !.n = dlr[c].n + 1] \in DialerStates'
    <3>1. dlr[c].n + 1 \in 0..conns'
      BY <1>0, <2>1 DEF DialerType
    <3> DEFINE v == dlr[c].n + 1
    <3>2. 0 \in 0..MaxAsks
      BY ProxyAssumption
    <3> HIDE DEF v
    <3>3. [Off EXCEPT !.st = "queued", !.n = v]
            = [st |-> "queued", n |-> v, asks |-> 0, ask |-> "none", id |-> NoOne]
      <4> DEFINE r == [Off EXCEPT !.st = "queued"]
      <4>1. r = [st |-> "queued", n |-> 0, asks |-> 0, ask |-> "none", id |-> NoOne]
        BY DEF Off
      <4>2. [Off EXCEPT !.st = "queued", !.n = v] = [r EXCEPT !.n = v]
        BY DEF Off
      <4> HIDE DEF r
      <4> QED
        BY <4>1, <4>2
    <3>4. [st |-> "queued", n |-> v, asks |-> 0, ask |-> "none", id |-> NoOne] \in DialerStates'
      BY <3>1, <3>2 DEF v, DialerStates
    <3> QED
      BY <3>3, <3>4 DEF v
  <2>4. dlr' \in [Dialers -> DialerStates']
    BY <1>s, <2>1, <2>2, <2>3
  <2> QED
    BY <1>0, <2>1, <2>4 DEF DialerType, DialerStates
<1>2. ASSUME NEW c \in Dialers, Ask(c) PROVE DialerType'
  <2>1. PICK k \in Asking(c) :
       /\ dlr' = [dlr EXCEPT ![c].ask = k, ![c].asks = @ + 1, ![c].id = Holds(c)]
       /\ up' = [up EXCEPT ![c] = Append(@, [kind |-> k, who |-> Who(c), id |-> Holds(c),
                                             tid |-> dlr[c].asks + 1])]
    BY <1>2 DEF Ask
  <2>2. dlr[c].asks < MaxAsks /\ UNCHANGED <<conns, inbox>>
    BY <1>2 DEF Ask
  <2> DEFINE m == [kind |-> k, who |-> Who(c), id |-> Holds(c), tid |-> dlr[c].asks + 1]
  <2>3. /\ k \in AskKinds /\ Holds(c) \in Ids \union {NoOne} /\ m \in Requests
        /\ dlr[c].asks + 1 \in 0..MaxAsks
    BY <1>0, <2>2, AskTypes
  <2>4. dlr' \in [Dialers -> DialerStates]
    <3>1. /\ \A x \in Dialers \ {c} : dlr'[x] = dlr[x]
          /\ dlr'[c] = [st |-> dlr[c].st, n |-> dlr[c].n, asks |-> dlr[c].asks + 1, ask |-> k,
                        id |-> Holds(c)]
          /\ dlr' = [x \in Dialers |-> dlr'[x]]
      BY <1>s, <2>1 DEF DialerStates
    <3>2. dlr'[c] \in DialerStates
      BY <1>s, <2>3, <3>1 DEF DialerStates
    <3> QED
      BY <1>s, <3>1, <3>2
  <2>5. up' = [up EXCEPT ![c] = Append(up[c], m)]
    BY <2>1
  <2> HIDE DEF m
  <2>6. up' \in [Dialers -> Seq(Requests)]
    <3>1. Append(up[c], m) \in Seq(Requests)
      BY <1>s, <2>3, AppendIs
    <3> QED
      BY <1>s, <2>5, <3>1
  <2> QED
    BY <1>0, <2>2, <2>4, <2>6 DEF DialerType, DialerStates
<1>3. ASSUME NEW c \in Dialers, Receive(c) PROVE DialerType'
  <2> DEFINE a == Head(inbox[c])
  <2>1. inbox[c] # <<>> /\ inbox' = [inbox EXCEPT ![c] = Tail(@)] /\ UNCHANGED <<conns, up>>
    BY <1>3 DEF Receive
  <2>2. /\ Tail(inbox[c]) \in Seq(Answers) /\ Proper(a)
        /\ \A i \in DOMAIN Tail(inbox[c]) :
             i + 1 \in DOMAIN inbox[c] /\ Tail(inbox[c])[i] = inbox[c][i + 1]
    <3>1. inbox[c] \in Seq(Answers)
      BY <1>s
    <3> HIDE DEF Answers
    <3>2. a = inbox[c][1] /\ 1 \in DOMAIN inbox[c]
      BY <2>1, <3>1, TailIs
    <3> QED
      BY <1>0, <2>1, <3>1, <3>2, TailIs DEF DialerType
  <2>3. inbox' \in [Dialers -> Seq(Answers)]
        /\ \A x \in Dialers : \A i \in DOMAIN inbox'[x] : Proper(inbox'[x][i])
    BY <1>0, <2>1, <2>2 DEF DialerType
  <2>4. dlr' \in [Dialers -> DialerStates]
    <3>1. \/ dlr' = dlr
          \/ dlr' = [dlr EXCEPT ![c].ask = "none",
                                ![c].id = CASE a.ok /\ a.kind = "get" -> a.id
                                            [] a.ok /\ a.kind = "release" -> NoOne
                                            [] OTHER -> @]
      BY <1>3 DEF Receive
    <3> DEFINE v == CASE a.ok /\ a.kind = "get" -> a.id
                      [] a.ok /\ a.kind = "release" -> NoOne
                      [] OTHER -> dlr[c].id
    <3>2. v \in Ids \union {NoOne}
      BY <1>s, <2>2 DEF Proper, Answers, DialerStates
    <3>3. \/ dlr' = dlr
          \/ dlr' = [dlr EXCEPT ![c].ask = "none", ![c].id = v]
      BY <3>1
    <3> HIDE DEF v
    <3>4. CASE dlr' = [dlr EXCEPT ![c].ask = "none", ![c].id = v]
      <4>1. /\ \A x \in Dialers \ {c} : dlr'[x] = dlr[x]
            /\ dlr'[c] = [st |-> dlr[c].st, n |-> dlr[c].n, asks |-> dlr[c].asks, ask |-> "none",
                          id |-> v]
            /\ dlr' = [x \in Dialers |-> dlr'[x]]
        BY <1>s, <3>4 DEF DialerStates
      <4>2. dlr'[c] \in DialerStates
        BY <1>s, <3>2, <4>1 DEF DialerStates
      <4> QED
        BY <1>s, <4>1, <4>2
    <3> QED
      BY <1>s, <3>3, <3>4
  <2> QED
    BY <1>0, <2>1, <2>3, <2>4 DEF DialerType, DialerStates, Proper
<1>4. ASSUME NEW c \in Dialers, Close(c) PROVE DialerType'
  <2>1. dlr' = [dlr EXCEPT ![c].st = "closed", ![c].ask = "none"]
        /\ inbox' = [inbox EXCEPT ![c] = <<>>] /\ UNCHANGED <<conns, up>>
    BY <1>4 DEF Close
  <2>2. dlr' \in [Dialers -> DialerStates]
    BY <1>s, <2>1 DEF DialerStates
  <2>3. inbox' \in [Dialers -> Seq(Answers)]
    BY <1>s, <2>1
  <2>4. \A x \in Dialers : \A i \in DOMAIN inbox'[x] : Proper(inbox'[x][i])
    BY <1>0, <2>1 DEF DialerType
  <2> QED
    BY <1>0, <2>1, <2>2, <2>3, <2>4 DEF DialerType, DialerStates, Proper
<1>5. CASE Join
  <2>1. dlr' = [c \in Dialers |-> IF dlr[c].st = "queued" THEN [Off EXCEPT !.n = dlr[c].n] ELSE dlr[c]]
        /\ UNCHANGED <<conns, up, inbox>>
    BY <1>5 DEF Join
  <2>2. \A c \in Dialers : [Off EXCEPT !.n = dlr[c].n] \in DialerStates /\ dlr[c] \in DialerStates
    BY <1>0, <1>s, OffIs
  <2>3. dlr' \in [Dialers -> DialerStates]
    BY <2>1, <2>2
  <2> QED
    BY <1>d, <2>1, <2>3
<1> QED
  BY <1>1, <1>2, <1>3, <1>4, <1>5 DEF DialerAct

\* What the modem is sent.
LEMMA ToModemIs ==
  ASSUME QueueType, NEW m \in MainRequests \union Requests, ToModem(m)
  PROVE  /\ inq' \in Seq(MainRequests \union Requests)
         /\ inq' = inq \/ (plugged /\ loop # "gone" /\ inq' = Append(inq, m))
         /\ plugged /\ loop # "gone" => inq' = Append(inq, m)
<1> DEFINE S == MainRequests \union Requests
<1>1. inq \in Seq(S) /\ m \in S
  BY DEF QueueType
<1> HIDE DEF S
<1>2. Append(inq, m) \in Seq(S)
  BY <1>1, AppendIs
<1> QED
  BY <1>1, <1>2 DEF ToModem, S

\* A dialer that has hung up has no control request in the list.
LEMMA CleanedIs ==
  ASSUME ProxyInv, Serving, NEW c \in Dialers, fd[c] # 0, dlr[c].st = "closed"
  PROVE  Cleaned(fd[c], ctlq) = ctlq
<1>1. EntriesOf(fd[c], ctlq) = {}
  BY DEF ProxyInv, Connections, EntriesOf
<1> QED
  BY <1>1 DEF Cleaned

\* The control list of a running server, after a step of main or of the thread.
LEMMA CtlListTypes ==
  ASSUME ProxyInv, Next PROVE ctlq' \in Seq([fd : Fds, qmi : Requests]) \/ ~Serving'
<1> USE DEF mainVars, answerVars, proxyVars, dialerVars, modemVars
<1> DEFINE L == [fd : Fds, qmi : Requests]
<1> SUFFICES ctlq' \in Seq(L) \/ ~Serving'
  OBVIOUS
<1>0. (ctlq \in Seq(L) \/ ~Serving) /\ fd \in [Dialers -> {0} \union Fds]
      /\ up \in [Dialers -> Seq(Requests)]
  BY DEF ProxyInv, QueueType, DialerType
<1>p. /\ pc \in {"open", "done"} <=> loop = "none"
      /\ server <=> pc = "serve"
      /\ (Active /\ ~server => ctlq = <<>>)
  BY DEF ProxyInv, Phase, Idle
<1>a. ASSUME UNCHANGED ctlq, Serving' => Serving \/ (Active /\ ~server)
      PROVE  ctlq' \in Seq(L) \/ ~Serving'
  <2>1. CASE Active /\ ~server
    BY <1>a, <1>p, <2>1
  <2> HIDE DEF L
  <2> QED
    BY <1>0, <1>a, <2>1
<1>1. CASE Open
  <2>1. UNCHANGED server /\ ((UNCHANGED <<ctlq, loop>>) \/ ctlq' = <<>>)
    BY <1>1 DEF Open
  <2>2. <<>> \in Seq(L)
    OBVIOUS
  <2> HIDE DEF L
  <2> QED
    BY <1>a, <2>1, <2>2 DEF Serving
<1>2. CASE InitSend \/ InitNext \/ InitTimeout
  <2>1. UNCHANGED <<ctlq, loop>> /\ pc = "init"
    BY <1>2 DEF InitSend, InitNext, InitTimeout
  <2> QED
    BY <1>a, <1>p, <2>1 DEF Serving, Active
<1>3. CASE Join
  BY <1>3 DEF Join, Serving
<1>4. CASE Sigint
  BY <1>4, <1>a DEF Sigint, Serving
<1>5. CASE RecvInit \/ RecvMux \/ Tick
  BY <1>5, <1>a, <1>p DEF RecvInit, RecvMux, Tick, Round, Serving, Running, Active
<1>6. CASE LoopExit \/ Killed
  BY <1>6, EndIs
<1>7. ASSUME NEW c \in Dialers, Accept(c) PROVE ctlq' \in Seq(L) \/ ~Serving'
  BY <1>7, <1>a DEF Accept, Round, Serving, Running
<1>8. ASSUME NEW c \in Dialers, Cleanup(c) PROVE ctlq' \in Seq(L) \/ ~Serving'
  <2>1. Serving' => Serving
    BY <1>8 DEF Cleanup, Round, Serving, Running
  <2>2. CASE Serving
    <3>1. ctlq' = ctlq
      BY <1>8, <2>2, CleanedIs DEF Cleanup
    <3> QED
      BY <1>a, <2>2, <3>1
  <2> QED
    BY <2>1, <2>2
<1>9. ASSUME NEW c \in Dialers, SendQmi(c) PROVE ctlq' \in Seq(L) \/ ~Serving'
  <2>1. Serving' => Serving
    BY <1>9 DEF SendQmi, Round, Serving, Running
  <2> DEFINE m == Head(up[c])
             q == [fd |-> fd[c], qmi |-> m]
  <2>2. ctlq' = ctlq \/ ctlq' = Append(ctlq, q)
    BY <1>9 DEF SendQmi
  <2>3. q \in L
    <3>1. up[c] \in Seq(Requests) /\ up[c] # <<>> /\ fd[c] \in Fds
      BY <1>0, <1>9 DEF SendQmi
    <3>2. m \in Requests
      <4> HIDE DEF Requests
      <4> QED
        BY <3>1, TailIs
    <3> QED
      BY <3>1, <3>2
  <2> HIDE DEF L, q
  <2>4. ctlq \in Seq(L) => Append(ctlq, q) \in Seq(L)
    BY <2>3, AppendIs
  <2> QED
    BY <1>0, <2>1, <2>2, <2>4
<1>10. CASE RecvCtl
  <2>1. Serving' => Serving
    BY <1>10 DEF RecvCtl, Round, Serving, Running
  <2>2. ctlq' = ctlq \/ (ctlq # <<>> /\ ctlq' = Tail(ctlq))
    BY <1>10 DEF RecvCtl
  <2> HIDE DEF L
  <2>3. ctlq \in Seq(L) /\ ctlq # <<>> => Tail(ctlq) \in Seq(L)
    BY TailIs
  <2> QED
    BY <1>0, <2>1, <2>2, <2>3
<1>11. CASE DialerAct \/ Serve \/ Mute \/ Indicate \/ Unplug \/ Replug
  <2>1. UNCHANGED <<ctlq, loop, server>>
    BY <1>11 DEF DialerAct, Connect, Ask, Receive, Close, DialerStep, Serve, Mute, Indicate, ModemStep,
       Unplug, Replug
  <2> QED
    BY <1>a, <2>1 DEF Serving
<1> QED
  BY <1>1, <1>2, <1>3, <1>4, <1>5, <1>6, <1>7, <1>8, <1>9, <1>10, <1>11 DEF Next, MainAct, LoopAct

\* The queues of the modem and who has its ids, and the connections.
LEMMA QueueTypes ==
  ASSUME Orderly, ProxyInv, Next PROVE QueueType'
<1> USE DEF mainVars, answerVars, proxyVars, dialerVars, modemVars
<1> DEFINE R == MainRequests \union Requests
           I == [Ids -> Whos \union {NoOne}]
<1>c. ctlq' \in Seq([fd : Fds, qmi : Requests]) \/ ~Serving'
  BY CtlListTypes
<1>0. /\ QueueType /\ MainType /\ DialerType
      /\ inq \in Seq(R) /\ outq \in Seq(Answers) /\ (\A i \in DOMAIN outq : Proper(outq[i]))
      /\ fd \in [Dialers -> {0} \union Fds] /\ list \in [Fds -> SUBSET Ids] /\ ids \in I
      /\ up \in [Dialers -> Seq(Requests)]
  BY DEF ProxyInv, QueueType, DialerType
<1>a. ASSUME inq' \in Seq(R), outq' \in Seq(Answers), \A i \in DOMAIN outq' : Proper(outq'[i]),
             fd' \in [Dialers -> {0} \union Fds], list' \in [Fds -> SUBSET Ids], ids' \in I
      PROVE  QueueType'
  BY <1>a, <1>c DEF QueueType, Proper
<1>t. ASSUME outq # <<>>
      PROVE  Tail(outq) \in Seq(Answers) /\ Proper(Head(outq)) /\ Head(outq) \in Answers
             /\ \A i \in DOMAIN Tail(outq) : Proper(Tail(outq)[i])
  <2> HIDE DEF Answers
  <2> QED
    BY <1>0, <1>t, TailIs
<1>u. ASSUME NEW a, Proper(a)
      PROVE  Append(outq, a) \in Seq(Answers) /\ \A i \in DOMAIN Append(outq, a) : Proper(Append(outq, a)[i])
  <2>1. a \in Answers
    BY <1>u DEF Proper
  <2> HIDE DEF Answers
  <2> QED
    BY <1>0, <1>u, <2>1, AppendIs
<1>i. inq # <<>> => Tail(inq) \in Seq(R) /\ Head(inq) \in R
  <2> HIDE DEF R
  <2> QED
    BY <1>0, TailIs
<1> HIDE DEF R, I
<1>1. CASE Open \/ InitNext \/ InitTimeout \/ Join \/ Sigint \/ Tick \/ DialerAct
  <2>1. UNCHANGED <<inq, outq, fd, list, ids>>
    BY <1>1 DEF Open, InitNext, InitTimeout, Join, Sigint, Tick, DialerAct, Connect, Ask, Receive, Close,
       DialerStep
  <2> QED
    BY <1>0, <1>a, <2>1
<1>2. CASE InitSend
  <2> DEFINE m == [kind |-> Steps[init.step], tid |-> init.tid, who |-> NoOne, id |-> NoOne,
                   own |-> init.own]
  <2>1. ToModem(m) /\ UNCHANGED <<outq, fd, list, ids>> /\ pc = "init"
    BY <1>2 DEF InitSend
  <2>2. m \in R
    BY <2>1, StepsAre DEF R, MainRequests, ProxyInv, InitType
  <2> HIDE DEF m
  <2>3. inq' \in Seq(R)
    BY <1>0, <2>1, <2>2, ToModemIs DEF R
  <2> QED
    BY <1>0, <1>a, <2>1, <2>3
<1>3. ASSUME NEW c \in Dialers, Accept(c) PROVE QueueType'
  <2>1. UNCHANGED <<inq, outq, list, ids>> /\ dlr[c].st = "queued"
        /\ fd' = [fd EXCEPT ![c] = Min({f \in Fds : ~Live(f)})]
    BY <1>3 DEF Accept
  <2>2. fd[c] = 0
    BY <1>0, <2>1 DEF ProxyInv, Connections
  <2>3. Min({f \in Fds : ~Live(f)}) \in Fds
    BY <1>0, <2>2, FreeFd
  <2>4. fd' \in [Dialers -> {0} \union Fds]
    BY <1>0, <2>1, <2>3
  <2> QED
    BY <1>0, <1>a, <2>1, <2>4
<1>4. ASSUME NEW c \in Dialers, Cleanup(c) PROVE QueueType'
  <2>1. UNCHANGED <<inq, outq, ids>> /\ fd' = [fd EXCEPT ![c] = 0]
        /\ list' = [list EXCEPT ![fd[c]] = {}]
    BY <1>4 DEF Cleanup
  <2>2. fd' \in [Dialers -> {0} \union Fds] /\ list' \in [Fds -> SUBSET Ids]
    BY <1>0, <2>1
  <2> QED
    BY <1>0, <1>a, <2>1, <2>2
<1>5. ASSUME NEW c \in Dialers, SendQmi(c) PROVE QueueType'
  <2> DEFINE m == Head(up[c])
  <2>1. UNCHANGED <<outq, ids, fd, list>> /\ up[c] # <<>> /\ (ToModem(m) \/ inq' = inq)
    BY <1>5 DEF SendQmi
  <2>2. m \in R
    <3>1. up[c] \in Seq(Requests)
      BY <1>0
    <3> HIDE DEF Requests
    <3> QED
      BY <2>1, <3>1, TailIs DEF R
  <2> HIDE DEF m
  <2>3. inq' \in Seq(R)
    BY <1>0, <2>1, <2>2, ToModemIs DEF R
  <2> QED
    BY <1>0, <1>a, <2>1, <2>3
<1>6. CASE RecvInit \/ RecvMux
  <2>1. UNCHANGED <<inq, fd, list, ids>> /\ outq # <<>> /\ outq' = Tail(outq)
    BY <1>6 DEF RecvInit, RecvMux
  <2> QED
    BY <1>0, <1>a, <1>t, <2>1
<1>7. CASE RecvCtl
  <2> DEFINE a == Head(outq)
             q == IF IsReply(a) THEN Tail(ctlq) ELSE ctlq
             f == ctlq[1].fd
  <2>1. /\ outq # <<>> /\ outq' = Tail(outq) /\ SendFirst(q) /\ UNCHANGED <<fd, ids>>
        /\ list' = list \/ (Live(f) /\ list' = Listed(f, a))
    BY <1>7 DEF RecvCtl, Targets
  <2>2. inq' \in Seq(R)
    <3>1. CASE q # <<>> /\ Live(q[1].fd)
      <4>1. ToModem(q[1].qmi)
        BY <2>1, <3>1 DEF SendFirst
      <4>2. ctlq \in Seq([fd : Fds, qmi : Requests])
        BY <1>0, <1>7 DEF RecvCtl, Running, Serving, QueueType
      <4>3. q \in Seq([fd : Fds, qmi : Requests])
        BY <4>2 DEF IsReply
      <4>4. q[1] \in [fd : Fds, qmi : Requests]
        <5> HIDE DEF q
        <5> DEFINE L == [fd : Fds, qmi : Requests]
        <5>1. q \in Seq(L) /\ q # <<>>
          BY <3>1, <4>3
        <5> HIDE DEF L
        <5>2. q[1] \in L
          BY <5>1, TailIs
        <5> QED
          BY <5>2 DEF L
      <4>5. q[1].qmi \in R
        BY <4>4 DEF R
      <4> HIDE DEF q
      <4> QED
        BY <1>0, <4>1, <4>5, ToModemIs DEF R
    <3>2. CASE ~(q # <<>> /\ Live(q[1].fd))
      BY <1>0, <2>1, <3>2 DEF SendFirst
    <3> QED
      BY <3>1, <3>2
  <2>3. list' \in [Fds -> SUBSET Ids]
    <3>1. CASE Live(f) /\ list' = Listed(f, a)
      <4>1. f \in Fds
        BY <1>0, <3>1 DEF Live, Connected
      <4>2. a.ok /\ a.kind = "get" => a.id \in Ids
        BY <1>t, <2>1 DEF Proper
      <4>3. list[f] \subseteq Ids
        BY <1>0, <4>1
      <4>4. \/ list' = list
            \/ a.id \in Ids /\ list' = [list EXCEPT ![f] = @ \union {a.id}]
            \/ list' = [list EXCEPT ![f] = @ \ {a.id}]
        BY <3>1, <4>2 DEF Listed
      <4>5. PICK l \in SUBSET Ids : list' = list \/ list' = [list EXCEPT ![f] = l]
        BY <4>1, <4>3, <4>4
      <4> HIDE DEF f
      <4> QED
        BY <1>0, <4>1, <4>5
    <3> QED
      BY <1>0, <2>1, <3>1
  <2> QED
    BY <1>0, <1>a, <1>t, <2>1, <2>2, <2>3
<1>8. CASE LoopExit \/ Killed
  <2>1. UNCHANGED <<inq, outq, ids>> /\ fd' = [c \in Dialers |-> 0] /\ list' = [f \in Fds |-> {}]
    BY <1>8, EndIs
  <2>2. fd' \in [Dialers -> {0} \union Fds] /\ list' \in [Fds -> SUBSET Ids]
    BY <2>1
  <2> QED
    BY <1>0, <1>a, <2>1, <2>2
<1>9. CASE Serve
  <2>1. inq # <<>> /\ inq' = Tail(inq) /\ UNCHANGED <<fd, list>>
    BY <1>9 DEF Serve, ModemStep
  <2>2. PICK e \in Effects(Head(inq)) : outq' = Append(outq, e[1]) /\ ids' = e[2]
    BY <1>9 DEF Serve
  <2>3. Proper(e[1]) /\ e[2] \in I
    BY <1>0, <1>i, <2>1, EffectIs DEF R, I
  <2> QED
    BY <1>0, <1>a, <1>i, <1>u, <2>1, <2>2, <2>3
<1>10. CASE Mute
  BY <1>0, <1>a, <1>i, <1>10 DEF Mute, ModemStep
<1>11. CASE Indicate
  <2>1. UNCHANGED <<inq, fd, list, ids>>
    BY <1>11 DEF Indicate, ModemStep
  <2>2. PICK k \in {"ind", "ctlind"} :
               Fault(k) /\ outq' = Append(outq, [kind |-> IF k = "ind" THEN "mux" ELSE k, tid |-> 0,
                                                 who |-> NoOne, ok |-> TRUE, id |-> NoOne])
    BY <1>11 DEF Indicate
  <2>3. k = "ind"
    BY <2>2 DEF Fault, Orderly
  <2>4. Proper([kind |-> "mux", tid |-> 0, who |-> NoOne, ok |-> TRUE, id |-> NoOne])
    BY DEF Proper, Answers, AskKinds
  <2> QED
    BY <1>0, <1>a, <1>u, <2>1, <2>2, <2>3, <2>4
<1>12. CASE Unplug \/ Replug
  <2>1. UNCHANGED <<fd, list>> /\ (inq' = inq \/ inq' = <<>>) /\ (outq' = outq \/ outq' = <<>>)
        /\ (ids' = ids \/ ids' = [i \in Ids |-> NoOne])
    BY <1>12 DEF Unplug, Replug
  <2>2. [i \in Ids |-> NoOne] \in I
    BY DEF I
  <2>3. <<>> \in Seq(R) /\ <<>> \in Seq(Answers) /\ DOMAIN <<>> = {}
    OBVIOUS
  <2> QED
    BY <1>0, <1>a, <2>1, <2>2, <2>3
<1> QED
  BY <1>1, <1>2, <1>3, <1>4, <1>5, <1>6, <1>7, <1>8, <1>9, <1>10, <1>11, <1>12
  DEF Next, MainAct, LoopAct

-----------------------------------------------------------------------------
(* Main, the thread and the modem.                                          *)

\* main, the thread and the modem go together.
LEMMA PhaseStep ==
  ASSUME ProxyInv, Next PROVE Phase'
<1> USE DEF mainVars, answerVars, proxyVars, dialerVars, modemVars
<1>0. Phase /\ MainType
  BY DEF ProxyInv
<1>m. ASSUME NEW m, ToModem(m), UNCHANGED <<plugged, outq>> PROVE ~plugged' => inq' = <<>> /\ outq' = <<>>
  BY <1>0, <1>m DEF ToModem, Phase
<1>1. CASE Open
  BY <1>0, <1>1 DEF Open, Phase
<1>2. CASE InitSend
  BY <1>0, <1>2, <1>m DEF InitSend, Phase
<1>3. CASE InitNext \/ InitTimeout
  <2>1. pc = "init" /\ UNCHANGED <<loop, quit, plugged, inq, outq>>
    BY <1>3 DEF InitNext, InitTimeout
  <2>2. (pc' = pc /\ server' = server) \/ (pc' = "serve" /\ server' = TRUE)
    BY <1>3 DEF InitNext, InitTimeout, Again
  <2> QED
    BY <1>0, <2>1, <2>2 DEF Phase
<1>4. CASE Join \/ Sigint
  BY <1>0, <1>4 DEF Join, Sigint, Phase
<1>5. CASE \E c \in Dialers : Accept(c) \/ Cleanup(c)
  BY <1>0, <1>5 DEF Accept, Cleanup, Running, Round, Phase
<1>6. CASE \E c \in Dialers : SendQmi(c)
  <2>1. Running /\ Round /\ UNCHANGED <<plugged, outq>> /\ (inq' = inq \/ \E m : ToModem(m))
    BY <1>6 DEF SendQmi
  <2> QED
    BY <1>0, <1>m, <2>1 DEF Running, Round, Phase
<1>7. CASE RecvInit \/ RecvMux
  BY <1>0, <1>7 DEF RecvInit, RecvMux, Running, Round, Phase
<1>8. CASE RecvCtl
  BY <1>0, <1>8, <1>m DEF RecvCtl, SendFirst, ToModem, Running, Round, Phase
<1>9. CASE Tick \/ LoopExit \/ Killed
  BY <1>0, <1>9 DEF Tick, LoopExit, Killed, Round, Phase
<1>10. CASE DialerAct
  <2>1. UNCHANGED <<pc, loop, server, quit, plugged, inq, outq>>
    BY <1>10 DEF DialerAct, Connect, Ask, Receive, Close, DialerStep
  <2> QED
    BY <1>0, <2>1 DEF Phase
<1>11. CASE Serve \/ Mute \/ Indicate
  BY <1>0, <1>11 DEF Serve, Mute, Indicate, ModemStep, Phase
<1>12. CASE Unplug \/ Replug
  BY <1>0, <1>12 DEF Unplug, Replug, Phase
<1> QED
  BY <1>1, <1>2, <1>3, <1>4, <1>5, <1>6, <1>7, <1>8, <1>9, <1>10, <1>11, <1>12
  DEF Next, MainAct, LoopAct

\* An indication comes.
LEMMA IndicateIs ==
  ASSUME Orderly, Indicate
  PROVE  \E a : /\ IsInd(a) /\ Proper(a) /\ a.ok = TRUE /\ outq' = Append(outq, a)
                /\ UNCHANGED <<inq, ids, format, plugged>> /\ server /\ plugged
<1>1. PICK k \in {"ind", "ctlind"} :
             Fault(k) /\ outq' = Append(outq, [kind |-> IF k = "ind" THEN "mux" ELSE k, tid |-> 0,
                                               who |-> NoOne, ok |-> TRUE, id |-> NoOne])
  BY DEF Indicate
<1>2. k = "ind"
  BY <1>1 DEF Fault, Orderly
<1>3. IsInd([kind |-> "mux", tid |-> 0, who |-> NoOne, ok |-> TRUE, id |-> NoOne])
      /\ Proper([kind |-> "mux", tid |-> 0, who |-> NoOne, ok |-> TRUE, id |-> NoOne])
  BY DEF IsInd, Proper, Answers, AskKinds
<1>4. UNCHANGED <<inq, ids, format, plugged>> /\ server /\ plugged
  BY DEF Indicate, ModemStep
<1> QED
  BY <1>1, <1>2, <1>3, <1>4

\* Nothing is there that belongs to a thread that ended.
LEMMA IdleStep ==
  ASSUME Orderly, ProxyInv, Next PROVE Idle'
<1> USE DEF mainVars, answerVars, proxyVars, dialerVars, modemVars
<1>0. Idle /\ Phase /\ QueueType
  BY DEF ProxyInv
<1>a. ASSUME Active <=> Active', UNCHANGED <<inq, outq, fd, list, ctlq, server>>, quit => quit',
             pc = "killed" => pc' = "killed" \/ quit'
      PROVE  Idle'
  BY <1>0, <1>a DEF Idle, Serving, Active
<1>b. ASSUME Active, Active', server, server' PROVE Idle'
  BY <1>b DEF Idle, Serving, Active
<1>1. CASE Open
  <2>1. CASE quit
    BY <1>1, <1>a, <2>1 DEF Open, Active
  <2>2. CASE ~quit
    BY <1>0, <1>1, <2>2 DEF Open, Idle, Phase, Active, Serving
  <2> QED
    BY <2>1, <2>2
<1>2. CASE InitSend
  <2>1. CASE Active
    BY <1>0, <1>2, <2>1 DEF InitSend, Idle, Active, Serving
  <2>2. CASE ~Active
    <3>1. loop = "gone"
      BY <1>0, <1>2, <2>2 DEF ProxyInv, MainType, InitSend, Phase, Active
    <3> QED
      BY <1>2, <1>a, <3>1 DEF InitSend, ToModem, Active
  <2> QED
    BY <2>1, <2>2
<1>3. CASE InitNext \/ InitTimeout
  <2>1. pc = "init" /\ UNCHANGED <<loop, quit, plugged, inq, outq, fd, list, ctlq>>
    BY <1>3 DEF InitNext, InitTimeout
  <2>2. server' = server \/ server' = TRUE
    BY <1>3 DEF InitNext, InitTimeout, Again
  <2> QED
    BY <1>0, <2>1, <2>2 DEF Idle, Phase, Active, Serving
<1>4. CASE Join
  BY <1>0, <1>4 DEF Join, Idle, Active, Serving
<1>5. CASE Sigint
  BY <1>5, <1>a DEF Sigint, Active
<1>6. CASE \E c \in Dialers : Accept(c) \/ Cleanup(c) \/ SendQmi(c)
  <2>1. Running /\ Round
    BY <1>6 DEF Accept, Cleanup, SendQmi
  <2>2. Active /\ Active'
    BY <2>1 DEF Running, Round, Active
  <2>3. server
    BY <1>0, <1>6, <2>2 DEF Accept, Cleanup, SendQmi, Idle, Serving, Active
  <2> QED
    BY <1>b, <2>1, <2>2, <2>3 DEF Round
<1>7. CASE RecvInit \/ RecvCtl \/ RecvMux
  <2>1. Running /\ Round
    BY <1>7 DEF RecvInit, RecvCtl, RecvMux
  <2>2. Active /\ Active'
    BY <2>1 DEF Running, Round, Active
  <2>3. server \/ (~server /\ UNCHANGED <<fd, list, ctlq>>)
    BY <1>7 DEF RecvInit, RecvCtl, RecvMux
  <2> QED
    BY <1>0, <1>b, <2>1, <2>2, <2>3 DEF Round, Idle, Serving, Active
<1>8. CASE Tick
  BY <1>8, <1>a DEF Tick, Round, Active
<1>9. CASE LoopExit \/ Killed
  <2>1. ~Active' /\ ~Serving' /\ UNCHANGED <<inq, outq, plugged, quit>>
        /\ fd' = [c \in Dialers |-> 0] /\ list' = [f \in Fds |-> {}]
    BY <1>9, EndIs
  <2>2. quit \/ ~plugged \/ pc' = "killed"
    BY <1>9 DEF LoopExit, LoopEnds, Killed
  <2> QED
    BY <1>0, <2>1, <2>2 DEF Phase, Idle
<1>10. CASE DialerAct
  <2>1. UNCHANGED <<pc, loop, inq, outq, fd, list, ctlq, server, quit>>
    BY <1>10 DEF DialerAct, Connect, Ask, Receive, Close, DialerStep
  <2> QED
    BY <1>a, <2>1 DEF Active
<1>11. CASE Serve \/ Mute
  <2>1. inq # <<>> /\ UNCHANGED <<pc, loop, quit, server, fd, list, ctlq>>
    BY <1>11 DEF Serve, Mute, ModemStep
  <2> QED
    BY <1>0, <2>1 DEF Idle, Active, Serving
<1>12. CASE Indicate
  <2>1. UNCHANGED <<pc, loop, quit, server, fd, list, ctlq>>
    BY <1>12 DEF Indicate, ModemStep
  <2>2. PICK a : IsInd(a) /\ Proper(a) /\ outq' = Append(outq, a) /\ UNCHANGED <<inq, plugged>>
    BY <1>12, IndicateIs
  <2>3. a \in Answers /\ outq \in Seq(Answers)
    BY <1>0, <2>2 DEF Proper, QueueType
  <2>4. ASSUME \A i \in DOMAIN outq : IsInd(outq[i])
        PROVE  \A i \in DOMAIN outq' : IsInd(outq'[i])
    <3> HIDE DEF Answers, IsInd
    <3> QED
      BY <2>2, <2>3, <2>4, AppendIs
  <2> QED
    BY <1>0, <2>1, <2>2, <2>4 DEF Idle, Active, Serving, IsInd
<1>13. CASE Unplug
  <2>1. UNCHANGED <<pc, loop, quit, server, fd, list, ctlq>> /\ inq' = <<>> /\ outq' = <<>>
    BY <1>13 DEF Unplug
  <2> QED
    BY <1>0, <2>1 DEF Idle, Active, Serving
<1>14. CASE Replug
  BY <1>14, <1>a DEF Replug, Active
<1> QED
  BY <1>1, <1>2, <1>3, <1>4, <1>5, <1>6, <1>7, <1>8, <1>9, <1>10, <1>11, <1>12, <1>13, <1>14
  DEF Next, MainAct, LoopAct

-----------------------------------------------------------------------------
(* The init.                                                                *)

\* An indication is no answer to main.
LEMMA IndIsNotMine ==
  ASSUME InitType, pc = "init", NEW a, IsInd(a)
  PROVE  a.kind # Steps[init.step] /\ a.tid # init.tid /\ a.kind # "format"
<1>1. init.step \in 1..4 /\ init.tid \in Nat \ {0}
  BY StepsAre DEF InitType
<1> QED
  BY <1>1, StepsAre DEF IsInd, MainKinds

\* Nothing is under way: the init may go on.
LEMMA QuietSetup ==
  ASSUME InitType', init'.own = TRUE, inq' = <<>>, \A i \in DOMAIN outq' : IsInd(outq'[i]),
         rsq' = None
  PROVE  Setup'
<1>1. CASE pc' = "init"
  <2>1. init'.step \in 1..4 /\ init'.tid \in Nat \ {0}
    BY <1>1, StepsAre DEF InitType
  <2>2. \A i \in DOMAIN outq' :
          /\ outq'[i].kind # Steps[init'.step] /\ outq'[i].tid # init'.tid /\ outq'[i].kind # "format"
    BY <2>1, StepsAre DEF IsInd, MainKinds
  <2>3. rsq'.kind = "none"
    BY DEF None
  <2> QED
    BY <2>2, <2>3 DEF Setup, IsMine, IsInd
<1> QED
  BY <1>1 DEF Setup

\* What is under way when main waits no longer, or has its answer.
LEMMA NothingComes ==
  ASSUME ProxyInv, pc = "init", Active, inq = <<>> /\ \A i \in DOMAIN outq : ~IsMine(outq[i])
  PROVE  \A i \in DOMAIN outq : IsInd(outq[i])
BY DEF ProxyInv, Setup

\* The thread gives main the answer to what it asked.
LEMMA RecvInitSetup ==
  ASSUME ProxyInv, RecvInit, pc = "init", Active PROVE Setup'
<1> USE DEF mainVars, answerVars, proxyVars, dialerVars, modemVars
<1>0. /\ InitType /\ Setup /\ outq \in Seq(Answers)
      /\ init.step \in 1..4
  BY StepsAre DEF ProxyInv, InitType, QueueType
<1>1. /\ outq # <<>> /\ outq' = Tail(outq)
      /\ UNCHANGED <<pc, init, wait, inq, format, plugged>>
      /\ rsq' = IF wait /\ Head(outq).tid = init.tid
                      /\ (Head(outq).kind = "format" => Steps[init.step] = "format")
                  THEN [kind |-> Head(outq).kind, ok |-> Head(outq).ok] ELSE rsq
  BY DEF RecvInit, Round
<1> HIDE DEF Answers
<1>2. /\ Head(outq) = outq[1] /\ 1 \in DOMAIN outq
      /\ \A i \in DOMAIN outq' : i + 1 \in DOMAIN outq /\ outq'[i] = outq[i + 1] /\ i + 1 # 1 /\ i \in Nat
  <2>1. \A i \in DOMAIN Tail(outq) : i \in Nat \ {0}
    BY <1>0, <1>1, TailIs
  <2> QED
    BY <1>0, <1>1, <2>1, TailIs
<1>3. CASE IsInd(outq[1])
  <2>1. rsq' = rsq
    BY <1>0, <1>1, <1>2, <1>3, IndIsNotMine
  <2>2. (\E i \in DOMAIN outq' : IsMine(outq'[i])) => \E i \in DOMAIN outq : IsMine(outq[i])
    BY <1>2
  <2>3. \A i, j \in DOMAIN outq' : IsMine(outq'[i]) /\ IsMine(outq'[j]) => i = j
    <3>1. \A i, j \in DOMAIN outq' : i + 1 = j + 1 => i = j
      BY <1>2
    <3> QED
      BY <1>0, <1>2, <3>1 DEF Setup
  <2>4. UNCHANGED <<init, wait, inq, format, plugged>>
    BY <1>1
  <2>5. \A a : IsMine(a)' <=> IsMine(a)
    BY <1>1 DEF IsMine
  <2> QED
    BY <1>0, <1>1, <1>2, <2>1, <2>2, <2>3, <2>4 DEF Setup, IsMine, IsInd
<1>4. CASE ~IsInd(outq[1])
  <2>1. IsMine(outq[1]) /\ wait /\ rsq = None /\ inq = <<>> /\ init.own
    BY <1>0, <1>2, <1>4 DEF Setup
  <2>2. rsq' = [kind |-> Steps[init.step], ok |-> outq[1].ok]
    BY <1>1, <1>2, <2>1 DEF IsMine
  <2>3. \A i \in DOMAIN outq' : ~IsMine(outq'[i]) /\ IsInd(outq'[i])
    BY <1>0, <1>2, <2>1 DEF Setup
  <2>4. rsq'.kind = "format" /\ rsq'.ok => format
    BY <1>0, <1>2, <2>1, <2>2 DEF Setup, IsMine
  <2>5. \A i \in DOMAIN outq' : outq'[i].kind # "format"
    BY <2>3 DEF IsInd
  <2> QED
    BY <1>1, <2>1, <2>2, <2>3, <2>4, <2>5 DEF Setup, IsMine, IsInd
<1> QED
  BY <1>3, <1>4

\* The modem answers main.
LEMMA ServeSetup ==
  ASSUME ProxyInv, Serve, pc = "init", Active PROVE Setup'
<1> USE DEF mainVars, answerVars, proxyVars, dialerVars, modemVars
<1>0. /\ InitType /\ Setup /\ outq \in Seq(Answers) /\ inq \in Seq(MainRequests \union Requests)
      /\ ids \in [Ids -> Whos \union {NoOne}] /\ init.step \in 1..4
  BY StepsAre DEF ProxyInv, InitType, QueueType
<1>1. inq # <<>> /\ inq' = Tail(inq) /\ UNCHANGED <<pc, init, wait, rsq, plugged, loop>>
  BY DEF Serve, ModemStep
<1> DEFINE m == Head(inq)
<1>2. m = inq[1] /\ inq' = <<>> /\ m \in MainRequests \union Requests
  <2> DEFINE S == MainRequests \union Requests
  <2>1. inq \in Seq(S) /\ Len(inq) <= 1
    BY <1>0, <1>1 DEF Setup
  <2> HIDE DEF S
  <2>2. m = inq[1] /\ m \in S /\ Tail(inq) \in Seq(S) /\ Len(Tail(inq)) = Len(inq) - 1 /\ Len(inq) \in Nat \ {0}
    BY <1>1, <2>1, TailIs
  <2>3. Len(Tail(inq)) = 0
    BY <2>1, <2>2
  <2> QED
    BY <1>1, <2>2, <2>3 DEF S
<1>3. PICK e \in Effects(m) :
             outq' = Append(outq, e[1]) /\ format' = IF m.kind = "format" THEN e[1].ok ELSE format
  BY DEF Serve
<1>4. m.kind = Steps[init.step] /\ m.tid = init.tid /\ m.who = NoOne /\ m.own /\ wait /\ rsq = None
      /\ init.own /\ \A i \in DOMAIN outq : IsInd(outq[i]) /\ ~IsMine(outq[i])
  BY <1>0, <1>1, <1>2 DEF Setup
<1> DEFINE a == e[1]
<1>5. /\ a \in Answers /\ a.kind = m.kind /\ a.tid = m.tid /\ a.who = m.who
      /\ (m.kind = "format" => a.ok)
  BY <1>0, <1>2, <1>4, EffectIs DEF Proper
<1> HIDE DEF m, a, Answers
<1>6. \A i \in DOMAIN outq' :
        (i \in DOMAIN outq /\ outq'[i] = outq[i]) \/ (i = Len(outq) + 1 /\ outq'[i] = a)
  BY <1>0, <1>3, <1>5, AppendIs DEF a
<1>7. IsMine(a) /\ a.who = NoOne /\ (a.kind = "format" /\ a.ok => format')
  BY <1>3, <1>4, <1>5 DEF IsMine, a
<1>8. \A i \in DOMAIN outq' : IsInd(outq'[i]) \/ (IsMine(outq'[i]) /\ outq'[i].who = NoOne)
  BY <1>4, <1>6, <1>7
<1>9. \A i, j \in DOMAIN outq' : IsMine(outq'[i]) /\ IsMine(outq'[j]) => i = j
  BY <1>4, <1>6
<1>10. \A i \in DOMAIN outq' : outq'[i].kind = "format" /\ outq'[i].ok => format'
  <2>1. \A i \in DOMAIN outq : outq[i].kind # "format"
    BY <1>4 DEF IsInd
  <2> QED
    BY <1>6, <1>7, <2>1
<1>11. rsq'.kind = "none" /\ rsq' = None
  BY <1>1, <1>4 DEF None
<1> QED
  BY <1>1, <1>2, <1>4, <1>8, <1>9, <1>10, <1>11 DEF Setup, IsMine, IsInd

\* After a step of the init to the next one nothing is under way.
LEMMA MainQuiet ==
  ASSUME Orderly, ProxyInv, Active, InitNext \/ InitTimeout
  PROVE  inq = <<>> /\ (\A i \in DOMAIN outq : IsInd(outq[i])) /\ init.own = TRUE
         /\ (rsq # None => rsq.kind = Steps[init.step])
<1>0. Setup /\ InitType /\ QueueType /\ pc = "init"
  BY DEF ProxyInv, InitNext, InitTimeout
<1>1. init.own = TRUE /\ (rsq # None => rsq.kind = Steps[init.step])
  BY <1>0 DEF Setup, InitType
<1>2. CASE InitNext
  <2>1. rsq # None
    BY <1>2 DEF InitNext
  <2> QED
    BY <1>0, <1>1, <2>1 DEF Setup
<1>3. CASE InitTimeout
  <2>1. rsq = None /\ \A q \in {inq, outq} : \A i \in DOMAIN q : ~(q[i].tid = init.tid /\ q[i].who = NoOne)
    BY <1>3 DEF InitTimeout, Fault, Orderly, Coming, Active
  <2>2. inq = <<>>
    <3> DEFINE S == MainRequests \union Requests
    <3>1. inq \in Seq(S)
      BY <1>0 DEF QueueType
    <3> HIDE DEF S
    <3>2. inq # <<>> => 1 \in DOMAIN inq
      BY <3>1, TailIs
    <3> QED
      BY <1>0, <2>1, <3>2 DEF Setup
  <2>3. \A i \in DOMAIN outq : IsInd(outq[i])
    BY <1>0, <2>1 DEF Setup, IsMine
  <2> QED
    BY <1>1, <2>2, <2>3
<1> QED
  BY <1>2, <1>3

\* The init keeps in step with the modem.
LEMMA SetupStep ==
  ASSUME Orderly, ProxyInv, Next, InitType' PROVE Setup'
<1> USE DEF mainVars, answerVars, proxyVars, dialerVars, modemVars
<1>0. MainType /\ InitType /\ Setup /\ Phase /\ Idle /\ QueueType
  BY DEF ProxyInv
<1> SUFFICES ASSUME pc' = "init", Active' PROVE Setup'
  BY DEF Setup
<1>a. ASSUME UNCHANGED <<pc, init, wait, rsq, inq, outq, format, plugged>>, Active PROVE Setup'
  <2>1. \A b : IsMine(b)' <=> IsMine(b)
    BY <1>a DEF IsMine
  <2> QED
    BY <1>0, <1>a DEF Setup, IsMine
<1>1. CASE Open
  <2>1. CASE quit
    BY <1>1, <2>1 DEF Open
  <2>2. CASE ~quit
    <3>1. pc = "open" /\ init' = Start /\ UNCHANGED <<inq, outq, rsq>>
      BY <1>1, <2>2 DEF Open
    <3>2. loop = "none"
      BY <1>0, <3>1 DEF Phase
    <3>3. inq = <<>> /\ (\A i \in DOMAIN outq : IsInd(outq[i])) /\ rsq = None
      BY <1>0, <2>2, <3>1, <3>2 DEF Idle, Active, InitType
    <3> QED
      BY <3>1, <3>3, StartIs, QuietSetup
  <2> QED
    BY <2>1, <2>2
<1>2. CASE InitSend
  <2> DEFINE m == [kind |-> Steps[init.step], tid |-> init.tid, who |-> NoOne, id |-> NoOne,
                   own |-> init.own]
  <2>1. /\ pc = "init" /\ ~wait /\ wait' = TRUE /\ rsq' = None /\ ToModem(m)
        /\ UNCHANGED <<init, outq, format, plugged, loop>>
    BY <1>2 DEF InitSend
  <2>2. Active
    BY <2>1 DEF Active
  <2>3. init.own /\ inq = <<>> /\ (\A i \in DOMAIN outq : ~IsMine(outq[i]) /\ IsInd(outq[i]))
    BY <1>0, <2>1, <2>2 DEF Setup
  <2>4. inq' = <<>> \/ inq' = <<m>>
    <3>1. ToModem(m) /\ inq = <<>>
      BY <2>1, <2>3
    <3> HIDE DEF m
    <3>2. Append(<<>>, m) = <<m>>
      BY SingleIs
    <3> QED
      BY <3>1, <3>2 DEF ToModem
  <2>5. Len(<<>>) = 0 /\ Len(<<m>>) = 1 /\ <<m>>[1] = m
    OBVIOUS
  <2>6. rsq'.kind = "none"
    BY <2>1 DEF None
  <2>7. \A i \in DOMAIN outq : outq[i].kind # "format"
    BY <2>3 DEF IsInd
  <2>8. /\ m.kind = Steps[init.step] /\ m.tid = init.tid /\ m.who = NoOne /\ m.own = init.own
    OBVIOUS
  <2> HIDE DEF m
  <2>9. CASE inq' = <<>>
    BY <2>1, <2>3, <2>5, <2>6, <2>7, <2>9 DEF Setup, IsMine, IsInd
  <2>10. CASE inq' = <<m>>
    <3>1. Len(inq') = 1 /\ inq'[1] = m
      BY <2>5, <2>10
    <3> QED
      <4>1. inq'[1].kind = Steps[init'.step] /\ inq'[1].tid = init'.tid /\ inq'[1].who = NoOne
            /\ inq'[1].own /\ Len(inq') <= 1 /\ init'.own
        <5>1. init.own = TRUE
          BY <1>0, <2>3 DEF InitType
        <5>2. inq'[1].own = TRUE /\ init'.own = TRUE
          BY <2>1, <2>8, <3>1, <5>1
        <5> QED
          BY <2>1, <2>8, <3>1, <5>2
      <4>2. \A i \in DOMAIN outq' : /\ ~(IsMine(outq[i]))' /\ IsInd(outq'[i])
                                    /\ outq'[i].kind # "format"
        BY <2>1, <2>3, <2>7 DEF IsMine
      <4> QED
        BY <2>1, <2>6, <4>1, <4>2 DEF Setup, IsInd
  <2> QED
    BY <2>4, <2>9, <2>10
<1>3. CASE InitNext
  <2>1. pc = "init" /\ wait /\ rsq # None /\ rsq' = None /\ UNCHANGED <<loop, inq, outq>>
    BY <1>3 DEF InitNext
  <2>2. Active
    BY <2>1 DEF Active
  <2>3. inq = <<>> /\ init.own = TRUE /\ rsq.kind = Steps[init.step]
        /\ (\A i \in DOMAIN outq : IsInd(outq[i]))
    BY <1>3, <2>1, <2>2, MainQuiet
  <2> DEFINE next == [init EXCEPT !.step = @ + 1, !.tid = @ + 1,
                                  !.own = @ /\ rsq.kind = Steps[init.step]]
  <2>4. \/ Again \/ init' = next
        \/ pc' = "serve"
    BY <1>3 DEF InitNext
  <2>5. init'.own = TRUE
    <3>1. CASE Again
      BY <3>1, StartIs DEF Again, Start
    <3>2. CASE init' = next
      <4> DEFINE b == init.own /\ rsq.kind = Steps[init.step]
      <4>1. b = TRUE
        BY <2>3
      <4>2. init \in [step : 1..Done, try : 1..SyncTries, retry : 0..Retries,
                      tid : 1..(SyncTries + 4), own : BOOLEAN]
        BY <1>0 DEF InitType
      <4>3. next = [init EXCEPT !.step = init.step + 1, !.tid = init.tid + 1, !.own = b]
        OBVIOUS
      <4> HIDE DEF b, next
      <4>4. next.own = b
        BY <4>2, <4>3
      <4> QED
        BY <3>2, <4>1, <4>4
    <3> QED
      BY <2>4, <3>1, <3>2
  <2> QED
    BY <2>1, <2>3, <2>5, QuietSetup
<1>4. CASE InitTimeout
  <2>1. pc = "init" /\ rsq' = None /\ UNCHANGED <<loop, inq, outq>>
    BY <1>4 DEF InitTimeout
  <2>2. Active
    BY <2>1 DEF Active
  <2>3. inq = <<>> /\ init.own = TRUE /\ (\A i \in DOMAIN outq : IsInd(outq[i]))
    BY <1>4, <2>2, MainQuiet
  <2>4. init'.own = TRUE
    <3>1. init.own = TRUE
      BY <2>3
    <3>2. Again \/ init' = [init EXCEPT !.try = @ + 1, !.tid = @ + 1]
      BY <1>4 DEF InitTimeout
    <3>3. CASE Again
      BY <3>3, StartIs DEF Again, Start
    <3>4. CASE init' = [init EXCEPT !.try = @ + 1, !.tid = @ + 1]
      BY <1>0, <3>1, <3>4 DEF InitType
    <3> QED
      BY <3>2, <3>3, <3>4
  <2> QED
    BY <2>1, <2>3, <2>4, QuietSetup
<1>5. CASE Join
  BY <1>5 DEF Join
<1>6. CASE Sigint
  BY <1>6, <1>a DEF Sigint, Active
<1>7. CASE (\E c \in Dialers : Accept(c) \/ Cleanup(c) \/ SendQmi(c)) \/ RecvCtl \/ RecvMux
  <2>1. Running /\ Round
    BY <1>7 DEF Accept, Cleanup, SendQmi, RecvCtl, RecvMux
  <2>2. server
    BY <1>0, <1>7, <2>1 DEF Accept, Cleanup, SendQmi, RecvCtl, RecvMux, Idle, Serving, Running
  <2> QED
    BY <1>0, <2>1, <2>2 DEF Phase, Round
<1>8. CASE RecvInit
  BY <1>8, RecvInitSetup DEF RecvInit, Round, Running, Active
<1>9. CASE Tick
  BY <1>9, <1>a DEF Tick, Round, Active
<1>10. CASE LoopExit \/ Killed
  BY <1>10, EndIs
<1>11. CASE DialerAct
  <2>1. UNCHANGED <<pc, init, wait, rsq, inq, outq, format, plugged, loop>>
    BY <1>11 DEF DialerAct, Connect, Ask, Receive, Close, DialerStep
  <2> QED
    BY <1>a, <2>1 DEF Active
<1>12. CASE Serve
  BY <1>12, ServeSetup DEF Serve, ModemStep, Active
<1>13. CASE Mute
  <2>1. pc = "init" /\ inq # <<>> /\ inq' = Tail(inq)
        /\ UNCHANGED <<init, wait, rsq, outq, format, plugged, loop>>
    BY <1>13 DEF Mute, ModemStep
  <2>2. Active
    BY <2>1 DEF Active
  <2>3. inq' = <<>>
    <3> DEFINE S == MainRequests \union Requests
    <3>1. inq \in Seq(S) /\ Len(inq) <= 1
      BY <1>0, <2>1, <2>2 DEF QueueType, Setup
    <3> HIDE DEF S
    <3>2. Tail(inq) \in Seq(S) /\ Len(Tail(inq)) = Len(inq) - 1 /\ Len(inq) \in Nat \ {0}
      BY <2>1, <3>1, TailIs
    <3>3. Len(Tail(inq)) = 0
      BY <3>1, <3>2
    <3> QED
      BY <2>1, <3>2, <3>3
  <2>4. rsq = None /\ init.own /\ \A i \in DOMAIN outq : IsInd(outq[i])
    BY <1>0, <2>1, <2>2 DEF Setup
  <2>5. init.own = TRUE
    BY <1>0, <2>4 DEF InitType
  <2> QED
    BY <2>1, <2>3, <2>4, <2>5, QuietSetup
<1>14. CASE Indicate
  BY <1>0, <1>14 DEF Indicate, ModemStep, Phase
<1>15. CASE Unplug
  <2>1. /\ inq' = <<>> /\ outq' = <<>> /\ plugged' = FALSE /\ UNCHANGED <<pc, init, wait, rsq, loop>>
    BY <1>15 DEF Unplug
  <2>2. Active
    BY <2>1 DEF Active
  <2>3. DOMAIN <<>> = {} /\ Len(<<>>) = 0
    OBVIOUS
  <2>4. init.own /\ (rsq # None => wait /\ rsq.kind = Steps[init.step])
    BY <1>0, <2>1, <2>2 DEF Setup
  <2> QED
    BY <2>1, <2>3, <2>4 DEF Setup, IsMine
<1>16. CASE Replug
  BY <1>16 DEF Replug, Active
<1> QED
  BY <1>1, <1>2, <1>3, <1>4, <1>5, <1>6, <1>7, <1>8, <1>9, <1>10, <1>11, <1>12, <1>13, <1>14, <1>15,
     <1>16
  DEF Next, MainAct, LoopAct

-----------------------------------------------------------------------------
(* The traffic.                                                             *)

\* The rest of a queue, by the places its elements had.
LEMMA RestIs ==
  ASSUME NEW S, NEW q \in Seq(S), q # <<>>
  PROVE  /\ Head(q) = q[1] /\ 1 \in DOMAIN q /\ q[1] \in S /\ Tail(q) \in Seq(S)
         /\ \A i \in DOMAIN Tail(q) : i + 1 \in DOMAIN q /\ i + 1 # 1 /\ Tail(q)[i] = q[i + 1]
         /\ \A i, j \in DOMAIN Tail(q) : (i + 1 = j + 1 => i = j) /\ (i < j <=> i + 1 < j + 1)
                                         /\ 1 < i + 1
<1>1. \A i \in DOMAIN Tail(q) : i \in Nat \ {0} /\ i + 1 \in DOMAIN q /\ Tail(q)[i] = q[i + 1]
  BY TailIs
<1>2. \A i, j \in Nat \ {0} : (i + 1 = j + 1 => i = j) /\ (i < j <=> i + 1 < j + 1) /\ 1 < i + 1
  OBVIOUS
<1>3. \A i \in DOMAIN Tail(q) : i + 1 # 1
  BY <1>1, <1>2
<1> QED
  BY <1>1, <1>2, <1>3, TailIs

\* A request of a dialer is of one of three kinds.
LEMMA Kinds ==
  /\ \A m : m.kind \in AskKinds => (IsCtl(m) <=> m.kind # "mux")
  /\ \A a : IsInd(a) => a.kind \in AskKinds /\ ~IsCtl(a)
  /\ \A m, x : m.kind = x.kind => (IsCtl(m) <=> IsCtl(x))
BY DEF AskKinds, IsCtl, IsInd

\* What the thread takes from the modem is one of the messages it keeps apart.
LEMMA RecvCtlIs ==
  ASSUME ProxyInv, RecvCtl
  PROVE  /\ IsCtl(Head(outq)) /\ ctlq # <<>> /\ Head(outq).who = ctlq[1].qmi.who
         /\ ctlq' = Tail(ctlq) /\ SendFirst(ctlq') /\ outq' = Tail(outq) /\ outq # <<>>
         /\ ctlq \in Seq([fd : Fds, qmi : Requests]) /\ Serving /\ Head(outq).kind # "ctlind"
         /\ \A i \in DOMAIN inq : ~IsCtl(inq[i])
         /\ \A i \in DOMAIN outq' : ~IsCtl(outq'[i])
         /\ \A i \in DOMAIN outq' : i + 1 \in DOMAIN outq /\ outq'[i] = outq[i + 1]
         /\ \A i, j \in DOMAIN outq' : (i < j <=> i + 1 < j + 1) /\ 1 < i + 1
         /\ Head(outq) = outq[1] /\ 1 \in DOMAIN outq
<1> DEFINE a == Head(outq)
           q == IF IsReply(a) THEN Tail(ctlq) ELSE ctlq
<1>1. /\ Serving /\ outq # <<>> /\ a.kind # "mux" /\ outq' = Tail(outq) /\ ctlq' = q /\ SendFirst(q)
  BY DEF RecvCtl, Running, Serving
<1>2. Traffic /\ QueueType /\ outq \in Seq(Answers)
  BY DEF ProxyInv, QueueType
<1>3. /\ a = outq[1] /\ 1 \in DOMAIN outq
      /\ \A i \in DOMAIN outq' : i + 1 \in DOMAIN outq /\ i + 1 # 1 /\ outq'[i] = outq[i + 1]
      /\ \A i, j \in DOMAIN outq' : (i < j <=> i + 1 < j + 1) /\ 1 < i + 1
  <2> HIDE DEF Answers
  <2> QED
    BY <1>1, <1>2, RestIs
<1>4. a.kind \in AskKinds /\ IsCtl(a)
  BY <1>1, <1>2, <1>3, Kinds DEF Traffic
<1>5. a.kind # "ctlind"
  BY <1>4 DEF AskKinds
<1>6. IsFirst(a)
  BY <1>1, <1>2, <1>3, <1>4 DEF Traffic
<1>7. (\A i \in DOMAIN inq : ~IsCtl(inq[i])) /\ (\A i \in DOMAIN outq' : ~IsCtl(outq'[i]))
  BY <1>1, <1>2, <1>3, <1>4 DEF Traffic
<1>8. ctlq \in Seq([fd : Fds, qmi : Requests])
  BY <1>1, <1>2 DEF QueueType
<1> QED
  BY <1>1, <1>3, <1>4, <1>5, <1>6, <1>7, <1>8 DEF IsFirst, IsReply

\* Then it may send the next request.
LEMMA SendFirstIs ==
  ASSUME QueueType, NEW q \in Seq([fd : Fds, qmi : Requests]), SendFirst(q)
  PROVE  \/ inq' = inq
         \/ q # <<>> /\ Live(q[1].fd) /\ q[1].qmi \in Requests /\ plugged
            /\ inq' = Append(inq, q[1].qmi) /\ 1 \in DOMAIN q
<1>1. CASE q # <<>> /\ Live(q[1].fd)
  <2> DEFINE L == [fd : Fds, qmi : Requests]
  <2>1. q \in Seq(L)
    OBVIOUS
  <2> HIDE DEF L
  <2>2. q[1] \in L /\ 1 \in DOMAIN q
    BY <1>1, <2>1, TailIs
  <2>3. q[1].qmi \in Requests
    BY <2>2 DEF L
  <2>4. ToModem(q[1].qmi)
    BY <1>1 DEF SendFirst
  <2> QED
    BY <1>1, <2>2, <2>3, <2>4 DEF ToModem
<1>2. CASE ~(q # <<>> /\ Live(q[1].fd))
  BY <1>2 DEF SendFirst
<1> QED
  BY <1>1, <1>2

\* What the thread sends the modem for a dialer.
LEMMA SendQmiIs ==
  ASSUME ProxyInv, NEW c \in Dialers, SendQmi(c)
  PROVE  /\ Serving /\ Head(up[c]) \in Requests /\ fd[c] \in Fds /\ UNCHANGED outq
         /\ ctlq \in Seq([fd : Fds, qmi : Requests])
         /\ Head(up[c]) = up[c][1] /\ 1 \in DOMAIN up[c] /\ up'[c] = Tail(up[c])
         /\ \/ IsCtl(Head(up[c])) /\ ctlq' = Append(ctlq, [fd |-> fd[c], qmi |-> Head(up[c])])
               /\ (ctlq # <<>> => inq' = inq)
            \/ ~IsCtl(Head(up[c])) /\ ctlq' = ctlq
         /\ inq' = inq \/ inq' = Append(inq, Head(up[c]))
<1> DEFINE m == Head(up[c])
<1>1. /\ Running /\ fd[c] # 0 /\ up[c] # <<>> /\ up' = [up EXCEPT ![c] = Tail(@)]
      /\ (IF ~IsCtl(m) \/ ctlq = <<>> THEN ToModem(m) ELSE inq' = inq)
      /\ ctlq' = IF IsCtl(m) THEN Append(ctlq, [fd |-> fd[c], qmi |-> m]) ELSE ctlq
      /\ outq' = outq
  BY DEF SendQmi, SendsNow
<1>2. Serving
  BY <1>1 DEF ProxyInv, Idle, Running, Serving
<1>3. up \in [Dialers -> Seq(Requests)] /\ fd \in [Dialers -> {0} \union Fds]
      /\ ctlq \in Seq([fd : Fds, qmi : Requests])
  BY <1>2 DEF ProxyInv, DialerType, QueueType
<1>4. m \in Requests /\ m = up[c][1] /\ 1 \in DOMAIN up[c]
  <2>1. up[c] \in Seq(Requests)
    BY <1>3
  <2> HIDE DEF Requests
  <2> QED
    BY <1>1, <2>1, TailIs
<1>5. inq' = inq \/ inq' = Append(inq, m)
  BY <1>1 DEF ToModem
<1> QED
  BY <1>1, <1>2, <1>3, <1>4, <1>5

\* The modem answers the first request it has.
LEMMA ServeIs ==
  ASSUME ProxyInv, Serve
  PROVE  /\ inq # <<>> /\ inq' = Tail(inq) /\ inq[1] \in MainRequests \union Requests /\ 1 \in DOMAIN inq
         /\ \A i \in DOMAIN inq' : i + 1 \in DOMAIN inq /\ i + 1 # 1 /\ inq'[i] = inq[i + 1]
         /\ \A i, j \in DOMAIN inq' :
              (i + 1 = j + 1 => i = j) /\ (i < j <=> i + 1 < j + 1) /\ 1 < i + 1
         /\ UNCHANGED <<loop, server, ctlq, fd, list, dlr, up, inbox, plugged>> /\ plugged
         /\ \E e \in Effects(inq[1]) :
              /\ Proper(e[1]) /\ e[1].kind = inq[1].kind /\ e[1].tid = inq[1].tid /\ e[1].who = inq[1].who
              /\ outq' = Append(outq, e[1]) /\ ids' = e[2]
              /\ \A i \in DOMAIN outq' :
                   \/ i \in DOMAIN outq /\ outq'[i] = outq[i]
                   \/ i = Len(outq) + 1 /\ i \notin DOMAIN outq /\ outq'[i] = e[1]
              /\ \A i \in DOMAIN outq : i < Len(outq) + 1 /\ ~(Len(outq) + 1 < i)
<1> DEFINE S == MainRequests \union Requests
<1>1. inq # <<>> /\ inq' = Tail(inq) /\ inq \in Seq(S) /\ outq \in Seq(Answers)
      /\ ids \in [Ids -> Whos \union {NoOne}]
      /\ UNCHANGED <<loop, server, ctlq, fd, list, dlr, up, inbox, plugged>> /\ plugged
  BY DEF Serve, ModemStep, ProxyInv, QueueType, dialerVars, proxyVars, Phase
<1>2. PICK e \in Effects(Head(inq)) : outq' = Append(outq, e[1]) /\ ids' = e[2]
  BY DEF Serve
<1> HIDE DEF S, Answers
<1>3. /\ Head(inq) = inq[1] /\ inq[1] \in S /\ 1 \in DOMAIN inq
      /\ \A i \in DOMAIN inq' : i + 1 \in DOMAIN inq /\ i + 1 # 1 /\ inq'[i] = inq[i + 1]
      /\ \A i, j \in DOMAIN inq' :
           (i + 1 = j + 1 => i = j) /\ (i < j <=> i + 1 < j + 1) /\ 1 < i + 1
  BY <1>1, RestIs
<1>4. /\ Proper(e[1]) /\ e[1].kind = inq[1].kind /\ e[1].tid = inq[1].tid /\ e[1].who = inq[1].who
  BY <1>1, <1>2, <1>3, EffectIs DEF S
<1>5. e[1] \in Answers
  BY <1>4 DEF Proper
<1>6. \A i \in DOMAIN outq' :
           (i \in DOMAIN outq /\ outq'[i] = outq[i]) \/ (i = Len(outq) + 1 /\ outq'[i] = e[1])
  BY <1>1, <1>2, <1>5, AppendIs
<1>7. \A i \in DOMAIN outq : i < Len(outq) + 1 /\ ~(Len(outq) + 1 < i) /\ i # Len(outq) + 1
  BY <1>1
<1> QED
  BY <1>1, <1>2, <1>3, <1>4, <1>6, <1>7 DEF S

\* The modem has at most one control request, the first of the list.
LEMMA TrafficStep ==
  ASSUME Orderly, ProxyInv, Next, Phase' PROVE Traffic'
<1> USE DEF mainVars, answerVars, proxyVars, dialerVars, modemVars
<1>0. Traffic /\ Phase /\ Idle /\ QueueType
  BY DEF ProxyInv
<1> SUFFICES ASSUME Serving' PROVE Traffic'
  BY DEF Traffic
<1>a. ASSUME Serving, UNCHANGED <<inq, outq, ctlq>> PROVE Traffic'
  BY <1>0, <1>a DEF Traffic, IsFirst
<1>1. CASE Open \/ InitSend \/ Join \/ LoopExit \/ Killed \/ Replug
  BY <1>0, <1>1 DEF Open, InitSend, Join, LoopExit, Killed, Replug, Phase, Serving
<1>2. CASE InitNext \/ InitTimeout
  <2>1. UNCHANGED <<loop, inq, outq>>
    BY <1>2 DEF InitNext, InitTimeout
  <2>2. Active
    BY <2>1 DEF Serving, Active
  <2>3. inq' = <<>> /\ \A i \in DOMAIN outq' : IsInd(outq'[i])
    BY <1>2, <2>1, <2>2, MainQuiet
  <2>4. DOMAIN inq' = {}
    BY <2>3
  <2>5. \A i \in DOMAIN outq' : outq'[i].kind \in AskKinds /\ ~IsCtl(outq'[i])
    BY <2>3, Kinds
  <2> QED
    BY <2>4, <2>5 DEF Traffic
<1>3. CASE Sigint
  BY <1>3, <1>a DEF Sigint, Serving
<1>4. ASSUME NEW c \in Dialers, Accept(c) PROVE Traffic'
  BY <1>4, <1>a DEF Accept, Running, Round, Serving
<1>5. ASSUME NEW c \in Dialers, Cleanup(c) PROVE Traffic'
  <2>1. Serving
    BY <1>5 DEF Cleanup, Running, Round, Serving
  <2>2. ctlq' = ctlq /\ UNCHANGED <<inq, outq>>
    BY <1>5, <2>1, CleanedIs DEF Cleanup
  <2> QED
    BY <1>a, <2>1, <2>2
<1>6. ASSUME NEW c \in Dialers, SendQmi(c) PROVE Traffic'
  <2> DEFINE m == Head(up[c])
             q == [fd |-> fd[c], qmi |-> m]
             S == MainRequests \union Requests
             L == [fd : Fds, qmi : Requests]
  <2>1. /\ Serving /\ m \in Requests /\ outq' = outq /\ ctlq \in Seq(L) /\ fd[c] \in Fds
        /\ \/ IsCtl(m) /\ ctlq' = Append(ctlq, q) /\ (ctlq # <<>> => inq' = inq)
           \/ ~IsCtl(m) /\ ctlq' = ctlq
        /\ inq' = inq \/ inq' = Append(inq, m)
    BY <1>6, SendQmiIs
  <2>2. m \in S /\ m.kind \in AskKinds /\ inq \in Seq(S) /\ q \in L /\ q.qmi = m
    BY <1>0, <2>1 DEF Requests, QueueType
  <2> HIDE DEF S, q, m, L
  <2>3. inq' = Append(inq, m) =>
        \A i \in DOMAIN inq' : (i \in DOMAIN inq /\ inq'[i] = inq[i]) \/ (i = Len(inq) + 1 /\ inq'[i] = m)
    BY <2>2, AppendIs
  <2>4. ctlq # <<>> => ctlq' # <<>> /\ ctlq'[1] = ctlq[1]
    <3>1. CASE ctlq # <<>> /\ ctlq' = Append(ctlq, q)
      BY <2>1, <2>2, <3>1, AppendIs, TailIs
    <3> QED
      BY <2>1, <3>1
  <2>5. CASE ctlq # <<>> \/ ~IsCtl(m)
    <3>1. \A i \in DOMAIN inq' : (i \in DOMAIN inq /\ inq'[i] = inq[i]) \/ (inq'[i] = m /\ ~IsCtl(m))
      BY <2>1, <2>3, <2>5
    <3>2. \A x : IsFirst(x) => (IsFirst(x))'
      BY <2>4 DEF IsFirst
    <3> QED
      BY <1>0, <2>1, <2>2, <3>1, <3>2 DEF Traffic, IsFirst
  <2>6. CASE ctlq = <<>> /\ IsCtl(m)
    <3>1. (\A i \in DOMAIN inq : ~IsCtl(inq[i])) /\ (\A i \in DOMAIN outq : ~IsCtl(outq[i]))
      BY <1>0, <2>1, <2>6 DEF Traffic, IsFirst
    <3>2. ctlq' # <<>> /\ ctlq'[1].qmi = m
      <4>1. ctlq' = <<q>>
        BY <2>1, <2>6, SingleIs
      <4> QED
        BY <2>2, <4>1
    <3> QED
      BY <1>0, <2>1, <2>2, <2>3, <3>1, <3>2 DEF Traffic, IsFirst
  <2> QED
    BY <2>5, <2>6
<1>7. CASE RecvInit \/ Tick
  BY <1>7 DEF RecvInit, Tick, Round, Serving
<1>8. CASE RecvCtl
  <2> DEFINE S == MainRequests \union Requests
             L == [fd : Fds, qmi : Requests]
  <2>1. /\ Serving /\ ctlq' = Tail(ctlq) /\ ctlq \in Seq(L) /\ SendFirst(ctlq') /\ ctlq # <<>>
        /\ \A i \in DOMAIN inq : ~IsCtl(inq[i])
        /\ \A i \in DOMAIN outq' : ~IsCtl(outq'[i])
        /\ \A i \in DOMAIN outq' : i + 1 \in DOMAIN outq /\ outq'[i] = outq[i + 1]
    BY <1>8, RecvCtlIs
  <2>2. ctlq' \in Seq(L)
    <3> HIDE DEF L
    <3> QED
      BY <2>1, TailIs
  <2>3. \/ inq' = inq
        \/ ctlq' # <<>> /\ ctlq'[1].qmi \in Requests /\ inq' = Append(inq, ctlq'[1].qmi)
    BY <1>0, <2>1, <2>2, SendFirstIs
  <2>4. CASE inq' = inq
    BY <1>0, <2>1, <2>4 DEF Traffic
  <2>5. CASE ctlq' # <<>> /\ ctlq'[1].qmi \in Requests /\ inq' = Append(inq, ctlq'[1].qmi)
    <3> DEFINE m == ctlq'[1].qmi
    <3>1. m \in S /\ m.kind \in AskKinds /\ inq \in Seq(S) /\ inq' = Append(inq, m)
      BY <1>0, <2>5 DEF Requests, QueueType
    <3> HIDE DEF S, m
    <3>2. \A i \in DOMAIN inq' : (i \in DOMAIN inq /\ inq'[i] = inq[i]) \/ (i = Len(inq) + 1 /\ inq'[i] = m)
      BY <3>1, AppendIs
    <3> QED
      BY <1>0, <2>1, <2>5, <3>1, <3>2 DEF Traffic, IsFirst, m
  <2> QED
    BY <2>3, <2>4, <2>5
<1>9. CASE RecvMux
  <2>1. Serving /\ outq # <<>> /\ outq' = Tail(outq) /\ UNCHANGED <<inq, ctlq>>
    BY <1>9 DEF RecvMux, Running, Serving
  <2>2. outq \in Seq(Answers)
    BY <1>0 DEF QueueType
  <2>3. /\ \A i \in DOMAIN outq' : i + 1 \in DOMAIN outq /\ outq'[i] = outq[i + 1]
        /\ \A i, j \in DOMAIN outq' : i + 1 = j + 1 => i = j
    <3> HIDE DEF Answers
    <3> QED
      BY <2>1, <2>2, RestIs
  <2> QED
    BY <1>0, <2>1, <2>3 DEF Traffic, IsFirst
<1>10. CASE DialerAct
  <2>1. UNCHANGED <<inq, outq, ctlq, loop, server>>
    BY <1>10 DEF DialerAct, Connect, Ask, Receive, Close, DialerStep
  <2> QED
    BY <1>a, <2>1 DEF Serving
<1>11. CASE Serve
  <2>1. PICK e \in Effects(inq[1]) :
          /\ Proper(e[1]) /\ e[1].kind = inq[1].kind /\ e[1].who = inq[1].who
          /\ \A i \in DOMAIN outq' :
               \/ i \in DOMAIN outq /\ outq'[i] = outq[i]
               \/ i = Len(outq) + 1 /\ i \notin DOMAIN outq /\ outq'[i] = e[1]
    BY <1>11, ServeIs
  <2> DEFINE a == e[1]
             m == inq[1]
             n == Len(outq) + 1
  <2>2. /\ UNCHANGED <<loop, server, ctlq>> /\ 1 \in DOMAIN inq
        /\ \A i \in DOMAIN inq' : i + 1 \in DOMAIN inq /\ i + 1 # 1 /\ inq'[i] = inq[i + 1]
        /\ \A i, j \in DOMAIN inq' : i + 1 = j + 1 => i = j
    BY <1>11, ServeIs
  <2>3. Serving
    BY <2>2 DEF Serving
  <2>4. a.kind = m.kind /\ a.who = m.who /\ (IsCtl(a) <=> IsCtl(m)) /\ a.kind \in AskKinds
    BY <1>0, <2>1, <2>2, <2>3 DEF Traffic, IsCtl
  <2>5. \A i \in DOMAIN outq' :
          (i \in DOMAIN outq /\ outq'[i] = outq[i]) \/ (i = n /\ outq'[i] = a)
    BY <2>1
  <2>6. IsCtl(m) => /\ \A i \in DOMAIN inq' : ~IsCtl(inq'[i])
                    /\ \A i \in DOMAIN outq : ~IsCtl(outq[i])
                    /\ (IsFirst(a))'
    BY <1>0, <2>2, <2>3, <2>4 DEF Traffic, IsFirst
  <2> HIDE DEF a, m, n
  <2>7. \A i, j \in DOMAIN outq' : IsCtl(outq'[i]) /\ IsCtl(outq'[j]) => i = j
    BY <1>0, <2>3, <2>4, <2>5, <2>6 DEF Traffic
  <2>8. \A i, j \in DOMAIN inq' : IsCtl(inq'[i]) /\ IsCtl(inq'[j]) => i = j
    BY <1>0, <2>2, <2>3 DEF Traffic
  <2>9. \A i \in DOMAIN inq', j \in DOMAIN outq' : ~(IsCtl(inq'[i]) /\ IsCtl(outq'[j]))
    BY <1>0, <2>2, <2>3, <2>4, <2>5, <2>6 DEF Traffic
  <2>10. \A i \in DOMAIN outq' : outq'[i].kind \in AskKinds
    BY <1>0, <2>3, <2>4, <2>5 DEF Traffic
  <2>11. \A i \in DOMAIN outq' : IsCtl(outq'[i]) => (IsFirst(outq[i]))'
    BY <1>0, <2>2, <2>3, <2>4, <2>5, <2>6 DEF Traffic, IsFirst
  <2> QED
    BY <1>0, <2>2, <2>3, <2>7, <2>8, <2>9, <2>10, <2>11 DEF Traffic, IsFirst
<1>12. CASE Mute
  <2> DEFINE S == MainRequests \union Requests
  <2>1. inq # <<>> /\ inq' = Tail(inq) /\ UNCHANGED <<loop, server, outq, ctlq>>
    BY <1>12 DEF Mute, ModemStep
  <2>2. inq \in Seq(S)
    BY <1>0 DEF QueueType
  <2> HIDE DEF S
  <2>3. /\ \A i \in DOMAIN inq' : i + 1 \in DOMAIN inq /\ inq'[i] = inq[i + 1]
        /\ \A i, j \in DOMAIN inq' : i + 1 = j + 1 => i = j
    BY <2>1, <2>2, RestIs
  <2> QED
    BY <1>0, <2>1, <2>3 DEF Traffic, IsFirst, Serving
<1>13. CASE Indicate
  <2>1. PICK a : IsInd(a) /\ Proper(a) /\ outq' = Append(outq, a) /\ UNCHANGED inq
    BY <1>13, IndicateIs
  <2>2. a \in Answers /\ outq \in Seq(Answers) /\ UNCHANGED <<loop, server, ctlq>>
    BY <1>0, <1>13, <2>1 DEF Proper, QueueType, Indicate, ModemStep
  <2>3. \A i \in DOMAIN outq' : (i \in DOMAIN outq /\ outq'[i] = outq[i]) \/ outq'[i] = a
    <3> HIDE DEF Answers
    <3> QED
      BY <2>1, <2>2, AppendIs
  <2>4. a.kind \in AskKinds /\ ~IsCtl(a)
    BY <2>1, Kinds
  <2> HIDE DEF IsInd, Proper
  <2> QED
    BY <1>0, <2>1, <2>2, <2>3, <2>4 DEF Traffic, IsFirst, Serving
<1>14. CASE Unplug
  <2>1. inq' = <<>> /\ outq' = <<>> /\ DOMAIN <<>> = {}
    BY <1>14 DEF Unplug
  <2> QED
    BY <2>1 DEF Traffic
<1> QED
  BY <1>1, <1>2, <1>3, <1>4, <1>5, <1>6, <1>7, <1>8, <1>9, <1>10, <1>11, <1>12, <1>13, <1>14
  DEF Next, MainAct, LoopAct

-----------------------------------------------------------------------------
(* The connections.                                                         *)

\* What the thread hands on goes to dialers that are there.
LEMMA ForwardIs ==
  ASSUME ProxyInv, RecvCtl \/ RecvMux
  PROVE  \A c \in Dialers :
           /\ inbox'[c] \in Seq(Answers)
           /\ inbox'[c] = inbox[c] \/ dlr[c].st = "on"
<1> DEFINE C == Targets(Head(outq))
<1>1. To(C, Head(outq)) /\ \A c \in C : dlr[c].st = "on"
  BY TargetsAre
<1> HIDE DEF C
<1>2. DialerType /\ outq \in Seq(Answers) /\ (\A i \in DOMAIN outq : Proper(outq[i])) /\ outq # <<>>
  BY DEF ProxyInv, QueueType, RecvCtl, RecvMux
<1>3. Proper(Head(outq))
  BY <1>2, TailIs
<1> DEFINE a == Head(outq)
<1>4. Proper(a) /\ To(C, a)
  BY <1>1, <1>3
<1> HIDE DEF a, Answers, Proper
<1> QED
  BY <1>1, <1>2, <1>4, ToIs

\* A dialer is accepted, with a descriptor that nobody has.
LEMMA AcceptIs ==
  ASSUME ProxyInv, NEW c \in Dialers, Accept(c)
  PROVE  /\ Serving /\ fd[c] = 0 /\ fd'[c] \in Fds /\ fd'[c] # 0
         /\ \A x \in Dialers : fd[x] # fd'[c]
         /\ \A x \in Dialers \ {c} : fd'[x] = fd[x] /\ dlr'[x] = dlr[x]
         /\ dlr[c].st = "queued" /\ dlr'[c] = [dlr[c] EXCEPT !.st = "on"] /\ dlr'[c].st = "on"
         /\ fd' \in [Dialers -> {0} \union Fds]
<1>1. /\ Serving /\ dlr[c].st = "queued" /\ dlr' = [dlr EXCEPT ![c].st = "on"]
      /\ fd' = [fd EXCEPT ![c] = Min({f \in Fds : ~Live(f)})]
  BY DEF Accept, Running, Serving
<1>2. fd[c] = 0 /\ fd \in [Dialers -> {0} \union Fds] /\ dlr \in [Dialers -> DialerStates]
  BY <1>1 DEF ProxyInv, Connections, QueueType, DialerType, DialerStates
<1>3. PICK f : f = Min({g \in Fds : ~Live(g)})
  OBVIOUS
<1>4. f \in Fds /\ \A x \in Dialers : fd[x] # f
  BY <1>2, <1>3, FreeFd
<1>5. dlr'[c] = [dlr[c] EXCEPT !.st = "on"] /\ dlr'[c].st = "on" /\ \A x \in Dialers \ {c} : dlr'[x] = dlr[x]
  BY <1>1, <1>2 DEF DialerStates
<1>6. fd'[c] = f /\ (\A x \in Dialers \ {c} : fd'[x] = fd[x]) /\ fd' \in [Dialers -> {0} \union Fds]
  BY <1>1, <1>2, <1>3, <1>4
<1> QED
  BY <1>1, <1>2, <1>4, <1>5, <1>6

\* What a dialer leaves that has hung up.
LEMMA CleanupIs ==
  ASSUME ProxyInv, NEW c \in Dialers, Cleanup(c)
  PROVE  /\ Serving /\ Serving' /\ fd[c] \in Fds /\ fd[c] # 0 /\ fd'[c] = 0 /\ dlr[c].st = "closed"
         /\ dlr'[c].st = "off" /\ dlr'[c].ask = "none" /\ dlr'[c].n = dlr[c].n /\ dlr'[c].id = NoOne
         /\ \A x \in Dialers \ {c} : fd'[x] = fd[x] /\ dlr'[x] = dlr[x]
         /\ UNCHANGED <<ctlq, up, inbox, inq, outq, ids, plugged>> /\ up[c] = <<>> /\ inbox[c] = <<>>
         /\ list' = [list EXCEPT ![fd[c]] = {}]
<1>1. /\ Running /\ fd[c] # 0 /\ dlr[c].st = "closed" /\ Round
      /\ ctlq' = Cleaned(fd[c], ctlq) /\ list' = [list EXCEPT ![fd[c]] = {}]
      /\ fd' = [fd EXCEPT ![c] = 0] /\ up' = [up EXCEPT ![c] = <<>>]
      /\ dlr' = [dlr EXCEPT ![c] = [Off EXCEPT !.n = dlr[c].n]] /\ UNCHANGED <<inbox, inq, outq, ids, plugged>>
  BY DEF Cleanup, modemVars
<1>2. Serving /\ Serving'
  BY <1>1 DEF ProxyInv, Idle, Running, Serving, Round
<1>3. /\ fd \in [Dialers -> {0} \union Fds] /\ dlr \in [Dialers -> DialerStates]
      /\ up \in [Dialers -> Seq(Requests)]
  BY DEF ProxyInv, QueueType, DialerType, DialerStates
<1>4. ctlq' = ctlq
  BY <1>1, <1>2, CleanedIs
<1>5. up[c] = <<>> /\ inbox[c] = <<>>
  BY <1>1 DEF ProxyInv, Connections
<1>6. up' = up
  BY <1>1, <1>3, <1>5
<1>7. dlr'[c].st = "off" /\ dlr'[c].ask = "none" /\ dlr'[c].n = dlr[c].n /\ dlr'[c].id = NoOne
      /\ \A x \in Dialers \ {c} : fd'[x] = fd[x] /\ dlr'[x] = dlr[x]
  BY <1>1, <1>3, OffIs DEF ProxyInv
<1> QED
  BY <1>1, <1>2, <1>3, <1>4, <1>5, <1>6, <1>7

\* A dialer connects.
LEMMA ConnectIs ==
  ASSUME ProxyInv, NEW c \in Dialers, Connect(c)
  PROVE  /\ dlr[c].st = "off" /\ dlr'[c].st = "queued" /\ dlr'[c].n = dlr[c].n + 1
         /\ dlr'[c].asks = 0 /\ dlr'[c].ask = "none" /\ dlr'[c].id = NoOne
         /\ \A x \in Dialers \ {c} : dlr'[x] = dlr[x]
         /\ UNCHANGED <<loop, server, fd, list, ctlq, up, inbox, inq, outq, ids, plugged>>
<1> DEFINE v == dlr[c].n + 1
<1>1. /\ dlr[c].st = "off" /\ dlr' = [dlr EXCEPT ![c] = [Off EXCEPT !.st = "queued", !.n = v]]
      /\ UNCHANGED <<loop, server, fd, list, ctlq, up, inbox, inq, outq, ids, plugged>>
  BY DEF Connect, DialerStep, proxyVars, modemVars
<1>2. dlr \in [Dialers -> DialerStates]
  BY DEF ProxyInv, DialerType, DialerStates
<1> HIDE DEF v
<1>3. [Off EXCEPT !.st = "queued", !.n = v]
        = [st |-> "queued", n |-> v, asks |-> 0, ask |-> "none", id |-> NoOne]
  <2> DEFINE r == [Off EXCEPT !.st = "queued"]
  <2>1. r = [st |-> "queued", n |-> 0, asks |-> 0, ask |-> "none", id |-> NoOne]
    BY DEF Off
  <2>2. [Off EXCEPT !.st = "queued", !.n = v] = [r EXCEPT !.n = v]
    BY DEF Off
  <2> HIDE DEF r
  <2> QED
    BY <2>1, <2>2
<1>4. dlr'[c] = [st |-> "queued", n |-> v, asks |-> 0, ask |-> "none", id |-> NoOne]
      /\ \A x \in Dialers \ {c} : dlr'[x] = dlr[x]
  BY <1>1, <1>2, <1>3
<1>5. dlr'[c].st = "queued" /\ dlr'[c].n = v /\ dlr'[c].asks = 0 /\ dlr'[c].ask = "none"
      /\ dlr'[c].id = NoOne
  BY <1>4
<1> QED
  BY <1>1, <1>4, <1>5 DEF v

\* It asks.
LEMMA AskIs ==
  ASSUME ProxyInv, NEW c \in Dialers, Ask(c)
  PROVE  \E k \in Asking(c) :
         LET m == [kind |-> k, who |-> Who(c), id |-> Holds(c), tid |-> dlr[c].asks + 1] IN
         /\ dlr[c].st = "on" /\ dlr[c].asks < MaxAsks /\ m \in Requests
         /\ dlr'[c] = [st |-> "on", n |-> dlr[c].n, asks |-> dlr[c].asks + 1, ask |-> k, id |-> Holds(c)]
         /\ \A x \in Dialers \ {c} : dlr'[x] = dlr[x] /\ up'[x] = up[x]
         /\ up'[c] = Append(up[c], m) /\ k \in AskKinds /\ (k = "get" <=> Holds(c) = NoOne)
         /\ UNCHANGED <<loop, server, fd, list, ctlq, inbox, inq, outq, ids, plugged>>
<1>1. PICK k \in Asking(c) :
       /\ dlr' = [dlr EXCEPT ![c].ask = k, ![c].asks = @ + 1, ![c].id = Holds(c)]
       /\ up' = [up EXCEPT ![c] = Append(@, [kind |-> k, who |-> Who(c), id |-> Holds(c),
                                             tid |-> dlr[c].asks + 1])]
  BY DEF Ask
<1>2. dlr[c].st = "on" /\ dlr[c].asks < MaxAsks
      /\ UNCHANGED <<loop, server, fd, list, ctlq, inbox, inq, outq, ids, plugged>>
  BY DEF Ask, DialerStep, proxyVars, modemVars
<1>3. dlr \in [Dialers -> DialerStates] /\ up \in [Dialers -> Seq(Requests)] /\ MainType /\ DialerType
  BY DEF ProxyInv, DialerType, DialerStates
<1>4. k \in AskKinds /\ (k = "get" <=> Holds(c) = NoOne)
      /\ [kind |-> k, who |-> Who(c), id |-> Holds(c), tid |-> dlr[c].asks + 1] \in Requests
  BY <1>2, <1>3, AskTypes
<1>5. /\ \A x \in Dialers \ {c} : dlr'[x] = dlr[x] /\ up'[x] = up[x]
      /\ dlr'[c] = [st |-> dlr[c].st, n |-> dlr[c].n, asks |-> dlr[c].asks + 1, ask |-> k,
                    id |-> Holds(c)]
  BY <1>1, <1>3 DEF DialerStates
<1>6. up'[c] = Append(up[c], [kind |-> k, who |-> Who(c), id |-> Holds(c), tid |-> dlr[c].asks + 1])
  BY <1>1, <1>3
<1> QED
  BY <1>2, <1>4, <1>5, <1>6

\* It reads an answer, its own or one that it does not wait for any longer.
LEMMA ReceiveIs ==
  ASSUME ProxyInv, NEW c \in Dialers, Receive(c)
  PROVE  /\ inbox[c] # <<>> /\ 1 \in DOMAIN inbox[c] /\ inbox'[c] = Tail(inbox[c]) /\ Proper(inbox[c][1])
         /\ \A x \in Dialers \ {c} : dlr'[x] = dlr[x] /\ inbox'[x] = inbox[x]
         /\ dlr'[c].st = dlr[c].st /\ dlr'[c].n = dlr[c].n /\ dlr'[c].asks = dlr[c].asks
         /\ \/ /\ dlr'[c] = dlr[c]
               /\ ~(inbox[c][1].kind = dlr[c].ask /\ inbox[c][1].tid = dlr[c].asks)
            \/ /\ inbox[c][1].kind = dlr[c].ask /\ inbox[c][1].tid = dlr[c].asks
               /\ dlr'[c].ask = "none"
               /\ \/ dlr'[c].id = dlr[c].id
                     /\ (inbox[c][1].kind = "mux" \/ ~inbox[c][1].ok)
                  \/ dlr'[c].id = inbox[c][1].id /\ inbox[c][1].kind = "get" /\ inbox[c][1].ok
                  \/ dlr'[c].id = NoOne /\ inbox[c][1].kind = "release"
         /\ UNCHANGED <<loop, server, fd, list, ctlq, up, inq, outq, ids, plugged>>
<1> DEFINE a == inbox[c][1]
           v == CASE a.ok /\ a.kind = "get" -> a.id
                  [] a.ok /\ a.kind = "release" -> NoOne
                  [] OTHER -> dlr[c].id
<1>1. dlr \in [Dialers -> DialerStates] /\ inbox \in [Dialers -> Seq(Answers)] /\ inbox[c] # <<>>
      /\ inbox' = [inbox EXCEPT ![c] = Tail(@)]
      /\ UNCHANGED <<loop, server, fd, list, ctlq, up, inq, outq, ids, plugged>>
  BY DEF ProxyInv, DialerType, DialerStates, Receive, DialerStep, proxyVars, modemVars
<1>2. Head(inbox[c]) = a /\ 1 \in DOMAIN inbox[c] /\ Proper(a)
  <2>1. inbox[c] \in Seq(Answers)
    BY <1>1
  <2> HIDE DEF Answers
  <2> QED
    BY <1>1, <2>1, TailIs DEF ProxyInv, DialerType
<1>3. \/ dlr' = dlr /\ ~(a.kind = dlr[c].ask /\ a.tid = dlr[c].asks)
      \/ /\ a.kind = dlr[c].ask /\ a.tid = dlr[c].asks
         /\ dlr' = [dlr EXCEPT ![c].ask = "none", ![c].id = v]
  <2>1. LET mine == a.kind = dlr[c].ask /\ a.tid = dlr[c].asks IN
        dlr' = IF ~mine THEN dlr
               ELSE [dlr EXCEPT ![c].ask = "none",
                                ![c].id = CASE a.ok /\ a.kind = "get" -> a.id
                                            [] a.ok /\ a.kind = "release" -> NoOne
                                            [] OTHER -> @]
    BY <1>2 DEF Receive
  <2> QED
    BY <2>1
<1> HIDE DEF v, a
<1>4. \/ dlr'[c] = dlr[c] /\ ~(a.kind = dlr[c].ask /\ a.tid = dlr[c].asks)
      \/ /\ a.kind = dlr[c].ask /\ a.tid = dlr[c].asks
         /\ dlr'[c] = [st |-> dlr[c].st, n |-> dlr[c].n, asks |-> dlr[c].asks, ask |-> "none", id |-> v]
  <2>1. dlr' = [dlr EXCEPT ![c].ask = "none", ![c].id = v] =>
          dlr'[c] = [st |-> dlr[c].st, n |-> dlr[c].n, asks |-> dlr[c].asks, ask |-> "none", id |-> v]
    BY <1>1 DEF DialerStates
  <2> QED
    BY <1>3, <2>1
<1>5. \A x \in Dialers \ {c} : dlr'[x] = dlr[x]
  BY <1>1, <1>3
<1>6. /\ dlr'[c].st = dlr[c].st /\ dlr'[c].n = dlr[c].n /\ dlr'[c].asks = dlr[c].asks
      /\ \/ dlr'[c] = dlr[c] /\ ~(a.kind = dlr[c].ask /\ a.tid = dlr[c].asks)
         \/ a.kind = dlr[c].ask /\ a.tid = dlr[c].asks /\ dlr'[c].ask = "none" /\ dlr'[c].id = v
  BY <1>4
<1>7. \/ ~a.ok /\ v = dlr[c].id
      \/ a.ok /\ a.kind = "get" /\ v = a.id
      \/ a.ok /\ a.kind = "release" /\ v = NoOne
      \/ a.kind \notin {"get", "release"} /\ v = dlr[c].id
  <2>1. CASE ~a.ok
    BY <2>1 DEF v
  <2>2. CASE a.ok /\ a.kind = "get"
    BY <2>2 DEF v
  <2>3. CASE a.ok /\ a.kind = "release"
    BY <2>3 DEF v
  <2>4. CASE a.ok /\ a.kind \notin {"get", "release"}
    BY <2>4 DEF v
  <2> QED
    BY <2>1, <2>2, <2>3, <2>4
<1>8. a.kind = dlr[c].ask => a.kind \in {"none", "mux", "get", "release"}
  BY <1>1 DEF DialerStates, AskKinds
<1>9. a.kind # "none"
  BY <1>2 DEF Proper, Answers, MainKinds, AskKinds
<1>10. \/ dlr'[c] = dlr[c] /\ ~(a.kind = dlr[c].ask /\ a.tid = dlr[c].asks)
       \/ /\ a.kind = dlr[c].ask /\ a.tid = dlr[c].asks /\ dlr'[c].ask = "none"
          /\ \/ dlr'[c].id = dlr[c].id /\ (a.kind = "mux" \/ ~a.ok)
             \/ dlr'[c].id = a.id /\ a.kind = "get" /\ a.ok
             \/ dlr'[c].id = NoOne /\ a.kind = "release"
  BY <1>6, <1>7, <1>8, <1>9
<1> QED
  BY <1>1, <1>2, <1>5, <1>6, <1>10 DEF a

\* It hangs up, and nothing is on its way.
LEMMA CloseIs ==
  ASSUME Orderly, ProxyInv, NEW c \in Dialers, Close(c)
  PROVE  /\ dlr[c].st = "on" /\ dlr[c].ask = "none" /\ ~Pending(c) /\ up[c] = <<>>
         /\ dlr'[c].st = "closed" /\ dlr'[c].ask = "none" /\ dlr'[c].n = dlr[c].n
         /\ inbox'[c] = <<>>
         /\ \A x \in Dialers \ {c} : dlr'[x] = dlr[x] /\ inbox'[x] = inbox[x]
         /\ UNCHANGED <<loop, server, fd, list, ctlq, up, inq, outq, ids, plugged>>
<1>1. /\ dlr[c].st = "on" /\ dlr[c].ask = "none" /\ ~Pending(c) /\ up[c] = <<>>
      /\ dlr' = [dlr EXCEPT ![c].st = "closed", ![c].ask = "none"]
      /\ inbox' = [inbox EXCEPT ![c] = <<>>]
      /\ UNCHANGED <<loop, server, fd, list, ctlq, up, inq, outq, ids, plugged>>
  BY DEF Orderly, Close, DialerStep, proxyVars, modemVars
<1>2. dlr \in [Dialers -> DialerStates] /\ inbox \in [Dialers -> Seq(Answers)]
  BY DEF ProxyInv, DialerType, DialerStates
<1>3. dlr'[c].st = "closed" /\ dlr'[c].ask = "none" /\ dlr'[c].n = dlr[c].n
      /\ \A x \in Dialers \ {c} : dlr'[x] = dlr[x]
  BY <1>1, <1>2 DEF DialerStates
<1> QED
  BY <1>1, <1>2, <1>3

\* Who has hung up waits for nothing, and descriptors are not shared.
LEMMA ConnectionsStep ==
  ASSUME Orderly, ProxyInv, Next PROVE Connections'
<1> USE DEF mainVars, answerVars, proxyVars, dialerVars, modemVars
<1>0. Connections /\ Phase /\ Idle /\ QueueType
  BY DEF ProxyInv
<1>a. ASSUME UNCHANGED <<fd, dlr, up, inbox, ctlq, server>>, Serving' => Serving PROVE Connections'
  BY <1>0, <1>a DEF Connections
<1>1. CASE Open \/ InitSend
  BY <1>0, <1>1 DEF Open, InitSend, Phase, Connections, Serving
<1>2. CASE InitNext \/ InitTimeout
  <2>1. pc = "init" /\ UNCHANGED <<loop, fd, dlr, up, inbox, ctlq>>
    BY <1>2 DEF InitNext, InitTimeout
  <2>2. Serving' => ctlq' = <<>>
    BY <1>0, <2>1 DEF Phase, Idle, Serving, Active
  <2>3. DOMAIN <<>> = {}
    OBVIOUS
  <2> QED
    BY <1>0, <2>1, <2>2, <2>3 DEF Connections
<1>3. CASE Join
  <2>1. /\ ~Serving' /\ UNCHANGED <<fd, up, inbox>>
        /\ dlr' = [c \in Dialers |-> IF dlr[c].st = "queued" THEN [Off EXCEPT !.n = dlr[c].n] ELSE dlr[c]]
    BY <1>3 DEF Join, Serving
  <2>2. \A c \in Dialers : dlr'[c] = dlr[c] \/ (dlr[c].st = "queued" /\ dlr'[c].st = "off")
    <3>1. \A c \in Dialers : [Off EXCEPT !.n = dlr[c].n].st = "off"
      BY DEF Off
    <3> QED
      BY <2>1, <3>1
  <2> QED
    BY <1>0, <2>1, <2>2 DEF Connections
<1>4. CASE Sigint
  BY <1>4, <1>a DEF Sigint, Serving
<1>5. ASSUME NEW c \in Dialers, Accept(c) PROVE Connections'
  <2>1. /\ Serving /\ fd'[c] # 0 /\ (\A x \in Dialers : fd[x] # fd'[c])
        /\ (\A x \in Dialers \ {c} : fd'[x] = fd[x] /\ dlr'[x] = dlr[x])
        /\ dlr'[c].st = "on" /\ dlr[c].st = "queued"
    BY <1>5, AcceptIs
  <2>2. UNCHANGED <<up, inbox, ctlq>>
    BY <1>5 DEF Accept
  <2> QED
    BY <1>0, <2>1, <2>2 DEF Connections
<1>6. ASSUME NEW c \in Dialers, Cleanup(c) PROVE Connections'
  <2>1. /\ Serving /\ fd'[c] = 0 /\ dlr'[c].st = "off"
        /\ (\A x \in Dialers \ {c} : fd'[x] = fd[x] /\ dlr'[x] = dlr[x])
        /\ UNCHANGED <<ctlq, up, inbox>> /\ up[c] = <<>> /\ inbox[c] = <<>>
    BY <1>6, CleanupIs
  <2> QED
    BY <1>0, <2>1 DEF Connections
<1>7. ASSUME NEW c \in Dialers, SendQmi(c) PROVE Connections'
  <2> DEFINE q == [fd |-> fd[c], qmi |-> Head(up[c])]
             L == [fd : Fds, qmi : Requests]
  <2>1. /\ Serving /\ ctlq \in Seq(L) /\ q \in L
        /\ ctlq' = ctlq \/ ctlq' = Append(ctlq, q)
    BY <1>7, SendQmiIs
  <2>2. /\ fd[c] # 0 /\ dlr[c].st # "closed" /\ up[c] # <<>> /\ up' = [up EXCEPT ![c] = Tail(@)]
        /\ UNCHANGED <<fd, dlr, inbox>>
    BY <1>7 DEF SendQmi
  <2>3. dlr[c].st = "on"
    BY <1>0, <2>2 DEF Connections
  <2>4. \A x \in Dialers : dlr[x].st # "on" => up'[x] = up[x]
    BY <2>2, <2>3 DEF ProxyInv, DialerType
  <2>5. q.fd = fd[c]
    OBVIOUS
  <2> HIDE DEF q, L
  <2>6. \A i \in DOMAIN ctlq' : (i \in DOMAIN ctlq /\ ctlq'[i] = ctlq[i]) \/ ctlq'[i].fd = fd[c]
    <3>1. ctlq' = Append(ctlq, q) =>
            \A i \in DOMAIN ctlq' : (i \in DOMAIN ctlq /\ ctlq'[i] = ctlq[i]) \/ ctlq'[i] = q
      BY <2>1, AppendIs
    <3> QED
      BY <2>1, <2>5, <3>1
  <2> QED
    BY <1>0, <2>1, <2>2, <2>3, <2>4, <2>6 DEF Connections
<1>8. CASE RecvInit \/ Tick
  BY <1>8, <1>a DEF RecvInit, Tick, Round, Serving
<1>9. CASE RecvCtl \/ RecvMux
  <2>1. Serving /\ UNCHANGED <<fd, dlr, up>>
    BY <1>9 DEF RecvCtl, RecvMux, Running, Serving
  <2>2. \A c \in Dialers : inbox'[c] = inbox[c] \/ dlr[c].st = "on"
    BY <1>9, ForwardIs
  <2>3. \A i \in DOMAIN ctlq' : \E k \in DOMAIN ctlq : ctlq'[i] = ctlq[k]
    <3> DEFINE L == [fd : Fds, qmi : Requests]
    <3>1. ctlq' = ctlq \/ (ctlq' = Tail(ctlq) /\ ctlq # <<>>)
      BY <1>9 DEF RecvCtl, RecvMux, IsReply
    <3>2. ctlq \in Seq(L)
      BY <1>0, <2>1 DEF QueueType
    <3> HIDE DEF L
    <3>3. ctlq # <<>> => \A i \in DOMAIN Tail(ctlq) : i + 1 \in DOMAIN ctlq /\ Tail(ctlq)[i] = ctlq[i + 1]
      BY <3>2, RestIs
    <3> QED
      BY <3>1, <3>3
  <2> QED
    BY <1>0, <2>1, <2>2, <2>3 DEF Connections
<1>10. CASE LoopExit \/ Killed
  <2>1. PICK C \in SUBSET Dialers :
        /\ fd' = [c \in Dialers |-> 0] /\ ~Serving' /\ \A c \in Dialers \ C : fd[c] = 0
        /\ dlr' = [c \in Dialers |-> IF c \in C THEN [Off EXCEPT !.n = dlr[c].n] ELSE dlr[c]]
        /\ up' = [c \in Dialers |-> IF c \in C THEN <<>> ELSE up[c]]
        /\ inbox' = [c \in Dialers |-> IF c \in C THEN <<>> ELSE inbox[c]]
    BY <1>10, EndIs
  <2>2. \A c \in Dialers : [Off EXCEPT !.n = dlr[c].n].st = "off"
    BY DEF Off
  <2>3. \A c \in Dialers :
          /\ dlr'[c].st \notin {"on", "closed"} /\ fd'[c] = 0
          /\ up'[c] = <<>> /\ inbox'[c] = <<>>
    BY <1>0, <2>1, <2>2 DEF Connections
  <2> QED
    BY <2>1, <2>3 DEF Connections
<1>11. ASSUME NEW c \in Dialers, Connect(c) PROVE Connections'
  BY <1>0, <1>11, ConnectIs DEF Connections, Serving
<1>12. ASSUME NEW c \in Dialers, Ask(c) PROVE Connections'
  <2>1. /\ dlr[c].st = "on" /\ dlr'[c].st = "on"
        /\ (\A x \in Dialers \ {c} : dlr'[x] = dlr[x] /\ up'[x] = up[x])
        /\ UNCHANGED <<loop, server, fd, ctlq, inbox>>
    <3>1. PICK k \in Asking(c) :
          LET m == [kind |-> k, who |-> Who(c), id |-> Holds(c), tid |-> dlr[c].asks + 1] IN
          /\ dlr[c].st = "on"
          /\ dlr'[c] = [st |-> "on", n |-> dlr[c].n, asks |-> dlr[c].asks + 1, ask |-> k, id |-> Holds(c)]
          /\ \A x \in Dialers \ {c} : dlr'[x] = dlr[x] /\ up'[x] = up[x]
          /\ UNCHANGED <<loop, server, fd, list, ctlq, inbox, inq, outq, ids, plugged>>
      BY <1>12, AskIs
    <3> QED
      BY <3>1
  <2> QED
    BY <1>0, <2>1 DEF Connections, Serving
<1>13. ASSUME NEW c \in Dialers, Receive(c) PROVE Connections'
  <2>1. /\ inbox[c] # <<>> /\ (\A x \in Dialers \ {c} : dlr'[x] = dlr[x] /\ inbox'[x] = inbox[x])
        /\ dlr'[c].st = dlr[c].st /\ UNCHANGED <<loop, server, fd, ctlq, up>>
    BY <1>13, ReceiveIs
  <2> QED
    BY <1>0, <2>1 DEF Connections, Serving
<1>14. ASSUME NEW c \in Dialers, Close(c) PROVE Connections'
  <2>1. /\ dlr[c].st = "on" /\ ~Pending(c) /\ up[c] = <<>> /\ dlr'[c].st = "closed" /\ inbox'[c] = <<>>
        /\ \A x \in Dialers \ {c} : dlr'[x] = dlr[x] /\ inbox'[x] = inbox[x]
        /\ UNCHANGED <<loop, server, fd, ctlq, up>>
    BY <1>14, CloseIs
  <2> QED
    BY <1>0, <2>1 DEF Connections, Serving, Pending
<1>15. CASE Serve \/ Mute \/ Indicate \/ Unplug \/ Replug
  BY <1>15, <1>a DEF Serve, Mute, Indicate, Unplug, Replug, ModemStep, Serving
<1> QED
  BY <1>1, <1>2, <1>3, <1>4, <1>5, <1>6, <1>7, <1>8, <1>9, <1>10, <1>11, <1>12, <1>13, <1>14, <1>15
  DEF Next, MainAct, LoopAct, DialerAct

-----------------------------------------------------------------------------
(* The server is set up, and asks one thing at a time.                      *)

\* When the init is done the modem has the data format.
LEMMA InitIsRealStep ==
  ASSUME Orderly, ProxyInv, Next, Phase' PROVE InitIsReal'
<1> USE DEF mainVars, answerVars, proxyVars, dialerVars, modemVars
<1>0. InitIsReal /\ Phase /\ InitType /\ Setup /\ Traffic /\ Idle
  BY DEF ProxyInv
<1> SUFFICES ASSUME Serving', init'.step = Done, plugged' PROVE format'
  BY DEF InitIsReal
<1>a. ASSUME Serving, UNCHANGED <<init, plugged, format>> PROVE format'
  BY <1>0, <1>a DEF InitIsReal
<1>1. CASE Open \/ InitSend \/ Join \/ LoopExit \/ Killed \/ Replug
  BY <1>0, <1>1 DEF Open, InitSend, Join, LoopExit, Killed, Replug, Phase, Serving
<1>2. CASE InitNext
  <2>1. /\ pc = "init" /\ rsq # None /\ UNCHANGED <<loop, plugged, format>>
    BY <1>2 DEF InitNext
  <2>2. Active /\ pc' # "init"
    BY <2>1 DEF Active, Serving, Phase
  <2> DEFINE next == [init EXCEPT !.step = @ + 1, !.tid = @ + 1,
                                  !.own = @ /\ rsq.kind = Steps[init.step]]
  <2>3. PICK ok \in Accepts :
         CASE ~ok -> Again
           [] ok /\ next.step < Done -> init' = next /\ UNCHANGED <<pc, server>>
           [] OTHER -> init' = [Start EXCEPT !.step = Done] /\ pc' = "serve" /\ server' = TRUE
    BY <1>2 DEF InitNext
  <2>4. ok /\ ~(next.step < Done)
    <3>1. CASE ~ok
      <4>1. Again
        BY <2>3, <3>1
      <4>2. init'.step = 1
        BY <4>1, StartIs DEF Again, Start
      <4>3. Done # 1
        BY StepsAre
      <4> HIDE DEF next
      <4> QED
        BY <4>2, <4>3
    <3>2. CASE ok /\ next.step < Done
      BY <2>1, <2>2, <2>3, <3>2
    <3> QED
      BY <3>1, <3>2
  <2>5. next.step = init.step + 1 /\ init.step \in 1..4
    BY <1>0, <2>1, StepsAre DEF InitType
  <2>6. init.step = 4
    BY <2>4, <2>5, StepsAre
  <2>7. rsq.kind = "format"
    BY <1>0, <2>1, <2>2, <2>6, StepsAre DEF Setup
  <2>8. ok = rsq.ok
    BY <2>6, <2>7, StepsAre DEF Accepts
  <2> QED
    BY <1>0, <2>1, <2>2, <2>4, <2>7, <2>8 DEF Setup
<1>3. CASE InitTimeout
  <2>1. Again \/ UNCHANGED <<pc, server>>
    BY <1>3 DEF InitTimeout
  <2>2. CASE Again
    BY <2>2, StartIs, StepsAre DEF Again, Start
  <2>3. CASE UNCHANGED <<pc, server>>
    BY <1>0, <1>3, <2>3 DEF InitTimeout, Phase, Serving
  <2> QED
    BY <2>1, <2>2, <2>3
<1>4. CASE Sigint
  BY <1>4, <1>a DEF Sigint, Serving
<1>5. CASE (\E c \in Dialers : Accept(c) \/ Cleanup(c) \/ SendQmi(c)) \/ RecvCtl \/ RecvMux
  <2>1. Running /\ Round /\ UNCHANGED <<plugged, format>>
    BY <1>5 DEF Accept, Cleanup, SendQmi, RecvCtl, RecvMux
  <2> QED
    BY <1>a, <2>1 DEF Running, Round, Serving
<1>6. CASE RecvInit \/ Tick
  BY <1>6 DEF RecvInit, Tick, Round, Serving
<1>7. CASE DialerAct
  <2>1. UNCHANGED <<init, plugged, format, loop, server>>
    BY <1>7 DEF DialerAct, Connect, Ask, Receive, Close, DialerStep
  <2> QED
    BY <1>a, <2>1 DEF Serving
<1>8. CASE Serve
  <2>1. 1 \in DOMAIN inq /\ inq # <<>> /\ inq \in Seq(MainRequests \union Requests)
    BY <1>8, ServeIs DEF ProxyInv, QueueType
  <2>2. Head(inq) = inq[1]
    <3> DEFINE S == MainRequests \union Requests
    <3>1. inq \in Seq(S)
      BY <2>1
    <3> HIDE DEF S
    <3> QED
      BY <2>1, <3>1, TailIs
  <2>3. Serving /\ UNCHANGED <<init, plugged>>
    BY <1>8 DEF Serve, ModemStep, Serving
  <2>4. Head(inq).kind # "format"
    BY <1>0, <2>1, <2>2, <2>3 DEF Traffic, AskKinds
  <2>5. format' = format
    BY <1>8, <2>4 DEF Serve
  <2> QED
    BY <1>a, <2>3, <2>5
<1>9. CASE Mute \/ Indicate
  BY <1>9, <1>a DEF Mute, Indicate, ModemStep, Serving
<1>10. CASE Unplug
  BY <1>10 DEF Unplug
<1> QED
  BY <1>1, <1>2, <1>3, <1>4, <1>5, <1>6, <1>7, <1>8, <1>9, <1>10
  DEF Next, MainAct, LoopAct

\* The control service has one request.
LEMMA OneRequestIs ==
  ASSUME ProxyInv PROVE OneRequest
<1> SUFFICES ASSUME Serving PROVE OneRequest
  BY DEF OneRequest
<1> DEFINE q == inq \o outq
           ctl == {i \in DOMAIN q : IsCtl(q[i])}
           n == Len(inq)
<1>1. Traffic /\ inq \in Seq(MainRequests \union Requests) /\ outq \in Seq(Answers)
  BY DEF ProxyInv, QueueType
<1>2. /\ DOMAIN q = 1..(n + Len(outq)) /\ DOMAIN inq = 1..n /\ DOMAIN outq = 1..Len(outq)
      /\ n \in Nat /\ Len(outq) \in Nat
      /\ \A i \in 1..n : q[i] = inq[i]
      /\ \A i \in (n + 1)..(n + Len(outq)) : q[i] = outq[i - n]
  <2> DEFINE S == MainRequests \union Requests \union Answers
  <2>1. inq \in Seq(S) /\ outq \in Seq(S)
    BY <1>1
  <2> HIDE DEF S
  <2> QED
    BY <2>1
<1>3. \A i \in DOMAIN q :
        \/ i \in DOMAIN inq /\ q[i] = inq[i]
        \/ i - n \in DOMAIN outq /\ q[i] = outq[i - n] /\ i \in Int
  BY <1>2
<1> HIDE DEF q
<1>4. ASSUME NEW i \in ctl PROVE ctlq # <<>> /\ q[i].who = ctlq[1].qmi.who
  BY <1>1, <1>3 DEF Traffic, IsFirst
<1>5. ASSUME NEW i \in ctl, NEW j \in ctl PROVE i = j
  <2>1. CASE i \in DOMAIN inq /\ q[i] = inq[i]
    BY <1>1, <1>3, <2>1 DEF Traffic
  <2>2. CASE i - n \in DOMAIN outq /\ q[i] = outq[i - n] /\ i \in Int
    <3>1. j - n \in DOMAIN outq /\ q[j] = outq[j - n] /\ j \in Int
      BY <1>1, <1>3, <2>2 DEF Traffic
    <3>2. i - n = j - n
      BY <1>1, <2>2, <3>1 DEF Traffic
    <3> QED
      BY <1>2, <2>2, <3>1, <3>2
  <2> QED
    BY <1>3, <2>1, <2>2
<1>6. \A i \in ctl : ctl = {i} /\ ctlq # <<>> /\ q[i].who = ctlq[1].qmi.who
  BY <1>4, <1>5
<1> QED
  BY <1>6 DEF OneRequest, q

\* The invariant holds at first.
LEMMA ProxyInit == Init => ProxyInv
<1> SUFFICES ASSUME Init PROVE ProxyInv
  OBVIOUS
<1>0. DOMAIN <<>> = {} /\ \A S : <<>> \in Seq(S)
  OBVIOUS
<1>1. MainType /\ InitType
  <2>1. pc = "open" /\ init = Start /\ wait = FALSE /\ rsq = None /\ loop = "none" /\ quit = FALSE
        /\ server = FALSE /\ plugged = TRUE /\ format = FALSE /\ conns = 0 /\ faults = 0
    BY DEF Init
  <2>2. MainType
    <3>1. MaxConns \in Nat /\ MaxFaults \in Nat
      BY ProxyAssumption
    <3>2. conns \in 0..MaxConns /\ faults \in 0..MaxFaults
      BY <2>1, <3>1
    <3>3. {wait, quit, server, plugged, format} \subseteq BOOLEAN
      BY <2>1
    <3> QED
      BY <2>1, <3>2, <3>3 DEF MainType
  <2>3. None \in [kind : {"none"} \union MainKinds \union AskKinds, ok : BOOLEAN]
    BY DEF None
  <2>4. InitType
    BY <2>1, <2>3, StartIs DEF InitType
  <2> QED
    BY <2>2, <2>4
<1>2. DialerType
  <2>1. Off \in DialerStates
    BY ProxyAssumption DEF Init, Off, DialerStates
  <2>2. dlr \in [Dialers -> DialerStates]
    BY <2>1 DEF Init
  <2>3. up \in [Dialers -> Seq(Requests)] /\ inbox \in [Dialers -> Seq(Answers)]
        /\ \A c \in Dialers : inbox[c] = <<>>
    BY <1>0 DEF Init
  <2> QED
    BY <1>0, <2>2, <2>3 DEF DialerType, DialerStates
<1>3. QueueType
  <2>1. inq = <<>> /\ outq = <<>> /\ ctlq = <<>>
        /\ fd \in [Dialers -> {0} \union Fds] /\ list \in [Fds -> SUBSET Ids]
        /\ ids \in [Ids -> Whos \union {NoOne}]
    BY DEF Init
  <2> QED
    BY <1>0, <2>1 DEF QueueType
<1>4. Phase /\ Idle
  BY <1>0 DEF Init, Phase, Idle, Active, Serving
<1>5. Setup /\ Traffic /\ InitIsReal
  BY DEF Init, Setup, Active, Traffic, InitIsReal, Serving
<1>6. Connections
  BY DEF Init, Off, Connections, Serving
<1> QED
  BY <1>1, <1>2, <1>3, <1>4, <1>5, <1>6 DEF ProxyInv

\* Every step of the system keeps it.
LEMMA ProxyStep == ASSUME Orderly, ProxyInv, Next PROVE ProxyInv'
<1>1. MainType' /\ InitType'
  BY MainTypes, OtherTypes DEF Next
<1>2. DialerType'
  <2>1. CASE LoopAct
    BY <2>1, LoopDialerTypes
  <2>2. CASE DialerAct \/ Join
    BY <2>2, DialerTypes
  <2>3. CASE Open \/ InitSend \/ InitNext \/ InitTimeout \/ Sigint \/ Serve \/ Mute \/ Indicate \/ Unplug \/ Replug
    <3>1. UNCHANGED <<conns, dlr, up, inbox>>
      BY <2>3 DEF Open, InitSend, InitNext, InitTimeout, Sigint, Serve, Mute, Indicate, ModemStep, Unplug,
         Replug, dialerVars
    <3> QED
      BY <3>1 DEF ProxyInv, DialerType, Proper
  <2> QED
    BY <2>1, <2>2, <2>3 DEF Next, MainAct
<1>3. QueueType' /\ Phase' /\ Idle' /\ Connections'
  BY QueueTypes, PhaseStep, IdleStep, ConnectionsStep
<1>4. Setup' /\ Traffic' /\ InitIsReal'
  BY <1>1, <1>3, SetupStep, TrafficStep, InitIsRealStep
<1> QED
  BY <1>1, <1>2, <1>3, <1>4 DEF ProxyInv

\* And so does a step of the environment of the system.
LEMMA ProxyStutter == ASSUME ProxyInv, UNCHANGED vars PROVE ProxyInv'
<1> USE DEF vars, proxyVars, mainVars, answerVars, dialerVars, modemVars
<1>1. UNCHANGED <<pc, init, wait, rsq, loop, quit, server, fd, list, ctlq, conns, dlr, up, inbox,
          plugged, ids, inq, outq, format, faults>>
  OBVIOUS
<1>2. MainType' /\ InitType' /\ DialerType' /\ QueueType'
  BY <1>1 DEF ProxyInv, MainType, InitType, DialerType, QueueType, Proper, Serving
<1>3. Phase' /\ Idle' /\ Traffic' /\ Connections' /\ InitIsReal'
  BY <1>1 DEF ProxyInv, Phase, Idle, Active, IsInd, Traffic, IsFirst, IsCtl, Connections, InitIsReal, Serving
<1>4. Setup'
  BY <1>1 DEF ProxyInv, Setup, Active, IsInd, IsMine
<1> QED
  BY <1>2, <1>3, <1>4 DEF ProxyInv

\* What is true of the server in every reachable state.
THEOREM ProxyIsSafe ==
  ASSUME Orderly PROVE Spec => []ProxySafe
<1>1. Init => ProxyInv
  BY ProxyInit
<1>2. ProxyInv /\ [Next]_vars => ProxyInv'
  BY ProxyStep, ProxyStutter
<1>3. ProxyInv => ProxySafe
  BY OneRequestIs, TypesAreOK DEF ProxyInv, Types, ProxySafe
<1> QED
  BY <1>1, <1>2, <1>3, PTL DEF Spec

-----------------------------------------------------------------------------
(* Facts about the order of messages.                                       *)

\* The order is one of connection, number and kind.
LEMMA SamePlace ==
  ASSUME NEW m, NEW x, m.kind = x.kind, m.tid = x.tid, m.who = x.who
  PROVE  \A y : (Precedes(m, y) <=> Precedes(x, y)) /\ (Precedes(y, m) <=> Precedes(y, x))
BY DEF Precedes, IsCtl

\* Messages of different connections, and indications, have no order.
LEMMA Apart ==
  ASSUME NEW m, NEW x, m.who # x.who \/ m.who = NoOne \/ x.who = NoOne
  PROVE  Precedes(m, x) /\ Precedes(x, m)
BY DEF Precedes

\* The rest of a sorted queue is sorted, and behind the first.
LEMMA SortedTail ==
  ASSUME NEW S, NEW q \in Seq(S), q # <<>>, Sorted(q)
  PROVE  Sorted(Tail(q)) /\ \A i \in DOMAIN Tail(q) : Precedes(q[1], Tail(q)[i])
<1>1. /\ \A i \in DOMAIN Tail(q) : i + 1 \in DOMAIN q /\ Tail(q)[i] = q[i + 1]
      /\ \A i, j \in DOMAIN Tail(q) : (i < j <=> i + 1 < j + 1) /\ 1 < i + 1
      /\ 1 \in DOMAIN q
  BY RestIs
<1> QED
  BY <1>1 DEF Sorted

\* A queue stays sorted when what is added is behind it.
LEMMA SortedAppend ==
  ASSUME NEW S, NEW q \in Seq(S), NEW m \in S, Sorted(q), \A i \in DOMAIN q : Precedes(q[i], m)
  PROVE  Sorted(Append(q, m))
<1>1. \A i \in DOMAIN Append(q, m) :
        \/ i \in DOMAIN q /\ Append(q, m)[i] = q[i] /\ i < Len(q) + 1 /\ ~(Len(q) + 1 < i)
        \/ i = Len(q) + 1 /\ Append(q, m)[i] = m /\ ~(i < i)
  <2>1. \A i \in 1..Len(q) : i < Len(q) + 1 /\ ~(Len(q) + 1 < i)
    OBVIOUS
  <2>2. DOMAIN q = 1..Len(q) /\ ~(Len(q) + 1 < Len(q) + 1)
    OBVIOUS
  <2> QED
    BY <2>1, <2>2, AppendIs
<1> QED
  BY <1>1 DEF Sorted

\* What is ahead of a queue is ahead of its rest, and of what is behind.
LEMMA AheadTail ==
  ASSUME NEW S, NEW p \in Seq(S), p # <<>>, NEW q
  PROVE  /\ Ahead(p, q) => Ahead(Tail(p), q) /\ \A j \in DOMAIN q : Precedes(p[1], q[j])
         /\ Ahead(q, p) => Ahead(q, Tail(p)) /\ \A j \in DOMAIN q : Precedes(q[j], p[1])
<1>1. /\ \A i \in DOMAIN Tail(p) : i + 1 \in DOMAIN p /\ Tail(p)[i] = p[i + 1]
      /\ 1 \in DOMAIN p
  BY RestIs
<1> QED
  BY <1>1 DEF Ahead

\* And so for what is added.
LEMMA AheadAppend ==
  ASSUME NEW S, NEW p \in Seq(S), NEW m \in S, NEW q
  PROVE  /\ Ahead(p, q) /\ (\A j \in DOMAIN q : Precedes(m, q[j])) => Ahead(Append(p, m), q)
         /\ Ahead(q, p) /\ (\A j \in DOMAIN q : Precedes(q[j], m)) => Ahead(q, Append(p, m))
<1>1. \A i \in DOMAIN Append(p, m) :
        (i \in DOMAIN p /\ Append(p, m)[i] = p[i]) \/ Append(p, m)[i] = m
  BY AppendIs
<1> QED
  BY <1>1 DEF Ahead

\* The names of connections.
LEMMA WhoIs ==
  ASSUME ProxyInv, NEW c \in Dialers
  PROVE  Who(c) \in Whos /\ Who(c) # NoOne /\ \A x \in Dialers : Who(c) = Who(x) => c = x
<1>1. dlr[c].n \in 0..MaxConns
  BY ProxyAssumption DEF ProxyInv, MainType, DialerType
<1>2. Who(c) \in Dialers \X (0..MaxConns)
  BY <1>1 DEF Who
<1> QED
  BY <1>2, ProxyAssumption DEF Who, Whos

Messages == MainRequests \union Requests \union Answers

\* The queues hold messages.
LEMMA QueuesAre ==
  ASSUME ProxyInv
  PROVE  /\ inq \in Seq(Messages) /\ outq \in Seq(Messages)
         /\ \A c \in Dialers : up[c] \in Seq(Messages) /\ inbox[c] \in Seq(Messages)
         /\ Serving => ctlq \in Seq([fd : Fds, qmi : Requests])
         /\ MainRequests \union Requests \subseteq Messages /\ Answers \subseteq Messages
<1>1. MainRequests \union Requests \subseteq Messages /\ Answers \subseteq Messages /\ Requests \subseteq Messages
  BY DEF Messages
<1>2. \A S, T, q : S \subseteq T /\ q \in Seq(S) => q \in Seq(T)
  OBVIOUS
<1>3. /\ inq \in Seq(MainRequests \union Requests) /\ outq \in Seq(Answers)
      /\ \A c \in Dialers : up[c] \in Seq(Requests) /\ inbox[c] \in Seq(Answers)
      /\ Serving => ctlq \in Seq([fd : Fds, qmi : Requests])
  BY DEF ProxyInv, QueueType, DialerType
<1> HIDE DEF MainRequests, Requests, Answers, Messages
<1> QED
  BY <1>1, <1>2, <1>3

\* A connection is of one dialer.
LEMMA OwnerIs ==
  ASSUME ProxyInv, NEW c \in Dialers, fd[c] # 0
  PROVE  c \in Connected /\ Live(fd[c]) /\ Owner(fd[c]) = c /\ fd[c] \in Fds
         /\ \A x \in Dialers : fd[x] = fd[c] => x = c
<1>1. c \in Connected /\ Live(fd[c]) /\ fd[c] \in Fds
  BY DEF Connected, Live, ProxyInv, QueueType
<1>2. \A x \in Dialers : fd[x] = fd[c] => x = c
  BY DEF ProxyInv, Connections
<1>3. \A x \in Connected : fd[x] = fd[c] => x = c
  BY <1>2 DEF Connected
<1>4. Owner(fd[c]) \in Connected /\ fd[Owner(fd[c])] = fd[c]
  BY <1>1 DEF Owner
<1> QED
  BY <1>1, <1>2, <1>3, <1>4

-----------------------------------------------------------------------------
(* The steps of the system keep the invariant behind AnswersFindOwner.      *)

\* What does not touch the dialers and their lists.
LEMMA Unmoved ==
  ASSUME OwnerInv, UNCHANGED <<dlr, inbox, fd, list>>
  PROVE  Delivered' /\ Lists' /\ Fresh'
<1>1. \A c : Who(c)' = Who(c) /\ Holds(c)' = Holds(c)
  BY DEF Who, Holds
<1>2. Connected' = Connected /\ \A f : Live(f)' <=> Live(f)
  BY DEF Connected, Live
<1>3. Delivered'
  BY <1>1 DEF OwnerInv, Delivered, IsInd
<1>4. Lists'
  BY <1>1, <1>2 DEF OwnerInv, Lists
<1> QED
  BY <1>3, <1>4 DEF OwnerInv, Fresh

\* The modem answers a request of a dialer.
LEMMA ServeOwner ==
  ASSUME OwnerInv, Serve, Serving
  PROVE  Order' /\ CtlOrder' /\ Owned' /\ Known'
<1>0. ProxyInv /\ Order /\ CtlOrder /\ Owned /\ Lists /\ Known /\ Traffic
  BY DEF OwnerInv, ProxyInv
<1>1. /\ inq # <<>> /\ inq' = Tail(inq) /\ 1 \in DOMAIN inq
      /\ \A i \in DOMAIN inq' : i + 1 \in DOMAIN inq /\ i + 1 # 1 /\ inq'[i] = inq[i + 1]
      /\ UNCHANGED <<loop, server, ctlq, fd, list, dlr, up, inbox, plugged>> /\ plugged
  BY <1>0, ServeIs
<1>2. PICK e \in Effects(inq[1]) :
        /\ Proper(e[1]) /\ e[1].kind = inq[1].kind /\ e[1].tid = inq[1].tid /\ e[1].who = inq[1].who
        /\ outq' = Append(outq, e[1]) /\ ids' = e[2]
        /\ \A i \in DOMAIN outq' :
             \/ i \in DOMAIN outq /\ outq'[i] = outq[i]
             \/ i = Len(outq) + 1 /\ i \notin DOMAIN outq /\ outq'[i] = e[1]
  BY <1>0, ServeIs
<1> DEFINE m == inq[1]
           a == e[1]
<1>q. /\ inq \in Seq(Messages) /\ outq \in Seq(Messages) /\ m \in MainRequests \union Requests
      /\ \A c \in Dialers : up[c] \in Seq(Messages) /\ inbox[c] \in Seq(Messages)
      /\ a \in Messages /\ ids \in [Ids -> Whos \union {NoOne}]
  BY <1>0, <1>2, QueuesAre, ServeIs DEF Proper, ProxyInv, QueueType
<1>3. /\ Proper(a) /\ a.kind = m.kind /\ a.tid = m.tid /\ a.who = m.who
      /\ (m.kind = "mux" => a.id = m.id /\ ids' = ids)
      /\ (m.kind = "get" =>
            \/ ~a.ok /\ ids' = ids
            \/ a.ok /\ a.id \in Free /\ ids' = [ids EXCEPT ![a.id] = m.who])
      /\ (m.kind = "release" => a.id = m.id /\ ids' = [ids EXCEPT ![m.id] = NoOne])
      /\ outq' = Append(outq, a)
  <2>1. e \in Effects(m) /\ m \in MainRequests \union Requests /\ ids \in [Ids -> Whos \union {NoOne}]
    BY <1>2, <1>q
  <2>2. ids' = e[2] /\ outq' = Append(outq, e[1])
    BY <1>2
  <2> HIDE DEF m, MainRequests, Requests
  <2>3. /\ Proper(e[1]) /\ e[1].kind = m.kind /\ e[1].tid = m.tid /\ e[1].who = m.who
        /\ (m.kind = "mux" => e[1].id = m.id /\ e[2] = ids)
        /\ (m.kind = "get" =>
              \/ ~e[1].ok /\ e[2] = ids
              \/ e[1].ok /\ e[1].id \in Free /\ e[2] = [ids EXCEPT ![e[1].id] = m.who])
        /\ (m.kind = "release" => e[1].id = m.id /\ e[2] = [ids EXCEPT ![m.id] = NoOne])
    BY <2>1, EffectIs
  <2> QED
    BY <2>2, <2>3
<1>4. /\ \A i \in DOMAIN outq' : (i \in DOMAIN outq /\ outq'[i] = outq[i]) \/ outq'[i] = a
      /\ \A i \in DOMAIN outq : i \in DOMAIN outq' /\ outq'[i] = outq[i]
      /\ \E i \in DOMAIN outq' : outq'[i] = a
  <2> HIDE DEF a, Messages
  <2> QED
    BY <1>q, <1>3, AppendIs
<1>5. \A y : (Precedes(m, y) <=> Precedes(a, y)) /\ (Precedes(y, m) <=> Precedes(y, a))
  BY <1>3, SamePlace
<1>6. m.kind \in AskKinds /\ (IsCtl(m) <=> IsCtl(a)) /\ (m.kind # "mux" => IsCtl(m))
  BY <1>0, <1>1, <1>3 DEF Traffic, IsCtl, AskKinds
<1>p. PICK p \in Dialers : OwnMessage(m, p)
  BY <1>0, <1>1 DEF Owned
<1>o. \A c : Who(c)' = Who(c) /\ Holds(c)' = Holds(c)
  BY <1>1 DEF Who, Holds
<1>w. \A x : \A c \in Dialers : OwnMessage(x, c) => OwnMessage(x, c)'
  BY <1>1, <1>o DEF OwnMessage, Of
<1>s. Serving'
  BY <1>1 DEF Serving
<1> HIDE DEF a, m, Messages
<1>7. Order'
  <2>1. Sorted(outq) /\ Sorted(inq) /\ Ahead(outq, inq)
        /\ \A c \in Dialers :
             /\ Sorted(inbox[c]) /\ Sorted(up[c])
             /\ Ahead(inbox[c], outq) /\ Ahead(inbox[c], inq) /\ Ahead(inbox[c], up[c])
             /\ Ahead(outq, up[c]) /\ Ahead(inq, up[c])
    BY <1>0 DEF Order
  <2>2. Sorted(Tail(inq)) /\ \A i \in DOMAIN Tail(inq) : Precedes(a, Tail(inq)[i])
    BY <1>1, <1>5, <1>q, <2>1, SortedTail DEF m
  <2>3. Ahead(outq, Tail(inq)) /\ \A i \in DOMAIN outq : Precedes(outq[i], a)
    BY <1>1, <1>5, <1>q, <2>1, AheadTail DEF m
  <2>4. Sorted(outq') /\ Ahead(outq', inq')
    BY <1>1, <1>3, <1>q, <2>1, <2>2, <2>3, SortedAppend, AheadAppend
  <2>5. ASSUME NEW c \in Dialers
        PROVE  Ahead(inbox[c], outq') /\ Ahead(inbox[c], inq') /\ Ahead(outq', up[c]) /\ Ahead(inq', up[c])
    <3>1. Ahead(inbox[c], Tail(inq)) /\ \A i \in DOMAIN inbox[c] : Precedes(inbox[c][i], a)
      BY <1>1, <1>5, <1>q, <2>1, AheadTail DEF m
    <3>2. Ahead(Tail(inq), up[c]) /\ \A i \in DOMAIN up[c] : Precedes(a, up[c][i])
      BY <1>1, <1>5, <1>q, <2>1, AheadTail DEF m
    <3> QED
      BY <1>1, <1>3, <1>q, <2>1, <3>1, <3>2, AheadAppend
  <2> QED
    BY <1>1, <2>1, <2>2, <2>4, <2>5 DEF Order
<1>8. CtlOrder'
  <2>1. \A i \in DOMAIN outq', k \in DOMAIN ctlq : ~IsCtl(outq'[i]) => Precedes(outq'[i], ctlq[k].qmi)
    BY <1>0, <1>1, <1>4, <1>5, <1>6 DEF CtlOrder, m
  <2>2. \A i \in DOMAIN inq', k \in DOMAIN ctlq : ~IsCtl(inq'[i]) => Precedes(inq'[i], ctlq[k].qmi)
    BY <1>0, <1>1 DEF CtlOrder
  <2>3. \A i \in DOMAIN inq' : IsCtl(inq'[i]) => inq'[i] = ctlq[1].qmi
    BY <1>0, <1>1 DEF CtlOrder
  <2>4. \A i \in DOMAIN outq' : IsCtl(outq'[i]) =>
         /\ outq'[i].tid = ctlq[1].qmi.tid /\ outq'[i].kind = ctlq[1].qmi.kind
         /\ (outq'[i].kind = "release" => outq'[i].id = ctlq[1].qmi.id)
    <3>1. IsCtl(m) => m = ctlq[1].qmi
      BY <1>0, <1>1 DEF CtlOrder, m
    <3> QED
      BY <1>0, <1>3, <1>4, <1>6, <3>1 DEF CtlOrder
  <2> QED
    BY <1>0, <1>1, <2>1, <2>2, <2>3, <2>4 DEF CtlOrder
<1>9. Owned'
  <2>1. OwnMessage(a, p)
    <3>1. a.kind # "get" => a.id = m.id
      BY <1>3, <1>6 DEF AskKinds
    <3> QED
      BY <1>3, <1>6, <1>p, <3>1 DEF OwnMessage, Of
  <2>2. \A i \in DOMAIN outq' : IsInd(outq'[i]) \/ \E c \in Dialers : OwnMessage(outq'[i], c)
    BY <1>0, <1>4, <2>1 DEF Owned
  <2>3. \A i \in DOMAIN inq' : \E c \in Dialers : OwnMessage(inq'[i], c)
    BY <1>0, <1>1 DEF Owned
  <2>4. \A i \in DOMAIN outq' : IsInd(outq'[i]) \/ \E c \in Dialers : (OwnMessage(outq[i], c))'
    BY <1>w, <2>2
  <2>5. \A i \in DOMAIN inq' : \E c \in Dialers : (OwnMessage(inq[i], c))'
    BY <1>w, <2>3
  <2>6. \A c \in Dialers : \A i \in DOMAIN up[c] : (OwnMessage(up[c][i], c))'
    BY <1>0, <1>1, <1>w DEF Owned
  <2>7. \A i \in DOMAIN ctlq : \E c \in Dialers : (OwnMessage(ctlq[i].qmi, c))' /\ ctlq[i].fd = fd[c]
    BY <1>0, <1>1, <1>w DEF Owned
  <2> QED
    BY <1>1, <2>4, <2>5, <2>6, <2>7 DEF Owned, IsInd
<1>10. Known'
  <2>1. Connected' = Connected
    BY <1>1 DEF Connected
  <2>2. \A c \in Connected : Who(c) # NoOne /\ \A i \in list[fd[c]] : i \in Ids
    BY <1>0, WhoIs DEF Connected, ProxyInv, QueueType
  <2>3. IsCtl(m) => \A i \in DOMAIN outq : ~IsCtl(outq[i])
    BY <1>0, <1>1 DEF Traffic, m
  <2>4. /\ \A c \in Connected : \A i \in list[fd[c]] :
            \/ ids[i] = Who(c)
            \/ \E k \in DOMAIN outq' :
                 outq'[k].kind = "release" /\ outq'[k].who = Who(c) /\ outq'[k].id = i
        /\ \A k \in DOMAIN outq : outq[k].kind = "get" /\ outq[k].ok => ids[outq[k].id] = outq[k].who
    BY <1>0, <1>1, <1>4 DEF Known
  <2>5. CASE ids' = ids /\ ~(a.kind = "get" /\ a.ok)
    BY <1>1, <1>4, <1>o, <2>1, <2>4, <2>5 DEF Known
  <2>6. CASE m.kind = "get" /\ a.ok /\ a.id \in Free /\ ids' = [ids EXCEPT ![a.id] = m.who]
    <3>1. ids[a.id] = NoOne /\ a.id \in Ids
      BY <2>6 DEF Free
    <3>2. \A i \in Ids : ids[i] # NoOne => ids'[i] = ids[i]
      BY <1>q, <2>6, <3>1
    <3>3. ids'[a.id] = a.who
      BY <1>q, <1>3, <2>6, <3>1
    <3>4. \A k \in DOMAIN outq : outq[k].kind # "get"
      BY <2>3, <2>6 DEF IsCtl
    <3> QED
      BY <1>1, <1>4, <1>o, <2>1, <2>2, <2>4, <3>2, <3>3, <3>4 DEF Known
  <2>7. CASE m.kind = "release"
    <3>1. \A i \in Ids : i # m.id => ids'[i] = ids[i]
      BY <1>3, <1>q, <2>7
    <3>2. \A k \in DOMAIN outq' : outq'[k].kind # "get"
      BY <1>3, <1>4, <2>3, <2>7 DEF IsCtl
    <3>3. p \in Connected /\ m.id \in list[fd[p]] /\ a.who = Who(p) /\ a.id = m.id /\ a.kind = "release"
      BY <1>0, <1>3, <1>p, <2>7 DEF OwnMessage, Of, ProxyInv, Connections, Connected
    <3>4. \A c \in Connected : m.id \in list[fd[c]] => c = p
      BY <1>0, <3>3 DEF Lists
    <3> QED
      BY <1>1, <1>4, <1>o, <2>1, <2>2, <2>4, <3>1, <3>2, <3>3, <3>4 DEF Known
  <2> QED
    BY <1>3, <1>6, <2>5, <2>6, <2>7 DEF AskKinds
<1> QED
  BY <1>7, <1>8, <1>9, <1>10

\* The thread hands an answer of the control service to the dialer that asked.
LEMMA RecvCtlFinds ==
  ASSUME OwnerInv, RecvCtl
  PROVE  \E p \in Dialers :
           /\ OwnMessage(ctlq[1].qmi, p) /\ IsCtl(outq[1]) /\ outq[1].who = Who(p)
           /\ outq[1].tid = ctlq[1].qmi.tid /\ outq[1].kind = ctlq[1].qmi.kind
           /\ (outq[1].kind = "release" => outq[1].id = ctlq[1].qmi.id)
           /\ p \in Connected /\ fd[p] \in Fds
           /\ inbox'[p] = Append(inbox[p], outq[1]) /\ list' = Listed(fd[p], outq[1])
           /\ \A x \in Dialers \ {p} : inbox'[x] = inbox[x]
           /\ UNCHANGED <<server, fd, dlr, up, plugged, ids>> /\ Serving' /\ plugged
<1>0. ProxyInv /\ CtlOrder /\ Owned
  BY DEF OwnerInv
<1>1. /\ IsCtl(Head(outq)) /\ ctlq # <<>> /\ Serving /\ Head(outq).kind # "ctlind"
      /\ Head(outq) = outq[1] /\ 1 \in DOMAIN outq /\ Head(outq).who = ctlq[1].qmi.who /\ outq # <<>>
      /\ ctlq \in Seq([fd : Fds, qmi : Requests])
  BY <1>0, RecvCtlIs
<1>2. 1 \in DOMAIN ctlq
  <2> DEFINE L == [fd : Fds, qmi : Requests]
  <2>1. ctlq \in Seq(L)
    BY <1>1
  <2> HIDE DEF L
  <2> QED
    BY <1>1, <2>1, TailIs
<1>3. PICK p \in Dialers : OwnMessage(ctlq[1].qmi, p) /\ ctlq[1].fd = fd[p]
  BY <1>0, <1>1, <1>2 DEF Owned
<1>4. fd[p] # 0 /\ dlr[p].st = "on" /\ ctlq[1].qmi.who = Who(p)
  BY <1>0, <1>3 DEF OwnMessage, Of, ProxyInv, Connections
<1>5. p \in Connected /\ Live(fd[p]) /\ Owner(fd[p]) = p /\ fd[p] \in Fds
  BY <1>0, <1>4, OwnerIs
<1>6. /\ inbox' = [c \in Dialers |-> IF c \in {p} THEN Append(inbox[c], outq[1]) ELSE inbox[c]]
      /\ list' = Listed(fd[p], outq[1])
      /\ UNCHANGED <<server, fd, dlr, up, plugged, ids>> /\ Serving'
  <2>1. Targets(Head(outq)) = {p}
    BY <1>1, <1>3, <1>5 DEF Targets, IsReply, IsCtl
  <2>2. /\ inbox' = [c \in Dialers |-> IF c \in Targets(Head(outq)) THEN Append(inbox[c], Head(outq))
                                       ELSE inbox[c]]
        /\ list' = IF Targets(Head(outq)) # {} THEN Listed(ctlq[1].fd, Head(outq)) ELSE list
        /\ UNCHANGED <<server, fd, dlr, up, plugged, ids>> /\ Round
    BY DEF RecvCtl, Round, To
  <2> QED
    BY <1>1, <1>3, <2>1, <2>2 DEF Round, Serving
<1>7. inbox'[p] = Append(inbox[p], outq[1]) /\ \A x \in Dialers \ {p} : inbox'[x] = inbox[x]
  BY <1>4, <1>6
<1>8. plugged
  BY <1>0, <1>1 DEF ProxyInv, Phase, MainType
<1>9. /\ outq[1].tid = ctlq[1].qmi.tid /\ outq[1].kind = ctlq[1].qmi.kind
      /\ (outq[1].kind = "release" => outq[1].id = ctlq[1].qmi.id)
  BY <1>0, <1>1 DEF CtlOrder
<1> QED
  BY <1>1, <1>3, <1>4, <1>5, <1>6, <1>7, <1>8, <1>9

\* What the lists are then.
LEMMA ListedIs ==
  ASSUME ProxyInv, NEW f \in Fds, NEW a, Proper(a), IsCtl(a)
  PROVE  /\ \A g \in Fds \ {f} : Listed(f, a)[g] = list[g]
         /\ a.kind = "get" /\ a.ok => Listed(f, a)[f] = list[f] \union {a.id}
         /\ a.kind = "get" /\ ~a.ok => Listed(f, a)[f] = list[f]
         /\ a.kind = "release" => Listed(f, a)[f] = list[f] \ {a.id}
<1>1. list \in [Fds -> SUBSET Ids]
  BY DEF ProxyInv, QueueType
<1>2. CASE a.kind = "get" /\ a.ok
  <2>1. Listed(f, a) = [list EXCEPT ![f] = @ \union {a.id}]
    BY <1>2 DEF Listed
  <2> QED
    BY <1>1, <1>2, <2>1
<1>3. CASE a.kind = "get" /\ ~a.ok
  <2>1. Listed(f, a) = list
    BY <1>3 DEF Listed
  <2> QED
    BY <1>1, <1>3, <2>1
<1>4. CASE a.kind = "release"
  <2>1. Listed(f, a) = [list EXCEPT ![f] = @ \ {a.id}]
    BY <1>4 DEF Listed, Proper
  <2> QED
    BY <1>1, <1>4, <2>1
<1> QED
  BY <1>2, <1>3, <1>4 DEF IsCtl

\* And the messages keep their order.
LEMMA RecvCtlOrder ==
  ASSUME OwnerInv, RecvCtl PROVE Order' /\ CtlOrder'
<1>0. ProxyInv /\ Order /\ CtlOrder
  BY DEF OwnerInv
<1> DEFINE a == outq[1]
           L == [fd : Fds, qmi : Requests]
<1>1. /\ IsCtl(a) /\ ctlq # <<>> /\ ctlq' = Tail(ctlq) /\ SendFirst(ctlq') /\ outq' = Tail(outq)
      /\ outq # <<>> /\ ctlq \in Seq(L) /\ Serving
      /\ \A i \in DOMAIN inq : ~IsCtl(inq[i])
      /\ \A i \in DOMAIN outq' : ~IsCtl(outq'[i])
      /\ \A i \in DOMAIN outq' : i + 1 \in DOMAIN outq /\ outq'[i] = outq[i + 1]
      /\ 1 \in DOMAIN outq
  BY <1>0, RecvCtlIs
<1>2. PICK p \in Dialers :
           /\ outq[1].tid = ctlq[1].qmi.tid /\ outq[1].kind = ctlq[1].qmi.kind
           /\ OwnMessage(ctlq[1].qmi, p) /\ outq[1].who = Who(p)
           /\ inbox'[p] = Append(inbox[p], outq[1])
           /\ \A x \in Dialers \ {p} : inbox'[x] = inbox[x]
           /\ UNCHANGED up
  BY RecvCtlFinds
<1>q. /\ inq \in Seq(Messages) /\ outq \in Seq(Messages) /\ a \in Messages
      /\ \A c \in Dialers : up[c] \in Seq(Messages) /\ inbox[c] \in Seq(Messages)
  <2>1. inq \in Seq(Messages) /\ outq \in Seq(Messages)
      /\ \A c \in Dialers : up[c] \in Seq(Messages) /\ inbox[c] \in Seq(Messages)
    BY <1>0, QueuesAre
  <2> HIDE DEF Messages
  <2> QED
    BY <1>1, <2>1, TailIs
<1>r. Requests \subseteq Messages
  BY DEF Messages
<1>3. /\ ctlq' \in Seq(L)
      /\ \A i \in DOMAIN ctlq' : i + 1 \in DOMAIN ctlq /\ ctlq'[i] = ctlq[i + 1]
      /\ \A i, j \in DOMAIN ctlq' : (i < j <=> i + 1 < j + 1) /\ 1 < i + 1
      /\ 1 \in DOMAIN ctlq
  <2> HIDE DEF L
  <2> QED
    BY <1>1, RestIs
<1>4. \/ inq' = inq
      \/ /\ ctlq' # <<>> /\ ctlq'[1].qmi \in Requests /\ inq' = Append(inq, ctlq'[1].qmi)
         /\ 1 \in DOMAIN ctlq'
  BY <1>0, <1>1, <1>3, SendFirstIs DEF ProxyInv
<1>5. \A y : (Precedes(a, y) <=> Precedes(ctlq[1].qmi, y))
  BY <1>2, SamePlace DEF OwnMessage, Of
<1>6. \A i \in DOMAIN ctlq' : Precedes(a, ctlq'[i].qmi)
  BY <1>0, <1>1, <1>3, <1>5 DEF CtlOrder
<1> DEFINE m == ctlq'[1].qmi
<1>7. inq' # inq =>
        /\ m \in Messages /\ IsCtl(m) /\ inq' = Append(inq, m)
        /\ \A i \in DOMAIN inq : Precedes(inq[i], m)
        /\ \A i \in DOMAIN outq' : Precedes(outq'[i], m)
        /\ \A c \in Dialers : /\ \A i \in DOMAIN inbox[c] : Precedes(inbox[c][i], m)
                              /\ \A i \in DOMAIN up[c] : Precedes(m, up[c][i])
        /\ Precedes(a, m)
  BY <1>0, <1>1, <1>3, <1>4, <1>6, <1>r DEF CtlOrder
<1> HIDE DEF a, m, Messages, L
<1>8. Order'
  <2>1. Sorted(outq) /\ Sorted(inq) /\ Ahead(outq, inq)
        /\ \A c \in Dialers :
             /\ Sorted(inbox[c]) /\ Sorted(up[c])
             /\ Ahead(inbox[c], outq) /\ Ahead(inbox[c], inq) /\ Ahead(inbox[c], up[c])
             /\ Ahead(outq, up[c]) /\ Ahead(inq, up[c])
    BY <1>0, <1>1 DEF Order
  <2>2. Sorted(outq') /\ \A i \in DOMAIN outq' : Precedes(a, outq'[i])
    BY <1>1, <1>q, <2>1, SortedTail DEF a
  <2>3. Ahead(outq', inq) /\ \A i \in DOMAIN inq : Precedes(a, inq[i])
    BY <1>1, <1>q, <2>1, AheadTail DEF a
  <2>4. Sorted(inq')
    BY <1>7, <1>q, <2>1, SortedAppend
  <2>5. Ahead(outq', inq')
    BY <1>7, <1>q, <2>3, AheadAppend
  <2>6. ASSUME NEW c \in Dialers
        PROVE  /\ Sorted(inbox'[c]) /\ Ahead(inbox'[c], outq') /\ Ahead(inbox'[c], inq')
               /\ Ahead(inbox'[c], up[c]) /\ Ahead(outq', up[c]) /\ Ahead(inq', up[c])
    <3>1. Ahead(inbox[c], outq') /\ \A i \in DOMAIN inbox[c] : Precedes(inbox[c][i], a)
      BY <1>1, <1>q, <2>1, AheadTail DEF a
    <3>2. Ahead(outq', up[c]) /\ \A i \in DOMAIN up[c] : Precedes(a, up[c][i])
      BY <1>1, <1>q, <2>1, AheadTail DEF a
    <3>3. Ahead(inbox[c], inq') /\ Ahead(inq', up[c])
      BY <1>7, <1>q, <2>1, AheadAppend
    <3>4. \A i \in DOMAIN inq' : Precedes(a, inq'[i])
      <4>1. inq' # inq => \A i \in DOMAIN inq' : (i \in DOMAIN inq /\ inq'[i] = inq[i]) \/ inq'[i] = m
        BY <1>7, <1>q, AppendIs
      <4> QED
        BY <1>7, <2>3, <4>1
    <3>5. CASE inbox'[c] = Append(inbox[c], a)
      BY <1>q, <2>1, <2>2, <3>1, <3>2, <3>3, <3>4, <3>5, SortedAppend, AheadAppend
    <3>6. CASE inbox'[c] = inbox[c]
      BY <2>1, <3>1, <3>2, <3>3, <3>6
    <3> QED
      BY <1>2, <3>5, <3>6 DEF a
  <2> QED
    BY <1>2, <2>1, <2>2, <2>4, <2>5, <2>6 DEF Order
<1>9. CtlOrder'
  <2>1. \A i, j \in DOMAIN ctlq' : i < j => Precedes(ctlq'[i].qmi, ctlq'[j].qmi)
    BY <1>0, <1>1, <1>3 DEF CtlOrder
  <2>2. \A i \in DOMAIN inq' : IsCtl(inq'[i]) => inq'[i] = m
    <3>1. inq' # inq => \A i \in DOMAIN inq' : (i \in DOMAIN inq /\ inq'[i] = inq[i]) \/ inq'[i] = m
      BY <1>7, <1>q, AppendIs
    <3> QED
      BY <1>1, <3>1
  <2>3. \A i \in DOMAIN inq' : ~IsCtl(inq'[i]) => i \in DOMAIN inq /\ inq'[i] = inq[i]
    <3>1. inq' # inq => \A i \in DOMAIN inq' : (i \in DOMAIN inq /\ inq'[i] = inq[i]) \/ inq'[i] = m
      BY <1>7, <1>q, AppendIs
    <3> QED
      BY <1>7, <3>1
  <2>4. ASSUME NEW k \in DOMAIN ctlq'
        PROVE  /\ IsCtl(ctlq'[k].qmi)
               /\ \A i \in DOMAIN outq' : ~IsCtl(outq'[i]) => Precedes(outq'[i], ctlq'[k].qmi)
               /\ \A i \in DOMAIN inq' : ~IsCtl(inq'[i]) => Precedes(inq'[i], ctlq'[k].qmi)
               /\ \A c \in Dialers :
                    /\ \A i \in DOMAIN inbox'[c] : Precedes(inbox'[c][i], ctlq'[k].qmi)
                    /\ \A i \in DOMAIN up[c] : Precedes(ctlq'[k].qmi, up[c][i])
    <3>1. k + 1 \in DOMAIN ctlq /\ ctlq'[k] = ctlq[k + 1]
      BY <1>3
    <3>2. \A c \in Dialers : \A i \in DOMAIN inbox'[c] :
            (i \in DOMAIN inbox[c] /\ inbox'[c][i] = inbox[c][i]) \/ inbox'[c][i] = a
      <4>1. \A c \in Dialers : \A i \in DOMAIN Append(inbox[c], a) :
              (i \in DOMAIN inbox[c] /\ Append(inbox[c], a)[i] = inbox[c][i]) \/ Append(inbox[c], a)[i] = a
        BY <1>q, AppendIs
      <4>2. \A c \in Dialers : inbox'[c] = inbox[c] \/ inbox'[c] = Append(inbox[c], a)
        BY <1>2 DEF a
      <4> QED
        BY <4>1, <4>2
    <3>3. Precedes(a, ctlq'[k].qmi)
      BY <1>6
    <3> QED
      BY <1>0, <1>1, <2>3, <3>1, <3>2, <3>3 DEF CtlOrder
  <2> QED
    BY <1>1, <1>2, <2>1, <2>2, <2>4 DEF CtlOrder, m
<1> QED
  BY <1>8, <1>9


\* What its dialer still has under way can be asked without the id it gave back.
LEMMA RecvCtlOwned ==
  ASSUME OwnerInv, RecvCtl PROVE Owned'
<1>0. ProxyInv /\ Owned /\ Order' /\ CtlOrder' /\ Connections
  BY RecvCtlOrder DEF OwnerInv, ProxyInv
<1> DEFINE a == outq[1]
           L == [fd : Fds, qmi : Requests]
<1>1. /\ IsCtl(a) /\ ctlq # <<>> /\ ctlq' = Tail(ctlq) /\ SendFirst(ctlq') /\ outq # <<>>
      /\ ctlq \in Seq(L) /\ Serving /\ 1 \in DOMAIN outq
      /\ \A i \in DOMAIN outq' : i + 1 \in DOMAIN outq /\ outq'[i] = outq[i + 1]
  BY <1>0, RecvCtlIs
<1>2. PICK p \in Dialers :
        /\ a.who = Who(p) /\ p \in Connected /\ fd[p] \in Fds
        /\ inbox'[p] = Append(inbox[p], a) /\ list' = Listed(fd[p], a)
        /\ UNCHANGED <<fd, dlr, up>> /\ Serving'
  BY RecvCtlFinds
<1>3. Proper(a) /\ \A g \in Fds : g # fd[p] \/ a.kind # "release" => list[g] \subseteq list'[g]
  <2>1. Proper(a)
    BY <1>0, <1>1 DEF ProxyInv, QueueType
  <2>2. a.kind = "get" \/ a.kind = "release"
    BY <1>1 DEF IsCtl
  <2> HIDE DEF a
  <2>3. /\ \A g \in Fds \ {fd[p]} : list'[g] = list[g]
        /\ (a.kind = "get" /\ a.ok => list'[fd[p]] = list[fd[p]] \union {a.id})
        /\ (a.kind = "get" /\ ~a.ok => list'[fd[p]] = list[fd[p]])
    BY <1>0, <1>1, <1>2, <2>1, ListedIs
  <2> QED
    BY <1>2, <2>1, <2>2, <2>3
<1>4. \E e \in DOMAIN inbox'[p] : inbox'[p][e] = a
  <2>1. inbox[p] \in Seq(Answers) /\ a \in Answers
    BY <1>0, <1>3 DEF Proper, ProxyInv, DialerType
  <2> HIDE DEF a, Answers
  <2> QED
    BY <1>2, <2>1, AppendIs
<1>o. \A c : Who(c)' = Who(c) /\ Holds(c)' = Holds(c)
  BY <1>2 DEF Who, Holds
<1>5. ASSUME NEW y, NEW c \in Dialers, OwnMessage(y, c), Precedes(a, y)
      PROVE  (OwnMessage(y, c))'
  <2>1. dlr[c].st = "on" /\ y.who = Who(c) /\ fd[c] # 0 /\ fd[c] \in Fds
    BY <1>0, <1>5 DEF OwnMessage, Of, Connections, ProxyInv, QueueType
  <2>2. Who(p) # NoOne /\ (fd[c] = fd[p] => c = p)
    BY <1>0, <1>2, <2>1, WhoIs DEF Connections
  <2>3. y.kind # "get" => fd[c] # fd[p] \/ a.kind # "release"
    BY <1>1, <1>2, <1>5, <2>1, <2>2 DEF Precedes
  <2> QED
    BY <1>2, <1>3, <1>5, <1>o, <2>1, <2>3 DEF OwnMessage, Of
<1>6. \A i \in DOMAIN outq' : IsInd(outq'[i]) \/ \E c \in Dialers : (OwnMessage(outq[i], c))'
  <2>1. \A i \in DOMAIN outq' : Precedes(a, outq'[i])
    BY <1>0, <1>2, <1>4 DEF Order, Ahead
  <2>2. \A i \in DOMAIN outq' : IsInd(outq'[i]) \/ \E c \in Dialers : OwnMessage(outq'[i], c)
    BY <1>0, <1>1 DEF Owned
  <2> QED
    BY <1>5, <2>1, <2>2
<1>7. \A i \in DOMAIN ctlq' : i + 1 \in DOMAIN ctlq /\ ctlq'[i] = ctlq[i + 1] /\ Precedes(a, ctlq'[i].qmi)
  <2>1. \A i \in DOMAIN ctlq' : i + 1 \in DOMAIN ctlq /\ ctlq'[i] = ctlq[i + 1]
    <3> HIDE DEF L
    <3> QED
      BY <1>1, RestIs
  <2> QED
    BY <1>0, <1>2, <1>4, <2>1 DEF CtlOrder
<1>8. \A i \in DOMAIN ctlq' : \E c \in Dialers :
         OwnMessage(ctlq'[i].qmi, c) /\ ctlq'[i].fd = fd[c]
  BY <1>0, <1>1, <1>7 DEF Owned
<1>9. \A i \in DOMAIN ctlq' : \E c \in Dialers :
         (OwnMessage(ctlq[i].qmi, c))' /\ ctlq'[i].fd = fd[c]
  BY <1>5, <1>7, <1>8
<1>10. \A i \in DOMAIN inq' : \E c \in Dialers : (OwnMessage(inq[i], c))'
  <2>1. \A i \in DOMAIN inq' : Precedes(a, inq'[i])
    BY <1>0, <1>2, <1>4 DEF Order, Ahead
  <2>2. ctlq' \in Seq(L)
    <3> HIDE DEF L
    <3> QED
      BY <1>1, RestIs
  <2>3. \/ inq' = inq
        \/ ctlq'[1].qmi \in Requests /\ inq' = Append(inq, ctlq'[1].qmi) /\ 1 \in DOMAIN ctlq'
    BY <1>0, <1>1, <2>2, SendFirstIs DEF ProxyInv
  <2>4. inq \in Seq(MainRequests \union Requests)
    BY <1>0 DEF ProxyInv, QueueType
  <2>5. \A i \in DOMAIN inq' : (i \in DOMAIN inq /\ inq'[i] = inq[i])
                                \/ (1 \in DOMAIN ctlq' /\ inq'[i] = ctlq'[1].qmi)
    <3> HIDE DEF MainRequests, Requests
    <3> QED
      BY <2>3, <2>4, AppendIs
  <2>6. \A i \in DOMAIN inq' : \E c \in Dialers : OwnMessage(inq'[i], c)
    BY <1>0, <1>1, <1>8, <2>5 DEF Owned
  <2> QED
    BY <1>5, <2>1, <2>6
<1>11. \A c \in Dialers : \A i \in DOMAIN up[c] : (OwnMessage(up[c][i], c))'
  <2>1. ASSUME NEW c \in Dialers, NEW i \in DOMAIN up[c] PROVE Precedes(a, up[c][i])
    <3>1. CASE c = p
      BY <1>0, <1>2, <1>4, <2>1, <3>1 DEF Order, Ahead
    <3>2. CASE c # p
      <4>1. up[c][i].who = Who(c)
        BY <1>0, <1>1, <2>1 DEF Owned, OwnMessage, Of
      <4> QED
        BY <1>0, <1>2, <3>2, <4>1, WhoIs, Apart
    <3> QED
      BY <3>1, <3>2
  <2>2. \A c \in Dialers : \A i \in DOMAIN up[c] : OwnMessage(up[c][i], c)
    BY <1>0, <1>1 DEF Owned
  <2> QED
    BY <1>2, <1>5, <2>1, <2>2
<1> QED
  BY <1>2, <1>6, <1>9, <1>10, <1>11 DEF Owned, IsInd


\* The answer is delivered, and the lists are what the modem knows.
LEMMA RecvCtlOwner ==
  ASSUME OwnerInv, RecvCtl PROVE Order' /\ CtlOrder' /\ Owned' /\ Delivered' /\ Lists' /\ Known' /\ Fresh'
<1>0. ProxyInv /\ CtlOrder /\ Owned /\ Delivered /\ Lists /\ Known /\ Fresh /\ Connections /\ Traffic
  BY DEF OwnerInv, ProxyInv
<1> DEFINE a == outq[1]
           r == ctlq[1].qmi
           L == [fd : Fds, qmi : Requests]
<1>1. /\ IsCtl(a) /\ ctlq # <<>> /\ outq # <<>> /\ ctlq \in Seq(L) /\ Serving /\ 1 \in DOMAIN outq
      /\ \A i \in DOMAIN outq' : ~IsCtl(outq'[i])
  BY <1>0, RecvCtlIs
<1>2. PICK p \in Dialers :
        /\ OwnMessage(r, p) /\ a.who = Who(p) /\ a.tid = r.tid /\ a.kind = r.kind
        /\ p \in Connected /\ fd[p] \in Fds
        /\ inbox'[p] = Append(inbox[p], a) /\ list' = Listed(fd[p], a)
        /\ \A x \in Dialers \ {p} : inbox'[x] = inbox[x]
        /\ UNCHANGED <<fd, dlr, up, plugged, ids>> /\ Serving' /\ plugged
  BY RecvCtlFinds
<1>3. /\ Proper(a) /\ (a.kind = "get" \/ a.kind = "release")
      /\ \A g \in Fds \ {fd[p]} : list'[g] = list[g]
      /\ (a.kind = "get" /\ a.ok => list'[fd[p]] = list[fd[p]] \union {a.id})
      /\ (a.kind = "get" /\ ~a.ok => list'[fd[p]] = list[fd[p]])
      /\ (a.kind = "release" => list'[fd[p]] = list[fd[p]] \ {a.id})
  <2>1. Proper(a)
    BY <1>0, <1>1 DEF ProxyInv, QueueType
  <2>2. a.kind = "get" \/ a.kind = "release"
    BY <1>1 DEF IsCtl
  <2> HIDE DEF a
  <2> QED
    BY <1>0, <1>1, <1>2, <2>1, <2>2, ListedIs
<1>4. 1 \in DOMAIN ctlq
  <2> HIDE DEF L
  <2> QED
    BY <1>1, TailIs
<1>o. /\ \A c : Who(c)' = Who(c) /\ Holds(c)' = Holds(c)
      /\ Connected' = Connected /\ \A f : Live(f)' <=> Live(f)
  BY <1>2 DEF Who, Holds, Connected, Live
<1>c. \A c \in Connected : /\ c \in Dialers /\ fd[c] \in Fds
                           /\ \A x \in Connected : fd[c] = fd[x] => c = x
  BY <1>0 DEF Connected, Connections, ProxyInv, QueueType
<1>n. \A c \in Dialers : Who(c) # NoOne /\ (Who(c) = Who(p) => c = p)
  BY <1>0, <1>2, WhoIs
<1>5. /\ IsCtl(r) /\ Holds(p) = NoOne /\ dlr[p].ask # "none" /\ a.tid \in 1..dlr[p].asks
      /\ dlr[p].st = "on"
  BY <1>1, <1>2 DEF OwnMessage, Of, IsCtl
<1>k. \A k \in DOMAIN outq : IsCtl(outq[k]) => outq[k] = a
  BY <1>0, <1>1 DEF Traffic
<1>6. Delivered'
  <2>1. \A i \in DOMAIN inbox'[p] : (i \in DOMAIN inbox[p] /\ inbox'[p][i] = inbox[p][i]) \/ inbox'[p][i] = a
    <3>1. inbox[p] \in Seq(Answers) /\ a \in Answers
      BY <1>0, <1>3 DEF Proper, ProxyInv, DialerType
    <3> HIDE DEF a, Answers
    <3> QED
      BY <1>2, <3>1, AppendIs
  <2>2. ASSUME NEW c \in Dialers, NEW i \in DOMAIN inbox[c], ~IsInd(inbox[c][i])
        PROVE  /\ inbox[c][i].who = Who(c) /\ inbox[c][i].tid \in 1..dlr[c].asks /\ dlr[c].ask # "none"
               /\ (IsCtl(inbox[c][i]) => Holds(c) = NoOne)
               /\ (inbox[c][i].kind = "get" /\ inbox[c][i].ok /\ inbox[c][i].tid = dlr[c].asks =>
                     inbox[c][i].id \in list'[fd[c]])
    <3>1. /\ inbox[c][i].who = Who(c) /\ inbox[c][i].tid \in 1..dlr[c].asks /\ dlr[c].ask # "none"
          /\ (IsCtl(inbox[c][i]) => Holds(c) = NoOne)
          /\ (inbox[c][i].kind = "get" /\ inbox[c][i].ok /\ inbox[c][i].tid = dlr[c].asks =>
                inbox[c][i].id \in list[fd[c]])
      BY <1>0, <2>2 DEF Delivered
    <3>2. c \in Connected
      <4>1. dlr[c].st = "on"
        BY <1>0, <2>2 DEF Connections
      <4> QED
        BY <1>0, <4>1 DEF Connected, Connections
    <3>3. c = p /\ inbox[c][i].kind = "get" => a.kind = "get"
      <4>1. Precedes(inbox[c][i], r)
        BY <1>0, <1>1, <1>4, <2>2 DEF CtlOrder
      <4> QED
        BY <1>2, <1>n, <3>1, <4>1 DEF Precedes, IsCtl, OwnMessage, Of
    <3> QED
      BY <1>2, <1>3, <1>c, <3>1, <3>2, <3>3
  <2>3. a.kind = "get" /\ a.ok => a.id \in list'[fd[p]]
    BY <1>3
  <2>4. \A c \in Dialers : \A i \in DOMAIN inbox'[c] :
          \/ i \in DOMAIN inbox[c] /\ inbox'[c][i] = inbox[c][i]
          \/ c = p /\ inbox'[c][i] = a
    BY <1>2, <2>1
  <2>5. ASSUME NEW c \in Dialers, NEW i \in DOMAIN inbox'[c], ~IsInd(inbox'[c][i])
        PROVE  /\ inbox'[c][i].who = Who(c) /\ inbox'[c][i].tid \in 1..dlr[c].asks /\ dlr[c].ask # "none"
               /\ (IsCtl(inbox'[c][i]) => Holds(c) = NoOne)
               /\ (inbox'[c][i].kind = "get" /\ inbox'[c][i].ok /\ inbox'[c][i].tid = dlr[c].asks =>
                     inbox'[c][i].id \in list'[fd[c]])
    BY <1>2, <1>5, <2>2, <2>3, <2>4, <2>5
  <2> QED
    BY <1>2, <1>o, <2>5 DEF Delivered, IsInd
<1>7. Lists'
  <2>1. ASSUME a.kind = "get", a.ok, NEW x \in Connected, a.id \in list[fd[x]] PROVE x = p
    <3>1. ids[a.id] = Who(p)
      BY <1>0, <1>1, <1>2, <2>1 DEF Known
    <3>2. ids[a.id] = Who(x)
      BY <1>0, <1>1, <1>2, <1>k, <2>1 DEF Known, IsCtl
    <3> QED
      BY <1>c, <1>n, <3>1, <3>2
  <2>2. \A c, x \in Connected : c # x => list'[fd[c]] \intersect list'[fd[x]] = {}
    BY <1>0, <1>2, <1>3, <1>c, <2>1 DEF Lists
  <2>3. \A f \in Fds : ~Live(f) => list'[f] = {}
    BY <1>0, <1>2, <1>3 DEF Lists, Live
  <2>4. \A c \in Dialers : dlr[c].st = "on" /\ Holds(c) # NoOne => Holds(c) \in list'[fd[c]]
    <3>1. \A c \in Dialers : dlr[c].st = "on" => c \in Connected
      BY <1>0 DEF Connected, Connections
    <3> QED
      BY <1>0, <1>2, <1>3, <1>5, <1>c, <3>1 DEF Lists
  <2> QED
    BY <1>2, <1>o, <2>2, <2>3, <2>4 DEF Lists
<1>8. Known'
  <2>1. ASSUME NEW c \in Connected, NEW i \in list'[fd[c]] PROVE ids[i] = Who(c)
    <3>1. CASE i \in list[fd[c]]
      <4>1. \/ ids[i] = Who(c)
            \/ a.kind = "release" /\ a.who = Who(c) /\ a.id = i
        BY <1>0, <1>1, <1>2, <1>k, <3>1 DEF Known, IsCtl
      <4> QED
        BY <1>2, <1>3, <1>c, <1>n, <2>1, <4>1
    <3>2. CASE i \notin list[fd[c]]
      <4>1. c = p /\ a.kind = "get" /\ a.ok /\ i = a.id
        BY <1>2, <1>3, <1>c, <2>1, <3>2
      <4> QED
        BY <1>0, <1>1, <1>2, <4>1 DEF Known
    <3> QED
      BY <3>1, <3>2
  <2>2. \A k \in DOMAIN outq' : outq'[k].kind # "get"
    BY <1>1 DEF IsCtl
  <2> QED
    BY <1>2, <1>o, <2>1, <2>2 DEF Known
<1>9. Fresh'
  BY <1>0, <1>2 DEF Fresh
<1> QED
  BY <1>6, <1>7, <1>8, <1>9, RecvCtlOrder, RecvCtlOwned


\* What a dialer has under way, and what it was sent, bears its name.
LEMMA NamesAre ==
  ASSUME OwnerInv, NEW c \in Dialers
  PROVE  /\ \A i \in DOMAIN inbox[c] : inbox[c][i].who \in {NoOne, Who(c)}
         /\ Serving => \A i \in DOMAIN up[c] : up[c][i].who = Who(c)
         /\ \A m, x : m.who \in {NoOne, Who(c)} /\ (\E d \in Dialers \ {c} : x.who = Who(d)) =>
              Precedes(m, x) /\ Precedes(x, m)
<1>1. ProxyInv /\ Delivered /\ Owned
  BY DEF OwnerInv
<1>2. \A i \in DOMAIN inbox[c] : inbox[c][i].who \in {NoOne, Who(c)}
  BY <1>1 DEF Delivered, IsInd
<1>3. Serving => \A i \in DOMAIN up[c] : up[c][i].who = Who(c)
  BY <1>1 DEF Owned, OwnMessage, Of
<1>4. ASSUME NEW m, NEW x, m.who \in {NoOne, Who(c)}, NEW d \in Dialers \ {c}, x.who = Who(d)
      PROVE  Precedes(m, x) /\ Precedes(x, m)
  BY <1>1, <1>4, WhoIs, Apart
<1> QED
  BY <1>2, <1>3, <1>4

\* The thread takes a request of a dialer.
LEMMA SendQmiOwner ==
  ASSUME OwnerInv, NEW c \in Dialers, SendQmi(c)
  PROVE  Order' /\ CtlOrder' /\ Owned' /\ Known'
<1>0. ProxyInv /\ Order /\ CtlOrder /\ Owned /\ Delivered /\ Known /\ Traffic
  BY DEF OwnerInv, ProxyInv
<1> DEFINE m == up[c][1]
           L == [fd : Fds, qmi : Requests]
<1>1. /\ Serving /\ m \in Requests /\ fd[c] \in Fds /\ UNCHANGED outq
      /\ ctlq \in Seq(L) /\ 1 \in DOMAIN up[c] /\ up'[c] = Tail(up[c])
      /\ \/ IsCtl(m) /\ ctlq' = Append(ctlq, [fd |-> fd[c], qmi |-> m])
            /\ (ctlq # <<>> => inq' = inq)
         \/ ~IsCtl(m) /\ ctlq' = ctlq
      /\ inq' = inq \/ inq' = Append(inq, m)
  BY <1>0, SendQmiIs
<1>2. /\ UNCHANGED <<fd, list, dlr, inbox, outq, ids, plugged>> /\ Serving' /\ up[c] # <<>>
      /\ \A x \in Dialers \ {c} : up'[x] = up[x]
  <2>1. up' = [up EXCEPT ![c] = Tail(@)] /\ up \in [Dialers -> Seq(Requests)]
    BY <1>0 DEF SendQmi, ProxyInv, DialerType
  <2>2. \A x \in Dialers \ {c} : up'[x] = up[x]
    BY <2>1
  <2> QED
    BY <1>1, <2>2 DEF SendQmi, Round, Serving
<1>q. /\ inq \in Seq(Messages) /\ outq \in Seq(Messages) /\ m \in Messages
      /\ \A x \in Dialers : up[x] \in Seq(Messages) /\ inbox[x] \in Seq(Messages)
  <2>1. inq \in Seq(Messages) /\ outq \in Seq(Messages) /\ Requests \subseteq Messages
      /\ \A x \in Dialers : up[x] \in Seq(Messages) /\ inbox[x] \in Seq(Messages)
    BY <1>0, QueuesAre DEF Messages
  <2> HIDE DEF Messages, Requests
  <2> QED
    BY <1>1, <2>1
<1>o. /\ \A x : Who(x)' = Who(x) /\ Holds(x)' = Holds(x)
      /\ Connected' = Connected
  BY <1>2 DEF Who, Holds, Connected
<1>m. OwnMessage(m, c) /\ m.who = Who(c) /\ m.kind \in AskKinds /\ (~IsCtl(m) => m.kind # "get")
  <2>1. OwnMessage(m, c)
    BY <1>0, <1>1 DEF Owned
  <2>2. m.kind \in AskKinds
    BY <1>1 DEF Requests
  <2> QED
    BY <2>1, <2>2 DEF OwnMessage, Of, IsCtl
<1>w. \A y : \A x \in Dialers : OwnMessage(y, x) => (OwnMessage(y, x))'
  BY <1>2, <1>o DEF OwnMessage, Of
<1>3. \A i \in DOMAIN inq' : (i \in DOMAIN inq /\ inq'[i] = inq[i]) \/ (inq' = Append(inq, m) /\ inq'[i] = m)
  <2> HIDE DEF m, Messages
  <2> QED
    BY <1>1, <1>q, AppendIs
<1>4. /\ \A k \in DOMAIN ctlq' :
           \/ k \in DOMAIN ctlq /\ ctlq'[k] = ctlq[k] /\ k < Len(ctlq) + 1 /\ ~(Len(ctlq) + 1 < k)
           \/ IsCtl(m) /\ ctlq'[k] = [fd |-> fd[c], qmi |-> m] /\ k = Len(ctlq) + 1 /\ ~(k < k)
      /\ (ctlq # <<>> => ctlq'[1] = ctlq[1] /\ 1 \in DOMAIN ctlq)
      /\ (ctlq = <<>> /\ IsCtl(m) => ctlq'[1].qmi = m)
  <2> DEFINE l == [fd |-> fd[c], qmi |-> m]
  <2>1. l \in L /\ l.qmi = m
    BY <1>1
  <2>2. \/ IsCtl(m) /\ ctlq' = Append(ctlq, l)
        \/ ~IsCtl(m) /\ ctlq' = ctlq
    BY <1>1
  <2>3. \A k \in DOMAIN ctlq : k < Len(ctlq) + 1 /\ ~(Len(ctlq) + 1 < k)
    <3> HIDE DEF L
    <3>1. \A k \in 1..Len(ctlq) : k < Len(ctlq) + 1 /\ ~(Len(ctlq) + 1 < k)
      BY <1>1
    <3> QED
      BY <1>1, <3>1
  <2> HIDE DEF l, L, m
  <2>4. ctlq # <<>> => 1 \in DOMAIN ctlq
    BY <1>1, TailIs
  <2>5. ~(Len(ctlq) + 1 < Len(ctlq) + 1)
    BY <1>1
  <2>6. \A k \in DOMAIN Append(ctlq, l) :
              (k \in DOMAIN ctlq /\ Append(ctlq, l)[k] = ctlq[k])
              \/ (k = Len(ctlq) + 1 /\ Append(ctlq, l)[k] = l)
    BY <1>1, <2>1, AppendIs
  <2>7. \A k \in DOMAIN ctlq : Append(ctlq, l)[k] = ctlq[k]
    BY <1>1, <2>1, AppendIs
  <2>8. ctlq = <<>> => Append(ctlq, l)[1] = l
    BY SingleIs
  <2> QED
    BY <2>1, <2>2, <2>3, <2>4, <2>5, <2>6, <2>7, <2>8 DEF l
<1>n. \A x \in Dialers : /\ \A i \in DOMAIN inbox[x] : Precedes(inbox[x][i], m)
                         /\ \A i \in DOMAIN up'[x] : Precedes(m, up'[x][i])
  <2>1. ASSUME NEW x \in Dialers
        PROVE  /\ \A i \in DOMAIN inbox[x] : Precedes(inbox[x][i], m)
               /\ \A i \in DOMAIN up'[x] : Precedes(m, up'[x][i])
    <3>1. CASE x = c
      <4>1. Sorted(up[c]) /\ Ahead(inbox[c], up[c])
        BY <1>0, <1>1 DEF Order
      <4>2. \A i \in DOMAIN Tail(up[c]) : Precedes(m, Tail(up[c])[i])
        <5> HIDE DEF Messages
        <5> QED
          BY <1>2, <1>q, <4>1, SortedTail
      <4>3. \A i \in DOMAIN inbox[c] : Precedes(inbox[c][i], m)
        BY <1>1, <4>1 DEF Ahead
      <4> QED
        BY <1>1, <3>1, <4>2, <4>3
    <3>2. CASE x # c
      <4>1. up'[x] = up[x]
        BY <1>2, <3>2
      <4>2. /\ \A i \in DOMAIN inbox[x] : inbox[x][i].who \in {NoOne, Who(x)}
            /\ \A i \in DOMAIN up[x] : up[x][i].who = Who(x)
        BY <1>1, NamesAre
      <4>3. \A y : y.who \in {NoOne, Who(x)} => Precedes(y, m) /\ Precedes(m, y)
        BY <1>m, <3>2, NamesAre
      <4> QED
        BY <4>1, <4>2, <4>3
    <3> QED
      BY <3>1, <3>2
  <2> QED
    BY <2>1
<1>u. \A x \in Dialers : \A i \in DOMAIN up'[x] : \E j \in DOMAIN up[x] : up'[x][i] = up[x][j]
  <2>1. \A i \in DOMAIN Tail(up[c]) : i + 1 \in DOMAIN up[c] /\ Tail(up[c])[i] = up[c][i + 1]
    <3> HIDE DEF Messages
    <3> QED
      BY <1>2, <1>q, RestIs
  <2>2. ASSUME NEW x \in Dialers, NEW i \in DOMAIN up'[x]
        PROVE  \E j \in DOMAIN up[x] : up'[x][i] = up[x][j]
    <3>1. CASE x = c
      BY <1>1, <2>1, <2>2, <3>1
    <3>2. CASE x # c
      BY <1>2, <2>2, <3>2
    <3> QED
      BY <3>1, <3>2
  <2> QED
    BY <2>2
<1>5. /\ \A i \in DOMAIN inq : Precedes(inq[i], m)
      /\ \A i \in DOMAIN outq : Precedes(outq[i], m)
      /\ \A k \in DOMAIN ctlq : Precedes(ctlq[k].qmi, m)
  BY <1>0, <1>1 DEF Order, CtlOrder, Ahead
<1> HIDE DEF m, Messages, L
<1>6. \A x \in Dialers : /\ Sorted(up'[x])
                         /\ \A q : Ahead(q, up[x]) => Ahead(q, up'[x])
  <2>1. Sorted(up'[c]) /\ \A q : Ahead(q, up[c]) => Ahead(q, up'[c])
    BY <1>0, <1>1, <1>2, <1>q, SortedTail, AheadTail DEF Order
  <2> QED
    BY <1>0, <1>1, <1>2, <2>1 DEF Order
<1>7. Order'
  <2>1. Sorted(outq) /\ Sorted(inq) /\ Ahead(outq, inq)
        /\ \A x \in Dialers :
             /\ Sorted(inbox[x]) /\ Sorted(up[x])
             /\ Ahead(inbox[x], outq) /\ Ahead(inbox[x], inq) /\ Ahead(inbox[x], up[x])
             /\ Ahead(outq, up[x]) /\ Ahead(inq, up[x])
    BY <1>0, <1>1 DEF Order
  <2>2. Sorted(inq') /\ Ahead(outq, inq')
    BY <1>1, <1>5, <1>q, <2>1, SortedAppend, AheadAppend
  <2>3. ASSUME NEW x \in Dialers PROVE Ahead(inbox[x], inq') /\ Ahead(inq', up'[x])
    <3>1. Ahead(inq, up'[x])
      BY <1>6, <2>1
    <3> QED
      BY <1>1, <1>n, <1>q, <2>1, <3>1, AheadAppend
  <2> QED
    BY <1>2, <1>6, <2>1, <2>2, <2>3 DEF Order
<1>8. CtlOrder'
  <2>1. \A i, j \in DOMAIN ctlq' : i < j => Precedes(ctlq'[i].qmi, ctlq'[j].qmi)
    <3> SUFFICES ASSUME NEW i \in DOMAIN ctlq', NEW j \in DOMAIN ctlq', i < j
                 PROVE  Precedes(ctlq'[i].qmi, ctlq'[j].qmi)
      OBVIOUS
    <3>1. CASE j \in DOMAIN ctlq /\ ctlq'[j] = ctlq[j] /\ ~(Len(ctlq) + 1 < j)
      BY <1>0, <1>1, <1>4, <3>1 DEF CtlOrder
    <3>2. CASE ctlq'[j] = [fd |-> fd[c], qmi |-> m] /\ j = Len(ctlq) + 1
      BY <1>0, <1>1, <1>4, <1>5, <3>2 DEF CtlOrder
    <3> QED
      BY <1>4, <3>1, <3>2
  <2>2. ASSUME NEW k \in DOMAIN ctlq'
        PROVE  /\ IsCtl(ctlq'[k].qmi)
               /\ \A i \in DOMAIN outq : ~IsCtl(outq[i]) => Precedes(outq[i], ctlq'[k].qmi)
               /\ \A i \in DOMAIN inq' : ~IsCtl(inq'[i]) => Precedes(inq'[i], ctlq'[k].qmi)
               /\ \A x \in Dialers :
                    /\ \A i \in DOMAIN inbox[x] : Precedes(inbox[x][i], ctlq'[k].qmi)
                    /\ \A i \in DOMAIN up'[x] : Precedes(ctlq'[k].qmi, up'[x][i])
    <3>1. CASE k \in DOMAIN ctlq /\ ctlq'[k] = ctlq[k]
      <4>1. ~IsCtl(m) => Precedes(m, ctlq[k].qmi)
        <5>1. Precedes(ctlq[k].qmi, m) /\ IsCtl(ctlq[k].qmi)
          BY <1>0, <1>1, <1>5, <3>1 DEF CtlOrder
        <5>2. ~IsCtl(m) => ctlq[k].qmi.who # m.who \/ ctlq[k].qmi.who = NoOne
          BY <1>m, <5>1 DEF Precedes
        <5> QED
          BY <5>2, Apart
      <4>2. \A x \in Dialers : \A i \in DOMAIN up'[x] : Precedes(ctlq[k].qmi, up'[x][i])
        BY <1>0, <1>1, <1>u, <3>1 DEF CtlOrder
      <4> QED
        BY <1>0, <1>1, <1>3, <3>1, <4>1, <4>2 DEF CtlOrder
    <3>2. CASE IsCtl(m) /\ ctlq'[k] = [fd |-> fd[c], qmi |-> m]
      <4>1. ctlq'[k].qmi = m
        BY <3>2
      <4> QED
        BY <1>3, <1>5, <1>n, <3>2, <4>1
    <3> QED
      BY <1>4, <3>1, <3>2
  <2>3. \A i \in DOMAIN inq' : IsCtl(inq'[i]) => inq'[i] = ctlq'[1].qmi
    <3>1. \A i \in DOMAIN inq : IsCtl(inq[i]) => inq[i] = ctlq'[1].qmi
      BY <1>0, <1>1, <1>4 DEF CtlOrder, Traffic, IsFirst
    <3>2. ASSUME NEW i \in DOMAIN inq', inq' # inq, inq'[i] = m, IsCtl(m) PROVE m = ctlq'[1].qmi
      BY <1>1, <1>4, <3>2
    <3> QED
      BY <1>3, <3>1, <3>2
  <2>4. \A i \in DOMAIN outq : IsCtl(outq[i]) =>
         /\ outq[i].tid = ctlq'[1].qmi.tid /\ outq[i].kind = ctlq'[1].qmi.kind
         /\ (outq[i].kind = "release" => outq[i].id = ctlq'[1].qmi.id)
    BY <1>0, <1>1, <1>4 DEF CtlOrder, Traffic, IsFirst
  <2> QED
    BY <1>2, <2>1, <2>2, <2>3, <2>4 DEF CtlOrder
<1>9. Owned'
  <2>1. \A i \in DOMAIN inq' : \E x \in Dialers : (OwnMessage(inq[i], x))'
    <3>1. \A i \in DOMAIN inq' : \E x \in Dialers : OwnMessage(inq'[i], x)
      BY <1>0, <1>1, <1>3, <1>m DEF Owned
    <3> QED
      BY <1>w, <3>1
  <2>2. \A i \in DOMAIN outq : IsInd(outq[i]) \/ \E x \in Dialers : (OwnMessage(outq[i], x))'
    <3>1. \A i \in DOMAIN outq : IsInd(outq[i]) \/ \E x \in Dialers : OwnMessage(outq[i], x)
      BY <1>0, <1>1 DEF Owned
    <3> QED
      BY <1>2, <1>w, <3>1
  <2>3. \A x \in Dialers : \A i \in DOMAIN up'[x] : (OwnMessage(up[x][i], x))'
    <3>1. \A x \in Dialers : \A i \in DOMAIN up'[x] : OwnMessage(up'[x][i], x)
      BY <1>0, <1>1, <1>u DEF Owned
    <3> QED
      BY <1>w, <3>1
  <2>4. \A i \in DOMAIN ctlq' : \E x \in Dialers : (OwnMessage(ctlq[i].qmi, x))' /\ ctlq'[i].fd = fd[x]
    <3>1. \A i \in DOMAIN ctlq' : \E x \in Dialers : OwnMessage(ctlq'[i].qmi, x) /\ ctlq'[i].fd = fd[x]
      BY <1>0, <1>1, <1>4, <1>m DEF Owned
    <3> QED
      BY <1>w, <3>1
  <2> QED
    BY <1>2, <2>1, <2>2, <2>3, <2>4 DEF Owned, IsInd
<1>10. Known'
  BY <1>0, <1>1, <1>2, <1>o DEF Known
<1> QED
  BY <1>7, <1>8, <1>9, <1>10


\* The thread hands a message of another service to the dialer it is for, or an
\* indication to everybody.
LEMMA RecvMuxFinds ==
  ASSUME OwnerInv, RecvMux
  PROVE  /\ Serving /\ Serving' /\ outq # <<>> /\ 1 \in DOMAIN outq /\ outq[1].kind = "mux"
         /\ outq' = Tail(outq) /\ Proper(outq[1])
         /\ UNCHANGED <<fd, list, ctlq, dlr, up, plugged, ids, inq>>
         /\ \A y \in Dialers :
              \/ inbox'[y] = inbox[y]
              \/ inbox'[y] = Append(inbox[y], outq[1]) /\ (IsInd(outq[1]) \/ OwnMessage(outq[1], y))
<1>0. ProxyInv /\ Owned /\ Lists /\ Connections
  BY DEF OwnerInv, ProxyInv
<1> DEFINE a == outq[1]
<1>1. outq \in Seq(Answers) /\ outq # <<>> /\ list \in [Fds -> SUBSET Ids]
  BY <1>0 DEF RecvMux, ProxyInv, QueueType
<1>2. Head(outq) = a /\ 1 \in DOMAIN outq
  <2> HIDE DEF Answers
  <2> QED
    BY <1>1, TailIs
<1>3. /\ a.kind = "mux" /\ outq' = Tail(outq) /\ Serving /\ Serving'
      /\ inbox' = [c \in Dialers |-> IF c \in AreFor(a) THEN Append(inbox[c], a) ELSE inbox[c]]
      /\ UNCHANGED <<fd, list, ctlq, dlr, up, plugged, ids, inq>> /\ Proper(a)
  <2>1. /\ a.kind = "mux" /\ outq' = Tail(outq) /\ Serving /\ Serving' /\ To(Targets(a), a)
        /\ UNCHANGED <<fd, list, ctlq, dlr, up, plugged, ids, inq>> /\ Proper(a)
    BY <1>0, <1>2 DEF RecvMux, Round, Serving, Running, proxyVars, ProxyInv, QueueType
  <2>2. Targets(a) = AreFor(a)
    BY <2>1 DEF Targets, IsReply
  <2>3. inbox' = [c \in Dialers |-> IF c \in Targets(a) THEN Append(inbox[c], a) ELSE inbox[c]]
    BY <2>1 DEF To
  <2> HIDE DEF a
  <2> QED
    BY <2>1, <2>2, <2>3
<1>4. ASSUME NEW y \in Dialers, inbox'[y] # inbox[y]
      PROVE  inbox'[y] = Append(inbox[y], a) /\ (IsInd(a) \/ OwnMessage(a, y))
  <2>1. inbox'[y] = Append(inbox[y], a) /\ y \in AreFor(a)
    BY <1>3, <1>4
  <2>2. CASE IsInd(a)
    BY <2>1, <2>2
  <2>3. CASE ~IsInd(a)
    <3>1. PICK x \in Dialers : OwnMessage(a, x)
      BY <1>0, <1>2, <1>3, <2>3 DEF Owned
    <3>2. x \in Connected /\ a.id \in list[fd[x]] /\ fd[x] \in Fds
      BY <1>0, <1>3, <3>1 DEF OwnMessage, Of, Connections, Connected, ProxyInv, QueueType
    <3>3. a.id # NoOne
      BY <1>1, <3>2, ProxyAssumption
    <3>4. y \in Connected /\ a.id \in list[fd[y]]
      BY <2>1, <3>3 DEF AreFor
    <3>5. x = y
      BY <1>0, <3>2, <3>4 DEF Lists
    <3> QED
      BY <2>1, <3>1, <3>5
  <2> QED
    BY <2>2, <2>3
<1> QED
  BY <1>1, <1>2, <1>3, <1>4

\* The message is delivered.
LEMMA RecvMuxOwner ==
  ASSUME OwnerInv, RecvMux PROVE Order' /\ CtlOrder' /\ Owned' /\ Delivered' /\ Lists' /\ Known' /\ Fresh'
<1>0. ProxyInv /\ Order /\ CtlOrder /\ Owned /\ Delivered /\ Lists /\ Known /\ Fresh
  BY DEF OwnerInv
<1> DEFINE a == outq[1]
<1>1. /\ Serving /\ Serving' /\ outq # <<>> /\ 1 \in DOMAIN outq /\ a.kind = "mux"
      /\ outq' = Tail(outq) /\ Proper(a)
      /\ UNCHANGED <<fd, list, ctlq, dlr, up, plugged, ids, inq>>
      /\ \A y \in Dialers :
           inbox'[y] = inbox[y] \/ (inbox'[y] = Append(inbox[y], a) /\ (IsInd(a) \/ OwnMessage(a, y)))
  BY RecvMuxFinds
<1>q. /\ inq \in Seq(Messages) /\ outq \in Seq(Messages) /\ a \in Messages
      /\ \A x \in Dialers : up[x] \in Seq(Messages) /\ inbox[x] \in Seq(Messages)
  <2>1. inq \in Seq(Messages) /\ outq \in Seq(Messages)
      /\ \A x \in Dialers : up[x] \in Seq(Messages) /\ inbox[x] \in Seq(Messages)
    BY <1>0, QueuesAre
  <2> HIDE DEF Messages
  <2> QED
    BY <1>1, <2>1, TailIs
<1>o. /\ \A x : Who(x)' = Who(x) /\ Holds(x)' = Holds(x)
      /\ Connected' = Connected /\ \A f : Live(f)' <=> Live(f)
  BY <1>1 DEF Who, Holds, Connected, Live
<1>w. \A y : \A x \in Dialers : OwnMessage(y, x) => (OwnMessage(y, x))'
  BY <1>1, <1>o DEF OwnMessage, Of
<1>c. ~IsCtl(a)
  BY <1>1 DEF IsCtl
<1> HIDE DEF a, Messages
<1>2. /\ \A i \in DOMAIN outq' : i + 1 \in DOMAIN outq /\ outq'[i] = outq[i + 1]
      /\ \A k \in DOMAIN outq : outq[k].kind = "release" => \E i \in DOMAIN outq' : outq'[i] = outq[k]
  <2>1. /\ \A i \in DOMAIN Tail(outq) : i + 1 \in DOMAIN outq /\ Tail(outq)[i] = outq[i + 1]
        /\ \A i \in DOMAIN outq : i = 1 \/ (i - 1 \in DOMAIN Tail(outq) /\ outq[i] = Tail(outq)[i - 1])
    BY <1>1, <1>q, TailIs
  <2>2. \A k \in DOMAIN outq : outq[k].kind = "release" => k # 1
    BY <1>1 DEF a
  <2> QED
    BY <1>1, <2>1, <2>2
<1>3. \A y \in Dialers : \A i \in DOMAIN inbox'[y] :
        \/ i \in DOMAIN inbox[y] /\ inbox'[y][i] = inbox[y][i]
        \/ inbox'[y][i] = a /\ (IsInd(a) \/ OwnMessage(a, y))
  <2> SUFFICES ASSUME NEW y \in Dialers, NEW i \in DOMAIN inbox'[y]
               PROVE  \/ i \in DOMAIN inbox[y] /\ inbox'[y][i] = inbox[y][i]
                      \/ inbox'[y][i] = a /\ (IsInd(a) \/ OwnMessage(a, y))
    OBVIOUS
  <2>1. CASE inbox'[y] = inbox[y]
    BY <2>1
  <2>2. CASE inbox'[y] = Append(inbox[y], a) /\ (IsInd(a) \/ OwnMessage(a, y))
    BY <1>q, <2>2, AppendIs
  <2> QED
    BY <1>1, <2>1, <2>2
<1>4. Order'
  <2>1. Sorted(outq) /\ Sorted(inq) /\ Ahead(outq, inq)
        /\ \A c \in Dialers :
             /\ Sorted(inbox[c]) /\ Sorted(up[c])
             /\ Ahead(inbox[c], outq) /\ Ahead(inbox[c], inq) /\ Ahead(inbox[c], up[c])
             /\ Ahead(outq, up[c]) /\ Ahead(inq, up[c])
    BY <1>0, <1>1 DEF Order
  <2>2. Sorted(outq') /\ \A i \in DOMAIN outq' : Precedes(a, outq'[i])
    BY <1>1, <1>q, <2>1, SortedTail DEF a
  <2>3. Ahead(outq', inq) /\ \A i \in DOMAIN inq : Precedes(a, inq[i])
    BY <1>1, <1>q, <2>1, AheadTail DEF a
  <2>4. ASSUME NEW c \in Dialers
        PROVE  /\ Sorted(inbox'[c]) /\ Ahead(inbox'[c], outq') /\ Ahead(inbox'[c], inq)
               /\ Ahead(inbox'[c], up[c]) /\ Ahead(outq', up[c])
    <3>1. Ahead(inbox[c], outq') /\ \A i \in DOMAIN inbox[c] : Precedes(inbox[c][i], a)
      BY <1>1, <1>q, <2>1, AheadTail DEF a
    <3>2. Ahead(outq', up[c]) /\ \A i \in DOMAIN up[c] : Precedes(a, up[c][i])
      BY <1>1, <1>q, <2>1, AheadTail DEF a
    <3>3. CASE inbox'[c] = Append(inbox[c], a)
      BY <1>q, <2>1, <2>2, <2>3, <3>1, <3>2, <3>3, SortedAppend, AheadAppend
    <3>4. CASE inbox'[c] = inbox[c]
      BY <2>1, <3>1, <3>2, <3>4
    <3> QED
      BY <1>1, <3>3, <3>4 DEF a
  <2> QED
    BY <1>1, <2>1, <2>2, <2>3, <2>4 DEF Order
<1>5. CtlOrder'
  <2>1. \A k \in DOMAIN ctlq : \A c \in Dialers : \A i \in DOMAIN inbox'[c] : Precedes(inbox'[c][i], ctlq[k].qmi)
    BY <1>0, <1>1, <1>3, <1>c DEF CtlOrder, a
  <2> QED
    BY <1>0, <1>1, <1>2, <2>1 DEF CtlOrder
<1>6. Owned'
  <2>1. \A i \in DOMAIN outq' : IsInd(outq'[i]) \/ \E x \in Dialers : (OwnMessage(outq[i], x))'
    BY <1>0, <1>1, <1>2, <1>w DEF Owned
  <2>2. /\ \A i \in DOMAIN inq : \E x \in Dialers : (OwnMessage(inq[i], x))'
        /\ \A x \in Dialers : \A i \in DOMAIN up[x] : (OwnMessage(up[x][i], x))'
        /\ \A i \in DOMAIN ctlq : \E x \in Dialers : (OwnMessage(ctlq[i].qmi, x))' /\ ctlq[i].fd = fd[x]
    BY <1>0, <1>1, <1>w DEF Owned
  <2> QED
    BY <1>1, <2>1, <2>2 DEF Owned, IsInd
<1>7. Delivered'
  <2>1. ASSUME NEW c \in Dialers, NEW i \in DOMAIN inbox'[c], ~IsInd(inbox'[c][i])
        PROVE  /\ inbox'[c][i].who = Who(c) /\ inbox'[c][i].tid \in 1..dlr[c].asks /\ dlr[c].ask # "none"
               /\ (IsCtl(inbox'[c][i]) => Holds(c) = NoOne)
               /\ (inbox'[c][i].kind = "get" /\ inbox'[c][i].ok /\ inbox'[c][i].tid = dlr[c].asks =>
                     inbox'[c][i].id \in list[fd[c]])
    <3>1. CASE i \in DOMAIN inbox[c] /\ inbox'[c][i] = inbox[c][i]
      BY <1>0, <2>1, <3>1 DEF Delivered
    <3>2. CASE inbox'[c][i] = a /\ OwnMessage(a, c)
      BY <1>1, <3>2 DEF OwnMessage, Of
    <3> QED
      BY <1>3, <2>1, <3>1, <3>2
  <2> QED
    BY <1>1, <1>o, <2>1 DEF Delivered, IsInd
<1>8. Lists'
  BY <1>0, <1>1, <1>o DEF Lists
<1>9. Known'
  <2>1. ASSUME NEW c \in Connected, NEW i \in list[fd[c]], plugged
        PROVE  \/ ids[i] = Who(c)
               \/ \E k \in DOMAIN outq' :
                    outq'[k].kind = "release" /\ outq'[k].who = Who(c) /\ outq'[k].id = i
    BY <1>0, <1>1, <1>2, <2>1 DEF Known
  <2>2. plugged => \A k \in DOMAIN outq' : outq'[k].kind = "get" /\ outq'[k].ok => ids[outq'[k].id] = outq'[k].who
    BY <1>0, <1>1, <1>2 DEF Known
  <2> QED
    BY <1>1, <1>o, <2>1, <2>2 DEF Known
<1> QED
  BY <1>0, <1>1, <1>4, <1>5, <1>6, <1>7, <1>8, <1>9 DEF Fresh


\* A dialer asks: what it asked before is under way first.
LEMMA AskOwner ==
  ASSUME OwnerInv, NEW c \in Dialers, Ask(c)
  PROVE  Order' /\ CtlOrder' /\ Owned' /\ Delivered' /\ Lists' /\ Known' /\ Fresh'
<1>0. /\ ProxyInv /\ Order /\ CtlOrder /\ Owned /\ Delivered /\ Lists /\ Known /\ Fresh
      /\ Connections /\ Idle
  BY DEF OwnerInv, ProxyInv
<1>1. PICK k \in Asking(c) :
         LET m == [kind |-> k, who |-> Who(c), id |-> Holds(c), tid |-> dlr[c].asks + 1] IN
         /\ dlr[c].st = "on" /\ dlr[c].asks < MaxAsks /\ m \in Requests
         /\ dlr'[c] = [st |-> "on", n |-> dlr[c].n, asks |-> dlr[c].asks + 1, ask |-> k, id |-> Holds(c)]
         /\ \A x \in Dialers \ {c} : dlr'[x] = dlr[x] /\ up'[x] = up[x]
         /\ up'[c] = Append(up[c], m) /\ k \in AskKinds /\ (k = "get" <=> Holds(c) = NoOne)
         /\ UNCHANGED <<loop, server, fd, list, ctlq, inbox, inq, outq, ids, plugged>>
  BY <1>0, AskIs
<1> DEFINE m == [kind |-> k, who |-> Who(c), id |-> Holds(c), tid |-> dlr[c].asks + 1]
<1>2. /\ m \in Requests /\ up'[c] = Append(up[c], m) /\ dlr[c].st = "on"
      /\ m.kind = k /\ m.who = Who(c) /\ m.id = Holds(c) /\ m.tid = dlr[c].asks + 1
      /\ dlr[c].asks \in Nat
      /\ dlr'[c].st = "on" /\ dlr'[c].n = dlr[c].n /\ dlr'[c].asks = dlr[c].asks + 1
      /\ dlr'[c].ask = k /\ dlr'[c].id = Holds(c) /\ k \in AskKinds /\ (k = "get" <=> Holds(c) = NoOne)
  <2>1. dlr[c].asks \in Nat
    BY <1>0, ProxyAssumption DEF ProxyInv, DialerType
  <2> QED
    BY <1>1, <2>1
<1>s. Serving /\ Serving' /\ fd[c] # 0
  BY <1>0, <1>1, <1>2 DEF Connections, Idle, Serving
<1>q. /\ inq \in Seq(Messages) /\ outq \in Seq(Messages) /\ m \in Messages
      /\ \A x \in Dialers : up[x] \in Seq(Messages) /\ inbox[x] \in Seq(Messages)
  BY <1>0, <1>2, QueuesAre DEF Messages
<1> HIDE DEF m, Messages
<1>o. /\ \A x \in Dialers : Who(x)' = Who(x)
      /\ \A x \in Dialers \ {c} : Holds(x)' = Holds(x)
      /\ Holds(c)' = (IF k = "release" THEN NoOne ELSE Holds(c))
      /\ Connected' = Connected /\ \A f : Live(f)' <=> Live(f)
  <2>1. \A x \in Dialers : dlr'[x].n = dlr[x].n
    BY <1>1, <1>2
  <2>2. Holds(c)' = (IF k = "release" THEN NoOne ELSE Holds(c))
    BY <1>2 DEF Holds
  <2> QED
    BY <1>1, <2>1, <2>2 DEF Who, Holds, Connected, Live
<1>w. \A y : \A x \in Dialers : OwnMessage(y, x) => (OwnMessage(y, x))'
  <2> SUFFICES ASSUME NEW y, NEW x \in Dialers, OwnMessage(y, x) PROVE (OwnMessage(y, x))'
    OBVIOUS
  <2>1. CASE x = c
    <3>1. y.tid \in 1..(dlr[c].asks + 1) /\ k # "none"
      BY <1>2, <2>1 DEF OwnMessage, AskKinds
    <3> QED
      BY <1>1, <1>2, <1>o, <2>1, <3>1 DEF OwnMessage, Of
  <2>2. CASE x # c
    BY <1>1, <1>o, <2>2 DEF OwnMessage, Of
  <2> QED
    BY <2>1, <2>2
<1>m. \A y : y = m => (OwnMessage(y, c))'
  <2> SUFFICES ASSUME NEW y, y = m PROVE (OwnMessage(y, c))'
    OBVIOUS
  <2>1. m.tid \in 1..(dlr[c].asks + 1) /\ k # "none"
    BY <1>2 DEF AskKinds
  <2>2. m.kind # "get" => m.id \in list[fd[c]]
    BY <1>0, <1>2 DEF Lists
  <2>3. IsCtl(m) => Holds(c)' = NoOne
    BY <1>2, <1>o DEF IsCtl
  <2> QED
    BY <1>1, <1>2, <1>o, <2>1, <2>2, <2>3 DEF OwnMessage, Of
<1>3. /\ \A y : IsInd(y) => Precedes(y, m)
      /\ \A y : \A x \in Dialers : OwnMessage(y, x) => Precedes(y, m)
      /\ \A i \in DOMAIN inbox[c] : Precedes(inbox[c][i], m)
  <2>0. \A y : y.tid \in 1..dlr[c].asks => y.tid < m.tid
    BY <1>2
  <2>1. \A y : IsInd(y) => Precedes(y, m)
    BY Apart DEF IsInd
  <2>2. \A y : OwnMessage(y, c) => Precedes(y, m)
    BY <1>2, <2>0 DEF OwnMessage, Precedes
  <2>3. \A y : \A x \in Dialers : x # c /\ OwnMessage(y, x) => Precedes(y, m)
    BY <1>0, <1>2, WhoIs, Apart DEF OwnMessage, Of
  <2>4. \A i \in DOMAIN inbox[c] : Precedes(inbox[c][i], m)
    BY <1>0, <1>2, <2>0, <2>1 DEF Delivered, Precedes
  <2> QED
    BY <2>1, <2>2, <2>3, <2>4
<1>4. Order'
  <2>1. Sorted(outq) /\ Sorted(inq) /\ Ahead(outq, inq)
        /\ \A x \in Dialers :
             /\ Sorted(inbox[x]) /\ Sorted(up[x])
             /\ Ahead(inbox[x], outq) /\ Ahead(inbox[x], inq) /\ Ahead(inbox[x], up[x])
             /\ Ahead(outq, up[x]) /\ Ahead(inq, up[x])
    BY <1>0, <1>s DEF Order
  <2>2. /\ \A i \in DOMAIN up[c] : Precedes(up[c][i], m)
        /\ \A i \in DOMAIN outq : Precedes(outq[i], m)
        /\ \A i \in DOMAIN inq : Precedes(inq[i], m)
    BY <1>0, <1>3, <1>s DEF Owned
  <2>3. Sorted(up'[c]) /\ Ahead(inbox[c], up'[c]) /\ Ahead(outq, up'[c]) /\ Ahead(inq, up'[c])
    BY <1>2, <1>3, <1>q, <2>1, <2>2, SortedAppend, AheadAppend
  <2> QED
    BY <1>1, <2>1, <2>3 DEF Order
<1>u. \A x \in Dialers : \A i \in DOMAIN up'[x] :
        (i \in DOMAIN up[x] /\ up'[x][i] = up[x][i]) \/ (x = c /\ up'[x][i] = m)
  <2>1. \A i \in DOMAIN up'[c] : (i \in DOMAIN up[c] /\ up'[c][i] = up[c][i]) \/ up'[c][i] = m
    BY <1>2, <1>q, AppendIs
  <2> QED
    BY <1>1, <2>1
<1>5. CtlOrder'
  <2>1. \A k1 \in DOMAIN ctlq : Precedes(ctlq[k1].qmi, m)
    BY <1>0, <1>3, <1>s DEF Owned
  <2>2. \A k1 \in DOMAIN ctlq : \A x \in Dialers : \A i \in DOMAIN up'[x] : Precedes(ctlq[k1].qmi, up'[x][i])
    BY <1>0, <1>s, <1>u, <2>1 DEF CtlOrder
  <2> QED
    BY <1>0, <1>1, <1>s, <2>2 DEF CtlOrder
<1>6. Owned'
  <2>1. /\ \A i \in DOMAIN outq : IsInd(outq[i]) \/ \E x \in Dialers : (OwnMessage(outq[i], x))'
        /\ \A i \in DOMAIN inq : \E x \in Dialers : (OwnMessage(inq[i], x))'
        /\ \A i \in DOMAIN ctlq : \E x \in Dialers : (OwnMessage(ctlq[i].qmi, x))' /\ ctlq[i].fd = fd[x]
    <3>1. /\ \A i \in DOMAIN outq : IsInd(outq[i]) \/ \E x \in Dialers : OwnMessage(outq[i], x)
          /\ \A i \in DOMAIN inq : \E x \in Dialers : OwnMessage(inq[i], x)
          /\ \A i \in DOMAIN ctlq : \E x \in Dialers : OwnMessage(ctlq[i].qmi, x) /\ ctlq[i].fd = fd[x]
      BY <1>0, <1>s DEF Owned
    <3>2. UNCHANGED <<outq, inq, ctlq>>
      BY <1>1
    <3>3. /\ \A i \in DOMAIN outq : \A x \in Dialers : OwnMessage(outq[i], x) => (OwnMessage(outq[i], x))'
          /\ \A i \in DOMAIN inq : \A x \in Dialers : OwnMessage(inq[i], x) => (OwnMessage(inq[i], x))'
          /\ \A i \in DOMAIN ctlq : \A x \in Dialers : OwnMessage(ctlq[i].qmi, x) => (OwnMessage(ctlq[i].qmi, x))'
      BY <1>w, <3>2
    <3> QED
      BY <3>1, <3>3
  <2>2. ASSUME NEW x \in Dialers, NEW i \in DOMAIN up'[x] PROVE (OwnMessage(up[x][i], x))'
    <3>1. CASE i \in DOMAIN up[x] /\ up'[x][i] = up[x][i]
      <4>1. OwnMessage(up'[x][i], x)
        BY <1>0, <1>s, <3>1 DEF Owned
      <4> QED
        BY <1>w, <4>1
    <3>2. CASE x = c /\ up'[x][i] = m
      BY <1>m, <3>2
    <3> QED
      BY <1>u, <2>2, <3>1, <3>2
  <2> QED
    BY <1>1, <2>1, <2>2 DEF Owned, IsInd
<1>7. Delivered'
  <2>1. ASSUME NEW x \in Dialers, NEW i \in DOMAIN inbox[x], ~IsInd(inbox[x][i])
        PROVE  /\ inbox[x][i].who = Who(x) /\ inbox[x][i].tid \in 1..dlr'[x].asks /\ dlr'[x].ask # "none"
               /\ (IsCtl(inbox[x][i]) => Holds(x)' = NoOne)
               /\ (inbox[x][i].kind = "get" /\ inbox[x][i].ok /\ inbox[x][i].tid = dlr'[x].asks =>
                     inbox[x][i].id \in list[fd[x]])
    <3>1. /\ inbox[x][i].who = Who(x) /\ inbox[x][i].tid \in 1..dlr[x].asks /\ dlr[x].ask # "none"
          /\ (IsCtl(inbox[x][i]) => Holds(x) = NoOne)
          /\ (inbox[x][i].kind = "get" /\ inbox[x][i].ok /\ inbox[x][i].tid = dlr[x].asks =>
                inbox[x][i].id \in list[fd[x]])
      BY <1>0, <2>1 DEF Delivered
    <3>2. CASE x # c
      BY <1>1, <1>o, <3>1, <3>2
    <3>3. CASE x = c
      <4>1. inbox[c][i].tid \in 1..(dlr[c].asks + 1) /\ inbox[c][i].tid # dlr[c].asks + 1
        BY <1>2, <3>1, <3>3
      <4> QED
        BY <1>2, <1>o, <3>1, <3>3, <4>1 DEF AskKinds
    <3> QED
      BY <3>2, <3>3
  <2> QED
    BY <1>1, <1>o, <2>1 DEF Delivered, IsInd
<1>8. Lists'
  <2>1. \A x \in Dialers : dlr'[x].st = "on" /\ Holds(x)' # NoOne => Holds(x)' \in list[fd[x]]
    BY <1>0, <1>1, <1>2, <1>o DEF Lists
  <2> QED
    BY <1>0, <1>1, <1>o, <2>1 DEF Lists
<1>9. Known'
  <2>1. \A x \in Connected : Who(x)' = Who(x)
    BY <1>o DEF Connected
  <2> QED
    BY <1>0, <1>1, <1>o, <1>s, <2>1 DEF Known
<1>10. Fresh'
  <2>1. dlr[c].asks + 1 > 0
    BY <1>2
  <2> QED
    BY <1>0, <1>1, <1>2, <2>1 DEF Fresh
<1> QED
  BY <1>4, <1>5, <1>6, <1>7, <1>8, <1>9, <1>10


\* A dialer reads an answer.  When it is to what it asked last, there is nothing of
\* it under way any more.
LEMMA ReceiveOwner ==
  ASSUME OwnerInv, NEW c \in Dialers, Receive(c)
  PROVE  Order' /\ CtlOrder' /\ Owned' /\ Delivered' /\ Lists' /\ Known' /\ Fresh'
<1>0. /\ ProxyInv /\ Order /\ CtlOrder /\ Owned /\ Delivered /\ Lists /\ Known /\ Fresh
      /\ Connections /\ Idle
  BY DEF OwnerInv, ProxyInv
<1> DEFINE b == inbox[c][1]
           mine == b.kind = dlr[c].ask /\ b.tid = dlr[c].asks
<1>1. /\ inbox[c] # <<>> /\ 1 \in DOMAIN inbox[c] /\ inbox'[c] = Tail(inbox[c]) /\ Proper(b)
      /\ \A x \in Dialers \ {c} : dlr'[x] = dlr[x] /\ inbox'[x] = inbox[x]
      /\ dlr'[c].st = dlr[c].st /\ dlr'[c].n = dlr[c].n /\ dlr'[c].asks = dlr[c].asks
      /\ (~mine => dlr'[c] = dlr[c])
      /\ (mine => /\ dlr'[c].ask = "none"
                  /\ \/ dlr'[c].id = dlr[c].id /\ (b.kind = "mux" \/ ~b.ok)
                     \/ dlr'[c].id = b.id /\ b.kind = "get" /\ b.ok
                     \/ dlr'[c].id = NoOne /\ b.kind = "release")
      /\ UNCHANGED <<loop, server, fd, list, ctlq, up, inq, outq, ids, plugged>>
  BY <1>0, ReceiveIs
<1>s. Serving /\ Serving' /\ fd[c] # 0 /\ dlr[c].st = "on"
  BY <1>0, <1>1 DEF Connections, Idle, Serving
<1>q. /\ inq \in Seq(Messages) /\ outq \in Seq(Messages)
      /\ \A x \in Dialers : up[x] \in Seq(Messages) /\ inbox[x] \in Seq(Messages)
      /\ dlr[c].asks \in Nat /\ dlr[c].ask \in {"none"} \union AskKinds
  BY <1>0, QueuesAre, ProxyAssumption DEF ProxyInv, DialerType
<1>b. mine => /\ b.who = Who(c) /\ b.who # NoOne /\ dlr[c].ask # "none"
              /\ (IsCtl(b) => Holds(c) = NoOne)
              /\ (b.kind = "get" /\ b.ok => b.id \in list[fd[c]])
  <2>1. ASSUME mine, IsInd(b) PROVE FALSE
    <3>1. dlr[c].ask = "mux" /\ dlr[c].asks = 0
      BY <2>1 DEF IsInd
    <3> QED
      BY <1>0, <3>1 DEF Fresh
  <2>2. Who(c) # NoOne
    BY <1>0, WhoIs
  <2> QED
    BY <1>0, <1>1, <2>1, <2>2 DEF Delivered
<1>o. /\ \A x \in Dialers : Who(x)' = Who(x)
      /\ \A x \in Dialers \ {c} : Holds(x)' = Holds(x)
      /\ (~mine => Holds(c)' = Holds(c))
      /\ (mine => Holds(c)' = dlr'[c].id)
      /\ Connected' = Connected /\ \A f : Live(f)' <=> Live(f)
  <2>1. \A x \in Dialers : dlr'[x].n = dlr[x].n
    BY <1>1
  <2>2. mine => Holds(c)' = dlr'[c].id
    BY <1>1 DEF Holds
  <2> QED
    BY <1>1, <2>1, <2>2 DEF Who, Holds, Connected, Live
<1> HIDE DEF b, Messages
<1>l. \A y : y.tid \in 1..dlr[c].asks /\ y.who = Who(c) /\ Precedes(b, y) => ~mine
  BY <1>b, <1>q DEF Precedes
<1>w. \A y : \A x \in Dialers : OwnMessage(y, x) /\ Precedes(b, y) => (OwnMessage(y, x))'
  <2> SUFFICES ASSUME NEW y, NEW x \in Dialers, OwnMessage(y, x), Precedes(b, y) PROVE (OwnMessage(y, x))'
    OBVIOUS
  <2>1. CASE x = c
    <3>1. ~mine
      BY <1>l, <2>1 DEF OwnMessage, Of
    <3> HIDE DEF mine
    <3> QED
      BY <1>1, <1>o, <2>1, <3>1 DEF OwnMessage, Of
  <2>2. CASE x # c
    BY <1>1, <1>o, <2>2 DEF OwnMessage, Of
  <2> QED
    BY <2>1, <2>2
<1>2. \A i \in DOMAIN inbox'[c] : i + 1 \in DOMAIN inbox[c] /\ inbox'[c][i] = inbox[c][i + 1]
                                  /\ Precedes(b, inbox'[c][i])
  <2>1. \A i \in DOMAIN Tail(inbox[c]) : i + 1 \in DOMAIN inbox[c] /\ Tail(inbox[c])[i] = inbox[c][i + 1]
    BY <1>1, <1>q, RestIs
  <2>2. \A i \in DOMAIN Tail(inbox[c]) : Precedes(b, Tail(inbox[c])[i])
    BY <1>0, <1>1, <1>q, <1>s, SortedTail DEF Order, b
  <2> QED
    BY <1>1, <2>1, <2>2
<1>3. Order'
  <2>1. Sorted(outq) /\ Sorted(inq) /\ Ahead(outq, inq)
        /\ \A x \in Dialers :
             /\ Sorted(inbox[x]) /\ Sorted(up[x])
             /\ Ahead(inbox[x], outq) /\ Ahead(inbox[x], inq) /\ Ahead(inbox[x], up[x])
             /\ Ahead(outq, up[x]) /\ Ahead(inq, up[x])
    BY <1>0, <1>s DEF Order
  <2>2. Sorted(inbox'[c]) /\ Ahead(inbox'[c], outq) /\ Ahead(inbox'[c], inq) /\ Ahead(inbox'[c], up[c])
    BY <1>1, <1>q, <2>1, SortedTail, AheadTail
  <2> QED
    BY <1>1, <2>1, <2>2 DEF Order
<1>4. CtlOrder'
  <2>1. \A k \in DOMAIN ctlq : \A x \in Dialers : \A i \in DOMAIN inbox'[x] : Precedes(inbox'[x][i], ctlq[k].qmi)
    <3>1. \A x \in Dialers : \A i \in DOMAIN inbox'[x] : \E j \in DOMAIN inbox[x] : inbox'[x][i] = inbox[x][j]
      <4>1. ASSUME NEW x \in Dialers, NEW i \in DOMAIN inbox'[x]
            PROVE  \E j \in DOMAIN inbox[x] : inbox'[x][i] = inbox[x][j]
        <5>1. CASE x = c
          BY <1>2, <4>1, <5>1
        <5>2. CASE x # c
          BY <1>1, <4>1, <5>2
        <5> QED
          BY <5>1, <5>2
      <4> QED
        BY <4>1
    <3> QED
      BY <1>0, <1>s, <3>1 DEF CtlOrder
  <2> QED
    BY <1>0, <1>1, <1>s, <2>1 DEF CtlOrder
<1>5. Owned'
  <2>1. /\ \A i \in DOMAIN outq : Precedes(b, outq[i])
        /\ \A i \in DOMAIN inq : Precedes(b, inq[i])
        /\ \A i \in DOMAIN up[c] : Precedes(b, up[c][i])
        /\ \A i \in DOMAIN ctlq : Precedes(b, ctlq[i].qmi)
    BY <1>0, <1>1, <1>s DEF Order, Ahead, CtlOrder, b
  <2>2. /\ \A i \in DOMAIN outq : IsInd(outq[i]) \/ \E x \in Dialers : OwnMessage(outq[i], x)
        /\ \A i \in DOMAIN inq : \E x \in Dialers : OwnMessage(inq[i], x)
        /\ \A i \in DOMAIN ctlq : \E x \in Dialers : OwnMessage(ctlq[i].qmi, x) /\ ctlq[i].fd = fd[x]
        /\ \A x \in Dialers : \A i \in DOMAIN up[x] : OwnMessage(up[x][i], x)
    BY <1>0, <1>s DEF Owned
  <2>3. UNCHANGED <<outq, inq, ctlq, up, fd>>
    BY <1>1
  <2>4. \A i \in DOMAIN outq : \A x \in Dialers : OwnMessage(outq[i], x) => (OwnMessage(outq[i], x))'
    BY <1>w, <2>1, <2>3
  <2>5. \A i \in DOMAIN inq : \A x \in Dialers : OwnMessage(inq[i], x) => (OwnMessage(inq[i], x))'
    BY <1>w, <2>1, <2>3
  <2>6. \A i \in DOMAIN ctlq : \A x \in Dialers : OwnMessage(ctlq[i].qmi, x) => (OwnMessage(ctlq[i].qmi, x))'
    BY <1>w, <2>1, <2>3
  <2>7. ASSUME NEW x \in Dialers, NEW i \in DOMAIN up[x] PROVE (OwnMessage(up[x][i], x))'
    <3>1. Precedes(b, up[x][i])
      <4>1. CASE x = c
        BY <2>1, <2>7, <4>1
      <4>2. CASE x # c
        <5>1. b.who \in {NoOne, Who(c)} /\ up[x][i].who = Who(x)
          BY <1>1, <1>s, <2>7, NamesAre DEF b
        <5> QED
          BY <4>2, <5>1, NamesAre
      <4> QED
        BY <4>1, <4>2
    <3> QED
      BY <1>w, <2>2, <2>3, <2>7, <3>1
  <2> QED
    BY <2>2, <2>3, <2>4, <2>5, <2>6, <2>7 DEF Owned, IsInd
<1>6. Delivered'
  <2>1. ASSUME NEW x \in Dialers, NEW i \in DOMAIN inbox'[x], ~IsInd(inbox'[x][i])
        PROVE  /\ inbox'[x][i].who = Who(x) /\ inbox'[x][i].tid \in 1..dlr'[x].asks /\ dlr'[x].ask # "none"
               /\ (IsCtl(inbox'[x][i]) => Holds(x)' = NoOne)
               /\ (inbox'[x][i].kind = "get" /\ inbox'[x][i].ok /\ inbox'[x][i].tid = dlr'[x].asks =>
                     inbox'[x][i].id \in list[fd[x]])
    <3>1. CASE x = c
      <4>1. /\ inbox'[c][i].who = Who(c) /\ inbox'[c][i].tid \in 1..dlr[c].asks /\ dlr[c].ask # "none"
            /\ (IsCtl(inbox'[c][i]) => Holds(c) = NoOne)
            /\ (inbox'[c][i].kind = "get" /\ inbox'[c][i].ok /\ inbox'[c][i].tid = dlr[c].asks =>
                  inbox'[c][i].id \in list[fd[c]])
        BY <1>0, <1>2, <2>1, <3>1 DEF Delivered
      <4>2. ~mine
        BY <1>2, <1>l, <2>1, <3>1, <4>1
      <4> HIDE DEF mine
      <4> QED
        BY <1>1, <1>o, <3>1, <4>1, <4>2
    <3>2. CASE x # c
      BY <1>0, <1>1, <1>o, <2>1, <3>2 DEF Delivered
    <3> QED
      BY <3>1, <3>2
  <2> QED
    BY <1>1, <1>o, <2>1 DEF Delivered, IsInd
<1>7. Lists'
  <2>1. dlr'[c].st = "on" /\ Holds(c)' # NoOne => Holds(c)' \in list[fd[c]]
    <3>1. CASE ~mine
      <4> HIDE DEF mine
      <4> QED
        BY <1>0, <1>1, <1>o, <3>1 DEF Lists
    <3>2. CASE mine
      <4>1. CASE dlr'[c].id = dlr[c].id /\ (b.kind = "mux" \/ ~b.ok)
        <5>1. b.kind # "release"
          BY <1>1, <4>1 DEF Proper
        <5>2. dlr[c].ask # "release"
          BY <3>2, <5>1
        <5>3. Holds(c)' = Holds(c)
          BY <1>o, <3>2, <4>1, <5>2 DEF Holds
        <5> QED
          BY <1>0, <1>s, <5>3 DEF Lists
      <4>2. CASE dlr'[c].id = b.id /\ b.kind = "get" /\ b.ok
        BY <1>b, <1>o, <3>2, <4>2
      <4>3. CASE dlr'[c].id = NoOne /\ b.kind = "release"
        BY <1>o, <3>2, <4>3
      <4> QED
        BY <1>1, <3>2, <4>1, <4>2, <4>3
    <3> QED
      BY <3>1, <3>2
  <2> QED
    BY <1>0, <1>1, <1>o, <2>1 DEF Lists
<1>8. Known'
  <2>1. \A x \in Connected : Who(x)' = Who(x)
    BY <1>o DEF Connected
  <2> QED
    BY <1>0, <1>1, <1>o, <1>s, <2>1 DEF Known
<1>9. Fresh'
  <2>1. dlr'[c].st = "on" /\ (dlr'[c].ask # "none" => dlr'[c].asks > 0)
    <3>1. CASE ~mine
      <4> HIDE DEF mine
      <4> QED
        BY <1>0, <1>1, <1>s, <3>1 DEF Fresh
    <3>2. CASE mine
      BY <1>1, <1>s, <3>2
    <3> QED
      BY <3>1, <3>2
  <2> QED
    BY <1>0, <1>1, <2>1 DEF Fresh
<1> QED
  BY <1>3, <1>4, <1>5, <1>6, <1>7, <1>8, <1>9


\* A step of a dialer that waits for nothing, or of its connection, leaves the messages
\* of the others alone.
LEMMA OthersKeep ==
  ASSUME OwnerInv, NEW c \in Dialers, dlr[c].ask = "none" \/ dlr[c].st # "on",
         \A x \in Dialers \ {c} :
           /\ dlr'[x] = dlr[x] /\ fd'[x] = fd[x] /\ inbox'[x] = inbox[x]
           /\ dlr[x].st = "on" => list'[fd[x]] = list[fd[x]],
         inbox'[c] = inbox[c] \/ inbox'[c] = <<>>,
         UNCHANGED <<up, inq, outq, ctlq>>, Serving' => Serving
  PROVE  Order' /\ CtlOrder' /\ Owned' /\ Delivered'
<1>0. ProxyInv /\ Order /\ CtlOrder /\ Owned /\ Delivered /\ Connections
  BY DEF OwnerInv, ProxyInv
<1>1. \A i \in DOMAIN inbox'[c] : i \in DOMAIN inbox[c] /\ inbox'[c][i] = inbox[c][i]
  <2>1. DOMAIN <<>> = {}
    OBVIOUS
  <2> QED
    BY <2>1
<1>2. \A i \in DOMAIN inbox[c] : IsInd(inbox[c][i])
  <2>1. CASE dlr[c].ask = "none"
    BY <1>0, <2>1 DEF Delivered
  <2>2. CASE dlr[c].st # "on"
    <3>1. inbox[c] = <<>> /\ DOMAIN <<>> = {}
      BY <1>0, <2>2 DEF Connections
    <3> QED
      BY <3>1
  <2> QED
    BY <2>1, <2>2
<1>o. \A x \in Dialers \ {c} : Who(x)' = Who(x) /\ Holds(x)' = Holds(x)
  BY DEF Who, Holds
<1>w. \A y : \A x \in Dialers : OwnMessage(y, x) => (OwnMessage(y, x))' /\ fd'[x] = fd[x]
  <2> SUFFICES ASSUME NEW y, NEW x \in Dialers, OwnMessage(y, x)
               PROVE  (OwnMessage(y, x))' /\ fd'[x] = fd[x]
    OBVIOUS
  <2>1. x # c
    BY DEF OwnMessage, Of
  <2>2. dlr[x].st = "on" /\ dlr'[x] = dlr[x] /\ fd'[x] = fd[x]
    BY <2>1 DEF OwnMessage, Of
  <2>3. list'[fd[x]] = list[fd[x]] /\ Who(x)' = Who(x) /\ Holds(x)' = Holds(x)
    BY <1>o, <2>1, <2>2
  <2> QED
    BY <2>2, <2>3 DEF OwnMessage, Of
<1>3. Order'
  <2>1. \A q : Ahead(inbox[c], q) => Ahead(inbox'[c], q)
    BY <1>1 DEF Ahead
  <2>2. Sorted(inbox[c]) => Sorted(inbox'[c])
    BY <1>1 DEF Sorted
  <2> QED
    BY <1>0, <2>1, <2>2 DEF Order
<1>4. CtlOrder'
  <2>1. \A x \in Dialers : \A i \in DOMAIN inbox'[x] : i \in DOMAIN inbox[x] /\ inbox'[x][i] = inbox[x][i]
    BY <1>1
  <2> QED
    BY <1>0, <2>1 DEF CtlOrder
<1>5. Owned'
  <2> SUFFICES ASSUME Serving' PROVE Owned'
    BY DEF Owned
  <2>1. /\ \A i \in DOMAIN outq : IsInd(outq[i]) \/ \E x \in Dialers : OwnMessage(outq[i], x)
        /\ \A i \in DOMAIN inq : \E x \in Dialers : OwnMessage(inq[i], x)
        /\ \A i \in DOMAIN ctlq : \E x \in Dialers : OwnMessage(ctlq[i].qmi, x) /\ ctlq[i].fd = fd[x]
        /\ \A x \in Dialers : \A i \in DOMAIN up[x] : OwnMessage(up[x][i], x)
    BY <1>0 DEF Owned
  <2>2. /\ \A i \in DOMAIN outq : \A x \in Dialers : OwnMessage(outq[i], x) => (OwnMessage(outq[i], x))'
        /\ \A i \in DOMAIN inq : \A x \in Dialers : OwnMessage(inq[i], x) => (OwnMessage(inq[i], x))'
        /\ \A x \in Dialers : \A i \in DOMAIN up[x] : OwnMessage(up[x][i], x) => (OwnMessage(up[x][i], x))'
    BY <1>w
  <2>3. \A i \in DOMAIN ctlq : \A x \in Dialers :
          OwnMessage(ctlq[i].qmi, x) => (OwnMessage(ctlq[i].qmi, x))' /\ fd'[x] = fd[x]
    BY <1>w
  <2> QED
    BY <2>1, <2>2, <2>3 DEF Owned, IsInd
<1>6. Delivered'
  <2>1. ASSUME NEW x \in Dialers, NEW i \in DOMAIN inbox'[x], ~IsInd(inbox'[x][i])
        PROVE  /\ x # c /\ i \in DOMAIN inbox[x]
               /\ inbox[x][i].who = Who(x) /\ inbox[x][i].tid \in 1..dlr[x].asks /\ dlr[x].ask # "none"
               /\ (IsCtl(inbox[x][i]) => Holds(x) = NoOne)
               /\ (inbox[x][i].kind = "get" /\ inbox[x][i].ok /\ inbox[x][i].tid = dlr[x].asks =>
                     inbox[x][i].id \in list[fd[x]])
    <3>1. x # c
      BY <1>1, <1>2, <2>1
    <3> QED
      BY <1>0, <2>1, <3>1 DEF Delivered
  <2>2. \A x \in Dialers : \A i \in DOMAIN inbox[x] : dlr[x].st = "on"
    <3>1. DOMAIN <<>> = {}
      OBVIOUS
    <3> QED
      BY <1>0, <3>1 DEF Connections
  <2>3. ASSUME NEW x \in Dialers, NEW i \in DOMAIN inbox'[x], ~IsInd(inbox'[x][i])
        PROVE  /\ inbox'[x][i].who = Who(x)' /\ inbox'[x][i].tid \in 1..dlr'[x].asks /\ dlr'[x].ask # "none"
               /\ (IsCtl(inbox'[x][i]) => Holds(x)' = NoOne)
               /\ (inbox'[x][i].kind = "get" /\ inbox'[x][i].ok /\ inbox'[x][i].tid = dlr'[x].asks =>
                     inbox'[x][i].id \in list'[fd'[x]])
    <3>1. x # c /\ dlr[x].st = "on"
      BY <2>1, <2>2, <2>3
    <3> QED
      BY <1>o, <2>1, <2>3, <3>1
  <2> QED
    BY <2>3 DEF Delivered, IsInd
<1> QED
  BY <1>3, <1>4, <1>5, <1>6


\* A dialer hangs up.
LEMMA CloseOwner ==
  ASSUME Orderly, OwnerInv, NEW c \in Dialers, Close(c)
  PROVE  Order' /\ CtlOrder' /\ Owned' /\ Delivered' /\ Lists' /\ Known' /\ Fresh'
<1>0. ProxyInv /\ Lists /\ Known /\ Fresh
  BY DEF OwnerInv
<1>1. /\ dlr[c].st = "on" /\ dlr[c].ask = "none"
      /\ dlr'[c].st = "closed" /\ dlr'[c].ask = "none" /\ dlr'[c].n = dlr[c].n /\ inbox'[c] = <<>>
      /\ \A x \in Dialers \ {c} : dlr'[x] = dlr[x] /\ inbox'[x] = inbox[x]
      /\ UNCHANGED <<loop, server, fd, list, ctlq, up, inq, outq, ids, plugged>>
  BY <1>0, CloseIs
<1>2. Order' /\ CtlOrder' /\ Owned' /\ Delivered'
  <2>1. Serving' => Serving
    BY <1>1 DEF Serving
  <2> QED
    BY <1>1, <2>1, OthersKeep
<1>o. /\ \A x \in Dialers : Who(x)' = Who(x)
      /\ \A x \in Dialers \ {c} : Holds(x)' = Holds(x)
      /\ Connected' = Connected /\ \A f : Live(f)' <=> Live(f)
  BY <1>1 DEF Who, Holds, Connected, Live
<1>3. Lists'
  BY <1>0, <1>1, <1>o DEF Lists
<1>4. Known'
  <2>1. \A x \in Connected : Who(x)' = Who(x)
    BY <1>o DEF Connected
  <2> QED
    BY <1>0, <1>1, <1>o, <2>1 DEF Known, Serving
<1>5. Fresh'
  BY <1>0, <1>1 DEF Fresh
<1> QED
  BY <1>2, <1>3, <1>4, <1>5

\* A dialer connects.
LEMMA ConnectOwner ==
  ASSUME OwnerInv, NEW c \in Dialers, Connect(c)
  PROVE  Order' /\ CtlOrder' /\ Owned' /\ Delivered' /\ Lists' /\ Known' /\ Fresh'
<1>0. ProxyInv /\ Lists /\ Known /\ Fresh /\ Connections
  BY DEF OwnerInv, ProxyInv
<1>1. /\ dlr[c].st = "off" /\ dlr'[c].st = "queued"
      /\ dlr'[c].asks = 0 /\ dlr'[c].ask = "none" /\ dlr'[c].id = NoOne
      /\ \A x \in Dialers \ {c} : dlr'[x] = dlr[x]
      /\ UNCHANGED <<loop, server, fd, list, ctlq, up, inbox, inq, outq, ids, plugged>>
  BY <1>0, ConnectIs
<1>2. Order' /\ CtlOrder' /\ Owned' /\ Delivered'
  <2>1. Serving' => Serving
    BY <1>1 DEF Serving
  <2>2. dlr[c].st # "on"
    BY <1>1
  <2> QED
    BY <1>1, <2>1, <2>2, OthersKeep
<1>o. /\ \A x \in Dialers \ {c} : Who(x)' = Who(x) /\ Holds(x)' = Holds(x)
      /\ Connected' = Connected /\ \A f : Live(f)' <=> Live(f)
  BY <1>1 DEF Who, Holds, Connected, Live
<1>3. Lists'
  BY <1>0, <1>1, <1>o DEF Lists
<1>4. Known'
  <2>1. \A x \in Connected : Who(x)' = Who(x)
    BY <1>0, <1>1, <1>o DEF Connected, Connections
  <2> QED
    BY <1>0, <1>1, <1>o, <2>1 DEF Known, Serving
<1>5. Fresh'
  BY <1>0, <1>1 DEF Fresh
<1> QED
  BY <1>2, <1>3, <1>4, <1>5

\* A dialer is accepted: the list of its connection is empty.
LEMMA AcceptOwner ==
  ASSUME OwnerInv, NEW c \in Dialers, Accept(c)
  PROVE  Order' /\ CtlOrder' /\ Owned' /\ Delivered' /\ Lists' /\ Known' /\ Fresh'
<1>0. ProxyInv /\ Lists /\ Known /\ Fresh /\ Connections
  BY DEF OwnerInv, ProxyInv
<1>1. /\ Serving /\ fd[c] = 0 /\ fd'[c] \in Fds /\ fd'[c] # 0
      /\ \A x \in Dialers : fd[x] # fd'[c]
      /\ \A x \in Dialers \ {c} : fd'[x] = fd[x] /\ dlr'[x] = dlr[x]
      /\ dlr[c].st = "queued" /\ dlr'[c] = [dlr[c] EXCEPT !.st = "on"] /\ dlr'[c].st = "on"
  BY <1>0, AcceptIs
<1>2. /\ UNCHANGED <<list, ctlq, up, inbox, inq, outq, ids, plugged>>
      /\ dlr'[c].ask = "none" /\ dlr'[c].id = NoOne /\ dlr'[c].n = dlr[c].n
  <2>1. dlr[c].ask = "none" /\ dlr[c].id = NoOne
    BY <1>0, <1>1 DEF Fresh
  <2>2. dlr[c] \in DialerStates
    BY <1>0 DEF ProxyInv, DialerType, DialerStates
  <2>3. dlr'[c].ask = dlr[c].ask /\ dlr'[c].id = dlr[c].id /\ dlr'[c].n = dlr[c].n
    BY <1>1, <2>2 DEF DialerStates
  <2> QED
    BY <2>1, <2>3 DEF Accept, modemVars
<1>3. Order' /\ CtlOrder' /\ Owned' /\ Delivered'
  <2>1. dlr[c].st # "on"
    BY <1>1
  <2> QED
    BY <1>1, <1>2, <2>1, OthersKeep
<1>o. /\ \A x \in Dialers : Who(x)' = Who(x)
      /\ \A x \in Dialers \ {c} : Holds(x)' = Holds(x)
      /\ Holds(c)' = NoOne /\ Connected' = Connected \union {c}
      /\ \A x \in Connected : x # c /\ fd'[x] = fd[x]
  BY <1>1, <1>2 DEF Who, Holds, Connected
<1>4. list[fd'[c]] = {}
  BY <1>0, <1>1 DEF Lists, Live, Connected
<1>5. Lists'
  <2>1. \A f \in Fds : Live(f) => Live(f)'
    BY <1>o DEF Live
  <2>2. \A x, y \in Connected \union {c} : x # y => list[fd'[x]] \intersect list[fd'[y]] = {}
    BY <1>0, <1>4, <1>o DEF Lists
  <2>3. \A x \in Dialers : dlr'[x].st = "on" /\ Holds(x)' # NoOne => Holds(x)' \in list[fd'[x]]
    BY <1>0, <1>1, <1>o DEF Lists
  <2> QED
    BY <1>0, <1>2, <1>o, <2>1, <2>2, <2>3 DEF Lists
<1>6. Known'
  <2>1. \A x \in Connected : Who(x)' = Who(x)
    BY <1>o DEF Connected
  <2> QED
    BY <1>0, <1>1, <1>2, <1>4, <1>o, <2>1 DEF Known
<1>7. Fresh'
  BY <1>0, <1>1, <1>2 DEF Fresh
<1> QED
  BY <1>3, <1>5, <1>6, <1>7

\* A connection is cleaned up.
LEMMA CleanupOwner ==
  ASSUME OwnerInv, NEW c \in Dialers, Cleanup(c)
  PROVE  Order' /\ CtlOrder' /\ Owned' /\ Delivered' /\ Lists' /\ Known' /\ Fresh'
<1>0. ProxyInv /\ Lists /\ Known /\ Fresh /\ Connections
  BY DEF OwnerInv, ProxyInv
<1>1. /\ Serving /\ fd[c] \in Fds /\ fd[c] # 0 /\ fd'[c] = 0 /\ dlr[c].st = "closed"
      /\ dlr'[c].st = "off" /\ dlr'[c].ask = "none" /\ dlr'[c].n = dlr[c].n /\ dlr'[c].id = NoOne
      /\ \A x \in Dialers \ {c} : fd'[x] = fd[x] /\ dlr'[x] = dlr[x]
      /\ UNCHANGED <<ctlq, up, inbox, inq, outq, ids, plugged>>
      /\ list' = [list EXCEPT ![fd[c]] = {}] /\ list \in [Fds -> SUBSET Ids]
  BY <1>0, CleanupIs DEF ProxyInv, QueueType
<1>2. \A x \in Connected : /\ x \in Dialers /\ fd[x] \in Fds
                           /\ (x # c => fd'[x] = fd[x] /\ list'[fd[x]] = list[fd[x]])
  BY <1>0, <1>1 DEF Connected, Connections, ProxyInv, QueueType
<1>3. Order' /\ CtlOrder' /\ Owned' /\ Delivered'
  <2>1. \A x \in Dialers \ {c} : dlr[x].st = "on" => list'[fd[x]] = list[fd[x]]
    BY <1>0, <1>2 DEF Connections, Connected
  <2>2. dlr[c].st # "on"
    BY <1>1
  <2> QED
    BY <1>1, <2>1, <2>2, OthersKeep
<1>o. /\ \A x \in Dialers : Who(x)' = Who(x)
      /\ \A x \in Dialers \ {c} : Holds(x)' = Holds(x)
      /\ Connected' = Connected \ {c}
  BY <1>1 DEF Who, Holds, Connected
<1>5. Lists'
  <2>1. \A f \in Fds : ~Live(f)' => f = fd[c] \/ ~Live(f)
    BY <1>2, <1>o DEF Live
  <2>2. \A f \in Fds : ~Live(f)' => list'[f] = {}
    BY <1>0, <1>1, <2>1 DEF Lists
  <2>3. \A x, y \in Connected \ {c} : x # y => list'[fd'[x]] \intersect list'[fd'[y]] = {}
    BY <1>0, <1>2 DEF Lists
  <2>4. \A x \in Dialers : dlr'[x].st = "on" /\ Holds(x)' # NoOne => Holds(x)' \in list'[fd'[x]]
    <3>1. \A x \in Dialers : dlr[x].st = "on" => x \in Connected
      BY <1>0 DEF Connected, Connections
    <3> QED
      BY <1>0, <1>1, <1>2, <1>o, <3>1 DEF Lists
  <2> QED
    BY <1>o, <2>2, <2>3, <2>4 DEF Lists
<1>6. Known'
  <2>1. \A x \in Connected : Who(x)' = Who(x)
    BY <1>o DEF Connected
  <2> QED
    BY <1>0, <1>1, <1>2, <1>o, <2>1 DEF Known
<1>7. Fresh'
  BY <1>0, <1>1 DEF Fresh
<1> QED
  BY <1>3, <1>5, <1>6, <1>7


\* Nothing is said of the order while the server does not run.
LEMMA NotServing ==
  ASSUME ~Serving' PROVE Order' /\ CtlOrder' /\ Owned' /\ Known'
BY DEF Order, CtlOrder, Owned, Known

\* Without the server the dialers wait for nothing.
LEMMA NobodyWaits ==
  ASSUME OwnerInv, ~Serving
  PROVE  /\ \A c \in Dialers : fd[c] = 0 /\ dlr[c].st # "on" /\ up[c] = <<>> /\ inbox[c] = <<>>
         /\ \A f \in Fds : list[f] = {}
         /\ Connected = {}
<1>1. Idle /\ Connections
  BY DEF OwnerInv, ProxyInv
<1> QED
  BY <1>1 DEF Idle, Connections, Connected

\* The server starts with empty queues.
LEMMA MainOwner ==
  ASSUME Orderly, OwnerInv, InitNext \/ InitTimeout
  PROVE  Order' /\ CtlOrder' /\ Owned' /\ Known'
<1>0. ProxyInv /\ Phase /\ Idle
  BY DEF OwnerInv, ProxyInv
<1>1. UNCHANGED <<loop, fd, list, ctlq, conns, dlr, up, inbox, plugged, ids, inq, outq>> /\ pc = "init"
  BY DEF InitNext, InitTimeout, proxyVars, dialerVars, modemVars
<1>2. ~server /\ ~Serving
  BY <1>0, <1>1 DEF Phase, Serving
<1>3. CASE ~Active
  BY <1>1, <1>3, NotServing DEF Serving, Active
<1>4. CASE Active
  <2>1. inq = <<>> /\ (\A i \in DOMAIN outq : IsInd(outq[i])) /\ ctlq = <<>> /\ DOMAIN <<>> = {}
    <3>1. inq = <<>> /\ (\A i \in DOMAIN outq : IsInd(outq[i]))
      BY <1>0, <1>4, MainQuiet
    <3>2. ctlq = <<>>
      BY <1>0, <1>2, <1>4 DEF Idle
    <3>3. DOMAIN <<>> = {}
      OBVIOUS
    <3> QED
      BY <3>1, <3>2, <3>3
  <2>2. /\ \A c \in Dialers : fd[c] = 0 /\ up[c] = <<>> /\ inbox[c] = <<>>
        /\ Connected = {}
    BY <1>2, NobodyWaits
  <2>3. \A i \in DOMAIN outq : outq[i].who = NoOne /\ outq[i].kind = "mux"
    BY <2>1 DEF IsInd
  <2>4. Order'
    <3>1. Sorted(outq)
      BY <2>3, Apart DEF Sorted
    <3> QED
      BY <1>1, <2>1, <2>2, <3>1 DEF Order, Sorted, Ahead
  <2>5. CtlOrder'
    BY <1>1, <2>1, <2>3 DEF CtlOrder, IsCtl
  <2>6. Owned'
    BY <1>1, <2>1, <2>2 DEF Owned, IsInd
  <2>7. Known'
    <3>1. Connected' = {}
      BY <1>1, <2>2 DEF Connected
    <3> QED
      BY <1>1, <2>3, <3>1 DEF Known
  <2> QED
    BY <2>4, <2>5, <2>6, <2>7
<1> QED
  BY <1>3, <1>4

\* The thread ends, and main joins it.
LEMMA LeaveOwner ==
  ASSUME OwnerInv, Join \/ LoopExit \/ Killed
  PROVE  Order' /\ CtlOrder' /\ Owned' /\ Delivered' /\ Lists' /\ Known' /\ Fresh'
<1>0. ProxyInv /\ Lists /\ Fresh /\ Connections /\ DOMAIN <<>> = {}
  BY DEF OwnerInv, ProxyInv
<1>1. ~Serving'
  BY DEF Join, LoopExit, Killed, Serving
<1>2. \A c \in Dialers : /\ inbox'[c] = <<>> /\ fd'[c] = 0 /\ dlr'[c].st # "on"
                         /\ (dlr'[c] = dlr[c] \/ (dlr'[c].st = "off" /\ dlr'[c].ask = "none" /\ dlr'[c].id = NoOne))
  <2> SUFFICES ASSUME NEW c \in Dialers
               PROVE  /\ inbox'[c] = <<>> /\ fd'[c] = 0 /\ dlr'[c].st # "on"
                      /\ (dlr'[c] = dlr[c] \/ (dlr'[c].st = "off" /\ dlr'[c].ask = "none" /\ dlr'[c].id = NoOne))
    OBVIOUS
  <2>1. /\ [Off EXCEPT !.n = dlr[c].n].st = "off" /\ [Off EXCEPT !.n = dlr[c].n].ask = "none"
        /\ [Off EXCEPT !.n = dlr[c].n].id = NoOne
    BY <1>0, OffIs DEF ProxyInv
  <2>2. CASE Join
    <3>1. ~Serving
      BY <2>2 DEF Join, Serving
    <3>2. UNCHANGED <<fd, inbox>>
          /\ dlr'[c] = IF dlr[c].st = "queued" THEN [Off EXCEPT !.n = dlr[c].n] ELSE dlr[c]
      BY <2>2 DEF Join, proxyVars
    <3> QED
      BY <2>1, <3>1, <3>2, NobodyWaits
  <2>3. CASE LoopExit \/ Killed
    <3>1. PICK C \in SUBSET Dialers :
          /\ fd'[c] = 0 /\ (c \notin C => fd[c] = 0)
          /\ dlr'[c] = IF c \in C THEN [Off EXCEPT !.n = dlr[c].n] ELSE dlr[c]
          /\ inbox'[c] = IF c \in C THEN <<>> ELSE inbox[c]
      BY <1>0, <2>3, EndIs
    <3>2. fd[c] = 0 => dlr[c].st # "on" /\ inbox[c] = <<>>
      BY <1>0 DEF Connections
    <3> QED
      BY <2>1, <3>1, <3>2
  <2> QED
    BY <2>2, <2>3
<1>3. \A f \in Fds : list'[f] = {}
  <2>1. CASE Join
    <3>1. ~Serving /\ UNCHANGED list
      BY <2>1 DEF Join, Serving, proxyVars
    <3> QED
      BY <3>1, NobodyWaits
  <2>2. CASE LoopExit \/ Killed
    BY <1>0, <2>2, EndIs
  <2> QED
    BY <2>1, <2>2
<1>4. Delivered'
  BY <1>0, <1>2 DEF Delivered
<1>5. Lists'
  <2>1. Connected' = {}
    BY <1>2 DEF Connected
  <2> QED
    BY <1>2, <1>3, <2>1 DEF Lists
<1>6. Fresh'
  <2> SUFFICES ASSUME NEW c \in Dialers
               PROVE  /\ (dlr'[c].st \in {"off", "queued"} => dlr'[c].ask = "none" /\ dlr'[c].id = NoOne)
                      /\ (dlr'[c].ask # "none" => dlr'[c].asks > 0)
    BY DEF Fresh
  <2>1. CASE dlr'[c] = dlr[c]
    BY <1>0, <2>1 DEF Fresh
  <2>2. CASE dlr'[c].st = "off" /\ dlr'[c].ask = "none" /\ dlr'[c].id = NoOne
    BY <2>2
  <2> QED
    BY <1>2, <2>1, <2>2
<1> QED
  BY <1>1, <1>4, <1>5, <1>6, NotServing

\* The modem does not answer.
LEMMA MuteOwner ==
  ASSUME OwnerInv, Mute, Serving
  PROVE  Order' /\ CtlOrder' /\ Owned' /\ Known'
<1>0. ProxyInv /\ Order /\ CtlOrder /\ Owned /\ Known
  BY DEF OwnerInv
<1>1. /\ inq # <<>> /\ inq' = Tail(inq)
      /\ UNCHANGED <<loop, server, fd, list, ctlq, conns, dlr, up, inbox, plugged, ids, outq>>
  BY DEF Mute, ModemStep, proxyVars, dialerVars
<1>q. inq \in Seq(Messages)
  BY <1>0, QueuesAre
<1> HIDE DEF Messages
<1>2. \A i \in DOMAIN inq' : i + 1 \in DOMAIN inq /\ inq'[i] = inq[i + 1]
  BY <1>1, <1>q, RestIs
<1>o. /\ \A x : Who(x)' = Who(x) /\ Holds(x)' = Holds(x)
      /\ Connected' = Connected /\ (Serving' <=> Serving)
  BY <1>1 DEF Who, Holds, Connected, Serving
<1>w. \A y : \A x \in Dialers : OwnMessage(y, x) => (OwnMessage(y, x))'
  BY <1>1, <1>o DEF OwnMessage, Of
<1>3. Order'
  <2>1. Sorted(inq') /\ Ahead(outq, inq')
        /\ \A c \in Dialers : Ahead(inbox[c], inq') /\ Ahead(inq', up[c])
    BY <1>0, <1>1, <1>q, SortedTail, AheadTail DEF Order
  <2> QED
    BY <1>0, <1>1, <2>1 DEF Order
<1>4. CtlOrder'
  BY <1>0, <1>1, <1>2 DEF CtlOrder
<1>5. Owned'
  <2>1. \A i \in DOMAIN inq' : \E c \in Dialers : OwnMessage(inq'[i], c)
    BY <1>0, <1>2 DEF Owned
  <2>2. \A i \in DOMAIN inq' : \E c \in Dialers : (OwnMessage(inq[i], c))'
    BY <1>w, <2>1
  <2>3. /\ \A i \in DOMAIN outq : IsInd(outq[i]) \/ \E c \in Dialers : (OwnMessage(outq[i], c))'
        /\ \A c \in Dialers : \A i \in DOMAIN up[c] : (OwnMessage(up[c][i], c))'
        /\ \A i \in DOMAIN ctlq : \E c \in Dialers : (OwnMessage(ctlq[i].qmi, c))' /\ ctlq[i].fd = fd[c]
    BY <1>0, <1>1, <1>w DEF Owned
  <2> QED
    BY <1>1, <2>2, <2>3 DEF Owned, IsInd
<1>6. Known'
  BY <1>0, <1>1, <1>o DEF Known
<1> QED
  BY <1>3, <1>4, <1>5, <1>6

\* It sends an indication.
LEMMA IndicateOwner ==
  ASSUME Orderly, OwnerInv, Indicate, Serving
  PROVE  Order' /\ CtlOrder' /\ Owned' /\ Known'
<1>0. ProxyInv /\ Order /\ CtlOrder /\ Owned /\ Known
  BY DEF OwnerInv
<1>1. PICK a : /\ IsInd(a) /\ Proper(a) /\ outq' = Append(outq, a)
               /\ UNCHANGED <<inq, ids, plugged>>
  BY IndicateIs
<1>2. UNCHANGED <<loop, server, fd, list, ctlq, dlr, up, inbox>>
  BY DEF Indicate, ModemStep, proxyVars, dialerVars
<1>q. outq \in Seq(Messages) /\ a \in Messages
      /\ \A c \in Dialers : up[c] \in Seq(Messages) /\ inbox[c] \in Seq(Messages)
  BY <1>0, <1>1, QueuesAre DEF Proper
<1> HIDE DEF Messages
<1>3. /\ \A i \in DOMAIN outq' : (i \in DOMAIN outq /\ outq'[i] = outq[i]) \/ outq'[i] = a
      /\ \A i \in DOMAIN outq : i \in DOMAIN outq' /\ outq'[i] = outq[i]
  BY <1>1, <1>q, AppendIs
<1>4. \A y : Precedes(y, a) /\ Precedes(a, y)
  BY <1>1, Apart DEF IsInd
<1>c. ~IsCtl(a) /\ a.kind = "mux"
  BY <1>1 DEF IsInd, IsCtl
<1>o. /\ \A x : Who(x)' = Who(x) /\ Holds(x)' = Holds(x)
      /\ Connected' = Connected /\ (Serving' <=> Serving)
  BY <1>2 DEF Who, Holds, Connected, Serving
<1>w. \A y : \A x \in Dialers : OwnMessage(y, x) => (OwnMessage(y, x))'
  BY <1>2, <1>o DEF OwnMessage, Of
<1>5. Order'
  <2>1. Sorted(outq') /\ Ahead(outq', inq)
        /\ \A c \in Dialers : Ahead(inbox[c], outq') /\ Ahead(outq', up[c])
    BY <1>0, <1>1, <1>4, <1>q, SortedAppend, AheadAppend DEF Order
  <2> QED
    BY <1>0, <1>1, <1>2, <2>1 DEF Order
<1>6. CtlOrder'
  BY <1>0, <1>1, <1>2, <1>3, <1>4, <1>c DEF CtlOrder
<1>7. Owned'
  <2>1. \A i \in DOMAIN outq' : IsInd(outq'[i]) \/ \E c \in Dialers : OwnMessage(outq'[i], c)
    BY <1>0, <1>1, <1>3 DEF Owned
  <2>2. \A i \in DOMAIN outq' : IsInd(outq'[i]) \/ \E c \in Dialers : (OwnMessage(outq[i], c))'
    BY <1>w, <2>1
  <2>3. /\ \A i \in DOMAIN inq : \E c \in Dialers : (OwnMessage(inq[i], c))'
        /\ \A c \in Dialers : \A i \in DOMAIN up[c] : (OwnMessage(up[c][i], c))'
        /\ \A i \in DOMAIN ctlq : \E c \in Dialers : (OwnMessage(ctlq[i].qmi, c))' /\ ctlq[i].fd = fd[c]
    BY <1>0, <1>1, <1>2, <1>w DEF Owned
  <2> QED
    BY <1>1, <1>2, <2>2, <2>3 DEF Owned, IsInd
<1>8. Known'
  <2>1. ASSUME plugged, NEW c \in Connected, NEW i \in list[fd[c]]
        PROVE  \/ ids[i] = Who(c)
               \/ \E k \in DOMAIN outq' :
                    outq'[k].kind = "release" /\ outq'[k].who = Who(c) /\ outq'[k].id = i
    BY <1>0, <1>3, <2>1 DEF Known
  <2>2. plugged => \A k \in DOMAIN outq' : outq'[k].kind = "get" /\ outq'[k].ok => ids[outq'[k].id] = outq'[k].who
    BY <1>0, <1>3, <1>c DEF Known
  <2> QED
    BY <1>1, <1>2, <1>o, <2>1, <2>2 DEF Known
<1> QED
  BY <1>5, <1>6, <1>7, <1>8

\* The modem goes, and what was under way with it.
LEMMA UnplugOwner ==
  ASSUME OwnerInv, Unplug, Serving
  PROVE  Order' /\ CtlOrder' /\ Owned' /\ Known'
<1>0. Order /\ CtlOrder /\ Owned /\ DOMAIN <<>> = {}
  BY DEF OwnerInv
<1>1. /\ inq' = <<>> /\ outq' = <<>> /\ plugged' = FALSE
      /\ UNCHANGED <<loop, server, fd, list, ctlq, dlr, up, inbox>>
  BY DEF Unplug, proxyVars, dialerVars
<1>o. \A x : Who(x)' = Who(x) /\ Holds(x)' = Holds(x)
  BY <1>1 DEF Who, Holds
<1>w. \A y : \A x \in Dialers : OwnMessage(y, x) => (OwnMessage(y, x))'
  BY <1>1, <1>o DEF OwnMessage, Of
<1>2. Order'
  BY <1>0, <1>1 DEF Order, Sorted, Ahead
<1>3. CtlOrder'
  BY <1>0, <1>1 DEF CtlOrder
<1>4. Owned'
  <2>1. /\ \A c \in Dialers : \A i \in DOMAIN up[c] : (OwnMessage(up[c][i], c))'
        /\ \A i \in DOMAIN ctlq : \E c \in Dialers : (OwnMessage(ctlq[i].qmi, c))' /\ ctlq[i].fd = fd[c]
    BY <1>0, <1>1, <1>w DEF Owned
  <2> QED
    BY <1>0, <1>1, <2>1 DEF Owned
<1> QED
  BY <1>1, <1>2, <1>3, <1>4 DEF Known


\* What leaves the messages, the dialers and the lists alone.
LEMMA QuietOwner ==
  ASSUME OwnerInv, UNCHANGED <<fd, list, ctlq, dlr, up, inbox, plugged, ids, inq, outq>>,
         Serving' => Serving
  PROVE  Order' /\ CtlOrder' /\ Owned' /\ Known'
<1>0. Order /\ CtlOrder /\ Owned /\ Known
  BY DEF OwnerInv
<1>o. /\ \A x : Who(x)' = Who(x) /\ Holds(x)' = Holds(x)
      /\ Connected' = Connected
  BY DEF Who, Holds, Connected
<1>w. \A y : \A x \in Dialers : OwnMessage(y, x) => (OwnMessage(y, x))'
  BY <1>o DEF OwnMessage, Of
<1>1. Order' /\ CtlOrder'
  BY <1>0 DEF Order, CtlOrder
<1>2. Owned'
  <2> SUFFICES ASSUME Serving' PROVE Owned'
    BY DEF Owned
  <2>1. /\ \A i \in DOMAIN inq : \E c \in Dialers : (OwnMessage(inq[i], c))'
        /\ \A i \in DOMAIN outq : IsInd(outq[i]) \/ \E c \in Dialers : (OwnMessage(outq[i], c))'
        /\ \A c \in Dialers : \A i \in DOMAIN up[c] : (OwnMessage(up[c][i], c))'
        /\ \A i \in DOMAIN ctlq : \E c \in Dialers : (OwnMessage(ctlq[i].qmi, c))' /\ ctlq[i].fd = fd[c]
    BY <1>0, <1>w DEF Owned
  <2> QED
    BY <2>1 DEF Owned, IsInd
<1>3. Known'
  BY <1>0, <1>o DEF Known
<1> QED
  BY <1>1, <1>2, <1>3

\* The invariant holds at first.
LEMMA OwnerInit == Init => OwnerInv
<1> SUFFICES ASSUME Init PROVE OwnerInv
  OBVIOUS
<1>1. /\ loop = "none" /\ server = FALSE /\ DOMAIN <<>> = {}
      /\ \A c \in Dialers : fd[c] = 0 /\ dlr[c] = Off /\ inbox[c] = <<>>
      /\ \A f \in Fds : list[f] = {}
  BY DEF Init
<1>2. Off.st = "off" /\ Off.ask = "none" /\ Off.id = NoOne
  BY DEF Off
<1>3. Order /\ CtlOrder /\ Owned /\ Known
  BY <1>1 DEF Order, CtlOrder, Owned, Known, Serving
<1>4. Delivered
  BY <1>1 DEF Delivered
<1>5. Lists
  BY <1>1, <1>2 DEF Lists, Connected
<1>6. Fresh
  BY <1>1, <1>2 DEF Fresh
<1> QED
  BY <1>3, <1>4, <1>5, <1>6, ProxyInit DEF OwnerInv

\* Every step of the system keeps it, ...
LEMMA OwnerStep == ASSUME Orderly, OwnerInv, Next PROVE OwnerInv'
<1>0. ProxyInv /\ ProxyInv'
  BY ProxyStep DEF OwnerInv
<1>1. CASE \E c \in Dialers : Accept(c) \/ Cleanup(c)
  BY <1>0, <1>1, AcceptOwner, CleanupOwner DEF OwnerInv
<1>2. CASE \E c \in Dialers : Connect(c) \/ Ask(c) \/ Receive(c) \/ Close(c)
  BY <1>0, <1>2, ConnectOwner, AskOwner, ReceiveOwner, CloseOwner DEF OwnerInv
<1>3. CASE RecvCtl \/ RecvMux
  BY <1>0, <1>3, RecvCtlOwner, RecvMuxOwner DEF OwnerInv
<1>4. CASE Join \/ LoopExit \/ Killed
  BY <1>0, <1>4, LeaveOwner DEF OwnerInv
<1>5. CASE \E c \in Dialers : SendQmi(c)
  <2>1. UNCHANGED <<dlr, inbox, fd, list>>
    BY <1>5 DEF SendQmi
  <2> QED
    BY <1>0, <1>5, <2>1, Unmoved, SendQmiOwner DEF OwnerInv
<1>6. CASE InitNext \/ InitTimeout
  <2>1. UNCHANGED <<dlr, inbox, fd, list>>
    BY <1>6 DEF InitNext, InitTimeout, proxyVars, dialerVars
  <2> QED
    BY <1>0, <1>6, <2>1, Unmoved, MainOwner DEF OwnerInv
<1>7. CASE Serve \/ Mute \/ Indicate \/ Unplug
  <2>1. UNCHANGED <<dlr, inbox, fd, list, loop, server>>
    BY <1>7 DEF Serve, Mute, Indicate, Unplug, ModemStep, proxyVars, dialerVars
  <2>2. CASE Serving
    BY <1>0, <1>7, <2>1, <2>2, Unmoved, ServeOwner, MuteOwner, IndicateOwner, UnplugOwner DEF OwnerInv
  <2>3. CASE ~Serving
    <3>1. ~Serving'
      BY <2>1, <2>3 DEF Serving
    <3> QED
      BY <1>0, <2>1, <3>1, Unmoved, NotServing DEF OwnerInv
  <2> QED
    BY <2>2, <2>3
<1>8. CASE Open \/ InitSend \/ RecvInit \/ Tick \/ Replug
  <2>1. UNCHANGED <<dlr, inbox, fd, list>>
    BY <1>8 DEF Open, InitSend, RecvInit, Tick, Replug, proxyVars, dialerVars
  <2>2. ~Serving'
    BY <1>0, <1>8 DEF Open, InitSend, RecvInit, Tick, Replug, Round, Serving, ProxyInv, Phase
  <2> QED
    BY <1>0, <2>1, <2>2, Unmoved, NotServing DEF OwnerInv
<1>9. CASE Sigint
  <2>1. UNCHANGED <<fd, list, ctlq, dlr, up, inbox, plugged, ids, inq, outq, server>>
    BY <1>9 DEF Sigint, proxyVars, dialerVars, modemVars
  <2>2. Serving' => Serving
    BY <1>9, <2>1 DEF Sigint, Serving
  <2> QED
    BY <1>0, <2>1, <2>2, Unmoved, QuietOwner DEF OwnerInv
<1> QED
  BY <1>1, <1>2, <1>3, <1>4, <1>5, <1>6, <1>7, <1>8, <1>9 DEF Next, MainAct, LoopAct, DialerAct

\* ... and so does a step of the environment.
LEMMA OwnerStutter == ASSUME OwnerInv, UNCHANGED vars PROVE OwnerInv'
<1>1. UNCHANGED <<fd, list, ctlq, dlr, up, inbox, plugged, ids, inq, outq, loop, server>>
  BY DEF vars
<1>2. Serving' => Serving
  BY <1>1 DEF Serving
<1> QED
  BY <1>1, <1>2, Unmoved, QuietOwner, ProxyStutter DEF OwnerInv

\* What a dialer was sent is its own, and what it holds is listed for it alone.
LEMMA OwnersAreFound == ASSUME OwnerInv PROVE AnswersFindOwner
<1>0. ProxyInv /\ Delivered /\ Lists /\ Connections
  BY DEF OwnerInv, ProxyInv
<1>1. AnswerIsOwn
  BY <1>0 DEF AnswerIsOwn, Delivered, IsInd
<1>2. IdsAreListed
  <2> SUFFICES ASSUME NEW c \in Connected, dlr[c].st = "on", dlr[c].id # NoOne, dlr[c].ask # "release",
                      NEW x \in Connected
               PROVE  dlr[c].id \in list[fd[x]] <=> x = c
    BY DEF IdsAreListed
  <2>1. c \in Dialers /\ Holds(c) = dlr[c].id
    BY DEF Holds, Connected
  <2>2. dlr[c].id \in list[fd[c]]
    BY <1>0, <2>1 DEF Lists
  <2>3. x # c => list[fd[c]] \intersect list[fd[x]] = {}
    BY <1>0 DEF Lists
  <2> QED
    BY <2>2, <2>3
<1> QED
  BY <1>1, <1>2 DEF AnswersFindOwner

\* An answer reaches the connection that asked, and what a dialer takes for its id is
\* listed for it alone, however connections, descriptors and ids are used again and
\* also when dialers give requests up: recv_qmi finds the owner of every answer.
THEOREM OwnerIsFound ==
  ASSUME Orderly PROVE Spec => []AnswersFindOwner
<1>1. Init => OwnerInv
  BY OwnerInit
<1>2. OwnerInv /\ [Next]_vars => OwnerInv'
  BY OwnerStep, OwnerStutter
<1>3. OwnerInv => AnswersFindOwner
  BY OwnersAreFound
<1> QED
  BY <1>1, <1>2, <1>3, PTL DEF Spec
=============================================================================
