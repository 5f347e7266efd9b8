-------------------------- MODULE GobiClientsProofs --------------------------
(***************************************************************************)
(* Proofs about the clients of GobiQmi, for any files, client ids,         *)
(* transaction ids, writes and indications: ClientsAreSafe (nothing is     *)
(* used after it was freed), ClientsAreOwn (files have clients of their    *)
(* own) and SleepersAreServed (nobody waits in vain), if no race takes     *)
(* anything away from under its user (Undisturbed: no circumstance but     *)
(* -EOVERFLOW is allowed and one file at most asks for QMIWDA).            *)
(*                                                                         *)
(* The types, the lists and what GetClientID leaves behind are those of    *)
(* QuectelProofs.                                                          *)
(***************************************************************************)
EXTENDS QuectelProofs

-----------------------------------------------------------------------------
(* GobiQmi, when no race takes anything away from under its user.           *)

\* The other circumstances each break one of the three properties: a writer that
\* overtakes takes another's URB ("overtake"), a reader gives up while its semaphore is
\* told ("sigrace"), a client goes that ReadCallback ("cbrace") or a call ("busy") will
\* use; and a second file that asks for QMIWDA takes the client of the first by force.
Undisturbed == Allowed \subseteq {"overflow"} /\ \A f, g \in Wda : f = g

Writing == {"w_submit", "w_wait", "w_pop"}
Reading == {"r_wait", "r_remove"}

\* The thread of file f: its task t, the device d, the file w.
GoodUser(f, t, d, w) ==
  /\ t.pc \in AskPlaces \union {"idle", "alloc", "clean", "again"}
  /\ IF t.pc = "idle" THEN t.op = "none" ELSE t.op \in Gets \union Releases \union {"write"}
  /\ t.pc # "idle" => d = "live" /\ w.open
  /\ IF t.op = "write" THEN t.c = w.id /\ w.id # NoId /\ t.pc \in Early \union Writing
                       ELSE t.c \in {NoId, QMICTL}
  /\ t.op = "rel" => t.arg = w.id /\ w.id # NoId /\ t.pc # "again"
  /\ t.op \in Gets \union {"force"} => w.id = NoId
  /\ t.op \in Gets => t.arg = Service(f)
  /\ t.op = "force" => t.arg = WdaId \/ t.pc = "again"
  /\ t.op \in {"get2", "force"} \/ t.pc = "again" => f \in Wda
  /\ t.pc = "again" => t.op \in {"get", "force"}
  /\ t.pc = "clean" => t.op \in Releases
  /\ t.pc \in Reading => t.fresh
UserInv == \A f \in Files : GoodUser(f, task[User(f)], device, file[f])

\* Who reads a file: its task t, the file w, and what the file's own thread does.
GoodReader(t, w, o) ==
  /\ t.pc \in {"idle", "r_look", "r_wait", "r_remove", "poll"}
  /\ IF t.pc = "idle" THEN t.op = "none" /\ t.c = NoId
     ELSE t.op \in {"read", "poll"} /\ t.c = w.id /\ w.id # NoId /\ t.tid = 0 /\ o # "rel"
  /\ t.pc \in Reading => t.fresh
ReaderInv == \A f \in Listened : GoodReader(task[Reader(f)], file[f], task[User(f)].op)

\* The unbinding of the device: its task t, the device d.
GoodRemover(t, d) ==
  /\ t.pc \in {"idle", "clean", "c_up", "c_more", "d_loop", "d_wait", "d_done"}
  /\ t.op = "none" /\ t.c = NoId
  /\ t.pc = "idle" <=> d = "live"
RemoverInv ==
  /\ GoodRemover(task[Remover], device)
  /\ task[Remover].pc \in {"clean", "c_up", "c_more"} => Present(task[Remover].arg)
  /\ task[Remover].pc \in {"c_up", "c_more"} => task[Remover].nxt = Succ(task[Remover].arg)

\* The list of clients has each of them once; while the device is there it has the
\* driver's own and those of the files.
ClientApart == \A i, j \in 1..Len(clist) : clist[i] = clist[j] => i = j
FileInv ==
  /\ \A f, g \in Files : file[f].id = file[g].id /\ file[f].id # NoId => f = g
  /\ \A f \in Files : file[f].id # NoId => file[f].open
  /\ \A f \in Files : file[f].id = WdaId => f \in Wda
LiveInv ==
  device = "live" =>
    /\ Present(QMICTL) /\ Present(QMIWDS)
    /\ \A c \in Ids : Present(c) <=> \E f \in Files : file[f].id = c
GoneInv == \A c \in Clients : ~Present(c) => mem[c].notify = <<>>
WalkInv == reading \in {"notify", "back"} => Present(cb.at)
WireInv == \A r \in wire : r.c = QMICTL => r.tid # 0

\* An URB is of one writer, and in the list of its client as long as it is.
UrbOne ==
  \A p, h \in Procs :
    task[p].pc \in Writing /\ task[h].pc \in Writing /\ task[p].u = task[h].u => p = h
UrbListed ==
  \A p \in Procs : task[p].pc \in Writing =>
    /\ task[p].u \in Urbs /\ urb[task[p].u] \in {"alloc", "flying", "done"}
    /\ \E i \in 1..Len(mem[task[p].c].urbs) : mem[task[p].c].urbs[i] = task[p].u
UrbOwned ==
  \A c \in Clients :
    /\ \A i \in 1..Len(mem[c].urbs) : \E p \in Procs :
         task[p].pc \in Writing /\ task[p].c = c /\ task[p].u = mem[c].urbs[i]
    /\ \A i, j \in 1..Len(mem[c].urbs) : mem[c].urbs[i] = mem[c].urbs[j] => i = j
UrbInv == UrbOne /\ UrbListed /\ UrbOwned /\ UrbsFreed

\* Who waits is once in the list of its client, or is being notified by one.
EntryInv ==
  \A c \in Clients : \A i \in 1..Len(mem[c].notify) : LET e == mem[c].notify[i] IN
    /\ e.step = "run"
    /\ e.who = ReadCb => e = WdsEntry /\ c = QMIWDS
    /\ e.who \in Procs =>
         task[e.who].c = c /\ task[e.who].pc \in Reading /\ e.tid = task[e.who].tid
NotHeld ==
  \A c \in Clients, n \in Notifiers : \A i \in 1..Len(mem[c].notify) :
    held[n].who # mem[c].notify[i].who
ListedOnce ==
  \A c \in Clients : \A i, j \in 1..Len(mem[c].notify) :
    mem[c].notify[i].who = mem[c].notify[j].who => i = j
HeldInv ==
  /\ \A n \in Notifiers : held[n].who # <<>> =>
       /\ Notifying(n)
       /\ IF held[n].who = ReadCb THEN held[n].tid = 0
          ELSE held[n].step = "run" /\ task[held[n].who].pc = "r_wait"
  /\ \A n, k \in Notifiers : held[n].who # <<>> /\ held[n].who = held[k].who => n = k
AsleepInv ==
  \A p \in Procs : task[p].pc \in Reading =>
    \/ \E i \in 1..Len(mem[task[p].c].notify) : mem[task[p].c].notify[i].who = p
    \/ task[p].pc = "r_wait" /\ \E n \in Notifiers : held[n].who = p
NotifyInv == EntryInv /\ NotHeld /\ ListedOnce /\ HeldInv /\ AsleepInv

\* Nobody waits for a message that is there.
NoneMissed ==
  \A c \in Clients : \A i \in 1..Len(mem[c].notify), j \in 1..Len(mem[c].list) :
    ~Matches(mem[c].notify[i].tid, mem[c].list[j].tid)
PollInv ==
  \A p \in Procs : task[p].pc = "poll" /\ mem[task[p].c].list # <<>> =>
    reading \in {"notify", "back"} /\ cb.at = task[p].c
TidInv == \A i \in 1..Len(mem[QMICTL].list) : mem[QMICTL].list[i].tid # 0
DataInv == NoneMissed /\ PollInv /\ TidInv

ListInv == ClientApart /\ FileInv /\ LiveInv /\ GoneInv /\ WalkInv /\ WireInv
CalmInv == UserInv /\ ReaderInv /\ RemoverInv /\ ListInv /\ UrbInv /\ NotifyInv /\ DataInv

\* Task s is as t was, but that a client may have gone that t does not wait for.
Alike(t, s) ==
  /\ s.pc = t.pc /\ s.op = t.op /\ s.c = t.c /\ s.tid = t.tid /\ s.u = t.u
  /\ s.arg = t.arg /\ s.nxt = t.nxt
  /\ t.pc \in Reading /\ t.fresh => s.fresh

\* A thread of a file whose call has returned.
LEMMA IdleOf ==
  /\ \A f, d, w : GoodUser(f, NoTask, d, w)
  /\ \A w, o : GoodReader(NoTask, w, o)
  /\ NoTask.pc = "idle" /\ NoTask.op = "none" /\ NoTask.c = NoId
  BY DEF GoodUser, GoodReader, NoTask, AskPlaces, Gets, Releases, Reading

\* Who is idle has nothing to do with the device and the file.
LEMMA IdleStays ==
  /\ \A f, t, d, w, e, v : GoodUser(f, t, d, w) /\ t.pc = "idle" => GoodUser(f, t, e, v)
  /\ \A t, w, o, v, n : GoodReader(t, w, o) /\ t.pc = "idle" => GoodReader(t, v, n)
  BY DEF GoodUser, GoodReader, Gets, Releases, Reading

\* A task like it is as good.
LEMMA AlikeOf ==
  ASSUME NEW t, NEW s, Alike(t, s)
  PROVE  /\ \A f, d, w : GoodUser(f, t, d, w) => GoodUser(f, s, d, w)
         /\ \A w, o : GoodReader(t, w, o) => GoodReader(s, w, o)
         /\ \A d : GoodRemover(t, d) => GoodRemover(s, d)
  BY DEF GoodUser, GoodReader, GoodRemover, Alike

\* A thread of a file in WriteSync and ReadSync.
LEMMA UserSync ==
  ASSUME GobiTypes, AskInv, UserInv, NEW f \in Files,
         WriteSteps(User(f)) \/ ReadSteps(User(f)) \/ ReadTimeout(User(f))
  PROVE  /\ \A h \in Procs \ {User(f)} : task'[h] = task[h]
         /\ UNCHANGED <<file, device, clist>>
         /\ GoodUser(f, task'[User(f)], device, file[f])
         /\ task'[User(f)].op \in {task[User(f)].op, "none"}
<1> DEFINE p == User(f)
           t == task[p]
<1>1. p \in Procs /\ p[1] = f /\ t \in Tasks /\ task \in [Procs -> Tasks]
  BY ProcsOf DEF GobiTypes, TaskTypes
<1>2. GoodUser(f, t, device, file[f]) /\ GoodTask(t)
  BY <1>1 DEF UserInv, AskInv, AskTask
<1> HIDE DEF p
<1>3. ASSUME NEW l \in {"r_look", "clean", "again", "idle", "alloc"}, t.pc \in AskPlaces,
             l = "r_look" => t.op \in Gets \union Releases,
             l = "clean" => t.op \in Releases,
             l = "again" => t.op = "get" /\ f \in Wda,
             l = "alloc" => t.op \in Gets
      PROVE  GoodUser(f, Onward(t, l), device, file[f]) /\ Onward(t, l).op \in {t.op, "none"}
  <2>1. CASE l = "idle"
    BY <2>1, IdleOf DEF Onward
  <2>2. CASE l # "idle"
    <3>1. /\ Onward(t, l).pc = l /\ Onward(t, l).op = t.op /\ Onward(t, l).c = t.c
          /\ Onward(t, l).arg = t.arg /\ l \notin Reading
      BY <1>1, <2>2, OnwardOf DEF Places, Reading
    <3> QED
      BY <1>2, <1>3, <2>2, <3>1 DEF GoodUser, GoodTask, AskPlaces, Early, Writing, Gets, Releases
  <2> QED
    BY <2>1, <2>2
<1>4. \A ok \in BOOLEAN : t.pc \in AskPlaces =>
        /\ GoodUser(f, Onward(t, AfterWrite(p, ok)), device, file[f])
        /\ Onward(t, AfterWrite(p, ok)).op \in {t.op, "none"}
        /\ GoodUser(f, Onward(t, AfterRead(p, ok)), device, file[f])
        /\ Onward(t, AfterRead(p, ok)).op \in {t.op, "none"}
  BY <1>1, <1>3, AfterOf
<1>5. ASSUME NEW l \in AskPlaces, t.pc \in AskPlaces,
             (t.pc \in Early \union Writing /\ l \in Early \union Writing) \/ (t.pc \in Reading /\ l \in Reading)
      PROVE  GoodUser(f, Onward(t, l), device, file[f]) /\ Onward(t, l).op \in {t.op, "none"}
  <2>1. /\ Onward(t, l).pc = l /\ Onward(t, l).op = t.op /\ Onward(t, l).c = t.c
        /\ Onward(t, l).arg = t.arg /\ Onward(t, l).fresh = t.fresh
    BY <1>1, OnwardOf DEF Places, AskPlaces
  <2> QED
    BY <1>2, <1>5, <2>1 DEF GoodUser, AskPlaces, Early, Writing, Reading, Gets, Releases
<1> HIDE DEF t
<1> DEFINE Goal == /\ \A h \in Procs \ {p} : task'[h] = task[h]
                   /\ UNCHANGED <<file, device, clist>>
                   /\ GoodUser(f, task'[p], device, file[f]) /\ task'[p].op \in {t.op, "none"}
<1> SUFFICES Goal
  BY DEF p, t
<1>6. ASSUME NEW l \in Places, task' = [task EXCEPT ![p] = Onward(t, l)]
      PROVE  task'[p] = Onward(t, l) /\ \A h \in Procs \ {p} : task'[h] = task[h]
  BY <1>1, <1>6
<1>7. CASE AddToURBList(p)
  <2>1. UNCHANGED <<file, device, clist>> /\ t.pc = "w_add"
    BY <1>7 DEF AddToURBList, t
  <2>2. CASE task' = [task EXCEPT ![p] = Onward(t, AfterWrite(p, FALSE))]
    <3>1. task'[p] = Onward(t, AfterWrite(p, FALSE)) /\ \A h \in Procs \ {p} : task'[h] = task[h]
      BY <1>1, <2>2
    <3> QED
      BY <1>4, <2>1, <3>1 DEF AskPlaces
  <2>3. CASE \E u \in Urbs : task' = [task EXCEPT ![p] = [t EXCEPT !.pc = "w_submit", !.u = u]]
    <3>1. PICK u \in Urbs : task' = [task EXCEPT ![p] = [t EXCEPT !.pc = "w_submit", !.u = u]]
      BY <2>3
    <3> DEFINE x == [t EXCEPT !.pc = "w_submit", !.u = u]
    <3>2. x.pc = "w_submit" /\ x.op = t.op /\ x.c = t.c /\ x.arg = t.arg
      BY <1>1 DEF Tasks
    <3>3. task'[p] = x /\ \A h \in Procs \ {p} : task'[h] = task[h]
      BY <1>1, <3>1
    <3> HIDE DEF x
    <3>4. GoodUser(f, x, device, file[f])
      BY <1>2, <2>1, <3>2 DEF GoodUser, AskPlaces, Early, Writing, Reading
    <3> QED
      BY <2>1, <3>2, <3>3, <3>4
  <2> QED
    <3>1. {x \in Urbs : urb[x] = "none"} \in SUBSET Nat
      BY DEF Urbs
    <3>2. Spare => Min({x \in Urbs : urb[x] = "none"}) \in Urbs
      BY <3>1, MinOf DEF Spare
    <3> DEFINE m == Min({x \in Urbs : urb[x] = "none"})
    <3>3. \/ task' = [task EXCEPT ![p] = Onward(t, AfterWrite(p, FALSE))]
          \/ Spare /\ task' = [task EXCEPT ![p].pc = "w_submit", ![p].u = m]
      BY <1>7 DEF AddToURBList, Goto, t
    <3> HIDE DEF m
    <3>4. [task EXCEPT ![p].pc = "w_submit", ![p].u = m]
            = [task EXCEPT ![p] = [t EXCEPT !.pc = "w_submit", !.u = m]]
      BY <1>1 DEF t
    <3> QED
      BY <2>2, <2>3, <3>2, <3>3, <3>4 DEF m
<1>8. CASE Submit(p)
  <2>1. task' = [task EXCEPT ![p] = Onward(t, "w_wait")] /\ UNCHANGED <<file, device, clist>> /\ t.pc = "w_submit"
    BY <1>8 DEF Submit, Goto, t
  <2>2. task'[p] = Onward(t, "w_wait") /\ \A h \in Procs \ {p} : task'[h] = task[h]
    BY <1>1, <2>1
  <2>3. /\ "w_wait" \in AskPlaces /\ "w_wait" \in Early \union Writing
        /\ t.pc \in AskPlaces /\ t.pc \in Early \union Writing
    BY <2>1 DEF AskPlaces, Early, Writing
  <2>4. GoodUser(f, Onward(t, "w_wait"), device, file[f]) /\ Onward(t, "w_wait").op \in {t.op, "none"}
    BY <1>5, <2>3, Zenon
  <2> QED
    BY <2>1, <2>2, <2>4
<1>9. CASE SubmitFails(p) \/ WritePop(p)
  <2>1. /\ \E ok \in BOOLEAN : task' = [task EXCEPT ![p] = Onward(t, AfterWrite(p, ok))]
        /\ UNCHANGED <<file, device, clist>> /\ t.pc \in AskPlaces
    BY <1>9 DEF SubmitFails, WritePop, Goto, t, AskPlaces
  <2>2. PICK ok \in BOOLEAN : task' = [task EXCEPT ![p] = Onward(t, AfterWrite(p, ok))]
    BY <2>1
  <2>3. task'[p] = Onward(t, AfterWrite(p, ok)) /\ \A h \in Procs \ {p} : task'[h] = task[h]
    BY <1>1, <2>2
  <2> QED
    BY <1>4, <2>1, <2>3
<1>10. CASE WriteSyncCallback(p)
  <2>1. UNCHANGED <<task, file, device, clist>>
    BY <1>10 DEF WriteSyncCallback
  <2> QED
    BY <1>1, <1>2, <2>1 DEF t
<1>11. CASE WriteDown(p)
  <2>1. PICK b \in BOOLEAN : task' = [task EXCEPT ![p].pc = "w_pop", ![p].sig = b]
    BY <1>11 DEF WriteDown
  <2> DEFINE x == [t EXCEPT !.pc = "w_pop", !.sig = b]
  <2>2. x.pc = "w_pop" /\ x.op = t.op /\ x.c = t.c /\ x.arg = t.arg /\ t.pc = "w_wait"
    BY <1>1, <1>11 DEF Tasks, WriteDown, t
  <2>3. task'[p] = x /\ \A h \in Procs \ {p} : task'[h] = task[h]
    BY <1>1, <2>1 DEF t
  <2> HIDE DEF x
  <2>4. GoodUser(f, x, device, file[f])
    BY <1>2, <2>2 DEF GoodUser, AskPlaces, Early, Writing, Reading
  <2> QED
    BY <1>11, <2>2, <2>3, <2>4 DEF WriteDown
<1>12. CASE Look(p)
  <2>1. UNCHANGED <<file, device, clist>> /\ t.pc = "r_look"
    BY <1>12 DEF Look, t
  <2>2. CASE task' = [task EXCEPT ![p] = Onward(t, AfterRead(p, FALSE))]
    <3>1. task'[p] = Onward(t, AfterRead(p, FALSE)) /\ \A h \in Procs \ {p} : task'[h] = task[h]
      BY <1>1, <2>2
    <3> QED
      BY <1>4, <2>1, <3>1 DEF AskPlaces
  <2>3. CASE \E m \in Messages : task' = [task EXCEPT ![p] = Onward([t EXCEPT !.got = m], AfterRead(p, TRUE))]
    <3>1. PICK m \in Messages : task' = [task EXCEPT ![p] = Onward([t EXCEPT !.got = m], AfterRead(p, TRUE))]
      BY <2>3
    <3> DEFINE x == [t EXCEPT !.got = m]
               l == AfterRead(p, TRUE)
    <3>2. x \in Tasks /\ x.pc = t.pc /\ x.op = t.op /\ x.c = t.c /\ x.arg = t.arg
      BY <1>1 DEF Tasks
    <3>3. task'[p] = Onward(x, l) /\ \A h \in Procs \ {p} : task'[h] = task[h]
      BY <1>1, <3>1
    <3>4. l \in {"alloc", "clean", "again", "idle"}
      BY AfterOf
    <3> HIDE DEF x, l
    <3>5. CASE l = "idle"
      BY <2>1, <3>3, <3>5, IdleOf DEF Onward
    <3>6. CASE l # "idle"
      <4>1. /\ Onward(x, l).pc = l /\ Onward(x, l).op = t.op /\ Onward(x, l).c = t.c
            /\ Onward(x, l).arg = t.arg /\ l \notin Reading
        BY <3>2, <3>4, <3>6, OnwardOf DEF Places, Reading
      <4>2. /\ l = "clean" => t.op \in Releases
            /\ l = "again" => t.op = "get" /\ f \in Wda
            /\ l = "alloc" => t.op \in Gets
        BY <1>1, AfterOf DEF l, t
      <4>3. GoodUser(f, Onward(x, l), device, file[f])
        BY <1>2, <2>1, <3>4, <3>6, <4>1, <4>2 DEF GoodUser, GoodTask, AskPlaces, Early, Writing, Gets, Releases
      <4> QED
        BY <2>1, <3>3, <4>1, <4>3
    <3> QED
      BY <3>5, <3>6
  <2>4. CASE task' = [task EXCEPT ![p].pc = "r_wait", ![p].fresh = TRUE]
    <3> DEFINE x == [t EXCEPT !.pc = "r_wait", !.fresh = TRUE]
    <3>1. x.pc = "r_wait" /\ x.op = t.op /\ x.c = t.c /\ x.arg = t.arg /\ x.fresh
      BY <1>1 DEF Tasks
    <3>2. task'[p] = x /\ \A h \in Procs \ {p} : task'[h] = task[h]
      BY <1>1, <2>4 DEF t
    <3> HIDE DEF x
    <3>3. GoodUser(f, x, device, file[f])
      BY <1>2, <2>1, <3>1 DEF GoodUser, AskPlaces, Early, Writing, Reading
    <3> QED
      BY <2>1, <3>1, <3>2, <3>3
  <2> QED
    <3> DEFINE i == FirstRead(t.c, t.tid)
               m == mem[t.c].list[i]
    <3>1. \/ task' = [task EXCEPT ![p] = Onward(t, AfterRead(p, FALSE))]
          \/ Present(t.c) /\ i > 0 /\ task' = [task EXCEPT ![p] = Onward([t EXCEPT !.got = m], AfterRead(p, TRUE))]
          \/ task' = [task EXCEPT ![p].pc = "r_wait", ![p].fresh = TRUE]
      BY <1>12 DEF Look, Goto, t
    <3>2. Present(t.c) /\ i > 0 => m \in Messages
      <4>1. ClientTypes
        BY DEF GobiTypes
      <4>2. Present(t.c) => t.c \in Clients /\ mem[t.c].list \in Seq(Messages)
        BY <4>1, MemoryOf
      <4>3. Present(t.c) /\ i > 0 => i \in 1..Len(mem[t.c].list)
        BY <4>2, FirstReadOf
      <4> QED
        BY <4>2, <4>3
    <3> HIDE DEF m, i
    <3> QED
      BY <2>2, <2>3, <2>4, <3>1, <3>2
<1>13. CASE ReadGiveUp(p)
  <2>1. /\ task' = [task EXCEPT ![p] = Onward(t, AfterRead(p, FALSE))]
        /\ UNCHANGED <<file, device, clist>> /\ t.pc \in AskPlaces
    BY <1>13 DEF ReadGiveUp, Goto, t, AskPlaces
  <2>2. task'[p] = Onward(t, AfterRead(p, FALSE)) /\ \A h \in Procs \ {p} : task'[h] = task[h]
    BY <1>1, <2>1
  <2> QED
    BY <1>4, <2>1, <2>2
<1>14. CASE ReadTimeout(p)
  <2>1. task' = [task EXCEPT ![p] = Onward(t, "r_remove")] /\ UNCHANGED <<file, device, clist>> /\ t.pc = "r_wait"
    BY <1>14 DEF ReadTimeout, Goto, t
  <2>2. task'[p] = Onward(t, "r_remove") /\ \A h \in Procs \ {p} : task'[h] = task[h]
    BY <1>1, <2>1
  <2> QED
    BY <1>5, <2>1, <2>2 DEF AskPlaces, Reading
<1> QED
  BY <1>7, <1>8, <1>9, <1>10, <1>11, <1>12, <1>13, <1>14 DEF WriteSteps, ReadSteps, p, t

\* A thread of a file that begins to ask, for a client or with one given back.
LEMMA AskOf ==
  ASSUME NEW p \in Procs, NEW o, NEW c, CtlRequest(p, o, c), task \in [Procs -> Tasks]
  PROVE  /\ \A h \in Procs \ {p} : task'[h] = task[h]
         /\ task'[p].pc = "w_add" /\ task'[p].op = o /\ task'[p].c = QMICTL /\ task'[p].arg = c
         /\ task'[p].tid = NextTid
  BY DEF CtlRequest, NoTask

\* The calls of user space, and the ends of GetClientID.
LEMMA UserCalls ==
  ASSUME GobiTypes, AskInv, UserInv, ReaderInv, FileInv, Undisturbed, NEW f \in Files,
         Calls(f) \/ GetClientID(f) \/ ForceRelease(f)
  PROVE  /\ \A g \in Files \ {f} : file'[g] = file[g]
         /\ device' = device
         /\ \A h \in Procs \ {User(f)} : (f \in Listened => h # Reader(f)) => task'[h] = task[h]
         /\ GoodUser(f, task'[User(f)], device, file'[f])
         /\ f \in Listened => GoodReader(task'[Reader(f)], file'[f], task'[User(f)].op)
<1> DEFINE p == User(f)
           t == task[p]
           r == Reader(f)
           Others == \A h \in Procs \ {p} : (f \in Listened => h # r) => task'[h] = task[h]
<1>1. /\ p \in Procs /\ p[1] = f /\ task \in [Procs -> Tasks] /\ t \in Tasks
      /\ f \in Listened => r \in Procs /\ r # p /\ task[r] \in Tasks
  BY ProcsOf DEF GobiTypes, TaskTypes
<1>2. file \in [Files -> [open : BOOLEAN, id : Ids \union {NoId}]] /\ NoId \notin Ids
  BY GobiAssumption DEF GobiTypes, FileTypes
<1>3. /\ GoodUser(f, t, device, file[f]) /\ GoodTask(t)
      /\ f \in Listened => GoodReader(task[r], file[f], t.op)
  BY <1>1 DEF UserInv, ReaderInv, AskInv, AskTask
<1>4. MayWrite => device = "live"
  BY DEF MayWrite, Undisturbed
<1> SUFFICES /\ \A g \in Files \ {f} : file'[g] = file[g]
             /\ device' = device /\ Others
             /\ GoodUser(f, task'[p], device, file'[f])
             /\ f \in Listened => GoodReader(task'[r], file'[f], task'[p].op)
  BY Zenon DEF p, r, Others
<1> HIDE DEF p, t, r
<1>5. ASSUME NEW o \in Gets \union Releases, NEW c, CtlRequest(p, o, c), UNCHANGED <<file, device>>,
             device = "live", file[f].open,
             o = "rel" => c = file[f].id /\ file[f].id # NoId /\ (f \in Listened => task[r].pc = "idle"),
             o # "rel" => file[f].id = NoId,
             o \in Gets => c = Service(f),
             o = "force" => c = WdaId,
             o \in {"get2", "force"} => f \in Wda
      PROVE  /\ \A g \in Files \ {f} : file'[g] = file[g]
             /\ device' = device /\ Others
             /\ GoodUser(f, task'[p], device, file'[f])
             /\ f \in Listened => GoodReader(task'[r], file'[f], task'[p].op)
  <2>1. /\ \A h \in Procs \ {p} : task'[h] = task[h]
        /\ task'[p].pc = "w_add" /\ task'[p].op = o /\ task'[p].c = QMICTL /\ task'[p].arg = c
    BY <1>1, <1>5, AskOf
  <2>2. GoodUser(f, task'[p], device, file[f])
    BY <1>5, <2>1 DEF GoodUser, AskPlaces, Early, Writing, Reading, Gets, Releases
  <2>3. f \in Listened => GoodReader(task[r], file[f], o)
    BY <1>3, <1>5 DEF GoodReader
  <2> QED
    BY <1>1, <1>5, <2>1, <2>2, <2>3 DEF Others
<1>6. CASE UserspaceOpen(f)
  <2>1. /\ UNCHANGED <<task, device>> /\ t.pc = "idle"
        /\ \A g \in Files \ {f} : file'[g] = file[g]
    BY <1>2, <1>6 DEF UserspaceOpen, t, p
  <2>2. file[f].id = NoId
    BY <1>6 DEF UserspaceOpen, FileInv
  <2>3. GoodUser(f, t, device, file'[f])
    BY <1>3, <2>1, IdleStays
  <2>4. f \in Listened => task[r].pc = "idle"
    BY <1>3, <2>2 DEF GoodReader
  <2>5. f \in Listened => GoodReader(task[r], file'[f], t.op)
    BY <1>3, <2>4, IdleStays
  <2> QED
    BY <2>1, <2>3, <2>5 DEF Others, t
<1>7. CASE GetServiceFile(f)
  <2>1. CtlRequest(p, "get", Service(f)) /\ device = "live" /\ file[f].open /\ file[f].id = NoId
        /\ UNCHANGED <<file, device>>
    BY <1>4, <1>7 DEF GetServiceFile, p
  <2> QED
    BY <1>5, <2>1 DEF Gets, Releases
<1>8. CASE UserspaceWrite(f)
  <2> DEFINE x == [NoTask EXCEPT !.pc = "w_add", !.op = "write", !.c = file[f].id]
  <2>1. /\ device = "live" /\ file[f].open /\ file[f].id # NoId /\ UNCHANGED <<file, device>>
        /\ task' = [task EXCEPT ![p] = x]
    BY <1>4, <1>8 DEF UserspaceWrite, p
  <2>2. x.pc = "w_add" /\ x.op = "write" /\ x.c = file[f].id
    BY DEF NoTask
  <2>3. task'[p] = x /\ \A h \in Procs \ {p} : task'[h] = task[h]
    BY <1>1, <2>1
  <2> HIDE DEF x
  <2>4. GoodUser(f, x, device, file[f])
    BY <2>1, <2>2 DEF GoodUser, AskPlaces, Early, Writing, Reading, Gets, Releases
  <2>5. f \in Listened => GoodReader(task[r], file[f], "write")
    BY <1>3 DEF GoodReader
  <2> QED
    BY <1>1, <2>1, <2>2, <2>3, <2>4, <2>5 DEF Others
<1>9. CASE UserspaceRead(f) \/ UserspacePoll(f)
  <2>1. PICK l \in {"r_look", "poll"}, o \in {"read", "poll"} :
          task' = [task EXCEPT ![r] = [NoTask EXCEPT !.pc = l, !.op = o, !.c = file[f].id]]
    BY <1>9 DEF UserspaceRead, UserspacePoll, r
  <2>2. UNCHANGED <<file, device>> /\ f \in Listened /\ file[f].id # NoId /\ t.op # "rel"
    BY <1>9 DEF UserspaceRead, UserspacePoll, Leaving, t, p
  <2> DEFINE x == [NoTask EXCEPT !.pc = l, !.op = o, !.c = file[f].id]
  <2>3. x.pc = l /\ x.op = o /\ x.c = file[f].id /\ x.tid = 0
    BY DEF NoTask
  <2>4. task'[r] = x /\ \A h \in Procs \ {r} : task'[h] = task[h]
    BY <1>1, <2>1, <2>2
  <2> HIDE DEF x
  <2>5. GoodReader(x, file[f], t.op)
    BY <2>1, <2>2, <2>3 DEF GoodReader, Reading
  <2> QED
    BY <1>1, <1>3, <2>2, <2>4, <2>5 DEF Others, t
<1>10. CASE UserspaceClose(f)
  <2>1. CASE device = "live" /\ file[f].id # NoId
    <3>1. /\ CtlRequest(p, "rel", file[f].id) /\ file[f].open /\ UNCHANGED <<file, device>>
          /\ f \in Listened => task[r].pc = "idle"
      BY <1>10, <2>1 DEF UserspaceClose, p, r
    <3> QED
      BY <1>5, <2>1, <3>1 DEF Gets, Releases
  <2>2. CASE ~(device = "live" /\ file[f].id # NoId)
    <3>1. /\ UNCHANGED <<task, device>> /\ t.pc = "idle" /\ (f \in Listened => task[r].pc = "idle")
          /\ \A g \in Files \ {f} : file'[g] = file[g]
      BY <1>2, <1>10, <2>2 DEF UserspaceClose, t, p, r
    <3>2. GoodUser(f, t, device, file'[f])
      BY <1>3, <3>1, IdleStays
    <3>3. f \in Listened => GoodReader(task[r], file'[f], t.op)
      BY <1>3, <3>1, IdleStays
    <3> QED
      BY <3>1, <3>2, <3>3 DEF Others, t
  <2> QED
    BY <2>1, <2>2
<1>11. CASE GetClientID(f)
  <2>1. t.pc = "alloc" /\ UNCHANGED device
    BY <1>11 DEF GetClientID, t, p
  <2>2. t.op \in Gets /\ file[f].id = NoId
    BY <1>3, <2>1 DEF GoodUser, GoodTask
  <2>3. f \in Listened => task[r].pc = "idle"
    BY <1>3, <2>2 DEF GoodReader
  <2>4. \A v, n : f \in Listened => GoodReader(task[r], v, n)
    BY <1>3, <2>3, IdleStays
  <2>5. PICK l \in {"idle", "again"} : 
          /\ task' = [task EXCEPT ![p] = Onward(t, l)]
          /\ l = "again" => t.op = "get" /\ f \in Wda /\ UNCHANGED file
          /\ \A g \in Files \ {f} : file'[g] = file[g]
    <3>1. Failed(p) = IF t.op = "get" /\ f \in Wda THEN "again" ELSE "idle"
      BY <1>1 DEF Failed, t
    <3>2. \/ /\ \E id \in Ids : file' = [file EXCEPT ![f].id = id]
             /\ task' = [task EXCEPT ![p] = Onward(t, "idle")]
          \/ UNCHANGED file /\ task' = [task EXCEPT ![p] = Onward(t, Failed(p))]
      <4>1. t.got.id \in Ids \union {NoId}
        BY <1>1 DEF Tasks, Messages
      <4> QED
        BY <1>11, <4>1 DEF GetClientID, Goto, t, p
    <3> QED
      BY <1>2, <3>1, <3>2
  <2>6. task'[p] = Onward(t, l) /\ \A h \in Procs \ {p} : task'[h] = task[h]
    BY <1>1, <2>5
  <2>7. GoodUser(f, Onward(t, l), device, file'[f])
    <3>1. CASE l = "idle"
      BY <3>1, IdleOf DEF Onward
    <3>2. CASE l = "again"
      <4>1. /\ Onward(t, l).pc = l /\ Onward(t, l).op = t.op /\ Onward(t, l).c = t.c
            /\ Onward(t, l).arg = t.arg
        BY <1>1, <3>2, OnwardOf DEF Places
      <4> QED
        BY <1>3, <2>1, <2>5, <3>2, <4>1 DEF GoodUser, Reading, Gets, Releases
    <3> QED
      BY <3>1, <3>2
  <2> QED
    BY <1>1, <2>1, <2>4, <2>5, <2>6, <2>7 DEF Others
<1>12. CASE ForceRelease(f)
  <2>1. t.pc = "again" /\ UNCHANGED <<file, device>>
    BY <1>12 DEF ForceRelease, t, p
  <2>2. /\ device = "live" /\ file[f].open /\ file[f].id = NoId /\ f \in Wda /\ t.op \in {"get", "force"}
        /\ Service(f) = WdaId
    BY <1>3, <2>1 DEF GoodUser, Service, Gets
  <2>3. CtlRequest(p, IF t.op = "get" THEN "force" ELSE "get2", WdaId)
    BY <1>12, <2>2 DEF ForceRelease, IsDeviceValid, t, p
  <2>4. CASE t.op = "get"
    BY <1>5, <2>1, <2>2, <2>3, <2>4 DEF Gets, Releases
  <2>5. CASE t.op # "get"
    BY <1>5, <2>1, <2>2, <2>3, <2>5 DEF Gets, Releases
  <2> QED
    BY <2>4, <2>5
<1> QED
  BY <1>6, <1>7, <1>8, <1>9, <1>10, <1>11, <1>12 DEF Calls

\* Who reads a file, in ReadSync.
LEMMA ReaderSync ==
  ASSUME GobiTypes, ReaderInv, NEW f \in Listened,
         WriteSteps(Reader(f)) \/ ReadSteps(Reader(f)) \/ ReadTimeout(Reader(f))
  PROVE  /\ \A h \in Procs \ {Reader(f)} : task'[h] = task[h]
         /\ UNCHANGED <<file, device, clist>>
         /\ GoodReader(task'[Reader(f)], file[f], task[User(f)].op)
<1> DEFINE p == Reader(f)
           t == task[p]
           o == task[User(f)].op
           Goal == /\ \A h \in Procs \ {p} : task'[h] = task[h]
                   /\ UNCHANGED <<file, device, clist>>
                   /\ GoodReader(task'[p], file[f], o)
<1>1. p \in Procs /\ t \in Tasks /\ task \in [Procs -> Tasks]
  BY ProcsOf DEF GobiTypes, TaskTypes
<1>2. GoodReader(t, file[f], o)
  BY DEF ReaderInv
<1> SUFFICES Goal
  BY DEF p, t, o
<1> HIDE DEF p, t, o
<1>3. \A x \in Tasks, ok \in BOOLEAN : x.op \notin Gets \union Releases /\ t.op = x.op =>
        Onward(x, AfterRead(p, ok)) = NoTask
  BY AfterOf DEF Onward, Gets, Releases, t
<1>4. t.pc # "idle" => t.op \notin Gets \union Releases
  BY <1>2 DEF GoodReader, Gets, Releases
<1>5. CASE Look(p)
  <2>1. UNCHANGED <<file, device, clist>> /\ t.pc = "r_look"
    BY <1>5 DEF Look, t
  <2>2. CASE task' = [task EXCEPT ![p] = Onward(t, AfterRead(p, FALSE))]
    <3>1. task'[p] = NoTask /\ \A h \in Procs \ {p} : task'[h] = task[h]
      BY <1>1, <1>3, <1>4, <2>1, <2>2
    <3> QED
      BY <2>1, <3>1, IdleOf
  <2>3. CASE \E m \in Messages : task' = [task EXCEPT ![p] = Onward([t EXCEPT !.got = m], AfterRead(p, TRUE))]
    <3>1. PICK m \in Messages : task' = [task EXCEPT ![p] = Onward([t EXCEPT !.got = m], AfterRead(p, TRUE))]
      BY <2>3
    <3> DEFINE x == [t EXCEPT !.got = m]
    <3>2. x \in Tasks /\ x.op = t.op
      BY <1>1 DEF Tasks
    <3>3. task'[p] = Onward(x, AfterRead(p, TRUE)) /\ \A h \in Procs \ {p} : task'[h] = task[h]
      BY <1>1, <3>1
    <3> HIDE DEF x
    <3>4. task'[p] = NoTask
      BY <1>3, <1>4, <2>1, <3>2, <3>3
    <3> QED
      BY <2>1, <3>3, <3>4, IdleOf
  <2>4. CASE task' = [task EXCEPT ![p].pc = "r_wait", ![p].fresh = TRUE]
    <3> DEFINE x == [t EXCEPT !.pc = "r_wait", !.fresh = TRUE]
    <3>1. x.pc = "r_wait" /\ x.op = t.op /\ x.c = t.c /\ x.tid = t.tid /\ x.fresh
      BY <1>1 DEF Tasks
    <3>2. task'[p] = x /\ \A h \in Procs \ {p} : task'[h] = task[h]
      BY <1>1, <2>4 DEF t
    <3> HIDE DEF x
    <3>3. GoodReader(x, file[f], o)
      BY <1>2, <2>1, <3>1 DEF GoodReader, Reading
    <3> QED
      BY <2>1, <3>2, <3>3
  <2> QED
    <3> DEFINE i == FirstRead(t.c, t.tid)
               m == mem[t.c].list[i]
    <3>1. \/ task' = [task EXCEPT ![p] = Onward(t, AfterRead(p, FALSE))]
          \/ Present(t.c) /\ i > 0 /\ task' = [task EXCEPT ![p] = Onward([t EXCEPT !.got = m], AfterRead(p, TRUE))]
          \/ task' = [task EXCEPT ![p].pc = "r_wait", ![p].fresh = TRUE]
      BY <1>5 DEF Look, Goto, t
    <3>2. Present(t.c) /\ i > 0 => m \in Messages
      <4>1. ClientTypes
        BY DEF GobiTypes
      <4>2. Present(t.c) => t.c \in Clients /\ mem[t.c].list \in Seq(Messages)
        BY <4>1, MemoryOf
      <4>3. Present(t.c) /\ i > 0 => i \in 1..Len(mem[t.c].list)
        BY <4>2, FirstReadOf
      <4> QED
        BY <4>2, <4>3
    <3> HIDE DEF m, i
    <3> QED
      BY <2>2, <2>3, <2>4, <3>1, <3>2
<1>6. CASE ReadGiveUp(p)
  <2>1. /\ task' = [task EXCEPT ![p] = Onward(t, AfterRead(p, FALSE))]
        /\ UNCHANGED <<file, device, clist>> /\ t.pc = "r_remove"
    BY <1>6 DEF ReadGiveUp, Goto, t
  <2>2. task'[p] = NoTask /\ \A h \in Procs \ {p} : task'[h] = task[h]
    BY <1>1, <1>3, <1>4, <2>1
  <2> QED
    BY <2>1, <2>2, IdleOf
<1>7. CASE ReadTimeout(p)
  <2>1. task' = [task EXCEPT ![p] = Onward(t, "r_remove")] /\ UNCHANGED <<file, device, clist>> /\ t.pc = "r_wait"
    BY <1>7 DEF ReadTimeout, Goto, t
  <2>2. task'[p] = Onward(t, "r_remove") /\ \A h \in Procs \ {p} : task'[h] = task[h]
    BY <1>1, <2>1
  <2>3. /\ Onward(t, "r_remove").pc = "r_remove" /\ Onward(t, "r_remove").op = t.op
        /\ Onward(t, "r_remove").c = t.c /\ Onward(t, "r_remove").tid = t.tid
        /\ Onward(t, "r_remove").fresh = t.fresh
    BY <1>1, OnwardOf DEF Places
  <2>4. GoodReader(Onward(t, "r_remove"), file[f], o)
    BY <1>2, <2>1, <2>3 DEF GoodReader, Reading
  <2> QED
    BY <2>1, <2>2, <2>4
<1>8. ~WriteSteps(p)
  BY <1>2 DEF WriteSteps, AddToURBList, Submit, SubmitFails, WriteSyncCallback, WriteDown, WritePop, GoodReader, t
<1> QED
  BY <1>5, <1>6, <1>7, <1>8 DEF ReadSteps, p

\* The unbinding of the device neither writes nor reads, and only it notifies.
LEMMA PlacesOf ==
  ASSUME GobiTypes, UserInv, ReaderInv, GoodRemover(task[Remover], device), NEW p \in Procs
  PROVE  /\ task[p].pc \notin {"c_kill", "c_next"}
         /\ task[p].pc \in {"c_up", "c_more", "d_loop", "d_wait", "d_done"} => p = Remover
         /\ p = Remover => ~WriteSteps(p) /\ ~ReadSteps(p) /\ ~ReadTimeout(p)
         /\ task[p].pc \in Early \union Writing \union {"alloc"} =>
              \E f \in Files : p = User(f) /\ device = "live"
         /\ task[p].pc = "clean" => p = Remover \/ \E f \in Files : p = User(f) /\ task[p].op \in Releases
         /\ task[p].pc = "poll" => \E f \in Listened : p = Reader(f)
<1>1. CASE p = Remover
  <2>1. task[p].pc \in {"idle", "clean", "c_up", "c_more", "d_loop", "d_wait", "d_done"}
    BY <1>1 DEF GoodRemover
  <2>2. ~WriteSteps(p)
    BY <2>1 DEF WriteSteps, AddToURBList, Submit, SubmitFails, WriteSyncCallback, WriteDown, WritePop
  <2>3. ~ReadSteps(p) /\ ~ReadTimeout(p)
    BY <2>1 DEF ReadSteps, Look, ReadGiveUp, ReadTimeout
  <2> QED
    BY <1>1, <2>1, <2>2, <2>3 DEF Early, Writing
<1>2. CASE \E f \in Files : p = User(f)
  <2>1. PICK f \in Files : p = User(f)
    BY <1>2
  <2>2. GoodUser(f, task[p], device, file[f]) /\ p # Remover
    BY <2>1, ProcsOf DEF UserInv
  <2> QED
    BY <2>1, <2>2 DEF GoodUser, AskPlaces, Early, Writing
<1>3. CASE \E f \in Listened : p = Reader(f)
  <2>1. PICK f \in Listened : p = Reader(f)
    BY <1>3
  <2>2. GoodReader(task[p], file[f], task[User(f)].op) /\ p # Remover
    BY <2>1, ProcsOf DEF ReaderInv
  <2> QED
    BY <2>1, <2>2 DEF GoodReader, Early, Writing
<1> QED
  BY <1>1, <1>2, <1>3, ProcsOf

\* Whose client a process uses.
LEMMA ClientOf ==
  ASSUME GobiTypes, UserInv, ReaderInv, GoodRemover(task[Remover], device), NEW p \in Procs
  PROVE  \/ task[p].c \in {NoId, QMICTL}
         \/ \E f \in Files : p = User(f) /\ task[p].op = "write" /\ task[p].c = file[f].id
                               /\ task[p].pc \in Early \union Writing
         \/ \E f \in Listened : p = Reader(f) /\ task[p].pc # "idle" /\ task[p].c = file[f].id
                               /\ task[User(f)].op # "rel"
<1>1. CASE p = Remover
  BY <1>1 DEF GoodRemover
<1>2. CASE \E f \in Files : p = User(f)
  <2>1. PICK f \in Files : p = User(f)
    BY <1>2
  <2>2. GoodUser(f, task[p], device, file[f])
    BY <2>1 DEF UserInv
  <2> QED
    BY <2>1, <2>2 DEF GoodUser
<1>3. CASE \E f \in Listened : p = Reader(f)
  <2>1. PICK f \in Listened : p = Reader(f)
    BY <1>3
  <2>2. GoodReader(task[p], file[f], task[User(f)].op)
    BY <2>1 DEF ReaderInv
  <2> QED
    BY <2>1, <2>2 DEF GoodReader
<1> QED
  BY <1>1, <1>2, <1>3, ProcsOf

\* A file that is being closed has nobody waiting for its client, and no write.
LEMMA NobodyUses ==
  ASSUME GobiTypes, UserInv, ReaderInv, GoodRemover(task[Remover], device), FileInv, EntryInv, UrbOwned,
         NEW f \in Files, task[User(f)].op = "rel"
  PROVE  /\ file[f].id \in Ids /\ mem[file[f].id].notify = <<>> /\ mem[file[f].id].urbs = <<>>
         /\ \A p \in Procs : task[p].c # file[f].id
<1> DEFINE c == file[f].id
<1>1. GoodUser(f, task[User(f)], device, file[f])
  BY DEF UserInv
<1>2. c \in Ids /\ c # QMIWDS /\ c # QMICTL /\ c # NoId /\ c \in Clients
  BY <1>1, GobiAssumption DEF GoodUser, GobiTypes, FileTypes, Clients
<1>3. \A g \in Files : file[g].id = c => g = f
  BY <1>2 DEF FileInv
<1>4. \A p \in Procs : task[p].c # c
  <2> SUFFICES ASSUME NEW p \in Procs, task[p].c = c PROVE FALSE
    OBVIOUS
  <2>1. CASE \E g \in Files : p = User(g) /\ task[p].op = "write" /\ task[p].c = file[g].id
    BY <1>3, <2>1
  <2>2. CASE \E g \in Listened : p = Reader(g) /\ task[p].c = file[g].id /\ task[User(g)].op # "rel"
    BY <1>3, <2>2, ProcsOf
  <2> QED
    BY <1>2, <2>1, <2>2, ClientOf
<1> HIDE DEF c
<1>5. mem[c].notify \in Seq(Entries) /\ mem[c].urbs \in Seq(Urbs)
  BY <1>2, MemoryOf DEF GobiTypes
<1>6. mem[c].notify = <<>>
  <2> SUFFICES ASSUME mem[c].notify # <<>> PROVE FALSE
    OBVIOUS
  <2>1. 1 \in 1..Len(mem[c].notify) /\ mem[c].notify[1] \in Entries
    BY <1>5
  <2>2. mem[c].notify[1].who \in Notifiers
    BY <2>1 DEF Entries
  <2> QED
    BY <1>2, <1>4, <2>1, <2>2 DEF EntryInv, Notifiers
<1>7. mem[c].urbs = <<>>
  <2> SUFFICES ASSUME mem[c].urbs # <<>> PROVE FALSE
    OBVIOUS
  <2>1. 1 \in 1..Len(mem[c].urbs)
    BY <1>5
  <2> QED
    BY <1>2, <1>4, <2>1 DEF UrbOwned
<1> QED
  BY <1>2, <1>4, <1>6, <1>7 DEF c

\* When nobody is left in the list of a client, and nobody notifies, nobody sleeps.
LEMMA NobodyReads ==
  ASSUME GobiTypes, UserInv, ReaderInv, GoodRemover(task[Remover], device), HeldInv, AsleepInv,
         reading # "notify", task[Remover].pc # "c_up", NEW c, mem[c].notify = <<>>
  PROVE  \A p \in Procs : task[p].pc \in Reading => task[p].c # c
<1> SUFFICES ASSUME NEW p \in Procs, task[p].pc \in Reading, task[p].c = c PROVE FALSE
  OBVIOUS
<1>1. ~ \E i \in 1..Len(mem[task[p].c].notify) : mem[task[p].c].notify[i].who = p
  OBVIOUS
<1>2. PICK n \in Notifiers : held[n].who = p
  BY <1>1 DEF AsleepInv
<1>3. p # <<>>
  BY ProcsOf
<1>4. Notifying(n)
  BY <1>2, <1>3 DEF HeldInv
<1>5. n \in Procs /\ task[n].pc = "c_up"
  BY <1>4 DEF Notifying, Notifiers
<1> QED
  BY <1>5, PlacesOf

\* ReleaseClientID, undisturbed: the forced one of a client that is not there, that of
\* a file that is closed, and two steps of the unbinding: it takes one who waits to
\* notify it, or removes the client.
Forced(f) ==
  /\ task[User(f)].op = "force" /\ task[User(f)].pc = "clean"
  /\ task'[User(f)].pc = "again" /\ task'[User(f)].op = "force" /\ task'[User(f)].c = NoId
  /\ task'[User(f)].tid = 0
  /\ UNCHANGED <<clist, mem, held, file>>
Closes(f, c) ==
  /\ task[User(f)].op = "rel" /\ task[User(f)].pc = "clean" /\ c = file[f].id
  /\ task'[User(f)].pc = "idle" /\ task'[User(f)].op = "none" /\ task'[User(f)].c = NoId
  /\ file' = [file EXCEPT ![f] = [open |-> FALSE, id |-> NoId]]
  /\ clist' = Without(c, Succ(c)) /\ mem' = [mem EXCEPT ![c] = NoMem] /\ held' = held
Notifies(c) ==
  /\ c = task[Remover].arg /\ mem[c].notify # <<>>
  /\ held' = [held EXCEPT ![Remover] = Head(mem[c].notify)]
  /\ mem' = [mem EXCEPT ![c].notify = Tail(mem[c].notify)]
  /\ task'[Remover].pc = "c_up" /\ task'[Remover].op = "none" /\ task'[Remover].c = NoId
  /\ task'[Remover].arg = c /\ task'[Remover].nxt = Succ(c)
  /\ UNCHANGED <<clist, file>>
Removes(c) ==
  /\ c = task[Remover].arg /\ mem[c].notify = <<>>
  /\ task'[Remover].pc = "d_loop" /\ task'[Remover].op = "none" /\ task'[Remover].c = NoId
  /\ clist' = Without(c, Succ(c)) /\ mem' = [mem EXCEPT ![c] = NoMem]
  /\ UNCHANGED <<held, file>>
Release(p) ==
  /\ UNCHANGED <<urb, ntid, device, reading, cb, modem>>
  /\ reading \notin {"notify", "back"} /\ \A h \in Procs : task[h].pc # "r_remove"
  /\ \A h \in Procs \ {p} : Alike(task[h], task'[h])
  /\ \/ \E f \in Files : p = User(f) /\ device = "live" /\ (Forced(f) \/ Closes(f, file[f].id))
     \/ /\ p = Remover /\ task[Remover].pc \in {"clean", "c_more"} /\ Present(task[Remover].arg)
        /\ device # "live"
        /\ Notifies(task[Remover].arg) \/ Removes(task[Remover].arg)

\* A task whose client goes is as it was when it does not wait for it.
LEMMA FreshOf ==
  ASSUME NEW t \in Tasks, NEW b \in BOOLEAN, t.pc \in Reading /\ t.fresh => b
  PROVE  Alike(t, [t EXCEPT !.fresh = b])
  BY DEF Alike, Tasks

\* A step of ReleaseClientID is of one of four kinds: the forced release of no client,
\* the release by a file that nobody uses any more, or the unbinding that notifies one
\* who waits or deletes the client.
LEMMA ReleaseOf ==
  ASSUME GobiTypes, UserInv, ReaderInv, RemoverInv, FileInv, LiveInv, NotifyInv, UrbOwned, Undisturbed,
         NEW p \in Procs, ReleaseSteps(p)
  PROVE  Release(p)
<1> DEFINE c == task[p].arg
           nxt == IF task[p].pc = "clean" THEN Succ(c) ELSE task[p].nxt
<1>1. GoodRemover(task[Remover], device)
  BY DEF RemoverInv
<1>2. Clean(p)
  BY <1>1, PlacesOf DEF ReleaseSteps, KillUrb, NextUrb
<1>3. /\ reading \notin {"notify", "back"} /\ \A h \in Procs : task[h].pc # "r_remove"
      /\ UNCHANGED <<urb, ntid, device, reading, cb, modem>> /\ task[p].pc \in {"clean", "c_more"}
  BY <1>2 DEF Clean, Exclusive, Prompt, Undisturbed
<1>4. task \in [Procs -> Tasks] /\ task[p] \in Tasks /\ ClientTypes
  BY DEF GobiTypes, TaskTypes
<1>5. CASE \E f \in Files : p = User(f)
  <2>1. PICK f \in Files : p = User(f)
    BY <1>5
  <2>2. GoodUser(f, task[p], device, file[f]) /\ p # Remover /\ p[1] = f
    BY <2>1, ProcsOf DEF UserInv
  <2>3. task[p].pc = "clean" /\ task[p].op \in Releases /\ device = "live" /\ task[Remover].pc = "idle"
    BY <1>1, <1>3, <2>2 DEF GoodUser, GoodRemover, AskPlaces
  <2>4. CASE task[p].op = "force"
    <3>1. c = WdaId /\ f \in Wda /\ file[f].id = NoId
      BY <2>2, <2>3, <2>4 DEF GoodUser
    <3>2. ~Present(c)
      <4>1. \A g \in Files : file[g].id = WdaId => g = f
        BY <3>1 DEF FileInv, Undisturbed
      <4> QED
        BY <2>3, <3>1, <4>1, GobiAssumption DEF LiveInv
    <3>3. Released(p, {}) /\ UNCHANGED <<mem, held, clist>>
      BY <1>2, <3>2 DEF Clean
    <3>4. /\ task'[p] = [NoTask EXCEPT !.op = "force", !.pc = "again"] /\ UNCHANGED file
          /\ \A h \in Procs \ {p} : task'[h] = [task[h] EXCEPT !.fresh = @ /\ task[h].c \notin {}]
      BY <2>2, <2>4, <3>3 DEF Released
    <3>5. \A h \in Procs \ {p} : Alike(task[h], task'[h])
      BY <1>4, <3>4 DEF Alike, Tasks
    <3> QED
      BY <1>3, <2>1, <2>3, <2>4, <3>3, <3>4, <3>5 DEF Release, Forced, NoTask
  <2>5. CASE task[p].op = "rel"
    <3>1. c = file[f].id /\ c \in Ids /\ mem[c].notify = <<>> /\ mem[c].urbs = <<>>
          /\ \A h \in Procs : task[h].c # c
      BY <1>1, <2>1, <2>2, <2>5, NobodyUses DEF GoodUser, NotifyInv
    <3>2. Present(c)
      BY <2>3, <3>1 DEF LiveInv
    <3>3. FreeUrbsOrDelete(p, c, Succ(c)) /\ UNCHANGED held
      BY <1>2, <2>3, <3>1, <3>2 DEF Clean
    <3>4. Released(p, {c}) /\ clist' = Without(c, Succ(c)) /\ mem' = [mem EXCEPT ![c] = NoMem]
      BY <3>1, <3>3 DEF FreeUrbsOrDelete, Without
    <3>5. /\ task'[p] = [NoTask EXCEPT !.op = "none", !.pc = "idle"]
          /\ file' = [file EXCEPT ![f] = [open |-> FALSE, id |-> NoId]]
          /\ \A h \in Procs \ {p} : task'[h] = [task[h] EXCEPT !.fresh = @ /\ task[h].c \notin {c}]
      BY <2>2, <2>5, <3>4 DEF Released
    <3>6. \A h \in Procs \ {p} : Alike(task[h], task'[h])
      <4> SUFFICES ASSUME NEW h \in Procs \ {p} PROVE Alike(task[h], task'[h])
        OBVIOUS
      <4> DEFINE b == task[h].fresh /\ task[h].c \notin {c}
      <4>1. task[h] \in Tasks /\ b \in BOOLEAN /\ (task[h].pc \in Reading /\ task[h].fresh => b)
        BY <1>4, <3>1 DEF Tasks
      <4>2. task'[h] = [task[h] EXCEPT !.fresh = b]
        BY <3>5
      <4> HIDE DEF b
      <4> QED
        BY <4>1, <4>2, FreshOf
    <3> QED
      BY <1>3, <2>1, <2>3, <2>5, <3>1, <3>3, <3>4, <3>5, <3>6 DEF Release, Closes, NoTask
  <2> QED
    BY <2>3, <2>4, <2>5 DEF Releases
<1>6. CASE p = Remover
  <2>1. Present(c) /\ nxt = Succ(c) /\ device # "live" /\ task[p].op = "none"
    BY <1>1, <1>3, <1>6 DEF RemoverInv, GoodRemover
  <2>2. c \in Clients
    BY <1>4, <2>1, MemoryOf
  <2>3. \A h \in Procs : task[h].pc \notin Writing
    BY <1>1, <2>1, PlacesOf
  <2>4. mem[c].urbs = <<>>
    <3> SUFFICES ASSUME mem[c].urbs # <<>> PROVE FALSE
      OBVIOUS
    <3>1. 1 \in 1..Len(mem[c].urbs)
      BY <1>4, <2>2, MemoryOf
    <3> QED
      BY <2>2, <2>3, <3>1 DEF UrbOwned
  <2>5. CASE mem[c].notify # <<>>
    <3>1. /\ held' = [held EXCEPT ![p] = Head(mem[c].notify)]
          /\ mem' = [mem EXCEPT ![c].notify = Tail(@)]
          /\ task' = [task EXCEPT ![p].pc = "c_up", ![p].nxt = nxt]
          /\ UNCHANGED <<clist, file>>
      BY <1>2, <2>1, <2>5 DEF Clean
    <3>2. mem' = [mem EXCEPT ![c].notify = Tail(mem[c].notify)]
      BY <1>4, <2>2, <3>1 DEF ClientTypes
    <3>3. /\ task'[p].pc = "c_up" /\ task'[p].nxt = Succ(c) /\ task'[p].arg = c
          /\ task'[p].op = task[p].op /\ task'[p].c = task[p].c
          /\ \A h \in Procs \ {p} : Alike(task[h], task'[h])
      BY <1>4, <2>1, <3>1 DEF Alike, Tasks
    <3>4. task[p].c = NoId /\ task[p].op = "none"
      BY <1>1, <1>6 DEF GoodRemover
    <3> QED
      BY <1>3, <1>6, <2>1, <2>5, <3>1, <3>2, <3>3, <3>4 DEF Release, Notifies
  <2>6. CASE mem[c].notify = <<>>
    <3>1. FreeUrbsOrDelete(p, c, Succ(c)) /\ UNCHANGED held
      BY <1>2, <2>1, <2>6 DEF Clean
    <3>2. Released(p, {c}) /\ clist' = Without(c, Succ(c)) /\ mem' = [mem EXCEPT ![c] = NoMem]
      BY <2>4, <3>1 DEF FreeUrbsOrDelete, Without
    <3>3. /\ task'[p] = [NoTask EXCEPT !.op = "none", !.pc = "d_loop"] /\ UNCHANGED file
          /\ \A h \in Procs \ {p} : task'[h] = [task[h] EXCEPT !.fresh = @ /\ task[h].c \notin {c}]
      BY <1>6, <2>1, <3>2 DEF Released
    <3>4. \A h \in Procs : task[h].pc \in Reading => task[h].c # c
      BY <1>1, <1>3, <1>6, <2>6, NobodyReads DEF NotifyInv
    <3>5. \A h \in Procs \ {p} : Alike(task[h], task'[h])
      <4> SUFFICES ASSUME NEW h \in Procs \ {p} PROVE Alike(task[h], task'[h])
        OBVIOUS
      <4> DEFINE b == task[h].fresh /\ task[h].c \notin {c}
      <4>1. task[h] \in Tasks /\ b \in BOOLEAN /\ (task[h].pc \in Reading /\ task[h].fresh => b)
        BY <1>4, <3>4 DEF Tasks
      <4>2. task'[h] = [task[h] EXCEPT !.fresh = b]
        BY <3>3
      <4> HIDE DEF b
      <4> QED
        BY <4>1, <4>2, FreshOf
    <3> QED
      BY <1>3, <1>6, <2>1, <2>6, <3>1, <3>2, <3>3, <3>5 DEF Release, Removes, NoTask
  <2> QED
    BY <2>5, <2>6
<1>7. CASE \E f \in Listened : p = Reader(f)
  <2>1. PICK f \in Listened : p = Reader(f)
    BY <1>7
  <2>2. GoodReader(task[p], file[f], task[User(f)].op)
    BY <2>1 DEF ReaderInv
  <2> QED
    BY <1>3, <2>2 DEF GoodReader
<1> QED
  BY <1>5, <1>6, <1>7, ProcsOf

\* A notification: it wakes a reader in ReadSync, or it is a step of QMIWDSCallback,
\* which takes a message, does nothing, finds another one, or waits again.
Over(n) ==
  /\ held' = [held EXCEPT ![n] = NoEntry]
  /\ reading' = IF n = ReadCb THEN "back" ELSE reading
  /\ n = Remover => task'[Remover].pc = "c_more"
Wakes(n) ==
  /\ held[n].who \in Procs /\ task'[held[n].who].pc = "r_look"
  /\ mem' = mem /\ Over(n)
TakesOne(n) ==
  /\ held[n].who = ReadCb /\ mem[QMIWDS].list # <<>>
  /\ mem' = [mem EXCEPT ![QMIWDS].list = Tail(mem[QMIWDS].list)]
  /\ held'[n].who = ReadCb /\ held'[n].tid = 0 /\ \A k \in Notifiers \ {n} : held'[k] = held[k]
  /\ UNCHANGED <<task, reading>>
Looks(n) ==
  /\ held[n].who = ReadCb /\ mem' = mem
  /\ \/ Over(n)
     \/ held' = [held EXCEPT ![n] = WdsEntry] /\ UNCHANGED <<task, reading>>
WaitsAgain(n) ==
  /\ held[n].who = ReadCb /\ Present(QMIWDS) /\ mem[QMIWDS].list = <<>>
  /\ mem' = [mem EXCEPT ![QMIWDS].notify = Append(mem[QMIWDS].notify, WdsEntry)]
  /\ Over(n)
\* How the task t of process p goes on when n notifies.
NotifiedTask(n, p, t, s) ==
  \/ Alike(t, s) /\ (n = Remover /\ p = Remover => held'[n].who # <<>>)
  \/ /\ s.op = t.op /\ s.c = t.c /\ s.tid = t.tid /\ s.u = t.u /\ s.arg = t.arg /\ s.nxt = t.nxt
     /\ \/ p = Remover /\ n = Remover /\ t.pc = "c_up" /\ s.pc = "c_more"
        \/ p = held[n].who /\ p # Remover /\ t.pc = "r_wait" /\ s.pc = "r_look"
Notification(n) ==
  /\ UNCHANGED <<clist, urb, ntid, file, device, cb, modem>>
  /\ n \in {ReadCb, Remover} /\ Notifying(n)
  /\ \A p \in Procs : NotifiedTask(n, p, task[p], task'[p])
  /\ Wakes(n) \/ TakesOne(n) \/ Looks(n) \/ WaitsAgain(n)

\* A step of a notification is of one of four kinds, and it is of the URB callback or
\* of the unbinding of the device.
LEMMA NotifyOf ==
  ASSUME GobiTypes, UserInv, ReaderInv, GoodRemover(task[Remover], device), HeldInv, GoneInv,
         NEW n \in Notifiers, NotifySteps(n)
  PROVE  Notification(n)
<1>1. /\ task \in [Procs -> Tasks] /\ \A p \in Procs : task[p] \in Tasks
      /\ held \in [Notifiers -> Entries \union {NoEntry}]
      /\ Remover \in Procs /\ ReadCb \notin Procs /\ ReadCb \in Notifiers /\ <<>> \notin Notifiers
  BY ProcsOf DEF GobiTypes, TaskTypes, HeldTypes
<1>2. UNCHANGED <<clist, urb, ntid, file, device, cb, modem>> /\ Notifying(n)
  BY DEF NotifySteps, UpSem, QMIWDSCallback, ReadAsync
<1>3. n \in {ReadCb, Remover} /\ (n = Remover => task[Remover].pc = "c_up")
  <2>1. CASE n = ReadCb
    BY <1>1, <2>1
  <2>2. CASE n # ReadCb
    BY <1>2, <2>2, PlacesOf DEF Notifying, Notifiers
  <2> QED
    BY <2>1, <2>2
<1>4. held[n].who = ReadCb \/ held[n].step = "arm" => held[n].who = ReadCb /\ held[n].tid = 0
  <2>1. held[n].who # <<>> /\ held[n].who # ReadCb => held[n].step = "run"
    BY DEF HeldInv
  <2>2. held[n].who = <<>> => held[n].step = "run"
    <3>1. held[n] \in Entries => held[n].who \in Notifiers
      BY DEF Entries
    <3>2. NoEntry.step = "run"
      BY DEF NoEntry, Entry
    <3> QED
      BY <1>1, <3>1, <3>2
  <2>3. held[n].who = ReadCb => held[n].who # <<>>
    BY <1>1
  <2> QED
    BY <2>1, <2>2, <2>3 DEF HeldInv
\* The tasks when the notification is over.
<1>5. ASSUME NEW p \in Procs, task[p].pc = "r_wait", p = held[n].who,
             Notified(n, [task EXCEPT ![p].pc = "r_look"])
      PROVE  Over(n) /\ task'[p].pc = "r_look" /\ \A h \in Procs : NotifiedTask(n, h, task[h], task'[h])
  <2>1. p # Remover
    BY <1>5 DEF GoodRemover
  <2>2. /\ held' = [held EXCEPT ![n] = NoEntry]
        /\ reading' = IF n = ReadCb THEN "back" ELSE reading
        /\ IF n = ReadCb THEN task' = [task EXCEPT ![p].pc = "r_look"]
           ELSE task' = [task EXCEPT ![p].pc = "r_look", ![n].pc = "c_more"]
    BY <1>5 DEF Notified
  <2>3. \A h \in Procs \ {p, Remover} : task'[h] = task[h]
    BY <1>1, <1>3, <2>2
  <2>4. task'[p] = [task[p] EXCEPT !.pc = "r_look"]
    BY <1>1, <1>3, <2>1, <2>2
  <2>5. IF n = Remover THEN task'[Remover] = [task[Remover] EXCEPT !.pc = "c_more"]
        ELSE task'[Remover] = task[Remover]
    BY <1>1, <1>3, <2>1, <2>2
  <2>6. Over(n)
    BY <1>1, <2>2, <2>5 DEF Over, Tasks
  <2>7. NotifiedTask(n, p, task[p], task'[p])
    BY <1>1, <1>5, <2>1, <2>4 DEF NotifiedTask, Tasks
  <2>8. NotifiedTask(n, Remover, task[Remover], task'[Remover])
    BY <1>1, <1>3, <2>5 DEF NotifiedTask, Tasks, Alike
  <2>9. task'[p].pc = "r_look"
    BY <1>1, <2>4 DEF Tasks
  <2> QED
    BY <2>3, <2>6, <2>7, <2>8, <2>9 DEF NotifiedTask, Alike
<1>6. ASSUME Notified(n, task)
      PROVE  Over(n) /\ \A h \in Procs : NotifiedTask(n, h, task[h], task'[h])
  <2>1. /\ held' = [held EXCEPT ![n] = NoEntry]
        /\ reading' = IF n = ReadCb THEN "back" ELSE reading
        /\ IF n = ReadCb THEN task' = task ELSE task' = [task EXCEPT ![n].pc = "c_more"]
    BY <1>6 DEF Notified
  <2>2. \A h \in Procs \ {Remover} : task'[h] = task[h]
    BY <1>1, <1>3, <2>1
  <2>3. IF n = Remover THEN task'[Remover] = [task[Remover] EXCEPT !.pc = "c_more"]
        ELSE task'[Remover] = task[Remover]
    BY <1>1, <1>3, <2>1
  <2>4. Over(n)
    BY <1>1, <2>1, <2>3 DEF Over, Tasks
  <2>5. NotifiedTask(n, Remover, task[Remover], task'[Remover])
    BY <1>1, <1>3, <2>3 DEF NotifiedTask, Tasks, Alike
  <2> QED
    BY <2>2, <2>4, <2>5 DEF NotifiedTask, Alike
<1>7. ASSUME UNCHANGED task, held'[n].who # <<>>
      PROVE  \A h \in Procs : NotifiedTask(n, h, task[h], task'[h])
  BY <1>7 DEF NotifiedTask, Alike
<1>8. CASE UpSem(n)
  <2> DEFINE p == held[n].who
  <2>1. p \in Procs /\ mem' = mem /\ Notified(n, [task EXCEPT ![p].pc = IF @ = "r_wait" THEN "r_look" ELSE @])
    BY <1>8 DEF UpSem
  <2>2. p # <<>> /\ p # ReadCb
    BY <2>1, ProcsOf
  <2>3. task[p].pc = "r_wait"
    BY <2>2 DEF HeldInv
  <2>4. [task EXCEPT ![p].pc = IF @ = "r_wait" THEN "r_look" ELSE @] = [task EXCEPT ![p].pc = "r_look"]
    BY <1>1, <2>1, <2>3
  <2> HIDE DEF p
  <2>5. Over(n) /\ task'[p].pc = "r_look" /\ \A h \in Procs : NotifiedTask(n, h, task[h], task'[h])
    BY <1>5, <2>1, <2>3, <2>4 DEF p
  <2> QED
    BY <1>2, <1>3, <2>1, <2>5 DEF Notification, Wakes, p
<1>9. CASE QMIWDSCallback(n)
  <2>1. held[n] = WdsEntry /\ WdsEntry.who = ReadCb /\ WdsEntry.tid = 0
    BY <1>9 DEF QMIWDSCallback, WdsEntry, Entry
  <2>2. CASE Present(QMIWDS) /\ mem[QMIWDS].list # <<>>
    <3>1. /\ mem' = [mem EXCEPT ![QMIWDS].list = Tail(@)] /\ held' = [held EXCEPT ![n].step = "arm"]
          /\ UNCHANGED <<task, reading>>
      BY <1>9, <2>2 DEF QMIWDSCallback
    <3>2. held'[n] = [WdsEntry EXCEPT !.step = "arm"] /\ \A k \in Notifiers \ {n} : held'[k] = held[k]
      BY <1>1, <2>1, <3>1
    <3>3. held'[n].who = ReadCb /\ held'[n].tid = 0
      BY <3>2 DEF WdsEntry, Entry
    <3>4. mem' = [mem EXCEPT ![QMIWDS].list = Tail(mem[QMIWDS].list)]
      BY <3>1 DEF GobiTypes, ClientTypes, Clients
    <3>5. held'[n].who # <<>>
      BY <1>1, <3>3
    <3> QED
      BY <1>2, <1>3, <1>7, <2>1, <2>2, <3>1, <3>2, <3>3, <3>4, <3>5 DEF Notification, TakesOne
  <2>3. CASE ~(Present(QMIWDS) /\ mem[QMIWDS].list # <<>>)
    BY <1>2, <1>3, <1>6, <1>9, <2>1, <2>3 DEF QMIWDSCallback, Notification, Looks
  <2> QED
    BY <2>2, <2>3
<1>10. CASE ReadAsync(n)
  <2>1. held[n].who = ReadCb /\ held[n].tid = 0
    BY <1>4, <1>10 DEF ReadAsync
  <2>2. CASE Present(QMIWDS) /\ mem[QMIWDS].list # <<>>
    <3>1. held' = [held EXCEPT ![n] = WdsEntry] /\ UNCHANGED <<mem, task, reading>>
      BY <1>10, <2>2 DEF ReadAsync
    <3>2. held'[n].who # <<>>
      BY <1>1, <3>1 DEF WdsEntry, Entry
    <3> QED
      BY <1>2, <1>3, <1>7, <2>1, <3>1, <3>2 DEF Notification, Looks
  <2>3. CASE ~(Present(QMIWDS) /\ mem[QMIWDS].list # <<>>)
    <3>1. /\ Notified(n, task)
          /\ mem' = [mem EXCEPT ![QMIWDS].notify = IF Present(QMIWDS) THEN Append(@, WdsEntry) ELSE @]
      BY <1>10, <2>3 DEF ReadAsync
    <3>2. QMIWDS \in Clients /\ mem \in [Clients -> Memories]
      BY DEF GobiTypes, ClientTypes, Clients
    <3>3. CASE Present(QMIWDS)
      <4>1. mem' = [mem EXCEPT ![QMIWDS].notify = Append(mem[QMIWDS].notify, WdsEntry)]
        BY <3>1, <3>2, <3>3
      <4> QED
        BY <1>2, <1>3, <1>6, <2>1, <2>3, <3>1, <3>3, <4>1 DEF Notification, WaitsAgain
    <3>4. CASE ~Present(QMIWDS)
      <4>1. mem' = [mem EXCEPT ![QMIWDS].notify = mem[QMIWDS].notify]
        BY <3>1, <3>2, <3>4
      <4>2. [mem[QMIWDS] EXCEPT !.notify = mem[QMIWDS].notify] = mem[QMIWDS]
        BY <3>2 DEF Memories
      <4>3. mem' = mem
        BY <3>2, <4>1, <4>2
      <4> QED
        BY <1>2, <1>3, <1>6, <2>1, <3>1, <4>3 DEF Notification, Looks
    <3> QED
      BY <3>3, <3>4
  <2> QED
    BY <2>2, <2>3
<1> QED
  BY <1>8, <1>9, <1>10 DEF NotifySteps

\* What the tasks keep.
TaskInv == UserInv /\ ReaderInv /\ GoodRemover(task[Remover], device)

\* It is enough that nothing happens to the device and the files, and each task is as
\* it was, or its call has returned.
LEMMA TasksKeep ==
  ASSUME GobiTypes, TaskInv, UNCHANGED <<device, file>>,
         \A p \in Procs \ {Remover} : Alike(task[p], task'[p]) \/ task'[p] = NoTask,
         GoodRemover(task'[Remover], device)
  PROVE  TaskInv'
<1>1. ASSUME NEW f \in Files PROVE GoodUser(f, task'[User(f)], device', file'[f])
  <2>1. GoodUser(f, task[User(f)], device, file[f]) /\ User(f) \in Procs \ {Remover}
    BY ProcsOf DEF TaskInv, UserInv
  <2>2. CASE Alike(task[User(f)], task'[User(f)])
    BY <2>1, <2>2, AlikeOf
  <2>3. CASE task'[User(f)] = NoTask
    BY <2>3, IdleOf
  <2> QED
    BY <2>1, <2>2, <2>3
<1>2. ASSUME NEW f \in Listened PROVE GoodReader(task'[Reader(f)], file'[f], task'[User(f)].op)
  <2>1. /\ GoodReader(task[Reader(f)], file[f], task[User(f)].op) /\ f \in Files
        /\ User(f) \in Procs \ {Remover} /\ Reader(f) \in Procs \ {Remover}
    BY ProcsOf DEF TaskInv, ReaderInv
  <2>2. task'[User(f)].op \in {task[User(f)].op, "none"}
    BY <2>1, IdleOf DEF Alike
  <2>3. GoodReader(task[Reader(f)], file[f], task'[User(f)].op)
    BY <2>1, <2>2 DEF GoodReader
  <2>4. CASE Alike(task[Reader(f)], task'[Reader(f)])
    BY <2>3, <2>4, AlikeOf
  <2>5. CASE task'[Reader(f)] = NoTask
    BY <2>5, IdleOf
  <2> QED
    BY <2>1, <2>4, <2>5
<1> QED
  BY <1>1, <1>2 DEF TaskInv, UserInv, ReaderInv

\* Who is woken from poll() reads a file.
LEMMA WokenOf ==
  ASSUME GobiTypes, TaskInv, NEW C, task' = PollersWoken(C)
  PROVE  /\ task'[Remover] = task[Remover]
         /\ \A p \in Procs : task'[p] = task[p] \/ (task[p].pc = "poll" /\ task'[p] = NoTask)
         /\ \A p \in Procs : task[p].pc = "poll" /\ task[p].c \in C => task'[p] = NoTask
<1>1. \A p \in Procs : task'[p] = IF task[p].pc = "poll" /\ task[p].c \in C THEN NoTask ELSE task[p]
  BY DEF PollersWoken
<1>2. task[Remover].pc # "poll" /\ Remover \in Procs
  BY ProcsOf DEF TaskInv, GoodRemover
<1> QED
  BY <1>1, <1>2

\* A release leaves the other processes in their calls.
LEMMA ReleaseKeepsTask ==
  ASSUME GobiTypes, TaskInv, NEW p \in Procs, Release(p)
  PROVE  TaskInv'
<1>1. \A h \in Procs \ {p} : Alike(task[h], task'[h])
  BY DEF Release
<1>2. device' = device
  BY DEF Release
<1>3. ASSUME NEW f \in Files, p = User(f), device = "live", Forced(f) \/ Closes(f, file[f].id)
      PROVE  TaskInv'
  <2>1. GoodUser(f, task[p], device, file[f]) /\ p # Remover
    BY <1>3, ProcsOf DEF TaskInv, UserInv
  <2>2. \A g \in Files \ {f} : file'[g] = file[g]
    BY <1>3 DEF Forced, Closes, GobiTypes, FileTypes
  <2>3. GoodUser(f, task'[p], device, file'[f])
    <3>1. CASE Forced(f)
      BY <1>3, <2>1, <3>1 DEF Forced, GoodUser, Reading, Gets, Releases
    <3>2. CASE Closes(f, file[f].id)
      BY <1>3, <3>2 DEF Closes, GoodUser, Reading, Gets, Releases
    <3> QED
      BY <1>3, <3>1, <3>2
  <2>4. ASSUME NEW g \in Files PROVE GoodUser(g, task'[User(g)], device, file'[g])
    <3>1. CASE g = f
      BY <1>3, <2>3, <3>1
    <3>2. CASE g # f
      <4>1. GoodUser(g, task[User(g)], device, file[g]) /\ User(g) \in Procs \ {p} /\ file'[g] = file[g]
        BY <1>3, <2>2, <3>2, ProcsOf DEF TaskInv, UserInv
      <4> QED
        BY <1>1, <4>1, AlikeOf
    <3> QED
      BY <3>1, <3>2
  <2>5. ASSUME NEW g \in Listened PROVE GoodReader(task'[Reader(g)], file'[g], task'[User(g)].op)
    <3>1. /\ GoodReader(task[Reader(g)], file[g], task[User(g)].op) /\ g \in Files
          /\ Reader(g) \in Procs \ {p} /\ User(g) \in Procs
      BY <1>3, ProcsOf DEF TaskInv, ReaderInv
    <3>2. GoodReader(task'[Reader(g)], file[g], task[User(g)].op)
      BY <1>1, <3>1, AlikeOf
    <3>3. CASE g = f
      <4>1. CASE Forced(f)
        BY <1>3, <3>2, <3>3, <4>1 DEF Forced
      <4>2. CASE Closes(f, file[f].id)
        <5>1. task'[Reader(g)].pc = "idle"
          BY <3>2, <3>3, <4>2 DEF Closes, GoodReader
        <5> QED
          BY <3>2, <5>1, IdleStays
      <4> QED
        BY <1>3, <4>1, <4>2
    <3>4. CASE g # f
      <4>1. User(g) \in Procs \ {p}
        BY <1>3, <3>1, <3>4, ProcsOf
      <4>2. task'[User(g)].op = task[User(g)].op
        BY <1>1, <4>1 DEF Alike
      <4> QED
        BY <2>2, <3>1, <3>2, <3>4, <4>2
    <3> QED
      BY <3>3, <3>4
  <2>6. GoodRemover(task'[Remover], device)
    BY <1>1, <2>1, AlikeOf, ProcsOf DEF TaskInv
  <2> QED
    BY <1>2, <2>4, <2>5, <2>6 DEF TaskInv, UserInv, ReaderInv
<1>4. CASE /\ p = Remover /\ device # "live"
           /\ Notifies(task[Remover].arg) \/ Removes(task[Remover].arg)
  <2>1. GoodRemover(task'[Remover], device) /\ file' = file
    BY <1>4 DEF GoodRemover, Notifies, Removes
  <2> QED
    BY <1>1, <1>2, <1>4, <2>1, TasksKeep
<1> QED
  BY <1>3, <1>4 DEF Release

\* So does a notification, but for the reader it wakes.
LEMMA NotifyKeepsTask ==
  ASSUME GobiTypes, TaskInv, NEW n \in Notifiers, Notification(n)
  PROVE  TaskInv'
<1>1. UNCHANGED <<file, device>> /\ \A p \in Procs : NotifiedTask(n, p, task[p], task'[p])
  BY DEF Notification
<1>2. ASSUME NEW f \in Files
      PROVE  GoodUser(f, task'[User(f)], device, file[f]) /\ task'[User(f)].op = task[User(f)].op
  <2>1. /\ GoodUser(f, task[User(f)], device, file[f])
        /\ User(f) # Remover /\ NotifiedTask(n, User(f), task[User(f)], task'[User(f)])
    BY <1>1, ProcsOf DEF TaskInv, UserInv
  <2>2. CASE Alike(task[User(f)], task'[User(f)])
    BY <2>1, <2>2, AlikeOf DEF Alike
  <2>3. CASE ~Alike(task[User(f)], task'[User(f)])
    BY <2>1, <2>3 DEF NotifiedTask, GoodUser, AskPlaces, Reading, Early, Writing
  <2> QED
    BY <2>2, <2>3
<1>3. ASSUME NEW f \in Listened PROVE GoodReader(task'[Reader(f)], file[f], task'[User(f)].op)
  <2>1. /\ GoodReader(task[Reader(f)], file[f], task[User(f)].op) /\ f \in Files
        /\ Reader(f) # Remover /\ NotifiedTask(n, Reader(f), task[Reader(f)], task'[Reader(f)])
    BY <1>1, ProcsOf DEF TaskInv, ReaderInv
  <2>2. task'[User(f)].op = task[User(f)].op
    BY <1>2, <2>1
  <2>3. CASE Alike(task[Reader(f)], task'[Reader(f)])
    BY <2>1, <2>2, <2>3, AlikeOf
  <2>4. CASE ~Alike(task[Reader(f)], task'[Reader(f)])
    BY <2>1, <2>2, <2>4 DEF NotifiedTask, GoodReader, Reading
  <2> QED
    BY <2>3, <2>4
<1>4. GoodRemover(task'[Remover], device)
  <2>1. NotifiedTask(n, Remover, task[Remover], task'[Remover]) /\ GoodRemover(task[Remover], device)
    BY <1>1, ProcsOf DEF TaskInv
  <2>2. CASE Alike(task[Remover], task'[Remover])
    BY <2>1, <2>2, AlikeOf
  <2>3. CASE ~Alike(task[Remover], task'[Remover])
    BY <2>1, <2>3 DEF NotifiedTask, GoodRemover
  <2> QED
    BY <2>2, <2>3
<1> QED
  BY <1>1, <1>2, <1>3, <1>4 DEF TaskInv, UserInv, ReaderInv

\* ReadCallback walks along the list of clients, at first and when it resumes.
LEMMA WalkOf ==
  ASSUME GobiTypes, WalkInv, ReadCallback \/ ReadCallbackResumes
  PROVE  \E k \in Nat \ {0}, C \in SUBSET Targets, m \in Messages, s \in SUBSET Clients :
           Served(Seen(k, C, m.tid), Stop(k, C, m.tid), C, m, s)
<1>1. ClientTypes
  BY DEF GobiTypes
<1>2. CASE ReadCallback
  <2>1. PICK C \in SUBSET Targets, m \in Messages : ServeFrom(1, C, m, {})
    BY <1>2, MessageOf
  <2>2. Served(Seen(1, C, m.tid), Stop(1, C, m.tid), C, m, {})
    BY <2>1, ServeOf
  <2> QED
    BY <2>2
<1>3. CASE ReadCallbackResumes
  <2> DEFINE k == Position(cb.at) + 1
             C == cb.to
             m == cb.m
  <2>1. ServeFrom(k, C, m, {cb.at}) /\ Present(cb.at)
    BY <1>3 DEF ReadCallbackResumes, WalkInv
  <2>2. k \in Nat \ {0} /\ m \in Messages /\ cb.at \in Clients /\ C \in SUBSET Targets
    BY <1>1, <2>1, PositionOf, MemoryOf DEF ClientTypes, GobiTypes, CbTypes
  <2> HIDE DEF k, C, m
  <2>3. Served(Seen(k, C, m.tid), Stop(k, C, m.tid), C, m, {cb.at})
    BY <2>1, <2>2, ServeOf
  <2> QED
    BY <2>2, <2>3
<1> QED
  BY <1>2, <1>3

\* ReadCallback wakes who is in poll() on some clients.
LEMMA ServedTasks ==
  ASSUME GobiTypes, WalkInv, ReadCallback \/ ReadCallbackResumes
  PROVE  \E C \in SUBSET Clients : task' = PollersWoken(C)
<1>1. PICK k \in Nat \ {0}, C \in SUBSET Targets, m \in Messages, s \in SUBSET Clients :
        Served(Seen(k, C, m.tid), Stop(k, C, m.tid), C, m, s)
  BY WalkOf
<1>2. task' = PollersWoken((Seen(k, C, m.tid) \ {Stop(k, C, m.tid)}) \union s)
  BY <1>1 DEF Served
<1>3. ClientTypes
  BY DEF GobiTypes
<1>4. Seen(k, C, m.tid) \in SUBSET Clients
  BY <1>3, SeenOf
<1> QED
  BY <1>2, <1>4

\* Every process stays within the calls that are its own.
LEMMA TaskStep ==
  ASSUME GobiTypes, AskInv, CalmInv, Undisturbed, [GobiNext]_gobiVars
  PROVE  TaskInv'
<1> USE DEF CalmInv
<1>1. TaskInv /\ FileInv /\ \A p \in Procs : task[p] \in Tasks
  BY DEF TaskInv, RemoverInv, ListInv, GobiTypes, TaskTypes
<1>2. CASE UNCHANGED gobiVars
  BY <1>1, <1>2 DEF gobiVars, TaskInv, UserInv, ReaderInv
<1>3. ASSUME NEW f \in Files, Calls(f) \/ GetClientID(f) \/ ForceRelease(f) PROVE TaskInv'
  <2>1. /\ \A g \in Files \ {f} : file'[g] = file[g]
        /\ device' = device
        /\ \A h \in Procs \ {User(f)} : (f \in Listened => h # Reader(f)) => task'[h] = task[h]
        /\ GoodUser(f, task'[User(f)], device, file'[f])
        /\ f \in Listened => GoodReader(task'[Reader(f)], file'[f], task'[User(f)].op)
    BY <1>1, <1>3, UserCalls DEF TaskInv
  <2>2. ASSUME NEW g \in Files \ {f}
        PROVE  /\ GoodUser(g, task'[User(g)], device', file'[g])
               /\ g \in Listened => GoodReader(task'[Reader(g)], file'[g], task'[User(g)].op)
    <3>1. User(g) \in Procs \ {User(f)} /\ (f \in Listened => User(g) # Reader(f))
      BY ProcsOf
    <3>2. g \in Listened => Reader(g) \in Procs \ {User(f)} /\ (f \in Listened => Reader(g) # Reader(f))
      BY ProcsOf
    <3>3. task'[User(g)] = task[User(g)] /\ (g \in Listened => task'[Reader(g)] = task[Reader(g)])
      BY <2>1, <3>1, <3>2
    <3> QED
      BY <1>1, <2>1, <3>3 DEF TaskInv, UserInv, ReaderInv
  <2>3. task'[Remover] = task[Remover]
    <3>1. Remover \in Procs \ {User(f)} /\ (f \in Listened => Remover # Reader(f))
      BY ProcsOf
    <3> QED
      BY <2>1, <3>1
  <2>4. Listened \subseteq Files
    BY GobiAssumption
  <2> QED
    BY <1>1, <2>1, <2>2, <2>3, <2>4 DEF TaskInv, UserInv, ReaderInv
<1>4. ASSUME NEW p \in Procs, WriteSteps(p) \/ ReadSteps(p) \/ ReadTimeout(p) PROVE TaskInv'
  <2>1. CASE \E f \in Files : p = User(f)
    <3>1. PICK f \in Files : p = User(f)
      BY <2>1
    <3>2. /\ \A h \in Procs \ {p} : task'[h] = task[h]
          /\ UNCHANGED <<file, device, clist>>
          /\ GoodUser(f, task'[p], device, file[f])
          /\ task'[p].op \in {task[p].op, "none"}
      BY <1>1, <1>4, <3>1, UserSync DEF TaskInv
    <3>3. ASSUME NEW g \in Files PROVE GoodUser(g, task'[User(g)], device', file'[g])
      <4>1. CASE g = f
        BY <3>1, <3>2, <4>1
      <4>2. CASE g # f
        <5>1. User(g) \in Procs \ {p}
          BY <3>1, <4>2, ProcsOf
        <5> QED
          BY <1>1, <3>2, <5>1 DEF TaskInv, UserInv
      <4> QED
        BY <4>1, <4>2
    <3>4. ASSUME NEW g \in Listened PROVE GoodReader(task'[Reader(g)], file'[g], task'[User(g)].op)
      <4>1. g \in Files /\ Reader(g) \in Procs \ {p} /\ User(g) \in Procs
        BY <3>1, ProcsOf
      <4>2. task'[User(g)].op \in {task[User(g)].op, "none"}
        BY <3>2, <4>1
      <4> QED
        BY <1>1, <3>2, <4>1, <4>2 DEF TaskInv, ReaderInv, GoodReader
    <3>5. Remover \in Procs \ {p}
      BY <3>1, ProcsOf
    <3> QED
      BY <1>1, <3>2, <3>3, <3>4, <3>5 DEF TaskInv, UserInv, ReaderInv
  <2>2. CASE \E f \in Listened : p = Reader(f)
    <3>1. PICK f \in Listened : p = Reader(f)
      BY <2>2
    <3>2. /\ \A h \in Procs \ {p} : task'[h] = task[h]
          /\ UNCHANGED <<file, device, clist>>
          /\ GoodReader(task'[p], file[f], task[User(f)].op)
      BY <1>1, <1>4, <3>1, ReaderSync DEF TaskInv
    <3>3. ASSUME NEW g \in Files PROVE task'[User(g)] = task[User(g)]
      BY <3>1, <3>2, ProcsOf
    <3>4. ASSUME NEW g \in Listened PROVE GoodReader(task'[Reader(g)], file[g], task[User(g)].op)
      <4>1. CASE g = f
        BY <3>1, <3>2, <4>1
      <4>2. CASE g # f
        <5>1. Reader(g) \in Procs \ {p}
          BY <3>1, <4>2, ProcsOf
        <5> QED
          BY <1>1, <3>2, <5>1 DEF TaskInv, ReaderInv
      <4> QED
        BY <4>1, <4>2
    <3>5. Remover \in Procs \ {p} /\ Listened \subseteq Files
      BY <3>1, ProcsOf
    <3> QED
      BY <1>1, <3>2, <3>3, <3>4, <3>5 DEF TaskInv, UserInv, ReaderInv
  <2>3. p # Remover
    BY <1>1, <1>4, PlacesOf DEF TaskInv
  <2> QED
    BY <2>1, <2>2, <2>3, ProcsOf
<1>5. ASSUME NEW p \in Procs, ReleaseSteps(p) PROVE TaskInv'
  <2>1. Release(p)
    BY <1>5, ReleaseOf DEF ListInv, UrbInv
  <2> QED
    BY <1>1, <2>1, ReleaseKeepsTask
<1>6. ASSUME NEW n \in Notifiers, NotifySteps(n) PROVE TaskInv'
  <2>1. Notification(n)
    BY <1>1, <1>6, NotifyOf DEF TaskInv, ListInv, NotifyInv
  <2> QED
    BY <1>1, <2>1, NotifyKeepsTask
<1>7. CASE ReadUrbs
  <2>1. CASE IntCallback \/ ReadFails
    BY <1>1, <2>1 DEF IntCallback, ReadFails, TaskInv, UserInv, ReaderInv
  <2>2. CASE ReadCallback \/ ReadCallbackResumes
    <3>1. PICK C \in SUBSET Clients : task' = PollersWoken(C)
      BY <2>2, ServedTasks DEF ListInv
    <3>2. UNCHANGED <<file, device>>
      BY <2>2 DEF ReadCallback, ReadCallbackResumes
    <3>3. /\ task'[Remover] = task[Remover]
          /\ \A p \in Procs : task'[p] = task[p] \/ (task[p].pc = "poll" /\ task'[p] = NoTask)
      BY <1>1, <3>1, WokenOf
    <3>4. \A p \in Procs \ {Remover} : Alike(task[p], task'[p]) \/ task'[p] = NoTask
      BY <3>3 DEF Alike
    <3>5. GoodRemover(task'[Remover], device)
      BY <1>1, <3>3 DEF TaskInv
    <3> QED
      BY <1>1, <3>2, <3>4, <3>5, TasksKeep
  <2> QED
    BY <1>7, <2>1, <2>2 DEF ReadUrbs
<1>8. CASE Deregister
  <2>1. /\ device = "live" /\ device' = "removing" /\ file' = file
        /\ \A f \in Files : task[User(f)].pc = "idle"
        /\ task' = [task EXCEPT ![Remover] = Onward(task[Remover], "d_loop")]
    BY <1>8 DEF Deregister, Goto, Undisturbed
  <2>2. /\ task'[Remover] = Onward(task[Remover], "d_loop")
        /\ \A p \in Procs \ {Remover} : task'[p] = task[p]
    BY <2>1, ProcsOf DEF GobiTypes, TaskTypes
  <2>3. /\ Onward(task[Remover], "d_loop").pc = "d_loop"
        /\ Onward(task[Remover], "d_loop").op = task[Remover].op /\ Onward(task[Remover], "d_loop").c = task[Remover].c
    BY <1>1, OnwardOf, ProcsOf DEF Places
  <2>4. GoodRemover(task'[Remover], device')
    BY <1>1, <2>1, <2>2, <2>3 DEF TaskInv, GoodRemover
  <2>5. \A f \in Files : task'[User(f)] = task[User(f)]
    BY <2>2, ProcsOf
  <2>6. \A f \in Listened : task'[Reader(f)] = task[Reader(f)] /\ f \in Files
    BY <2>2, ProcsOf
  <2>7. \A f \in Files : GoodUser(f, task[User(f)], device', file[f])
    BY <1>1, <2>1, IdleStays DEF TaskInv, UserInv
  <2> QED
    BY <1>1, <2>1, <2>4, <2>5, <2>6, <2>7 DEF TaskInv, UserInv, ReaderInv
<1>9. CASE DeregisterClient
  <2>1. UNCHANGED <<file, device>> /\ task[Remover].pc = "d_loop"
    BY <1>9 DEF DeregisterClient
  <2>2. CASE task' = PollersWoken({Head(clist)})
    <3>1. /\ task'[Remover] = task[Remover]
          /\ \A p \in Procs : task'[p] = task[p] \/ (task[p].pc = "poll" /\ task'[p] = NoTask)
      BY <1>1, <2>2, WokenOf
    <3>2. \A p \in Procs \ {Remover} : Alike(task[p], task'[p]) \/ task'[p] = NoTask
      BY <3>1 DEF Alike
    <3>3. GoodRemover(task'[Remover], device)
      BY <1>1, <3>1 DEF TaskInv
    <3> QED
      BY <1>1, <2>1, <3>2, <3>3, TasksKeep
  <2>3. CASE task' = [task EXCEPT ![Remover] = [NoTask EXCEPT !.pc = "clean", !.arg = Head(clist)]]
    <3>1. /\ task'[Remover] = [NoTask EXCEPT !.pc = "clean", !.arg = Head(clist)]
          /\ \A p \in Procs \ {Remover} : task'[p] = task[p]
      BY <2>3, ProcsOf DEF GobiTypes, TaskTypes
    <3>2. GoodRemover(task'[Remover], device)
      BY <1>1, <2>1, <3>1 DEF TaskInv, GoodRemover, NoTask
    <3>3. \A p \in Procs \ {Remover} : Alike(task[p], task'[p]) \/ task'[p] = NoTask
      BY <3>1 DEF Alike
    <3> QED
      BY <1>1, <2>1, <3>2, <3>3, TasksKeep
  <2> QED
    BY <1>9, <2>2, <2>3 DEF DeregisterClient
<1>10. CASE KillRead \/ DeregisterEnds
  <2>1. PICK l \in {"d_wait", "d_done"} : task' = [task EXCEPT ![Remover] = Onward(task[Remover], l)]
    BY <1>10 DEF KillRead, DeregisterEnds, Goto
  <2>2. file' = file /\ device' \in {device, "invalid"} /\ task[Remover].pc \in {"d_loop", "d_wait"}
    BY <1>10 DEF KillRead, DeregisterEnds
  <2>3. device # "live" /\ device' # "live"
    BY <1>1, <2>2 DEF TaskInv, GoodRemover
  <2>4. /\ task'[Remover] = Onward(task[Remover], l)
        /\ \A p \in Procs \ {Remover} : task'[p] = task[p]
    BY <2>1, ProcsOf DEF GobiTypes, TaskTypes
  <2>5. /\ Onward(task[Remover], l).pc = l
        /\ Onward(task[Remover], l).op = task[Remover].op /\ Onward(task[Remover], l).c = task[Remover].c
    BY <1>1, OnwardOf, ProcsOf DEF Places
  <2>6. GoodRemover(task'[Remover], device')
    BY <1>1, <2>2, <2>3, <2>4, <2>5 DEF TaskInv, GoodRemover
  <2>7. \A f \in Files : task'[User(f)] = task[User(f)]
    BY <2>4, ProcsOf
  <2>8. \A f \in Listened : task'[Reader(f)] = task[Reader(f)] /\ f \in Files
    BY <2>4, ProcsOf
  <2>9. \A f \in Files : task[User(f)].pc = "idle"
    BY <1>1, <2>3 DEF TaskInv, UserInv, GoodUser
  <2>10. \A f \in Files : GoodUser(f, task[User(f)], device', file[f])
    BY <1>1, <2>9, IdleStays DEF TaskInv, UserInv
  <2> QED
    BY <1>1, <2>2, <2>6, <2>7, <2>8, <2>10 DEF TaskInv, UserInv, ReaderInv
<1> QED
  BY <1>2, <1>3, <1>4, <1>5, <1>6, <1>7, <1>8, <1>9, <1>10 DEF GobiNext, RemoverSteps

\* A client is taken out of the list; the others stay, in their order.
LEMMA WithoutNext ==
  ASSUME ClientTypes, ClientApart, NEW c, Present(c)
  PROVE  /\ \A x : Contains(Without(c, Succ(c)), x) <=> Present(x) /\ x # c
         /\ \A i, j \in 1..Len(Without(c, Succ(c))) :
              Without(c, Succ(c))[i] = Without(c, Succ(c))[j] => i = j
<1> DEFINE n == Succ(c)
           w == Without(c, n)
           k == Position(c) - 1
           j == IF n = NoId \/ ~Present(n) THEN Len(clist) + 1 ELSE Position(n)
<1>1. /\ clist \in Seq(Clients) /\ Len(clist) \in Nat /\ Position(c) \in 1..Len(clist) /\ clist[Position(c)] = c
      /\ NoId \notin Clients
  BY PositionOf, GobiAssumption DEF ClientTypes, Clients
<1>2. j = k + 2
  <2>1. CASE Position(c) < Len(clist)
    <3>1. Position(c) + 1 \in 1..Len(clist) /\ n = clist[Position(c) + 1]
      BY <1>1, <2>1 DEF Succ
    <3>2. n \in Clients /\ Present(n)
      BY <1>1, <3>1 DEF Present, Contains
    <3>3. Position(n) \in 1..Len(clist) /\ clist[Position(n)] = n
      BY <1>1, <3>2, PositionOf
    <3>4. Position(n) = Position(c) + 1
      BY <3>1, <3>3 DEF ClientApart
    <3> QED
      BY <1>1, <3>2, <3>4
  <2>2. CASE ~(Position(c) < Len(clist))
    <3>1. n = NoId /\ Position(c) = Len(clist)
      BY <1>1, <2>2 DEF Succ
    <3> QED
      BY <1>1, <3>1
  <2> QED
    BY <2>1, <2>2
<1>3. /\ Len(w) = k + (Len(clist) + 1 - j)
      /\ \A i \in 1..Len(w) : w[i] = IF i <= k THEN clist[i] ELSE clist[i - k + j - 1]
  BY WithoutOf
<1> SUFFICES /\ \A x : Contains(w, x) <=> Present(x) /\ x # c
             /\ \A h, l \in 1..Len(w) : w[h] = w[l] => h = l
  OBVIOUS
<1> HIDE DEF w, n, j
<1>4. Len(w) = Len(clist) - 1 /\ k \in Nat /\ k < Len(clist)
  <2>1. k \in Nat /\ k < Len(clist)
    BY <1>1
  <2> HIDE DEF k
  <2>2. Len(w) = k + (Len(clist) + 1 - (k + 2))
    BY <1>2, <1>3
  <2> QED
    BY <1>1, <2>1, <2>2
<1>5. ASSUME NEW i \in 1..Len(w) PROVE w[i] = IF i <= k THEN clist[i] ELSE clist[i + 1]
  <2>1. w[i] = IF i <= k THEN clist[i] ELSE clist[i - k + j - 1]
    BY <1>3
  <2> HIDE DEF k
  <2>2. i - k + j - 1 = i + 1
    BY <1>1, <1>2, <1>4
  <2> QED
    BY <2>1, <2>2
<1>6. clist[k + 1] = c
  BY <1>1
<1> HIDE DEF k
<1>7. ASSUME NEW x, Contains(w, x) PROVE Present(x) /\ x # c
  <2>1. PICK i \in 1..Len(w) : w[i] = x
    BY <1>7 DEF Contains
  <2>2. PICK h \in 1..Len(clist) : clist[h] = x /\ h # k + 1
    BY <1>1, <1>4, <1>5, <2>1
  <2>3. k + 1 \in 1..Len(clist)
    BY <1>1, <1>4
  <2> QED
    BY <1>6, <2>2, <2>3 DEF ClientApart, Present, Contains
<1>8. ASSUME NEW x, Present(x), x # c PROVE Contains(w, x)
  <2>1. PICK i \in 1..Len(clist) : clist[i] = x
    BY <1>8 DEF Present, Contains
  <2>2. i # k + 1
    BY <1>6, <1>8, <2>1
  <2>3. CASE i <= k
    BY <1>1, <1>4, <1>5, <2>1, <2>3 DEF Contains
  <2>4. CASE i > k + 1
    <3>1. i - 1 \in 1..Len(w) /\ ~(i - 1 <= k) /\ (i - 1) + 1 = i
      BY <1>1, <1>4, <2>1, <2>4
    <3>2. w[i - 1] = x
      BY <1>5, <2>1, <3>1
    <3> QED
      BY <3>1, <3>2 DEF Contains
  <2> QED
    BY <1>4, <2>2, <2>3, <2>4
<1>9. ASSUME NEW h \in 1..Len(w), NEW l \in 1..Len(w), w[h] = w[l] PROVE h = l
  <2> DEFINE a == IF h <= k THEN h ELSE h + 1
             b == IF l <= k THEN l ELSE l + 1
  <2>1. a \in 1..Len(clist) /\ b \in 1..Len(clist) /\ clist[a] = w[h] /\ clist[b] = w[l]
    BY <1>1, <1>4, <1>5, <1>9
  <2>2. a = b
    BY <1>9, <2>1 DEF ClientApart
  <2> QED
    BY <1>4, <2>2
<1> QED
  BY <1>7, <1>8, <1>9

\* What a step does to the list of clients and to the files.
Keeps == UNCHANGED <<clist, file>> /\ (device' = device \/ device' # "live")
Empties(f) ==
  /\ UNCHANGED <<clist, device, mem>> /\ (file[f].id = NoId \/ device # "live")
  /\ \E b \in BOOLEAN : file' = [file EXCEPT ![f] = [open |-> b, id |-> NoId]]
Gains(f, id) ==
  /\ ~Present(id) /\ device = "live" /\ file[f].open /\ file[f].id = NoId /\ (id = WdaId => f \in Wda)
  /\ clist' = Append(clist, id) /\ file' = [file EXCEPT ![f].id = id]
  /\ UNCHANGED <<mem, device, reading, cb>>
Removed(c) ==
  /\ Present(c) /\ clist' = Without(c, Succ(c)) /\ mem' = [mem EXCEPT ![c] = NoMem]
  /\ UNCHANGED <<device, reading, cb>> /\ reading \notin {"notify", "back"}
Loses(f) ==
  /\ device = "live" /\ file[f].id # NoId /\ Removed(file[f].id)
  /\ file' = [file EXCEPT ![f] = [open |-> FALSE, id |-> NoId]]
Drops == device # "live" /\ Removed(task[Remover].arg) /\ UNCHANGED file
          /\ task'[Remover].pc = "d_loop"

\* What a step does with the list of clients and the files: nothing, a file without client
\* opens or closes, it gets a client or loses it, or the unbinding deletes one.
LEMMA ListOf ==
  ASSUME GobiTypes, AskInv, CalmInv, Undisturbed, [GobiNext]_gobiVars
  PROVE  \/ Keeps
         \/ \E f \in Files : Empties(f) \/ Loses(f) \/ \E id \in Ids : Gains(f, id)
         \/ Drops
<1> USE DEF CalmInv
<1>1. TaskInv /\ FileInv /\ LiveInv /\ \A p \in Procs : task[p] \in Tasks
  BY DEF TaskInv, RemoverInv, ListInv, GobiTypes, TaskTypes
<1>2. CASE UNCHANGED gobiVars
  BY <1>2 DEF gobiVars, Keeps
<1>3. ASSUME NEW f \in Files, Calls(f) \/ ForceRelease(f) PROVE Keeps \/ Empties(f)
  <2>1. CASE UserspaceOpen(f)
    <3>1. UNCHANGED <<clist, device, mem>> /\ file' = [file EXCEPT ![f] = [open |-> TRUE, id |-> NoId]] /\ ~file[f].open
      BY <2>1 DEF UserspaceOpen
    <3>2. file[f].id = NoId
      BY <1>1, <3>1 DEF FileInv
    <3> QED
      BY <3>1, <3>2 DEF Empties
  <2>2. CASE UserspaceClose(f)
    <3>1. CASE device = "live" /\ file[f].id # NoId
      BY <2>2, <3>1 DEF UserspaceClose, Keeps
    <3>2. CASE ~(device = "live" /\ file[f].id # NoId)
      BY <2>2, <3>2 DEF UserspaceClose, Empties
    <3> QED
      BY <3>1, <3>2
  <2>3. CASE GetServiceFile(f) \/ UserspaceWrite(f) \/ UserspaceRead(f) \/ UserspacePoll(f) \/ ForceRelease(f)
    BY <2>3 DEF GetServiceFile, UserspaceWrite, UserspaceRead, UserspacePoll, ForceRelease, Keeps
  <2> QED
    BY <1>3, <2>1, <2>2, <2>3 DEF Calls
<1>4. ASSUME NEW f \in Files, GetClientID(f) PROVE Keeps \/ \E id \in Ids : Gains(f, id)
  <2> DEFINE p == User(f)
             id == task[p].got.id
  <2>1. task[p].pc = "alloc" /\ p \in Procs /\ UNCHANGED <<mem, device, reading, cb>>
    BY <1>4, ProcsOf DEF GetClientID
  <2>2. GoodUser(f, task[p], device, file[f])
    BY <1>1 DEF TaskInv, UserInv
  <2>3. device = "live" /\ file[f].open /\ file[f].id = NoId /\ task[p].arg = Service(f)
    <3>1. task[p].op \in Gets
      BY <2>1 DEF AskInv, AskTask, GoodTask
    <3> QED
      BY <2>1, <2>2, <3>1 DEF GoodUser
  <2>4. id \in IdsOf(task[p].arg) \union {NoId}
    BY <2>1 DEF AskInv, AskTask, GoodTask, Answers
  <2>5. id # NoId => id \in Ids /\ (id = WdaId => f \in Wda)
    BY <2>3, <2>4, GobiAssumption DEF IdsOf, Service
  <2> HIDE DEF id
  <2>6. CASE id # NoId /\ ~Present(id)
    BY <1>4, <2>1, <2>3, <2>5, <2>6 DEF GetClientID, Gains, id, p
  <2>7. CASE ~(id # NoId /\ ~Present(id))
    BY <1>4, <2>1, <2>7 DEF GetClientID, Keeps, id, p
  <2> QED
    BY <2>6, <2>7
<1>5. ASSUME NEW p \in Procs, WriteSteps(p) \/ ReadSteps(p) \/ ReadTimeout(p) PROVE Keeps
  BY <1>5 DEF WriteSteps, ReadSteps, AddToURBList, Submit, SubmitFails, WriteSyncCallback, WriteDown, WritePop,
              Look, ReadGiveUp, ReadTimeout, Keeps
<1>6. ASSUME NEW p \in Procs, ReleaseSteps(p) PROVE Keeps \/ Drops \/ \E f \in Files : Loses(f)
  <2>1. Release(p)
    BY <1>6, ReleaseOf DEF ListInv, UrbInv
  <2>2. UNCHANGED <<device, reading, cb>> /\ reading \notin {"notify", "back"}
    BY <2>1 DEF Release
  <2>3. ASSUME NEW f \in Files, p = User(f), device = "live", Forced(f) \/ Closes(f, file[f].id)
        PROVE  Keeps \/ Loses(f)
    <3>1. CASE Forced(f)
      BY <2>2, <3>1 DEF Forced, Keeps
    <3>2. CASE Closes(f, file[f].id)
      <4>1. GoodUser(f, task[User(f)], device, file[f]) /\ task[User(f)].op = "rel"
        BY <1>1, <3>2 DEF TaskInv, UserInv, Closes
      <4>2. file[f].id # NoId /\ file[f].id \in Ids
        BY <4>1 DEF GoodUser, GobiTypes, FileTypes
      <4>3. Present(file[f].id)
        BY <1>1, <2>3, <4>2 DEF LiveInv
      <4> QED
        BY <2>2, <2>3, <3>2, <4>2, <4>3 DEF Closes, Loses, Removed
    <3> QED
      BY <2>3, <3>1, <3>2
  <2>4. CASE /\ Present(task[Remover].arg) /\ device # "live"
             /\ Notifies(task[Remover].arg) \/ Removes(task[Remover].arg)
    BY <2>2, <2>4 DEF Notifies, Removes, Keeps, Drops, Removed
  <2> QED
    BY <2>1, <2>3, <2>4 DEF Release
<1>7. ASSUME NEW n \in Notifiers, NotifySteps(n) PROVE Keeps
  BY <1>7 DEF NotifySteps, UpSem, QMIWDSCallback, ReadAsync, Keeps
<1>8. CASE ReadUrbs \/ Deregister \/ RemoverSteps
  BY <1>8 DEF ReadUrbs, IntCallback, ReadCallback, ReadFails, ReadCallbackResumes, Deregister, RemoverSteps,
              DeregisterClient, KillRead, DeregisterEnds, Keeps
<1> QED
  BY <1>2, <1>3, <1>4, <1>5, <1>6, <1>7, <1>8 DEF GobiNext

\* The list of clients and the files.
LEMMA ClientsStep ==
  ASSUME GobiTypes, AskInv, CalmInv, Undisturbed, [GobiNext]_gobiVars
  PROVE  ClientApart' /\ FileInv' /\ LiveInv'
<1>1. ClientApart /\ FileInv /\ LiveInv
  BY DEF CalmInv, ListInv
<1>2. /\ ClientTypes /\ clist \in Seq(Clients) /\ Len(clist) \in Nat
      /\ file \in [Files -> [open : BOOLEAN, id : Ids \union {NoId}]]
      /\ NoId \notin Ids /\ QMICTL \notin Ids /\ QMIWDS \notin Ids /\ WdaId \in Ids
  BY GobiAssumption DEF GobiTypes, ClientTypes, FileTypes
<1>3. CASE Keeps
  BY <1>1, <1>3 DEF Keeps, ClientApart, FileInv, LiveInv, Present
<1>4. ASSUME NEW f \in Files, NEW b \in BOOLEAN, file' = [file EXCEPT ![f] = [open |-> b, id |-> NoId]]
      PROVE  FileInv' /\ file'[f].id = NoId /\ \A g \in Files \ {f} : file'[g] = file[g]
  <2>1. file'[f].id = NoId /\ \A g \in Files \ {f} : file'[g] = file[g]
    BY <1>2, <1>4
  <2> QED
    BY <1>1, <1>2, <2>1 DEF FileInv
<1>5. ASSUME NEW f \in Files, Empties(f) PROVE ClientApart' /\ FileInv' /\ LiveInv'
  <2>1. UNCHANGED <<clist, device>> /\ (file[f].id = NoId \/ device # "live")
    BY <1>5 DEF Empties
  <2>2. FileInv' /\ file'[f].id = NoId /\ \A g \in Files \ {f} : file'[g] = file[g]
    BY <1>4, <1>5 DEF Empties
  <2>3. ClientApart'
    BY <1>1, <2>1 DEF ClientApart
  <2>4. LiveInv'
    BY <1>1, <1>2, <2>1, <2>2 DEF LiveInv, Present
  <2> QED
    BY <2>2, <2>3, <2>4
<1>6. ASSUME NEW f \in Files, NEW id \in Ids, Gains(f, id) PROVE ClientApart' /\ FileInv' /\ LiveInv'
  <2>1. /\ file'[f].id = id /\ file'[f].open /\ \A g \in Files \ {f} : file'[g] = file[g]
    BY <1>2, <1>6 DEF Gains
  <2>2. /\ Len(clist') = Len(clist) + 1 /\ clist'[Len(clist) + 1] = id
        /\ \A i \in 1..Len(clist) : clist'[i] = clist[i]
    <3>1. id \in Clients
      BY DEF Clients
    <3> QED
      BY <1>2, <1>6, <3>1, AppendOf DEF Gains
  <2>3. \A i \in 1..Len(clist) : clist[i] # id
    BY <1>6 DEF Gains, Present, Contains
  <2>4. ClientApart'
    <3> SUFFICES ASSUME NEW i \in 1..(Len(clist) + 1), NEW j \in 1..(Len(clist) + 1), clist'[i] = clist'[j]
                 PROVE  i = j
      BY <2>2 DEF ClientApart
    <3>1. \A h \in 1..(Len(clist) + 1) : h \in 1..Len(clist) \/ h = Len(clist) + 1
      BY <1>2
    <3> QED
      BY <1>1, <2>2, <2>3, <3>1 DEF ClientApart
  <2>5. \A c : Contains(clist', c) <=> Contains(clist, c) \/ c = id
    <3>1. \A h \in 1..(Len(clist) + 1) : h \in 1..Len(clist) \/ h = Len(clist) + 1
      BY <1>2
    <3>2. Len(clist) + 1 \in 1..(Len(clist) + 1) /\ \A h \in 1..Len(clist) : h \in 1..(Len(clist) + 1)
      BY <1>2
    <3> QED
      BY <2>2, <3>1, <3>2 DEF Contains
  <2>6. device = "live" /\ device' = device /\ ~Present(id) /\ (id = WdaId => f \in Wda) /\ file[f].id = NoId
    BY <1>6 DEF Gains
  <2>7. \A g \in Files : file[g].id # id
    BY <1>1, <2>6 DEF LiveInv
  <2>8. FileInv'
    <3> SUFFICES /\ \A g, h \in Files : file'[g].id = file'[h].id /\ file'[g].id # NoId => g = h
                 /\ \A g \in Files : file'[g].id # NoId => file'[g].open
                 /\ \A g \in Files : file'[g].id = WdaId => g \in Wda
      BY DEF FileInv
    <3>1. \A g, h \in Files : file'[g].id = file'[h].id /\ file'[g].id # NoId => g = h
      BY <1>1, <2>1, <2>7 DEF FileInv
    <3> QED
      BY <1>1, <2>1, <2>6, <3>1 DEF FileInv
  <2>9. LiveInv'
    <3>1. Contains(clist, QMICTL) /\ Contains(clist, QMIWDS)
          /\ \A c \in Ids : Contains(clist, c) <=> \E g \in Files : file[g].id = c
      BY <1>1, <2>6 DEF LiveInv, Present
    <3>2. Contains(clist', QMICTL) /\ Contains(clist', QMIWDS)
      BY <2>5, <3>1
    <3>3. ASSUME NEW c \in Ids PROVE Contains(clist', c) <=> \E g \in Files : file'[g].id = c
      <4>1. (\E g \in Files : file[g].id = c) => \E g \in Files \ {f} : file[g].id = c
        BY <1>2, <2>6
      <4> QED
        BY <2>1, <2>5, <3>1, <4>1
    <3> QED
      BY <3>2, <3>3 DEF LiveInv, Present
  <2> QED
    BY <2>4, <2>8, <2>9
<1>7. ASSUME NEW c, Removed(c)
      PROVE  /\ ClientApart' /\ device' = device
             /\ \A x : Contains(clist', x) <=> Contains(clist, x) /\ x # c
  <2>1. Present(c) /\ clist' = Without(c, Succ(c)) /\ device' = device
    BY <1>7 DEF Removed
  <2>2. /\ \A x : Contains(Without(c, Succ(c)), x) <=> Present(x) /\ x # c
        /\ \A i, j \in 1..Len(Without(c, Succ(c))) :
             Without(c, Succ(c))[i] = Without(c, Succ(c))[j] => i = j
    BY <1>1, <1>2, <2>1, WithoutNext
  <2> QED
    BY <2>1, <2>2 DEF ClientApart, Present
<1>8. ASSUME NEW f \in Files, Loses(f) PROVE ClientApart' /\ FileInv' /\ LiveInv'
  <2> DEFINE c == file[f].id
  <2>1. device = "live" /\ c # NoId /\ Removed(c) /\ c \in Ids
    BY <1>2, <1>8 DEF Loses
  <2>2. FileInv' /\ file'[f].id = NoId /\ \A g \in Files \ {f} : file'[g] = file[g]
    BY <1>4, <1>8 DEF Loses
  <2>3. ClientApart' /\ \A x : Contains(clist', x) <=> Contains(clist, x) /\ x # c
    BY <1>7, <2>1
  <2>4. \A g \in Files \ {f} : file[g].id # c
    BY <1>1, <2>1 DEF FileInv
  <2>5. LiveInv'
    <3> SUFFICES /\ Contains(clist', QMICTL) /\ Contains(clist', QMIWDS)
                 /\ \A x \in Ids : Contains(clist', x) <=> \E g \in Files : file'[g].id = x
      BY DEF LiveInv, Present
    <3>1. Contains(clist, QMICTL) /\ Contains(clist, QMIWDS)
          /\ \A x \in Ids : Contains(clist, x) <=> \E g \in Files : file[g].id = x
      BY <1>1, <2>1 DEF LiveInv, Present
    <3> HIDE DEF c
    <3>2. Contains(clist', QMICTL) /\ Contains(clist', QMIWDS)
      BY <1>2, <2>1, <2>3, <3>1
    <3>3. ASSUME NEW x \in Ids PROVE Contains(clist', x) <=> \E g \in Files : file'[g].id = x
      <4>1. CASE x = c
        BY <2>1, <2>2, <2>3, <2>4, <4>1
      <4>2. CASE x # c
        <5>1. (\E g \in Files : file'[g].id = x) <=> \E g \in Files \ {f} : file[g].id = x
          BY <1>2, <2>2
        <5>2. (\E g \in Files : file[g].id = x) <=> \E g \in Files \ {f} : file[g].id = x
          BY <4>2 DEF c
        <5> QED
          BY <2>3, <3>1, <4>2, <5>1, <5>2
      <4> QED
        BY <4>1, <4>2
    <3> QED
      BY <3>2, <3>3
  <2> QED
    BY <2>2, <2>3, <2>5
<1>9. CASE Drops
  <2>1. device # "live" /\ Removed(task[Remover].arg) /\ file' = file
    BY <1>9 DEF Drops
  <2>2. ClientApart' /\ device' = device
    BY <1>7, <2>1
  <2> QED
    BY <1>1, <2>1, <2>2 DEF FileInv, LiveInv
<1> QED
  BY <1>3, <1>5, <1>6, <1>8, <1>9, ListOf

\* What the modem has to answer.
LEMMA WireStep ==
  ASSUME GobiTypes, AskInv, WireInv, [GobiNext]_gobiVars
  PROVE  WireInv'
<1>1. CASE UNCHANGED gobiVars
  BY <1>1 DEF gobiVars, WireInv
<1>2. ASSUME wire' \subseteq wire PROVE WireInv'
  BY <1>2 DEF WireInv
<1>3. ASSUME NEW f \in Files, Calls(f) \/ GetClientID(f) \/ ForceRelease(f) PROVE WireInv'
  BY <1>2, <1>3 DEF Calls, UserspaceOpen, GetServiceFile, UserspaceWrite, UserspaceRead, UserspacePoll,
                    UserspaceClose, GetClientID, ForceRelease, modem
<1>4. ASSUME NEW p \in Procs, WriteSyncCallback(p) PROVE WireInv'
  <2>1. /\ wire' = wire \union {[op |-> task[p].op, c |-> task[p].c, tid |-> task[p].tid,
                                 of |-> task[p].u, arg |-> task[p].arg]}
        /\ task[p].pc \in AskPlaces
    BY <1>4 DEF WriteSyncCallback, AskPlaces
  <2>2. task[p].c = QMICTL => task[p].tid # 0
    BY <2>1 DEF AskInv, AskTask, GoodTask
  <2> QED
    BY <2>1, <2>2 DEF WireInv
<1>5. ASSUME NEW p \in Procs, WriteSteps(p) \/ ReadSteps(p) \/ ReleaseSteps(p) \/ ReadTimeout(p),
             ~WriteSyncCallback(p)
      PROVE  WireInv'
  BY <1>2, <1>5 DEF WriteSteps, ReadSteps, ReleaseSteps, AddToURBList, Submit, SubmitFails, WriteDown, WritePop,
                    Look, ReadGiveUp, ReadTimeout, Clean, KillUrb, NextUrb, modem
<1>6. ASSUME NEW n \in Notifiers, NotifySteps(n) PROVE WireInv'
  BY <1>2, <1>6 DEF NotifySteps, UpSem, QMIWDSCallback, ReadAsync, modem
<1>7. CASE ReadCallback
  BY <1>2, <1>7, MessageOf
<1>8. CASE IntCallback \/ ReadFails \/ ReadCallbackResumes \/ Deregister \/ RemoverSteps
  BY <1>2, <1>8 DEF IntCallback, ReadFails, ReadCallbackResumes, Deregister, RemoverSteps,
                    DeregisterClient, KillRead, DeregisterEnds, modem
<1> QED
  BY <1>1, <1>3, <1>4, <1>5, <1>6, <1>7, <1>8 DEF GobiNext, ReadUrbs

\* Who changes the chain of URBs, and where ReadCallback is.
LEMMA ReadingOf ==
  ASSUME [GobiNext]_gobiVars
  PROVE  \/ UNCHANGED <<reading, cb>>
         \/ (ReadUrbs \/ KillRead \/ \E n \in Notifiers : NotifySteps(n)) /\ UNCHANGED <<clist, file>>
<1>1. ASSUME NEW f \in Files, Calls(f) \/ GetClientID(f) \/ ForceRelease(f) PROVE UNCHANGED <<reading, cb>>
  BY <1>1 DEF Calls, UserspaceOpen, GetServiceFile, UserspaceWrite, UserspaceRead, UserspacePoll,
              UserspaceClose, GetClientID, ForceRelease
<1>2. ASSUME NEW p \in Procs, WriteSteps(p) \/ ReadSteps(p) \/ ReleaseSteps(p) \/ ReadTimeout(p)
      PROVE  UNCHANGED <<reading, cb>>
  BY <1>2 DEF WriteSteps, ReadSteps, ReleaseSteps, AddToURBList, Submit, SubmitFails, WriteSyncCallback,
              WriteDown, WritePop, Look, ReadGiveUp, ReadTimeout, Clean, KillUrb, NextUrb
<1>3. CASE Deregister \/ DeregisterClient \/ DeregisterEnds
  BY <1>3 DEF Deregister, DeregisterClient, DeregisterEnds
<1>4. ASSUME NEW n \in Notifiers, NotifySteps(n) PROVE UNCHANGED <<clist, file>>
  BY <1>4 DEF NotifySteps, UpSem, QMIWDSCallback, ReadAsync
<1>5. CASE ReadUrbs \/ KillRead
  BY <1>5 DEF ReadUrbs, IntCallback, ReadCallback, ReadFails, ReadCallbackResumes, KillRead
<1> QED
  BY <1>1, <1>2, <1>3, <1>4, <1>5 DEF GobiNext, RemoverSteps, gobiVars

\* The unbinding releases a client of the list, and knows which is the next one.
LEMMA RemoverStep ==
  ASSUME GobiTypes, AskInv, CalmInv, Undisturbed, [GobiNext]_gobiVars
  PROVE  RemoverInv'
<1> DEFINE t == task[Remover]
           Cleaning == {"clean", "c_up", "c_more"}
           Knows == /\ task'[Remover].pc \in Cleaning => Contains(clist', task'[Remover].arg)
                    /\ task'[Remover].pc \in {"c_up", "c_more"} =>
                         task'[Remover].nxt = Succ(task[Remover].arg)'
<1>1. /\ TaskInv /\ TaskInv' /\ Remover \in Procs /\ task \in [Procs -> Tasks]
      /\ clist \in Seq(Clients) /\ Len(clist) \in Nat
  BY TaskStep, ProcsOf DEF TaskInv, CalmInv, RemoverInv, GobiTypes, TaskTypes, ClientTypes
<1>2. /\ t.pc \in Cleaning => Present(t.arg)
      /\ t.pc \in {"c_up", "c_more"} => t.nxt = Succ(t.arg)
      /\ t.pc # "idle" <=> device # "live"
  BY DEF CalmInv, RemoverInv, GoodRemover
<1> SUFFICES Knows
  BY <1>1 DEF RemoverInv, TaskInv, Present
<1>3. ASSUME clist' = clist, task'[Remover].pc \in Cleaning => t.pc \in Cleaning,
             task'[Remover].pc \in {"c_up", "c_more"} => t.pc \in {"c_up", "c_more"},
             task'[Remover].arg = t.arg, task'[Remover].nxt = t.nxt
      PROVE  Knows
  <2>1. Succ(task[Remover].arg)' = Succ(t.arg)
    BY <1>3 DEF Succ, Position, SelectInSeq
  <2> QED
    BY <1>2, <1>3, <2>1 DEF Present
<1>4. ASSUME task'[Remover].pc \notin Cleaning PROVE Knows
  BY <1>4
<1> HIDE DEF Knows
<1>5. ASSUME Alike(t, task'[Remover]), clist' = clist PROVE Knows
  BY <1>3, <1>5 DEF Alike
<1>6. CASE UNCHANGED gobiVars
  BY <1>5, <1>6 DEF gobiVars, Alike
<1>7. ASSUME NEW f \in Files, Calls(f) \/ GetClientID(f) \/ ForceRelease(f) PROVE Knows
  <2>1. /\ \A h \in Procs \ {User(f)} : (f \in Listened => h # Reader(f)) => task'[h] = task[h]
        /\ device' = device
    BY <1>7, UserCalls DEF CalmInv, ListInv
  <2>2. Remover \in Procs \ {User(f)} /\ (f \in Listened => Remover # Reader(f))
    BY ProcsOf
  <2>3. task'[Remover] = t
    BY <2>1, <2>2
  <2>4. CASE t.pc = "idle"
    BY <1>4, <2>3, <2>4
  <2>5. CASE t.pc # "idle"
    <3>1. device # "live"
      BY <1>2, <2>5
    <3>2. task[User(f)].pc = "idle"
      BY <1>1, <3>1 DEF TaskInv, UserInv, GoodUser
    <3>3. UNCHANGED clist
      BY <1>7, <3>2 DEF Calls, UserspaceOpen, GetServiceFile, UserspaceWrite, UserspaceRead, UserspacePoll,
                    UserspaceClose, GetClientID, ForceRelease
    <3> QED
      BY <1>5, <2>3, <3>3 DEF Alike
  <2> QED
    BY <2>4, <2>5
<1>8. ASSUME NEW p \in Procs, WriteSteps(p) \/ ReadSteps(p) \/ ReadTimeout(p) PROVE Knows
  <2>1. clist' = clist
    BY <1>8 DEF WriteSteps, ReadSteps, AddToURBList, Submit, SubmitFails, WriteSyncCallback, WriteDown, WritePop,
                Look, ReadGiveUp, ReadTimeout
  <2>2. CASE \E f \in Files : p = User(f)
    <3>1. PICK f \in Files : p = User(f)
      BY <2>2
    <3>2. \A h \in Procs \ {p} : task'[h] = task[h]
      BY <1>8, <3>1, UserSync DEF CalmInv
    <3>3. Remover \in Procs \ {p}
      BY <3>1, ProcsOf
    <3>4. task'[Remover] = t
      BY <3>2, <3>3
    <3> QED
      BY <1>5, <2>1, <3>4 DEF Alike
  <2>3. CASE \E f \in Listened : p = Reader(f)
    <3>1. PICK f \in Listened : p = Reader(f)
      BY <2>3
    <3>2. \A h \in Procs \ {p} : task'[h] = task[h]
      BY <1>8, <3>1, ReaderSync DEF CalmInv
    <3>3. Remover \in Procs \ {p}
      BY <3>1, ProcsOf
    <3>4. task'[Remover] = t
      BY <3>2, <3>3
    <3> QED
      BY <1>5, <2>1, <3>4 DEF Alike
  <2>4. p # Remover
    BY <1>1, <1>8, PlacesOf DEF TaskInv
  <2> QED
    BY <2>2, <2>3, <2>4, ProcsOf
<1>9. ASSUME NEW p \in Procs, ReleaseSteps(p) PROVE Knows
  <2>1. Release(p)
    BY <1>9, ReleaseOf DEF CalmInv, ListInv, UrbInv
  <2>2. ASSUME NEW f \in Files, p = User(f), device = "live" PROVE Knows
    <3>1. Remover \in Procs \ {p} /\ t.pc = "idle"
      BY <1>2, <2>2, ProcsOf
    <3>2. Alike(t, task'[Remover])
      BY <2>1, <3>1 DEF Release
    <3> QED
      BY <1>4, <3>1, <3>2 DEF Alike
  <2>3. CASE Notifies(t.arg) /\ Present(t.arg)
    <3>1. clist' = clist /\ task'[Remover].arg = t.arg /\ task'[Remover].nxt = Succ(t.arg)
      BY <2>3 DEF Notifies
    <3>2. Succ(task[Remover].arg)' = Succ(t.arg)
      BY <3>1 DEF Succ, Position, SelectInSeq
    <3> QED
      BY <2>3, <3>1, <3>2 DEF Knows, Present
  <2>4. CASE Removes(t.arg)
    BY <1>4, <2>4 DEF Removes
  <2> QED
    BY <2>1, <2>2, <2>3, <2>4 DEF Release
<1>10. ASSUME NEW n \in Notifiers, NotifySteps(n) PROVE Knows
  <2>1. Notification(n)
    BY <1>1, <1>10, NotifyOf DEF TaskInv, CalmInv, ListInv, NotifyInv
  <2>2. clist' = clist /\ NotifiedTask(n, Remover, t, task'[Remover])
    BY <1>1, <2>1 DEF Notification
  <2>3. CASE Alike(t, task'[Remover])
    BY <1>5, <2>2, <2>3
  <2>4. CASE ~Alike(t, task'[Remover])
    <3>1. /\ task'[Remover].arg = t.arg /\ task'[Remover].nxt = t.nxt
          /\ t.pc \in {"c_up", "r_wait"} /\ task'[Remover].pc = IF t.pc = "c_up" THEN "c_more" ELSE "r_look"
      BY <2>2, <2>4 DEF NotifiedTask
    <3> QED
      BY <1>3, <2>2, <3>1
  <2> QED
    BY <2>3, <2>4
<1>11. CASE ReadUrbs
  <2>1. clist' = clist
    BY <1>11 DEF ReadUrbs, IntCallback, ReadCallback, ReadFails, ReadCallbackResumes
  <2>2. CASE IntCallback \/ ReadFails
    BY <1>5, <2>1, <2>2 DEF IntCallback, ReadFails, Alike
  <2>3. CASE ReadCallback \/ ReadCallbackResumes
    <3>1. PICK C \in SUBSET Clients : task' = PollersWoken(C)
      BY <2>3, ServedTasks DEF CalmInv, ListInv
    <3>2. task'[Remover] = t
      BY <1>1, <3>1, WokenOf
    <3> QED
      BY <1>5, <2>1, <3>2 DEF Alike
  <2> QED
    BY <1>11, <2>2, <2>3 DEF ReadUrbs
<1>12. CASE Deregister \/ KillRead \/ DeregisterEnds
  <2>1. PICK l \in {"d_loop", "d_wait", "d_done"} : task' = [task EXCEPT ![Remover] = Onward(task[Remover], l)]
    BY <1>12 DEF Deregister, KillRead, DeregisterEnds, Goto
  <2>2. task'[Remover] = Onward(t, l)
    BY <1>1, <2>1
  <2>3. Onward(t, l).pc = l
    BY <1>1, OnwardOf DEF Places
  <2> QED
    BY <1>4, <2>2, <2>3
<1>13. CASE DeregisterClient
  <2>1. clist' = clist /\ clist # <<>>
    BY <1>13 DEF DeregisterClient
  <2>2. CASE task' = PollersWoken({Head(clist)})
    <3>1. task'[Remover] = t
      BY <1>1, <2>2, WokenOf
    <3> QED
      BY <1>5, <2>1, <3>1 DEF Alike
  <2>3. CASE task' = [task EXCEPT ![Remover] = [NoTask EXCEPT !.pc = "clean", !.arg = Head(clist)]]
    <3>1. task'[Remover] = [NoTask EXCEPT !.pc = "clean", !.arg = Head(clist)]
      BY <1>1, <2>3
    <3>2. task'[Remover].pc = "clean" /\ task'[Remover].arg = Head(clist)
      BY <3>1 DEF NoTask
    <3>3. 1 \in 1..Len(clist) /\ clist[1] = Head(clist)
      BY <1>1, <2>1
    <3> QED
      BY <2>1, <3>2, <3>3 DEF Knows, Contains
  <2> QED
    BY <1>13, <2>2, <2>3 DEF DeregisterClient
<1> QED
  BY <1>6, <1>7, <1>8, <1>9, <1>10, <1>11, <1>12, <1>13 DEF GobiNext, RemoverSteps

\* While ReadCallback has given up the lock, the client it is at stays.
LEMMA WalkStep ==
  ASSUME GobiTypes, AskInv, CalmInv, Undisturbed, [GobiNext]_gobiVars
  PROVE  WalkInv'
<1>1. WalkInv /\ TaskInv /\ ClientTypes
  BY DEF CalmInv, ListInv, TaskInv, RemoverInv, GobiTypes
<1>2. ASSUME UNCHANGED <<clist, cb>>, reading' = reading \/ (reading = "notify" /\ reading' = "back")
      PROVE  WalkInv'
  BY <1>1, <1>2 DEF WalkInv, Present
<1>3. ASSUME reading' \notin {"notify", "back"} PROVE WalkInv'
  BY <1>3 DEF WalkInv
<1>4. CASE UNCHANGED gobiVars
  BY <1>2, <1>4 DEF gobiVars
<1>5. CASE ~Keeps
  <2>1. CASE \E f \in Files : Empties(f)
    BY <1>2, <1>5, <2>1, ReadingOf DEF Empties, Keeps
  <2>2. CASE \E f \in Files, id \in Ids : Gains(f, id)
    <3>1. PICK f \in Files, id \in Ids : Gains(f, id)
      BY <2>2
    <3>2. id \in Clients /\ clist' = Append(clist, id) /\ UNCHANGED <<reading, cb>>
      BY <3>1 DEF Gains, Clients
    <3>3. /\ Len(clist') = Len(clist) + 1 /\ Len(clist) \in Nat
          /\ \A i \in 1..Len(clist) : clist'[i] = clist[i]
      BY <1>1, <3>2, AppendOf DEF ClientTypes
    <3>4. \A i \in 1..Len(clist) : i \in 1..Len(clist')
      BY <3>3
    <3>5. Present(cb.at) => Contains(clist', cb.at)
      BY <3>3, <3>4 DEF Present, Contains
    <3> QED
      BY <1>1, <3>2, <3>5 DEF WalkInv, Present
  <2>3. CASE \E c : Removed(c)
    BY <1>3, <2>3 DEF Removed
  <2> QED
    BY <1>5, <2>1, <2>2, <2>3, ListOf DEF Loses, Drops
<1>6. CASE Keeps
  <2>1. clist' = clist
    BY <1>6 DEF Keeps
  <2>2. CASE UNCHANGED <<reading, cb>>
    BY <1>2, <2>1, <2>2
  <2>3. ASSUME NEW n \in Notifiers, NotifySteps(n) PROVE WalkInv'
    <3>1. Notification(n)
      BY <1>1, <2>3, NotifyOf DEF TaskInv, CalmInv, ListInv, NotifyInv
    <3>2. cb' = cb /\ (n = ReadCb => reading = "notify")
      BY <3>1 DEF Notification, Notifying
    <3>3. reading' = reading \/ (n = ReadCb /\ reading' = "back")
      BY <3>1 DEF Notification, Wakes, TakesOne, Looks, WaitsAgain, Over
    <3> QED
      BY <1>2, <2>1, <3>2, <3>3
  <2>4. CASE ReadUrbs
    <3>1. ASSUME NEW k \in Nat \ {0}, NEW C, NEW m \in Messages, NEW served, ServeFrom(k, C, m, served)
          PROVE  WalkInv'
      <4>1. Served(Seen(k, C, m.tid), Stop(k, C, m.tid), C, m, served)
        BY <3>1, ServeOf
      <4>2. CASE Stop(k, C, m.tid) = NoId
        BY <1>3, <4>1, <4>2 DEF Served
      <4>3. CASE Stop(k, C, m.tid) # NoId
        <5>1. cb'.at = Stop(k, C, m.tid)
          BY <4>1, <4>3 DEF Served
        <5>2. \E i \in k..Len(clist) : clist[i] = Stop(k, C, m.tid)
          BY <1>1, <4>3, SeenOf
        <5>3. Present(Stop(k, C, m.tid))
          BY <5>2 DEF Present, Contains
        <5> QED
          BY <2>1, <5>1, <5>3 DEF WalkInv, Present
      <4> QED
        BY <4>2, <4>3
    <3>2. CASE ReadCallback
      BY <3>1, <3>2, MessageOf
    <3>3. CASE ReadCallbackResumes
      <4>1. ServeFrom(Position(cb.at) + 1, cb.to, cb.m, {cb.at}) /\ Present(cb.at)
        BY <1>1, <3>3 DEF ReadCallbackResumes, WalkInv
      <4>2. Position(cb.at) + 1 \in Nat \ {0} /\ cb.m \in Messages
        BY <1>1, <4>1, PositionOf DEF ClientTypes, GobiTypes, CbTypes
      <4> QED
        BY <3>1, <4>1, <4>2
    <3>4. CASE IntCallback \/ ReadFails
      BY <1>3, <3>4 DEF IntCallback, ReadFails
    <3> QED
      BY <2>4, <3>2, <3>3, <3>4 DEF ReadUrbs
  <2>5. CASE KillRead
    BY <1>3, <2>5 DEF KillRead
  <2> QED
    BY <1>4, <2>2, <2>3, <2>4, <2>5, ReadingOf
<1> QED
  BY <1>5, <1>6

\* A task writes or reads on as before, or does neither.
GoesOn(t, s) ==
  \/ s.pc = t.pc /\ s.c = t.c /\ s.tid = t.tid /\ s.u = t.u
  \/ t.pc \notin Writing \union Reading /\ s.pc \notin Writing \union Reading
AllStay == \A p \in Procs : GoesOn(task[p], task'[p])

\* A call of user space begins outside WriteSync and the wait of ReadSync.
LEMMA CallsStay ==
  ASSUME GobiTypes, NEW f \in Files, Calls(f) \/ GetClientID(f) \/ ForceRelease(f)
  PROVE  AllStay
<1> DEFINE p == User(f)
           Free == {"idle", "alloc", "again"}
<1>1. /\ p \in Procs /\ task \in [Procs -> Tasks] /\ \A h \in Procs : task[h] \in Tasks
      /\ f \in Listened => Reader(f) \in Procs
  BY ProcsOf DEF GobiTypes, TaskTypes
<1>2. ASSUME NEW h \in Procs, NEW s, task' = [task EXCEPT ![h] = s], task[h].pc \in Free,
             s.pc \in {"w_add", "r_look", "poll", "idle", "again"}
      PROVE  AllStay
  <2>1. task'[h] = s /\ \A g \in Procs \ {h} : task'[g] = task[g]
    BY <1>1, <1>2
  <2>2. GoesOn(task[h], s)
    BY <1>2 DEF GoesOn, Writing, Reading
  <2> QED
    BY <2>1, <2>2 DEF AllStay, GoesOn
<1>3. ASSUME NEW o, NEW c, CtlRequest(p, o, c), task[p].pc \in Free PROVE AllStay
  <2> DEFINE s == [NoTask EXCEPT !.pc = "w_add", !.op = o, !.c = QMICTL, !.tid = NextTid, !.arg = c]
  <2>1. task' = [task EXCEPT ![p] = s]
    BY <1>3 DEF CtlRequest
  <2>2. s.pc = "w_add"
    BY DEF NoTask
  <2> HIDE DEF s
  <2> QED
    BY <1>1, <1>2, <1>3, <2>1, <2>2
<1>4. UNCHANGED task => AllStay
  BY DEF AllStay, GoesOn
<1>5. ASSUME NEW l \in {"idle", "again"}, task' = [task EXCEPT ![p] = Onward(task[p], l)], task[p].pc \in Free
      PROVE  AllStay
  <2>1. Onward(task[p], l).pc = l
    BY <1>1, OnwardOf DEF Places, NoTask, Onward
  <2> QED
    BY <1>1, <1>2, <1>5, <2>1
<1> HIDE DEF AllStay
<1>6. CASE UserspaceOpen(f)
  BY <1>4, <1>6 DEF UserspaceOpen
<1>7. CASE GetServiceFile(f)
  BY <1>3, <1>7 DEF GetServiceFile
<1>8. CASE UserspaceWrite(f)
  <2> DEFINE s == [NoTask EXCEPT !.pc = "w_add", !.op = "write", !.c = file[f].id]
  <2>1. task' = [task EXCEPT ![p] = s] /\ task[p].pc \in Free /\ s.pc = "w_add"
    BY <1>8 DEF UserspaceWrite, NoTask
  <2> HIDE DEF s
  <2> QED
    BY <1>1, <1>2, <2>1
<1>9. CASE UserspaceRead(f)
  <2> DEFINE s == [NoTask EXCEPT !.pc = "r_look", !.op = "read", !.c = file[f].id]
  <2>1. task' = [task EXCEPT ![Reader(f)] = s] /\ task[Reader(f)].pc \in Free /\ s.pc = "r_look" /\ f \in Listened
    BY <1>9 DEF UserspaceRead, NoTask
  <2> HIDE DEF s
  <2> QED
    BY <1>1, <1>2, <2>1
<1>10. CASE UserspacePoll(f)
  <2> DEFINE s == [NoTask EXCEPT !.pc = "poll", !.op = "poll", !.c = file[f].id]
  <2>1. task' = [task EXCEPT ![Reader(f)] = s] /\ task[Reader(f)].pc \in Free /\ s.pc = "poll" /\ f \in Listened
    BY <1>10 DEF UserspacePoll, NoTask
  <2> HIDE DEF s
  <2> QED
    BY <1>1, <1>2, <2>1
<1>11. CASE UserspaceClose(f)
  BY <1>3, <1>4, <1>11 DEF UserspaceClose
<1>12. CASE GetClientID(f)
  <2>1. /\ task[p].pc \in Free
        /\ \/ task' = [task EXCEPT ![p] = Onward(task[p], "idle")]
           \/ task' = [task EXCEPT ![p] = Onward(task[p], Failed(p))]
    BY <1>12 DEF GetClientID, Goto
  <2>2. Failed(p) \in {"idle", "again"}
    BY DEF Failed
  <2> QED
    BY <1>5, <2>1, <2>2
<1>13. CASE ForceRelease(f)
  <2>1. task[p].pc \in Free
    BY <1>13 DEF ForceRelease
  <2>2. (\E o, c : CtlRequest(p, o, c)) \/ task' = [task EXCEPT ![p] = Onward(task[p], "idle")]
    BY <1>13 DEF ForceRelease, Goto
  <2> QED
    BY <1>3, <1>5, <2>1, <2>2
<1> QED
  BY <1>6, <1>7, <1>8, <1>9, <1>10, <1>11, <1>12, <1>13 DEF Calls

\* Everything but a step of WriteSync and ReadSync, and a notification.
LEMMA StaysOf ==
  ASSUME GobiTypes, CalmInv, Undisturbed, [GobiNext]_gobiVars
  PROVE  \/ AllStay
         \/ \E p \in Procs : WriteSteps(p) \/ ReadSteps(p) \/ ReadTimeout(p)
         \/ \E n \in Notifiers : NotifySteps(n)
<1>1. /\ TaskInv /\ Remover \in Procs /\ task \in [Procs -> Tasks] /\ \A p \in Procs : task[p] \in Tasks
  BY ProcsOf DEF TaskInv, CalmInv, RemoverInv, GobiTypes, TaskTypes
<1>2. \A t, s : Alike(t, s) => GoesOn(t, s)
  BY DEF Alike, GoesOn
<1>3. UNCHANGED task => AllStay
  BY DEF AllStay, GoesOn
<1>4. ASSUME NEW p \in Procs, ReleaseSteps(p) PROVE AllStay
  <2>1. Release(p)
    BY <1>4, ReleaseOf DEF CalmInv, ListInv, UrbInv
  <2>2. \A h \in Procs \ {p} : Alike(task[h], task'[h])
    BY <2>1 DEF Release
  <2>3. GoesOn(task[p], task'[p])
    BY <2>1 DEF Release, Forced, Closes, Notifies, Removes, GoesOn, Writing, Reading
  <2> QED
    BY <1>2, <2>2, <2>3 DEF AllStay
<1>5. ASSUME NEW C, task' = PollersWoken(C) PROVE AllStay
  <2>1. \A p \in Procs : task'[p] = task[p] \/ (task[p].pc = "poll" /\ task'[p] = NoTask)
    BY <1>1, <1>5, WokenOf
  <2> QED
    BY <2>1 DEF AllStay, GoesOn, NoTask, Writing, Reading
<1>6. CASE ReadUrbs
  BY <1>3, <1>5, <1>6, ServedTasks DEF ReadUrbs, IntCallback, ReadFails, CalmInv, ListInv
<1>7. ASSUME NEW s, task' = [task EXCEPT ![Remover] = s], s.pc \notin Writing \union Reading PROVE AllStay
  <2>1. task'[Remover] = s /\ \A p \in Procs \ {Remover} : task'[p] = task[p]
    BY <1>1, <1>7
  <2>2. task[Remover].pc \notin Writing \union Reading
    BY <1>1 DEF TaskInv, GoodRemover, Writing, Reading
  <2> QED
    BY <1>7, <2>1, <2>2 DEF AllStay, GoesOn
<1>8. CASE Deregister \/ KillRead \/ DeregisterEnds
  <2>1. PICK l \in {"d_loop", "d_wait", "d_done"} : task' = [task EXCEPT ![Remover] = Onward(task[Remover], l)]
    BY <1>8 DEF Deregister, KillRead, DeregisterEnds, Goto
  <2>2. Onward(task[Remover], l).pc = l
    BY <1>1, OnwardOf DEF Places
  <2>3. l \notin Writing \union Reading
    BY DEF Writing, Reading
  <2> QED
    BY <1>7, <2>1, <2>2, <2>3
<1>9. CASE DeregisterClient
  <2> DEFINE s == [NoTask EXCEPT !.pc = "clean", !.arg = Head(clist)]
  <2>1. task' = PollersWoken({Head(clist)}) \/ task' = [task EXCEPT ![Remover] = s]
    BY <1>9 DEF DeregisterClient
  <2>2. s.pc \notin Writing \union Reading
    BY DEF NoTask, Writing, Reading
  <2> HIDE DEF s
  <2> QED
    BY <1>5, <1>7, <2>1, <2>2
<1>10. CASE UNCHANGED gobiVars
  BY <1>3, <1>10 DEF gobiVars
<1> QED
  BY <1>4, <1>6, <1>8, <1>9, <1>10, CallsStay DEF GobiNext, RemoverSteps

\* Only WriteSync has to do with the URBs.
LEMMA UrbsOf ==
  ASSUME GobiTypes, CalmInv, Undisturbed, [GobiNext]_gobiVars
  PROVE  \/ \E p \in Procs : WriteSteps(p)
         \/ UNCHANGED urb /\ \A c \in Clients : mem'[c].urbs = mem[c].urbs
<1> DEFINE Kept == UNCHANGED urb /\ \A c \in Clients : mem'[c].urbs = mem[c].urbs
<1>1. mem \in [Clients -> Memories] /\ ClientTypes /\ \A c \in Clients : mem[c] \in Memories
  BY DEF GobiTypes, ClientTypes
<1>2. ASSUME NEW c, UNCHANGED urb,
             \/ mem' = mem
             \/ \E l : mem' = [mem EXCEPT ![c].list = l]
             \/ \E l : mem' = [mem EXCEPT ![c].notify = l]
             \/ mem' = [mem EXCEPT ![c] = NoMem] /\ (c \in Clients => mem[c].urbs = <<>>)
      PROVE  Kept
  <2>1. CASE mem' = mem
    BY <1>2, <2>1
  <2>2. CASE \E l : mem' = [mem EXCEPT ![c].list = l]
    <3>1. PICK l : mem' = [mem EXCEPT ![c].list = l]
      BY <2>2
    <3> QED
      BY <1>1, <1>2, <3>1 DEF Memories
  <2>3. CASE \E l : mem' = [mem EXCEPT ![c].notify = l]
    <3>1. PICK l : mem' = [mem EXCEPT ![c].notify = l]
      BY <2>3
    <3> QED
      BY <1>1, <1>2, <3>1 DEF Memories
  <2>4. CASE mem' = [mem EXCEPT ![c] = NoMem] /\ (c \in Clients => mem[c].urbs = <<>>)
    BY <1>1, <1>2, <2>4 DEF NoMem
  <2> QED
    BY <1>2, <2>1, <2>2, <2>3, <2>4
<1> HIDE DEF Kept
<1>3. CASE UNCHANGED gobiVars
  BY <1>2, <1>3 DEF gobiVars
<1>4. ASSUME NEW p, NEW o, NEW c, CtlRequest(p, o, c), UNCHANGED urb PROVE Kept
  <2>1. mem' = [mem EXCEPT ![QMICTL].list = Purged(mem[QMICTL].list)]
    BY <1>1, <1>4, CtlMemory
  <2> QED
    BY <1>2, <1>4, <2>1
<1>5. ASSUME NEW f \in Files, Calls(f) \/ GetClientID(f) \/ ForceRelease(f) PROVE Kept
  <2>1. UNCHANGED urb /\ (mem' = mem \/ \E p, o, c : CtlRequest(p, o, c))
    BY <1>5 DEF Calls, UserspaceOpen, GetServiceFile, UserspaceWrite, UserspaceRead, UserspacePoll,
                UserspaceClose, GetClientID, ForceRelease
  <2> QED
    BY <1>2, <1>4, <2>1
<1>6. ASSUME NEW p \in Procs, ReadSteps(p) \/ ReadTimeout(p) PROVE Kept
  <2> DEFINE c == task[p].c
  <2>1. CASE Look(p)
    <3>1. UNCHANGED urb
      BY <2>1 DEF Look
    <3>2. \/ mem' = mem \/ Present(c)
      BY <2>1 DEF Look
    <3>3. Present(c) => c \in Clients
      BY <1>1, MemoryOf
    <3>4. \/ mem' = mem
          \/ mem' = [mem EXCEPT ![c].list = RemoveAt(@, FirstRead(c, task[p].tid))]
          \/ mem' = [mem EXCEPT ![c].notify = Append(@, Entry(p, task[p].tid))]
      BY <2>1 DEF Look
    <3>5. CASE c \in Clients
      <4>1. \/ mem' = mem
            \/ mem' = [mem EXCEPT ![c].list = RemoveAt(mem[c].list, FirstRead(c, task[p].tid))]
            \/ mem' = [mem EXCEPT ![c].notify = Append(mem[c].notify, Entry(p, task[p].tid))]
        BY <1>1, <3>4, <3>5
      <4> QED
        BY <1>2, <3>1, <4>1
    <3>6. CASE mem' = mem
      BY <1>2, <3>1, <3>6
    <3> QED
      BY <3>2, <3>3, <3>5, <3>6
  <2>2. CASE ReadGiveUp(p)
    <3>1. UNCHANGED urb /\ mem' = [mem EXCEPT ![c].notify = RemoveFirstMatch(@, LAMBDA e : e.who = p)]
      BY <2>2 DEF ReadGiveUp
    <3>2. \A x \in Clients : mem'[x].urbs = mem[x].urbs
      BY <1>1, <3>1 DEF Memories
    <3> QED
      BY <3>1, <3>2 DEF Kept
  <2>3. CASE ReadTimeout(p)
    BY <1>2, <2>3 DEF ReadTimeout
  <2> QED
    BY <1>6, <2>1, <2>2, <2>3 DEF ReadSteps
<1>7. ASSUME NEW p \in Procs, ReleaseSteps(p) PROVE Kept
  <2>1. Release(p)
    BY <1>7, ReleaseOf DEF CalmInv, ListInv, UrbInv
  <2>2. UNCHANGED urb
    BY <2>1 DEF Release
  <2>3. ASSUME NEW f \in Files, Closes(f, file[f].id) PROVE Kept
    <3>1. task[User(f)].op = "rel"
      BY <2>3 DEF Closes
    <3>2. mem[file[f].id].urbs = <<>>
      BY <3>1, NobodyUses DEF CalmInv, RemoverInv, ListInv, NotifyInv, UrbInv
    <3> QED
      BY <1>2, <2>2, <2>3, <3>2 DEF Closes
  <2>4. CASE Removes(task[Remover].arg) /\ device # "live"
    <3> DEFINE c == task[Remover].arg
    <3>1. \A h \in Procs : task[h].pc \notin Writing
      BY <2>4, PlacesOf DEF CalmInv, RemoverInv
    <3>2. c \in Clients => mem[c].urbs = <<>>
      <4> SUFFICES ASSUME c \in Clients, mem[c].urbs # <<>> PROVE FALSE
        OBVIOUS
      <4>1. 1 \in 1..Len(mem[c].urbs)
        BY <1>1, MemoryOf
      <4> QED
        BY <3>1, <4>1 DEF CalmInv, UrbInv, UrbOwned
    <3> HIDE DEF c
    <3> QED
      BY <1>2, <2>2, <2>4, <3>2 DEF Removes, c
  <2>5. ASSUME \/ \E f \in Files : Forced(f)
               \/ Notifies(task[Remover].arg)
        PROVE  Kept
    BY <1>2, <2>2, <2>5 DEF Forced, Notifies
  <2> QED
    BY <2>1, <2>3, <2>4, <2>5 DEF Release
<1>8. ASSUME NEW n \in Notifiers, NotifySteps(n) PROVE Kept
  <2>1. Notification(n)
    BY <1>8, NotifyOf DEF CalmInv, RemoverInv, ListInv, NotifyInv
  <2> QED
    BY <1>2, <2>1 DEF Notification, Wakes, TakesOne, Looks, WaitsAgain
<1>9. CASE ReadUrbs
  <2>1. UNCHANGED urb
    BY <1>9 DEF ReadUrbs, IntCallback, ReadCallback, ReadFails, ReadCallbackResumes
  <2>2. CASE ReadCallback \/ ReadCallbackResumes
    <3>1. PICK k \in Nat \ {0}, C \in SUBSET Targets, m \in Messages, s \in SUBSET Clients :
            Served(Seen(k, C, m.tid), Stop(k, C, m.tid), C, m, s)
      BY <2>2, WalkOf DEF CalmInv, ListInv
    <3> QED
      BY <2>1, <3>1 DEF Served, Kept
  <2>3. CASE IntCallback \/ ReadFails
    BY <1>2, <2>3 DEF IntCallback, ReadFails
  <2> QED
    BY <1>9, <2>2, <2>3 DEF ReadUrbs
<1>10. CASE Deregister \/ RemoverSteps
  BY <1>2, <1>10 DEF Deregister, RemoverSteps, DeregisterClient, KillRead, DeregisterEnds
<1> QED
  BY <1>3, <1>5, <1>6, <1>7, <1>8, <1>9, <1>10 DEF GobiNext, Kept

\* Writers and their URBs stay.
LEMMA UrbsStay ==
  ASSUME UrbInv, \A c \in Clients : mem'[c].urbs = mem[c].urbs,
         \A p \in Procs : task'[p].pc \in Writing <=> task[p].pc \in Writing,
         \A p \in Procs : task[p].pc \in Writing => task'[p].c = task[p].c /\ task'[p].u = task[p].u,
         \A p \in Procs : task[p].pc \in Writing => task[p].c \in Clients,
         \A u \in Urbs : urb'[u] = urb[u] \/ {urb[u], urb'[u]} \subseteq {"alloc", "flying", "done"}
  PROVE  UrbInv'
<1>1. \A p \in Procs : task'[p].pc \in Writing <=> task[p].pc \in Writing
  OBVIOUS
<1>2. \A p \in Procs : task[p].pc \in Writing => task'[p].c = task[p].c /\ task'[p].u = task[p].u
  OBVIOUS
<1>3. UrbOne'
  BY <1>1, <1>2 DEF UrbInv, UrbOne
<1>4. UrbListed'
  <2> SUFFICES ASSUME NEW p \in Procs, task[p].pc \in Writing
               PROVE  /\ task[p].u \in Urbs /\ urb'[task[p].u] \in {"alloc", "flying", "done"}
                      /\ \E i \in 1..Len(mem'[task[p].c].urbs) : mem'[task[p].c].urbs[i] = task[p].u
    BY <1>1, <1>2 DEF UrbListed
  <2>1. /\ task[p].u \in Urbs /\ urb[task[p].u] \in {"alloc", "flying", "done"} /\ task[p].c \in Clients
        /\ \E i \in 1..Len(mem[task[p].c].urbs) : mem[task[p].c].urbs[i] = task[p].u
    BY DEF UrbInv, UrbListed
  <2> QED
    BY <2>1
<1>5. UrbOwned'
  <2> SUFFICES ASSUME NEW c \in Clients
               PROVE  /\ \A i \in 1..Len(mem[c].urbs) : \E p \in Procs :
                           task'[p].pc \in Writing /\ task'[p].c = c /\ task'[p].u = mem[c].urbs[i]
                      /\ \A i, j \in 1..Len(mem[c].urbs) : mem[c].urbs[i] = mem[c].urbs[j] => i = j
    BY DEF UrbOwned
  <2> QED
    BY <1>1, <1>2 DEF UrbInv, UrbOwned
<1>6. UrbsFreed'
  <2> SUFFICES ASSUME NEW u \in Urbs, urb'[u] \notin {"none", "freed"}
               PROVE  \E p \in Procs : task'[p].pc \in Writing /\ task'[p].u = u
    BY DEF UrbsFreed, Writing
  <2>1. PICK p \in Procs : task[p].pc \in Writing /\ task[p].u = u
    BY DEF UrbInv, UrbsFreed, Writing
  <2> QED
    BY <1>1, <1>2, <2>1
<1> QED
  BY <1>3, <1>4, <1>5, <1>6 DEF UrbInv

\* Who writes, has a client that is there.
LEMMA WriterOf ==
  ASSUME GobiTypes, AskInv, CalmInv, NEW p \in Procs, task[p].pc \in Early \union Writing
  PROVE  device = "live" /\ Present(task[p].c) /\ task[p].c \in Clients
<1>1. PICK f \in Files : p = User(f) /\ device = "live"
  BY PlacesOf DEF CalmInv, RemoverInv
<1>2. GoodUser(f, task[p], device, file[f]) /\ GoodTask(task[p])
  BY <1>1 DEF CalmInv, UserInv, AskInv, AskTask
<1>3. CASE task[p].op = "write"
  <2>1. task[p].c = file[f].id /\ file[f].id \in Ids
    BY <1>2, <1>3 DEF GoodUser, GobiTypes, FileTypes
  <2> QED
    BY <1>1, <2>1 DEF CalmInv, ListInv, LiveInv, Clients
<1>4. CASE task[p].op # "write"
  <2>1. task[p].op \in Gets \union Releases /\ task[p].pc \in AskPlaces
    BY <1>2, <1>4 DEF GoodUser, Early, Writing, AskPlaces
  <2>2. task[p].c = QMICTL
    BY <1>2, <2>1 DEF GoodTask
  <2> QED
    BY <1>1, <2>2 DEF CalmInv, ListInv, LiveInv, Clients
<1> QED
  BY <1>3, <1>4

\* A writer goes on with its URB.
LEMMA WriterMoves ==
  ASSUME GobiTypes, AskInv, CalmInv, NEW p \in Procs, task[p].pc \in Writing,
         NEW s, s.pc \in Writing, s.c = task[p].c, s.u = task[p].u,
         task' = [task EXCEPT ![p] = s], UNCHANGED mem,
         \A u \in Urbs : urb'[u] = urb[u] \/ {urb[u], urb'[u]} \subseteq {"alloc", "flying", "done"}
  PROVE  UrbInv'
<1>1. task'[p] = s /\ \A h \in Procs \ {p} : task'[h] = task[h]
  BY DEF GobiTypes, TaskTypes
<1>2. \A h \in Procs : task'[h].pc \in Writing <=> task[h].pc \in Writing
  BY <1>1
<1>3. \A h \in Procs : task[h].pc \in Writing => task'[h].c = task[h].c /\ task'[h].u = task[h].u
  BY <1>1
<1>4. \A h \in Procs : task[h].pc \in Writing => task[h].c \in Clients
  BY WriterOf
<1>5. \A c \in Clients : mem'[c].urbs = mem[c].urbs
  OBVIOUS
<1> QED
  BY <1>2, <1>3, <1>4, <1>5, UrbsStay DEF CalmInv

\* A write: the URB is put at the end of its client's list, and taken from its front.
LEMMA WriteKeepsUrbs ==
  ASSUME GobiTypes, AskInv, CalmInv, Undisturbed, NEW p \in Procs, WriteSteps(p)
  PROVE  UrbInv'
<1> DEFINE t == task[p]
           c == t.c
<1>1. /\ UrbOne /\ UrbListed /\ UrbOwned /\ UrbsFreed /\ task \in [Procs -> Tasks] /\ t \in Tasks
      /\ urb \in [Urbs -> {"none", "alloc", "flying", "done", "freed"}]
      /\ mem \in [Clients -> Memories] /\ ClientTypes
  BY DEF CalmInv, UrbInv, GobiTypes, TaskTypes, UrbTypes, ClientTypes
<1>2. t.pc \in Early \union Writing /\ device = "live" /\ Present(c) /\ c \in Clients
  <2>1. t.pc \in Early \union Writing
    BY DEF WriteSteps, AddToURBList, Submit, SubmitFails, WriteSyncCallback, WriteDown, WritePop, Early, Writing
  <2> QED
    BY <2>1, WriterOf
<1>3. mem[c].urbs \in Seq(Urbs) /\ mem[c] \in Memories /\ IsDeviceValid
  BY <1>1, <1>2, MemoryOf DEF IsDeviceValid
<1> HIDE DEF t, c
<1>4. \A ok \in BOOLEAN : AfterWrite(p, ok) \in {"r_look", "clean", "again", "idle"}
  BY AfterOf
<1>5. ASSUME NEW l \in Places PROVE Onward(t, l).pc = l
  BY <1>1, <1>5, OnwardOf
<1>6. \A h \in Procs : task[h].pc \in Writing => task[h].c \in Clients
  BY WriterOf
\* Nothing is done to the lists.
<1>7. ASSUME UNCHANGED mem, NEW s, task' = [task EXCEPT ![p] = s], GoesOn(t, s),
             \A u \in Urbs : urb'[u] = urb[u] \/ {urb[u], urb'[u]} \subseteq {"alloc", "flying", "done"}
      PROVE  UrbInv'
  <2>1. task'[p] = s /\ \A h \in Procs \ {p} : task'[h] = task[h]
    BY <1>1, <1>7
  <2>2. /\ \A h \in Procs : task'[h].pc \in Writing <=> task[h].pc \in Writing
        /\ \A h \in Procs : task[h].pc \in Writing => task'[h].c = task[h].c /\ task'[h].u = task[h].u
    BY <1>7, <2>1 DEF GoesOn, t
  <2>3. \A d \in Clients : mem'[d].urbs = mem[d].urbs
    BY <1>7
  <2> QED
    BY <1>6, <1>7, <2>2, <2>3, UrbsStay DEF CalmInv
\* The first of the list is the writer's own; it is taken, and the write is over.
<1>8. ASSUME t.pc \in Writing, InTurn(p), mem' = PopFromURBList(c), urb' = [urb EXCEPT ![t.u] = "freed"],
             NEW ok \in BOOLEAN, task' = [task EXCEPT ![p] = Onward(t, AfterWrite(p, ok))]
      PROVE  UrbInv'
  <2>1. mem[c].urbs # <<>> /\ Head(mem[c].urbs) = t.u
    BY <1>2, <1>8 DEF InTurn, OwnIsFirst, Undisturbed, t, c
  <2> DEFINE L == mem[c].urbs
  <2>2. L \in Seq(Urbs) /\ Len(L) \in Nat \ {0} /\ L[1] = t.u /\ t.u \in Urbs
    BY <1>3, <2>1
  <2>3. mem' = [mem EXCEPT ![c].urbs = Tail(L)]
    BY <1>1, <1>2, <1>8, <2>1 DEF PopFromURBList
  <2>4. mem'[c].urbs = Tail(L) /\ \A d \in Clients \ {c} : mem'[d] = mem[d]
    BY <1>1, <1>2, <1>3, <2>3 DEF Memories
  <2>5. Len(Tail(L)) = Len(L) - 1 /\ \A i \in 1..(Len(L) - 1) : Tail(L)[i] = L[i + 1]
    BY <2>2
  <2>6. task'[p].pc \notin Writing /\ \A h \in Procs \ {p} : task'[h] = task[h]
    <3>1. task'[p] = Onward(t, AfterWrite(p, ok)) /\ \A h \in Procs \ {p} : task'[h] = task[h]
      BY <1>1, <1>8
    <3>2. AfterWrite(p, ok) \in Places \ Writing
      BY <1>4, <1>8 DEF Places, Writing
    <3> QED
      BY <1>5, <3>1, <3>2
  <2>7. urb'[t.u] = "freed" /\ \A u \in Urbs \ {t.u} : urb'[u] = urb[u]
    BY <1>1, <1>8, <2>2
  <2>8. \A h \in Procs \ {p} : task[h].pc \in Writing => task[h].u # t.u
    BY <1>1, <1>8 DEF UrbOne, t
  <2> HIDE DEF L
  <2>9. \A i \in 1..Len(L) : L[i] = mem[c].urbs[i] /\ Len(L) = Len(mem[c].urbs)
    BY DEF L
  <2>10. UrbOne'
    BY <1>1, <2>6 DEF UrbOne
  <2>11. UrbListed'
    <3> SUFFICES ASSUME NEW h \in Procs \ {p}, task[h].pc \in Writing
                 PROVE  /\ task[h].u \in Urbs /\ urb'[task[h].u] \in {"alloc", "flying", "done"}
                        /\ \E i \in 1..Len(mem'[task[h].c].urbs) : mem'[task[h].c].urbs[i] = task[h].u
      BY <2>6 DEF UrbListed
    <3>1. /\ task[h].u \in Urbs \ {t.u} /\ urb[task[h].u] \in {"alloc", "flying", "done"} /\ task[h].c \in Clients
          /\ \E i \in 1..Len(mem[task[h].c].urbs) : mem[task[h].c].urbs[i] = task[h].u
      BY <1>1, <1>6, <2>8 DEF UrbListed
    <3>2. CASE task[h].c # c
      BY <2>4, <2>7, <3>1, <3>2
    <3>3. CASE task[h].c = c
      <4>1. PICK i \in 1..Len(L) : L[i] = task[h].u
        BY <3>1, <3>3 DEF L
      <4>2. i # 1
        BY <2>2, <3>1, <4>1
      <4>3. i - 1 \in 1..(Len(L) - 1) /\ (i - 1) + 1 = i
        BY <2>2, <4>2
      <4>4. Tail(L)[i - 1] = task[h].u
        BY <2>5, <4>1, <4>3
      <4> QED
        BY <2>4, <2>5, <2>7, <3>1, <3>3, <4>3, <4>4
    <3> QED
      BY <3>2, <3>3
  <2>12. UrbOwned'
    <3> SUFFICES ASSUME NEW d \in Clients
                 PROVE  /\ \A i \in 1..Len(mem'[d].urbs) : \E h \in Procs :
                             task'[h].pc \in Writing /\ task'[h].c = d /\ task'[h].u = mem'[d].urbs[i]
                        /\ \A i, j \in 1..Len(mem'[d].urbs) : mem'[d].urbs[i] = mem'[d].urbs[j] => i = j
      BY DEF UrbOwned
    <3>1. /\ \A i \in 1..Len(mem[d].urbs) : \E h \in Procs :
               task[h].pc \in Writing /\ task[h].c = d /\ task[h].u = mem[d].urbs[i]
          /\ \A i, j \in 1..Len(mem[d].urbs) : mem[d].urbs[i] = mem[d].urbs[j] => i = j
      BY <1>1 DEF UrbOwned
    <3>2. CASE d # c
      <4>1. mem'[d] = mem[d]
        BY <2>4, <3>2
      <4>2. t.c # d
        BY <3>2 DEF c
      <4>3. \A i \in 1..Len(mem[d].urbs) : \E h \in Procs \ {p} :
               task[h].pc \in Writing /\ task[h].c = d /\ task[h].u = mem[d].urbs[i]
        BY <3>1, <4>2 DEF t
      <4>4. ASSUME NEW i \in 1..Len(mem[d].urbs)
            PROVE  \E h \in Procs :
                     task'[h].pc \in Writing /\ task'[h].c = d /\ task'[h].u = mem[d].urbs[i]
        <5>1. PICK h \in Procs \ {p} :
                     task[h].pc \in Writing /\ task[h].c = d /\ task[h].u = mem[d].urbs[i]
          BY <4>3
        <5> QED
          BY <2>6, <5>1
      <4> QED
        BY <3>1, <4>1, <4>4
    <3>3. CASE d = c
      <4>1. ASSUME NEW i \in 1..(Len(L) - 1)
            PROVE  \E h \in Procs : task'[h].pc \in Writing /\ task'[h].c = c /\ task'[h].u = Tail(L)[i]
        <5>1. i + 1 \in 1..Len(L) /\ 1 \in 1..Len(L) /\ i + 1 # 1 /\ Tail(L)[i] = L[i + 1]
          BY <2>2, <2>5
        <5>2. L[i + 1] # L[1]
          BY <3>1, <3>3, <5>1 DEF L
        <5>3. PICK h \in Procs : task[h].pc \in Writing /\ task[h].c = c /\ task[h].u = L[i + 1]
          BY <3>1, <3>3, <5>1 DEF L
        <5>4. h # p
          BY <2>2, <5>2, <5>3 DEF t
        <5> QED
          BY <2>6, <5>1, <5>3, <5>4
      <4>2. ASSUME NEW i \in 1..(Len(L) - 1), NEW j \in 1..(Len(L) - 1), Tail(L)[i] = Tail(L)[j] PROVE i = j
        <5>1. i + 1 \in 1..Len(L) /\ j + 1 \in 1..Len(L) /\ L[i + 1] = L[j + 1]
          BY <2>2, <2>5, <4>2
        <5>2. i + 1 = j + 1
          BY <3>1, <3>3, <5>1 DEF L
        <5> QED
          BY <5>2
      <4>3. mem'[d].urbs = Tail(L) /\ Len(mem'[d].urbs) = Len(L) - 1
        BY <2>4, <2>5, <3>3
      <4> QED
        BY <3>3, <4>1, <4>2, <4>3
    <3> QED
      BY <3>2, <3>3
  <2>13. UrbsFreed'
    <3> SUFFICES ASSUME NEW u \in Urbs, urb'[u] \notin {"none", "freed"}
                 PROVE  \E h \in Procs : task'[h].pc \in Writing /\ task'[h].u = u
      BY DEF UrbsFreed, Writing
    <3>1. u # t.u /\ urb[u] \notin {"none", "freed"}
      BY <2>7
    <3>2. PICK h \in Procs : task[h].pc \in Writing /\ task[h].u = u
      BY <1>1, <3>1 DEF UrbsFreed, Writing
    <3> QED
      BY <2>6, <3>1, <3>2 DEF t
  <2> QED
    BY <2>10, <2>11, <2>12, <2>13 DEF UrbInv
\* An URB that was not in use is put in the list.
<1>9. ASSUME NEW u \in Urbs, urb[u] = "none", urb' = [urb EXCEPT ![u] = "alloc"], t.pc = "w_add",
             mem' = [mem EXCEPT ![c].urbs = Append(mem[c].urbs, u)],
             task' = [task EXCEPT ![p].pc = "w_submit", ![p].u = u]
      PROVE  UrbInv'
  <2> DEFINE L == mem[c].urbs
  <2>1. /\ task'[p].pc = "w_submit" /\ task'[p].c = c /\ task'[p].u = u
        /\ \A h \in Procs \ {p} : task'[h] = task[h]
    BY <1>1, <1>9 DEF Tasks, t, c
  <2>2. mem'[c].urbs = Append(L, u) /\ \A d \in Clients \ {c} : mem'[d] = mem[d]
    BY <1>1, <1>2, <1>3, <1>9 DEF Memories
  <2>3. /\ Len(Append(L, u)) = Len(L) + 1 /\ Len(L) \in Nat /\ Append(L, u)[Len(L) + 1] = u
        /\ \A i \in 1..Len(L) : Append(L, u)[i] = L[i]
    BY <1>3, AppendOf
  <2>4. urb'[u] = "alloc" /\ \A v \in Urbs \ {u} : urb'[v] = urb[v]
    BY <1>1, <1>9
  <2>5. \A h \in Procs : task[h].pc \in Writing => task[h].u # u /\ h # p
    BY <1>1, <1>9 DEF UrbListed, Writing, t
  <2>6. \A d \in Clients : \A i \in 1..Len(mem[d].urbs) : mem[d].urbs[i] # u
    BY <1>1, <2>5 DEF UrbOwned
  <2> HIDE DEF L
  <2>7. \A i \in 1..(Len(L) + 1) : i \in 1..Len(L) \/ i = Len(L) + 1
    BY <2>3
  <2>8. \A i \in 1..Len(L) : i \in 1..(Len(L) + 1)
    BY <2>3
  <2>9. UrbOne'
    <3> SUFFICES ASSUME NEW g \in Procs, NEW h \in Procs, task'[g].pc \in Writing, task'[h].pc \in Writing,
                        task'[g].u = task'[h].u
                 PROVE  g = h
      BY DEF UrbOne
    <3>1. CASE g # p /\ h # p
      BY <1>1, <2>1, <3>1 DEF UrbOne
    <3>2. CASE g = p /\ h # p
      BY <2>1, <2>5, <3>2
    <3>3. CASE h = p /\ g # p
      BY <2>1, <2>5, <3>3
    <3> QED
      BY <3>1, <3>2, <3>3
  <2>10. UrbListed'
    <3> SUFFICES ASSUME NEW h \in Procs, task'[h].pc \in Writing
                 PROVE  /\ task'[h].u \in Urbs /\ urb'[task'[h].u] \in {"alloc", "flying", "done"}
                        /\ \E i \in 1..Len(mem'[task'[h].c].urbs) : mem'[task'[h].c].urbs[i] = task'[h].u
      BY DEF UrbListed
    <3>1. CASE h = p
      <4>1. Len(L) + 1 \in 1..(Len(L) + 1)
        BY <2>3
      <4> QED
        BY <2>1, <2>2, <2>3, <2>4, <3>1, <4>1
    <3>2. CASE h # p
      <4>1. /\ task'[h] = task[h] /\ task[h].u \in Urbs \ {u} /\ task[h].c \in Clients
            /\ urb[task[h].u] \in {"alloc", "flying", "done"}
            /\ \E i \in 1..Len(mem[task[h].c].urbs) : mem[task[h].c].urbs[i] = task[h].u
        BY <1>1, <1>6, <2>1, <2>5, <3>2 DEF UrbListed
      <4>2. CASE task[h].c # c
        BY <2>2, <2>4, <4>1, <4>2
      <4>3. CASE task[h].c = c
        <5>1. PICK i \in 1..Len(L) : L[i] = task[h].u
          BY <4>1, <4>3 DEF L
        <5>2. mem'[task'[h].c].urbs = Append(L, u) /\ Len(mem'[task'[h].c].urbs) = Len(L) + 1
          BY <2>2, <2>3, <4>1, <4>3
        <5>3. i \in 1..(Len(L) + 1) /\ Append(L, u)[i] = task'[h].u
          BY <2>3, <2>8, <4>1, <5>1
        <5> QED
          BY <2>4, <4>1, <5>2, <5>3
      <4> QED
        BY <4>2, <4>3
    <3> QED
      BY <3>1, <3>2
  <2>11. UrbOwned'
    <3> SUFFICES ASSUME NEW d \in Clients
                 PROVE  /\ \A i \in 1..Len(mem'[d].urbs) : \E h \in Procs :
                             task'[h].pc \in Writing /\ task'[h].c = d /\ task'[h].u = mem'[d].urbs[i]
                        /\ \A i, j \in 1..Len(mem'[d].urbs) : mem'[d].urbs[i] = mem'[d].urbs[j] => i = j
      BY DEF UrbOwned
    <3>1. /\ \A i \in 1..Len(mem[d].urbs) : \E h \in Procs \ {p} :
               task[h].pc \in Writing /\ task[h].c = d /\ task[h].u = mem[d].urbs[i]
          /\ \A i, j \in 1..Len(mem[d].urbs) : mem[d].urbs[i] = mem[d].urbs[j] => i = j
      BY <1>1, <2>5 DEF UrbOwned
    <3>2. CASE d # c
      <4>1. mem'[d] = mem[d]
        BY <2>2, <3>2
      <4> QED
        BY <2>1, <3>1, <4>1
    <3>3. CASE d = c
      <4>1. ASSUME NEW i \in 1..(Len(L) + 1)
            PROVE  \E h \in Procs : task'[h].pc \in Writing /\ task'[h].c = c /\ task'[h].u = Append(L, u)[i]
        <5>1. CASE i \in 1..Len(L)
          <6>1. PICK h \in Procs \ {p} : task[h].pc \in Writing /\ task[h].c = c /\ task[h].u = L[i]
            BY <3>1, <3>3, <5>1 DEF L
          <6> QED
            BY <2>1, <2>3, <5>1, <6>1
        <5>2. CASE i = Len(L) + 1
          BY <2>1, <2>3, <5>2 DEF Writing
        <5> QED
          BY <2>7, <5>1, <5>2
      <4>2. ASSUME NEW i \in 1..(Len(L) + 1), NEW j \in 1..(Len(L) + 1), Append(L, u)[i] = Append(L, u)[j]
            PROVE  i = j
        <5>1. \A a \in 1..Len(L) : L[a] # u
          BY <2>6, <3>3 DEF L
        <5>2. \A a, b \in 1..Len(L) : L[a] = L[b] => a = b
          BY <3>1, <3>3 DEF L
        <5> QED
          BY <2>3, <2>7, <4>2, <5>1, <5>2
      <4>3. mem'[d].urbs = Append(L, u) /\ Len(mem'[d].urbs) = Len(L) + 1
        BY <2>2, <2>3, <3>3
      <4> QED
        BY <3>3, <4>1, <4>2, <4>3
    <3> QED
      BY <3>2, <3>3
  <2>12. UrbsFreed'
    <3> SUFFICES ASSUME NEW v \in Urbs, urb'[v] \notin {"none", "freed"}
                 PROVE  \E h \in Procs : task'[h].pc \in Writing /\ task'[h].u = v
      BY DEF UrbsFreed, Writing
    <3>1. CASE v = u
      BY <2>1, <3>1 DEF Writing
    <3>2. CASE v # u
      <4>1. PICK h \in Procs : task[h].pc \in Writing /\ task[h].u = v
        BY <1>1, <2>4, <3>2 DEF UrbsFreed, Writing
      <4> QED
        BY <2>1, <2>5, <4>1
    <3> QED
      BY <3>1, <3>2
  <2> QED
    BY <2>9, <2>10, <2>11, <2>12 DEF UrbInv
<1>10. CASE AddToURBList(p)
  <2>1. t.pc = "w_add"
    BY <1>10 DEF AddToURBList, t
  <2>2. CASE task' = [task EXCEPT ![p] = Onward(t, AfterWrite(p, FALSE))] /\ UNCHANGED <<mem, urb>>
    <3>1. Onward(t, AfterWrite(p, FALSE)).pc \in {"r_look", "clean", "again", "idle"}
      BY <1>4, <1>5 DEF Places
    <3>2. GoesOn(t, Onward(t, AfterWrite(p, FALSE)))
      BY <2>1, <3>1 DEF GoesOn, Writing, Reading
    <3> QED
      BY <1>7, <2>2, <3>2
  <2>3. CASE \E u \in Urbs : /\ urb[u] = "none" /\ urb' = [urb EXCEPT ![u] = "alloc"]
                             /\ mem' = [mem EXCEPT ![c].urbs = Append(mem[c].urbs, u)]
                             /\ task' = [task EXCEPT ![p].pc = "w_submit", ![p].u = u]
    BY <1>9, <2>1, <2>3
  <2> QED
    <3> DEFINE F == {x \in Urbs : urb[x] = "none"}
               m == Min(F)
    <3>1. \/ task' = [task EXCEPT ![p] = Onward(t, AfterWrite(p, FALSE))] /\ UNCHANGED <<mem, urb>>
          \/ /\ Spare /\ urb' = [urb EXCEPT ![m] = "alloc"]
             /\ mem' = [mem EXCEPT ![c].urbs = Append(@, m)]
             /\ task' = [task EXCEPT ![p].pc = "w_submit", ![p].u = m]
      BY <1>10 DEF AddToURBList, Goto, t, c
    <3>2. F \in SUBSET Nat
      BY DEF Urbs
    <3>3. Spare => F # {}
      BY DEF Spare
    <3>4. Spare => m \in Urbs /\ urb[m] = "none"
      BY <3>2, <3>3, MinOf
    <3> HIDE DEF m
    <3>5. [mem EXCEPT ![c].urbs = Append(@, m)] = [mem EXCEPT ![c].urbs = Append(mem[c].urbs, m)]
      BY <1>1, <1>2
    <3> QED
      BY <2>2, <2>3, <3>1, <3>4, <3>5
<1>11. CASE Submit(p)
  <2>1. /\ task' = [task EXCEPT ![p] = Onward(t, "w_wait")] /\ UNCHANGED mem /\ t.pc = "w_submit"
        /\ urb' = [urb EXCEPT ![t.u] = IF @ = "alloc" THEN "flying" ELSE @]
    BY <1>11 DEF Submit, Goto, t
  <2>2. /\ Onward(t, "w_wait").pc = "w_wait" /\ Onward(t, "w_wait").c = t.c /\ Onward(t, "w_wait").tid = t.tid
        /\ Onward(t, "w_wait").u = t.u
    BY <1>1, OnwardOf DEF Places
  <2>3. \A u \in Urbs : urb'[u] = urb[u] \/ {urb[u], urb'[u]} \subseteq {"alloc", "flying", "done"}
    BY <1>1, <2>1
  <2>4. task[p].pc \in Writing /\ Onward(t, "w_wait").pc \in Writing
    BY <2>1, <2>2 DEF t, Writing
  <2>5. Onward(t, "w_wait").c = task[p].c /\ Onward(t, "w_wait").u = task[p].u
    BY <2>2 DEF t
  <2> QED
    BY <2>1, <2>3, <2>4, <2>5, WriterMoves
<1>12. CASE SubmitFails(p)
  <2>1. /\ task' = [task EXCEPT ![p] = Onward(t, AfterWrite(p, FALSE))] /\ t.pc = "w_submit" /\ InTurn(p)
        /\ mem' = PopFromURBList(c) /\ urb' = [urb EXCEPT ![t.u] = IF OwnIsFirst(p) THEN "freed" ELSE @]
    BY <1>12 DEF SubmitFails, Goto, t, c
  <2>2. OwnIsFirst(p)
    BY <1>2, <2>1 DEF InTurn, Undisturbed, c, t
  <2> QED
    BY <1>8, <2>1, <2>2 DEF Writing
<1>13. CASE WriteSyncCallback(p)
  <2>1. UNCHANGED <<mem, task>> /\ urb[t.u] = "flying" /\ urb' = [urb EXCEPT ![t.u] = "done"]
    BY <1>13 DEF WriteSyncCallback, t
  <2>2. \A u \in Urbs : urb'[u] = urb[u] \/ {urb[u], urb'[u]} \subseteq {"alloc", "flying", "done"}
    BY <1>1, <2>1
  <2> QED
    BY <1>6, <2>1, <2>2, UrbsStay DEF CalmInv
<1>14. CASE WriteDown(p)
  <2>1. PICK b \in BOOLEAN : task' = [task EXCEPT ![p].pc = "w_pop", ![p].sig = b]
    BY <1>14 DEF WriteDown
  <2>2. UNCHANGED <<mem, urb>> /\ t.pc = "w_wait"
    BY <1>14 DEF WriteDown, t
  <2>3. task' = [task EXCEPT ![p] = [t EXCEPT !.pc = "w_pop", !.sig = b]]
    BY <1>1, <2>1 DEF t
  <2> DEFINE s == [t EXCEPT !.pc = "w_pop", !.sig = b]
  <2>4. s.pc = "w_pop" /\ s.c = t.c /\ s.tid = t.tid /\ s.u = t.u
    BY <1>1 DEF Tasks
  <2> HIDE DEF s
  <2>5. task[p].pc \in Writing /\ s.pc \in Writing /\ s.c = task[p].c /\ s.u = task[p].u
    BY <2>2, <2>4 DEF t, Writing
  <2>6. \A u \in Urbs : urb'[u] = urb[u]
    BY <2>2
  <2>7. task' = [task EXCEPT ![p] = s]
    BY <2>3 DEF s
  <2> QED
    BY <2>2, <2>5, <2>6, <2>7, WriterMoves
<1>15. CASE WritePop(p)
  <2>1. /\ t.pc = "w_pop" /\ InTurn(p) /\ mem' = PopFromURBList(c)
        /\ urb' = [urb EXCEPT ![t.u] =
                     IF @ = "freed" \/ (IsDeviceValid /\ OwnIsFirst(p)) THEN "freed" ELSE "done"]
        /\ task' = [task EXCEPT ![p] = Onward(t, AfterWrite(p, IsDeviceValid /\ OwnIsFirst(p) /\ ~t.sig))]
    BY <1>3, <1>15 DEF WritePop, Goto, t, c
  <2>2. OwnIsFirst(p)
    BY <1>2, <2>1 DEF InTurn, Undisturbed, c, t
  <2> DEFINE ok == IsDeviceValid /\ OwnIsFirst(p) /\ ~t.sig
  <2>3. ok \in BOOLEAN
    OBVIOUS
  <2>4. urb' = [urb EXCEPT ![t.u] = "freed"] /\ task' = [task EXCEPT ![p] = Onward(t, AfterWrite(p, ok))]
    BY <1>3, <2>1, <2>2
  <2> HIDE DEF ok
  <2> QED
    BY <1>8, <2>1, <2>3, <2>4 DEF Writing
<1> QED
  BY <1>10, <1>11, <1>12, <1>13, <1>14, <1>15 DEF WriteSteps

-----------------------------------------------------------------------------
(* Who waits, and who is notified.                                          *)

\* A reader waits on; only p of them does not.
ReadsOn(p) ==
  \A h \in Procs \ {p} :
    IF task[h].pc \in Reading
    THEN task'[h].pc = task[h].pc /\ task'[h].c = task[h].c /\ task'[h].tid = task[h].tid
    ELSE task'[h].pc \notin Reading
\* Who runs an entry goes on with it, but QMIWDSCallback may come to its end.
HeldOn(n) ==
  \A k \in Notifiers \ {n} :
    \/ held'[k] = held[k]
    \/ held[k].who = ReadCb /\ held'[k].who = <<>>
    \/ held[k].who = ReadCb /\ held'[k].who = ReadCb /\ held'[k].tid = 0
HeldRuns == \A n \in Notifiers : held'[n].who # <<>> => Notifying(n)'
NotifyOn(c) == \A d \in Clients \ {c} : mem'[d].notify = mem[d].notify

\* The list s is h without its element k.
Lacks(s, h, k) ==
  /\ \A i \in 1..Len(s) : \E j \in 1..Len(h) : j # k /\ s[i] = h[j]
  /\ \A j \in 1..Len(h) : j # k => \E i \in 1..Len(s) : s[i] = h[j]
  /\ \A i, j \in 1..Len(s) : s[i].who = s[j].who => i = j

\* Facts of the entries of a list.
LEMMA NotifyFacts ==
  ASSUME GobiTypes, NotifyInv, NEW c \in Clients
  PROVE  /\ mem[c].notify \in Seq(Entries) /\ Len(mem[c].notify) \in Nat
         /\ \A i \in 1..Len(mem[c].notify) :
              /\ mem[c].notify[i] \in Entries
              /\ mem[c].notify[i].who \in Procs \/ mem[c].notify[i].who = ReadCb
              /\ mem[c].notify[i].who # <<>>
<1>1. mem[c].notify \in Seq(Entries)
  BY MemoryOf DEF GobiTypes
<1>2. \A i \in 1..Len(mem[c].notify) : mem[c].notify[i] \in Entries
  BY <1>1
<1>3. \A e \in Entries : e.who \in Notifiers
  BY DEF Entries
<1> QED
  BY <1>1, <1>2, <1>3, ProcsOf DEF Notifiers

\* RemoveAt and Tail take one of the entries, and leave the others apart.
LEMMA LacksOf ==
  ASSUME NEW h \in Seq(Entries), NEW k \in 1..Len(h), \A i, j \in 1..Len(h) : h[i].who = h[j].who => i = j
  PROVE  /\ Lacks(RemoveAt(h, k), h, k)
         /\ k = 1 => Lacks(Tail(h), h, k)
<1>1. Lacks(RemoveAt(h, k), h, k)
  <2> DEFINE r == RemoveAt(h, k)
             s(i) == IF i < k THEN i ELSE i + 1
  <2>1. /\ \A i \in 1..Len(r) : \E j \in 1..Len(h) : j # k /\ r[i] = h[j]
        /\ \A j \in 1..Len(h) : j # k => \E i \in 1..Len(r) : r[i] = h[j]
    BY RemovedOf
  <2>2. /\ Len(r) = Len(h) - 1 /\ Len(h) \in Nat
        /\ \A i \in 1..(Len(h) - 1) : r[i] = IF i < k THEN h[i] ELSE h[i + 1]
    BY RemoveOf
  <2> HIDE DEF r
  <2>3. \A i \in 1..Len(r) : s(i) \in 1..Len(h) /\ r[i] = h[s(i)]
    BY <2>2
  <2>4. \A i, j \in 1..Len(r) : s(i) = s(j) => i = j
    BY <2>2
  <2> HIDE DEF s
  <2>5. \A i, j \in 1..Len(r) : r[i].who = r[j].who => i = j
    BY <2>3, <2>4
  <2> QED
    BY <2>1, <2>5 DEF Lacks, r
<1>2. ASSUME k = 1 PROVE Lacks(Tail(h), h, k)
  <2>1. h # <<>>
    OBVIOUS
  <2> DEFINE s == Tail(h)
  <2>2. Len(s) = Len(h) - 1 /\ Len(h) \in Nat /\ \A i \in 1..(Len(h) - 1) : s[i] = h[i + 1]
    BY <2>1, TailOf
  <2> HIDE DEF s
  <2>3. ASSUME NEW i \in 1..Len(s) PROVE i + 1 \in 1..Len(h) /\ i + 1 # 1 /\ s[i] = h[i + 1]
    BY <2>2
  <2>4. ASSUME NEW j \in 1..Len(h), j # 1 PROVE j - 1 \in 1..Len(s) /\ s[j - 1] = h[j]
    <3>1. j - 1 \in 1..(Len(h) - 1) /\ (j - 1) + 1 = j
      BY <2>2, <2>4
    <3> QED
      BY <2>2, <3>1
  <2>5. ASSUME NEW i \in 1..Len(s), NEW j \in 1..Len(s), s[i].who = s[j].who PROVE i = j
    <3>1. i + 1 = j + 1
      BY <2>3, <2>5
    <3> QED
      BY <2>2, <3>1
  <2> QED
    BY <1>2, <2>3, <2>4, <2>5 DEF Lacks, s
<1> QED
  BY <1>1, <1>2

\* Who runs an entry.
LEMMA HeldStep ==
  ASSUME GobiTypes, NotifyInv, NEW n, HeldOn(n), HeldRuns, NEW p, ReadsOn(p),
         \A k \in Notifiers \ {n} : held[k].who # <<>> => held[k].who # p
  PROVE  /\ \A k \in Notifiers \ {n} : held'[k].who # <<>> =>
              /\ held'[k].who = held[k].who
              /\ Notifying(k)'
              /\ IF held'[k].who = ReadCb THEN held'[k].tid = 0
                 ELSE held'[k].step = "run" /\ task'[held'[k].who].pc = "r_wait"
         /\ \A k \in Notifiers \ {n} : held[k].who \in Procs => held'[k].who = held[k].who
<1>1. \A k \in Notifiers : held[k].who = <<>> \/ held[k].who = ReadCb \/ held[k].who \in Procs
  <2>1. \A e \in Entries \union {NoEntry} : e.who = <<>> \/ e.who \in Notifiers
    BY DEF Entries, NoEntry, Entry
  <2> QED
    BY <2>1 DEF GobiTypes, HeldTypes, Notifiers
<1>2. ReadCb # <<>> /\ ReadCb \notin Procs /\ <<>> \notin Procs
  BY ProcsOf
<1>3. ASSUME NEW k \in Notifiers \ {n}, held'[k].who # <<>>
      PROVE  /\ held'[k].who = held[k].who /\ Notifying(k)'
             /\ IF held'[k].who = ReadCb THEN held'[k].tid = 0
                ELSE held'[k].step = "run" /\ task'[held'[k].who].pc = "r_wait"
  <2>1. held'[k].who = held[k].who /\ (held'[k].who # ReadCb => held'[k] = held[k]) /\ Notifying(k)'
    BY <1>3 DEF HeldOn, HeldRuns
  <2>2. CASE held[k].who = ReadCb
    <3>1. held[k].tid = 0
      BY <1>2, <2>2 DEF NotifyInv, HeldInv
    <3> QED
      BY <1>3, <2>1, <2>2, <3>1 DEF HeldOn
  <2>3. CASE held[k].who # ReadCb
    <3>1. held[k].who \in Procs \ {p} /\ held[k].step = "run" /\ task[held[k].who].pc = "r_wait"
      BY <1>1, <1>3, <2>1, <2>3 DEF NotifyInv, HeldInv
    <3>2. task'[held[k].who].pc = "r_wait"
      BY <3>1 DEF ReadsOn, Reading
    <3> QED
      BY <2>1, <2>3, <3>1, <3>2
  <2> QED
    BY <2>2, <2>3
<1>4. ASSUME NEW k \in Notifiers \ {n}, held[k].who \in Procs PROVE held'[k].who = held[k].who
  BY <1>2, <1>4 DEF HeldOn
<1> QED
  BY <1>3, <1>4

\* The lists stay.  Somebody may be woken, or be about to give up.
LEMMA NotifyKept ==
  ASSUME GobiTypes, NotifyInv, NEW n \in Notifiers \union {<<>>}, NEW p \in Procs \union {<<>>},
         \A d \in Clients : mem'[d].notify = mem[d].notify, HeldOn(n), HeldRuns, ReadsOn(p),
         n \in Notifiers => held'[n].who = <<>> /\ held[n].who \in {<<>>, ReadCb, p},
         p \in Procs =>
           \/ task[p].pc \notin Reading /\ task'[p].pc \notin Reading
           \/ n \in Notifiers /\ held[n].who = p /\ task'[p].pc \notin Reading
           \/ /\ task[p].pc \in Reading /\ task'[p].pc \in Reading
              /\ task'[p].c = task[p].c /\ task'[p].tid = task[p].tid
              /\ \A k \in Notifiers : held[k].who # p,
         \A h \in Procs : task[h].pc \in Reading => task[h].c \in Clients
  PROVE  NotifyInv'
<1>1. EntryInv /\ NotHeld /\ ListedOnce /\ HeldInv /\ AsleepInv
  BY DEF NotifyInv
<1>2. ReadCb # <<>> /\ ReadCb \notin Procs /\ <<>> \notin Procs /\ <<>> \notin Notifiers
  BY ProcsOf
<1>3. ASSUME NEW k \in Notifiers \ {n}, held[k].who # <<>> PROVE held[k].who # p
  <2> SUFFICES ASSUME held[k].who = p PROVE FALSE
    OBVIOUS
  <2>1. p \in Procs /\ task[p].pc = "r_wait"
    BY <1>1, <1>2, <1>3 DEF HeldInv
  <2>2. task[p].pc \in Reading
    BY <2>1 DEF Reading
  <2>3. n \in Notifiers /\ held[n].who = p
    BY <2>1, <2>2
  <2> QED
    BY <1>1, <1>3, <2>3 DEF HeldInv
<1>4. /\ \A k \in Notifiers \ {n} : held'[k].who # <<>> =>
           /\ held'[k].who = held[k].who
           /\ Notifying(k)'
           /\ IF held'[k].who = ReadCb THEN held'[k].tid = 0
              ELSE held'[k].step = "run" /\ task'[held'[k].who].pc = "r_wait"
      /\ \A k \in Notifiers \ {n} : held[k].who \in Procs => held'[k].who = held[k].who
  BY <1>3, HeldStep
<1>5. HeldInv'
  BY <1>1, <1>4 DEF HeldInv
<1>6. ASSUME NEW d \in Clients
      PROVE  \A i \in 1..Len(mem[d].notify) : mem[d].notify[i].who # <<>>
  BY <1>6, NotifyFacts
<1>7. NotHeld'
  BY <1>1, <1>4, <1>6 DEF NotHeld
<1>8. ListedOnce'
  BY <1>1 DEF ListedOnce
<1>9. EntryInv'
  <2> SUFFICES ASSUME NEW d \in Clients, NEW i \in 1..Len(mem[d].notify)
               PROVE  /\ mem[d].notify[i].step = "run"
                      /\ mem[d].notify[i].who = ReadCb => mem[d].notify[i] = WdsEntry /\ d = QMIWDS
                      /\ mem[d].notify[i].who \in Procs =>
                           /\ task'[mem[d].notify[i].who].c = d /\ task'[mem[d].notify[i].who].pc \in Reading
                           /\ mem[d].notify[i].tid = task'[mem[d].notify[i].who].tid
    BY DEF EntryInv
  <2> DEFINE e == mem[d].notify[i]
  <2>1. /\ e.step = "run" /\ (e.who = ReadCb => e = WdsEntry /\ d = QMIWDS)
        /\ e.who \in Procs => task[e.who].c = d /\ task[e.who].pc \in Reading /\ e.tid = task[e.who].tid
    BY <1>1 DEF EntryInv
  <2>2. \A k \in Notifiers : held[k].who # e.who
    BY <1>1 DEF NotHeld
  <2> HIDE DEF e
  <2>3. CASE e.who \in Procs /\ e.who # p
    BY <2>1, <2>3 DEF ReadsOn, e
  <2>4. CASE e.who \in Procs /\ e.who = p
    BY <2>1, <2>2, <2>4 DEF e
  <2> QED
    BY <2>1, <2>3, <2>4 DEF e
<1>10. AsleepInv'
  <2> SUFFICES ASSUME NEW h \in Procs, task'[h].pc \in Reading
               PROVE  \/ \E i \in 1..Len(mem'[task'[h].c].notify) : mem'[task'[h].c].notify[i].who = h
                      \/ task'[h].pc = "r_wait" /\ \E k \in Notifiers : held'[k].who = h
    BY DEF AsleepInv
  <2>1. task[h].pc \in Reading /\ task'[h].c = task[h].c /\ task[h].c \in Clients
    BY DEF ReadsOn
  <2>2. CASE \E i \in 1..Len(mem[task[h].c].notify) : mem[task[h].c].notify[i].who = h
    BY <2>1, <2>2
  <2>3. CASE task[h].pc = "r_wait" /\ \E k \in Notifiers : held[k].who = h
    <3>1. PICK k \in Notifiers : held[k].who = h
      BY <2>3
    <3>2. h # p
      <4> SUFFICES ASSUME h = p PROVE FALSE
        OBVIOUS
      <4>1. n \in Notifiers /\ held[n].who = p /\ task'[p].pc \notin Reading
        BY <2>1, <3>1
      <4> QED
        BY <4>1
    <3>3. k # n
      BY <1>2, <3>1, <3>2
    <3> QED
      BY <1>4, <2>3, <3>1, <3>2, <3>3 DEF ReadsOn, Reading
  <2> QED
    BY <1>1, <2>1, <2>2, <2>3 DEF AsleepInv
<1> QED
  BY <1>5, <1>7, <1>8, <1>9, <1>10 DEF NotifyInv

\* One is taken from the list of client c, to be notified or as it gives up.
LEMMA NotifyTaken ==
  ASSUME GobiTypes, NotifyInv, NEW n \in Notifiers \union {<<>>}, NEW p \in Procs \union {<<>>},
         NEW c \in Clients, NEW k \in 1..Len(mem[c].notify),
         Lacks(mem'[c].notify, mem[c].notify, k), NotifyOn(c), HeldOn(n), HeldRuns, ReadsOn(p),
         \/ /\ p = <<>> /\ n \in Notifiers /\ held[n].who = <<>> /\ held'[n] = mem[c].notify[k]
            /\ \A h \in Procs : task[h].pc # "r_remove"
         \/ /\ n = <<>> /\ p \in Procs /\ mem[c].notify[k].who = p /\ task[p].pc = "r_remove"
            /\ task'[p].pc \notin Reading,
         \A h \in Procs : task[h].pc \in Reading => task[h].c \in Clients
  PROVE  NotifyInv'
<1> DEFINE L == mem[c].notify
           s == mem'[c].notify
           x == mem[c].notify[k]
<1>1. EntryInv /\ NotHeld /\ ListedOnce /\ HeldInv /\ AsleepInv
  BY DEF NotifyInv
<1>2. ReadCb # <<>> /\ ReadCb \notin Procs /\ <<>> \notin Procs /\ <<>> \notin Notifiers
  BY ProcsOf
<1>3. ASSUME NEW j \in Notifiers \ {n}, held[j].who # <<>> PROVE held[j].who # p
  BY <1>1, <1>2, <1>3 DEF HeldInv
<1>4. /\ \A j \in Notifiers \ {n} : held'[j].who # <<>> =>
           /\ held'[j].who = held[j].who
           /\ Notifying(j)'
           /\ IF held'[j].who = ReadCb THEN held'[j].tid = 0
              ELSE held'[j].step = "run" /\ task'[held'[j].who].pc = "r_wait"
      /\ \A j \in Notifiers \ {n} : held[j].who \in Procs => held'[j].who = held[j].who
  BY <1>3, HeldStep
<1>5. /\ \A i \in 1..Len(L) : L[i].who \in Procs \/ L[i].who = ReadCb
      /\ \A d \in Clients : \A i \in 1..Len(mem[d].notify) : mem[d].notify[i].who # <<>>
  BY NotifyFacts
<1>6. /\ \A i \in 1..Len(s) : \E j \in 1..Len(L) : j # k /\ s[i] = L[j]
      /\ \A j \in 1..Len(L) : j # k => \E i \in 1..Len(s) : s[i] = L[j]
      /\ \A i, j \in 1..Len(s) : s[i].who = s[j].who => i = j
  BY DEF Lacks
<1>7. /\ x.step = "run" /\ (x.who = ReadCb => x = WdsEntry)
      /\ x.who \in Procs => task[x.who].c = c /\ task[x.who].pc \in Reading
      /\ x.who \in Procs \/ x.who = ReadCb
      /\ \A j \in Notifiers : held[j].who # x.who
  BY <1>1, <1>5 DEF EntryInv, NotHeld
\* Its entry is the only one with its name.
<1>8. \A d \in Clients : \A i \in 1..Len(mem'[d].notify) :
        /\ \E j \in 1..Len(mem[d].notify) : mem'[d].notify[i] = mem[d].notify[j]
        /\ mem'[d].notify[i].who # x.who
  <2> TAKE d \in Clients
  <2> TAKE i \in 1..Len(mem'[d].notify)
  <2>1. CASE d = c
    <3>1. PICK j \in 1..Len(L) : j # k /\ s[i] = L[j]
      BY <1>6, <2>1
    <3>2. L[j].who # L[k].who
      BY <1>1, <3>1 DEF ListedOnce
    <3> QED
      BY <2>1, <3>1, <3>2
  <2>2. CASE d # c
    <3>1. mem'[d].notify = mem[d].notify
      BY <2>2 DEF NotifyOn
    <3>2. mem[d].notify[i].who # x.who
      <4> SUFFICES ASSUME mem[d].notify[i].who = x.who PROVE FALSE
        OBVIOUS
      <4> DEFINE y == mem[d].notify[i]
      <4>1. i \in 1..Len(mem[d].notify)
        BY <3>1
      <4>2. /\ y.who \in Procs => task[y.who].c = d
            /\ y.who = ReadCb => d = QMIWDS
        BY <1>1, <4>1 DEF EntryInv
      <4>3. x.who = ReadCb => c = QMIWDS
        BY <1>1 DEF EntryInv
      <4>4. x.who \in Procs => task[x.who].c = d
        BY <4>2
      <4>5. x.who = ReadCb => d = QMIWDS /\ c = QMIWDS
        BY <4>2, <4>3
      <4> QED
        BY <1>7, <2>2, <4>4, <4>5
    <3> QED
      BY <3>1, <3>2
  <2> QED
    BY <2>1, <2>2
<1> HIDE DEF x
<1>9. n \in Notifiers => held'[n].who = x.who /\ (x.who = ReadCb => held'[n].tid = 0) /\ held'[n].step = "run"
  BY <1>2, <1>7 DEF x, WdsEntry, Entry
<1>10. HeldInv'
  <2>1. ASSUME NEW j \in Notifiers, held'[j].who # <<>>
        PROVE  /\ Notifying(j)'
               /\ IF held'[j].who = ReadCb THEN held'[j].tid = 0
                  ELSE held'[j].step = "run" /\ task'[held'[j].who].pc = "r_wait"
    <3>1. CASE j # n
      BY <1>4, <2>1, <3>1
    <3>2. CASE j = n
      <4>1. Notifying(j)'
        BY <2>1 DEF HeldRuns
      <4>2. x.who # ReadCb => task'[x.who].pc = "r_wait"
        <5>1. p = <<>> /\ \A h \in Procs : task[h].pc # "r_remove"
          BY <1>2, <3>2
        <5> QED
          BY <1>2, <1>7, <5>1 DEF ReadsOn, Reading
      <4> QED
        BY <1>9, <2>1, <3>2, <4>1, <4>2
    <3> QED
      BY <3>1, <3>2
  <2>2. ASSUME NEW i \in Notifiers, NEW j \in Notifiers, held'[i].who # <<>>, held'[i].who = held'[j].who PROVE i = j
    <3>1. CASE i # n /\ j # n
      BY <1>1, <1>4, <2>2, <3>1 DEF HeldInv
    <3>2. CASE i = n /\ j # n
      BY <1>4, <1>7, <1>9, <2>2, <3>2
    <3>3. CASE j = n /\ i # n
      BY <1>4, <1>7, <1>9, <2>2, <3>3
    <3> QED
      BY <3>1, <3>2, <3>3
  <2> QED
    BY <2>1, <2>2 DEF HeldInv
<1>11. NotHeld'
  <2> SUFFICES ASSUME NEW d \in Clients, NEW j \in Notifiers, NEW i \in 1..Len(mem'[d].notify)
               PROVE  held'[j].who # mem'[d].notify[i].who
    BY DEF NotHeld
  <2>1. PICK l \in 1..Len(mem[d].notify) : mem'[d].notify[i] = mem[d].notify[l]
    BY <1>8
  <2>2. CASE j = n
    BY <1>8, <1>9, <2>2
  <2>3. CASE j # n
    BY <1>1, <1>4, <1>5, <2>1, <2>3 DEF NotHeld
  <2> QED
    BY <2>2, <2>3
<1>12. ListedOnce'
  <2> SUFFICES ASSUME NEW d \in Clients
               PROVE  \A i, j \in 1..Len(mem'[d].notify) : mem'[d].notify[i].who = mem'[d].notify[j].who => i = j
    BY DEF ListedOnce
  <2>1. CASE d = c
    BY <1>6, <2>1
  <2>2. CASE d # c
    BY <1>1, <2>2 DEF ListedOnce, NotifyOn
  <2> QED
    BY <2>1, <2>2
<1>13. EntryInv'
  <2> SUFFICES ASSUME NEW d \in Clients, NEW i \in 1..Len(mem'[d].notify)
               PROVE  LET e == mem'[d].notify[i] IN
                      /\ e.step = "run"
                      /\ e.who = ReadCb => e = WdsEntry /\ d = QMIWDS
                      /\ e.who \in Procs =>
                           task'[e.who].c = d /\ task'[e.who].pc \in Reading /\ e.tid = task'[e.who].tid
    BY DEF EntryInv
  <2>1. PICK l \in 1..Len(mem[d].notify) : mem'[d].notify[i] = mem[d].notify[l]
    BY <1>8
  <2> DEFINE e == mem'[d].notify[i]
  <2>2. /\ e.step = "run" /\ (e.who = ReadCb => e = WdsEntry /\ d = QMIWDS)
        /\ e.who \in Procs => task[e.who].c = d /\ task[e.who].pc \in Reading /\ e.tid = task[e.who].tid
    BY <1>1, <2>1 DEF EntryInv
  <2>3. e.who \in Procs => e.who # p
    BY <1>2, <1>8 DEF x
  <2> HIDE DEF e
  <2>4. e.who \in Procs => task'[e.who].c = d /\ task'[e.who].pc \in Reading /\ e.tid = task'[e.who].tid
    BY <2>2, <2>3 DEF ReadsOn
  <2> QED
    BY <2>2, <2>4 DEF e
<1>14. AsleepInv'
  <2> SUFFICES ASSUME NEW h \in Procs, task'[h].pc \in Reading
               PROVE  \/ \E i \in 1..Len(mem'[task'[h].c].notify) : mem'[task'[h].c].notify[i].who = h
                      \/ task'[h].pc = "r_wait" /\ \E j \in Notifiers : held'[j].who = h
    BY DEF AsleepInv
  <2>1. h # p /\ task[h].pc \in Reading /\ task'[h].c = task[h].c /\ task[h].c \in Clients /\ task'[h].pc = task[h].pc
    BY <1>2 DEF ReadsOn
  <2>2. CASE \E i \in 1..Len(mem[task[h].c].notify) : mem[task[h].c].notify[i].who = h
    <3>1. PICK i \in 1..Len(mem[task[h].c].notify) : mem[task[h].c].notify[i].who = h
      BY <2>2
    <3>2. CASE task[h].c # c
      BY <2>1, <3>1, <3>2 DEF NotifyOn
    <3>3. CASE task[h].c = c /\ i # k
      <4>1. i \in 1..Len(L) /\ L[i].who = h /\ task'[h].c = c
        BY <2>1, <3>1, <3>3
      <4>2. \E y \in 1..Len(s) : s[y] = L[i]
        BY <1>6, <3>3, <4>1
      <4>3. \E y \in 1..Len(s) : s[y].who = h
        BY <4>1, <4>2
      <4> QED
        BY <4>1, <4>3
    <3>4. CASE task[h].c = c /\ i = k
      <4>1. x.who = h
        BY <3>1, <3>4 DEF x
      <4>2. n \in Notifiers /\ task[h].pc # "r_remove"
        BY <2>1, <4>1 DEF x
      <4> QED
        BY <1>9, <2>1, <4>1, <4>2 DEF Reading
    <3> QED
      BY <3>2, <3>3, <3>4
  <2>3. CASE task[h].pc = "r_wait" /\ \E j \in Notifiers : held[j].who = h
    <3>1. PICK j \in Notifiers : held[j].who = h
      BY <2>3
    <3>2. j # n
      BY <1>2, <3>1
    <3> QED
      BY <1>4, <2>1, <2>3, <3>1, <3>2
  <2> QED
    BY <1>1, <2>1, <2>2, <2>3 DEF AsleepInv
<1> QED
  BY <1>10, <1>11, <1>12, <1>13, <1>14 DEF NotifyInv

-----------------------------------------------------------------------------
(* ReadSync.                                                                *)

\* Who reads: a file's thread waits for the answer to its request of QMICTL, its
\* reader for any message of the file's client.
LEMMA ReaderOf ==
  ASSUME GobiTypes, AskInv, CalmInv, NEW p \in Procs, task[p].pc \in Reading \union {"r_look", "poll"}
  PROVE  /\ task[p].c \in Clients
         /\ \/ task[p].pc # "poll" /\ task[p].c = QMICTL /\ task[p].tid # 0 /\ Asks(task[p])
            \/ /\ task[p].c # QMICTL /\ task[p].tid = 0
               /\ \E f \in Listened : p = Reader(f) /\ task[p].c = file[f].id /\ task[User(f)].op # "rel"
<1>1. QMICTL \in Clients /\ QMICTL \notin Ids /\ Ids \subseteq Clients
  BY GobiAssumption DEF Clients
<1>2. ASSUME NEW f \in Files, p = User(f)
      PROVE  task[p].pc # "poll" /\ task[p].c = QMICTL /\ task[p].tid # 0 /\ Asks(task[p])
  <2>1. GoodUser(f, task[p], device, file[f]) /\ GoodTask(task[p])
    BY <1>2 DEF CalmInv, UserInv, AskInv, AskTask
  <2>2. task[p].pc \in AskPlaces /\ task[p].pc # "poll" /\ task[p].pc \notin Early \union Writing
    BY <2>1 DEF GoodUser, AskPlaces, Early, Writing, Reading
  <2>3. task[p].op \in Gets \union Releases
    BY <2>1, <2>2 DEF GoodUser, AskPlaces
  <2> QED
    BY <2>1, <2>2, <2>3 DEF GoodTask, Asks
<1>3. ASSUME NEW f \in Listened, p = Reader(f)
      PROVE  task[p].c \in Ids /\ task[p].c = file[f].id /\ task[p].tid = 0 /\ task[User(f)].op # "rel"
  <2>1. GoodReader(task[p], file[f], task[User(f)].op) /\ f \in Files
    BY <1>3, ProcsOf DEF CalmInv, ReaderInv
  <2>2. task[p].c = file[f].id /\ file[f].id # NoId /\ task[p].tid = 0 /\ task[User(f)].op # "rel"
    BY <2>1 DEF GoodReader, Reading
  <2> QED
    BY <2>1, <2>2 DEF GobiTypes, FileTypes
<1>4. p # Remover
  BY DEF CalmInv, RemoverInv, GoodRemover, Reading
<1> QED
  BY <1>1, <1>2, <1>3, <1>4, ProcsOf

\* Where ReadSync goes on when it has ended.
ReadEnds == {"alloc", "clean", "again", "idle"}
Waits(p) ==
  LET c == task[p].c IN
  /\ task[p].pc = "r_look" /\ Present(c) /\ FirstRead(c, task[p].tid) = 0
  /\ task'[p].pc = "r_wait" /\ task'[p].c = c /\ task'[p].tid = task[p].tid
  /\ mem' = [mem EXCEPT ![c].notify = Append(mem[c].notify, Entry(p, task[p].tid))]
Takes(p) ==
  LET c == task[p].c IN
  /\ task[p].pc = "r_look" /\ task'[p].pc \in ReadEnds /\ FirstRead(c, task[p].tid) # 0
  /\ mem' = [mem EXCEPT ![c].list = RemoveAt(mem[c].list, FirstRead(c, task[p].tid))]
Fails(p) == task[p].pc = "r_look" /\ task'[p].pc \in ReadEnds /\ mem' = mem
GivesUp(p) ==
  LET c == task[p].c IN
  /\ task[p].pc = "r_remove" /\ task'[p].pc \in ReadEnds
  /\ mem' = [mem EXCEPT ![c].notify = WithoutEntry(mem[c].notify, p)]
TimesOut(p) ==
  /\ task[p].pc = "r_wait" /\ task'[p].pc = "r_remove" /\ task'[p].c = task[p].c /\ task'[p].tid = task[p].tid
  /\ mem' = mem /\ \A n \in Notifiers : held[n].who # p

\* A step of ReadSync.
LEMMA ReadOf ==
  ASSUME GobiTypes, Undisturbed, NEW p \in Procs, ReadSteps(p) \/ ReadTimeout(p)
  PROVE  /\ UNCHANGED <<clist, held, urb, ntid, file, device, reading, cb, modem>>
         /\ \A h \in Procs \ {p} : task'[h] = task[h]
         /\ Waits(p) \/ Takes(p) \/ Fails(p) \/ GivesUp(p) \/ TimesOut(p)
         /\ Waits(p) => \A h \in Procs : task[h].pc # "r_remove" /\ ~(task[h].pc = "c_more" /\ task[h].arg = task[p].c)
<1> DEFINE t == task[p]
           c == task[p].c
<1>1. task \in [Procs -> Tasks] /\ t \in Tasks
  BY DEF GobiTypes, TaskTypes
<1>2. UNCHANGED <<clist, held, urb, ntid, file, device, reading, cb, modem>>
  BY DEF ReadSteps, Look, ReadGiveUp, ReadTimeout
<1> HIDE DEF t
<1>3. ASSUME NEW s, task' = [task EXCEPT ![p] = s]
      PROVE  task'[p] = s /\ \A h \in Procs \ {p} : task'[h] = task[h]
  BY <1>1, <1>3
<1>4. ASSUME NEW s \in Tasks, NEW ok \in BOOLEAN
      PROVE  Onward(s, AfterRead(p, ok)).pc \in ReadEnds
  <2>1. AfterRead(p, ok) \in ReadEnds
    BY AfterOf DEF ReadEnds
  <2> QED
    BY <2>1, OnwardOf DEF ReadEnds, Places
<1>5. CASE Look(p)
  <2> DEFINE i == FirstRead(c, t.tid)
  <2>1. t.pc = "r_look" /\ ~ReadGiveUp(p) /\ ~ReadTimeout(p)
    BY <1>5 DEF Look, ReadGiveUp, ReadTimeout, t
  <2>2. \A h \in Procs : task[h].pc # "r_remove" /\ ~(task[h].pc = "c_more" /\ task[h].arg = task[p].c)
    BY <1>5 DEF Look, Prompt, Undisturbed
  <2>3. \/ task' = [task EXCEPT ![p] = Onward(t, AfterRead(p, FALSE))] /\ mem' = mem
        \/ /\ Present(c) /\ i > 0 /\ mem' = [mem EXCEPT ![c].list = RemoveAt(mem[c].list, i)]
           /\ task' = [task EXCEPT ![p] = Onward([t EXCEPT !.got = mem[c].list[i]], AfterRead(p, TRUE))]
        \/ /\ Present(c) /\ i = 0 /\ mem' = [mem EXCEPT ![c].notify = Append(mem[c].notify, Entry(p, t.tid))]
           /\ task' = [task EXCEPT ![p].pc = "r_wait", ![p].fresh = TRUE]
    BY <1>5 DEF Look, Goto, t
  <2>4. CASE task' = [task EXCEPT ![p] = Onward(t, AfterRead(p, FALSE))] /\ mem' = mem
    <3>1. task'[p].pc \in ReadEnds /\ \A h \in Procs \ {p} : task'[h] = task[h]
      BY <1>1, <1>3, <1>4, <2>4
    <3>2. Fails(p)
      BY <2>1, <2>4, <3>1 DEF Fails, t
    <3> QED
      BY <1>2, <2>2, <3>1, <3>2
  <2>5. CASE /\ Present(c) /\ i > 0 /\ mem' = [mem EXCEPT ![c].list = RemoveAt(mem[c].list, i)]
             /\ task' = [task EXCEPT ![p] = Onward([t EXCEPT !.got = mem[c].list[i]], AfterRead(p, TRUE))]
    <3>1. ClientTypes
      BY DEF GobiTypes
    <3>2. c \in Clients /\ mem[c].list \in Seq(Messages)
      BY <2>5, <3>1, MemoryOf, PositionOf DEF ClientTypes
    <3>3. i # 0 /\ mem[c].list[i] \in Messages
      <4>1. i # 0 => i \in 1..Len(mem[c].list)
        BY <3>2, FirstReadOf
      <4>2. \A j \in 1..Len(mem[c].list) : mem[c].list[j] \in Messages
        BY <3>2
      <4>3. i # 0
        BY <2>5
      <4> QED
        BY <4>1, <4>2, <4>3
    <3>4. [t EXCEPT !.got = mem[c].list[i]] \in Tasks
      BY <1>1, <3>3 DEF Tasks
    <3>5. task'[p].pc \in ReadEnds /\ \A h \in Procs \ {p} : task'[h] = task[h]
      BY <1>3, <1>4, <2>5, <3>4
    <3>6. Takes(p)
      <4>1. mem' = [mem EXCEPT ![c].list = RemoveAt(mem[c].list, i)] /\ t.pc = "r_look"
        BY <2>1, <2>5
      <4> QED
        BY <3>3, <3>5, <4>1 DEF Takes, t
    <3> QED
      BY <1>2, <2>2, <3>5, <3>6
  <2>6. CASE /\ Present(c) /\ i = 0 /\ mem' = [mem EXCEPT ![c].notify = Append(mem[c].notify, Entry(p, t.tid))]
             /\ task' = [task EXCEPT ![p].pc = "r_wait", ![p].fresh = TRUE]
    <3>1. /\ task'[p].pc = "r_wait" /\ task'[p].c = c /\ task'[p].tid = t.tid
          /\ \A h \in Procs \ {p} : task'[h] = task[h]
      BY <1>1, <2>6 DEF Tasks, t
    <3>2. Waits(p)
      BY <2>1, <2>6, <3>1 DEF Waits, t
    <3> QED
      BY <1>2, <2>2, <3>1, <3>2
  <2> QED
    BY <2>3, <2>4, <2>5, <2>6
<1>6. CASE ReadGiveUp(p)
  <2>1. /\ t.pc = "r_remove" /\ task' = [task EXCEPT ![p] = Onward(t, AfterRead(p, FALSE))]
        /\ mem' = [mem EXCEPT ![c].notify = WithoutEntry(mem[c].notify, p)]
    BY <1>6 DEF ReadGiveUp, Goto, WithoutEntry, t
  <2>2. task'[p].pc \in ReadEnds /\ \A h \in Procs \ {p} : task'[h] = task[h]
    BY <1>1, <1>3, <1>4, <2>1
  <2>3. GivesUp(p) /\ ~Waits(p)
    BY <2>1, <2>2 DEF GivesUp, Waits, t
  <2> QED
    BY <1>2, <2>2, <2>3
<1>7. CASE ReadTimeout(p)
  <2>1. /\ t.pc = "r_wait" /\ task' = [task EXCEPT ![p] = Onward(t, "r_remove")] /\ mem' = mem
        /\ \A n \in Notifiers : held[n].who # p
    BY <1>7 DEF ReadTimeout, Goto, Undisturbed, t
  <2>2. Onward(t, "r_remove").pc = "r_remove" /\ Onward(t, "r_remove").c = t.c /\ Onward(t, "r_remove").tid = t.tid
    BY <1>1, OnwardOf DEF Places
  <2>3. task'[p] = Onward(t, "r_remove") /\ \A h \in Procs \ {p} : task'[h] = task[h]
    BY <1>3, <2>1
  <2>4. TimesOut(p) /\ ~Waits(p)
    BY <2>1, <2>2, <2>3 DEF TimesOut, Waits, t
  <2> QED
    BY <1>2, <2>3, <2>4
<1> QED
  BY <1>5, <1>6, <1>7 DEF ReadSteps

\* The URBs of the writers.
LEMMA UrbStep ==
  ASSUME GobiTypes, AskInv, CalmInv, Undisturbed, [GobiNext]_gobiVars
  PROVE  UrbInv'
<1>1. CASE \E p \in Procs : WriteSteps(p)
  BY <1>1, WriteKeepsUrbs
<1>2. CASE ~ \E p \in Procs : WriteSteps(p)
  <2>1. UNCHANGED urb /\ \A c \in Clients : mem'[c].urbs = mem[c].urbs
    BY <1>2, UrbsOf
  <2>2. \A p \in Procs : task[p].pc \in Writing => task[p].c \in Clients
    BY WriterOf
  <2>3. /\ \A p \in Procs : task'[p].pc \in Writing <=> task[p].pc \in Writing
        /\ \A p \in Procs : task[p].pc \in Writing => task'[p].c = task[p].c /\ task'[p].u = task[p].u
    <3>1. CASE AllStay
      BY <3>1 DEF AllStay, GoesOn, Writing
    <3>2. ASSUME NEW p \in Procs, ReadSteps(p) \/ ReadTimeout(p)
          PROVE  /\ task[p].pc \notin Writing /\ task'[p].pc \notin Writing
                 /\ \A h \in Procs \ {p} : task'[h] = task[h]
      <4>1. task[p].pc \in {"r_look", "r_wait", "r_remove"} /\ task'[p].pc \in ReadEnds \union {"r_wait", "r_remove"}
        BY <3>2, ReadOf DEF Waits, Takes, Fails, GivesUp, TimesOut
      <4> QED
        BY <3>2, <4>1, ReadOf DEF Writing, ReadEnds
    <3>3. CASE \E p \in Procs : ReadSteps(p) \/ ReadTimeout(p)
      BY <3>2, <3>3
    <3>4. CASE \E n \in Notifiers : NotifySteps(n)
      <4>1. PICK n \in Notifiers : Notification(n)
        BY <3>4, NotifyOf DEF CalmInv, RemoverInv, ListInv, NotifyInv
      <4>2. \A p \in Procs : NotifiedTask(n, p, task[p], task'[p])
        BY <4>1 DEF Notification
      <4> QED
        BY <4>2 DEF NotifiedTask, Alike, Writing
    <3> QED
      BY <1>2, <3>1, <3>3, <3>4, StaysOf
  <2>4. \A u \in Urbs : urb'[u] = urb[u]
    BY <2>1
  <2> QED
    BY <2>1, <2>2, <2>3, <2>4, UrbsStay DEF CalmInv
<1> QED
  BY <1>1, <1>2

\* One waits, in ReadSync or, again, with QMIWDSCallback.
LEMMA NotifyAdded ==
  ASSUME GobiTypes, NotifyInv, NEW n \in Notifiers \union {<<>>}, NEW p \in Procs \union {<<>>},
         NEW c \in Clients, NEW e \in Entries, e.step = "run",
         mem'[c].notify = Append(mem[c].notify, e), NotifyOn(c), HeldOn(n), HeldRuns, ReadsOn(p),
         \/ /\ n = <<>> /\ p \in Procs /\ e.who = p /\ task[p].pc = "r_look"
            /\ task'[p].pc = "r_wait" /\ task'[p].c = c /\ task'[p].tid = e.tid
         \/ /\ p = <<>> /\ n \in Notifiers /\ e = WdsEntry /\ c = QMIWDS
            /\ held[n].who = ReadCb /\ held'[n].who = <<>>,
         \A h \in Procs : task[h].pc \in Reading => task[h].c \in Clients
  PROVE  NotifyInv'
<1> DEFINE L == mem[c].notify
           s == mem'[c].notify
<1>1. EntryInv /\ NotHeld /\ ListedOnce /\ HeldInv /\ AsleepInv
  BY DEF NotifyInv
<1>2. ReadCb # <<>> /\ ReadCb \notin Procs /\ <<>> \notin Procs /\ <<>> \notin Notifiers
  BY ProcsOf
<1>3. ASSUME NEW j \in Notifiers \ {n}, held[j].who # <<>> PROVE held[j].who # p
  <2> SUFFICES ASSUME held[j].who = p PROVE FALSE
    OBVIOUS
  <2>1. p \in Procs /\ task[p].pc = "r_wait"
    BY <1>1, <1>2, <1>3 DEF HeldInv
  <2> QED
    BY <1>2, <2>1
<1>4. /\ \A j \in Notifiers \ {n} : held'[j].who # <<>> =>
           /\ held'[j].who = held[j].who
           /\ Notifying(j)'
           /\ IF held'[j].who = ReadCb THEN held'[j].tid = 0
              ELSE held'[j].step = "run" /\ task'[held'[j].who].pc = "r_wait"
      /\ \A j \in Notifiers \ {n} : held[j].who \in Procs => held'[j].who = held[j].who
  BY <1>3, HeldStep
<1>5. \A d \in Clients : \A i \in 1..Len(mem[d].notify) :
        /\ mem[d].notify[i].who # <<>>
        /\ mem[d].notify[i].who \in Procs \/ mem[d].notify[i].who = ReadCb
  BY NotifyFacts
<1>6. Len(s) = Len(L) + 1 /\ Len(L) \in Nat /\ s[Len(L) + 1] = e /\ \A i \in 1..Len(L) : s[i] = L[i]
  BY AppendOf, NotifyFacts
<1>7. n \in Notifiers => held'[n].who = <<>>
  BY <1>2
<1>8. e.who # <<>> /\ (e.who = ReadCb \/ e.who = p) /\ (e.who = ReadCb => e = WdsEntry /\ c = QMIWDS)
  BY <1>2 DEF WdsEntry, Entry
\* It was nowhere.
<1>9. \A j \in Notifiers : held'[j].who # e.who
  <2> SUFFICES ASSUME NEW j \in Notifiers, held'[j].who = e.who PROVE FALSE
    OBVIOUS
  <2>1. j # n /\ held[j].who = e.who
    BY <1>4, <1>7, <1>8
  <2>2. CASE n \in Notifiers
    BY <1>1, <1>2, <2>1, <2>2 DEF HeldInv, WdsEntry, Entry
  <2>3. CASE n = <<>>
    BY <1>2, <1>3, <2>1, <2>3
  <2> QED
    BY <2>2, <2>3
<1>10. \A d \in Clients : \A i \in 1..Len(mem[d].notify) : mem[d].notify[i].who # e.who
  <2> SUFFICES ASSUME NEW d \in Clients, NEW i \in 1..Len(mem[d].notify), mem[d].notify[i].who = e.who PROVE FALSE
    OBVIOUS
  <2>1. CASE n \in Notifiers
    BY <1>1, <1>2, <2>1 DEF NotHeld, WdsEntry, Entry
  <2>2. CASE n = <<>>
    <3>1. e.who \in Procs /\ task[e.who].pc = "r_look"
      BY <1>2, <2>2
    <3>2. task[e.who].pc \in Reading
      BY <1>1, <3>1 DEF EntryInv
    <3> QED
      BY <3>1, <3>2 DEF Reading
  <2> QED
    BY <2>1, <2>2
<1>11. \A d \in Clients : \A i \in 1..Len(mem'[d].notify) :
         \/ i \in 1..Len(mem[d].notify) /\ mem'[d].notify[i] = mem[d].notify[i]
         \/ d = c /\ i = Len(L) + 1 /\ mem'[d].notify[i] = e
  <2> TAKE d \in Clients
  <2> TAKE i \in 1..Len(mem'[d].notify)
  <2>1. CASE d = c
    <3>1. i \in 1..(Len(L) + 1)
      BY <1>6, <2>1
    <3>2. CASE i \in 1..Len(L)
      BY <1>6, <2>1, <3>2
    <3>3. CASE i = Len(L) + 1
      BY <1>6, <2>1, <3>3
    <3> QED
      BY <1>6, <3>1, <3>2, <3>3
  <2>2. CASE d # c
    BY <2>2 DEF NotifyOn
  <2> QED
    BY <2>1, <2>2
<1> HIDE DEF s, L
<1>12. HeldInv'
  <2>1. \A j \in Notifiers : held'[j].who # <<>> => j # n
    BY <1>7
  <2> QED
    BY <1>1, <1>4, <2>1 DEF HeldInv
<1>13. NotHeld'
  <2> SUFFICES ASSUME NEW d \in Clients, NEW j \in Notifiers, NEW i \in 1..Len(mem'[d].notify)
               PROVE  held'[j].who # mem'[d].notify[i].who
    BY DEF NotHeld
  <2>1. CASE mem'[d].notify[i] = e
    BY <1>9, <2>1
  <2>2. CASE i \in 1..Len(mem[d].notify) /\ mem'[d].notify[i] = mem[d].notify[i]
    <3>1. mem[d].notify[i].who # <<>> /\ held[j].who # mem[d].notify[i].who
      BY <1>1, <1>5, <2>2 DEF NotHeld
    <3> QED
      BY <1>4, <1>7, <2>2, <3>1
  <2> QED
    BY <1>11, <2>1, <2>2
<1>14. ListedOnce'
  <2> SUFFICES ASSUME NEW d \in Clients, NEW i \in 1..Len(mem'[d].notify), NEW j \in 1..Len(mem'[d].notify),
                      mem'[d].notify[i].who = mem'[d].notify[j].who
               PROVE  i = j
    BY DEF ListedOnce
  <2>1. \/ i \in 1..Len(mem[d].notify) /\ mem'[d].notify[i] = mem[d].notify[i]
        \/ d = c /\ i = Len(L) + 1 /\ mem'[d].notify[i] = e
    BY <1>11
  <2>2. \/ j \in 1..Len(mem[d].notify) /\ mem'[d].notify[j] = mem[d].notify[j]
        \/ d = c /\ j = Len(L) + 1 /\ mem'[d].notify[j] = e
    BY <1>11
  <2> QED
    BY <1>1, <1>10, <2>1, <2>2 DEF ListedOnce
<1>15. EntryInv'
  <2> SUFFICES ASSUME NEW d \in Clients, NEW i \in 1..Len(mem'[d].notify)
               PROVE  LET x == mem'[d].notify[i] IN
                      /\ x.step = "run"
                      /\ x.who = ReadCb => x = WdsEntry /\ d = QMIWDS
                      /\ x.who \in Procs =>
                           task'[x.who].c = d /\ task'[x.who].pc \in Reading /\ x.tid = task'[x.who].tid
    BY DEF EntryInv
  <2>1. CASE d = c /\ mem'[d].notify[i] = e
    <3>1. e.who \in Procs => task'[e.who].c = c /\ task'[e.who].pc \in Reading /\ e.tid = task'[e.who].tid
      BY <1>2, <1>8 DEF Reading
    <3> QED
      BY <1>8, <2>1, <3>1
  <2>2. CASE i \in 1..Len(mem[d].notify) /\ mem'[d].notify[i] = mem[d].notify[i]
    <3> DEFINE x == mem[d].notify[i]
    <3>1. /\ x.step = "run" /\ (x.who = ReadCb => x = WdsEntry /\ d = QMIWDS)
          /\ x.who \in Procs => task[x.who].c = d /\ task[x.who].pc \in Reading /\ x.tid = task[x.who].tid
      BY <1>1, <2>2 DEF EntryInv
    <3>2. x.who \in Procs => x.who # p
      BY <1>2, <1>10, <2>2
    <3> HIDE DEF x
    <3>3. x.who \in Procs => task'[x.who].c = d /\ task'[x.who].pc \in Reading /\ x.tid = task'[x.who].tid
      BY <3>1, <3>2 DEF ReadsOn
    <3> QED
      BY <2>2, <3>1, <3>3 DEF x
  <2> QED
    BY <1>11, <2>1, <2>2
<1>16. \A d \in Clients : \A i \in 1..Len(mem[d].notify) :
         i \in 1..Len(mem'[d].notify) /\ mem'[d].notify[i] = mem[d].notify[i]
  <2> TAKE d \in Clients
  <2> TAKE i \in 1..Len(mem[d].notify)
  <2>1. CASE d = c
    <3>1. i \in 1..Len(L)
      BY <2>1 DEF L
    <3>2. i \in 1..Len(s) /\ s[i] = L[i]
      BY <1>6, <3>1
    <3> QED
      BY <2>1, <3>2 DEF L, s
  <2>2. CASE d # c
    BY <2>2 DEF NotifyOn
  <2> QED
    BY <2>1, <2>2
<1>17. AsleepInv'
  <2> SUFFICES ASSUME NEW h \in Procs, task'[h].pc \in Reading
               PROVE  \/ \E i \in 1..Len(mem'[task'[h].c].notify) : mem'[task'[h].c].notify[i].who = h
                      \/ task'[h].pc = "r_wait" /\ \E j \in Notifiers : held'[j].who = h
    BY DEF AsleepInv
  <2>1. CASE h = p
    <3>1. task'[h].c = c /\ e.who = h
      BY <1>2, <2>1
    <3>2. Len(L) + 1 \in 1..Len(s) /\ s[Len(L) + 1].who = h
      BY <1>6, <3>1
    <3> QED
      BY <3>1, <3>2 DEF s
  <2>2. CASE h # p
    <3>1. task[h].pc \in Reading /\ task'[h].c = task[h].c /\ task[h].c \in Clients /\ task'[h].pc = task[h].pc
      BY <2>2 DEF ReadsOn
    <3>2. CASE \E i \in 1..Len(mem[task[h].c].notify) : mem[task[h].c].notify[i].who = h
      BY <1>16, <3>1, <3>2
    <3>3. CASE task[h].pc = "r_wait" /\ \E j \in Notifiers : held[j].who = h
      <4>1. PICK j \in Notifiers : held[j].who = h
        BY <3>3
      <4>2. j # n
        BY <1>2, <4>1
      <4> QED
        BY <1>4, <3>1, <3>3, <4>1, <4>2
    <3> QED
      BY <1>1, <3>1, <3>2, <3>3 DEF AsleepInv
  <2> QED
    BY <2>1, <2>2
<1> QED
  BY <1>12, <1>13, <1>14, <1>15, <1>17 DEF NotifyInv

-----------------------------------------------------------------------------
(* Messages are taken, and no other comes.                                  *)

Fewer(h, l) == \A i \in 1..Len(h) : \E j \in 1..Len(l) : h[i] = l[j]
ListsFewer == \A d \in Clients : Fewer(mem'[d].list, mem[d].list)
NotifySame == \A d \in Clients : mem'[d].notify = mem[d].notify
\* Who comes into poll() found no message.
PollsOn ==
  \A p \in Procs : task'[p].pc = "poll" =>
    \/ task[p].pc = "poll" /\ task'[p].c = task[p].c
    \/ mem'[task'[p].c].list = <<>>

\* What a change to one list of a client leaves alone.
LEMMA MemKeeps ==
  ASSUME ClientTypes, NEW c, NEW l
  PROVE  /\ mem' = mem => ListsFewer /\ NotifySame
         /\ mem' = [mem EXCEPT ![c].urbs = l] => ListsFewer /\ NotifySame
         /\ mem' = [mem EXCEPT ![c].notify = l] => ListsFewer /\ NotifyOn(c)
         /\ mem' = [mem EXCEPT ![c].list = l] =>
              /\ NotifySame /\ (c \in Clients /\ Fewer(l, mem[c].list) => ListsFewer)
              /\ c \notin Clients => ListsFewer
<1>1. mem \in [Clients -> Memories] /\ \A d \in Clients : mem[d] \in Memories
  BY DEF ClientTypes
<1>2. \A h : Fewer(h, h)
  BY DEF Fewer
<1>3. ASSUME mem' = mem PROVE ListsFewer /\ NotifySame
  <2>1. \A d \in Clients : mem'[d].list = mem[d].list /\ mem'[d].notify = mem[d].notify
    BY <1>3
  <2> QED
    BY <1>2, <2>1 DEF ListsFewer, NotifySame
<1>4. ASSUME mem' = [mem EXCEPT ![c].urbs = l] PROVE ListsFewer /\ NotifySame
  <2>1. \A d \in Clients : mem'[d].list = mem[d].list /\ mem'[d].notify = mem[d].notify
    BY <1>1, <1>4 DEF Memories
  <2> QED
    BY <1>2, <2>1 DEF ListsFewer, NotifySame
<1>5. ASSUME mem' = [mem EXCEPT ![c].notify = l] PROVE ListsFewer /\ NotifyOn(c)
  <2>1. \A d \in Clients : mem'[d].list = mem[d].list /\ (d # c => mem'[d].notify = mem[d].notify)
    BY <1>1, <1>5 DEF Memories
  <2> QED
    BY <1>2, <2>1 DEF ListsFewer, NotifyOn
<1>6. ASSUME mem' = [mem EXCEPT ![c].list = l]
      PROVE  /\ NotifySame /\ (c \in Clients /\ Fewer(l, mem[c].list) => ListsFewer)
             /\ c \notin Clients => ListsFewer
  <2>1. \A d \in Clients : mem'[d].notify = mem[d].notify /\ mem'[d].list = IF d = c THEN l ELSE mem[d].list
    BY <1>1, <1>6 DEF Memories
  <2> QED
    BY <1>2, <2>1 DEF ListsFewer, NotifySame
<1>7. mem' = mem => ListsFewer /\ NotifySame
  BY <1>3
<1> QED
  BY <1>4, <1>5, <1>6, <1>7

\* WriteSync has to do with the URBs only.
LEMMA WriteRests ==
  ASSUME GobiTypes, NEW p \in Procs, WriteSteps(p)
  PROVE  /\ UNCHANGED <<clist, held, file, device, reading, cb>> /\ ListsFewer /\ NotifySame
         /\ task[p].pc \notin Reading /\ task'[p].pc \notin Reading
         /\ \A h \in Procs \ {p} : task'[h] = task[h]
         /\ PollsOn
<1>1. /\ task \in [Procs -> Tasks] /\ task[p] \in Tasks /\ ClientTypes
  BY DEF GobiTypes, TaskTypes
<1>2. UNCHANGED <<clist, held, file, device, reading, cb>>
  BY DEF WriteSteps, AddToURBList, Submit, SubmitFails, WriteSyncCallback, WriteDown, WritePop
<1>3. mem' = mem \/ \E c, l : mem' = [mem EXCEPT ![c].urbs = l]
  BY DEF WriteSteps, AddToURBList, Submit, SubmitFails, WriteSyncCallback, WriteDown, WritePop, PopFromURBList
<1>4. ListsFewer /\ NotifySame
  BY <1>1, <1>3, MemKeeps
<1>5. ASSUME UNCHANGED task PROVE PollsOn
  BY <1>5 DEF PollsOn
<1> DEFINE Rest == Places \ (Reading \union {"poll"})
<1>6. ASSUME NEW s, task' = [task EXCEPT ![p] = s], s.pc \in Rest, task[p].pc \notin Reading
      PROVE  /\ task[p].pc \notin Reading /\ task'[p].pc \notin Reading
             /\ \A h \in Procs \ {p} : task'[h] = task[h]
             /\ PollsOn
  <2>1. task'[p] = s /\ \A h \in Procs \ {p} : task'[h] = task[h]
    BY <1>1, <1>6
  <2> QED
    BY <1>6, <2>1 DEF PollsOn
<1>7. ASSUME NEW l \in Rest PROVE Onward(task[p], l).pc \in Rest
  BY <1>1, <1>7, OnwardOf
<1>8. \A ok \in BOOLEAN : AfterWrite(p, ok) \in Rest
  BY AfterOf DEF Places, Reading
<1>9. task[p].pc \notin Reading
  BY DEF WriteSteps, AddToURBList, Submit, SubmitFails, WriteSyncCallback, WriteDown, WritePop, Reading
<1>10. \/ UNCHANGED task
       \/ \E l \in Rest : task' = [task EXCEPT ![p] = Onward(task[p], l)]
       \/ \E u : task' = [task EXCEPT ![p].pc = "w_submit", ![p].u = u]
       \/ \E b \in BOOLEAN : task' = [task EXCEPT ![p].pc = "w_pop", ![p].sig = b]
  <2>1. CASE AddToURBList(p)
    BY <1>8, <2>1 DEF AddToURBList, Goto
  <2>2. CASE Submit(p)
    <3>1. "w_wait" \in Rest
      BY DEF Places, Reading
    <3> QED
      BY <2>2, <3>1 DEF Submit, Goto
  <2>3. CASE SubmitFails(p)
    BY <1>8, <2>3 DEF SubmitFails, Goto
  <2>4. CASE WriteSyncCallback(p)
    BY <2>4 DEF WriteSyncCallback
  <2>5. CASE WriteDown(p)
    BY <2>5 DEF WriteDown
  <2>6. CASE WritePop(p)
    <3>1. \E ok \in BOOLEAN : Goto(p, AfterWrite(p, ok))
      BY <2>6 DEF WritePop
    <3> QED
      BY <1>8, <3>1 DEF Goto
  <2> QED
    BY <2>1, <2>2, <2>3, <2>4, <2>5, <2>6 DEF WriteSteps
<1>11. ASSUME NEW l \in Rest, task' = [task EXCEPT ![p] = Onward(task[p], l)]
       PROVE  \E s : task' = [task EXCEPT ![p] = s] /\ s.pc \in Rest
  BY <1>7, <1>11
<1>12. ASSUME NEW u, task' = [task EXCEPT ![p].pc = "w_submit", ![p].u = u]
       PROVE  \E s : task' = [task EXCEPT ![p] = s] /\ s.pc \in Rest
  <2> DEFINE s == [task[p] EXCEPT !.pc = "w_submit", !.u = u]
  <2>1. task' = [task EXCEPT ![p] = s] /\ s.pc = "w_submit"
    BY <1>1, <1>12 DEF Tasks
  <2>2. s.pc \in Rest
    BY <2>1 DEF Places, Reading
  <2> QED
    BY <2>1, <2>2
<1>13. ASSUME NEW b \in BOOLEAN, task' = [task EXCEPT ![p].pc = "w_pop", ![p].sig = b]
       PROVE  \E s : task' = [task EXCEPT ![p] = s] /\ s.pc \in Rest
  <2> DEFINE s == [task[p] EXCEPT !.pc = "w_pop", !.sig = b]
  <2>1. task' = [task EXCEPT ![p] = s] /\ s.pc = "w_pop"
    BY <1>1, <1>13 DEF Tasks
  <2>2. s.pc \in Rest
    BY <2>1 DEF Places, Reading
  <2> QED
    BY <2>1, <2>2
<1> HIDE DEF Rest
<1>14. UNCHANGED task \/ \E s : task' = [task EXCEPT ![p] = s] /\ s.pc \in Rest
  BY <1>10, <1>11, <1>12, <1>13
<1> QED
  BY <1>2, <1>4, <1>5, <1>6, <1>9, <1>14

\* A call of user space.
LEMMA CallRests ==
  ASSUME GobiTypes, NEW f \in Files, Calls(f) \/ GetClientID(f) \/ ForceRelease(f)
  PROVE  /\ UNCHANGED <<held, reading, cb>> /\ ListsFewer /\ NotifySame /\ AllStay /\ PollsOn
<1> DEFINE p == User(f)
<1>1. /\ p \in Procs /\ task \in [Procs -> Tasks] /\ \A h \in Procs : task[h] \in Tasks
      /\ f \in Listened => Reader(f) \in Procs
      /\ ClientTypes /\ QMICTL \in Clients
  BY ProcsOf DEF GobiTypes, TaskTypes, Clients
<1>2. UNCHANGED <<held, reading, cb>>
  BY DEF Calls, UserspaceOpen, GetServiceFile, UserspaceWrite, UserspaceRead, UserspacePoll, UserspaceClose,
         GetClientID, ForceRelease
<1>3. mem' = mem \/ \E y, o, c : CtlRequest(y, o, c)
  BY DEF Calls, UserspaceOpen, GetServiceFile, UserspaceWrite, UserspaceRead, UserspacePoll, UserspaceClose,
         GetClientID, ForceRelease
<1>4. ListsFewer /\ NotifySame
  <2>1. CASE mem' = mem
    BY <1>1, <2>1, MemKeeps
  <2>2. CASE \E y, o, c : CtlRequest(y, o, c)
    <3>1. mem' = [mem EXCEPT ![QMICTL].list = Purged(mem[QMICTL].list)]
      BY <1>1, <2>2, CtlMemory
    <3>2. mem[QMICTL].list \in Seq(Messages)
      BY <1>1, MemoryOf
    <3>3. Fewer(Purged(mem[QMICTL].list), mem[QMICTL].list)
      BY <3>2, PurgedOf DEF Fewer
    <3> QED
      BY <1>1, <3>1, <3>3, MemKeeps
  <2> QED
    BY <1>3, <2>1, <2>2
<1>5. AllStay
  BY CallsStay
<1>6. ASSUME NEW h \in Procs, NEW s, task' = [task EXCEPT ![h] = s], s.pc # "poll" PROVE PollsOn
  <2>1. task'[h] = s /\ \A g \in Procs \ {h} : task'[g] = task[g]
    BY <1>1, <1>6
  <2> QED
    BY <1>6, <2>1 DEF PollsOn
<1>7. ASSUME NEW y \in Procs, NEW o, NEW c, CtlRequest(y, o, c) PROVE PollsOn
  <2> DEFINE s == [NoTask EXCEPT !.pc = "w_add", !.op = o, !.c = QMICTL, !.tid = NextTid, !.arg = c]
  <2>1. task' = [task EXCEPT ![y] = s] /\ s.pc # "poll"
    BY <1>7 DEF CtlRequest, NoTask
  <2> HIDE DEF s
  <2> QED
    BY <1>6, <2>1
<1>8. ASSUME NEW l \in {"idle", "again"}, task' = [task EXCEPT ![p] = Onward(task[p], l)] PROVE PollsOn
  <2>1. Onward(task[p], l).pc = l
    BY <1>1, OnwardOf DEF Places, NoTask, Onward
  <2> QED
    BY <1>1, <1>6, <1>8, <2>1
<1>9. UNCHANGED task => PollsOn
  BY DEF PollsOn
<1> SUFFICES PollsOn
  BY <1>2, <1>4, <1>5
<1>10. CASE UserspaceOpen(f)
  BY <1>9, <1>10 DEF UserspaceOpen
<1>11. CASE GetServiceFile(f)
  BY <1>1, <1>7, <1>11 DEF GetServiceFile
<1>12. CASE UserspaceWrite(f)
  <2> DEFINE s == [NoTask EXCEPT !.pc = "w_add", !.op = "write", !.c = file[f].id]
  <2>1. task' = [task EXCEPT ![p] = s] /\ s.pc # "poll"
    BY <1>12 DEF UserspaceWrite, NoTask
  <2> HIDE DEF s
  <2> QED
    BY <1>1, <1>6, <2>1
<1>13. CASE UserspaceRead(f)
  <2> DEFINE s == [NoTask EXCEPT !.pc = "r_look", !.op = "read", !.c = file[f].id]
  <2>1. task' = [task EXCEPT ![Reader(f)] = s] /\ s.pc # "poll" /\ f \in Listened
    BY <1>13 DEF UserspaceRead, NoTask
  <2> HIDE DEF s
  <2> QED
    BY <1>1, <1>6, <2>1
<1>14. CASE UserspacePoll(f)
  <2> DEFINE s == [NoTask EXCEPT !.pc = "poll", !.op = "poll", !.c = file[f].id]
  <2>1. task' = [task EXCEPT ![Reader(f)] = s] /\ s.c = file[f].id /\ mem' = mem /\ mem[file[f].id].list = <<>> /\ f \in Listened
    BY <1>14 DEF UserspacePoll, NoTask
  <2> HIDE DEF s
  <2>2. task'[Reader(f)] = s /\ \A h \in Procs \ {Reader(f)} : task'[h] = task[h]
    BY <1>1, <2>1
  <2> QED
    BY <2>1, <2>2 DEF PollsOn
<1>15. CASE UserspaceClose(f)
  BY <1>1, <1>7, <1>9, <1>15 DEF UserspaceClose
<1>16. CASE GetClientID(f)
  <2>1. \/ task' = [task EXCEPT ![p] = Onward(task[p], "idle")]
        \/ task' = [task EXCEPT ![p] = Onward(task[p], Failed(p))]
    BY <1>16 DEF GetClientID, Goto
  <2>2. Failed(p) \in {"idle", "again"}
    BY DEF Failed
  <2> QED
    BY <1>8, <2>1, <2>2
<1>17. CASE ForceRelease(f)
  <2>1. (\E o, c : CtlRequest(p, o, c)) \/ task' = [task EXCEPT ![p] = Onward(task[p], "idle")]
    BY <1>17 DEF ForceRelease, Goto
  <2> QED
    BY <1>1, <1>7, <1>8, <2>1
<1> QED
  BY <1>10, <1>11, <1>12, <1>13, <1>14, <1>15, <1>16, <1>17 DEF Calls

-----------------------------------------------------------------------------
(* The lists of those who wait, step by step.                               *)

\* Who reads has a client, and who notifies is one of two.
LEMMA ReadersOf ==
  ASSUME GobiTypes, AskInv, CalmInv
  PROVE  /\ \A h \in Procs : task[h].pc \in Reading => task[h].c \in Clients
         /\ \A k \in Notifiers : Notifying(k) => (k = ReadCb /\ reading = "notify") \/ (k = Remover /\ task[k].pc = "c_up")
         /\ \A k \in Notifiers : held[k].who # <<>> =>
              (k = ReadCb /\ reading = "notify") \/ (k = Remover /\ task[k].pc = "c_up")
<1>1. ASSUME NEW h \in Procs, task[h].pc \in Reading PROVE task[h].c \in Clients
  <2>1. task[h].pc \in Reading \union {"r_look", "poll"}
    BY <1>1
  <2> QED
    BY <2>1, ReaderOf
<1>2. ASSUME NEW k \in Notifiers, Notifying(k)
      PROVE  (k = ReadCb /\ reading = "notify") \/ (k = Remover /\ task[k].pc = "c_up")
  <2>1. CASE k = ReadCb
    BY <1>2, <2>1 DEF Notifying
  <2>2. CASE k # ReadCb
    <3>1. k \in Procs /\ task[k].pc = "c_up"
      BY <1>2, <2>2 DEF Notifying, Notifiers
    <3>2. k = Remover
      BY <3>1, PlacesOf DEF CalmInv, RemoverInv
    <3> QED
      BY <3>1, <3>2
  <2> QED
    BY <2>1, <2>2
<1>3. \A k \in Notifiers : held[k].who # <<>> => Notifying(k)
  BY DEF CalmInv, NotifyInv, HeldInv
<1> QED
  BY <1>1, <1>2, <1>3

\* A step that has to do with nobody who waits or is notified.
LEMMA NotifyIdle ==
  ASSUME GobiTypes, AskInv, CalmInv, UNCHANGED held, NotifySame, reading = "notify" => reading' = "notify",
         task[Remover].pc = "c_up" => task'[Remover].pc = "c_up", ReadsOn(<<>>)
  PROVE  NotifyInv'
<1>1. NotifyInv /\ ReadCb \notin Procs
  BY ProcsOf DEF CalmInv
<1>2. HeldOn(<<>>)
  BY DEF HeldOn
<1>3. HeldRuns
  <2> SUFFICES ASSUME NEW k \in Notifiers, held[k].who # <<>> PROVE Notifying(k)'
    BY DEF HeldRuns
  <2> QED
    BY ReadersOf, ProcsOf DEF Notifying
<1>4. \A d \in Clients : mem'[d].notify = mem[d].notify
  BY DEF NotifySame
<1>5. \A h \in Procs : task[h].pc \in Reading => task[h].c \in Clients
  BY ReadersOf
<1>6. <<>> \notin Notifiers /\ <<>> \notin Procs
  BY ProcsOf
<1> DEFINE n == <<>>
<1>7. n \in Notifiers \union {<<>>} /\ n \in Procs \union {<<>>} /\ n \notin Notifiers /\ n \notin Procs
  BY <1>6
<1>8. HeldOn(n) /\ ReadsOn(n)
  BY <1>2
<1> HIDE DEF n
<1> QED
  BY <1>1, <1>3, <1>4, <1>5, <1>7, <1>8, NotifyKept

\* A step of ReadSync.
LEMMA NotifyReads ==
  ASSUME GobiTypes, AskInv, CalmInv, Undisturbed, NEW p \in Procs, ReadSteps(p) \/ ReadTimeout(p)
  PROVE  NotifyInv'
<1>1. NotifyInv /\ \A h \in Procs : task[h].pc \in Reading => task[h].c \in Clients
  BY ReadersOf DEF CalmInv
<1>2. /\ UNCHANGED <<held, reading>> /\ \A h \in Procs \ {p} : task'[h] = task[h]
      /\ Waits(p) \/ Takes(p) \/ Fails(p) \/ GivesUp(p) \/ TimesOut(p)
  BY ReadOf
<1>3. p # Remover /\ Remover \in Procs /\ ClientTypes
  BY PlacesOf, ProcsOf DEF CalmInv, RemoverInv, GobiTypes
<1>4. <<>> \notin Notifiers /\ <<>> \notin Procs
  BY ProcsOf
<1> DEFINE n == <<>>
<1>5. n \in Notifiers \union {<<>>} /\ n = <<>> /\ n \notin Notifiers /\ n \notin Procs /\ p \in Procs \union {<<>>}
  BY <1>4
<1>6. HeldOn(n)
  BY <1>2 DEF HeldOn
<1>7. HeldRuns
  <2> SUFFICES ASSUME NEW k \in Notifiers, held[k].who # <<>> PROVE Notifying(k)'
    BY <1>2 DEF HeldRuns
  <2> QED
    BY <1>2, <1>3, ReadersOf, ProcsOf DEF Notifying
<1>8. ReadsOn(p)
  BY <1>2 DEF ReadsOn
<1> HIDE DEF n
<1>9. CASE Waits(p)
  <2> DEFINE c == task[p].c
             e == Entry(p, task[p].tid)
  <2>1. /\ c \in Clients /\ mem' = [mem EXCEPT ![c].notify = Append(mem[c].notify, e)]
        /\ task[p].pc = "r_look" /\ task'[p].pc = "r_wait" /\ task'[p].c = c /\ task'[p].tid = task[p].tid
    BY <1>9, <1>3, MemoryOf DEF Waits
  <2>2. e \in Entries /\ e.step = "run" /\ e.who = p /\ e.tid = task[p].tid
    BY ProcsOf DEF Entry, Entries, GobiTypes, TaskTypes, Tasks
  <2>3. mem \in [Clients -> Memories] /\ mem[c] \in Memories
    BY <1>3, <2>1 DEF ClientTypes
  <2> HIDE DEF c, e
  <2>4. mem'[c].notify = Append(mem[c].notify, e)
    BY <2>1, <2>3 DEF Memories
  <2>5. NotifyOn(c)
    BY <1>3, <2>1, MemKeeps
  <2> QED
    BY <1>1, <1>5, <1>6, <1>7, <1>8, <2>1, <2>2, <2>4, <2>5, NotifyAdded
<1>10. CASE Takes(p) \/ Fails(p)
  <2>1. task[p].pc \notin Reading /\ task'[p].pc \notin Reading
    BY <1>10 DEF Takes, Fails, Reading, ReadEnds
  <2>2. ReadsOn(n)
    BY <1>2, <2>1 DEF ReadsOn
  <2>3. NotifySame
    BY <1>3, <1>10, MemKeeps DEF Takes, Fails
  <2> QED
    BY <1>2, <1>3, <2>2, <2>3, NotifyIdle DEF n
<1>11. CASE GivesUp(p)
  <2> DEFINE c == task[p].c
             L == mem[c].notify
  <2>1. /\ task[p].pc = "r_remove" /\ task'[p].pc \in ReadEnds
        /\ mem' = [mem EXCEPT ![c].notify = WithoutEntry(L, p)]
    BY <1>11 DEF GivesUp
  <2>2. c \in Clients /\ L \in Seq(Entries) /\ mem \in [Clients -> Memories] /\ mem[c] \in Memories
    BY <1>1, <1>3, <2>1, MemoryOf DEF Reading, ClientTypes
  <2>3. \E i \in 1..Len(L) : L[i].who = p
    BY <1>1, <2>1 DEF NotifyInv, AsleepInv, Reading
  <2> HIDE DEF c
  <2>4. PICK k \in 1..Len(L) : L[k].who = p /\ WithoutEntry(L, p) = RemoveAt(L, k)
    BY <2>2, <2>3, FirstMatchOf
  <2>5. \A i, j \in 1..Len(L) : L[i].who = L[j].who => i = j
    BY <1>1, <2>2 DEF NotifyInv, ListedOnce
  <2>6. Lacks(RemoveAt(L, k), L, k)
    BY <2>2, <2>5, LacksOf
  <2>7. mem'[c].notify = RemoveAt(L, k)
    BY <2>1, <2>2, <2>4 DEF Memories
  <2>8. NotifyOn(c)
    BY <1>3, <2>1, MemKeeps
  <2>9. task'[p].pc \notin Reading
    BY <2>1 DEF Reading, ReadEnds
  <2>10. Lacks(mem'[c].notify, mem[c].notify, k)
    BY <2>6, <2>7
  <2>11. k \in 1..Len(mem[c].notify) /\ mem[c].notify[k].who = p
    BY <2>4
  <2> HIDE DEF L
  <2> QED
    BY <1>1, <1>5, <1>6, <1>7, <1>8, <2>1, <2>2, <2>8, <2>9, <2>10, <2>11, NotifyTaken
<1>12. CASE TimesOut(p)
  <2>1. /\ task[p].pc \in Reading /\ task'[p].pc \in Reading /\ task'[p].c = task[p].c /\ task'[p].tid = task[p].tid
        /\ \A k \in Notifiers : held[k].who # p
    BY <1>12 DEF TimesOut, Reading
  <2>2. \A d \in Clients : mem'[d].notify = mem[d].notify
    BY <1>12 DEF TimesOut
  <2> QED
    BY <1>1, <1>5, <1>6, <1>7, <1>8, <2>1, <2>2, NotifyKept
<1> QED
  BY <1>2, <1>9, <1>10, <1>11, <1>12

\* A notification.
LEMMA NotifyTold ==
  ASSUME GobiTypes, AskInv, CalmInv, NEW n \in Notifiers, NotifySteps(n)
  PROVE  NotifyInv'
<1>1. NotifyInv /\ \A h \in Procs : task[h].pc \in Reading => task[h].c \in Clients
  BY ReadersOf DEF CalmInv
<1>2. ReadCb # <<>> /\ ReadCb \notin Procs /\ <<>> \notin Procs /\ <<>> \notin Notifiers /\ Remover \in Procs
      /\ Remover # ReadCb
  BY ProcsOf
<1>3. Notification(n)
  BY <1>1, NotifyOf DEF CalmInv, RemoverInv, ListInv, NotifyInv
<1>4. /\ n \in {ReadCb, Remover} /\ Notifying(n)
      /\ \A h \in Procs : NotifiedTask(n, h, task[h], task'[h])
      /\ Wakes(n) \/ TakesOne(n) \/ Looks(n) \/ WaitsAgain(n)
  BY <1>3 DEF Notification
<1>5. held \in [Notifiers -> Entries \union {NoEntry}] /\ ClientTypes /\ QMIWDS \in Clients /\ task[Remover].pc # "r_wait"
  BY DEF GobiTypes, HeldTypes, Clients, CalmInv, RemoverInv, GoodRemover
<1>6. NoEntry.who = <<>> /\ WdsEntry.who = ReadCb /\ WdsEntry.tid = 0 /\ WdsEntry.step = "run"
  BY DEF NoEntry, WdsEntry, Entry
<1>7. ASSUME NEW h \in Procs, h # held[n].who
      PROVE  IF task[h].pc \in Reading
             THEN task'[h].pc = task[h].pc /\ task'[h].c = task[h].c /\ task'[h].tid = task[h].tid
             ELSE task'[h].pc \notin Reading
  BY <1>4, <1>7 DEF NotifiedTask, Alike, Reading
\* What is over is not held any more.
<1>8. ASSUME Over(n) PROVE HeldOn(n) /\ HeldRuns /\ held'[n].who = <<>>
  <2>1. held'[n] = NoEntry /\ \A k \in Notifiers \ {n} : held'[k] = held[k]
    BY <1>5, <1>8 DEF Over
  <2>2. ASSUME NEW k \in Notifiers, held'[k].who # <<>> PROVE Notifying(k)'
    <3>1. k # n /\ held[k].who # <<>>
      BY <1>6, <2>1, <2>2
    <3>2. CASE k = ReadCb
      <4>1. reading = "notify" /\ n # ReadCb
        BY <1>2, <3>1, <3>2, ReadersOf
      <4>2. reading' = "notify"
        BY <1>8, <4>1 DEF Over
      <4> QED
        BY <3>2, <4>2 DEF Notifying
    <3>3. CASE k = Remover /\ task[k].pc = "c_up"
      <4>1. Alike(task[Remover], task'[Remover])
        BY <1>2, <1>4, <3>1, <3>3 DEF NotifiedTask
      <4> QED
        BY <1>2, <3>3, <4>1 DEF Alike, Notifying
    <3> QED
      BY <3>1, <3>2, <3>3, ReadersOf
  <2> QED
    BY <1>6, <2>1, <2>2 DEF HeldOn, HeldRuns
<1>9. CASE Wakes(n)
  <2> DEFINE p == held[n].who
  <2>1. p \in Procs /\ task'[p].pc = "r_look" /\ mem' = mem /\ Over(n)
    BY <1>9 DEF Wakes
  <2>2. ReadsOn(p)
    BY <1>7 DEF ReadsOn
  <2>3. task'[p].pc \notin Reading
    BY <2>1 DEF Reading
  <2>4. \A d \in Clients : mem'[d].notify = mem[d].notify
    BY <2>1
  <2>5. HeldOn(n) /\ HeldRuns /\ held'[n].who = <<>> /\ held[n].who = p
    BY <1>8, <2>1
  <2> HIDE DEF p
  <2> QED
    BY <1>1, <2>1, <2>2, <2>3, <2>4, <2>5, NotifyKept
<1> DEFINE z == <<>>
<1>10. z = <<>> /\ z \notin Notifiers /\ z \notin Procs
  BY <1>2
<1> HIDE DEF z
<1>11. held[n].who = ReadCb => ReadsOn(z)
  BY <1>2, <1>7 DEF ReadsOn
<1>12. ASSUME held[n].who = ReadCb, held'[n].who = ReadCb, held'[n].tid = 0,
              \A k \in Notifiers \ {n} : held'[k] = held[k], UNCHANGED <<task, reading>>,
              \A d \in Clients : mem'[d].notify = mem[d].notify
       PROVE  NotifyInv'
  <2>1. HeldOn(z)
    BY <1>12 DEF HeldOn
  <2>2. HeldRuns
    <3> SUFFICES ASSUME NEW k \in Notifiers, held'[k].who # <<>> PROVE Notifying(k)'
      BY DEF HeldRuns
    <3>1. held[k].who # <<>>
      BY <1>2, <1>12
    <3> QED
      BY <1>2, <1>12, <3>1, ReadersOf DEF Notifying
  <2> QED
    BY <1>1, <1>10, <1>11, <1>12, <2>1, <2>2, NotifyKept
<1>13. CASE TakesOne(n)
  <2>1. \A d \in Clients : mem'[d].notify = mem[d].notify
    BY <1>5, <1>13, MemKeeps DEF TakesOne, NotifySame
  <2> QED
    BY <1>12, <1>13, <2>1 DEF TakesOne
<1>14. CASE Looks(n)
  <2>1. held[n].who = ReadCb /\ \A d \in Clients : mem'[d].notify = mem[d].notify
    BY <1>14 DEF Looks
  <2>2. CASE Over(n)
    BY <1>1, <1>8, <1>10, <1>11, <2>1, <2>2, NotifyKept
  <2>3. CASE held' = [held EXCEPT ![n] = WdsEntry] /\ UNCHANGED <<task, reading>>
    <3>1. held'[n] = WdsEntry /\ \A k \in Notifiers \ {n} : held'[k] = held[k]
      BY <1>5, <2>3
    <3> QED
      BY <1>6, <1>12, <2>1, <2>3, <3>1
  <2> QED
    BY <1>14, <2>2, <2>3 DEF Looks
<1>15. CASE WaitsAgain(n)
  <2>1. /\ held[n].who = ReadCb /\ Over(n)
        /\ mem' = [mem EXCEPT ![QMIWDS].notify = Append(mem[QMIWDS].notify, WdsEntry)]
    BY <1>15 DEF WaitsAgain
  <2>2. mem'[QMIWDS].notify = Append(mem[QMIWDS].notify, WdsEntry)
    BY <1>5, <2>1 DEF ClientTypes, Memories
  <2>3. NotifyOn(QMIWDS)
    BY <1>5, <2>1, MemKeeps
  <2>4. WdsEntry \in Entries
    <3>1. 0 \in 0..MaxTid /\ ReadCb \in Notifiers
      BY ProcsOf, GobiAssumption
    <3> QED
      BY <3>1 DEF WdsEntry, Entry, Entries
  <2>5. HeldOn(n) /\ HeldRuns /\ held'[n].who = <<>> /\ ReadsOn(z)
    BY <1>8, <1>11, <2>1
  <2> QED
    BY <1>1, <1>5, <1>6, <1>10, <2>1, <2>2, <2>3, <2>4, <2>5, NotifyAdded
<1> QED
  BY <1>4, <1>9, <1>13, <1>14, <1>15

\* A step of ReleaseClientID.
LEMMA NotifyFreed ==
  ASSUME GobiTypes, AskInv, CalmInv, Undisturbed, NEW p \in Procs, ReleaseSteps(p)
  PROVE  NotifyInv'
<1>1. NotifyInv /\ \A h \in Procs : task[h].pc \in Reading => task[h].c \in Clients
  BY ReadersOf DEF CalmInv
<1>2. Release(p)
  BY ReleaseOf DEF CalmInv, ListInv, UrbInv
<1>3. /\ reading' = reading /\ reading # "notify" /\ \A h \in Procs : task[h].pc # "r_remove"
      /\ \A h \in Procs \ {p} : Alike(task[h], task'[h])
      /\ \/ \E f \in Files : p = User(f) /\ device = "live" /\ (Forced(f) \/ Closes(f, file[f].id))
         \/ /\ p = Remover /\ task[Remover].pc \in {"clean", "c_more"} /\ Present(task[Remover].arg)
            /\ Notifies(task[Remover].arg) \/ Removes(task[Remover].arg)
  BY <1>2 DEF Release
<1>4. ClientTypes /\ mem \in [Clients -> Memories] /\ Remover \in Procs /\ <<>> \notin Notifiers /\ <<>> \notin Procs
      /\ Remover \in Notifiers /\ held \in [Notifiers -> Entries \union {NoEntry}]
  BY ProcsOf DEF GobiTypes, ClientTypes, HeldTypes
<1>5. ReadsOn(p)
  BY <1>3 DEF ReadsOn, Alike
<1>6. ASSUME task[p].pc \notin Reading, task'[p].pc \notin Reading PROVE ReadsOn(<<>>)
  BY <1>4, <1>5, <1>6 DEF ReadsOn
<1>7. ASSUME NEW c, mem' = [mem EXCEPT ![c] = NoMem], c \in Clients => mem[c].notify = <<>>
      PROVE  NotifySame
  BY <1>4, <1>7 DEF NotifySame, NoMem
<1>8. ASSUME NEW f \in Files, p = User(f), device = "live", Forced(f) \/ Closes(f, file[f].id) PROVE NotifyInv'
  <2>1. Remover # p
    BY <1>8, ProcsOf
  <2>2. task'[Remover].pc = task[Remover].pc
    BY <1>3, <1>4, <2>1 DEF Alike
  <2>3. task[p].pc \notin Reading /\ task'[p].pc \notin Reading /\ held' = held
    BY <1>8 DEF Forced, Closes, Reading
  <2>4. NotifySame
    <3>1. CASE Forced(f)
      BY <1>4, <3>1, MemKeeps DEF Forced
    <3>2. CASE Closes(f, file[f].id)
      <4>1. mem[file[f].id].notify = <<>>
        BY <3>2, NobodyUses DEF CalmInv, RemoverInv, ListInv, NotifyInv, UrbInv, Closes
      <4> QED
        BY <1>7, <3>2, <4>1 DEF Closes
    <3> QED
      BY <1>8, <3>1, <3>2
  <2> QED
    BY <1>3, <1>6, <2>2, <2>3, <2>4, NotifyIdle
<1>9. ASSUME p = Remover, task[Remover].pc \in {"clean", "c_more"}, Removes(task[Remover].arg) PROVE NotifyInv'
  <2>1. task[p].pc \notin Reading /\ task'[p].pc \notin Reading /\ held' = held /\ NotifySame
    BY <1>7, <1>9 DEF Removes, Reading
  <2> QED
    BY <1>3, <1>6, <1>9, <2>1, NotifyIdle
<1>10. ASSUME p = Remover, task[Remover].pc \in {"clean", "c_more"}, Present(task[Remover].arg),
              Notifies(task[Remover].arg)
       PROVE  NotifyInv'
  <2> DEFINE c == task[Remover].arg
             L == mem[c].notify
             z == <<>>
  <2>1. c \in Clients /\ L \in Seq(Entries) /\ mem[c] \in Memories
    BY <1>4, <1>10, MemoryOf
  <2>2. /\ L # <<>> /\ held' = [held EXCEPT ![Remover] = Head(L)] /\ task'[Remover].pc = "c_up"
        /\ mem' = [mem EXCEPT ![c].notify = Tail(L)]
    BY <1>10 DEF Notifies
  <2>3. z \notin Notifiers /\ z \notin Procs /\ z = <<>>
    BY <1>4
  <2> HIDE DEF c, z
  <2>4. mem'[c].notify = Tail(L) /\ NotifyOn(c)
    BY <1>4, <2>1, <2>2, MemKeeps DEF Memories
  <2>5. 1 \in 1..Len(L) /\ Head(L) = L[1]
    BY <2>1, <2>2
  <2>6. \A i, j \in 1..Len(L) : L[i].who = L[j].who => i = j
    BY <1>1, <2>1 DEF NotifyInv, ListedOnce
  <2>7. Lacks(Tail(L), L, 1)
    BY <2>1, <2>5, <2>6, LacksOf
  <2>8. held'[Remover] = L[1] /\ \A k \in Notifiers \ {Remover} : held'[k] = held[k]
    BY <1>4, <2>2, <2>5
  <2>9. \A k \in Notifiers : held[k].who = <<>>
    BY <1>3, <1>10, ReadersOf
  <2>10. HeldOn(Remover)
    BY <2>8 DEF HeldOn
  <2>11. HeldRuns
    <3>1. \A k \in Notifiers : held'[k].who # <<>> => k = Remover
      BY <2>8, <2>9
    <3> QED
      BY <2>2, <3>1, ProcsOf DEF HeldRuns, Notifying
  <2>12. ReadsOn(z)
    <3>1. task[p].pc \notin Reading /\ task'[p].pc \notin Reading
      BY <1>10, <2>2 DEF Reading
    <3> QED
      BY <1>6, <3>1 DEF z
  <2>13. Lacks(mem'[c].notify, mem[c].notify, 1) /\ 1 \in 1..Len(mem[c].notify) /\ held'[Remover] = mem[c].notify[1]
    BY <2>4, <2>5, <2>7, <2>8
  <2> HIDE DEF L
  <2> QED
    BY <1>1, <1>3, <1>4, <2>1, <2>3, <2>4, <2>9, <2>10, <2>11, <2>12, <2>13, NotifyTaken
<1> QED
  BY <1>3, <1>8, <1>9, <1>10

\* ReadCallback, up to where it has somebody to notify.
LEMMA NotifyServed ==
  ASSUME GobiTypes, AskInv, CalmInv, Undisturbed, ReadCallback \/ ReadCallbackResumes
  PROVE  NotifyInv'
<1>1. NotifyInv /\ \A h \in Procs : task[h].pc \in Reading => task[h].c \in Clients
  BY ReadersOf DEF CalmInv
<1>2. ReadCb # Remover /\ ReadCb \in Notifiers /\ Remover \in Procs /\ <<>> \notin Notifiers /\ <<>> \notin Procs
      /\ ReadCb \notin Procs
  BY ProcsOf
<1>3. PICK k \in Nat \ {0}, C \in SUBSET Targets, m \in Messages, s \in SUBSET Clients :
        Served(Seen(k, C, m.tid), Stop(k, C, m.tid), C, m, s)
  BY WalkOf DEF CalmInv, ListInv
<1> DEFINE passed == Seen(k, C, m.tid)
           at == Stop(k, C, m.tid)
           w == FirstWaiter(at, m.tid)
<1>4. ClientTypes /\ held \in [Notifiers -> Entries \union {NoEntry}] /\ TaskInv
  BY DEF GobiTypes, HeldTypes, TaskInv, CalmInv, RemoverInv
<1>5. passed \in SUBSET Clients /\ (at # NoId => at \in passed /\ w # 0)
  BY <1>4, SeenOf
<1>6. reading \in {"read", "back"} /\ \A h \in Procs : task[h].pc # "r_remove"
  BY DEF ReadCallback, ReadCallbackResumes, Prompt, Undisturbed
<1>7. held[ReadCb].who = <<>>
  BY <1>2, <1>6, ReadersOf
<1>8. PICK D : task' = PollersWoken(D)
  BY <1>3 DEF Served
<1>9. /\ task'[Remover] = task[Remover]
      /\ \A p \in Procs : task'[p] = task[p] \/ (task[p].pc = "poll" /\ task'[p] = NoTask)
  BY <1>4, <1>8, WokenOf
<1> DEFINE z == <<>>
<1>10. z = <<>> /\ z \notin Notifiers /\ z \notin Procs
  BY <1>2
<1> HIDE DEF z
<1>11. ReadsOn(z)
  BY <1>9 DEF ReadsOn, Reading, NoTask
<1> HIDE DEF passed, at, w
<1>12. NotifyOn(at) /\ (at = NoId => NotifySame)
  <2>1. \A d \in Clients : d # at => mem'[d].notify = mem[d].notify
    BY <1>3 DEF Served, passed, at
  <2>2. NoId \notin Clients
    BY GobiAssumption DEF Clients
  <2> QED
    BY <2>1, <2>2 DEF NotifyOn, NotifySame
<1>13. \A n \in Notifiers \ {ReadCb} : held'[n] = held[n]
  BY <1>3, <1>4 DEF Served
<1>14. HeldOn(ReadCb)
  BY <1>13 DEF HeldOn
<1>15. ASSUME held'[ReadCb].who = <<>> \/ reading' = "notify" PROVE HeldRuns
  <2> SUFFICES ASSUME NEW n \in Notifiers, held'[n].who # <<>> PROVE Notifying(n)'
    BY DEF HeldRuns
  <2>1. CASE n = ReadCb
    BY <1>15, <2>1 DEF Notifying
  <2>2. CASE n # ReadCb
    <3>1. n = Remover /\ task[Remover].pc = "c_up"
      BY <1>13, <2>2, ReadersOf
    <3> QED
      BY <1>2, <1>9, <3>1 DEF Notifying
  <2> QED
    BY <2>1, <2>2
<1>16. CASE at = NoId
  <2>1. held' = [held EXCEPT ![ReadCb] = NoEntry]
    BY <1>3, <1>16 DEF Served, at, passed
  <2>2. held'[ReadCb].who = <<>>
    BY <1>2, <1>4, <2>1 DEF NoEntry, Entry
  <2>3. \A d \in Clients : mem'[d].notify = mem[d].notify
    BY <1>12, <1>16 DEF NotifySame
  <2> QED
    BY <1>1, <1>2, <1>7, <1>10, <1>11, <1>14, <1>15, <2>2, <2>3, NotifyKept
<1>17. CASE at # NoId
  <2>1. /\ mem'[at].notify = RemoveAt(mem[at].notify, w) /\ reading' = "notify"
        /\ held' = [held EXCEPT ![ReadCb] = mem[at].notify[w]]
    BY <1>3, <1>17 DEF Served, at, passed, w
  <2>2. at \in Clients /\ mem[at].notify \in Seq(Entries)
    BY <1>4, <1>5, <1>17, MemoryOf
  <2>3. w \in 1..Len(mem[at].notify)
    BY <1>5, <1>17, <2>2, FirstWaiterOf DEF w
  <2>4. held'[ReadCb] = mem[at].notify[w]
    BY <1>2, <1>4, <2>1
  <2>5. \A i, j \in 1..Len(mem[at].notify) : mem[at].notify[i].who = mem[at].notify[j].who => i = j
    BY <1>1, <2>2 DEF NotifyInv, ListedOnce
  <2>6. Lacks(mem'[at].notify, mem[at].notify, w)
    BY <2>1, <2>2, <2>3, <2>5, LacksOf
  <2> QED
    BY <1>1, <1>2, <1>6, <1>7, <1>10, <1>11, <1>12, <1>14, <1>15, <2>1, <2>2, <2>3, <2>4, <2>6, NotifyTaken
<1> QED
  BY <1>16, <1>17

\* Those who wait and are notified, in every step.
LEMMA NotifyStep ==
  ASSUME GobiTypes, AskInv, CalmInv, Undisturbed, [GobiNext]_gobiVars
  PROVE  NotifyInv'
<1>1. ClientTypes /\ TaskInv /\ Remover \in Procs /\ task \in [Procs -> Tasks] /\ \A h \in Procs : task[h] \in Tasks
  BY ProcsOf DEF GobiTypes, TaskTypes, TaskInv, CalmInv, RemoverInv
<1>2. UNCHANGED task => ReadsOn(<<>>)
  BY DEF ReadsOn
<1>3. AllStay => ReadsOn(<<>>)
  BY DEF AllStay, GoesOn, ReadsOn
<1>4. UNCHANGED mem => NotifySame
  BY <1>1, MemKeeps
<1>5. CASE UNCHANGED gobiVars
  BY <1>2, <1>4, <1>5, NotifyIdle DEF gobiVars
<1>6. ASSUME NEW f \in Files, Calls(f) \/ GetClientID(f) \/ ForceRelease(f) PROVE NotifyInv'
  <2>1. \A h \in Procs \ {User(f)} : (f \in Listened => h # Reader(f)) => task'[h] = task[h]
    BY <1>6, UserCalls DEF CalmInv, ListInv
  <2>2. task'[Remover] = task[Remover]
    BY <2>1, ProcsOf
  <2> QED
    BY <1>3, <1>6, <2>2, CallRests, NotifyIdle
<1>7. ASSUME NEW p \in Procs, WriteSteps(p) PROVE NotifyInv'
  <2>1. p # Remover
    BY <1>7, PlacesOf DEF CalmInv, RemoverInv
  <2>2. /\ UNCHANGED <<held, reading>> /\ NotifySame /\ task[p].pc \notin Reading /\ task'[p].pc \notin Reading
        /\ \A h \in Procs \ {p} : task'[h] = task[h]
    BY <1>7, WriteRests
  <2>3. ReadsOn(<<>>) /\ task'[Remover] = task[Remover]
    BY <1>1, <2>1, <2>2 DEF ReadsOn
  <2> QED
    BY <2>2, <2>3, NotifyIdle
<1>8. CASE IntCallback \/ ReadFails
  BY <1>2, <1>4, <1>8, NotifyIdle DEF IntCallback, ReadFails
<1>9. ASSUME NEW s, task' = [task EXCEPT ![Remover] = s], s.pc \notin Reading, task[Remover].pc # "c_up",
             UNCHANGED <<mem, held>>, reading = "notify" => reading' = "notify"
      PROVE  NotifyInv'
  <2>1. task'[Remover] = s /\ \A h \in Procs \ {Remover} : task'[h] = task[h]
    BY <1>1, <1>9
  <2>2. task[Remover].pc \notin Reading
    BY <1>1 DEF TaskInv, GoodRemover, Reading
  <2>3. ReadsOn(<<>>)
    BY <1>9, <2>1, <2>2 DEF ReadsOn
  <2> QED
    BY <1>4, <1>9, <2>3, NotifyIdle
<1>10. CASE Deregister \/ KillRead \/ DeregisterEnds
  <2>1. PICK l \in {"d_loop", "d_wait", "d_done"} : task' = [task EXCEPT ![Remover] = Onward(task[Remover], l)]
    BY <1>10 DEF Deregister, KillRead, DeregisterEnds, Goto
  <2>2. Onward(task[Remover], l).pc \notin Reading
    BY <1>1, OnwardOf DEF Places, Reading
  <2>3. UNCHANGED <<mem, held>> /\ (reading = "notify" => reading' = "notify") /\ task[Remover].pc # "c_up"
    BY <1>1, <1>10 DEF Deregister, KillRead, DeregisterEnds, TaskInv, GoodRemover
  <2> QED
    BY <1>9, <2>1, <2>2, <2>3
<1>11. CASE DeregisterClient
  <2>1. UNCHANGED <<mem, held, reading>> /\ task[Remover].pc # "c_up"
    BY <1>11 DEF DeregisterClient
  <2>2. CASE task' = PollersWoken({Head(clist)})
    <3>1. \A p \in Procs : task'[p] = task[p] \/ (task[p].pc = "poll" /\ task'[p] = NoTask)
      BY <1>1, <2>2, WokenOf
    <3>2. ReadsOn(<<>>)
      BY <3>1 DEF ReadsOn, Reading, NoTask
    <3> QED
      BY <1>4, <2>1, <3>2, NotifyIdle
  <2> DEFINE s == [NoTask EXCEPT !.pc = "clean", !.arg = Head(clist)]
  <2>3. CASE task' = [task EXCEPT ![Remover] = s]
    <3>1. s.pc \notin Reading
      BY DEF NoTask, Reading
    <3> HIDE DEF s
    <3> QED
      BY <1>9, <2>1, <2>3, <3>1
  <2> QED
    BY <1>11, <2>2, <2>3 DEF DeregisterClient
<1> QED
  BY <1>5, <1>6, <1>7, <1>8, <1>10, <1>11, NotifyReads, NotifyTold, NotifyFreed, NotifyServed
  DEF GobiNext, ReadUrbs, RemoverSteps

-----------------------------------------------------------------------------
(* Those who wait, and the messages.                                        *)

WaitersFewer == \A d \in Clients : Fewer(mem'[d].notify, mem[d].notify)
CbOn == reading \in {"notify", "back"} => reading' \in {"notify", "back"} /\ cb' = cb
\* One waits for what is not there.
Joins(c, e) ==
  /\ Present(c) /\ NotifyOn(c) /\ mem'[c].notify = Append(mem[c].notify, e)
  /\ clist' = clist /\ mem'[c].list = mem[c].list
  /\ \A j \in 1..Len(mem[c].list) : ~Matches(e.tid, mem[c].list[j].tid)

\* A list has no more than itself, and the empty one no more than any.
LEMMA FewerOf ==
  /\ \A h : Fewer(h, h)
  /\ \A h : Fewer(<<>>, h)
  /\ NotifySame => WaitersFewer
<1>1. \A h : Fewer(h, h)
  BY DEF Fewer
<1>2. \A h : Fewer(<<>>, h)
  <2>1. Len(<<>>) = 0
    OBVIOUS
  <2>2. 1..0 = {}
    OBVIOUS
  <2> QED
    BY <2>1, <2>2 DEF Fewer
<1>3. ASSUME NotifySame PROVE WaitersFewer
  BY <1>1, <1>3 DEF NotifySame, WaitersFewer
<1> QED
  BY <1>1, <1>2, <1>3

\* What is taken from the list of a client makes it no longer.
LEMMA TakenOf ==
  ASSUME ClientTypes, NEW c \in Clients
  PROVE  /\ \A k \in 1..Len(mem[c].list) : mem' = [mem EXCEPT ![c].list = RemoveAt(mem[c].list, k)] => ListsFewer
         /\ mem[c].list # <<>> /\ mem' = [mem EXCEPT ![c].list = Tail(mem[c].list)] => ListsFewer
         /\ \A k \in 1..Len(mem[c].notify) :
              mem' = [mem EXCEPT ![c].notify = RemoveAt(mem[c].notify, k)] => WaitersFewer
         /\ mem[c].notify # <<>> /\ mem' = [mem EXCEPT ![c].notify = Tail(mem[c].notify)] => WaitersFewer
         /\ mem' = [mem EXCEPT ![c] = NoMem] => WaitersFewer /\ ListsFewer
<1>1. /\ mem[c].list \in Seq(Messages) /\ mem[c].notify \in Seq(Entries) /\ mem[c] \in Memories
      /\ mem \in [Clients -> Memories]
  BY MemoryOf DEF ClientTypes
<1>2. ASSUME NEW S, NEW h \in Seq(S), NEW k \in 1..Len(h) PROVE Fewer(RemoveAt(h, k), h)
  BY RemovedOf DEF Fewer
<1>3. ASSUME NEW S, NEW h \in Seq(S), h # <<>> PROVE Fewer(Tail(h), h)
  <2> SUFFICES ASSUME NEW i \in 1..Len(Tail(h)) PROVE \E j \in 1..Len(h) : Tail(h)[i] = h[j]
    BY DEF Fewer
  <2> DEFINE t == Tail(h)
  <2>1. Len(t) = Len(h) - 1 /\ Len(h) \in Nat \ {0} /\ \A j \in 1..(Len(h) - 1) : t[j] = h[j + 1]
    BY <1>3, TailOf
  <2> HIDE DEF t
  <2>2. i \in 1..(Len(h) - 1)
    BY <2>1 DEF t
  <2>3. i + 1 \in 1..Len(h) /\ t[i] = h[i + 1]
    BY <2>1, <2>2
  <2> QED
    BY <2>3 DEF t
<1>4. ASSUME NEW l, mem' = [mem EXCEPT ![c].notify = l], Fewer(l, mem[c].notify) PROVE WaitersFewer
  <2>1. mem'[c].notify = l /\ \A d \in Clients \ {c} : mem'[d].notify = mem[d].notify
    BY <1>1, <1>4 DEF Memories
  <2> QED
    BY <1>4, <2>1, FewerOf DEF WaitersFewer
<1>5. ASSUME mem' = [mem EXCEPT ![c] = NoMem] PROVE WaitersFewer /\ ListsFewer
  <2>1. mem'[c].notify = <<>> /\ mem'[c].list = <<>> /\ \A d \in Clients \ {c} : mem'[d] = mem[d]
    BY <1>1, <1>5 DEF NoMem
  <2>2. ASSUME NEW d \in Clients PROVE Fewer(mem'[d].notify, mem[d].notify) /\ Fewer(mem'[d].list, mem[d].list)
    <3>1. CASE d = c
      BY <2>1, <3>1, FewerOf
    <3>2. CASE d # c
      <4>1. mem'[d].notify = mem[d].notify /\ mem'[d].list = mem[d].list
        BY <2>1, <3>2
      <4> QED
        BY <4>1, FewerOf
    <3> QED
      BY <3>1, <3>2
  <2> QED
    BY <2>2 DEF WaitersFewer, ListsFewer
<1>6. ASSUME NEW k \in 1..Len(mem[c].list), mem' = [mem EXCEPT ![c].list = RemoveAt(mem[c].list, k)]
      PROVE  ListsFewer
  BY <1>1, <1>2, <1>6, MemKeeps
<1>7. ASSUME mem[c].list # <<>>, mem' = [mem EXCEPT ![c].list = Tail(mem[c].list)] PROVE ListsFewer
  BY <1>1, <1>3, <1>7, MemKeeps
<1>8. ASSUME NEW k \in 1..Len(mem[c].notify), mem' = [mem EXCEPT ![c].notify = RemoveAt(mem[c].notify, k)]
      PROVE  WaitersFewer
  BY <1>1, <1>2, <1>4, <1>8
<1>9. ASSUME mem[c].notify # <<>>, mem' = [mem EXCEPT ![c].notify = Tail(mem[c].notify)] PROVE WaitersFewer
  BY <1>1, <1>3, <1>4, <1>9
<1> QED
  BY <1>5, <1>6, <1>7, <1>8, <1>9

\* What a step other than the walk of ReadCallback does with them.
Eases ==
  /\ ListsFewer /\ PollsOn /\ CbOn
  /\ WaitersFewer \/ \E c \in Clients, e \in Entries : Joins(c, e)

\* ReadSync takes messages and adds one who waits for none that is there.
LEMMA ReadEases ==
  ASSUME GobiTypes, AskInv, CalmInv, Undisturbed, NEW p \in Procs, ReadSteps(p) \/ ReadTimeout(p)
  PROVE  Eases
<1>1. /\ UNCHANGED <<clist, reading, cb>> /\ \A h \in Procs \ {p} : task'[h] = task[h]
      /\ Waits(p) \/ Takes(p) \/ Fails(p) \/ GivesUp(p) \/ TimesOut(p)
  BY ReadOf
<1>2. ClientTypes
  BY DEF GobiTypes
<1>3. CbOn
  BY <1>1 DEF CbOn
<1>4. PollsOn
  <2>1. task'[p].pc # "poll"
    BY <1>1 DEF Waits, Takes, Fails, GivesUp, TimesOut, ReadEnds
  <2> QED
    BY <1>1, <2>1 DEF PollsOn
<1> DEFINE c == task[p].c
<1>5. c \in Clients
  <2>1. task[p].pc \in Reading \union {"r_look", "poll"}
    BY <1>1 DEF Waits, Takes, Fails, GivesUp, TimesOut, Reading
  <2> QED
    BY <2>1, ReaderOf
<1>6. mem[c].list \in Seq(Messages) /\ mem[c].notify \in Seq(Entries) /\ mem[c] \in Memories /\ mem \in [Clients -> Memories]
  BY <1>2, <1>5, MemoryOf DEF ClientTypes
<1>7. CASE Fails(p) \/ TimesOut(p)
  <2>1. mem' = mem
    BY <1>7 DEF Fails, TimesOut
  <2> QED
    BY <1>2, <1>3, <1>4, <2>1, MemKeeps, FewerOf DEF Eases
<1>8. CASE Takes(p)
  <2> DEFINE k == FirstRead(c, task[p].tid)
  <2>1. k # 0 /\ mem' = [mem EXCEPT ![c].list = RemoveAt(mem[c].list, k)]
    BY <1>8 DEF Takes
  <2>2. k \in 1..Len(mem[c].list)
    BY <1>6, <2>1, FirstReadOf
  <2> HIDE DEF c, k
  <2> QED
    BY <1>2, <1>3, <1>4, <1>5, <2>1, <2>2, TakenOf, MemKeeps, FewerOf DEF Eases
<1>9. CASE GivesUp(p)
  <2>1. mem' = [mem EXCEPT ![c].notify = WithoutEntry(mem[c].notify, p)]
    BY <1>9 DEF GivesUp
  <2>2. \/ WithoutEntry(mem[c].notify, p) = mem[c].notify
        \/ \E k \in 1..Len(mem[c].notify) : WithoutEntry(mem[c].notify, p) = RemoveAt(mem[c].notify, k)
    BY <1>6, FirstMatchOf
  <2>3. CASE WithoutEntry(mem[c].notify, p) = mem[c].notify
    <3>1. mem' = mem
      BY <1>5, <1>6, <2>1, <2>3 DEF Memories
    <3> QED
      BY <1>2, <1>3, <1>4, <3>1, MemKeeps, FewerOf DEF Eases
  <2>4. CASE \E k \in 1..Len(mem[c].notify) : WithoutEntry(mem[c].notify, p) = RemoveAt(mem[c].notify, k)
    <3>1. PICK k \in 1..Len(mem[c].notify) : mem' = [mem EXCEPT ![c].notify = RemoveAt(mem[c].notify, k)]
      BY <2>1, <2>4
    <3> HIDE DEF c
    <3> QED
      BY <1>2, <1>3, <1>4, <1>5, <3>1, TakenOf, MemKeeps DEF Eases
  <2> QED
    BY <2>2, <2>3, <2>4
<1>10. CASE Waits(p)
  <2> DEFINE e == Entry(p, task[p].tid)
  <2>1. /\ Present(c) /\ FirstRead(c, task[p].tid) = 0 /\ mem' = [mem EXCEPT ![c].notify = Append(mem[c].notify, e)]
    BY <1>10 DEF Waits
  <2>2. e \in Entries /\ e.tid = task[p].tid
    BY ProcsOf DEF Entry, Entries, GobiTypes, TaskTypes, Tasks
  <2>3. \A j \in 1..Len(mem[c].list) : ~Matches(task[p].tid, mem[c].list[j].tid)
    BY <1>6, <2>1, FirstReadOf
  <2> HIDE DEF c, e
  <2>4. mem'[c].notify = Append(mem[c].notify, e) /\ mem'[c].list = mem[c].list
    BY <1>5, <1>6, <2>1 DEF Memories
  <2>5. ListsFewer /\ NotifyOn(c)
    BY <1>2, <2>1, MemKeeps
  <2>6. Joins(c, e)
    BY <1>1, <2>1, <2>2, <2>3, <2>4, <2>5 DEF Joins
  <2> QED
    BY <1>3, <1>4, <1>5, <2>2, <2>5, <2>6 DEF Eases
<1> QED
  BY <1>1, <1>7, <1>8, <1>9, <1>10

\* A notification takes messages, and QMIWDSCallback waits again when there is none.
LEMMA NotifyEases ==
  ASSUME GobiTypes, AskInv, CalmInv, NEW n \in Notifiers, NotifySteps(n)
  PROVE  Eases
<1>1. Notification(n)
  BY NotifyOf DEF CalmInv, RemoverInv, ListInv, NotifyInv
<1>2. /\ clist' = clist /\ cb' = cb /\ Notifying(n)
      /\ \A h \in Procs : NotifiedTask(n, h, task[h], task'[h])
      /\ Wakes(n) \/ TakesOne(n) \/ Looks(n) \/ WaitsAgain(n)
  BY <1>1 DEF Notification
<1>3. ClientTypes /\ QMIWDS \in Clients
  BY DEF GobiTypes, Clients
<1>4. PollsOn
  BY <1>2 DEF PollsOn, NotifiedTask, Alike
<1>5. CbOn
  BY <1>2 DEF CbOn, Wakes, TakesOne, Looks, WaitsAgain, Over
<1>6. CASE mem' = mem
  BY <1>3, <1>4, <1>5, <1>6, MemKeeps, FewerOf DEF Eases
<1>7. CASE TakesOne(n)
  <2>1. mem[QMIWDS].list # <<>> /\ mem' = [mem EXCEPT ![QMIWDS].list = Tail(mem[QMIWDS].list)]
    BY <1>7 DEF TakesOne
  <2> QED
    BY <1>3, <1>4, <1>5, <2>1, TakenOf, MemKeeps, FewerOf DEF Eases
<1>8. CASE WaitsAgain(n)
  <2>1. /\ Present(QMIWDS) /\ mem[QMIWDS].list = <<>>
        /\ mem' = [mem EXCEPT ![QMIWDS].notify = Append(mem[QMIWDS].notify, WdsEntry)]
    BY <1>8 DEF WaitsAgain
  <2>2. 0 \in 0..MaxTid /\ ReadCb \in Notifiers
    BY ProcsOf, GobiAssumption
  <2>3. WdsEntry \in Entries
    BY <2>2 DEF WdsEntry, Entry, Entries
  <2>4. mem'[QMIWDS].notify = Append(mem[QMIWDS].notify, WdsEntry) /\ mem'[QMIWDS].list = mem[QMIWDS].list
    BY <1>3, <2>1 DEF ClientTypes, Memories
  <2>5. ListsFewer /\ NotifyOn(QMIWDS)
    BY <1>3, <2>1, MemKeeps
  <2>6. Joins(QMIWDS, WdsEntry)
    <3>1. Len(mem[QMIWDS].list) = 0
      BY <2>1
    <3>2. 1..0 = {}
      OBVIOUS
    <3> QED
      BY <1>2, <2>1, <2>4, <2>5, <3>1, <3>2 DEF Joins
  <2> QED
    BY <1>3, <1>4, <1>5, <2>3, <2>5, <2>6 DEF Eases
<1> QED
  BY <1>2, <1>6, <1>7, <1>8 DEF Wakes, Looks

\* A release brings no message, and adds nobody who waits.
LEMMA FreeEases ==
  ASSUME GobiTypes, AskInv, CalmInv, Undisturbed, NEW p \in Procs, ReleaseSteps(p)
  PROVE  Eases
<1>1. Release(p)
  BY ReleaseOf DEF CalmInv, ListInv, UrbInv
<1>2. /\ UNCHANGED <<reading, cb>> /\ \A h \in Procs \ {p} : Alike(task[h], task'[h])
      /\ \/ \E f \in Files : p = User(f) /\ (Forced(f) \/ Closes(f, file[f].id))
         \/ /\ p = Remover /\ Present(task[Remover].arg)
            /\ Notifies(task[Remover].arg) \/ Removes(task[Remover].arg)
  BY <1>1 DEF Release
<1>3. ClientTypes /\ mem \in [Clients -> Memories]
  BY DEF GobiTypes, ClientTypes
<1>4. CbOn
  BY <1>2 DEF CbOn
<1>5. PollsOn
  <2>1. task'[p].pc # "poll"
    BY <1>2 DEF Forced, Closes, Notifies, Removes
  <2>2. \A h \in Procs \ {p} : task'[h].pc = "poll" => task[h].pc = "poll" /\ task'[h].c = task[h].c
    BY <1>2 DEF Alike
  <2> QED
    BY <2>1, <2>2 DEF PollsOn
<1>6. ASSUME NEW c, mem' = [mem EXCEPT ![c] = NoMem] PROVE WaitersFewer /\ ListsFewer
  <2>1. CASE c \in Clients
    BY <1>3, <1>6, <2>1, TakenOf
  <2>2. CASE c \notin Clients
    <3>1. mem' = mem
      BY <1>3, <1>6, <2>2
    <3> QED
      BY <1>3, <3>1, MemKeeps, FewerOf
  <2> QED
    BY <2>1, <2>2
<1>7. WaitersFewer /\ ListsFewer
  <2>1. CASE \E f \in Files : Forced(f)
    BY <1>3, <2>1, MemKeeps, FewerOf DEF Forced
  <2>2. CASE \E f \in Files : Closes(f, file[f].id)
    BY <1>6, <2>2 DEF Closes
  <2>3. CASE Removes(task[Remover].arg)
    BY <1>6, <2>3 DEF Removes
  <2>4. CASE Present(task[Remover].arg) /\ Notifies(task[Remover].arg)
    <3> DEFINE c == task[Remover].arg
    <3>1. c \in Clients /\ mem[c].notify # <<>> /\ mem' = [mem EXCEPT ![c].notify = Tail(mem[c].notify)]
      BY <1>3, <2>4, MemoryOf DEF Notifies
    <3> HIDE DEF c
    <3> QED
      BY <1>3, <3>1, TakenOf, MemKeeps
  <2> QED
    BY <1>2, <2>1, <2>2, <2>3, <2>4
<1> QED
  BY <1>4, <1>5, <1>7 DEF Eases

\* Only the walk of ReadCallback brings a message.
LEMMA EasesOf ==
  ASSUME GobiTypes, AskInv, CalmInv, Undisturbed, [GobiNext]_gobiVars
  PROVE  Eases \/ ReadCallback \/ ReadCallbackResumes
<1>1. ClientTypes /\ TaskInv /\ Remover \in Procs /\ task \in [Procs -> Tasks] /\ \A h \in Procs : task[h] \in Tasks
  BY ProcsOf DEF GobiTypes, TaskTypes, TaskInv, CalmInv, RemoverInv
<1>2. UNCHANGED mem => ListsFewer /\ WaitersFewer
  BY <1>1, MemKeeps, FewerOf
<1>3. UNCHANGED task => PollsOn
  BY DEF PollsOn
<1>4. UNCHANGED <<reading, cb>> => CbOn
  BY DEF CbOn
<1>5. CASE UNCHANGED gobiVars
  BY <1>2, <1>3, <1>4, <1>5 DEF gobiVars, Eases
<1>6. ASSUME NEW f \in Files, Calls(f) \/ GetClientID(f) \/ ForceRelease(f) PROVE Eases
  BY <1>4, <1>6, CallRests, FewerOf DEF Eases
<1>7. ASSUME NEW p \in Procs, WriteSteps(p) PROVE Eases
  BY <1>4, <1>7, WriteRests, FewerOf DEF Eases
<1>8. CASE IntCallback \/ ReadFails
  <2>1. UNCHANGED <<mem, task>> /\ CbOn
    BY <1>8 DEF IntCallback, ReadFails, CbOn
  <2> QED
    BY <1>2, <1>3, <2>1 DEF Eases
<1>9. ASSUME NEW s, task' = [task EXCEPT ![Remover] = s], s.pc # "poll", UNCHANGED mem, CbOn PROVE Eases
  <2>1. task'[Remover] = s /\ \A h \in Procs \ {Remover} : task'[h] = task[h]
    BY <1>1, <1>9
  <2>2. PollsOn
    BY <1>9, <2>1 DEF PollsOn
  <2> QED
    BY <1>2, <1>9, <2>2 DEF Eases
<1>10. CASE Deregister \/ KillRead \/ DeregisterEnds
  <2>1. PICK l \in {"d_loop", "d_wait", "d_done"} : task' = [task EXCEPT ![Remover] = Onward(task[Remover], l)]
    BY <1>10 DEF Deregister, KillRead, DeregisterEnds, Goto
  <2>2. Onward(task[Remover], l).pc # "poll"
    BY <1>1, OnwardOf DEF Places
  <2>3. UNCHANGED mem /\ CbOn
    BY <1>10 DEF Deregister, KillRead, DeregisterEnds, CbOn
  <2> QED
    BY <1>9, <2>1, <2>2, <2>3
<1>11. CASE DeregisterClient
  <2>1. UNCHANGED mem /\ CbOn
    BY <1>4, <1>11 DEF DeregisterClient
  <2>2. CASE task' = PollersWoken({Head(clist)})
    <3>1. \A p \in Procs : task'[p] = task[p] \/ (task[p].pc = "poll" /\ task'[p] = NoTask)
      BY <1>1, <2>2, WokenOf
    <3>2. PollsOn
      BY <3>1 DEF PollsOn, NoTask
    <3> QED
      BY <1>2, <2>1, <3>2 DEF Eases
  <2> DEFINE s == [NoTask EXCEPT !.pc = "clean", !.arg = Head(clist)]
  <2>3. CASE task' = [task EXCEPT ![Remover] = s]
    <3>1. s.pc # "poll"
      BY DEF NoTask
    <3> HIDE DEF s
    <3> QED
      BY <1>9, <2>1, <2>3, <3>1
  <2> QED
    BY <1>11, <2>2, <2>3 DEF DeregisterClient
<1> QED
  BY <1>5, <1>6, <1>7, <1>8, <1>10, <1>11, ReadEases, NotifyEases, FreeEases
  DEF GobiNext, ReadUrbs, RemoverSteps
-----------------------------------------------------------------------------
(* The client of nobody waits for nothing.                                  *)

\* A walk of ReadCallback takes from the one list where it ends.
LEMMA ServedWaiters ==
  ASSUME GobiTypes, WalkInv, ReadCallback \/ ReadCallbackResumes
  PROVE  \E at : /\ at # NoId => Present(at)
                 /\ \A c \in Clients \ {at} : mem'[c].notify = mem[c].notify
<1>1. ClientTypes
  BY DEF GobiTypes
<1>2. PICK k \in Nat \ {0}, C \in SUBSET Targets, m \in Messages, s \in SUBSET Clients :
        Served(Seen(k, C, m.tid), Stop(k, C, m.tid), C, m, s)
  BY WalkOf
<1> DEFINE passed == Seen(k, C, m.tid)
           at == Stop(k, C, m.tid)
<1>3. at # NoId => \E i \in k..Len(clist) : clist[i] = at
  BY <1>1, SeenOf
<1>4. at # NoId => Present(at)
  BY <1>3 DEF Present, Contains
<1> HIDE DEF passed, at
<1>5. \A c \in Clients \ {at} : mem'[c].notify = mem[c].notify
  BY <1>2 DEF Served, passed, at
<1> QED
  BY <1>4, <1>5

\* A client that is not in the list has nobody waiting, in every step.
LEMMA GoneStep ==
  ASSUME GobiTypes, AskInv, CalmInv, Undisturbed, [GobiNext]_gobiVars
  PROVE  GoneInv'
<1>1. ClientTypes /\ ClientTypes' /\ GoneInv /\ WalkInv /\ ClientApart /\ mem \in [Clients -> Memories]
  BY GobiTypesStep DEF GobiTypes, CalmInv, ListInv, ClientTypes
<1>2. ASSUME NEW c \in Clients, ~Present(c) PROVE mem'[c].notify = <<>>
  <2>1. mem[c].notify = <<>>
    BY <1>1, <1>2 DEF GoneInv
  <2>2. CASE Eases
    <3>1. CASE WaitersFewer
      <4>1. Fewer(mem'[c].notify, mem[c].notify) /\ mem'[c].notify \in Seq(Entries)
        BY <1>1, <3>1 DEF WaitersFewer, ClientTypes, Memories
      <4>2. Len(mem[c].notify) = 0 /\ 1..0 = {}
        BY <2>1
      <4>3. mem'[c].notify # <<>> => 1 \in 1..Len(mem'[c].notify)
        BY <4>1
      <4> QED
        BY <4>1, <4>2, <4>3 DEF Fewer
    <3>2. CASE \E d \in Clients, e \in Entries : Joins(d, e)
      BY <1>2, <2>1, <3>2 DEF Joins, NotifyOn
    <3> QED
      BY <2>2, <3>1, <3>2 DEF Eases
  <2>3. CASE ReadCallback \/ ReadCallbackResumes
    <3>1. PICK at : /\ at # NoId => Present(at)
                    /\ \A d \in Clients \ {at} : mem'[d].notify = mem[d].notify
      BY <1>1, <2>3, ServedWaiters
    <3>2. NoId \notin Clients
      BY GobiAssumption DEF Clients
    <3> QED
      BY <1>2, <2>1, <3>1, <3>2
  <2> QED
    BY <2>2, <2>3, EasesOf
<1>3. ASSUME \A c : Present(c) => Present(c)' PROVE GoneInv'
  BY <1>2, <1>3 DEF GoneInv
<1>4. CASE clist' = clist
  BY <1>3, <1>4 DEF Present
<1>5. ASSUME NEW f \in Files, NEW id \in Ids, Gains(f, id) PROVE GoneInv'
  <2>1. id \in Clients /\ clist' = Append(clist, id)
    BY <1>5 DEF Gains, Clients
  <2>2. /\ Len(clist') = Len(clist) + 1 /\ Len(clist) \in Nat
        /\ \A i \in 1..Len(clist) : clist'[i] = clist[i]
    BY <1>1, <2>1, AppendOf DEF ClientTypes
  <2>3. \A i \in 1..Len(clist) : i \in 1..Len(clist')
    BY <2>2
  <2>4. \A c : Present(c) => Contains(clist', c)
    BY <2>2, <2>3 DEF Present, Contains
  <2> QED
    BY <1>3, <2>4 DEF Present
<1>6. ASSUME NEW x, Removed(x) PROVE GoneInv'
  <2>1. Present(x) /\ clist' = Without(x, Succ(x)) /\ mem' = [mem EXCEPT ![x] = NoMem]
    BY <1>6 DEF Removed
  <2>2. \A c : Present(c)' <=> Present(c) /\ c # x
    BY <1>1, <2>1, WithoutNext DEF Present
  <2>3. ASSUME NEW c \in Clients, ~Present(c)' PROVE mem'[c].notify = <<>>
    <3>1. CASE c = x
      <4>1. mem'[x] = NoMem
        BY <1>1, <2>1, <3>1
      <4> QED
        BY <3>1, <4>1 DEF NoMem
    <3>2. CASE c # x
      BY <1>2, <2>2, <2>3, <3>2
    <3> QED
      BY <3>1, <3>2
  <2> QED
    BY <2>3 DEF GoneInv
<1> QED
  BY <1>4, <1>5, <1>6, ListOf DEF Keeps, Empties, Loses, Drops

-----------------------------------------------------------------------------
(* Nobody waits for a message that is there.                                *)

\* A client of a file has one that waits; of those at QMICTL, each one waits for an
\* answer of its own.
LEMMA OneWaits ==
  ASSUME GobiTypes, AskInv, CalmInv, NEW c \in Clients,
         NEW i \in 1..Len(mem[c].notify), NEW j \in 1..Len(mem[c].notify)
  PROVE  /\ c = QMICTL => mem[c].notify[i].tid # 0
         /\ c # QMICTL \/ mem[c].notify[i].tid = mem[c].notify[j].tid => i = j
<1> DEFINE e(k) == mem[c].notify[k]
<1>1. NotifyInv /\ FileInv
  BY DEF CalmInv, ListInv
<1>2. /\ QMIWDS # QMICTL /\ QMIWDS # NoId /\ NoId \notin Clients /\ QMICTL \notin Ids /\ QMIWDS \notin Ids
      /\ \A f \in Files : file[f].id \in Ids \union {NoId}
  BY GobiAssumption DEF Clients, GobiTypes, FileTypes
<1>3. ASSUME NEW k \in 1..Len(mem[c].notify)
      PROVE  \/ e(k).who = ReadCb /\ c = QMIWDS
             \/ /\ e(k).who \in Procs /\ c = QMICTL /\ e(k).tid = task[e(k).who].tid /\ e(k).tid # 0
                /\ Asks(task[e(k).who])
             \/ c \in Ids /\ \E f \in Listened : e(k).who = Reader(f) /\ c = file[f].id
  <2>1. e(k).who \in Procs \/ e(k).who = ReadCb
    BY <1>1, NotifyFacts
  <2>2. CASE e(k).who = ReadCb
    BY <1>1, <2>2 DEF NotifyInv, EntryInv
  <2>3. CASE e(k).who \in Procs
    <3> DEFINE p == e(k).who
    <3>1. task[p].c = c /\ task[p].pc \in Reading /\ e(k).tid = task[p].tid
      BY <1>1, <2>3 DEF NotifyInv, EntryInv
    <3>2. task[p].pc \in Reading \union {"r_look", "poll"}
      BY <3>1
    <3> HIDE DEF p
    <3>3. \/ task[p].c = QMICTL /\ task[p].tid # 0 /\ Asks(task[p])
          \/ \E f \in Listened : p = Reader(f) /\ task[p].c = file[f].id
      BY <2>3, <3>2, ReaderOf DEF p
    <3>4. Listened \subseteq Files
      BY GobiAssumption
    <3>5. (\E f \in Listened : p = Reader(f) /\ task[p].c = file[f].id) => c \in Ids
      BY <1>2, <3>1, <3>4
    <3> QED
      BY <2>3, <3>1, <3>3, <3>5 DEF p
  <2> QED
    BY <2>1, <2>2, <2>3
<1>4. ASSUME c # QMICTL \/ e(i).tid = e(j).tid PROVE e(i).who = e(j).who
  <2> HIDE DEF e
  <2>1. CASE c = QMIWDS
    BY <1>2, <1>3, <2>1
  <2>2. CASE c = QMICTL
    <3>1. /\ e(i).who \in Procs /\ Asks(task[e(i).who]) /\ e(i).tid = task[e(i).who].tid
          /\ e(j).who \in Procs /\ Asks(task[e(j).who]) /\ e(j).tid = task[e(j).who].tid
      BY <1>2, <1>3, <2>2
    <3> QED
      BY <1>4, <2>2, <3>1 DEF AskInv, AskApart
  <2>3. CASE c \in Ids
    <3>1. PICK f \in Listened : e(i).who = Reader(f) /\ c = file[f].id
      BY <1>2, <1>3, <2>3
    <3>2. PICK g \in Listened : e(j).who = Reader(g) /\ c = file[g].id
      BY <1>2, <1>3, <2>3
    <3>3. f = g
      BY <1>1, <1>2, <2>3, <3>1, <3>2, GobiAssumption DEF FileInv
    <3> QED
      BY <3>1, <3>2, <3>3
  <2> QED
    BY <2>1, <2>2, <2>3 DEF Clients
<1>5. c # QMICTL \/ e(i).tid = e(j).tid => i = j
  BY <1>1, <1>4 DEF NotifyInv, ListedOnce
<1>6. c = QMICTL => e(i).tid # 0
  BY <1>2, <1>3
<1> QED
  BY <1>5, <1>6

\* A step that brings no message.
LEMMA DataEases ==
  ASSUME GobiTypes, GobiTypes', AskInv, CalmInv, Eases
  PROVE  DataInv'
<1>1. /\ NoneMissed /\ PollInv /\ TidInv /\ ListsFewer /\ PollsOn /\ CbOn /\ ClientTypes /\ ClientTypes'
      /\ WaitersFewer \/ \E d \in Clients, e \in Entries : Joins(d, e)
  BY DEF CalmInv, DataInv, Eases, GobiTypes
<1>2. \A c \in Clients : Fewer(mem'[c].list, mem[c].list) /\ mem'[c].list \in Seq(Messages) /\ mem[c].list \in Seq(Messages)
  BY <1>1 DEF ListsFewer, ClientTypes, Memories
<1>3. NoneMissed'
  <2> SUFFICES ASSUME NEW c \in Clients, NEW i \in 1..Len(mem'[c].notify), NEW j \in 1..Len(mem'[c].list)
               PROVE  ~Matches(mem'[c].notify[i].tid, mem'[c].list[j].tid)
    BY DEF NoneMissed
  <2>1. PICK k \in 1..Len(mem[c].list) : mem'[c].list[j] = mem[c].list[k]
    BY <1>2 DEF Fewer
  <2>2. ASSUME NEW l \in 1..Len(mem[c].notify), mem'[c].notify[i] = mem[c].notify[l]
        PROVE  ~Matches(mem'[c].notify[i].tid, mem'[c].list[j].tid)
    BY <1>1, <2>1, <2>2 DEF NoneMissed
  <2>3. CASE WaitersFewer
    <3>1. \E l \in 1..Len(mem[c].notify) : mem'[c].notify[i] = mem[c].notify[l]
      BY <2>3 DEF WaitersFewer, Fewer
    <3> QED
      BY <2>2, <3>1
  <2>4. ASSUME NEW d \in Clients, NEW e \in Entries, Joins(d, e)
        PROVE  ~Matches(mem'[c].notify[i].tid, mem'[c].list[j].tid)
    <3>1. CASE c # d
      <4>1. mem'[c].notify = mem[c].notify
        BY <2>4, <3>1 DEF Joins, NotifyOn
      <4> QED
        BY <2>2, <4>1
    <3>2. CASE c = d
      <4>1. /\ mem'[c].notify = Append(mem[c].notify, e)
            /\ \A x \in 1..Len(mem[c].list) : ~Matches(e.tid, mem[c].list[x].tid)
        BY <2>4, <3>2 DEF Joins
      <4>2. mem[c].notify \in Seq(Entries)
        BY <1>1, MemoryOf
      <4> DEFINE h == mem[c].notify
                 g == Append(h, e)
      <4>3. /\ Len(g) = Len(h) + 1 /\ Len(h) \in Nat
            /\ g[Len(h) + 1] = e /\ \A x \in 1..Len(h) : g[x] = h[x]
        BY <4>2, AppendOf
      <4>4. i \in 1..Len(g) /\ mem'[c].notify[i] = g[i]
        BY <4>1
      <4> HIDE DEF g, h
      <4>5. CASE i \in 1..Len(h)
        BY <2>2, <4>3, <4>4, <4>5 DEF h
      <4>6. CASE i = Len(h) + 1
        BY <2>1, <4>1, <4>3, <4>4, <4>6
      <4> QED
        BY <4>3, <4>4, <4>5, <4>6
    <3> QED
      BY <3>1, <3>2
  <2> QED
    BY <1>1, <2>3, <2>4
<1>4. PollInv'
  <2> SUFFICES ASSUME NEW p \in Procs, task'[p].pc = "poll", mem'[task'[p].c].list # <<>>
               PROVE  reading' \in {"notify", "back"} /\ cb'.at = task'[p].c
    BY DEF PollInv
  <2>1. task[p].pc = "poll" /\ task'[p].c = task[p].c
    BY <1>1 DEF PollsOn
  <2>2. task[p].pc \in Reading \union {"r_look", "poll"}
    BY <2>1
  <2>3. task[p].c \in Clients
    BY <2>2, ReaderOf
  <2> DEFINE c == task[p].c
  <2>4. mem'[c].list # <<>> /\ c \in Clients
    BY <2>1, <2>3
  <2> HIDE DEF c
  <2>5. 1 \in 1..Len(mem'[c].list)
    BY <1>2, <2>4
  <2>6. \E k \in 1..Len(mem[c].list) : mem'[c].list[1] = mem[c].list[k]
    BY <1>2, <2>4, <2>5 DEF Fewer
  <2>7. mem[c].list # <<>>
    <3>1. Len(<<>>) = 0 /\ 1..0 = {}
      OBVIOUS
    <3> QED
      BY <2>6, <3>1
  <2>8. reading \in {"notify", "back"} /\ cb.at = c
    BY <1>1, <2>1, <2>7 DEF PollInv, c
  <2> QED
    BY <1>1, <2>1, <2>8 DEF CbOn, c
<1>5. TidInv'
  <2>1. QMICTL \in Clients
    BY DEF Clients
  <2>2. \A i \in 1..Len(mem'[QMICTL].list) : \E k \in 1..Len(mem[QMICTL].list) : mem'[QMICTL].list[i] = mem[QMICTL].list[k]
    BY <1>2, <2>1 DEF Fewer
  <2> QED
    BY <1>1, <2>2 DEF TidInv
<1> QED
  BY <1>3, <1>4, <1>5 DEF DataInv

\* The walk of ReadCallback leaves nobody waiting for the message it brings.
LEMMA DataServed ==
  ASSUME GobiTypes, AskInv, CalmInv, NEW k \in Nat \ {0}, NEW C, NEW m \in Messages, NEW s,
         Served(Seen(k, C, m.tid), Stop(k, C, m.tid), C, m, s),
         QMICTL \in Seen(k, C, m.tid) => m.tid # 0,
         \A p \in Procs : task[p].pc = "poll" /\ mem[task[p].c].list # <<>> => task[p].c \in s
  PROVE  DataInv'
<1> DEFINE passed == Seen(k, C, m.tid)
           at == Stop(k, C, m.tid)
           w == FirstWaiter(at, m.tid)
<1>1. NoneMissed /\ PollInv /\ TidInv /\ ClientTypes /\ TaskInv
  BY DEF CalmInv, DataInv, GobiTypes, TaskInv, RemoverInv
<1>2. /\ passed \in SUBSET Clients /\ (at # NoId => at \in passed)
      /\ \A c \in passed : c # at => FirstWaiter(c, m.tid) = 0
  BY <1>1, SeenOf
<1>3. NoId \notin Clients /\ QMICTL \in Clients
  BY GobiAssumption DEF Clients
<1>4. \A c \in Clients : mem[c].list \in Seq(Messages) /\ mem[c].notify \in Seq(Entries)
  BY <1>1, MemoryOf
<1>5. QMICTL \in passed => m.tid # 0
  OBVIOUS
<1>6. /\ \A c \in Clients \ passed : mem'[c] = mem[c]
      /\ \A c \in passed : /\ mem'[c].list = Append(mem[c].list, m)
                           /\ c # at => mem'[c].notify = mem[c].notify
      /\ at # NoId => /\ mem'[at].notify = RemoveAt(mem[at].notify, w)
                      /\ cb'.at = at /\ reading' = "notify"
      /\ task' = PollersWoken((passed \ {at}) \union s)
  BY DEF Served
<1>7. at \in passed => /\ w \in 1..Len(mem[at].notify)
                       /\ m.tid = 0 \/ Matches(mem[at].notify[w].tid, m.tid)
  <2> SUFFICES ASSUME at \in passed
               PROVE  w \in 1..Len(mem[at].notify) /\ (m.tid = 0 \/ Matches(mem[at].notify[w].tid, m.tid))
    OBVIOUS
  <2>1. at # NoId /\ at \in Clients
    BY <1>2, <1>3
  <2>2. w # 0
    BY <1>1, <2>1, SeenOf
  <2>3. mem[at].notify \in Seq(Entries)
    BY <1>4, <2>1
  <2> HIDE DEF at
  <2> QED
    BY <2>2, <2>3, FirstWaiterOf DEF w
<1> HIDE DEF passed, at, w
\* Who is still in the list waits for no message of it, the new one included.
<1>8. ASSUME NEW c \in passed, NEW i \in 1..Len(mem[c].notify), c = at => i # w
      PROVE  ~Matches(mem[c].notify[i].tid, m.tid)
  <2>1. c \in Clients /\ mem[c].notify \in Seq(Entries)
    BY <1>2, <1>4
  <2>2. CASE c # at
    <3>1. FirstWaiter(c, m.tid) = 0
      BY <1>2, <2>2
    <3> QED
      BY <2>1, <3>1, FirstWaiterOf
  <2>3. CASE c = at
    <3>1. w \in 1..Len(mem[c].notify) /\ i # w /\ (m.tid = 0 \/ Matches(mem[c].notify[w].tid, m.tid))
      BY <1>7, <1>8, <2>3
    <3>2. CASE c # QMICTL
      BY <2>1, <3>1, <3>2, OneWaits
    <3>3. CASE c = QMICTL
      <4>1. m.tid # 0 /\ mem[c].notify[w].tid # 0 /\ mem[c].notify[i].tid # 0
        BY <1>5, <2>1, <3>1, <3>3, OneWaits
      <4>2. mem[c].notify[i].tid # mem[c].notify[w].tid
        BY <2>1, <3>1, OneWaits
      <4> QED
        BY <3>1, <4>1, <4>2 DEF Matches
    <3> QED
      BY <3>2, <3>3
  <2> QED
    BY <2>2, <2>3
<1>9. NoneMissed'
  <2> SUFFICES ASSUME NEW c \in Clients, NEW i \in 1..Len(mem'[c].notify), NEW j \in 1..Len(mem'[c].list)
               PROVE  ~Matches(mem'[c].notify[i].tid, mem'[c].list[j].tid)
    BY DEF NoneMissed
  <2>1. CASE c \notin passed
    <3>1. mem'[c] = mem[c]
      BY <1>6, <2>1
    <3> QED
      BY <1>1, <3>1 DEF NoneMissed
  <2>2. CASE c \in passed
    <3> DEFINE h == mem[c].notify
               l == mem[c].list
    <3>1. \E x \in 1..Len(h) : mem'[c].notify[i] = h[x] /\ (c = at => x # w)
      <4>1. CASE c # at
        BY <1>6, <2>2, <4>1
      <4>2. CASE c = at
        <5>1. mem'[c].notify = RemoveAt(h, w) /\ h \in Seq(Entries) /\ w \in 1..Len(h)
          BY <1>3, <1>4, <1>6, <1>7, <2>2, <4>2
        <5> HIDE DEF h
        <5> QED
          BY <4>2, <5>1, RemovedOf
      <4> QED
        BY <4>1, <4>2
    <3>2. PICK x \in 1..Len(h) : mem'[c].notify[i] = h[x] /\ (c = at => x # w)
      BY <3>1
    <3>3. ~Matches(mem'[c].notify[i].tid, m.tid)
      BY <1>8, <2>2, <3>2
    <3>4. mem'[c].list = Append(l, m) /\ l \in Seq(Messages)
      BY <1>4, <1>6, <2>2
    <3>5. \A y \in 1..Len(l) : ~Matches(mem'[c].notify[i].tid, l[y].tid)
      BY <1>1, <3>2 DEF NoneMissed
    <3> HIDE DEF h, l
    <3> DEFINE g == Append(l, m)
    <3>6. Len(g) = Len(l) + 1 /\ Len(l) \in Nat /\ g[Len(l) + 1] = m /\ \A y \in 1..Len(l) : g[y] = l[y]
      BY <3>4, AppendOf
    <3>7. j \in 1..Len(g) /\ mem'[c].list[j] = g[j]
      BY <3>4
    <3> HIDE DEF g
    <3>8. CASE j \in 1..Len(l)
      BY <3>5, <3>6, <3>7, <3>8
    <3>9. CASE j = Len(l) + 1
      BY <3>3, <3>6, <3>7, <3>9
    <3>10. j \in 1..Len(l) \/ j = Len(l) + 1
      BY <3>6, <3>7
    <3> QED
      BY <3>8, <3>9, <3>10
  <2> QED
    BY <2>1, <2>2
<1>10. PollInv'
  <2> SUFFICES ASSUME NEW p \in Procs, task'[p].pc = "poll", mem'[task'[p].c].list # <<>>
               PROVE  reading' \in {"notify", "back"} /\ cb'.at = task'[p].c
    BY DEF PollInv
  <2>1. NoTask.pc # "poll"
    BY DEF NoTask
  <2>2. task'[p] = task[p] /\ task[p].pc = "poll" /\ task[p].c \notin (passed \ {at}) \union s
    BY <1>1, <1>6, <2>1, WokenOf
  <2>3. task[p].pc \in Reading \union {"r_look", "poll"}
    BY <2>2
  <2>4. task[p].c \in Clients
    BY <2>3, ReaderOf
  <2>5. task[p].c \in passed
    <3> SUFFICES ASSUME task[p].c \notin passed PROVE FALSE
      OBVIOUS
    <3>1. mem'[task[p].c] = mem[task[p].c]
      BY <1>6, <2>4
    <3> QED
      BY <2>2, <3>1
  <2>6. task[p].c = at /\ at # NoId
    BY <1>3, <2>2, <2>4, <2>5
  <2> QED
    BY <1>6, <2>2, <2>6
<1>11. TidInv'
  <2>1. CASE QMICTL \notin passed
    <3>1. mem'[QMICTL] = mem[QMICTL]
      BY <1>3, <1>6, <2>1
    <3> QED
      BY <1>1, <3>1 DEF TidInv
  <2>2. CASE QMICTL \in passed
    <3> DEFINE l == mem[QMICTL].list
               g == Append(l, m)
    <3>1. mem'[QMICTL].list = g /\ m.tid # 0 /\ l \in Seq(Messages)
      BY <1>3, <1>4, <1>5, <1>6, <2>2
    <3>2. Len(g) = Len(l) + 1 /\ Len(l) \in Nat /\ g[Len(l) + 1] = m /\ \A y \in 1..Len(l) : g[y] = l[y]
      BY <3>1, AppendOf
    <3>3. \A y \in 1..Len(l) : l[y].tid # 0
      BY <1>1 DEF TidInv
    <3> HIDE DEF g, l
    <3>4. \A j \in 1..Len(g) : g[j].tid # 0
      BY <3>1, <3>2, <3>3
    <3> QED
      BY <3>1, <3>4 DEF TidInv
  <2> QED
    BY <2>1, <2>2
<1> QED
  BY <1>9, <1>10, <1>11 DEF DataInv

\* Nobody is left waiting for a message that is there, in every step.
LEMMA DataStep ==
  ASSUME GobiTypes, AskInv, CalmInv, Undisturbed, [GobiNext]_gobiVars
  PROVE  DataInv'
<1>1. /\ ClientTypes /\ GobiTypes' /\ WalkInv /\ WireInv /\ ClientApart /\ PollInv /\ AskCb /\ AskOps
      /\ clist \in Seq(Clients) /\ Len(clist) \in Nat
  BY GobiTypesStep DEF GobiTypes, CalmInv, ListInv, DataInv, AskInv, ClientTypes
<1>2. CASE ReadCallback
  <2>1. PICK C \in SUBSET Targets, m \in Messages :
          /\ ServeFrom(1, C, m, {}) /\ reading = "read"
          /\ \/ QMICTL \notin C
             \/ \E r \in wire : r.op = "write" /\ C = {r.c}
             \/ \E r \in wire : r.op \in Gets \union Releases /\ m.tid = r.tid
    BY <1>2, MessageOf
  <2>2. Served(Seen(1, C, m.tid), Stop(1, C, m.tid), C, m, {})
    BY <2>1, ServeOf
  <2>3. QMICTL \in C => m.tid # 0
    <3>1. \A r \in wire : r.op = "write" => r.c # QMICTL
      BY <1>1 DEF AskOps
    <3>2. \A r \in wire : r.op \in Gets \union Releases => r.tid # 0
      BY <1>1 DEF AskOps, WireInv
    <3> QED
      BY <2>1, <3>1, <3>2
  <2>4. QMICTL \in Seen(1, C, m.tid) => m.tid # 0
    BY <1>1, <2>3, SeenOf
  <2>5. \A p \in Procs : task[p].pc = "poll" /\ mem[task[p].c].list # <<>> => task[p].c \in {}
    BY <1>1, <2>1 DEF PollInv
  <2>6. 1 \in Nat \ {0}
    OBVIOUS
  <2> QED
    BY <2>2, <2>4, <2>5, <2>6, DataServed
<1>3. CASE ReadCallbackResumes
  <2> DEFINE k == Position(cb.at) + 1
             C == cb.to
             m == cb.m
  <2>1. ServeFrom(k, C, m, {cb.at}) /\ Present(cb.at) /\ reading = "back"
    BY <1>1, <1>3 DEF ReadCallbackResumes, WalkInv
  <2>2. /\ k \in Nat \ {0} /\ m \in Messages
        /\ Position(cb.at) \in 1..Len(clist) /\ clist[Position(cb.at)] = cb.at
    BY <1>1, <2>1, PositionOf DEF GobiTypes, CbTypes
  <2>3. QMICTL \notin Seen(k, C, m.tid)
    <3> SUFFICES ASSUME QMICTL \in Seen(k, C, m.tid) PROVE FALSE
      OBVIOUS
    <3>1. QMICTL \in C /\ \E i \in k..Len(clist) : clist[i] = QMICTL
      BY <1>1, <2>2, SeenOf
    <3>2. cb.at = QMICTL
      BY <1>1, <2>1, <3>1 DEF AskCb
    <3>3. PICK i \in k..Len(clist) : clist[i] = QMICTL
      BY <3>1
    <3>4. i \in 1..Len(clist) /\ i # Position(cb.at)
      BY <1>1, <2>2
    <3> QED
      BY <1>1, <2>2, <3>2, <3>3, <3>4 DEF ClientApart
  <2>4. \A p \in Procs : task[p].pc = "poll" /\ mem[task[p].c].list # <<>> => task[p].c \in {cb.at}
    BY <1>1 DEF PollInv
  <2> HIDE DEF k, C, m
  <2>5. Served(Seen(k, C, m.tid), Stop(k, C, m.tid), C, m, {cb.at})
    BY <2>1, <2>2, ServeOf
  <2> QED
    BY <2>2, <2>3, <2>4, <2>5, DataServed
<1> QED
  BY <1>1, <1>2, <1>3, EasesOf, DataEases

-----------------------------------------------------------------------------
(* The invariant, and what it is for.                                       *)

\* The invariant holds when the device is registered,
LEMMA CalmInit ==
  GobiInit => CalmInv
<1> SUFFICES ASSUME GobiInit PROVE CalmInv
  OBVIOUS
<1>1. /\ clist = <<QMICTL, QMIWDS>> /\ device = "live" /\ reading = "armed" /\ wire = {}
      /\ \A p \in Procs : task[p] = NoTask
      /\ \A n \in Notifiers : held[n] = NoEntry
      /\ \A f \in Files : file[f].id = NoId /\ ~file[f].open
      /\ \A u \in Urbs : urb[u] = "none"
      /\ \A c \in Clients :
           mem[c] = IF c = QMIWDS THEN [NoMem EXCEPT !.notify = <<WdsEntry>>] ELSE NoMem
  BY DEF GobiInit
<1>2. /\ QMICTL # QMIWDS /\ QMICTL \notin Ids /\ QMIWDS \notin Ids /\ NoId \notin Ids /\ WdaId \in Ids
      /\ QMICTL \in Clients /\ QMIWDS \in Clients
  BY GobiAssumption DEF Clients
<1>3. \A c \in Clients : /\ mem[c].list = <<>> /\ mem[c].urbs = <<>>
                         /\ mem[c].notify = IF c = QMIWDS THEN <<WdsEntry>> ELSE <<>>
  BY <1>1 DEF NoMem
<1>4. \A p \in Procs : task[p].pc = "idle" /\ task[p].op = "none" /\ task[p].c = NoId
  BY <1>1, IdleOf
<1>5. NoEntry.who = <<>> /\ WdsEntry.who = ReadCb /\ WdsEntry.step = "run"
      /\ \A n \in Notifiers : held[n].who = <<>>
  BY <1>1 DEF NoEntry, WdsEntry, Entry
<1>6. UserInv /\ ReaderInv
  BY <1>1, IdleOf, ProcsOf DEF UserInv, ReaderInv
<1>7. RemoverInv
  BY <1>1, <1>4, ProcsOf DEF RemoverInv, GoodRemover
<1>8. ClientApart
  BY <1>1, <1>2 DEF ClientApart
<1>9. FileInv
  BY <1>1, <1>2 DEF FileInv
<1>10. \A c : Present(c) <=> c \in {QMICTL, QMIWDS}
  BY <1>1 DEF Present, Contains
<1>11. LiveInv
  BY <1>1, <1>2, <1>10 DEF LiveInv
<1>12. GoneInv
  BY <1>3, <1>10 DEF GoneInv
<1>13. WalkInv /\ WireInv
  BY <1>1 DEF WalkInv, WireInv
<1>14. Len(<<>>) = 0 /\ 1..0 = {} /\ Len(<<WdsEntry>>) = 1 /\ 1..1 = {1} /\ <<WdsEntry>>[1] = WdsEntry
  OBVIOUS
<1>15. UrbInv
  <2>1. UrbOne /\ UrbListed
    BY <1>4 DEF UrbOne, UrbListed, Writing
  <2>2. UrbOwned
    BY <1>3, <1>14 DEF UrbOwned
  <2>3. UrbsFreed
    BY <1>1 DEF UrbsFreed
  <2> QED
    BY <2>1, <2>2, <2>3 DEF UrbInv
<1>16. ASSUME NEW c \in Clients, NEW i \in 1..Len(mem[c].notify)
       PROVE  c = QMIWDS /\ i = 1 /\ mem[c].notify[i] = WdsEntry
  <2>1. CASE c = QMIWDS
    BY <1>3, <1>14, <1>16, <2>1
  <2>2. CASE c # QMIWDS
    BY <1>3, <1>14, <1>16, <2>2
  <2> QED
    BY <2>1, <2>2
<1>17. NotifyInv
  <2>1. ReadCb \notin Procs /\ <<>> # ReadCb
    BY ProcsOf DEF ReadCb
  <2>2. EntryInv
    BY <1>5, <1>16, <2>1 DEF EntryInv
  <2>3. NotHeld
    BY <1>5, <1>16, <2>1 DEF NotHeld
  <2>4. ListedOnce
    BY <1>16 DEF ListedOnce
  <2>5. HeldInv
    BY <1>5 DEF HeldInv
  <2>6. AsleepInv
    BY <1>4 DEF AsleepInv, Reading
  <2> QED
    BY <2>2, <2>3, <2>4, <2>5, <2>6 DEF NotifyInv
<1>18. DataInv
  <2>1. NoneMissed /\ TidInv
    BY <1>2, <1>3, <1>14 DEF NoneMissed, TidInv
  <2>2. PollInv
    BY <1>4 DEF PollInv
  <2> QED
    BY <2>1, <2>2 DEF DataInv
<1> QED
  BY <1>6, <1>7, <1>8, <1>9, <1>11, <1>12, <1>13, <1>15, <1>17, <1>18 DEF CalmInv, ListInv

\* every step keeps it,
LEMMA CalmStep ==
  ASSUME GobiTypes, AskInv, CalmInv, Undisturbed, [GobiNext]_gobiVars
  PROVE  CalmInv'
<1>1. TaskInv' /\ RemoverInv'
  BY TaskStep, RemoverStep
<1>2. ClientApart' /\ FileInv' /\ LiveInv' /\ GoneInv' /\ WalkInv' /\ WireInv'
  BY ClientsStep, GoneStep, WalkStep, WireStep DEF CalmInv, ListInv
<1>3. UrbInv' /\ NotifyInv' /\ DataInv'
  BY UrbStep, NotifyStep, DataStep
<1> QED
  BY <1>1, <1>2, <1>3 DEF CalmInv, ListInv, TaskInv

CalmAll == GobiTypes /\ CtlFirst /\ AskInv /\ CalmInv

\* and so it holds always.
LEMMA CalmAlways == Undisturbed => (GobiSpec => []CalmAll)
<1> SUFFICES ASSUME Undisturbed PROVE GobiSpec => []CalmAll
  OBVIOUS
<1>1. GobiInit => CalmAll
  BY GobiTypesInit, AskInit, CalmInit DEF CalmAll
<1>2. CalmAll /\ [GobiNext]_gobiVars => CalmAll'
  BY GobiTypesStep, CtlFirstStep, AskInvStep, CalmStep DEF CalmAll
<1> QED
  BY <1>1, <1>2, PTL DEF GobiSpec

\* Nothing is used after it was freed: not the semaphore of a reader that gave up, not
\* a client that was deleted while the lock was given up, not a writer's URB; and every
\* URB is freed when its writer has returned.
THEOREM ClientsAreSafe == Undisturbed => (GobiSpec => []ClientsSafe)
<1>1. CalmAll => ClientsSafe
  <2> SUFFICES ASSUME CalmAll PROVE ClientsSafe
    OBVIOUS
  <2>1. /\ GobiTypes /\ UserInv /\ ReaderInv /\ RemoverInv /\ GoodRemover(task[Remover], device)
        /\ WalkInv /\ UrbListed /\ UrbsFreed /\ HeldInv
    BY DEF CalmAll, CalmInv, RemoverInv, ListInv, UrbInv, NotifyInv
  <2>2. ASSUME NEW n \in Notifiers, held[n].who \in Procs PROVE task[held[n].who].pc = "r_wait"
    BY <2>1, <2>2, ProcsOf DEF HeldInv
  <2>3. ASSUME NEW p \in Procs, task[p].pc = "r_remove" PROVE task[p].fresh
    <3>1. CASE p = Remover
      BY <2>1, <2>3, <3>1 DEF GoodRemover
    <3>2. CASE \E f \in Files : p = User(f)
      BY <2>1, <2>3, <3>2 DEF UserInv, GoodUser, Reading
    <3>3. CASE \E f \in Listened : p = Reader(f)
      BY <2>1, <2>3, <3>3 DEF ReaderInv, GoodReader, Reading
    <3> QED
      BY <3>1, <3>2, <3>3, ProcsOf
  <2>4. ASSUME NEW p \in Procs, task[p].pc \in {"w_submit", "w_wait", "w_pop"} PROVE urb[task[p].u] # "freed"
    BY <2>1, <2>4 DEF UrbListed, Writing
  <2>5. ASSUME NEW p \in Procs, task[p].pc \in {"c_up", "c_more", "c_kill", "c_next"}
        PROVE  Present(task[p].arg) /\ task[p].nxt = Succ(task[p].arg)
    <3>1. p = Remover /\ task[p].pc \in {"c_up", "c_more"}
      BY <2>1, <2>5, PlacesOf
    <3> QED
      BY <2>1, <3>1 DEF RemoverInv
  <2>6. NoUseAfterFree
    BY <2>1, <2>2, <2>3, <2>4, <2>5 DEF NoUseAfterFree, WalkInv
  <2>7. GobiTypeOK
    BY <2>1, TypesFollow
  <2> QED
    BY <2>1, <2>6, <2>7 DEF ClientsSafe
<1> QED
  BY <1>1, CalmAlways, PTL

\* Two files never have the same client, and a file has its client until it is closed
\* or the device goes.
THEOREM ClientsAreOwn == Undisturbed => (GobiSpec => []OwnClient)
<1>1. CalmAll => OwnClient
  <2> SUFFICES ASSUME CalmAll PROVE OwnClient
    OBVIOUS
  <2>1. FileInv /\ LiveInv /\ \A f \in Files : file[f].id \in Ids \union {NoId}
    BY DEF CalmAll, CalmInv, ListInv, GobiTypes, FileTypes
  <2> QED
    BY <2>1 DEF OwnClient, FileInv, LiveInv
<1> QED
  BY <1>1, CalmAlways, PTL

\* Who waits in ReadSync, in poll() or for QMIWDSCallback misses neither a message nor
\* the end of its client.
THEOREM SleepersAreServed == Undisturbed => (GobiSpec => []SleepersServed)
<1>1. CalmAll => SleepersServed
  <2> SUFFICES ASSUME CalmAll PROVE SleepersServed
    OBVIOUS
  <2>1. GobiTypes /\ AskInv /\ CalmInv /\ NoneMissed /\ PollInv /\ AsleepInv /\ GoneInv
    BY DEF CalmAll, CalmInv, ListInv, NotifyInv, DataInv
  <2>2. ASSUME NEW c \in Clients, NEW i \in 1..Len(mem[c].notify)
        PROVE  FirstRead(c, mem[c].notify[i].tid) = 0
    <3>1. mem[c].list \in Seq(Messages)
      BY <2>1, MemoryOf DEF GobiTypes
    <3>2. \A j \in 1..Len(mem[c].list) : ~Matches(mem[c].notify[i].tid, mem[c].list[j].tid)
      BY <2>1 DEF NoneMissed
    <3> QED
      BY <3>1, <3>2, FirstReadOf
  <2>3. NoMissedData
    BY <2>1, <2>2 DEF NoMissedData, PollInv
  <2>4. SleepersReachable
    <3> SUFFICES ASSUME NEW p \in Procs, task[p].pc = "r_wait", ~ \E n \in Notifiers : held[n].who = p
                 PROVE  /\ Present(task[p].c)
                        /\ \E i \in 1..Len(mem[task[p].c].notify) : mem[task[p].c].notify[i].who = p
      BY DEF SleepersReachable
    <3>1. task[p].pc \in Reading /\ task[p].pc \in Reading \union {"r_look", "poll"}
      BY DEF Reading
    <3>2. PICK i \in 1..Len(mem[task[p].c].notify) : mem[task[p].c].notify[i].who = p
      BY <2>1, <3>1 DEF AsleepInv
    <3>3. task[p].c \in Clients
      BY <2>1, <3>1, ReaderOf
    <3>4. mem[task[p].c].notify # <<>>
      <4>1. Len(<<>>) = 0 /\ 1..0 = {}
        OBVIOUS
      <4> QED
        BY <3>2, <4>1
    <3> QED
      BY <2>1, <3>2, <3>3, <3>4 DEF GoneInv
  <2> QED
    BY <2>3, <2>4 DEF SleepersServed
<1> QED
  BY <1>1, CalmAlways, PTL
=============================================================================
