--------------------------- MODULE PowerLinkProofs ---------------------------
(***************************************************************************)
(* Proofs about the power manager and the link that it is the manager of.  *)
(*                                                                         *)
(* PowerManager, for any finite sets of tasks and any callers.  The        *)
(* invariant ManagerInv needs none of Serial, InOrder and Prompt: from     *)
(* it come the counts (ManagerSafe) and, with works run in order, that the *)
(* manager implements Mpm.  The wakeup source and the wakelock have        *)
(* invariants of their own.                                                *)
(*                                                                         *)
(* PcieResource, for any finite set of host tasks: who was told that the   *)
(* link is ready has it, and the modem's vote is not lost, if the          *)
(* interrupts are handled in order and the works in time (MsiInOrder,      *)
(* InTime).                                                                *)
(***************************************************************************)
EXTENDS PowerManager, PcieResource, FiniteSetTheorems, SequenceTheorems, TLAPS

-----------------------------------------------------------------------------
(* PowerManager.                                                            *)

\* The tasks that count in active_cnt of p, and the pms whose count is not 0.
InCall == {"up", "wait", "asleep", "held", "fail"}
Inside(p) == {t \in Tasks : PmsOf(t) = p /\ pc[t] \in InCall}
Wanted == {p \in Pms : active[p] > 0}

\* What active_lock and mpm_lock count.
PmsCounts == \A p \in Pms : active[p] = Cardinality(Inside(p))
UpCounts == up = Cardinality(Wanted) - Cardinality(At("up")) + Cardinality(At("down"))

\* A work is scheduled once.
WorksOnce == \A i, j \in DOMAIN works : works[i] = works[j] => i = j

\* Only the first task of a pms is on its way to sprd_mpm_up.
OneUp ==
  \A s, t \in Tasks : pc[s] = "up" /\ pc[t] = "up" /\ PmsOf(s) = PmsOf(t) => s = t

\* A manager with users is busy and no idle time runs; one that waits for the
\* end of the idle time has no users and is still busy.
UsedIsBusy == up > 0 => mpm = "busy" /\ ~expires
IdleTimed == expires => mpm = "busy"

ManagerInv ==
  /\ TypeOK /\ PmsCounts /\ UpCounts
  /\ WorksOnce /\ OneUp /\ UsedIsBusy /\ IdleTimed

-----------------------------------------------------------------------------
(* Counting tasks.                                                          *)

\* There are finitely many tasks and users.
LEMMA FiniteTasks ==
  /\ IsFiniteSet(Tasks) /\ IsFiniteSet(Pms)
  /\ \A t \in Tasks : PmsOf(t) \in Pms
<1>1. IsFiniteSet(Tasks)
  BY PowerAssumption, FS_Union DEF Tasks
<1>2. IsFiniteSet(Pms)
  BY PowerAssumption, FS_Union, FS_Singleton DEF Pms
<1>3. \A t \in Tasks : PmsOf(t) \in Pms
  BY DEF Tasks, Pms, PmsOf
<1> QED
  BY <1>1, <1>2, <1>3

\* The tasks at one place, those inside the calls of one pms and the pms in use
\* are finite sets.
LEMMA FiniteSets ==
  /\ \A l : IsFiniteSet(At(l)) /\ Cardinality(At(l)) \in Nat
  /\ \A p : IsFiniteSet(Inside(p)) /\ Cardinality(Inside(p)) \in Nat
  /\ IsFiniteSet(Wanted) /\ Cardinality(Wanted) \in Nat
<1>1. ASSUME NEW l PROVE IsFiniteSet(At(l)) /\ Cardinality(At(l)) \in Nat
  <2>1. At(l) \in SUBSET Tasks
    BY DEF At
  <2> QED
    BY <2>1, FiniteTasks, FS_Subset, FS_CardinalityType
<1>2. ASSUME NEW p PROVE IsFiniteSet(Inside(p)) /\ Cardinality(Inside(p)) \in Nat
  <2>1. Inside(p) \in SUBSET Tasks
    BY DEF Inside
  <2> QED
    BY <2>1, FiniteTasks, FS_Subset, FS_CardinalityType
<1>3. IsFiniteSet(Wanted) /\ Cardinality(Wanted) \in Nat
  <2>1. Wanted \in SUBSET Pms
    BY DEF Wanted
  <2> QED
    BY <2>1, FiniteTasks, FS_Subset, FS_CardinalityType
<1> QED
  BY <1>1, <1>2, <1>3

\* A task that goes from a to b leaves the tasks at a and joins those at b.
LEMMA AtMoves ==
  ASSUME TypeOK, NEW t \in Tasks, NEW b, Goto(t, b), NEW l
  PROVE  Cardinality(At(l)') =
           IF pc[t] = l /\ b # l THEN Cardinality(At(l)) - 1
           ELSE IF pc[t] # l /\ b = l THEN Cardinality(At(l)) + 1
           ELSE Cardinality(At(l))
<1>1. At(l)' = IF b = l THEN At(l) \union {t} ELSE At(l) \ {t}
  BY DEF TypeOK, At, Goto
<1>2. t \in At(l) <=> pc[t] = l
  BY DEF At
<1>3. IsFiniteSet(At(l)) /\ Cardinality(At(l)) \in Nat
  BY FiniteSets
<1>4. Cardinality(At(l) \union {t}) =
        IF t \in At(l) THEN Cardinality(At(l)) ELSE Cardinality(At(l)) + 1
  BY <1>3, FS_AddElement
<1>5. Cardinality(At(l) \ {t}) =
        IF t \in At(l) THEN Cardinality(At(l)) - 1 ELSE Cardinality(At(l))
  BY <1>3, FS_RemoveElement
<1> QED
  BY <1>1, <1>2, <1>4, <1>5

\* The same for the tasks inside the calls of a pms.
LEMMA InsideMoves ==
  ASSUME TypeOK, NEW t \in Tasks, NEW b, Goto(t, b), NEW p
  PROVE  Cardinality(Inside(p)') =
           IF PmsOf(t) = p /\ pc[t] \in InCall /\ b \notin InCall
           THEN Cardinality(Inside(p)) - 1
           ELSE IF PmsOf(t) = p /\ pc[t] \notin InCall /\ b \in InCall
           THEN Cardinality(Inside(p)) + 1
           ELSE Cardinality(Inside(p))
<1>1. Inside(p)' = IF PmsOf(t) = p /\ b \in InCall
                   THEN Inside(p) \union {t} ELSE Inside(p) \ {t}
  BY DEF TypeOK, Inside, Goto
<1>2. t \in Inside(p) <=> PmsOf(t) = p /\ pc[t] \in InCall
  BY DEF Inside
<1>3. IsFiniteSet(Inside(p)) /\ Cardinality(Inside(p)) \in Nat
  BY FiniteSets
<1>4. Cardinality(Inside(p) \union {t}) =
        IF t \in Inside(p) THEN Cardinality(Inside(p)) ELSE Cardinality(Inside(p)) + 1
  BY <1>3, FS_AddElement
<1>5. Cardinality(Inside(p) \ {t}) =
        IF t \in Inside(p) THEN Cardinality(Inside(p)) - 1 ELSE Cardinality(Inside(p))
  BY <1>3, FS_RemoveElement
<1> QED
  BY <1>1, <1>2, <1>4, <1>5

\* A count that goes from n to m takes its pms out of use or brings it in.
LEMMA WantedMoves ==
  ASSUME TypeOK, NEW p \in Pms, NEW m \in Int, active' = [active EXCEPT ![p] = m]
  PROVE  Cardinality(Wanted') =
           IF active[p] > 0 /\ ~(m > 0) THEN Cardinality(Wanted) - 1
           ELSE IF ~(active[p] > 0) /\ m > 0 THEN Cardinality(Wanted) + 1
           ELSE Cardinality(Wanted)
<1>1. Wanted' = IF m > 0 THEN Wanted \union {p} ELSE Wanted \ {p}
  BY DEF TypeOK, Wanted
<1>2. p \in Wanted <=> active[p] > 0
  BY DEF Wanted
<1>3. IsFiniteSet(Wanted) /\ Cardinality(Wanted) \in Nat
  BY FiniteSets
<1>4. Cardinality(Wanted \union {p}) =
        IF p \in Wanted THEN Cardinality(Wanted) ELSE Cardinality(Wanted) + 1
  BY <1>3, FS_AddElement
<1>5. Cardinality(Wanted \ {p}) =
        IF p \in Wanted THEN Cardinality(Wanted) - 1 ELSE Cardinality(Wanted)
  BY <1>3, FS_RemoveElement
<1> QED
  BY <1>1, <1>2, <1>4, <1>5

-----------------------------------------------------------------------------
(* The works.                                                               *)

WorkNames == {"request", "release"}

\* Scheduling keeps every work at most once, so at most two are pending.
LEMMA ScheduleOnce ==
  ASSUME TypeOK, WorksOnce, NEW w \in WorkNames
  PROVE  /\ Schedule(w) \in Seq(WorkNames) /\ Len(Schedule(w)) <= 2
         /\ \A i, j \in DOMAIN Schedule(w) : Schedule(w)[i] = Schedule(w)[j] => i = j
<1>1. CASE \E i \in DOMAIN works : works[i] = w
  BY <1>1 DEF Schedule, TypeOK, WorksOnce, WorkNames
<1>2. CASE \A i \in DOMAIN works : works[i] # w
  <2>1. Schedule(w) = Append(works, w) /\ works \in Seq(WorkNames)
    BY <1>2 DEF Schedule, TypeOK, WorkNames
  <2>2. Len(works) \in Nat /\ Len(works) <= 2
    BY <2>1 DEF TypeOK
  <2>3. Len(works) # 2
    <3> SUFFICES ASSUME Len(works) = 2 PROVE FALSE
      OBVIOUS
    <3>1. 1 \in DOMAIN works /\ 2 \in DOMAIN works
      BY <2>1
    <3>2. works[1] \in WorkNames \ {w} /\ works[2] \in WorkNames \ {w}
      BY <1>2, <2>1, <3>1
    <3> QED
      BY <3>1, <3>2 DEF WorksOnce, WorkNames
  <2> QED
    BY <1>2, <2>1, <2>2, <2>3 DEF WorksOnce, WorkNames
<1> QED
  BY <1>1, <1>2

\* Removing an element of a sequence moves the later ones down by one.
LEMMA RemoveAt ==
  ASSUME NEW S, NEW s \in Seq(S), NEW i \in 1 .. Len(s)
  PROVE  /\ Remove(s, i) \in Seq(S) /\ Len(Remove(s, i)) = Len(s) - 1
         /\ \A j \in 1 .. Len(s) - 1 :
              Remove(s, i)[j] = IF j < i THEN s[j] ELSE s[j + 1]
<1> DEFINE a == SubSeq(s, 1, i - 1)
           b == SubSeq(s, i + 1, Len(s))
<1>1. Len(s) \in Nat /\ i \in Int /\ \A j \in 1 .. Len(s) : s[j] \in S
  OBVIOUS
<1>2. /\ a \in Seq(S) /\ Len(a) = i - 1
      /\ \A j \in 1 .. i - 1 : a[j] = s[j]
  <2>1. \A j \in 1 .. i - 1 : s[j] \in S
    BY <1>1
  <2>2. /\ a \in Seq(S) /\ Len(a) = IF 1 <= i - 1 THEN (i - 1) - 1 + 1 ELSE 0
        /\ \A j \in 1 .. (i - 1) - 1 + 1 : a[j] = s[1 + j - 1]
    BY <1>1, <2>1, SubSeqProperties
  <2> QED
    BY <1>1, <2>2
<1>3. /\ b \in Seq(S) /\ Len(b) = Len(s) - i
      /\ \A j \in 1 .. Len(s) - i : b[j] = s[i + j]
  <2>1. \A j \in i + 1 .. Len(s) : s[j] \in S
    BY <1>1
  <2>2. /\ b \in Seq(S) /\ Len(b) = IF i + 1 <= Len(s) THEN Len(s) - (i + 1) + 1 ELSE 0
        /\ \A j \in 1 .. Len(s) - (i + 1) + 1 : b[j] = s[i + 1 + j - 1]
    BY <1>1, <2>1, SubSeqProperties
  <2> QED
    BY <1>1, <2>2
<1>4. Remove(s, i) = a \o b
  BY DEF Remove
<1> HIDE DEF a, b
<1>5. /\ a \o b \in Seq(S) /\ Len(a \o b) = Len(a) + Len(b)
      /\ \A j \in 1 .. Len(a) + Len(b) :
           (a \o b)[j] = IF j <= Len(a) THEN a[j] ELSE b[j - Len(a)]
  BY <1>2, <1>3, ConcatProperties
<1> QED
  BY <1>1, <1>2, <1>3, <1>4, <1>5

\* A work that runs leaves the others.
LEMMA RemoveOnce ==
  ASSUME TypeOK, WorksOnce, NEW i \in DOMAIN works
  PROVE  /\ Remove(works, i) \in Seq(WorkNames) /\ Len(Remove(works, i)) <= 2
         /\ \A j, k \in DOMAIN Remove(works, i) :
              Remove(works, i)[j] = Remove(works, i)[k] => j = k
<1>1. works \in Seq(WorkNames) /\ Len(works) \in Nat /\ i \in 1 .. Len(works)
  BY DEF TypeOK, WorkNames
<1>2. /\ Remove(works, i) \in Seq(WorkNames) /\ Len(Remove(works, i)) = Len(works) - 1
      /\ \A j \in 1 .. Len(works) - 1 :
           Remove(works, i)[j] = IF j < i THEN works[j] ELSE works[j + 1]
  BY <1>1, RemoveAt
<1>3. DOMAIN Remove(works, i) = 1 .. Len(works) - 1
  BY <1>1, <1>2
<1> QED
  BY <1>1, <1>2, <1>3 DEF WorksOnce, TypeOK

\* The works run in order are taken from the front.
LEMMA RemoveFirst ==
  ASSUME TypeOK, works # <<>>
  PROVE  1 \in DOMAIN works /\ Remove(works, 1) = Tail(works)
<1>1. works \in Seq(WorkNames) /\ Len(works) \in Nat /\ Len(works) # 0
  BY DEF TypeOK, WorkNames
<1>2. /\ Remove(works, 1) \in Seq(WorkNames) /\ Len(Remove(works, 1)) = Len(works) - 1
      /\ \A j \in 1 .. Len(works) - 1 : Remove(works, 1)[j] = works[j + 1]
  BY <1>1, RemoveAt
<1>3. /\ Tail(works) \in Seq(WorkNames) /\ Len(Tail(works)) = Len(works) - 1
      /\ \A j \in 1 .. Len(works) - 1 : Tail(works)[j] = works[j + 1]
  BY <1>1
<1> QED
  BY <1>1, <1>2, <1>3, SeqEqual

-----------------------------------------------------------------------------
(* The step of the inductive invariant.                                     *)

\* The part of the invariant that speaks of the works.
WorksOK == works \in Seq(WorkNames) /\ Len(works) <= 2 /\ WorksOnce

\* The types of the rest.
RestOK ==
  /\ active \in [Pms -> Nat]
  /\ pc \in [Tasks -> {"out", "up", "wait", "asleep", "held", "fail", "down"}]
  /\ up \in Nat /\ mpm \in {"idle", "busy"}
  /\ locks \in Int
  /\ wpc \in [Callers \union {"timer"} ->
                {"out", "stay", "set", "count", "later", "relax", "clear", "uncount",
                 "fired"}]
Flags == {expires, timer, firing, scanned, ws, awake, period, ptimer} \subseteq BOOLEAN

\* TypeOK is these parts.
LEMMA TypeParts == TypeOK /\ WorksOnce <=> RestOK /\ Flags /\ WorksOK
BY DEF TypeOK, RestOK, Flags, WorksOK, WorkNames

\* What a caller, or the timer of a wakelock, does leaves the link's part alone.
WakeCall(c) == RequestPeriod(c) \/ ReleaseWakelock(c) \/ WakeStep(c)

\* Such a call changes nothing of the link's part.
LEMMA WakeLeavesLink ==
  ASSUME NEW c, WakeCall(c)
  PROVE  UNCHANGED linkVars
BY DEF WakeCall, RequestPeriod, ReleaseWakelock, WakeStep, StayTest, StaySet,
       StayCount, ReleaseLater, RelaxTest, RelaxClear, RelaxCount

\* Every step keeps every work at most once.
LEMMA WorksStep ==
  ASSUME ManagerInv, [Next]_vars
  PROVE  WorksOK'
<1> USE DEF WorksOK, WorksOnce, WorkNames, mpmVars, linkVars, wakeVars, vars
<1>0. works' = works => WorksOK'
  BY DEF ManagerInv, TypeOK
<1>1. ASSUME NEW w \in WorkNames, works' = Schedule(w) PROVE WorksOK'
  BY <1>1, ScheduleOnce DEF ManagerInv
<1>2. ASSUME NEW i \in DOMAIN works, works' = Remove(works, i) PROVE WorksOK'
  BY <1>2, RemoveOnce DEF ManagerInv
<1>3. ASSUME NEW t \in Tasks, Up(t) PROVE WorksOK'
  BY <1>0, <1>1, <1>3 DEF Up, MpmUp
<1>4. CASE DeactiveTimer
  BY <1>0, <1>1, <1>4 DEF DeactiveTimer, Deactive
<1>5. CASE Work
  BY <1>2, <1>5 DEF Work
<1>6. ASSUME NEW t \in Tasks,
             Request(t) \/ WaitResource(t) \/ WaitEnds(t) \/ Release(t) \/ Down(t)
      PROVE  WorksOK'
  BY <1>0, <1>6 DEF Request, WaitResource, WaitEnds, Release, Down, MpmDown
<1>7. CASE TimerExpires \/ LinkChanges \/ PeriodExpires \/ RelaxTimer
  BY <1>0, <1>7 DEF TimerExpires, LinkChanges, PeriodExpires, RelaxTimer
<1>8. ASSUME NEW c \in Callers \union {"timer"}, WakeCall(c)
      PROVE  WorksOK'
  BY <1>0, <1>8, WakeLeavesLink
<1>9. CASE UNCHANGED vars
  BY <1>0, <1>9
<1> QED
  BY <1>3, <1>4, <1>5, <1>6, <1>7, <1>8, <1>9 DEF Next, TaskStep, WakeCall

\* Every step leaves the flags Boolean.
LEMMA FlagsStep ==
  ASSUME ManagerInv, [Next]_vars
  PROVE  Flags'
<1> USE DEF ManagerInv, TypeOK, Flags, mpmVars, linkVars, wakeVars, vars
<1>1. {expires, timer, firing, scanned, ws, awake, period, ptimer} \subseteq BOOLEAN
  OBVIOUS
<1>2. ASSUME NEW t \in Tasks, Request(t) \/ TaskStep(t) PROVE Flags'
  BY <1>1, <1>2 DEF Request, TaskStep, Up, MpmUp, CancelTimer, WaitResource,
     WaitEnds, Release, Down, MpmDown
<1>3. CASE TimerExpires \/ DeactiveTimer \/ LinkChanges
  BY <1>1, <1>3 DEF TimerExpires, DeactiveTimer, Deactive, LinkChanges
<1>4. CASE Work
  BY <1>1, <1>4 DEF Work
<1>5. CASE PeriodExpires \/ RelaxTimer
  BY <1>1, <1>5 DEF PeriodExpires, RelaxTimer
<1>6. ASSUME NEW c \in Callers \union {"timer"}, WakeCall(c)
      PROVE  Flags'
  BY <1>1, <1>6 DEF RequestPeriod, ReleaseWakelock, PmsCancelTimer,
     WakeCall, WakeStep, StayTest, StaySet, StayCount, ReleaseLater,
     RelaxTest, RelaxClear, RelaxCount
<1>7. CASE UNCHANGED vars
  BY <1>1, <1>7
<1> QED
  BY <1>2, <1>3, <1>4, <1>5, <1>6, <1>7 DEF Next, WakeCall

\* A pms with a task on its way to sprd_mpm_up is in use, and only one of its
\* tasks is on that way.
LEMMA UpIsWanted ==
  ASSUME ManagerInv
  PROVE  /\ \A t \in At("up") : PmsOf(t) \in Wanted
         /\ Cardinality(At("up")) <= Cardinality(Wanted)
         /\ \A p \in Wanted : (\A t \in At("up") : PmsOf(t) # p)
              => Cardinality(At("up")) <= Cardinality(Wanted) - 1
<1> DEFINE f == [t \in At("up") |-> PmsOf(t)]
<1>1. ASSUME NEW t \in At("up") PROVE PmsOf(t) \in Wanted
  <2>1. t \in Tasks /\ PmsOf(t) \in Pms /\ t \in Inside(PmsOf(t))
    BY FiniteTasks DEF At, Inside, InCall
  <2>2. IsFiniteSet(Inside(PmsOf(t))) /\ Cardinality(Inside(PmsOf(t))) \in Nat
    BY FiniteSets
  <2>3. Cardinality(Inside(PmsOf(t))) # 0
    BY <2>1, <2>2, FS_EmptySet
  <2> QED
    BY <2>1, <2>2, <2>3 DEF ManagerInv, PmsCounts, Wanted
<1>2. /\ IsFiniteSet(Wanted) /\ Cardinality(Wanted) \in Nat
      /\ Cardinality(At("up")) \in Nat
  BY FiniteSets
<1>3. \A s, t \in At("up") : PmsOf(s) = PmsOf(t) => s = t
  BY DEF At, ManagerInv, OneUp
<1>4. Cardinality(At("up")) <= Cardinality(Wanted)
  <2>1. f \in Injection(At("up"), Wanted)
    BY <1>1, <1>3 DEF Injection, IsInjective
  <2> QED
    BY <1>2, <2>1, FS_Injection
<1>5. ASSUME NEW p \in Wanted, \A t \in At("up") : PmsOf(t) # p
      PROVE  Cardinality(At("up")) <= Cardinality(Wanted) - 1
  <2>1. f \in Injection(At("up"), Wanted \ {p})
    BY <1>1, <1>3, <1>5 DEF Injection, IsInjective
  <2>2. IsFiniteSet(Wanted \ {p}) /\ Cardinality(Wanted \ {p}) = Cardinality(Wanted) - 1
    BY <1>2, FS_RemoveElement
  <2> QED
    BY <1>2, <2>1, <2>2, FS_Injection
<1> QED
  BY <1>1, <1>4, <1>5

\* So the manager's count is at least that of the withdrawals still to come, and
\* more when some pms in use has nobody on the way to sprd_mpm_up.
LEMMA UpBound ==
  ASSUME ManagerInv
  PROVE  /\ up >= Cardinality(At("down"))
         /\ \A p \in Wanted : (\A t \in At("up") : PmsOf(t) # p) => up > 0
         /\ \A t \in Tasks : pc[t] = "down" => up > 0
<1>1. /\ Cardinality(Wanted) \in Nat
      /\ Cardinality(At("up")) \in Nat
      /\ Cardinality(At("down")) \in Nat /\ IsFiniteSet(At("down"))
  BY FiniteSets
<1>2. up = Cardinality(Wanted) - Cardinality(At("up")) + Cardinality(At("down"))
  BY DEF ManagerInv, UpCounts
<1>3. up >= Cardinality(At("down"))
  BY <1>1, <1>2, UpIsWanted
<1>4. ASSUME NEW p \in Wanted, \A t \in At("up") : PmsOf(t) # p
      PROVE  up > 0
  <2>1. Cardinality(At("up")) <= Cardinality(Wanted) - 1
    BY <1>4, UpIsWanted
  <2> QED
    BY <1>1, <1>2, <2>1
<1>5. ASSUME NEW t \in Tasks, pc[t] = "down" PROVE up > 0
  <2>1. t \in At("down")
    BY <1>5 DEF At
  <2>2. Cardinality(At("down")) # 0
    BY <1>1, <2>1, FS_EmptySet
  <2> QED
    BY <1>1, <1>2, <1>3, <2>2
<1> QED
  BY <1>3, <1>4, <1>5

\* What a task's step has to keep.
TaskParts == RestOK /\ PmsCounts /\ UpCounts /\ OneUp /\ UsedIsBusy /\ IdleTimed

\* A step of a task.
LEMMA TaskPartsStep ==
  ASSUME ManagerInv, NEW t \in Tasks, Request(t) \/ TaskStep(t)
  PROVE  TaskParts'
<1> DEFINE p == PmsOf(t)
<1>1. RestOK /\ PmsCounts /\ UpCounts /\ OneUp /\ UsedIsBusy /\ IdleTimed /\ TypeOK
  BY TypeParts DEF ManagerInv
<1>2. p \in Pms /\ active[p] \in Nat
  BY <1>1, FiniteTasks DEF RestOK
<1>3. \A q \in Pms : IsFiniteSet(Inside(q)) /\ Cardinality(Inside(q)) \in Nat
  BY FiniteSets
<1>4. \A l : Cardinality(At(l)) \in Nat
  BY FiniteSets
<1>5. Cardinality(Wanted) \in Nat
  BY FiniteSets
<1>6. t \in Inside(p) <=> pc[t] \in InCall
  BY DEF Inside
<1>7. pc[t] \in InCall => active[p] # 0
  BY <1>1, <1>2, <1>3, <1>6, FS_EmptySet DEF PmsCounts
<1>8. active[p] = 0 => \A s \in Tasks : pc[s] = "up" => PmsOf(s) # p
  <2>1. active[p] = 0 => Inside(p) = {}
    BY <1>1, <1>2, <1>3, FS_EmptySet DEF PmsCounts
  <2> QED
    BY <2>1 DEF Inside, InCall
<1> HIDE DEF p
<1> USE DEF RestOK, mpmVars, linkVars, wakeVars, vars
<1>10. CASE Request(t)
  <2>1. /\ pc[t] = "out" /\ active' = [active EXCEPT ![p] = active[p] + 1]
        /\ Goto(t, IF active[p] = 0 THEN "up" ELSE "wait")
        /\ UNCHANGED <<up, mpm, expires, locks, wpc>>
    BY <1>10 DEF Request, p
  <2>2. RestOK'
    BY <1>1, <1>2, <2>1 DEF Goto
  <2>3. PmsCounts'
    <3>1. ASSUME NEW q \in Pms PROVE active'[q] = Cardinality(Inside(q)')
      <4>1. Cardinality(Inside(q)') =
              IF q = p THEN Cardinality(Inside(q)) + 1 ELSE Cardinality(Inside(q))
        BY <1>1, <2>1, InsideMoves DEF InCall, p
      <4> QED
        BY <1>1, <1>2, <2>1, <4>1 DEF PmsCounts
    <3> QED
      BY <3>1 DEF PmsCounts
  <2>4. UpCounts'
    <3>1. Cardinality(Wanted') =
            IF active[p] = 0 THEN Cardinality(Wanted) + 1 ELSE Cardinality(Wanted)
      <4> DEFINE m == active[p] + 1
      <4>1. m \in Int /\ m > 0 /\ (active[p] > 0 <=> active[p] # 0)
        BY <1>2
      <4>2. active' = [active EXCEPT ![p] = m]
        BY <2>1
      <4> HIDE DEF m
      <4> QED
        BY <1>1, <1>2, <4>1, <4>2, WantedMoves
    <3>2. Cardinality(At("up")') =
            IF active[p] = 0 THEN Cardinality(At("up")) + 1 ELSE Cardinality(At("up"))
      BY <1>1, <2>1, AtMoves
    <3>3. Cardinality(At("down")') = Cardinality(At("down"))
      BY <1>1, <2>1, AtMoves
    <3> QED
      BY <1>1, <1>4, <1>5, <2>1, <3>1, <3>2, <3>3 DEF UpCounts
  <2>5. OneUp'
    BY <1>1, <1>8, <2>1 DEF OneUp, Goto, p
  <2>6. (UsedIsBusy /\ IdleTimed)'
    BY <1>1, <2>1 DEF UsedIsBusy, IdleTimed
  <2> QED
    BY <2>2, <2>3, <2>4, <2>5, <2>6 DEF TaskParts
<1>11. CASE Up(t)
  <2>1. /\ pc[t] = "up" /\ MpmUp /\ Goto(t, "wait")
        /\ UNCHANGED <<active, locks, wpc>>
    BY <1>11 DEF Up
  <2>2. RestOK'
    BY <1>1, <2>1 DEF Goto, MpmUp
  <2>3. PmsCounts'
    <3>1. ASSUME NEW q \in Pms PROVE Cardinality(Inside(q)') = Cardinality(Inside(q))
      BY <1>1, <2>1, InsideMoves DEF InCall
    <3> QED
      BY <1>1, <2>1, <3>1 DEF PmsCounts
  <2>4. UpCounts'
    <3>1. Wanted' = Wanted
      BY <2>1 DEF Wanted
    <3>2. Cardinality(At("up")') = Cardinality(At("up")) - 1
      BY <1>1, <2>1, AtMoves
    <3>3. Cardinality(At("down")') = Cardinality(At("down"))
      BY <1>1, <2>1, AtMoves
    <3>4. up' = up + 1
      BY <2>1 DEF MpmUp
    <3> QED
      BY <1>1, <1>4, <1>5, <3>1, <3>2, <3>3, <3>4 DEF UpCounts
  <2>5. OneUp'
    BY <1>1, <2>1 DEF OneUp, Goto
  <2>6. (UsedIsBusy /\ IdleTimed)'
    BY <1>1, <2>1 DEF UsedIsBusy, IdleTimed, MpmUp, CancelTimer
  <2> QED
    BY <2>2, <2>3, <2>4, <2>5, <2>6 DEF TaskParts
<1>12. CASE WaitResource(t) \/ WaitEnds(t)
  <2>1. PICK b \in {"held", "fail", "asleep"} : Goto(t, b)
    BY <1>12 DEF WaitResource, WaitEnds
  <2>2. /\ pc[t] \in {"wait", "asleep"}
        /\ UNCHANGED <<active, up, mpm, expires, locks, wpc>>
    BY <1>12 DEF WaitResource, WaitEnds
  <2>3. RestOK'
    BY <1>1, <2>1, <2>2 DEF Goto
  <2>4. PmsCounts'
    <3>1. ASSUME NEW q \in Pms PROVE Cardinality(Inside(q)') = Cardinality(Inside(q))
      BY <1>1, <2>1, <2>2, InsideMoves DEF InCall
    <3> QED
      BY <1>1, <2>2, <3>1 DEF PmsCounts
  <2>5. UpCounts'
    <3>1. Wanted' = Wanted
      BY <2>2 DEF Wanted
    <3>2. Cardinality(At("up")') = Cardinality(At("up"))
      BY <1>1, <2>1, <2>2, AtMoves
    <3>3. Cardinality(At("down")') = Cardinality(At("down"))
      BY <1>1, <2>1, <2>2, AtMoves
    <3> QED
      BY <1>1, <2>2, <3>1, <3>2, <3>3 DEF UpCounts
  <2>6. OneUp'
    BY <1>1, <2>1, <2>2 DEF OneUp, Goto
  <2>7. (UsedIsBusy /\ IdleTimed)'
    BY <1>1, <2>2 DEF UsedIsBusy, IdleTimed
  <2> QED
    BY <2>3, <2>4, <2>5, <2>6, <2>7 DEF TaskParts
<1>13. CASE Release(t)
  <2>1. /\ pc[t] \in {"held", "fail"} /\ active' = [active EXCEPT ![p] = active[p] - 1]
        /\ Goto(t, IF active[p] = 1 THEN "down" ELSE "out")
        /\ UNCHANGED <<up, mpm, expires, locks, wpc>>
    BY <1>13 DEF Release, p
  <2>2. active[p] > 0 /\ active[p] - 1 \in Nat
    BY <1>2, <1>7, <2>1 DEF InCall
  <2>3. RestOK'
    BY <1>1, <1>2, <2>1, <2>2 DEF Goto
  <2>4. PmsCounts'
    <3>1. ASSUME NEW q \in Pms PROVE active'[q] = Cardinality(Inside(q)')
      <4>1. Cardinality(Inside(q)') =
              IF q = p THEN Cardinality(Inside(q)) - 1 ELSE Cardinality(Inside(q))
        BY <1>1, <2>1, InsideMoves DEF InCall, p
      <4> QED
        BY <1>1, <1>2, <2>1, <4>1 DEF PmsCounts
    <3> QED
      BY <3>1 DEF PmsCounts
  <2>5. UpCounts'
    <3>1. Cardinality(Wanted') =
            IF active[p] = 1 THEN Cardinality(Wanted) - 1 ELSE Cardinality(Wanted)
      <4> DEFINE m == active[p] - 1
      <4>1. m \in Int /\ (m > 0 <=> active[p] # 1)
        BY <1>2, <2>2
      <4>2. active' = [active EXCEPT ![p] = m]
        BY <2>1
      <4> HIDE DEF m
      <4> QED
        BY <1>1, <1>2, <2>2, <4>1, <4>2, WantedMoves
    <3>2. Cardinality(At("down")') =
            IF active[p] = 1 THEN Cardinality(At("down")) + 1
            ELSE Cardinality(At("down"))
      BY <1>1, <2>1, AtMoves
    <3>3. Cardinality(At("up")') = Cardinality(At("up"))
      BY <1>1, <2>1, AtMoves
    <3> QED
      BY <1>1, <1>4, <1>5, <2>1, <3>1, <3>2, <3>3 DEF UpCounts
  <2>6. OneUp'
    BY <1>1, <2>1 DEF OneUp, Goto
  <2>7. (UsedIsBusy /\ IdleTimed)'
    BY <1>1, <2>1 DEF UsedIsBusy, IdleTimed
  <2> QED
    BY <2>3, <2>4, <2>5, <2>6, <2>7 DEF TaskParts
<1>14. CASE Down(t)
  <2>1. /\ pc[t] = "down" /\ MpmDown /\ Goto(t, "out")
        /\ UNCHANGED <<active, locks, wpc>>
    BY <1>14 DEF Down
  <2>2. up > 0 /\ up' = up - 1 /\ mpm' = mpm
    BY <2>1, UpBound DEF MpmDown
  <2>3. RestOK'
    BY <1>1, <2>1, <2>2 DEF Goto
  <2>4. PmsCounts'
    <3>1. ASSUME NEW q \in Pms PROVE Cardinality(Inside(q)') = Cardinality(Inside(q))
      BY <1>1, <2>1, InsideMoves DEF InCall
    <3> QED
      BY <1>1, <2>1, <3>1 DEF PmsCounts
  <2>5. UpCounts'
    <3>1. Wanted' = Wanted
      BY <2>1 DEF Wanted
    <3>2. Cardinality(At("up")') = Cardinality(At("up"))
      BY <1>1, <2>1, AtMoves
    <3>3. Cardinality(At("down")') = Cardinality(At("down")) - 1
      BY <1>1, <2>1, AtMoves
    <3> QED
      BY <1>1, <1>4, <1>5, <2>2, <3>1, <3>2, <3>3 DEF UpCounts
  <2>6. OneUp'
    BY <1>1, <2>1 DEF OneUp, Goto
  <2>7. (UsedIsBusy /\ IdleTimed)'
    BY <1>1, <2>1, <2>2 DEF UsedIsBusy, IdleTimed, MpmDown
  <2> QED
    BY <2>3, <2>4, <2>5, <2>6, <2>7 DEF TaskParts
<1> QED
  BY <1>10, <1>11, <1>12, <1>13, <1>14 DEF TaskStep

\* A step of the manager's timer and works, of the link, or of a wakelock.
LEMMA OtherPartsStep ==
  ASSUME ManagerInv, [Next]_vars, UNCHANGED <<active, pc>>
  PROVE  TaskParts'
<1>1. RestOK /\ PmsCounts /\ UpCounts /\ OneUp /\ UsedIsBusy /\ IdleTimed
  BY TypeParts DEF ManagerInv
<1>2. UNCHANGED <<active, pc, up>> => (PmsCounts /\ UpCounts /\ OneUp)'
  BY <1>1 DEF PmsCounts, UpCounts, OneUp, Inside, Wanted, At
<1>3. /\ active' \in [Pms -> Nat]
      /\ pc' \in [Tasks -> {"out", "up", "wait", "asleep", "held", "fail", "down"}]
  BY <1>1 DEF RestOK
<1> USE DEF RestOK, TaskParts, mpmVars, linkVars, wakeVars, vars
<1>4. ASSUME UNCHANGED <<up, mpm, expires, locks, wpc>> PROVE TaskParts'
  BY <1>1, <1>2, <1>3, <1>4 DEF UsedIsBusy, IdleTimed
<1>5. ASSUME NEW t \in Tasks, Request(t) \/ TaskStep(t) PROVE TaskParts'
  BY <1>5, TaskPartsStep
<1>6. CASE DeactiveTimer
  BY <1>1, <1>2, <1>3, <1>6 DEF DeactiveTimer, Deactive, UsedIsBusy, IdleTimed
<1>7. CASE TimerExpires \/ LinkChanges \/ Work
  BY <1>4, <1>7 DEF TimerExpires, LinkChanges, Work
<1>8. CASE PeriodExpires \/ RelaxTimer
  BY <1>1, <1>2, <1>3, <1>8 DEF PeriodExpires, RelaxTimer, WGoto, UsedIsBusy,
     IdleTimed
<1>9. ASSUME NEW c \in Callers \union {"timer"}, WakeCall(c)
      PROVE  TaskParts'
  BY <1>1, <1>2, <1>3, <1>9
  DEF WakeCall, RequestPeriod, ReleaseWakelock, WakeStep, StayTest, StaySet, StayCount,
      ReleaseLater, RelaxTest, RelaxClear, RelaxCount, WGoto, UsedIsBusy, IdleTimed
<1>10. CASE UNCHANGED vars
  BY <1>4, <1>10
<1> QED
  BY <1>5, <1>6, <1>7, <1>8, <1>9, <1>10 DEF Next, WakeCall

\* The invariant holds at the start.
LEMMA ManagerInit == Init => ManagerInv
<1> SUFFICES ASSUME Init PROVE ManagerInv
  OBVIOUS
<1> USE DEF Init
<1>1. TypeOK
  <2>1. works \in Seq({"request", "release"}) /\ Len(works) <= 2
    OBVIOUS
  <2>2. {expires, timer, firing, scanned, ws, awake, period, ptimer} \subseteq BOOLEAN
    BY Zenon
  <2> QED
    BY <2>1, <2>2 DEF TypeOK
<1>2. \A l : l # "out" => At(l) = {}
  BY DEF At
<1>3. Wanted = {} /\ \A p \in Pms : Inside(p) = {}
  BY DEF Wanted, Inside, InCall
<1>4. UpCounts /\ PmsCounts
  <2>1. Cardinality({}) = 0
    BY FS_EmptySet
  <2>2. At("up") = {} /\ At("down") = {}
    BY <1>2
  <2>3. UpCounts
    <3>1. /\ Cardinality(Wanted) = 0 /\ Cardinality(At("up")) = 0
          /\ Cardinality(At("down")) = 0
      BY <1>3, <2>1, <2>2, Zenon
    <3> QED
      BY <3>1 DEF UpCounts
  <2>4. PmsCounts
    BY <1>3, <2>1 DEF PmsCounts
  <2> QED
    BY <2>3, <2>4
<1>5. WorksOnce /\ OneUp /\ UsedIsBusy /\ IdleTimed
  BY DEF WorksOnce, OneUp, UsedIsBusy, IdleTimed
<1> QED
  BY <1>1, <1>4, <1>5 DEF ManagerInv

\* Every step keeps it.
LEMMA ManagerStep == ManagerInv /\ [Next]_vars => ManagerInv'
<1> SUFFICES ASSUME ManagerInv, [Next]_vars PROVE ManagerInv'
  OBVIOUS
<1>1. WorksOK' /\ Flags'
  BY WorksStep, FlagsStep
<1>2. TaskParts'
  <2>1. ASSUME NEW t \in Tasks, Request(t) \/ TaskStep(t) PROVE TaskParts'
    BY <2>1, TaskPartsStep
  <2>2. CASE UNCHANGED <<active, pc>>
    BY <2>2, OtherPartsStep
  <2>3. ASSUME NEW c \in Callers \union {"timer"}, WakeCall(c)
        PROVE  UNCHANGED <<active, pc>>
    BY <2>3, WakeLeavesLink DEF linkVars
  <2>4. ASSUME \/ TimerExpires \/ DeactiveTimer \/ Work \/ LinkChanges
               \/ PeriodExpires \/ RelaxTimer \/ UNCHANGED vars
        PROVE UNCHANGED <<active, pc>>
    BY <2>4 DEF vars, linkVars, TimerExpires, DeactiveTimer, Work, LinkChanges,
       PeriodExpires, RelaxTimer
  <2> QED
    BY <2>1, <2>2, <2>3, <2>4 DEF Next, WakeCall
<1>3. (TypeOK /\ WorksOnce)'
  BY <1>1, <1>2, TypeParts, PTL DEF TaskParts
<1> QED
  BY <1>2, <1>3 DEF ManagerInv, TaskParts

\* The inductive invariant of the manager.
THEOREM ManagerInvariant == Spec => []ManagerInv
  BY ManagerInit, ManagerStep, PTL DEF Spec

\* In every state of the invariant the count is never below 0, and a task that was
\* told "resource ready" has the manager busy, or a task of its pms still on the way.
LEMMA InvIsSafe == ManagerInv => ManagerSafe
<1> SUFFICES ASSUME ManagerInv PROVE ManagerSafe
  OBVIOUS
<1>1. CountsAgree
  <2>1. up \in Nat
    BY DEF ManagerInv, TypeOK
  <2> QED
    BY <2>1 DEF CountsAgree, ManagerInv, UpCounts, PmsCounts, Wanted, Inside, InCall
<1>2. HeldBusy
  <2> SUFFICES ASSUME NEW t \in Tasks, pc[t] = "held",
                      \A s \in Tasks : ~(pc[s] = "up" /\ PmsOf(s) = PmsOf(t))
               PROVE  mpm = "busy" /\ ~expires
    BY DEF HeldBusy
  <2>1. PmsOf(t) \in Pms /\ t \in Inside(PmsOf(t))
    BY FiniteTasks DEF Inside, InCall
  <2>2. IsFiniteSet(Inside(PmsOf(t))) /\ Cardinality(Inside(PmsOf(t))) \in Nat
    BY FiniteSets
  <2>3. Cardinality(Inside(PmsOf(t))) # 0
    BY <2>1, <2>2, FS_EmptySet
  <2>4. PmsOf(t) \in Wanted
    BY <2>1, <2>2, <2>3 DEF ManagerInv, PmsCounts, Wanted
  <2>5. \A s \in At("up") : PmsOf(s) # PmsOf(t)
    BY DEF At
  <2>6. up > 0
    BY <2>4, <2>5, UpBound
  <2> QED
    BY <2>6 DEF ManagerInv, UsedIsBusy
<1> QED
  BY <1>1, <1>2 DEF ManagerSafe, ManagerInv

\* The counts under active_lock and mpm_lock agree whatever the order in which the
\* calls of one pms get the second lock, and who was told "resource ready" has the
\* manager busy: for all tasks, without any of the assumptions Serial, InOrder,
\* Prompt.
THEOREM ManagerIsSafe == Spec => []ManagerSafe
  BY ManagerInvariant, InvIsSafe, PTL

-----------------------------------------------------------------------------
(* The refinement of Mpm.                                                   *)

\* Every step of the detailed manager is one of the abstract manager or leaves
\* its state alone.
LEMMA StepRefines ==
  ASSUME InOrder, ManagerInv, [Next]_vars
  PROVE  [A!MpmNext]_(A!mgrVars)
<1> USE DEF mpmVars, linkVars, wakeVars, vars, A!mgrVars
<1>1. ASSUME NEW t \in Tasks, Up(t) PROVE A!MpmVote
  BY <1>1 DEF Up, MpmUp, A!MpmVote, Schedule, A!ScheduleWork
<1>2. ASSUME NEW t \in Tasks, Down(t) PROVE A!MpmUnvote
  <2>1. up > 0
    BY <1>2, UpBound DEF Down
  <2> QED
    BY <1>2, <2>1 DEF Down, MpmDown, A!MpmUnvote
<1>3. ASSUME NEW t \in Tasks, Request(t) \/ WaitResource(t) \/ WaitEnds(t) \/ Release(t)
      PROVE  UNCHANGED A!mgrVars
  BY <1>3 DEF Request, WaitResource, WaitEnds, Release
<1>4. CASE DeactiveTimer
  <2>1. CASE expires
    <3>1. up = 0 /\ mpm = "busy"
      BY <2>1 DEF ManagerInv, TypeOK, UsedIsBusy, IdleTimed
    <3> QED
      BY <1>4, <2>1, <3>1 DEF DeactiveTimer, Deactive, A!MpmNext, A!MpmDeactive,
         Schedule, A!ScheduleWork
  <2>2. CASE ~expires
    BY <1>4, <2>2 DEF DeactiveTimer
  <2> QED
    BY <2>1, <2>2
<1>5. CASE Work
  <2>1. works # <<>> /\ works' = Remove(works, 1) /\ UNCHANGED <<up, mpm>>
    BY <1>5 DEF Work
  <2> QED
    BY <2>1, RemoveFirst DEF ManagerInv, A!MpmNext, A!MpmWork
<1>6. CASE TimerExpires \/ LinkChanges \/ PeriodExpires \/ RelaxTimer \/ UNCHANGED vars
  BY <1>6 DEF TimerExpires, LinkChanges, PeriodExpires, RelaxTimer
<1>7. ASSUME NEW c \in Callers \union {"timer"}, WakeCall(c)
      PROVE  UNCHANGED A!mgrVars
  BY <1>7, WakeLeavesLink
<1> QED
  BY <1>1, <1>2, <1>3, <1>4, <1>5, <1>6, <1>7
  DEF Next, TaskStep, WakeCall, A!MpmNext

\* The manager of sprd_mpm_up, sprd_mpm_down, its timer and its works, with any
\* users, implements Mpm: the link is given back only when nobody votes for it.
THEOREM ManagerRefines ==
  ASSUME InOrder
  PROVE  Spec => Manager
<1>1. Init => A!MpmInit
  BY DEF Init, A!MpmInit
<1>2. ManagerInv /\ [Next]_vars => [A!MpmNext]_(A!mgrVars)
  BY StepRefines
<1> QED
  BY <1>1, <1>2, ManagerInvariant, PTL DEF Spec, Manager, A!MpmSpec

-----------------------------------------------------------------------------
(* The wakeup source.                                                       *)

\* With the works in order and done before the next idle time ends, the last
\* pending work agrees with the state, and a release comes before a request.
SourceInv ==
  /\ works \in {<<>>, <<"request">>, <<"release">>, <<"release", "request">>}
  /\ works = <<>> => (ws <=> mpm = "busy")
  /\ works # <<>> => works[Len(works)] = IF mpm = "busy" THEN "request" ELSE "release"

\* Every step keeps it.
LEMMA SourceStep ==
  ASSUME InOrder, Prompt, ManagerInv, SourceInv, [Next]_vars
  PROVE  SourceInv'
<1> USE DEF mpmVars, linkVars, wakeVars, vars
<1>1. UNCHANGED <<works, mpm, ws>> => SourceInv'
  BY DEF SourceInv
<1>2. mpm \in {"idle", "busy"}
  BY DEF ManagerInv, TypeOK
<1>3. ASSUME NEW t \in Tasks, Up(t) PROVE SourceInv'
  <2>1. CASE up = 0 /\ mpm = "idle"
    <3>1. works \in {<<>>, <<"release">>}
      BY <2>1 DEF SourceInv
    <3>2. works' = Append(works, "request") /\ mpm' = "busy"
      BY <1>3, <2>1, <3>1 DEF Up, MpmUp, Schedule
    <3>3. /\ works' \in {<<"request">>, <<"release", "request">>}
          /\ works' # <<>> /\ works'[Len(works')] = "request"
      <4>1. CASE works = <<>>
        <5>1. works' = <<"request">>
          BY <3>2, <4>1
        <5> QED
          BY <5>1
      <4>2. CASE works = <<"release">>
        <5>1. works' = <<"release", "request">>
          <6> DEFINE q == Append(<<"release">>, "request")
          <6>1. /\ q \in Seq(WorkNames) /\ Len(q) = 2
                /\ q[1] = "release" /\ q[2] = "request"
            BY DEF WorkNames
          <6> HIDE DEF q
          <6>2. q = <<"release", "request">>
            BY <6>1, SeqEqual DEF WorkNames
          <6> QED
            BY <3>2, <4>2, <6>2 DEF q
        <5> QED
          BY <5>1
      <4> QED
        BY <3>1, <4>1, <4>2
    <3> QED
      BY <3>2, <3>3 DEF SourceInv
  <2>2. CASE ~(up = 0 /\ mpm = "idle")
    BY <1>1, <1>3, <2>2 DEF Up, MpmUp
  <2> QED
    BY <2>1, <2>2
<1>4. CASE DeactiveTimer
  <2>1. CASE expires
    <3>1. works' = <<"release">> /\ mpm' = "idle"
      BY <1>4, <2>1 DEF DeactiveTimer, Deactive, Schedule
    <3> QED
      BY <3>1 DEF SourceInv
  <2>2. CASE ~expires
    BY <1>1, <1>4, <2>2 DEF DeactiveTimer
  <2> QED
    BY <2>1, <2>2
<1>5. CASE Work
  <2>1. /\ works # <<>> /\ works' = Remove(works, 1)
        /\ ws' = (works[1] = "request") /\ mpm' = mpm
    BY <1>5 DEF Work
  <2>2. works' = Tail(works)
    BY <2>1, RemoveFirst DEF ManagerInv
  <2>3. CASE works = <<"release", "request">>
    <3>1. works' = <<"request">> /\ works' # <<>> /\ works'[Len(works')] = "request"
      BY <2>2, <2>3
    <3>2. mpm' = "busy"
      BY <1>2, <2>1, <2>3 DEF SourceInv
    <3> QED
      BY <3>1, <3>2 DEF SourceInv
  <2>4. CASE works \in {<<"request">>, <<"release">>}
    <3>1. works' = <<>> /\ works[Len(works)] = works[1]
      BY <2>2, <2>4
    <3>2. works[1] = IF mpm = "busy" THEN "request" ELSE "release"
      BY <2>1, <3>1 DEF SourceInv
    <3> QED
      BY <2>1, <3>1, <3>2 DEF SourceInv
  <2> QED
    BY <2>1, <2>3, <2>4 DEF SourceInv
<1>6. ASSUME NEW t \in Tasks,
             Request(t) \/ WaitResource(t) \/ WaitEnds(t) \/ Release(t) \/ Down(t)
      PROVE  SourceInv'
  BY <1>1, <1>6 DEF Request, WaitResource, WaitEnds, Release, Down, MpmDown
<1>7. CASE TimerExpires \/ LinkChanges \/ PeriodExpires \/ RelaxTimer \/ UNCHANGED vars
  BY <1>1, <1>7 DEF TimerExpires, LinkChanges, PeriodExpires, RelaxTimer
<1>8. ASSUME NEW c \in Callers \union {"timer"}, WakeCall(c)
      PROVE  SourceInv'
  BY <1>1, <1>8, WakeLeavesLink
<1> QED
  BY <1>3, <1>4, <1>5, <1>6, <1>7, <1>8 DEF Next, TaskStep, WakeCall

\* Once the works have run the link's wakeup source is what the state says, if the
\* kernel runs works in order and within the idle time.
THEOREM SourceIsRight ==
  ASSUME InOrder, Prompt
  PROVE  Spec => []SourceFollows
<1>1. Init => SourceInv
  BY DEF Init, SourceInv
<1>2. ManagerInv /\ SourceInv /\ [Next]_vars => SourceInv'
  BY SourceStep
<1>3. SourceInv => SourceFollows
  BY DEF SourceInv, SourceFollows
<1> QED
  BY <1>1, <1>2, <1>3, ManagerInvariant, PTL DEF Spec

-----------------------------------------------------------------------------
(* The wakelock.                                                            *)

\* A handler that has begun may wait through a call, but only one call, or the
\* handler, works on the wakelock: what it has done so far is known, and between
\* the calls the count is that of the flag.  While a call is under way no period is
\* set, so that a handler which gets expires_lock then gives up.
WakeInv ==
  /\ awake \in BOOLEAN /\ period \in BOOLEAN
  /\ \A c, d \in DOMAIN wpc :
       wpc[c] \notin {"out", "fired"} /\ wpc[d] \notin {"out", "fired"} => c = d
  /\ \A c \in DOMAIN wpc :
       /\ wpc[c] \notin {"out", "fired"} => ~period
       /\ wpc[c] = "set" => ~awake
       /\ wpc[c] \in {"later", "count", "clear"} => awake
       /\ wpc[c] = "uncount" => ~awake
       /\ wpc[c] \in {"set", "count"} => locks = 0
       /\ wpc[c] \in {"later", "clear", "uncount"} => locks = 1
  /\ (\A c \in DOMAIN wpc : wpc[c] \notin {"count", "uncount"}) =>
       /\ awake => locks = 1
       /\ ~awake => locks = 0
  /\ period => awake

\* Every step keeps it.
LEMMA WakeInvStep ==
  ASSUME Serial, ManagerInv, WakeInv, [Next]_vars
  PROVE  WakeInv'
<1>1. /\ wpc \in [Callers \union {"timer"} ->
           {"out", "stay", "set", "count", "later", "relax", "clear", "uncount",
            "fired"}]
      /\ DOMAIN wpc = Callers \union {"timer"}
  BY DEF ManagerInv, TypeOK
<1> USE DEF WakeInv, WGoto
<1>2. ASSUME UNCHANGED wakeVars PROVE WakeInv'
  BY <1>2 DEF wakeVars
<1>3. ASSUME NEW c \in Callers \union {"timer"}, RequestPeriod(c) PROVE WakeInv'
  <2>1. \A d \in DOMAIN wpc : wpc[d] \in {"out", "fired"}
    BY <1>3 DEF RequestPeriod, Alone
  <2>2. wpc' = [wpc EXCEPT ![c] = "stay"] /\ period' = FALSE /\ UNCHANGED <<awake, locks>>
    BY <1>3 DEF RequestPeriod, PmsCancelTimer
  <2>3. \A d \in DOMAIN wpc' : d # c => wpc'[d] \in {"out", "fired"}
    BY <1>1, <2>1, <2>2
  <2>4. DOMAIN wpc' = DOMAIN wpc /\ wpc'[c] = "stay"
    BY <1>1, <2>2
  <2>5. \A d, e \in DOMAIN wpc' :
          wpc'[d] \notin {"out", "fired"} /\ wpc'[e] \notin {"out", "fired"} => d = e
    BY <2>3
  <2>6. /\ awake' \in BOOLEAN /\ period' = FALSE
        /\ awake' => locks' = 1
        /\ ~awake' => locks' = 0
    BY <2>1, <2>2
  <2> QED
    BY <2>3, <2>4, <2>5, <2>6
<1>4. ASSUME NEW c \in Callers \union {"timer"}, ReleaseWakelock(c) PROVE WakeInv'
  <2>1. \A d \in DOMAIN wpc : wpc[d] \in {"out", "fired"}
    BY <1>4 DEF ReleaseWakelock, Alone
  <2>2. wpc' = [wpc EXCEPT ![c] = "relax"] /\ period' = FALSE /\ UNCHANGED <<awake, locks>>
    BY <1>4 DEF ReleaseWakelock, PmsCancelTimer
  <2>3. \A d \in DOMAIN wpc' : d # c => wpc'[d] \in {"out", "fired"}
    BY <1>1, <2>1, <2>2
  <2>4. DOMAIN wpc' = DOMAIN wpc /\ wpc'[c] = "relax"
    BY <1>1, <2>2
  <2>5. \A d, e \in DOMAIN wpc' :
          wpc'[d] \notin {"out", "fired"} /\ wpc'[e] \notin {"out", "fired"} => d = e
    BY <2>3
  <2>6. /\ awake' \in BOOLEAN /\ period' = FALSE
        /\ awake' => locks' = 1
        /\ ~awake' => locks' = 0
    BY <2>1, <2>2
  <2> QED
    BY <2>3, <2>4, <2>5, <2>6
<1>5. ASSUME NEW c \in Callers \union {"timer"}, StayTest(c) PROVE WakeInv'
  BY <1>1, <1>5 DEF StayTest
<1>6. ASSUME NEW c \in Callers \union {"timer"}, StaySet(c) PROVE WakeInv'
  BY <1>1, <1>6 DEF StaySet
<1>7. ASSUME NEW c \in Callers \union {"timer"}, StayCount(c) PROVE WakeInv'
  BY <1>1, <1>7 DEF StayCount
<1>8. ASSUME NEW c \in Callers \union {"timer"}, ReleaseLater(c) PROVE WakeInv'
  BY <1>1, <1>8 DEF ReleaseLater
<1>9. ASSUME NEW c \in Callers \union {"timer"}, RelaxTest(c) PROVE WakeInv'
  BY <1>1, <1>9 DEF RelaxTest
<1>10. ASSUME NEW c \in Callers \union {"timer"}, RelaxClear(c) PROVE WakeInv'
  <2>1. wpc[c] = "clear" /\ UNCHANGED <<locks, period>> /\ awake' = FALSE
    BY <1>10 DEF RelaxClear
  <2>2. wpc' = [wpc EXCEPT ![c] = "uncount"]
    BY <1>10 DEF RelaxClear
  <2>3. \A d \in DOMAIN wpc' :
          (wpc'[d] \in {"out", "fired"} /\ d # c) \/ (d = c /\ wpc'[d] = "uncount")
    BY <1>1, <2>1, <2>2
  <2>4. awake' = FALSE /\ period' = FALSE /\ locks' = 1
    BY <1>1, <2>1
  <2>5. \A d, e \in DOMAIN wpc' :
          wpc'[d] \notin {"out", "fired"} /\ wpc'[e] \notin {"out", "fired"} => d = e
    BY <2>3
  <2>6. c \in DOMAIN wpc' /\ wpc'[c] = "uncount"
    BY <1>1, <2>2
  <2> QED
    BY <2>3, <2>4, <2>5, <2>6
<1>11. ASSUME NEW c \in Callers \union {"timer"}, RelaxCount(c) PROVE WakeInv'
  <2>1. wpc[c] = "uncount" /\ UNCHANGED <<awake, period>> /\ locks' = locks - 1
    BY <1>11 DEF RelaxCount
  <2>2. wpc' = [wpc EXCEPT ![c] = "out"]
    BY <1>11 DEF RelaxCount
  <2>3. \A d \in DOMAIN wpc' : wpc'[d] \in {"out", "fired"}
    BY <1>1, <2>1, <2>2
  <2>4. awake' = FALSE /\ period' = FALSE /\ locks' = 0
    BY <1>1, <2>1
  <2> QED
    BY <2>3, <2>4
<1>12. CASE PeriodExpires
  BY <1>1, <1>12 DEF PeriodExpires
<1>13. CASE RelaxTimer
  <2>1. UNCHANGED <<awake, locks>> /\ wpc["timer"] = "fired"
    BY <1>13 DEF RelaxTimer
  <2>2. CASE period /\ ~ptimer
    <3>1. \A c \in DOMAIN wpc : wpc[c] \in {"out", "fired"}
      BY <2>2
    <3>2. period' = FALSE /\ wpc' = [wpc EXCEPT !["timer"] = "relax"]
      BY <1>13, <2>2 DEF RelaxTimer
    <3>3. \A c \in DOMAIN wpc' : wpc'[c] \in {"out", "fired"} \/ (c = "timer" /\ wpc'[c] = "relax")
      BY <3>1, <3>2, <1>1
    <3>4. awake /\ locks = 1
      BY <2>2, <3>1
    <3>5. \A c, d \in DOMAIN wpc' :
            wpc'[c] \notin {"out", "fired"} /\ wpc'[d] \notin {"out", "fired"} => c = d
      BY <3>3
    <3>6. awake' = TRUE /\ period' = FALSE /\ locks' = 1
      BY <2>1, <3>2, <3>4
    <3> QED
      BY <3>3, <3>5, <3>6
  <2>3. CASE ~(period /\ ~ptimer)
    <3>1. period' = period /\ wpc' = [wpc EXCEPT !["timer"] = "out"]
      BY <1>13, <2>3 DEF RelaxTimer
    <3>2. \A c \in DOMAIN wpc : wpc'[c] = wpc[c] \/ (c = "timer" /\ wpc'[c] = "out")
      BY <1>1, <3>1
    <3>3. DOMAIN wpc' = DOMAIN wpc
      BY <1>1, <3>1
    <3> QED
      BY <1>1, <2>1, <3>1, <3>2, <3>3
  <2> QED
    BY <2>2, <2>3
<1>14. ASSUME NEW t \in Tasks, Request(t) \/ TaskStep(t) PROVE UNCHANGED wakeVars
  BY <1>14 DEF Request, TaskStep, Up, WaitResource, WaitEnds, Release, Down
<1>15. CASE TimerExpires \/ DeactiveTimer \/ Work \/ LinkChanges
  BY <1>2, <1>15 DEF TimerExpires, DeactiveTimer, Work, LinkChanges
<1>16. CASE UNCHANGED vars
  BY <1>2, <1>16 DEF vars
<1> QED
  BY <1>2, <1>3, <1>4, <1>5, <1>6, <1>7, <1>8, <1>9, <1>10, <1>11, <1>12,
     <1>13, <1>14, <1>15, <1>16
  DEF Next, WakeStep

\* A wakelock asked for a period is held until the period ends, for any callers,
\* if their calls do not overlap (Serial): the timer may fire, and its handler get
\* expires_lock, at any moment of a call, also when the period is asked for anew.
\* A handler that has given up expires_lock and still relaxes counts as a call of its
\* own here: without Serial it may relax the wakelock in the middle of the new period.
THEOREM WakelockIsHeld ==
  ASSUME Serial
  PROVE  Spec => []HeldForPeriod
<1>1. Init => WakeInv
  <2> SUFFICES ASSUME Init PROVE WakeInv
    OBVIOUS
  <2>1. awake \in BOOLEAN /\ period \in BOOLEAN
    BY Zenon DEF Init
  <2> QED
    BY <2>1 DEF Init, WakeInv
<1>2. ManagerInv /\ WakeInv /\ [Next]_vars => WakeInv'
  BY WakeInvStep
<1>3. WakeInv => HeldForPeriod
  BY DEF WakeInv, HeldForPeriod
<1> QED
  BY <1>1, <1>2, <1>3, ManagerInvariant, PTL DEF Spec

-----------------------------------------------------------------------------
(* PcieResource.                                                            *)

\* The host's count is that of its tasks and of the modem's vote.
Voters == {u \in Users : user[u] # "out"}
Votes == upCnt = Cardinality(Voters) + (IF epOn THEN 1 ELSE 0)

\* A voted link is asked for, and a pending release has no voters.
Asked ==
  /\ upCnt > 0 => mpmState = "busy"
  /\ workq \in {<<>>, <<"request">>, <<"release">>}
  /\ workq = <<"release">> => mpmState = "idle"

\* A queue holds nothing twice.
Set(q) == \A i, j \in DOMAIN q : q[i] = q[j] => i = j

\* Where the endpoint is: off the bus, probed but not yet announced to the modem,
\* in use, or being removed; and what of it the modem has handled.
Gone ==
  /\ ~dev /\ ~notify /\ ~removing /\ bell = "none" /\ msi = <<>>
  /\ \/ epf = <<"UNLINK">> /\ cst = "wait_removed"
     \/ epf = <<>> /\ cst = "removed"
Probed ==
  /\ dev /\ ~removing /\ msi = <<>>
  /\ (notify /\ bell = "none") \/ (~notify /\ bell = "SCANNED")
  /\ \/ epf = <<"LINK_UP">> /\ cst \in {"first", "removed"}
     \/ epf = <<>> /\ cst \in {"first", "wait_scanned"}
InUse == dev /\ ~notify /\ ~removing /\ bell = "none" /\ epf = <<>> /\ cst = "scanned"
Removing ==
  /\ dev /\ ~notify /\ removing /\ epf = <<>>
  /\ (bell = "REMOVING" /\ cst = "scanned") \/ (bell = "none" /\ cst = "wait_removed")
Phase == Gone \/ Probed \/ InUse \/ Removing

\* A scanned link is on the bus and stays there: a removal is queued or runs only
\* in the state for it.
Scanned ==
  /\ rq \in Seq({"scan", "remove"}) /\ Set(rq)
  /\ link = "scanned" => dev /\ ~removing /\ ~Pending(rq, "remove")
  /\ Pending(rq, "remove") => link = "wait_removed"
  /\ removing => link = "wait_removed" /\ ~Pending(rq, "remove")
  /\ \A u \in Users : user[u] = "held" => link = "scanned"

\* Before the first probe nobody has voted for the modem.
First == first => notify /\ cst = "first" /\ ~wake /\ ~epOn

\* A vote of the modem is on its way or has arrived: the last interrupt raised is
\* its request, a wake-up has no release behind it.
OnItsWay ==
  \/ msi = <<>> /\ epOn
  \/ msi # <<>> /\ msi[Len(msi)] = "REQUEST"
  \/ wake \/ msiLater \/ wakeLater
Vote ==
  /\ msi \in Seq({"REQUEST", "RELEASE"}) /\ Set(msi)
  /\ \A i \in DOMAIN msi : msi[i] = "RELEASE" => i = 1 /\ ~wake
  /\ cwant => OnItsWay

Types ==
  /\ {epOn, first, dev, notify, removing, wake, msiLater, wakeLater, cwant}
       \subseteq BOOLEAN
  /\ upCnt \in Nat /\ mpmState \in {"idle", "busy"}
  /\ link \in {"first", "scanned", "wait_removed", "removed"}
  /\ user \in [Users -> {"out", "wait", "held"}]
  /\ cst \in {"first", "wait_scanned", "scanned", "wait_removed", "removed"}

PcieInv == Types /\ Votes /\ Asked /\ Phase /\ Scanned /\ First /\ Vote

-----------------------------------------------------------------------------
(* Queues.                                                                  *)

\* What queue_work, or raising an interrupt, does to a queue without duplicates.
LEMMA OnceSet ==
  ASSUME NEW S, NEW q \in Seq(S), Set(q), NEW x \in S
  PROVE  /\ Once(q, x) \in Seq(S) /\ Set(Once(q, x)) /\ Once(q, x) # <<>>
         /\ \A y : Pending(Once(q, x), y) <=> Pending(q, y) \/ y = x
         /\ \A i \in DOMAIN q : i \in DOMAIN Once(q, x) /\ Once(q, x)[i] = q[i]
         /\ \A i \in DOMAIN Once(q, x) : i \in DOMAIN q \/ Once(q, x)[i] = x
<1>1. CASE \E i \in DOMAIN q : q[i] = x
  <2>1. Once(q, x) = q /\ q # <<>>
    BY <1>1 DEF Once
  <2> QED
    BY <1>1, <2>1 DEF Pending
<1>2. CASE \A i \in DOMAIN q : q[i] # x
  <2>1. Once(q, x) = Append(q, x) /\ Len(q) \in Nat
    BY <1>2 DEF Once
  <2> DEFINE r == Append(q, x)
  <2>2. /\ r \in Seq(S) /\ Len(r) = Len(q) + 1 /\ r[Len(q) + 1] = x
        /\ \A i \in 1 .. Len(q) : r[i] = q[i]
    BY <2>1
  <2>3. DOMAIN r = 1 .. Len(q) + 1 /\ DOMAIN q = 1 .. Len(q)
    BY <2>1, <2>2
  <2> HIDE DEF r
  <2>4. Set(r)
    BY <1>2, <2>1, <2>2, <2>3 DEF Set
  <2>5. \A y : Pending(r, y) <=> Pending(q, y) \/ y = x
    BY <2>1, <2>2, <2>3 DEF Pending
  <2> QED
    BY <2>1, <2>2, <2>3, <2>4, <2>5 DEF r
<1> QED
  BY <1>1, <1>2

\* Taking the oldest element.
LEMMA TailSet ==
  ASSUME NEW S, NEW q \in Seq(S), Set(q), q # <<>>
  PROVE  /\ Tail(q) \in Seq(S) /\ Set(Tail(q)) /\ Head(q) = q[1] /\ 1 \in DOMAIN q
         /\ \A y : Pending(Tail(q), y) <=> Pending(q, y) /\ y # Head(q)
         /\ Len(Tail(q)) = Len(q) - 1
         /\ \A i \in DOMAIN Tail(q) : i + 1 \in DOMAIN q /\ Tail(q)[i] = q[i + 1]
<1> DEFINE r == Tail(q)
<1>1. Len(q) \in Nat /\ Len(q) # 0 /\ DOMAIN q = 1 .. Len(q) /\ Head(q) = q[1]
  OBVIOUS
<1>2. /\ r \in Seq(S) /\ Len(r) = Len(q) - 1 /\ DOMAIN r = 1 .. Len(q) - 1
      /\ \A i \in 1 .. Len(q) - 1 : r[i] = q[i + 1]
  BY <1>1
<1> HIDE DEF r
<1>3. Set(r)
  <2> SUFFICES ASSUME NEW i \in DOMAIN r, NEW j \in DOMAIN r, r[i] = r[j] PROVE i = j
    BY DEF Set
  <2>1. /\ i + 1 \in DOMAIN q /\ j + 1 \in DOMAIN q /\ i \in Nat /\ j \in Nat
        /\ q[i + 1] = q[j + 1]
    BY <1>1, <1>2
  <2>2. i + 1 = j + 1
    BY <2>1 DEF Set
  <2> QED
    BY <2>1, <2>2
<1>4. \A y : Pending(r, y) <=> Pending(q, y) /\ y # q[1]
  <2>1. ASSUME NEW y, Pending(r, y) PROVE Pending(q, y) /\ y # q[1]
    BY <1>1, <1>2, <2>1 DEF Pending, Set
  <2>2. ASSUME NEW y, Pending(q, y), y # q[1] PROVE Pending(r, y)
    <3>1. PICK i \in DOMAIN q : q[i] = y
      BY <2>2 DEF Pending
    <3>2. i - 1 \in DOMAIN r /\ r[i - 1] = y
      BY <1>1, <1>2, <2>2, <3>1
    <3> QED
      BY <3>2 DEF Pending
  <2> QED
    BY <2>1, <2>2
<1> QED
  BY <1>1, <1>2, <1>3, <1>4 DEF r

\* Two kinds of elements make a queue of at most two.
LEMMA TwoSet ==
  ASSUME NEW a, NEW b, NEW q \in Seq({a, b}), Set(q)
  PROVE  Len(q) <= 2
<1> SUFFICES ASSUME Len(q) > 2 PROVE FALSE
  OBVIOUS
<1>1. 1 \in DOMAIN q /\ 2 \in DOMAIN q /\ 3 \in DOMAIN q
  OBVIOUS
<1>2. q[1] \in {a, b} /\ q[2] \in {a, b} /\ q[3] \in {a, b}
  BY <1>1
<1>3. q[1] # q[2] /\ q[1] # q[3] /\ q[2] # q[3]
  BY <1>1 DEF Set
<1> QED
  BY <1>2, <1>3

\* A queue of at most one element.
LEMMA OneOfTwo ==
  ASSUME NEW a, NEW b, NEW q, q = <<>> \/ q = <<a>> \/ q = <<b>>
  PROVE  q \in Seq({a, b}) /\ Len(q) <= 2
<1>1. CASE q = <<>>
  BY <1>1
<1>2. CASE q = <<a>>
  BY <1>2
<1>3. CASE q = <<b>>
  BY <1>3
<1> QED
  BY <1>1, <1>2, <1>3

\* An interrupt handled in order is the oldest one.
LEMMA WithoutFirst ==
  ASSUME NEW S, NEW q \in Seq(S), q # <<>>
  PROVE  Without(q, 1) = Tail(q)
<1>1. Tail(q) = SubSeq(q, 2, Len(q)) /\ Tail(q) \in Seq(S)
  BY TailIsSubSeq
<1>2. SubSeq(q, 1, 0) = <<>>
  BY SubSeqEmpty
<1>3. Without(q, 1) = SubSeq(q, 1, 0) \o SubSeq(q, 2, Len(q))
  BY DEF Without
<1>4. <<>> \o Tail(q) = Tail(q)
  BY <1>1, ConcatEmptySeq
<1> QED
  BY <1>1, <1>2, <1>3, <1>4

-----------------------------------------------------------------------------
(* Votes.                                                                   *)

\* A task that starts or ends a vote changes the number of voters by one.
LEMMA VoterMoves ==
  ASSUME Types, IsFiniteSet(Users), NEW u \in Users, NEW b,
         user' = [user EXCEPT ![u] = b]
  PROVE  /\ Cardinality(Voters) \in Nat
         /\ Cardinality(Voters') =
              IF user[u] = "out" /\ b # "out" THEN Cardinality(Voters) + 1
              ELSE IF user[u] # "out" /\ b = "out" THEN Cardinality(Voters) - 1
              ELSE Cardinality(Voters)
<1>1. Voters' = IF b # "out" THEN Voters \union {u} ELSE Voters \ {u}
  BY DEF Types, Voters
<1>2. u \in Voters <=> user[u] # "out"
  BY DEF Voters
<1>3. IsFiniteSet(Voters) /\ Cardinality(Voters) \in Nat
  <2>1. Voters \in SUBSET Users
    BY DEF Voters
  <2> QED
    BY <2>1, FS_Subset, FS_CardinalityType
<1>4. Cardinality(Voters \union {u}) =
        IF u \in Voters THEN Cardinality(Voters) ELSE Cardinality(Voters) + 1
  BY <1>3, FS_AddElement
<1>5. Cardinality(Voters \ {u}) =
        IF u \in Voters THEN Cardinality(Voters) - 1 ELSE Cardinality(Voters)
  BY <1>3, FS_RemoveElement
<1> QED
  BY <1>1, <1>2, <1>3, <1>4, <1>5

\* The number of voters is a natural number, at most that of the tasks, and not 0
\* when there is one.
LEMMA VotersCount ==
  ASSUME IsFiniteSet(Users)
  PROVE  /\ Cardinality(Voters) \in Nat /\ Cardinality(Users) \in Nat
         /\ Cardinality(Voters) <= Cardinality(Users)
         /\ \A u \in Users : user[u] # "out" => Cardinality(Voters) > 0
<1>1. Voters \in SUBSET Users
  BY DEF Voters
<1>2. /\ IsFiniteSet(Voters) /\ Cardinality(Voters) \in Nat /\ Cardinality(Users) \in Nat
      /\ Cardinality(Voters) <= Cardinality(Users)
  BY <1>1, FS_Subset, FS_CardinalityType
<1>3. ASSUME NEW u \in Users, user[u] # "out" PROVE Cardinality(Voters) > 0
  <2>1. u \in Voters
    BY <1>3 DEF Voters
  <2>2. Cardinality(Voters) # 0
    BY <1>2, <2>1, FS_EmptySet
  <2> QED
    BY <1>2, <2>2
<1> QED
  BY <1>2, <1>3

-----------------------------------------------------------------------------
(* The step of the inductive invariant, conjunct by conjunct.               *)

\* Every step keeps the types; the count of the votes is never taken below 0.
LEMMA TypesStep ==
  ASSUME PcieInv, [PcieNext]_pcieVars
  PROVE  Types'
<1> USE DEF PcieInv, Types, mgrVars, hostVars, clientVars, wires, pcieVars
<1>1. {epOn, first, dev, notify, removing, wake, msiLater, wakeLater, cwant}
        \subseteq BOOLEAN
  OBVIOUS
<1>2. ASSUME NEW u \in Users, UserRequest(u) \/ UserHolds(u) \/ UserRelease(u) PROVE Types'
  BY <1>2 DEF UserRequest, UserHolds, UserRelease, MpmVote, MpmUnvote
<1>3. CASE Idle \/ PcieWork
  BY <1>3 DEF Idle, PcieWork, MpmDeactive, MpmWork
<1>4. CASE ScanFn \/ RemoveFn
  BY <1>4 DEF ScanFn, RemoveFn
<1>5. CASE Unconfigure
  BY <1>5 DEF Unconfigure
<1>6. CASE NotifyFn
  <2>1. upCnt' \in Nat /\ mpmState' \in {"idle", "busy"} /\ epOn' \in BOOLEAN
    <3>1. CASE first
      BY <1>6, <3>1 DEF NotifyFn, MpmVote
    <3>2. CASE ~first
      BY <1>6, <3>2 DEF NotifyFn
    <3> QED
      BY <3>1, <3>2
  <2> QED
    BY <1>6, <2>1 DEF NotifyFn
<1>7. CASE HostIrq \/ HostWake
  <2>1. /\ MpmVote \/ MpmUnvote \/ UNCHANGED mgrVars
        /\ epOn' = TRUE \/ epOn' = FALSE
        /\ wake' = wake \/ wake' = FALSE
        /\ UNCHANGED <<link, first, dev, notify, rq, removing, user, clientVars, bell, epf>>
    BY <1>7, Zenon DEF HostIrq, HostWake
  <2>2. upCnt' \in Nat /\ mpmState' \in {"idle", "busy"}
    BY <2>1 DEF MpmVote, MpmUnvote
  <2> QED
    BY <2>1, <2>2
<1>9. CASE ClientRequest
  <2>1. wake' \in BOOLEAN /\ wakeLater' \in BOOLEAN /\ msiLater' \in BOOLEAN
    BY <1>9, Zenon DEF ClientRequest
  <2> QED
    BY <1>9, <2>1 DEF ClientRequest
<1>10. CASE ClientRelease
  <2>1. msiLater' \in BOOLEAN
    BY <1>10, Zenon DEF ClientRelease
  <2> QED
    BY <1>10, <2>1 DEF ClientRelease
<1>11. CASE ClientBell
  BY <1>11 DEF ClientBell
<1>12. CASE ClientEpf
  <2>1. wake' \in BOOLEAN
    <3>1. wake' = wake \/ wake' = (wake \/ wakeLater)
      BY <1>12 DEF ClientEpf
    <3> QED
      BY <3>1
  <2> QED
    BY <1>12, <2>1 DEF ClientEpf
<1>13. CASE UNCHANGED pcieVars
  BY <1>13
<1> QED
  BY <1>2, <1>3, <1>4, <1>5, <1>6, <1>7, <1>9, <1>10, <1>11, <1>12, <1>13
  DEF PcieNext, Kernel, Modem

\* Every step keeps the count that of the votes, and a voted link asked for.
LEMMA VotesStep ==
  ASSUME PcieInv, [PcieNext]_pcieVars, InTime, IsFiniteSet(Users)
  PROVE  Votes' /\ Asked'
<1> USE DEF PcieInv, Votes, Asked, mgrVars, hostVars, clientVars, wires, pcieVars
<1>0. /\ Cardinality(Voters) \in Nat /\ upCnt \in Nat /\ mpmState \in {"idle", "busy"}
      /\ epOn \in BOOLEAN
  BY VotersCount DEF Types
<1>1. /\ workq \in {<<>>, <<"request">>, <<"release">>}
      /\ upCnt > 0 => mpmState = "busy"
      /\ workq = <<"release">> => mpmState = "idle"
      /\ upCnt = Cardinality(Voters) + (IF epOn THEN 1 ELSE 0)
  OBVIOUS
<1>2. ASSUME MayVote, MpmVote PROVE upCnt' = upCnt + 1 /\ Asked'
  <2>1. workq # <<"release">>
    <3> SUFFICES ASSUME workq = <<"release">> PROVE FALSE
      OBVIOUS
    <3>1. 1 \in DOMAIN workq /\ workq[1] = "release"
      OBVIOUS
    <3> QED
      BY <1>2, <3>1 DEF MayVote, Pending
  <2>2. workq = <<>> => ScheduleWork("request") = <<"request">>
    BY DEF ScheduleWork
  <2>3. workq = <<"request">> => ScheduleWork("request") = <<"request">>
    BY DEF ScheduleWork
  <2> QED
    BY <1>0, <1>1, <1>2, <2>1, <2>2, <2>3 DEF MpmVote
<1>3. ASSUME MpmUnvote PROVE upCnt' = upCnt - 1 /\ Asked'
  BY <1>0, <1>1, <1>3 DEF MpmUnvote
<1>4. ASSUME UNCHANGED mgrVars PROVE upCnt' = upCnt /\ Asked'
  BY <1>1, <1>4
<1>5. user' = user => Voters' = Voters
  BY DEF Voters
<1>6. ASSUME NEW u \in Users, UserRequest(u) PROVE Votes' /\ Asked'
  <2>1. /\ Types /\ MayVote /\ MpmVote /\ epOn' = epOn /\ user[u] = "out"
        /\ user' = [user EXCEPT ![u] = "wait"]
    BY <1>6 DEF UserRequest
  <2>2. Cardinality(Voters') = Cardinality(Voters) + 1
    <3>1. Cardinality(Voters') = IF user[u] = "out" /\ "wait" # "out"
                                 THEN Cardinality(Voters) + 1
                                 ELSE IF user[u] # "out" /\ "wait" = "out"
                                      THEN Cardinality(Voters) - 1
                                      ELSE Cardinality(Voters)
      BY <2>1, VoterMoves
    <3> QED
      BY <2>1, <3>1
  <2> QED
    BY <1>0, <1>1, <1>2, <2>1, <2>2
<1>7. ASSUME NEW u \in Users, UserHolds(u) PROVE Votes' /\ Asked'
  <2>1. /\ Types /\ UNCHANGED mgrVars /\ epOn' = epOn /\ user[u] = "wait"
        /\ user' = [user EXCEPT ![u] = "held"]
    BY <1>7 DEF UserHolds
  <2>2. Cardinality(Voters') = Cardinality(Voters)
    BY <2>1, VoterMoves
  <2> QED
    BY <1>0, <1>1, <1>4, <2>1, <2>2
<1>8. ASSUME NEW u \in Users, UserRelease(u) PROVE Votes' /\ Asked'
  <2>1. /\ Types /\ MpmUnvote /\ epOn' = epOn /\ user[u] # "out"
        /\ user' = [user EXCEPT ![u] = "out"]
    BY <1>8 DEF UserRelease
  <2>2. Cardinality(Voters') = Cardinality(Voters) - 1
    BY <2>1, VoterMoves
  <2> QED
    BY <1>0, <1>1, <1>3, <2>1, <2>2
<1>9. CASE Idle
  <2>1. /\ workq = <<>> /\ workq' = ScheduleWork("release")
        /\ upCnt' = upCnt /\ upCnt = 0 /\ mpmState' = "idle"
    BY <1>9 DEF Idle, MpmDeactive
  <2>2. workq' = <<"release">>
    BY <2>1 DEF ScheduleWork
  <2> QED
    BY <1>1, <1>5, <1>9, <2>1, <2>2 DEF Idle
<1>10. CASE PcieWork
  <2>1. workq # <<>> /\ workq' = Tail(workq) /\ upCnt' = upCnt /\ mpmState' = mpmState
    BY <1>10 DEF PcieWork, MpmWork
  <2>2. workq' = <<>>
    BY <1>1, <2>1
  <2> QED
    BY <1>1, <1>5, <1>10, <2>1, <2>2 DEF PcieWork
<1>11. CASE ScanFn \/ RemoveFn \/ Unconfigure
  BY <1>1, <1>4, <1>5, <1>11 DEF ScanFn, RemoveFn, Unconfigure
<1>12. CASE NotifyFn
  <2>1. CASE first
    <3>1. MayVote /\ MpmVote /\ epOn' = TRUE /\ epOn = FALSE
      BY <1>12, <2>1 DEF NotifyFn, MayVote, First, Types
    <3> QED
      BY <1>0, <1>1, <1>2, <1>5, <1>12, <3>1 DEF NotifyFn
  <2>2. CASE ~first
    BY <1>1, <1>4, <1>5, <1>12, <2>2 DEF NotifyFn
  <2> QED
    BY <2>1, <2>2
<1>13. CASE HostIrq
  <2>1. PICK i \in DOMAIN msi :
          /\ IF msi[i] = "REQUEST"
             THEN /\ MayVote
                  /\ IF epOn THEN UNCHANGED mgrVars ELSE MpmVote
                  /\ epOn' = TRUE
             ELSE (IF epOn THEN MpmUnvote ELSE UNCHANGED mgrVars) /\ epOn' = FALSE
          /\ user' = user
    BY <1>13 DEF HostIrq
  <2>2. CASE msi[i] = "REQUEST"
    BY <1>0, <1>1, <1>2, <1>4, <1>5, <2>1, <2>2
  <2>3. CASE msi[i] # "REQUEST"
    BY <1>0, <1>1, <1>3, <1>4, <1>5, <2>1, <2>3
  <2> QED
    BY <2>2, <2>3
<1>14. CASE HostWake
  <2>1. MayVote /\ (IF epOn THEN UNCHANGED mgrVars ELSE MpmVote) /\ epOn' = TRUE /\ user' = user
    BY <1>14 DEF HostWake
  <2> QED
    BY <1>0, <1>1, <1>2, <1>4, <1>5, <2>1
<1>15. CASE ClientRequest \/ ClientRelease \/ ClientBell \/ ClientEpf \/ UNCHANGED pcieVars
  BY <1>1, <1>4, <1>5, <1>15 DEF ClientRequest, ClientRelease, ClientBell, ClientEpf
<1> QED
  BY <1>6, <1>7, <1>8, <1>9, <1>10, <1>11, <1>12, <1>13, <1>14, <1>15
  DEF PcieNext, Kernel, Modem

\* Every step keeps the endpoint in one of its phases.
LEMMA PhaseStep ==
  ASSUME PcieInv, [PcieNext]_pcieVars
  PROVE  Phase'
<1> USE DEF PcieInv, Phase, Gone, Probed, InUse, Removing,
        mgrVars, hostVars, clientVars, wires, pcieVars
<1>0. {dev, notify, removing} \subseteq BOOLEAN
  BY DEF Types
<1>1. ASSUME UNCHANGED <<dev, notify, removing, bell, msi, epf, cst>> PROVE Phase'
  BY <1>1
<1>2. ASSUME NEW u \in Users, UserRequest(u) \/ UserHolds(u) \/ UserRelease(u) PROVE Phase'
  BY <1>1, <1>2 DEF UserRequest, UserHolds, UserRelease
<1>3. CASE Idle \/ PcieWork \/ HostWake
  BY <1>1, <1>3 DEF Idle, PcieWork, HostWake
<1>4. CASE ScanFn
  <2>1. CASE dev
    BY <1>1, <1>4, <2>1 DEF ScanFn
  <2>2. CASE ~dev
    <3>1. epf = <<>> /\ epf' = Append(epf, "LINK_UP")
      BY <1>4, <2>2 DEF ScanFn, GapOver
    <3>2. epf' = <<"LINK_UP">>
      BY <3>1
    <3> QED
      BY <1>4, <2>2, <3>1, <3>2 DEF ScanFn
  <2> QED
    BY <2>1, <2>2
<1>5. CASE RemoveFn
  BY <1>0, <1>1, <1>5 DEF RemoveFn, GapOver
<1>6. CASE Unconfigure
  <2>1. epf = <<>> /\ epf' = Append(epf, "UNLINK") /\ cst = "wait_removed"
    BY <1>0, <1>6 DEF Unconfigure
  <2>2. epf' = <<"UNLINK">>
    BY <2>1
  <2> QED
    BY <1>6, <2>1, <2>2 DEF Unconfigure
<1>7. CASE NotifyFn
  BY <1>0, <1>7 DEF NotifyFn
<1>8. CASE HostIrq
  BY <1>8 DEF HostIrq
<1>9. CASE ClientRequest \/ ClientRelease
  BY <1>9 DEF ClientRequest, ClientRelease
<1>10. CASE ClientBell
  BY <1>0, <1>10 DEF ClientBell
<1>11. CASE ClientEpf
  BY <1>0, <1>11 DEF ClientEpf
<1>12. CASE UNCHANGED pcieVars
  BY <1>1, <1>12
<1> QED
  BY <1>2, <1>3, <1>4, <1>5, <1>6, <1>7, <1>8, <1>9, <1>10, <1>11, <1>12
  DEF PcieNext, Kernel, Modem

\* Every step keeps a scanned link on the bus.
LEMMA ScannedStep ==
  ASSUME PcieInv, [PcieNext]_pcieVars, InTime, IsFiniteSet(Users)
  PROVE  Scanned'
<1> USE DEF PcieInv, Scanned, mgrVars, hostVars, clientVars, wires, pcieVars
<1>0. /\ {dev, notify, removing, first} \subseteq BOOLEAN
      /\ user \in [Users -> {"out", "wait", "held"}]
      /\ link \in {"first", "scanned", "wait_removed", "removed"}
  BY DEF Types
<1>1. ASSUME UNCHANGED <<rq, link, dev, removing, user>> PROVE Scanned'
  BY <1>1 DEF Pending, Set
<1>2. ASSUME NEW u \in Users, UserRequest(u) \/ UserHolds(u) \/ UserRelease(u) PROVE Scanned'
  BY <1>0, <1>2 DEF UserRequest, UserHolds, UserRelease, Pending, Set
<1>3. CASE PcieWork
  <2>1. CASE Head(workq) = "request"
    <3>0. rq \in Seq({"scan", "remove"}) /\ Set(rq) /\ "scan" \in {"scan", "remove"}
      OBVIOUS
    <3>1. rq' = rq \/ rq' = Once(rq, "scan")
      BY <1>3, <2>1 DEF PcieWork, StartScan
    <3>2. UNCHANGED <<link, dev, removing, user>>
      BY <1>3, <2>1 DEF PcieWork
    <3>4. /\ Once(rq, "scan") \in Seq({"scan", "remove"}) /\ Set(Once(rq, "scan"))
          /\ \A y : Pending(Once(rq, "scan"), y) <=> Pending(rq, y) \/ y = "scan"
      BY <3>0, OnceSet
    <3>3. /\ Once(rq, "scan") \in Seq({"scan", "remove"}) /\ Set(Once(rq, "scan"))
          /\ Pending(Once(rq, "scan"), "remove") <=> Pending(rq, "remove")
      BY <3>4
    <3> QED
      BY <3>1, <3>2, <3>3 DEF Pending, Set
  <2>2. CASE Head(workq) # "request"
    <3>1. workq = <<"release">>
      BY <1>3, <2>2 DEF PcieWork, MpmWork, Asked
    <3>2. \A u \in Users : user[u] = "out"
      BY <3>1, VotersCount DEF Asked, Votes, Types
    <3>3. CASE link \in {"scanned", "first"}
      <4>1. link' = "wait_removed" /\ rq' = Once(rq, "remove") /\ user' = user
        BY <1>3, <2>2, <3>3 DEF PcieWork
      <4>2. removing' = removing /\ ~removing
        BY <1>3, <3>3 DEF PcieWork
      <4>0. rq \in Seq({"scan", "remove"}) /\ Set(rq) /\ "remove" \in {"scan", "remove"}
        OBVIOUS
      <4>3. rq' \in Seq({"scan", "remove"}) /\ Set(rq')
        BY <4>0, <4>1, OnceSet
      <4> QED
        BY <3>2, <4>1, <4>2, <4>3
    <3>4. CASE link \notin {"scanned", "first"}
      BY <1>1, <1>3, <2>2, <3>4 DEF PcieWork
    <3> QED
      BY <3>3, <3>4
  <2> QED
    BY <2>1, <2>2
<1>4. CASE ScanFn \/ RemoveFn
  <2>1. /\ rq # <<>> /\ rq' = Tail(rq) /\ UNCHANGED <<link, user>>
    BY <1>4 DEF ScanFn, RemoveFn
  <2>2. /\ rq' \in Seq({"scan", "remove"}) /\ Set(rq')
        /\ Pending(rq', "remove") <=> Pending(rq, "remove") /\ "remove" # Head(rq)
        /\ Pending(rq, Head(rq))
    <3>0. rq \in Seq({"scan", "remove"}) /\ Set(rq)
      OBVIOUS
    <3>1. /\ Tail(rq) \in Seq({"scan", "remove"}) /\ Set(Tail(rq))
          /\ Head(rq) = rq[1] /\ 1 \in DOMAIN rq
          /\ Pending(Tail(rq), "remove") <=> Pending(rq, "remove") /\ "remove" # Head(rq)
      BY <2>1, <3>0, TailSet
    <3>2. Pending(rq, Head(rq))
      BY <3>1 DEF Pending
    <3>3. rq' = Tail(rq)
      BY <2>1
    <3> HIDE DEF Scanned, PcieInv
    <3> QED
      BY <3>1, <3>2, <3>3 DEF Pending, Set
  <2>3. CASE ScanFn
    <3>1. removing' = removing /\ (dev => dev')
      BY <1>0, <2>3 DEF ScanFn
    <3> QED
      BY <2>1, <2>2, <3>1
  <2>4. CASE RemoveFn
    <3>1. Head(rq) = "remove" /\ dev' = dev /\ link = "wait_removed"
      BY <2>2, <2>4 DEF RemoveFn
    <3> QED
      BY <2>1, <2>2, <3>1
  <2> QED
    BY <1>4, <2>3, <2>4
<1>5. CASE Unconfigure
  <2>1. /\ link' = "removed" /\ removing' = FALSE /\ UNCHANGED <<rq, user>>
        /\ ~Pending(rq, "remove") /\ link = "wait_removed"
    BY <1>5 DEF Unconfigure
  <2> QED
    BY <2>1 DEF Pending, Set
<1>6. CASE NotifyFn
  <2>1. /\ link' = "scanned" /\ ~Pending(rq, "remove") /\ UNCHANGED <<rq, user, dev, removing>>
        /\ notify
    BY <1>6 DEF NotifyFn
  <2>2. dev /\ ~removing
    BY <1>0, <2>1 DEF Phase, Gone, Probed, InUse, Removing
  <2> QED
    BY <2>1, <2>2 DEF Pending, Set
<1>7. CASE Idle \/ HostIrq \/ HostWake
  BY <1>1, <1>7 DEF Idle, HostIrq, HostWake
<1>8. CASE ClientRequest \/ ClientRelease \/ ClientBell \/ ClientEpf \/ UNCHANGED pcieVars
  BY <1>1, <1>8 DEF ClientRequest, ClientRelease, ClientBell, ClientEpf
<1> QED
  BY <1>2, <1>3, <1>4, <1>5, <1>6, <1>7, <1>8 DEF PcieNext, Kernel, Modem

\* Before the first probe no step votes for the modem.
LEMMA FirstStep ==
  ASSUME PcieInv, [PcieNext]_pcieVars
  PROVE  First'
<1> USE DEF PcieInv, First, mgrVars, hostVars, clientVars, wires, pcieVars
<1>0. first \in BOOLEAN /\ notify \in BOOLEAN /\ first' \in BOOLEAN
  BY TypesStep DEF Types
<1>1. ASSUME UNCHANGED <<first, notify, cst, wake, epOn>> PROVE First'
  BY <1>1
<1>2. CASE Idle \/ PcieWork \/ \E u \in Users : UserRequest(u) \/ UserHolds(u) \/ UserRelease(u)
  BY <1>1, <1>2 DEF Idle, PcieWork, UserRequest, UserHolds, UserRelease
<1>3. CASE RemoveFn \/ ClientRelease \/ UNCHANGED pcieVars
  BY <1>1, <1>3 DEF RemoveFn, ClientRelease
<1>4. CASE NotifyFn
  BY <1>4 DEF NotifyFn
<1> SUFFICES ASSUME first', ~(NotifyFn \/ Idle \/ PcieWork \/ RemoveFn \/ ClientRelease),
                    ~UNCHANGED pcieVars,
                    ~\E u \in Users : UserRequest(u) \/ UserHolds(u) \/ UserRelease(u)
             PROVE  notify' /\ cst' = "first" /\ ~wake' /\ ~epOn'
  BY <1>2, <1>3, <1>4
<1>5. first
  BY DEF PcieNext, Kernel, Modem, ScanFn, Unconfigure, HostIrq, HostWake, ClientRequest,
         ClientBell, ClientEpf
<1>6. /\ dev /\ ~removing /\ msi = <<>> /\ bell = "none"
      /\ epf = <<"LINK_UP">> \/ epf = <<>>
  BY <1>0, <1>5 DEF Phase, Gone, Probed, InUse, Removing
<1>i. notify /\ cst = "first" /\ ~wake /\ ~epOn
  BY <1>5
<1> HIDE DEF PcieInv, First
<1>7. CASE ScanFn \/ Unconfigure
  <2>1. UNCHANGED <<notify, cst, wake, epOn>>
    BY <1>6, <1>7 DEF ScanFn, Unconfigure
  <2> QED
    BY <1>i, <2>1
<1>8. CASE HostIrq \/ HostWake
  BY <1>i, <1>6, <1>8 DEF HostIrq, HostWake
<1>9. CASE ClientRequest \/ ClientBell
  <2>1. ClientRequest
    BY <1>6, <1>9 DEF ClientBell
  <2>2. UNCHANGED <<notify, cst, epOn>> /\ wake' = (wake \/ (cst = "removed" /\ ~LinkingUp))
    BY <2>1 DEF ClientRequest
  <2> QED
    BY <1>i, <2>2
<1>10. CASE ClientEpf
  <2>1. Head(epf) = "LINK_UP"
    BY <1>6, <1>10 DEF ClientEpf
  <2> QED
    BY <1>i, <1>10, <2>1 DEF ClientEpf
<1> QED
  BY <1>7, <1>8, <1>9, <1>10 DEF PcieNext, Kernel, Modem

\* A release is behind no request: a queue with a request ends with one.
LEMMA LastIsRequest ==
  ASSUME NEW q \in Seq({"REQUEST", "RELEASE"}), Pending(q, "REQUEST"),
         \A i \in DOMAIN q : q[i] = "RELEASE" => i = 1
  PROVE  q # <<>> /\ q[Len(q)] = "REQUEST"
<1>1. PICK i \in DOMAIN q : q[i] = "REQUEST"
  BY DEF Pending
<1>2. DOMAIN q = 1 .. Len(q) /\ Len(q) \in Nat
  OBVIOUS
<1>3. Len(q) \in DOMAIN q /\ Len(q) # 0
  BY <1>1, <1>2
<1>4. q[Len(q)] \in {"REQUEST", "RELEASE"}
  BY <1>3
<1>5. q[Len(q)] # "RELEASE"
  BY <1>1, <1>2, <1>3
<1> QED
  BY <1>3, <1>4, <1>5

\* Every step keeps the vote of the modem on its way, or counted.
LEMMA VoteStep ==
  ASSUME PcieInv, [PcieNext]_pcieVars, MsiInOrder
  PROVE  Vote'
<1> DEFINE Kinds == {"REQUEST", "RELEASE"}
<1>0. /\ msi \in Seq(Kinds) /\ Set(msi)
      /\ \A i \in DOMAIN msi : msi[i] = "RELEASE" => i = 1 /\ ~wake
      /\ cwant => OnItsWay
      /\ {epOn, first, wake, msiLater, wakeLater, cwant} \subseteq BOOLEAN
  BY DEF PcieInv, Vote, Types
<1>p. \/ msi = <<>> /\ cst # "scanned"
      \/ epf = <<>> /\ cst \in {"scanned", "wait_removed"}
  BY DEF PcieInv, Phase, Gone, Probed, InUse, Removing
<1>1. ASSUME UNCHANGED <<msi, wake, msiLater, wakeLater, cwant>>, epOn => epOn' PROVE Vote'
  BY <1>0, <1>1, Zenon DEF Vote, OnItsWay, Set
<1> USE DEF mgrVars, hostVars, clientVars, wires, pcieVars
<1>2. ASSUME NEW u \in Users, UserRequest(u) \/ UserHolds(u) \/ UserRelease(u) PROVE Vote'
  BY <1>1, <1>2 DEF UserRequest, UserHolds, UserRelease
<1>3. CASE Idle \/ PcieWork \/ ScanFn \/ RemoveFn \/ Unconfigure \/ UNCHANGED pcieVars
  BY <1>1, <1>3 DEF Idle, PcieWork, ScanFn, RemoveFn, Unconfigure
<1>4. CASE NotifyFn
  <2>1. epOn' = epOn \/ epOn' = TRUE
    BY <1>4 DEF NotifyFn
  <2> QED
    BY <1>1, <1>4, <2>1 DEF NotifyFn
<1>h. Set(Once(msi, "REQUEST")) /\ Once(msi, "REQUEST") \in Seq(Kinds)
      /\ Once(msi, "REQUEST") # <<>> /\ Once(msi, "REQUEST")[Len(Once(msi, "REQUEST"))] = "REQUEST"
      /\ \A i \in DOMAIN Once(msi, "REQUEST") :
            Once(msi, "REQUEST")[i] = "RELEASE" => i \in DOMAIN msi /\ msi[i] = "RELEASE"
  <2> DEFINE r == Once(msi, "REQUEST")
  <2>0. "REQUEST" \in Kinds
    OBVIOUS
  <2>1. /\ r \in Seq(Kinds) /\ Set(r) /\ r # <<>>
        /\ \A y : Pending(r, y) <=> Pending(msi, y) \/ y = "REQUEST"
        /\ \A i \in DOMAIN msi : i \in DOMAIN r /\ r[i] = msi[i]
        /\ \A i \in DOMAIN r : i \in DOMAIN msi \/ r[i] = "REQUEST"
    <3> HIDE DEF Kinds
    <3> QED
      BY <1>0, <2>0, OnceSet
  <2> HIDE DEF r
  <2>2. \A i \in DOMAIN r : r[i] = "RELEASE" => i \in DOMAIN msi /\ msi[i] = "RELEASE"
    BY <2>1
  <2>3. Pending(r, "REQUEST") /\ \A i \in DOMAIN r : r[i] = "RELEASE" => i = 1
    BY <1>0, <2>1, <2>2
  <2>4. r # <<>> /\ r[Len(r)] = "REQUEST"
    BY <2>1, <2>3, LastIsRequest
  <2> QED
    BY <2>1, <2>2, <2>4 DEF r
<1>s. ASSUME msi' = Once(msi, "REQUEST"), wake' = wake PROVE Vote'
  <2> DEFINE r == Once(msi, "REQUEST")
  <2>1. \A i \in DOMAIN r : r[i] = "RELEASE" => i = 1 /\ ~wake
    BY <1>0, <1>h
  <2> HIDE DEF r
  <2>2. msi' = r /\ r \in Seq(Kinds) /\ Set(r) /\ r # <<>> /\ r[Len(r)] = "REQUEST"
    BY <1>h, <1>s DEF r
  <2> QED
    BY <1>s, <2>1, <2>2 DEF Vote, OnItsWay, Set
<1>5. CASE HostIrq
  <2>1. /\ 1 \in DOMAIN msi /\ msi' = Without(msi, 1)
        /\ epOn' = (msi[1] = "REQUEST")
        /\ UNCHANGED <<wake, msiLater, wakeLater, cwant>>
    BY <1>5 DEF HostIrq
  <2>2. msi # <<>>
    BY <2>1
  <2> DEFINE r == Tail(msi)
  <2>3. /\ msi' = r /\ r \in Seq(Kinds) /\ Set(r) /\ Len(r) = Len(msi) - 1
        /\ \A i \in DOMAIN r : i + 1 \in DOMAIN msi /\ r[i] = msi[i + 1]
    <3> HIDE DEF Kinds
    <3> QED
      BY <1>0, <2>1, <2>2, TailSet, WithoutFirst
  <2> HIDE DEF r
  <2>4. DOMAIN r = 1 .. Len(r) /\ Len(r) \in Nat /\ Len(msi) \in Nat
    BY <1>0, <2>3
  <2>5. \A i \in DOMAIN r : r[i] # "RELEASE"
    BY <1>0, <2>3, <2>4
  <2>6. r # <<>> => r[Len(r)] = "REQUEST"
    <3> SUFFICES ASSUME r # <<>> PROVE r[Len(r)] = "REQUEST"
      OBVIOUS
    <3>1. Len(r) \in DOMAIN r
      BY <2>3, <2>4
    <3>2. r[Len(r)] \in Kinds
      BY <2>3, <3>1
    <3> QED
      BY <2>5, <3>1, <3>2
  <2>7. r = <<>> => Len(msi) = 1
    BY <2>3, <2>4
  <2>8. cwant' => OnItsWay'
    <3> SUFFICES ASSUME cwant' PROVE OnItsWay'
      OBVIOUS
    <3>1. msi[Len(msi)] = "REQUEST" \/ wake \/ msiLater \/ wakeLater
      BY <1>0, <2>1, <2>2 DEF OnItsWay
    <3> QED
      BY <2>1, <2>3, <2>6, <2>7, <3>1 DEF OnItsWay
  <2> QED
    BY <2>3, <2>5, <2>8 DEF Vote, Set
<1>6. CASE HostWake
  <2>1. wake /\ wake' = FALSE /\ epOn' = TRUE /\ UNCHANGED <<msi, cwant, msiLater, wakeLater>>
    BY <1>6 DEF HostWake
  <2>2. msi = <<>> \/ msi[Len(msi)] = "REQUEST"
    <3> SUFFICES ASSUME msi # <<>> PROVE msi[Len(msi)] = "REQUEST"
      OBVIOUS
    <3>1. Len(msi) \in DOMAIN msi
      BY <1>0
    <3>2. msi[Len(msi)] \in Kinds
      BY <1>0, <3>1
    <3> QED
      BY <1>0, <2>1, <3>1, <3>2
  <2> QED
    BY <1>0, <2>1, <2>2 DEF Vote, OnItsWay, Set
<1>7. CASE ClientRequest
  <2>1. CASE cst = "scanned"
    <3>1. msi' = Once(msi, "REQUEST") /\ wake' = wake
      BY <1>0, <1>7, <2>1, Zenon DEF ClientRequest
    <3> QED
      BY <1>s, <3>1
  <2>2. CASE cst # "scanned"
    <3>1. msi' = msi /\ cwant'
      BY <1>7, <2>2 DEF ClientRequest
    <3>2. wake' => wake \/ cst = "removed"
      BY <1>7 DEF ClientRequest
    <3>3. \A i \in DOMAIN msi : msi[i] = "RELEASE" => i = 1 /\ ~wake'
      BY <1>0, <1>p, <2>2, <3>2
    <3>4. wake' \/ wakeLater' \/ msiLater'
      <4>1. cst \in {"first", "wait_scanned", "wait_removed", "removed"}
        BY <2>2 DEF PcieInv, Types
      <4> QED
        BY <1>7, <4>1 DEF ClientRequest
    <3> QED
      BY <1>0, <3>1, <3>3, <3>4 DEF Vote, OnItsWay, Set
  <2> QED
    BY <2>1, <2>2
<1>8. CASE ClientRelease
  <2>1. msi = <<>> /\ ~wake /\ ~cwant' /\ wake' = wake
    BY <1>8 DEF ClientRelease
  <2>2. msi' = <<>> \/ msi' = Once(<<>>, "RELEASE")
    BY <1>8, <2>1 DEF ClientRelease
  <2>3. msi' = <<>> \/ msi' = <<"RELEASE">>
    BY <2>2 DEF Once
  <2>4. <<>> \in Seq(Kinds) /\ Set(<<>>)
    BY DEF Set
  <2>5. <<"RELEASE">> \in Seq(Kinds) /\ Set(<<"RELEASE">>)
        /\ \A i \in DOMAIN <<"RELEASE">> : i = 1
    BY DEF Set
  <2>6. CASE msi' = <<>>
    <3>1. \A i \in DOMAIN <<>> : FALSE
      OBVIOUS
    <3> QED
      BY <2>1, <2>4, <2>6, <3>1 DEF Vote, Set
  <2>7. CASE msi' = <<"RELEASE">>
    BY <2>1, <2>5, <2>7 DEF Vote, Set
  <2> QED
    BY <2>3, <2>6, <2>7
<1>9. CASE ClientBell
  <2>1. CASE bell = "SCANNED" /\ msiLater
    BY <1>9, <1>s, <2>1 DEF ClientBell
  <2>2. CASE bell = "SCANNED" /\ ~msiLater
    <3>1. UNCHANGED <<msi, wake, wakeLater, cwant, epOn>> /\ msiLater' = FALSE
      BY <1>9, <2>2 DEF ClientBell
    <3> QED
      BY <1>0, <2>2, <3>1 DEF Vote, OnItsWay, Set
  <2>3. CASE bell # "SCANNED"
    BY <1>1, <1>9, <2>3 DEF ClientBell
  <2> QED
    BY <2>1, <2>2, <2>3
<1>10. CASE ClientEpf
  <2>1. CASE Head(epf) = "LINK_UP"
    BY <1>1, <1>10, <2>1 DEF ClientEpf
  <2>2. CASE Head(epf) # "LINK_UP"
    <3>1. /\ UNCHANGED <<msi, cwant, msiLater, epOn>> /\ wakeLater' = FALSE
          /\ wake' = (wake \/ wakeLater) /\ msi = <<>>
      BY <1>p, <1>10, <2>2 DEF ClientEpf
    <3> QED
      BY <1>0, <3>1 DEF Vote, OnItsWay, Set
  <2> QED
    BY <2>1, <2>2
<1> QED
  BY <1>2, <1>3, <1>4, <1>5, <1>6, <1>7, <1>8, <1>9, <1>10 DEF PcieNext, Kernel, Modem

-----------------------------------------------------------------------------
(* The theorem.                                                             *)

\* The first state, in which the host's PCIe driver has found the endpoint.
LEMMA PcieStarts ==
  ASSUME PcieInit, IsFiniteSet(Users)
  PROVE  PcieInv
<1> USE DEF PcieInit, MpmInit
<1>1. Types
  <2>1. user \in [Users -> {"out", "wait", "held"}]
    OBVIOUS
  <2>2. {epOn, first, dev, notify, removing, wake, msiLater, wakeLater, cwant} \subseteq BOOLEAN
    OBVIOUS
  <2> QED
    BY <2>1, <2>2 DEF Types
<1>a. Asked /\ First
  BY DEF Asked, First
<1>p. Phase
  BY DEF Phase, Probed
<1>2. Votes
  <2>1. Voters = {}
    BY DEF Voters
  <2> QED
    BY <2>1, FS_EmptySet DEF Votes
<1>3. Scanned
  <2>1. ~Pending(<<>>, "remove") /\ Set(<<>>) /\ <<>> \in Seq({"scan", "remove"})
    BY DEF Pending, Set
  <2>2. \A u \in Users : user[u] # "held"
    OBVIOUS
  <2> QED
    BY <2>1, <2>2 DEF Scanned
<1>4. Vote
  BY DEF Vote, Set
<1> QED
  BY <1>1, <1>a, <1>p, <1>2, <1>3, <1>4 DEF PcieInv

\* The invariant contains the property of run pcie_vote.
LEMMA InvIsLinkSafe ==
  ASSUME PcieInv, IsFiniteSet(Users)
  PROVE  LinkSafe
<1>1. PcieTypes
  <2> USE DEF PcieInv, Types, Votes, Asked, Scanned, Vote
  <2>1. upCnt \in 0..(Cardinality(Users) + 1)
    BY VotersCount
  <2>2. workq \in Seq({"request", "release"}) /\ Len(workq) <= 2
    <3>1. workq = <<>> \/ workq = <<"request">> \/ workq = <<"release">>
      OBVIOUS
    <3> QED
      BY <3>1, OneOfTwo
  <2>3. Len(rq) <= 2 /\ Len(msi) <= 2
    BY TwoSet
  <2>4. bell \in {"none", "SCANNED", "REMOVING"}
    BY DEF Phase, Gone, Probed, InUse, Removing
  <2>5. epf \in Seq({"LINK_UP", "UNLINK"}) /\ Len(epf) <= 2
    <3>1. epf = <<>> \/ epf = <<"LINK_UP">> \/ epf = <<"UNLINK">>
      BY DEF Phase, Gone, Probed, InUse, Removing
    <3> QED
      BY <3>1, OneOfTwo
  <2> QED
    BY <2>1, <2>2, <2>3, <2>4, <2>5 DEF PcieTypes
<1>2. HeldMeansUp
  BY DEF HeldMeansUp, PcieInv, Scanned
<1>3. VoteKept
  BY DEF VoteKept, PcieInv, Vote, OnItsWay
<1> QED
  BY <1>1, <1>2, <1>3 DEF LinkSafe

\* A task of the host that was told that the link is ready has it, the modem's vote
\* is not lost, and no queue between them grows: sprd_pcie_release_resource,
\* sprd_pcie_resource_host_irq_handler and pcie_resource_client_epf_notify.
THEOREM LinkIsSafe ==
  ASSUME MsiInOrder, InTime, IsFiniteSet(Users)
  PROVE  PcieSpec => []LinkSafe
<1>1. PcieInit => PcieInv
  BY PcieStarts
<1>2. PcieInv /\ [PcieNext]_pcieVars => PcieInv'
  <2> SUFFICES ASSUME PcieInv, [PcieNext]_pcieVars PROVE PcieInv'
    OBVIOUS
  <2> QED
    BY TypesStep, VotesStep, PhaseStep, ScannedStep, FirstStep, VoteStep DEF PcieInv
<1>3. PcieInv => LinkSafe
  BY InvIsLinkSafe
<1> QED
  BY <1>1, <1>2, <1>3, PTL DEF PcieSpec
=============================================================================
