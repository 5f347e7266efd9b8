---------------------------- MODULE PowerManager ----------------------------
(***************************************************************************)
(* The modem power manager (power_manager/power_manager.c): its users (pms)*)
(* count how often they asked for the modem's link, the manager (mpm)      *)
(* counts its users, asks for the link when the first one comes and gives  *)
(* it back a while after the last one went.  Beside that the users hold    *)
(* wakelocks, for good or for a period that a timer ends.                  *)
(*                                                                         *)
(* A step is one critical section, or the code between two.  Kernel timers *)
(* fire on another CPU: a handler that has begun is not stopped by         *)
(* del_timer.                                                              *)
(***************************************************************************)
EXTENDS Integers, Sequences, FiniteSets

CONSTANTS
  Shared,     \* tasks that use one pms created with multitask = true
  Solo,       \* tasks with a pms of their own
  Callers,    \* tasks that ask for, and give back, the wakelock of pms "rx"
  Serial,     \* no call on "rx" begins while another one is under way, or while its
              \* timer's handler, which has decided to relax the wakelock, does so
  InOrder,    \* the kernel runs the works in the order of their scheduling
  Prompt      \* no work is pending any more when an idle time (1 s) has ended

ASSUME PowerAssumption ==
  /\ {Serial, InOrder, Prompt} \subseteq BOOLEAN
  /\ IsFiniteSet(Shared) /\ IsFiniteSet(Solo)
  /\ Shared \cap Solo = {} /\ "shared" \notin Solo

Tasks == Shared \union Solo
PmsOf(t) == IF t \in Shared THEN "shared" ELSE t
Pms == {"shared"} \union Solo

VARIABLES
  active,   \* active_cnt of each pms
  pc,       \* control of each task
  up, mpm, works,
  expires,  \* mpm->expires is not 0
  timer,    \* mpm->timer is pending
  firing,   \* its handler has begun and does not yet have mpm_lock
  scanned,  \* the link is in state SPRD_PCIE_SCANNED
  ws,       \* the wakeup source of the link
  awake,    \* pms->awake of "rx"
  locks,    \* mpm->wakelock_cnt
  period,   \* pms->expires of "rx" is not 0
  ptimer,   \* pms->wake_timer is pending
  wpc       \* control of the callers and of "timer", the handler of wake_timer

mpmVars == <<up, mpm, works>>
linkVars == <<mpmVars, active, pc, expires, timer, firing, scanned, ws>>
wakeVars == <<awake, locks, period, ptimer, wpc>>
vars == <<linkVars, wakeVars>>

TypeOK ==
  /\ active \in [Pms -> Nat]
  /\ pc \in [Tasks -> {"out", "up", "wait", "asleep", "held", "fail", "down"}]
  /\ up \in Nat /\ mpm \in {"idle", "busy"}
  /\ works \in Seq({"request", "release"}) /\ Len(works) <= 2
  /\ {expires, timer, firing, scanned, ws, awake, period, ptimer} \subseteq BOOLEAN
  /\ locks \in Int
  /\ wpc \in [Callers \union {"timer"} ->
                {"out", "stay", "set", "count", "later", "relax", "clear", "uncount",
                 "fired"}]

\* sprd_mpm_create and sprd_pms_create
Init ==
  /\ active = [p \in Pms |-> 0] /\ pc = [t \in Tasks |-> "out"]
  /\ up = 0 /\ mpm = "idle" /\ works = <<>>
  /\ expires = FALSE /\ timer = FALSE /\ firing = FALSE
  /\ scanned = FALSE /\ ws = FALSE
  /\ awake = FALSE /\ locks = 0 /\ period = FALSE /\ ptimer = FALSE
  /\ wpc = [c \in Callers \union {"timer"} |-> "out"]

-----------------------------------------------------------------------------
(* The manager, under mpm_lock.                                             *)

Goto(t, l) == pc' = [pc EXCEPT ![t] = l]

Schedule(w) == IF \E i \in DOMAIN works : works[i] = w THEN works ELSE Append(works, w)

\* A form of sprd_mpm_deactive that does not give the link back.
DeactiveKeeps == mpm' = "idle" /\ expires' = FALSE /\ UNCHANGED works

\* sprd_mpm_deactive
Deactive == mpm' = "idle" /\ expires' = FALSE /\ works' = Schedule("release")

\* sprd_mpm_cancel_timer
CancelTimer == expires' = FALSE /\ timer' = IF expires THEN FALSE ELSE timer

\* A form of sprd_mpm_up that does not look at the state.
MpmUpAlways ==
  /\ CancelTimer
  /\ up' = up + 1
  /\ IF up = 0
     THEN mpm' = "busy" /\ works' = Schedule("request")
     ELSE UNCHANGED <<mpm, works>>

\* sprd_mpm_up: when the last user went a moment ago the state is still busy.
MpmUp ==
  /\ CancelTimer
  /\ up' = up + 1
  /\ IF up = 0 /\ mpm = "idle"
     THEN mpm' = "busy" /\ works' = Schedule("request")
     ELSE UNCHANGED <<mpm, works>>

\* A form of sprd_mpm_down that starts the timer only when it is not running.
MpmDownOnce ==
  /\ up' = up - 1
  /\ IF up' = 0
     THEN expires' = ~firing /\ timer' = ~firing
     ELSE UNCHANGED <<expires, timer>>
  /\ UNCHANGED <<mpm, works>>

\* sprd_mpm_down with later_idle set: mod_timer starts the idle time anew.
MpmDown ==
  /\ up' = up - 1
  /\ IF up' = 0 THEN expires' = TRUE /\ timer' = TRUE ELSE UNCHANGED <<expires, timer>>
  /\ UNCHANGED <<mpm, works>>

\* The kernel's timer expires.
TimerExpires ==
  /\ timer /\ ~firing
  /\ timer' = FALSE /\ firing' = TRUE
  /\ UNCHANGED <<active, pc, mpmVars, expires, scanned, ws, wakeVars>>

\* sprd_mpm_deactive_timer_fn: expires is 0 when the timer has been cancelled.
DeactiveTimer ==
  /\ firing /\ firing' = FALSE /\ (Prompt => works = <<>>)
  /\ IF expires THEN Deactive ELSE UNCHANGED <<mpm, expires, works>>
  /\ UNCHANGED <<active, pc, up, timer, scanned, ws, wakeVars>>

Remove(s, i) == SubSeq(s, 1, i - 1) \o SubSeq(s, i + 1, Len(s))

\* sprd_mpm_request_res_work_fn and sprd_mpm_release_res_work_fn call
\* sprd_pcie_request_resource and sprd_pcie_release_resource.
Work ==
  \E i \in DOMAIN works :
    /\ InOrder => i = 1
    /\ works' = Remove(works, i)
    /\ ws' = (works[i] = "request")
    /\ UNCHANGED <<active, pc, up, mpm, expires, timer, firing, scanned, wakeVars>>

-----------------------------------------------------------------------------
(* The users.                                                               *)

\* sprd_pms_request_resource, first sprd_pms_do_up.
Request(t) ==
  /\ pc[t] = "out"
  /\ active' = [active EXCEPT ![PmsOf(t)] = @ + 1]
  /\ Goto(t, IF active[PmsOf(t)] = 0 THEN "up" ELSE "wait")
  /\ UNCHANGED <<mpmVars, expires, timer, firing, scanned, ws, wakeVars>>

\* Its sprd_mpm_up, after active_lock is released.
Up(t) ==
  /\ pc[t] = "up"
  /\ MpmUp
  /\ Goto(t, "wait")
  /\ UNCHANGED <<active, firing, scanned, ws, wakeVars>>

\* sprd_pcie_wait_resource, with timeout 0 (the call fails) and another one.
WaitResource(t) ==
  /\ pc[t] = "wait"
  /\ IF scanned THEN Goto(t, "held") ELSE Goto(t, "fail") \/ Goto(t, "asleep")
  /\ UNCHANGED <<mpmVars, active, expires, timer, firing, scanned, ws, wakeVars>>

\* Its wait ends by a wake-up, the time-out or a signal.
WaitEnds(t) ==
  /\ pc[t] = "asleep"
  /\ Goto(t, IF scanned THEN "held" ELSE "fail")
  /\ UNCHANGED <<mpmVars, active, expires, timer, firing, scanned, ws, wakeVars>>

\* A form of sprd_pms_do_down that takes the last but one call for the last.
ReleaseEarly(t) ==
  /\ pc[t] \in {"held", "fail"}
  /\ active' = [active EXCEPT ![PmsOf(t)] = @ - 1]
  /\ Goto(t, IF active[PmsOf(t)] <= 2 THEN "down" ELSE "out")
  /\ UNCHANGED <<mpmVars, expires, timer, firing, scanned, ws, wakeVars>>

\* sprd_pms_release_resource, or the end of a request that failed:
\* sprd_pms_do_down; the count is at least 1, as CountsAgree shows.
Release(t) ==
  /\ pc[t] \in {"held", "fail"}
  /\ active' = [active EXCEPT ![PmsOf(t)] = @ - 1]
  /\ Goto(t, IF active[PmsOf(t)] = 1 THEN "down" ELSE "out")
  /\ UNCHANGED <<mpmVars, expires, timer, firing, scanned, ws, wakeVars>>

Down(t) ==
  /\ pc[t] = "down"
  /\ MpmDown
  /\ Goto(t, "out")
  /\ UNCHANGED <<active, firing, scanned, ws, wakeVars>>

\* The endpoint is probed or removed.
LinkChanges ==
  /\ scanned' = ~scanned
  /\ UNCHANGED <<mpmVars, active, pc, expires, timer, firing, ws, wakeVars>>

-----------------------------------------------------------------------------
(* The wakelock of a pms.                                                   *)

WGoto(c, l) == wpc' = [wpc EXCEPT ![c] = l]

\* No call is under way, and the handler is not relaxing the wakelock; it may have
\* begun and wait for expires_lock.
Alone == Serial => \A c \in DOMAIN wpc : wpc[c] \in {"out", "fired"}

\* A form of sprd_pms_cancel_timer that only stops the timer.
PmsCancelTimerOnly == period' = period /\ ptimer' = FALSE

\* sprd_pms_cancel_timer, under expires_lock.
PmsCancelTimer == period' = FALSE /\ ptimer' = IF period THEN FALSE ELSE ptimer

\* sprd_pms_request_wakelock_period, and sprd_pms_release_wakelock.
RequestPeriod(c) ==
  /\ wpc[c] = "out" /\ Alone
  /\ PmsCancelTimer
  /\ WGoto(c, "stay")
  /\ UNCHANGED <<awake, locks, linkVars>>

ReleaseWakelock(c) ==
  /\ wpc[c] = "out" /\ Alone
  /\ PmsCancelTimer
  /\ WGoto(c, "relax")
  /\ UNCHANGED <<awake, locks, linkVars>>

\* sprd_pms_stay_awake: no lock is held between the test of awake, its
\* assignment and sprd_mpm_stay_awake.
StayTest(c) ==
  /\ wpc[c] = "stay"
  /\ WGoto(c, IF awake THEN "later" ELSE "set")
  /\ UNCHANGED <<awake, locks, period, ptimer, linkVars>>

StaySet(c) ==
  /\ wpc[c] = "set"
  /\ awake' = TRUE
  /\ WGoto(c, "count")
  /\ UNCHANGED <<locks, period, ptimer, linkVars>>

StayCount(c) ==
  /\ wpc[c] = "count"
  /\ locks' = locks + 1
  /\ WGoto(c, "later")
  /\ UNCHANGED <<awake, period, ptimer, linkVars>>

\* sprd_pms_release_wakelock_later
ReleaseLater(c) ==
  /\ wpc[c] = "later"
  /\ period' = TRUE /\ ptimer' = TRUE
  /\ WGoto(c, "out")
  /\ UNCHANGED <<awake, locks, linkVars>>

\* sprd_pms_relax, in the same way.
RelaxTest(c) ==
  /\ wpc[c] = "relax"
  /\ WGoto(c, IF awake THEN "clear" ELSE "out")
  /\ UNCHANGED <<awake, locks, period, ptimer, linkVars>>

RelaxClear(c) ==
  /\ wpc[c] = "clear"
  /\ awake' = FALSE
  /\ WGoto(c, "uncount")
  /\ UNCHANGED <<locks, period, ptimer, linkVars>>

RelaxCount(c) ==
  /\ wpc[c] = "uncount"
  /\ locks' = locks - 1
  /\ WGoto(c, "out")
  /\ UNCHANGED <<awake, period, ptimer, linkVars>>

\* The kernel's timer expires, whoever is inside a call.
PeriodExpires ==
  /\ ptimer /\ wpc["timer"] = "out"
  /\ ptimer' = FALSE
  /\ WGoto("timer", "fired")
  /\ UNCHANGED <<awake, locks, period, linkVars>>

\* sprd_pms_relax_wakelock_timer, under expires_lock: with the timer pending
\* again the time that expires holds is still to come.
RelaxTimer ==
  /\ wpc["timer"] = "fired"
  /\ IF period /\ ~ptimer
     THEN period' = FALSE /\ WGoto("timer", "relax")
     ELSE WGoto("timer", "out") /\ UNCHANGED period
  /\ UNCHANGED <<awake, locks, ptimer, linkVars>>

-----------------------------------------------------------------------------
TaskStep(t) == Up(t) \/ WaitResource(t) \/ WaitEnds(t) \/ Release(t) \/ Down(t)

WakeStep(c) ==
  \/ StayTest(c) \/ StaySet(c) \/ StayCount(c) \/ ReleaseLater(c)
  \/ RelaxTest(c) \/ RelaxClear(c) \/ RelaxCount(c)

Next ==
  \/ \E t \in Tasks : Request(t) \/ TaskStep(t)
  \/ TimerExpires \/ DeactiveTimer \/ Work \/ LinkChanges
  \/ \E c \in Callers : RequestPeriod(c) \/ ReleaseWakelock(c)
  \/ \E c \in Callers \union {"timer"} : WakeStep(c)
  \/ PeriodExpires \/ RelaxTimer

\* Timers expire, works run, and a task that is not outside goes on.
Fairness ==
  /\ WF_vars(TimerExpires) /\ WF_vars(DeactiveTimer) /\ WF_vars(Work)
  /\ \A t \in Tasks : WF_vars(Up(t) \/ Down(t))

Spec == Init /\ [][Next]_vars
FairSpec == Spec /\ Fairness

-----------------------------------------------------------------------------
(* Properties                                                               *)

At(l) == {t \in Tasks : pc[t] = l}

\* The manager's count is that of the users with a count, but for those whose
\* call is between active_lock and mpm_lock: it never goes below 0, whatever the
\* order in which the calls of one pms get the second lock.
CountsAgree ==
  /\ up = Cardinality({p \in Pms : active[p] > 0})
          - Cardinality(At("up")) + Cardinality(At("down"))
  /\ up >= 0
  /\ \A p \in Pms :
       active[p] = Cardinality({t \in Tasks : PmsOf(t) = p /\
                                  pc[t] \in {"up", "wait", "asleep", "held", "fail"}})

\* A task that was told "resource ready" has the manager busy with no idle time
\* running, unless another task of its pms is still on its way to sprd_mpm_up.
HeldBusy ==
  \A t \in Tasks :
    pc[t] = "held" =>
      \/ mpm = "busy" /\ ~expires
      \/ \E s \in Tasks : pc[s] = "up" /\ PmsOf(s) = PmsOf(t)

\* The counts of the users agree, and a task that was told so has the link.
ManagerSafe == TypeOK /\ CountsAgree /\ HeldBusy

\* A manager nobody uses becomes idle: no order of cancelled, restarted and late
\* timers leaves it busy for good.
GoesIdle == (mpm = "busy" /\ up = 0) ~> (mpm = "idle" \/ up > 0)

\* When the works have run, the link's wakeup source is what the state says.
SourceFollows == works = <<>> => (ws <=> mpm = "busy")

\* The detailed manager keeps the abstract one's promise: the link is given back
\* only when nobody votes for it, and once.
A == INSTANCE Mpm WITH upCnt <- up, mpmState <- mpm, workq <- works
Manager == A!MpmSpec

\* Between sprd_pms_request_wakelock_period and the end of its period the
\* wakelock is held: no handler of an earlier period, which has begun before the
\* call or during it, drops it.  (Without Serial a handler that has given up
\* expires_lock relaxes the wakelock after the call has found it awake.)
HeldForPeriod ==
  (period /\ \A c \in DOMAIN wpc : wpc[c] \in {"out", "fired"}) => awake /\ locks > 0
=============================================================================
