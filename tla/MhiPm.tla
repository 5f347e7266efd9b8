-------------------------------- MODULE MhiPm --------------------------------
(***************************************************************************)
(* The power states of the MHI host of quectel_MHI (core/mhi_pm.c, with    *)
(* the event, irq and transfer paths of core/mhi_main.c and the runtime-PM *)
(* callbacks and removal of controllers/mhi_qti.c), over one uplink        *)
(* channel.  Threads: the control tasklet, the data tasklet, the irq       *)
(* thread, st_worker, syserr_worker, the runtime-PM callbacks, the removal *)
(* and a client that queues transfers.  The modem and the kernel's runtime *)
(* PM are external.                                                        *)
(*                                                                         *)
(* A transfer ring is three counts: elements the modem has not been told   *)
(* of, told of, and completed but not yet reaped.                          *)
(***************************************************************************)
EXTENDS Integers, Sequences

CONSTANTS
  Slots,       \* elements that fit the transfer ring
  MaxSends, MaxSleeps, MaxIdles, MaxErrs,
  Slow,        \* the waits that may time out although the modem will answer
  Overtaken,   \* others may overtake mhi_queue_buf before it has counted its transfer
  ErrInDown    \* the modem may fail during a removal, or be removed in recovery

ASSUME MhiAssumption ==
  /\ {Slots, MaxSends, MaxSleeps, MaxIdles, MaxErrs} \subseteq Nat
  /\ Slow \subseteq {"suspend", "resume", "mission", "reset", "ready"}
  /\ {Overtaken, ErrInDown} \subseteq BOOLEAN

VARIABLES
  pm, ds, ee,           \* pm_state, dev_state and ee of the controller
  ch,                   \* ch_state; "disabled" also means that the client is closed
  unseen, seen, done,   \* the elements of the transfer ring
  pending, refs,        \* pending_pkts, and the runtime-PM references it holds
  q, put, sends,        \* mhi_queue_buf; a runtime_put that the data tasklet owes
  tk, evs, irq,         \* the control tasklet, its event ring, and the irq thread's irq
  list, st,             \* transition_list and st_worker
  mutex, pc, errq, live, \* pm_mutex; syserr_worker and removal; the controller exists
  rpm, slp, wantUp, rpmErr, forbid, sleeps, \* runtime PM and its callback
  dev, ctl, wake, errs, idles  \* the modem, MHICTRL and the wake doorbell

pmVars == <<pm, ds, ee>>
ringVars == <<ch, unseen, seen, done>>
countVars == <<pending, refs>>
clientVars == <<q, put, sends>>
eventVars == <<tk, evs, irq>>
stVars == <<list, st>>
offVars == <<mutex, pc, errq, live>>
rpmVars == <<rpm, slp, wantUp, rpmErr, forbid, sleeps>>
devVars == <<dev, ctl, wake, errs, idles>>
vars == <<pmVars, ringVars, countVars, clientVars, eventVars, stVars, offVars, rpmVars, devVars>>

-----------------------------------------------------------------------------
(* The states.                                                              *)

Errors == {"FW_DL_ERR", "SYS_ERR_DETECT", "SYS_ERR_PROCESS", "SHUTDOWN_PROCESS",
           "LD_ERR_FATAL_DETECT"}
PmStates == {"DISABLE", "POR", "M0", "M2", "M3_ENTER", "M3", "M3_EXIT"} \cup Errors

\* mhi_state_transitions.
Transitions ==
  LET fail == {"SYS_ERR_DETECT", "SHUTDOWN_PROCESS", "LD_ERR_FATAL_DETECT"}
  IN  [ DISABLE |-> {"POR"},
        POR |-> {"POR", "DISABLE", "M0", "FW_DL_ERR"} \cup fail,
        M0 |-> {"M2", "M3_ENTER", "FW_DL_ERR"} \cup fail,
        M2 |-> {"M0"} \cup fail,
        M3_ENTER |-> {"M3"} \cup fail,
        M3 |-> {"M3_EXIT"} \cup fail,
        M3_EXIT |-> {"M0"} \cup fail,
        FW_DL_ERR |-> {"FW_DL_ERR"} \cup fail,
        SYS_ERR_DETECT |-> {"SYS_ERR_PROCESS", "SHUTDOWN_PROCESS", "LD_ERR_FATAL_DETECT"},
        SYS_ERR_PROCESS |-> {"POR", "SHUTDOWN_PROCESS", "LD_ERR_FATAL_DETECT"},
        SHUTDOWN_PROCESS |-> {"DISABLE", "LD_ERR_FATAL_DETECT"},
        LD_ERR_FATAL_DETECT |-> {"LD_ERR_FATAL_DETECT", "SHUTDOWN_PROCESS"} ]

\* mhi_tryset_pm_state: the state after an attempt to enter s.
TrySet(s) == IF s \in Transitions[pm] THEN s ELSE pm

\* MHI_REG_ACCESS_VALID, MHI_EVENT_ACCESS_INVALID, MHI_PM_IN_SUSPEND_STATE.
RegAccess(s) == s \notin {"DISABLE", "M3", "LD_ERR_FATAL_DETECT"}
NoEvents(s) == s = "DISABLE" \/ s \in Errors
InSuspend(s) == s \in {"M3_ENTER", "M3"}

\* pm_lock can be had for writing: the sections that read-lock it are single
\* steps, but for the one of mhi_queue_buf.
NoReader == q \notin {"get", "db"}

\* mhi_assert_dev_wake: the wake doorbell is rung in M2 only.  The count dev_wake
\* behind the early return stays 0, so the suspend is never refused for it.
WakeGet == wake' = (wake \/ ds = "M2")

\* pm_runtime_get: a resume is requested, or deferred to the end of a suspend.
AskResume(cond) ==
  wantUp' = (wantUp \/ (cond /\ ~rpmErr /\ rpm \in {"suspending", "suspended"}))

\* A wait ends without an answer: the modem has failed and nothing it sent
\* before is left, or the modem is late.
Late(w) ==
  \/ w \in Slow
  \/ w \in {"suspend", "resume", "mission"} /\ dev = "SYS_ERR" /\ evs = <<>> /\ tk = "idle" /\ ~irq

Bit(b) == IF b THEN 1 ELSE 0

TypeOK ==
  /\ pm \in PmStates /\ ds \in {"RESET", "READY", "M0", "M2", "M3"} /\ ee \in {"none", "amss"}
  /\ ch \in {"disabled", "enabled", "suspended"}
  /\ {unseen, seen, done, refs} \subseteq Nat /\ pending \in Int
  /\ unseen + seen + done <= Slots
  /\ q \in {"idle", "checked", "gen", "get", "db"} /\ put \in BOOLEAN /\ sends \in 0..MaxSends
  /\ tk \in {"idle", "loop", "ring"} /\ irq \in BOOLEAN
  /\ evs \in Seq({"M0", "M1", "M3", "AMSS", "SYS_ERR"})
  /\ list \in Seq({"READY", "MISSION"})
  /\ st \in {"idle", "READY", "mmio", "MISSION", "getsync", "create"}
  /\ mutex \in {"none", "err", "down", "rpm"}
  /\ pc.err \in {"idle", "forbid", "lock", "reset", "kill", "destroy", "remove", "flush",
                 "rings", "READY", "mmio"}
  /\ pc.down \in {"up", "sync", "ld", "lock", "reset", "kill", "destroy", "remove", "flush",
                  "rings", "disable", "free", "gone"}
  /\ {errq, live, wantUp, rpmErr, forbid, wake} \subseteq BOOLEAN
  /\ rpm \in {"active", "suspending", "suspended", "resuming"} /\ sleeps \in 0..MaxSleeps
  /\ slp \in {"idle", "suspend", "m0", "enter", "m3", "resume", "exit"}
  /\ dev \in {"READY", "M0", "M1", "M2", "M3", "SYS_ERR"}
  /\ ctl \in {"none", "RESET", "M0", "M2", "M3"} /\ errs \in 0..MaxErrs /\ idles \in 0..MaxIdles

\* mhi_async_power_up has returned, with the modem in its mission image.
Init ==
  /\ pm = "POR" /\ ds = "RESET" /\ ee = "none"
  /\ ch = "disabled" /\ unseen = 0 /\ seen = 0 /\ done = 0 /\ pending = 0 /\ refs = 0
  /\ q = "idle" /\ put = FALSE /\ sends = 0
  /\ tk = "idle" /\ evs = <<>> /\ irq = FALSE
  /\ list = <<"READY">> /\ st = "idle"
  /\ mutex = "none" /\ pc = [err |-> "idle", down |-> "up"] /\ errq = FALSE /\ live = TRUE
  /\ rpm = "active" /\ slp = "idle" /\ wantUp = FALSE /\ rpmErr = FALSE /\ forbid = FALSE
  /\ sleeps = 0
  /\ dev = "READY" /\ ctl = "none" /\ wake = FALSE /\ errs = 0 /\ idles = 0

-----------------------------------------------------------------------------
(* mhi_queue_buf, called under the client's lock.                           *)

\* The unlocked test of pm_state and the test for a full ring.
QueueCheck ==
  /\ q = "idle" /\ sends < MaxSends
  /\ ch # "disabled" /\ pm \notin Errors /\ unseen + seen + done < Slots
  /\ q' = "checked" /\ sends' = sends + 1
  /\ UNCHANGED <<put, pmVars, ringVars, countVars, eventVars, stVars, offVars, rpmVars, devVars>>

\* mhi_gen_tre.
QueueElement ==
  /\ q = "checked"
  /\ unseen' = unseen + 1 /\ q' = "gen"
  /\ UNCHANGED <<ch, seen, done, put, sends, pmVars, countVars, eventVars, stVars, offVars, rpmVars,
                 devVars>>

\* pm_lock is taken: a resume if suspended, the wake doorbell, the count.
QueueCount ==
  /\ q = "gen"
  /\ AskResume(InSuspend(pm)) /\ WakeGet
  /\ pending' = pending + 1
  /\ q' = IF pending' = 1 THEN "get" ELSE "db"
  /\ UNCHANGED <<refs, put, sends, rpm, slp, rpmErr, forbid, sleeps, dev, ctl, errs, idles, pmVars,
                 ringVars, eventVars, stVars, offVars>>

\* runtime_get for the first pending transfer.
QueueGet ==
  /\ q = "get"
  /\ refs' = refs + 1 /\ AskResume(TRUE) /\ q' = "db"
  /\ UNCHANGED <<pending, put, sends, rpm, slp, rpmErr, forbid, sleeps, pmVars, ringVars, eventVars,
                 stVars, offVars, devVars>>

\* A form of QueueRing that never rings.
QueueRingNot ==
  /\ q = "db"
  /\ q' = "idle" /\ UNCHANGED <<unseen, seen>>
  /\ UNCHANGED <<ch, done, put, sends, pmVars, countVars, eventVars, stVars, offVars, rpmVars, devVars>>

\* The doorbell, in M0 only, and the end of the call.
QueueRing ==
  /\ q = "db"
  /\ IF pm = "M0" THEN seen' = seen + unseen /\ unseen' = 0 ELSE UNCHANGED <<unseen, seen>>
  /\ q' = "idle"
  /\ UNCHANGED <<ch, done, put, sends, pmVars, countVars, eventVars, stVars, offVars, rpmVars, devVars>>

\* parse_xfer_event for one completion: the count, then the runtime_put.
DataEvent ==
  /\ done > 0 /\ ~put /\ ~NoEvents(pm) /\ ch = "enabled"
  /\ done' = done - 1 /\ pending' = pending - 1
  /\ put' = (pending' = 0)
  /\ UNCHANGED <<ch, unseen, seen, refs, q, sends, pmVars, eventVars, stVars, offVars, rpmVars, devVars>>

\* runtime_put; the kernel refuses to go below zero.
Put == refs' = IF refs = 0 THEN 0 ELSE refs - 1

DataPut ==
  /\ put /\ put' = FALSE /\ Put
  /\ UNCHANGED <<pending, q, sends, pmVars, ringVars, eventVars, stVars, offVars, rpmVars, devVars>>

-----------------------------------------------------------------------------
(* The control tasklet and the irq thread.                                  *)

\* mhi_ctrl_ev_task and mhi_process_ctrl_ev_ring test the state once, then go
\* through the ring.
TaskStart ==
  /\ tk = "idle" /\ evs # <<>> /\ RegAccess(pm) /\ ~NoEvents(pm)
  /\ tk' = "loop"
  /\ UNCHANGED <<evs, irq, pmVars, ringVars, countVars, clientVars, stVars, offVars, rpmVars, devVars>>

TaskEnd ==
  /\ tk = "loop" /\ evs = <<>>
  /\ tk' = "idle"
  /\ UNCHANGED <<evs, irq, pmVars, ringVars, countVars, clientVars, stVars, offVars, rpmVars, devVars>>

\* mhi_pm_m0_transition up to its doorbells: dev_state changes even when
\* pm_state may not.
M0Transition ==
  /\ ds' = "M0" /\ pm' = TrySet("M0")
  /\ tk' = IF pm' = "M0" THEN "ring" ELSE "loop"
  /\ UNCHANGED <<ee, ctl, list, errq>>

\* mhi_pm_m1_transition: the modem has asked for M2.
M1Transition ==
  /\ pm' = TrySet("M2")
  /\ IF pm' = "M2" THEN ds' = "M2" /\ ctl' = "M2" ELSE UNCHANGED <<ds, ctl>>
  /\ UNCHANGED <<ee, tk, list, errq>>

M3Transition ==
  /\ ds' = "M3" /\ pm' = TrySet("M3")
  /\ UNCHANGED <<ee, tk, ctl, list, errq>>

\* A system error is noted and left to syserr_worker.
ErrorEvent ==
  /\ pm' = TrySet("SYS_ERR_DETECT")
  /\ errq' = (errq \/ pm' = "SYS_ERR_DETECT")
  /\ UNCHANGED <<ds, ee, tk, ctl, list>>

\* mhi_queue_state_transition.
MissionEvent ==
  /\ list' = Append(list, "MISSION")
  /\ UNCHANGED <<pmVars, tk, ctl, errq>>

TaskEvent ==
  /\ tk = "loop" /\ evs # <<>>
  /\ evs' = Tail(evs)
  /\ CASE Head(evs) = "M0" -> NoReader /\ M0Transition
       [] Head(evs) = "M1" -> NoReader /\ M1Transition
       [] Head(evs) = "M3" -> NoReader /\ M3Transition
       [] Head(evs) = "SYS_ERR" -> NoReader /\ ErrorEvent
       [] Head(evs) = "AMSS" -> MissionEvent
  /\ UNCHANGED <<irq, ringVars, countVars, clientVars, st, mutex, pc, live, rpmVars, dev, wake, errs,
                 idles>>

\* The doorbells of mhi_pm_m0_transition, whatever the state is by now.
TaskRing ==
  /\ tk = "ring" /\ (~Overtaken => q \notin {"gen", "get"})
  /\ tk' = "loop" /\ WakeGet
  /\ IF ch # "disabled" THEN seen' = seen + unseen /\ unseen' = 0 ELSE UNCHANGED <<unseen, seen>>
  /\ UNCHANGED <<ch, done, evs, irq, dev, ctl, errs, idles, pmVars, countVars, clientVars, stVars,
                 offVars, rpmVars>>

\* A form of Detect that does not schedule syserr_worker.
DetectOnly ==
  /\ irq' = FALSE
  /\ pm' = IF RegAccess(pm) /\ dev = "SYS_ERR" THEN TrySet("SYS_ERR_DETECT") ELSE pm
  /\ UNCHANGED <<ds, ee, errq>>

\* mhi_intvec_threaded_handlr.
Detect ==
  /\ irq' = FALSE
  /\ IF RegAccess(pm) /\ dev = "SYS_ERR" /\ pm # "SYS_ERR_DETECT"
       THEN /\ pm' = TrySet("SYS_ERR_DETECT")
            /\ errq' = (errq \/ pm' = "SYS_ERR_DETECT")
       ELSE UNCHANGED <<pm, errq>>
  /\ UNCHANGED <<ds, ee>>

IrqThread ==
  /\ irq /\ NoReader /\ Detect
  /\ UNCHANGED <<tk, evs, ringVars, countVars, clientVars, stVars, mutex, pc, live, rpmVars, devVars>>

-----------------------------------------------------------------------------
(* st_worker, and mhi_ready_state_transition, which syserr_worker runs too. *)

StTake ==
  /\ st = "idle" /\ list # <<>>
  /\ st' = Head(list) /\ list' = Tail(list)
  /\ UNCHANGED <<pmVars, ringVars, countVars, clientVars, eventVars, offVars, rpmVars, devVars>>

At(w, x) == IF w = "st" THEN st = x ELSE pc.err = x

\* The worker w goes on to x; syserr_worker leaves pm_mutex when it is done.
GoTo(w, x) ==
  IF w = "st" THEN st' = x /\ UNCHANGED <<pc, mutex>>
              ELSE /\ pc' = [pc EXCEPT !.err = x]
                   /\ mutex' = IF x = "idle" THEN "none" ELSE mutex
                   /\ UNCHANGED st

\* The wait for READY; dev_state changes even when pm_state may not.
ReadyState(w) ==
  /\ At(w, "READY")
  /\ \/ /\ pm = "LD_ERR_FATAL_DETECT" \/ Late("ready")
        /\ GoTo(w, "idle") /\ UNCHANGED pmVars
     \/ /\ pm # "LD_ERR_FATAL_DETECT" /\ dev = "READY" /\ ctl # "RESET" /\ NoReader
        /\ pm' = TrySet("POR") /\ ds' = "READY"
        /\ GoTo(w, IF pm' = "POR" THEN "mmio" ELSE "idle")
        /\ UNCHANGED ee
  /\ UNCHANGED <<ringVars, countVars, clientVars, eventVars, list, errq, live, rpmVars, devVars>>

ReadyToM0(w) ==
  /\ At(w, "mmio")
  /\ ctl' = IF RegAccess(pm) THEN "M0" ELSE ctl
  /\ GoTo(w, "idle")
  /\ UNCHANGED <<dev, wake, errs, idles, pmVars, ringVars, countVars, clientVars, eventVars, list, errq,
                 live, rpmVars>>

\* mhi_pm_mission_mode_transition: __mhi_device_get_sync, ...
StGetSync ==
  /\ st = "MISSION"
  /\ WakeGet /\ AskResume(InSuspend(pm)) /\ st' = "getsync"
  /\ UNCHANGED <<list, dev, ctl, errs, idles, rpm, slp, rpmErr, forbid, sleeps, pmVars, ringVars,
                 countVars, clientVars, eventVars, offVars>>

\* ... its wait, the execution environment, ...
StMission ==
  /\ st = "getsync"
  /\ \/ /\ pm = "M0" /\ NoReader
        /\ ee' = IF dev = "SYS_ERR" THEN "none" ELSE "amss"
        /\ st' = IF ee' = "amss" THEN "create" ELSE "idle"
        /\ AskResume(ee' = "amss")
     \/ /\ pm \in Errors \/ (pm # "M0" /\ Late("mission"))
        /\ st' = "idle" /\ UNCHANGED <<ee, wantUp>>
  /\ UNCHANGED <<list, pm, ds, rpm, slp, rpmErr, forbid, sleeps, ringVars, countVars, clientVars,
                 eventVars, offVars, devVars>>

\* ... and mhi_create_devices, whose clients start their channels: a closed one
\* is enabled when the modem answers the START command.
StCreate ==
  /\ st = "create" /\ st' = "idle"
  /\ \/ /\ ch = "disabled" /\ pm \in {"M0", "M2"} /\ dev # "SYS_ERR"
        /\ ch' = "enabled" /\ unseen' = 0 /\ seen' = 0 /\ done' = 0 /\ WakeGet
     \/ /\ pm \in Errors \/ ch # "disabled" \/ Late("mission")
        /\ UNCHANGED <<ringVars, wake>>
  /\ UNCHANGED <<list, dev, ctl, errs, idles, pmVars, countVars, clientVars, eventVars, offVars, rpmVars>>

-----------------------------------------------------------------------------
(* mhi_runtime_suspend and mhi_runtime_resume, which hold pm_mutex.         *)

\* References that keep the device from being suspended: pending transfers, the
\* START command of a channel, the removal.  (Once powered_on is cleared the
\* callbacks return at once.)
Usage == refs + Bit(st = "create") + Bit(pc.down # "up")

SuspendStart ==
  /\ rpm = "active" /\ Usage = 0 /\ ~forbid /\ ~rpmErr /\ sleeps < MaxSleeps
  /\ rpm' = "suspending" /\ slp' = "suspend" /\ sleeps' = sleeps + 1
  /\ UNCHANGED <<wantUp, rpmErr, forbid, pmVars, ringVars, countVars, clientVars, eventVars, stVars,
                 offVars, devVars>>

\* A failed suspend leaves the device active; an error other than -EBUSY
\* blocks runtime PM from now on.
SuspendFails(busy) ==
  /\ rpm' = "active" /\ slp' = "idle" /\ mutex' = "none"
  /\ rpmErr' = (rpmErr \/ ~busy) /\ wantUp' = FALSE

SuspendBegin ==
  /\ slp = "suspend" /\ mutex = "none"
  /\ IF ee # "amss" \/ NoEvents(pm)
       THEN SuspendFails(ee # "amss") /\ UNCHANGED wake
       ELSE /\ mutex' = "rpm" /\ slp' = "m0" /\ WakeGet
            /\ UNCHANGED <<rpm, rpmErr, wantUp>>
  /\ UNCHANGED <<forbid, sleeps, dev, ctl, errs, idles, pmVars, ringVars, countVars, clientVars,
                 eventVars, stVars, pc, errq, live>>

\* The wait for M0.
SuspendAwake ==
  /\ slp = "m0"
  /\ \/ /\ pm \in Errors \/ (ds # "M0" /\ Late("suspend"))
        /\ SuspendFails(FALSE)
     \/ /\ pm \notin Errors /\ ds = "M0"
        /\ slp' = "enter" /\ UNCHANGED <<rpm, rpmErr, wantUp, mutex>>
  /\ UNCHANGED <<forbid, sleeps, pmVars, ringVars, countVars, clientVars, eventVars, stVars, pc, errq,
                 live, devVars>>

\* M3 is allowed unless the modem went to M2, or failed, in between.
SuspendEnter ==
  /\ slp = "enter" /\ NoReader
  /\ pm' = TrySet("M3_ENTER")
  /\ IF pm' = "M3_ENTER"
       THEN ctl' = "M3" /\ slp' = "m3" /\ UNCHANGED <<rpm, rpmErr, wantUp, mutex>>
       ELSE SuspendFails(FALSE) /\ UNCHANGED ctl
  /\ UNCHANGED <<ds, ee, forbid, sleeps, dev, wake, errs, idles, ringVars, countVars, clientVars,
                 eventVars, stVars, pc, errq, live>>

\* A form of SuspendDone that does not wait.
SuspendDoneEarly ==
  /\ slp = "m3"
  /\ rpm' = "suspended" /\ slp' = "idle" /\ mutex' = "none"
  /\ UNCHANGED <<rpmErr, wantUp, forbid, sleeps, pmVars, ringVars, countVars, clientVars, eventVars,
                 stVars, pc, errq, live, devVars>>

\* The wait for M3.
SuspendDone ==
  /\ slp = "m3"
  /\ \/ /\ pm \in Errors \/ (ds # "M3" /\ Late("suspend"))
        /\ SuspendFails(FALSE)
     \/ /\ pm \notin Errors /\ ds = "M3"
        /\ rpm' = "suspended" /\ slp' = "idle" /\ mutex' = "none"
        /\ UNCHANGED <<rpmErr, wantUp>>
  /\ UNCHANGED <<forbid, sleeps, pmVars, ringVars, countVars, clientVars, eventVars, stVars, pc, errq,
                 live, devVars>>

ResumeStart ==
  /\ rpm = "suspended" /\ ~rpmErr /\ wantUp
  /\ rpm' = "resuming" /\ slp' = "resume" /\ wantUp' = FALSE
  /\ UNCHANGED <<rpmErr, forbid, sleeps, pmVars, ringVars, countVars, clientVars, eventVars, stVars,
                 offVars, devVars>>

\* A failed resume leaves the device suspended, and runtime PM blocked.
ResumeEnds(ok) ==
  /\ rpm' = IF ok THEN "active" ELSE "suspended"
  /\ slp' = "idle" /\ mutex' = "none" /\ rpmErr' = (rpmErr \/ ~ok)

ResumeBegin ==
  /\ slp = "resume" /\ mutex = "none" /\ NoReader
  /\ IF NoEvents(pm)
       THEN ResumeEnds(pm = "DISABLE") /\ UNCHANGED <<pm, ctl>>
       ELSE /\ pm' = TrySet("M3_EXIT")
            /\ IF pm' = "M3_EXIT"
                 THEN ctl' = "M0" /\ slp' = "exit" /\ mutex' = "rpm" /\ UNCHANGED <<rpm, rpmErr>>
                 ELSE ResumeEnds(FALSE) /\ UNCHANGED ctl
  /\ UNCHANGED <<ds, ee, wantUp, forbid, sleeps, dev, wake, errs, idles, ringVars, countVars,
                 clientVars, eventVars, stVars, pc, errq, live>>

\* The wait for M0; on failure the irq thread's check is made at once.
ResumeDone ==
  /\ slp = "exit"
  /\ \/ /\ pm \notin Errors /\ ds = "M0"
        /\ ResumeEnds(TRUE) /\ UNCHANGED <<pmVars, irq, errq>>
     \/ /\ pm \in Errors \/ (ds # "M0" /\ Late("resume"))
        /\ NoReader /\ ResumeEnds(FALSE) /\ Detect
  /\ UNCHANGED <<wantUp, forbid, sleeps, tk, evs, ringVars, countVars, clientVars, stVars, pc, live,
                 devVars>>

-----------------------------------------------------------------------------
(* mhi_pm_disable_transition, run by syserr_worker and by the removal.      *)

Target == [err |-> "SYS_ERR_PROCESS", down |-> "SHUTDOWN_PROCESS"]

\* No suspend or resume is under way or to come: what pm_runtime_get_sync and
\* pm_runtime_forbid wait for.
Settled == rpm = "active" \/ (rpm = "suspended" /\ rpmErr)

\* mhi_pm_sys_err_worker: the status callback forbids runtime suspends.
ErrStart ==
  /\ errq /\ pc.err = "idle"
  /\ errq' = FALSE /\ pc' = [pc EXCEPT !.err = "forbid"]
  /\ forbid' = TRUE /\ AskResume(TRUE)
  /\ UNCHANGED <<rpm, slp, rpmErr, sleeps, mutex, live, pmVars, ringVars, countVars, clientVars,
                 eventVars, stVars, devVars>>

ErrForbid ==
  /\ pc.err = "forbid" /\ Settled
  /\ pc' = [pc EXCEPT !.err = "lock"]
  /\ UNCHANGED <<errq, mutex, live, pmVars, ringVars, countVars, clientVars, eventVars, stVars, rpmVars,
                 devVars>>

\* mhi_pci_device_removed: the link is resumed, powered_on is cleared, ...
DownStart ==
  /\ pc.down = "up"
  /\ ~ErrInDown => /\ pc.err = "idle" /\ ~errq /\ ~irq /\ dev # "SYS_ERR"
                   /\ pm \notin Errors
  /\ pc' = [pc EXCEPT !.down = "sync"] /\ AskResume(TRUE)
  /\ UNCHANGED <<rpm, slp, rpmErr, forbid, sleeps, errq, mutex, live, pmVars, ringVars, countVars,
                 clientVars, eventVars, stVars, devVars>>

DownPower ==
  /\ pc.down = "sync" /\ Settled /\ mutex = "none"
  /\ pc' = [pc EXCEPT !.down = "ld"]
  /\ UNCHANGED <<errq, mutex, live, pmVars, ringVars, countVars, clientVars, eventVars, stVars, rpmVars,
                 devVars>>

\* ... and mhi_power_down first forces the link-down state.
DownLinkDown ==
  /\ pc.down = "ld" /\ mutex = "none" /\ NoReader
  /\ pm' = TrySet("LD_ERR_FATAL_DETECT")
  /\ pc' = [pc EXCEPT !.down = "lock"]
  /\ UNCHANGED <<ds, ee, errq, mutex, live, ringVars, countVars, clientVars, eventVars, stVars, rpmVars,
                 devVars>>

\* The state, and RESET to a modem that can be reached.
OffLock(w) ==
  /\ pc[w] = "lock" /\ mutex = "none" /\ NoReader
  /\ IF Target[w] \in Transitions[pm]
       THEN /\ pm' = Target[w] /\ ds' = "RESET" /\ ee' = "none" /\ mutex' = w
            /\ ctl' = IF RegAccess(pm) THEN "RESET" ELSE ctl
            /\ pc' = [pc EXCEPT ![w] = IF RegAccess(pm) THEN "reset" ELSE "kill"]
       ELSE /\ pc' = [pc EXCEPT ![w] = IF w = "err" THEN "idle" ELSE "free"]
            /\ UNCHANGED <<pmVars, mutex, ctl>>
  /\ UNCHANGED <<errq, live, dev, wake, errs, idles, ringVars, countVars, clientVars, eventVars, stVars,
                 rpmVars>>

\* The modem leaves RESET; if it does not, an error is not handled further.
OffReset(w) ==
  /\ pc[w] = "reset"
  /\ \/ /\ ctl # "RESET"
        /\ pc' = [pc EXCEPT ![w] = "kill"] /\ UNCHANGED mutex
     \/ /\ ctl = "RESET" /\ Late("reset")
        /\ pc' = [pc EXCEPT ![w] = IF w = "err" THEN "idle" ELSE "kill"]
        /\ mutex' = IF w = "err" THEN "none" ELSE mutex
  /\ UNCHANGED <<errq, live, pmVars, ringVars, countVars, clientVars, eventVars, stVars, rpmVars, devVars>>

\* tasklet_kill of all event rings.
OffKill(w) ==
  /\ pc[w] = "kill" /\ tk = "idle" /\ ~put
  /\ mutex' = "none" /\ pc' = [pc EXCEPT ![w] = "destroy"]
  /\ UNCHANGED <<errq, live, pmVars, ringVars, countVars, clientVars, eventVars, stVars, rpmVars, devVars>>

\* A form of OffChannel that does not give the runtime reference back.
OffChannelNoPut(w) ==
  /\ pc[w] = "destroy" /\ (~Overtaken => q = "idle")
  /\ IF ch = "enabled"
       THEN /\ ch' = "suspended" /\ unseen' = 0 /\ seen' = 0 /\ done' = 0
            /\ pending' = pending - (unseen + seen + done) /\ UNCHANGED refs
            /\ pc' = [pc EXCEPT ![w] = "remove"]
       ELSE pc' = [pc EXCEPT ![w] = "flush"] /\ UNCHANGED <<ringVars, countVars>>
  /\ UNCHANGED <<errq, mutex, live, pmVars, clientVars, eventVars, stVars, rpmVars, devVars>>

\* mhi_driver_remove: mhi_reset_data_chan gives every element back, ...
OffChannel(w) ==
  /\ pc[w] = "destroy" /\ (~Overtaken => q = "idle")
  /\ IF ch = "enabled"
       THEN LET n == unseen + seen + done
            IN  /\ ch' = "suspended" /\ unseen' = 0 /\ seen' = 0 /\ done' = 0
                /\ pending' = pending - n
                /\ IF pending > 0 /\ pending <= n THEN Put ELSE UNCHANGED refs
                /\ pc' = [pc EXCEPT ![w] = "remove"]
       ELSE pc' = [pc EXCEPT ![w] = "flush"] /\ UNCHANGED <<ringVars, countVars>>
  /\ UNCHANGED <<errq, mutex, live, pmVars, clientVars, eventVars, stVars, rpmVars, devVars>>

\* ... then the client closes, under the lock it queues with.
OffClient(w) ==
  /\ pc[w] = "remove" /\ q = "idle"
  /\ ch' = "disabled" /\ pc' = [pc EXCEPT ![w] = "flush"]
  /\ UNCHANGED <<unseen, seen, done, errq, mutex, live, pmVars, countVars, clientVars, eventVars, stVars,
                 rpmVars, devVars>>

\* A form of OffFlush that does not wait for st_worker.
OffNoFlush(w) ==
  /\ pc[w] = "flush"
  /\ pc' = [pc EXCEPT ![w] = "rings"]
  /\ UNCHANGED <<errq, mutex, live, pmVars, ringVars, countVars, clientVars, eventVars, stVars, rpmVars,
                 devVars>>

\* flush_work(st_worker).
OffFlush(w) ==
  /\ pc[w] = "flush" /\ st = "idle" /\ list = <<>>
  /\ pc' = [pc EXCEPT ![w] = "rings"]
  /\ UNCHANGED <<errq, mutex, live, pmVars, ringVars, countVars, clientVars, eventVars, stVars, rpmVars,
                 devVars>>

\* The event rings are emptied; then READY is awaited, or the end.
OffRings(w) ==
  /\ pc[w] = "rings" /\ mutex = "none"
  /\ evs' = <<>> /\ mutex' = w
  /\ pc' = [pc EXCEPT ![w] = IF w = "err" THEN "READY" ELSE "disable"]
  /\ UNCHANGED <<tk, irq, errq, live, pmVars, ringVars, countVars, clientVars, stVars, rpmVars, devVars>>

DownDisable ==
  /\ pc.down = "disable" /\ NoReader
  /\ pm' = TrySet("DISABLE") /\ mutex' = "none"
  /\ pc' = [pc EXCEPT !.down = "free"]
  /\ UNCHANGED <<ds, ee, errq, live, ringVars, countVars, clientVars, eventVars, stVars, rpmVars, devVars>>

\* Interrupts, context, register mapping and controller go.
DownFree ==
  /\ pc.down = "free"
  /\ live' = FALSE /\ irq' = FALSE /\ pc' = [pc EXCEPT !.down = "gone"]
  /\ UNCHANGED <<tk, evs, errq, mutex, pmVars, ringVars, countVars, clientVars, stVars, rpmVars, devVars>>

-----------------------------------------------------------------------------
(* The modem.                                                               *)

\* It obeys MHICTRL and reports what it did; M2 only when it asked for it.
DevObeys ==
  /\ \/ /\ ctl = "RESET"
        /\ dev' = "READY" /\ wake' = FALSE /\ UNCHANGED evs
     \/ /\ ctl = "M0" /\ dev \in {"READY", "M3"}
        /\ dev' = "M0" /\ UNCHANGED wake
        /\ evs' = evs \o (IF dev = "READY" THEN <<"M0", "AMSS">> ELSE <<"M0">>)
     \/ /\ ctl = "M2" /\ dev # "SYS_ERR"
        /\ dev' = IF dev = "M1" THEN "M2" ELSE dev
        /\ UNCHANGED <<evs, wake>>
     \/ /\ ctl = "M3" /\ dev \in {"M0", "M1", "M2"}
        /\ dev' = "M3" /\ evs' = Append(evs, "M3") /\ UNCHANGED wake
  /\ ctl' = "none"
  /\ UNCHANGED <<errs, idles, tk, irq, pmVars, ringVars, countVars, clientVars, stVars, offVars, rpmVars>>

\* It asks for M2 when it has nothing to do.
DevIdle ==
  /\ dev = "M0" /\ seen = 0 /\ idles < MaxIdles
  /\ dev' = "M1" /\ evs' = Append(evs, "M1") /\ idles' = idles + 1
  /\ UNCHANGED <<ctl, wake, errs, tk, irq, pmVars, ringVars, countVars, clientVars, stVars, offVars,
                 rpmVars>>

\* A wake or channel doorbell brings it back.
DevWakes ==
  /\ wake \/ (seen > 0 /\ dev \in {"M1", "M2"})
  /\ ctl # "M2" /\ wake' = FALSE
  /\ IF dev \in {"M1", "M2"} THEN dev' = "M0" /\ evs' = Append(evs, "M0") ELSE UNCHANGED <<dev, evs>>
  /\ UNCHANGED <<ctl, errs, idles, tk, irq, pmVars, ringVars, countVars, clientVars, stVars, offVars,
                 rpmVars>>

DevTransfers ==
  /\ dev = "M0" /\ seen > 0
  /\ seen' = seen - 1 /\ done' = done + 1
  /\ UNCHANGED <<ch, unseen, pmVars, countVars, clientVars, eventVars, stVars, offVars, rpmVars, devVars>>

\* It fails, and says so by an event or by the error interrupt.
DevFails ==
  /\ dev \in {"M0", "M1", "M2", "M3"} /\ errs < MaxErrs
  /\ ~ErrInDown => pc.down = "up"
  /\ dev' = "SYS_ERR" /\ errs' = errs + 1
  /\ \/ irq' = TRUE /\ UNCHANGED evs
     \/ dev # "M3" /\ evs' = Append(evs, "SYS_ERR") /\ UNCHANGED irq
  /\ UNCHANGED <<ctl, wake, idles, tk, pmVars, ringVars, countVars, clientVars, stVars, offVars, rpmVars>>

-----------------------------------------------------------------------------
Client == QueueCheck \/ QueueElement \/ QueueCount \/ QueueGet \/ QueueRing
Tasklets == DataEvent \/ DataPut \/ TaskStart \/ TaskEnd \/ TaskEvent \/ TaskRing \/ IrqThread
StWorker == StTake \/ ReadyState("st") \/ ReadyToM0("st") \/ StGetSync \/ StMission \/ StCreate
RuntimePm ==
  \/ SuspendStart \/ SuspendBegin \/ SuspendAwake \/ SuspendEnter \/ SuspendDone
  \/ ResumeStart \/ ResumeBegin \/ ResumeDone
OffSteps(w) ==
  \/ OffLock(w) \/ OffReset(w) \/ OffKill(w) \/ OffChannel(w) \/ OffClient(w) \/ OffFlush(w)
  \/ OffRings(w)
ErrWorker == ErrStart \/ ErrForbid \/ OffSteps("err") \/ ReadyState("err") \/ ReadyToM0("err")
Removal == DownStart \/ DownPower \/ DownLinkDown \/ OffSteps("down") \/ DownDisable \/ DownFree
Modem == DevObeys \/ DevIdle \/ DevWakes \/ DevTransfers \/ DevFails

Next == Client \/ Tasklets \/ StWorker \/ RuntimePm \/ ErrWorker \/ Removal \/ Modem

Spec == Init /\ [][Next]_vars

\* Threads that are inside a call go on, and a modem that has not failed answers.
\* Nobody has to queue, suspend, remove, idle or fail.
FairSpec ==
  /\ Spec
  /\ WF_vars(QueueElement) /\ WF_vars(QueueCount) /\ WF_vars(QueueGet) /\ WF_vars(QueueRing)
  /\ WF_vars(DataEvent \/ DataPut)
  /\ WF_vars(TaskStart \/ TaskEnd \/ TaskEvent \/ TaskRing) /\ WF_vars(IrqThread)
  /\ WF_vars(StWorker)
  /\ WF_vars(RuntimePm /\ ~SuspendStart)
  /\ WF_vars(ErrWorker) /\ WF_vars(Removal /\ ~DownStart)
  /\ WF_vars(DevObeys) /\ WF_vars(DevWakes) /\ WF_vars(DevTransfers)

-----------------------------------------------------------------------------
(* Properties.                                                              *)

\* A transfer that was queued without a doorbell, because the link was in M2 or
\* M3 or on its way, has somebody who is bound to ring for it: the m0
\* transition that is about to, a modem that is being woken, or a resume.
Announced ==
  unseen > 0 /\ ch = "enabled" /\ q \in {"idle", "checked"} /\ pm \notin Errors /\ dev # "SYS_ERR" =>
    \/ tk = "ring"
    \/ pm = "M2" /\ (wake \/ \E i \in DOMAIN evs : evs[i] = "M0")
    \/ pm = "M3_EXIT" \/ rpm = "resuming"
    \/ InSuspend(pm) /\ wantUp

\* A client with nothing in the ring holds no count and no runtime reference,
\* so that the link may sleep again.
IdleRefs ==
  q \in {"idle", "checked"} /\ ~put /\ unseen + seen + done = 0 => pending = 0 /\ refs = 0

\* A transfer keeps the link awake until it is done, and not longer.
TransfersKept == Announced /\ IdleRefs

\* While the device is runtime-suspended no thread is about to touch its
\* registers, unless it has asked for the resume that it waits for.
AsleepQuiet ==
  rpm = "suspended" /\ ~rpmErr /\ live =>
    pm = "M3" /\ ds = "M3" /\ tk # "ring" /\ (st # "idle" => wantUp)

\* The states keep their types, and a suspended device is left alone.
SleepSafe == TypeOK /\ AsleepQuiet

\* After the removal nothing is left that would use the controller.
GoneIsGone ==
  ~live =>
    /\ pm = "DISABLE" /\ tk = "idle" /\ q = "idle" /\ ~put
    /\ st = "idle" /\ list = <<>> /\ slp = "idle"
    /\ pc.err = "idle" /\ ~errq

\* Every queued transfer is carried out or given back.
Delivered == ch = "enabled" /\ unseen + seen > 0 ~> ch # "enabled" \/ unseen + seen = 0

\* A failure of the modem that was noticed ends in M0 again, or in a removal.
Recovers == pm = "SYS_ERR_DETECT" ~> pm = "M0" \/ pc.down # "up"
=============================================================================
