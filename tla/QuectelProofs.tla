---------------------------- MODULE QuectelProofs ----------------------------
(***************************************************************************)
(* Proofs about the two Quectel kernel drivers: MhiPm for every size of    *)
(* the transfer ring and any number of transfers, suspends, idle times and *)
(* failures, and, in the second part, GobiQmi for any files, client ids,   *)
(* transaction ids, writes and indications.                                *)
(*                                                                         *)
(* SleepIsSafe: a runtime-suspended device is left alone, whatever waits   *)
(* time out, whoever overtakes mhi_queue_buf and whenever the modem fails. *)
(* RemovalIsFinal: nothing is left that would use a removed controller, if *)
(* the modem does not fail during the removal (~ErrInDown).                *)
(* TransfersAreKept: a transfer has somebody to announce it to the modem,  *)
(* and a client with an empty ring has left no count and no reference, if  *)
(* in addition the client is not overtaken before it has counted           *)
(* (~Overtaken) and the waits of a suspend end only with an answer or a    *)
(* failure of the modem ("suspend" \notin Slow).                           *)
(* AnswersAreOwn: GetClientID never takes the answer to another request,   *)
(* in all Circumstances.                                                   *)
(*                                                                         *)
(* Each invariant is kept by one lemma per conjunct, with one case for     *)
(* each action that changes a variable of the conjunct.                    *)
(***************************************************************************)
EXTENDS MhiPm, GobiQmi, SequenceTheorems, FiniteSetTheorems, WellFoundedInduction, TLAPS

-----------------------------------------------------------------------------
(* The types.                                                               *)

\* What the modem reports.
Events == {"M0", "M1", "M3", "AMSS", "SYS_ERR"}

\* TypeOK by the parts that a step changes, with the room that mhi_queue_buf has found.
StateTypes ==
  /\ pm \in PmStates /\ ds \in {"RESET", "READY", "M0", "M2", "M3"} /\ ee \in {"none", "amss"}
  /\ ch \in {"disabled", "enabled", "suspended"}
CountTypes ==
  /\ unseen \in Nat /\ seen \in Nat /\ done \in Nat /\ refs \in Nat /\ pending \in Int
  /\ q \in {"idle", "checked", "gen", "get", "db"}
  /\ unseen + seen + done <= Slots
  /\ q = "checked" => unseen + seen + done < Slots
FlagTypes ==
  /\ put \in BOOLEAN /\ irq \in BOOLEAN /\ errq \in BOOLEAN /\ live \in BOOLEAN
  /\ wantUp \in BOOLEAN /\ rpmErr \in BOOLEAN /\ forbid \in BOOLEAN /\ wake \in BOOLEAN
PlaceTypes ==
  /\ tk \in {"idle", "loop", "ring"} /\ mutex \in {"none", "err", "down", "rpm"}
  /\ st \in {"idle", "READY", "mmio", "MISSION", "getsync", "create"}
  /\ pc = [err |-> pc.err, down |-> pc.down]
  /\ pc.err \in {"idle", "forbid", "lock", "reset", "kill", "destroy", "remove", "flush",
                 "rings", "READY", "mmio"}
  /\ pc.down \in {"up", "sync", "ld", "lock", "reset", "kill", "destroy", "remove", "flush",
                  "rings", "disable", "free", "gone"}
  /\ rpm \in {"active", "suspending", "suspended", "resuming"}
  /\ slp \in {"idle", "suspend", "m0", "enter", "m3", "resume", "exit"}
  /\ dev \in {"READY", "M0", "M1", "M2", "M3", "SYS_ERR"}
  /\ ctl \in {"none", "RESET", "M0", "M2", "M3"}
QueueTypes == evs \in Seq(Events) /\ list \in Seq({"READY", "MISSION"})
BoundTypes ==
  sends \in 0..MaxSends /\ sleeps \in 0..MaxSleeps /\ errs \in 0..MaxErrs /\ idles \in 0..MaxIdles
Types == StateTypes /\ CountTypes /\ FlagTypes /\ PlaceTypes /\ QueueTypes /\ BoundTypes

-----------------------------------------------------------------------------
(* The steps.                                                               *)

\* The control tasklet takes the oldest event and does what its kind says.
LEMMA EventKinds ==
  ASSUME evs \in Seq(Events), TaskEvent
  PROVE  /\ tk = "loop" /\ evs # <<>> /\ evs' = Tail(evs)
         /\ UNCHANGED <<irq, ringVars, countVars, clientVars, st, mutex, pc, live, rpmVars, dev,
                       wake, errs, idles>>
         /\ \/ evs[1] = "M0" /\ NoReader /\ M0Transition
            \/ evs[1] = "M1" /\ NoReader /\ M1Transition
            \/ evs[1] = "M3" /\ NoReader /\ M3Transition
            \/ evs[1] = "SYS_ERR" /\ NoReader /\ ErrorEvent
            \/ evs[1] = "AMSS" /\ MissionEvent
<1>1. Head(evs) = evs[1] /\ evs[1] \in Events
  BY DEF TaskEvent
<1>2. CASE Head(evs) = "M0"
  BY <1>1, <1>2 DEF TaskEvent
<1>3. CASE Head(evs) = "M1"
  BY <1>1, <1>3 DEF TaskEvent
<1>4. CASE Head(evs) = "M3"
  BY <1>1, <1>4 DEF TaskEvent
<1>5. CASE Head(evs) = "SYS_ERR"
  BY <1>1, <1>5 DEF TaskEvent
<1>6. CASE Head(evs) = "AMSS"
  BY <1>1, <1>6 DEF TaskEvent
<1> QED
  BY <1>1, <1>2, <1>3, <1>4, <1>5, <1>6 DEF Events

\* Which actions change a variable.
LEMMA Movers ==
  ASSUME evs \in Seq(Events), [Next]_vars
  PROVE
    /\ pm' = pm \/ TaskEvent \/ IrqThread \/ ReadyState("st") \/ SuspendEnter \/ ResumeBegin
       \/ ResumeDone \/ ReadyState("err") \/ OffLock("err") \/ OffLock("down") \/
       DownLinkDown \/ DownDisable
    /\ ds' = ds \/ TaskEvent \/ ReadyState("st") \/ ReadyState("err") \/ OffLock("err") \/
       OffLock("down")
    /\ ee' = ee \/ StMission \/ OffLock("err") \/ OffLock("down")
    /\ ch' = ch \/ StCreate \/ OffChannel("err") \/ OffClient("err") \/ OffChannel("down")
       \/ OffClient("down")
    /\ unseen' = unseen \/ QueueElement \/ QueueRing \/ TaskRing \/ StCreate \/
       OffChannel("err") \/ OffChannel("down")
    /\ seen' = seen \/ QueueRing \/ TaskRing \/ StCreate \/ OffChannel("err") \/
       OffChannel("down") \/ DevTransfers
    /\ done' = done \/ DataEvent \/ StCreate \/ OffChannel("err") \/ OffChannel("down") \/
       DevTransfers
    /\ pending' = pending \/ QueueCount \/ DataEvent \/ OffChannel("err") \/
       OffChannel("down")
    /\ refs' = refs \/ QueueGet \/ DataPut \/ OffChannel("err") \/ OffChannel("down")
    /\ q' = q \/ QueueCheck \/ QueueElement \/ QueueCount \/ QueueGet \/ QueueRing
    /\ put' = put \/ DataEvent \/ DataPut
    /\ sends' = sends \/ QueueCheck
    /\ tk' = tk \/ TaskStart \/ TaskEnd \/ TaskEvent \/ TaskRing
    /\ evs' = evs \/ TaskEvent \/ OffRings("err") \/ OffRings("down") \/ DevObeys \/ DevIdle
       \/ DevWakes \/ DevFails
    /\ irq' = irq \/ IrqThread \/ ResumeDone \/ DownFree \/ DevFails
    /\ list' = list \/ TaskEvent \/ StTake
    /\ st' = st \/ StTake \/ ReadyState("st") \/ ReadyToM0("st") \/ StGetSync \/ StMission
       \/ StCreate
    /\ mutex' = mutex \/ SuspendBegin \/ SuspendAwake \/ SuspendEnter \/ SuspendDone \/
       ResumeBegin \/ ResumeDone \/ ReadyState("err") \/ ReadyToM0("err") \/ OffLock("err")
       \/ OffReset("err") \/ OffKill("err") \/ OffRings("err") \/ OffLock("down") \/
       OffReset("down") \/ OffKill("down") \/ OffRings("down") \/ DownDisable
    /\ pc' = pc \/ ErrStart \/ ErrForbid \/ ReadyState("err") \/ ReadyToM0("err") \/
       OffLock("err") \/ OffReset("err") \/ OffKill("err") \/ OffChannel("err") \/
       OffClient("err") \/ OffFlush("err") \/ OffRings("err") \/ OffLock("down") \/
       OffReset("down") \/ OffKill("down") \/ OffChannel("down") \/ OffClient("down") \/
       OffFlush("down") \/ OffRings("down") \/ DownStart \/ DownPower \/ DownLinkDown \/
       DownDisable \/ DownFree
    /\ errq' = errq \/ TaskEvent \/ IrqThread \/ ResumeDone \/ ErrStart
    /\ live' = live \/ DownFree
    /\ rpm' = rpm \/ SuspendStart \/ SuspendBegin \/ SuspendAwake \/ SuspendEnter \/
       SuspendDone \/ ResumeStart \/ ResumeBegin \/ ResumeDone
    /\ slp' = slp \/ SuspendStart \/ SuspendBegin \/ SuspendAwake \/ SuspendEnter \/
       SuspendDone \/ ResumeStart \/ ResumeBegin \/ ResumeDone
    /\ wantUp' = wantUp \/ QueueCount \/ QueueGet \/ StGetSync \/ StMission \/ SuspendBegin
       \/ SuspendAwake \/ SuspendEnter \/ SuspendDone \/ ResumeStart \/ ErrStart \/
       DownStart
    /\ rpmErr' = rpmErr \/ SuspendBegin \/ SuspendAwake \/ SuspendEnter \/ SuspendDone \/
       ResumeBegin \/ ResumeDone
    /\ forbid' = forbid \/ ErrStart
    /\ sleeps' = sleeps \/ SuspendStart
    /\ dev' = dev \/ DevObeys \/ DevIdle \/ DevWakes \/ DevFails
    /\ ctl' = ctl \/ TaskEvent \/ ReadyToM0("st") \/ SuspendEnter \/ ResumeBegin \/
       ReadyToM0("err") \/ OffLock("err") \/ OffLock("down") \/ DevObeys
    /\ wake' = wake \/ QueueCount \/ TaskRing \/ StGetSync \/ StCreate \/ SuspendBegin \/
       DevObeys \/ DevWakes
    /\ errs' = errs \/ DevFails
    /\ idles' = idles \/ DevIdle
<1> USE DEF vars, pmVars, ringVars, countVars, clientVars, eventVars, stVars, offVars,
        rpmVars, devVars
<1>1. CASE QueueCheck
  BY <1>1 DEF QueueCheck
<1>2. CASE QueueElement
  BY <1>2 DEF QueueElement
<1>3. CASE QueueCount
  BY <1>3 DEF QueueCount, AskResume, WakeGet
<1>4. CASE QueueGet
  BY <1>4 DEF QueueGet, AskResume
<1>5. CASE QueueRing
  BY <1>5 DEF QueueRing
<1>6. CASE DataEvent
  BY <1>6 DEF DataEvent
<1>7. CASE DataPut
  BY <1>7 DEF DataPut
<1>8. CASE TaskStart
  BY <1>8 DEF TaskStart
<1>9. CASE TaskEnd
  BY <1>9 DEF TaskEnd
<1>10. CASE TaskEvent
  BY <1>10, EventKinds DEF M0Transition, M1Transition, M3Transition, ErrorEvent, MissionEvent
<1>11. CASE TaskRing
  BY <1>11 DEF TaskRing, WakeGet
<1>12. CASE IrqThread
  BY <1>12 DEF IrqThread, Detect
<1>13. CASE StTake
  BY <1>13 DEF StTake
<1>14. CASE ReadyState("st")
  BY <1>14 DEF ReadyState, At, GoTo
<1>15. CASE ReadyToM0("st")
  BY <1>15 DEF ReadyToM0, At, GoTo
<1>16. CASE StGetSync
  BY <1>16 DEF StGetSync, AskResume, WakeGet
<1>17. CASE StMission
  BY <1>17 DEF StMission, AskResume
<1>18. CASE StCreate
  BY <1>18 DEF StCreate, WakeGet
<1>19. CASE SuspendStart
  BY <1>19 DEF SuspendStart
<1>20. CASE SuspendBegin
  BY <1>20 DEF SuspendBegin, SuspendFails, WakeGet
<1>21. CASE SuspendAwake
  BY <1>21 DEF SuspendAwake, SuspendFails
<1>22. CASE SuspendEnter
  BY <1>22 DEF SuspendEnter, SuspendFails
<1>23. CASE SuspendDone
  BY <1>23 DEF SuspendDone, SuspendFails
<1>24. CASE ResumeStart
  BY <1>24 DEF ResumeStart
<1>25. CASE ResumeBegin
  BY <1>25 DEF ResumeBegin, ResumeEnds
<1>26. CASE ResumeDone
  BY <1>26 DEF ResumeDone, ResumeEnds, Detect
<1>27. CASE ErrStart
  BY <1>27 DEF ErrStart, AskResume
<1>28. CASE ErrForbid
  BY <1>28 DEF ErrForbid
<1>29. CASE ReadyState("err")
  BY <1>29 DEF ReadyState, At, GoTo
<1>30. CASE ReadyToM0("err")
  BY <1>30 DEF ReadyToM0, At, GoTo
<1>31. CASE OffLock("err")
  BY <1>31 DEF OffLock
<1>32. CASE OffReset("err")
  BY <1>32 DEF OffReset
<1>33. CASE OffKill("err")
  BY <1>33 DEF OffKill
<1>34. CASE OffChannel("err")
  BY <1>34 DEF OffChannel
<1>35. CASE OffClient("err")
  BY <1>35 DEF OffClient
<1>36. CASE OffFlush("err")
  BY <1>36 DEF OffFlush
<1>37. CASE OffRings("err")
  BY <1>37 DEF OffRings
<1>38. CASE OffLock("down")
  BY <1>38 DEF OffLock
<1>39. CASE OffReset("down")
  BY <1>39 DEF OffReset
<1>40. CASE OffKill("down")
  BY <1>40 DEF OffKill
<1>41. CASE OffChannel("down")
  BY <1>41 DEF OffChannel
<1>42. CASE OffClient("down")
  BY <1>42 DEF OffClient
<1>43. CASE OffFlush("down")
  BY <1>43 DEF OffFlush
<1>44. CASE OffRings("down")
  BY <1>44 DEF OffRings
<1>45. CASE DownStart
  BY <1>45 DEF DownStart, AskResume
<1>46. CASE DownPower
  BY <1>46 DEF DownPower
<1>47. CASE DownLinkDown
  BY <1>47 DEF DownLinkDown
<1>48. CASE DownDisable
  BY <1>48 DEF DownDisable
<1>49. CASE DownFree
  BY <1>49 DEF DownFree
<1>50. CASE DevObeys
  BY <1>50 DEF DevObeys
<1>51. CASE DevIdle
  BY <1>51 DEF DevIdle
<1>52. CASE DevWakes
  BY <1>52 DEF DevWakes
<1>53. CASE DevTransfers
  BY <1>53 DEF DevTransfers
<1>54. CASE DevFails
  BY <1>54 DEF DevFails
<1>55. CASE UNCHANGED vars
  BY <1>55
<1> QED
  BY <1>1, <1>2, <1>3, <1>4, <1>5, <1>6, <1>7, <1>8, <1>9, <1>10, <1>11, <1>12, <1>13,
     <1>14, <1>15, <1>16, <1>17, <1>18, <1>19, <1>20, <1>21, <1>22, <1>23, <1>24, <1>25,
     <1>26, <1>27, <1>28, <1>29, <1>30, <1>31, <1>32, <1>33, <1>34, <1>35, <1>36, <1>37,
     <1>38, <1>39, <1>40, <1>41, <1>42, <1>43, <1>44, <1>45, <1>46, <1>47, <1>48, <1>49,
     <1>50, <1>51, <1>52, <1>53, <1>54, <1>55
  DEF Next, Client, Tasklets, StWorker, RuntimePm, OffSteps, ErrWorker, Removal, Modem

\* A try to enter a state works from the states that lead there, and changes
\* nothing otherwise.
LEMMA TryIs ==
  ASSUME pm \in PmStates
  PROVE  /\ TrySet("POR") = IF pm \in {"DISABLE", "POR", "SYS_ERR_PROCESS"} THEN "POR" ELSE pm
         /\ TrySet("M0") = IF pm \in {"POR", "M2", "M3_EXIT"} THEN "M0" ELSE pm
         /\ TrySet("M2") = IF pm = "M0" THEN "M2" ELSE pm
         /\ TrySet("M3_ENTER") = IF pm = "M0" THEN "M3_ENTER" ELSE pm
         /\ TrySet("M3") = IF pm = "M3_ENTER" THEN "M3" ELSE pm
         /\ TrySet("M3_EXIT") = IF pm = "M3" THEN "M3_EXIT" ELSE pm
         /\ TrySet("DISABLE") = IF pm \in {"POR", "SHUTDOWN_PROCESS"} THEN "DISABLE" ELSE pm
         /\ TrySet("LD_ERR_FATAL_DETECT") = IF pm = "DISABLE" THEN pm ELSE "LD_ERR_FATAL_DETECT"
         /\ TrySet("SYS_ERR_DETECT") =
              IF pm \in {"POR", "M0", "M2", "M3_ENTER", "M3", "M3_EXIT", "FW_DL_ERR"}
                THEN "SYS_ERR_DETECT" ELSE pm
         /\ "SYS_ERR_PROCESS" \in Transitions[pm] <=> pm = "SYS_ERR_DETECT"
         /\ "SHUTDOWN_PROCESS" \in Transitions[pm] <=> pm \notin {"DISABLE", "SHUTDOWN_PROCESS"}
  BY DEF PmStates, Errors, TrySet, Transitions

\* Writing the step of one of the two workers.
LEMMA WorkerMoves ==
  ASSUME PlaceTypes
  PROVE  /\ pc["err"] = pc.err /\ pc["down"] = pc.down
         /\ \A x : /\ [pc EXCEPT !["err"] = x] = [err |-> x, down |-> pc.down]
                  /\ [pc EXCEPT !["down"] = x] = [err |-> pc.err, down |-> x]
  BY DEF PlaceTypes

\* An event at the end of the event ring, or taken from its front.
LEMMA EventQueue ==
  ASSUME NEW s \in Seq(Events)
  PROVE  /\ Len(s) \in Nat /\ (s = <<>> <=> Len(s) = 0)
         /\ \A i \in 1 .. Len(s) : s[i] \in Events
         /\ \A e \in Events :
              /\ Append(s, e) \in Seq(Events) /\ Len(Append(s, e)) = Len(s) + 1
              /\ Append(s, e)[Len(s) + 1] = e
              /\ \A i \in 1 .. Len(s) : Append(s, e)[i] = s[i]
         /\ s # <<>> =>
              /\ Tail(s) \in Seq(Events) /\ Len(Tail(s)) = Len(s) - 1
              /\ \A i \in 1 .. Len(s) - 1 : Tail(s)[i] = s[i + 1]
<1>1. s # <<>> => /\ Tail(s) \in Seq(Events) /\ Len(Tail(s)) = Len(s) - 1
                  /\ \A i \in 1 .. Len(s) - 1 : Tail(s)[i] = s[i + 1]
  OBVIOUS
<1> QED
  BY <1>1

\* The modem reports each of its moves by one event, but for its first one.
LEMMA ModemReports ==
  ASSUME evs \in Seq(Events), DevObeys
  PROVE  \/ evs' = evs
         \/ ctl = "M0" /\ dev = "M3" /\ dev' = "M0" /\ evs' = Append(evs, "M0")
         \/ ctl = "M3" /\ dev' = "M3" /\ evs' = Append(evs, "M3")
         \/ ctl = "M0" /\ dev = "READY" /\ dev' = "M0" /\ evs' = Append(Append(evs, "M0"), "AMSS")
<1>1. CASE ctl = "M0" /\ dev \in {"READY", "M3"}
  <2>1. dev = "READY" => evs' = Append(Append(evs, "M0"), "AMSS")
    <3>1. evs \o <<"M0", "AMSS">> = Append(Append(evs, "M0"), "AMSS")
      OBVIOUS
    <3> QED
      BY <1>1, <3>1 DEF DevObeys
  <2>2. dev = "M3" => evs' = Append(evs, "M0")
    <3>1. evs \o <<"M0">> = Append(evs, "M0")
      OBVIOUS
    <3> QED
      BY <1>1, <3>1 DEF DevObeys
  <2> QED
    BY <1>1, <2>1, <2>2 DEF DevObeys
<1>2. CASE ~(ctl = "M0" /\ dev \in {"READY", "M3"})
  BY <1>2 DEF DevObeys, eventVars
<1> QED
  BY <1>1, <1>2

\* Every step keeps the types of the states,
LEMMA StateTypesStep ==
  ASSUME Types, [Next]_vars
  PROVE  StateTypes'
<1> USE TryIs DEF Types, QueueTypes, pmVars, ringVars, countVars, clientVars, eventVars,
        stVars, offVars, rpmVars, devVars, StateTypes, PmStates, Errors
<1>1. CASE TaskEvent
  BY <1>1, EventKinds DEF M0Transition, M1Transition, M3Transition, ErrorEvent, MissionEvent
<1>2. CASE IrqThread
  BY <1>2 DEF IrqThread, Detect
<1>3. CASE ReadyState("st")
  BY <1>3 DEF ReadyState, At, GoTo
<1>4. CASE StMission
  BY <1>4 DEF StMission, AskResume
<1>5. CASE StCreate
  BY <1>5 DEF StCreate, WakeGet
<1>6. CASE SuspendEnter
  BY <1>6 DEF SuspendEnter, SuspendFails
<1>7. CASE ResumeBegin
  BY <1>7 DEF ResumeBegin, ResumeEnds
<1>8. CASE ResumeDone
  BY <1>8 DEF ResumeDone, ResumeEnds, Detect
<1>9. CASE ReadyState("err")
  BY <1>9 DEF ReadyState, At, GoTo
<1>10. CASE OffLock("err")
  BY <1>10 DEF OffLock, Target, Target
<1>11. CASE OffChannel("err")
  BY <1>11 DEF OffChannel, Put
<1>12. CASE OffClient("err")
  BY <1>12 DEF OffClient
<1>13. CASE OffLock("down")
  BY <1>13 DEF OffLock, Target, Target
<1>14. CASE OffChannel("down")
  BY <1>14 DEF OffChannel, Put
<1>15. CASE OffClient("down")
  BY <1>15 DEF OffClient
<1>16. CASE DownLinkDown
  BY <1>16 DEF DownLinkDown
<1>17. CASE DownDisable
  BY <1>17 DEF DownDisable
<1>18. CASE UNCHANGED <<pm, ds, ee, ch>>
  BY <1>18
<1> QED
  BY Movers, <1>1, <1>2, <1>3, <1>4, <1>5, <1>6, <1>7, <1>8, <1>9, <1>10, <1>11, <1>12,
     <1>13, <1>14, <1>15, <1>16, <1>17, <1>18

\* ... of the counts, and the room in the transfer ring,
LEMMA CountTypesStep ==
  ASSUME Types, [Next]_vars
  PROVE  CountTypes'
<1> USE DEF Types, QueueTypes, pmVars, ringVars, countVars, clientVars, eventVars, stVars,
        offVars, rpmVars, devVars, CountTypes
<1>s. Slots \in Nat
  BY MhiAssumption
<1>1. CASE QueueCheck
  BY <1>1 DEF QueueCheck
<1>2. CASE QueueElement
  BY <1>2, <1>s DEF QueueElement
<1>3. CASE QueueCount
  BY <1>3 DEF QueueCount, AskResume, WakeGet
<1>4. CASE QueueGet
  BY <1>4 DEF QueueGet, AskResume
<1>5. CASE QueueRing
  BY <1>5 DEF QueueRing
<1>6. CASE DataEvent
  BY <1>6, <1>s DEF DataEvent
<1>7. CASE DataPut
  BY <1>7 DEF DataPut, Put
<1>8. CASE TaskRing
  BY <1>8 DEF TaskRing, WakeGet
<1>9. CASE StCreate
  <2>1. unseen' + seen' + done' <= Slots
    BY <1>9, <1>s DEF StCreate
  <2>2. unseen' \in Nat /\ seen' \in Nat /\ done' \in Nat /\ UNCHANGED <<pending, refs, q>>
    BY <1>9 DEF StCreate
  <2>3. q = "checked" => unseen' + seen' + done' < Slots
    BY <1>9, <1>s DEF StCreate
  <2> QED
    BY <2>1, <2>2, <2>3
<1>10. CASE OffChannel("err")
  BY <1>10, <1>s DEF OffChannel, Put
<1>11. CASE OffChannel("down")
  BY <1>11, <1>s DEF OffChannel, Put
<1>12. CASE DevTransfers
  BY <1>12 DEF DevTransfers
<1>13. CASE UNCHANGED <<unseen, seen, done, pending, refs, q>>
  BY <1>13
<1> QED
  BY Movers, <1>1, <1>2, <1>3, <1>4, <1>5, <1>6, <1>7, <1>8, <1>9, <1>10, <1>11, <1>12,
     <1>13

\* ... of the flags,
LEMMA FlagTypesStep ==
  ASSUME Types, [Next]_vars
  PROVE  FlagTypes'
<1> USE DEF Types, QueueTypes, pmVars, ringVars, countVars, clientVars, eventVars, stVars,
        offVars, rpmVars, devVars, FlagTypes
<1>1. CASE QueueCount
  BY <1>1 DEF QueueCount, AskResume, WakeGet
<1>2. CASE QueueGet
  BY <1>2 DEF QueueGet, AskResume
<1>3. CASE DataEvent
  BY <1>3 DEF DataEvent
<1>4. CASE DataPut
  BY <1>4 DEF DataPut, Put
<1>5. CASE TaskEvent
  BY <1>5, EventKinds DEF M0Transition, M1Transition, M3Transition, ErrorEvent, MissionEvent
<1>6. CASE TaskRing
  BY <1>6 DEF TaskRing, WakeGet
<1>7. CASE IrqThread
  BY <1>7 DEF IrqThread, Detect
<1>8. CASE StGetSync
  BY <1>8 DEF StGetSync, WakeGet, AskResume
<1>9. CASE StMission
  BY <1>9 DEF StMission, AskResume
<1>10. CASE StCreate
  BY <1>10 DEF StCreate, WakeGet
<1>11. CASE SuspendBegin
  BY <1>11 DEF SuspendBegin, SuspendFails, WakeGet
<1>12. CASE SuspendAwake
  BY <1>12 DEF SuspendAwake, SuspendFails
<1>13. CASE SuspendEnter
  BY <1>13 DEF SuspendEnter, SuspendFails
<1>14. CASE SuspendDone
  BY <1>14 DEF SuspendDone, SuspendFails
<1>15. CASE ResumeStart
  BY <1>15 DEF ResumeStart
<1>16. CASE ResumeBegin
  BY <1>16 DEF ResumeBegin, ResumeEnds
<1>17. CASE ResumeDone
  BY <1>17 DEF ResumeDone, ResumeEnds, Detect
<1>18. CASE ErrStart
  BY <1>18 DEF ErrStart, AskResume
<1>19. CASE DownStart
  BY <1>19 DEF DownStart, AskResume
<1>20. CASE DownFree
  BY <1>20 DEF DownFree
<1>21. CASE DevObeys
  BY <1>21 DEF DevObeys
<1>22. CASE DevWakes
  BY <1>22 DEF DevWakes
<1>23. CASE DevFails
  BY <1>23 DEF DevFails
<1>24. CASE UNCHANGED <<put, irq, errq, live, wantUp, rpmErr, forbid, wake>>
  BY <1>24
<1> QED
  BY Movers, <1>1, <1>2, <1>3, <1>4, <1>5, <1>6, <1>7, <1>8, <1>9, <1>10, <1>11, <1>12,
     <1>13, <1>14, <1>15, <1>16, <1>17, <1>18, <1>19, <1>20, <1>21, <1>22, <1>23, <1>24

\* ... of the places of the threads and of the modem,
LEMMA PlaceTypesStep ==
  ASSUME Types, [Next]_vars
  PROVE  PlaceTypes'
<1> USE DEF Types, QueueTypes, pmVars, ringVars, countVars, clientVars, eventVars, stVars,
        offVars, rpmVars, devVars, PlaceTypes
<1>1. CASE TaskStart
  BY <1>1 DEF TaskStart
<1>2. CASE TaskEnd
  BY <1>2 DEF TaskEnd
<1>3. CASE TaskEvent
  BY <1>3, EventKinds DEF M0Transition, M1Transition, M3Transition, ErrorEvent, MissionEvent
<1>4. CASE TaskRing
  BY <1>4 DEF TaskRing, WakeGet
<1>5. CASE StTake
  BY <1>5 DEF StTake
<1>6. CASE ReadyState("st")
  BY <1>6 DEF ReadyState, At, GoTo
<1>7. CASE ReadyToM0("st")
  BY <1>7 DEF ReadyToM0, At, GoTo
<1>8. CASE StGetSync
  BY <1>8 DEF StGetSync, WakeGet, AskResume
<1>9. CASE StMission
  BY <1>9 DEF StMission, AskResume
<1>10. CASE StCreate
  BY <1>10 DEF StCreate, WakeGet
<1>11. CASE SuspendStart
  BY <1>11 DEF SuspendStart
<1>12. CASE SuspendBegin
  BY <1>12 DEF SuspendBegin, SuspendFails, WakeGet
<1>13. CASE SuspendAwake
  BY <1>13 DEF SuspendAwake, SuspendFails
<1>14. CASE SuspendEnter
  BY <1>14 DEF SuspendEnter, SuspendFails
<1>15. CASE SuspendDone
  BY <1>15 DEF SuspendDone, SuspendFails
<1>16. CASE ResumeStart
  BY <1>16 DEF ResumeStart
<1>17. CASE ResumeBegin
  BY <1>17 DEF ResumeBegin, ResumeEnds
<1>18. CASE ResumeDone
  BY <1>18 DEF ResumeDone, ResumeEnds, Detect
<1>19. CASE ErrStart
  BY <1>19 DEF ErrStart, AskResume
<1>20. CASE ErrForbid
  BY <1>20 DEF ErrForbid
<1>21. CASE ReadyState("err")
  BY <1>21 DEF ReadyState, At, GoTo
<1>22. CASE ReadyToM0("err")
  BY <1>22 DEF ReadyToM0, At, GoTo
<1>23. CASE OffLock("err")
  BY <1>23, WorkerMoves DEF OffLock, Target
<1>24. CASE OffReset("err")
  BY <1>24, WorkerMoves DEF OffReset
<1>25. CASE OffKill("err")
  <2>1. pc' = [err |-> "destroy", down |-> pc.down]
    BY <1>25, WorkerMoves DEF OffKill
  <2>2. mutex' \in {mutex, "none", "err"} /\ UNCHANGED <<tk, st, rpm, slp, dev, ctl>>
    BY <1>25 DEF OffKill
  <2> QED
    BY <2>1, <2>2
<1>26. CASE OffChannel("err")
  BY <1>26, WorkerMoves DEF OffChannel, Put
<1>27. CASE OffClient("err")
  <2>1. pc' = [err |-> "flush", down |-> pc.down]
    BY <1>27, WorkerMoves DEF OffClient
  <2>2. mutex' \in {mutex, "none", "err"} /\ UNCHANGED <<tk, st, rpm, slp, dev, ctl>>
    BY <1>27 DEF OffClient
  <2> QED
    BY <2>1, <2>2
<1>28. CASE OffFlush("err")
  <2>1. pc' = [err |-> "rings", down |-> pc.down]
    BY <1>28, WorkerMoves DEF OffFlush
  <2>2. mutex' \in {mutex, "none", "err"} /\ UNCHANGED <<tk, st, rpm, slp, dev, ctl>>
    BY <1>28 DEF OffFlush
  <2> QED
    BY <2>1, <2>2
<1>29. CASE OffRings("err")
  <2>1. pc' = [err |-> "READY", down |-> pc.down]
    BY <1>29, WorkerMoves DEF OffRings
  <2>2. mutex' \in {mutex, "none", "err"} /\ UNCHANGED <<tk, st, rpm, slp, dev, ctl>>
    BY <1>29 DEF OffRings
  <2> QED
    BY <2>1, <2>2
<1>30. CASE OffLock("down")
  BY <1>30, WorkerMoves DEF OffLock, Target
<1>31. CASE OffReset("down")
  BY <1>31, WorkerMoves DEF OffReset
<1>32. CASE OffKill("down")
  <2>1. pc' = [err |-> pc.err, down |-> "destroy"]
    BY <1>32, WorkerMoves DEF OffKill
  <2>2. mutex' \in {mutex, "none", "down"} /\ UNCHANGED <<tk, st, rpm, slp, dev, ctl>>
    BY <1>32 DEF OffKill
  <2> QED
    BY <2>1, <2>2
<1>33. CASE OffChannel("down")
  BY <1>33, WorkerMoves DEF OffChannel, Put
<1>34. CASE OffClient("down")
  <2>1. pc' = [err |-> pc.err, down |-> "flush"]
    BY <1>34, WorkerMoves DEF OffClient
  <2>2. mutex' \in {mutex, "none", "down"} /\ UNCHANGED <<tk, st, rpm, slp, dev, ctl>>
    BY <1>34 DEF OffClient
  <2> QED
    BY <2>1, <2>2
<1>35. CASE OffFlush("down")
  <2>1. pc' = [err |-> pc.err, down |-> "rings"]
    BY <1>35, WorkerMoves DEF OffFlush
  <2>2. mutex' \in {mutex, "none", "down"} /\ UNCHANGED <<tk, st, rpm, slp, dev, ctl>>
    BY <1>35 DEF OffFlush
  <2> QED
    BY <2>1, <2>2
<1>36. CASE OffRings("down")
  <2>1. pc' = [err |-> pc.err, down |-> "disable"]
    BY <1>36, WorkerMoves DEF OffRings
  <2>2. mutex' \in {mutex, "none", "down"} /\ UNCHANGED <<tk, st, rpm, slp, dev, ctl>>
    BY <1>36 DEF OffRings
  <2> QED
    BY <2>1, <2>2
<1>37. CASE DownStart
  BY <1>37 DEF DownStart, AskResume
<1>38. CASE DownPower
  BY <1>38 DEF DownPower
<1>39. CASE DownLinkDown
  BY <1>39 DEF DownLinkDown
<1>40. CASE DownDisable
  BY <1>40 DEF DownDisable
<1>41. CASE DownFree
  BY <1>41 DEF DownFree
<1>42. CASE DevObeys
  BY <1>42 DEF DevObeys
<1>43. CASE DevIdle
  BY <1>43 DEF DevIdle
<1>44. CASE DevWakes
  BY <1>44 DEF DevWakes
<1>45. CASE DevFails
  BY <1>45 DEF DevFails
<1>46. CASE UNCHANGED <<tk, st, mutex, pc, rpm, slp, dev, ctl>>
  BY <1>46
<1> QED
  BY Movers, <1>1, <1>2, <1>3, <1>4, <1>5, <1>6, <1>7, <1>8, <1>9, <1>10, <1>11, <1>12,
     <1>13, <1>14, <1>15, <1>16, <1>17, <1>18, <1>19, <1>20, <1>21, <1>22, <1>23, <1>24,
     <1>25, <1>26, <1>27, <1>28, <1>29, <1>30, <1>31, <1>32, <1>33, <1>34, <1>35, <1>36,
     <1>37, <1>38, <1>39, <1>40, <1>41, <1>42, <1>43, <1>44, <1>45, <1>46

\* ... of the queues,
LEMMA QueueTypesStep ==
  ASSUME Types, [Next]_vars
  PROVE  QueueTypes'
<1> USE DEF Types, QueueTypes, pmVars, ringVars, countVars, clientVars, eventVars, stVars,
        offVars, rpmVars, devVars, Events
<1>1. CASE TaskEvent
  <2>1. evs' \in Seq(Events)
    BY <1>1, EventKinds, EventQueue, SMTT(30)
  <2>2. list' = list \/ list' = Append(list, "MISSION")
    BY <1>1, EventKinds DEF M0Transition, M1Transition, M3Transition, ErrorEvent, MissionEvent
  <2>3. list' \in Seq({"READY", "MISSION"})
    BY <2>2, AppendProperties
  <2> QED
    BY <2>1, <2>3
<1>2. CASE StTake
  BY <1>2 DEF StTake
<1>3. CASE OffRings("err")
  BY <1>3 DEF OffRings
<1>4. CASE OffRings("down")
  BY <1>4 DEF OffRings
<1>5. CASE DevObeys
  <2>0. Append(evs, "M0") \in Seq(Events) /\ Append(evs, "M3") \in Seq(Events)
    BY EventQueue
  <2>1. Append(Append(evs, "M0"), "AMSS") \in Seq(Events)
    BY <2>0, EventQueue
  <2>2. evs' \in Seq(Events)
    BY <1>5, <2>0, <2>1, ModemReports
  <2>3. list' = list
    BY <1>5 DEF DevObeys
  <2> QED
    BY <2>2, <2>3
<1>6. CASE DevIdle
  BY <1>6, EventQueue DEF DevIdle
<1>7. CASE DevWakes
  <2>1. list' = list /\ (evs' = evs \/ evs' = Append(evs, "M0"))
    BY <1>7 DEF DevWakes
  <2> QED
    BY <2>1, EventQueue
<1>8. CASE DevFails
  BY <1>8, EventQueue DEF DevFails
<1>9. CASE UNCHANGED <<evs, list>>
  BY <1>9
<1> QED
  BY Movers, <1>1, <1>2, <1>3, <1>4, <1>5, <1>6, <1>7, <1>8, <1>9

\* ... and of the bounded counts.
LEMMA BoundTypesStep ==
  ASSUME Types, [Next]_vars
  PROVE  BoundTypes'
<1> USE MhiAssumption DEF Types, QueueTypes, pmVars, ringVars, countVars, clientVars,
        eventVars, stVars, offVars, rpmVars, devVars, BoundTypes
<1>1. CASE QueueCheck
  BY <1>1 DEF QueueCheck
<1>2. CASE SuspendStart
  BY <1>2 DEF SuspendStart
<1>3. CASE DevIdle
  BY <1>3 DEF DevIdle
<1>4. CASE DevFails
  BY <1>4 DEF DevFails
<1>5. CASE UNCHANGED <<sends, sleeps, errs, idles>>
  BY <1>5
<1> QED
  BY Movers, <1>1, <1>2, <1>3, <1>4, <1>5

\* All types together, and what they say in one invariant of the runs.
LEMMA TypesStep ==
  ASSUME Types, [Next]_vars
  PROVE  Types'
BY StateTypesStep, CountTypesStep, FlagTypesStep, PlaceTypesStep, QueueTypesStep, BoundTypesStep
DEF Types

\* The types hold at first.
LEMMA TypesInit == Init => Types
<1> SUFFICES ASSUME Init PROVE Types
  OBVIOUS
<1>1. StateTypes /\ FlagTypes /\ PlaceTypes
  BY DEF Init, StateTypes, FlagTypes, PlaceTypes, PmStates
<1>2. CountTypes /\ BoundTypes
  BY MhiAssumption DEF Init, CountTypes, BoundTypes
<1>3. QueueTypes
  BY DEF Init, QueueTypes
<1> QED
  BY <1>1, <1>2, <1>3 DEF Types

\* They are the type invariant of the runs.
LEMMA TypesAre == Types => TypeOK
<1> SUFFICES ASSUME Types PROVE TypeOK
  OBVIOUS
<1> USE DEF Types
<1>1. /\ {unseen, seen, done, refs} \subseteq Nat
      /\ {errq, live, wantUp, rpmErr, forbid, wake} \subseteq BOOLEAN
  BY DEF CountTypes, FlagTypes
<1>2. evs \in Seq({"M0", "M1", "M3", "AMSS", "SYS_ERR"}) /\ list \in Seq({"READY", "MISSION"})
  BY DEF QueueTypes, Events
<1>3. put \in BOOLEAN /\ irq \in BOOLEAN
  BY DEF FlagTypes
<1>4. /\ pm \in PmStates /\ ds \in {"RESET", "READY", "M0", "M2", "M3"} /\ ee \in {"none", "amss"}
      /\ ch \in {"disabled", "enabled", "suspended"}
  BY DEF StateTypes
<1>5. /\ pending \in Int /\ unseen + seen + done <= Slots
      /\ q \in {"idle", "checked", "gen", "get", "db"}
  BY DEF CountTypes
<1> QED
  BY <1>1, <1>2, <1>3, <1>4, <1>5 DEF TypeOK, PlaceTypes, BoundTypes

-----------------------------------------------------------------------------
(* A suspended device is left alone.                                        *)

\* Who holds pm_mutex, and what the runtime-PM callback that runs is for.
Threads ==
  /\ mutex = "rpm" <=> slp \in {"m0", "enter", "m3", "exit"}
  /\ mutex = "err" <=> pc.err \in {"reset", "kill", "READY", "mmio"}
  /\ mutex = "down" <=> pc.down \in {"reset", "kill", "disable"}
  /\ rpm = "suspending" <=> slp \in {"suspend", "m0", "enter", "m3"}
  /\ rpm = "resuming" <=> slp \in {"resume", "exit"}

\* Once a recovery or the removal has waited for the runtime PM, it stays settled.
Stays ==
  /\ pc.err # "idle" => forbid
  /\ forbid /\ pc.err # "forbid" => Settled
  /\ pc.down \notin {"up", "sync"} => Settled

\* No wait has failed, no recovery has begun and no removal has taken the link:
\* the only time in which the device is suspended.
Unbroken == ~rpmErr /\ pc.down \in {"up", "sync"} /\ (~forbid \/ rpm # "active")

\* The modem reports its mission image once; this passes from the event ring
\* through transition_list to st_worker, and no suspend begins before.
NoAmss == \A i \in 1 .. Len(evs) : evs[i] # "AMSS"
AmssOnce == \A i, j \in 1 .. Len(evs) : evs[i] = "AMSS" /\ evs[j] = "AMSS" => i = j
Once ==
  /\ AmssOnce
  /\ ~NoAmss => list = <<>> /\ st = "idle" /\ ee = "none"
  /\ list # <<>> => list \in {<<"READY">>, <<"MISSION">>} /\ st = "idle" /\ ee = "none"
  /\ st \notin {"idle", "create"} => list = <<>> /\ ee = "none"
  /\ st = "create" => list = <<>> /\ ee = "amss"
  /\ st = "create" /\ rpm \in {"suspending", "suspended"} => wantUp
  /\ slp \notin {"idle", "suspend"} \/ rpm = "suspended" => ee = "amss"

\* Until it is brought to M0 the modem says nothing.
Boot ==
  /\ dev = "READY" =>
       /\ evs = <<>> /\ ee = "none" /\ pm = "POR" /\ tk = "idle"
       /\ ctl \in {"none", "M0"} /\ list \in {<<>>, <<"READY">>} /\ st \in {"idle", "READY", "mmio"}
       /\ ctl = "M0" => list = <<>> /\ st = "idle"
  /\ list = <<"READY">> \/ st \in {"READY", "mmio"} => dev = "READY" /\ ctl = "none"
  /\ ctl # "RESET"

\* M3 is entered by one suspend, which waits for the one event that tells of it,
\* the last one that the modem sends before it is resumed.
Sleep ==
  /\ pm = "M0" => ds = "M0"
  /\ ctl = "M3" => slp = "m3" /\ pm \in {"M3_ENTER", "SYS_ERR_DETECT"}
  /\ \A i \in 1 .. Len(evs) : evs[i] = "M3" =>
       /\ i = Len(evs) /\ dev \in {"M3", "SYS_ERR"} /\ ctl = "none"
       /\ slp = "m3" /\ pm \in {"M3_ENTER", "SYS_ERR_DETECT"}
  /\ pm = "M3_ENTER" => slp = "m3" /\ ds # "M3"
  /\ slp = "m3" => pm \in {"M3_ENTER", "M3", "SYS_ERR_DETECT"}
  /\ pm = "M3" => /\ ds = "M3" /\ evs = <<>> /\ dev \in {"M3", "SYS_ERR"} /\ ctl = "none"
                  /\ tk # "ring" /\ (slp \in {"m3", "resume"} \/ rpm = "suspended")
  /\ rpm = "suspended" \/ slp = "resume" => pm = "M3"

SleepInv == Types /\ Threads /\ Stays /\ (Unbroken => Once /\ Boot /\ Sleep)

\* Every step keeps pm_mutex with the thread that waits in it,
LEMMA ThreadsStep ==
  ASSUME Types, Threads, [Next]_vars
  PROVE  Threads'
<1> USE DEF Types, PlaceTypes, QueueTypes, Threads, pmVars, ringVars, countVars, clientVars,
        eventVars, stVars, offVars, rpmVars, devVars
<1>1. CASE SuspendStart
  BY <1>1 DEF SuspendStart
<1>2. CASE SuspendBegin
  BY <1>2 DEF SuspendBegin, SuspendFails, WakeGet
<1>3. CASE SuspendAwake
  BY <1>3 DEF SuspendAwake, SuspendFails
<1>4. CASE SuspendEnter
  BY <1>4 DEF SuspendEnter, SuspendFails
<1>5. CASE SuspendDone
  BY <1>5 DEF SuspendDone, SuspendFails
<1>6. CASE ResumeStart
  BY <1>6 DEF ResumeStart
<1>7. CASE ResumeBegin
  BY <1>7 DEF ResumeBegin, ResumeEnds
<1>8. CASE ResumeDone
  BY <1>8 DEF ResumeDone, ResumeEnds, Detect
<1>9. CASE ErrStart
  BY <1>9 DEF ErrStart, AskResume
<1>10. CASE ErrForbid
  BY <1>10 DEF ErrForbid
<1>11. CASE ReadyState("err")
  BY <1>11 DEF ReadyState, At, GoTo
<1>12. CASE ReadyToM0("err")
  BY <1>12 DEF ReadyToM0, At, GoTo
<1>13. CASE OffLock("err")
  BY <1>13, WorkerMoves DEF OffLock, Target
<1>14. CASE OffReset("err")
  BY <1>14, WorkerMoves DEF OffReset
<1>15. CASE OffKill("err")
  BY <1>15, WorkerMoves DEF OffKill
<1>16. CASE OffChannel("err")
  BY <1>16, WorkerMoves DEF OffChannel, Put
<1>17. CASE OffClient("err")
  BY <1>17, WorkerMoves DEF OffClient
<1>18. CASE OffFlush("err")
  BY <1>18, WorkerMoves DEF OffFlush
<1>19. CASE OffRings("err")
  BY <1>19, WorkerMoves DEF OffRings
<1>20. CASE OffLock("down")
  BY <1>20, WorkerMoves DEF OffLock, Target
<1>21. CASE OffReset("down")
  BY <1>21, WorkerMoves DEF OffReset
<1>22. CASE OffKill("down")
  BY <1>22, WorkerMoves DEF OffKill
<1>23. CASE OffChannel("down")
  BY <1>23, WorkerMoves DEF OffChannel, Put
<1>24. CASE OffClient("down")
  BY <1>24, WorkerMoves DEF OffClient
<1>25. CASE OffFlush("down")
  BY <1>25, WorkerMoves DEF OffFlush
<1>26. CASE OffRings("down")
  BY <1>26, WorkerMoves DEF OffRings
<1>27. CASE DownStart
  BY <1>27 DEF DownStart, AskResume
<1>28. CASE DownPower
  BY <1>28 DEF DownPower
<1>29. CASE DownLinkDown
  BY <1>29 DEF DownLinkDown
<1>30. CASE DownDisable
  BY <1>30 DEF DownDisable
<1>31. CASE DownFree
  BY <1>31 DEF DownFree
<1>32. CASE UNCHANGED <<mutex, pc, slp, rpm>>
  BY <1>32
<1> QED
  BY Movers, <1>1, <1>2, <1>3, <1>4, <1>5, <1>6, <1>7, <1>8, <1>9, <1>10, <1>11, <1>12,
     <1>13, <1>14, <1>15, <1>16, <1>17, <1>18, <1>19, <1>20, <1>21, <1>22, <1>23, <1>24,
     <1>25, <1>26, <1>27, <1>28, <1>29, <1>30, <1>31, <1>32

\* A thread that holds a reference keeps the device from being suspended.
LEMMA UsageKeeps ==
  ASSUME Types, Usage = 0
  PROVE  refs = 0 /\ st # "create" /\ pc.down = "up"
BY DEF Types, CountTypes, Usage, Bit

\* ... and the runtime PM settled for who has waited for it.
LEMMA StaysStep ==
  ASSUME Types, Threads, Stays, [Next]_vars
  PROVE  Stays'
<1> USE DEF Types, PlaceTypes, FlagTypes, QueueTypes, Threads, Stays, Settled, pmVars,
        ringVars, countVars, clientVars, eventVars, stVars, offVars, rpmVars, devVars
<1>1. CASE SuspendStart
  BY <1>1, UsageKeeps DEF SuspendStart
<1>2. CASE SuspendBegin
  BY <1>2 DEF SuspendBegin, SuspendFails, WakeGet
<1>3. CASE SuspendAwake
  BY <1>3 DEF SuspendAwake, SuspendFails
<1>4. CASE SuspendEnter
  BY <1>4 DEF SuspendEnter, SuspendFails
<1>5. CASE SuspendDone
  BY <1>5 DEF SuspendDone, SuspendFails
<1>6. CASE ResumeStart
  BY <1>6 DEF ResumeStart
<1>7. CASE ResumeBegin
  BY <1>7 DEF ResumeBegin, ResumeEnds
<1>8. CASE ResumeDone
  BY <1>8 DEF ResumeDone, ResumeEnds, Detect
<1>9. CASE ErrStart
  BY <1>9 DEF ErrStart, AskResume
<1>10. CASE ErrForbid
  BY <1>10 DEF ErrForbid
<1>11. CASE ReadyState("err")
  BY <1>11 DEF ReadyState, At, GoTo
<1>12. CASE ReadyToM0("err")
  BY <1>12 DEF ReadyToM0, At, GoTo
<1>13. CASE OffLock("err")
  BY <1>13, WorkerMoves DEF OffLock, Target
<1>14. CASE OffReset("err")
  BY <1>14, WorkerMoves DEF OffReset
<1>15. CASE OffKill("err")
  BY <1>15, WorkerMoves DEF OffKill
<1>16. CASE OffChannel("err")
  BY <1>16, WorkerMoves DEF OffChannel, Put
<1>17. CASE OffClient("err")
  BY <1>17, WorkerMoves DEF OffClient
<1>18. CASE OffFlush("err")
  BY <1>18, WorkerMoves DEF OffFlush
<1>19. CASE OffRings("err")
  BY <1>19, WorkerMoves DEF OffRings
<1>20. CASE OffLock("down")
  BY <1>20, WorkerMoves DEF OffLock, Target
<1>21. CASE OffReset("down")
  BY <1>21, WorkerMoves DEF OffReset
<1>22. CASE OffKill("down")
  BY <1>22, WorkerMoves DEF OffKill
<1>23. CASE OffChannel("down")
  BY <1>23, WorkerMoves DEF OffChannel, Put
<1>24. CASE OffClient("down")
  BY <1>24, WorkerMoves DEF OffClient
<1>25. CASE OffFlush("down")
  BY <1>25, WorkerMoves DEF OffFlush
<1>26. CASE OffRings("down")
  BY <1>26, WorkerMoves DEF OffRings
<1>27. CASE DownStart
  BY <1>27 DEF DownStart, AskResume
<1>28. CASE DownPower
  BY <1>28 DEF DownPower
<1>29. CASE DownLinkDown
  BY <1>29 DEF DownLinkDown
<1>30. CASE DownDisable
  BY <1>30 DEF DownDisable
<1>31. CASE DownFree
  BY <1>31 DEF DownFree
<1>32. CASE UNCHANGED <<pc, forbid, rpm, rpmErr>>
  BY <1>32
<1> QED
  BY Movers, <1>1, <1>2, <1>3, <1>4, <1>5, <1>6, <1>7, <1>8, <1>9, <1>10, <1>11, <1>12,
     <1>13, <1>14, <1>15, <1>16, <1>17, <1>18, <1>19, <1>20, <1>21, <1>22, <1>23, <1>24,
     <1>25, <1>26, <1>27, <1>28, <1>29, <1>30, <1>31, <1>32

\* What was unbroken after a step was so before it.
LEMMA UnbrokenBefore ==
  ASSUME Types, Threads, [Next]_vars, Unbroken'
  PROVE  Unbroken
<1> USE DEF Types, PlaceTypes, FlagTypes, QueueTypes, Threads, Unbroken, pmVars, ringVars,
        countVars, clientVars, eventVars, stVars, offVars, rpmVars, devVars
<1>1. CASE SuspendStart
  BY <1>1 DEF SuspendStart
<1>2. CASE SuspendBegin
  BY <1>2 DEF SuspendBegin, SuspendFails, WakeGet
<1>3. CASE SuspendAwake
  BY <1>3 DEF SuspendAwake, SuspendFails
<1>4. CASE SuspendEnter
  BY <1>4 DEF SuspendEnter, SuspendFails
<1>5. CASE SuspendDone
  BY <1>5 DEF SuspendDone, SuspendFails
<1>6. CASE ResumeStart
  BY <1>6 DEF ResumeStart
<1>7. CASE ResumeBegin
  BY <1>7 DEF ResumeBegin, ResumeEnds
<1>8. CASE ResumeDone
  BY <1>8 DEF ResumeDone, ResumeEnds, Detect
<1>9. CASE ErrStart
  BY <1>9 DEF ErrStart, AskResume
<1>10. CASE ErrForbid
  BY <1>10 DEF ErrForbid
<1>11. CASE ReadyState("err")
  BY <1>11 DEF ReadyState, At, GoTo
<1>12. CASE ReadyToM0("err")
  BY <1>12 DEF ReadyToM0, At, GoTo
<1>13. CASE OffLock("err")
  BY <1>13, WorkerMoves DEF OffLock, Target
<1>14. CASE OffReset("err")
  BY <1>14, WorkerMoves DEF OffReset
<1>15. CASE OffKill("err")
  BY <1>15, WorkerMoves DEF OffKill
<1>16. CASE OffChannel("err")
  BY <1>16, WorkerMoves DEF OffChannel, Put
<1>17. CASE OffClient("err")
  BY <1>17, WorkerMoves DEF OffClient
<1>18. CASE OffFlush("err")
  BY <1>18, WorkerMoves DEF OffFlush
<1>19. CASE OffRings("err")
  BY <1>19, WorkerMoves DEF OffRings
<1>20. CASE OffLock("down")
  BY <1>20, WorkerMoves DEF OffLock, Target
<1>21. CASE OffReset("down")
  BY <1>21, WorkerMoves DEF OffReset
<1>22. CASE OffKill("down")
  BY <1>22, WorkerMoves DEF OffKill
<1>23. CASE OffChannel("down")
  BY <1>23, WorkerMoves DEF OffChannel, Put
<1>24. CASE OffClient("down")
  BY <1>24, WorkerMoves DEF OffClient
<1>25. CASE OffFlush("down")
  BY <1>25, WorkerMoves DEF OffFlush
<1>26. CASE OffRings("down")
  BY <1>26, WorkerMoves DEF OffRings
<1>27. CASE DownStart
  BY <1>27 DEF DownStart, AskResume
<1>28. CASE DownPower
  BY <1>28 DEF DownPower
<1>29. CASE DownLinkDown
  BY <1>29 DEF DownLinkDown
<1>30. CASE DownDisable
  BY <1>30 DEF DownDisable
<1>31. CASE DownFree
  BY <1>31 DEF DownFree
<1>32. CASE UNCHANGED <<pc, forbid, rpm, rpmErr>>
  BY <1>32
<1> QED
  BY Movers, <1>1, <1>2, <1>3, <1>4, <1>5, <1>6, <1>7, <1>8, <1>9, <1>10, <1>11, <1>12,
     <1>13, <1>14, <1>15, <1>16, <1>17, <1>18, <1>19, <1>20, <1>21, <1>22, <1>23, <1>24,
     <1>25, <1>26, <1>27, <1>28, <1>29, <1>30, <1>31, <1>32

\* What the recovery and the removal do after their waits is not done yet.
LEMMA UnbrokenSteps ==
  ASSUME Types, Threads, Stays, Unbroken
  PROVE  /\ pc.err \in {"idle", "forbid"} /\ mutex \in {"none", "rpm"}
         /\ ~ReadyState("err") /\ ~ReadyToM0("err") /\ ~OffLock("err")
         /\ ~OffReset("err") /\ ~OffKill("err") /\ ~OffChannel("err")
         /\ ~OffClient("err") /\ ~OffFlush("err") /\ ~OffRings("err")
         /\ ~OffLock("down") /\ ~OffReset("down") /\ ~OffKill("down")
         /\ ~OffChannel("down") /\ ~OffClient("down") /\ ~OffFlush("down")
         /\ ~OffRings("down") /\ ~DownLinkDown /\ ~DownDisable
         /\ ~DownFree
<1>1. pc.err \in {"idle", "forbid"} /\ pc.down \in {"up", "sync"} /\ mutex \in {"none", "rpm"}
  BY DEF Types, PlaceTypes, FlagTypes, Threads, Stays, Settled, Unbroken
<1>2. ~ReadyState("err")
  BY <1>1, WorkerMoves DEF Types, ReadyState, At
<1>3. ~ReadyToM0("err")
  BY <1>1, WorkerMoves DEF Types, ReadyToM0, At
<1>4. ~OffLock("err")
  BY <1>1, WorkerMoves DEF Types, OffLock
<1>5. ~OffReset("err")
  BY <1>1, WorkerMoves DEF Types, OffReset
<1>6. ~OffKill("err")
  BY <1>1, WorkerMoves DEF Types, OffKill
<1>7. ~OffChannel("err")
  BY <1>1, WorkerMoves DEF Types, OffChannel
<1>8. ~OffClient("err")
  BY <1>1, WorkerMoves DEF Types, OffClient
<1>9. ~OffFlush("err")
  BY <1>1, WorkerMoves DEF Types, OffFlush
<1>10. ~OffRings("err")
  BY <1>1, WorkerMoves DEF Types, OffRings
<1>11. ~OffLock("down")
  BY <1>1, WorkerMoves DEF Types, OffLock
<1>12. ~OffReset("down")
  BY <1>1, WorkerMoves DEF Types, OffReset
<1>13. ~OffKill("down")
  BY <1>1, WorkerMoves DEF Types, OffKill
<1>14. ~OffChannel("down")
  BY <1>1, WorkerMoves DEF Types, OffChannel
<1>15. ~OffClient("down")
  BY <1>1, WorkerMoves DEF Types, OffClient
<1>16. ~OffFlush("down")
  BY <1>1, WorkerMoves DEF Types, OffFlush
<1>17. ~OffRings("down")
  BY <1>1, WorkerMoves DEF Types, OffRings
<1>18. ~DownLinkDown
  BY <1>1, WorkerMoves DEF Types, DownLinkDown
<1>19. ~DownDisable
  BY <1>1, WorkerMoves DEF Types, DownDisable
<1>20. ~DownFree
  BY <1>1, WorkerMoves DEF Types, DownFree
<1> QED
  BY <1>1, <1>2, <1>3, <1>4, <1>5, <1>6, <1>7, <1>8, <1>9, <1>10, <1>11, <1>12, <1>13,
     <1>14, <1>15, <1>16, <1>17, <1>18, <1>19, <1>20

\* Another event leaves the one that tells of the mission.
LEMMA OtherEvents ==
  ASSUME evs \in Seq(Events), NEW e \in Events, e # "AMSS", evs' = Append(evs, e)
  PROVE  (NoAmss' <=> NoAmss) /\ (AmssOnce => AmssOnce')
<1>1. /\ Len(evs) \in Nat /\ Len(evs') = Len(evs) + 1 /\ evs'[Len(evs) + 1] = e
      /\ \A i \in 1 .. Len(evs) : evs'[i] = evs[i]
  BY EventQueue
<1>2. \A i \in 1 .. Len(evs') : i \in 1 .. Len(evs) \/ i = Len(evs) + 1
  BY <1>1
<1> QED
  BY <1>1, <1>2 DEF NoAmss, AmssOnce

\* The oldest event taken leaves the one that tells of the mission, unless it is it.
LEMMA OldestEvent ==
  ASSUME evs \in Seq(Events), evs # <<>>, evs' = Tail(evs)
  PROVE  /\ NoAmss => NoAmss' /\ evs[1] # "AMSS"
         /\ AmssOnce => AmssOnce' /\ (evs[1] = "AMSS" => NoAmss')
         /\ NoAmss' /\ evs[1] # "AMSS" => NoAmss
<1>1. /\ Len(evs) \in Nat \ {0} /\ Len(evs') = Len(evs) - 1
      /\ \A i \in 1 .. Len(evs') : evs'[i] = evs[i + 1]
  BY EventQueue
<1>2. NoAmss => NoAmss' /\ evs[1] # "AMSS"
  BY <1>1 DEF NoAmss
<1>3. ASSUME AmssOnce PROVE AmssOnce'
  <2> SUFFICES ASSUME NEW i \in 1 .. Len(evs'), NEW j \in 1 .. Len(evs'),
                      evs'[i] = "AMSS", evs'[j] = "AMSS"
               PROVE  i = j
    BY DEF AmssOnce
  <2>1. i + 1 \in 1 .. Len(evs) /\ j + 1 \in 1 .. Len(evs) /\ i \in Nat /\ j \in Nat
    BY <1>1
  <2>2. i + 1 = j + 1
    BY <1>1, <1>3, <2>1 DEF AmssOnce
  <2> QED
    BY <2>1, <2>2
<1>4. ASSUME AmssOnce, evs[1] = "AMSS" PROVE NoAmss'
  <2> SUFFICES ASSUME NEW i \in 1 .. Len(evs'), evs'[i] = "AMSS" PROVE FALSE
    BY DEF NoAmss
  <2>1. i + 1 \in 1 .. Len(evs) /\ 1 \in 1 .. Len(evs) /\ i \in Nat /\ i # 0
    BY <1>1
  <2>2. i + 1 = 1
    BY <1>1, <1>4, <2>1 DEF AmssOnce
  <2> QED
    BY <2>1, <2>2
<1>5. ASSUME NoAmss', evs[1] # "AMSS" PROVE NoAmss
  <2> SUFFICES ASSUME NEW i \in 1 .. Len(evs), evs[i] = "AMSS" PROVE FALSE
    BY DEF NoAmss
  <2>1. i - 1 \in 1 .. Len(evs') /\ (i - 1) + 1 = i
    BY <1>1, <1>5
  <2>2. evs'[i - 1] = "AMSS"
    BY <1>1, <2>1
  <2> QED
    BY <1>5, <2>1, <2>2 DEF NoAmss
<1> QED
  BY <1>2, <1>3, <1>4, <1>5

\* The modem stays silent,
LEMMA BootStep ==
  ASSUME Types, Threads, Stays, Unbroken, Once, Boot, Sleep, [Next]_vars, Unbroken'
  PROVE  Boot'
<1> USE DEF Types, StateTypes, PlaceTypes, FlagTypes, QueueTypes, Boot, Once, Sleep, pmVars,
        ringVars, countVars, clientVars, eventVars, stVars, offVars, rpmVars, devVars
<1>u. pc.err \in {"idle", "forbid"} /\ pc.down \in {"up", "sync"}
  BY UnbrokenSteps DEF Unbroken
<1>1. CASE TaskStart
  BY <1>1, <1>u DEF TaskStart, RegAccess
<1>2. CASE TaskEnd
  BY <1>2, <1>u DEF TaskEnd
<1>3. CASE TaskEvent
  BY <1>3, EventKinds, <1>u, EventQueue, TryIs DEF M0Transition, M1Transition, M3Transition,
     ErrorEvent, MissionEvent, Events, PmStates, Errors
<1>4. CASE TaskRing
  BY <1>4, <1>u DEF TaskRing, WakeGet
<1>5. CASE IrqThread
  BY <1>5, <1>u, TryIs DEF IrqThread, Detect, PmStates, Errors, RegAccess
<1>6. CASE StTake
  BY <1>6, <1>u DEF StTake
<1>7. CASE ReadyState("st")
  BY <1>7, <1>u, TryIs DEF ReadyState, At, GoTo, PmStates, Errors
<1>8. CASE ReadyToM0("st")
  BY <1>8, <1>u DEF ReadyToM0, At, GoTo
<1>9. CASE StGetSync
  BY <1>9, <1>u DEF StGetSync, WakeGet, AskResume
<1>10. CASE StMission
  BY <1>10, <1>u DEF StMission, AskResume
<1>11. CASE StCreate
  BY <1>11, <1>u DEF StCreate, WakeGet
<1>12. CASE SuspendEnter
  BY <1>12, <1>u, TryIs DEF SuspendEnter, SuspendFails, PmStates, Errors
<1>13. CASE ResumeBegin
  BY <1>13, <1>u, TryIs DEF ResumeBegin, ResumeEnds, PmStates, Errors, NoEvents
<1>14. CASE ResumeDone
  BY <1>14, <1>u, TryIs DEF ResumeDone, ResumeEnds, Detect, PmStates, Errors, RegAccess
<1>15. CASE DevObeys
  BY <1>15, <1>u, EventQueue, ModemReports DEF DevObeys, Events
<1>16. CASE DevIdle
  BY <1>16, <1>u, EventQueue DEF DevIdle, Events
<1>17. CASE DevWakes
  BY <1>17, <1>u, EventQueue DEF DevWakes, Events
<1>18. CASE DevFails
  BY <1>18, <1>u, EventQueue DEF DevFails, Events
<1>19. CASE UNCHANGED <<dev, evs, ee, pm, tk, ctl, list, st>>
  BY <1>19
<1> QED
  BY Movers, UnbrokenSteps, <1>1, <1>2, <1>3, <1>4, <1>5, <1>6, <1>7, <1>8, <1>9, <1>10,
     <1>11, <1>12, <1>13, <1>14, <1>15, <1>16, <1>17, <1>18, <1>19

\* the suspend is told of once,
LEMMA SleepStep ==
  ASSUME Types, Threads, Stays, Unbroken, Once, Boot, Sleep, [Next]_vars, Unbroken'
  PROVE  Sleep'
<1> USE DEF Types, StateTypes, PlaceTypes, FlagTypes, QueueTypes, Boot, Once, Sleep,
        Unbroken, Threads, Stays, Settled, pmVars, ringVars, countVars, clientVars,
        eventVars, stVars, offVars, rpmVars, devVars
<1>u. pc.err \in {"idle", "forbid"} /\ pc.down \in {"up", "sync"}
  BY UnbrokenSteps DEF Unbroken
<1>1. CASE TaskStart
  BY <1>1, <1>u DEF TaskStart, RegAccess
<1>2. CASE TaskEnd
  BY <1>2, <1>u DEF TaskEnd
<1>3. CASE TaskEvent
  <2>0. /\ tk = "loop" /\ evs # <<>> /\ Len(evs) \in Nat \ {0} /\ Len(evs') = Len(evs) - 1
        /\ \A i \in 1 .. Len(evs') : evs'[i] = evs[i + 1] /\ i + 1 \in 1 .. Len(evs)
        /\ UNCHANGED <<slp, rpm, dev>>
    BY <1>3, EventKinds, EventQueue
  <2>1. CASE evs[1] = "M3" /\ M3Transition
    <3>1. 1 = Len(evs) /\ pm \in {"M3_ENTER", "SYS_ERR_DETECT"} /\ slp = "m3"
      BY <2>0, <2>1
    <3>2. evs' = <<>>
      BY <1>3, <2>0, <3>1, EventKinds, EventQueue
    <3> QED
      BY <2>0, <2>1, <3>1, <3>2, TryIs DEF M3Transition
  <2>2. CASE ~(evs[1] = "M3" /\ M3Transition)
    <3>1. \A i \in 1 .. Len(evs') : evs'[i] = "M3" =>
            /\ i = Len(evs') /\ dev \in {"M3", "SYS_ERR"} /\ ctl = "none"
            /\ slp = "m3" /\ pm \in {"M3_ENTER", "SYS_ERR_DETECT"}
      BY <2>0
    <3>2. pm # "M3"
      BY <2>0
    <3>3. CASE M0Transition
      BY <2>0, <3>1, <3>2, <3>3, TryIs DEF M0Transition
    <3>4. CASE M1Transition
      BY <2>0, <3>1, <3>2, <3>4, TryIs DEF M1Transition
    <3>5. CASE ErrorEvent
      BY <2>0, <3>1, <3>2, <3>5, TryIs DEF ErrorEvent
    <3>6. CASE MissionEvent
      BY <2>0, <3>1, <3>2, <3>6 DEF MissionEvent
    <3> QED
      BY <1>3, <2>2, <3>3, <3>4, <3>5, <3>6, EventKinds
  <2> QED
    BY <2>1, <2>2
<1>4. CASE TaskRing
  BY <1>4, <1>u DEF TaskRing, WakeGet
<1>5. CASE IrqThread
  BY <1>5, <1>u, TryIs DEF IrqThread, Detect, PmStates, Errors, RegAccess
<1>6. CASE ReadyState("st")
  BY <1>6, <1>u, TryIs DEF ReadyState, At, GoTo, PmStates, Errors
<1>7. CASE ReadyToM0("st")
  BY <1>7, <1>u DEF ReadyToM0, At, GoTo
<1>8. CASE SuspendStart
  BY <1>8, <1>u, UsageKeeps DEF SuspendStart
<1>9. CASE SuspendBegin
  BY <1>9, <1>u DEF SuspendBegin, SuspendFails, WakeGet, NoEvents, Errors
<1>10. CASE SuspendAwake
  BY <1>10, <1>u DEF SuspendAwake, SuspendFails
<1>11. CASE SuspendEnter
  BY <1>11, <1>u, TryIs DEF SuspendEnter, SuspendFails, PmStates, Errors
<1>12. CASE SuspendDone
  BY <1>12, <1>u DEF SuspendDone, SuspendFails, Errors
<1>13. CASE ResumeStart
  BY <1>13, <1>u DEF ResumeStart
<1>14. CASE ResumeBegin
  BY <1>14, <1>u, TryIs DEF ResumeBegin, ResumeEnds, PmStates, Errors, NoEvents
<1>15. CASE ResumeDone
  BY <1>15, <1>u, TryIs DEF ResumeDone, ResumeEnds, Detect, PmStates, Errors, RegAccess
<1>16. CASE DevObeys
  <2>0. UNCHANGED <<pm, ds, slp, tk, rpm>> /\ ctl' = "none" /\ ctl # "none"
    BY <1>16 DEF DevObeys
  <2>1. CASE evs' = evs
    <3>1. dev' = dev \/ (ctl = "M2" /\ dev' = "M2" /\ dev # "SYS_ERR")
      BY <1>16, <2>1, EventQueue, <1>u DEF DevObeys, Events
    <3> QED
      BY <2>0, <2>1, <3>1
  <2>2. CASE ctl = "M0" /\ dev = "M3" /\ dev' = "M0" /\ evs' = Append(evs, "M0")
    <3>1. \A i \in 1 .. Len(evs) : evs[i] # "M3"
      BY <2>2
    <3>2. \A i \in 1 .. Len(evs') : evs'[i] # "M3"
      BY <2>2, <3>1, EventQueue DEF Events
    <3> QED
      BY <2>0, <2>2, <3>2
  <2>3. CASE ctl = "M3" /\ dev' = "M3" /\ evs' = Append(evs, "M3")
    <3>1. \A i \in 1 .. Len(evs) : evs[i] # "M3"
      BY <2>3
    <3>2. \A i \in 1 .. Len(evs') : evs'[i] = "M3" => i = Len(evs')
      BY <2>3, <3>1, EventQueue DEF Events
    <3> QED
      BY <2>0, <2>3, <3>2
  <2>4. CASE ctl = "M0" /\ dev = "READY" /\ dev' = "M0" /\ evs' = Append(Append(evs, "M0"), "AMSS")
    <3>1. evs = <<>> /\ pm = "POR"
      BY <2>4
    <3>2. \A i \in 1 .. Len(evs') : evs'[i] # "M3"
      BY <2>4, <3>1
    <3> QED
      BY <2>0, <2>4, <3>1, <3>2
  <2> QED
    BY <1>16, <2>1, <2>2, <2>3, <2>4, ModemReports
<1>17. CASE DevIdle
  BY <1>17, <1>u, EventQueue DEF DevIdle, Events
<1>18. CASE DevWakes
  <2>1. CASE dev \in {"M1", "M2"}
    <3>1. evs' = Append(evs, "M0") /\ UNCHANGED <<pm, ds, ctl, slp, tk, rpm>>
      BY <1>18, <2>1 DEF DevWakes
    <3>2. \A i \in 1 .. Len(evs) : evs[i] # "M3"
      BY <2>1
    <3>3. \A i \in 1 .. Len(evs') : evs'[i] # "M3"
      BY <3>1, <3>2, EventQueue DEF Events
    <3> QED
      BY <2>1, <3>1, <3>3
  <2>2. CASE dev \notin {"M1", "M2"}
    BY <1>18, <2>2 DEF DevWakes
  <2> QED
    BY <2>1, <2>2
<1>19. CASE DevFails
  BY <1>19, <1>u, EventQueue DEF DevFails, Events
<1>20. CASE UNCHANGED <<pm, ds, ctl, slp, evs, dev, tk, rpm>>
  BY <1>20
<1> QED
  BY Movers, UnbrokenSteps, <1>1, <1>2, <1>3, <1>4, <1>5, <1>6, <1>7, <1>8, <1>9, <1>10,
     <1>11, <1>12, <1>13, <1>14, <1>15, <1>16, <1>17, <1>18, <1>19, <1>20

\* and the mission is passed on once.
LEMMA OnceStep ==
  ASSUME Types, Threads, Stays, Unbroken, Once, Boot, Sleep, [Next]_vars, Unbroken'
  PROVE  Once'
<1> USE DEF Types, StateTypes, PlaceTypes, FlagTypes, QueueTypes, Boot, Once, Sleep,
        Unbroken, Threads, pmVars, ringVars, countVars, clientVars, eventVars, stVars,
        offVars, rpmVars, devVars
<1>u. pc.err \in {"idle", "forbid"} /\ pc.down \in {"up", "sync"}
  BY UnbrokenSteps DEF Unbroken
<1>n. evs' = evs => (NoAmss' <=> NoAmss) /\ (AmssOnce' <=> AmssOnce)
  BY DEF NoAmss, AmssOnce
<1>1. CASE QueueCount
  BY <1>1, <1>n, <1>u DEF QueueCount, AskResume, WakeGet
<1>2. CASE QueueGet
  BY <1>2, <1>n, <1>u DEF QueueGet, AskResume
<1>3. CASE TaskEvent
  <2>0. UNCHANGED <<st, ee, wantUp, slp, rpm>> /\ evs # <<>> /\ evs' = Tail(evs)
    BY <1>3, EventKinds DEF M0Transition, M1Transition, M3Transition, ErrorEvent, MissionEvent
  <2>1. CASE evs[1] = "AMSS" /\ MissionEvent
    <3>1. ~NoAmss /\ list = <<>> /\ NoAmss' /\ AmssOnce'
      BY <2>0, <2>1, OldestEvent
    <3>2. list' = <<"MISSION">>
      BY <2>1, <3>1 DEF MissionEvent
    <3> QED
      BY <2>0, <3>1, <3>2
  <2>2. CASE evs[1] # "AMSS" /\ list' = list
    <3>1. (NoAmss' <=> NoAmss) /\ AmssOnce'
      BY <2>0, <2>2, OldestEvent
    <3> QED
      BY <2>0, <2>2, <3>1
  <2>3. (evs[1] = "AMSS" /\ MissionEvent) \/ (evs[1] # "AMSS" /\ list' = list)
    BY <1>3, EventKinds DEF M0Transition, M1Transition, M3Transition, ErrorEvent
  <2> QED
    BY <2>1, <2>2, <2>3
<1>4. CASE StTake
  BY <1>4, <1>n, <1>u DEF StTake
<1>5. CASE ReadyState("st")
  BY <1>5, <1>n, <1>u, TryIs DEF ReadyState, At, GoTo, PmStates, Errors
<1>6. CASE ReadyToM0("st")
  BY <1>6, <1>n, <1>u DEF ReadyToM0, At, GoTo
<1>7. CASE StGetSync
  BY <1>7, <1>n, <1>u DEF StGetSync, WakeGet, AskResume
<1>8. CASE StMission
  BY <1>8, <1>n, <1>u DEF StMission, AskResume
<1>9. CASE StCreate
  BY <1>9, <1>n, <1>u DEF StCreate, WakeGet
<1>10. CASE SuspendStart
  BY <1>10, <1>n, <1>u, UsageKeeps DEF SuspendStart
<1>11. CASE SuspendBegin
  BY <1>11, <1>n, <1>u DEF SuspendBegin, SuspendFails, WakeGet, NoEvents, Errors
<1>12. CASE SuspendAwake
  BY <1>12, <1>n, <1>u DEF SuspendAwake, SuspendFails
<1>13. CASE SuspendEnter
  BY <1>13, <1>n, <1>u, TryIs DEF SuspendEnter, SuspendFails, PmStates, Errors
<1>14. CASE SuspendDone
  BY <1>14, <1>n, <1>u DEF SuspendDone, SuspendFails
<1>15. CASE ResumeStart
  BY <1>15, <1>n, <1>u DEF ResumeStart
<1>16. CASE ResumeBegin
  BY <1>16, <1>n, <1>u, TryIs DEF ResumeBegin, ResumeEnds, PmStates, Errors, NoEvents
<1>17. CASE ResumeDone
  BY <1>17, <1>n, <1>u, TryIs DEF ResumeDone, ResumeEnds, Detect, PmStates, Errors,
     RegAccess
<1>18. CASE ErrStart
  BY <1>18, <1>n, <1>u DEF ErrStart, AskResume
<1>19. CASE DownStart
  BY <1>19, <1>n, <1>u DEF DownStart, AskResume
<1>20. CASE DevObeys
  <2>0. UNCHANGED <<list, st, ee, wantUp, slp, rpm>>
    BY <1>20 DEF DevObeys
  <2>1. CASE evs' = evs
    BY <1>n, <2>0, <2>1
  <2>2. CASE evs' = Append(evs, "M0") \/ evs' = Append(evs, "M3")
    <3>1. (NoAmss' <=> NoAmss) /\ (AmssOnce => AmssOnce')
      BY <2>2, OtherEvents DEF Events
    <3> QED
      BY <2>0, <3>1
  <2>3. CASE ctl = "M0" /\ dev = "READY" /\ evs' = Append(Append(evs, "M0"), "AMSS")
    <3>1. evs = <<>> /\ list = <<>> /\ st = "idle" /\ ee = "none"
      BY <2>3
    <3>2. AmssOnce'
      BY <2>3, <3>1 DEF AmssOnce
    <3> QED
      BY <2>0, <3>1, <3>2
  <2> QED
    BY <1>20, <2>1, <2>2, <2>3, ModemReports
<1>21. CASE DevIdle
  BY <1>21, <1>n, OtherEvents DEF DevIdle, Events
<1>22. CASE DevWakes
  BY <1>22, <1>n, OtherEvents DEF DevWakes, Events
<1>23. CASE DevFails
  BY <1>23, <1>n, OtherEvents DEF DevFails, Events
<1>24. CASE UNCHANGED <<evs, list, st, ee, wantUp, slp, rpm>>
  BY <1>n, <1>24
<1> QED
  BY Movers, UnbrokenSteps, <1>1, <1>2, <1>3, <1>4, <1>5, <1>6, <1>7, <1>8, <1>9, <1>10,
     <1>11, <1>12, <1>13, <1>14, <1>15, <1>16, <1>17, <1>18, <1>19, <1>20, <1>21, <1>22,
     <1>23, <1>24

\* The states, the threads and the one suspend in the first life of the modem.
LEMMA SleepInvInit == Init => SleepInv
<1> SUFFICES ASSUME Init PROVE SleepInv
  OBVIOUS
<1>1. Types
  BY TypesInit
<1>2. Threads /\ Stays
  BY DEF Init, Threads, Stays, Settled
<1>3. Once
  BY DEF Init, Once, NoAmss, AmssOnce
<1>4. Boot /\ Sleep
  BY DEF Init, Boot, Sleep
<1> QED
  BY <1>1, <1>2, <1>3, <1>4 DEF SleepInv

\* Every step keeps them while no wait has failed and no recovery has begun.
LEMMA SleepInvStep ==
  ASSUME SleepInv, [Next]_vars
  PROVE  SleepInv'
<1> USE DEF SleepInv
<1>1. Types' /\ Threads'
  BY TypesStep, ThreadsStep
<1>2. Stays'
  BY StaysStep
<1>3. ASSUME Unbroken' PROVE Once' /\ Boot' /\ Sleep'
  BY <1>3, UnbrokenBefore, OnceStep, BootStep, SleepStep
<1> QED
  BY <1>1, <1>2, <1>3

\* A suspended device is one of that life.
LEMMA AsleepIsQuiet == SleepInv => SleepSafe
<1> SUFFICES ASSUME SleepInv PROVE SleepSafe
  OBVIOUS
<1>1. TypeOK
  BY TypesAre DEF SleepInv
<1>2. ASSUME rpm = "suspended", ~rpmErr, live
      PROVE  pm = "M3" /\ ds = "M3" /\ tk # "ring" /\ (st # "idle" => wantUp)
  <2>1. Unbroken
    BY <1>2 DEF SleepInv, Stays, Settled, Unbroken
  <2> QED
    BY <1>2, <2>1 DEF SleepInv, Once, Sleep
<1> QED
  BY <1>1, <1>2 DEF SleepSafe, AsleepQuiet

\* While the device is runtime-suspended its registers are left alone: the modem is
\* in M3, the control tasklet has no doorbell to ring, and st_worker goes on only
\* with a resume that it has asked for, whatever waits time out and whoever
\* overtakes mhi_queue_buf.
THEOREM SleepIsSafe == Spec => []SleepSafe
<1>1. SleepInv /\ [Next]_vars => SleepInv'
  BY SleepInvStep
<1> QED
  BY SleepInvInit, <1>1, AsleepIsQuiet, PTL DEF Spec

-----------------------------------------------------------------------------
(* Recovery and removal.                                                    *)

\* Whether an event of this kind is in the event ring, and whether st_worker has
\* still to bring the modem to M0 for the first time.
Had(e) == \E i \in 1 .. Len(evs) : evs[i] = e
InBoot == list = <<"READY">> \/ st \in {"READY", "mmio"}

\* Until then nothing has happened, unless the controller is being removed.
BootFirst ==
  /\ (\E i \in 1 .. Len(list) : list[i] = "READY") => list = <<"READY">>
  /\ InBoot =>
       /\ dev = "READY" /\ ctl = "none" /\ evs = <<>> /\ tk = "idle" /\ ch = "disabled"
       /\ pm \in {"POR", "LD_ERR_FATAL_DETECT", "SHUTDOWN_PROCESS", "DISABLE"}
       /\ list \in {<<>>, <<"READY">>} /\ (list # <<>> => st = "idle")
       /\ pc.err = "idle" /\ ~errq

\* Where the recovery is tells the state of the controller; a failure of the modem
\* is not forgotten before it.
Recovery ==
  /\ Had("SYS_ERR") => dev = "SYS_ERR" \/ pm = "SYS_ERR_PROCESS"
  /\ pc.err \in {"reset", "kill", "destroy", "remove", "flush", "rings", "READY"} =>
       pm = "SYS_ERR_PROCESS"
  /\ pc.err = "reset" => ctl = "RESET" \/ (dev = "READY" /\ ctl = "none")
  /\ pc.err \in {"kill", "destroy", "remove", "flush", "rings", "READY", "mmio"} =>
       dev = "READY" /\ ctl = "none"
  /\ pc.err \in {"READY", "mmio"} => evs = <<>>
  /\ pc.err = "mmio" => pm = "POR" /\ tk = "idle"
  /\ ctl = "RESET" => pm \in {"SYS_ERR_PROCESS", "SHUTDOWN_PROCESS", "DISABLE"}

\* So does where the removal is, and nothing of a failure is left behind it.
RemovalIs ==
  /\ pc.down # "up" =>
       /\ pc.err = "idle" /\ ~errq /\ ~irq /\ dev # "SYS_ERR" /\ ~Had("SYS_ERR")
       /\ pm \notin {"SYS_ERR_DETECT", "SYS_ERR_PROCESS", "FW_DL_ERR"}
  /\ pc.down \in {"up", "sync", "ld"} =>
       pm \notin {"DISABLE", "SHUTDOWN_PROCESS", "LD_ERR_FATAL_DETECT"}
  /\ pc.down = "lock" => pm = "LD_ERR_FATAL_DETECT"
  /\ pc.down \in {"reset", "kill", "destroy", "remove", "flush", "rings", "disable"} =>
       pm = "SHUTDOWN_PROCESS"
  /\ pc.down \in {"free", "gone"} => pm = "DISABLE"
  /\ live <=> pc.down # "gone"

\* What they have waited for stays so: the tasklets are dead, the client has
\* closed its channel, st_worker has nothing to do.
Closing ==
  /\ ch = "suspended" <=> pc.err = "remove" \/ pc.down = "remove"
  /\ ch = "disabled" => q = "idle"
  /\ ch = "enabled" => pm \notin {"POR", "DISABLE"}
  /\ pc.err \in {"destroy", "remove", "flush", "rings", "READY"} => tk = "idle" /\ ~put
  /\ pc.err \in {"flush", "rings", "READY", "mmio"} => ch = "disabled"
  /\ pc.err \in {"rings", "READY", "mmio"} => st = "idle" /\ list = <<>>
  /\ pc.down \in {"destroy", "remove", "flush", "rings", "disable", "free", "gone"} =>
       tk = "idle" /\ ~put
  /\ pc.down \in {"flush", "rings", "disable", "free", "gone"} => ch = "disabled"
  /\ pc.down \in {"rings", "disable", "free", "gone"} => st = "idle" /\ list = <<>>

OffInv == Types /\ Threads /\ Stays /\ BootFirst /\ Recovery /\ RemovalIs /\ Closing

\* What an event at the end of the event ring, or taken from its front, changes.
LEMMA HadMoves ==
  ASSUME evs \in Seq(Events)
  PROVE  /\ evs' = evs => \A x : Had(x)' <=> Had(x)
         /\ evs = <<>> => \A x : ~Had(x)
         /\ evs' = <<>> => \A x : ~Had(x)'
         /\ \A e \in Events : evs' = Append(evs, e) => \A x : Had(x)' <=> Had(x) \/ x = e
         /\ evs # <<>> /\ evs' = Tail(evs) => \A x : Had(x)' \/ x = evs[1] <=> Had(x)
<1>1. Len(evs) \in Nat /\ (evs = <<>> <=> Len(evs) = 0)
  BY EventQueue
<1>2. evs' = evs => \A x : Had(x)' <=> Had(x)
  BY DEF Had
<1>3. (evs = <<>> => \A x : ~Had(x)) /\ (evs' = <<>> => \A x : ~Had(x)')
  BY DEF Had
<1>4. ASSUME NEW e \in Events, evs' = Append(evs, e), NEW x
      PROVE  Had(x)' <=> Had(x) \/ x = e
  <2>1. /\ Len(evs') = Len(evs) + 1 /\ evs'[Len(evs) + 1] = e
        /\ \A i \in 1 .. Len(evs) : evs'[i] = evs[i]
    BY <1>4, EventQueue
  <2> QED
    BY <1>1, <2>1 DEF Had
<1>5. ASSUME evs # <<>>, evs' = Tail(evs), NEW x
      PROVE  Had(x)' \/ x = evs[1] <=> Had(x)
  <2>1. /\ Len(evs') = Len(evs) - 1 /\ 1 \in 1 .. Len(evs)
        /\ \A i \in 1 .. Len(evs') : evs'[i] = evs[i + 1] /\ i + 1 \in 1 .. Len(evs)
    BY <1>1, <1>5, EventQueue
  <2>2. ASSUME NEW i \in 1 .. Len(evs), evs[i] = x, x # evs[1] PROVE Had(x)'
    <3>1. i - 1 \in 1 .. Len(evs') /\ (i - 1) + 1 = i
      BY <1>1, <2>1, <2>2
    <3>2. evs'[i - 1] = x
      BY <2>1, <2>2, <3>1
    <3> QED
      BY <3>1, <3>2 DEF Had
  <2> QED
    BY <2>1, <2>2 DEF Had
<1> QED
  BY <1>2, <1>3, <1>4, <1>5

\* What the modem reports on an order is no failure.
LEMMA ModemHad ==
  ASSUME evs \in Seq(Events), DevObeys
  PROVE  \A x : (Had(x) => Had(x)') /\ (Had(x)' => Had(x) \/ x \in {"M0", "M3", "AMSS"})
<1>1. "M0" \in Events /\ "M3" \in Events /\ "AMSS" \in Events
  BY DEF Events
<1>2. CASE evs' = evs \/ evs' = Append(evs, "M0") \/ evs' = Append(evs, "M3")
  BY <1>1, <1>2, HadMoves
<1>3. CASE evs' = Append(Append(evs, "M0"), "AMSS")
  <2> DEFINE s == Append(evs, "M0")
  <2>1. /\ s \in Seq(Events) /\ Len(evs) \in Nat /\ Len(s) = Len(evs) + 1 /\ s[Len(evs) + 1] = "M0"
        /\ \A i \in 1 .. Len(evs) : s[i] = evs[i]
    BY <1>1, EventQueue
  <2> HIDE DEF s
  <2>2. /\ Len(Append(s, "AMSS")) = Len(s) + 1 /\ Append(s, "AMSS")[Len(s) + 1] = "AMSS"
        /\ \A i \in 1 .. Len(s) : Append(s, "AMSS")[i] = s[i]
    BY <1>1, <2>1, EventQueue
  <2>3. evs' = Append(s, "AMSS")
    BY <1>3 DEF s
  <2>4. /\ Len(evs') = Len(evs) + 2 /\ evs'[Len(evs) + 1] = "M0" /\ evs'[Len(evs) + 2] = "AMSS"
        /\ \A i \in 1 .. Len(evs) : evs'[i] = evs[i]
    BY <2>1, <2>2, <2>3
  <2>5. \A i \in 1 .. Len(evs') : i \in 1 .. Len(evs) \/ i = Len(evs) + 1 \/ i = Len(evs) + 2
    BY <2>1, <2>4
  <2> QED
    BY <2>1, <2>4, <2>5 DEF Had
<1> QED
  BY <1>2, <1>3, ModemReports

\* Nothing happens before the modem is first brought to M0,
LEMMA BootFirstStep ==
  ASSUME OffInv, ~ErrInDown, [Next]_vars
  PROVE  BootFirst'
<1> USE DEF OffInv, Types, StateTypes, PlaceTypes, FlagTypes, QueueTypes, BootFirst,
        Recovery, RemovalIs, Closing, InBoot, pmVars, ringVars, countVars, clientVars,
        eventVars, stVars, offVars, rpmVars, devVars
<1>1. CASE TaskStart
  BY <1>1 DEF TaskStart, NoEvents, Errors, RegAccess
<1>2. CASE TaskEnd
  BY <1>2 DEF TaskEnd
<1>3. CASE TaskEvent
  <2>1. ~InBoot /\ st' = st
    BY <1>3, EventKinds
  <2>2. list' = list \/ list' = Append(list, "MISSION")
    BY <1>3, EventKinds DEF M0Transition, M1Transition, M3Transition, ErrorEvent, MissionEvent
  <2>3. \A i \in 1 .. Len(list) : list[i] # "READY"
    BY <2>1
  <2>4. \A i \in 1 .. Len(list') : list'[i] # "READY"
    BY <2>2, <2>3
  <2>5. list' # <<"READY">>
    <3> SUFFICES ASSUME list' = <<"READY">> PROVE FALSE
      OBVIOUS
    <3>1. 1 \in 1 .. Len(list') /\ list'[1] = "READY"
      OBVIOUS
    <3> QED
      BY <2>4, <3>1
  <2> QED
    BY <2>1, <2>4, <2>5
<1>4. CASE TaskRing
  BY <1>4 DEF TaskRing, WakeGet
<1>5. CASE IrqThread
  BY <1>5, TryIs DEF IrqThread, Detect, PmStates, Errors, RegAccess
<1>6. CASE StTake
  <2>1. /\ list # <<>> /\ st = "idle" /\ st' = list[1] /\ list' = Tail(list)
        /\ Len(list) \in Nat \ {0}
        /\ Len(list') = Len(list) - 1
        /\ \A i \in 1 .. Len(list') : list'[i] = list[i + 1] /\ i + 1 \in 1 .. Len(list)
        /\ UNCHANGED <<dev, ctl, evs, tk, ch, pm, pc, errq>>
    BY <1>6 DEF StTake
  <2>2. CASE list = <<"READY">>
    <3>1. list' = <<>> /\ st' = "READY"
      BY <2>1, <2>2
    <3> QED
      BY <2>1, <2>2, <3>1
  <2>3. CASE list # <<"READY">>
    <3>1. \A i \in 1 .. Len(list) : list[i] = "MISSION"
      BY <2>3
    <3>2. (\A i \in 1 .. Len(list') : list'[i] # "READY") /\ st' = "MISSION"
      BY <2>1, <3>1
    <3>3. list' # <<"READY">>
      BY <3>2
    <3> QED
      BY <3>2, <3>3
  <2> QED
    BY <2>2, <2>3
<1>7. CASE ReadyState("st")
  BY <1>7, TryIs DEF ReadyState, At, GoTo, PmStates, Errors, InBoot
<1>8. CASE ReadyToM0("st")
  <2>1. InBoot /\ st' = "idle" /\ list' = list
    BY <1>8 DEF ReadyToM0, At, GoTo
  <2>2. list = <<>>
    BY <1>8, <2>1 DEF ReadyToM0, At
  <2>3. ~InBoot'
    BY <2>1, <2>2
  <2> QED
    BY <2>1, <2>2, <2>3
<1>9. CASE StGetSync
  BY <1>9 DEF StGetSync, WakeGet, AskResume
<1>10. CASE StMission
  BY <1>10 DEF StMission, AskResume
<1>11. CASE StCreate
  BY <1>11 DEF StCreate, WakeGet
<1>12. CASE SuspendEnter
  BY <1>12, TryIs DEF SuspendEnter, SuspendFails, PmStates, Errors
<1>13. CASE ResumeBegin
  BY <1>13, TryIs DEF ResumeBegin, ResumeEnds, PmStates, Errors, NoEvents
<1>14. CASE ResumeDone
  BY <1>14, TryIs DEF ResumeDone, ResumeEnds, Detect, PmStates, Errors, RegAccess
<1>15. CASE ErrStart
  BY <1>15 DEF ErrStart, AskResume
<1>16. CASE ErrForbid
  BY <1>16 DEF ErrForbid
<1>17. CASE ReadyState("err")
  BY <1>17, TryIs DEF ReadyState, At, GoTo, PmStates, Errors
<1>18. CASE ReadyToM0("err")
  BY <1>18 DEF ReadyToM0, At, GoTo
<1>19. CASE OffLock("err")
  BY <1>19, TryIs, WorkerMoves DEF OffLock, Target, PmStates, Errors, RegAccess
<1>20. CASE OffReset("err")
  BY <1>20, WorkerMoves DEF OffReset
<1>21. CASE OffKill("err")
  BY <1>21, WorkerMoves DEF OffKill
<1>22. CASE OffChannel("err")
  BY <1>22, WorkerMoves DEF OffChannel, Put
<1>23. CASE OffClient("err")
  BY <1>23, WorkerMoves DEF OffClient
<1>24. CASE OffFlush("err")
  BY <1>24, WorkerMoves DEF OffFlush
<1>25. CASE OffRings("err")
  BY <1>25, HadMoves, WorkerMoves DEF OffRings, Events
<1>26. CASE OffLock("down")
  BY <1>26, TryIs, WorkerMoves DEF OffLock, Target, PmStates, Errors, RegAccess
<1>27. CASE OffReset("down")
  BY <1>27, WorkerMoves DEF OffReset
<1>28. CASE OffKill("down")
  BY <1>28, WorkerMoves DEF OffKill
<1>29. CASE OffChannel("down")
  BY <1>29, WorkerMoves DEF OffChannel, Put
<1>30. CASE OffClient("down")
  BY <1>30, WorkerMoves DEF OffClient
<1>31. CASE OffFlush("down")
  BY <1>31, WorkerMoves DEF OffFlush
<1>32. CASE OffRings("down")
  BY <1>32, HadMoves, WorkerMoves DEF OffRings, Events
<1>33. CASE DownStart
  BY <1>33 DEF DownStart, AskResume, Errors
<1>34. CASE DownPower
  BY <1>34 DEF DownPower
<1>35. CASE DownLinkDown
  BY <1>35, TryIs DEF DownLinkDown, PmStates, Errors
<1>36. CASE DownDisable
  BY <1>36, TryIs DEF DownDisable, PmStates, Errors
<1>37. CASE DownFree
  BY <1>37 DEF DownFree
<1>38. CASE DevObeys
  BY <1>38, ModemHad, ModemReports DEF DevObeys, Events
<1>39. CASE DevIdle
  BY <1>39, HadMoves DEF DevIdle, Events
<1>40. CASE DevWakes
  BY <1>40, HadMoves DEF DevWakes, Events
<1>41. CASE DevFails
  BY <1>41, HadMoves DEF DevFails, Events
<1>42. CASE UNCHANGED <<list, st, dev, ctl, evs, tk, ch, pm, pc, errq>>
  BY <1>42
<1> QED
  BY Movers, <1>1, <1>2, <1>3, <1>4, <1>5, <1>6, <1>7, <1>8, <1>9, <1>10, <1>11, <1>12,
     <1>13, <1>14, <1>15, <1>16, <1>17, <1>18, <1>19, <1>20, <1>21, <1>22, <1>23, <1>24,
     <1>25, <1>26, <1>27, <1>28, <1>29, <1>30, <1>31, <1>32, <1>33, <1>34, <1>35, <1>36,
     <1>37, <1>38, <1>39, <1>40, <1>41, <1>42

\* a recovery goes through its states,
LEMMA RecoveryStep ==
  ASSUME OffInv, ~ErrInDown, [Next]_vars
  PROVE  Recovery'
<1> USE DEF OffInv, Types, StateTypes, PlaceTypes, FlagTypes, QueueTypes, BootFirst,
        Recovery, RemovalIs, Closing, pmVars, ringVars, countVars, clientVars, eventVars,
        stVars, offVars, rpmVars, devVars
<1>h. evs' = evs => \A x : Had(x)' <=> Had(x)
  BY HadMoves
<1>1. CASE TaskStart
  BY <1>1, <1>h DEF TaskStart, NoEvents, Errors, RegAccess
<1>2. CASE TaskEnd
  BY <1>2, <1>h DEF TaskEnd
<1>3. CASE TaskEvent
  <2>1. /\ tk = "loop" /\ evs # <<>> /\ evs' = Tail(evs) /\ UNCHANGED <<dev, pc>>
        /\ pm' \in {pm, "M0", "M2", "M3", "SYS_ERR_DETECT"} /\ ctl' \in {ctl, "M2"}
        /\ ctl' # ctl => pm \in {"M0", "M2"}
        /\ pm \in {"SYS_ERR_PROCESS", "SHUTDOWN_PROCESS", "DISABLE"} => pm' = pm
    <3>1. tk = "loop" /\ evs # <<>> /\ evs' = Tail(evs) /\ UNCHANGED <<dev, pc>>
      BY <1>3, <1>h, EventKinds
    <3>2. CASE M0Transition
      BY <3>1, <3>2, TryIs DEF M0Transition
    <3>3. CASE M1Transition
      BY <3>1, <3>3, TryIs DEF M1Transition
    <3>4. CASE M3Transition
      BY <3>1, <3>4, TryIs DEF M3Transition
    <3>5. CASE ErrorEvent
      BY <3>1, <3>5, TryIs DEF ErrorEvent
    <3>6. CASE MissionEvent
      BY <3>1, <3>6 DEF MissionEvent
    <3> QED
      BY <1>3, <1>h, EventKinds, <3>2, <3>3, <3>4, <3>5, <3>6
  <2>2. Had("SYS_ERR")' => Had("SYS_ERR")
    BY <2>1, HadMoves
  <2> QED
    BY <2>1, <2>2
<1>4. CASE TaskRing
  BY <1>4, <1>h DEF TaskRing, WakeGet
<1>5. CASE IrqThread
  BY <1>5, <1>h, TryIs DEF IrqThread, Detect, PmStates, Errors, RegAccess
<1>6. CASE ReadyState("st")
  BY <1>6, <1>h, TryIs DEF ReadyState, At, GoTo, PmStates, Errors, InBoot
<1>7. CASE ReadyToM0("st")
  BY <1>7, <1>h DEF ReadyToM0, At, GoTo, InBoot
<1>8. CASE SuspendEnter
  BY <1>8, <1>h, TryIs DEF SuspendEnter, SuspendFails, PmStates, Errors
<1>9. CASE ResumeBegin
  BY <1>9, <1>h, TryIs DEF ResumeBegin, ResumeEnds, PmStates, Errors, NoEvents
<1>10. CASE ResumeDone
  BY <1>10, <1>h, TryIs DEF ResumeDone, ResumeEnds, Detect, PmStates, Errors, RegAccess
<1>11. CASE ErrStart
  BY <1>11, <1>h DEF ErrStart, AskResume
<1>12. CASE ErrForbid
  BY <1>12, <1>h DEF ErrForbid
<1>13. CASE ReadyState("err")
  BY <1>13, <1>h, TryIs, HadMoves DEF ReadyState, At, GoTo, PmStates, Errors
<1>14. CASE ReadyToM0("err")
  BY <1>14, <1>h DEF ReadyToM0, At, GoTo
<1>15. CASE OffLock("err")
  BY <1>15, <1>h, TryIs, WorkerMoves DEF OffLock, Target, PmStates, Errors, RegAccess
<1>16. CASE OffReset("err")
  BY <1>16, <1>h, WorkerMoves DEF OffReset
<1>17. CASE OffKill("err")
  BY <1>17, <1>h, WorkerMoves DEF OffKill
<1>18. CASE OffChannel("err")
  BY <1>18, <1>h, WorkerMoves DEF OffChannel, Put
<1>19. CASE OffClient("err")
  BY <1>19, <1>h, WorkerMoves DEF OffClient
<1>20. CASE OffFlush("err")
  BY <1>20, <1>h, WorkerMoves DEF OffFlush
<1>21. CASE OffRings("err")
  BY <1>21, <1>h, HadMoves, WorkerMoves DEF OffRings, Events
<1>22. CASE OffLock("down")
  BY <1>22, <1>h, TryIs, WorkerMoves DEF OffLock, Target, PmStates, Errors, RegAccess
<1>23. CASE OffReset("down")
  BY <1>23, <1>h, WorkerMoves DEF OffReset
<1>24. CASE OffKill("down")
  BY <1>24, <1>h, WorkerMoves DEF OffKill
<1>25. CASE OffChannel("down")
  BY <1>25, <1>h, WorkerMoves DEF OffChannel, Put
<1>26. CASE OffClient("down")
  BY <1>26, <1>h, WorkerMoves DEF OffClient
<1>27. CASE OffFlush("down")
  BY <1>27, <1>h, WorkerMoves DEF OffFlush
<1>28. CASE OffRings("down")
  BY <1>28, <1>h, HadMoves, WorkerMoves DEF OffRings, Events
<1>29. CASE DownStart
  BY <1>29, <1>h DEF DownStart, AskResume, Errors
<1>30. CASE DownPower
  BY <1>30, <1>h DEF DownPower
<1>31. CASE DownLinkDown
  BY <1>31, <1>h, TryIs DEF DownLinkDown, PmStates, Errors
<1>32. CASE DownDisable
  BY <1>32, <1>h, TryIs DEF DownDisable, PmStates, Errors
<1>33. CASE DownFree
  BY <1>33, <1>h DEF DownFree
<1>34. CASE DevObeys
  <2>1. /\ ctl # "none" /\ ctl' = "none" /\ (ctl = "RESET" => dev' = "READY")
        /\ (dev = "SYS_ERR" => ctl = "RESET") /\ dev' # "SYS_ERR"
        /\ UNCHANGED <<pm, pc, tk, errq, irq, live>>
    BY <1>34, <1>h DEF DevObeys
  <2>2. Had("SYS_ERR")' => Had("SYS_ERR")
    BY <1>34, <1>h, ModemHad
  <2> QED
    BY <2>1, <2>2
<1>35. CASE DevIdle
  BY <1>35, <1>h, HadMoves DEF DevIdle, Events
<1>36. CASE DevWakes
  BY <1>36, <1>h, HadMoves DEF DevWakes, Events
<1>37. CASE DevFails
  BY <1>37, <1>h, HadMoves DEF DevFails, Events
<1>38. CASE UNCHANGED <<evs, dev, pm, pc, ctl, tk>>
  BY <1>38, <1>h
<1> QED
  BY Movers, <1>1, <1>2, <1>3, <1>4, <1>5, <1>6, <1>7, <1>8, <1>9, <1>10, <1>11, <1>12,
     <1>13, <1>14, <1>15, <1>16, <1>17, <1>18, <1>19, <1>20, <1>21, <1>22, <1>23, <1>24,
     <1>25, <1>26, <1>27, <1>28, <1>29, <1>30, <1>31, <1>32, <1>33, <1>34, <1>35, <1>36,
     <1>37, <1>38

\* so does the removal,
LEMMA RemovalIsStep ==
  ASSUME OffInv, ~ErrInDown, [Next]_vars
  PROVE  RemovalIs'
<1> USE DEF OffInv, Types, StateTypes, PlaceTypes, FlagTypes, QueueTypes, BootFirst,
        Recovery, RemovalIs, Closing, pmVars, ringVars, countVars, clientVars, eventVars,
        stVars, offVars, rpmVars, devVars
<1>h. evs' = evs => \A x : Had(x)' <=> Had(x)
  BY HadMoves
<1>1. CASE TaskEvent
  BY <1>1, <1>h, EventKinds, TryIs, HadMoves DEF M0Transition, M1Transition, M3Transition,
     ErrorEvent, MissionEvent, PmStates, Errors, Events
<1>2. CASE IrqThread
  BY <1>2, <1>h, TryIs DEF IrqThread, Detect, PmStates, Errors, RegAccess
<1>3. CASE ReadyState("st")
  BY <1>3, <1>h, TryIs DEF ReadyState, At, GoTo, PmStates, Errors, InBoot
<1>4. CASE SuspendEnter
  BY <1>4, <1>h, TryIs DEF SuspendEnter, SuspendFails, PmStates, Errors
<1>5. CASE ResumeBegin
  BY <1>5, <1>h, TryIs DEF ResumeBegin, ResumeEnds, PmStates, Errors, NoEvents
<1>6. CASE ResumeDone
  BY <1>6, <1>h, TryIs DEF ResumeDone, ResumeEnds, Detect, PmStates, Errors, RegAccess
<1>7. CASE ErrStart
  BY <1>7, <1>h DEF ErrStart, AskResume
<1>8. CASE ErrForbid
  BY <1>8, <1>h DEF ErrForbid
<1>9. CASE ReadyState("err")
  BY <1>9, <1>h, TryIs DEF ReadyState, At, GoTo, PmStates, Errors
<1>10. CASE ReadyToM0("err")
  BY <1>10, <1>h DEF ReadyToM0, At, GoTo
<1>11. CASE OffLock("err")
  BY <1>11, <1>h, TryIs, WorkerMoves DEF OffLock, Target, PmStates, Errors, RegAccess
<1>12. CASE OffReset("err")
  BY <1>12, <1>h, WorkerMoves DEF OffReset
<1>13. CASE OffKill("err")
  BY <1>13, <1>h, WorkerMoves DEF OffKill
<1>14. CASE OffChannel("err")
  BY <1>14, <1>h, WorkerMoves DEF OffChannel, Put
<1>15. CASE OffClient("err")
  BY <1>15, <1>h, WorkerMoves DEF OffClient
<1>16. CASE OffFlush("err")
  BY <1>16, <1>h, WorkerMoves DEF OffFlush
<1>17. CASE OffRings("err")
  BY <1>17, <1>h, HadMoves, WorkerMoves DEF OffRings, Events
<1>18. CASE OffLock("down")
  BY <1>18, <1>h, TryIs, WorkerMoves DEF OffLock, Target, PmStates, Errors, RegAccess
<1>19. CASE OffReset("down")
  BY <1>19, <1>h, WorkerMoves DEF OffReset
<1>20. CASE OffKill("down")
  BY <1>20, <1>h, WorkerMoves DEF OffKill
<1>21. CASE OffChannel("down")
  BY <1>21, <1>h, WorkerMoves DEF OffChannel, Put
<1>22. CASE OffClient("down")
  BY <1>22, <1>h, WorkerMoves DEF OffClient
<1>23. CASE OffFlush("down")
  BY <1>23, <1>h, WorkerMoves DEF OffFlush
<1>24. CASE OffRings("down")
  BY <1>24, <1>h, HadMoves, WorkerMoves DEF OffRings, Events
<1>25. CASE DownStart
  BY <1>25, <1>h DEF DownStart, AskResume, Errors
<1>26. CASE DownPower
  BY <1>26, <1>h DEF DownPower
<1>27. CASE DownLinkDown
  BY <1>27, <1>h, TryIs DEF DownLinkDown, PmStates, Errors
<1>28. CASE DownDisable
  BY <1>28, <1>h, TryIs DEF DownDisable, PmStates, Errors
<1>29. CASE DownFree
  BY <1>29, <1>h DEF DownFree
<1>30. CASE DevObeys
  <2>1. /\ ctl # "none" /\ ctl' = "none" /\ (ctl = "RESET" => dev' = "READY")
        /\ (dev = "SYS_ERR" => ctl = "RESET") /\ dev' # "SYS_ERR"
        /\ UNCHANGED <<pm, pc, tk, errq, irq, live>>
    BY <1>30, <1>h DEF DevObeys
  <2>2. Had("SYS_ERR")' => Had("SYS_ERR")
    BY <1>30, <1>h, ModemHad
  <2> QED
    BY <2>1, <2>2
<1>31. CASE DevIdle
  BY <1>31, <1>h, HadMoves DEF DevIdle, Events
<1>32. CASE DevWakes
  BY <1>32, <1>h, HadMoves DEF DevWakes, Events
<1>33. CASE DevFails
  BY <1>33, <1>h, HadMoves DEF DevFails, Events
<1>34. CASE UNCHANGED <<pc, errq, irq, dev, evs, pm, live>>
  BY <1>34, <1>h
<1> QED
  BY Movers, <1>1, <1>2, <1>3, <1>4, <1>5, <1>6, <1>7, <1>8, <1>9, <1>10, <1>11, <1>12,
     <1>13, <1>14, <1>15, <1>16, <1>17, <1>18, <1>19, <1>20, <1>21, <1>22, <1>23, <1>24,
     <1>25, <1>26, <1>27, <1>28, <1>29, <1>30, <1>31, <1>32, <1>33, <1>34

\* and what they have waited for stays so.
LEMMA ClosingStep ==
  ASSUME OffInv, ~ErrInDown, [Next]_vars
  PROVE  Closing'
<1> USE DEF OffInv, Types, StateTypes, PlaceTypes, FlagTypes, QueueTypes, BootFirst,
        Recovery, RemovalIs, Closing, pmVars, ringVars, countVars, clientVars, eventVars,
        stVars, offVars, rpmVars, devVars
<1>1. CASE QueueCheck
  BY <1>1 DEF QueueCheck, Errors
<1>2. CASE QueueElement
  BY <1>2 DEF QueueElement
<1>3. CASE QueueCount
  BY <1>3 DEF QueueCount, AskResume, WakeGet
<1>4. CASE QueueGet
  BY <1>4 DEF QueueGet, AskResume
<1>5. CASE QueueRing
  BY <1>5 DEF QueueRing
<1>6. CASE DataEvent
  BY <1>6 DEF DataEvent, NoEvents, Errors
<1>7. CASE DataPut
  BY <1>7 DEF DataPut, Put
<1>8. CASE TaskStart
  BY <1>8 DEF TaskStart, NoEvents, Errors, RegAccess
<1>9. CASE TaskEnd
  BY <1>9 DEF TaskEnd
<1>10. CASE TaskEvent
  <2>1. /\ tk = "loop" /\ UNCHANGED <<ch, pc, q, put, st>>
        /\ pm' \in {pm, "M0", "M2", "M3", "SYS_ERR_DETECT"}
    BY <1>10, EventKinds, TryIs
    DEF M0Transition, M1Transition, M3Transition, ErrorEvent, MissionEvent
  <2> QED
    BY <2>1
<1>11. CASE TaskRing
  BY <1>11 DEF TaskRing, WakeGet
<1>12. CASE IrqThread
  BY <1>12, TryIs DEF IrqThread, Detect, PmStates, Errors, RegAccess
<1>13. CASE StTake
  BY <1>13 DEF StTake
<1>14. CASE ReadyState("st")
  BY <1>14, TryIs DEF ReadyState, At, GoTo, PmStates, Errors, InBoot
<1>15. CASE ReadyToM0("st")
  BY <1>15 DEF ReadyToM0, At, GoTo, InBoot
<1>16. CASE StGetSync
  BY <1>16 DEF StGetSync, WakeGet, AskResume
<1>17. CASE StMission
  BY <1>17 DEF StMission, AskResume
<1>18. CASE StCreate
  BY <1>18 DEF StCreate, WakeGet
<1>19. CASE SuspendEnter
  BY <1>19, TryIs DEF SuspendEnter, SuspendFails, PmStates, Errors
<1>20. CASE ResumeBegin
  BY <1>20, TryIs DEF ResumeBegin, ResumeEnds, PmStates, Errors, NoEvents
<1>21. CASE ResumeDone
  BY <1>21, TryIs DEF ResumeDone, ResumeEnds, Detect, PmStates, Errors, RegAccess
<1>22. CASE ErrStart
  BY <1>22 DEF ErrStart, AskResume
<1>23. CASE ErrForbid
  BY <1>23 DEF ErrForbid
<1>24. CASE ReadyState("err")
  BY <1>24, TryIs DEF ReadyState, At, GoTo, PmStates, Errors
<1>25. CASE ReadyToM0("err")
  BY <1>25 DEF ReadyToM0, At, GoTo
<1>26. CASE OffLock("err")
  BY <1>26, TryIs, WorkerMoves DEF OffLock, Target, PmStates, Errors, RegAccess
<1>27. CASE OffReset("err")
  BY <1>27, WorkerMoves DEF OffReset
<1>28. CASE OffKill("err")
  BY <1>28, WorkerMoves DEF OffKill
<1>29. CASE OffChannel("err")
  BY <1>29, WorkerMoves DEF OffChannel, Put
<1>30. CASE OffClient("err")
  BY <1>30, WorkerMoves DEF OffClient
<1>31. CASE OffFlush("err")
  BY <1>31, WorkerMoves DEF OffFlush
<1>32. CASE OffRings("err")
  BY <1>32, HadMoves, WorkerMoves DEF OffRings, Events
<1>33. CASE OffLock("down")
  BY <1>33, TryIs, WorkerMoves DEF OffLock, Target, PmStates, Errors, RegAccess
<1>34. CASE OffReset("down")
  BY <1>34, WorkerMoves DEF OffReset
<1>35. CASE OffKill("down")
  BY <1>35, WorkerMoves DEF OffKill
<1>36. CASE OffChannel("down")
  BY <1>36, WorkerMoves DEF OffChannel, Put
<1>37. CASE OffClient("down")
  BY <1>37, WorkerMoves DEF OffClient
<1>38. CASE OffFlush("down")
  BY <1>38, WorkerMoves DEF OffFlush
<1>39. CASE OffRings("down")
  BY <1>39, HadMoves, WorkerMoves DEF OffRings, Events
<1>40. CASE DownStart
  BY <1>40 DEF DownStart, AskResume, Errors
<1>41. CASE DownPower
  BY <1>41 DEF DownPower
<1>42. CASE DownLinkDown
  BY <1>42, TryIs DEF DownLinkDown, PmStates, Errors
<1>43. CASE DownDisable
  BY <1>43, TryIs DEF DownDisable, PmStates, Errors
<1>44. CASE DownFree
  BY <1>44 DEF DownFree
<1>45. CASE UNCHANGED <<ch, pc, q, tk, put, st, list, pm>>
  BY <1>45
<1> QED
  BY Movers, <1>1, <1>2, <1>3, <1>4, <1>5, <1>6, <1>7, <1>8, <1>9, <1>10, <1>11, <1>12,
     <1>13, <1>14, <1>15, <1>16, <1>17, <1>18, <1>19, <1>20, <1>21, <1>22, <1>23, <1>24,
     <1>25, <1>26, <1>27, <1>28, <1>29, <1>30, <1>31, <1>32, <1>33, <1>34, <1>35, <1>36,
     <1>37, <1>38, <1>39, <1>40, <1>41, <1>42, <1>43, <1>44, <1>45

\* The states of the recovery and of the removal, for a modem that does not fail
\* during a removal.
LEMMA OffInvInit == Init => OffInv
<1> SUFFICES ASSUME Init PROVE OffInv
  OBVIOUS
<1>1. Types
  BY TypesInit
<1>2. Threads /\ Stays
  BY DEF Init, Threads, Stays, Settled
<1>3. ~Had("SYS_ERR")
  BY DEF Init, Had
<1>4. BootFirst
  BY DEF Init, BootFirst, InBoot
<1>5. Recovery /\ RemovalIs /\ Closing
  BY <1>3 DEF Init, Recovery, RemovalIs, Closing
<1> QED
  BY <1>1, <1>2, <1>4, <1>5 DEF OffInv

\* Every step keeps them.
LEMMA OffInvStep ==
  ASSUME OffInv, ~ErrInDown, [Next]_vars
  PROVE  OffInv'
<1>1. Types' /\ Threads' /\ Stays'
  BY TypesStep, ThreadsStep, StaysStep DEF OffInv
<1> QED
  BY <1>1, BootFirstStep, RecoveryStep, RemovalIsStep, ClosingStep DEF OffInv

\* After the removal nothing is left that would use the controller: the tasklets,
\* st_worker, syserr_worker and the runtime PM are idle and have nothing queued,
\* whatever waits time out and whoever overtakes mhi_queue_buf, if the modem does
\* not fail during the removal and is not removed in recovery.
THEOREM RemovalIsFinal ==
  ASSUME ~ErrInDown
  PROVE  Spec => []GoneIsGone
<1>1. OffInv /\ [Next]_vars => OffInv'
  BY OffInvStep
<1>2. OffInv => GoneIsGone
  <2> SUFFICES ASSUME OffInv, ~live PROVE GoneIsGone
    BY DEF GoneIsGone
  <2>1. pc.down = "gone" /\ pm = "DISABLE" /\ pc.err = "idle" /\ ~errq
    BY DEF OffInv, RemovalIs
  <2>2. ch = "disabled" /\ q = "idle" /\ tk = "idle" /\ ~put /\ st = "idle" /\ list = <<>>
    BY <2>1 DEF OffInv, Closing
  <2>3. slp = "idle"
    BY <2>1 DEF OffInv, Stays, Settled, Threads, Types, PlaceTypes
  <2> QED
    BY <2>1, <2>2, <2>3 DEF GoneIsGone
<1> QED
  BY OffInvInit, <1>1, <1>2, PTL DEF Spec

-----------------------------------------------------------------------------
(* Transfers.                                                               *)

\* A transfer in the ring is counted once its element is made known, the first one
\* holds a runtime reference until the last one is done.
Counts ==
  /\ q = "gen" => pending = unseen + seen + done - 1 /\ unseen > 0
  /\ q # "gen" => pending = unseen + seen + done
  /\ pending > 0 /\ q # "get" => refs = IF put THEN 2 ELSE 1
  /\ ~(pending > 0 /\ q # "get") => refs = IF put THEN 1 ELSE 0
  /\ q = "get" => unseen = 1 /\ seen = 0 /\ done = 0
  /\ ch # "enabled" => unseen + seen + done = 0 /\ q = "idle"

\* The M3 event is the last one, and an M1 event is followed by one that takes the
\* modem out of M1 again.
M3Last == \A i \in 1 .. Len(evs) : evs[i] = "M3" => i = Len(evs)
M1Back ==
  \A i \in 1 .. Len(evs) : evs[i] = "M1" =>
    \E j \in 1 .. Len(evs) : j > i /\ evs[j] \in {"M0", "M3"}

\* What pm_state says of the modem while neither has failed: it is in M1 or M2 or
\* an event tells otherwise, and its last event before it is resumed is the M3.
Link ==
  ~NoEvents(pm) =>
    /\ pm = "M0" => ds = "M0"
    /\ pm = "M2" => ds = "M2"
    /\ ctl = "M3" => pm = "M3_ENTER"
    /\ pm = "M3_ENTER" => ds # "M3"
    /\ M3Last
    /\ Had("M3") => pm = "M3_ENTER" /\ dev \in {"M3", "SYS_ERR"} /\ ctl = "none"
    /\ dev \in {"M1", "M2", "SYS_ERR"} \/ M1Back
    /\ pm = "M2" => dev \in {"M1", "M2", "SYS_ERR"} \/ Had("M0")

\* The states of a suspended link belong to a suspend that has not failed.
Calm == ~NoEvents(pm) /\ dev # "SYS_ERR"
Suspended ==
  /\ slp # "idle" => ~rpmErr
  /\ pm = "M3_ENTER" => slp = "m3" \/ rpmErr
  /\ pm = "M3" => slp \in {"m3", "resume"} \/ rpm = "suspended" \/ rpmErr
  /\ Calm /\ pm = "M3_ENTER" => slp = "m3"
  /\ Calm /\ pm = "M3" => ~rpmErr /\ (slp \in {"m3", "resume"} \/ rpm = "suspended")

\* Who is bound to ring for a transfer, during the call and after it.
Covered ==
  \/ tk = "ring"
  \/ pm = "M2" /\ (wake \/ Had("M0"))
  \/ pm = "M3_EXIT"
  \/ InSuspend(pm) /\ wantUp /\ rpm \in {"suspending", "suspended"}
  \/ pm = "M3" /\ slp = "resume"
Announcing ==
  unseen > 0 /\ Calm =>
    /\ q \in {"idle", "checked"} => Covered
    /\ q \in {"get", "db"} => Covered \/ pm = "M0"

KeptInv == OffInv /\ Counts /\ Link /\ Suspended /\ Announcing

\* Every step keeps the count of the transfers and the reference they hold.
LEMMA CountsStep ==
  ASSUME OffInv, Counts, ~ErrInDown, ~Overtaken, [Next]_vars
  PROVE  Counts'
<1> USE DEF Counts, QueueTypes, pmVars, ringVars, countVars, clientVars, eventVars, stVars,
        offVars, rpmVars, devVars
<1>e. evs \in Seq(Events)
  BY DEF OffInv, Types, QueueTypes
<1>c. /\ unseen \in Nat /\ seen \in Nat /\ done \in Nat /\ refs \in Nat /\ pending \in Int
      /\ put \in BOOLEAN /\ q \in {"idle", "checked", "gen", "get", "db"}
      /\ q = "gen" => pending = unseen + seen + done - 1 /\ unseen > 0
      /\ q # "gen" => pending = unseen + seen + done
      /\ pending > 0 /\ q # "get" => refs = IF put THEN 2 ELSE 1
      /\ ~(pending > 0 /\ q # "get") => refs = IF put THEN 1 ELSE 0
      /\ q = "get" => unseen = 1 /\ seen = 0 /\ done = 0
      /\ ch # "enabled" => unseen + seen + done = 0 /\ q = "idle"
  BY DEF OffInv, Types, CountTypes, FlagTypes, Counts
<1>w. ch \in {"disabled", "enabled", "suspended"} /\ (ch = "suspended" => pm \in Errors)
  BY DEF OffInv, Types, StateTypes, Closing, Recovery, RemovalIs, Errors
<1>1. CASE QueueCheck
  <2>1. /\ q = "idle" /\ q' = "checked" /\ ch = "enabled"
        /\ UNCHANGED <<pending, unseen, seen, done, refs, put, ch>>
    BY <1>1, <1>w DEF QueueCheck
  <2> QED
    BY <2>1, <1>c
<1>2. CASE QueueElement
  <2>1. /\ q = "checked" /\ q' = "gen" /\ unseen' = unseen + 1
        /\ UNCHANGED <<pending, seen, done, refs, put, ch>>
    BY <1>2 DEF QueueElement
  <2> QED
    BY <2>1, <1>c
<1>3. CASE QueueCount
  <2>1. q = "gen" /\ pending' = pending + 1 /\ q' = (IF pending' = 1 THEN "get" ELSE "db")
        /\ UNCHANGED <<unseen, seen, done, refs, put, ch>>
    BY <1>3 DEF QueueCount
  <2>2. CASE pending' = 1
    BY <2>1, <2>2, <1>c
  <2>3. CASE pending' # 1
    BY <2>1, <2>3, <1>c
  <2> QED
    BY <2>1, <1>c, <2>2, <2>3
<1>4. CASE QueueGet
  <2>1. /\ q = "get" /\ q' = "db" /\ refs' = refs + 1
        /\ UNCHANGED <<pending, unseen, seen, done, put, ch>>
    BY <1>4 DEF QueueGet
  <2> QED
    BY <2>1, <1>c
<1>5. CASE QueueRing
  <2>1. /\ q = "db" /\ q' = "idle" /\ UNCHANGED <<pending, done, refs, put, ch>>
        /\ (seen' = seen + unseen /\ unseen' = 0) \/ UNCHANGED <<unseen, seen>>
    BY <1>5 DEF QueueRing
  <2> QED
    BY <2>1, <1>c
<1>6. CASE DataEvent
  <2>1. /\ done > 0 /\ ~put /\ done' = done - 1 /\ pending' = pending - 1 /\ ch = "enabled"
        /\ (pending' = 0 => put' = TRUE) /\ (pending' # 0 => put' = FALSE)
        /\ UNCHANGED <<unseen, seen, refs, q, ch>>
    BY <1>6 DEF DataEvent
  <2>2. CASE pending' = 0
    <3>0. pending = 1 /\ q # "get"
      BY <2>1, <2>2, <1>c
    <3>1. refs = 1 /\ refs' = 1 /\ put' = TRUE
      BY <2>1, <2>2, <1>c, <3>0
    <3>2. /\ q' = "gen" => pending' = unseen' + seen' + done' - 1 /\ unseen' > 0
          /\ q' # "gen" => pending' = unseen' + seen' + done'
      BY <2>1, <1>c
    <3> QED
      BY <2>1, <2>2, <1>c, <3>0, <3>1, <3>2
  <2>3. CASE pending' # 0
    BY <2>1, <2>3, <1>c
  <2> QED
    BY <2>1, <1>c, <2>2, <2>3
<1>7. CASE DataPut
  <2>1. /\ put /\ ~put' /\ UNCHANGED <<pending, unseen, seen, done, q, ch>>
        /\ refs' = (IF refs = 0 THEN 0 ELSE refs - 1)
    BY <1>7 DEF DataPut, Put
  <2> QED
    BY <2>1, <1>c
<1>8. CASE TaskRing
  <2>1. /\ q \notin {"gen", "get"} /\ UNCHANGED <<pending, done, refs, q, put, ch>>
        /\ (seen' = seen + unseen /\ unseen' = 0) \/ UNCHANGED <<unseen, seen>>
    BY <1>8 DEF TaskRing
  <2> QED
    BY <2>1, <1>c
<1>9. CASE StCreate
  <2>1. /\ UNCHANGED <<pending, refs, q, put>>
        /\ (ch = "disabled" /\ ch' = "enabled" /\ unseen' = 0 /\ seen' = 0 /\ done' = 0)
             \/ UNCHANGED <<unseen, seen, done, ch>>
    BY <1>9 DEF StCreate
  <2> QED
    BY <2>1, <1>c
<1>10. CASE OffChannel("err")
  <2>1. /\ q = "idle" /\ UNCHANGED <<q, put>>
        /\ \/ /\ ch = "enabled" /\ ch' = "suspended" /\ unseen' = 0 /\ seen' = 0 /\ done' = 0
              /\ pending' = pending - (unseen + seen + done)
              /\ refs' = (IF pending > 0 /\ pending <= unseen + seen + done /\ refs # 0
                            THEN refs - 1 ELSE refs)
           \/ UNCHANGED <<ch, unseen, seen, done, pending, refs>>
    BY <1>10 DEF OffChannel, Put
  <2>2. CASE pending > 0
    BY <2>1, <2>2, <1>c
  <2>3. CASE ~(pending > 0)
    BY <2>1, <2>3, <1>c
  <2> QED
    BY <2>1, <1>c, <2>2, <2>3
<1>11. CASE OffClient("err")
  <2>1. /\ q = "idle" /\ ch # "enabled"
        /\ UNCHANGED <<pending, unseen, seen, done, refs, q, put>>
    BY <1>11, WorkerMoves DEF OffClient, OffInv, Types, Closing
  <2> QED
    BY <2>1, <1>c
<1>12. CASE OffChannel("down")
  <2>1. /\ q = "idle" /\ UNCHANGED <<q, put>>
        /\ \/ /\ ch = "enabled" /\ ch' = "suspended" /\ unseen' = 0 /\ seen' = 0 /\ done' = 0
              /\ pending' = pending - (unseen + seen + done)
              /\ refs' = (IF pending > 0 /\ pending <= unseen + seen + done /\ refs # 0
                            THEN refs - 1 ELSE refs)
           \/ UNCHANGED <<ch, unseen, seen, done, pending, refs>>
    BY <1>12 DEF OffChannel, Put
  <2>2. CASE pending > 0
    BY <2>1, <2>2, <1>c
  <2>3. CASE ~(pending > 0)
    BY <2>1, <2>3, <1>c
  <2> QED
    BY <2>1, <1>c, <2>2, <2>3
<1>13. CASE OffClient("down")
  <2>1. /\ q = "idle" /\ ch # "enabled"
        /\ UNCHANGED <<pending, unseen, seen, done, refs, q, put>>
    BY <1>13, WorkerMoves DEF OffClient, OffInv, Types, Closing
  <2> QED
    BY <2>1, <1>c
<1>14. CASE DevTransfers
  <2>1. /\ seen > 0 /\ seen' = seen - 1 /\ done' = done + 1
        /\ UNCHANGED <<pending, unseen, refs, q, put, ch>>
    BY <1>14 DEF DevTransfers
  <2> QED
    BY <2>1, <1>c
<1>15. CASE UNCHANGED <<pending, unseen, seen, done, refs, q, put, ch>>
  BY <1>15, <1>c
<1> QED
  BY Movers, <1>e, <1>1, <1>2, <1>3, <1>4, <1>5, <1>6, <1>7, <1>8, <1>9, <1>10, <1>11,
     <1>12, <1>13, <1>14, <1>15

\* The oldest event taken leaves what is said of the M3 and M1 events, which move up.
LEMMA ShiftEvents ==
  ASSUME evs \in Seq(Events), evs # <<>>, evs' = Tail(evs)
  PROVE  /\ M3Last => M3Last' /\ (evs[1] = "M3" => evs' = <<>>)
         /\ M1Back => M1Back' /\ (evs[1] = "M1" => Had("M0")' \/ Had("M3")')
<1>1. /\ Len(evs) \in Nat \ {0} /\ Len(evs') = Len(evs) - 1 /\ evs' \in Seq(Events)
      /\ \A i \in 1 .. Len(evs') : evs'[i] = evs[i + 1]
  BY EventQueue
<1>2. ASSUME M3Last PROVE M3Last' /\ (evs[1] = "M3" => evs' = <<>>)
  <2>1. ASSUME NEW i \in 1 .. Len(evs'), evs'[i] = "M3" PROVE i = Len(evs')
    <3>0. i \in Nat /\ Len(evs) \in Nat /\ Len(evs') \in Nat /\ Len(evs) = Len(evs') + 1
      BY <1>1
    <3>1. i + 1 \in 1 .. Len(evs) /\ evs[i + 1] = "M3"
      BY <1>1, <2>1
    <3>2. i + 1 = Len(evs)
      BY <1>2, <3>1 DEF M3Last
    <3>3. \A k, m, n \in Nat : k + 1 = m /\ m = n + 1 => k = n
      OBVIOUS
    <3> QED
      BY <3>0, <3>2, <3>3, Zenon
  <2>2. evs[1] = "M3" => Len(evs') = 0
    <3> SUFFICES ASSUME evs[1] = "M3" PROVE Len(evs') = 0
      OBVIOUS
    <3>1. 1 \in 1 .. Len(evs)
      BY <1>1
    <3>2. 1 = Len(evs)
      BY <1>2, <3>1 DEF M3Last
    <3> QED
      BY <1>1, <3>2
  <2>3. Len(evs') = 0 => evs' = <<>>
    BY <1>1
  <2>4. M3Last'
    BY <2>1 DEF M3Last
  <2> QED
    BY <2>2, <2>3, <2>4
<1>3. ASSUME M1Back PROVE M1Back' /\ (evs[1] = "M1" => Had("M0")' \/ Had("M3")')
  <2>1. ASSUME NEW i \in 1 .. Len(evs), evs[i] = "M1"
        PROVE  \E j \in 1 .. Len(evs') : j > i - 1 /\ evs'[j] \in {"M0", "M3"}
    <3>1. PICK j \in 1 .. Len(evs) : j > i /\ evs[j] \in {"M0", "M3"}
      BY <1>3, <2>1 DEF M1Back
    <3>2. j - 1 \in 1 .. Len(evs') /\ (j - 1) + 1 = j /\ j - 1 > i - 1
      BY <1>1, <3>1
    <3>3. evs'[j - 1] = evs[j]
      BY <1>1, <3>2
    <3> QED
      BY <3>1, <3>2, <3>3
  <2>2. M1Back'
    <3> SUFFICES ASSUME NEW i \in 1 .. Len(evs'), evs'[i] = "M1"
                 PROVE  \E j \in 1 .. Len(evs') : j > i /\ evs'[j] \in {"M0", "M3"}
      BY DEF M1Back
    <3>1. i + 1 \in 1 .. Len(evs) /\ evs[i + 1] = "M1" /\ (i + 1) - 1 = i
      BY <1>1
    <3> QED
      BY <2>1, <3>1
  <2>3. evs[1] = "M1" => Had("M0")' \/ Had("M3")'
    <3> SUFFICES ASSUME evs[1] = "M1" PROVE Had("M0")' \/ Had("M3")'
      OBVIOUS
    <3>1. 1 \in 1 .. Len(evs)
      BY <1>1
    <3>2. PICK j \in 1 .. Len(evs') : evs'[j] \in {"M0", "M3"}
      BY <2>1, <3>1
    <3> QED
      BY <3>2 DEF Had
  <2> QED
    BY <2>2, <2>3
<1> QED
  BY <1>2, <1>3

\* One more event leaves what is said of the M3 and M1 events.
LEMMA OneMoreEvent ==
  ASSUME evs \in Seq(Events), NEW e \in Events, evs' = Append(evs, e)
  PROVE  /\ ~Had("M3") => M3Last'
         /\ M1Back /\ e # "M1" => M1Back'
         /\ e \in {"M0", "M3"} => M1Back'
<1>1. /\ Len(evs) \in Nat /\ Len(evs') = Len(evs) + 1 /\ evs'[Len(evs) + 1] = e
      /\ \A i \in 1 .. Len(evs) : evs'[i] = evs[i]
  BY EventQueue
<1>2. \A i \in 1 .. Len(evs') : i \in 1 .. Len(evs) \/ i = Len(evs')
  BY <1>1
<1>3. ~Had("M3") => M3Last'
  BY <1>1, <1>2 DEF Had, M3Last
<1>4. ASSUME M1Back, e # "M1" PROVE M1Back'
  <2> SUFFICES ASSUME NEW i \in 1 .. Len(evs'), evs'[i] = "M1"
               PROVE  \E j \in 1 .. Len(evs') : j > i /\ evs'[j] \in {"M0", "M3"}
    BY DEF M1Back
  <2>1. i \in 1 .. Len(evs) /\ evs[i] = "M1"
    BY <1>1, <1>2, <1>4
  <2>2. PICK j \in 1 .. Len(evs) : j > i /\ evs[j] \in {"M0", "M3"}
    BY <1>4, <2>1 DEF M1Back
  <2>3. j \in 1 .. Len(evs') /\ evs'[j] = evs[j]
    BY <1>1
  <2> QED
    BY <2>2, <2>3
<1>5. ASSUME e \in {"M0", "M3"} PROVE M1Back'
  <2> SUFFICES ASSUME NEW i \in 1 .. Len(evs'), evs'[i] = "M1"
               PROVE  \E j \in 1 .. Len(evs') : j > i /\ evs'[j] \in {"M0", "M3"}
    BY DEF M1Back
  <2>1. i # Len(evs') /\ Len(evs') \in 1 .. Len(evs') /\ evs'[Len(evs')] = e
    BY <1>1, <1>5
  <2>2. Len(evs') > i
    BY <1>1, <2>1
  <2> QED
    BY <1>5, <2>1, <2>2
<1> QED
  BY <1>3, <1>4, <1>5

\* So do the two events of a boot.
LEMMA BootEvents ==
  ASSUME evs \in Seq(Events), evs' = Append(Append(evs, "M0"), "AMSS")
  PROVE  /\ ~Had("M3") => M3Last' /\ ~Had("M3")'
         /\ M1Back' /\ Had("M0")'
<1> DEFINE s == Append(evs, "M0")
<1>1. /\ s \in Seq(Events) /\ Len(evs) \in Nat /\ Len(s) = Len(evs) + 1 /\ s[Len(evs) + 1] = "M0"
      /\ \A i \in 1 .. Len(evs) : s[i] = evs[i]
  BY EventQueue DEF Events
<1> HIDE DEF s
<1>2. /\ Len(Append(s, "AMSS")) = Len(s) + 1 /\ Append(s, "AMSS")[Len(s) + 1] = "AMSS"
      /\ \A i \in 1 .. Len(s) : Append(s, "AMSS")[i] = s[i]
  BY <1>1, EventQueue DEF Events
<1>3. evs' = Append(s, "AMSS")
  BY DEF s
<1>4. /\ Len(evs') = Len(evs) + 2 /\ evs'[Len(evs) + 1] = "M0" /\ evs'[Len(evs) + 2] = "AMSS"
      /\ \A i \in 1 .. Len(evs) : evs'[i] = evs[i]
  BY <1>1, <1>2, <1>3
<1>5. \A i \in 1 .. Len(evs') : i \in 1 .. Len(evs) \/ i = Len(evs) + 1 \/ i = Len(evs) + 2
  BY <1>1, <1>4
<1>6. ~Had("M3") => M3Last' /\ ~Had("M3")'
  BY <1>1, <1>4, <1>5 DEF Had, M3Last
<1>7. Len(evs) + 1 \in 1 .. Len(evs')
  BY <1>1, <1>4
<1>8. ASSUME NEW i \in 1 .. Len(evs'), evs'[i] = "M1" PROVE Len(evs) + 1 > i
  BY <1>1, <1>4, <1>5, <1>8
<1>9. M1Back'
  BY <1>4, <1>7, <1>8 DEF M1Back
<1>10. Had("M0")'
  BY <1>4, <1>7 DEF Had
<1> QED
  BY <1>6, <1>9, <1>10

\* Every step keeps what pm_state says of the modem.
LEMMA LinkStep ==
  ASSUME OffInv, Link, Suspended, ~ErrInDown, [Next]_vars
  PROVE  Link'
<1> USE DEF OffInv, Types, StateTypes, PlaceTypes, FlagTypes, QueueTypes, NoEvents, Errors,
        BootFirst, Recovery, Link, Suspended, InBoot, pmVars, ringVars, countVars,
        clientVars, eventVars, stVars, offVars, rpmVars, devVars
<1>h. /\ evs' = evs => (M3Last' <=> M3Last) /\ (M1Back' <=> M1Back) /\ \A x : Had(x)' <=> Had(x)
      /\ evs = <<>> => M3Last /\ M1Back /\ \A x : ~Had(x)
      /\ evs' = <<>> => M3Last' /\ M1Back' /\ \A x : ~Had(x)'
  <2>1. evs' = evs => (M3Last' <=> M3Last) /\ (M1Back' <=> M1Back)
    BY DEF M3Last, M1Back
  <2>2. (evs = <<>> => M3Last /\ M1Back) /\ (evs' = <<>> => M3Last' /\ M1Back')
    BY DEF M3Last, M1Back
  <2> QED
    BY <2>1, <2>2, HadMoves
<1>1. CASE TaskEvent
  <2>1. /\ evs # <<>> /\ evs' = Tail(evs) /\ dev' = dev
        /\ \A x : Had(x)' \/ x = evs[1] <=> Had(x)
    BY <1>1, <1>h, EventKinds, HadMoves
  <2>2. /\ M3Last => M3Last' /\ (evs[1] = "M3" => evs' = <<>>)
        /\ M1Back => M1Back' /\ (evs[1] = "M1" => Had("M0")' \/ Had("M3")')
    BY <2>1, ShiftEvents
  <2>3. CASE evs[1] = "M0" /\ M0Transition
    BY <2>1, <2>2, <2>3, TryIs DEF M0Transition, PmStates
  <2>4. CASE evs[1] = "M1" /\ M1Transition
    BY <2>1, <2>2, <2>4, TryIs DEF M1Transition, PmStates
  <2>5. CASE evs[1] = "M3" /\ M3Transition
    BY <2>1, <2>2, <2>5, <1>h, TryIs DEF M3Transition, PmStates
  <2>6. CASE evs[1] = "SYS_ERR" /\ ErrorEvent
    BY <2>1, <2>2, <2>6, TryIs DEF ErrorEvent, PmStates
  <2>7. CASE evs[1] = "AMSS" /\ MissionEvent
    BY <2>1, <2>2, <2>7 DEF MissionEvent
  <2> QED
    BY <1>1, <1>h, EventKinds, <2>3, <2>4, <2>5, <2>6, <2>7
<1>2. CASE IrqThread
  BY <1>2, <1>h, TryIs DEF IrqThread, Detect, PmStates, RegAccess
<1>3. CASE ReadyState("st")
  BY <1>3, <1>h, TryIs, HadMoves DEF ReadyState, At, GoTo, PmStates, InBoot, BootFirst
<1>4. CASE ReadyToM0("st")
  BY <1>4, <1>h, HadMoves DEF ReadyToM0, At, GoTo
<1>5. CASE SuspendEnter
  BY <1>5, <1>h, TryIs DEF SuspendEnter, SuspendFails, PmStates
<1>6. CASE ResumeBegin
  BY <1>6, <1>h, TryIs DEF ResumeBegin, ResumeEnds, PmStates
<1>7. CASE ResumeDone
  BY <1>7, <1>h, TryIs DEF ResumeDone, ResumeEnds, Detect, PmStates, RegAccess
<1>8. CASE ReadyState("err")
  BY <1>8, <1>h, TryIs, HadMoves DEF ReadyState, At, GoTo, PmStates
<1>9. CASE ReadyToM0("err")
  BY <1>9, <1>h, HadMoves DEF ReadyToM0, At, GoTo
<1>10. CASE OffLock("err")
  BY <1>10, <1>h, TryIs, WorkerMoves DEF OffLock, Target, PmStates, RegAccess
<1>11. CASE OffRings("err")
  <2>1. pm' = pm /\ pm = "SYS_ERR_PROCESS"
    BY <1>11, <1>h, WorkerMoves DEF OffRings
  <2> QED
    BY <2>1
<1>12. CASE OffLock("down")
  BY <1>12, <1>h, TryIs, WorkerMoves DEF OffLock, Target, PmStates, RegAccess
<1>13. CASE OffRings("down")
  <2>1. pm' = pm /\ pm = "SHUTDOWN_PROCESS"
    BY <1>13, <1>h, WorkerMoves DEF OffRings, RemovalIs
  <2> QED
    BY <2>1
<1>14. CASE DownLinkDown
  BY <1>14, <1>h, TryIs DEF DownLinkDown, PmStates
<1>15. CASE DownDisable
  BY <1>15, <1>h, TryIs DEF DownDisable, PmStates
<1>16. CASE DevObeys
  <2>0. UNCHANGED <<pm, ds>> /\ ctl' = "none" /\ ctl # "none"
    BY <1>16, <1>h DEF DevObeys
  <2>1. CASE evs' = evs
    <3>1. \/ ctl = "RESET" \/ dev' = dev \/ (dev = "M1" /\ dev' = "M2")
      BY <1>16, <1>h, <2>1, EventQueue DEF DevObeys, Events
    <3> QED
      BY <2>0, <2>1, <3>1, <1>h
  <2>2. CASE ctl = "M0" /\ evs' = Append(evs, "M0")
    <3>1. /\ \A x : Had(x)' <=> Had(x) \/ x = "M0"
          /\ M1Back' /\ (~Had("M3") => M3Last')
      BY <2>2, HadMoves, OneMoreEvent DEF Events
    <3> QED
      BY <2>0, <2>2, <3>1
  <2>3. CASE ctl = "M3" /\ dev' = "M3" /\ evs' = Append(evs, "M3")
    <3>1. /\ \A x : Had(x)' <=> Had(x) \/ x = "M3"
          /\ M1Back' /\ (~Had("M3") => M3Last')
      BY <2>3, HadMoves, OneMoreEvent DEF Events
    <3> QED
      BY <2>0, <2>3, <3>1
  <2>4. CASE ctl = "M0" /\ evs' = Append(Append(evs, "M0"), "AMSS")
    BY <2>0, <2>4, BootEvents
  <2> QED
    BY <1>16, <1>h, <2>1, <2>2, <2>3, <2>4, ModemReports
<1>17. CASE DevIdle
  <2>0. /\ UNCHANGED <<pm, ds, ctl>>
        /\ dev = "M0" /\ dev' = "M1" /\ evs' = Append(evs, "M1")
    BY <1>17, <1>h DEF DevIdle
  <2>1. evs' = Append(evs, "M1") =>
          /\ \A x : Had(x)' <=> Had(x) \/ x = "M1"
          /\ (~Had("M3") => M3Last')
    BY HadMoves, OneMoreEvent DEF Events
  <2> QED
    BY <2>0, <2>1, <1>h
<1>18. CASE DevWakes
  <2>0. /\ UNCHANGED <<pm, ds, ctl>>
        /\ \/ dev \in {"M1", "M2"} /\ dev' = "M0" /\ evs' = Append(evs, "M0")
           \/ UNCHANGED <<dev, evs>>
    BY <1>18, <1>h DEF DevWakes
  <2>1. evs' = Append(evs, "M0") =>
          /\ \A x : Had(x)' <=> Had(x) \/ x = "M0"
          /\ (~Had("M3") => M3Last') /\ M1Back'
    BY HadMoves, OneMoreEvent DEF Events
  <2> QED
    BY <2>0, <2>1, <1>h
<1>19. CASE DevFails
  <2>0. /\ UNCHANGED <<pm, ds, ctl>>
        /\ dev' = "SYS_ERR"
        /\ \/ evs' = evs
           \/ dev # "M3" /\ dev # "SYS_ERR" /\ evs' = Append(evs, "SYS_ERR")
    BY <1>19, <1>h DEF DevFails
  <2>1. evs' = Append(evs, "SYS_ERR") =>
          /\ \A x : Had(x)' <=> Had(x) \/ x = "SYS_ERR"
          /\ (~Had("M3") => M3Last') /\ (M1Back => M1Back')
    BY HadMoves, OneMoreEvent DEF Events
  <2> QED
    BY <2>0, <2>1, <1>h
<1>20. CASE UNCHANGED <<pm, ds, ctl, evs, dev>>
  BY <1>20, <1>h
<1> QED
  BY Movers, <1>1, <1>2, <1>3, <1>4, <1>5, <1>6, <1>7, <1>8, <1>9, <1>10, <1>11, <1>12,
     <1>13, <1>14, <1>15, <1>16, <1>17, <1>18, <1>19, <1>20

\* Every step keeps the suspended link with its suspend.
LEMMA SuspendedStep ==
  ASSUME OffInv, Link, Suspended, ~ErrInDown, "suspend" \notin Slow, [Next]_vars
  PROVE  Suspended'
<1> USE DEF OffInv, Types, StateTypes, PlaceTypes, FlagTypes, QueueTypes, NoEvents, Errors,
        BootFirst, Recovery, Link, Suspended, InBoot, Calm, Threads, pmVars, ringVars,
        countVars, clientVars, eventVars, stVars, offVars, rpmVars, devVars
<1>1. CASE TaskEvent
  <2>1. /\ evs # <<>> /\ UNCHANGED <<slp, rpmErr, dev, rpm>>
        /\ pm' # pm => pm' \in {"M0", "M2", "SYS_ERR_DETECT"} \/ (pm = "M3_ENTER" /\ pm' = "M3")
    <3>1. evs # <<>> /\ UNCHANGED <<slp, rpmErr, dev, rpm>>
      BY <1>1, EventKinds
    <3>2. CASE M0Transition
      BY <3>1, <3>2, TryIs DEF M0Transition
    <3>3. CASE M1Transition
      BY <3>1, <3>3, TryIs DEF M1Transition
    <3>4. CASE M3Transition
      BY <3>1, <3>4, TryIs DEF M3Transition
    <3>5. CASE ErrorEvent
      BY <3>1, <3>5, TryIs DEF ErrorEvent
    <3>6. CASE MissionEvent
      BY <3>1, <3>6 DEF MissionEvent
    <3> QED
      BY <1>1, EventKinds, <3>2, <3>3, <3>4, <3>5, <3>6
  <2> QED
    BY <2>1
<1>2. CASE IrqThread
  BY <1>2, TryIs DEF IrqThread, Detect, PmStates, RegAccess, NoEvents
<1>3. CASE ReadyState("st")
  BY <1>3, TryIs DEF ReadyState, At, GoTo, PmStates, NoEvents
<1>4. CASE SuspendStart
  BY <1>4 DEF SuspendStart, NoEvents
<1>5. CASE SuspendBegin
  BY <1>5 DEF SuspendBegin, SuspendFails, WakeGet, NoEvents
<1>6. CASE SuspendAwake
  BY <1>6 DEF SuspendAwake, SuspendFails, Late, NoEvents, Errors
<1>7. CASE SuspendEnter
  BY <1>7, TryIs DEF SuspendEnter, SuspendFails, PmStates, NoEvents
<1>8. CASE SuspendDone
  <2>1. slp = "m3" /\ slp' = "idle" /\ UNCHANGED <<pm, dev>> /\ ~rpmErr
    BY <1>8 DEF SuspendDone, SuspendFails
  <2>2. CASE pm \in Errors \/ (ds # "M3" /\ Late("suspend"))
    <3>1. CASE rpmErr'
      BY <2>1, <2>2, <3>1 DEF Late
    <3>2. CASE ~rpmErr'
      BY <1>8, <2>1, <2>2, <3>2 DEF SuspendDone, SuspendFails
    <3> QED
      BY <3>1, <3>2
  <2>3. CASE pm \notin Errors /\ ds = "M3"
    <3>1. rpm' = "suspended" /\ rpmErr' = rpmErr /\ pm # "M3_ENTER"
      BY <1>8, <2>3 DEF SuspendDone, SuspendFails
    <3> QED
      BY <2>1, <2>3, <3>1
  <2> QED
    BY <1>8, <2>2, <2>3 DEF SuspendDone
<1>9. CASE ResumeStart
  BY <1>9 DEF ResumeStart, NoEvents
<1>10. CASE ResumeBegin
  BY <1>10, TryIs DEF ResumeBegin, ResumeEnds, PmStates, NoEvents
<1>11. CASE ResumeDone
  BY <1>11, TryIs DEF ResumeDone, ResumeEnds, Detect, PmStates, RegAccess, NoEvents
<1>12. CASE ReadyState("err")
  BY <1>12, TryIs DEF ReadyState, At, GoTo, PmStates, NoEvents
<1>13. CASE OffLock("err")
  BY <1>13, TryIs, WorkerMoves DEF OffLock, Target, PmStates, RegAccess, NoEvents
<1>14. CASE OffLock("down")
  BY <1>14, TryIs, WorkerMoves DEF OffLock, Target, PmStates, RegAccess, NoEvents
<1>15. CASE DownLinkDown
  BY <1>15, TryIs DEF DownLinkDown, PmStates, NoEvents
<1>16. CASE DownDisable
  BY <1>16, TryIs DEF DownDisable, PmStates, NoEvents
<1>17. CASE DevObeys
  BY <1>17 DEF DevObeys, NoEvents
<1>18. CASE DevIdle
  BY <1>18 DEF DevIdle, NoEvents
<1>19. CASE DevWakes
  BY <1>19 DEF DevWakes, NoEvents
<1>20. CASE DevFails
  BY <1>20 DEF DevFails, NoEvents
<1>21. CASE UNCHANGED <<slp, rpmErr, pm, dev, rpm>>
  BY <1>21
<1> QED
  BY Movers, <1>1, <1>2, <1>3, <1>4, <1>5, <1>6, <1>7, <1>8, <1>9, <1>10, <1>11, <1>12,
     <1>13, <1>14, <1>15, <1>16, <1>17, <1>18, <1>19, <1>20, <1>21

\* Every step keeps somebody who is bound to ring for a transfer.
LEMMA AnnouncingStep ==
  ASSUME OffInv, Counts, Link, Suspended, Announcing,
         ~ErrInDown, ~Overtaken, "suspend" \notin Slow, [Next]_vars
  PROVE  Announcing'
<1> USE DEF OffInv, Types, StateTypes, PlaceTypes, FlagTypes, QueueTypes, NoEvents, Errors,
        BootFirst, Recovery, Link, Suspended, InBoot, Counts, CountTypes, Calm, Covered,
        Announcing, InSuspend, NoReader, Threads, RemovalIs, Closing, pmVars, ringVars,
        countVars, clientVars, eventVars, stVars, offVars, rpmVars, devVars
<1>h. evs' = evs => \A x : Had(x)' <=> Had(x)
  BY HadMoves
<1>1. CASE QueueCheck
  BY <1>1, <1>h DEF QueueCheck
<1>2. CASE QueueElement
  BY <1>2, <1>h DEF QueueElement
<1>3. CASE QueueCount
  <2>1. /\ UNCHANGED <<unseen, pm, ds, dev, tk, evs, rpm, slp>> /\ q = "gen"
        /\ ds = "M2" => wake'
        /\ InSuspend(pm) /\ ~rpmErr /\ rpm \in {"suspending", "suspended"} => wantUp'
    BY <1>3, <1>h DEF QueueCount, AskResume, WakeGet
  <2>2. pm \notin {"POR", "DISABLE"}
    BY <2>1
  <2>9. q' \in {"get", "db"}
    BY <1>3, <1>h DEF QueueCount
  <2> SUFFICES ASSUME Calm PROVE Covered' \/ pm' = "M0"
    BY <2>1, <2>9
  <2>3. pm \in {"M0", "M2", "M3_ENTER", "M3", "M3_EXIT"}
    BY <2>2 DEF PmStates
  <2>4. CASE pm = "M2"
    BY <2>1, <2>4
  <2>5. CASE InSuspend(pm)
    <3>1. ~rpmErr /\ (rpm \in {"suspending", "suspended"} \/ (pm = "M3" /\ slp = "resume"))
      BY <2>5
    <3> QED
      BY <2>1, <2>5, <3>1
  <2> QED
    BY <2>1, <2>3, <2>4, <2>5
<1>4. CASE QueueGet
  BY <1>4, <1>h DEF QueueGet, AskResume
<1>5. CASE QueueRing
  BY <1>5, <1>h DEF QueueRing
<1>6. CASE TaskStart
  BY <1>6, <1>h DEF TaskStart, RegAccess
<1>7. CASE TaskEnd
  BY <1>7, <1>h DEF TaskEnd
<1>8. CASE TaskEvent
  <2>1. /\ tk = "loop" /\ UNCHANGED <<unseen, dev, q, wake, wantUp, rpm, slp>>
        /\ \A x : Had(x)' \/ x = evs[1] <=> Had(x)
    BY <1>8, <1>h, EventKinds, HadMoves
  <2>2. CASE evs[1] = "M0" /\ NoReader /\ M0Transition
    BY <2>1, <2>2, TryIs DEF M0Transition, PmStates
  <2>3. CASE evs[1] = "M1" /\ NoReader /\ M1Transition
    BY <2>1, <2>3, TryIs DEF M1Transition, PmStates
  <2>4. CASE evs[1] = "M3" /\ NoReader /\ M3Transition
    BY <2>1, <2>4, TryIs DEF M3Transition, PmStates
  <2>5. CASE evs[1] = "SYS_ERR" /\ ErrorEvent
    BY <2>1, <2>5, TryIs DEF ErrorEvent, PmStates
  <2>6. CASE evs[1] = "AMSS" /\ MissionEvent
    BY <2>1, <2>6 DEF MissionEvent
  <2> QED
    BY <1>8, <1>h, EventKinds, <2>2, <2>3, <2>4, <2>5, <2>6
<1>9. CASE TaskRing
  BY <1>9, <1>h DEF TaskRing, WakeGet
<1>10. CASE IrqThread
  BY <1>10, <1>h, TryIs DEF IrqThread, Detect, PmStates, RegAccess
<1>11. CASE ReadyState("st")
  BY <1>11, <1>h, TryIs DEF ReadyState, At, GoTo, PmStates
<1>12. CASE StGetSync
  BY <1>12, <1>h DEF StGetSync, WakeGet, AskResume
<1>13. CASE StMission
  BY <1>13, <1>h DEF StMission, AskResume
<1>14. CASE StCreate
  BY <1>14, <1>h DEF StCreate, WakeGet
<1>15. CASE SuspendStart
  BY <1>15, <1>h DEF SuspendStart, NoEvents, Errors
<1>16. CASE SuspendBegin
  BY <1>16, <1>h DEF SuspendBegin, SuspendFails, WakeGet, NoEvents, Errors
<1>17. CASE SuspendAwake
  BY <1>17, <1>h DEF SuspendAwake, SuspendFails, NoEvents, Errors, Late
<1>18. CASE SuspendEnter
  BY <1>18, <1>h, TryIs DEF SuspendEnter, SuspendFails, PmStates, NoEvents, Errors
<1>19. CASE SuspendDone
  BY <1>19, <1>h DEF SuspendDone, SuspendFails, NoEvents, Errors, Late
<1>20. CASE ResumeStart
  BY <1>20, <1>h DEF ResumeStart, NoEvents, Errors
<1>21. CASE ResumeBegin
  BY <1>21, <1>h, TryIs DEF ResumeBegin, ResumeEnds, PmStates, NoEvents, Errors
<1>22. CASE ResumeDone
  BY <1>22, <1>h, TryIs DEF ResumeDone, ResumeEnds, Detect, PmStates, RegAccess, NoEvents, Errors
<1>23. CASE ErrStart
  BY <1>23, <1>h DEF ErrStart, AskResume
<1>24. CASE ReadyState("err")
  BY <1>24, <1>h, TryIs DEF ReadyState, At, GoTo, PmStates
<1>25. CASE OffLock("err")
  BY <1>25, <1>h, TryIs, WorkerMoves DEF OffLock, Target, PmStates, RegAccess
<1>26. CASE OffChannel("err")
  BY <1>26, <1>h, WorkerMoves DEF OffChannel, Put
<1>27. CASE OffRings("err")
  BY <1>27, <1>h, WorkerMoves DEF OffRings
<1>28. CASE OffLock("down")
  BY <1>28, <1>h, TryIs, WorkerMoves DEF OffLock, Target, PmStates, RegAccess
<1>29. CASE OffChannel("down")
  BY <1>29, <1>h, WorkerMoves DEF OffChannel, Put
<1>30. CASE OffRings("down")
  BY <1>30, <1>h, WorkerMoves DEF OffRings
<1>31. CASE DownStart
  BY <1>31, <1>h DEF DownStart, AskResume
<1>32. CASE DownLinkDown
  BY <1>32, <1>h, TryIs DEF DownLinkDown, PmStates
<1>33. CASE DownDisable
  BY <1>33, <1>h, TryIs DEF DownDisable, PmStates
<1>34. CASE DevObeys
  <2>1. /\ UNCHANGED <<unseen, pm, q, tk, wantUp, rpm, slp>>
        /\ ctl = "RESET" \/ (wake' = wake /\ dev # "SYS_ERR")
        /\ Had("M0") => Had("M0")'
    BY <1>34, <1>h, ModemHad DEF DevObeys
  <2>2. ctl = "RESET" => NoEvents(pm)
    OBVIOUS
  <2> QED
    BY <2>1, <2>2
<1>35. CASE DevIdle
  <2>1. /\ UNCHANGED <<unseen, pm, q, tk, wake, wantUp, rpm, slp>>
        /\ dev = "M0" /\ evs' = Append(evs, "M1")
    BY <1>35, <1>h DEF DevIdle
  <2>2. Had("M0") => Had("M0")'
    BY <2>1, HadMoves DEF Events
  <2> QED
    BY <2>1, <2>2
<1>36. CASE DevWakes
  <2>1. /\ UNCHANGED <<unseen, pm, q, tk, wantUp, rpm, slp>>
        /\ \/ dev \in {"M1", "M2"} /\ evs' = Append(evs, "M0")
           \/ dev \notin {"M1", "M2"} /\ UNCHANGED <<dev, evs>>
    BY <1>36, <1>h DEF DevWakes
  <2>2. (evs' = Append(evs, "M0") => Had("M0")') /\ (Had("M0") => Had("M0")')
    BY <2>1, HadMoves DEF Events
  <2> QED
    BY <2>1, <2>2
<1>37. CASE DevFails
  <2>1. dev' = "SYS_ERR"
    BY <1>37, <1>h DEF DevFails
  <2> QED
    BY <2>1
<1>38. CASE UNCHANGED <<unseen, pm, dev, q, tk, wake, evs, wantUp, rpm, slp>>
  BY <1>38, <1>h
<1> QED
  BY Movers, <1>1, <1>2, <1>3, <1>4, <1>5, <1>6, <1>7, <1>8, <1>9, <1>10, <1>11, <1>12,
     <1>13, <1>14, <1>15, <1>16, <1>17, <1>18, <1>19, <1>20, <1>21, <1>22, <1>23, <1>24,
     <1>25, <1>26, <1>27, <1>28, <1>29, <1>30, <1>31, <1>32, <1>33, <1>34, <1>35, <1>36,
     <1>37, <1>38

\* The counts, the modem and the suspend it belongs to, for a modem that does not
\* fail during a removal and a client that is not overtaken.
LEMMA KeptInvInit == Init => KeptInv
<1> SUFFICES ASSUME Init PROVE KeptInv
  OBVIOUS
<1>1. OffInv
  BY OffInvInit
<1>2. Counts
  BY DEF Init, Counts
<1>3. Link
  BY DEF Init, Link, M3Last, M1Back, Had
<1>4. Suspended /\ Announcing
  BY DEF Init, Suspended, Announcing
<1> QED
  BY <1>1, <1>2, <1>3, <1>4 DEF KeptInv

\* Every step keeps the whole of it.
LEMMA KeptInvStep ==
  ASSUME KeptInv, ~ErrInDown, ~Overtaken, "suspend" \notin Slow, [Next]_vars
  PROVE  KeptInv'
BY OffInvStep, CountsStep, LinkStep, SuspendedStep, AnnouncingStep DEF KeptInv

\* It says who keeps a transfer and what a transfer keeps.
LEMMA KeptIsKept == KeptInv => TransfersKept
<1> SUFFICES ASSUME KeptInv PROVE TransfersKept
  OBVIOUS
<1>1. IdleRefs
  BY DEF KeptInv, Counts, IdleRefs, OffInv, Types, CountTypes
<1>2. ASSUME unseen > 0, ch = "enabled", q \in {"idle", "checked"},
             pm \notin Errors, dev # "SYS_ERR"
      PROVE  \/ tk = "ring"
             \/ pm = "M2" /\ (wake \/ \E i \in DOMAIN evs : evs[i] = "M0")
             \/ pm = "M3_EXIT" \/ rpm = "resuming"
             \/ InSuspend(pm) /\ wantUp
  <2>1. Calm
    BY <1>2 DEF KeptInv, OffInv, Closing, Calm, NoEvents
  <2>2. Covered
    BY <1>2, <2>1 DEF KeptInv, Announcing
  <2>3. slp = "resume" => rpm = "resuming"
    BY DEF KeptInv, OffInv, Threads
  <2>4. Had("M0") => \E i \in DOMAIN evs : evs[i] = "M0"
    BY DEF KeptInv, OffInv, Types, QueueTypes, Had
  <2> QED
    BY <2>2, <2>3, <2>4 DEF Covered
<1> QED
  BY <1>1, <1>2 DEF TransfersKept, Announced

\* A transfer that waits without a doorbell has somebody who is bound to ring for it,
\* and a client with nothing in the ring holds no count and no reference, if the
\* suspend's waits end only with the modem's answer or its failure, nobody
\* overtakes mhi_queue_buf before it has counted, and the modem does not fail
\* during a removal.
THEOREM TransfersAreKept ==
  ASSUME ~Overtaken, ~ErrInDown, "suspend" \notin Slow
  PROVE  Spec => []TransfersKept
<1>1. KeptInv /\ [Next]_vars => KeptInv'
  BY KeptInvStep
<1> QED
  BY KeptInvInit, <1>1, KeptIsKept, PTL DEF Spec

-----------------------------------------------------------------------------
(* GobiQmi: the types.                                                      *)

Gets == {"get", "get2"}
Releases == {"rel", "force"}
CallKinds == Gets \union Releases \union {"none", "write", "read", "poll"}
Places ==
  {"idle", "w_add", "w_submit", "w_wait", "w_pop", "r_look", "r_wait", "r_remove", "poll",
   "alloc", "clean", "c_up", "c_more", "c_kill", "c_next", "again", "d_loop", "d_wait", "d_done"}
Messages == [tid : 0..MaxTid, of : 0..MaxWrites, id : Ids \union {NoId}]
Entries == [who : Notifiers, tid : 0..MaxTid, step : {"run", "arm"}]
Memories == [list : Seq(Messages), notify : Seq(Entries), urbs : Seq(Urbs)]
Targets == Clients \union {NoId}
Tasks ==
  [pc : Places, op : CallKinds, c : Targets, tid : 0..MaxTid, u : 0..MaxWrites, got : Messages,
   arg : Targets, nxt : Targets, fresh : BOOLEAN, sig : BOOLEAN]
Requests ==
  [op : CallKinds, c : Targets, tid : 0..MaxTid, of : 0..MaxWrites, arg : Targets]

\* GobiTypeOK by its parts, with all fields.
ClientTypes == clist \in Seq(Clients) /\ mem \in [Clients -> Memories]
TaskTypes == task \in [Procs -> Tasks]
HeldTypes == held \in [Notifiers -> Entries \union {NoEntry}]
UrbTypes == urb \in [Urbs -> {"none", "alloc", "flying", "done", "freed"}] /\ ntid \in 0..MaxTid
FileTypes == file \in [Files -> [open : BOOLEAN, id : Ids \union {NoId}]]
DeviceTypes ==
  /\ device \in {"live", "removing", "invalid"}
  /\ reading \in {"armed", "read", "notify", "back", "dead"}
CbTypes == cb \in [at : Targets, to : SUBSET Targets, m : Messages]
WireTypes == wire \subseteq Requests /\ used \subseteq Ids /\ inds \in 0..MaxInds
GobiTypes ==
  /\ ClientTypes /\ TaskTypes /\ HeldTypes /\ UrbTypes /\ FileTypes /\ DeviceTypes
  /\ CbTypes /\ WireTypes

-----------------------------------------------------------------------------
(* Lists.                                                                   *)

\* A set of numbers that is not empty has a least element.
LEMMA MinOf ==
  ASSUME NEW S \in SUBSET Nat, S # {}
  PROVE  Min(S) \in S /\ \A y \in S : Min(S) <= y
<1>1. PICK x \in S : \A y \in S : <<y, x>> \notin OpToRel(<, Nat)
  BY NatLessThanWellFounded, WFMin
<1>2. \A y \in S : ~(y < x)
  BY <1>1, Zenon DEF OpToRel
<1>3. \E z \in S : \A y \in S : z <= y
  BY <1>2
<1> QED
  BY <1>3 DEF Min

\* Where a client is in the list of clients.
LEMMA PositionOf ==
  ASSUME NEW c, clist \in Seq(Clients)
  PROVE  /\ Len(clist) \in Nat
         /\ Present(c) => /\ Position(c) \in 1..Len(clist) /\ clist[Position(c)] = c
                          /\ \A i \in 1..Len(clist) : clist[i] = c => Position(c) <= i
         /\ ~Present(c) => Position(c) = 0
<1> DEFINE I == {i \in 1..Len(clist) : clist[i] = c}
<1>1. Position(c) = IF I # {} THEN Min(I) ELSE 0
  BY DEF Position, SelectInSeq
<1>2. Present(c) <=> I # {}
  BY DEF Present, Contains
<1>3. I \in SUBSET Nat
  OBVIOUS
<1>4. I # {} => Min(I) \in I /\ \A y \in I : Min(I) <= y
  BY <1>3, MinOf
<1> QED
  BY <1>1, <1>2, <1>4

\* The first message that a reader takes.
LEMMA FirstReadOf ==
  ASSUME NEW c, NEW S, mem[c].list \in Seq(S), NEW tid
  PROVE  /\ FirstRead(c, tid) = 0 => \A i \in 1..Len(mem[c].list) : ~Matches(tid, mem[c].list[i].tid)
         /\ FirstRead(c, tid) # 0 => /\ FirstRead(c, tid) \in 1..Len(mem[c].list)
                                     /\ Matches(tid, mem[c].list[FirstRead(c, tid)].tid)
         /\ FirstRead(c, tid) \in Nat
<1> DEFINE I == {i \in 1..Len(mem[c].list) : Matches(tid, mem[c].list[i].tid)}
<1>1. FirstRead(c, tid) = IF I # {} THEN Min(I) ELSE 0
  BY DEF FirstRead, SelectInSeq
<1>2. I \in SUBSET Nat
  OBVIOUS
<1>3. I # {} => Min(I) \in I
  BY <1>2, MinOf
<1>4. I # {} => /\ FirstRead(c, tid) \in 1..Len(mem[c].list)
                /\ Matches(tid, mem[c].list[FirstRead(c, tid)].tid)
  BY <1>1, <1>3
<1>5. I = {} => FirstRead(c, tid) = 0 /\ \A i \in 1..Len(mem[c].list) : ~Matches(tid, mem[c].list[i].tid)
  BY <1>1
<1> HIDE DEF I
<1> QED
  BY <1>4, <1>5

\* The first that a message is told to.
LEMMA FirstWaiterOf ==
  ASSUME NEW c, NEW S, mem[c].notify \in Seq(S), NEW tid
  PROVE  /\ FirstWaiter(c, tid) = 0 =>
              \A i \in 1..Len(mem[c].notify) : tid # 0 /\ ~Matches(mem[c].notify[i].tid, tid)
         /\ FirstWaiter(c, tid) # 0 =>
              /\ FirstWaiter(c, tid) \in 1..Len(mem[c].notify)
              /\ tid = 0 \/ Matches(mem[c].notify[FirstWaiter(c, tid)].tid, tid)
         /\ FirstWaiter(c, tid) \in Nat
<1> DEFINE I == {i \in 1..Len(mem[c].notify) : tid = 0 \/ Matches(mem[c].notify[i].tid, tid)}
<1>1. FirstWaiter(c, tid) = IF I # {} THEN Min(I) ELSE 0
  BY DEF FirstWaiter, SelectInSeq
<1>2. I \in SUBSET Nat
  OBVIOUS
<1>3. I # {} => Min(I) \in I
  BY <1>2, MinOf
<1>4. I # {} => /\ FirstWaiter(c, tid) \in 1..Len(mem[c].notify)
                /\ tid = 0 \/ Matches(mem[c].notify[FirstWaiter(c, tid)].tid, tid)
  BY <1>1, <1>3
<1>5. I = {} => /\ FirstWaiter(c, tid) = 0
                /\ \A i \in 1..Len(mem[c].notify) : tid # 0 /\ ~Matches(mem[c].notify[i].tid, tid)
  BY <1>1
<1> HIDE DEF I
<1> QED
  BY <1>4, <1>5

\* Concatenation puts the elements of the second list behind those of the first.
LEMMA ConcatOf ==
  ASSUME NEW S, NEW p \in Seq(S), NEW h \in Seq(S)
  PROVE  /\ p \o h \in Seq(S) /\ Len(p \o h) = Len(p) + Len(h)
         /\ Len(p) \in Nat /\ Len(h) \in Nat
         /\ \A i \in 1..Len(p) : (p \o h)[i] = p[i]
         /\ \A i \in (Len(p) + 1)..(Len(p) + Len(h)) : (p \o h)[i] = h[i - Len(p)]
  OBVIOUS

\* Append puts one element behind the others.
LEMMA AppendOf ==
  ASSUME NEW S, NEW h \in Seq(S), NEW x \in S
  PROVE  /\ Append(h, x) \in Seq(S) /\ Len(Append(h, x)) = Len(h) + 1 /\ Len(h) \in Nat
         /\ Append(h, x)[Len(h) + 1] = x
         /\ \A i \in 1..Len(h) : Append(h, x)[i] = h[i]
  OBVIOUS

\* Head is the first element of a nonempty list, and Tail the others, moved by one.
LEMMA TailOf ==
  ASSUME NEW S, NEW h \in Seq(S), h # <<>>
  PROVE  /\ Head(h) \in S /\ Head(h) = h[1] /\ Tail(h) \in Seq(S)
         /\ Len(Tail(h)) = Len(h) - 1 /\ Len(h) \in Nat \ {0}
         /\ \A i \in 1..(Len(h) - 1) : Tail(h)[i] = h[i + 1]
  OBVIOUS

\* RemoveAt keeps the other elements in their order.
LEMMA RemoveOf ==
  ASSUME NEW S, NEW h \in Seq(S), NEW k \in 1..Len(h)
  PROVE  /\ RemoveAt(h, k) \in Seq(S) /\ Len(RemoveAt(h, k)) = Len(h) - 1 /\ Len(h) \in Nat
         /\ \A i \in 1..(Len(h) - 1) : RemoveAt(h, k)[i] = IF i < k THEN h[i] ELSE h[i + 1]
<1> DEFINE a == SubSeq(h, 1, k - 1)
           b == SubSeq(h, k + 1, Len(h))
<1>1. k \in 1..Len(h) /\ Len(h) \in Nat /\ DOMAIN h = 1..Len(h) /\ \A i \in 1..Len(h) : h[i] \in S
  OBVIOUS
<1>2. a \in Seq(S) /\ Len(a) = k - 1 /\ \A i \in 1..(k - 1) : a[i] = h[i]
  BY <1>1
<1>3. b \in Seq(S) /\ Len(b) = Len(h) - k /\ \A i \in 1..(Len(h) - k) : b[i] = h[k + i]
  <2> DEFINE m == k + 1
             n == Len(h)
  <2>1. m \in Int /\ n \in Int /\ \A i \in m..n : h[i] \in S
    BY <1>1
  <2>0. k \in Int /\ k <= n
    BY <1>1
  <2> HIDE DEF n
  <2>2. /\ n - m + 1 = n - k /\ (m <= n \/ n - k = 0)
        /\ \A i \in 1..(n - k) : i \in 1..(n - m + 1) /\ m + i - 1 = k + i
    BY <2>0, <2>1
  <2> HIDE DEF m
  <2>3. /\ SubSeq(h, m, n) \in Seq(S) /\ Len(SubSeq(h, m, n)) = IF m <= n THEN n - m + 1 ELSE 0
        /\ \A i \in 1..(n - m + 1) : SubSeq(h, m, n)[i] = h[m + i - 1]
    BY <2>1, SubSeqProperties
  <2>4. b = SubSeq(h, m, n)
    BY DEF m, n, b
  <2> HIDE DEF b
  <2> QED
    BY <2>2, <2>3, <2>4, Zenon DEF n
<1>4. RemoveAt(h, k) = a \o b
  BY DEF RemoveAt
<1> HIDE DEF a, b
<1>5. /\ a \o b \in Seq(S) /\ Len(a \o b) = Len(a) + Len(b)
      /\ \A i \in 1..Len(a) : (a \o b)[i] = a[i]
      /\ \A i \in (Len(a) + 1)..(Len(a) + Len(b)) : (a \o b)[i] = b[i - Len(a)]
  BY <1>2, <1>3, ConcatOf, ZenonT(40)
<1>6. \A i \in 1..(Len(h) - 1) : (a \o b)[i] = IF i < k THEN h[i] ELSE h[i + 1]
  <2> TAKE i \in 1..(Len(h) - 1)
  <2>1. CASE i < k
    BY <1>1, <1>2, <1>5, <2>1
  <2>2. CASE ~(i < k)
    <3>1. i \in (Len(a) + 1)..(Len(a) + Len(b)) /\ i - (k - 1) \in 1..(Len(h) - k) /\ Len(a) = k - 1
      BY <1>1, <1>2, <1>3, <2>2
    <3>2. (a \o b)[i] = b[i - (k - 1)] /\ b[i - (k - 1)] = h[k + (i - (k - 1))]
      BY <1>3, <1>5, <3>1
    <3>3. k + (i - (k - 1)) = i + 1
      BY <1>1
    <3> QED
      BY <2>2, <3>2, <3>3
  <2> QED
    BY <2>1, <2>2
<1>7. Len(a \o b) = Len(h) - 1
  BY <1>1, <1>2, <1>3, <1>5
<1> QED
  BY <1>1, <1>4, <1>5, <1>6, <1>7

\* What RemoveAt leaves are the elements at the other places.
LEMMA RemovedOf ==
  ASSUME NEW S, NEW h \in Seq(S), NEW k \in 1..Len(h)
  PROVE  /\ \A i \in 1..Len(RemoveAt(h, k)) : \E j \in 1..Len(h) : j # k /\ RemoveAt(h, k)[i] = h[j]
         /\ \A j \in 1..Len(h) : j # k => \E i \in 1..Len(RemoveAt(h, k)) : RemoveAt(h, k)[i] = h[j]
<1> DEFINE r == RemoveAt(h, k)
<1>1. /\ Len(r) = Len(h) - 1 /\ Len(h) \in Nat
      /\ \A i \in 1..(Len(h) - 1) : r[i] = IF i < k THEN h[i] ELSE h[i + 1]
  BY RemoveOf
<1> HIDE DEF r
<1>2. \A i \in 1..Len(r) : \E j \in 1..Len(h) : j # k /\ r[i] = h[j]
  <2> TAKE i \in 1..Len(r)
  <2>1. CASE i < k
    BY <1>1, <2>1
  <2>2. CASE ~(i < k)
    <3>1. i + 1 \in 1..Len(h) /\ i + 1 # k /\ r[i] = h[i + 1]
      BY <1>1, <2>2
    <3> QED
      BY <3>1
  <2> QED
    BY <2>1, <2>2
<1>3. \A j \in 1..Len(h) : j # k => \E i \in 1..Len(r) : r[i] = h[j]
  <2> TAKE j \in 1..Len(h)
  <2> HAVE j # k
  <2>1. CASE j < k
    BY <1>1, <2>1
  <2>2. CASE ~(j < k)
    <3>1. j - 1 \in 1..Len(r) /\ ~(j - 1 < k) /\ j - 1 + 1 = j
      BY <1>1, <2>2
    <3>2. r[j - 1] = h[j - 1 + 1]
      BY <1>1, <3>1
    <3> QED
      BY <3>1, <3>2
  <2> QED
    BY <2>1, <2>2
<1> QED
  BY <1>2, <1>3 DEF r

\* The list of those who wait when p has given up.
WithoutEntry(h, p) == RemoveFirstMatch(h, LAMBDA e : e.who = p)

\* The entries that are not of p are kept, and one of p is taken, when there is one.
LEMMA FirstMatchOf ==
  ASSUME NEW S, NEW h \in Seq(S), NEW p
  PROVE  \/ (\A i \in 1..Len(h) : h[i].who # p) /\ WithoutEntry(h, p) = h
         \/ \E k \in 1..Len(h) : h[k].who = p /\ WithoutEntry(h, p) = RemoveAt(h, k)
<1> DEFINE I == {i \in 1..Len(h) : h[i].who = p}
<1>1. WithoutEntry(h, p)
        = IF \E i \in 1..Len(h) : h[i].who = p THEN RemoveAt(h, IF I # {} THEN Min(I) ELSE 0) ELSE h
  BY DEF WithoutEntry, RemoveFirstMatch, SelectInSeq
<1>2. CASE I = {}
  BY <1>1, <1>2
<1>3. CASE I # {}
  <2>1. I \in SUBSET Nat
    OBVIOUS
  <2>2. Min(I) \in I
    BY <1>3, <2>1, MinOf
  <2> QED
    BY <1>1, <1>3, <2>2
<1> QED
  BY <1>2, <1>3

\* Numbers that count those before them are all numbers below the size of the set.
LEMMA RankOf ==
  ASSUME NEW n \in Nat, NEW K \in SUBSET (1..n)
  PROVE  /\ IsFiniteSet(K) /\ Cardinality(K) \in Nat
         /\ \A k \in 1..Cardinality(K) : \E i \in K : Cardinality({j \in K : j < i}) = k - 1
<1> DEFINE B(i) == {j \in K : j < i}
           R == [i \in K |-> Cardinality(B(i))]
           V == 0..(Cardinality(K) - 1)
           W == {R[i] : i \in K}
<1>1. IsFiniteSet(K) /\ Cardinality(K) \in Nat
  <2>1. IsFiniteSet(1..n)
    BY FS_Interval
  <2>2. IsFiniteSet(K)
    BY <2>1, FS_Subset
  <2> QED
    BY <2>2, FS_CardinalityType
<1>2. \A i \in K : IsFiniteSet(B(i)) /\ Cardinality(B(i)) \in Nat /\ Cardinality(B(i)) < Cardinality(K)
  <2> TAKE i \in K
  <2>1. B(i) \subseteq K /\ B(i) # K
    OBVIOUS
  <2>2. IsFiniteSet(B(i)) /\ Cardinality(B(i)) <= Cardinality(K)
    BY <1>1, <2>1, FS_Subset
  <2>3. Cardinality(B(i)) # Cardinality(K)
    BY <1>1, <2>1, FS_Subset
  <2>4. Cardinality(B(i)) \in Nat
    BY <2>2, FS_CardinalityType
  <2> QED
    BY <1>1, <2>2, <2>3, <2>4
<1>3. \A i, j \in K : i < j => Cardinality(B(i)) < Cardinality(B(j))
  <2> TAKE i, j \in K
  <2> HAVE i < j
  <2>1. B(i) \subseteq B(j) /\ i \in B(j) /\ i \notin B(i)
    <3>1. \A x \in K : x < i => x < j
      OBVIOUS
    <3>2. ~(i < i)
      OBVIOUS
    <3> QED
      BY <3>1, <3>2
  <2>2. IsFiniteSet(B(j)) /\ Cardinality(B(i)) \in Nat /\ Cardinality(B(j)) \in Nat
    BY <1>2
  <2> HIDE DEF B
  <2>3. Cardinality(B(i)) <= Cardinality(B(j)) /\ (Cardinality(B(i)) = Cardinality(B(j)) => B(i) = B(j))
    BY <2>1, <2>2, FS_Subset
  <2> QED
    BY <2>1, <2>2, <2>3
<1> HIDE DEF B
<1>4. R \in [K -> V] /\ \A i, j \in K : R[i] = R[j] => i = j
  BY <1>1, <1>2, <1>3
<1>5. W \subseteq V /\ IsFiniteSet(V) /\ Cardinality(V) = Cardinality(K)
  <2>1. W \subseteq V
    BY <1>4
  <2>2. IsFiniteSet(V) /\ Cardinality(V) = IF 0 > Cardinality(K) - 1 THEN 0 ELSE (Cardinality(K) - 1) - 0 + 1
    BY <1>1, FS_Interval, SMTT(30)
  <2> HIDE DEF V, W
  <2> QED
    BY <1>1, <2>1, <2>2
<1>6. Cardinality(W) = Cardinality(K)
  <2>1. ExistsBijection(K, W)
    <3>1. R \in Bijection(K, W)
      BY <1>4 DEF Bijection, Injection, Surjection, IsInjective
    <3> HIDE DEF R, W
    <3> QED
      BY <3>1 DEF ExistsBijection
  <2> HIDE DEF W
  <2> QED
    BY <1>1, <2>1, FS_Bijection
<1> HIDE DEF W
<1>7. W = V
  BY <1>5, <1>6, FS_Subset
<1>8. \A k \in 1..Cardinality(K) : k - 1 \in V
  BY <1>1
<1> QED
  BY <1>1, <1>7, <1>8 DEF W, B

\* The purged list has messages of the list, and none with the next id.
LEMMA PurgedOf ==
  ASSUME NEW S, NEW h \in Seq(S)
  PROVE  /\ Purged(h) \in Seq(S)
         /\ \A k \in 1..Len(Purged(h)) : \E i \in 1..Len(h) : Purged(h)[k] = h[i] /\ h[i].tid # NextTid
<1> DEFINE K == {i \in 1..Len(h) : h[i].tid # NextTid}
           C(k) == CHOOSE i \in K : Cardinality({j \in K : j < i}) = k - 1
<1>1. Len(h) \in Nat /\ \A i \in 1..Len(h) : h[i] \in S
  OBVIOUS
<1>2. K \in SUBSET (1..Len(h)) /\ \A i \in K : h[i].tid # NextTid
  OBVIOUS
<1>3. Purged(h) = [k \in 1..Cardinality(K) |-> h[C(k)]]
  BY DEF Purged
<1> HIDE DEF K
<1>4. Cardinality(K) \in Nat /\ \A k \in 1..Cardinality(K) : C(k) \in K
  BY <1>1, <1>2, RankOf
<1> HIDE DEF C
<1>5. \A k \in 1..Cardinality(K) : h[C(k)] \in S
  BY <1>1, <1>2, <1>4
<1>6. Purged(h) \in Seq(S) /\ Len(Purged(h)) = Cardinality(K)
  BY <1>3, <1>4, <1>5
<1> QED
  BY <1>2, <1>3, <1>4, <1>6

-----------------------------------------------------------------------------
(* The walk of ReadCallback.                                                *)

\* The places of clients C in the list from k on, and those that are notified of tid.
Hits(k, C) == {i \in k..Len(clist) : clist[i] \in C}
Stops(k, C, tid) == {i \in Hits(k, C) : FirstWaiter(clist[i], tid) > 0}
\* Where the walk ends, the clients that have the message then, and the one notified.
End(k, C, tid) == IF Stops(k, C, tid) = {} THEN Len(clist) ELSE Min(Stops(k, C, tid))
Seen(k, C, tid) == {clist[i] : i \in {j \in Hits(k, C) : j <= End(k, C, tid)}}
Stop(k, C, tid) == IF Stops(k, C, tid) = {} THEN NoId ELSE clist[End(k, C, tid)]

\* The clients that have the message are clients of C; of them, only the one where
\* the walk ends has somebody to notify.
LEMMA SeenOf ==
  ASSUME ClientTypes, NEW k \in Nat \ {0}, NEW C, NEW tid
  PROVE  /\ Seen(k, C, tid) \in SUBSET Clients
         /\ \A c \in Seen(k, C, tid) : c \in C /\ \E i \in k..Len(clist) : clist[i] = c
         /\ Stop(k, C, tid) # NoId =>
              /\ Stop(k, C, tid) \in Seen(k, C, tid)
              /\ FirstWaiter(Stop(k, C, tid), tid) # 0
         /\ \A c \in Seen(k, C, tid) : c # Stop(k, C, tid) => FirstWaiter(c, tid) = 0
         /\ Stop(k, C, tid) = NoId <=> Stops(k, C, tid) = {}
         /\ Stop(k, C, tid) = NoId => \A i \in k..Len(clist) : clist[i] \in C => clist[i] \in Seen(k, C, tid)
<1> DEFINE S == Stops(k, C, tid)
           H == Hits(k, C)
           e == End(k, C, tid)
<1>1. Len(clist) \in Nat /\ \A i \in 1..Len(clist) : clist[i] \in Clients
  BY DEF ClientTypes
<1>2. /\ H \in SUBSET (1..Len(clist)) /\ H \in SUBSET (k..Len(clist))
      /\ \A i \in H : clist[i] \in C /\ clist[i] \in Clients
      /\ \A i \in k..Len(clist) : clist[i] \in C => i \in H
  BY <1>1 DEF Hits
<1>3. S \in SUBSET H /\ \A i \in S : FirstWaiter(clist[i], tid) > 0
  BY DEF Stops
<1>4. \A i \in H : i \notin S => ~(FirstWaiter(clist[i], tid) > 0)
  BY DEF Stops
<1>5. \A i \in H : FirstWaiter(clist[i], tid) \in Nat
  <2> TAKE i \in H
  <2>1. mem[clist[i]].notify \in Seq(Entries)
    BY <1>2 DEF ClientTypes, Memories
  <2> QED
    BY <2>1, FirstWaiterOf
<1>6. S # {} => e \in S /\ \A i \in S : e <= i
  <2>1. S \in SUBSET Nat
    BY <1>1, <1>2, <1>3
  <2> QED
    BY <2>1, MinOf DEF End
<1>7. S = {} => e = Len(clist)
  BY DEF End
<1>8. Seen(k, C, tid) = {clist[i] : i \in {j \in H : j <= e}}
  BY DEF Seen
<1>9. Stop(k, C, tid) = IF S = {} THEN NoId ELSE clist[e]
  BY DEF Stop
<1>10. NoId \notin Clients
  BY GobiAssumption DEF Clients
<1> HIDE DEF S, H, e
<1>11. S # {} => clist[e] \in Seen(k, C, tid) /\ clist[e] # NoId /\ FirstWaiter(clist[e], tid) # 0
  <2> SUFFICES ASSUME S # {} PROVE clist[e] \in Seen(k, C, tid) /\ clist[e] # NoId /\ FirstWaiter(clist[e], tid) # 0
    OBVIOUS
  <2>4. e \in S
    BY <1>6
  <2>5. e \in H
    BY <1>3, <2>4
  <2>1. e \in S /\ e \in H /\ e \in Nat
    BY <1>1, <1>2, <2>4, <2>5
  <2>2. clist[e] \in Clients /\ FirstWaiter(clist[e], tid) > 0
    BY <1>2, <1>3, <2>1
  <2>3. e \in {j \in H : j <= e}
    BY <2>1
  <2> QED
    BY <1>5, <1>8, <1>10, <2>1, <2>2, <2>3
<1>12. \A i \in H : i <= e /\ clist[i] # Stop(k, C, tid) => FirstWaiter(clist[i], tid) = 0
  <2> TAKE i \in H
  <2> HAVE i <= e /\ clist[i] # Stop(k, C, tid)
  <2>1. i \notin S
    <3> SUFFICES ASSUME i \in S PROVE FALSE
      OBVIOUS
    <3>1. e \in S /\ e <= i /\ S # {}
      BY <1>6
    <3>2. i \in Nat /\ e \in Nat
      BY <1>1, <1>2, <1>3, <3>1
    <3>3. i = e
      BY <3>1, <3>2
    <3> QED
      BY <1>9, <3>1, <3>3
  <2> QED
    BY <1>4, <1>5, <2>1
<1>13. Stop(k, C, tid) = NoId <=> S = {}
  BY <1>9, <1>11
<1>14. S = {} => \A i \in H : i <= e
  BY <1>1, <1>2, <1>7
<1>15. \A c \in Seen(k, C, tid) : \E i \in H : c = clist[i] /\ i <= e
  BY <1>8
<1>16. Stop(k, C, tid) = NoId => \A i \in k..Len(clist) : clist[i] \in C => clist[i] \in Seen(k, C, tid)
  BY <1>2, <1>8, <1>13, <1>14
<1> QED
  BY <1>2, <1>9, <1>11, <1>12, <1>13, <1>15, <1>16 DEF S

\* What the walk changes.
Served(passed, at, C, m, served) ==
  /\ \A c \in Clients \ passed : mem'[c] = mem[c]
  /\ \A c \in passed :
       /\ mem'[c].list = Append(mem[c].list, m) /\ mem'[c].urbs = mem[c].urbs
       /\ c # at => mem'[c].notify = mem[c].notify
  /\ at # NoId =>
       /\ mem'[at].notify = RemoveAt(mem[at].notify, FirstWaiter(at, m.tid))
       /\ held' = [held EXCEPT ![ReadCb] = mem[at].notify[FirstWaiter(at, m.tid)]]
       /\ cb' = [at |-> at, to |-> C, m |-> m] /\ reading' = "notify"
  /\ at = NoId => /\ held' = [held EXCEPT ![ReadCb] = NoEntry]
                  /\ cb' = Gone /\ reading' = "armed"
  /\ task' = PollersWoken((passed \ {at}) \union served)
  /\ mem' \in [Clients -> Memories]

\* A walk changes what Served says, the places as Seen and Stop have them.
LEMMA ServeOf ==
  ASSUME GobiTypes, NEW k \in Nat \ {0}, NEW C, NEW m \in Messages, NEW served,
         ServeFrom(k, C, m, served)
  PROVE  Served(Seen(k, C, m.tid), Stop(k, C, m.tid), C, m, served)
<1> DEFINE passed == Seen(k, C, m.tid)
           at == Stop(k, C, m.tid)
           w == FirstWaiter(at, m.tid)
<1>1. /\ mem' = [c \in Clients |->
                   IF c \notin passed THEN mem[c]
                   ELSE [mem[c] EXCEPT !.list = Append(@, m),
                                       !.notify = IF c = at THEN RemoveAt(@, FirstWaiter(c, m.tid)) ELSE @]]
      /\ held' = [held EXCEPT ![ReadCb] =
                    IF Stops(k, C, m.tid) = {} THEN NoEntry ELSE mem[at].notify[w]]
      /\ cb' = IF Stops(k, C, m.tid) = {} THEN Gone ELSE [at |-> at, to |-> C, m |-> m]
      /\ reading' = IF Stops(k, C, m.tid) = {} THEN "armed" ELSE "notify"
      /\ task' = PollersWoken((passed \ {at}) \union served)
  BY DEF ServeFrom, Seen, Stop, End, Stops, Hits
<1>2. /\ passed \in SUBSET Clients /\ (at # NoId => at \in passed /\ w # 0)
      /\ at = NoId <=> Stops(k, C, m.tid) = {}
  <2>1. ClientTypes
    BY DEF GobiTypes
  <2> QED
    BY <2>1, SeenOf
<1> HIDE DEF passed, at
<1>3. \A c \in Clients : mem[c] \in Memories /\ mem[c].list \in Seq(Messages) /\ mem[c].notify \in Seq(Entries)
  BY DEF GobiTypes, ClientTypes, Memories
<1>4. \A c \in passed : c = at => w \in 1..Len(mem[c].notify)
  <2> SUFFICES ASSUME at \in passed PROVE w \in 1..Len(mem[at].notify)
    OBVIOUS
  <2>1. at # NoId /\ mem[at].notify \in Seq(Entries)
    BY <1>2, <1>3, GobiAssumption DEF Clients
  <2> QED
    BY <1>2, <2>1, FirstWaiterOf
<1>5. \A c \in passed : /\ Append(mem[c].list, m) \in Seq(Messages)
                      /\ c = at => RemoveAt(mem[c].notify, w) \in Seq(Entries)
  BY <1>2, <1>3, <1>4, RemoveOf, AppendOf
<1> HIDE DEF w
<1>6. \A c \in passed :
        /\ mem'[c] = [mem[c] EXCEPT !.list = Append(mem[c].list, m),
                                    !.notify = IF c = at THEN RemoveAt(mem[c].notify, w) ELSE mem[c].notify]
        /\ mem'[c] \in Memories
  <2> TAKE c \in passed
  <2>1. c \in Clients /\ mem[c] \in Memories
    BY <1>2, <1>3
  <2>2. mem'[c] = [mem[c] EXCEPT !.list = Append(mem[c].list, m),
                                 !.notify = IF c = at THEN RemoveAt(mem[c].notify, w) ELSE mem[c].notify]
    BY <1>1, <2>1 DEF w
  <2>3. /\ Append(mem[c].list, m) \in Seq(Messages)
        /\ (IF c = at THEN RemoveAt(mem[c].notify, w) ELSE mem[c].notify) \in Seq(Entries)
    BY <1>3, <1>5, <2>1
  <2> QED
    BY <2>1, <2>2, <2>3 DEF Memories
<1>7. \A c \in passed :
        /\ mem'[c].list = Append(mem[c].list, m) /\ mem'[c].urbs = mem[c].urbs
        /\ mem'[c].notify = IF c = at THEN RemoveAt(mem[c].notify, w) ELSE mem[c].notify
  BY <1>2, <1>3, <1>6, ZenonT(40) DEF Memories
<1>8. \A c \in Clients \ passed : mem'[c] = mem[c]
  BY <1>1
<1>9. mem' \in [Clients -> Memories]
  BY <1>1, <1>3, <1>6, <1>8
<1> QED
  BY <1>1, <1>2, <1>7, <1>8, <1>9 DEF Served, passed, at, w

\* The message that ReadCallback walks with: an indication, the answer to a write,
\* the answer to a request of QMICTL.
LEMMA MessageOf ==
  ASSUME GobiTypes, ReadCallback
  PROVE  \E C \in SUBSET Targets, m \in Messages :
           /\ ServeFrom(1, C, m, {})
           /\ UNCHANGED <<clist, urb, ntid, file, device>> /\ reading = "read"
           /\ used' \subseteq Ids /\ inds' \in 0..MaxInds
           /\ \/ m = NoMsg /\ QMICTL \notin C /\ wire' = wire
              \/ \E r \in wire :
                   r.op = "write" /\ C = {r.c} /\ m.tid = 1 /\ m.of = r.of /\ wire' = wire \ {r}
              \/ \E r \in wire :
                   /\ r.op \in Gets \union Releases /\ C = {QMICTL} /\ m.tid = r.tid /\ m.of = r.of
                   /\ r.op \in Gets => m.id \in IdsOf(r.arg) \union {NoId}
                   /\ wire' = wire \ {r}
<1>1. UNCHANGED <<clist, urb, ntid, file, device>> /\ reading = "read"
  BY DEF ReadCallback
<1>2. QMICTL \in Targets /\ QMIWDS \in Targets /\ Ids \subseteq Targets /\ WdaId \in Ids
      /\ QMICTL # QMIWDS /\ QMICTL \notin Ids
  BY GobiAssumption DEF Targets, Clients
<1>3. wire \subseteq Requests /\ used \subseteq Ids /\ inds \in 0..MaxInds
  BY DEF GobiTypes, WireTypes
<1>4. CASE \E r \in wire : Answer(r)
  <2>1. PICK r \in wire : Answer(r)
    BY <1>4
  <2>2. r \in Requests /\ r.c \in Targets /\ r.tid \in 0..MaxTid /\ r.of \in 0..MaxWrites
    BY <1>3 DEF Requests
  <2>3. wire' = wire \ {r} /\ inds' \in 0..MaxInds
    BY <1>3, <2>1 DEF Answer
  <2>4. 1 \in 0..MaxTid
    BY GobiAssumption
  <2>5. \A t \in 0..MaxTid, id \in Ids \union {NoId} :
          LET m == [tid |-> t, of |-> r.of, id |-> id] IN
          m \in Messages /\ m.tid = t /\ m.of = r.of /\ m.id = id
    BY <2>2 DEF Messages
  <2>6. IdsOf(r.arg) \subseteq Ids
    BY <1>2 DEF IdsOf
  <2>7. CASE r.op = "write" /\ used' = used /\ ServeFrom(1, {r.c}, [tid |-> 1, of |-> r.of, id |-> NoId], {})
    <3> DEFINE m == [tid |-> 1, of |-> r.of, id |-> NoId]
    <3>1. m \in Messages /\ m.tid = 1 /\ m.of = r.of
      BY <2>4, <2>5
    <3>2. {r.c} \in SUBSET Targets
      BY <2>2
    <3>3. ServeFrom(1, {r.c}, m, {})
      BY <2>7
    <3> HIDE DEF m
    <3> QED
      BY <1>1, <1>3, <2>3, <2>7, <3>1, <3>2, <3>3
  <2>8. ASSUME NEW id \in Ids \union {NoId}, r.op \in Gets => id \in IdsOf(r.arg) \union {NoId},
               r.op \in Gets \union Releases, used' \subseteq Ids,
               ServeFrom(1, {QMICTL}, [tid |-> r.tid, of |-> r.of, id |-> id], {})
        PROVE  \E C \in SUBSET Targets, n \in Messages :
                 /\ ServeFrom(1, C, n, {})
                 /\ UNCHANGED <<clist, urb, ntid, file, device>> /\ reading = "read"
                 /\ used' \subseteq Ids /\ inds' \in 0..MaxInds
                 /\ \E s \in wire :
                      /\ s.op \in Gets \union Releases /\ C = {QMICTL} /\ n.tid = s.tid /\ n.of = s.of
                      /\ s.op \in Gets => n.id \in IdsOf(s.arg) \union {NoId}
                      /\ wire' = wire \ {s}
    <3> DEFINE m == [tid |-> r.tid, of |-> r.of, id |-> id]
    <3>1. m \in Messages /\ m.tid = r.tid /\ m.of = r.of /\ m.id = id
      BY <2>2, <2>5
    <3>2. {QMICTL} \in SUBSET Targets
      BY <1>2
    <3>3. ServeFrom(1, {QMICTL}, m, {})
      BY <2>8
    <3> HIDE DEF m
    <3> QED
      BY <1>1, <2>3, <2>8, <3>1, <3>2, <3>3
  <2>9. CASE r.op \in Releases
    <3>1. ServeFrom(1, {QMICTL}, [tid |-> r.tid, of |-> r.of, id |-> NoId], {}) /\ used' \subseteq Ids
      BY <1>3, <2>1, <2>9 DEF Answer, Releases
    <3>2. r.op \notin Gets
      BY <2>9 DEF Gets, Releases
    <3> QED
      BY <2>8, <2>9, <3>1, <3>2
  <2>10. CASE r.op \in Gets
    <3>1. PICK id \in (IdsOf(r.arg) \ used) \union {NoId} :
                 /\ ServeFrom(1, {QMICTL}, [tid |-> r.tid, of |-> r.of, id |-> id], {})
                 /\ used' = IF id = NoId THEN used ELSE used \union {id}
      BY <2>1, <2>10 DEF Answer, Gets
    <3>2. id \in Ids \union {NoId} /\ id \in IdsOf(r.arg) \union {NoId} /\ used' \subseteq Ids
      BY <1>3, <2>6, <3>1
    <3> QED
      BY <2>8, <2>10, <3>1, <3>2
  <2> QED
    BY <2>1, <2>7, <2>9, <2>10 DEF Answer, Gets, Releases
<1>5. CASE Indication
  <2>1. PICK C \in {{c} : c \in Ids \union {QMIWDS}} \union {IdsOf(NoId) \union {QMIWDS}} : ServeFrom(1, C, NoMsg, {})
    BY <1>5 DEF Indication
  <2>2. C \in SUBSET Targets /\ QMICTL \notin C
    BY <1>2, <2>1 DEF IdsOf
  <2>3. NoMsg \in Messages
    BY GobiAssumption DEF NoMsg, Messages
  <2>4. wire' = wire /\ used' \subseteq Ids /\ inds' \in 0..MaxInds
    BY <1>3, <1>5, GobiAssumption DEF Indication
  <2> QED
    BY <1>1, <2>1, <2>2, <2>3, <2>4
<1> QED
  BY <1>4, <1>5 DEF ReadCallback

-----------------------------------------------------------------------------
(* The types are kept.                                                      *)

\* The local variables of a process that goes on.
LEMMA OnwardOf ==
  ASSUME NEW t \in Tasks, NEW l \in Places
  PROVE  /\ NoTask \in Tasks /\ Onward(t, l) \in Tasks /\ Onward(t, l).pc = l
         /\ l = "idle" => Onward(t, l) = NoTask
         /\ l # "idle" => /\ Onward(t, l).op = t.op /\ Onward(t, l).c = t.c /\ Onward(t, l).tid = t.tid
                          /\ Onward(t, l).u = t.u /\ Onward(t, l).got = t.got /\ Onward(t, l).arg = t.arg
                          /\ Onward(t, l).nxt = t.nxt /\ Onward(t, l).fresh = t.fresh
<1>1. NoMsg \in Messages
  BY GobiAssumption DEF NoMsg, Messages
<1>2. NoTask \in Tasks /\ NoTask.pc = "idle"
  BY <1>1, GobiAssumption DEF NoTask, Tasks, Places, Targets, CallKinds
<1>3. [t EXCEPT !.pc = l] \in Tasks
  BY DEF Tasks
<1> QED
  BY <1>2, <1>3 DEF Onward, Tasks

\* Where a process goes on.
LEMMA AfterOf ==
  ASSUME NEW p, NEW ok \in BOOLEAN
  PROVE  /\ AfterWrite(p, ok) \in {"r_look", "clean", "again", "idle"}
         /\ AfterRead(p, ok) \in {"alloc", "clean", "again", "idle"}
         /\ AfterWrite(p, ok) = "r_look" => ok /\ task[p].op \in Gets \union Releases
         /\ AfterWrite(p, ok) = "clean" => task[p].op \in Releases
         /\ AfterWrite(p, ok) = "again" => task[p].op = "get" /\ p[1] \in Wda
         /\ AfterRead(p, ok) = "alloc" => ok /\ task[p].op \in Gets
         /\ AfterRead(p, ok) = "clean" => task[p].op \in Releases
         /\ AfterRead(p, ok) = "again" => task[p].op = "get" /\ p[1] \in Wda
         /\ task[p].op \in Releases => AfterRead(p, ok) = "clean" /\ AfterWrite(p, ok) \in {"r_look", "clean"}
<1>1. Failed(p) \in {"again", "idle"} /\ (Failed(p) = "again" => task[p].op = "get" /\ p[1] \in Wda)
  BY DEF Failed
<1>2. CASE task[p].op \in Releases
  BY <1>2 DEF AfterWrite, AfterRead, Releases, Gets
<1>3. CASE task[p].op \in Gets
  BY <1>1, <1>3 DEF AfterWrite, AfterRead, Releases, Gets
<1>4. CASE task[p].op \notin Gets \union Releases
  BY <1>1, <1>4 DEF AfterWrite, AfterRead, Releases, Gets
<1> QED
  BY <1>2, <1>3, <1>4

\* The processes are apart.
LEMMA ProcsOf ==
  /\ Procs \subseteq Notifiers /\ ReadCb \in Notifiers /\ ReadCb \notin Procs /\ Remover \in Procs
  /\ \A f \in Files : User(f) \in Procs /\ User(f)[1] = f /\ User(f) # Remover
  /\ \A f \in Listened : f \in Files /\ Reader(f) \in Procs /\ Reader(f) # Remover
  /\ \A f \in Files, g \in Listened : User(f) # Reader(g)
  /\ \A f, g \in Files : User(f) = User(g) => f = g
  /\ \A f, g \in Listened : Reader(f) = Reader(g) => f = g
  /\ \A p \in Procs : \/ \E f \in Files : p = User(f)
                      \/ \E f \in Listened : p = Reader(f)
                      \/ p = Remover
  /\ <<>> \notin Notifiers
  BY GobiAssumption DEF Procs, Notifiers, User, Reader, Readers, Remover, ReadCb

\* The task of a request of QMICTL.
LEMMA CtlTask ==
  ASSUME GobiTypes, NEW o \in CallKinds, NEW c \in Targets
  PROVE  /\ NextTid \in 1..MaxTid
         /\ [NoTask EXCEPT !.pc = "w_add", !.op = o, !.c = QMICTL, !.tid = NextTid, !.arg = c] \in Tasks
<1>1. NextTid \in 1..MaxTid
  BY GobiAssumption DEF NextTid, GobiTypes, UrbTypes
<1>2. NoTask \in Tasks /\ QMICTL \in Targets /\ "w_add" \in Places /\ NextTid \in 0..MaxTid
  BY <1>1, OnwardOf, GobiAssumption DEF Targets, Clients, Places, NoTask, NoMsg, Tasks, Messages, CallKinds
<1> QED
  BY <1>1, <1>2 DEF Tasks

\* The tasks keep their types in a call of user space.
LEMMA CallTaskTypes ==
  ASSUME GobiTypes, NEW f \in Files, Calls(f) \/ GetClientID(f) \/ ForceRelease(f)
  PROVE  TaskTypes'
<1>1. /\ User(f) \in Procs /\ task \in [Procs -> Tasks] /\ file[f].id \in Targets /\ Service(f) \in Targets
      /\ WdaId \in Targets /\ NoTask \in Tasks
  <2>1. NoMsg \in Messages
    BY GobiAssumption DEF NoMsg, Messages
  <2>2. NoTask \in Tasks
    BY <2>1, GobiAssumption DEF NoTask, Tasks, Places, Targets, CallKinds
  <2> QED
    BY <2>2, ProcsOf, GobiAssumption DEF GobiTypes, TaskTypes, FileTypes, Targets, Clients, Service
<1>2. \A o \in CallKinds, c \in Targets, p \in Procs : CtlRequest(p, o, c) => TaskTypes'
  <2> TAKE o \in CallKinds, c \in Targets, p \in Procs
  <2> DEFINE t == [NoTask EXCEPT !.pc = "w_add", !.op = o, !.c = QMICTL, !.tid = NextTid, !.arg = c]
  <2>1. t \in Tasks
    BY CtlTask
  <2>2. CtlRequest(p, o, c) => task' = [task EXCEPT ![p] = t]
    BY DEF CtlRequest
  <2> HIDE DEF t
  <2> QED
    BY <1>1, <2>1, <2>2 DEF TaskTypes
<1>3. \A o \in CallKinds, l \in Places : [NoTask EXCEPT !.pc = l, !.op = o, !.c = file[f].id] \in Tasks
  BY <1>1 DEF Tasks
<1>4. CASE UserspaceOpen(f)
  BY <1>1, <1>4 DEF UserspaceOpen, TaskTypes
<1>5. CASE GetServiceFile(f)
  BY <1>1, <1>2, <1>5 DEF GetServiceFile, CallKinds, Gets
<1>6. CASE UserspaceWrite(f)
  BY <1>1, <1>3, <1>6 DEF UserspaceWrite, CallKinds, Places, TaskTypes
<1>7. CASE UserspaceRead(f)
  <2>1. Reader(f) \in Procs
    BY <1>7, ProcsOf DEF UserspaceRead
  <2> QED
    BY <1>1, <1>3, <1>7, <2>1 DEF UserspaceRead, CallKinds, Places, TaskTypes
<1>8. CASE UserspacePoll(f)
  <2>1. Reader(f) \in Procs
    BY <1>8, ProcsOf DEF UserspacePoll
  <2> QED
    BY <1>1, <1>3, <1>8, <2>1 DEF UserspacePoll, CallKinds, Places, TaskTypes
<1>9. CASE UserspaceClose(f)
  BY <1>1, <1>2, <1>9 DEF UserspaceClose, CallKinds, Releases, TaskTypes
<1>10. CASE GetClientID(f)
  <2>1. Failed(User(f)) \in Places /\ "idle" \in Places
    BY DEF Failed, Places
  <2>2. \A l \in Places : Onward(task[User(f)], l) \in Tasks
    BY <1>1, OnwardOf
  <2> QED
    BY <1>1, <1>10, <2>1, <2>2 DEF GetClientID, Goto, TaskTypes
<1>11. CASE ForceRelease(f)
  <2>1. \A l \in Places : Onward(task[User(f)], l) \in Tasks
    BY <1>1, OnwardOf
  <2>2. "idle" \in Places /\ "force" \in CallKinds /\ "get2" \in CallKinds
    BY DEF Places, CallKinds, Gets, Releases
  <2> QED
    BY <1>1, <1>2, <1>11, <2>1, <2>2 DEF ForceRelease, Goto, TaskTypes
<1> QED
  BY <1>4, <1>5, <1>6, <1>7, <1>8, <1>9, <1>10, <1>11 DEF Calls, GobiTypes

\* They keep them in WriteSync and ReadSync.
LEMMA SyncTaskTypes ==
  ASSUME GobiTypes, NEW p \in Procs, WriteSteps(p) \/ ReadSteps(p) \/ ReadTimeout(p)
  PROVE  TaskTypes'
<1>1. task \in [Procs -> Tasks] /\ task[p] \in Tasks
  BY DEF GobiTypes, TaskTypes
<1>2. \A l \in Places, t \in Tasks : Onward(t, l) \in Tasks
  BY OnwardOf
<1>3. \A ok \in BOOLEAN : AfterWrite(p, ok) \in Places /\ AfterRead(p, ok) \in Places
  BY AfterOf DEF Places
<1>4. "w_submit" \in Places /\ "w_pop" \in Places /\ "r_wait" \in Places
  BY DEF Places
<1>5. CASE AddToURBList(p)
  <2> DEFINE u == Min({x \in Urbs : urb[x] = "none"})
  <2>1. Spare => u \in Urbs
    <3>1. {x \in Urbs : urb[x] = "none"} \in SUBSET Nat
      BY DEF Urbs
    <3> QED
      BY <3>1, MinOf DEF Spare
  <2>2. CASE Goto(p, AfterWrite(p, FALSE))
    BY <1>1, <1>2, <1>3, <2>2 DEF Goto, TaskTypes
  <2>3. CASE Spare /\ task' = [task EXCEPT ![p].pc = "w_submit", ![p].u = u]
    <3>1. [task[p] EXCEPT !.pc = "w_submit", !.u = u] \in Tasks
      <4>1. u \in 0..MaxWrites
        BY <2>1, <2>3, GobiAssumption DEF Urbs
      <4> HIDE DEF u
      <4> QED
        BY <1>1, <1>4, <4>1 DEF Tasks
    <3> QED
      BY <1>1, <2>3, <3>1 DEF TaskTypes
  <2> QED
    BY <1>5, <2>2, <2>3 DEF AddToURBList
<1>6. CASE Submit(p) \/ ReadTimeout(p)
  BY <1>1, <1>2, <1>6 DEF Submit, ReadTimeout, Goto, TaskTypes, Places
<1>7. CASE SubmitFails(p) \/ WritePop(p) \/ ReadGiveUp(p)
  <2>1. \E b \in BOOLEAN : Goto(p, AfterWrite(p, b)) \/ Goto(p, AfterRead(p, b))
    BY <1>7 DEF SubmitFails, WritePop, ReadGiveUp
  <2> QED
    BY <1>1, <1>2, <1>3, <2>1 DEF Goto, TaskTypes
<1>8. CASE WriteSyncCallback(p)
  BY <1>1, <1>8 DEF WriteSyncCallback, TaskTypes
<1>9. CASE WriteDown(p)
  <2>1. PICK s \in BOOLEAN : task' = [task EXCEPT ![p].pc = "w_pop", ![p].sig = s]
    BY <1>9 DEF WriteDown
  <2>2. [task[p] EXCEPT !.pc = "w_pop", !.sig = s] \in Tasks
    BY <1>1, <1>4 DEF Tasks
  <2> QED
    BY <1>1, <2>1, <2>2 DEF TaskTypes
<1>10. CASE Look(p)
  <2> DEFINE c == task[p].c
             i == FirstRead(c, task[p].tid)
  <2>1. CASE Goto(p, AfterRead(p, FALSE))
    BY <1>1, <1>2, <1>3, <2>1 DEF Goto, TaskTypes
  <2>2. CASE /\ Present(c) /\ i > 0
             /\ task' = [task EXCEPT ![p] = Onward([@ EXCEPT !.got = mem[c].list[i]], AfterRead(p, TRUE))]
    <3>1. c \in Clients
      BY <2>2 DEF Present, Contains, GobiTypes, ClientTypes
    <3>2. mem[c].list \in Seq(Messages)
      BY <3>1 DEF GobiTypes, ClientTypes, Memories
    <3>3. i \in 1..Len(mem[c].list)
      BY <2>2, <3>2, FirstReadOf
    <3>4. mem[c].list[i] \in Messages
      BY <3>2, <3>3
    <3>5. Onward([task[p] EXCEPT !.got = mem[c].list[i]], AfterRead(p, TRUE)) \in Tasks
      <4>1. [task[p] EXCEPT !.got = mem[c].list[i]] \in Tasks
        BY <1>1, <3>4 DEF Tasks
      <4> QED
        BY <1>2, <1>3, <4>1
    <3> QED
      BY <1>1, <2>2, <3>5 DEF TaskTypes
  <2>3. CASE task' = [task EXCEPT ![p].pc = "r_wait", ![p].fresh = TRUE]
    <3>1. [task[p] EXCEPT !.pc = "r_wait", !.fresh = TRUE] \in Tasks
      BY <1>1, <1>4 DEF Tasks
    <3> QED
      BY <1>1, <2>3, <3>1 DEF TaskTypes
  <2> QED
    BY <1>10, <2>1, <2>2, <2>3 DEF Look
<1> QED
  BY <1>5, <1>6, <1>7, <1>8, <1>9, <1>10 DEF WriteSteps, ReadSteps

\* They keep them when a client is released.
LEMMA ReleaseTaskTypes ==
  ASSUME GobiTypes, NEW p \in Procs, ReleaseSteps(p)
  PROVE  TaskTypes'
<1>1. task \in [Procs -> Tasks] /\ task[p] \in Tasks /\ NoTask \in Tasks
  BY OnwardOf DEF GobiTypes, TaskTypes, Places
<1>2. "c_kill" \in Places /\ "c_up" \in Places /\ "c_next" \in Places /\ "d_loop" \in Places
      /\ "again" \in Places /\ "idle" \in Places /\ "force" \in CallKinds /\ "none" \in CallKinds
  BY DEF Places, CallKinds, Releases
<1>3. \A C : Released(p, C) => TaskTypes'
  <2> TAKE C
  <2>1. \A l \in Places, o \in CallKinds : [NoTask EXCEPT !.op = o, !.pc = l] \in Tasks
    BY <1>1 DEF Tasks
  <2>2. [NoTask EXCEPT !.op = IF task[p].op = "force" THEN "force" ELSE "none",
                       !.pc = CASE p = Remover -> "d_loop"
                                [] task[p].op = "force" -> "again"
                                [] OTHER -> "idle"] \in Tasks
    BY <1>2, <2>1
  <2>3. \A h \in Procs : [task[h] EXCEPT !.fresh = @ /\ task[h].c \notin C] \in Tasks
    BY <1>1 DEF Tasks
  <2> QED
    BY <2>2, <2>3 DEF Released, TaskTypes
<1>4. \A c, n : n \in Targets /\ Present(c) /\ FreeUrbsOrDelete(p, c, n) => TaskTypes'
  <2> TAKE c, n
  <2> HAVE n \in Targets /\ Present(c) /\ FreeUrbsOrDelete(p, c, n)
  <2>1. CASE mem[c].urbs # <<>>
    <3>1. c \in Clients
      BY DEF Present, Contains, GobiTypes, ClientTypes
    <3>2. mem[c].urbs \in Seq(Urbs)
      BY <3>1 DEF GobiTypes, ClientTypes, Memories
    <3>3. Head(mem[c].urbs) \in 0..MaxWrites
      BY <2>1, <3>2, TailOf, GobiAssumption DEF Urbs
    <3>4. [task[p] EXCEPT !.pc = "c_kill", !.u = Head(mem[c].urbs), !.nxt = n] \in Tasks
      BY <1>1, <1>2, <3>3 DEF Tasks
    <3> QED
      BY <1>1, <2>1, <3>4 DEF FreeUrbsOrDelete, TaskTypes
  <2>2. CASE mem[c].urbs = <<>>
    BY <1>3, <2>2 DEF FreeUrbsOrDelete
  <2> QED
    BY <2>1, <2>2
<1>5. CASE Clean(p)
  <2> DEFINE c == task[p].arg
             nxt == IF task[p].pc = "clean" THEN Succ(c) ELSE task[p].nxt
  <2>1. Present(c) => nxt \in Targets
    <3>1. Present(c) => Succ(c) \in Targets
      <4>1. Len(clist) \in Nat /\ (Present(c) => Position(c) \in 1..Len(clist))
        BY PositionOf DEF GobiTypes, ClientTypes
      <4>2. \A i \in 1..Len(clist) : clist[i] \in Clients
        BY DEF GobiTypes, ClientTypes
      <4> QED
        BY <4>1, <4>2 DEF Succ, Targets
    <3> QED
      BY <1>1, <3>1 DEF Tasks
  <2> HIDE DEF nxt
  <2>2. CASE ~Present(c)
    BY <1>3, <1>5, <2>2 DEF Clean
  <2>3. CASE Present(c) /\ mem[c].notify # <<>>
    <3>1. task' = [task EXCEPT ![p].pc = "c_up", ![p].nxt = nxt]
      BY <1>5, <2>3 DEF Clean, nxt
    <3>2. [task[p] EXCEPT !.pc = "c_up", !.nxt = nxt] \in Tasks
      BY <1>1, <1>2, <2>1, <2>3 DEF Tasks
    <3> QED
      BY <1>1, <3>1, <3>2 DEF TaskTypes
  <2>4. CASE Present(c) /\ mem[c].notify = <<>>
    <3>1. FreeUrbsOrDelete(p, c, nxt)
      BY <1>5, <2>4 DEF Clean, nxt
    <3> QED
      BY <1>4, <2>1, <2>4, <3>1
  <2> QED
    BY <2>2, <2>3, <2>4
<1>6. CASE KillUrb(p)
  <2>1. \A l \in Places : Onward(task[p], l) \in Tasks
    BY <1>1, OnwardOf
  <2> QED
    BY <1>1, <1>2, <1>6, <2>1 DEF KillUrb, Goto, TaskTypes
<1>7. CASE NextUrb(p)
  <2>1. task[p].nxt \in Targets
    BY <1>1 DEF Tasks
  <2> QED
    BY <1>3, <1>4, <1>7, <2>1 DEF NextUrb
<1> QED
  BY <1>5, <1>6, <1>7 DEF ReleaseSteps

\* They keep them in notifications, callbacks and the removal of the device.
LEMMA OtherTaskTypes ==
  ASSUME GobiTypes,
         (\E n \in Notifiers : NotifySteps(n)) \/ ReadUrbs \/ Deregister \/ RemoverSteps
  PROVE  TaskTypes'
<1>1. task \in [Procs -> Tasks] /\ Remover \in Procs /\ NoTask \in Tasks
  BY ProcsOf, OnwardOf DEF GobiTypes, TaskTypes, Places
<1>2. \A l \in Places, t \in Tasks : Onward(t, l) \in Tasks /\ [t EXCEPT !.pc = l] \in Tasks
  BY OnwardOf DEF Tasks
<1>3. {"c_more", "r_look", "d_loop", "d_wait", "d_done", "clean"} \subseteq Places
  BY DEF Places
<1>4. \A C : task' = PollersWoken(C) => TaskTypes'
  BY <1>1 DEF PollersWoken, TaskTypes
<1>5. \A n \in Notifiers, t \in [Procs -> Tasks] : Notified(n, t) => TaskTypes'
  <2> TAKE n \in Notifiers, t \in [Procs -> Tasks]
  <2>1. n # ReadCb => n \in Procs
    BY DEF Notifiers
  <2>2. n \in Procs => [t[n] EXCEPT !.pc = "c_more"] \in Tasks
    BY <1>2, <1>3
  <2> QED
    BY <2>1, <2>2 DEF Notified, TaskTypes
<1>6. ASSUME NEW n \in Notifiers, NotifySteps(n) PROVE TaskTypes'
  <2>1. CASE UpSem(n)
    <3> DEFINE p == held[n].who
               t == [task EXCEPT ![p].pc = IF @ = "r_wait" THEN "r_look" ELSE @]
    <3>1. p \in Procs /\ Notified(n, t)
      BY <2>1 DEF UpSem
    <3>2. t \in [Procs -> Tasks]
      <4>1. [task[p] EXCEPT !.pc = IF @ = "r_wait" THEN "r_look" ELSE @] \in Tasks
        BY <1>1, <1>3, <3>1 DEF Tasks
      <4> QED
        BY <1>1, <3>1, <4>1
    <3> HIDE DEF t
    <3> QED
      BY <1>5, <3>1, <3>2
  <2>2. CASE QMIWDSCallback(n) \/ ReadAsync(n)
    BY <1>1, <1>5, <2>2 DEF QMIWDSCallback, ReadAsync, TaskTypes
  <2> QED
    BY <1>6, <2>1, <2>2 DEF NotifySteps
<1>7. CASE ReadUrbs
  <2>1. \A k, C, m, s : ServeFrom(k, C, m, s) => TaskTypes'
    <3> TAKE k, C, m, s
    <3> HAVE ServeFrom(k, C, m, s)
    <3>1. \E D : task' = PollersWoken(D)
      BY DEF ServeFrom
    <3> QED
      BY <1>4, <3>1
  <2>2. CASE ReadCallback
    <3>1. CASE \E r \in wire : Answer(r)
      BY <2>1, <3>1 DEF Answer
    <3>2. CASE Indication
      BY <2>1, <3>2 DEF Indication
    <3> QED
      BY <2>2, <3>1, <3>2 DEF ReadCallback
  <2>3. CASE ReadCallbackResumes
    BY <2>1, <2>3 DEF ReadCallbackResumes
  <2>4. CASE IntCallback \/ ReadFails
    BY <1>1, <2>4 DEF IntCallback, ReadFails, TaskTypes
  <2> QED
    BY <1>7, <2>2, <2>3, <2>4 DEF ReadUrbs
<1>8. CASE Deregister \/ KillRead \/ DeregisterEnds
  <2>1. \E l \in {"d_loop", "d_wait", "d_done"} : task' = [task EXCEPT ![Remover] = Onward(@, l)]
    BY <1>8 DEF Deregister, KillRead, DeregisterEnds, Goto
  <2> QED
    BY <1>1, <1>2, <1>3, <2>1, ZenonT(40) DEF TaskTypes
<1>9. CASE DeregisterClient
  <2>1. Head(clist) \in Targets
    BY <1>9, TailOf DEF DeregisterClient, GobiTypes, ClientTypes, Targets
  <2>2. [NoTask EXCEPT !.pc = "clean", !.arg = Head(clist)] \in Tasks
    BY <1>1, <1>3, <2>1 DEF Tasks
  <2>3. \/ task' = [task EXCEPT ![Remover] = [NoTask EXCEPT !.pc = "clean", !.arg = Head(clist)]]
        \/ task' = PollersWoken({Head(clist)})
    BY <1>9 DEF DeregisterClient
  <2> QED
    BY <1>1, <1>4, <2>2, <2>3 DEF TaskTypes
<1>10. CASE \E n \in Notifiers : NotifySteps(n)
  BY <1>6, <1>10
<1> QED
  BY <1>7, <1>8, <1>9, <1>10 DEF RemoverSteps

\* A client's memory with one of its lists changed.
LEMMA MemoryOf ==
  ASSUME ClientTypes, NEW c
  PROVE  /\ c \in Clients => /\ mem[c] \in Memories /\ mem[c].list \in Seq(Messages)
                             /\ mem[c].notify \in Seq(Entries) /\ mem[c].urbs \in Seq(Urbs)
         /\ \A l \in Seq(Messages) : [mem EXCEPT ![c].list = l] \in [Clients -> Memories]
         /\ \A l \in Seq(Entries) : [mem EXCEPT ![c].notify = l] \in [Clients -> Memories]
         /\ \A l \in Seq(Urbs) : [mem EXCEPT ![c].urbs = l] \in [Clients -> Memories]
         /\ [mem EXCEPT ![c] = NoMem] \in [Clients -> Memories]
         /\ Present(c) => c \in Clients
<1>1. mem \in [Clients -> Memories]
  BY DEF ClientTypes
<1>2. \A x \in Memories :
        /\ x.list \in Seq(Messages) /\ x.notify \in Seq(Entries) /\ x.urbs \in Seq(Urbs)
        /\ \A l \in Seq(Messages) : [x EXCEPT !.list = l] \in Memories
        /\ \A l \in Seq(Entries) : [x EXCEPT !.notify = l] \in Memories
        /\ \A l \in Seq(Urbs) : [x EXCEPT !.urbs = l] \in Memories
  BY DEF Memories
<1>3. NoMem \in Memories
  BY DEF NoMem, Memories
<1>4. Present(c) => c \in Clients
  BY DEF Present, Contains, ClientTypes
<1> QED
  BY <1>1, <1>2, <1>3, <1>4

\* The lists of a client after PopFromURBList.
LEMMA PopOf ==
  ASSUME ClientTypes, NEW c
  PROVE  PopFromURBList(c) \in [Clients -> Memories]
<1>1. CASE c \in Clients
  <2>1. mem[c].urbs \in Seq(Urbs)
    BY <1>1, MemoryOf
  <2>2. (IF mem[c].urbs = <<>> THEN mem[c].urbs ELSE Tail(mem[c].urbs)) \in Seq(Urbs)
    BY <2>1, TailOf
  <2> DEFINE l == IF mem[c].urbs = <<>> THEN mem[c].urbs ELSE Tail(mem[c].urbs)
  <2>3. PopFromURBList(c) = [mem EXCEPT ![c].urbs = l]
    BY DEF PopFromURBList
  <2> HIDE DEF l
  <2>4. [mem EXCEPT ![c].urbs = l] \in [Clients -> Memories]
    BY <2>2, MemoryOf DEF l
  <2> QED
    BY <2>3, <2>4
<1>2. CASE c \notin Clients
  BY <1>2 DEF PopFromURBList, ClientTypes
<1> QED
  BY <1>1, <1>2

\* The list of clients without one of them.
Without(c, n) ==
  SubSeq(clist, 1, Position(c) - 1) \o
    (IF n = NoId \/ ~Present(n) THEN <<>> ELSE SubSeq(clist, Position(n), Len(clist)))

\* It is made of the clients before c and of those from n on.
LEMMA WithoutOf ==
  ASSUME ClientTypes, NEW c, NEW n, Present(c)
  PROVE  LET k == Position(c) - 1
             j == IF n = NoId \/ ~Present(n) THEN Len(clist) + 1 ELSE Position(n) IN
         /\ k \in Nat /\ k < Len(clist) /\ j \in 1..(Len(clist) + 1) /\ Len(clist) \in Nat
         /\ Without(c, n) \in Seq(Clients) /\ Len(Without(c, n)) = k + (Len(clist) + 1 - j)
         /\ \A i \in 1..Len(Without(c, n)) : Without(c, n)[i] = IF i <= k THEN clist[i] ELSE clist[i - k + j - 1]
<1> DEFINE k == Position(c) - 1
           j == IF n = NoId \/ ~Present(n) THEN Len(clist) + 1 ELSE Position(n)
           a == SubSeq(clist, 1, k)
           b == IF n = NoId \/ ~Present(n) THEN <<>> ELSE SubSeq(clist, Position(n), Len(clist))
<1>1. /\ clist \in Seq(Clients) /\ Len(clist) \in Nat /\ Position(c) \in 1..Len(clist)
      /\ Present(n) => Position(n) \in 1..Len(clist)
  BY PositionOf DEF ClientTypes
<1>2. k \in Nat /\ k < Len(clist) /\ j \in 1..(Len(clist) + 1)
  BY <1>1
<1>3. a \in Seq(Clients) /\ Len(a) = k /\ \A i \in 1..k : a[i] = clist[i]
  BY <1>1
<1>4. b \in Seq(Clients) /\ Len(b) = Len(clist) + 1 - j /\ \A i \in 1..(Len(clist) + 1 - j) : b[i] = clist[i + j - 1]
  <2>1. CASE n = NoId \/ ~Present(n)
    BY <1>1, <2>1
  <2>2. CASE ~(n = NoId \/ ~Present(n))
    <3>1. j = Position(n) /\ b = SubSeq(clist, j, Len(clist)) /\ j \in 1..Len(clist)
      BY <1>1, <2>2
    <3> HIDE DEF j, b
    <3>2. b \in Seq(Clients) /\ Len(b) = Len(clist) - j + 1 /\ \A i \in 1..(Len(clist) - j + 1) : b[i] = clist[j + i - 1]
      BY <1>1, <3>1, SubSeqProperties
    <3> QED
      BY <1>1, <3>1, <3>2
  <2> QED
    BY <2>1, <2>2
<1>5. Without(c, n) = a \o b
  BY DEF Without
<1> HIDE DEF k, j, a, b
<1>6. /\ a \o b \in Seq(Clients) /\ Len(a \o b) = Len(a) + Len(b)
      /\ \A i \in 1..Len(a) : (a \o b)[i] = a[i]
      /\ \A i \in (Len(a) + 1)..(Len(a) + Len(b)) : (a \o b)[i] = b[i - Len(a)]
  BY <1>3, <1>4, ConcatOf, Zenon
<1>7. \A i \in 1..Len(a \o b) : (a \o b)[i] = IF i <= k THEN clist[i] ELSE clist[i - k + j - 1]
  <2> TAKE i \in 1..Len(a \o b)
  <2>1. CASE i <= k
    BY <1>2, <1>3, <1>6, <2>1
  <2>2. CASE ~(i <= k)
    <3>1. i \in (Len(a) + 1)..(Len(a) + Len(b)) /\ i - k \in 1..(Len(clist) + 1 - j) /\ Len(a) = k
      BY <1>1, <1>2, <1>3, <1>4, <1>6, <2>2
    <3>2. (a \o b)[i] = b[i - k] /\ b[i - k] = clist[i - k + j - 1]
      BY <1>4, <1>6, <3>1
    <3> QED
      BY <2>2, <3>2
  <2> QED
    BY <2>1, <2>2
<1>8. Len(a \o b) = k + (Len(clist) + 1 - j)
  BY <1>3, <1>4, <1>6
<1> QED
  BY <1>1, <1>2, <1>5, <1>6, <1>7, <1>8 DEF k, j

\* The request of a client id leaves the lists of clients lists.
LEMMA CtlMemory ==
  ASSUME ClientTypes, NEW p, NEW o, NEW c, CtlRequest(p, o, c)
  PROVE  mem' = [mem EXCEPT ![QMICTL].list = Purged(mem[QMICTL].list)] /\ mem' \in [Clients -> Memories]
<1>1. QMICTL \in Clients
  BY DEF Clients
<1>2. mem[QMICTL].list \in Seq(Messages)
  BY <1>1, MemoryOf
<1>3. Purged(mem[QMICTL].list) \in Seq(Messages)
  BY <1>2, PurgedOf
<1>4. mem' = [mem EXCEPT ![QMICTL].list = Purged(mem[QMICTL].list)]
  BY DEF CtlRequest
<1> QED
  BY <1>3, <1>4, MemoryOf

\* The lists keep their types.
LEMMA ClientTypesStep ==
  ASSUME GobiTypes, [GobiNext]_gobiVars
  PROVE  ClientTypes'
<1>1. ClientTypes /\ clist \in Seq(Clients) /\ mem \in [Clients -> Memories]
  BY DEF GobiTypes, ClientTypes
<1>2. \A p, o, c : CtlRequest(p, o, c) => mem' \in [Clients -> Memories]
  BY <1>1, CtlMemory
<1>3. ASSUME NEW f \in Files, Calls(f) \/ GetClientID(f) \/ ForceRelease(f) PROVE ClientTypes'
  <2>1. CASE UserspaceOpen(f) \/ UserspaceWrite(f) \/ UserspaceRead(f) \/ UserspacePoll(f)
    BY <1>1, <2>1 DEF UserspaceOpen, UserspaceWrite, UserspaceRead, UserspacePoll, ClientTypes
  <2>2. CASE GetServiceFile(f) \/ UserspaceClose(f) \/ ForceRelease(f)
    BY <1>1, <1>2, <2>2 DEF GetServiceFile, UserspaceClose, ForceRelease, ClientTypes
  <2>3. CASE GetClientID(f)
    <3>1. task[User(f)].got.id # NoId => task[User(f)].got.id \in Clients
      BY ProcsOf DEF GobiTypes, TaskTypes, Tasks, Messages, Clients
    <3>2. task[User(f)].got.id # NoId => Append(clist, task[User(f)].got.id) \in Seq(Clients)
      BY <1>1, <3>1, AppendOf
    <3> QED
      BY <1>1, <2>3, <3>2 DEF GetClientID, ClientTypes
  <2> QED
    BY <1>3, <2>1, <2>2, <2>3 DEF Calls
<1>4. ASSUME NEW p \in Procs, WriteSteps(p) \/ ReadSteps(p) \/ ReadTimeout(p) PROVE ClientTypes'
  <2>1. CASE AddToURBList(p)
    <3> DEFINE u == Min({x \in Urbs : urb[x] = "none"})
    <3>1. Spare => u \in Urbs
      <4>1. {x \in Urbs : urb[x] = "none"} \in SUBSET Nat
        BY DEF Urbs
      <4> QED
        BY <4>1, MinOf DEF Spare
    <3>2. CASE UNCHANGED mem
      BY <1>1, <2>1, <3>2 DEF AddToURBList, ClientTypes
    <3>3. CASE Spare /\ Present(task[p].c) /\ mem' = [mem EXCEPT ![task[p].c].urbs = Append(@, u)]
      <4>1. task[p].c \in Clients
        BY <1>1, <3>3, MemoryOf
      <4>2. Append(mem[task[p].c].urbs, u) \in Seq(Urbs)
        BY <1>1, <3>1, <3>3, <4>1, MemoryOf, AppendOf
      <4> HIDE DEF u
      <4>3. mem' \in [Clients -> Memories]
        BY <1>1, <3>3, <4>2, MemoryOf
      <4> QED
        BY <1>1, <2>1, <4>3 DEF AddToURBList, ClientTypes
    <3> QED
      BY <2>1, <3>2, <3>3 DEF AddToURBList
  <2>2. CASE SubmitFails(p) \/ WritePop(p)
    <3>1. PopFromURBList(task[p].c) \in [Clients -> Memories]
      BY <1>1, PopOf
    <3> QED
      BY <1>1, <2>2, <3>1 DEF SubmitFails, WritePop, ClientTypes
  <2>3. CASE Submit(p) \/ WriteSyncCallback(p) \/ WriteDown(p) \/ ReadTimeout(p)
    BY <1>1, <2>3 DEF Submit, WriteSyncCallback, WriteDown, ReadTimeout, ClientTypes
  <2>4. CASE Look(p)
    <3> DEFINE c == task[p].c
               i == FirstRead(c, task[p].tid)
    <3>1. CASE UNCHANGED mem
      BY <1>1, <2>4, <3>1 DEF Look, ClientTypes
    <3>2. CASE Present(c) /\ i > 0 /\ mem' = [mem EXCEPT ![c].list = RemoveAt(@, i)]
      <4>1. mem[c].list \in Seq(Messages)
        BY <1>1, <3>2, MemoryOf
      <4>4. i \in 1..Len(mem[c].list)
        BY <3>2, <4>1, FirstReadOf
      <4>2. RemoveAt(mem[c].list, i) \in Seq(Messages)
        BY <4>1, <4>4, RemoveOf
      <4> HIDE DEF i
      <4>3. mem' \in [Clients -> Memories]
        BY <1>1, <3>2, <4>2, MemoryOf
      <4> QED
        BY <1>1, <2>4, <4>3 DEF Look, ClientTypes
    <3>3. CASE Present(c) /\ mem' = [mem EXCEPT ![c].notify = Append(@, Entry(p, task[p].tid))]
      <4>1. mem[c].notify \in Seq(Entries)
        BY <1>1, <3>3, MemoryOf
      <4>2. Entry(p, task[p].tid) \in Entries
        BY ProcsOf DEF Entry, Entries, GobiTypes, TaskTypes, Tasks
      <4>3. Append(mem[c].notify, Entry(p, task[p].tid)) \in Seq(Entries)
        BY <4>1, <4>2, AppendOf
      <4>4. mem' \in [Clients -> Memories]
        BY <1>1, <3>3, <4>3, MemoryOf
      <4> QED
        BY <1>1, <2>4, <4>4 DEF Look, ClientTypes
    <3> QED
      BY <2>4, <3>1, <3>2, <3>3 DEF Look
  <2>5. CASE ReadGiveUp(p)
    <3> DEFINE c == task[p].c
               l == WithoutEntry(mem[c].notify, p)
    <3>1. mem' = [mem EXCEPT ![c].notify = l]
      BY <2>5 DEF ReadGiveUp, WithoutEntry, RemoveFirstMatch, SelectInSeq
    <3>2. CASE c \in Clients
      <4>1. mem[c].notify \in Seq(Entries)
        BY <1>1, <3>2, MemoryOf
      <4>4. l = mem[c].notify \/ \E k \in 1..Len(mem[c].notify) : l = RemoveAt(mem[c].notify, k)
        BY <4>1, FirstMatchOf
      <4>2. l \in Seq(Entries)
        BY <4>1, <4>4, RemoveOf
      <4> HIDE DEF l
      <4>3. mem' \in [Clients -> Memories]
        BY <1>1, <3>1, <4>2, MemoryOf
      <4> QED
        BY <1>1, <2>5, <4>3 DEF ReadGiveUp, ClientTypes
    <3>3. CASE c \notin Clients
      <4>1. mem' = mem
        BY <1>1, <3>1, <3>3
      <4> QED
        BY <1>1, <2>5, <4>1 DEF ReadGiveUp, ClientTypes
    <3> QED
      BY <3>2, <3>3
  <2> QED
    BY <1>4, <2>1, <2>2, <2>3, <2>4, <2>5 DEF WriteSteps, ReadSteps
<1>5. ASSUME NEW p \in Procs, ReleaseSteps(p) PROVE ClientTypes'
  <2>1. \A c, n : Present(c) /\ FreeUrbsOrDelete(p, c, n) => ClientTypes'
    <3> TAKE c, n
    <3> HAVE Present(c) /\ FreeUrbsOrDelete(p, c, n)
    <3>1. PopFromURBList(c) \in [Clients -> Memories] /\ [mem EXCEPT ![c] = NoMem] \in [Clients -> Memories]
      BY <1>1, PopOf, MemoryOf
    <3>2. Without(c, n) \in Seq(Clients)
      BY <1>1, WithoutOf
    <3>3. \/ mem' = PopFromURBList(c) /\ clist' = clist
          \/ mem' = [mem EXCEPT ![c] = NoMem] /\ clist' = Without(c, n)
      BY DEF FreeUrbsOrDelete, Without
    <3> QED
      BY <1>1, <3>1, <3>2, <3>3 DEF ClientTypes
  <2>2. CASE Clean(p)
    <3> DEFINE c == task[p].arg
    <3>1. CASE ~Present(c)
      BY <1>1, <2>2, <3>1 DEF Clean, ClientTypes
    <3>2. CASE Present(c) /\ mem[c].notify # <<>>
      <4>1. Tail(mem[c].notify) \in Seq(Entries)
        BY <1>1, <3>2, MemoryOf, TailOf
      <4>2. mem' = [mem EXCEPT ![c].notify = Tail(mem[c].notify)] /\ UNCHANGED clist
        BY <2>2, <3>2 DEF Clean
      <4> QED
        BY <1>1, <4>1, <4>2, MemoryOf DEF ClientTypes
    <3>3. CASE Present(c) /\ mem[c].notify = <<>>
      BY <2>1, <2>2, <3>3 DEF Clean
    <3> QED
      BY <3>1, <3>2, <3>3
  <2>3. CASE KillUrb(p)
    BY <1>1, <2>3 DEF KillUrb, ClientTypes
  <2>4. CASE NextUrb(p)
    BY <1>1, <2>1, <2>4 DEF NextUrb, ClientTypes
  <2> QED
    BY <1>5, <2>2, <2>3, <2>4 DEF ReleaseSteps
<1>6. ASSUME NEW n \in Notifiers, NotifySteps(n) PROVE ClientTypes'
  <2>1. QMIWDS \in Clients
    BY DEF Clients
  <2>2. mem[QMIWDS].list \in Seq(Messages) /\ mem[QMIWDS].notify \in Seq(Entries)
    BY <1>1, <2>1, MemoryOf
  <2>3. CASE UpSem(n)
    BY <1>1, <2>3 DEF UpSem, ClientTypes
  <2>4. CASE QMIWDSCallback(n)
    <3>1. mem[QMIWDS].list # <<>> => [mem EXCEPT ![QMIWDS].list = Tail(mem[QMIWDS].list)] \in [Clients -> Memories]
      BY <1>1, <2>2, TailOf, MemoryOf
    <3> QED
      BY <1>1, <2>4, <3>1 DEF QMIWDSCallback, ClientTypes
  <2>5. CASE ReadAsync(n)
    <3>1. WdsEntry \in Entries
      BY ProcsOf, GobiAssumption DEF WdsEntry, Entry, Entries
    <3>2. Append(mem[QMIWDS].notify, WdsEntry) \in Seq(Entries)
      BY <2>2, <3>1, AppendOf
    <3>3. \A b \in BOOLEAN : [mem EXCEPT ![QMIWDS].notify = IF b THEN Append(@, WdsEntry) ELSE @] \in [Clients -> Memories]
      BY <1>1, <2>2, <3>2, MemoryOf
    <3> QED
      BY <1>1, <2>5, <3>3 DEF ReadAsync, ClientTypes, Present, Contains
  <2> QED
    BY <1>6, <2>3, <2>4, <2>5 DEF NotifySteps
<1>7. CASE ReadUrbs
  <2>1. ASSUME NEW k \in Nat \ {0}, NEW C, NEW m \in Messages, NEW s, ServeFrom(k, C, m, s)
        PROVE  mem' \in [Clients -> Memories]
    <3>1. Served(Seen(k, C, m.tid), Stop(k, C, m.tid), C, m, s)
      BY <2>1, ServeOf
    <3> QED
      BY <3>1 DEF Served
  <2>2. CASE ReadCallback
    <3>1. ASSUME NEW r \in wire, Answer(r) PROVE mem' \in [Clients -> Memories]
      <4>1. r \in Requests /\ 1 \in 0..MaxTid
        BY GobiAssumption DEF GobiTypes, WireTypes
      <4>2. \A t \in 0..MaxTid, id \in Ids \union {NoId} : [tid |-> t, of |-> r.of, id |-> id] \in Messages
        BY <4>1 DEF Requests, Messages
      <4>3. \A D, id : id \in Ids \union {NoId} /\ ServeFrom(1, D, [tid |-> r.tid, of |-> r.of, id |-> id], {})
              => mem' \in [Clients -> Memories]
        BY <2>1, <4>1, <4>2 DEF Requests
      <4>4. \A D : ServeFrom(1, D, [tid |-> 1, of |-> r.of, id |-> NoId], {}) => mem' \in [Clients -> Memories]
        BY <2>1, <4>1, <4>2
      <4>5. IdsOf(r.arg) \subseteq Ids
        BY GobiAssumption DEF IdsOf
      <4> QED
        BY <3>1, <4>3, <4>4, <4>5 DEF Answer
    <3>2. CASE Indication
      <4>1. NoMsg \in Messages
        BY GobiAssumption DEF NoMsg, Messages
      <4>2. PICK D : ServeFrom(1, D, NoMsg, {})
        BY <3>2 DEF Indication
      <4>3. mem' \in [Clients -> Memories]
        BY <2>1, <4>1, <4>2
      <4> QED
        BY <1>1, <2>2, <4>3 DEF ReadCallback, ClientTypes
    <3> QED
      BY <1>1, <2>2, <3>1, <3>2 DEF ReadCallback, ClientTypes
  <2>3. CASE ReadCallbackResumes
    <3>1. Position(cb.at) + 1 \in Nat \ {0} /\ cb.m \in Messages
      BY <1>1, PositionOf DEF GobiTypes, CbTypes
    <3> QED
      BY <1>1, <2>1, <2>3, <3>1 DEF ReadCallbackResumes, ClientTypes
  <2>4. CASE IntCallback \/ ReadFails
    BY <1>1, <2>4 DEF IntCallback, ReadFails, ClientTypes
  <2> QED
    BY <1>7, <2>2, <2>3, <2>4 DEF ReadUrbs
<1>8. CASE Deregister \/ RemoverSteps \/ UNCHANGED gobiVars
  BY <1>1, <1>8 DEF Deregister, RemoverSteps, DeregisterClient, KillRead, DeregisterEnds, gobiVars, ClientTypes
<1> QED
  BY <1>3, <1>4, <1>5, <1>6, <1>7, <1>8 DEF GobiNext

\* The notifications under way keep their types.
LEMMA HeldTypesStep ==
  ASSUME GobiTypes, [GobiNext]_gobiVars
  PROVE  HeldTypes'
<1>1. /\ ClientTypes /\ held \in [Notifiers -> Entries \union {NoEntry}]
      /\ \A c \in Clients : mem[c].notify \in Seq(Entries)
  BY MemoryOf DEF GobiTypes, HeldTypes
<1>2. UNCHANGED held => HeldTypes'
  BY <1>1 DEF HeldTypes
<1>3. \A e, n : e \in Entries \union {NoEntry} /\ held' = [held EXCEPT ![n] = e] => HeldTypes'
  BY <1>1 DEF HeldTypes
<1>4. ASSUME NEW f \in Files, Calls(f) \/ GetClientID(f) \/ ForceRelease(f) PROVE HeldTypes'
  BY <1>2, <1>4 DEF Calls, UserspaceOpen, GetServiceFile, UserspaceWrite, UserspaceRead, UserspacePoll,
     UserspaceClose, GetClientID, ForceRelease
<1>5. ASSUME NEW p \in Procs, WriteSteps(p) \/ ReadSteps(p) \/ ReadTimeout(p) PROVE HeldTypes'
  BY <1>2, <1>5 DEF WriteSteps, AddToURBList, Submit, SubmitFails, WriteSyncCallback, WriteDown, WritePop,
     ReadSteps, Look, ReadGiveUp, ReadTimeout
<1>6. ASSUME NEW p \in Procs, ReleaseSteps(p) PROVE HeldTypes'
  <2>1. CASE Clean(p)
    <3>1. CASE Present(task[p].arg) /\ mem[task[p].arg].notify # <<>>
      <4>1. Head(mem[task[p].arg].notify) \in Entries
        BY <1>1, <3>1, MemoryOf, TailOf
      <4> QED
        BY <1>3, <2>1, <3>1, <4>1 DEF Clean
    <3>2. CASE ~(Present(task[p].arg) /\ mem[task[p].arg].notify # <<>>)
      BY <1>2, <2>1, <3>2 DEF Clean
    <3> QED
      BY <3>1, <3>2
  <2> QED
    BY <1>2, <1>6, <2>1 DEF ReleaseSteps, KillUrb, NextUrb
<1>7. ASSUME NEW n \in Notifiers, NotifySteps(n) PROVE HeldTypes'
  <2>1. WdsEntry \in Entries
    BY ProcsOf, GobiAssumption DEF WdsEntry, Entry, Entries
  <2>2. \A t : Notified(n, t) => HeldTypes'
    BY <1>3 DEF Notified
  <2>3. CASE UpSem(n)
    BY <2>2, <2>3 DEF UpSem
  <2>4. CASE QMIWDSCallback(n)
    <3>1. held[n] = WdsEntry
      BY <2>4 DEF QMIWDSCallback
    <3>2. [WdsEntry EXCEPT !.step = "arm"] \in Entries
      BY <2>1 DEF Entries
    <3>3. held' = [held EXCEPT ![n].step = "arm"] => held' = [held EXCEPT ![n] = [WdsEntry EXCEPT !.step = "arm"]]
      BY <3>1
    <3> QED
      BY <1>3, <2>2, <2>4, <3>2, <3>3 DEF QMIWDSCallback
  <2>5. CASE ReadAsync(n)
    BY <1>3, <2>1, <2>2, <2>5 DEF ReadAsync
  <2> QED
    BY <1>7, <2>3, <2>4, <2>5 DEF NotifySteps
<1>8. CASE ReadUrbs
  <2>1. \A k, C, m, s : k \in Nat \ {0} /\ ServeFrom(k, C, m, s) => HeldTypes'
    <3> TAKE k, C, m, s
    <3> HAVE k \in Nat \ {0} /\ ServeFrom(k, C, m, s)
    <3> DEFINE at == Stop(k, C, m.tid)
               w == FirstWaiter(at, m.tid)
    <3>1. held' = [held EXCEPT ![ReadCb] = IF Stops(k, C, m.tid) = {} THEN NoEntry ELSE mem[at].notify[w]]
      BY DEF ServeFrom, Seen, Stop, End, Stops, Hits
    <3>2. Stops(k, C, m.tid) # {} => at \in Clients /\ w # 0
      <4>1. /\ Seen(k, C, m.tid) \in SUBSET Clients
            /\ at = NoId <=> Stops(k, C, m.tid) = {}
            /\ at # NoId => at \in Seen(k, C, m.tid) /\ w # 0
        BY <1>1, SeenOf
      <4> HIDE DEF at, w
      <4> QED
        BY <4>1
    <3>3. Stops(k, C, m.tid) # {} => mem[at].notify[w] \in Entries
      <4>1. Stops(k, C, m.tid) # {} => w \in 1..Len(mem[at].notify)
        <5>1. SUFFICES ASSUME Stops(k, C, m.tid) # {} PROVE w \in 1..Len(mem[at].notify)
          OBVIOUS
        <5>2. mem[at].notify \in Seq(Entries)
          BY <1>1, <3>2, <5>1
        <5> QED
          BY <3>2, <5>1, <5>2, FirstWaiterOf
      <4> QED
        BY <1>1, <3>2, <4>1
    <3> HIDE DEF at, w
    <3> QED
      BY <1>3, <3>1, <3>3
  <2>2. CASE ReadCallback
    <3>1. \E C, m : ServeFrom(1, C, m, {})
      BY <2>2, MessageOf
    <3> QED
      BY <2>1, <3>1
  <2>3. CASE ReadCallbackResumes
    <3>1. Position(cb.at) + 1 \in Nat \ {0}
      BY PositionOf DEF GobiTypes, ClientTypes
    <3> QED
      BY <2>1, <2>3, <3>1 DEF ReadCallbackResumes
  <2> QED
    BY <1>2, <1>8, <2>2, <2>3 DEF ReadUrbs, IntCallback, ReadFails
<1>9. CASE Deregister \/ RemoverSteps \/ UNCHANGED gobiVars
  BY <1>2, <1>9 DEF Deregister, RemoverSteps, DeregisterClient, KillRead, DeregisterEnds, gobiVars
<1> QED
  BY <1>4, <1>5, <1>6, <1>7, <1>8, <1>9 DEF GobiNext

\* So do the URBs and the transaction id.
LEMMA UrbTypesStep ==
  ASSUME GobiTypes, [GobiNext]_gobiVars
  PROVE  UrbTypes'
<1> DEFINE Marks == {"none", "alloc", "flying", "done", "freed"}
<1>1. urb \in [Urbs -> Marks] /\ ntid \in 0..MaxTid
  BY DEF GobiTypes, UrbTypes
<1>2. UNCHANGED <<urb, ntid>> => UrbTypes'
  BY <1>1 DEF UrbTypes
<1>3. \A u, v : v \in Marks /\ ntid' = ntid /\ urb' = [urb EXCEPT ![u] = v] => UrbTypes'
  BY <1>1 DEF UrbTypes
<1>4. \A p, o, c : urb' = urb /\ CtlRequest(p, o, c) => UrbTypes'
  <2>1. NextTid \in 0..MaxTid
    BY <1>1, GobiAssumption DEF NextTid
  <2> QED
    BY <1>1, <2>1 DEF CtlRequest, UrbTypes
<1>5. ASSUME NEW f \in Files, Calls(f) \/ GetClientID(f) \/ ForceRelease(f) PROVE UrbTypes'
  <2>1. CASE GetServiceFile(f) \/ UserspaceClose(f) \/ ForceRelease(f)
    BY <1>2, <1>4, <2>1 DEF GetServiceFile, UserspaceClose, ForceRelease
  <2>2. CASE UserspaceOpen(f) \/ UserspaceWrite(f) \/ UserspaceRead(f) \/ UserspacePoll(f) \/ GetClientID(f)
    BY <1>2, <2>2 DEF UserspaceOpen, UserspaceWrite, UserspaceRead, UserspacePoll, GetClientID
  <2> QED
    BY <1>5, <2>1, <2>2 DEF Calls
<1>6. ASSUME NEW p \in Procs, WriteSteps(p) \/ ReadSteps(p) \/ ReadTimeout(p) PROVE UrbTypes'
  <2> DEFINE u == task[p].u
  <2>1. CASE AddToURBList(p)
    BY <1>2, <1>3, <2>1 DEF AddToURBList
  <2>2. CASE Submit(p)
    <3>1. urb' = [urb EXCEPT ![u] = IF urb[u] = "alloc" THEN "flying" ELSE urb[u]] /\ ntid' = ntid
      BY <2>2 DEF Submit
    <3> QED
      BY <1>1, <3>1 DEF UrbTypes
  <2>3. CASE SubmitFails(p)
    <3>1. urb' = [urb EXCEPT ![u] = IF OwnIsFirst(p) THEN "freed" ELSE urb[u]] /\ ntid' = ntid
      BY <2>3 DEF SubmitFails
    <3> QED
      BY <1>1, <3>1 DEF UrbTypes
  <2>4. CASE WriteSyncCallback(p)
    BY <1>3, <2>4 DEF WriteSyncCallback
  <2>5. CASE WritePop(p)
    <3>1. \E v \in {"freed", "done"} : urb' = [urb EXCEPT ![u] = v] /\ ntid' = ntid
      BY <2>5 DEF WritePop
    <3> QED
      BY <1>3, <3>1
  <2>6. CASE WriteDown(p) \/ ReadSteps(p) \/ ReadTimeout(p)
    BY <1>2, <2>6 DEF WriteDown, ReadSteps, Look, ReadGiveUp, ReadTimeout
  <2> QED
    BY <1>6, <2>1, <2>2, <2>3, <2>4, <2>5, <2>6 DEF WriteSteps
<1>7. ASSUME NEW p \in Procs, ReleaseSteps(p) PROVE UrbTypes'
  BY <1>2, <1>3, <1>7 DEF ReleaseSteps, Clean, KillUrb, NextUrb
<1>8. ASSUME NEW n \in Notifiers, NotifySteps(n) PROVE UrbTypes'
  BY <1>2, <1>8 DEF NotifySteps, UpSem, QMIWDSCallback, ReadAsync
<1>9. CASE ReadUrbs \/ Deregister \/ RemoverSteps \/ UNCHANGED gobiVars
  BY <1>2, <1>9 DEF ReadUrbs, IntCallback, ReadCallback, ReadFails, ReadCallbackResumes, Deregister, RemoverSteps,
     DeregisterClient, KillRead, DeregisterEnds, gobiVars
<1> QED
  BY <1>5, <1>6, <1>7, <1>8, <1>9 DEF GobiNext

\* So do the files.
LEMMA FileTypesStep ==
  ASSUME GobiTypes, [GobiNext]_gobiVars
  PROVE  FileTypes'
<1> DEFINE Marks == [open : BOOLEAN, id : Ids \union {NoId}]
<1>1. file \in [Files -> Marks]
  BY DEF GobiTypes, FileTypes
<1>2. UNCHANGED file => FileTypes'
  BY <1>1 DEF FileTypes
<1>3. \A f : \A b \in BOOLEAN : file' = [file EXCEPT ![f] = [open |-> b, id |-> NoId]] => FileTypes'
  <2>1. \A b \in BOOLEAN : [open |-> b, id |-> NoId] \in Marks
    OBVIOUS
  <2>2. \A f : \A x \in Marks : file' = [file EXCEPT ![f] = x] => file' \in [Files -> Marks]
    BY <1>1
  <2> QED
    BY <2>1, <2>2 DEF FileTypes
<1>4. ASSUME NEW f \in Files, Calls(f) \/ GetClientID(f) \/ ForceRelease(f) PROVE FileTypes'
  <2>1. CASE UserspaceOpen(f) \/ UserspaceClose(f)
    BY <1>2, <1>3, <2>1 DEF UserspaceOpen, UserspaceClose
  <2>2. CASE GetServiceFile(f) \/ UserspaceWrite(f) \/ UserspaceRead(f) \/ UserspacePoll(f) \/ ForceRelease(f)
    BY <1>2, <2>2 DEF GetServiceFile, UserspaceWrite, UserspaceRead, UserspacePoll, ForceRelease
  <2>3. CASE GetClientID(f)
    <3>1. task[User(f)].got.id \in Ids \union {NoId}
      BY ProcsOf DEF GobiTypes, TaskTypes, Tasks, Messages
    <3> QED
      BY <1>1, <1>2, <2>3, <3>1 DEF GetClientID, FileTypes
  <2> QED
    BY <1>4, <2>1, <2>2, <2>3 DEF Calls
<1>5. ASSUME NEW p \in Procs, WriteSteps(p) \/ ReadSteps(p) \/ ReadTimeout(p) PROVE FileTypes'
  BY <1>2, <1>5 DEF WriteSteps, AddToURBList, Submit, SubmitFails, WriteSyncCallback, WriteDown, WritePop,
     ReadSteps, Look, ReadGiveUp, ReadTimeout
<1>6. ASSUME NEW p \in Procs, ReleaseSteps(p) PROVE FileTypes'
  <2>1. \A C : Released(p, C) => FileTypes'
    BY <1>2, <1>3 DEF Released
  <2>2. \A c, n : FreeUrbsOrDelete(p, c, n) => FileTypes'
    BY <1>2, <2>1 DEF FreeUrbsOrDelete
  <2>3. CASE Clean(p)
    <3>1. CASE ~Present(task[p].arg)
      BY <2>1, <2>3, <3>1 DEF Clean
    <3>2. CASE Present(task[p].arg) /\ mem[task[p].arg].notify # <<>>
      BY <1>2, <2>3, <3>2 DEF Clean
    <3>3. CASE Present(task[p].arg) /\ mem[task[p].arg].notify = <<>>
      BY <2>2, <2>3, <3>3 DEF Clean
    <3> QED
      BY <3>1, <3>2, <3>3
  <2>4. CASE KillUrb(p) \/ NextUrb(p)
    BY <1>2, <2>1, <2>2, <2>4 DEF KillUrb, NextUrb
  <2> QED
    BY <1>6, <2>3, <2>4 DEF ReleaseSteps
<1>7. ASSUME NEW n \in Notifiers, NotifySteps(n) PROVE FileTypes'
  BY <1>2, <1>7 DEF NotifySteps, UpSem, QMIWDSCallback, ReadAsync
<1>8. CASE ReadUrbs \/ Deregister \/ RemoverSteps \/ UNCHANGED gobiVars
  BY <1>2, <1>8 DEF ReadUrbs, IntCallback, ReadCallback, ReadFails, ReadCallbackResumes, Deregister, RemoverSteps,
     DeregisterClient, KillRead, DeregisterEnds, gobiVars
<1> QED
  BY <1>4, <1>5, <1>6, <1>7, <1>8 DEF GobiNext

\* So do the flags of the device and the place of the URBs that read.
LEMMA DeviceTypesStep ==
  ASSUME GobiTypes, [GobiNext]_gobiVars
  PROVE  DeviceTypes'
<1>1. DeviceTypes
  BY DEF GobiTypes
<1>2. ASSUME NEW f \in Files, Calls(f) \/ GetClientID(f) \/ ForceRelease(f) PROVE DeviceTypes'
  BY <1>1, <1>2 DEF Calls, UserspaceOpen, GetServiceFile, UserspaceWrite, UserspaceRead, UserspacePoll,
     UserspaceClose, GetClientID, ForceRelease, DeviceTypes
<1>3. ASSUME NEW p \in Procs, WriteSteps(p) \/ ReadSteps(p) \/ ReadTimeout(p) PROVE DeviceTypes'
  BY <1>1, <1>3 DEF WriteSteps, AddToURBList, Submit, SubmitFails, WriteSyncCallback, WriteDown, WritePop,
     ReadSteps, Look, ReadGiveUp, ReadTimeout, DeviceTypes
<1>4. ASSUME NEW p \in Procs, ReleaseSteps(p) PROVE DeviceTypes'
  BY <1>1, <1>4 DEF ReleaseSteps, Clean, KillUrb, NextUrb, DeviceTypes
<1>5. ASSUME NEW n \in Notifiers, NotifySteps(n) PROVE DeviceTypes'
  BY <1>1, <1>5 DEF NotifySteps, UpSem, QMIWDSCallback, ReadAsync, Notified, DeviceTypes
<1>6. CASE ReadUrbs
  <2>1. \A k, C, m, s : ServeFrom(k, C, m, s) => reading' \in {"armed", "notify"}
    <3> TAKE k, C, m, s
    <3> HAVE ServeFrom(k, C, m, s)
    <3>1. reading' = IF Stops(k, C, m.tid) = {} THEN "armed" ELSE "notify"
      BY DEF ServeFrom, Stops, Hits
    <3> QED
      BY <3>1
  <2>2. CASE ReadCallback
    <3>1. \E C, m : ServeFrom(1, C, m, {}) /\ device' = device
      BY <2>2, MessageOf
    <3> QED
      BY <1>1, <2>1, <3>1 DEF DeviceTypes
  <2>3. CASE ReadCallbackResumes
    BY <1>1, <2>1, <2>3 DEF ReadCallbackResumes, DeviceTypes
  <2> QED
    BY <1>1, <1>6, <2>2, <2>3 DEF ReadUrbs, IntCallback, ReadFails, DeviceTypes
<1>7. CASE Deregister \/ RemoverSteps \/ UNCHANGED gobiVars
  BY <1>1, <1>7 DEF Deregister, RemoverSteps, DeregisterClient, KillRead, DeregisterEnds, gobiVars, DeviceTypes
<1> QED
  BY <1>2, <1>3, <1>4, <1>5, <1>6, <1>7 DEF GobiNext

\* So does ReadCallback.
LEMMA CbTypesStep ==
  ASSUME GobiTypes, [GobiNext]_gobiVars
  PROVE  CbTypes'
<1>1. CbTypes
  BY DEF GobiTypes
<1>2. UNCHANGED cb => CbTypes'
  BY <1>1 DEF CbTypes
<1>3. ASSUME NEW f \in Files, Calls(f) \/ GetClientID(f) \/ ForceRelease(f) PROVE CbTypes'
  BY <1>2, <1>3 DEF Calls, UserspaceOpen, GetServiceFile, UserspaceWrite, UserspaceRead, UserspacePoll,
     UserspaceClose, GetClientID, ForceRelease
<1>4. ASSUME NEW p \in Procs, WriteSteps(p) \/ ReadSteps(p) \/ ReadTimeout(p) PROVE CbTypes'
  BY <1>2, <1>4 DEF WriteSteps, AddToURBList, Submit, SubmitFails, WriteSyncCallback, WriteDown, WritePop,
     ReadSteps, Look, ReadGiveUp, ReadTimeout
<1>5. ASSUME NEW p \in Procs, ReleaseSteps(p) PROVE CbTypes'
  BY <1>2, <1>5 DEF ReleaseSteps, Clean, KillUrb, NextUrb
<1>6. ASSUME NEW n \in Notifiers, NotifySteps(n) PROVE CbTypes'
  BY <1>2, <1>6 DEF NotifySteps, UpSem, QMIWDSCallback, ReadAsync
<1>7. CASE ReadUrbs
  <2>1. ASSUME NEW k \in Nat \ {0}, NEW C \in SUBSET Targets, NEW m \in Messages, NEW s, ServeFrom(k, C, m, s)
        PROVE  CbTypes'
    <3> DEFINE at == Stop(k, C, m.tid)
    <3>1. ClientTypes /\ NoMsg \in Messages /\ NoId \in Targets
      BY GobiAssumption DEF GobiTypes, NoMsg, Messages, Targets
    <3>2. at \in Targets
      <4>1. at # NoId => at \in Seen(k, C, m.tid) /\ Seen(k, C, m.tid) \in SUBSET Clients
        BY <3>1, SeenOf
      <4> HIDE DEF at
      <4> QED
        BY <4>1 DEF Targets
    <3>4. cb' = IF Stops(k, C, m.tid) = {} THEN Gone ELSE [at |-> at, to |-> C, m |-> m]
      BY <2>1 DEF ServeFrom, Stop, End, Stops, Hits
    <3> HIDE DEF at
    <3>3. cb' = Gone \/ cb' = [at |-> at, to |-> C, m |-> m]
      BY <3>4
    <3> QED
      BY <3>1, <3>2, <3>3 DEF CbTypes, Gone
  <2>2. CASE ReadCallback
    <3>1. \E C \in SUBSET Targets, m \in Messages : ServeFrom(1, C, m, {})
      BY <2>2, MessageOf
    <3> QED
      BY <2>1, <3>1
  <2>3. CASE ReadCallbackResumes
    <3>1. Position(cb.at) + 1 \in Nat \ {0}
      BY PositionOf DEF GobiTypes, ClientTypes
    <3>2. cb.to \in SUBSET Targets /\ cb.m \in Messages
      BY <1>1 DEF CbTypes
    <3>3. ServeFrom(Position(cb.at) + 1, cb.to, cb.m, {cb.at})
      BY <2>3 DEF ReadCallbackResumes
    <3> QED
      BY <2>1, <3>1, <3>2, <3>3
  <2> QED
    BY <1>2, <1>7, <2>2, <2>3 DEF ReadUrbs, IntCallback, ReadFails
<1>8. CASE Deregister \/ RemoverSteps \/ UNCHANGED gobiVars
  BY <1>2, <1>8 DEF Deregister, RemoverSteps, DeregisterClient, KillRead, DeregisterEnds, gobiVars
<1> QED
  BY <1>3, <1>4, <1>5, <1>6, <1>7, <1>8 DEF GobiNext

\* So do the requests and what the modem keeps.
LEMMA WireTypesStep ==
  ASSUME GobiTypes, [GobiNext]_gobiVars
  PROVE  WireTypes'
<1>1. WireTypes
  BY DEF GobiTypes
<1>2. UNCHANGED modem => WireTypes'
  BY <1>1 DEF modem, WireTypes
<1>3. ASSUME NEW f \in Files, Calls(f) \/ GetClientID(f) \/ ForceRelease(f) PROVE WireTypes'
  BY <1>2, <1>3 DEF Calls, UserspaceOpen, GetServiceFile, UserspaceWrite, UserspaceRead, UserspacePoll,
     UserspaceClose, GetClientID, ForceRelease
<1>4. ASSUME NEW p \in Procs, WriteSteps(p) \/ ReadSteps(p) \/ ReadTimeout(p) PROVE WireTypes'
  <2>1. CASE WriteSyncCallback(p)
    <3>1. task[p] \in Tasks
      BY DEF GobiTypes, TaskTypes
    <3>2. [op |-> task[p].op, c |-> task[p].c, tid |-> task[p].tid, of |-> task[p].u, arg |-> task[p].arg]
            \in Requests
      BY <3>1 DEF Tasks, Requests
    <3> QED
      BY <1>1, <2>1, <3>2 DEF WriteSyncCallback, WireTypes
  <2> QED
    BY <1>2, <1>4, <2>1 DEF WriteSteps, AddToURBList, Submit, SubmitFails, WriteDown, WritePop,
       ReadSteps, Look, ReadGiveUp, ReadTimeout
<1>5. ASSUME NEW p \in Procs, ReleaseSteps(p) PROVE WireTypes'
  BY <1>2, <1>5 DEF ReleaseSteps, Clean, KillUrb, NextUrb
<1>6. ASSUME NEW n \in Notifiers, NotifySteps(n) PROVE WireTypes'
  BY <1>2, <1>6 DEF NotifySteps, UpSem, QMIWDSCallback, ReadAsync
<1>7. CASE ReadUrbs
  <2>1. CASE ReadCallback
    <3>1. used' \subseteq Ids /\ inds' \in 0..MaxInds /\ (wire' = wire \/ \E r : wire' = wire \ {r})
      BY <2>1, MessageOf
    <3> QED
      BY <1>1, <3>1 DEF WireTypes
  <2> QED
    BY <1>2, <1>7, <2>1 DEF ReadUrbs, IntCallback, ReadFails, ReadCallbackResumes
<1>8. CASE Deregister \/ RemoverSteps \/ UNCHANGED gobiVars
  BY <1>2, <1>8 DEF Deregister, RemoverSteps, DeregisterClient, KillRead, DeregisterEnds, gobiVars, modem
<1> QED
  BY <1>3, <1>4, <1>5, <1>6, <1>7, <1>8 DEF GobiNext

\* Everything has its type at first, and keeps it.
LEMMA GobiTypesInit ==
  GobiInit => GobiTypes
<1> SUFFICES ASSUME GobiInit PROVE GobiTypes
  OBVIOUS
<1>1. NoMsg \in Messages /\ WdsEntry \in Entries /\ NoTask \in Tasks
  BY ProcsOf, OnwardOf, GobiAssumption
     DEF NoMsg, Messages, WdsEntry, Entry, Entries, NoTask, Tasks, Places, Targets, CallKinds
<1>2. ClientTypes
  <2>1. <<QMICTL, QMIWDS>> \in Seq(Clients)
    BY DEF Clients
  <2>2. NoMem \in Memories /\ [NoMem EXCEPT !.notify = <<WdsEntry>>] \in Memories
    <3>1. <<WdsEntry>> \in Seq(Entries)
      BY <1>1
    <3>2. NoMem \in Memories
      BY DEF NoMem, Memories
    <3>3. \A l \in Seq(Entries) : [NoMem EXCEPT !.notify = l] \in Memories
      BY <3>2 DEF Memories
    <3> QED
      BY <3>1, <3>2, <3>3
  <2> QED
    BY <2>1, <2>2 DEF GobiInit, ClientTypes
<1>3. TaskTypes /\ HeldTypes
  BY <1>1 DEF GobiInit, TaskTypes, HeldTypes
<1>4. UrbTypes /\ FileTypes /\ DeviceTypes
  BY GobiAssumption DEF GobiInit, UrbTypes, FileTypes, DeviceTypes
<1>5. CbTypes /\ WireTypes
  BY <1>1, GobiAssumption DEF GobiInit, CbTypes, WireTypes, Gone, Targets
<1> QED
  BY <1>2, <1>3, <1>4, <1>5 DEF GobiTypes

\* Every step keeps the types.
LEMMA GobiTypesStep ==
  GobiTypes /\ [GobiNext]_gobiVars => GobiTypes'
<1> SUFFICES ASSUME GobiTypes, [GobiNext]_gobiVars PROVE GobiTypes'
  OBVIOUS
<1>1. TaskTypes'
  <2>1. CASE UNCHANGED gobiVars
    BY <2>1 DEF GobiTypes, TaskTypes, gobiVars
  <2>2. CASE \E p \in Procs : WriteSteps(p) \/ ReadSteps(p) \/ ReadTimeout(p)
    BY <2>2, SyncTaskTypes
  <2>3. CASE \E p \in Procs : ReleaseSteps(p)
    BY <2>3, ReleaseTaskTypes
  <2>4. CASE \E f \in Files : Calls(f) \/ GetClientID(f) \/ ForceRelease(f)
    BY <2>4, CallTaskTypes
  <2> QED
    BY <2>1, <2>2, <2>3, <2>4, OtherTaskTypes DEF GobiNext
<1> QED
  BY <1>1, ClientTypesStep, HeldTypesStep, UrbTypesStep, FileTypesStep, DeviceTypesStep, CbTypesStep, WireTypesStep
     DEF GobiTypes

-----------------------------------------------------------------------------
(* Requests of QMICTL and their answers.                                    *)

\* QMICTL is the first client, and only the first.
CtlFirst ==
  /\ \A i \in 1..Len(clist) : clist[i] = QMICTL => i = 1
  /\ \A p \in Procs : task[p].nxt # QMICTL

\* A client is added behind the others, and taken out between two.
LEMMA CtlFirstStep ==
  ASSUME GobiTypes, CtlFirst, [GobiNext]_gobiVars
  PROVE  CtlFirst'
<1>1. /\ clist \in Seq(Clients) /\ Len(clist) \in Nat /\ task \in [Procs -> Tasks] /\ QMICTL # NoId
      /\ \A i \in 1..Len(clist) : clist[i] = QMICTL => i = 1
      /\ \A p \in Procs : task[p].nxt # QMICTL
      /\ NoTask.nxt = NoId
  BY GobiAssumption DEF GobiTypes, ClientTypes, TaskTypes, CtlFirst, NoTask
<1> DEFINE Same == \A p \in Procs : task'[p].nxt \in {task[p].nxt, NoId}
<1>2. UNCHANGED clist /\ Same => CtlFirst'
  BY <1>1 DEF CtlFirst
<1>3. \A l : \A t \in Tasks : Onward(t, l).nxt \in {t.nxt, NoId}
  BY <1>1 DEF Onward, Tasks
<1>4. \A p, l : Goto(p, l) => Same
  BY <1>1, <1>3 DEF Goto
<1>5. \A p, t : t.nxt = NoId /\ task' = [task EXCEPT ![p] = t] => Same
  BY <1>1
<1>6. \A C : task' = PollersWoken(C) => Same
  BY <1>1 DEF PollersWoken
<1>7. \A p, o, c : CtlRequest(p, o, c) => Same
  <2> TAKE p, o, c
  <2> HAVE CtlRequest(p, o, c)
  <2> DEFINE t == [NoTask EXCEPT !.pc = "w_add", !.op = o, !.c = QMICTL, !.tid = NextTid, !.arg = c]
  <2>1. t.nxt = NoId
    BY <1>1 DEF NoTask
  <2>2. task' = [task EXCEPT ![p] = t]
    BY DEF CtlRequest
  <2> HIDE DEF t
  <2> QED
    BY <1>5, <2>1, <2>2
<1> HIDE DEF Same
<1>8. ASSUME NEW f \in Files, Calls(f) \/ GetClientID(f) \/ ForceRelease(f) PROVE CtlFirst'
  <2>1. CASE UserspaceOpen(f)
    BY <1>2, <2>1 DEF UserspaceOpen, Same
  <2>2. CASE GetServiceFile(f)
    BY <1>2, <1>7, <2>2 DEF GetServiceFile
  <2>3. \A l, o : [NoTask EXCEPT !.pc = l, !.op = o, !.c = file[f].id].nxt = NoId
    BY <1>1 DEF NoTask
  <2>4. CASE UserspaceWrite(f) \/ UserspaceRead(f) \/ UserspacePoll(f)
    <3> DEFINE New(l, o) == [NoTask EXCEPT !.pc = l, !.op = o, !.c = file[f].id]
    <3>1. \A l, o : New(l, o).nxt = NoId
      BY <2>3
    <3>2. /\ clist' = clist
          /\ \/ task' = [task EXCEPT ![User(f)] = New("w_add", "write")]
             \/ task' = [task EXCEPT ![Reader(f)] = New("r_look", "read")]
             \/ task' = [task EXCEPT ![Reader(f)] = New("poll", "poll")]
      BY <2>4 DEF UserspaceWrite, UserspaceRead, UserspacePoll
    <3> HIDE DEF New
    <3> QED
      BY <1>2, <1>5, <3>1, <3>2
  <2>5. CASE UserspaceClose(f)
    BY <1>2, <1>7, <2>5 DEF UserspaceClose, Same
  <2>6. CASE GetClientID(f)
    <3> DEFINE id == task[User(f)].got.id
    <3>1. Same
      BY <1>4, <2>6 DEF GetClientID
    <3>2. CASE clist' = Append(clist, id) /\ id # NoId
      <4>1. id \in Clients /\ id # QMICTL
        BY <3>2, ProcsOf, GobiAssumption DEF GobiTypes, TaskTypes, Tasks, Messages, Clients
      <4> HIDE DEF id
      <4>2. /\ Len(clist') = Len(clist) + 1 /\ clist'[Len(clist) + 1] = id
            /\ \A i \in 1..Len(clist) : clist'[i] = clist[i]
        BY <1>1, <3>2, <4>1, AppendOf
      <4>3. \A i \in 1..Len(clist') : clist'[i] = QMICTL => i = 1
        BY <1>1, <4>1, <4>2
      <4> QED
        BY <1>1, <3>1, <4>3 DEF CtlFirst, Same
    <3> QED
      BY <1>2, <2>6, <3>1, <3>2 DEF GetClientID
  <2>7. CASE ForceRelease(f)
    BY <1>2, <1>4, <1>7, <2>7 DEF ForceRelease
  <2> QED
    BY <1>8, <2>1, <2>2, <2>4, <2>5, <2>6, <2>7 DEF Calls
<1>9. ASSUME NEW p \in Procs, WriteSteps(p) \/ ReadSteps(p) \/ ReadTimeout(p) PROVE CtlFirst'
  <2>1. CASE AddToURBList(p)
    <3> DEFINE u == Min({x \in Urbs : urb[x] = "none"})
    <3>1. task' = [task EXCEPT ![p].pc = "w_submit", ![p].u = u] => Same
      <4> HIDE DEF u
      <4> QED
        BY <1>1 DEF Tasks, Same
    <3> QED
      BY <1>2, <1>4, <2>1, <3>1 DEF AddToURBList
  <2>2. CASE Submit(p) \/ SubmitFails(p) \/ WritePop(p) \/ ReadGiveUp(p) \/ ReadTimeout(p)
    BY <1>2, <1>4, <2>2 DEF Submit, SubmitFails, WritePop, ReadGiveUp, ReadTimeout
  <2>3. CASE WriteSyncCallback(p)
    BY <1>2, <2>3 DEF WriteSyncCallback, Same
  <2>4. CASE WriteDown(p)
    <3>1. PICK s \in BOOLEAN : task' = [task EXCEPT ![p].pc = "w_pop", ![p].sig = s]
      BY <2>4 DEF WriteDown
    <3>2. Same
      BY <1>1, <3>1 DEF Tasks, Same
    <3> QED
      BY <1>2, <2>4, <3>2 DEF WriteDown
  <2>5. CASE Look(p)
    <3> DEFINE m == mem[task[p].c].list[FirstRead(task[p].c, task[p].tid)]
    <3>1. \A x, l : Onward([task[p] EXCEPT !.got = x], l).nxt \in {task[p].nxt, NoId}
      BY <1>1 DEF Onward, Tasks
    <3>2. task' = [task EXCEPT ![p] = Onward([task[p] EXCEPT !.got = m], AfterRead(p, TRUE))] => Same
      <4>1. \A t : t.nxt \in {task[p].nxt, NoId} /\ task' = [task EXCEPT ![p] = t] => Same
        BY <1>1 DEF Same
      <4> HIDE DEF m
      <4> QED
        BY <3>1, <4>1
    <3>3. task' = [task EXCEPT ![p].pc = "r_wait", ![p].fresh = TRUE] => Same
      BY <1>1 DEF Tasks, Same
    <3> QED
      BY <1>2, <1>4, <2>5, <3>2, <3>3 DEF Look
  <2> QED
    BY <1>9, <2>1, <2>2, <2>3, <2>4, <2>5 DEF WriteSteps, ReadSteps
<1>10. ASSUME NEW p \in Procs, ReleaseSteps(p) PROVE CtlFirst'
  <2>1. \A C : Released(p, C) => Same
    <3> TAKE C
    <3>1. \A o, l : [NoTask EXCEPT !.op = o, !.pc = l].nxt = NoId
      BY <1>1 DEF NoTask
    <3>2. \A h \in Procs : [task[h] EXCEPT !.fresh = @ /\ task[h].c \notin C].nxt = task[h].nxt
      BY <1>1 DEF Tasks
    <3> QED
      BY <3>1, <3>2 DEF Released, Same
  <2>2. \A c, n : n # QMICTL /\ Present(c) /\ FreeUrbsOrDelete(p, c, n) => CtlFirst'
    <3> TAKE c, n
    <3> HAVE n # QMICTL /\ Present(c) /\ FreeUrbsOrDelete(p, c, n)
    <3>1. CASE mem[c].urbs # <<>>
      <4>1. task' = [task EXCEPT ![p].pc = "c_kill", ![p].u = Head(mem[c].urbs), ![p].nxt = n] /\ clist' = clist
        BY <3>1 DEF FreeUrbsOrDelete
      <4>2. \A h \in Procs : task'[h].nxt # QMICTL
        BY <1>1, <4>1 DEF Tasks
      <4> QED
        BY <1>1, <4>1, <4>2 DEF CtlFirst
    <3>2. CASE mem[c].urbs = <<>>
      <4> DEFINE k == Position(c) - 1
                 j == IF n = NoId \/ ~Present(n) THEN Len(clist) + 1 ELSE Position(n)
      <4>1. clist' = Without(c, n) /\ Same
        BY <2>1, <3>2 DEF FreeUrbsOrDelete, Without
      <4>2. /\ k \in Nat /\ j \in 1..(Len(clist) + 1) /\ k < Len(clist)
            /\ Len(clist') = k + (Len(clist) + 1 - j)
            /\ \A i \in 1..Len(clist') : clist'[i] = IF i <= k THEN clist[i] ELSE clist[i - k + j - 1]
        BY <4>1, WithoutOf DEF GobiTypes
      <4>3. j # Len(clist) + 1 => clist[j] # QMICTL
        BY PositionOf DEF GobiTypes, ClientTypes
      <4> HIDE DEF k, j
      <4>4. \A i \in 1..Len(clist') : clist'[i] = QMICTL => i = 1
        <5> TAKE i \in 1..Len(clist')
        <5> HAVE clist'[i] = QMICTL
        <5>1. CASE i <= k
          <6>1. i \in 1..Len(clist) /\ clist[i] = QMICTL
            BY <1>1, <4>2, <5>1
          <6> QED
            BY <1>1, <6>1
        <5>2. CASE ~(i <= k)
          <6>1. i - k + j - 1 \in 1..Len(clist) /\ clist[i - k + j - 1] = QMICTL
            BY <1>1, <4>2, <5>2
          <6>2. i - k + j - 1 = 1
            BY <1>1, <6>1
          <6>3. j = 1 /\ Len(clist) # 0
            BY <1>1, <4>2, <5>2, <6>2
          <6> QED
            BY <1>1, <4>3, <6>1, <6>2, <6>3
        <5> QED
          BY <5>1, <5>2
      <4> QED
        BY <1>1, <4>1, <4>4 DEF CtlFirst, Same
    <3> QED
      BY <3>1, <3>2
  <2>3. CASE Clean(p)
    <3> DEFINE c == task[p].arg
               nxt == IF task[p].pc = "clean" THEN Succ(c) ELSE task[p].nxt
    <3>1. Present(c) => nxt # QMICTL
      <4>1. Present(c) => Position(c) \in 1..Len(clist)
        BY <1>1, PositionOf
      <4>2. Present(c) => Succ(c) # QMICTL
        BY <1>1, <4>1 DEF Succ
      <4> QED
        BY <1>1, <4>2
    <3> HIDE DEF nxt
    <3>2. CASE ~Present(c)
      BY <1>2, <2>1, <2>3, <3>2 DEF Clean
    <3>3. CASE Present(c) /\ mem[c].notify # <<>>
      <4>1. task' = [task EXCEPT ![p].pc = "c_up", ![p].nxt = nxt] /\ clist' = clist
        BY <2>3, <3>3 DEF Clean, nxt
      <4>2. \A h \in Procs : task'[h].nxt # QMICTL
        BY <1>1, <3>1, <3>3, <4>1 DEF Tasks
      <4> QED
        BY <1>1, <4>1, <4>2 DEF CtlFirst
    <3>4. CASE Present(c) /\ mem[c].notify = <<>>
      <4>1. FreeUrbsOrDelete(p, c, nxt)
        BY <2>3, <3>4 DEF Clean, nxt
      <4> QED
        BY <2>2, <3>1, <3>4, <4>1
    <3> QED
      BY <3>2, <3>3, <3>4
  <2>4. CASE KillUrb(p)
    BY <1>2, <1>4, <2>4 DEF KillUrb
  <2>5. CASE NextUrb(p)
    BY <1>1, <1>2, <2>1, <2>2, <2>5 DEF NextUrb
  <2> QED
    BY <1>10, <2>3, <2>4, <2>5 DEF ReleaseSteps
<1>11. ASSUME NEW n \in Notifiers, NotifySteps(n) PROVE CtlFirst'
  <2>1. \A t \in [Procs -> Tasks] : (\A p \in Procs : t[p].nxt = task[p].nxt) /\ Notified(n, t) => Same
    BY DEF Notified, Same, Tasks
  <2>2. CASE UpSem(n)
    <3> DEFINE t == [task EXCEPT ![held[n].who].pc = IF @ = "r_wait" THEN "r_look" ELSE @]
    <3>1. Notified(n, t)
      BY <2>2 DEF UpSem
    <3>2. t \in [Procs -> Tasks] /\ \A p \in Procs : t[p].nxt = task[p].nxt
      <4>1. \A p \in Procs : LET r == [task[p] EXCEPT !.pc = IF @ = "r_wait" THEN "r_look" ELSE @] IN
              r \in Tasks /\ r.nxt = task[p].nxt
        BY <1>1 DEF Tasks, Places
      <4>2. held[n].who \in Procs
        BY <2>2 DEF UpSem
      <4> QED
        BY <1>1, <4>1, <4>2
    <3> HIDE DEF t
    <3> QED
      BY <1>2, <2>1, <2>2, <3>1, <3>2 DEF UpSem
  <2>3. CASE QMIWDSCallback(n) \/ ReadAsync(n)
    BY <1>1, <1>2, <2>1, <2>3 DEF QMIWDSCallback, ReadAsync, Same
  <2> QED
    BY <1>11, <2>2, <2>3 DEF NotifySteps
<1>12. CASE ReadUrbs
  <2>1. \A k, C, m, s : ServeFrom(k, C, m, s) => Same
    <3> TAKE k, C, m, s
    <3> HAVE ServeFrom(k, C, m, s)
    <3>1. \E D : task' = PollersWoken(D)
      BY DEF ServeFrom
    <3> QED
      BY <1>6, <3>1
  <2>2. CASE ReadCallback
    <3>1. \E C, m : ServeFrom(1, C, m, {}) /\ clist' = clist
      BY <2>2, MessageOf
    <3> QED
      BY <1>2, <2>1, <3>1
  <2>3. CASE ReadCallbackResumes
    BY <1>2, <2>1, <2>3 DEF ReadCallbackResumes
  <2>4. CASE IntCallback \/ ReadFails
    BY <1>2, <2>4 DEF IntCallback, ReadFails, Same
  <2> QED
    BY <1>12, <2>2, <2>3, <2>4 DEF ReadUrbs
<1>13. CASE Deregister \/ KillRead \/ DeregisterEnds \/ UNCHANGED gobiVars
  BY <1>2, <1>4, <1>13 DEF Deregister, KillRead, DeregisterEnds, gobiVars, Same
<1>14. CASE DeregisterClient
  <2>1. [NoTask EXCEPT !.pc = "clean", !.arg = Head(clist)].nxt = NoId
    BY <1>1 DEF NoTask
  <2> QED
    BY <1>2, <1>5, <1>6, <1>14, <2>1 DEF DeregisterClient
<1> QED
  BY <1>8, <1>9, <1>10, <1>11, <1>12, <1>13, <1>14 DEF GobiNext, RemoverSteps

\* Where a process is in WriteSync or ReadSync, and where its request is not yet with
\* the modem.
AskPlaces == {"w_add", "w_submit", "w_wait", "w_pop", "r_look", "r_wait", "r_remove"}
Early == {"w_add", "w_submit"}
Asks(t) == t.pc \in AskPlaces /\ t.c = QMICTL

\* Request r is the one of task t, message m the answer to it.
Own(t, r) == t.pc \notin Early /\ r.of = t.u /\ r.op = t.op /\ r.arg = t.arg
Answers(t, m) ==
  /\ t.pc \notin Early /\ m.of = t.u
  /\ t.op \in Gets => m.id \in IdsOf(t.arg) \union {NoId}

\* A request of QMICTL has a transaction id; what the modem has with that id, and what
\* came with it, is of this request and of no other.
GoodTask(t) ==
  /\ t.pc \in AskPlaces /\ (t.c = QMICTL \/ t.op \in Gets \union Releases) =>
       t.c = QMICTL /\ t.tid # 0 /\ t.op \in Gets \union Releases
  /\ t.pc = "alloc" => t.op \in Gets /\ Answers(t, t.got)
AskTask == \A p \in Procs : GoodTask(task[p])
AskWire ==
  \A p \in Procs : Asks(task[p]) =>
    \A r \in wire : r.c = QMICTL /\ r.tid = task[p].tid => Own(task[p], r)
AskList ==
  \A p \in Procs : Asks(task[p]) =>
    \A i \in 1..Len(mem[QMICTL].list) :
      mem[QMICTL].list[i].tid = task[p].tid => Answers(task[p], mem[QMICTL].list[i])
AskApart ==
  \A p, h \in Procs : Asks(task[p]) /\ Asks(task[h]) /\ task[p].tid = task[h].tid => p = h
\* An answer to a request of QMICTL is for nobody else.
AskCb ==
  reading \in {"notify", "back"} /\ QMICTL \in cb.to => cb.to = {QMICTL} /\ cb.at = QMICTL
AskOps ==
  \A r \in wire :
    (r.op = "write" => r.c # QMICTL) /\ (r.op \in Gets \union Releases => r.c = QMICTL)
AskInv == AskTask /\ AskWire /\ AskList /\ AskApart /\ AskCb /\ AskOps

\* How task t may go on as s: not in a request, with one of another client, in its own.
Follows(t, s) ==
  \/ s.pc \notin AskPlaces \union {"alloc"}
  \/ s.pc # "alloc" /\ s.op \notin Gets \union Releases /\ s.c # QMICTL
  \/ /\ s.c = t.c /\ s.tid = t.tid /\ s.op = t.op /\ s.arg = t.arg
     /\ s.u = t.u \/ t.pc = "w_add"
     /\ s.pc \in AskPlaces => t.pc \in AskPlaces
     /\ s.pc \in Early => t.pc \in Early
     /\ s.pc = "alloc" => t.pc = "alloc" /\ s.got = t.got
Shrinks ==
  \A i \in 1..Len(mem'[QMICTL].list) : \E j \in 1..Len(mem[QMICTL].list) :
    mem'[QMICTL].list[i] = mem[QMICTL].list[j]

\* A task that goes on like that has the request it had.
LEMMA FollowsOf ==
  ASSUME NEW t, NEW s, GoodTask(t), Follows(t, s)
  PROVE  /\ GoodTask(s)
         /\ Asks(s) =>
              /\ Asks(t) /\ s.tid = t.tid
              /\ \A r : Own(t, r) => Own(s, r)
              /\ \A m : Answers(t, m) => Answers(s, m)
<1>1. CASE s.pc \notin AskPlaces \union {"alloc"}
  BY <1>1 DEF GoodTask, Asks
<1>2. CASE s.pc # "alloc" /\ s.op \notin Gets \union Releases /\ s.c # QMICTL
  BY <1>2 DEF GoodTask, Asks
<1>3. CASE /\ s.c = t.c /\ s.tid = t.tid /\ s.op = t.op /\ s.arg = t.arg
           /\ s.u = t.u \/ t.pc = "w_add"
           /\ s.pc \in AskPlaces => t.pc \in AskPlaces
           /\ s.pc \in Early => t.pc \in Early
           /\ s.pc = "alloc" => t.pc = "alloc" /\ s.got = t.got
  <2>1. t.pc \notin Early => s.pc \notin Early /\ s.u = t.u
    BY <1>3 DEF Early
  <2>2. \A r : Own(t, r) => Own(s, r)
    BY <1>3, <2>1 DEF Own
  <2>3. \A m : Answers(t, m) => Answers(s, m)
    BY <1>3, <2>1 DEF Answers
  <2>4. Asks(s) => Asks(t)
    BY <1>3 DEF Asks
  <2>5. GoodTask(s)
    BY <1>3, <2>3 DEF GoodTask
  <2> QED
    BY <1>3, <2>2, <2>3, <2>4, <2>5
<1> QED
  BY <1>1, <1>2, <1>3 DEF Follows

\* No request or message is mistaken when every process goes on like that and nothing
\* new comes.
LEMMA FollowsKeeps ==
  ASSUME AskInv, \A p \in Procs : Follows(task[p], task'[p]), Shrinks, wire' \subseteq wire
  PROVE  AskTask' /\ AskWire' /\ AskList' /\ AskApart' /\ AskOps'
<1>1. \A p \in Procs :
        /\ GoodTask(task'[p])
        /\ Asks(task'[p]) =>
             /\ Asks(task[p]) /\ task'[p].tid = task[p].tid
             /\ \A r : Own(task[p], r) => Own(task'[p], r)
             /\ \A m : Answers(task[p], m) => Answers(task'[p], m)
  BY FollowsOf DEF AskInv, AskTask
<1>2. AskTask'
  BY <1>1 DEF AskTask
<1>3. AskWire'
  BY <1>1 DEF AskInv, AskWire
<1>4. AskList'
  <2> SUFFICES ASSUME NEW p \in Procs, Asks(task'[p]), NEW i \in 1..Len(mem'[QMICTL].list),
                      mem'[QMICTL].list[i].tid = task'[p].tid
               PROVE  Answers(task'[p], mem'[QMICTL].list[i])
    BY DEF AskList
  <2>1. PICK j \in 1..Len(mem[QMICTL].list) : mem'[QMICTL].list[i] = mem[QMICTL].list[j]
    BY DEF Shrinks
  <2>2. Answers(task[p], mem[QMICTL].list[j])
    BY <1>1, <2>1 DEF AskInv, AskList
  <2> QED
    BY <1>1, <2>1, <2>2
<1>5. AskApart'
  BY <1>1 DEF AskInv, AskApart
<1>6. AskOps'
  BY DEF AskInv, AskOps
<1> QED
  BY <1>2, <1>3, <1>4, <1>5, <1>6

\* Changes of a task that do not change its request.
LEMMA FollowsTask ==
  ASSUME NEW t \in Tasks
  PROVE  /\ Follows(t, t) /\ Follows(t, NoTask)
         /\ \A l \in Places : l \notin Early \union {"alloc"} /\ (l \in AskPlaces => t.pc \in AskPlaces)
                                => Follows(t, Onward(t, l)) /\ Follows(t, [t EXCEPT !.pc = l])
         /\ \A b \in BOOLEAN : Follows(t, [t EXCEPT !.fresh = b])
<1>1. Follows(t, t)
  BY DEF Follows, AskPlaces
<1>2. Follows(t, NoTask)
  BY DEF Follows, AskPlaces, NoTask
<1>3. ASSUME NEW l \in Places, l \notin Early \union {"alloc"}, l \in AskPlaces => t.pc \in AskPlaces
      PROVE  Follows(t, Onward(t, l)) /\ Follows(t, [t EXCEPT !.pc = l])
  <2>1. Follows(t, [t EXCEPT !.pc = l])
    BY <1>3 DEF Follows, Tasks
  <2> QED
    BY <1>2, <2>1 DEF Onward
<1>4. \A b \in BOOLEAN : Follows(t, [t EXCEPT !.fresh = b])
  BY DEF Follows, Tasks, AskPlaces
<1> QED
  BY <1>1, <1>2, <1>3, <1>4

\* A new request has an id that no other has.
LEMMA RequestKeeps ==
  ASSUME GobiTypes, AskInv, NEW p \in Procs, NEW o \in Gets \union Releases, NEW c \in Targets,
         CtlRequest(p, o, c), wire' = wire
  PROVE  AskTask' /\ AskWire' /\ AskList' /\ AskApart' /\ AskOps'
<1> DEFINE t == [NoTask EXCEPT !.pc = "w_add", !.op = o, !.c = QMICTL, !.tid = NextTid, !.arg = c]
<1>1. task' = [task EXCEPT ![p] = t] /\ task \in [Procs -> Tasks]
  <2>1. task' = [task EXCEPT ![p] = t]
    BY DEF CtlRequest
  <2> QED
    BY <2>1 DEF GobiTypes, TaskTypes
<1>2. NextTid # 0
  <2>1. o \in CallKinds
    BY DEF CallKinds
  <2>2. NextTid \in 1..MaxTid
    BY <2>1, CtlTask
  <2> QED
    BY <2>2
<1>3. t.pc = "w_add" /\ t.op = o /\ t.c = QMICTL /\ t.tid = NextTid
  BY DEF NoTask
<1> HIDE DEF t
<1>4. /\ \A r \in wire : r.c = QMICTL => r.tid # NextTid
      /\ \A h \in Procs : task[h].pc \notin {"idle", "again"} /\ task[h].c = QMICTL => task[h].tid # NextTid
  BY DEF CtlRequest
<1>5. \A h \in Procs : Asks(task[h]) => task[h].tid # NextTid
  BY <1>4 DEF Asks, AskPlaces
<1>6. \A i \in 1..Len(mem'[QMICTL].list) :
        /\ mem'[QMICTL].list[i].tid # NextTid
        /\ \E j \in 1..Len(mem[QMICTL].list) : mem'[QMICTL].list[i] = mem[QMICTL].list[j]
  <2>1. ClientTypes /\ QMICTL \in Clients
    BY DEF GobiTypes, Clients
  <2>2. mem'[QMICTL].list = Purged(mem[QMICTL].list)
    BY <2>1, MemoryOf DEF CtlRequest, ClientTypes, Memories
  <2>3. mem[QMICTL].list \in Seq(Messages)
    BY <2>1, MemoryOf
  <2> QED
    BY <2>2, <2>3, PurgedOf
<1>7. task'[p] = t /\ \A h \in Procs \ {p} : task'[h] = task[h]
  BY <1>1
<1>8. AskTask'
  <2>1. GoodTask(t)
    BY <1>2, <1>3 DEF GoodTask
  <2> QED
    BY <1>7, <2>1 DEF AskTask, AskInv
<1>9. AskWire'
  <2> SUFFICES ASSUME NEW h \in Procs, Asks(task'[h]), NEW r \in wire, r.c = QMICTL, r.tid = task'[h].tid
               PROVE  Own(task'[h], r)
    BY DEF AskWire
  <2>1. h # p
    BY <1>3, <1>4, <1>7
  <2> QED
    BY <1>7, <2>1 DEF AskInv, AskWire
<1>10. AskList'
  <2> SUFFICES ASSUME NEW h \in Procs, Asks(task'[h]), NEW i \in 1..Len(mem'[QMICTL].list),
                      mem'[QMICTL].list[i].tid = task'[h].tid
               PROVE  Answers(task'[h], mem'[QMICTL].list[i])
    BY DEF AskList
  <2>1. h # p
    BY <1>3, <1>6, <1>7
  <2> QED
    BY <1>6, <1>7, <2>1 DEF AskInv, AskList
<1>11. AskApart'
  BY <1>3, <1>5, <1>7 DEF AskInv, AskApart
<1>12. AskOps'
  BY DEF AskInv, AskOps
<1> QED
  BY <1>8, <1>9, <1>10, <1>11, <1>12

\* A request goes to the modem.
LEMMA SendKeeps ==
  ASSUME GobiTypes, AskInv, NEW p \in Procs, WriteSyncCallback(p)
  PROVE  AskTask' /\ AskWire' /\ AskList' /\ AskApart' /\ AskOps'
<1> DEFINE r == [op |-> task[p].op, c |-> task[p].c, tid |-> task[p].tid, of |-> task[p].u, arg |-> task[p].arg]
<1>1. task' = task /\ mem' = mem /\ wire' = wire \union {r} /\ task[p].pc \in {"w_wait", "w_pop"}
  BY DEF WriteSyncCallback
<1>2. r.op = task[p].op /\ r.c = task[p].c /\ r.tid = task[p].tid /\ Own(task[p], r)
  BY <1>1 DEF Own, Early
<1> HIDE DEF r
<1>3. task[p].pc \in AskPlaces /\ GoodTask(task[p])
  BY <1>1 DEF AskPlaces, AskInv, AskTask
<1>4. AskWire'
  <2> SUFFICES ASSUME NEW h \in Procs, Asks(task[h]), NEW x \in wire \union {r}, x.c = QMICTL, x.tid = task[h].tid
               PROVE  Own(task[h], x)
    BY <1>1 DEF AskWire
  <2>1. CASE x \in wire
    BY <2>1 DEF AskInv, AskWire
  <2>2. CASE x = r
    <3>1. Asks(task[p]) /\ task[p].tid = task[h].tid
      BY <1>2, <1>3, <2>2 DEF Asks
    <3>2. p = h
      BY <3>1 DEF AskInv, AskApart
    <3> QED
      BY <1>2, <2>2, <3>2
  <2> QED
    BY <2>1, <2>2
<1>5. AskOps'
  <2>1. (r.op = "write" => r.c # QMICTL) /\ (r.op \in Gets \union Releases => r.c = QMICTL)
    BY <1>2, <1>3 DEF GoodTask, Gets, Releases
  <2> QED
    BY <1>1, <2>1 DEF AskInv, AskOps
<1> QED
  BY <1>1, <1>4, <1>5 DEF AskInv, AskTask, AskList, AskApart

\* ReadCallback brings the answer of the request that has its id.
LEMMA ServeKeeps ==
  ASSUME GobiTypes, CtlFirst, AskInv, ReadCallback \/ ReadCallbackResumes
  PROVE  AskInv'
<1>1. task \in [Procs -> Tasks] /\ ClientTypes /\ QMICTL \in Clients
  BY DEF GobiTypes, TaskTypes, Clients
<1>2. \A k, C, m, s : ServeFrom(k, C, m, s) => \A p \in Procs : Follows(task[p], task'[p])
  <2> TAKE k, C, m, s
  <2> HAVE ServeFrom(k, C, m, s)
  <2>1. \E D : task' = PollersWoken(D)
    BY DEF ServeFrom
  <2> QED
    BY <1>1, <2>1, FollowsTask DEF PollersWoken
<1>3. ASSUME NEW k \in Nat \ {0}, NEW C \in SUBSET Targets, NEW m \in Messages, NEW s, ServeFrom(k, C, m, s),
             QMICTL \in C => C = {QMICTL}
      PROVE  AskCb'
  <2> DEFINE at == Stop(k, C, m.tid)
  <2>1. /\ cb' = IF Stops(k, C, m.tid) = {} THEN Gone ELSE [at |-> at, to |-> C, m |-> m]
        /\ reading' = IF Stops(k, C, m.tid) = {} THEN "armed" ELSE "notify"
    BY <1>3 DEF ServeFrom, Stop, End, Stops, Hits
  <2>2. Stops(k, C, m.tid) # {} => at \in C
    <3>1. /\ at # NoId => at \in Seen(k, C, m.tid)
          /\ \A c \in Seen(k, C, m.tid) : c \in C
          /\ at = NoId <=> Stops(k, C, m.tid) = {}
      BY <1>1, SeenOf
    <3> HIDE DEF at
    <3> QED
      BY <3>1
  <2> HIDE DEF at
  <2> QED
    BY <1>3, <2>1, <2>2 DEF AskCb
<1>4. ASSUME NEW k \in Nat \ {0}, NEW C, NEW m \in Messages, NEW s, ServeFrom(k, C, m, s),
             QMICTL \notin Seen(k, C, m.tid)
      PROVE  Shrinks
  <2>1. mem'[QMICTL] = mem[QMICTL]
    <3>0. Served(Seen(k, C, m.tid), Stop(k, C, m.tid), C, m, s)
      BY <1>4, ServeOf
    <3>1. \A c \in Clients \ Seen(k, C, m.tid) : mem'[c] = mem[c]
      BY <3>0 DEF Served
    <3> QED
      BY <1>1, <1>4, <3>1
  <2> QED
    BY <2>1 DEF Shrinks
<1>5. ASSUME NEW k \in Nat \ {0}, NEW C, NEW m \in Messages, NEW s, ServeFrom(k, C, m, s),
             QMICTL \in Seen(k, C, m.tid)
      PROVE  mem'[QMICTL].list = Append(mem[QMICTL].list, m)
  <2>0. Served(Seen(k, C, m.tid), Stop(k, C, m.tid), C, m, s)
    BY <1>5, ServeOf
  <2>1. \A c \in Seen(k, C, m.tid) : mem'[c].list = Append(mem[c].list, m)
    BY <2>0 DEF Served
  <2> QED
    BY <1>5, <2>1
<1>6. CASE ReadCallback
  <2>1. PICK C \in SUBSET Targets, m \in Messages :
          /\ ServeFrom(1, C, m, {})
          /\ \/ m = NoMsg /\ QMICTL \notin C /\ wire' = wire
             \/ \E r \in wire :
                  r.op = "write" /\ C = {r.c} /\ m.tid = 1 /\ m.of = r.of /\ wire' = wire \ {r}
             \/ \E r \in wire :
                  /\ r.op \in Gets \union Releases /\ C = {QMICTL} /\ m.tid = r.tid /\ m.of = r.of
                  /\ r.op \in Gets => m.id \in IdsOf(r.arg) \union {NoId}
                  /\ wire' = wire \ {r}
    BY <1>6, MessageOf
  <2>2. /\ \A c \in Seen(1, C, m.tid) : c \in C
        /\ wire' \subseteq wire /\ \A p \in Procs : Follows(task[p], task'[p])
    <3>1. \A c \in Seen(1, C, m.tid) : c \in C
      BY <1>1, SeenOf
    <3> QED
      BY <1>2, <2>1, <3>1
  <2>3. CASE QMICTL \notin C
    <3>1. Shrinks /\ AskCb'
      BY <1>3, <1>4, <2>1, <2>2, <2>3
    <3> QED
      BY <2>2, <3>1, FollowsKeeps DEF AskInv
  <2>4. CASE QMICTL \in C
    <3>1. PICK r \in wire :
            /\ r.op \in Gets \union Releases /\ C = {QMICTL} /\ m.tid = r.tid /\ m.of = r.of
            /\ r.op \in Gets => m.id \in IdsOf(r.arg) \union {NoId}
      BY <2>1, <2>4 DEF AskInv, AskOps
    <3>2. AskCb'
      BY <1>3, <2>1, <3>1
    <3>3. CASE QMICTL \notin Seen(1, C, m.tid)
      <4>1. Shrinks
        BY <1>4, <2>1, <3>3
      <4> QED
        BY <2>2, <3>2, <4>1, FollowsKeeps DEF AskInv
    <3>4. CASE QMICTL \in Seen(1, C, m.tid)
      <4>1. mem'[QMICTL].list = Append(mem[QMICTL].list, m) /\ mem[QMICTL].list \in Seq(Messages)
        <5>1. ServeFrom(1, C, m, {}) /\ 1 \in Nat \ {0}
          BY <2>1
        <5>2. mem'[QMICTL].list = Append(mem[QMICTL].list, m)
          BY <1>5, <3>4, <5>1
        <5> QED
          BY <1>1, <5>2, MemoryOf
      <4>2. \A p \in Procs :
              /\ GoodTask(task'[p])
              /\ Asks(task'[p]) =>
                   /\ Asks(task[p]) /\ task'[p].tid = task[p].tid
                   /\ \A x : Own(task[p], x) => Own(task'[p], x)
                   /\ \A x : Answers(task[p], x) => Answers(task'[p], x)
        BY <2>2, FollowsOf DEF AskInv, AskTask
      <4>3. AskList'
        <5> SUFFICES ASSUME NEW p \in Procs, Asks(task'[p]), NEW i \in 1..Len(mem'[QMICTL].list),
                            mem'[QMICTL].list[i].tid = task'[p].tid
                     PROVE  Answers(task'[p], mem'[QMICTL].list[i])
          BY DEF AskList
        <5>1. i \in 1..(Len(mem[QMICTL].list) + 1) /\ Len(mem[QMICTL].list) \in Nat
          BY <4>1, AppendOf
        <5>2. CASE i \in 1..Len(mem[QMICTL].list)
          <6>1. mem'[QMICTL].list[i] = mem[QMICTL].list[i]
            BY <4>1, <5>2, AppendOf
          <6> QED
            BY <4>2, <5>2, <6>1 DEF AskInv, AskList
        <5>3. CASE i = Len(mem[QMICTL].list) + 1
          <6>1. mem'[QMICTL].list[i] = m
            BY <4>1, <5>3, AppendOf
          <6>2. r.c = QMICTL /\ r.tid = task[p].tid
            BY <3>1, <4>2, <6>1 DEF AskInv, AskOps
          <6>3. Own(task[p], r)
            BY <4>2, <6>2 DEF AskInv, AskWire
          <6>4. Answers(task[p], m)
            BY <3>1, <6>3 DEF Own, Answers
          <6> QED
            BY <4>2, <6>1, <6>4
        <5> QED
          BY <5>1, <5>2, <5>3
      <4>4. AskTask' /\ AskWire' /\ AskApart' /\ AskOps'
        BY <2>2, <4>2 DEF AskInv, AskTask, AskWire, AskApart, AskOps
      <4> QED
        BY <3>2, <4>3, <4>4 DEF AskInv
    <3> QED
      BY <3>3, <3>4
  <2> QED
    BY <2>3, <2>4
<1>7. CASE ReadCallbackResumes
  <2> DEFINE k == Position(cb.at) + 1
             C == cb.to
             m == cb.m
  <2>1. k \in Nat \ {0} /\ C \in SUBSET Targets /\ m \in Messages /\ ServeFrom(k, C, m, {cb.at}) /\ wire' = wire
    <3>1. Position(cb.at) \in Nat
      BY PositionOf DEF GobiTypes, ClientTypes
    <3> QED
      BY <1>7, <3>1 DEF ReadCallbackResumes, GobiTypes, CbTypes, modem
  <2>2. QMICTL \in C => C = {QMICTL} /\ cb.at = QMICTL
    BY <1>7 DEF ReadCallbackResumes, AskInv, AskCb
  <2>3. QMICTL \notin Seen(k, C, m.tid)
    <3> SUFFICES ASSUME QMICTL \in Seen(k, C, m.tid) PROVE FALSE
      OBVIOUS
    <3>1. QMICTL \in C /\ \E i \in k..Len(clist) : clist[i] = QMICTL
      <4>1. \A c \in Seen(k, C, m.tid) : c \in C /\ \E i \in k..Len(clist) : clist[i] = c
        BY <1>1, <2>1, SeenOf
      <4> QED
        BY <4>1
    <3>2. PICK i \in k..Len(clist) : clist[i] = QMICTL
      BY <3>1
    <3>3. Len(clist) \in Nat /\ i \in 1..Len(clist) /\ clist \in Seq(Clients)
      BY <1>1, <2>1 DEF ClientTypes
    <3>4. Present(QMICTL)
      BY <3>2, <3>3 DEF Present, Contains
    <3>5. Position(QMICTL) \in 1..Len(clist)
      BY <3>3, <3>4, PositionOf
    <3>6. i = 1
      BY <3>2, <3>3 DEF CtlFirst
    <3> QED
      BY <2>2, <3>1, <3>3, <3>5, <3>6
  <2> HIDE DEF k, C, m
  <2>4. Shrinks /\ AskCb'
    BY <1>3, <1>4, <2>1, <2>2, <2>3
  <2>5. \A p \in Procs : Follows(task[p], task'[p])
    BY <1>2, <2>1
  <2> QED
    BY <2>1, <2>4, <2>5, FollowsKeeps DEF AskInv
<1> QED
  BY <1>6, <1>7

\* A process gets the answer to its own request.
LEMMA LookKeeps ==
  ASSUME GobiTypes, AskInv, NEW p \in Procs, Look(p)
  PROVE  AskInv'
<1> DEFINE c == task[p].c
           i == FirstRead(c, task[p].tid)
           m == mem[c].list[i]
           t == Onward([task[p] EXCEPT !.got = m], AfterRead(p, TRUE))
<1>1. /\ task \in [Procs -> Tasks] /\ task[p] \in Tasks /\ ClientTypes /\ QMICTL \in Clients
      /\ mem \in [Clients -> Memories] /\ wire' = wire /\ reading' = reading /\ cb' = cb
      /\ task[p].pc = "r_look"
  BY DEF GobiTypes, TaskTypes, ClientTypes, Clients, Look, modem
<1>2. \A h \in Procs : Follows(task[h], task[h])
  BY <1>1, FollowsTask
<1>3. AskCb'
  BY <1>1 DEF AskInv, AskCb
<1>4. CASE Goto(p, AfterRead(p, FALSE)) /\ mem' = mem
  <2>1. AfterRead(p, FALSE) \in Places /\ AfterRead(p, FALSE) \notin Early \union {"alloc"} \union AskPlaces
    BY AfterOf DEF Places, Early, AskPlaces
  <2>2. \A h \in Procs : Follows(task[h], task'[h])
    BY <1>1, <1>2, <1>4, <2>1, FollowsTask DEF Goto
  <2>3. Shrinks
    BY <1>4 DEF Shrinks
  <2> QED
    BY <1>1, <1>3, <2>2, <2>3, FollowsKeeps DEF AskInv
<1>5. CASE Present(c) /\ i > 0 /\ task' = [task EXCEPT ![p] = t] /\ mem' = [mem EXCEPT ![c].list = RemoveAt(@, i)]
  <2>1. c \in Clients /\ mem[c].list \in Seq(Messages)
    BY <1>1, <1>5, MemoryOf
  <2>2. i \in 1..Len(mem[c].list) /\ Matches(task[p].tid, m.tid)
    <3>1. i > 0
      BY <1>5
    <3> QED
      BY <2>1, <3>1, FirstReadOf
  <2>3. Shrinks
    <3>1. CASE c = QMICTL
      <4>1. mem'[QMICTL].list = RemoveAt(mem[QMICTL].list, i)
        BY <1>1, <1>5, <3>1 DEF Memories
      <4>2. \A a \in 1..Len(RemoveAt(mem[c].list, i)) :
              \E b \in 1..Len(mem[c].list) : RemoveAt(mem[c].list, i)[a] = mem[c].list[b]
        BY <2>1, <2>2, RemovedOf
      <4> QED
        BY <3>1, <4>1, <4>2 DEF Shrinks
    <3>2. CASE c # QMICTL
      BY <1>1, <1>5, <3>2 DEF Shrinks
    <3> QED
      BY <3>1, <3>2
  <2>4. task'[p] = t /\ \A h \in Procs \ {p} : task'[h] = task[h]
    BY <1>1, <1>5
  <2>5. GoodTask(t) /\ ~Asks(t) /\ t.pc \notin AskPlaces
    <3>1. CASE task[p].op \in Gets
      <4>1. c = QMICTL /\ task[p].tid # 0
        BY <1>1, <3>1 DEF AskInv, AskTask, GoodTask, AskPlaces
      <4>2. m.tid = task[p].tid
        BY <2>2, <4>1 DEF Matches
      <4>3. Answers(task[p], m)
        BY <1>1, <2>2, <4>1, <4>2 DEF AskInv, AskList, Asks, AskPlaces
      <4>4. AfterRead(p, TRUE) = "alloc"
        BY <3>1 DEF AfterRead, Gets
      <4>5. t.pc = "alloc" /\ t.op = task[p].op /\ t.u = task[p].u /\ t.arg = task[p].arg /\ t.got = m
        BY <1>1, <4>4 DEF Onward, Tasks
      <4> HIDE DEF t, m
      <4>6. Answers(t, m)
        BY <4>3, <4>5 DEF Answers, Early
      <4> QED
        BY <3>1, <4>5, <4>6 DEF GoodTask, Asks, AskPlaces
    <3>2. CASE task[p].op \notin Gets
      <4>1. AfterRead(p, TRUE) \in {"clean", "again", "idle"}
        BY <3>2, AfterOf
      <4>2. t.pc = AfterRead(p, TRUE)
        BY <1>1, <4>1 DEF Onward, Tasks, NoTask
      <4> HIDE DEF t
      <4> QED
        BY <4>1, <4>2 DEF GoodTask, Asks, AskPlaces
    <3> QED
      BY <3>1, <3>2
  <2> HIDE DEF t
  <2>6. AskTask' /\ AskWire' /\ AskApart' /\ AskOps'
    BY <1>1, <2>4, <2>5 DEF AskInv, AskTask, AskWire, AskApart, AskOps
  <2>7. AskList'
    <3> SUFFICES ASSUME NEW h \in Procs, Asks(task'[h]), NEW a \in 1..Len(mem'[QMICTL].list),
                        mem'[QMICTL].list[a].tid = task'[h].tid
                 PROVE  Answers(task'[h], mem'[QMICTL].list[a])
      BY DEF AskList
    <3>1. h # p /\ task'[h] = task[h]
      BY <2>4, <2>5
    <3> QED
      BY <2>3, <3>1 DEF Shrinks, AskInv, AskList
  <2> QED
    BY <1>3, <2>6, <2>7 DEF AskInv
<1>6. CASE task' = [task EXCEPT ![p].pc = "r_wait", ![p].fresh = TRUE]
           /\ mem' = [mem EXCEPT ![c].notify = Append(@, Entry(p, task[p].tid))]
  <2>1. Shrinks
    BY <1>1, <1>6 DEF Shrinks, Memories
  <2>2. Follows(task[p], [task[p] EXCEPT !.pc = "r_wait", !.fresh = TRUE])
    BY <1>1 DEF Follows, Tasks, AskPlaces, Early
  <2>3. \A h \in Procs : Follows(task[h], task'[h])
    BY <1>1, <1>2, <1>6, <2>2
  <2> QED
    BY <1>1, <1>3, <2>1, <2>3, FollowsKeeps DEF AskInv
<1> QED
  BY <1>4, <1>5, <1>6 DEF Look

\* In WriteSync nothing else is asked for.
LEMMA WriteKeeps ==
  ASSUME GobiTypes, AskInv, NEW p \in Procs, WriteSteps(p) \/ ReadGiveUp(p) \/ ReadTimeout(p)
  PROVE  AskInv'
<1>1. /\ task \in [Procs -> Tasks] /\ task[p] \in Tasks /\ ClientTypes /\ QMICTL \in Clients
      /\ mem \in [Clients -> Memories]
  BY DEF GobiTypes, TaskTypes, ClientTypes, Clients
<1>2. \A h \in Procs : Follows(task[h], task[h])
  BY <1>1, FollowsTask
<1>3. AskCb'
  BY DEF WriteSteps, AddToURBList, Submit, SubmitFails, WriteSyncCallback, WriteDown, WritePop, ReadGiveUp,
     ReadTimeout, AskInv, AskCb
<1>4. /\ \A c, x : mem' = [mem EXCEPT ![c].urbs = x] => Shrinks
      /\ \A c, x : mem' = [mem EXCEPT ![c].notify = x] => Shrinks
      /\ mem' = mem => Shrinks
  <2>1. \A c, x : mem' = [mem EXCEPT ![c].urbs = x] => Shrinks
    BY <1>1 DEF Shrinks, Memories
  <2>2. \A c, x : mem' = [mem EXCEPT ![c].notify = x] => Shrinks
    BY <1>1, ZenonT(40) DEF Shrinks, Memories
  <2>3. mem' = mem => Shrinks
    BY DEF Shrinks
  <2> QED
    BY <2>1, <2>2, <2>3
<1>5. \A t : Follows(task[p], t) /\ task' = [task EXCEPT ![p] = t] => \A h \in Procs : Follows(task[h], task'[h])
  BY <1>1, <1>2
<1>6. \A l \in Places : l \notin Early \union {"alloc"} /\ (l \in AskPlaces => task[p].pc \in AskPlaces) /\ Goto(p, l)
        => \A h \in Procs : Follows(task[h], task'[h])
  BY <1>1, <1>5, FollowsTask DEF Goto
<1>7. \A b \in BOOLEAN : /\ AfterWrite(p, b) \in Places \ (Early \union {"alloc"})
                         /\ AfterRead(p, FALSE) \in Places \ (Early \union {"alloc"})
                         /\ AfterRead(p, FALSE) \notin AskPlaces
  BY AfterOf DEF Places, Early, AskPlaces
<1>8. \A l \in AskPlaces : l \in Places
  BY DEF Places, AskPlaces
<1>9. Shrinks /\ wire' = wire /\ (\A h \in Procs : Follows(task[h], task'[h])) => AskInv'
  BY <1>3, FollowsKeeps DEF AskInv
<1>10. CASE AddToURBList(p)
  <2> DEFINE u == Min({x \in Urbs : urb[x] = "none"})
  <2>1. task[p].pc = "w_add" /\ wire' = wire
    BY <1>10 DEF AddToURBList, modem
  <2>2. CASE Goto(p, AfterWrite(p, FALSE)) /\ mem' = mem
    <3>1. \A h \in Procs : Follows(task[h], task'[h])
      BY <1>6, <1>7, <2>1, <2>2 DEF AskPlaces
    <3> QED
      BY <1>4, <1>9, <2>1, <2>2, <3>1
  <2>3. CASE /\ task' = [task EXCEPT ![p].pc = "w_submit", ![p].u = u]
             /\ mem' = [mem EXCEPT ![task[p].c].urbs = Append(@, u)]
    <3> HIDE DEF u
    <3>1. Follows(task[p], [task[p] EXCEPT !.pc = "w_submit", !.u = u])
      BY <1>1, <2>1 DEF Follows, Tasks, AskPlaces, Early
    <3>2. \A h \in Procs : Follows(task[h], task'[h])
      BY <1>1, <1>2, <2>3, <3>1
    <3>3. mem' = [mem EXCEPT ![task[p].c].urbs = Append(mem[task[p].c].urbs, u)]
      BY <2>3
    <3> QED
      BY <1>4, <1>9, <2>1, <3>2, <3>3
  <2> QED
    BY <1>10, <2>2, <2>3 DEF AddToURBList
<1>11. CASE Submit(p)
  <2>1. Goto(p, "w_wait") /\ mem' = mem /\ wire' = wire /\ task[p].pc \in AskPlaces
    BY <1>11 DEF Submit, modem, AskPlaces
  <2>2. \A h \in Procs : Follows(task[h], task'[h])
    BY <1>6, <2>1 DEF Places, Early, AskPlaces
  <2> QED
    BY <1>4, <1>9, <2>1, <2>2
<1>12. CASE SubmitFails(p) \/ WritePop(p) \/ ReadGiveUp(p)
  <2>1. /\ wire' = wire /\ task[p].pc \in AskPlaces
        /\ \E b \in BOOLEAN : Goto(p, AfterWrite(p, b)) \/ Goto(p, AfterRead(p, FALSE))
    BY <1>12 DEF SubmitFails, WritePop, ReadGiveUp, modem, AskPlaces
  <2>2. \A h \in Procs : Follows(task[h], task'[h])
    BY <1>6, <1>7, <2>1
  <2>3. Shrinks
    <3>1. CASE ReadGiveUp(p)
      <4>1. mem' = [mem EXCEPT ![task[p].c].notify = WithoutEntry(mem[task[p].c].notify, p)]
        BY <3>1 DEF ReadGiveUp, WithoutEntry
      <4> QED
        BY <1>4, <4>1
    <3>2. CASE SubmitFails(p) \/ WritePop(p)
      <4> DEFINE l == IF mem[task[p].c].urbs = <<>> THEN mem[task[p].c].urbs ELSE Tail(mem[task[p].c].urbs)
      <4>1. mem' = [mem EXCEPT ![task[p].c].urbs = l] \/ mem' = mem
        BY <3>2 DEF SubmitFails, WritePop, PopFromURBList
      <4> HIDE DEF l
      <4> QED
        BY <1>4, <4>1
    <3> QED
      BY <1>12, <3>1, <3>2
  <2> QED
    BY <1>9, <2>1, <2>2, <2>3
<1>13. CASE WriteSyncCallback(p)
  BY <1>3, <1>13, SendKeeps DEF AskInv
<1>14. CASE WriteDown(p)
  <2>1. PICK s \in BOOLEAN : task' = [task EXCEPT ![p].pc = "w_pop", ![p].sig = s]
    BY <1>14 DEF WriteDown
  <2>2. mem' = mem /\ wire' = wire /\ task[p].pc = "w_wait"
    BY <1>14 DEF WriteDown, modem
  <2>3. Follows(task[p], [task[p] EXCEPT !.pc = "w_pop", !.sig = s])
    BY <1>1, <2>2 DEF Follows, Tasks, AskPlaces, Early
  <2>4. \A h \in Procs : Follows(task[h], task'[h])
    BY <1>1, <1>2, <2>1, <2>3
  <2> QED
    BY <1>4, <1>9, <2>2, <2>4
<1>15. CASE ReadTimeout(p)
  <2>1. Goto(p, "r_remove") /\ mem' = mem /\ wire' = wire /\ task[p].pc \in AskPlaces
    BY <1>15 DEF ReadTimeout, modem, AskPlaces
  <2>2. \A h \in Procs : Follows(task[h], task'[h])
    BY <1>6, <2>1 DEF Places, Early, AskPlaces
  <2> QED
    BY <1>4, <1>9, <2>1, <2>2
<1> QED
  BY <1>10, <1>11, <1>12, <1>13, <1>14, <1>15 DEF WriteSteps

\* The requests, answers and messages of QMICTL go on with their processes.
LEMMA AskInvStep ==
  ASSUME GobiTypes, CtlFirst, AskInv, [GobiNext]_gobiVars
  PROVE  AskInv'
<1>1. /\ task \in [Procs -> Tasks] /\ ClientTypes /\ QMICTL \in Clients
      /\ mem \in [Clients -> Memories] /\ QMICTL # QMIWDS
  BY GobiAssumption DEF GobiTypes, TaskTypes, ClientTypes, Clients
<1>2. \A h \in Procs : Follows(task[h], task[h])
  BY <1>1, FollowsTask
<1>3. UNCHANGED <<reading, cb>> \/ (reading' = "back" /\ reading = "notify" /\ cb' = cb) => AskCb'
  BY DEF AskInv, AskCb
<1>4. Shrinks /\ wire' = wire /\ AskCb' /\ (\A h \in Procs : Follows(task[h], task'[h])) => AskInv'
  BY FollowsKeeps DEF AskInv
<1>5. \A p, t : (p \in Procs => Follows(task[p], t)) /\ task' = [task EXCEPT ![p] = t]
        => \A h \in Procs : Follows(task[h], task'[h])
  BY <1>1, <1>2
<1>6. \A p \in Procs, l \in Places : l \notin Early \union {"alloc"} \union AskPlaces /\ Goto(p, l)
        => \A h \in Procs : Follows(task[h], task'[h])
  BY <1>1, <1>5, FollowsTask DEF Goto
<1>7. \A C : task' = PollersWoken(C) => \A h \in Procs : Follows(task[h], task'[h])
  BY <1>1, FollowsTask DEF PollersWoken
<1>8. /\ \A c, x : mem' = [mem EXCEPT ![c].urbs = x] => Shrinks
      /\ \A c, x : mem' = [mem EXCEPT ![c].notify = x] => Shrinks
      /\ \A x : mem' = [mem EXCEPT ![QMIWDS].list = x] => Shrinks
      /\ \A c : mem' = [mem EXCEPT ![c] = NoMem] => Shrinks
      /\ mem' = mem => Shrinks
  <2>1. \A c, x : mem' = [mem EXCEPT ![c].urbs = x] => Shrinks
    BY <1>1 DEF Shrinks, Memories
  <2>2. \A c, x : mem' = [mem EXCEPT ![c].notify = x] => Shrinks
    BY <1>1, ZenonT(40) DEF Shrinks, Memories
  <2>3. \A x : mem' = [mem EXCEPT ![QMIWDS].list = x] => Shrinks
    BY <1>1 DEF Shrinks, Memories
  <2>4. \A c : mem' = [mem EXCEPT ![c] = NoMem] => Shrinks
    <3> TAKE c
    <3> HAVE mem' = [mem EXCEPT ![c] = NoMem]
    <3>1. CASE c = QMICTL
      <4>1. mem'[QMICTL].list = <<>>
        BY <1>1, <3>1 DEF NoMem
      <4> QED
        BY <4>1 DEF Shrinks
    <3>2. CASE c # QMICTL
      BY <1>1, <3>2 DEF Shrinks
    <3> QED
      BY <3>1, <3>2
  <2>5. mem' = mem => Shrinks
    BY DEF Shrinks
  <2> QED
    BY <2>1, <2>2, <2>3, <2>4, <2>5
<1>9. ASSUME NEW f \in Files, Calls(f) \/ GetClientID(f) \/ ForceRelease(f) PROVE AskInv'
  <2>1. /\ wire' = wire /\ AskCb' /\ User(f) \in Procs /\ file[f].id \in Ids \union {NoId}
        /\ WdaId \in Targets /\ Service(f) \in Targets /\ file[f].id \in Targets
    BY <1>3, <1>9, ProcsOf, GobiAssumption DEF Calls, UserspaceOpen, GetServiceFile, UserspaceWrite, UserspaceRead,
       UserspacePoll, UserspaceClose, GetClientID, ForceRelease, modem, GobiTypes, FileTypes, Targets, Clients, Service
  <2>2. \A o \in Gets \union Releases, c \in Targets : CtlRequest(User(f), o, c) => AskInv'
    BY <2>1, RequestKeeps DEF AskInv
  <2>3. CASE GetServiceFile(f)
    BY <2>1, <2>2, <2>3 DEF GetServiceFile, Gets
  <2>4. CASE UserspaceClose(f) /\ task' # task
    BY <2>1, <2>2, <2>4 DEF UserspaceClose, Releases
  <2>5. CASE UserspaceOpen(f) \/ (UserspaceClose(f) /\ task' = task)
    <3>1. task' = task
      BY <2>5 DEF UserspaceOpen
    <3>2. mem' = mem \/ \E c : CtlRequest(User(f), "rel", c)
      BY <2>5 DEF UserspaceOpen, UserspaceClose
    <3>3. CASE mem' = mem
      BY <1>2, <1>4, <1>8, <2>1, <3>1, <3>3
    <3>4. CASE mem' # mem
      BY <2>1, <2>2, <2>5, <3>4 DEF UserspaceOpen, UserspaceClose, Releases
    <3> QED
      BY <3>3, <3>4
  <2>6. CASE UserspaceWrite(f) \/ UserspaceRead(f) \/ UserspacePoll(f)
    <3> DEFINE New(l, o) == [NoTask EXCEPT !.pc = l, !.op = o, !.c = file[f].id]
    <3>1. /\ mem' = mem
          /\ \/ task' = [task EXCEPT ![User(f)] = New("w_add", "write")]
             \/ task' = [task EXCEPT ![Reader(f)] = New("r_look", "read")]
             \/ task' = [task EXCEPT ![Reader(f)] = New("poll", "poll")]
      BY <2>6 DEF UserspaceWrite, UserspaceRead, UserspacePoll
    <3>2. file[f].id # QMICTL
      BY <2>1, GobiAssumption
    <3>3. \A l \in {"w_add", "r_look", "poll"} : \A o \in {"write", "read", "poll"} :
            New(l, o).pc = l /\ New(l, o).op = o /\ New(l, o).c # QMICTL
      BY <3>2 DEF NoTask
    <3> HIDE DEF New
    <3>4. \A l \in {"w_add", "r_look", "poll"} : \A o \in {"write", "read", "poll"} :
            \A t \in Tasks : Follows(t, New(l, o))
      BY <3>3 DEF Follows, Gets, Releases
    <3>5. \A h \in Procs : Follows(task[h], task'[h])
      BY <1>1, <1>5, <3>1, <3>4
    <3> QED
      BY <1>4, <1>8, <2>1, <3>1, <3>5
  <2>7. CASE GetClientID(f)
    <3>1. mem' = mem /\ (Goto(User(f), "idle") \/ Goto(User(f), Failed(User(f))))
      BY <2>7 DEF GetClientID
    <3>2. Failed(User(f)) \in {"idle", "again"}
      BY DEF Failed
    <3>3. \A h \in Procs : Follows(task[h], task'[h])
      BY <1>6, <2>1, <3>1, <3>2 DEF Places, Early, AskPlaces
    <3> QED
      BY <1>4, <1>8, <2>1, <3>1, <3>3
  <2>8. CASE ForceRelease(f)
    <3>1. \/ \E o \in {"force", "get2"} : CtlRequest(User(f), o, WdaId)
          \/ Goto(User(f), "idle") /\ mem' = mem
      BY <2>8 DEF ForceRelease
    <3>2. CASE \E o \in {"force", "get2"} : CtlRequest(User(f), o, WdaId)
      BY <2>1, <2>2, <3>2 DEF Gets, Releases
    <3>3. CASE Goto(User(f), "idle") /\ mem' = mem
      <4>1. \A h \in Procs : Follows(task[h], task'[h])
        BY <1>6, <2>1, <3>3 DEF Places, Early, AskPlaces
      <4> QED
        BY <1>4, <1>8, <2>1, <3>3, <4>1
    <3> QED
      BY <3>1, <3>2, <3>3
  <2> QED
    BY <1>9, <2>3, <2>4, <2>5, <2>6, <2>7, <2>8 DEF Calls
<1>10. ASSUME NEW p \in Procs, WriteSteps(p) \/ ReadSteps(p) \/ ReadTimeout(p) PROVE AskInv'
  BY <1>10, WriteKeeps, LookKeeps DEF ReadSteps
<1>11. ASSUME NEW p \in Procs, ReleaseSteps(p) PROVE AskInv'
  <2>1. AskCb' /\ wire' = wire
    BY <1>3, <1>11 DEF ReleaseSteps, Clean, KillUrb, NextUrb, modem
  <2>2. \A C : Released(p, C) => \A h \in Procs : Follows(task[h], task'[h])
    <3> TAKE C
    <3> HAVE Released(p, C)
    <3>1. Follows(task[p], task'[p])
      <4>1. task'[p].pc \in {"d_loop", "again", "idle"}
        BY DEF Released, NoTask
      <4> QED
        BY <4>1 DEF Follows, AskPlaces
    <3>2. \A h \in Procs : Follows(task[h], [task[h] EXCEPT !.fresh = @ /\ task[h].c \notin C])
      <4> TAKE h \in Procs
      <4> DEFINE r == [task[h] EXCEPT !.fresh = @ /\ task[h].c \notin C]
      <4>1. /\ r.pc = task[h].pc /\ r.op = task[h].op /\ r.c = task[h].c /\ r.tid = task[h].tid
            /\ r.u = task[h].u /\ r.arg = task[h].arg /\ r.got = task[h].got
        BY <1>1 DEF Tasks
      <4> HIDE DEF r
      <4>2. Follows(task[h], r)
        BY <4>1 DEF Follows, AskPlaces
      <4> QED
        BY <4>2 DEF r
    <3>3. \A h \in Procs \ {p} : task'[h] = [task[h] EXCEPT !.fresh = @ /\ task[h].c \notin C]
      BY DEF Released
    <3> QED
      BY <3>1, <3>2, <3>3
  <2>3. \A c, n : FreeUrbsOrDelete(p, c, n) => AskInv'
    <3> TAKE c, n
    <3> HAVE FreeUrbsOrDelete(p, c, n)
    <3>1. CASE mem[c].urbs # <<>>
      <4>1. /\ task' = [task EXCEPT ![p].pc = "c_kill", ![p].u = Head(mem[c].urbs), ![p].nxt = n]
            /\ mem' = [mem EXCEPT ![c].urbs = Tail(mem[c].urbs)]
        BY <3>1 DEF FreeUrbsOrDelete, PopFromURBList
      <4>2. \A x : Follows(task[p], [task[p] EXCEPT !.pc = "c_kill", !.u = x, !.nxt = n])
        BY <1>1 DEF Follows, Tasks, AskPlaces
      <4>3. \A h \in Procs : Follows(task[h], task'[h])
        BY <1>1, <1>2, <4>1, <4>2
      <4> QED
        BY <1>4, <1>8, <2>1, <4>1, <4>3
    <3>2. CASE mem[c].urbs = <<>>
      BY <1>4, <1>8, <2>1, <2>2, <3>2 DEF FreeUrbsOrDelete
    <3> QED
      BY <3>1, <3>2
  <2>4. CASE Clean(p)
    <3>1. CASE ~Present(task[p].arg)
      BY <1>4, <1>8, <2>1, <2>2, <2>4, <3>1 DEF Clean
    <3>2. CASE Present(task[p].arg) /\ mem[task[p].arg].notify # <<>>
      <4>1. PICK x : task' = [task EXCEPT ![p].pc = "c_up", ![p].nxt = x]
        BY <2>4, <3>2 DEF Clean
      <4>2. mem' = [mem EXCEPT ![task[p].arg].notify = Tail(mem[task[p].arg].notify)]
        BY <2>4, <3>2 DEF Clean
      <4>3. Follows(task[p], [task[p] EXCEPT !.pc = "c_up", !.nxt = x])
        BY <1>1 DEF Follows, Tasks, AskPlaces
      <4>4. \A h \in Procs : Follows(task[h], task'[h])
        BY <1>1, <1>2, <4>1, <4>3
      <4> QED
        BY <1>4, <1>8, <2>1, <4>2, <4>4
    <3>3. CASE Present(task[p].arg) /\ mem[task[p].arg].notify = <<>>
      BY <2>3, <2>4, <3>3 DEF Clean
    <3> QED
      BY <3>1, <3>2, <3>3
  <2>5. CASE KillUrb(p)
    <3>1. Goto(p, "c_next") /\ mem' = mem
      BY <2>5 DEF KillUrb
    <3>2. \A h \in Procs : Follows(task[h], task'[h])
      BY <1>6, <3>1 DEF Places, Early, AskPlaces
    <3> QED
      BY <1>4, <1>8, <2>1, <3>1, <3>2
  <2>6. CASE NextUrb(p)
    BY <1>4, <1>8, <2>1, <2>2, <2>3, <2>6 DEF NextUrb
  <2> QED
    BY <1>11, <2>4, <2>5, <2>6 DEF ReleaseSteps
<1>12. ASSUME NEW n \in Notifiers, NotifySteps(n) PROVE AskInv'
  <2>1. wire' = wire /\ cb' = cb
    BY <1>12 DEF NotifySteps, UpSem, QMIWDSCallback, ReadAsync, modem
  <2>2. \A t \in [Procs -> Tasks] : (\A h \in Procs : Follows(task[h], t[h])) /\ Notifying(n) /\ Notified(n, t)
          => AskCb' /\ \A h \in Procs : Follows(task[h], task'[h])
    <3> TAKE t \in [Procs -> Tasks]
    <3> HAVE (\A h \in Procs : Follows(task[h], t[h])) /\ Notifying(n) /\ Notified(n, t)
    <3>1. AskCb'
      BY <1>3, <2>1 DEF Notifying, Notified
    <3>2. n \in Procs => Follows(task[n], [t[n] EXCEPT !.pc = "c_more"])
      BY DEF Follows, Tasks, AskPlaces
    <3>3. \A h \in Procs : Follows(task[h], task'[h])
      BY <3>2 DEF Notified
    <3> QED
      BY <3>1, <3>3
  <2>3. CASE UpSem(n)
    <3> DEFINE t == [task EXCEPT ![held[n].who].pc = IF @ = "r_wait" THEN "r_look" ELSE @]
    <3>1. Notifying(n) /\ Notified(n, t) /\ mem' = mem /\ held[n].who \in Procs
      BY <2>3 DEF UpSem
    <3>2. \A p \in Procs : LET r == [task[p] EXCEPT !.pc = IF @ = "r_wait" THEN "r_look" ELSE @] IN
            r \in Tasks /\ Follows(task[p], r)
      BY <1>1 DEF Tasks, Places, Follows, AskPlaces, Early
    <3>3. t \in [Procs -> Tasks] /\ \A h \in Procs : Follows(task[h], t[h])
      BY <1>1, <1>2, <3>1, <3>2
    <3> HIDE DEF t
    <3> QED
      BY <1>4, <1>8, <2>1, <2>2, <3>1, <3>3
  <2>4. CASE QMIWDSCallback(n) \/ ReadAsync(n)
    <3>1. Notifying(n) /\ (UNCHANGED <<task, reading>> \/ Notified(n, task))
      BY <2>4 DEF QMIWDSCallback, ReadAsync
    <3>2. AskCb' /\ \A h \in Procs : Follows(task[h], task'[h])
      BY <1>1, <1>2, <1>3, <2>1, <2>2, <3>1
    <3>3. CASE QMIWDSCallback(n)
      <4>1. mem' = mem \/ \E x : mem' = [mem EXCEPT ![QMIWDS].list = x]
        BY <3>3 DEF QMIWDSCallback
      <4> QED
        BY <1>4, <1>8, <2>1, <3>2, <4>1
    <3>4. CASE ReadAsync(n)
      <4>1. mem' = mem \/ \E x : mem' = [mem EXCEPT ![QMIWDS].notify = x]
        BY <3>4 DEF ReadAsync
      <4> QED
        BY <1>4, <1>8, <2>1, <3>2, <4>1
    <3> QED
      BY <2>4, <3>3, <3>4
  <2> QED
    BY <1>12, <2>3, <2>4 DEF NotifySteps
<1>13. CASE IntCallback \/ ReadFails \/ UNCHANGED gobiVars
  <2>1. UNCHANGED <<mem, task, wire, cb>> /\ reading' \in {"armed", "read", "dead", reading}
    BY <1>13 DEF IntCallback, ReadFails, modem, gobiVars
  <2>2. AskCb'
    BY <2>1 DEF AskInv, AskCb
  <2> QED
    BY <1>2, <1>4, <1>8, <2>1, <2>2
<1>14. CASE Deregister \/ KillRead \/ DeregisterEnds
  <2>1. /\ UNCHANGED <<mem, wire, cb>> /\ reading' \in {"dead", reading}
        /\ \E l \in {"d_loop", "d_wait", "d_done"} : Goto(Remover, l)
    BY <1>14 DEF Deregister, KillRead, DeregisterEnds, modem
  <2>2. AskCb'
    BY <2>1 DEF AskInv, AskCb
  <2>3. \A h \in Procs : Follows(task[h], task'[h])
    BY <1>6, <2>1, ProcsOf DEF Places, Early, AskPlaces
  <2> QED
    BY <1>4, <1>8, <2>1, <2>2, <2>3
<1>15. CASE DeregisterClient
  <2>1. UNCHANGED <<mem, wire>> /\ AskCb'
    BY <1>3, <1>15 DEF DeregisterClient, modem
  <2>2. \A x, t : Follows(t, [NoTask EXCEPT !.pc = "clean", !.arg = x])
    BY DEF Follows, NoTask, AskPlaces
  <2>3. \A h \in Procs : Follows(task[h], task'[h])
    BY <1>5, <1>7, <1>15, <2>2 DEF DeregisterClient
  <2> QED
    BY <1>4, <1>8, <2>1, <2>3
<1> QED
  BY <1>9, <1>10, <1>11, <1>12, <1>13, <1>14, <1>15, ServeKeeps DEF GobiNext, ReadUrbs, RemoverSteps

\* The types with all fields are the type invariant, and more.
LEMMA TypesFollow ==
  GobiTypes => GobiTypeOK
<1> SUFFICES ASSUME GobiTypes PROVE GobiTypeOK
  OBVIOUS
<1>1. \A i \in 1..Len(clist) : clist[i] \in Clients
  BY DEF GobiTypes, ClientTypes
<1>2. \A c \in Clients :
        /\ \A i \in 1..Len(mem[c].list) : mem[c].list[i].tid \in 0..MaxTid
        /\ \A i \in 1..Len(mem[c].notify) : mem[c].notify[i].who \in Notifiers
        /\ \A i \in 1..Len(mem[c].urbs) : mem[c].urbs[i] \in Urbs
  <2> TAKE c \in Clients
  <2>1. mem[c].list \in Seq(Messages) /\ mem[c].notify \in Seq(Entries) /\ mem[c].urbs \in Seq(Urbs)
    BY MemoryOf DEF GobiTypes
  <2>2. \A i \in 1..Len(mem[c].list) : mem[c].list[i] \in Messages
    BY <2>1
  <2>3. \A i \in 1..Len(mem[c].notify) : mem[c].notify[i] \in Entries
    BY <2>1
  <2>4. \A i \in 1..Len(mem[c].urbs) : mem[c].urbs[i] \in Urbs
    BY <2>1
  <2> QED
    BY <2>2, <2>3, <2>4 DEF Messages, Entries
<1>3. \A p \in Procs : /\ task[p].pc \in Places /\ task[p].op \in CallKinds
                       /\ task[p].u \in 0..MaxWrites /\ task[p].tid \in 0..MaxTid
  BY DEF GobiTypes, TaskTypes, Tasks
<1>4. \A n \in Notifiers : held[n].who \in Notifiers \union {<<>>}
  BY DEF GobiTypes, HeldTypes, Entries, NoEntry, Entry
<1>5. /\ urb \in [Urbs -> {"none", "alloc", "flying", "done", "freed"}] /\ ntid \in 0..MaxTid
      /\ file \in [Files -> [open : BOOLEAN, id : Ids \union {NoId}]]
      /\ device \in {"live", "removing", "invalid"}
      /\ reading \in {"armed", "read", "notify", "back", "dead"}
      /\ used \subseteq Ids /\ inds \in 0..MaxInds
  BY DEF GobiTypes, UrbTypes, FileTypes, DeviceTypes, WireTypes
<1> QED
  BY <1>1, <1>2, <1>3, <1>4, <1>5 DEF GobiTypeOK, Places, CallKinds, Gets, Releases

\* The lists of every client (mpList, mpReadNotifyList, mpURBList), the list of the
\* clients, the tables and the requests have their types in all Circumstances, so that
\* a process only asks for clients, transaction ids and URBs that there can be.
THEOREM GobiHasTypes == GobiSpec => []GobiTypeOK
  BY GobiTypesInit, GobiTypesStep, TypesFollow, PTL DEF GobiSpec

\* No request is under way at first.
LEMMA AskInit ==
  GobiInit => CtlFirst /\ AskInv
<1> SUFFICES ASSUME GobiInit PROVE CtlFirst /\ AskInv
  OBVIOUS
<1>1. /\ clist = <<QMICTL, QMIWDS>> /\ QMICTL # QMIWDS /\ QMICTL # NoId
      /\ task = [p \in Procs |-> NoTask] /\ wire = {} /\ reading = "armed" /\ cb = Gone
  BY GobiAssumption DEF GobiInit
<1>2. CtlFirst
  BY <1>1 DEF CtlFirst, NoTask
<1>3. \A p \in Procs : GoodTask(task[p]) /\ ~Asks(task[p])
  BY <1>1 DEF GoodTask, Asks, AskPlaces, NoTask
<1>4. AskTask /\ AskWire /\ AskList /\ AskApart
  BY <1>3 DEF AskTask, AskWire, AskList, AskApart
<1>5. AskCb /\ AskOps
  BY <1>1 DEF AskCb, AskOps
<1> QED
  BY <1>2, <1>4, <1>5 DEF AskInv

\* GetClientID never takes the answer to another request, not even to one that had the
\* same transaction id and was given up before its answer came: mQMICTLTransactionID
\* goes round, and QMIXactionIDGet drops the messages that are left with the next id.
THEOREM AnswersAreOwn == GobiSpec => []AnswerIsOwn
<1> DEFINE Inv == GobiTypes /\ CtlFirst /\ AskInv
<1>1. GobiInit => Inv
  BY GobiTypesInit, AskInit
<1>2. Inv /\ [GobiNext]_gobiVars => Inv'
  BY GobiTypesStep, CtlFirstStep, AskInvStep
<1>3. Inv => AnswerIsOwn
  BY DEF AskInv, AskTask, GoodTask, Answers, AnswerIsOwn
<1> QED
  BY <1>1, <1>2, <1>3, PTL DEF GobiSpec
=============================================================================
