-------------------------------- MODULE Mpm --------------------------------
(***************************************************************************)
(* What the modem power manager (power_manager/power_manager.c) promises   *)
(* its resource: it is asked for when the first user votes for it, and     *)
(* given back at some time after the last vote is withdrawn, by two works  *)
(* that the kernel runs later.                                             *)
(***************************************************************************)
EXTENDS Naturals, Sequences

VARIABLES
  upCnt,     \* mpm->up_cnt: the votes
  mpmState,  \* mpm->mpm_state
  workq      \* the scheduled works, in the order of their scheduling

mgrVars == <<upCnt, mpmState, workq>>

MpmInit == upCnt = 0 /\ mpmState = "idle" /\ workq = <<>>

\* schedule_work: a work that is still pending is not queued again.
ScheduleWork(w) == IF \E i \in DOMAIN workq : workq[i] = w THEN workq ELSE Append(workq, w)

\* sprd_mpm_up
MpmVote ==
  /\ upCnt' = upCnt + 1
  /\ IF upCnt = 0 /\ mpmState = "idle"
     THEN mpmState' = "busy" /\ workq' = ScheduleWork("request")
     ELSE UNCHANGED <<mpmState, workq>>

\* sprd_mpm_down, with the idle time still to come.
MpmUnvote == upCnt > 0 /\ upCnt' = upCnt - 1 /\ UNCHANGED <<mpmState, workq>>

\* A form of sprd_mpm_deactive that does not give the resource back.
MpmDeactiveKeeps ==
  upCnt = 0 /\ mpmState = "busy" /\ mpmState' = "idle" /\ UNCHANGED <<upCnt, workq>>

\* sprd_mpm_deactive
MpmDeactive ==
  /\ upCnt = 0 /\ mpmState = "busy"
  /\ mpmState' = "idle" /\ workq' = ScheduleWork("release")
  /\ UNCHANGED upCnt

\* A worker runs one of the works, the oldest first.
MpmWork == workq # <<>> /\ workq' = Tail(workq) /\ UNCHANGED <<upCnt, mpmState>>

MpmNext == MpmVote \/ MpmUnvote \/ MpmDeactive \/ MpmWork

MpmSpec == MpmInit /\ [][MpmNext]_mgrVars
=============================================================================
