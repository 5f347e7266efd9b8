---------------------------- MODULE PcieResource ----------------------------
(***************************************************************************)
(* The PCIe link as a resource that the host and the modem share: the host *)
(* end (pcie/pcie_host_resource.c) under the power manager, with the       *)
(* endpoint driver's probe, notify work and remove                         *)
(* (pcie/sprd_pcie_ep_device.c), and the modem's end                       *)
(* (pcie/pcie_client_resource.c), which runs the same sipc sources.        *)
(*                                                                         *)
(* While somebody votes for the link the host keeps the endpoint on its    *)
(* bus; else it removes it (CONFIG_SPRD_PCIE, which the repository's       *)
(* Makefile leaves undefined: the module is of a build that defines it).   *)
(* The modem votes by message interrupts while it is on the bus and by a   *)
(* wake-up signal while not.                                               *)
(***************************************************************************)
EXTENDS Mpm, FiniteSets

CONSTANTS
  Users,      \* tasks of the host that use the link
  MsiInOrder, \* REQUEST and RELEASE interrupts are handled in the order raised
  InTime      \* pending works have run when an idle time (1 s) ends; one that gives
              \* the link back even before the next vote or probe

ASSUME PcieAssumption == {MsiInOrder, InTime} \subseteq BOOLEAN

VARIABLES
  link,       \* res->state of the host
  epOn,       \* res->ep_power_on: the host holds the modem's vote
  first,      \* scan_cnt is still 0
  dev,        \* the endpoint is on the host's bus
  notify,     \* the endpoint driver's notify_work is pending
  rq,         \* scan_work and remove_work on res->wq
  removing,   \* remove_fn is in its msleep(50)
  user,       \* each task of the host: "out", "wait" for the link, or "held"
  bell,       \* doorbell that the modem has not handled
  epf,        \* endpoint-function events the modem has not handled
  msi,        \* message interrupts the host has not handled
  wake,       \* the modem's wake-up signal
  cst,        \* res->state of the modem
  msiLater, wakeLater,
  cwant       \* the modem's power manager has asked for the link

hostVars == <<link, epOn, first, dev, notify, rq, removing, user>>
clientVars == <<cst, msiLater, wakeLater, cwant>>
wires == <<bell, epf, msi, wake>>
pcieVars == <<mgrVars, hostVars, clientVars, wires>>

PcieTypes ==
  /\ upCnt \in 0..(Cardinality(Users) + 1) /\ mpmState \in {"idle", "busy"}
  /\ workq \in Seq({"request", "release"}) /\ Len(workq) <= 2
  /\ link \in {"first", "scanned", "wait_removed", "removed"}
  /\ {epOn, first, dev, notify, removing, wake, msiLater, wakeLater, cwant} \subseteq BOOLEAN
  /\ rq \in Seq({"scan", "remove"}) /\ Len(rq) <= 2
  /\ user \in [Users -> {"out", "wait", "held"}]
  /\ bell \in {"none", "SCANNED", "REMOVING"}
  /\ epf \in Seq({"LINK_UP", "UNLINK"}) /\ Len(epf) <= 2
  /\ msi \in Seq({"REQUEST", "RELEASE"}) /\ Len(msi) <= 2
  /\ cst \in {"first", "wait_scanned", "scanned", "wait_removed", "removed"}

\* The host's PCIe driver starts the first scan by itself.
PcieInit ==
  /\ MpmInit
  /\ link = "first" /\ epOn = FALSE /\ first = TRUE
  /\ dev = TRUE /\ notify = TRUE /\ rq = <<>> /\ removing = FALSE /\ user = [u \in Users |-> "out"]
  /\ bell = "none" /\ epf = <<"LINK_UP">> /\ msi = <<>> /\ wake = FALSE
  /\ cst = "first" /\ msiLater = FALSE /\ wakeLater = FALSE /\ cwant = FALSE

\* queue_work, and an interrupt that is still pending: never twice.
Once(q, x) == IF \E i \in DOMAIN q : q[i] = x THEN q ELSE Append(q, x)
Pending(q, x) == \E i \in DOMAIN q : q[i] = x

-----------------------------------------------------------------------------
(* The host.                                                                *)

\* A vote may come.
MayVote == InTime => ~Pending(workq, "release")

\* sprd_pms_request_resource, sprd_pcie_wait_resource and
\* sprd_pms_release_resource of a task of the host.
UserRequest(u) ==
  /\ user[u] = "out" /\ MayVote
  /\ MpmVote
  /\ user' = [user EXCEPT ![u] = "wait"]
  /\ UNCHANGED <<link, epOn, first, dev, notify, rq, removing, clientVars, wires>>

\* A form of UserHolds that takes a link being scanned for a scanned one.
UserHoldsEarly(u) ==
  /\ user[u] = "wait" /\ link # "first"
  /\ user' = [user EXCEPT ![u] = "held"]
  /\ UNCHANGED <<mgrVars, link, epOn, first, dev, notify, rq, removing, clientVars, wires>>

UserHolds(u) ==
  /\ user[u] = "wait" /\ link = "scanned"
  /\ user' = [user EXCEPT ![u] = "held"]
  /\ UNCHANGED <<mgrVars, link, epOn, first, dev, notify, rq, removing, clientVars, wires>>

\* The wait may also time out.
UserRelease(u) ==
  /\ user[u] \in {"wait", "held"}
  /\ MpmUnvote
  /\ user' = [user EXCEPT ![u] = "out"]
  /\ UNCHANGED <<link, epOn, first, dev, notify, rq, removing, clientVars, wires>>

\* The idle time of the power manager ends.
Idle ==
  /\ MpmDeactive
  /\ InTime => rq = <<>> /\ ~notify /\ workq = <<>>
  /\ UNCHANGED <<hostVars, clientVars, wires>>

\* The queue after sprd_pcie_resource_start_scan in state l.
StartScan(l, q) == IF l = "scanned" THEN q ELSE Once(q, "scan")

\* sprd_pcie_request_resource, sprd_pcie_release_resource: only a link that is
\* scanned, or was never, is removed.
PcieWork ==
  /\ MpmWork
  /\ IF Head(workq) = "request"
     THEN /\ rq' = IF link = "first" THEN rq ELSE StartScan(link, rq)
          /\ UNCHANGED link
     ELSE IF link \in {"scanned", "first"}
          THEN link' = "wait_removed" /\ rq' = Once(rq, "remove")
          ELSE UNCHANGED <<link, rq>>
  /\ UNCHANGED <<epOn, first, dev, notify, removing, user, clientVars, wires>>

\* The modem has handled what the last scan or remove sent it when the next one
\* starts PCIE_REMOVE_SCAN_GAP after it.
GapOver == epf = <<>> /\ bell = "none"

\* sprd_pcie_resource_scan_fn: the endpoint is put on the bus and probed; the
\* driver's probe leaves the rest to its notify_work.
ScanFn ==
  /\ rq # <<>> /\ Head(rq) = "scan" /\ ~removing /\ GapOver
  /\ rq' = Tail(rq)
  /\ IF dev THEN UNCHANGED <<dev, notify, epf>>
     ELSE dev' = TRUE /\ notify' = TRUE /\ epf' = Append(epf, "LINK_UP")
  /\ UNCHANGED <<mgrVars, link, epOn, first, removing, user, clientVars, bell, msi, wake>>

\* sprd_pcie_resource_remove_fn: the modem is told; nothing is done when the
\* endpoint is not probed.
RemoveFn ==
  /\ rq # <<>> /\ Head(rq) = "remove" /\ ~removing /\ GapOver
  /\ rq' = Tail(rq)
  /\ IF dev /\ ~notify THEN removing' = TRUE /\ bell' = "REMOVING"
     ELSE UNCHANGED <<removing, bell>>
  /\ UNCHANGED <<mgrVars, link, epOn, first, dev, notify, user, clientVars, epf, msi, wake>>

\* Its second half, after 50 ms in which the doorbell and the interrupts on
\* their way were handled: sprd_pci_ep_dev_remove.
Unconfigure ==
  /\ removing /\ bell = "none" /\ msi = <<>>
  /\ removing' = FALSE /\ dev' = FALSE /\ notify' = FALSE
  /\ link' = "removed"
  /\ epf' = Append(epf, "UNLINK")
  /\ UNCHANGED <<mgrVars, epOn, first, rq, user, clientVars, bell, msi, wake>>

\* A form of NotifyFn that forgets the doorbell after the first probe.
NotifyFnSilent ==
  /\ notify /\ notify' = FALSE
  /\ InTime => ~Pending(workq, "release") /\ ~Pending(rq, "remove")
  /\ link' = "scanned" /\ first' = FALSE
  /\ IF first THEN epOn' = TRUE /\ MpmVote ELSE UNCHANGED <<epOn, mgrVars>>
  /\ bell' = IF first THEN "SCANNED" ELSE bell
  /\ UNCHANGED <<dev, rq, removing, user, clientVars, epf, msi, wake>>

\* sprd_pcie_resource_host_ep_notify with PCIE_EP_PROBE: the first time the
\* host votes for the modem.
NotifyFn ==
  /\ notify /\ notify' = FALSE
  /\ InTime => ~Pending(workq, "release") /\ ~Pending(rq, "remove")
  /\ link' = "scanned" /\ first' = FALSE
  /\ IF first THEN epOn' = TRUE /\ MpmVote ELSE UNCHANGED <<epOn, mgrVars>>
  /\ bell' = "SCANNED"
  /\ UNCHANGED <<dev, rq, removing, user, clientVars, epf, msi, wake>>

Without(q, i) == SubSeq(q, 1, i - 1) \o SubSeq(q, i + 1, Len(q))

\* sprd_pcie_resource_host_irq_handler
HostIrq ==
  \E i \in DOMAIN msi :
    /\ MsiInOrder => i = 1
    /\ msi' = Without(msi, i)
    /\ IF msi[i] = "REQUEST"
       THEN /\ MayVote
            /\ IF epOn THEN UNCHANGED mgrVars ELSE MpmVote
            /\ epOn' = TRUE
       ELSE (IF epOn THEN MpmUnvote ELSE UNCHANGED mgrVars) /\ epOn' = FALSE
    /\ UNCHANGED <<link, first, dev, notify, rq, removing, user, clientVars, bell, epf, wake>>

\* sprd_pcie_resource_event_process
HostWake ==
  /\ wake /\ wake' = FALSE /\ MayVote
  /\ IF epOn THEN UNCHANGED mgrVars ELSE MpmVote
  /\ epOn' = TRUE
  /\ UNCHANGED <<link, first, dev, notify, rq, removing, user, clientVars, bell, epf, msi>>

-----------------------------------------------------------------------------
(* The modem.                                                               *)

\* sprd_pci_epf_start fails while the link is coming up.
LinkingUp == Pending(epf, "LINK_UP")

\* sprd_pcie_request_resource of the modem.
ClientRequest ==
  /\ ~cwant /\ cwant' = TRUE
  /\ msi' = IF cst = "scanned" THEN Once(msi, "REQUEST") ELSE msi
  /\ wake' = (wake \/ (cst = "removed" /\ ~LinkingUp))
  /\ wakeLater' = (wakeLater \/ cst = "wait_removed")
  /\ msiLater' = (msiLater \/ cst \in {"first", "wait_scanned"}
                           \/ (cst = "removed" /\ LinkingUp))
  /\ UNCHANGED <<mgrVars, hostVars, cst, bell, epf>>

\* sprd_pcie_release_resource of the modem, the idle time after a request:
\* outside "scanned" and "first" it is an error that changes nothing.
ClientRelease ==
  /\ cwant /\ cwant' = FALSE
  /\ msi = <<>> /\ ~wake
  /\ msi' = IF cst = "scanned" THEN Once(msi, "RELEASE") ELSE msi
  /\ msiLater' = (msiLater /\ cst # "first")
  /\ UNCHANGED <<mgrVars, hostVars, cst, wakeLater, bell, epf, wake>>

\* pcie_resource_client_irq_handler, after the events of the link, which are
\* raised before the host can reach the doorbell: a pending request is sent even when the
\* change of state was refused.
ClientBell ==
  /\ bell # "none" /\ epf = <<>> /\ bell' = "none"
  /\ IF bell = "SCANNED"
     THEN /\ cst' = IF cst \in {"first", "wait_scanned"} THEN "scanned" ELSE cst
          /\ msi' = IF msiLater THEN Once(msi, "REQUEST") ELSE msi
          /\ msiLater' = FALSE
     ELSE /\ cst' = IF cst = "scanned" THEN "wait_removed" ELSE cst
          /\ UNCHANGED <<msi, msiLater>>
  /\ UNCHANGED <<mgrVars, hostVars, wakeLater, cwant, epf, wake>>

\* pcie_resource_client_epf_notify
ClientEpf ==
  /\ epf # <<>> /\ epf' = Tail(epf)
  /\ IF Head(epf) = "LINK_UP"
     THEN /\ cst' = IF cst = "removed" THEN "wait_scanned" ELSE cst
          /\ UNCHANGED <<wake, wakeLater>>
     ELSE /\ cst' = IF cst = "wait_removed" THEN "removed" ELSE cst
          /\ wake' = (wake \/ wakeLater)
          /\ wakeLater' = FALSE
  /\ UNCHANGED <<mgrVars, hostVars, msiLater, cwant, bell, msi>>

-----------------------------------------------------------------------------
Kernel == PcieWork \/ ScanFn \/ RemoveFn \/ Unconfigure \/ NotifyFn \/ HostIrq \/ HostWake
Modem == ClientBell \/ ClientEpf

PcieNext ==
  \/ \E u \in Users : UserRequest(u) \/ UserHolds(u) \/ UserRelease(u)
  \/ Idle
  \/ Kernel
  \/ ClientRequest \/ ClientRelease \/ Modem

\* Works, interrupts and events are handled.  Nobody has to ask for the link or
\* to give it back.  The three that InTime holds up for a moment are never held up
\* in the code: hence strong fairness.
PcieFairness ==
  /\ WF_pcieVars(PcieWork) /\ WF_pcieVars(ScanFn)
  /\ WF_pcieVars(RemoveFn) /\ WF_pcieVars(Unconfigure)
  /\ SF_pcieVars(NotifyFn) /\ SF_pcieVars(HostIrq) /\ SF_pcieVars(HostWake)
  /\ WF_pcieVars(ClientBell) /\ WF_pcieVars(ClientEpf)

PcieSpec == PcieInit /\ [][PcieNext]_pcieVars
PcieFairSpec == PcieSpec /\ PcieFairness

-----------------------------------------------------------------------------
(* Properties                                                               *)

\* A task of the host that was told the link is ready has it until it gives it
\* back: the release of an earlier user does not remove it.
HeldMeansUp ==
  (\E u \in Users : user[u] = "held") => link = "scanned" /\ dev /\ ~removing

\* Once nothing of a request is on its way any more, a modem that asked for the
\* link is counted by the host: no request is lost to a removal that is under
\* way, to a wake-up that comes late, or to an earlier release.
VoteKept ==
  (cwant /\ msi = <<>> /\ ~wake /\ ~msiLater /\ ~wakeLater) => epOn

\* The link a task holds is up, the modem's vote is not lost, and no queue between
\* host and modem grows.
LinkSafe == PcieTypes /\ HeldMeansUp /\ VoteKept

\* A modem that asks for the link, and goes on asking, gets it, and so does a
\* task of the host.
Served ==
  /\ cwant ~> (cst = "scanned" \/ ~cwant)
  /\ \A u \in Users : (user[u] = "wait") ~> (link = "scanned" \/ user[u] = "out")

\* An unused link is removed, as the comment in sprd_pcie_release_resource of
\* pcie_client_resource.c says.
IdleRemoves == (mpmState = "idle" /\ link = "scanned") ~> (mpmState = "busy" \/ link # "scanned")
=============================================================================
