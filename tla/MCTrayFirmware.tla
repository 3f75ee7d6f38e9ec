--------------------------- MODULE MCTrayFirmware ---------------------------
(* The three parts of a firmware update of a node: the job (FirmwareUpdate)*)
(* and, on a compute tray, the out-of-band recovery it begins with         *)
(* (OobRecovery) and the adapter that borrows a setting of the BMC         *)
(* (DellForceUpdate).  Each has its own view of the device, and a behaviour*)
(* is about one of them.                                                   *)
EXTENDS DellForceUpdate

CONSTANTS
    PollTimeout, ErrorTimeout, Attempts,
    FPGA_0, FPGA_1, HMC, ConfirmRetries, MaxPolls, RecoveryJobs

VARIABLES
    about,              \* "setting", "update" or "recovery"
    req, w, device,     \* FirmwareUpdate
    run, tray           \* OobRecovery

settingVars == <<job, adapter, pending, dev>>
updateVars == <<req, w, device>>
recoveryVars == <<run, tray>>
all == <<about, cancelled, settingVars, updateVars, recoveryVars>>

R(kind, targets, profile) == [kind |-> kind, targets |-> targets, profile |-> profile]

\* BMC first, without an activation of its own.
Profile == <<[targets |-> {"BMC"}, after |-> FALSE], [targets |-> {"HMC"}, after |-> TRUE]>>

\* Every node type, with the targets that give it its stages, and one request
\* for each way a plan is refused.
UpdateRequests ==
    {R("compute", {"CX8", "BF3_NIC", "BMC"}, None), R("compute", {"HMC", "BMC"}, Profile),
     R("compute", {"BIOS"}, Profile), R("compute_vr", {"LINKX", "BMC"}, None),
     R("supermicro", {"HMC", "BIOS"}, None), R("supermicro", {"BIOS", "BMC"}, None),
     R("switch", {"BIOS", "BMC"}, None), R("switch_vr", {"BMC"}, None),
     R("powershelf", {"BMC"}, None), R("powershelf", {"CX8"}, None),
     R("liteon_vr", {"BMC"}, None)}

Update == INSTANCE FirmwareUpdate WITH Requests <- UpdateRequests, dev <- device

\* The roster of the example configuration in small: FPGA_1 is reachable
\* only through a working FPGA_0, one component takes the recovery bundle.
Recovery == INSTANCE OobRecovery WITH
    PushThenCycle <- {FPGA_0, FPGA_1}, PushOnly <- {HMC},
    Behind <- [c \in {FPGA_0, FPGA_1, HMC} |-> IF c = FPGA_1 THEN {FPGA_0} ELSE {}],
    MaxJobs <- RecoveryJobs, dev <- tray

\* The requests whose outcome depends on mixed: see Valid and RecoversTaskLoss.
MixedMatters(r) ==
    \/ r.targets \cap {"CX8", "BF3_NIC", "LINKX"} # {}
    \/ r.kind \in {"supermicro", "liteon_vr"} /\ "BMC" \in r.targets

\* The same of force: see Validate, PreCheck and Refetch.
ForceMatters(r) == "LINKX" \in r.targets \/ r.kind \in {"switch", "switch_vr"}

\* One node type of each: a check of one stage of several, and of a lone one.
ComparableMatters(r) == r.activate /\ ~r.force /\ r.kind \in {"compute_vr", "switch"}

\* A part the behaviour is not about keeps one of its initial states.
MCInit ==
    /\ about \in {"setting", "update", "recovery"}
    /\ Init /\ Update!Init /\ Recovery!Init
    /\ about # "setting" => ~adapter.registered
    /\ req.mixed => MixedMatters(req)
    /\ req.force => ForceMatters(req)
    /\ device.running \in {{}, {"BMC"}, req.targets}
    /\ \/ req.comparable = req.targets
       \/ ComparableMatters(req) /\ req.comparable = req.targets \ {"BMC"}
    /\ about # "update" =>
          /\ req = [kind |-> "powershelf", targets |-> {"CX8"}, profile |-> None,
                    comparable |-> {"CX8"}, activate |-> FALSE, force |-> FALSE, mixed |-> FALSE]
          /\ device.running = {}
    /\ about # "recovery" => \A c \in DOMAIN tray.st : tray.st[c] = "ok"

MCNext ==
    \/ about = "setting" /\ Next /\ UNCHANGED <<about, updateVars, recoveryVars>>
    \/ about = "update" /\ Update!Next /\ UNCHANGED <<about, settingVars, recoveryVars>>
    \/ about = "recovery" /\ Recovery!Next /\ UNCHANGED <<about, settingVars, updateVars>>

Update_Work ==
    about = "update" /\ Update!Work /\ UNCHANGED <<about, settingVars, recoveryVars>>

Recovery_Work ==
    about = "recovery" /\ Recovery!Work /\ UNCHANGED <<about, settingVars, updateVars>>

MCSpec == MCInit /\ [][MCNext]_all /\ WF_all(Update_Work) /\ WF_all(Recovery_Work)

-----------------------------------------------------------------------------
(* A target counted as applied or skipped is on the device                 *)
(* (firmware_update_outcome_until_done).                                   *)
SettledIsHeld == Update!SettledIsHeld

(* A stage begins, and a job completes, when the targets of the verified   *)
(* stages before run their new firmware, as far as the check can compare   *)
(* them (the stage loop).                                                  *)
EarlierStagesRun == Update!EarlierStagesRun

(* What a cancelled job still does to the device belongs to the call that  *)
(* was under way when its token was set (update_firmware_with_context).    *)
CancelStopsWrites == Update!CancelStopsWrites

(* The update job ends, whatever the device does.                          *)
WorkerEnds == about = "update" => Update!WorkerEnds

(* The recovery never cycles a tray whose BMC runs an update task (push).  *)
NoCycleUnderPush == Recovery!NoCycleUnderPush

(* The recovery reports success on a healthy reading of every component it *)
(* saw in recovery (recover).                                              *)
RecoveredIsHealthy == Recovery!RecoveredIsHealthy

(* The recovery ends, whatever the tray reports.                           *)
FlowEnds == about = "recovery" => Recovery!FlowEnds
=============================================================================
