--------------------------- MODULE FirmwareUpdate ---------------------------
(***************************************************************************)
(* The firmware update job of one node (spawn_firmware_update_job_with_    *)
(* policy in api/grpc/firmware_handlers.rs): the plan of stages, the       *)
(* upload of each group of targets with its retry after an aux power cycle,*)
(* the polling of the device task, the recovery of a lost task, activation *)
(* and the checks after it, under a cancellation at any moment.            *)
(*                                                                         *)
(* The device is external: it writes an image, loses a task, boots or      *)
(* fails whenever it likes, and answers reads truthfully.                  *)
(***************************************************************************)
EXTENDS Naturals, Sequences, FiniteSets, SequencesExt

CONSTANTS
    Requests,       \* [kind, targets, profile]: the node's type, the targets and the
                    \* hardware profile, None or a sequence of [targets, after]
    None,
    PollTimeout,    \* bound: polls before the task's deadline
    ErrorTimeout,   \* bound: polls before the transient-error deadline
    Attempts        \* bound: attempts of a check after activation

Nic == {"CX8", "BF3_NIC"}
Switches == {"switch", "switch_vr"}
Powershelves == {"powershelf", "liteon_vr"}

VARIABLES
    req,            \* [kind, targets, comparable, activate, force, mixed, profile]
    w,              \* the worker
    cancelled,      \* the job's token
    dev             \* the device: [running, staged, task, group, resetting]

vars == <<req, w, cancelled, dev>>

Worker0 ==
    [pc |-> "validate", stages |-> <<>>, stage |-> 1, rest |-> {}, group |-> {},
     retried |-> FALSE, current |-> FALSE, left |-> 0, errors |-> 0, attempt |-> 0,
     applied |-> {}, stageApplied |-> {}, skipped |-> {}, for |-> None, result |-> None,
     at |-> None]   \* at: history, the call the token was set in

\* comparable: the targets a version check is sure to compare, selected by
\* name and with a version in their package.  A raw image has none, and the
\* parts of a whole package are compared as far as the inventory lists them.
Init ==
    /\ \E r \in Requests, activate, force, mixed \in BOOLEAN :
       \E comparable \in SUBSET r.targets :
          req = [kind |-> r.kind, targets |-> r.targets, profile |-> r.profile,
                 comparable |-> comparable, activate |-> activate, force |-> force,
                 mixed |-> mixed]
    /\ w = Worker0
    /\ cancelled = FALSE
    /\ \E old \in SUBSET req.targets :
          dev = [running |-> old, staged |-> {}, task |-> "none", group |-> {},
                 resetting |-> FALSE]

-----------------------------------------------------------------------------
(* The plan.                                                               *)
Flint(kind) == kind = "compute"                    \* supports_flint_inband_firmware

InBand(kind, ts) == Flint(kind) /\ ts # {} /\ ts \subseteq Nic

\* validate_firmware_request_with_policy
Valid(r) ==
    LET nic == r.targets \cap Nic IN
    /\ "LINKX" \in r.targets =>
          /\ r.kind = "compute_vr" /\ r.activate
          /\ r.targets = {"LINKX"} \/ r.mixed
    /\ nic # {} =>
          /\ Flint(r.kind) /\ r.activate
          /\ nic = r.targets \/ r.mixed

\* ExecutableFirmwareStage::new
Stage(kind, ts, activate) ==
    [targets |-> ts, activate |-> activate,
     verify |-> activate /\ kind \notin Powershelves]

NonEmpty(stages) == SelectSeq(stages, LAMBDA s : s.targets # {})

\* firmware_update_stages_with_policy
DefaultStages(r) ==
    LET nic == r.targets \cap Nic
        S(ts, activate) == Stage(r.kind, ts, activate)
    IN  IF "LINKX" \in r.targets
        THEN NonEmpty(<<S(r.targets \ {"LINKX"}, TRUE), S({"LINKX"}, FALSE)>>)
        ELSE IF nic # {} /\ nic # r.targets
        THEN <<S(nic, TRUE), S(r.targets \ nic, TRUE)>>
        ELSE IF r.kind # "supermicro" THEN <<S(r.targets, r.activate)>>
        ELSE NonEmpty(<<S(r.targets \cap {"HMC"}, r.activate),
                        S(r.targets \cap {"BIOS"}, r.activate),
                        S(r.targets \cap {"BMC"}, FALSE)>>)

\* A power cycle has to come between the payloads of HMC and BIOS.
Plannable(r) ==
    r.profile = None /\ r.kind = "supermicro" =>
        /\ r.targets \subseteq {"HMC", "BIOS", "BMC"}
        /\ {"HMC", "BIOS"} \subseteq r.targets => r.activate

\* firmware_update_stages_from_profile
Configured(p) == UNION {p[i].targets : i \in DOMAIN p}

ProfileStages(r) ==
    LET own == [i \in DOMAIN r.profile |->
                   Stage(r.kind, r.targets \cap r.profile[i].targets,
                         r.activate /\ r.profile[i].after)]
    IN  NonEmpty(<<Stage(r.kind, r.targets \cap Nic, TRUE)>> \o own
                 \o <<Stage(r.kind, r.targets \cap {"LINKX"}, FALSE)>>)

Allowed(r) ==
    r.profile # None => r.targets \ (Nic \cup {"LINKX"}) \subseteq Configured(r.profile)

Stages(r) == IF r.profile = None THEN DefaultStages(r) ELSE ProfileStages(r)

\* firmware_update_groups
Groups(kind, ts) == IF InBand(kind, ts) THEN {ts} ELSE {{t} : t \in ts}

-----------------------------------------------------------------------------
\* The report of a worker that is over.
Ended(result) ==
    [Worker0 EXCEPT !.pc = "over", !.result = result, !.applied = w.applied,
                    !.skipped = w.skipped, !.stages = w.stages, !.stage = w.stage]

Fail(phase) == w' = Ended(phase) /\ UNCHANGED <<req, cancelled, dev>>

Goto(pc) == w' = [w EXCEPT !.pc = pc] /\ UNCHANGED <<req, cancelled, dev>>

At(pc) == w.pc = pc

Validate ==
    /\ At("validate")
    /\ IF Valid(req) /\ ~(req.force /\ "LINKX" \in req.targets)
       THEN Goto("admit") ELSE Fail("validation")

\* discover_switch_scopes runs until the token is cancelled.  Missing
\* metadata admits, a conflict does not.
Admit ==
    /\ At("admit")
    /\ \/ Goto("recovery")
       \/ req.kind \in Switches /\ Fail("scope_admission")
       \/ req.kind \in Switches /\ cancelled /\ Fail("cancelled")

\* dispatch_compute_oob_recovery: see OobRecovery.  A compute node with no
\* recovery profile goes on to its plan whatever the token says.
Recovery ==
    /\ At("recovery")
    /\ \/ Goto("plan")
       \/ Flint(req.kind) /\ cancelled /\ Fail("cancelled")
       \/ Flint(req.kind) /\ Fail("recovery")

Plan ==
    /\ At("plan")
    /\ IF Plannable(req) /\ Allowed(req)
       THEN /\ w' = [w EXCEPT !.pc = "precheck", !.stages = Stages(req),
                              !.rest = Groups(req.kind, Stages(req)[1].targets)]
            /\ UNCHANGED <<req, cancelled, dev>>
       ELSE Fail("planning")

\* pre_update_firmware_version_check: switches only, and only packages carry
\* a version.  Skipping takes positive evidence for every target, matched and
\* all_targets_matched, be it a whole package.
PreCheck ==
    /\ At("precheck")
    /\ \/ Goto("group")
       \/ /\ req.kind \in Switches /\ ~req.force /\ ~cancelled
          /\ req.targets \subseteq dev.running
          /\ w' = [w EXCEPT !.pc = "group", !.current = TRUE]
          /\ UNCHANGED <<req, cancelled, dev>>
       \/ req.kind \in Switches /\ ~req.force /\ Fail("pre_update_version_check")

-----------------------------------------------------------------------------
(* One group of targets.                                                   *)
Settle(applied, skipped) ==
    w' = [w EXCEPT !.pc = "group", !.group = {}, !.retried = FALSE, !.for = None,
                   !.result = None, !.left = 0, !.errors = 0, !.attempt = 0,
                   !.applied = @ \cup applied, !.stageApplied = @ \cup applied,
                   !.skipped = @ \cup skipped]

Skip(g) == Settle({}, g)
Apply(g) == Settle(g, {})

NextGroup ==
    /\ At("group") /\ w.rest # {}
    /\ IF cancelled THEN Fail("cancelled")
       ELSE /\ \E g \in w.rest :
                  w' = [w EXCEPT !.rest = @ \ {g}, !.group = g,
                                 !.pc = IF w.current THEN "skip" ELSE "upload"]
            /\ UNCHANGED <<req, cancelled, dev>>

SkipCurrent == At("skip") /\ Skip(w.group) /\ UNCHANGED <<req, cancelled, dev>>

Held == dev.running \cup dev.staged

\* Images that are active as soon as they are written.
Immediate == ({"LINKX"} \cup IF req.kind \in {"supermicro", "liteon_vr"} THEN {"BMC"} ELSE {})

Write(g) ==
    [dev EXCEPT !.staged = @ \cup (g \ Immediate), !.running = @ \cup (g \cap Immediate)]

\* Mutant of Upload: nvfwupd does not look at the token.
UploadUnchecked == At("upload") /\ Goto("submit")

\* node.update_firmware and update_firmware_group: the node's op_lock, which
\* another operation may hold, then nvfwupd's one look at the token.
Upload ==
    /\ At("upload")
    /\ IF cancelled THEN Fail("update") ELSE Goto("submit")

\* The power goes: the task is lost and the device boots.
Reset == [dev EXCEPT !.task = IF @ = "none" THEN "none" ELSE "gone", !.resetting = TRUE]

\* ensure_gb200_host_os_ready and the recovery of the device discovery: a host
\* that does not boot gets an AC cycle before the in-band flashes.
HostCycle ==
    /\ At("submit") /\ InBand(req.kind, w.group)
    /\ dev' = Reset /\ w' = [w EXCEPT !.pc = "flash"]
    /\ UNCHANGED <<req, cancelled>>

\* The inventory check, the wait for the background copy, the upload and the
\* submission of the task.  None of them looks at the token; the in-band and
\* LINKX flows do, and stop with an error.
Submit ==
    LET g == w.group
        Polling == w' = [w EXCEPT !.pc = "poll", !.left = PollTimeout, !.errors = 0]
    IN
    /\ w.pc \in {"submit", "flash"}
    /\ UNCHANGED <<req, cancelled>>
    /\ \/ /\ dev.task # "active" /\ Polling                            \* Started
          /\ dev' = [dev EXCEPT !.task = "active", !.group = g]
       \/ Apply(g) /\ dev' = Write(g)                                  \* Completed
       \/ g \subseteq Held /\ Skip(g) /\ UNCHANGED dev                 \* Skipped
       \/ /\ w' = [w EXCEPT !.pc = "update_error"]                     \* an error, and
          /\ dev' \in {dev, [dev EXCEPT !.task = "active",             \* maybe an upload
                                        !.group = g]}

\* update_firmware_target_with_bmc_recovery: once, and not for a group of
\* in-band targets.
UpdateError ==
    /\ At("update_error")
    /\ \/ Fail("update")
       \/ /\ req.kind \in Switches /\ ~w.retried       \* an unreachable host
          /\ w' = [w EXCEPT !.pc = "powercycle", !.for = "upload", !.retried = TRUE]
          /\ UNCHANGED <<req, cancelled, dev>>

\* attempt_bmc_aux_powercycle_recovery for an upload or for an activation.
Powercycle ==
    /\ At("powercycle")
    /\ UNCHANGED <<req, cancelled>>
    /\ \/ dev' = Reset /\ w' = [w EXCEPT !.pc = IF w.for = "upload" THEN "upload" ELSE "verify"]
       \/ /\ dev' \in {dev, Reset}
          /\ w' = Ended(IF w.for = "upload" THEN "update" ELSE "activation")

-----------------------------------------------------------------------------
(* poll_firmware_task_until_complete_with_retry_timeout                    *)
PollFails(result) == w' = [w EXCEPT !.pc = "finish", !.result = result]

PollError ==
    IF w.errors >= ErrorTimeout \/ w.left = 0 THEN PollFails("lost")
    ELSE w' = [w EXCEPT !.errors = @ + 1, !.left = @ - 1]

Poll ==
    /\ At("poll")
    /\ UNCHANGED <<req, cancelled, dev>>
    /\ IF cancelled THEN PollFails("cancelled")
       ELSE \/ dev.task = "done" /\ PollFails("applied")
            \/ dev.task = "failed" /\ w' = [w EXCEPT !.pc = "refetch", !.for = "failed"]
            \* The messages of a failed task may still be incomplete.
            \/ /\ dev.task \in {"failed", "identical"}
               /\ w' = [w EXCEPT !.pc = "refetch", !.for = "identical"]
            \/ /\ dev.task = "active"
               /\ IF w.left = 0 THEN PollFails("timeout")
                  ELSE w' = [w EXCEPT !.left = @ - 1, !.errors = 0]
            \/ PollError
            \/ PollFails("error")

\* Mutant of Identical: the first reading decides.
IdenticalAtFirst(reading) == w.for = "identical"

Identical(reading) == w.for = "identical" /\ reading = "identical"

\* refetch_terminal_firmware_task_failure: after the grace the task's
\* messages are complete.  A cancellation keeps the first reading.
Refetch ==
    /\ At("refetch")
    /\ UNCHANGED <<req, cancelled, dev>>
    /\ \/ PollFails("failed")                          \* an unreadable answer, or force
       \/ /\ ~cancelled /\ ~req.force
          /\ Identical(dev.task) /\ PollFails("skipped")

\* finish_firmware_task, whatever the token says: see DellForceUpdate.  Its
\* failure does not change a success.  Then the outcome is settled.
RecoversTaskLoss ==
    /\ "BMC" \in w.group
    /\ req.mixed                                       \* the manifest's version
    /\ req.kind \in {"supermicro", "liteon_vr"}

Finish ==
    LET g == w.group IN
    /\ At("finish")
    /\ UNCHANGED <<req, cancelled, dev>>
    /\ CASE w.result = "applied" -> Apply(g)
         [] w.result = "skipped" /\ ~cancelled -> Skip(g)
         [] w.result = "lost" /\ RecoversTaskLoss ->
               w' = [w EXCEPT !.pc = "lost", !.attempt = 1, !.result = None]
         [] OTHER -> w' = Ended("poll")

LossConfirmed(g) == g \subseteq dev.running

\* recover_supermicro_bmc_update_after_task_loss and recover_liteon_vr_pmc_
\* update_after_task_loss: the inventory is read until it has the version.
TaskLost ==
    /\ At("lost")
    /\ UNCHANGED <<req, cancelled, dev>>
    /\ \/ ~cancelled /\ LossConfirmed(w.group) /\ Apply(w.group)
       \/ /\ ~cancelled /\ w.attempt < Attempts
          /\ w' = [w EXCEPT !.attempt = @ + 1]
       \/ /\ cancelled \/ w.attempt = Attempts
          /\ w' = Ended("poll")

-----------------------------------------------------------------------------
(* The end of a stage.                                                     *)
Advance ==
    IF w.stage = Len(w.stages)
    THEN w' = Ended("completed")
    ELSE w' = [w EXCEPT !.pc = "group", !.stage = @ + 1, !.stageApplied = {},
                        !.rest = Groups(req.kind, w.stages[w.stage + 1].targets)]

Current == w.stages[w.stage]

EndStage ==
    /\ At("group") /\ w.rest = {}
    /\ IF Current.activate /\ w.stageApplied # {}
       THEN IF cancelled THEN Fail("cancelled") ELSE Goto("activate")
       ELSE Advance /\ UNCHANGED <<req, cancelled, dev>>

\* activate_firmware_with_mode, up to nvfwupd's own look at the token.
StartActivation ==
    /\ At("activate")
    /\ IF cancelled THEN Fail("activation") ELSE Goto("activating")

\* The power sequence of the node type and the wait for its return.  Only the
\* VR switch looks at the token again, and stops with an error.
Activate ==
    /\ At("activating")
    /\ UNCHANGED <<req, cancelled>>
    /\ \/ dev' = Reset /\ w' = [w EXCEPT !.pc = "verify", !.attempt = 1]
       \/ dev' \in {dev, Reset} /\ w' = [w EXCEPT !.pc = "activation_error"]

\* The power cycle of an unreachable host is not for the VR switch, whose
\* activation already is one.
ActivationError ==
    /\ At("activation_error")
    /\ \/ Fail("activation")
       \/ /\ req.kind = "switch" /\ ~cancelled
          /\ w' = [w EXCEPT !.pc = "powercycle", !.for = "activation", !.attempt = 1]
          /\ UNCHANGED <<req, cancelled, dev>>

\* Mutant of Matched: the last reading is taken as it is.
MatchedLast == TRUE

\* summary.matched: no mismatch.  A target nothing can be compared for is
\* "unverified" and mismatches nothing.
Matched == w.stageApplied \cap req.comparable \subseteq dev.running

\* post_activation_version_check_with_policy: versions, then reachability and
\* readiness, each within its attempts.
Verify ==
    /\ At("verify")
    /\ UNCHANGED <<req, cancelled, dev>>
    /\ IF ~Current.verify THEN Advance
       ELSE \/ ~cancelled /\ Matched /\ w' = [w EXCEPT !.pc = "ready", !.attempt = 1]
            \/ ~cancelled /\ w.attempt < Attempts /\ w' = [w EXCEPT !.attempt = @ + 1]
            \/ w' = Ended("post_activation_version_check")

\* Mutant of Ready: a node that is not ready is verified again from the start.
ReadyStartsOver ==
    /\ At("ready")
    /\ UNCHANGED <<req, cancelled, dev>>
    /\ \/ ~cancelled /\ ~dev.resetting /\ Advance
       \/ ~cancelled /\ w' = [w EXCEPT !.pc = "verify", !.attempt = 1]
       \/ w' = Ended("post_activation_version_check")

Ready ==
    /\ At("ready")
    /\ UNCHANGED <<req, cancelled, dev>>
    /\ \/ ~cancelled /\ ~dev.resetting /\ Advance
       \/ ~cancelled /\ w.attempt < Attempts /\ w' = [w EXCEPT !.attempt = @ + 1]
       \/ w' = Ended("post_activation_version_check")

Work ==
    \/ Validate \/ Admit \/ Recovery \/ Plan \/ PreCheck
    \/ NextGroup \/ SkipCurrent \/ Upload \/ HostCycle \/ Submit
    \/ UpdateError \/ Powercycle
    \/ Poll \/ Refetch \/ Finish \/ TaskLost
    \/ EndStage \/ StartActivation \/ Activate \/ ActivationError \/ Verify \/ Ready

-----------------------------------------------------------------------------
(* The environment.                                                        *)
\* The call on the device that is under way: an upload up to the power cycle
\* that follows it, a repeated upload, or an activation with its power cycle.
Call ==
    IF w.pc \in {"submit", "flash", "update_error", "activating", "activation_error",
                 "powercycle"}
    THEN [stage |-> w.stage, group |-> w.group,
          again |-> w.retried /\ w.pc \in {"submit", "flash"}]
    ELSE None

Cancel ==
    /\ ~cancelled /\ w.pc # "over"
    /\ cancelled' = TRUE
    /\ w' = [w EXCEPT !.at = Call]
    /\ UNCHANGED <<req, dev>>

\* The device works on its task.
DeviceTask ==
    /\ dev.task = "active"
    /\ \/ dev' = [Write(dev.group) EXCEPT !.task = "done"]
       \/ dev' = [dev EXCEPT !.task = "failed"]
       \/ dev.group \subseteq Held /\ dev' = [dev EXCEPT !.task = "identical"]
       \/ dev' = [dev EXCEPT !.task = "gone"]
       \/ dev' = [Write(dev.group) EXCEPT !.task = "gone"]
    /\ UNCHANGED <<req, w, cancelled>>

\* The device is back after a reset, with some of the staged images active.
DeviceBoots ==
    /\ dev.resetting
    /\ \E active \in SUBSET dev.staged :
          dev' = [dev EXCEPT !.resetting = FALSE, !.running = @ \cup active,
                             !.staged = @ \ active]
    /\ UNCHANGED <<req, w, cancelled>>

Done == w.pc = "over" /\ UNCHANGED vars

Next == Work \/ Cancel \/ DeviceTask \/ DeviceBoots \/ Done

\* The worker's task is scheduled and every call of it returns: each has a
\* timeout.  The device owes nothing.
Spec == Init /\ [][Next]_vars /\ WF_vars(Work)

-----------------------------------------------------------------------------
(* A target the job counts as applied or as skipped is on the device,      *)
(* written or active, however its task ended: polled, lost, rejected or    *)
(* repeated after a power cycle (firmware_update_outcome_until_done).      *)
SettledIsHeld == w.applied \cup w.skipped \subseteq Held

(* No stage starts, and no job completes, before the targets applied in    *)
(* every earlier stage that is activated and verified run their new        *)
(* firmware (the stage loop: power cycle and check between the payloads),  *)
(* as far as the check has a version to compare.                           *)
EarlierStagesRun ==
    LET over == IF w.result = "completed" THEN Len(w.stages) ELSE w.stage - 1 IN
    \A i \in 1 .. over :
        w.stages[i].verify =>
            w.applied \cap w.stages[i].targets \cap req.comparable \subseteq dev.running

(* Once the job is cancelled, whatever it still does to the device belongs *)
(* to the one call that was under way when the token was set: an upload    *)
(* that had passed its look at the token (update_firmware_with_context),   *)
(* with the power cycle its error leads to, or an activation               *)
(* (activate_firmware_with_context).  It begins no other, and does not     *)
(* repeat the upload after the power cycle.                                *)
CancelStopsWrites == [][cancelled /\ w' # w /\ dev' # dev => Call = w.at]_vars

(* The job ends, whatever the device does.                                 *)
WorkerEnds == <>(w.pc = "over")

(* What the worker says of its token: "checked at each workflow boundary". *)
(* A cancelled job begins nothing on the device, no power cycle either.    *)
CancelStopsAll ==
    [][cancelled => ~(w.pc = "update_error" /\ w'.pc = "powercycle")]_vars
=============================================================================
