----------------------------- MODULE SwitchImage -----------------------------
(***************************************************************************)
(* The switch system-image (NVOS) update job                               *)
(* (api/grpc/switch_image_handlers.rs, run_switch_system_image_job): the   *)
(* setup stages that recover a switch through ONIE, then inspect, clean    *)
(* the unused partition, stage, install, reboot and verify.                *)
(*                                                                         *)
(* Jobs work on one switch one after another.  A job that is cancelled,    *)
(* times out or dies with the process leaves behind what it has started on *)
(* the switch: an NVUE action, an ONIE installer, a reboot.                *)
(*                                                                         *)
(* A network call may fail at any step.  A wait may time out at any poll.  *)
(* A stage looks at the token when it begins, and then makes its calls;    *)
(* most of them do not look again.                                         *)
(***************************************************************************)
EXTENDS Naturals

CONSTANTS
    Builds,    \* the images' build ids
    None,
    Sites,     \* the sites: whether BMC activation (VR NVL72) and secure
    MaxJobs    \* bound: jobs on the switch

Partitions == {1, 2}
Other(p) == 3 - p

VARIABLES
    site,       \* which kind of switch, on which kind of site
    run,        \* the running job
    cancelled,  \* its cancellation token
    sw          \* the switch

vars == <<site, run, cancelled, sw>>

Images == [part: [Partitions -> Builds \cup {None}], cur: Partitions, nxt: Partitions]
Stages ==
    {"verify", "recover", "onie_install", "onie_wait", "bootstrap", "init", "persist",
     "inspect", "asic", "cleanup", "uninstall_wait", "stage", "trigger", "install_wait",
     "activate", "reset", "steady", "ready"}
Over == {"failed", "completed", "lost"}
NoTask == [kind |-> "none", img |-> None, st |-> "none"]

TypeOK ==
    /\ site \in Sites
    /\ run \in [n: 1..MaxJobs, target: Builds, onie: BOOLEAN, recovered: BOOLEAN,
                verified: BOOLEAN, pw_tried: BOOLEAN, before: Images \cup {None},
                begun: BOOLEAN, at: Stages \cup {None},
                pc: Stages \cup {"onie_pw", "steady_pw"} \cup Over]
    /\ cancelled \in BOOLEAN
    /\ sw.part \in [Partitions -> Builds \cup {None}]
    /\ sw.cur \in Partitions /\ sw.nxt \in Partitions
    /\ sw.os \in {"onie", "boot", "nvos"} /\ sw.pw \in {"default", "target"}
    /\ sw.saved \in BOOLEAN /\ sw.cert \in BOOLEAN /\ sw.reboot \in BOOLEAN
    /\ sw.task \in [kind: {"none", "install", "uninstall"}, img: Builds \cup {None},
                    st: {"none", "running", "success", "error"}]
    /\ sw.installers \subseteq Builds

\* begun: the stage has looked at the token and makes its calls.
\* at: history, the stage whose calls were under way when the token was set.
NewJob(n, target, onie) ==
    [n |-> n, target |-> target, onie |-> onie, recovered |-> FALSE, verified |-> FALSE,
     pw_tried |-> FALSE, before |-> None, pc |-> "verify", begun |-> FALSE, at |-> None]

Init ==
    /\ site \in Sites
    /\ run \in {NewJob(1, b, o) : b \in Builds, o \in BOOLEAN}
    /\ cancelled = FALSE
    /\ \E os \in {"onie", "nvos"}, im \in Images :
         /\ IF os = "nvos" THEN im.part[im.cur] # None /\ im.part[im.nxt] # None
            ELSE im = [part |-> [p \in Partitions |-> None], cur |-> 1, nxt |-> 1]
         /\ sw = [os |-> os, part |-> im.part, cur |-> im.cur, nxt |-> im.nxt,
                  pw |-> "target", saved |-> TRUE, cert |-> TRUE, reboot |-> FALSE,
                  task |-> NoTask, installers |-> {}]

------------------------------------------------------------------------------
(* What the switch answers *)

\* An NVUE request with the node's credentials succeeds, or is refused with 401.
TlsUp == sw.os = "nvos" /\ (site.secure => sw.cert)
RestUp == TlsUp /\ sw.pw = "target"
Unauthorized == TlsUp /\ sw.pw = "default"

\* The SSH probe of `command -v nv` with the node's credentials.
SshUp == sw.os = "nvos" /\ sw.pw = "target"

\* SwitchSystemImageState: the boot selection and the partitions' build ids.
ImageState == [part |-> sw.part, cur |-> sw.cur, nxt |-> sw.nxt]

\* An NVUE action starts when none runs.
Accepts == RestUp /\ sw.task.st # "running"

------------------------------------------------------------------------------
(* The job *)

\* The password change that answers a 401 follows without a look at the token.
\* What a job knew ends with it.
To(r, pc) ==
    [(IF pc \in Over THEN NewJob(r.n, r.target, r.onie) ELSE r)
        EXCEPT !.pc = pc, !.begun = pc \in {"onie_pw", "steady_pw"}]
Goto(pc) == run' = To(run, pc) /\ UNCHANGED <<site, cancelled>>
End(result) == Goto(result) /\ UNCHANGED sw
Fail == End("failed")

\* start_stage, check_cancel and the top of every wait.
Begin ==
    /\ run.pc \notin Over /\ ~run.begun /\ ~cancelled
    /\ run' = [run EXCEPT !.begun = TRUE]
    /\ UNCHANGED <<site, cancelled, sw>>

At(pc) == run.pc = pc /\ run.begun

\* The calls that do not look at the token.  The others, among them every wait
\* and every upload, stop when it is set.
Blind == {"verify", "init", "inspect", "asic", "cleanup", "trigger", "onie_pw", "steady_pw"}
BailOut ==
    /\ cancelled /\ run.pc \notin Over
    /\ run.begun => run.pc \notin Blind
    /\ Fail

\* verify_nvos_installation: REST, then, with an ONIE endpoint, SSH to NVOS and
\* SSH to ONIE.  The transport is initialised first, when it can be.  An installed
\* switch skips recovery and the bootstrap.
Verify ==
    /\ At("verify")
    /\ UNCHANGED <<site, cancelled, sw>>
    /\ \/ /\ RestUp \/ (run.onie /\ SshUp)
          /\ \E v \in {FALSE, RestUp /\ site.secure} :
               run' = To([run EXCEPT !.verified = v], "init")
       \/ run.onie /\ sw.os = "onie" /\ run' = To(run, "recover")
       \/ run' = To(run, "failed")

\* The certificate preflight of a secure site, then stage_nvos_recovery_image.
Recover ==
    /\ At("recover")
    /\ UNCHANGED sw
    /\ \/ sw.os = "onie" /\ Goto("onie_install")
       \/ Goto("failed")

\* install_staged_nvos_image_and_wait starts the installer in the background; the
\* command's answer may be lost.
OnieInstall ==
    /\ At("onie_install")
    /\ \/ /\ sw.os = "onie"
          /\ sw' = [sw EXCEPT !.installers = @ \cup {run.target}]
          /\ Goto("onie_wait") \/ Goto("failed")
       \/ Fail

\* The wait for NVOS: SSH with the node's password, and the factory password when
\* it is refused.  It fails on the installer's exit status or when the time is up.
OnieWait ==
    /\ At("onie_wait")
    /\ UNCHANGED <<site, cancelled, sw>>
    /\ \/ SshUp /\ run' = To([run EXCEPT !.recovered = TRUE], "bootstrap")
       \/ sw.os = "nvos" /\ sw.pw = "default" /\ run' = To(run, "onie_pw")
       \/ run' = To(run, "failed")

\* recover_admin_password_after_boot: the change, then the check of the new
\* login.  The change may be done and the check fail.
ChangePassword == sw.os = "nvos" /\ sw' = [sw EXCEPT !.pw = "target"]

OniePassword ==
    /\ At("onie_pw")
    /\ \/ ChangePassword /\ (Goto("onie_wait") \/ Goto("failed"))
       \/ UNCHANGED sw /\ (Goto("onie_wait") \/ Goto("failed"))

\* bootstrap_nvue_certificate, on a secure site.
Bootstrap ==
    /\ At("bootstrap")
    /\ UNCHANGED <<site, cancelled>>
    /\ \/ ~site.secure /\ run' = To(run, "init") /\ UNCHANGED sw
       \/ /\ site.secure /\ sw.os = "nvos"
          /\ sw' = [sw EXCEPT !.cert = TRUE]
          /\ \/ sw.pw = "target" /\ run' = To([run EXCEPT !.verified = TRUE], "init")
             \/ run' = To(run, "failed")
       \/ site.secure /\ run' = To(run, "failed") /\ UNCHANGED sw

\* initialize_nvue_client: a secure site needs a probe over verified mTLS, unless
\* this job's client has one; an insecure site sends nothing.
InitNvue ==
    /\ At("init")
    /\ \/ (~site.secure \/ run.verified \/ RestUp) /\ Goto("persist") /\ UNCHANGED sw
       \/ Fail

\* persist_recovered_nvos_credentials, skipped when NVOS was installed.
Persist ==
    /\ At("persist")
    /\ \/ ~run.recovered /\ Goto("inspect") /\ UNCHANGED sw
       \/ run.recovered /\ RestUp /\ sw' = [sw EXCEPT !.saved = TRUE] /\ Goto("inspect")
       \/ run.recovered /\ Fail

\* Mutant of Active.
ActiveCurrentOnly(s) == s.part[s.cur] = run.target

\* target_is_active.
Active(s) == s.part[s.cur] = run.target /\ s.part[s.nxt] = run.target

\* inspect_state, and the early exit of a switch that is up to date.
Inspect ==
    /\ At("inspect")
    /\ UNCHANGED <<site, cancelled, sw>>
    /\ \/ /\ RestUp
          /\ run' = To([run EXCEPT !.before = ImageState],
                       IF Active(ImageState) /\ ~run.recovered THEN "completed" ELSE "asic")
       \/ run' = To(run, "failed")

\* ensure_nvos_asic_firmware_config: the configuration is patched and applied
\* unless it is in force, and saved in either case; the answer may be lost.  A
\* recovered switch on the target goes to readiness.
Asic ==
    /\ At("asic")
    /\ \/ /\ RestUp /\ sw' = [sw EXCEPT !.saved = TRUE]
          /\ \/ Goto(IF run.recovered /\ Active(run.before) THEN "ready" ELSE "cleanup")
             \/ Goto("failed")
       \/ Fail

\* plan_unused_partition_cleanup.
Unused(s) == s.part[Other(s.cur)]
Removable(s) ==
    /\ Unused(s) # None
    /\ Unused(s) \notin {s.part[s.cur], s.part[s.nxt], run.target}
    /\ s.nxt # Other(s.cur)

Start(kind) == sw' = [sw EXCEPT !.task = [kind |-> kind, img |-> run.target, st |-> "running"]]

\* cleanup_old_partition, from the state `inspect` has read.  NVUE picks the
\* image, and without force refuses the one the next boot takes.
Cleanup ==
    /\ At("cleanup")
    /\ \/ ~Removable(run.before) /\ Goto("stage") /\ UNCHANGED sw
       \/ /\ Removable(run.before) /\ Accepts /\ sw.nxt = sw.cur
          /\ Start("uninstall")
          /\ Goto("uninstall_wait") \/ Goto("failed")
       \/ Fail

UninstallWait ==
    /\ At("uninstall_wait")
    /\ \/ RestUp /\ sw.task.st = "success" /\ Goto("stage") /\ UNCHANGED sw
       \/ Fail

\* push_system_image_file.
Stage ==
    /\ At("stage")
    /\ \/ SshUp /\ Goto("trigger") /\ UNCHANGED sw
       \/ Fail

\* Mutant of Trigger: the token is not looked at.
TriggerUnchecked ==
    /\ run.pc = "trigger"
    /\ \/ Accepts /\ Start("install") /\ (Goto("install_wait") \/ Goto("failed"))
       \/ Fail

\* install_system_image; the answer may be lost.
Trigger ==
    /\ At("trigger")
    /\ \/ Accepts /\ Start("install") /\ (Goto("install_wait") \/ Goto("failed"))
       \/ Fail

\* wait_for_install_completion.  GB: success, a reboot that NVUE reports, or 401.
\* VR: only success.  An error of the transport, and an action the rebooted NVUE
\* does not know, are polled again until the time is up.
Installed ==
    IF site.vr THEN RestUp /\ sw.task.st = "success"
    ELSE Unauthorized \/ (RestUp /\ (sw.task.st = "success" \/ sw.reboot))
InstallWait ==
    /\ At("install_wait")
    /\ \/ Installed /\ Goto(IF site.vr THEN "activate" ELSE "steady") /\ UNCHANGED sw
       \/ Fail

\* Mutant of Activate: the next boot is not read back.
ActivateBlind == At("activate") /\ (Goto("reset") \/ Goto("failed")) /\ UNCHANGED sw

\* activate_staged_system_image_via_bmc: the boot-next check, then one reset, whose
\* answer may be lost.
Activate ==
    /\ At("activate")
    /\ UNCHANGED sw
    /\ \/ RestUp /\ sw.part[sw.nxt] = run.target /\ Goto("reset")
       \/ Goto("failed")
Reset ==
    /\ At("reset")
    /\ \/ sw' = [sw EXCEPT !.os = "boot"] /\ (Goto("steady") \/ Goto("failed"))
       \/ Fail

\* wait_for_target_steady_state, with one password change after a 401.
Steady ==
    /\ At("steady")
    /\ UNCHANGED <<site, cancelled, sw>>
    /\ \/ RestUp /\ Active(ImageState) /\ run' = To(run, "ready")
       \/ Unauthorized /\ ~run.pw_tried /\ run' = To([run EXCEPT !.pw_tried = TRUE], "steady_pw")
       \/ run' = To(run, "failed")
SteadyPassword ==
    /\ At("steady_pw")
    /\ \/ ChangePassword /\ (Goto("steady") \/ Goto("failed"))
       \/ Fail

\* verify_system_ready, and complete_verified.
Ready ==
    /\ At("ready")
    /\ (RestUp /\ End("completed")) \/ Fail

------------------------------------------------------------------------------
(* The switch *)

\* onie-nos-install ends: the disk holds one image and reboots, or it
\* has failed.
InstallerEnds ==
    /\ UNCHANGED <<site, run, cancelled>>
    /\ \E b \in sw.installers :
         \/ sw' = [sw EXCEPT !.os = "boot", !.part = [p \in Partitions |-> IF p = 1 THEN b ELSE None],
                             !.cur = 1, !.nxt = 1, !.pw = "default", !.saved = FALSE,
                             !.cert = FALSE, !.reboot = FALSE, !.task = NoTask,
                             !.installers = {}]
         \/ sw' = [sw EXCEPT !.installers = @ \ {b}]

\* An NVUE action ends.  An install writes the unused partition; it may fail to
\* select it.  GB then reboots by itself.
TaskEnds ==
    /\ sw.os = "nvos" /\ sw.task.st = "running"
    /\ UNCHANGED <<site, run, cancelled>>
    /\ \/ sw' = [sw EXCEPT !.task.st = "error"]
       \/ /\ sw.task.kind = "uninstall"
          /\ sw' = [sw EXCEPT !.task.st = "success", !.part[Other(sw.cur)] = None]
       \/ /\ sw.task.kind = "install"
          /\ \E n \in {sw.nxt, Other(sw.cur)} :
               sw' = [sw EXCEPT !.task.st = "success", !.part[Other(sw.cur)] = sw.task.img,
                                !.nxt = n, !.reboot = ~site.vr]

GoesDown ==
    /\ sw.os = "nvos" /\ sw.reboot
    /\ sw' = [sw EXCEPT !.os = "boot"]
    /\ UNCHANGED <<site, run, cancelled>>

\* A password that was not saved is gone; a new image may ask for its own.
Boots ==
    /\ sw.os = "boot"
    /\ \E pw \in {"default", IF sw.saved THEN sw.pw ELSE "default"} :
         sw' = [sw EXCEPT !.os = "nvos", !.cur = sw.nxt, !.pw = pw, !.reboot = FALSE,
                          !.task = NoTask]
    /\ UNCHANGED <<site, run, cancelled>>

------------------------------------------------------------------------------
(* The service: cancellation, the end of the process, the next request *)

\* A password change belongs to the wait that has met the 401.
StageOf(pc) ==
    CASE pc = "onie_pw" -> "onie_wait" [] pc = "steady_pw" -> "steady" [] OTHER -> pc

Cancel ==
    /\ run.pc \notin Over /\ ~cancelled
    /\ cancelled' = TRUE
    /\ run' = [run EXCEPT !.at = IF run.begun THEN StageOf(run.pc) ELSE None]
    /\ UNCHANGED <<site, sw>>
Crash == run.pc \notin Over /\ End("lost")
NextJob ==
    /\ run.pc \in Over /\ run.n < MaxJobs
    /\ \E b \in Builds, o \in BOOLEAN : run' = NewJob(run.n + 1, b, o)
    /\ cancelled' = FALSE
    /\ UNCHANGED <<site, sw>>

Job ==
    \/ Begin \/ BailOut \/ Verify \/ Recover \/ OnieInstall \/ OnieWait \/ OniePassword \/ Bootstrap
    \/ InitNvue \/ Persist \/ Inspect \/ Asic \/ Cleanup \/ UninstallWait \/ Stage \/ Trigger
    \/ InstallWait \/ Activate \/ Reset \/ Steady \/ SteadyPassword \/ Ready
Switch == InstallerEnds \/ TaskEnds \/ GoesDown \/ Boots
Next == Job \/ Switch \/ Cancel \/ Crash \/ NextJob

Spec == Init /\ [][Next]_vars

------------------------------------------------------------------------------
(* Properties *)

\* A job that completes (complete_verified) leaves a switch whose running build
\* and whose next-boot build are both the target, whatever an earlier job has
\* left running on it: a stale next-boot partition would restore an older image.
CompletedRunsTarget ==
    [][run'.pc = "completed" =>
         sw.part[sw.cur] = run.target /\ sw.part[sw.nxt] = run.target]_run

\* The BMC reset of a VR switch is sent on proof only: no install runs, and the
\* next boot takes the target (activate_staged_system_image_via_bmc, "Never reset
\* on an ambiguous install").
ResetProven ==
    [][sw.os = "nvos" /\ sw'.os = "boot" /\ ~sw.reboot =>
         /\ run.pc = "reset" /\ sw.task.st # "running" /\ sw.part[sw.nxt] = run.target]_sw

\* After the cancellation token is set, whatever the job still does to the switch
\* (an ONIE installer, a saved configuration, an NVUE action, a reset, a password)
\* belongs to the one stage whose calls were under way: no later stage begins
\* (start_stage, check_cancel).  What runs on the switch goes on.
CancelEndsWithStage == [][cancelled /\ run' # run /\ sw' # sw => StageOf(run.pc) = run.at]_vars

\* docs/operations/switch-management.md: "After NVUE initialization, RMS saves the
\* applied configuration so the password persists across reboots."
CompletedIsSaved == run.pc = "completed" => sw.saved

\* wait_for_install_completion's comment: "On transient transport errors after the
\* switch starts rebooting, or on HTTP 401 ..., we return Ok(()) so the caller can
\* move straight to the steady-state wait": the wait does not fail the job of a
\* switch that reboots, or has rebooted, into the installed image.
RebootIsHandedOn ==
    [][run.pc = "install_wait" /\ run'.pc = "failed" /\ ~cancelled =>
         sw.os = "nvos" /\ sw.task.st # "none"]_run
==============================================================================
