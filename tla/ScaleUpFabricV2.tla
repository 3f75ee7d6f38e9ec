--------------------------- MODULE ScaleUpFabricV2 ---------------------------
(***************************************************************************)
(* ConfigureScaleUpFabricManager of RackManagerV2 without a layout         *)
(* (api/grpc/scaleupfabricmanager_handlers/handlers_v2.rs): one job moves  *)
(* the fabric of a set of switches to one primary.  It takes a snapshot,   *)
(* disables the other switches (a VR NVL72 switch loses its node IPs       *)
(* first), enables and configures the primary, reads everything back, and  *)
(* on a failure restores the snapshot, collecting what could not be        *)
(* restored.                                                               *)
(*                                                                         *)
(* A job holds the scopes of all its switches (JobRegistry), so jobs work  *)
(* on them one after another; the worker may be lost between two calls.    *)
(* Every call to a switch may fail, with or without its effect.            *)
(***************************************************************************)
EXTENDS Naturals, FiniteSets

CONSTANTS
    Switches,  \* the switches of the request
    Sites,     \* [vr, insecure, secondary]: switch type, insecure_switch, secondary addresses requested
    Found,     \* [on, ips, sec, grpc]: what the first job may find on a switch
    MaxJobs,   \* bound: jobs on the switches
    MaxFaults  \* bound: calls that fail although the switch could serve them

VARIABLES
    site,       \* the request, the same for every job
    supported,  \* the switches that have /cluster/node/secondary
    sw,         \* the switches
    job,        \* the running job
    faults      \* failed calls so far

vars == <<site, supported, sw, job, faults>>

Over == {"completed", "failed", "lost"}
Addresses == {"none", "own", "want"}

\* The steps before the first failure, and the steps that restore.
Forward == {"prepare", "clear", "clear_secondary", "clear_disable", "clear_wait", "disable",
            "enable", "ips", "secondary", "read_grpc", "secure", "secure_grpc", "secure_hello",
            "reconcile", "configure", "open_grpc", "static_config", "converge", "insecure",
            "readback"}
Restore == {"undo", "undo_grpc", "undo_state"}

Switch == [on: BOOLEAN, running: BOOLEAN, ips: Addresses, sec: Addresses, grpc: BOOLEAN]

TypeOK ==
    /\ site \in Sites /\ supported \subseteq Switches /\ faults \in 0..MaxFaults
    /\ sw \in [Switches -> Switch]
    /\ job \in [n: 1..MaxJobs, pc: Over \cup Forward \cup Restore, primary: Switches,
                snap: [Switches -> Switch], todo: SUBSET Switches, failed: BOOLEAN,
                grpc: {"unread", "unreadable", "open", "closed"},
                undo: [Switches -> {"enable", "ips", "secondary", "done"}], errors: BOOLEAN]

\* The job's snapshot; its reads change nothing, so they are taken as one.
NewJob(n, p) ==
    [n |-> n, pc |-> "prepare", primary |-> p, snap |-> sw, todo |-> {}, failed |-> FALSE,
     grpc |-> "unread", undo |-> [s \in Switches |-> "done"], errors |-> FALSE]

\* NVOS keeps node IPs on an enabled cluster only.
Init ==
    /\ site \in Sites /\ supported \in SUBSET Switches /\ faults = 0
    /\ \E found \in [Switches -> Found] :
          sw = [s \in Switches |-> [on |-> found[s].on, running |-> found[s].on,
                                    ips |-> found[s].ips, sec |-> found[s].sec,
                                    grpc |-> found[s].grpc]]
    /\ \A s \in Switches : /\ ~site.vr \/ ~sw[s].on => sw[s].ips = "none" /\ sw[s].sec = "none"
                           /\ s \notin supported => sw[s].sec = "none"
    /\ \E p \in Switches : job = NewJob(1, p)

------------------------------------------------------------------------------
(* Calls to a switch *)

\* set_cluster_state: NVOS refuses to disable while node IPs remain.  The
\* controller of an enabled switch runs; a disabled one's stops later.
Settable(s, on) == on \/ ~sw[s].on \/ (sw[s].ips = "none" /\ sw[s].sec = "none")
SetState(s, on) == [sw EXCEPT ![s].on = on, ![s].running = @ \/ on]

\* reconcile_node_ips: NVOS refuses node IPs while the cluster is disabled.
Writable(s, old, new) == sw[s].on \/ old = new

\* A call that can take effect is done, or fails after or without its effect.
Fault == faults < MaxFaults /\ faults' = faults + 1
Call(can, effect, done, fails) ==
    \/ can /\ sw' = effect /\ job' = done /\ UNCHANGED faults
    \/ can /\ sw' \in {sw, effect} /\ job' = fails /\ Fault
    \/ ~can /\ job' = fails /\ UNCHANGED <<sw, faults>>

\* A read or a wait that changes nothing.
Look(can, done, fails) == Call(can, sw, done, fails)

At(pc) == job.pc = pc /\ UNCHANGED <<site, supported>>
Goto(pc) == [job EXCEPT !.pc = pc]

\* A failure after the first mutation goes to the rollback: node IPs first, for
\* the switches whose node IPs are in the snapshot.
Snapped == {s \in Switches : site.vr /\ (job.snap[s].on \/ s = job.primary)}
Failing == [job EXCEPT !.pc = "undo",
                       !.undo = [s \in Switches |-> IF s \in Snapped THEN "enable" ELSE "done"]]

Step(pc, can, effect, next) == At(pc) /\ Call(can, effect, Goto(next), Failing)

------------------------------------------------------------------------------
(* Forward *)

Others == Switches \ {job.primary}
Cleared == {s \in Others : site.vr /\ job.snap[s].on}

\* Snapshot, selection of the primary, validation, node-IP snapshots: a failure
\* ends the job.  The secondary interface is required when it is configured.
Prepare ==
    /\ At("prepare")
    /\ Look(site.vr /\ site.secondary => job.primary \in supported,
            [job EXCEPT !.pc = IF Cleared = {} THEN "disable" ELSE "clear",
                        !.todo = IF Cleared = {} THEN Others ELSE Cleared],
            Goto("failed"))

\* clear_node_ips_and_disable_cluster, one switch after the other.
Clear == \E s \in job.todo :
    /\ At("clear")
    /\ Call(Writable(s, sw[s].ips, "none"), [sw EXCEPT ![s].ips = "none"],
            [job EXCEPT !.pc = IF s \in supported THEN "clear_secondary" ELSE "clear_disable",
                        !.todo = {s}], Failing)

ClearSecondary == \E s \in job.todo :
    Step("clear_secondary", Writable(s, sw[s].sec, "none"), [sw EXCEPT ![s].sec = "none"],
         "clear_disable")

ClearDisable == \E s \in job.todo :
    Step("clear_disable", Settable(s, FALSE), SetState(s, FALSE), "clear_wait")

\* The clear goes on with the next switch whose node IPs were snapshotted, then
\* with the plain disable of the others.
Uncleared == {s \in Cleared : sw[s].on}
AfterClear == [job EXCEPT !.pc = IF Uncleared = {} THEN "disable" ELSE "clear",
                          !.todo = IF Uncleared = {} THEN Others \ Cleared ELSE Uncleared]

\* Mutant of ClearWait: the controller is not waited for.
ClearWaitStateOnly ==
    At("clear_wait") /\ Look(\A s \in job.todo : ~sw[s].on, AfterClear, Failing)

\* The retries run out before the controller stops, or it stops in time.
ClearWait ==
    At("clear_wait") /\ Look(\A s \in job.todo : ~sw[s].on /\ ~sw[s].running, AfterClear, Failing)

\* set_scale_up_fabric_state_for_device on the remaining switches, all at once;
\* every call ends before the first failure is looked at.
Disable ==
    \/ \E s \in job.todo :
          At("disable") /\ Call(Settable(s, FALSE), SetState(s, FALSE),
                                [job EXCEPT !.todo = @ \ {s}],
                                [job EXCEPT !.todo = @ \ {s}, !.failed = TRUE])
    \/ /\ At("disable") /\ job.todo = {} /\ UNCHANGED <<sw, faults>>
       /\ job' = IF job.failed THEN Failing ELSE Goto(IF site.vr THEN "enable" ELSE "read_grpc")

Enable == Step("enable", TRUE, SetState(job.primary, TRUE), "ips")

ConfigureIps == LET p == job.primary IN
    Step("ips", Writable(p, sw[p].ips, "want"), [sw EXCEPT ![p].ips = "want"],
         IF site.secondary THEN "secondary" ELSE "read_grpc")

ConfigureSecondary == LET p == job.primary IN
    Step("secondary", Writable(p, sw[p].sec, "want"), [sw EXCEPT ![p].sec = "want"], "read_grpc")

\* Without a prepared switch one is built, which may fail.  An unreadable state
\* of the port (read_external_grpc_enabled) counts as closed.
ReadGrpc ==
    /\ At("read_grpc") /\ UNCHANGED sw
    /\ \/ ~site.vr /\ job' = Failing /\ Fault
       \/ \E g \in {"unreadable", IF sw[job.primary].grpc THEN "open" ELSE "closed"} :
             /\ job' = [job EXCEPT !.grpc = g,
                                   !.pc = IF site.insecure THEN "reconcile" ELSE "secure"]
             /\ IF g = "unreadable" THEN Fault ELSE UNCHANGED faults

\* enforce_primary_nmx_controller_security: a rebind changes nothing kept here;
\* the Hello is prepared with the cluster and the port enabled.
OpenGrpc == [sw EXCEPT ![job.primary].grpc = TRUE]
Secure ==
    \/ Step("secure", TRUE, SetState(job.primary, TRUE), "secure_grpc")
    \/ Step("secure_grpc", TRUE, OpenGrpc, "secure_hello")
    \/ Step("secure_hello", TRUE, sw, "reconcile")

\* reconcile_scale_up_fabric_primary: an enabled primary whose config can be
\* read and matches is left as it is, anything else is configured.
Reconcile ==
    /\ At("reconcile")
    /\ \/ Look(TRUE, Goto("configure"), Failing)
       \/ sw[job.primary].on /\ Look(TRUE, Goto("converge"), Failing)

\* configure_scale_up_fabric_manager_on_switch; a failure once the port is open
\* closes it again, as far as that succeeds.
Configure ==
    \/ Step("configure", TRUE, SetState(job.primary, TRUE), "open_grpc")
    \/ Step("open_grpc", TRUE, OpenGrpc, "static_config")
    \/ /\ At("static_config")
       /\ \/ job' = Goto("converge") /\ UNCHANGED <<sw, faults>>
          \/ job' = Failing /\ sw' \in {sw, [sw EXCEPT ![job.primary].grpc = FALSE]} /\ Fault

\* wait_for_nmx_controller_configured: the one restart of an unhealthy controller
\* app, and the time limit, change nothing kept here.
Converge ==
    Step("converge", TRUE, sw, IF site.insecure THEN "insecure" ELSE "readback")

Insecure == Step("insecure", TRUE, sw, "readback")

\* validate_reconciled_scale_up_fabric_status and the node-IP verification.
Reconciled == LET p == job.primary IN
    /\ \A s \in Switches : sw[s].on <=> s = p
    /\ site.vr => sw[p].ips = "want" /\ (site.secondary => sw[p].sec = "want")

Readback == Step("readback", Reconciled, sw, "completed")

------------------------------------------------------------------------------
(* Rollback *)

Noting(s, next) == [job EXCEPT !.undo[s] = next]
NotingError(s, next) == [job EXCEPT !.undo[s] = next, !.errors = TRUE]

\* The switches with node IPs in the snapshot, all at once: enable, then
\* restore both interfaces, going on after an error.
UndoNodeIps == \E s \in Switches :
    /\ At("undo")
    /\ \/ /\ job.undo[s] = "enable"
          /\ Call(TRUE, SetState(s, TRUE), Noting(s, "ips"), NotingError(s, "ips"))
       \/ LET probed == s \in supported /\ (s # job.primary \/ site.secondary)
              next == IF probed THEN "secondary" ELSE "done"
          IN /\ job.undo[s] = "ips"
             /\ Call(Writable(s, sw[s].ips, job.snap[s].ips),
                     [sw EXCEPT ![s].ips = job.snap[s].ips],
                     Noting(s, next), NotingError(s, next))
       \/ /\ job.undo[s] = "secondary"
          /\ Call(Writable(s, sw[s].sec, job.snap[s].sec),
                  [sw EXCEPT ![s].sec = job.snap[s].sec],
                  Noting(s, "done"), NotingError(s, "done"))

UndoneNodeIps ==
    /\ At("undo") /\ UNCHANGED <<sw, faults>>
    /\ \A s \in Switches : job.undo[s] = "done"
    /\ job' = [job EXCEPT !.pc = "undo_grpc", !.todo = Switches]

UndoState == [job EXCEPT !.pc = "undo_state"]

\* Mutant of UndoGrpc: the port is closed whatever it was.
UndoGrpcAlways ==
    /\ At("undo_grpc")
    /\ Call(TRUE, [sw EXCEPT ![job.primary].grpc = FALSE],
            UndoState, [UndoState EXCEPT !.errors = TRUE])

\* restore_primary_external_grpc, once the port's state was snapshotted.
UndoGrpc ==
    /\ At("undo_grpc")
    /\ \/ job.grpc = "unread" /\ UNCHANGED <<sw, faults>> /\ job' = UndoState
       \/ /\ job.grpc # "unread"
          /\ Call(TRUE, [sw EXCEPT ![job.primary].grpc = job.grpc = "open"],
                  UndoState, [UndoState EXCEPT !.errors = TRUE])

\* The enabled state of every switch, all at once, then the job fails.
UndoStates ==
    \/ \E s \in job.todo :
          /\ At("undo_state")
          /\ Call(Settable(s, job.snap[s].on), SetState(s, job.snap[s].on),
                  [job EXCEPT !.todo = @ \ {s}],
                  [job EXCEPT !.todo = @ \ {s}, !.errors = TRUE])
    \/ At("undo_state") /\ job.todo = {} /\ UNCHANGED <<sw, faults>> /\ job' = Goto("failed")

------------------------------------------------------------------------------
(* The worker is lost with the process; the next request; the switch *)

Lost ==
    /\ job.pc \notin Over /\ job' = Goto("lost")
    /\ UNCHANGED <<site, supported, sw, faults>>

NextJob ==
    /\ job.pc \in Over /\ job.n < MaxJobs
    /\ \E p \in Switches : job' = NewJob(job.n + 1, p)
    /\ UNCHANGED <<site, supported, sw, faults>>

ControllerStops == \E s \in Switches :
    /\ sw[s].running /\ ~sw[s].on
    /\ sw' = [sw EXCEPT ![s].running = FALSE]
    /\ UNCHANGED <<site, supported, job, faults>>

Next ==
    \/ Prepare \/ Clear \/ ClearSecondary \/ ClearDisable \/ ClearWait \/ Disable
    \/ Enable \/ ConfigureIps \/ ConfigureSecondary \/ ReadGrpc \/ Secure
    \/ Reconcile \/ Configure \/ Converge \/ Insecure \/ Readback
    \/ UndoNodeIps \/ UndoneNodeIps \/ UndoGrpc \/ UndoStates
    \/ Lost \/ NextJob \/ ControllerStops

Spec == Init /\ [][Next]_vars

------------------------------------------------------------------------------
(* Properties *)

\* Failures after mutation restore the snapshotted switch state: a job that
\* fails without reporting an incomplete rollback has put back the enabled
\* state and the node IPs of every switch, and the primary's external gRPC port
\* unless its state could not be read (then it is closed).
RestoredUnlessReported ==
    job.pc = "failed" /\ ~job.errors =>
        \A s \in Switches :
            /\ sw[s].on = job.snap[s].on
            /\ sw[s].ips = job.snap[s].ips /\ sw[s].sec = job.snap[s].sec
            /\ sw[s].grpc = (job.snap[s].grpc /\ ~(s = job.primary /\ job.grpc = "unreadable"))

TurnsOn(p) == ~sw[p].on /\ sw'[p].on

\* The mutation-safe order of the job: before the rollback, the primary is
\* enabled only when every other switch is disabled, and on a VR NVL72 fabric
\* only when the controllers that the snapshot found enabled have stopped.
HandsOverInOrder ==
    [][job.pc \in Forward /\ TurnsOn(job.primary) =>
          \A s \in Others : ~sw[s].on /\ (site.vr /\ job.snap[s].on => ~sw[s].running)]_vars

\* "The applied state can briefly report disabled before the controller shutdown
\* finishes.  Wait for both before enabling another switch": no controller of
\* the request still runs when the job enables the primary.
StoppedBeforeEnabling ==
    [][job.pc \in Forward /\ TurnsOn(job.primary) => \A s \in Others : ~sw[s].running]_vars
==============================================================================
