----------------------------- MODULE MtlsUnset ------------------------------
(***************************************************************************)
(* Clearing the mTLS bindings of a switch's services over its CLI: the     *)
(* command flow of nvswitch_cli (flow.rs, handler.rs), run and reported by *)
(* the disable-mTLS job (run_switch_mtls_unset_job) and by layout workers  *)
(* of an insecure deployment (disable_insecure_nmx_controller_mtls).       *)
(*                                                                         *)
(* `nv unset` stages a change in the configuration the switch keeps        *)
(* pending for RMS, `nv config apply` and `nv config save` act on all of   *)
(* it, and `nv action restore` of a cluster app works at once.  A command  *)
(* that fails may have taken effect.                                       *)
(***************************************************************************)
EXTENDS Naturals, Sequences, SequencesExt

CONSTANTS
    Requests,               \* the lists of services a run may be asked for
    MaxRuns,                \* runs of a behaviour
    None

Configured == {"nvue", "gnmi"}          \* cleared through the configuration
Services == Configured \cup {"nmxc"}    \* nmxc: a cluster app

VARIABLES
    running,                \* services bound to mTLS now
    saved,                  \* services bound to mTLS after a reboot
    pending,                \* services whose unset is staged
    clusterOn,              \* is the cluster enabled
    schema,                 \* how this build spells the gNMI leaf, or None
    run,                    \* the flow being run, or the last one
    cancelled,              \* its cancellation token
    runs                    \* runs started

vars == <<running, saved, pending, clusterOn, schema, run, cancelled, runs>>

switch == <<running, saved, pending>>
settings == <<clusterOn, schema>>

\* A build without the gNMI mTLS schema cannot run that service with mTLS.
Supported == {x \in Services : x = "gnmi" => schema # None}

Init ==
    /\ schema \in {"certificate", "ca-certificate", None}
    /\ running = Supported
    /\ saved = running
    /\ pending = {}
    /\ clusterOn \in BOOLEAN
    /\ run = [steps |-> <<>>, next |-> 1, services |-> {}, status |-> <<>>,
              before |-> {}, verdict |-> "none"]
    /\ cancelled = FALSE
    /\ runs = 0

-----------------------------------------------------------------------------
\* Mutants of Steps.
SaveFirst(services) == services \o <<"save", "apply">>

ApplyEach(services) ==
    [i \in 1 .. 2 * Len(services) |->
        IF i % 2 = 1 THEN services[(i + 1) \div 2] ELSE "apply"] \o <<"save">>

\* CommandFlow::unset_mtls: every unset, then apply, then save.
Steps(services) == services \o <<"apply", "save">>

Active == run.verdict = "running"
Step == run.steps[run.next]

\* run_flow_while: the report is seeded with every step not attempted.
Start(services) ==
    /\ ~Active /\ runs < MaxRuns
    /\ runs' = runs + 1
    /\ run' = [steps |-> Steps(services), next |-> 1, services |-> Range(services),
               status |-> [x \in Range(services) |-> "not_attempted"],
               before |-> running, verdict |-> "running"]
    /\ cancelled' = FALSE
    /\ UNCHANGED <<switch, settings>>

\* The report with the status the step at the cursor earned.
Earned(status) == [run.status EXCEPT ![Step] = status]

\* The step succeeded or was tolerated, and the flow goes on to the next; after
\* the last it has completed.
Advance(statuses) ==
    run' = [run EXCEPT !.next = @ + 1, !.status = statuses,
                       !.verdict = IF run.next = Len(run.steps) THEN "completed"
                                                                ELSE @]

End(statuses, verdict) ==
    run' = [run EXCEPT !.status = statuses, !.verdict = verdict]

\* should_continue is asked between steps only.
Interrupt ==
    /\ Active /\ cancelled
    /\ End(run.status, "cancelled")
    /\ UNCHANGED <<switch, settings, cancelled, runs>>

Attempt == Active /\ ~cancelled

\* run_step of a service's unset.
Staged(x) == pending' = pending \cup {x} /\ UNCHANGED <<running, saved>>

Restored(x) == running' = running \ {x} /\ UNCHANGED <<saved, pending>>

UnsetNvue ==
    /\ Attempt /\ Step = "nvue"
    /\ \/ Staged("nvue") /\ Advance(Earned("cleared"))
       \/ (Staged("nvue") \/ UNCHANGED switch) /\ End(Earned("failed"), "failed")
    /\ UNCHANGED <<settings, cancelled, runs>>

\* Either spelling of the gNMI leaf may be right.  Only when both are rejected
\* for want of a schema is there nothing to clear, and then a run for gNMI alone
\* is complete.
UnsetGnmi ==
    /\ Attempt /\ Step = "gnmi"
    /\ \/ schema # None /\ Staged("gnmi") /\ Advance(Earned("cleared"))
       \/ /\ schema = None
          /\ IF run.services = {"gnmi"} THEN End(Earned("unsupported"), "completed")
                                        ELSE Advance(Earned("unsupported"))
          /\ UNCHANGED switch
       \/ /\ UNCHANGED switch \/ (schema # None /\ Staged("gnmi"))
          /\ End(Earned("failed"), "failed")
    /\ UNCHANGED <<settings, cancelled, runs>>

\* `nv action restore` of the app's manager encryption; rejected, and
\* tolerated, while the cluster is disabled.
RestoreApp ==
    /\ Attempt /\ Step = "nmxc"
    /\ \/ clusterOn /\ Restored("nmxc") /\ Advance(Earned("cleared"))
       \/ ~clusterOn /\ UNCHANGED switch /\ Advance(Earned("already_disabled"))
       \/ /\ UNCHANGED switch \/ (clusterOn /\ Restored("nmxc"))
          /\ End(Earned("failed"), "failed")
    /\ UNCHANGED <<settings, cancelled, runs>>

\* A persist step; its status is not a service's.
Persist(operation, Effect) ==
    /\ Attempt /\ Step = operation
    /\ \/ Effect /\ Advance(run.status)
       \/ (Effect \/ UNCHANGED switch) /\ End(run.status, "failed")
    /\ UNCHANGED <<settings, cancelled, runs>>

ConfigApply ==
    Persist("apply", /\ running' = running \ pending
                     /\ pending' = {}
                     /\ UNCHANGED saved)

ConfigSave ==
    Persist("save", saved' = running /\ UNCHANGED <<running, pending>>)

\* cancel_job, or shutdown.
Cancel ==
    /\ Active /\ ~cancelled
    /\ cancelled' = TRUE
    /\ UNCHANGED <<switch, settings, run, runs>>

-----------------------------------------------------------------------------
\* The switch.  It reboots and drops the SSH session of a run; an install binds
\* a service (SwitchCertificates) when no run is active; the cluster is turned
\* on or off.
Reboot ==
    /\ running' = saved /\ pending' = {} /\ UNCHANGED saved
    /\ IF Active THEN End(run.status, "failed") ELSE UNCHANGED run
    /\ UNCHANGED <<settings, cancelled, runs>>

Bound(x) ==
    /\ ~Active /\ run.verdict # "none" /\ x \in Supported
    /\ running' = running \cup {x}
    /\ saved' = saved \cup {x}
    /\ run' = [run EXCEPT !.verdict = "none"]
    /\ UNCHANGED <<pending, settings, cancelled, runs>>

ToggleCluster ==
    /\ ~Active /\ run.verdict # "none"
    /\ clusterOn' = ~clusterOn
    /\ run' = [run EXCEPT !.verdict = "none"]
    /\ UNCHANGED <<switch, schema, cancelled, runs>>

Next ==
    \/ \E services \in Requests : Start(services)
    \/ Interrupt
    \/ UnsetNvue
    \/ UnsetGnmi
    \/ RestoreApp
    \/ ConfigApply
    \/ ConfigSave
    \/ Cancel
    \/ Reboot
    \/ \E x \in Services : Bound(x)
    \/ ToggleCluster

Spec == Init /\ [][Next]_vars

-----------------------------------------------------------------------------
\* A completed run means what it says (MtlsUnsetReport): a service it reports
\* cleared has no mTLS binding now nor after a reboot, and every other service
\* asked for is one this switch does not run with mTLS.
CompletedIsInsecure ==
    run.verdict = "completed" =>
        \A x \in run.services :
            \/ run.status[x] = "cleared" /\ x \notin running \cup saved
            \/ run.status[x] = "already_disabled" /\ ~clusterOn
            \/ run.status[x] = "unsupported" /\ schema = None

\* "the report never has to guess whether a command reached the switch": a
\* service a stopped or failed run reports as not attempted is as it was when
\* the run began, whatever an earlier run had left pending
\* (run_flow_while, MtlsUnsetReport::from_flow).
NotAttemptedUntouched ==
    run.verdict \in {"cancelled", "failed"} =>
        \A x \in run.services :
            run.status[x] = "not_attempted" /\ x \in run.before => x \in running

\* "a partially cleared binding is never persisted" (CommandFlow::unset_mtls):
\* what a run saves as cleared is what that run was asked to clear.
PartialNeverPersisted ==
    [][\A x \in saved \ saved' : x \in run.services]_vars

=============================================================================
