------------------------ MODULE FabricReconciliation ------------------------
(***************************************************************************)
(* The worker of a managed fabric layout                                   *)
(* (handlers_v2/layout/reconciliation.rs, preparation.rs, activation.rs,   *)
(* links.rs) on the switches themselves.  It inspects, marks and stops the *)
(* controllers that a change affects, stages controller settings on        *)
(* isolated primaries, writes and saves the links of all switches,         *)
(* activates the groups, verifies; a failure stops and isolates the        *)
(* controllers that are still unverified.                                  *)
(*                                                                         *)
(* Admission is modelled in SwitchAdmission and FabricOperations: one      *)
(* worker at a time owns the switches, and other mutations of a switch     *)
(* withdraw the activation proofs it is a member of.  Here proofs are kept *)
(* with what they claim.  A link target is a value; every value but "down" *)
(* includes a link that is up.  RMS may restart at any step.               *)
(***************************************************************************)
EXTENDS Naturals, FiniteSets

CONSTANTS
    Switches,
    Configs,    \* managed controller settings of a group (config_digest)
    Links,      \* administrative link targets of a switch, "down" among them
    Plans,      \* [groups: set of [primary, members, config], links: switch -> target]
    Found,      \* switch states before the first job
    MaxJobs,    \* bound: jobs
    MaxEvents   \* bound: failing calls and mutations by other requests

SwitchStates == [applied: Links, startup: Links, on: BOOLEAN, saved: BOOLEAN,
                 running: BOOLEAN, stored: Configs, live: Configs]
Groups == [primary: Switches, members: SUBSET Switches, config: Configs]

\* plan_layout: a target for every switch, a primary out of its own group's
\* switches, and disjoint groups.
ASSUME PlansAssumption ==
    /\ Plans \subseteq [groups: SUBSET Groups, links: [Switches -> Links]]
    /\ \A plan \in Plans : \A g \in plan.groups :
          /\ g.primary \in g.members
          /\ \A h \in plan.groups : g.members \cap h.members # {} => g = h

ASSUME BoundsAssumption ==
    /\ Found \subseteq [Switches -> SwitchStates] /\ "down" \in Links
    /\ MaxJobs \in Nat \ {0} /\ MaxEvents \in Nat

VARIABLES
    sw,         \* switch -> its links, cluster state and controller
    proofs,     \* activation proofs of the fabric operation registry
    job,        \* the running worker
    cancelled,  \* its token
    events      \* failing calls and other mutations so far

vars == <<sw, proofs, job, cancelled, events>>

Over == {"completed", "failed", "lost"}
Phases == {"inspect", "stop", "isolate", "stage", "links", "verify_links", "activate",
           "verify", "cleanup"}
Steps == {"stop", "stopping", "save_cluster", "apply", "save", "start", "write", "poll", "done"}

TypeOK ==
    /\ sw \in [Switches -> SwitchStates] /\ proofs \subseteq Groups
    /\ job \in [n: 1..MaxJobs, pc: Over \cup Phases, plan: Plans, changed: SUBSET Switches,
                matches: SUBSET Switches, drift: SUBSET Switches, unverified: SUBSET Switches,
                pending: SUBSET Switches, step: [Switches -> Steps], error: BOOLEAN]
    /\ cancelled \in BOOLEAN /\ events \in 0..MaxEvents

Phase(set, step) == [s \in Switches |-> IF s \in set THEN step ELSE "done"]

NewJob(n, plan) ==
    [n |-> n, pc |-> "inspect", plan |-> plan, changed |-> {}, matches |-> {}, drift |-> {},
     unverified |-> {}, pending |-> {}, step |-> Phase({}, "done"), error |-> FALSE]

Init ==
    /\ sw \in Found /\ proofs = {} /\ cancelled = FALSE /\ events = 0
    /\ \E plan \in Plans : job = NewJob(1, plan)

------------------------------------------------------------------------------
(* The switch *)

\* save_current_applied_config: startup takes everything that is applied.
Saved(r) == [r EXCEPT !.startup = r.applied, !.saved = r.on]

\* set_cluster_state(true): nothing when enabled; a controller loads its
\* stored settings when it starts.
Started(r) == IF r.on THEN r
              ELSE Saved([r EXCEPT !.on = TRUE, !.running = TRUE,
                                   !.live = IF r.running THEN @ ELSE r.stored])

\* stop_cluster_controller before its wait: disabled, and saved so.
Stopped(r) == IF ~r.on /\ ~r.saved THEN r ELSE Saved([r EXCEPT !.on = FALSE])

ControllerStops == \E s \in Switches :
    /\ sw[s].running /\ ~sw[s].on
    /\ sw' = [sw EXCEPT ![s].running = FALSE]
    /\ UNCHANGED <<proofs, job, cancelled, events>>

------------------------------------------------------------------------------
(* The plan *)

Primaries == {g.primary : g \in job.plan.groups}
GroupOf(s) == CHOOSE g \in job.plan.groups : g.primary = s
Target(s) == job.plan.links[s]
LinksMatch(s) == sw[s].applied = Target(s) /\ sw[s].startup = Target(s)

------------------------------------------------------------------------------
(* Calls.  A call may fail, before, after or in the middle of its effect. *)

At(pc) == job.pc = pc /\ UNCHANGED cancelled
Event == events < MaxEvents /\ events' = events + 1

Set(s, r) == [sw EXCEPT ![s] = r]
Goto(s, step) == [job EXCEPT !.step[s] = step]
Failed(s) == [job EXCEPT !.step[s] = "done", !.error = TRUE]

\* One call of the future of switch s: r is the switch after it, half is it
\* when the call stops in between.
Call(s, half, r, next) ==
    /\ UNCHANGED proofs
    /\ \/ sw' = Set(s, r) /\ job' = Goto(s, next) /\ UNCHANGED events
       \/ sw' \in {sw, Set(s, half), Set(s, r)} /\ job' = Failed(s) /\ Event

Check(s, ok, next) ==
    /\ UNCHANGED <<sw, proofs, events>>
    /\ job' = IF ok THEN Goto(s, next) ELSE Failed(s)

\* Work that has not started is skipped after an error or a cancellation.
Halted == job.error \/ cancelled
Skip(s) == UNCHANGED <<sw, proofs, events>> /\ job' = Failed(s)

Disable(s, next) == Call(s, [sw[s] EXCEPT !.on = FALSE], Stopped(sw[s]), next)
Apply(s, target) ==
    IF sw[s].applied = target /\ sw[s].startup = target
    THEN Check(s, TRUE, "done")
    ELSE Call(s, sw[s], [sw[s] EXCEPT !.applied = target], "save")
Save(s, next) == Call(s, sw[s], Saved(sw[s]), next)
Enable(s, next) == Call(s, [Started(sw[s]) EXCEPT !.startup = sw[s].startup,
                                                  !.saved = sw[s].saved],
                        Started(sw[s]), next)

\* A phase is over when all its futures are drained.
Drained == \A s \in Switches : job.step[s] = "done"
Cleanup(j) == [j EXCEPT !.pc = "cleanup", !.error = FALSE,
                        !.step = Phase(j.unverified \cap j.pending, "stop")]
Enter(pc, set, step) == [job EXCEPT !.pc = pc, !.step = Phase(set, step)]
EndPhase(pc, next) ==
    /\ At(pc) /\ Drained /\ UNCHANGED <<sw, proofs, events>>
    /\ job' = IF Halted THEN Cleanup(job) ELSE next

------------------------------------------------------------------------------
(* Inspection and preparation *)

Proven(s) == \E p \in proofs : p.primary = s /\ p.config = GroupOf(s).config
StoredMatches(s) == sw[s].on /\ sw[s].stored = GroupOf(s).config

\* Mutant of Changed: the activation proof is not asked for.
ChangedUnproven(s, unready) ==
    \/ ~sw[s].on \/ ~StoredMatches(s) \/ s \in unready
    \/ \E m \in GroupOf(s).members : ~LinksMatch(m)

\* Drift of a selected primary: disabled, unproven, other settings stored, or
\* not seen ready (unready); and any drift of a member's links.
Changed(s, unready) ==
    \/ ~sw[s].on \/ ~Proven(s) \/ ~StoredMatches(s) \/ s \in unready
    \/ \E m \in GroupOf(s).members : ~LinksMatch(m)

\* Mutant of Obsolete.
ObsoleteEnabled(s) == sw[s].on \/ sw[s].saved

\* Disabled settings do not prove that the controller stopped: a switch that is
\* no primary is queued for it when its links will be written with an Up.
Obsolete(s) == sw[s].on \/ sw[s].saved \/ (~LinksMatch(s) /\ Target(s) # "down")

\* Mutant of Withdraw.
WithdrawNone(pending) == UNCHANGED proofs

\* mark_pending withdraws the proofs of every controller about to change.
Withdraw(pending) == proofs' = {p \in proofs : p.primary \notin pending}

\* A failed or cancelled inspection authorizes nothing.
Inspect ==
    /\ At("inspect") /\ UNCHANGED sw
    /\ \/ /\ ~cancelled /\ UNCHANGED events
          /\ \E unready \in SUBSET Primaries :
             LET changed == {s \in Primaries : Changed(s, unready)}
                 marked == changed \cup {s \in Switches \ Primaries : Obsolete(s)}
             IN /\ Withdraw(marked)
                /\ job' = [job EXCEPT
                     !.pc = "stop", !.step = Phase(marked, "stop"), !.changed = changed,
                     !.matches = {s \in Primaries : StoredMatches(s)},
                     !.drift = {s \in Switches : sw[s].saved # (s \in Primaries)},
                     !.unverified = marked, !.pending = marked]
       \/ UNCHANGED proofs /\ job' = Cleanup(job) /\ Event
       \/ cancelled /\ UNCHANGED <<proofs, events>> /\ job' = Cleanup(job)

\* One controller after the other; an error ends the loop.
StopController(s) ==
    \/ /\ At("stop") /\ job.step[s] = "stop"
       /\ \A t \in Switches : job.step[t] # "stopping"
       /\ IF Halted THEN Skip(s) ELSE Disable(s, "stopping")
    \/ At("stop") /\ job.step[s] = "stopping" /\ Check(s, ~sw[s].running, "done")

\* normalize_static_configs: primaries with other settings are isolated, all of
\* them, then settings are written on a controller that is started for it.
Staged == job.changed \ job.matches
ToIsolate == EndPhase("stop", Enter("isolate", Staged, "apply"))

Isolate(s) ==
    \/ At("isolate") /\ job.step[s] = "apply" /\ (IF Halted THEN Skip(s) ELSE Apply(s, "down"))
    \/ At("isolate") /\ job.step[s] = "save" /\ Save(s, "done")

ToStage == EndPhase("isolate", Enter("stage", Staged, "start"))

Stage(s) ==
    \/ At("stage") /\ job.step[s] = "start" /\ (IF Halted THEN Skip(s) ELSE Enable(s, "write"))
    \/ At("stage") /\ job.step[s] = "write"
       /\ \/ Call(s, sw[s], [sw[s] EXCEPT !.stored = GroupOf(s).config], "stop")
          \/ cancelled /\ Skip(s)
    \/ At("stage") /\ job.step[s] = "stop" /\ Disable(s, "stopping")
    \/ At("stage") /\ job.step[s] = "stopping" /\ Check(s, ~sw[s].running, "done")

ToLinks == EndPhase("stage", Enter("links", Switches, "save_cluster"))

\* prepare_links: each switch saves its enabled controller, then its links.
PrepareLinks(s) ==
    \/ /\ At("links") /\ job.step[s] = "save_cluster"
       /\ IF Halted THEN Skip(s)
          ELSE IF s \in job.drift \ job.unverified
          THEN IF sw[s].on THEN Save(s, "apply") ELSE Skip(s)
          ELSE Check(s, TRUE, "apply")
    \/ At("links") /\ job.step[s] = "apply" /\ Apply(s, Target(s))
    \/ At("links") /\ job.step[s] = "save" /\ Save(s, "done")

\* verify_links; then clear_inactive for the switches that are no primaries.
ToVerifyLinks == EndPhase("links", Enter("verify_links", {}, "done"))

VerifyLinks ==
    /\ At("verify_links") /\ UNCHANGED <<sw, proofs>>
    /\ \/ /\ ~cancelled /\ (\A s \in Switches : LinksMatch(s)) /\ UNCHANGED events
          /\ job' = [job EXCEPT !.pc = "activate", !.step = Phase(Primaries, "start"),
                                !.unverified = @ \cap Primaries, !.pending = @ \cap Primaries]
       \/ (cancelled \/ \E s \in Switches : ~LinksMatch(s)) /\ UNCHANGED events
          /\ job' = Cleanup(job)
       \/ Event /\ job' = Cleanup(job)

------------------------------------------------------------------------------
(* Activation and verification *)

\* complete_group: the proof of a changed group is recorded.
CompleteGroup(s) ==
    /\ proofs' = IF s \in job.changed
                 THEN proofs \cup {[primary |-> s, members |-> GroupOf(s).members,
                                    config |-> GroupOf(s).config]}
                 ELSE proofs
    /\ job' = [job EXCEPT !.step[s] = "done", !.unverified = @ \ {s},
                          !.pending = @ \ ({s} \cap job.changed)]

\* configure_group: start, then poll; an error, the deadline or a cancellation
\* ends it, and it is ready when settings and membership are what was asked for.
ConfigureGroup(s) ==
    \/ /\ At("activate") /\ job.step[s] = "start"
       /\ IF Halted THEN Skip(s)
          ELSE IF s \in job.changed THEN Enable(s, "poll") ELSE Check(s, TRUE, "poll")
    \/ /\ At("activate") /\ job.step[s] = "poll" /\ UNCHANGED <<sw, events>>
       /\ sw[s].running /\ sw[s].stored = GroupOf(s).config
       /\ \A m \in GroupOf(s).members : sw[m].applied = Target(m)
       /\ CompleteGroup(s)
    \/ At("activate") /\ job.step[s] = "poll" /\ Event /\ UNCHANGED <<sw, proofs>>
       /\ job' = Failed(s)
    \/ At("activate") /\ job.step[s] = "poll" /\ cancelled /\ Skip(s)

ToVerify == EndPhase("activate", Enter("verify", {}, "done"))

\* Links once more, and both cluster views of every switch; with a full
\* topology the status readback.  Then the operation is finished.
Verified == \A s \in Switches :
    LinksMatch(s) /\ sw[s].on = (s \in Primaries) /\ sw[s].saved = (s \in Primaries)

Verify ==
    /\ At("verify") /\ UNCHANGED <<sw, proofs>>
    /\ \/ Verified /\ ~cancelled /\ job' = [job EXCEPT !.pc = "completed"] /\ UNCHANGED events
       \/ (~Verified \/ cancelled) /\ job' = Cleanup(job) /\ UNCHANGED events
       \/ job' = Cleanup(job) /\ Event

------------------------------------------------------------------------------
(* Failure: uncertain controllers are stopped and isolated, one by one.  A  *)
(* controller that could not be stopped is left to manual intervention.     *)

CleanUp(s) ==
    \/ /\ At("cleanup") /\ job.step[s] = "stop"
       /\ \A t \in Switches : job.step[t] \in {"stop", "done"}
       /\ Disable(s, "stopping")
    \/ At("cleanup") /\ job.step[s] = "stopping" /\ Check(s, ~sw[s].running, "apply")
    \/ At("cleanup") /\ job.step[s] = "apply" /\ Apply(s, "down")
    \/ At("cleanup") /\ job.step[s] = "save" /\ Save(s, "done")

Release ==
    /\ At("cleanup") /\ Drained /\ UNCHANGED <<sw, proofs, events>>
    /\ job' = [job EXCEPT !.pc = "failed"]

------------------------------------------------------------------------------
(* Around the worker *)

Cancel ==
    /\ job.pc \notin Over /\ ~cancelled /\ cancelled' = TRUE
    /\ UNCHANGED <<sw, proofs, job, events>>

\* Ownership and activation evidence live in the process.
Restart ==
    /\ proofs' = {} /\ cancelled' = FALSE
    /\ job.pc \notin Over /\ job' = [job EXCEPT !.pc = "lost"]
    /\ UNCHANGED <<sw, events>>

NextJob ==
    /\ job.pc \in Over /\ job.n < MaxJobs
    /\ \E plan \in Plans : job' = NewJob(job.n + 1, plan)
    /\ cancelled' = FALSE /\ UNCHANGED <<sw, proofs, events>>

\* Another request sets one switch's cluster state, or writes the settings of
\* its controller without a restart.
OtherMutation == \E s \in Switches :
    /\ job.pc \in Over /\ Event
    /\ \/ sw[s].on /\ sw' = Set(s, Stopped(sw[s]))
       \/ ~sw[s].on /\ sw' = Set(s, Started(sw[s]))
       \/ sw[s].on /\ \E c \in Configs : sw' = [sw EXCEPT ![s].stored = c]
    /\ proofs' = {p \in proofs : s \notin p.members}
    /\ UNCHANGED <<job, cancelled>>

\* Outside RMS, the startup configuration loses the enabled cluster.
StartupDrift == \E s \in Switches :
    /\ job.pc \in Over /\ Event
    /\ sw[s].saved /\ sw' = [sw EXCEPT ![s].saved = FALSE]
    /\ UNCHANGED <<proofs, job, cancelled>>

Next ==
    \/ Inspect \/ ToIsolate \/ ToStage \/ ToLinks \/ ToVerifyLinks \/ VerifyLinks
    \/ ToVerify \/ Verify \/ Release
    \/ \E s \in Switches :
          \/ StopController(s) \/ Isolate(s) \/ Stage(s) \/ PrepareLinks(s)
          \/ ConfigureGroup(s) \/ CleanUp(s)
    \/ ControllerStops \/ Cancel \/ Restart \/ NextJob \/ OtherMutation
    \/ StartupDrift

Spec == Init /\ [][Next]_vars

------------------------------------------------------------------------------
(* Properties *)

\* has_activation_proof decides that a controller needs no restart, so a proof
\* must stay true: through every later job, failure, cancellation and other
\* mutation, a proven controller is enabled, runs, and runs with the settings
\* of its proof.
ProofIsTrue == \A p \in proofs :
    sw[p.primary].on /\ sw[p.primary].running /\ sw[p.primary].live = p.config

\* "Controllers affected by a change stop before shared connectivity changes":
\* links are written with an Up only on a switch whose own controller has
\* stopped, and only while the primary of its planned group is stopped.
LinksMoveUnderStop ==
    [][\A s \in Switches :
          sw'[s].applied # sw[s].applied /\ sw'[s].applied # "down" =>
              /\ ~sw[s].running
              /\ \A g \in job.plan.groups : s \in g.members => ~sw[g.primary].running]_vars

\* A completed job leaves every group with a controller that runs the settings
\* of the plan (not only has them stored), no other switch with a cluster that
\* is enabled or comes up enabled, and every link target saved.
CompletedIsLive ==
    [][job.pc # "completed" /\ job'.pc = "completed" =>
          /\ \A s \in Switches : LinksMatch(s) /\ sw[s].on = sw[s].saved
                                /\ (sw[s].on <=> s \in Primaries)
          /\ \A s \in Primaries : sw[s].running /\ sw[s].live = GroupOf(s).config]_vars

\* "Stops obsolete primaries ... before applying target link states": when a
\* group is activated, no switch that is not a primary of the plan still runs
\* a controller.
ObsoleteStopped ==
    [][job.pc = "activate" => \A s \in Switches :
          ~sw[s].running /\ sw'[s].running =>
              \A t \in Switches \ Primaries : ~sw[t].running]_vars
==============================================================================
