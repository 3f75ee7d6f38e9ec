-------------------------- MODULE SwitchAdmission --------------------------
(***************************************************************************)
(* How the two registries that guard a switch work together.  A mutation   *)
(* of a switch (api/grpc/switch_scope.rs and its callers) and a managed    *)
(* fabric layout (handlers_v2/layout.rs and layout/reconciliation) each    *)
(* reserve aliases in the job registry and then consult the fabric         *)
(* operation registry.  The two registries have locks of their own and no  *)
(* common one, and between any two calls every other job may take steps.   *)
(*                                                                         *)
(* The fabric operation registry is an instance of FabricOperations.  Of   *)
(* the job registry (module JobRegistry) only the alias table is kept: a   *)
(* reservation is one critical section there, and it ends when the job     *)
(* becomes terminal or the guard is dropped.                               *)
(*                                                                         *)
(* An alias is a PhysicalSwitch scope (the switch itself), a LogicalNode   *)
(* scope (a caller's label) or an Endpoint scope; an endpoint is treated   *)
(* by all of this code like a second physical identity and is left out.  A *)
(* mutation knows a caller's label, which may name any switch, and perhaps *)
(* the physical switch behind it (MutationScopes).                         *)
(***************************************************************************)
EXTENDS Naturals, FiniteSets

CONSTANTS
    Jobs,               \* jobs and direct mutations, each used once
    Switches,           \* PhysicalSwitch aliases, also ControllerIdentity values
    Label,              \* switch -> its LogicalNode alias
    MutationScopes,     \* alias sets a mutation may be admitted with
    Plans,              \* layouts: [switches, groups: primary -> member switches]
    Rule,               \* identity of the layout catalog
    MAX_OPERATIONS, MAX_ACTIVATION_PROOFS,
    MaxRecords          \* bound on the activations one behaviour records

ASSUME ScopesAssumption ==
    /\ MutationScopes \subseteq SUBSET (Switches \cup {Label[s] : s \in Switches})
    /\ {} \notin MutationScopes
    /\ \A plan \in Plans : plan.switches # {} /\ plan.switches \subseteq Switches
    /\ \A plan \in Plans : \A s \in DOMAIN plan.groups :
            s \in plan.groups[s] /\ plan.groups[s] \subseteq plan.switches

VARIABLES
    job,                \* job -> its record
    held,               \* job -> aliases the job registry reserves for it
    closing,            \* the job registry's shutting_down flag
    operations, proofs, nextAt

vars == <<job, held, closing, operations, proofs, nextAt>>

Labels == {Label[s] : s \in Switches}
Keys == Switches \cup Labels
Digests == SUBSET Switches     \* a group's static configuration: its members

F == INSTANCE FabricOperations WITH Rules <- {Rule}, Controllers <- Switches

fabric == <<operations, proofs, nextAt>>

(* Aliases of a set of switches, as ManagedSwitch::scopes lists them.      *)
Aliases(S) == S \cup {Label[s] : s \in S}

(* FabricOperationIntent.scope_keys: labels do not own a physical switch.  *)
Canonical(S) == Aliases(S) \ Labels

NoPlan == [switches |-> {}, groups |-> [s \in {} |-> {}]]

Primaries(a) == DOMAIN job[a].plan.groups

MutationPc == {"reserved", "cleared", "writing"}
WorkerPc == {"inspect", "prepare", "stopped", "activate", "verify", "failing"}
LayoutPc == {"found", "scoped", "finished", "released"} \cup WorkerPc

(* want: the aliases of the admission in progress.  plan: what the layout  *)
(* job deploys.  prev: the owner find_overlapping returned.  pending: the  *)
(* worker's own copy of operation.pending_controllers.  changed and        *)
(* unverified: changed_groups (by primary) and unverified_primaries.       *)
(* todo: switches or groups the current stage has not visited yet.         *)
JobRecord ==
    [pc: {"idle", "done"} \cup MutationPc \cup LayoutPc,
     want: SUBSET Keys, plan: Plans \cup {NoPlan}, prev: SUBSET Jobs,
     pending: SUBSET Switches, changed: SUBSET Switches,
     unverified: SUBSET Switches, todo: SUBSET Switches, failed: BOOLEAN]

Idle ==
    [pc |-> "idle", want |-> {}, plan |-> NoPlan, prev |-> {}, pending |-> {},
     changed |-> {}, unverified |-> {}, todo |-> {}, failed |-> FALSE]

Done == [Idle EXCEPT !.pc = "done"]

At(a, pc) == job[a].pc = pc

(* Only a job in progress holds aliases, and a job never holds the alias   *)
(* of another one.                                                         *)
TypeOK ==
    /\ job \in [Jobs -> JobRecord]
    /\ held \in [Jobs -> SUBSET Keys]
    /\ closing \in BOOLEAN
    /\ F!TypeOK
    /\ \A a \in Jobs : job[a].pc \in {"idle", "found", "done"} => held[a] = {}
    /\ \A a, b \in Jobs : a # b => held[a] \cap held[b] = {}

Init ==
    /\ job = [a \in Jobs |-> Idle]
    /\ held = [a \in Jobs |-> {}]
    /\ closing = FALSE
    /\ F!Init

-----------------------------------------------------------------------------
(* The alias table of the job registry.  A reservation is refused during   *)
(* shutdown and when another owner holds one of the aliases.               *)
Free(a, ks) == ~closing /\ \A b \in Jobs \ {a} : held[b] \cap ks = {}

Reserve(a, ks) == Free(a, ks) /\ held' = [held EXCEPT ![a] = @ \cup ks]

(* The job becomes terminal, or the guard is dropped.                      *)
End(a) ==
    /\ job' = [job EXCEPT ![a] = Done]
    /\ held' = [held EXCEPT ![a] = {}]
    /\ UNCHANGED closing

(* a moves on to the next stage of its code.                               *)
Move(a, r) == job' = [job EXCEPT ![a] = r]

-----------------------------------------------------------------------------
(* Mutations of a switch.  reserve_mutation, create_scoped_job, or         *)
(* reserve_job_scopes with the aliases known before any device I/O.        *)
AdmitMutation(a, ks) ==
    /\ At(a, "idle")
    /\ Reserve(a, ks)
    /\ Move(a, [Idle EXCEPT !.pc = "reserved", !.want = ks])
    /\ UNCHANGED <<closing, fabric>>

(* require_no_fabric_operation: refused (the mutation fails) while an      *)
(* operation owns one of the aliases, otherwise proofs are invalidated.    *)
RequireNoFabricOperation(a) ==
    /\ At(a, "reserved")
    /\ IF F!Overlapping(job[a].want) = {}
       THEN /\ F!InvalidateAndRequireClear(job[a].want)
            /\ Move(a, [job[a] EXCEPT !.pc = "cleared"])
            /\ UNCHANGED <<held, closing>>
       ELSE End(a) /\ UNCHANGED fabric

(* admit_known_switch_job_scopes again, with the aliases the device        *)
(* reports, before the first write.                                        *)
AdmitDiscovered(a, ks) ==
    /\ At(a, "cleared")
    /\ Reserve(a, ks)
    /\ Move(a, [job[a] EXCEPT !.pc = "reserved", !.want = ks])
    /\ UNCHANGED <<closing, fabric>>

StartWriting(a) ==
    /\ At(a, "cleared")
    /\ Move(a, [job[a] EXCEPT !.pc = "writing"])
    /\ UNCHANGED <<held, closing, fabric>>

(* The outcome is recorded, a later admission is refused, or the caller    *)
(* goes away.                                                              *)
EndMutation(a) ==
    /\ job[a].pc \in {"cleared", "writing"}
    /\ End(a)
    /\ UNCHANGED fabric

-----------------------------------------------------------------------------
(* handle_configure_fabric_layout.  find_overlapping, and the request is   *)
(* refused if several operations overlap or a job that has not ended owns  *)
(* the one that does.                                                      *)
FindOverlapping(a, plan) ==
    LET owners == F!Overlapping(Canonical(plan.switches)) IN
    /\ At(a, "idle")
    /\ Cardinality(owners) <= 1
    /\ \A o \in owners : At(o, "done")
    /\ Move(a, [Idle EXCEPT !.pc = "found", !.plan = plan, !.prev = owners])
    /\ UNCHANGED <<held, closing, fabric>>

(* create_scoped_job with every alias of every switch.                     *)
CreateJobWithLabels(a) ==
    /\ At(a, "found")
    /\ Reserve(a, Aliases(job[a].plan.switches) \ Switches)
    /\ Move(a, [job[a] EXCEPT !.pc = "scoped"])
    /\ UNCHANGED <<closing, fabric>>

CreateScopedJob(a) ==
    /\ At(a, "found")
    /\ Reserve(a, Aliases(job[a].plan.switches))
    /\ Move(a, [job[a] EXCEPT !.pc = "scoped"])
    /\ UNCHANGED <<closing, fabric>>

(* The request is refused before it has a job.                             *)
RefuseLayout(a) ==
    /\ At(a, "found")
    /\ ~Free(a, Aliases(job[a].plan.switches))
    /\ End(a)
    /\ UNCHANGED fabric

(* Whether admit accepts: exactly the operation found still overlaps, with *)
(* the same scope, or nothing does and there is room.                      *)
Admissible(a) ==
    LET ks == Canonical(job[a].plan.switches) IN
    /\ F!Overlapping(ks) = job[a].prev
    /\ \A prev \in job[a].prev : operations[prev].scope = ks
    /\ job[a].prev = {} => Cardinality(DOMAIN operations) < MAX_OPERATIONS

(* admit and spawn_job: the worker starts from a copy of the operation.    *)
(* It inspects every group, with inherited controllers unverified.         *)
AcquireOperation(a) ==
    LET ks == Canonical(job[a].plan.switches) IN
    /\ At(a, "scoped")
    /\ Admissible(a)
    /\ IF job[a].prev = {} THEN F!Admit(a, ks, Rule)
       ELSE \E prev \in job[a].prev : F!Transfer(a, prev, ks, Rule)
    /\ LET mine == operations'[a].pending IN
       Move(a, [job[a] EXCEPT !.pc = "inspect", !.pending = mine,
                              !.unverified = mine, !.todo = Primaries(a)])
    /\ UNCHANGED <<held, closing>>

(* admit returned an error: the job is failed.                             *)
FailAdmission(a) ==
    /\ At(a, "scoped")
    /\ ~Admissible(a)
    /\ End(a)
    /\ UNCHANGED fabric

-----------------------------------------------------------------------------
(* run_managed_fabric_job.  inspect reads one primary: the group is left   *)
(* alone only if its exact digest is proven, no activation is pending and  *)
(* the device agrees (intact).                                             *)
InspectAnyDigest(a, s, intact) ==
    /\ At(a, "inspect")
    /\ s \in job[a].todo
    /\ LET keep == intact /\ s \notin job[a].pending /\ F!Proven(s) IN
       Move(a, [job[a] EXCEPT !.todo = @ \ {s},
                              !.changed = IF keep THEN @ ELSE @ \cup {s}])
    /\ UNCHANGED <<held, closing, fabric>>

Inspect(a, s, intact) ==
    /\ At(a, "inspect")
    /\ s \in job[a].todo
    /\ LET proven == \E p \in proofs : /\ p.controller = s
                                       /\ p.digest = job[a].plan.groups[s]
           keep == intact /\ s \notin job[a].pending /\ proven
       IN  Move(a, [job[a] EXCEPT !.todo = @ \ {s},
                                  !.changed = IF keep THEN @ ELSE @ \cup {s}])
    /\ UNCHANGED <<held, closing, fabric>>

(* prepare, up to the first write: changed primaries and the others whose  *)
(* shutdown inspection could not establish (extra) become pending.         *)
Prepare(a, extra) ==
    LET cs == job[a].unverified \cup job[a].changed \cup extra IN
    /\ At(a, "inspect")
    /\ job[a].todo = {}
    /\ extra \subseteq job[a].plan.switches \ Primaries(a)
    /\ F!MarkPending(a, cs)
    /\ Move(a, [job[a] EXCEPT !.pc = "prepare", !.unverified = cs,
                              !.pending = @ \cup cs])
    /\ UNCHANGED <<held, closing>>

(* Controllers are stopped, configurations staged, links written and       *)
(* verified; then every switch that is no primary is cleared in turn.      *)
VerifyStopped(a) ==
    /\ At(a, "prepare")
    /\ Move(a, [job[a] EXCEPT !.pc = "stopped",
                              !.todo = job[a].plan.switches \ Primaries(a)])
    /\ UNCHANGED <<held, closing, fabric>>

ClearDisabled(a, s) ==
    /\ At(a, "stopped")
    /\ s \in job[a].todo
    /\ F!ClearInactive(a, s)
    /\ Move(a, [job[a] EXCEPT !.todo = @ \ {s}, !.pending = @ \ {s}])
    /\ UNCHANGED <<held, closing>>

(* configure_groups starts: every group runs.                              *)
ConfigureGroups(a) ==
    /\ At(a, "stopped")
    /\ job[a].todo = {}
    /\ Move(a, [job[a] EXCEPT !.pc = "activate", !.todo = Primaries(a),
                              !.unverified = @ \cap Primaries(a)])
    /\ UNCHANGED <<held, closing, fabric>>

(* configure_group succeeded for primary s, and complete_group records a   *)
(* changed group with the aliases of all its members.                      *)
CompleteGroup(a, s) ==
    /\ At(a, "activate")
    /\ s \in job[a].todo
    /\ IF s \in job[a].changed
       THEN /\ F!RecordActivation(a, s, job[a].plan.groups[s],
                                  Aliases(job[a].plan.groups[s]))
            /\ Move(a, [job[a] EXCEPT !.todo = @ \ {s}, !.pending = @ \ {s},
                                      !.unverified = @ \ {s}])
       ELSE /\ UNCHANGED fabric
            /\ Move(a, [job[a] EXCEPT !.todo = @ \ {s}, !.unverified = @ \ {s}])
    /\ UNCHANGED <<held, closing>>

(* A group fails, panics or, after a failure or cancellation, never runs.  *)
(* The groups already running are drained all the same.                    *)
FailGroup(a, s) ==
    /\ At(a, "activate")
    /\ s \in job[a].todo
    /\ Move(a, [job[a] EXCEPT !.todo = @ \ {s}, !.failed = TRUE])
    /\ UNCHANGED <<held, closing, fabric>>

GroupsDrained(a) ==
    /\ At(a, "activate")
    /\ job[a].todo = {}
    /\ Move(a, [job[a] EXCEPT !.pc = IF job[a].failed THEN "failing" ELSE "verify"])
    /\ UNCHANGED <<held, closing, fabric>>

(* Verification and readback succeeded, and finish accepts.                *)
FinishOperation(a) ==
    /\ At(a, "verify")
    /\ F!Finish(a)
    /\ Move(a, [job[a] EXCEPT !.pc = "finished"])
    /\ UNCHANGED <<held, closing>>

(* Any read, write, panic or cancellation outside a group ends the run.    *)
FailRun(a) ==
    /\ job[a].pc \in {"inspect", "prepare", "stopped", "verify"}
    /\ Move(a, [job[a] EXCEPT !.pc = "failing", !.todo = {}])
    /\ UNCHANGED <<held, closing, fabric>>

(* Reconciliation::fail: controllers are compensated, then the operation   *)
(* is released whatever the outcome of that.                               *)
ReleaseOperation(a) ==
    /\ At(a, "failing")
    /\ F!ReleaseFailed(a)
    /\ Move(a, [job[a] EXCEPT !.pc = "released"])
    /\ UNCHANGED <<held, closing>>

(* complete_verified or fail: only now does the job give up its aliases.   *)
EndLayout(a) ==
    /\ job[a].pc \in {"finished", "released"}
    /\ End(a)
    /\ UNCHANGED fabric

-----------------------------------------------------------------------------
BeginShutdown ==
    /\ ~closing
    /\ closing' = TRUE
    /\ UNCHANGED <<job, held, fabric>>

(* Shutdown refuses to start the worker or aborts it: the handle drops and *)
(* the job is terminal, the operation stays.                               *)
AbortWorker(a) ==
    /\ closing
    /\ job[a].pc \in WorkerPc \cup {"finished", "released"}
    /\ End(a)
    /\ UNCHANGED fabric

Next ==
    \E a \in Jobs :
        \/ \E ks \in MutationScopes : AdmitMutation(a, ks)
        \/ RequireNoFabricOperation(a)
        \/ \E ks \in MutationScopes : AdmitDiscovered(a, ks)
        \/ StartWriting(a)
        \/ EndMutation(a)
        \/ \E plan \in Plans : FindOverlapping(a, plan)
        \/ CreateScopedJob(a)
        \/ RefuseLayout(a)
        \/ AcquireOperation(a)
        \/ FailAdmission(a)
        \/ \E s \in Switches, intact \in BOOLEAN : Inspect(a, s, intact)
        \/ \E extra \in SUBSET Switches : Prepare(a, extra)
        \/ VerifyStopped(a)
        \/ \E s \in Switches : ClearDisabled(a, s)
        \/ ConfigureGroups(a)
        \/ \E s \in Switches : CompleteGroup(a, s)
        \/ \E s \in Switches : FailGroup(a, s)
        \/ GroupsDrained(a)
        \/ FinishOperation(a)
        \/ FailRun(a)
        \/ ReleaseOperation(a)
        \/ EndLayout(a)
        \/ BeginShutdown
        \/ AbortWorker(a)

Spec == Init /\ [][Next]_vars

-----------------------------------------------------------------------------
(* Jobs whose code may have a device write in progress.                    *)
Writers == {a \in Jobs : job[a].pc \in {"writing"} \cup (WorkerPc \ {"inspect"})}

(* No job writes to a switch that another job's operation owns, whether    *)
(* that operation's worker is running or was lost.  The check and the      *)
(* admission it races with are in different registries: the aliases held   *)
(* across both are what makes require_no_fabric_operation still true while *)
(* the mutation runs ("The caller retains alias admission throughout this  *)
(* check and the mutation", switch_scope.rs).                              *)
NoForeignWrite ==
    \A a \in Writers, o \in DOMAIN operations :
        o # a => operations[o].scope \cap held[a] = {}

(* While an external mutation writes, no activation proof covers one of    *)
(* its aliases: invalidation precedes the first write, and no worker can   *)
(* record a proof for those aliases until the mutation ends.               *)
ProofsUntouched ==
    \A a \in Jobs, p \in proofs :
        At(a, "writing") => p.scope \cap held[a] = {}

(* A worker owns its operation until it finishes or releases it, and its   *)
(* private copy of pending_controllers, which decides what cleanup may     *)
(* touch, is the registry's: nobody takes over or edits the operation of a *)
(* live worker.                                                            *)
LiveWorkerOwns ==
    \A a \in Jobs : job[a].pc \in WorkerPc =>
        /\ a \in DOMAIN operations
        /\ job[a].pending = operations[a].pending

(* In a running service every operation has a live worker: each failure    *)
(* path releases it before the job ends, so that no switch stays closed to *)
(* mutations.  Only shutdown leaves an operation unresolved.               *)
UnresolvedOnlyAtShutdown ==
    closing \/ \A o \in DOMAIN operations : job[o].pc \in WorkerPc

(* Job registry and fabric registry agree on who may write: ownership of   *)
(* switches stays with live workers, is exclusive, and no evidence about a *)
(* switch survives a write to it.                                          *)
OwnersOnly ==
    /\ TypeOK
    /\ NoForeignWrite /\ ProofsUntouched /\ LiveWorkerOwns /\ UnresolvedOnlyAtShutdown

(* A job that completes as verified has an activation proof for the exact  *)
(* configuration of every group: the groups that inspection trusted, long  *)
(* before, are still proven, and the others were recorded.                 *)
VerifiedIsProven ==
    \A a \in Jobs : At(a, "finished") =>
        \A s \in Primaries(a) : \E p \in proofs :
            /\ p.controller = s
            /\ p.digest = job[a].plan.groups[s]
            /\ Aliases(p.digest) \subseteq p.scope

=============================================================================
