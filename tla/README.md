# Verification of the Rack Management Service

The Rack Management Service (RMS) is a Rust service that owns the out-of-band
management of racks: firmware, power, inventory, switch images, certificates and
the managed NVLink fabric layout of switches. Its requests start long jobs against
devices that fail, reboot and forget. What has to be right, and what unit tests
reach least, is how those jobs share one process and one device: who may touch
what, what a batch reports about its children, what a job leaves behind when a
call fails, its token is cancelled or the process goes away. This directory models
that in TLA+, checks it with TLC on small instances and proves parts of it with
TLAPS for every size.

Paths below are relative to `src/crates/rackmanagementservice/src/` unless they
begin with `src/`. `PROJECT.json` maps every definition to its lines.

## 1. The system and its parts

| Part | Code | Module |
|---|---|---|
| Fabric operation registry: who owns which switches, pending controllers, activation proofs | `orchestrator/fabric_operation.rs` | `FabricOperations` |
| Job registry and store: records, node index, alias table, retention | `orchestrator/job_lifecycle/{registry,store}.rs` | `JobRegistry` |
| Handles, tasks, shutdown | `orchestrator/job_lifecycle/{handle,cleanup}.rs`, `orchestrator/job_tracker.rs` | `JobSupervision` |
| Parent jobs and batch handlers | `orchestrator/job_tracker.rs`, `api/grpc/*_handlers.rs` | `BatchOutcome`, `ParentAggregation` |
| Admission of switch mutations and layouts | `api/grpc/switch_scope.rs`, `handlers_v2/layout*` | `SwitchAdmission` |
| Managed fabric layout worker | `handlers_v2/layout/reconciliation*`, `links.rs` | `FabricReconciliation` |
| Scale-up fabric manager job | `scaleupfabricmanager_handlers/handlers_v2.rs` | `ScaleUpFabricV2` |
| Switch certificates and their stores | `api/grpc/switch_certificate_handlers.rs`, `nodes/switch_gb200_nvidia/mtls/` | `SwitchCertificates` |
| Clearing mTLS over the switch CLI | `src/crates/nvswitch_cli/` | `MtlsUnset` |
| NVUE client reconfiguration | `src/crates/nvue_client/src/client.rs` | `NvueTransport` |
| Switch system image job | `api/grpc/switch_image_handlers.rs` | `SwitchImage` |
| Firmware object store, memory and PostgreSQL | `persistence/` | `FirmwareStore`, `PostgresStore` |
| Firmware objects, preparation and cache | `api/grpc/firmware_object_handlers*` | `FirmwareObjects` |
| Firmware update worker | `api/grpc/firmware_handlers.rs` | `FirmwareUpdate` |
| Out-of-band recovery of a compute tray | `nodes/compute_gb200_nvidia/recovery.rs` | `OobRecovery` |
| Dell adapter and its borrowed BMC setting | `nodes/compute_gb200_dell/mod.rs` | `DellForceUpdate` |

How they interact: a handler admits a job in the job registry (under its lock),
for switches it also consults the fabric registry (under another lock), keeps or
hands over the job's handle, and spawns a worker; the worker drives a device
through many calls and ends the job by consuming the handle, or its Drop does.
Workers, handlers, the reaper and status polls refresh a parent job. Shutdown
closes admission, cancels, aborts and sweeps. Only the firmware object store, the
file cache and the devices outlive the process: a restart begins with empty
registries, and a job that was running leaves its device wherever it was.

What makes it hard: the two registries have no common lock; aggregation works on
stale clones; a request's future may be dropped at any await; a call to a device
fails before or after its effect; a device goes on with a task after the job that
started it is gone; the next job meets what the last one left. `PROJECT.json` lists
the hazards by line, with the properties that address each.

## 2. Modules

Conventions. One action per critical section, or per stretch of code between two
awaits, locks or device calls. A call that returns an error without changing state
is a disabled action, except where the caller's reaction matters; then it is an
action. Devices, NVOS, the BMC and the database are the environment: they are
modelled from how the code uses them, and their definitions are marked external in
the map. Time is abstract: a deadline is a bound on polls, or may pass at any time.
A definition whose comment calls it a faulty variant belongs to no specification:
it is a plausible bug of the definition below it, and shows that a property can fail.

### The coordination core

**FabricOperations.** `operations` is `RegistryState.operations`; `proofs` with the
ghost position `at` is the `VecDeque` of activation proofs. Each method of the
registry holds its mutex throughout and is one action; `admit` is two, without and
with a previous owner.

**JobRegistry.** `jobs` is `by_id`; the three indexes have the names of the code.
The age of a terminal record in ticks stands for `now - updated_at`, capped at
`TTL`, because only the comparison is observable. `CreateJob` is all of
`create_job_with_scopes`: shutdown, parent, node and alias checks, capacity with
its pruning, insertion in every index. Completed and Failed are one terminal state
here; `ParentAggregation` tells them apart.

**BatchOutcome, ParentAggregation.** `BatchOutcome` is what a caller of a batch may
rely on: the parent completes in a step in which all its children have completed,
and fails in a step in which all are final and one failed, or there is none.
`ParentAggregation` has the request, one worker per child, and observers (reaper,
polls), each of which may be in the middle of `refresh_parent_state`: the clone of
the parent, one read per child, the decision and the seal are separate steps.
`interleaved` tells the handler that admits node by node
(`handle_batch_update_firmware_with_expected_versions`) from those that admit up
front; `watched` says whether observers may look during admission.

**JobSupervision.** For each leaf job: its record, the owner of the handle, the
worker behind its start gate, the supervisor, and where `spawn_job_inner` is.
`lock` is the registry's write lock held by a creation that has read the shutdown
flag and not yet inserted its record. Every wait of `shutdown_and_await_terminal`
is bounded in the code, so its end may be taken at any time.

**SwitchAdmission.** Composes the alias table (`held`) with an instance of
`FabricOperations`. A job is a mutation or a managed layout, and between any two of
its calls all others may move. The digest of a group is its set of members, because
two groups of one primary are configured alike exactly if their members agree.

### Jobs on switches

**FabricReconciliation.** The layout worker on the switches: inspect, stop,
isolate, stage, write links, activate, verify, and the cleanup of a failure. A
switch has applied and startup links, a cluster state, a controller that runs on
for a while after it is disabled, and stored and live settings; a proof is kept
with what it claims. Any call may fail; RMS may restart; other requests may mutate
a switch, which withdraws its proofs. Assumed: a revision whose apply timed out has
taken effect by then or never does; a group's membership is that of its members'
links at target; the worker does not lose ownership while it publishes progress;
no pending mark is carried over from an unresolved earlier operation.

**ScaleUpFabricV2.** One job moves the fabric of its switches to one primary:
snapshot, clear and disable the others, enable and configure the primary, read
back; after a failure, the rollback in its order, collecting errors. A call fails
before or after its effect; the worker may be lost. A disabled controller stops
some time later.

**SwitchCertificates.** The install job from reclamation to verification, the
cleanup guard of the private key, and the NMX Controller's rebind. A service is
bound in two stores and two views which converge later. An operator may import
entries meanwhile.

**MtlsUnset.** The planned commands (`nv unset`, `apply`, `save`, `action
restore`), their execution under the token, and the classification of the outcome.
Assumed: what is staged on the switch outlives the SSH session that staged it.

**NvueTransport.** Handlers, password changes, rotation of the files on disk and
the certificate job prepare candidates under the client's lock, probe without it
and activate under it. `revision` is what `activate_prepared_client_tls` compares.

**SwitchImage.** The image job from ONIE recovery to verification, one job after
another on a switch of either kind. What a lost or cancelled job started on the
switch (installer, NVUE action, reboot) goes on and meets the next job. `Begin` is
the look at the token before a stage, apart from the calls of the stage: a token set
in between does not stop them. `Blind` names the stages whose calls do not look at it
again; the check of the ASIC settings is one, and always saves the configuration.

### Firmware

**FirmwareStore, PostgresStore.** `FirmwareStore` is the memory back end, which
holds one lock per operation, and the contract. `PostgresStore` has the statements
of the SQL back end at READ COMMITTED with row locks, advisory locks and the unique
index, and is shown to implement `FirmwareStore`.

**FirmwareObjects.** Adds, deletes, defaults and applies over `FirmwareStore`, with
the preparation task, the table of cancellation tokens and the cache directories.
`created` tells incarnations of a reused id apart. Requests are numbered in the
order they arrive; the number is no part of the code. `Discard` is the removal of a
cached file that does not validate, whoever put it there. `swept` is a ghost, which
`AvailableIsCached` excepts: the incarnations whose files were removed by a late
delete, or by a task that did not have the directory to itself (section 6).

**FirmwareUpdate.** The worker of one node: plan of stages, upload with its retry
after an aux power cycle, polling, recovery of a lost task, activation and checks.
The device writes, loses a task, boots or fails whenever it likes. Upload and
activation are two steps each, as in `rust_nvfwupd`: its one look at the token
(`Upload`, `StartActivation`) and what follows without another (`HostCycle` and
`Submit`, `Activate`). `comparable` are the targets for which a check finds a version
on both sides; the check after an activation accepts the others as unverified, while
the one before the upload skips only on positive evidence for every target. `at` is a
ghost: the call that was under way when the token was set.

**OobRecovery.** `recover` with its rounds, waits, power block, re-reads and the
closing confirm, over components of which some can report only through others.
A push is refused while a task runs: `rust_nvfwupd` looks at the BMC's task list
first. It looks at tasks of the push's own type, and goes on when it cannot read the
list; assumed is that both bundles make tasks of one type and that a BMC with an
unreadable list takes no second task.
A component that is first seen in recovery at the closing confirm is not in the
list the code confirms, nor in what the property speaks of.

**DellForceUpdate.** The adapter's loan of `ForceUpdate` around an upload, over
jobs, tasks and restarts. Assumed: a PATCH that has returned has taken effect or
never will.

### Instances

The `MC*` modules give the constants their values. Several of them put side by side
parts that share no state, because they concern one device or one service: a
variable `about`, chosen in the initial state, says which part the behaviour is
about, and the others keep one initial state. Every behaviour of each part at its
bounds is thus a behaviour of the run, and nothing else is; the composition adds no
interaction and claims none. Parts that do interact are composed for real
(`SwitchAdmission` with `FabricOperations`, `FirmwareObjects` with `FirmwareStore`,
`ParentAggregation` with `BatchOutcome`).

## 3. Runs

| Run | Parts and instance | Distinct states |
|---|---|---|
| `fabric_operations` | 3 jobs, 3 keys, 3 controllers, 2 rules; registry and proof queue of 2; 4 records | 4,635 |
| `job_registry` | 4 ids, 1 guard, 2 nodes, 1 device; 3 records, TTL of 2 | 233,984 |
| `batch` | 3 children, the reaper, both kinds of handler, watched or not | 1,184,058 |
| `job_tracker` | shutdown with 2 leaves and 1 parent; a batch of 2 with the reaper | 342,933 |
| `switch_jobs` | admission with 3 jobs, 3 switches, 6 layouts, 8 mutation scopes; 3 image jobs on each of 4 kinds of site | 616,618 |
| `fabric_jobs` | layout worker: 2 switches, 5 plans, 2 jobs, 1 event; scale-up: 2 switches, 2 jobs, 2 faults, 6 sites | 2,132,980 |
| `switch_security` | transport: 2 handlers, 2 reconfigurations; certificates: stores of 2, 2 installs; unset: 3 flows | 849,889 |
| `firmware_objects` | objects: 4 requests on one id, 2 manifests, 2 incarnations; store: 2 connections, 2 ids, 2 types, 3 inserts | 438,848 |
| `firmware_jobs` | 11 update requests; recovery: 3 components, 3 jobs; adapter: 4 jobs of 2 uploads | 567,608 |
| `batch_stale_list`, `batch_cut_short`, `foreign_publish` | disagreements with what the repository says (section 6) | |

Why the bounds are enough to be interesting. In `fabric_operations` a third job
meets a full registry, a third controller a full queue, and four records let a
proof be superseded after an eviction. In `job_registry` a fourth id is admitted
only by pruning, and a TTL of 2 lets a parent and its child expire at different
times. Three children are the least number with one counted, one being counted and
one not yet admitted. In `switch_jobs` the queue holds one proof per switch, so
eviction never hides a lost proof; a third image job meets what two earlier ones
left. In `fabric_jobs` the second job meets what a failed or interrupted first one
left; the single event of the layout worker is a failing call or another request's
mutation (section 4 proves its properties for any number), and two faults of the
scale-up job let a call fail in the forward path and one in the rollback.
Certificate stores of 2 are full after one install. In `firmware_objects` one id is
added, deleted and added again under another manifest that shares an artifact's
name, with an apply in between; three inserts let a bundle come back under another
hardware type while the other bundle is that type's default. In `firmware_jobs` four adapter jobs
let an owed value pass through several adapters. Symmetry is used over sets of
model values only, and in no run with a liveness property. Some restrictions of the
instances take away what is equivalent: the first request is an add, because any
other finds an empty catalog; the first insert has one chosen hardware type, because
the types are interchangeable; `mixed` and `force` are set only in requests whose
outcome depends on them; and the switch without the gNMI client-CA resource is one not bound yet.
Two more of the update worker are choices: the device first runs none, all, or the
BMC's part of the new firmware, and the BMC is the target without a comparable
version, on one node type with several checked stages and one with a single one.

Deadlock is checked in `fabric_operations`, `job_registry`, `batch` and
`batch_stale_list`. The other instances come to rest by design: jobs, requests and
events are bounded, and a service that has shut down does nothing more.

Fairness. `ParentAggregation` assumes weak fairness of the request's own steps (the
runtime polls a task that is ready) and of each thread that refreshes (synchronous
code; the reaper's timer ticks for ever); nothing of a worker, or of the client that
may drop the request. `JobSupervision` assumes weak fairness of the shutdown's
steps, each immediate or a timed wait, and of leaving the registry's critical
section; workers, cleanups and callers may hang. `FirmwareUpdate` and `OobRecovery`
assume weak fairness of the worker, every call of which has a timeout; the device
owes nothing.

### What the runs show

* `RegistrySound`: one controller is never both pending and proven, nor pending
  twice, across transfers and eviction; scopes stay disjoint, limits are kept.
* `ExclusionSound`: although occupancy is split between the node index and the alias
  table, two users never share a node, and no alias outlives its owner.
  `RetentionSound`: eviction never takes a child from a parent that is retained.
* `SealingSound`: a parent is sealed once, for final children only, and the "handle
  missing" branches of `fail_parent` and `complete_parent` are never reached once
  `create_parent_job` has returned. `UnwatchedKeepsPromise`: a batch that no reaper
  pass or poll looks at during admission implements `BatchOutcome`.
* `ShutdownSound`: new work cannot escape shutdown's snapshots although flag and
  lock are separate; on return every record is final; no cleanup is skipped while
  its worker runs. `ShutdownReturns`, `EventuallySealed`: it returns, and the parent
  of a finished batch is sealed though nobody polls it.
* `OwnersOnly`: a mutation that passed `require_no_fabric_operation` stays clear of
  operations and proofs until it ends, because it holds its aliases across both
  registries. In a running service every operation has a live worker, so the
  transfer path of `admit` is defence in depth. `VerifiedIsProven`: a layout
  reported as verified has an exact proof for each of its groups at that moment.
* `ProofIsTrue`: through later jobs, failures, cancellations and mutations a proven
  controller is enabled and runs with the settings of its proof.
  `LinksMoveUnderStop`: links come up only under stopped controllers.
  `CompletedIsLive`: a completed layout is what the switches run.
* `HandsOverInOrder`: the primary is enabled after the other switches are disabled
  and, on VR NVL72, have stopped. `RestoredUnlessReported`: a failed job has
  restored its snapshot or reports that it has not, with failures in the rollback.
* `BoundEntriesPresent`, `RoomForImport`, `KeyAccountedFor`, `CompletedMatches`: no
  reclamation deletes a bound entry in any view, an import has room, no private key
  is left on the switch without a cleanup or a report, and a completed install is
  what its services use.
* `CompletedIsInsecure`, `NotAttemptedUntouched`: an unset flow's report is true
  wherever the flow was cut.
* `RegisteredVerified`, `CredentialsKept`, `RegisteredFollowsInstall`: the
  registered client never carries the unverified bootstrap transport, a stale
  candidate never restores an old password, and an install moves it.
* `CompletedRunsTarget`, `ResetProven`, `CancelEndsWithStage`: a completed image
  job runs and boots its target whatever earlier jobs left behind, a BMC reset is
  sent on proof only, and what a cancelled job still does to the switch belongs to
  the stage it was in.
* `ImplementsStore`, `NoCircularWait`: the SQL back end commits a sequence of
  operations of the contract, and its lock order admits no deadlock.
* `AvailableIsCached`, `AppliesOwnArtifacts`: an available object has its required
  files until a delete, or a second task in its directory, removes them, and an apply
  works with artifacts prepared from the manifest of the row it read.
* `SettledIsHeld`, `EarlierStagesRun`, `CancelStopsWrites`, `WorkerEnds`: a target
  counted as done is on the device; a stage waits until what the verified ones before
  it wrote runs, as far as that can be compared; what a cancelled worker still does to
  the device belongs to the upload (with the power cycle after its error) or the
  activation it was in; and every worker ends.
* `NoCycleUnderPush`, `RecoveredIsHealthy`, `FlowEnds`: power is not cycled under a
  running push, also one an earlier job left, a recovered tray is healthy in every
  component the detection, or a re-read of the push-then-cycle members, saw in
  recovery, and the flow ends.
* `Accounted`, `UnchangedUnderTask`: the borrowed setting is put back or remembered
  while its adapter lives, and not moved under a task known to run except after the
  grace period of unreadable polls.

Type invariants of `ParentAggregation`, `JobSupervision` and `SwitchAdmission` are
conjuncts of `SealingSound`, `ShutdownSound` and `OwnersOnly`; those of
`FabricOperations`, `JobRegistry`, `NvueTransport`, `DellForceUpdate`,
`FabricReconciliation`, `PostgresStore` and `FirmwareObjects` are part of the
inductive invariants of section 4.

## 4. Proofs

TLAPS checks the proofs for all values of the constants that satisfy the modules'
assumptions:

* limits are natural numbers, the proof queue has room for one, and the adapter
  tolerates more than one unreadable poll;
* ids, nodes and devices do not clash, no model value for "nothing" is a job or a
  connection, and a job is not both a leaf and a parent;
* `PlansAssumption` (`FabricReconciliation`): a plan has a target for every switch, a
  primary is one of its own group's switches, and groups are disjoint. That is what
  `plan_layout` builds (`handlers_v2/layout_planner.rs`, `FabricPlan`), which is not
  modelled.

Every run evaluates the assumptions of the modules it extends. Each inductive
invariant below was also checked with TLC, as an invariant of its component's
instance.

| Module | Component | Properties of section 3 it proves |
|---|---|---|
| `OrchestratorProofs` | `FabricOperations`, `JobSupervision` | `RegistrySound`, `ShutdownSound` |
| `JobRegistryProofs` | `JobRegistry` | `ExclusionSound`, `RetentionSound` |
| `ParentAggregationProofs` | `ParentAggregation` | `SealingSound`, `UnwatchedKeepsPromise` |
| `FabricReconciliationProofs` | `FabricReconciliation` | `ProofIsTrue`, `LinksMoveUnderStop`, `CompletedIsLive` |
| `NvueTransportProofs` | `NvueTransport` | `RegisteredVerified`, `CredentialsKept`, `RegisteredFollowsInstall` |
| `FirmwareObjectsProofs` | `FirmwareObjects` | `AvailableIsCached`, `AppliesOwnArtifacts` |
| `PostgresStoreProofs` | `PostgresStore` | the refinement of `FirmwareStore` |
| `DellForceUpdateProofs` | `DellForceUpdate` | `Accounted`, `UnchangedUnderTask` |

**Fabric operation registry.** `EvidenceInvariant` is an inductive invariant; from it
follow `ScopesDisjoint`, `PendingUnproven`, `WithinCapacity`, their conjunction
`RegistrySound` and the action property `MarksResolved`. `PendingUnproven` is not
inductive alone: `record_activation` adds a proof for a controller it unmarks in its
own operation, so one needs `PendingExclusive` to know that no other operation has
it marked. `WithinCapacity` needs finiteness of both collections and that eviction
removes at least one proof: the least position exists because the queue is finite.
`MarksResolved` needs that the proof just pushed is not the one evicted, which
follows from `at < nextAt` for all older proofs and a queue bound of at least one.

**Shutdown.** `ShutdownSound` speaks of snapshots taken one after the other while
creations and spawns go on. The invariant says why they are complete. `Closing`: once
the cancellation has run, no creation holds the write lock, because the flag was up
before. `Tracked`: a worker runs only if its spawner read the flag as unset, which
it does after registering the task, so a worker still running after the task snapshot
is in it. `Owned`: a handle belongs to a live record until the shutdown has returned,
so the sweep that ends every live record leaves no worker with a stale one.

**Job registry.** `RegistryInvariant` gives both properties of the run `job_registry`
and the action property `TerminalIsFinal`. Two strengthenings make it inductive.
`NodeHoldsAlias`, that a live job on a node holds the node's alias, links the two
indexes that different operations maintain: with it, exclusion follows from the alias
table being a function. `ParentKnowsChild`, that a child's parent is tracked and lists
it, carries retention: eviction removes a parent only if none of the children it
lists is tracked. Both evictions and the roll-back of a queued job are instances of
one lemma about `Removable` sets. Capacity is a separate induction over finite domains.

**Parent aggregation.** A call of `refresh_parent_state` decides from reads made at
different times. `Knows(call, n, k)` is what it knows in the middle: it saw a list of
`n` children and has read `k`; the ids still to read are that stretch of the parent's
list, and if it has seen no unfinished child, the first `k` are final and it has
counted their failures. This stays true because a final child never changes and the
list only grows at its end. At the decision `k = n`, which is `SealedForPrefix`. For
the refinement of `BatchOutcome` one also needs `n` to be the whole list: nobody else
refreshes while an unwatched request admits (`Alone`). `StepRefines` maps every step
to a step of `BatchOutcome` or a stutter.

**Managed layout.** The invariant follows every switch through the phases of a job.
`Withdrawn`: what the worker may still touch (`unverified`) has no activation proof,
hence no step of its own can falsify one. `Stops`: from the stop phase to the
activation, every unverified controller is off and has stopped unless its own future
is in the middle of a call. `Keeps`: a primary of the plan that is not changed has
kept its proof, so it still runs what the plan wants. `Drifts`: a link that is still
to be raised belongs to an unverified switch whose group's primary is unverified too;
with `Stops` this is `LinksMoveUnderStop`, and it is where the disjointness of groups
is used. `CompletedIsLive` follows from `ProofIsTrue`, because at the verification
every primary is proven.

**NVUE transport.** None of the three properties is inductive, because what an
activation does depends on what its candidate was prepared from. The invariant says
of every candidate carried without the lock that, while the client still has the
revision it was based on, it also has the credentials it was built with (`Fits`), and
that a candidate for the registered client verifies the server.

**Firmware objects.** What a preparation task publishes it has counted earlier, file
by file, and a delete may have emptied the directory in between. `ReadyIsCached` says
when the count can be trusted: while the row of the task's own incarnation is there
and is not swept. A task that removes an invalid file has not counted that file, and
sweeps the row if another task may have (`DiscardKeeps`). A restart drops the task and
with it the claim. `Dated`,
that nothing carries a creation time the store's clock has not reached, is why a row
inserted later is never mistaken for an earlier incarnation.

**PostgreSQL store.** Every statement outside a transaction is one operation of the
contract. A commit is a `SetDefault` or changes nothing: for that, no default of the
type may be left that the transaction has not cleared, and the rows it writes must
still have that type (`Owns`, `Clears`). Both are true when the row is marked, and
stay true although other statements go on: written rows are locked, an insert makes no
default, and of two transactions on one type at most one has marked its row
(`OneMarker`), which is the unique index. The theorem assumes that `None` is not a
connection.

**Dell adapter.** For any number of jobs and uploads, any limit of unreadable polls
and any set of faults. A step that forgets the pending update must know that the
option already has the remembered value, and a step that patches the option must know
that an update is pending; the invariant adds at which steps that is so (`Fits`) and
that what is remembered is what was found (`Remembers`). For `UnchangedUnderTask` it
adds that a task remembered as terminal no longer runs or was given up after the
grace period (`Known`), and that the steps which write the option are reached only
without a task or with a terminal one (`Cleared`).

### What is only model-checked, and why

* All liveness (`ShutdownReturns`, `EventuallySealed`, `WorkerEnds`, `FlowEnds`):
  fairness and `ENABLED` are out of this prover's reach.
* `OwnersOnly` and `VerifiedIsProven` of `SwitchAdmission`: the invariant spans two
  registries and the position of every job; it is the next to be proved.
* `NoCircularWait`: it needs an order on the waiting transactions that is well-founded
  over any finite set of connections; the run checks it for two.
* `SwitchCertificates`, `MtlsUnset`, `ScaleUpFabricV2`, `SwitchImage`,
  `FirmwareUpdate`, `OobRecovery`: one job on one device, whose properties are about a
  fixed order of many calls with failures in between. The states that matter there
  come from the sequence of calls, which the instances have in full, and less from
  the size of the constants.

## 5. What is not modelled

The map covers about 7% of the code. A quarter of the repository
is `rust_nvfwupd`, a library of Redfish sessions, PLDM parsing and device tools, of
which only the update and activation workflows are in `FirmwareUpdate`;
most of the rest is device I/O (node types, transports, NVUE, Redfish and NMX-C
clients), conversions of protobuf messages, configuration, observability and tests.
Those have little state of their own to interleave: what the modelled jobs need of a
device is in their environment actions. `PROJECT.json` gives a reason for each part.

Left out of what is modelled: wording, logging, metrics and spans; result JSON;
normalisation of host names and ports in endpoint aliases; the layout planner, whose
result is the constant `Plans`; HTTP retries, digests and URL policy of downloads;
the V1 fabric requests, which are single device calls; the rack manager's inventory
and its power guard; ephemeral firmware objects and the wait of their cleanup for
jobs that may be evicted. Panics inside a critical section (a poisoned mutex) and
starvation of the runtime are taken not to happen. Nothing at start resumes or fails
an object that a crash left in preparation; no text of the repository promises that.

## 6. Disagreements found

Three are runs that TLC must refute.

1. `batch_stale_list`: a reaper pass or poll that clones the child list during
   admission does not count a child admitted later. If the children it lists end
   first it seals the parent while that child is unfinished, against
   `src/docs/api-reference/async-jobs.md:105`.
2. `batch_cut_short`: `BatchUpdateFirmware` fails and refreshes inside its admission
   loop, which can seal the parent and refuse every later node. The comment at
   `api/grpc/firmware_handlers.rs:3487` explains why the sibling handler must not.
3. `foreign_publish`: an add goes on with the row that its default was set on, found
   by id alone. If the object was deleted and added again in between, the first
   add's catalog is published into the second object, against "A cancelled/deleted
   incarnation must never publish into a new one." (`workflow.rs:358`).

The modules state further sentences of the repository as formulas which TLC refutes
when they are checked on the instances of section 3:

| Formula | What the repository says | What the code does |
|---|---|---|
| `MtlsUnset!PartialNeverPersisted` | `src/crates/nvswitch_cli/src/flow.rs:276`: "a partially cleared binding is never persisted" | a flow that stops after an unset leaves it pending; the next flow applies and saves it |
| `PostgresStore!NeverDuplicateKey` | `persistence/postgres/firmware_object.rs:54`: "the loser serializes cleanly rather than failing with a duplicate-key error" | a bundle re-created under another hardware type between the read of its type and the update meets the unique index |
| `FirmwareObjects!AvailableStaysCached` | `src/docs/operations/firmware.md:660`, `src/docs/reference/firmware-sources.md:11` | a delete removes the cache directory after the id was added again and published; so may the preparation of the deleted object, which still runs, remove a file it finds invalid |
| `FirmwareObjects!DeleteStopsDownload` | `src/docs/operations/firmware.md:669`: "any in-flight download" | a delete that looks for the token before the add has registered it stops nothing |
| `FirmwareUpdate!CancelStopsAll` | `api/grpc/firmware_handlers.rs:2305`: "checked at each workflow boundary" | a failed upload still power-cycles the BMC after the cancellation |
| `DellForceUpdate!PriorTaskFinished` | `nodes/compute_gb200_dell/mod.rs:440`: "A prior task must finish before another upload can change it." | an upload whose answer was lost leaves a task nobody waits for |
| `DellForceUpdate!RetriedBeforeUpload` | `api/grpc/firmware_handlers.rs:820`: "retries before its next upload" | the adapter of a job by node list is dropped with the value it owes |
| `SwitchImage!CompletedIsSaved` | `src/docs/operations/switch-management.md:140`: "so the password persists across reboots" | a job lost between recovery and save leaves a password the next job never saves |
| `SwitchImage!RebootIsHandedOn` | `api/grpc/switch_image_handlers.rs:654` | a switch that reboots between two polls is polled into the timeout |
| `ScaleUpFabricV2!StoppedBeforeEnabling` | `nodes/switch_gb200_nvidia/cluster/node.rs:159`: "Wait for both before enabling another switch." | without node IPs the disable does not wait for the controller |
| `FabricReconciliation!ObsoleteStopped` | `layout/reconciliation/preparation.rs:19`: "Stops obsolete primaries" | one already disabled, with matching links, is not waited for |

And a parent without children: `BatchUpdateFirmware` awaits between creating its
parent and admitting its first child. Dropped there, it leaves a parent which the
sweep skips, so the leak described at `orchestrator/job_tracker.rs:385` remains;
`EventuallySealed` therefore speaks of parents with children.

## 7. Plan

1. Proofs: `OwnersOnly` and `VerifiedIsProven` of `SwitchAdmission`, on top of the
   invariant of `FabricOperations`; `NoCircularWait` of `PostgresStore`; the
   invariants of `SwitchCertificates`, `MtlsUnset` and `ScaleUpFabricV2`.
2. Rack manager: inventory changes against the power guard and jobs that hold nodes.
3. The layout planner as operators checked against a reference definition, which
   would turn `PlansAssumption` into a checked fact.
4. Ephemeral firmware objects; connection draining at shutdown.
