------------------------- MODULE SwitchCertificates -------------------------
(***************************************************************************)
(* Certificates of one NVSwitch: the install job                           *)
(* (api/grpc/switch_certificate_handlers.rs, mtls/workflows.rs), the       *)
(* reclamation of the NVOS certificate stores (mtls/retention.rs), and the *)
(* layout worker that points the NMX Controller at the NVUE API's entries  *)
(* (enforce_primary_nmx_controller_security).  The job registry lets one   *)
(* of them work on the switch at a time (JobRegistry, NodeExclusive).      *)
(*                                                                         *)
(* The switch is the environment.  A service is bound to an entry of each  *)
(* store in two views, what was applied and what is in operation, which    *)
(* converge later.  A call that fails may have taken effect, and an action *)
(* answered without a job id counts as done although it may have had none. *)
(*                                                                         *)
(* The entries an install creates are named by its run, a number: their    *)
(* order is that of their timestamps.  Entry 0 is an RMS entry without a   *)
(* readable timestamp, which sorts first.                                  *)
(***************************************************************************)
EXTENDS Naturals, Sequences, FiniteSets, FiniteSetsExt, SequencesExt

CONSTANTS
    Limit,                  \* NVOS_CERTIFICATE_STORE_LIMIT
    MaxRun,                 \* installs of a behaviour
    Foreign,                \* entries an operator may import
    Requests,               \* the sets of services an install may name
    None

Stores == {"entity", "ca"}
Views == {"applied", "operational"}
Services == {"nvue", "gnmi", "nmxc", "nmxt"}
Rms == 0 .. MaxRun
Ids == Rms \cup Foreign
Files == <<"ca.pem", "client.pem", "client.key">>

VARIABLES
    store,                  \* [Stores -> SUBSET Ids]: the NVOS stores
    bound,                  \* [Views -> [Stores -> [Services -> Ids or None]]]
    encrypted,              \* apps whose manager encryption is mtls
    gnmiCa,                 \* does the switch have the gNMI client-CA resource
    keys,                   \* runs whose private key is in /tmp of the switch
    job,                    \* the worker
    cancelled,              \* its cancellation token
    runs,                   \* installs started
    detached,               \* runs a detached cleanup task works for
    leaked,                 \* runs whose cleanup failed ("manual cleanup")
    crowded                 \* stores an operator filled during this job

vars == <<store, bound, encrypted, gnmiCa, keys, job, cancelled, runs,
          detached, leaked, crowded>>

switch == <<store, bound, encrypted, gnmiCa, keys>>
tasks == <<detached, leaked>>

Idle == [pc |-> "idle", kind |-> None, ids |-> [s \in Stores |-> None],
         want |-> {}, todo |-> {}, app |-> None, plan |-> <<>>,
         listed |-> [s \in Stores |-> {}], files |-> 0, verdict |-> None]

Init ==
    /\ \E first \in {None, 0} :
          bound = [v \in Views |-> [s \in Stores |-> [x \in Services |->
                      IF x = "nvue" THEN first ELSE None]]]
    /\ store = [s \in Stores |-> {0}]
    /\ encrypted = {}
    /\ gnmiCa \in BOOLEAN
    /\ keys = {}
    /\ job = Idle
    /\ cancelled = FALSE
    /\ runs = 0
    /\ detached = {}
    /\ leaked = {}
    /\ crowded = {}

-----------------------------------------------------------------------------
\* The worker's own steps.

Goto(pc) == job' = [job EXCEPT !.pc = pc]

\* The job is sealed.  What it was asked for stays until the next one starts.
End(verdict) ==
    job' = [Idle EXCEPT !.kind = job.kind, !.ids = job.ids, !.want = job.want,
                        !.verdict = verdict]

\* An error before anything was staged.
Fail == End("failed") /\ UNCHANGED <<switch, cancelled, runs, tasks, crowded>>

\* handle_configure_switch_certificate, prepare_switch_certificate_node: the
\* job's material names one new entry for each store.
Start(want) ==
    /\ job.pc = "idle" /\ runs < MaxRun
    /\ runs' = runs + 1
    /\ job' = [Idle EXCEPT !.pc = "list_entity", !.kind = "install",
                           !.ids = [s \in Stores |-> runs + 1],
                           !.want = want, !.todo = want]
    /\ cancelled' = FALSE
    /\ crowded' = {}
    /\ UNCHANGED <<switch, tasks>>

-----------------------------------------------------------------------------
\* reclaim_certificate_store_capacity.

NeedsSpace(listed) == \E s \in Stores : Cardinality(listed[s]) >= Limit

\* Mutant of Required.
RequiredOffByOne(entries) ==
    IF Cardinality(entries) > Limit THEN Cardinality(entries) - Limit ELSE 0

\* (entries + 1).saturating_sub(limit)
Required(entries) ==
    IF Cardinality(entries) + 1 > Limit THEN Cardinality(entries) + 1 - Limit
                                        ELSE 0

Oldest(ids, n) == {i \in ids : Cardinality({k \in ids : k < i}) < n}

\* Mutant of BoundIds.
BoundIdsApplied(s) == {bound["applied"][s][x] : x \in Services} \ {None}

\* bound_entry_ids, CertificateBindings::record: the entries of a store some
\* service is bound to, in any view.
BoundIds(s) == {bound[v][s][x] : v \in Views, x \in Services} \ {None}

\* plan_store_reclaim: what may be deleted to make room for one import.
Candidates(s, reported) ==
    (job.listed[s] \cap Rms) \ (reported \cup BoundIds(s) \cup {job.ids[s]})

Deletions(s, reported) ==
    Oldest(Candidates(s, reported), Required(job.listed[s]))

\* read_certificate_inventory lists one store after the other, first to plan
\* and again when entries were deleted.
ListStore(s, from, to) ==
    /\ job.pc = from
    /\ \/ /\ from = "list_entity" /\ cancelled
          /\ End("cancelled")
       \/ /\ from # "list_entity" \/ ~cancelled
          /\ \/ End("failed")
             \/ job' = [job EXCEPT !.listed[s] = store[s], !.pc = to]
    /\ UNCHANGED <<switch, cancelled, runs, tasks, crowded>>

\* Both stores are planned before anything is deleted; the bindings are read
\* only when a store is full.  NVOS may report any entry in use.
Plan ==
    /\ job.pc = "plan"
    /\ \E reported \in SUBSET Rms,
          unreadable \in IF NeedsSpace(job.listed) THEN SUBSET Stores ELSE {{}} :
          IF \E s \in Stores :
                /\ Required(job.listed[s]) > 0
                /\ \/ s \in unreadable
                   \/ Cardinality(Candidates(s, reported)) <
                         Required(job.listed[s])
          THEN End("failed")
          ELSE LET Sorted(s) == SetToSortSeq(Deletions(s, reported), <)
                   Of(s) == [i \in DOMAIN Sorted(s) |-> <<s, Sorted(s)[i]>>]
                   plan == Of("entity") \o Of("ca")
               IN  job' = [job EXCEPT !.plan = plan,
                              !.pc = IF plan = <<>> THEN "prepare" ELSE "delete"]
    /\ UNCHANGED <<switch, cancelled, runs, tasks, crowded>>

\* One delete_certificate_entry, with the cancellation check before it.
Delete ==
    /\ job.pc = "delete" /\ job.plan # <<>>
    /\ LET s == Head(job.plan)[1]
           id == Head(job.plan)[2]
       IN  \/ /\ cancelled
              /\ End("cancelled")
              /\ UNCHANGED store
           \/ /\ ~cancelled
              /\ End("failed")
              /\ store' \in {store, [store EXCEPT ![s] = @ \ {id}]}
           \/ /\ ~cancelled
              /\ store' = [store EXCEPT ![s] = @ \ {id}]
              /\ job' = [job EXCEPT !.plan = Tail(@)]
    /\ UNCHANGED <<bound, encrypted, gnmiCa, keys, cancelled, runs, tasks,
                   crowded>>

\* Nothing left to delete: a reclamation that deleted something lists the
\* stores again.
Reclaimed ==
    /\ job.pc = "delete" /\ job.plan = <<>>
    /\ Goto("relist_entity")
    /\ UNCHANGED <<switch, cancelled, runs, tasks, crowded>>

CheckRoom ==
    /\ job.pc = "room"
    /\ IF NeedsSpace(job.listed) THEN End("failed") ELSE Goto("prepare")
    /\ UNCHANGED <<switch, cancelled, runs, tasks, crowded>>

Reclaim ==
    \/ ListStore("entity", "list_entity", "list_ca")
    \/ ListStore("ca", "list_ca", "plan")
    \/ Plan
    \/ Delete
    \/ Reclaimed
    \/ ListStore("entity", "relist_entity", "relist_ca")
    \/ ListStore("ca", "relist_ca", "room")
    \/ CheckRoom

-----------------------------------------------------------------------------
\* transfer_and_import_switch_certificate_material.

\* Every ordinary exit after the directory exists goes through the awaited
\* cleanup, which then decides by the verdict so far.
CleanUp(verdict) == job' = [job EXCEPT !.pc = "cleanup", !.verdict = verdict]

\* prepare_mtls_remote_dirs
Prepare ==
    /\ job.pc = "prepare"
    /\ End("failed") \/ Goto("copy")
    /\ UNCHANGED <<switch, cancelled, runs, tasks, crowded>>

\* sftp_copy_mtls_file for the next file, in order.  A failed upload, check or
\* chmod may leave the file.
CopyFile ==
    /\ job.pc = "copy" /\ job.files < Len(Files)
    /\ LET present == IF Files[job.files + 1] = "client.key"
                      THEN keys \cup {job.ids["entity"]} ELSE keys
       IN  \/ /\ cancelled
              /\ CleanUp("cancelled")
              /\ UNCHANGED keys
           \/ /\ CleanUp("failed") \/ (cancelled /\ CleanUp("cancelled"))
              /\ keys' \in {keys, present}
           \/ /\ ~cancelled
              /\ keys' = present
              /\ job' = [job EXCEPT !.files = @ + 1,
                                    !.pc = IF job.files + 1 = Len(Files)
                                           THEN "import_ca" ELSE "copy"]
    /\ UNCHANGED <<store, bound, encrypted, gnmiCa, cancelled, runs, tasks,
                   crowded>>

\* One @import action.  NVOS refuses it when the store is full.
Import(s, from) ==
    /\ job.pc = from
    /\ LET imported == IF Cardinality(store[s]) < Limit
                       THEN [store EXCEPT ![s] = @ \cup {job.ids[s]}]
                       ELSE store
       IN  /\ store' \in {store, imported}
           /\ \/ CleanUp("failed")
              \/ /\ Cardinality(store[s]) < Limit
                 /\ IF s = "ca" THEN Goto("import_entity") ELSE CleanUp(None)
    /\ UNCHANGED <<bound, encrypted, gnmiCa, keys, cancelled, runs, tasks,
                   crowded>>

\* import_mtls_material: the CA first.
ImportCa == Import("ca", "import_ca")

\* Mutant of ImportEntity: the import's error returns before the cleanup.
ImportEntityNoCleanup ==
    \/ Import("entity", "import_entity") /\ job'.verdict = None
    \/ job.pc = "import_entity" /\ Fail

ImportEntity == Import("entity", "import_entity")

\* cleanup_staged_certificate_material: best effort, then the guard is
\* disarmed and the job goes on with its verdict.
Cleanup ==
    /\ job.pc = "cleanup"
    /\ \/ keys' = keys \ {job.ids["entity"]} /\ UNCHANGED leaked
       \/ UNCHANGED keys /\ leaked' = leaked \cup {job.ids["entity"]}
    /\ IF job.verdict # None
       THEN End(job.verdict)
       ELSE Goto(IF "gnmi" \in job.want THEN "discover" ELSE "bind")
    /\ UNCHANGED <<store, bound, encrypted, gnmiCa, cancelled, runs, detached,
                   crowded>>

Transfer == Prepare \/ CopyFile \/ ImportCa \/ ImportEntity \/ Cleanup

-----------------------------------------------------------------------------
\* bind_and_verify_switch_certificate_services.

\* initialize_nvue_capabilities
Discover ==
    /\ job.pc = "discover"
    /\ End("failed") \/ Goto("bind")
    /\ UNCHANGED <<switch, cancelled, runs, tasks, crowded>>

\* The stores a service has an entry in.
BoundStores(x) == IF x = "gnmi" /\ ~gnmiCa THEN {"entity"} ELSE Stores

\* ordered_bind_services: the NVUE API, whose transport RMS is using, last.
MayBind(x) == x \in job.todo /\ (x = "nvue" => job.todo = {"nvue"})

\* The bindings after x was bound in the stores of ss, as shown by the views
\* of vs.  NVOS refuses a binding to an entry it does not have.
BoundTo(vs, x, ss) ==
    IF \A s \in ss : job.ids[s] \in store[s]
    THEN [v \in Views |-> [s \in Stores |->
             IF v \in vs /\ s \in ss THEN [bound[v][s] EXCEPT ![x] = job.ids[s]]
                                     ELSE bound[v][s]]]
    ELSE bound

Applied(x) == BoundTo({"applied"}, x, BoundStores(x))

\* bind_gnmi and the NVUE API's binding: one revision with both entries,
\* which an error may leave applied.
BindRevision(x) ==
    /\ job.pc = "bind" /\ x \in {"nvue", "gnmi"} /\ MayBind(x)
    /\ \/ bound' \in {bound, Applied(x)} /\ End("failed")
       \/ /\ \A s \in BoundStores(x) : job.ids[s] \in store[s]
          /\ bound' = Applied(x)
          /\ job' = [job EXCEPT !.todo = @ \ {x}]
    /\ UNCHANGED <<store, encrypted, gnmiCa, keys, cancelled, runs, tasks,
                   crowded>>

\* bind_cluster_app_mtls: cluster, manager and readiness, then three updates,
\* actions that need no revision.
BindApp(x) ==
    /\ job.pc = "bind" /\ x \notin {"nvue", "gnmi"} /\ MayBind(x)
    /\ \/ End("failed")
       \/ job' = [job EXCEPT !.app = x, !.pc = "app_entity"]
    /\ UNCHANGED <<switch, cancelled, runs, tasks, crowded>>

UpdateAppEntry(s, from, to) ==
    /\ job.pc = from
    /\ bound' \in {bound, BoundTo(Views, job.app, {s})}
    /\ End("failed") \/ Goto(to)
    /\ UNCHANGED <<store, encrypted, gnmiCa, keys, cancelled, runs, tasks,
                   crowded>>

\* bind_cluster_app_manager_encryption_mtls, over NVUE or over SSH.
UpdateAppEncryption ==
    /\ job.pc = "app_encryption"
    /\ encrypted' \in {encrypted, encrypted \cup {job.app}}
    /\ \/ End("failed")
       \/ job' = [job EXCEPT !.todo = @ \ {job.app}, !.pc = "bind"]
    /\ UNCHANGED <<store, bound, gnmiCa, keys, cancelled, runs, tasks, crowded>>

AllBound ==
    /\ job.pc = "bind" /\ job.todo = {}
    /\ Goto("verify")
    /\ UNCHANGED <<switch, cancelled, runs, tasks, crowded>>

\* Mutant of Verified.
VerifiedEntityOnly(x) ==
    /\ \E v \in Views : bound[v]["entity"][x] = job.ids["entity"]
    /\ x \notin {"nvue", "gnmi"} => x \in encrypted

\* verify_mtls_services, verify_cluster_app_mtls: a response may show either
\* view.
Verified(x) ==
    /\ \A s \in BoundStores(x) : \E v \in Views : bound[v][s][x] = job.ids[s]
    /\ x \notin {"nvue", "gnmi"} => x \in encrypted

Verify ==
    /\ job.pc = "verify"
    /\ \/ End("failed")
       \/ (\A x \in job.want : Verified(x)) /\ Goto("hello")
    /\ UNCHANGED <<switch, cancelled, runs, tasks, crowded>>

\* run_switch_certificate_connectivity_tests, finish_switch_certificate_job;
\* the layout worker's test_nmx_hello_with_retries.
Hello ==
    /\ job.pc = "hello"
    /\ End("failed") \/ End("completed")
    /\ UNCHANGED <<switch, cancelled, runs, tasks, crowded>>

Bind ==
    \/ Discover
    \/ \E x \in Services : BindRevision(x) \/ BindApp(x)
    \/ UpdateAppEntry("entity", "app_entity", "app_ca")
    \/ UpdateAppEntry("ca", "app_ca", "app_encryption")
    \/ UpdateAppEncryption
    \/ AllBound
    \/ Verify
    \/ Hello

-----------------------------------------------------------------------------
\* enforce_primary_nmx_controller_security by a layout worker, when the
\* binding differs from the NVUE API's or a Hello failed: the NMX Controller is
\* bound to the entries the NVUE API shows, read one after the other.
RebindNmxController ==
    /\ job.pc = "idle" /\ runs > 0
    /\ \E v \in [Stores -> Views] :
          /\ \A s \in Stores : bound[v[s]][s]["nvue"] # None
          /\ job' = [Idle EXCEPT !.pc = "bind", !.kind = "rebind",
                        !.ids = [s \in Stores |-> bound[v[s]][s]["nvue"]],
                        !.want = {"nmxc"}, !.todo = {"nmxc"}]
          /\ \E s \in Stores, w \in Views :
                \/ bound[w][s]["nmxc"] # job'.ids[s]
                \/ "nmxc" \notin encrypted
    /\ cancelled' = FALSE
    /\ crowded' = {}
    /\ UNCHANGED <<switch, runs, tasks>>

\* cancel_job, or shutdown.
Cancel ==
    /\ job.pc # "idle" /\ job.kind = "install" /\ ~cancelled
    /\ cancelled' = TRUE
    /\ UNCHANGED <<switch, job, runs, tasks, crowded>>

\* The future is dropped or unwinds at an await.  An armed
\* StagedMaterialCleanupGuard hands the directory to a detached task, or logs
\* that there is no runtime to run one.
Armed == job.pc \in {"copy", "import_ca", "import_entity", "cleanup"}

Drop ==
    /\ job.pc # "idle"
    /\ End("dropped")
    /\ IF Armed
       THEN \/ detached' = detached \cup {job.ids["entity"]} /\ UNCHANGED leaked
            \/ leaked' = leaked \cup {job.ids["entity"]} /\ UNCHANGED detached
       ELSE UNCHANGED tasks
    /\ UNCHANGED <<switch, cancelled, runs, crowded>>

\* The detached task's cleanup_mtls_remote_dir_best_effort.
DetachedCleanup(r) ==
    /\ r \in detached
    /\ detached' = detached \ {r}
    /\ \/ keys' = keys \ {r} /\ UNCHANGED leaked
       \/ leaked' = leaked \cup {r} /\ UNCHANGED keys
    /\ UNCHANGED <<store, bound, encrypted, gnmiCa, job, cancelled, runs, crowded>>

\* The switch: an applied binding goes into operation.
Converge(x) ==
    /\ bound' = [bound EXCEPT !["operational"] = [s \in Stores |->
                    [@[s] EXCEPT ![x] = bound["applied"][s][x]]]]
    /\ bound' # bound
    /\ UNCHANGED <<store, encrypted, gnmiCa, keys, job, cancelled, runs, tasks,
                   crowded>>

\* Someone else imports an entry of their own.
OperatorImport(s, f) ==
    /\ f \notin store[s] /\ Cardinality(store[s]) < Limit
    /\ store' = [store EXCEPT ![s] = @ \cup {f}]
    /\ crowded' = IF job.pc = "idle" THEN crowded ELSE crowded \cup {s}
    /\ UNCHANGED <<bound, encrypted, gnmiCa, keys, job, cancelled, runs, tasks>>

Next ==
    \/ \E want \in Requests : Start(want)
    \/ Reclaim
    \/ Transfer
    \/ Bind
    \/ RebindNmxController
    \/ Cancel
    \/ Drop
    \/ \E r \in Rms : DetachedCleanup(r)
    \/ \E x \in Services : Converge(x)
    \/ \E s \in Stores, f \in Foreign : OperatorImport(s, f)

Spec == Init /\ [][Next]_vars

-----------------------------------------------------------------------------
\* No reclamation takes an entry away from a service: every entry a service is
\* bound to, in whatever view, stays in its store, whatever revision is still
\* converging when the bindings are read and wherever an earlier install
\* stopped (plan_store_reclaim, delete_certificate_entry).
BoundEntriesPresent ==
    \A v \in Views, s \in Stores, x \in Services :
        bound[v][s][x] # None => bound[v][s][x] \in store[s]

\* "the client key never outlives the job": a private key on the switch belongs
\* to the transfer under way, to a detached cleanup, or to a run whose cleanup
\* was reported as failed (transfer_and_import_switch_certificate_material and
\* StagedMaterialCleanupGuard, on every error path, cancellation and unwind).
KeyAccountedFor ==
    keys \subseteq detached \cup leaked
                   \cup (IF Armed THEN {job.ids["entity"]} ELSE {})

\* A job that completed left every service it was asked for bound to its own
\* entries in both stores, and the apps encrypted, although any update may have
\* been answered without taking effect (verify_mtls_services).
CompletedMatches ==
    job.verdict = "completed" /\ job.pc = "idle" =>
        \A x \in job.want :
            /\ \A s \in BoundStores(x) : bound["applied"][s][x] = job.ids[s]
            /\ x \notin {"nvue", "gnmi"} => x \in encrypted

\* An install stages its key and imports only when each store has room for
\* one more entry, unless someone else imported meanwhile
\* (reclaim_certificate_store_capacity).
RoomForImport ==
    job.pc \in {"prepare", "copy", "import_ca"} =>
        \A s \in Stores \ crowded : Cardinality(store[s]) < Limit

=============================================================================
