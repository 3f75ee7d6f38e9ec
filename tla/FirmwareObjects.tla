--------------------------- MODULE FirmwareObjects --------------------------
(***************************************************************************)
(* The life of stored firmware objects                                     *)
(* (api/grpc/firmware_object_handlers.rs, workflow.rs, artifacts.rs): the  *)
(* requests that add, delete and apply an object, and the preparation task *)
(* an add starts, which downloads the artifacts of the manifest into the   *)
(* object's cache directory and publishes the outcome.  The store is       *)
(* FirmwareStore, one operation at a time; any operation may fail.         *)
(*                                                                         *)
(* A file of the cache is named by the manifest and the artifact: its path *)
(* is derived from the manifest's revision.                                *)
(***************************************************************************)
EXTENDS FirmwareStore

CONSTANTS
    MaxRequests,            \* bound: requests of a behaviour
    Artifacts,              \* the artifacts every manifest lists
    Required,               \* [Configs -> SUBSET Artifacts]: the ones not optional in it
    None

Requests == 1 .. MaxRequests     \* in the order they arrive; an add's task has its name

VARIABLES
    req,                    \* [Requests -> request]
    task,                   \* [Requests -> preparation task]
    tokens,                 \* firmware_download_cancellations: [Ids -> task or None]
    cancelled,              \* running tasks whose token is cancelled
    files,                  \* [Ids -> SUBSET (Configs \X Artifacts)]: cache directories
    swept                   \* incarnations that lost files to a late delete, or to
                            \* another task in their directory

vars == <<catalog, history, clock, req, task, tokens, cancelled, files, swept>>
disk == <<files, swept>>

New == [pc |-> "new", op |-> None, id |-> None, config |-> None, row |-> None,
        uses |-> {}]
Over == [New EXCEPT !.pc = "over"]

NoTask == [pc |-> "none", id |-> None, manifest |-> None, created |-> 0,
           artifact |-> [a \in Artifacts |-> "todo"]]

\* ArtifactCatalog
Catalog(state, manifest, ready) == [state |-> state, manifest |-> manifest, ready |-> ready]

Init ==
    /\ StoreInit
    /\ req = [r \in Requests |-> New]
    /\ task = [r \in Requests |-> NoTask]
    /\ tokens = [id \in Ids |-> None]
    /\ cancelled = {}
    /\ files = [id \in Ids |-> {}]
    /\ swept = {}

\* The next request to arrive.
Arrives(r) == {q \in 1 .. r : req[q].pc = "new"} = {r}

Step(r, pc) == req' = [req EXCEPT ![r].pc = pc]
Answer(r) == req' = [req EXCEPT ![r] = Over]

\* A store call answers an error: not found, already exists, or the database.
StoreError(r) == Answer(r) /\ UNCHANGED <<store, tokens, cancelled, task, disk>>

-----------------------------------------------------------------------------
(* handle_add_firmware_object                                              *)
AddCreate(r) ==
    /\ Arrives(r)
    /\ \E id \in Ids, hw \in HwTypes, config \in Configs :
          /\ Create(id, hw, config, Catalog("preparing", config, {}))
          /\ req' = [req EXCEPT ![r] = [New EXCEPT !.pc = "default", !.op = "add",
                                                   !.id = id, !.config = config]]
    /\ UNCHANGED <<tokens, cancelled, task, disk>>

\* The handler goes on with the row this call returns, whichever incarnation
\* of the id it is.
AddDefault(r) ==
    /\ req[r].pc = "default"
    /\ \/ /\ SetDefault(req[r].id) \/ SetDefaultIfNone(req[r].id)
          /\ req' = [req EXCEPT ![r].pc = "register", ![r].row = catalog'[req[r].id].created]
          /\ UNCHANGED <<tokens, cancelled, task, disk>>
       \/ StoreError(r)

\* The token is registered and the task spawned without an await in between.
AddRegister(r) ==
    LET q == req[r] IN
    /\ q.pc = "register"
    /\ tokens' = [tokens EXCEPT ![q.id] = r]
    /\ task' = [task EXCEPT ![r] = [NoTask EXCEPT !.pc = "run", !.id = q.id,
                                                  !.manifest = q.config,
                                                  !.created = q.row]]
    /\ Answer(r)
    /\ UNCHANGED <<store, cancelled, disk>>

-----------------------------------------------------------------------------
(* spawn_catalog_preparation and materialize                               *)
Settled(t) == \A a \in Artifacts : task[t].artifact[a] \in {"ready", "failed"}

Downloading(t, a, from) ==
    task[t].pc = "run" /\ task[t].artifact[a] = from

Outcome(t, a, to) ==
    /\ task' = [task EXCEPT ![t].artifact[a] = to]
    /\ UNCHANGED <<store, req, tokens, cancelled>>

\* A file of the cache that validates is reused.
Reuse(t, a) ==
    /\ Downloading(t, a, "todo") /\ t \notin cancelled
    /\ <<task[t].manifest, a>> \in files[task[t].id]
    /\ Outcome(t, a, "ready") /\ UNCHANGED disk

\* Nobody else works in the task's directory, and nothing is published from it.
Alone(t) ==
    LET id == task[t].id IN
    /\ \A u \in Requests \ {t} : task[u].id # id
    /\ Exists(id) => ~catalog[id].available

\* One that does not validate, by its digest, by its size or because its origin
\* is gone, is removed, whoever put it there; the download follows.  The file
\* system's call outlives the future of a cancelled task.
Discard(t, a) ==
    LET id == task[t].id IN
    /\ Downloading(t, a, "todo")
    /\ <<task[t].manifest, a>> \in files[id]
    /\ files' = [files EXCEPT ![id] = @ \ {<<task[t].manifest, a>>}]
    /\ swept' = swept \cup IF Exists(id) /\ ~Alone(t) THEN {catalog[id].created} ELSE {}
    /\ UNCHANGED <<store, req, task, tokens, cancelled>>

\* The directory is created and the bytes arrive in a temporary file of it.
Receive(t, a) ==
    /\ Downloading(t, a, "todo") /\ t \notin cancelled
    /\ Outcome(t, a, "temp") /\ UNCHANGED disk

\* persist renames on a blocking thread, which outlives the download's
\* future: the file appears although the task sees its cancellation.
Persist(t, a) ==
    /\ Downloading(t, a, "temp")
    /\ files' = [files EXCEPT ![task[t].id] = @ \cup {<<task[t].manifest, a>>}]
    /\ Outcome(t, a, IF t \in cancelled THEN "failed" ELSE "ready")
    /\ UNCHANGED swept

\* A permanent failure, the last attempt, the cancellation, or a temporary
\* file that a delete removed with the directory.
DownloadFails(t, a) ==
    /\ task[t].pc = "run" /\ task[t].artifact[a] \in {"todo", "temp", "lost"}
    /\ Outcome(t, a, "failed") /\ UNCHANGED disk

Ready(t) == {a \in Artifacts : task[t].artifact[a] = "ready"}

\* Mutant of Prepared: a required artifact may fail too.
PreparedAnyway(t) == TRUE

Prepared(t) == Required[task[t].manifest] \subseteq Ready(t)

Preparation(t) ==
    IF Prepared(t) THEN Catalog("ready", task[t].manifest, Ready(t))
    ELSE Catalog("failed", task[t].manifest, {})

\* The token is looked at once more before the result is published.
Materialized(t) ==
    /\ task[t].pc = "run" /\ Settled(t)
    /\ task' = [task EXCEPT ![t].pc = IF t \in cancelled THEN "unregister" ELSE "publish"]
    /\ UNCHANGED <<store, req, tokens, cancelled, disk>>

Publish(t) ==
    /\ task[t].pc = "publish"
    /\ \/ FinishPreparation(task[t].id, task[t].created, Preparation(t), Prepared(t))
       \/ UNCHANGED store                  \* no such incarnation, or an error
    /\ task' = [task EXCEPT ![t].pc = "unregister"]
    /\ UNCHANGED <<req, tokens, cancelled, disk>>

Unregister(t) ==
    /\ task[t].pc = "unregister"
    /\ tokens' = IF t \in cancelled THEN tokens ELSE [tokens EXCEPT ![task[t].id] = None]
    /\ task' = [task EXCEPT ![t] = NoTask]
    /\ cancelled' = cancelled \ {t}
    /\ UNCHANGED <<store, req, disk>>

Prepare(t) ==
    \/ \E a \in Artifacts :
          \/ Reuse(t, a) \/ Discard(t, a)
          \/ Receive(t, a) \/ Persist(t, a) \/ DownloadFails(t, a)
    \/ Materialized(t) \/ Publish(t) \/ Unregister(t)

-----------------------------------------------------------------------------
(* handle_delete_firmware_object                                           *)
\* cancel_firmware_download takes the token under the lock ...
DeleteTake(r) ==
    /\ Arrives(r)
    /\ \E id \in Ids :
          /\ req' = [req EXCEPT ![r] = [New EXCEPT !.pc = "cancel", !.op = "delete",
                                                   !.id = id, !.row = tokens[id]]]
          /\ tokens' = [tokens EXCEPT ![id] = None]
    /\ UNCHANGED <<store, task, cancelled, disk>>

\* ... and cancels it after.
DeleteCancel(r) ==
    /\ req[r].pc = "cancel"
    /\ cancelled' = cancelled \cup {t \in Requests : t = req[r].row /\ task[t].pc # "none"}
    /\ Step(r, "row")
    /\ UNCHANGED <<store, task, tokens, disk>>

DeleteRow(r) ==
    /\ req[r].pc = "row"
    /\ \/ Delete(req[r].id) /\ Step(r, "dir") /\ UNCHANGED <<tokens, cancelled, task, disk>>
       \/ StoreError(r)

\* remove_dir_all also takes the temporary files.  It may fail, with a warning.
DeleteDir(r) ==
    LET id == req[r].id IN
    /\ req[r].pc = "dir"
    /\ Answer(r)
    /\ \/ /\ files' = [files EXCEPT ![id] = {}]
          /\ swept' = swept \cup IF Exists(id) THEN {catalog[id].created} ELSE {}
          /\ task' = [t \in Requests |->
                         IF task[t].id = id
                         THEN [task[t] EXCEPT !.artifact = [a \in Artifacts |->
                                  IF @[a] = "temp" THEN "lost" ELSE @[a]]]
                         ELSE task[t]]
       \/ UNCHANGED <<disk, task>>
    /\ UNCHANGED <<store, tokens, cancelled>>

-----------------------------------------------------------------------------
(* handle_apply_stored_firmware_object: the row read here is what the      *)
(* spawned apply works from.                                               *)
ApplyLookup(r) ==
    /\ Arrives(r)
    /\ \E id \in Ids :
          /\ Exists(id) /\ catalog[id].available
          /\ req' = [req EXCEPT ![r] = [New EXCEPT !.pc = "resolve", !.op = "apply",
                                                   !.id = id, !.row = catalog[id]]]
    /\ UNCHANGED <<store, task, tokens, cancelled, disk>>

\* Mutant of LoadStored: the revision of the manifest is not compared.
LoadStoredAnyRevision(row) == row.parsed.state = "ready" /\ row.available

\* load_stored
LoadStored(row) ==
    /\ row.parsed.state = "ready" /\ row.available
    /\ row.parsed.manifest = row.config

\* prepare_firmware_apply: the paths are those of the manifest in the row.
ApplyResolve(r) ==
    LET q == req[r] IN
    /\ q.pc = "resolve"
    /\ \/ /\ LoadStored(q.row)
          /\ \E selected \in SUBSET Artifacts \ {{}} :
                /\ selected \subseteq q.row.parsed.ready
                /\ {q.row.config} \X selected \subseteq files[q.id]
                /\ req' = [req EXCEPT ![r].pc = "jobs",
                                      ![r].uses = {q.row.config} \X selected]
       \/ Answer(r)                        \* the selection, or the cache, fails
    /\ UNCHANGED <<store, task, tokens, cancelled, disk>>

\* The jobs read their files now.  A file that is gone fails the job.
ApplyJobs(r) ==
    LET q == req[r] IN
    /\ q.pc = "jobs"
    /\ \/ q.uses \subseteq files[q.id] /\ Step(r, "record")
       \/ Answer(r)
    /\ UNCHANGED <<store, task, tokens, cancelled, disk>>

\* record_completed_apply
ApplyRecord(r) ==
    LET q == req[r] IN
    /\ q.pc = "record"
    /\ RecordApplyForIncarnation(q.id, q.row.created) \/ UNCHANGED store
    /\ Answer(r)
    /\ UNCHANGED <<task, tokens, cancelled, disk>>

\* handle_set_default_firmware_object
SetDefaultObject(r) ==
    /\ Arrives(r)
    /\ \E id \in Ids : SetDefault(id)
    /\ Answer(r)
    /\ UNCHANGED <<task, tokens, cancelled, disk>>

-----------------------------------------------------------------------------
\* The service restarts: requests, tasks and tokens are gone, rows and files
\* stay, and reap_firmware_temp_files removes the temporary files.
Restart ==
    /\ req' = [r \in Requests |-> IF req[r].pc = "new" THEN New ELSE Over]
    /\ task' = [r \in Requests |-> NoTask]
    /\ tokens' = [id \in Ids |-> None]
    /\ cancelled' = {}
    /\ UNCHANGED <<store, disk>>

Handle(r) ==
    \/ AddCreate(r) \/ AddDefault(r) \/ AddRegister(r)
    \/ DeleteTake(r) \/ DeleteCancel(r) \/ DeleteRow(r) \/ DeleteDir(r)
    \/ ApplyLookup(r) \/ ApplyResolve(r) \/ ApplyJobs(r) \/ ApplyRecord(r)
    \/ SetDefaultObject(r)

Next == Restart \/ \E r \in Requests : Handle(r) \/ Prepare(r)

Spec == Init /\ [][Next]_vars

-----------------------------------------------------------------------------
(* An object is marked available only with every required artifact of the  *)
(* catalog in its cache directory (materialize, finish_preparation), and   *)
(* the files stay until a delete, or a second task in the same directory   *)
(* that finds one invalid (cached_firmware_file_valid), removes them.      *)
AvailableIsCached ==
    \A id \in DOMAIN catalog :
        LET row == catalog[id] IN
        row.available /\ row.created \notin swept =>
            /\ row.parsed.state = "ready"
            /\ Required[row.parsed.manifest] \subseteq row.parsed.ready
            /\ {row.parsed.manifest} \X row.parsed.ready \subseteq files[id]

(* The jobs of an apply work with artifacts that were prepared from the    *)
(* manifest of the row, whatever was deleted, added again and published    *)
(* meanwhile (load_stored).                                                *)
AppliesOwnArtifacts ==
    \A r \in Requests :
        req[r].pc \in {"jobs", "record"} =>
            /\ req[r].row.parsed.manifest = req[r].row.config
            /\ req[r].uses \subseteq {req[r].row.parsed.manifest} \X req[r].row.parsed.ready

(* What spawn_catalog_preparation says: "A cancelled/deleted incarnation   *)
(* must never publish into a new one."                                     *)
PublishedByOwnAdd ==
    \A id \in DOMAIN catalog : catalog[id].parsed.manifest = catalog[id].config

(* What the firmware guide says of an available object: its applies "read  *)
(* from that cache".                                                       *)
AvailableStaysCached ==
    \A id \in DOMAIN catalog :
        catalog[id].available =>
            {catalog[id].parsed.manifest} \X catalog[id].parsed.ready \subseteq files[id]

(* What the firmware guide says of DeleteFirmwareObject: "Remove an entry, *)
(* its on-disk cache, and any in-flight download."                         *)
DeleteStopsDownload ==
    \A t \in Requests :
        task[t].pc = "run" /\ t \notin cancelled /\ ~IsCurrent(task[t].id, task[t].created)
        => \E r \in Requests : req[r].pc \in {"cancel", "row", "dir"}
=============================================================================
