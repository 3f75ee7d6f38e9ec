--------------------------- MODULE JobSupervision ---------------------------
(***************************************************************************)
(* The tasks of jobs and graceful shutdown: JobHandle and spawn_job_inner  *)
(* (orchestrator/job_lifecycle/handle.rs), the registry's task map and     *)
(* shutdown flag (registry.rs), and shutdown_and_await_terminal            *)
(* (orchestrator/job_tracker.rs).                                          *)
(*                                                                         *)
(* The flag is an atomic outside the registry's lock: a creation reads it  *)
(* with the write lock held, a spawn reads it after registering its task.  *)
(* A leaf job has a worker task, gated until its registration is known,    *)
(* and a supervisor task that runs the cleanup plan and then unregisters.  *)
(* An aborted task ends at its next await, which may never come.  Every    *)
(* wait of the shutdown is bounded, so it may give up at any time.         *)
(***************************************************************************)
EXTENDS Naturals, FiniteSets

CONSTANTS
    Leaves,                 \* jobs with a worker
    Parents,                \* jobs whose handle the tracker keeps
    None

ASSUME SupervisionAssumption ==
    Leaves \cap Parents = {} /\ None \notin Leaves \cup Parents

TrackedJobs == Leaves \cup Parents

VARIABLES
    record,                 \* "absent", "Live", "Ended", "Shutdown", "Dropped"
    cancelled,              \* jobs whose token is cancelled
    lock,                   \* the creation that holds the write lock, or None
    holder,                 \* who owns the JobHandle
    worker,                 \* "none", "gated", "running", "finished"
    supervisor,             \* "none", "waiting", "cleanup", "done"
    spawner,                \* where spawn_job_inner is: "none", "spawned", ...
    tasks,                  \* jobs registered in the task map
    aborted,                \* [workers, supervisors]: abort() was called
    shutdown                \* [pc, flag, ids, taskIds]

jobVars == <<record, cancelled, lock, holder>>
taskVars == <<worker, supervisor, spawner, tasks, aborted>>
trackerVars == <<record, cancelled, lock, holder, worker, supervisor, spawner,
                 tasks, aborted, shutdown>>

Final == {"Ended", "Shutdown", "Dropped"}

(* Types; every live record has an owner, or its worker is between tasks.  *)
TrackerTypeOK ==
    /\ record \in [TrackedJobs -> {"absent", "Live"} \cup Final]
    /\ cancelled \subseteq TrackedJobs
    /\ lock \in TrackedJobs \cup {None}
    /\ holder \in [TrackedJobs -> {"none", "caller", "tracker", "worker"}]
    /\ worker \in [Leaves -> {"none", "gated", "running", "finished"}]
    /\ supervisor \in [Leaves -> {"none", "waiting", "cleanup", "done"}]
    /\ spawner \in [Leaves -> {"none", "spawned", "registered", "open", "done",
                              "refused"}]
    /\ tasks \subseteq Leaves
    /\ aborted \in [workers: SUBSET Leaves, supervisors: SUBSET Leaves]
    /\ shutdown.pc \in {"up", "begun", "cancelled", "waiting", "aborting",
                        "draining", "parents", "sweep", "fail", "returned"}
    /\ shutdown.flag \in BOOLEAN
    /\ shutdown.ids \subseteq TrackedJobs /\ shutdown.taskIds \subseteq Leaves
    /\ \A j \in TrackedJobs : record[j] = "Live" => holder[j] # "none"

TrackerInit ==
    /\ record = [j \in TrackedJobs |-> "absent"]
    /\ cancelled = {}
    /\ lock = None
    /\ holder = [j \in TrackedJobs |-> "none"]
    /\ worker = [j \in Leaves |-> "none"]
    /\ supervisor = [j \in Leaves |-> "none"]
    /\ spawner = [j \in Leaves |-> "none"]
    /\ tasks = {}
    /\ aborted = [workers |-> {}, supervisors |-> {}]
    /\ shutdown = [pc |-> "up", flag |-> FALSE, ids |-> {}, taskIds |-> {}]

-----------------------------------------------------------------------------
(* create_job_with_scopes: the flag is read under the write lock; the      *)
(* record appears before the lock is released.                             *)
Absent(j) == record[j] = "absent" /\ holder[j] = "none"

BeginCreate(j) ==
    /\ Absent(j)
    /\ lock = None
    /\ ~shutdown.flag
    /\ lock' = j
    /\ UNCHANGED <<record, cancelled, holder, taskVars, shutdown>>

EndCreate(j) ==
    /\ lock = j
    /\ lock' = None
    /\ record' = [record EXCEPT ![j] = "Live"]
    /\ holder' = [holder EXCEPT ![j] = "caller"]
    /\ UNCHANGED <<cancelled, taskVars, shutdown>>

(* create_parent_job moves the handle into the tracker's map; aggregation  *)
(* consumes it there.                                                      *)
KeepParentHandle(p) ==
    /\ holder[p] = "caller"
    /\ holder' = [holder EXCEPT ![p] = "tracker"]
    /\ UNCHANGED <<record, cancelled, lock, taskVars, shutdown>>

(* The record's only way to a final state; a second one changes nothing.   *)
Finalise(js, s) ==
    record' = [j \in TrackedJobs |->
                  IF j \in js /\ record[j] = "Live" THEN s ELSE record[j]]

(* complete or fail consumes the handle.                                   *)
Consume(j) ==
    /\ Finalise({j}, "Ended")
    /\ holder' = [holder EXCEPT ![j] = "none"]
    /\ UNCHANGED <<cancelled, lock>>

(* JobHandle's Drop.                                                       *)
Drop(j) ==
    /\ Finalise({j}, IF j \in cancelled THEN "Shutdown" ELSE "Dropped")
    /\ holder' = [holder EXCEPT ![j] = "none"]
    /\ UNCHANGED <<cancelled, lock>>

(* A request ends, or drops, a job it has not spawned; the tracker seals a *)
(* parent.                                                                 *)
EndUnspawned(j) ==
    /\ \/ holder[j] \in {"caller", "tracker"} /\ Consume(j)
       \/ holder[j] = "caller" /\ Drop(j)
    /\ UNCHANGED <<taskVars, shutdown>>

-----------------------------------------------------------------------------
(* spawn_job_inner: both tasks, the registration, the flag, the gate.      *)
SpawnTasks(j) ==
    /\ holder[j] = "caller"
    /\ holder' = [holder EXCEPT ![j] = "worker"]
    /\ worker' = [worker EXCEPT ![j] = "gated"]
    /\ supervisor' = [supervisor EXCEPT ![j] = "waiting"]
    /\ spawner' = [spawner EXCEPT ![j] = "spawned"]
    /\ UNCHANGED <<record, cancelled, lock, tasks, aborted, shutdown>>

(* register_task: insert, then load the flag.  Faulty variant: the flag    *)
(* read before the insert is trusted.                                      *)
RegisterTask(j) ==
    /\ spawner[j] = "spawned"
    /\ spawner' = [spawner EXCEPT ![j] = "registered"]
    /\ tasks' = tasks \cup {j}
    /\ UNCHANGED <<jobVars, worker, supervisor, aborted, shutdown>>

LoadFlag(j) ==
    /\ spawner[j] = "registered"
    /\ ~shutdown.flag
    /\ spawner' = [spawner EXCEPT ![j] = "open"]
    /\ UNCHANGED <<jobVars, worker, supervisor, tasks, aborted, shutdown>>

OpenGate(j) ==
    /\ spawner[j] = "open"
    /\ spawner' = [spawner EXCEPT ![j] = "done"]
    /\ worker' = [worker EXCEPT ![j] = IF @ = "gated" THEN "running" ELSE @]
    /\ UNCHANGED <<jobVars, supervisor, tasks, aborted, shutdown>>

(* Admission closed first: the worker never starts.                        *)
RefuseStart(j) ==
    /\ spawner[j] = "registered"
    /\ shutdown.flag
    /\ spawner' = [spawner EXCEPT ![j] = "refused"]
    /\ cancelled' = cancelled \cup {j}
    /\ aborted' = [aborted EXCEPT !.workers = @ \cup {j}]
    /\ UNCHANGED <<record, lock, holder, worker, supervisor, tasks, shutdown>>

-----------------------------------------------------------------------------
(* The worker consumes its handle, drops it unfinished (a panic or an      *)
(* early return), or is aborted.                                           *)
EndWork(j) ==
    /\ \/ worker[j] = "running" /\ (Consume(j) \/ Drop(j))
       \/ worker[j] \in {"gated", "running"} /\ j \in aborted.workers /\ Drop(j)
    /\ worker' = [worker EXCEPT ![j] = "finished"]
    /\ UNCHANGED <<supervisor, spawner, tasks, aborted, shutdown>>

(* The supervisor sees the worker's end, cleans up, and unregisters by     *)
(* dropping its TaskRegistration, as it does when aborted.                  *)
BeginCleanup(j) ==
    /\ supervisor[j] = "waiting" /\ worker[j] = "finished"
    /\ supervisor' = [supervisor EXCEPT ![j] = "cleanup"]
    /\ UNCHANGED <<jobVars, worker, spawner, tasks, aborted, shutdown>>

EndSupervisor(j) ==
    /\ \/ supervisor[j] = "cleanup"
       \/ supervisor[j] = "waiting" /\ j \in aborted.supervisors
    /\ supervisor' = [supervisor EXCEPT ![j] = "done"]
    /\ tasks' = tasks \ {j}
    /\ UNCHANGED <<jobVars, worker, spawner, aborted, shutdown>>

-----------------------------------------------------------------------------
(* shutdown_and_await_terminal.                                            *)
Step(from, to) == shutdown.pc = from /\ shutdown' = [shutdown EXCEPT !.pc = to]

BeginShutdown ==
    /\ shutdown.pc = "up"
    /\ shutdown' = [shutdown EXCEPT !.pc = "begun", !.flag = TRUE]
    /\ UNCHANGED <<jobVars, taskVars>>

(* cancel_active_leaves, under the read lock.  A parent that has no child  *)
(* yet counts as a leaf.                                                   *)
CancelActiveLeaves(childless) ==
    /\ shutdown.pc = "begun"
    /\ lock = None
    /\ shutdown' = [shutdown EXCEPT !.pc = "cancelled",
            !.ids = {j \in Leaves \cup childless : record[j] = "Live"}]
    /\ cancelled' = cancelled \cup shutdown'.ids
    /\ UNCHANGED <<record, lock, holder, taskVars>>

(* The wait for the cancelled jobs is over, in time or not.                *)
SnapshotTasks ==
    /\ shutdown.pc = "cancelled"
    /\ shutdown' = [shutdown EXCEPT !.pc = "waiting", !.taskIds = tasks]
    /\ UNCHANGED <<jobVars, taskVars>>

Remaining == shutdown.taskIds \cap tasks

(* wait_for_tasks succeeds, at whichever of the three waits.               *)
TasksDrained ==
    /\ shutdown.pc \in {"waiting", "aborting", "draining"}
    /\ Remaining = {}
    /\ shutdown' = [shutdown EXCEPT !.pc = "parents"]
    /\ UNCHANGED <<jobVars, taskVars>>

AbortWorkers ==
    /\ Step("waiting", "aborting")
    /\ Remaining # {}
    /\ aborted' = [aborted EXCEPT !.workers = @ \cup Remaining]
    /\ UNCHANGED <<jobVars, worker, supervisor, spawner, tasks>>

(* Supervisors are aborted only once no worker is left.                    *)
AbortSupervisors ==
    /\ Step("aborting", "draining")
    /\ Remaining # {}
    /\ \A j \in Remaining : worker[j] = "finished"
    /\ aborted' = [aborted EXCEPT !.supervisors = @ \cup Remaining]
    /\ UNCHANGED <<jobVars, worker, supervisor, spawner, tasks>>

(* A worker that does not stop, or a supervisor that does not: give up.    *)
(* Faulty variant: aborted workers are waited for without a limit.         *)
GiveUpOnCleanup ==
    /\ shutdown.pc = "draining" /\ Remaining # {}
    /\ shutdown' = [shutdown EXCEPT !.pc = "parents"]
    /\ UNCHANGED <<jobVars, taskVars>>

GiveUp ==
    /\ \/ shutdown.pc = "aborting" /\ \E j \in Remaining : worker[j] # "finished"
       \/ shutdown.pc = "draining" /\ Remaining # {}
    /\ shutdown' = [shutdown EXCEPT !.pc = "parents"]
    /\ UNCHANGED <<jobVars, taskVars>>

(* fail_remaining_parents_for_shutdown.                                    *)
FailParents ==
    LET kept == {p \in Parents : holder[p] = "tracker"}
    IN  /\ Step("parents", "sweep")
        /\ Finalise(kept, "Shutdown")
        /\ holder' = [j \in TrackedJobs |-> IF j \in kept THEN "none" ELSE holder[j]]
        /\ UNCHANGED <<cancelled, lock, taskVars>>

(* non_terminal_job_ids, then fail_non_terminal_for_shutdown.  Faulty      *)
(* variant: only the jobs cancelled at the start are failed.               *)
SnapshotCancelled ==
    /\ Step("sweep", "fail")
    /\ UNCHANGED <<jobVars, taskVars>>

SnapshotLive ==
    /\ shutdown.pc = "sweep"
    /\ lock = None
    /\ shutdown' = [shutdown EXCEPT !.pc = "fail",
                                    !.ids = {j \in TrackedJobs : record[j] = "Live"}]
    /\ UNCHANGED <<jobVars, taskVars>>

FailRemaining ==
    /\ Step("fail", "returned")
    /\ Finalise(shutdown.ids, "Shutdown")
    /\ UNCHANGED <<cancelled, lock, holder, taskVars>>

-----------------------------------------------------------------------------
ShutdownStep ==
    \/ \E childless \in SUBSET Parents : CancelActiveLeaves(childless)
    \/ SnapshotTasks \/ TasksDrained \/ AbortWorkers \/ AbortSupervisors \/ GiveUp
    \/ FailParents \/ SnapshotLive \/ FailRemaining

TrackerNext ==
    \/ \E j \in TrackedJobs : BeginCreate(j) \/ EndCreate(j) \/ EndUnspawned(j)
    \/ \E p \in Parents : KeepParentHandle(p)
    \/ \E j \in Leaves :
        \/ SpawnTasks(j) \/ RegisterTask(j) \/ LoadFlag(j) \/ OpenGate(j)
        \/ RefuseStart(j) \/ EndWork(j) \/ BeginCleanup(j) \/ EndSupervisor(j)
    \/ BeginShutdown
    \/ ShutdownStep

(* The shutdown's task is polled and its waits are timed; a thread in the  *)
(* registry's critical section leaves it.                                  *)
Fairness ==
    /\ WF_trackerVars(ShutdownStep)
    /\ \A j \in TrackedJobs : WF_trackerVars(EndCreate(j))

TrackerSpec == TrackerInit /\ [][TrackerNext]_trackerVars /\ Fairness

-----------------------------------------------------------------------------
(* When the shutdown returns no tracked job is unfinished, and none is     *)
(* ever created after that, though the flag is set without the lock: the   *)
(* last sweep misses no creation that had passed the check.                *)
AllFinalOnReturn ==
    shutdown.pc = "returned" => \A j \in TrackedJobs : record[j] # "Live" /\ lock # j

(* New work cannot escape the cancellation snapshot, as the comment on     *)
(* shutdown says: from then on every live leaf has a cancelled token.      *)
NothingEscapesCancellation ==
    shutdown.pc \notin {"up", "begun"} =>
        \A j \in Leaves : record[j] = "Live" => j \in cancelled

(* Every worker that runs is in the task map, and after the snapshot of    *)
(* the map in the snapshot, so the forced phase reaches it.                *)
RunningIsTracked ==
    \A j \in Leaves : worker[j] = "running" =>
        /\ j \in tasks
        /\ shutdown.pc \notin {"up", "begun", "cancelled"} => j \in shutdown.taskIds

(* A cleanup is cut short, or skipped, only after its worker has stopped   *)
(* using what is to be cleaned.                                            *)
SupervisorOutlivesWorker ==
    \A j \in Leaves : supervisor[j] = "done" => worker[j] = "finished"

(* While a worker may still act on its devices its record, and with it its *)
(* aliases, stays; only the last sweep of the shutdown ends the record of  *)
(* a worker that would not stop, and then nothing else is admitted.        *)
WorkerKeepsRecord ==
    \A j \in Leaves : holder[j] = "worker" /\ record[j] # "Live"
        => shutdown.pc = "returned"

(* What a shutdown may rely on at each of its steps, the races of its flag *)
(* with creations and spawns included.                                     *)
ShutdownSound ==
    /\ TrackerTypeOK
    /\ AllFinalOnReturn /\ NothingEscapesCancellation /\ RunningIsTracked
    /\ SupervisorOutlivesWorker /\ WorkerKeepsRecord

(* The shutdown always returns, whatever workers and cleanups do.          *)
ShutdownReturns == shutdown.flag ~> shutdown.pc = "returned"

=============================================================================
