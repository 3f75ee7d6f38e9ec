---------------------------- MODULE DellForceUpdate ----------------------------
(***************************************************************************)
(* The Dell GB200 compute adapter and the one device-wide BMC setting it   *)
(* borrows for an upload (nodes/compute_gb200_dell/mod.rs).  AMI firmware  *)
(* takes "reflash even when the image is identical" from the persistent    *)
(* UpdateService option ForceUpdate, so an upload reads the option, sets   *)
(* it, uploads, and puts the value it read back once the BMC task is over. *)
(* The adapter remembers the borrowed value in `pending_update`; every     *)
(* step of the hand-back is an HTTP call that can fail.                    *)
(*                                                                         *)
(* One job at a time works on a tray (the job registry sees to that).  A   *)
(* request by node list builds an adapter for its own job and drops it at  *)
(* the end; a request for a registered node uses the rack's adapter, which *)
(* lives on.  A PATCH that has returned, with or without an error, has     *)
(* taken effect or never will.                                             *)
(***************************************************************************)
EXTENDS Naturals

CONSTANTS
    MaxJobs,        \* bound: jobs that work on the tray, one after another
    MaxUploads,     \* bound: uploads of one job
    Registered,     \* whether the tray is a registered node: the values to check, a subset of BOOLEAN
    MaxUnreadable,  \* MAX_UNREADABLE_TASK_POLLS
    Faults,         \* of {"crash", "lost_answer"}: the process dies; the answer to an upload is lost
    None            \* no task, no pending update

VARIABLES
    job,        \* the running job: n, pc, ret, reflash, uploads
    adapter,    \* its adapter: registered or not, and the force it found when it was built
    cancelled,  \* its cancellation token
    pending,    \* the adapter's pending_update
    dev         \* the BMC: force, the live update tasks, the next task id

vars == <<job, adapter, cancelled, pending, dev>>

Steps == {"ready", "task", "read", "patch", "verify", "prepare", "set", "set_verify",
          "upload", "poll", "failed", "ended"}
Returns == {"prepare", "undo", "settle", "polled_ok", "polled_err", "finish_ok", "finish_err"}
Jobs == [n: Nat, pc: Steps, ret: Returns, reflash: BOOLEAN, uploads: Nat]
Updates == [task: Nat \cup {None}, original: BOOLEAN, terminal: BOOLEAN,
            polls: Nat, since: {"none", "recent", "old"}]

ASSUME DellAssumption ==
    /\ MaxJobs \in Nat \ {0} /\ MaxUploads \in Nat \ {0}
    /\ MaxUnreadable \in Nat \ {0, 1}
    /\ Registered \subseteq BOOLEAN
    /\ Faults \subseteq {"crash", "lost_answer"}
    /\ None \notin Nat \cup Updates

TypeOK ==
    /\ job \in Jobs
    /\ adapter \in [registered: BOOLEAN, found: BOOLEAN]
    /\ cancelled \in BOOLEAN
    /\ pending \in Updates \cup {None}
    /\ dev \in [force: BOOLEAN, live: SUBSET Nat, next: Nat]

NewJob(n) == [n |-> n, pc |-> "ready", ret |-> "prepare", reflash |-> FALSE, uploads |-> 0]

\* The operator's value is FALSE: the option forces a reflash only while it is borrowed.
Init ==
    /\ job = NewJob(1)
    /\ adapter \in [registered: Registered, found: {FALSE}]
    /\ cancelled = FALSE
    /\ pending = None
    /\ dev = [force |-> FALSE, live |-> {}, next |-> 1]

------------------------------------------------------------------------------
(* restore_force_update, under the adapter's mutex.  `ret` says who called it. *)

Goto(pc) == job' = [job EXCEPT !.pc = pc]

\* Where the caller goes on.  After a poll that found the task over, finish()
\* calls restore again while the update is still pending.
After(ret, ok, p) ==
    CASE ret = "prepare"    -> [pc |-> IF ok THEN "prepare" ELSE "failed", ret |-> "prepare"]
      [] ret = "undo"       -> [pc |-> "failed", ret |-> "prepare"]
      [] ret = "settle"     -> [pc |-> IF ok THEN "ready" ELSE "failed", ret |-> "prepare"]
      [] ret = "polled_ok"  -> [pc |-> IF p = None THEN "ready" ELSE "read", ret |-> "finish_ok"]
      [] ret = "polled_err" -> [pc |-> IF p = None THEN "failed" ELSE "read", ret |-> "finish_err"]
      [] ret = "finish_ok"  -> [pc |-> "ready", ret |-> "prepare"]
      [] ret = "finish_err" -> [pc |-> "failed", ret |-> "prepare"]

Return(ok, p) ==
    LET to == After(job.ret, ok, p) IN job' = [job EXCEPT !.pc = to.pc, !.ret = to.ret]

\* Entering restore: nothing pending returns at once; a recorded task that is
\* not known to be over is read first.
Restore(j, ret, p) ==
    IF p = None
    THEN LET to == After(ret, TRUE, p) IN [j EXCEPT !.pc = to.pc, !.ret = to.ret]
    ELSE [j EXCEPT !.pc = IF p.task # None /\ ~p.terminal THEN "task" ELSE "read", !.ret = ret]

\* Mutant of RestoreFails.
RestoreFailsForgetting == pending' = None /\ Return(FALSE, None)

\* The saved value is kept when the hand-back fails.
RestoreFails == UNCHANGED pending /\ Return(FALSE, pending)

Unreadable(p) == [p EXCEPT !.polls = IF @ < MaxUnreadable THEN @ + 1 ELSE @,
                           !.since = IF @ = "none" THEN "recent" ELSE @]

\* Mutant of GivenUp: the grace is not waited for.
GivenUpByCount(p) == p.polls >= MaxUnreadable

GivenUp(p) == p.polls >= MaxUnreadable /\ p.since = "old"

\* The task read: over, still running, or unreadable.
RestoreTask ==
    /\ job.pc = "task"
    /\ UNCHANGED <<adapter, cancelled, dev>>
    /\ \/ /\ pending.task \notin dev.live
          /\ pending' = [pending EXCEPT !.polls = 0, !.since = "none", !.terminal = TRUE]
          /\ Goto("read")
       \/ /\ pending.task \in dev.live
          /\ pending' = [pending EXCEPT !.polls = 0, !.since = "none"]
          /\ Return(FALSE, pending)
       \/ LET p == Unreadable(pending) IN
            IF GivenUp(p)
            THEN pending' = [p EXCEPT !.terminal = TRUE] /\ Goto("read")
            ELSE pending' = p /\ Return(FALSE, p)

\* The grace period since the first of the failed reads runs out.
GraceElapses ==
    /\ pending # None /\ pending.since = "recent"
    /\ pending' = [pending EXCEPT !.since = "old"]
    /\ UNCHANGED <<job, adapter, cancelled, dev>>

\* read_force_update, then set_force_update when the value differs.
RestoreRead ==
    /\ job.pc = "read"
    /\ UNCHANGED <<adapter, cancelled, dev>>
    /\ \/ RestoreFails
       \/ dev.force # pending.original /\ Goto("patch") /\ UNCHANGED pending
       \/ dev.force = pending.original /\ pending' = None /\ Return(TRUE, None)

\* set_force_update: a PATCH that may be lost, refused or applied, answered or not ...
Patch(value) ==
    \E applied \in BOOLEAN : dev' = [dev EXCEPT !.force = IF applied THEN value ELSE @]

RestorePatch ==
    /\ job.pc = "patch"
    /\ Patch(pending.original)
    /\ UNCHANGED <<adapter, cancelled>>
    /\ RestoreFails \/ (Goto("verify") /\ UNCHANGED pending)

\* ... and a read-back that must show the new value.
RestoreVerify ==
    /\ job.pc = "verify"
    /\ UNCHANGED <<adapter, cancelled, dev>>
    /\ \/ RestoreFails
       \/ dev.force = pending.original /\ pending' = None /\ Return(TRUE, None)

------------------------------------------------------------------------------
(* update_firmware *)

\* The entry: a cancelled job stops, otherwise the previous update is settled first.
UpdateFirmware(reflash) ==
    /\ job.pc = "ready" /\ job.uploads < MaxUploads
    /\ LET j == [job EXCEPT !.uploads = @ + 1, !.reflash = reflash] IN
         job' = IF cancelled THEN [j EXCEPT !.pc = "failed"] ELSE Restore(j, "prepare", pending)
    /\ UNCHANGED <<adapter, cancelled, pending, dev>>

Borrowed == [task |-> None, original |-> dev.force, terminal |-> FALSE, polls |-> 0, since |-> "none"]

\* A host BMC that has the version is skipped; the settings are read and the
\* value remembered before the first write.
Prepare ==
    /\ job.pc = "prepare"
    /\ UNCHANGED <<adapter, cancelled, dev>>
    /\ \/ ~job.reflash /\ Goto("ready") /\ UNCHANGED pending
       \/ Goto("failed") /\ UNCHANGED pending
       \/ /\ ~cancelled
          /\ pending' = Borrowed
          /\ Goto(IF dev.force # job.reflash THEN "set" ELSE "upload")

Undo == job' = Restore(job, "undo", pending)

SetForce ==
    /\ job.pc = "set"
    /\ Patch(job.reflash)
    /\ Undo \/ Goto("set_verify")
    /\ UNCHANGED <<adapter, cancelled, pending>>

SetForceVerify ==
    /\ job.pc = "set_verify"
    /\ Undo \/ (dev.force = job.reflash /\ Goto("upload"))
    /\ UNCHANGED <<adapter, cancelled, pending, dev>>

Accepted == [dev EXCEPT !.live = @ \cup {dev.next}, !.next = @ + 1]

\* The upload, after the last cancellation check: started, over without a task,
\* or failed, in which case the BMC may have begun a task nobody knows of.
Upload ==
    /\ job.pc = "upload"
    /\ UNCHANGED <<adapter, cancelled>>
    /\ \/ /\ cancelled
          /\ Undo /\ UNCHANGED <<pending, dev>>
       \/ /\ ~cancelled
          /\ dev' = Accepted
          /\ pending' = [pending EXCEPT !.task = dev.next]
          /\ Goto("poll")
       \/ /\ ~cancelled
          /\ job' = Restore(job, "settle", pending)
          /\ UNCHANGED <<pending, dev>>
       \/ /\ ~cancelled
          /\ Undo /\ UNCHANGED pending
          /\ \/ UNCHANGED dev
             \/ "lost_answer" \in Faults /\ dev' = Accepted

\* poll_firmware_task: a task that is over (well or badly) is marked and the setting restored;
\* a cancelled or expired poll loop goes straight to finish().
Poll ==
    /\ job.pc = "poll"
    /\ UNCHANGED <<adapter, cancelled, dev>>
    /\ \/ /\ pending.task \notin dev.live
          /\ pending' = [pending EXCEPT !.terminal = TRUE]
          /\ \E ret \in {"polled_ok", "polled_err"} : job' = Restore(job, ret, pending')
       \/ job' = Restore(job, "finish_err", pending) /\ UNCHANGED pending

------------------------------------------------------------------------------
Cancel ==
    /\ ~cancelled /\ job.pc # "ended"
    /\ cancelled' = TRUE
    /\ UNCHANGED <<job, adapter, pending, dev>>

\* The job is over; a node built for it is dropped with what it remembers.
JobEnds ==
    /\ job.pc \in {"ready", "failed"}
    /\ Goto("ended")
    /\ pending' = IF adapter.registered THEN pending ELSE None
    /\ UNCHANGED <<adapter, cancelled, dev>>

\* The process dies and comes back with a new adapter.
Crash ==
    /\ "crash" \in Faults /\ job.pc # "ended"
    /\ Goto("ended")
    /\ pending' = None
    /\ adapter' = [adapter EXCEPT !.found = dev.force]
    /\ UNCHANGED <<cancelled, dev>>

NextJob ==
    /\ job.pc = "ended" /\ job.n < MaxJobs
    /\ job' = NewJob(job.n + 1)
    /\ adapter' = [adapter EXCEPT !.found = IF adapter.registered THEN @ ELSE dev.force]
    /\ cancelled' = FALSE
    /\ UNCHANGED <<pending, dev>>

\* The BMC finishes a task.
TaskEnds ==
    \E t \in dev.live : /\ dev' = [dev EXCEPT !.live = @ \ {t}]
                        /\ UNCHANGED <<job, adapter, cancelled, pending>>

Next ==
    \/ \E reflash \in BOOLEAN : UpdateFirmware(reflash)
    \/ RestoreTask \/ RestoreRead \/ RestorePatch \/ RestoreVerify \/ GraceElapses
    \/ Prepare \/ SetForce \/ SetForceVerify \/ Upload \/ Poll
    \/ Cancel \/ JobEnds \/ Crash \/ NextJob \/ TaskEnds

Spec == Init /\ [][Next]_vars

------------------------------------------------------------------------------
\* While an adapter lives, the option has the value it found, or the adapter
\* still remembers that value and so can put it back: no failed call of the
\* hand-back, and no job's end on a registered node, loses it (restore_force_update, "Keep the saved value on failure
\* so cleanup can be retried").
Accounted ==
    adapter.registered \/ job.pc # "ended" =>
        \/ dev.force = adapter.found
        \/ pending # None /\ pending.original = adapter.found

\* The adapter changes the option while the task it recorded still runs only
\* after MAX_UNREADABLE_TASK_POLLS consecutive failed reads that span the grace
\* period ("quick retries while the BMC reboots must not restore the setting
\* under a live task").
UnchangedUnderTask ==
    [][dev'.force # dev.force /\ pending # None /\ pending.task \in dev.live
        => pending.polls >= MaxUnreadable /\ pending.since = "old"]_vars

\* The comment in update_firmware: "A prior task must finish before another
\* upload can change it."  No task of an earlier upload runs while an upload
\* sets the option.
PriorTaskFinished ==
    [][job.pc = "set" /\ dev'.force # dev.force => dev.live = {}]_vars

\* The comment in finish_firmware_task: "The adapter keeps the pending setting
\* and retries before its next upload."  So an upload always remembers the
\* operator's value, never a value an earlier upload left behind.
RetriedBeforeUpload == pending # None => pending.original = FALSE
=============================================================================
