----------------------------- MODULE OobRecovery -----------------------------
(***************************************************************************)
(* The out-of-band recovery flow of a GB200 compute tray                   *)
(* (nodes/compute_gb200_nvidia/recovery.rs), run by a firmware update job  *)
(* before its first stage (dispatch_compute_oob_recovery): components that *)
(* report the recovery signature get the regular bundle, one push and one  *)
(* power block per round, or the recovery bundle in one push; then the     *)
(* inventory is read until every touched component is healthy.             *)
(*                                                                         *)
(* Jobs work on the tray one after another.  A job that gives up leaves    *)
(* the BMC's task to itself, so the next job may meet it still running.    *)
(***************************************************************************)
EXTENDS Naturals, FiniteSets

CONSTANTS
    PushThenCycle,   \* the roster's list recovered with the regular bundle
    PushOnly,        \* the roster's list recovered with the recovery bundle; they are disjoint
    Behind,          \* Behind[c]: the members c can report only through
    ConfirmRetries,  \* CONFIRM_RETRIES
    MaxPolls,        \* RECOVERY_PUSH_TASK_TIMEOUT in task reads
    MaxJobs          \* bound: jobs on the tray

Watched == PushThenCycle \cup PushOnly

VARIABLES
    run,        \* the flow of the running job
    cancelled,  \* its cancellation token
    dev         \* the tray: component states, images that wait for a cycle, the update task

vars == <<run, cancelled, dev>>

Over == {"recovered", "skipped", "failed", "cancelled"}
States == {"ok", "recovery", "updating"}

TypeOK ==
    /\ run \in [job: 1..MaxJobs,
                pc: Over \cup {"detect", "round", "wait_cycle", "block", "reread",
                               "push_only", "wait_only", "confirm"},
                still: SUBSET PushThenCycle, only: SUBSET PushOnly, to_confirm: SUBSET Watched,
                rounds: 0..Cardinality(PushThenCycle), polls: 0..MaxPolls,
                reads: 0..ConfirmRetries, seen: SUBSET Watched]
    /\ cancelled \in BOOLEAN
    /\ dev \in [st: [Watched -> States], staged: SUBSET PushThenCycle,
                task: {"none", "regular", "recovery", "failed"}]

NewRun(n) == [job |-> n, pc |-> "detect", still |-> {}, only |-> {}, to_confirm |-> {},
              rounds |-> 0, polls |-> 0, reads |-> 0, seen |-> {}]

Init ==
    /\ run = NewRun(1)
    /\ cancelled = FALSE
    /\ dev \in [st: [Watched -> {"ok", "recovery"}], staged: {{}}, task: {"none"}]

------------------------------------------------------------------------------
(* The inventory, and what the flow reads in it *)

\* A member behind one that does not work is absent from the inventory.
Report(c) == IF \A b \in Behind[c] : dev.st[b] = "ok" THEN dev.st[c] ELSE "absent"

\* components_in_recovery_state: Critical and StandbyOffline.
InRecovery(watched) == {c \in watched : Report(c) = "recovery"}

\* RecoveryPlan::confirm: anything that is not OK and Enabled is in progress.
Healthy(components) == \A c \in components : Report(c) = "ok"

------------------------------------------------------------------------------
(* The flow.  A network call may fail at any step. *)

Goto(pc) == run' = [run EXCEPT !.pc = pc]
Busy == dev.task \in {"regular", "recovery"}

\* Detection fails open: an unreadable inventory reads as an empty one.  The
\* bundles are resolved, then the roster's lists are narrowed to what was found.
Detect ==
    /\ run.pc = "detect"
    /\ UNCHANGED <<cancelled, dev>>
    /\ \/ cancelled /\ Goto("cancelled")
       \/ ~cancelled /\ Goto("skipped")
       \/ ~cancelled /\ InRecovery(Watched) # {} /\ Goto("failed")
       \/ /\ ~cancelled /\ InRecovery(Watched) # {}
          /\ run' = [run EXCEPT !.pc = "round",
                                !.still = InRecovery(PushThenCycle),
                                !.only = InRecovery(PushOnly),
                                !.to_confirm = InRecovery(Watched),
                                !.seen = InRecovery(Watched)]

\* One push: the BMC takes it as a task, is done at once, or the call fails, in
\* which case the BMC may still have taken it.  ~Busy is nvfwupd's look at the
\* task list before it uploads (check_for_running_update_task_by_type): a task of
\* the push's own type that runs fails the push.  Assumed: both bundles make tasks
\* of one type, and a BMC whose list cannot be read, where nvfwupd goes on, does
\* not take a second task either.
Push(kind, wait, done) ==
    \/ ~Busy /\ dev' = [dev EXCEPT !.task = kind] /\ run' = [run EXCEPT !.pc = wait, !.polls = 0]
    \/ ~Busy /\ dev' = [dev EXCEPT !.task = "none"] /\ Goto(done)
    \/ UNCHANGED dev /\ Goto("failed")
    \/ ~Busy /\ dev' = [dev EXCEPT !.task = kind] /\ Goto("failed")

MoreRounds == run.still # {} /\ run.rounds < Cardinality(PushThenCycle)

Round ==
    /\ run.pc = "round"
    /\ UNCHANGED cancelled
    /\ \/ ~MoreRounds /\ Goto("push_only") /\ UNCHANGED dev
       \/ MoreRounds /\ cancelled /\ Goto("cancelled") /\ UNCHANGED dev
       \/ MoreRounds /\ ~cancelled /\ Push("regular", "wait_cycle", "block")

\* Mutant of Expired.
ExpiredGoesOn(next) == Goto(next)

Expired(next) == Goto("failed")

\* wait_for_recovery_task: a task that is over well counts even when cancelled;
\* a cancel wins over a failed task and over the deadline; an unreadable status
\* is read again until the deadline.
Wait(pc, next) ==
    /\ run.pc = pc
    /\ UNCHANGED <<cancelled, dev>>
    /\ \/ dev.task = "none" /\ Goto(next)
       \/ cancelled /\ Goto("cancelled")
       \/ ~cancelled /\ dev.task = "failed" /\ Goto("failed")
       \/ ~cancelled /\ run.polls < MaxPolls /\ run' = [run EXCEPT !.polls = @ + 1]
       \/ ~cancelled /\ run.polls = MaxPolls /\ Expired(next)

\* The power block: the staged images come up, or do not; members that were
\* hidden report.  A failed block may have cycled the tray.
Cycle ==
    \E took \in SUBSET dev.staged, slow \in SUBSET dev.staged :
        dev' = [dev EXCEPT !.staged = {},
                           !.st = [c \in Watched |-> IF c \notin took THEN @[c]
                                                     ELSE IF c \in slow THEN "updating" ELSE "ok"]]

PowerBlock ==
    /\ run.pc = "block"
    /\ UNCHANGED cancelled
    /\ \/ cancelled /\ Goto("cancelled") /\ UNCHANGED dev
       \/ ~cancelled /\ Cycle /\ (Goto("reread") \/ Goto("failed"))
       \/ ~cancelled /\ Goto("failed") /\ UNCHANGED dev

\* Mutant of CountRound.
CountRoundNever(n) == n

CountRound(n) == n + 1

\* Mutant of ToConfirm: a member found in recovery later is not confirmed.
ToConfirmAsPlanned == run.to_confirm

ToConfirm == run.to_confirm \cup InRecovery(PushThenCycle)

\* The re-read after a round: what is (still or newly) in recovery goes into the
\* next round and into the confirm list.
Reread ==
    /\ run.pc = "reread"
    /\ UNCHANGED <<cancelled, dev>>
    /\ \/ Goto(IF cancelled THEN "cancelled" ELSE "failed")
       \/ run' = [run EXCEPT !.pc = "round", !.rounds = CountRound(@),
                             !.still = InRecovery(PushThenCycle),
                             !.to_confirm = ToConfirm,
                             !.seen = @ \cup InRecovery(PushThenCycle)]

RecoveryPush ==
    /\ run.pc = "push_only"
    /\ UNCHANGED cancelled
    /\ \/ cancelled /\ Goto("cancelled") /\ UNCHANGED dev
       \/ ~cancelled /\ run.only = {} /\ Goto("confirm") /\ UNCHANGED dev
       \/ ~cancelled /\ run.only # {} /\ Push("recovery", "wait_only", "confirm")

\* One read of the closing confirm: a healthy reading wins over a cancel, an
\* unreadable inventory fails, and a cancel cuts the wait for the next read.
Confirm ==
    /\ run.pc = "confirm"
    /\ UNCHANGED <<cancelled, dev>>
    /\ \/ Healthy(run.to_confirm) /\ Goto("recovered")
       \/ cancelled /\ Goto("cancelled")
       \/ ~cancelled /\ Goto("failed")
       \/ /\ ~cancelled /\ ~Healthy(run.to_confirm)
          /\ InRecovery(run.to_confirm) = {} /\ run.reads < ConfirmRetries
          /\ run' = [run EXCEPT !.reads = @ + 1]

Work ==
    \/ Detect \/ Round \/ PowerBlock \/ Reread \/ RecoveryPush \/ Confirm
    \/ Wait("wait_cycle", "block") \/ Wait("wait_only", "confirm")

------------------------------------------------------------------------------
(* The tray, the job's owner, the next job *)

\* The task ends: badly; or with a member's image staged for its cycle; or with
\* members of the recovery bundle coming up.
TaskEnds ==
    /\ UNCHANGED <<run, cancelled>>
    /\ \/ Busy /\ dev' = [dev EXCEPT !.task = "failed"]
       \/ /\ dev.task = "regular"
          /\ \E c \in InRecovery(PushThenCycle) \cup {"nothing"} :
                dev' = [dev EXCEPT !.task = "none",
                                   !.staged = IF c = "nothing" THEN @ ELSE @ \cup {c}]
       \/ /\ dev.task = "recovery"
          /\ \E took \in SUBSET InRecovery(PushOnly) :
                dev' = [dev EXCEPT !.task = "none",
                                   !.st = [c \in Watched |-> IF c \in took THEN "updating" ELSE @[c]]]

\* A component that is activating comes up, or falls back.
Settles ==
    \E c \in Watched, s \in {"ok", "recovery"} :
        /\ dev.st[c] = "updating"
        /\ dev' = [dev EXCEPT !.st[c] = s]
        /\ UNCHANGED <<run, cancelled>>

Cancel ==
    /\ ~cancelled /\ run.pc \notin Over
    /\ cancelled' = TRUE
    /\ UNCHANGED <<run, dev>>

NextJob ==
    /\ run.pc \in Over /\ run.job < MaxJobs
    /\ run' = NewRun(run.job + 1)
    /\ cancelled' = FALSE
    /\ UNCHANGED dev

Next == Work \/ TaskEnds \/ Settles \/ Cancel \/ NextJob

\* The worker task is polled by the runtime whenever a call or a timer is due.
Spec == Init /\ [][Next]_vars /\ WF_vars(Work)

------------------------------------------------------------------------------
\* The flow is about to cycle the tray only when no update task runs on the BMC
\* (push: "The recovery flow must not power-cycle the tray while that task still
\* runs"), also after an earlier job was cancelled or timed out and left its
\* push to the BMC.
NoCycleUnderPush == run.pc = "block" => ~Busy

\* recover returns Ok only on a reading in which every component that the
\* detection saw in recovery, and every push-then-cycle member that a re-read
\* after a round saw there, is OK and Enabled ("a stale list cannot produce a
\* false recovered").  The re-reads do not look at the push-only members.
RecoveredIsHealthy ==
    [][run.pc # "recovered" /\ run'.pc = "recovered" => Healthy(run.seen)]_vars

\* Whatever the tray reports, the flow comes to an end: rounds, task reads and
\* confirm reads are all bounded.
FlowEnds == []<>(run.pc \in Over)
=============================================================================
