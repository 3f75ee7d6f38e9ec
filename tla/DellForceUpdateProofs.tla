------------------------- MODULE DellForceUpdateProofs -------------------------
(***************************************************************************)
(* For every number of jobs and uploads, every unreadable-poll limit and   *)
(* every set of faults, the adapter never loses the ForceUpdate value it   *)
(* borrowed.  Accounted is not inductive: a step that clears the pending   *)
(* update must know that the option already has the remembered value, and  *)
(* a step that patches the option must know that there is a pending        *)
(* update.  IInv adds at which steps an update is pending, and that what   *)
(* is remembered is what the adapter found.                                *)
(*                                                                         *)
(* The option does not change under a running task either: Settled adds    *)
(* what the steps that lead to a PATCH know of the recorded task.          *)
(***************************************************************************)
EXTENDS DellForceUpdate, TLAPS

\* The steps of restore and of an upload past its preparation.
Holding == {"task", "read", "patch", "verify", "set", "set_verify", "upload", "poll"}

Fits ==
    /\ job.pc \in Holding => pending # None
    /\ job.pc = "prepare" => pending = None
    /\ job.pc = "ended" /\ ~adapter.registered => pending = None

Alive == adapter.registered \/ job.pc # "ended"

Remembers ==
    Alive => IF pending = None THEN dev.force = adapter.found
                               ELSE pending.original = adapter.found

IInv == TypeOK /\ Fits /\ Remembers

\* Init establishes the inductive invariant: nothing is borrowed yet.
LEMMA InitIInv == Init => IInv
  <1> SUFFICES ASSUME Init PROVE IInv
    OBVIOUS
  <1>1. job \in Jobs /\ job.pc = "ready"
    BY DEF Init, NewJob, Jobs, Steps, Returns
  <1>2. adapter \in [registered: BOOLEAN, found: BOOLEAN] /\ adapter.found = FALSE
    BY Zenon, DellAssumption DEF Init
  <1>3. dev \in [force: BOOLEAN, live: SUBSET Nat, next: Nat] /\ dev.force = FALSE
    BY DEF Init
  <1>4. cancelled \in BOOLEAN /\ pending = None
    BY Zenon DEF Init
  <1> QED
    BY <1>1, <1>2, <1>3, <1>4 DEF IInv, TypeOK, Fits, Remembers, Alive, Holding

\* Where a caller of restore_force_update goes on: it stays at a step of restore
\* only while an update is pending, and reaches the preparation only when
\* restore succeeded.
LEMMA AfterFits ==
    ASSUME NEW ret \in Returns, NEW ok \in BOOLEAN, NEW p
    PROVE  /\ After(ret, ok, p).pc \in {"ready", "failed", "prepare", "read"}
           /\ After(ret, ok, p).ret \in Returns
           /\ After(ret, ok, p).pc = "read" => p # None
           /\ After(ret, ok, p).pc = "prepare" => ok
  BY DEF After, Returns

\* Return moves the job and nothing else of its record.
LEMMA ReturnFits ==
    ASSUME TypeOK, NEW ok \in BOOLEAN, NEW p, Return(ok, p)
    PROVE  /\ job' \in Jobs
           /\ job'.pc \in {"ready", "failed", "prepare", "read"}
           /\ job'.pc = "read" => p # None
           /\ job'.pc = "prepare" => ok
  <1>1. job.ret \in Returns
    BY DEF TypeOK, Jobs
  <1>2. /\ After(job.ret, ok, p).pc \in {"ready", "failed", "prepare", "read"}
        /\ After(job.ret, ok, p).ret \in Returns
        /\ After(job.ret, ok, p).pc = "read" => p # None
        /\ After(job.ret, ok, p).pc = "prepare" => ok
    BY <1>1, AfterFits
  <1> QED
    BY Zenon, <1>2 DEF TypeOK, Jobs, Return, Steps

\* Entering restore: the job is at a step of restore only while an update is pending.
LEMMA RestoreFits ==
    ASSUME NEW j \in Jobs,
           NEW ret \in Returns, NEW p \in Updates \cup {None}
    PROVE  /\ Restore(j, ret, p) \in Jobs
           /\ Restore(j, ret, p).pc \in {"ready", "failed", "prepare", "read", "task"}
           /\ Restore(j, ret, p).pc \in {"read", "task"} => p # None
           /\ Restore(j, ret, p).pc = "prepare" => p = None
  <1>1. /\ After(ret, TRUE, p).pc \in {"ready", "failed", "prepare", "read"}
        /\ After(ret, TRUE, p).ret \in Returns
        /\ After(ret, TRUE, p).pc = "read" => p # None
    BY Zenon, AfterFits
  <1> QED
    BY Zenon, <1>1 DEF Restore, Jobs, Steps

\* A failed read of the task changes the counters of the pending update only.
LEMMA UnreadableFits ==
    ASSUME NEW p \in Updates
    PROVE  Unreadable(p) \in Updates /\ Unreadable(p).original = p.original
  <1>1. /\ (IF p.polls < MaxUnreadable THEN p.polls + 1 ELSE p.polls) \in Nat
        /\ (IF p.since = "none" THEN "recent" ELSE p.since) \in {"none", "recent", "old"}
    BY DellAssumption DEF Updates
  <1> QED
    BY Zenon, <1>1 DEF Unreadable, Updates

\* A step that leaves the setting, and at most updates the counters of what is
\* pending, keeps the invariant if the job's new step fits what is pending.
LEMMA SettingUntouched ==
    ASSUME IInv, job.pc # "ended",
           job' \in Jobs, job'.pc # "ended",
           UNCHANGED <<adapter, dev>>, cancelled' \in BOOLEAN,
           \/ pending' = pending
           \/ pending # None /\ pending' \in Updates /\ pending'.original = pending.original,
           job'.pc \in Holding => pending' # None,
           job'.pc = "prepare" => pending' = None
    PROVE  IInv'
  <1>1. None \notin Updates
    BY DellAssumption
  <1> QED
    BY <1>1 DEF IInv, TypeOK, Fits, Remembers, Alive

\* A step that clears the pending update keeps the invariant when the setting
\* has the remembered value.
LEMMA HandedBack ==
    ASSUME IInv, job.pc # "ended", pending # None, dev.force = pending.original,
           job' \in Jobs, job'.pc \in {"ready", "failed", "prepare"},
           UNCHANGED <<adapter, cancelled, dev>>, pending' = None
    PROVE  IInv'
  BY DEF IInv, TypeOK, Fits, Remembers, Alive, Holding

\* A step that patches the setting keeps the invariant while an update is pending.
LEMMA PatchedWhilePending ==
    ASSUME IInv, job.pc # "ended", pending # None,
           job' \in Jobs, job'.pc # "ended", job'.pc # "prepare",
           UNCHANGED <<adapter, cancelled, pending>>,
           dev' \in [force : BOOLEAN, live : SUBSET Nat, next : Nat]
    PROVE  IInv'
  BY DEF IInv, TypeOK, Fits, Remembers, Alive

\* A PATCH leaves the BMC's tasks alone.
LEMMA PatchFits ==
    ASSUME TypeOK, NEW value \in BOOLEAN, Patch(value)
    PROVE  dev' \in [force : BOOLEAN, live : SUBSET Nat, next : Nat]
  <1> PICK applied \in BOOLEAN : dev' = [dev EXCEPT !.force = IF applied THEN value ELSE @]
    BY DEF Patch
  <1>1. (IF applied THEN value ELSE dev.force) \in BOOLEAN
    BY DEF TypeOK
  <1> QED
    BY <1>1 DEF TypeOK

\* The hand-back's own steps keep the invariant.
LEMMA RestoreIInv ==
    IInv /\ (RestoreTask \/ RestoreRead \/ RestorePatch \/ RestoreVerify \/ GraceElapses) => IInv'
  <1> SUFFICES ASSUME IInv, RestoreTask \/ RestoreRead \/ RestorePatch \/ RestoreVerify \/ GraceElapses
               PROVE  IInv'
    OBVIOUS
  <1>t. /\ TypeOK /\ Fits /\ Remembers /\ job \in Jobs /\ cancelled \in BOOLEAN
        /\ None \notin Updates /\ pending \in Updates \cup {None}
    BY DellAssumption DEF IInv, TypeOK
  <1>g. ASSUME NEW pc \in Steps, Goto(pc) PROVE job' \in Jobs /\ job'.pc = pc
    BY <1>g, <1>t DEF Goto, Jobs
  <1>f. ASSUME RestoreFails, pending # None, job.pc # "ended", UNCHANGED <<adapter, cancelled, dev>>
        PROVE  IInv'
    <2>1. Return(FALSE, pending) /\ pending' = pending
      BY Zenon, <1>f DEF RestoreFails
    <2>2. /\ job' \in Jobs /\ job'.pc \in {"ready", "failed", "prepare", "read"}
          /\ job'.pc # "prepare"
      BY Zenon, <1>t, <2>1, ReturnFits
    <2> QED
      BY <1>f, <1>t, <2>1, <2>2, SettingUntouched DEF Holding
  <1>s. ASSUME dev.force = pending.original, pending # None, pending' = None, Return(TRUE, None),
               job.pc # "ended", UNCHANGED <<adapter, cancelled, dev>>
        PROVE  IInv'
    <2>1. /\ job' \in Jobs /\ job'.pc \in {"ready", "failed", "prepare", "read"}
          /\ job'.pc # "read"
      BY Zenon, <1>t, <1>s, ReturnFits
    <2> QED
      BY <1>s, <2>1, HandedBack
  <1>1. CASE RestoreTask
    <2>1. /\ job.pc = "task" /\ pending \in Updates /\ pending # None
          /\ UNCHANGED <<adapter, cancelled, dev>>
      BY <1>1, <1>t DEF RestoreTask, Fits, Holding
    <2>2. CASE /\ pending' = [pending EXCEPT !.polls = 0, !.since = "none", !.terminal = TRUE]
               /\ Goto("read")
      <3>1. pending' \in Updates /\ pending'.original = pending.original
        BY Zenon, <2>1, <2>2 DEF Updates
      <3>2. job' \in Jobs /\ job'.pc = "read"
        BY <2>2, <1>g DEF Steps
      <3> QED
        BY <1>t, <2>1, <3>1, <3>2, SettingUntouched DEF Holding
    <2>3. CASE /\ pending' = [pending EXCEPT !.polls = 0, !.since = "none"]
               /\ Return(FALSE, pending)
      <3>1. pending' \in Updates /\ pending'.original = pending.original
        BY Zenon, <2>1, <2>3 DEF Updates
      <3>2. /\ job' \in Jobs /\ job'.pc \in {"ready", "failed", "prepare", "read"}
            /\ job'.pc # "prepare"
        BY Zenon, <2>3, <1>t, ReturnFits
      <3> QED
        BY <1>t, <2>1, <3>1, <3>2, SettingUntouched DEF Holding
    <2>4. CASE /\ pending' = [Unreadable(pending) EXCEPT !.terminal = TRUE] /\ Goto("read")
      <3>1. Unreadable(pending) \in Updates /\ Unreadable(pending).original = pending.original
        BY <2>1, UnreadableFits
      <3>2. pending' \in Updates /\ pending'.original = pending.original
        BY Zenon, <3>1, <2>4 DEF Updates
      <3>3. job' \in Jobs /\ job'.pc = "read"
        BY <2>4, <1>g DEF Steps
      <3> QED
        BY <1>t, <2>1, <3>2, <3>3, SettingUntouched DEF Holding
    <2>5. CASE pending' = Unreadable(pending) /\ Return(FALSE, Unreadable(pending))
      <3>1. Unreadable(pending) \in Updates /\ Unreadable(pending).original = pending.original
        BY <2>1, UnreadableFits
      <3>2. /\ job' \in Jobs /\ job'.pc \in {"ready", "failed", "prepare", "read"}
            /\ job'.pc # "prepare"
        BY Zenon, <2>5, <1>t, ReturnFits
      <3> QED
        BY <1>t, <2>1, <2>5, <3>1, <3>2, SettingUntouched DEF Holding
    <2> QED
      BY Zenon, <1>1, <2>2, <2>3, <2>4, <2>5 DEF RestoreTask
  <1>2. CASE RestoreRead
    <2>1. job.pc = "read" /\ pending # None /\ UNCHANGED <<adapter, cancelled, dev>>
      BY <1>2, <1>t DEF RestoreRead, Fits, Holding
    <2>2. CASE RestoreFails
      BY <2>1, <2>2, <1>f
    <2>3. CASE Goto("patch") /\ pending' = pending
      <3>1. job' \in Jobs /\ job'.pc = "patch"
        BY <2>3, <1>g DEF Steps
      <3> QED
        BY <1>t, <2>1, <2>3, <3>1, SettingUntouched DEF Holding
    <2>4. CASE dev.force = pending.original /\ pending' = None /\ Return(TRUE, None)
      BY <2>1, <2>4, <1>s
    <2> QED
      BY Zenon, <1>2, <2>2, <2>3, <2>4 DEF RestoreRead
  <1>3. CASE RestorePatch
    <2>1. job.pc = "patch" /\ pending # None /\ pending \in Updates /\ UNCHANGED <<adapter, cancelled>>
      BY <1>3, <1>t DEF RestorePatch, Fits, Holding
    <2>2. dev' \in [force : BOOLEAN, live : SUBSET Nat, next : Nat]
      BY <1>3, <1>t, <2>1, PatchFits DEF RestorePatch, Updates
    <2>3. /\ pending' = pending
          /\ job' \in Jobs /\ job'.pc # "ended" /\ job'.pc # "prepare"
      <3>1. CASE Return(FALSE, pending) /\ pending' = pending
        BY Zenon, <3>1, <1>t, ReturnFits
      <3>2. CASE Goto("verify") /\ pending' = pending
        BY <3>2, <1>g DEF Steps
      <3> QED
        BY Zenon, <1>3, <3>1, <3>2 DEF RestorePatch, RestoreFails
    <2> QED
      BY <2>1, <2>2, <2>3, PatchedWhilePending
  <1>4. CASE RestoreVerify
    <2>1. job.pc = "verify" /\ pending # None /\ UNCHANGED <<adapter, cancelled, dev>>
      BY <1>4, <1>t DEF RestoreVerify, Fits, Holding
    <2>2. CASE RestoreFails
      BY <2>1, <2>2, <1>f
    <2>3. CASE dev.force = pending.original /\ pending' = None /\ Return(TRUE, None)
      BY <2>1, <2>3, <1>s
    <2> QED
      BY Zenon, <1>4, <2>2, <2>3 DEF RestoreVerify
  <1>5. CASE GraceElapses
    <2>1. pending \in Updates /\ pending # None
      BY <1>5, <1>t DEF GraceElapses
    <2>2. pending' \in Updates /\ pending'.original = pending.original /\ pending' # None
      BY <1>5, <1>t, <2>1 DEF GraceElapses, Updates
    <2> QED
      BY <1>5, <1>t, <2>1, <2>2 DEF GraceElapses, IInv, TypeOK, Fits, Remembers, Alive
  <1> QED
    BY <1>1, <1>2, <1>3, <1>4, <1>5

\* The steps of update_firmware and of the poll loop keep the invariant.
LEMMA UpdateIInv ==
    /\ IInv
    /\ \/ \E reflash \in BOOLEAN : UpdateFirmware(reflash)
       \/ Prepare \/ SetForce \/ SetForceVerify \/ Upload \/ Poll
    => IInv'
  <1> SUFFICES ASSUME IInv,
                      \/ \E reflash \in BOOLEAN : UpdateFirmware(reflash)
                      \/ Prepare \/ SetForce \/ SetForceVerify \/ Upload \/ Poll
               PROVE  IInv'
    OBVIOUS
  <1>t. /\ TypeOK /\ Fits /\ Remembers /\ job \in Jobs /\ cancelled \in BOOLEAN
        /\ None \notin Updates /\ pending \in Updates \cup {None}
        /\ dev \in [force: BOOLEAN, live: SUBSET Nat, next: Nat]
    BY DellAssumption DEF IInv, TypeOK
  <1>g. ASSUME NEW pc \in Steps, Goto(pc) PROVE job' \in Jobs /\ job'.pc = pc
    BY <1>g, <1>t DEF Goto, Jobs
  <1>r. ASSUME NEW ret \in Returns, NEW p \in Updates, job' = Restore(job, ret, p)
        PROVE  job' \in Jobs /\ job'.pc # "ended" /\ job'.pc # "prepare"
    BY <1>t, <1>r, RestoreFits
  <1>a. Accepted \in [force: BOOLEAN, live: SUBSET Nat, next: Nat]
    <2>1. dev.next \in Nat /\ dev.live \cup {dev.next} \in SUBSET Nat /\ dev.next + 1 \in Nat
      BY <1>t
    <2> QED
      BY Zenon, <1>t, <2>1 DEF Accepted
  <1>1. CASE \E reflash \in BOOLEAN : UpdateFirmware(reflash)
    <2> PICK reflash \in BOOLEAN : UpdateFirmware(reflash)
      BY <1>1
    <2> DEFINE j == [job EXCEPT !.uploads = @ + 1, !.reflash = reflash]
    <2>1. j \in Jobs /\ job.pc = "ready" /\ UNCHANGED <<adapter, cancelled, pending, dev>>
      <3>1. job.uploads + 1 \in Nat
        BY <1>t DEF Jobs
      <3>2. j \in Jobs
        BY Zenon, <1>t, <3>1 DEF Jobs
      <3> QED
        BY Zenon, <3>2 DEF UpdateFirmware
    <2>2. /\ Restore(j, "prepare", pending) \in Jobs
          /\ Restore(j, "prepare", pending).pc \in {"ready", "failed", "prepare", "read", "task"}
          /\ Restore(j, "prepare", pending).pc \in {"read", "task"} => pending # None
          /\ Restore(j, "prepare", pending).pc = "prepare" => pending = None
      <3>1. "prepare" \in Returns
        BY DEF Returns
      <3> QED
        BY <1>t, <2>1, <3>1, RestoreFits
    <2>3. \/ job' = [j EXCEPT !.pc = "failed"]
          \/ job' = Restore(j, "prepare", pending)
      BY Zenon DEF UpdateFirmware
    <2>4. [j EXCEPT !.pc = "failed"] \in Jobs /\ [j EXCEPT !.pc = "failed"].pc = "failed"
      BY Zenon, <2>1 DEF Jobs, Steps
    <2> HIDE DEF j
    <2> QED
      BY Zenon, <1>t, <2>1, <2>2, <2>3, <2>4, SettingUntouched DEF Holding
  <1>2. CASE Prepare
    <2>1. job.pc = "prepare" /\ pending = None /\ UNCHANGED <<adapter, cancelled, dev>>
      BY <1>2, <1>t DEF Prepare, Fits
    <2>2. CASE pending' = pending /\ (Goto("ready") \/ Goto("failed"))
      <3>1. job' \in Jobs /\ job'.pc \in {"ready", "failed"}
        BY <2>2, <1>g DEF Steps
      <3> QED
        BY <1>t, <2>1, <2>2, <3>1, SettingUntouched DEF Holding
    <2>3. CASE /\ pending' = Borrowed
               /\ Goto(IF dev.force # job.reflash THEN "set" ELSE "upload")
      <3>1. job' \in Jobs /\ job'.pc \in {"set", "upload"}
        BY <2>3, <1>g DEF Steps
      <3>2. pending' \in Updates /\ pending'.original = dev.force
        BY <2>3, <1>t DEF Borrowed, Updates
      <3>3. dev.force = adapter.found
        BY <1>t, <2>1 DEF Remembers, Alive
      <3> QED
        BY <1>t, <2>1, <3>1, <3>2, <3>3 DEF IInv, TypeOK, Fits, Remembers, Alive
    <2> QED
      BY <1>2, <2>2, <2>3 DEF Prepare
  <1>3. CASE SetForce
    <2>1. /\ job.pc = "set" /\ pending # None /\ pending \in Updates
          /\ UNCHANGED <<adapter, cancelled, pending>>
      BY <1>3, <1>t DEF SetForce, Fits, Holding
    <2>2. dev' \in [force : BOOLEAN, live : SUBSET Nat, next : Nat]
      BY <1>3, <1>t, PatchFits DEF SetForce, Jobs
    <2>3. job' \in Jobs /\ job'.pc # "ended" /\ job'.pc # "prepare"
      <3>1. CASE job' = Restore(job, "undo", pending)
        BY <3>1, <2>1, <1>r DEF Returns
      <3>2. CASE Goto("set_verify")
        BY <3>2, <1>g DEF Steps
      <3> QED
        BY <1>3, <3>1, <3>2 DEF SetForce, Undo
    <2> QED
      BY <2>1, <2>2, <2>3, PatchedWhilePending
  <1>4. CASE SetForceVerify
    <2>1. /\ job.pc = "set_verify" /\ pending # None /\ pending \in Updates
          /\ UNCHANGED <<adapter, cancelled, pending, dev>>
      BY <1>4, <1>t DEF SetForceVerify, Fits, Holding
    <2>3. job' \in Jobs /\ job'.pc # "ended" /\ job'.pc # "prepare"
      <3>1. CASE job' = Restore(job, "undo", pending)
        BY <3>1, <2>1, <1>r DEF Returns
      <3>2. CASE Goto("upload")
        BY <3>2, <1>g DEF Steps
      <3> QED
        BY <1>4, <3>1, <3>2 DEF SetForceVerify, Undo
    <2> QED
      BY <1>t, <2>1, <2>3, SettingUntouched
  <1>5. CASE Upload
    <2>1. /\ job.pc = "upload" /\ pending # None /\ pending \in Updates
          /\ UNCHANGED <<adapter, cancelled>>
      BY <1>5, <1>t DEF Upload, Fits, Holding
    <2>2. CASE /\ pending' = pending
               /\ dev' = dev \/ dev' = Accepted
               /\ \E ret \in {"undo", "settle"} : job' = Restore(job, ret, pending)
      <3>1. job' \in Jobs /\ job'.pc # "ended" /\ job'.pc # "prepare"
        BY <2>1, <2>2, <1>r DEF Returns
      <3>2. dev' \in [force : BOOLEAN, live : SUBSET Nat, next : Nat]
        BY <1>t, <1>a, <2>2
      <3> QED
        BY <2>1, <2>2, <3>1, <3>2, PatchedWhilePending
    <2>3. CASE /\ dev' = Accepted
               /\ pending' = [pending EXCEPT !.task = dev.next]
               /\ Goto("poll")
      <3>1. job' \in Jobs /\ job'.pc = "poll"
        BY <2>3, <1>g DEF Steps
      <3>2. pending' \in Updates /\ pending'.original = pending.original
        BY <2>1, <2>3, <1>t DEF Updates
      <3>3. dev' \in [force : BOOLEAN, live : SUBSET Nat, next : Nat]
        BY <1>a, <2>3
      <3> QED
        BY <1>t, <2>1, <3>1, <3>2, <3>3 DEF IInv, TypeOK, Fits, Remembers, Alive
    <2> QED
      BY <1>5, <2>2, <2>3 DEF Upload, Undo
  <1>6. CASE Poll
    <2>1. /\ job.pc = "poll" /\ pending # None /\ pending \in Updates
          /\ UNCHANGED <<adapter, cancelled, dev>>
      BY <1>6, <1>t DEF Poll, Fits, Holding
    <2>2. CASE /\ pending' = [pending EXCEPT !.terminal = TRUE]
               /\ \E ret \in {"polled_ok", "polled_err"} : job' = Restore(job, ret, pending')
      <3>1. pending' \in Updates /\ pending'.original = pending.original
        BY Zenon, <2>1, <2>2 DEF Updates
      <3>2. job' \in Jobs /\ job'.pc # "ended" /\ job'.pc # "prepare"
        BY Zenon, <2>2, <3>1, <1>r DEF Returns
      <3> QED
        BY <1>t, <2>1, <3>1, <3>2, SettingUntouched
    <2>3. CASE job' = Restore(job, "finish_err", pending) /\ pending' = pending
      <3>1. job' \in Jobs /\ job'.pc # "ended" /\ job'.pc # "prepare"
        BY <2>1, <2>3, <1>r DEF Returns
      <3> QED
        BY <1>t, <2>1, <2>3, <3>1, SettingUntouched
    <2> QED
      BY <1>6, <2>2, <2>3 DEF Poll
  <1> QED
    BY <1>1, <1>2, <1>3, <1>4, <1>5, <1>6

\* Every step of the specification keeps the inductive invariant.
LEMMA NextIInv == IInv /\ [Next]_vars => IInv'
  <1> SUFFICES ASSUME IInv, [Next]_vars PROVE IInv'
    OBVIOUS
  <1>t. /\ TypeOK /\ Fits /\ Remembers /\ job \in Jobs
        /\ adapter \in [registered: BOOLEAN, found: BOOLEAN]
        /\ dev \in [force: BOOLEAN, live: SUBSET Nat, next: Nat]
    BY DEF IInv, TypeOK
  <1>1. CASE Cancel
    BY <1>1 DEF Cancel, IInv, TypeOK, Fits, Remembers, Alive
  <1>2. CASE JobEnds
    <2>1. job' \in Jobs /\ job'.pc = "ended" /\ job.pc # "ended"
      BY <1>2, <1>t DEF JobEnds, Goto, Jobs, Steps
    <2> QED
      BY <1>2, <1>t, <2>1 DEF JobEnds, IInv, TypeOK, Fits, Remembers, Alive, Holding
  <1>3. CASE Crash
    <2>1. job' \in Jobs /\ job'.pc = "ended"
      BY <1>3, <1>t DEF Crash, Goto, Jobs, Steps
    <2>2. /\ adapter' \in [registered: BOOLEAN, found: BOOLEAN]
          /\ adapter'.found = dev.force
      BY <1>3, <1>t DEF Crash
    <2> QED
      BY <1>3, <1>t, <2>1, <2>2 DEF Crash, IInv, TypeOK, Fits, Remembers, Alive, Holding
  <1>4. CASE NextJob
    <2>1. job' \in Jobs /\ job'.pc = "ready" /\ job.pc = "ended"
      BY <1>4, <1>t DEF NextJob, NewJob, Jobs, Steps, Returns
    <2>2. CASE adapter.registered
      <3>1. adapter' = adapter
        BY <1>4, <1>t, <2>2 DEF NextJob
      <3> QED
        BY Zenon, <1>4, <1>t, <2>1, <2>2, <3>1
        DEF NextJob, IInv, TypeOK, Fits, Remembers, Alive, Holding
    <2>3. CASE ~adapter.registered
      <3>1. adapter' \in [registered: BOOLEAN, found: BOOLEAN] /\ adapter'.found = dev.force
        BY <1>4, <1>t, <2>3 DEF NextJob
      <3>2. pending = None
        BY <1>t, <2>1, <2>3 DEF Fits
      <3> QED
        BY Zenon, <1>4, <1>t, <2>1, <3>1, <3>2
        DEF NextJob, IInv, TypeOK, Fits, Remembers, Alive, Holding
    <2> QED
      BY <2>2, <2>3
  <1>5. CASE TaskEnds
    <2> PICK t \in dev.live : /\ dev' = [dev EXCEPT !.live = @ \ {t}]
                              /\ UNCHANGED <<job, adapter, cancelled, pending>>
      BY <1>5 DEF TaskEnds
    <2>1. dev' \in [force: BOOLEAN, live: SUBSET Nat, next: Nat] /\ dev'.force = dev.force
      BY <1>t
    <2> QED
      BY <1>t, <2>1 DEF IInv, TypeOK, Fits, Remembers, Alive
  <1>6. CASE UNCHANGED vars
    BY <1>6 DEF vars, IInv, TypeOK, Fits, Remembers, Alive
  <1> QED
    BY <1>1, <1>2, <1>3, <1>4, <1>5, <1>6, RestoreIInv, UpdateIInv DEF Next

\* The value an adapter borrowed is never lost while the adapter lives: the
\* option has it, or pending_update remembers it (restore_force_update), however
\* many jobs run, calls fail and answers get lost.
THEOREM BorrowedValueIsKept == Spec => []Accounted
  <1>1. IInv => Accounted
    BY DEF IInv, Remembers, Alive, Accounted
  <1> QED
    BY <1>1, InitIInv, NextIInv, PTL DEF Spec

------------------------------------------------------------------------------
(* The option under a running task *)

\* A task is taken for over when it is, or when it was given up.
Known == pending # None /\ pending.terminal = TRUE =>
    pending.task \notin dev.live \/ GivenUp(pending)

\* The steps that write the option, or lead to it: no task is recorded yet, or
\* it was taken for over.  A task is read only before that.
Cleared ==
    /\ job.pc \in {"set", "set_verify", "upload"} => pending.task = None /\ pending.terminal = FALSE
    /\ job.pc \in {"read", "patch", "verify"} => pending.task = None \/ pending.terminal = TRUE
    /\ job.pc = "task" => pending.terminal = FALSE /\ job.ret \notin {"polled_ok", "polled_err"}

Settled == Known /\ Cleared

\* Entering restore skips the read of the task only when there is none, or it
\* was taken for over.
LEMMA RestoreClears ==
    ASSUME NEW j \in Jobs, NEW ret \in Returns, NEW p \in Updates \cup {None}
    PROVE  /\ Restore(j, ret, p).pc \in {"ready", "failed", "prepare", "read", "task"}
           /\ Restore(j, ret, p).pc = "read" => p.task = None \/ p.terminal = TRUE
           /\ Restore(j, ret, p).pc = "task" => /\ p \in Updates /\ p.terminal = FALSE
                                               /\ Restore(j, ret, p).ret = ret
  <1>1. CASE p = None
    <2>1. /\ After(ret, TRUE, p).pc \in {"ready", "failed", "prepare", "read"}
          /\ After(ret, TRUE, p).pc = "read" => p # None
      BY Zenon, AfterFits
    <2> QED
      BY Zenon, <1>1, <2>1 DEF Restore, Jobs
  <1>2. CASE p # None
    <2>1. p \in Updates /\ p.terminal \in BOOLEAN
      BY <1>2 DEF Updates
    <2> QED
      BY <1>2, <2>1 DEF Restore, Jobs
  <1> QED
    BY Zenon, <1>1, <1>2

\* A caller goes on in restore only after the poll that found the task over.
LEMMA ReturnClears ==
    ASSUME TypeOK, NEW ok \in BOOLEAN, NEW p, Return(ok, p)
    PROVE  /\ job'.pc \in {"ready", "failed", "prepare", "read"}
           /\ job'.pc = "read" => job.ret \in {"polled_ok", "polled_err"} /\ p # None
  <1>1. job.ret \in Returns
    BY DEF TypeOK, Jobs
  <1>2. /\ After(job.ret, ok, p).pc \in {"ready", "failed", "prepare", "read"}
        /\ After(job.ret, ok, p).pc = "read" => job.ret \in {"polled_ok", "polled_err"} /\ p # None
    BY <1>1 DEF After, Returns
  <1> QED
    BY <1>2 DEF TypeOK, Jobs, Return

\* The hand-back takes a task for over only after it ended or was given up.
LEMMA RestoreSettled ==
    ASSUME IInv, Settled,
           RestoreTask \/ RestoreRead \/ RestorePatch \/ RestoreVerify \/ GraceElapses
    PROVE  Settled'
  <1>t. TypeOK /\ Fits /\ None \notin Updates /\ job \in Jobs
    BY DellAssumption DEF IInv, TypeOK
  <1>g. ASSUME NEW pc, Goto(pc) PROVE job'.pc = pc /\ job'.ret = job.ret
    BY <1>g, <1>t DEF Goto, Jobs
  <1>f. ASSUME RestoreFails, job.pc \in {"read", "patch", "verify"}, dev'.live = dev.live
        PROVE  Settled'
    <2>1. pending' = pending /\ job'.pc \in {"ready", "failed", "prepare", "read"}
      BY Zenon, <1>f, <1>t, ReturnClears DEF RestoreFails
    <2> QED
      BY <1>f, <2>1 DEF Settled, Known, Cleared, GivenUp
  <1>s. ASSUME pending' = None, Return(TRUE, None) PROVE Settled'
    <2>1. job'.pc \in {"ready", "failed", "prepare"}
      BY Zenon, <1>s, <1>t, ReturnClears
    <2> QED
      BY <1>s, <2>1 DEF Settled, Known, Cleared
  <1>1. CASE RestoreTask
    <2>1. /\ job.pc = "task" /\ pending \in Updates /\ dev' = dev
          /\ pending.terminal = FALSE /\ job.ret \notin {"polled_ok", "polled_err"}
      BY <1>1, <1>t DEF RestoreTask, IInv, TypeOK, Fits, Holding, Settled, Cleared
    <2>r. ASSUME NEW p, Return(FALSE, p) PROVE job'.pc \in {"ready", "failed", "prepare"}
      BY Zenon, <2>r, <1>t, <2>1, ReturnClears
    <2>2. CASE /\ pending.task \notin dev.live
               /\ pending' = [pending EXCEPT !.polls = 0, !.since = "none", !.terminal = TRUE]
               /\ Goto("read")
      <3>1. pending'.task = pending.task /\ pending'.terminal = TRUE
        BY <2>1, <2>2 DEF Updates
      <3> QED
        BY <1>g, <2>1, <2>2, <3>1 DEF Settled, Known, Cleared
    <2>3. CASE pending' = [pending EXCEPT !.polls = 0, !.since = "none"] /\ Return(FALSE, pending)
      <3>1. pending'.terminal = FALSE
        BY <2>1, <2>3 DEF Updates
      <3> QED
        BY Zenon, <2>3, <2>r, <3>1 DEF Settled, Known, Cleared
    <2> DEFINE p == Unreadable(pending)
    <2>4. p \in Updates /\ p.terminal = FALSE
      BY Zenon, <2>1, UnreadableFits DEF Unreadable, Updates
    <2> HIDE DEF p
    <2>5. CASE GivenUp(p) /\ pending' = [p EXCEPT !.terminal = TRUE] /\ Goto("read")
      <3>1. pending'.polls = p.polls /\ pending'.since = p.since /\ pending'.terminal = TRUE
        BY <2>4, <2>5 DEF Updates
      <3> QED
        BY <1>g, <2>5, <3>1 DEF Settled, Known, Cleared, GivenUp
    <2>6. CASE pending' = p /\ Return(FALSE, p)
      BY Zenon, <2>4, <2>6, <2>r DEF Settled, Known, Cleared
    <2> QED
      BY Zenon, <1>1, <2>2, <2>3, <2>5, <2>6 DEF RestoreTask, p
  <1>2. CASE RestoreRead
    <2>1. job.pc = "read" /\ dev' = dev
      BY <1>2 DEF RestoreRead
    <2>2. CASE Goto("patch") /\ pending' = pending
      BY <1>g, <2>1, <2>2 DEF Settled, Known, Cleared, GivenUp
    <2> QED
      BY Zenon, <1>2, <1>f, <1>s, <2>1, <2>2 DEF RestoreRead
  <1>3. CASE RestorePatch
    <2>1. job.pc = "patch" /\ dev'.live = dev.live
      BY <1>3, <1>t DEF RestorePatch, Patch, TypeOK
    <2>2. CASE Goto("verify") /\ pending' = pending
      BY <1>g, <2>1, <2>2 DEF Settled, Known, Cleared, GivenUp
    <2> QED
      BY <1>3, <1>f, <2>1, <2>2 DEF RestorePatch
  <1>4. CASE RestoreVerify
    <2>1. job.pc = "verify" /\ dev' = dev
      BY <1>4 DEF RestoreVerify
    <2> QED
      BY Zenon, <1>4, <1>f, <1>s, <2>1 DEF RestoreVerify
  <1>5. CASE GraceElapses
    <2>1. pending \in Updates
      BY <1>5, <1>t DEF GraceElapses, TypeOK
    <2>2. /\ pending'.task = pending.task /\ pending'.terminal = pending.terminal
          /\ pending'.polls = pending.polls /\ pending.since # "old"
          /\ job' = job /\ dev' = dev /\ pending # None
      BY <1>5, <2>1 DEF GraceElapses, Updates
    <2> QED
      BY <2>2 DEF Settled, Known, Cleared, GivenUp
  <1> QED
    BY <1>1, <1>2, <1>3, <1>4, <1>5

\* An upload sets the option before it has a task, and records one that is not
\* over.
LEMMA UpdateSettled ==
    ASSUME IInv, Settled,
           \/ \E reflash \in BOOLEAN : UpdateFirmware(reflash)
           \/ Prepare \/ SetForce \/ SetForceVerify \/ Upload \/ Poll
    PROVE  Settled'
  <1>t. /\ TypeOK /\ Fits /\ None \notin Updates /\ None \notin Nat /\ job \in Jobs
        /\ pending \in Updates \cup {None}
        /\ dev \in [force: BOOLEAN, live: SUBSET Nat, next: Nat]
    BY DellAssumption DEF IInv, TypeOK
  <1>g. ASSUME NEW pc, Goto(pc) PROVE job'.pc = pc
    BY <1>g, <1>t DEF Goto, Jobs
  <1>r. ASSUME NEW j \in Jobs, NEW ret \in Returns, job' = Restore(j, ret, pending'),
               pending' \in Updates \cup {None}, Known',
               ret \notin {"polled_ok", "polled_err"} \/ pending'.terminal = TRUE
        PROVE  Settled'
    <2> DEFINE p == pending'
    <2>1. /\ job'.pc \in {"ready", "failed", "prepare", "read", "task"}
          /\ job'.pc = "read" => p.task = None \/ p.terminal = TRUE
          /\ job'.pc = "task" => p.terminal = FALSE /\ job'.ret = ret
      <3>1. p \in Updates \cup {None} /\ job' = Restore(j, ret, p)
        BY <1>r
      <3> HIDE DEF p
      <3> QED
        BY Zenon, <3>1, RestoreClears
    <2> QED
      BY <1>r, <2>1 DEF Settled, Cleared
  <1>1. CASE \E reflash \in BOOLEAN : UpdateFirmware(reflash)
    <2> PICK reflash \in BOOLEAN : UpdateFirmware(reflash)
      BY <1>1
    <2> DEFINE j == [job EXCEPT !.uploads = @ + 1, !.reflash = reflash]
    <2>1. j \in Jobs /\ pending' = pending /\ dev' = dev
      <3>1. job.uploads + 1 \in Nat
        BY <1>t DEF Jobs
      <3>2. j \in Jobs
        BY Zenon, <1>t, <3>1 DEF Jobs
      <3> QED
        BY Zenon, <3>2 DEF UpdateFirmware
    <2>2. Known'
      BY <2>1 DEF Settled, Known, GivenUp
    <2>3. CASE job' = [j EXCEPT !.pc = "failed"]
      <3>1. job'.pc = "failed"
        BY <2>1, <2>3 DEF Jobs
      <3> QED
        BY <2>2, <3>1 DEF Settled, Cleared
    <2>4. CASE job' = Restore(j, "prepare", pending)
      <3> HIDE DEF j
      <3> QED
        BY Zenon, <1>t, <1>r, <2>1, <2>2, <2>4 DEF Returns
    <2> QED
      BY Zenon, <2>3, <2>4 DEF UpdateFirmware
  <1>2. CASE Prepare
    <2>1. pending = None
      BY <1>2, <1>t DEF Prepare, Fits
    <2>2. CASE pending' = pending /\ (Goto("ready") \/ Goto("failed"))
      BY <1>g, <2>1, <2>2 DEF Settled, Known, Cleared
    <2>3. CASE pending' = Borrowed /\ Goto(IF dev.force # job.reflash THEN "set" ELSE "upload")
      <3>1. job'.pc \in {"set", "upload"}
        BY <1>g, <2>3
      <3>2. pending'.task = None /\ pending'.terminal = FALSE
        BY <2>3 DEF Borrowed
      <3> QED
        BY <3>1, <3>2 DEF Settled, Known, Cleared
    <2> QED
      BY <1>2, <2>2, <2>3 DEF Prepare
  <1>k. ASSUME pending' = pending, pending.terminal = FALSE PROVE Known'
    BY <1>k DEF Known
  <1>u. ASSUME Undo, pending' = pending, pending.terminal = FALSE PROVE Settled'
    BY Zenon, <1>t, <1>k, <1>r, <1>u DEF Undo, Returns
  <1>3. CASE SetForce
    <2>1. pending.task = None /\ pending.terminal = FALSE /\ pending' = pending
      BY <1>3 DEF SetForce, Settled, Cleared
    <2>2. CASE Goto("set_verify")
      BY Zenon, <1>g, <1>k, <2>1, <2>2 DEF Settled, Cleared
    <2> QED
      BY Zenon, <1>3, <1>u, <2>1, <2>2 DEF SetForce
  <1>4. CASE SetForceVerify
    <2>1. pending.task = None /\ pending.terminal = FALSE /\ pending' = pending
      BY <1>4 DEF SetForceVerify, Settled, Cleared
    <2>2. CASE Goto("upload")
      BY Zenon, <1>g, <1>k, <2>1, <2>2 DEF Settled, Cleared
    <2> QED
      BY Zenon, <1>4, <1>u, <2>1, <2>2 DEF SetForceVerify
  <1>5. CASE Upload
    <2>1. /\ pending.task = None /\ pending.terminal = FALSE /\ pending \in Updates
      BY <1>5, <1>t DEF Upload, Settled, Cleared, Fits, Holding
    <2>2. CASE pending' = [pending EXCEPT !.task = dev.next] /\ Goto("poll")
      <3>1. pending'.terminal = FALSE
        BY <2>1, <2>2 DEF Updates
      <3> QED
        BY <1>g, <2>2, <3>1 DEF Settled, Known, Cleared
    <2>3. CASE job' = Restore(job, "settle", pending) /\ pending' = pending
      BY Zenon, <1>t, <1>k, <1>r, <2>1, <2>3 DEF Returns
    <2> QED
      BY Zenon, <1>5, <1>u, <2>1, <2>2, <2>3 DEF Upload
  <1>6. CASE Poll
    <2>1. pending \in Updates /\ dev' = dev
      BY <1>6, <1>t DEF Poll, Fits, Holding
    <2>2. CASE /\ pending.task \notin dev.live
               /\ pending' = [pending EXCEPT !.terminal = TRUE]
               /\ \E ret \in {"polled_ok", "polled_err"} : job' = Restore(job, ret, pending')
      <3>1. pending' \in Updates /\ pending'.task = pending.task /\ pending'.terminal = TRUE
        BY Zenon, <2>1, <2>2 DEF Updates
      <3>2. Known'
        BY <2>1, <2>2, <3>1 DEF Known
      <3> QED
        BY <1>t, <1>r, <2>2, <3>1, <3>2 DEF Returns
    <2>3. CASE job' = Restore(job, "finish_err", pending) /\ pending' = pending
      <3>1. Known'
        BY <2>1, <2>3 DEF Settled, Known, GivenUp
      <3> QED
        BY Zenon, <1>t, <1>r, <2>3, <3>1 DEF Returns
    <2> QED
      BY <1>6, <2>2, <2>3 DEF Poll
  <1> QED
    BY <1>1, <1>2, <1>3, <1>4, <1>5, <1>6

LEMMA NextSettled ==
    ASSUME IInv, Settled, [Next]_vars
    PROVE  Settled'
  <1>t. job \in Jobs /\ dev \in [force: BOOLEAN, live: SUBSET Nat, next: Nat]
    BY DEF IInv, TypeOK
  <1>1. CASE Cancel \/ UNCHANGED vars
    BY <1>1 DEF Cancel, vars, Settled, Known, Cleared, GivenUp
  <1>2. CASE JobEnds \/ Crash \/ NextJob
    <2>1. job'.pc \in {"ended", "ready"}
      BY <1>2, <1>t DEF JobEnds, Crash, NextJob, NewJob, Goto, Jobs
    <2>2. dev' = dev /\ pending' \in {None, pending}
      BY <1>2 DEF JobEnds, Crash, NextJob
    <2> QED
      BY <2>1, <2>2 DEF Settled, Known, Cleared, GivenUp
  <1>3. CASE TaskEnds
    <2>1. dev'.live \subseteq dev.live /\ UNCHANGED <<job, pending>>
      BY <1>3, <1>t DEF TaskEnds
    <2> QED
      BY <2>1 DEF Settled, Known, Cleared, GivenUp
  <1> QED
    BY <1>1, <1>2, <1>3, RestoreSettled, UpdateSettled DEF Next

\* The steps of UnchangedUnderTask.
TaskStep ==
    dev'.force # dev.force /\ pending # None /\ pending.task \in dev.live
        => pending.polls >= MaxUnreadable /\ pending.since = "old"

\* Only the two steps that send a PATCH change the option.
LEMMA PatchStep ==
    ASSUME IInv, Settled, [Next]_vars
    PROVE  TaskStep
  <1>t. dev \in [force: BOOLEAN, live: SUBSET Nat, next: Nat] /\ None \notin Nat
    BY DellAssumption DEF IInv, TypeOK
  <1>1. Accepted.force = dev.force
    BY <1>t DEF Accepted
  <1>2. CASE job.pc \in {"patch", "set"}
    BY <1>t, <1>2 DEF Settled, Known, Cleared, GivenUp, TaskStep
  <1>3. CASE job.pc \notin {"patch", "set"}
    <2>1. dev'.force = dev.force
      BY Zenon, <1>t, <1>1, <1>3
      DEF Next, vars, UpdateFirmware, RestoreTask, RestoreRead, RestorePatch,
          RestoreVerify, GraceElapses, Prepare, SetForce, SetForceVerify, Upload,
          Poll, Cancel, JobEnds, Crash, NextJob, TaskEnds
    <2> QED
      BY <2>1 DEF TaskStep
  <1> QED
    BY <1>2, <1>3

\* The option is never changed under a running task the adapter recorded,
\* except after the unreadable polls and the grace period ran out, for every
\* poll limit and however the answers get lost (restore_force_update).
THEOREM OptionUnchangedUnderTask == Spec => UnchangedUnderTask
  <1>1. Init => IInv /\ Settled
    <2>1. Init => Settled
      BY DEF Init, NewJob, Settled, Known, Cleared
    <2> QED
      BY <2>1, InitIInv
  <1>2. IInv /\ Settled /\ [Next]_vars => (IInv /\ Settled)' /\ [TaskStep]_vars
    BY NextIInv, NextSettled, PatchStep
  <1>3. UnchangedUnderTask <=> [][TaskStep]_vars
    BY PTL DEF UnchangedUnderTask, TaskStep
  <1> QED
    BY <1>1, <1>2, <1>3, PTL DEF Spec
=============================================================================
