--------------------- MODULE FabricReconciliationProofs ---------------------
(***************************************************************************)
(* Proofs about the worker of a managed fabric layout, for any switches,   *)
(* plans and number of jobs.                                               *)
(*                                                                         *)
(* The inductive invariant follows a switch through the phases of a job.   *)
(* What the worker may still touch (unverified) has no activation proof;   *)
(* from the stop phase to the activation every such switch is stopped      *)
(* unless its own future is in the middle of a call; every other primary   *)
(* of the plan has kept its proof; and whatever link still has to be       *)
(* raised belongs to switches and groups that are among the stopped ones.  *)
(***************************************************************************)
EXTENDS FabricReconciliation, TLAPS

IsOff(s) == sw[s].on = FALSE /\ sw[s].running = FALSE
IsLive(s) == sw[s].on = TRUE /\ sw[s].running = TRUE /\ sw[s].live = sw[s].stored

\* Phases between the marking and the first start of a controller.
Preparing == {"stop", "isolate", "stage", "links", "verify_links"}

\* What the worker may touch is not proven, and proofs come from plans.
Withdrawn == \A p \in proofs : p.primary \in p.members /\ p.primary \notin job.unverified

\* The futures that run are those of unverified controllers, except that the
\* links of all switches are written and all groups are polled.
Futures == \A s \in Switches :
    /\ job.pc \in {"stop", "cleanup"} /\ job.step[s] # "done" => s \in job.unverified
    /\ job.pc \in {"isolate", "stage"} /\ job.step[s] # "done" => s \in job.changed
    /\ job.pc = "activate" /\ job.step[s] # "done" /\ s \in job.changed => s \in job.unverified

Marked ==
    /\ job.changed \subseteq Primaries
    /\ job.pc \in Preparing => job.changed \subseteq job.unverified

\* Where an unverified controller is at each step of its phase.
Prepared(s) ==
    /\ job.pc = "stop" =>
          /\ job.step[s] = "stopping" => sw[s].on = FALSE
          /\ job.step[s] = "done" /\ job.error = FALSE => IsOff(s)
    /\ job.pc = "stage" =>
          /\ job.step[s] = "start" => IsOff(s)
          /\ job.step[s] = "stopping" => sw[s].on = FALSE
          /\ job.step[s] = "done" /\ job.error = FALSE => IsOff(s)
    /\ job.pc \in {"isolate", "links", "verify_links"} => IsOff(s)

Activating(s) == job.pc = "activate" =>
    /\ job.step[s] = "start" => IsOff(s)
    /\ job.step[s] = "poll" => IsLive(s)
    /\ job.step[s] = "done" /\ job.error = FALSE => Proven(s)

Stops == \A s \in Switches :
    (s \in job.unverified => Prepared(s)) /\ (s \in job.changed => Activating(s))

\* A primary of the plan that is not changed keeps its proof; at the
\* verification all of them have one.
Keeps == \A s \in Primaries :
    /\ job.pc \in Preparing \cup {"activate"} /\ s \notin job.changed => Proven(s)
    /\ job.pc = "verify" => Proven(s)

\* Links to be raised are those of stopped controllers and groups.
Raised(s) == ~LinksMatch(s) /\ Target(s) # "down" =>
    s \in job.unverified /\ \A g \in job.plan.groups : s \in g.members => g.primary \in job.unverified
Drifts == job.pc \in Preparing => \A s \in Switches : Raised(s)

IInv == TypeOK /\ Withdrawn /\ Futures /\ Marked /\ Stops /\ Keeps /\ Drifts /\ ProofIsTrue

\* The steps of LinksMoveUnderStop.
LinkStep == \A s \in Switches :
    sw'[s].applied # sw[s].applied /\ sw'[s].applied # "down" =>
        /\ ~sw[s].running
        /\ \A g \in job.plan.groups : s \in g.members => ~sw[g.primary].running

Jobs == [n: 1..MaxJobs, pc: Over \cup Phases, plan: Plans, changed: SUBSET Switches,
         matches: SUBSET Switches, drift: SUBSET Switches, unverified: SUBSET Switches,
         pending: SUBSET Switches, step: [Switches -> Steps], error: BOOLEAN]

-----------------------------------------------------------------------------
(* The plan and the switch *)

(* GroupOf chooses a group of the plan with the primary asked for, and      *)
(* plan_layout puts a primary among the switches of its own group only.     *)
LEMMA GroupOfPrimary ==
    ASSUME job \in Jobs, NEW s \in Primaries
    PROVE  /\ GroupOf(s) \in job.plan.groups /\ GroupOf(s) \in Groups
           /\ GroupOf(s).primary = s /\ s \in GroupOf(s).members /\ s \in Switches
           /\ \A g \in job.plan.groups : s \in g.members => g.primary = s
<1>1. job.plan \in Plans
  BY DEF Jobs
<1>2. job.plan.groups \subseteq Groups
  BY <1>1, PlansAssumption
<1>3. PICK g \in job.plan.groups : g.primary = s
  BY DEF Primaries
<1>4. GroupOf(s) \in job.plan.groups /\ GroupOf(s).primary = s
  BY <1>3 DEF GroupOf
<1>5. GroupOf(s) \in Groups /\ s \in GroupOf(s).members /\ s \in Switches
  BY <1>1, <1>2, <1>4, PlansAssumption DEF Groups
<1>6. ASSUME NEW h \in job.plan.groups, s \in h.members PROVE h.primary = s
  <2>1. GroupOf(s).members \cap h.members # {}
    BY <1>5, <1>6
  <2>2. GroupOf(s) = h
    BY <2>1, <1>1, <1>4, PlansAssumption
  <2> QED BY <2>2, <1>4
<1> QED BY <1>4, <1>5, <1>6

(* Saving, starting and stopping write no link: startup at most becomes     *)
(* what is applied.                                                         *)
LEMMA SavedFacts ==
    ASSUME NEW r \in SwitchStates
    PROVE  /\ Saved(r) \in SwitchStates /\ Saved(r).applied = r.applied
           /\ Saved(r).startup = r.applied /\ Saved(r).on = r.on
           /\ Saved(r).running = r.running /\ Saved(r).live = r.live
           /\ Saved(r).stored = r.stored
BY Zenon DEF Saved, SwitchStates

LEMMA StoppedFacts ==
    ASSUME NEW r \in SwitchStates
    PROVE  /\ Stopped(r) \in SwitchStates /\ Stopped(r).applied = r.applied
           /\ Stopped(r).startup \in {r.startup, r.applied} /\ Stopped(r).on = FALSE
           /\ Stopped(r).running = r.running
<1> DEFINE t == [r EXCEPT !.on = FALSE]
<1>1. /\ t \in SwitchStates /\ t.applied = r.applied /\ t.on = FALSE
      /\ t.running = r.running
  BY Zenon DEF SwitchStates
<1>2. Stopped(r) = r \/ Stopped(r) = Saved(t)
  BY DEF Stopped
<1>3. Stopped(r) = r => r.on = FALSE
  <2> HAVE Stopped(r) = r
  <2>1. CASE ~r.on /\ ~r.saved
    BY <2>1 DEF SwitchStates
  <2>2. CASE ~(~r.on /\ ~r.saved)
    <3> HIDE DEF t
    <3>1. r = Saved(t)
      BY <2>2 DEF Stopped, t
    <3> QED BY <3>1, <1>1, SavedFacts
  <2> QED BY Zenon, <2>1, <2>2
<1> HIDE DEF t
<1> QED BY <1>1, <1>2, <1>3, SavedFacts

(* A controller that is started from a stop runs what is stored.            *)
LEMMA StartedFacts ==
    ASSUME NEW r \in SwitchStates
    PROVE  /\ Started(r) \in SwitchStates /\ Started(r).applied = r.applied
           /\ Started(r).startup \in {r.startup, r.applied}
           /\ Started(r).on = TRUE
           /\ ~r.on => Started(r).running = TRUE
           /\ ~r.on /\ ~r.running => Started(r).live = Started(r).stored
<1> DEFINE t == [r EXCEPT !.on = TRUE, !.running = TRUE,
                          !.live = IF r.running THEN @ ELSE r.stored]
<1>1. /\ t \in SwitchStates /\ t.applied = r.applied /\ t.on = TRUE /\ t.running = TRUE
      /\ ~r.running => t.live = t.stored
  BY Zenon DEF SwitchStates
<1>2. CASE r.on
  BY <1>2 DEF Started, SwitchStates
<1>3. CASE ~r.on
  <2>1. Started(r) = Saved(t)
    BY <1>3 DEF Started
  <2> HIDE DEF t
  <2> QED BY <1>1, <1>3, <2>1, SavedFacts
<1> QED BY Zenon, <1>2, <1>3

-----------------------------------------------------------------------------
(* One step of the future of switch s *)

Stepped(s, x, e) ==
    /\ job' \in Jobs /\ job'.pc = job.pc /\ job'.plan = job.plan
    /\ job'.changed = job.changed /\ job'.unverified = job.unverified
    /\ job'.step = [job.step EXCEPT ![s] = x] /\ job'.error = e

Advances(s, r, x, e) ==
    /\ Stepped(s, x, e) /\ sw' = [sw EXCEPT ![s] = r] /\ UNCHANGED <<proofs, cancelled>>
    /\ events' \in 0..MaxEvents

LEMMA GotoSteps ==
    ASSUME job \in Jobs, NEW s \in Switches, NEW x \in Steps, job' = Goto(s, x)
    PROVE  Stepped(s, x, job.error)
BY DEF Jobs, Goto, Stepped

LEMMA FailedSteps ==
    ASSUME job \in Jobs, NEW s \in Switches, job' = Failed(s)
    PROVE  Stepped(s, "done", TRUE)
BY Zenon DEF Jobs, Failed, Stepped, Steps

(* A call that succeeds leaves the switch as r and the future at its next   *)
(* step; one that fails leaves the switch as it was, as r or in between,    *)
(* and ends the future with an error.                                       *)
LEMMA CallAdvances ==
    ASSUME TypeOK, NEW s \in Switches, NEW half \in SwitchStates, NEW r \in SwitchStates,
           NEW next \in Steps, Call(s, half, r, next), UNCHANGED cancelled
    PROVE  \/ Advances(s, r, next, job.error)
           \/ \E y \in {sw[s], half, r} : Advances(s, y, "done", TRUE)
<1>1. job \in Jobs /\ sw = [sw EXCEPT ![s] = sw[s]] /\ events \in 0..MaxEvents
  BY DEF TypeOK, Jobs
<1>2. CASE sw' = Set(s, r) /\ job' = Goto(s, next) /\ UNCHANGED events
  BY Zenon, <1>1, <1>2, GotoSteps DEF Call, Advances, Set
<1>3. CASE sw' \in {sw, Set(s, half), Set(s, r)} /\ job' = Failed(s) /\ Event
  <2>1. events' \in 0..MaxEvents
    BY <1>1, <1>3, BoundsAssumption DEF Event
  <2>2. Stepped(s, "done", TRUE)
    BY Zenon, <1>1, <1>3, FailedSteps
  <2>3. \E y \in {sw[s], half, r} : sw' = [sw EXCEPT ![s] = y]
    BY <1>1, <1>3 DEF Set
  <2> QED BY Zenon, <2>1, <2>2, <2>3 DEF Call, Advances
<1> QED BY Zenon, <1>2, <1>3 DEF Call

LEMMA CheckAdvances ==
    ASSUME TypeOK, NEW s \in Switches, NEW ok \in BOOLEAN, NEW next \in Steps,
           Check(s, ok, next), UNCHANGED cancelled
    PROVE  \/ ok = TRUE /\ Advances(s, sw[s], next, job.error)
           \/ ok = FALSE /\ Advances(s, sw[s], "done", TRUE)
<1>1. job \in Jobs /\ sw = [sw EXCEPT ![s] = sw[s]] /\ events \in 0..MaxEvents
  BY DEF TypeOK, Jobs
<1> QED BY Zenon, <1>1, GotoSteps, FailedSteps DEF Check, Advances

LEMMA SkipAdvances ==
    ASSUME TypeOK, NEW s \in Switches, Skip(s), UNCHANGED cancelled
    PROVE  Advances(s, sw[s], "done", TRUE)
<1>1. job \in Jobs /\ sw = [sw EXCEPT ![s] = sw[s]] /\ events \in 0..MaxEvents
  BY DEF TypeOK, Jobs
<1> QED BY Zenon, <1>1, FailedSteps DEF Skip, Advances

\* What links a call may touch: none, or startup becomes what is applied.
KeepsLinks(s, r) == r.applied = sw[s].applied /\ r.startup \in {sw[s].startup, sw[s].applied}
KeepsController(s, r) ==
    r.on = sw[s].on /\ r.running = sw[s].running /\ r.live = sw[s].live /\ r.stored = sw[s].stored

(* A step of one future preserves the invariant when it does so for its own *)
(* switch: other switches do not move, an error only weakens what is asked  *)
(* of them, and proofs of s are there only when s is not unverified.        *)
LEMMA FutureFrame ==
    ASSUME IInv, NEW s \in Switches, NEW r \in SwitchStates, NEW x \in Steps,
           NEW e \in {job.error, TRUE}, Advances(s, r, x, e), job.step[s] # "done",
           s \in job.unverified \/ KeepsController(s, r),
           s \in job.unverified => Prepared(s)',
           s \in job.changed => Activating(s)',
           job.pc \in Preparing => Raised(s)'
    PROVE  IInv'
<1>1. /\ sw \in [Switches -> SwitchStates] /\ proofs \subseteq Groups /\ job \in Jobs
      /\ job.step \in [Switches -> Steps] /\ job.error \in BOOLEAN
  BY DEF IInv, TypeOK, Jobs
<1>2. /\ job'.pc = job.pc /\ job'.plan = job.plan /\ job'.changed = job.changed
      /\ job'.unverified = job.unverified /\ job'.error = e
      /\ job'.step[s] = x /\ proofs' = proofs /\ job' \in Jobs
      /\ sw'[s] = r
  BY <1>1 DEF Advances, Stepped
<1>3. ASSUME NEW u \in Switches, u # s
      PROVE  sw'[u] = sw[u] /\ job'.step[u] = job.step[u]
  BY <1>1, <1>3 DEF Advances, Stepped
<1>4. TypeOK'
  BY <1>1, <1>2 DEF IInv, TypeOK, Advances, Stepped, Jobs
<1>5. Withdrawn'
  BY <1>2 DEF IInv, Withdrawn
<1>6. Primaries' = Primaries
  BY <1>2 DEF Primaries
<1>7. Futures'
  BY <1>2, <1>3 DEF IInv, Futures
<1>8. Marked'
  BY <1>2, <1>6 DEF IInv, Marked
<1>9. \A u : GroupOf(u)' = GroupOf(u) /\ Target(u)' = Target(u) /\ Proven(u)' = Proven(u)
  BY <1>2 DEF GroupOf, Target, Proven
<1>10. Stops'
  <2>1. ASSUME NEW u \in Switches, u # s, u \in job.unverified PROVE Prepared(u)'
    BY Zenon, <1>1, <1>2, <1>3, <2>1 DEF IInv, Stops, Prepared, IsOff
  <2>2. ASSUME NEW u \in Switches, u # s, u \in job.changed PROVE Activating(u)'
    BY Zenon, <1>1, <1>2, <1>3, <1>9, <2>2 DEF IInv, Stops, Activating, IsOff, IsLive
  <2> QED BY <1>2, <2>1, <2>2 DEF Stops
<1>11. Keeps'
  BY <1>2, <1>6, <1>9 DEF IInv, Keeps
<1>12. Drifts'
  BY <1>2, <1>3, <1>9 DEF IInv, Drifts, Raised, LinksMatch
<1>13. ProofIsTrue'
  <2> SUFFICES ASSUME NEW p \in proofs
              PROVE  sw'[p.primary].on /\ sw'[p.primary].running /\ sw'[p.primary].live = p.config
    BY <1>2 DEF ProofIsTrue
  <2>1. /\ p.primary \in Switches /\ p.primary \notin job.unverified
        /\ sw[p.primary].on /\ sw[p.primary].running /\ sw[p.primary].live = p.config
    BY <1>1 DEF IInv, Withdrawn, ProofIsTrue, Groups
  <2> QED BY <1>2, <1>3, <2>1 DEF KeepsController
<1> QED BY <1>4, <1>5, <1>7, <1>8, <1>10, <1>11, <1>12, <1>13 DEF IInv

(* A call that writes no link leaves nothing more to be raised.             *)
LEMMA LinksKept ==
    ASSUME TypeOK, NEW s \in Switches, NEW r \in SwitchStates, NEW x, NEW e,
           Advances(s, r, x, e), KeepsLinks(s, r)
    PROVE  (Raised(s) => Raised(s)') /\ LinkStep
<1>1. /\ sw'[s] = r /\ job'.plan = job.plan /\ job'.unverified = job.unverified
      /\ \A u \in Switches : u # s => sw'[u] = sw[u]
  BY DEF TypeOK, Advances, Stepped
<1>2. LinkStep
  BY <1>1 DEF LinkStep, KeepsLinks
<1>3. Raised(s) => Raised(s)'
  BY <1>1 DEF Raised, LinksMatch, Target, KeepsLinks
<1> QED BY <1>2, <1>3

-----------------------------------------------------------------------------
(* The calls of the futures: the outcome of success, and that of a failure.  *)

LEMMA DisableAdvances ==
    ASSUME TypeOK, NEW s \in Switches, NEW next \in Steps, Disable(s, next), UNCHANGED cancelled
    PROVE  \/ \E r \in SwitchStates :
                 Advances(s, r, next, job.error) /\ KeepsLinks(s, r) /\ r.on = FALSE
           \/ \E r \in SwitchStates : Advances(s, r, "done", TRUE) /\ KeepsLinks(s, r)
<1> DEFINE half == [sw[s] EXCEPT !.on = FALSE]
           full == Stopped(sw[s])
<1>1. sw[s] \in SwitchStates
  BY DEF TypeOK
<1>2. /\ half \in SwitchStates /\ KeepsLinks(s, half)
  BY Zenon, <1>1 DEF SwitchStates, KeepsLinks
<1>3. /\ full \in SwitchStates /\ KeepsLinks(s, full) /\ full.on = FALSE
  BY Zenon, <1>1, StoppedFacts DEF KeepsLinks
<1>4. Call(s, half, full, next)
  BY DEF Disable
<1>5. KeepsLinks(s, sw[s])
  BY DEF KeepsLinks
<1> HIDE DEF half, full
<1>6. \/ Advances(s, full, next, job.error)
      \/ \E y \in {sw[s], half, full} : Advances(s, y, "done", TRUE)
  BY Zenon, <1>2, <1>3, <1>4, CallAdvances
<1> QED BY Zenon, <1>1, <1>2, <1>3, <1>5, <1>6

LEMMA EnableAdvances ==
    ASSUME TypeOK, NEW s \in Switches, NEW next \in Steps, Enable(s, next), IsOff(s),
           UNCHANGED cancelled
    PROVE  \/ \E r \in SwitchStates :
                 /\ Advances(s, r, next, job.error) /\ KeepsLinks(s, r)
                 /\ r.on = TRUE /\ r.running = TRUE /\ r.live = r.stored
           \/ \E r \in SwitchStates : Advances(s, r, "done", TRUE) /\ KeepsLinks(s, r)
<1> DEFINE full == Started(sw[s])
           half == [full EXCEPT !.startup = sw[s].startup, !.saved = sw[s].saved]
<1>1. sw[s] \in SwitchStates
  BY DEF TypeOK
<1>2. /\ full \in SwitchStates /\ KeepsLinks(s, full)
      /\ full.on = TRUE /\ full.running = TRUE /\ full.live = full.stored
  BY Zenon, <1>1, StartedFacts DEF KeepsLinks, IsOff
<1>3. /\ half \in SwitchStates /\ KeepsLinks(s, half)
  <2> HIDE DEF full
  <2> QED BY Zenon, <1>1, <1>2 DEF SwitchStates, KeepsLinks
<1>4. Call(s, half, full, next)
  BY DEF Enable
<1>5. KeepsLinks(s, sw[s])
  BY DEF KeepsLinks
<1> HIDE DEF half, full
<1>6. \/ Advances(s, full, next, job.error)
      \/ \E y \in {sw[s], half, full} : Advances(s, y, "done", TRUE)
  BY Zenon, <1>2, <1>3, <1>4, CallAdvances
<1> QED BY Zenon, <1>1, <1>2, <1>3, <1>5, <1>6

LEMMA SaveAdvances ==
    ASSUME TypeOK, NEW s \in Switches, NEW next \in Steps, Save(s, next), UNCHANGED cancelled
    PROVE  \E r \in SwitchStates :
              /\ KeepsLinks(s, r) /\ KeepsController(s, r)
              /\ Advances(s, r, next, job.error) \/ Advances(s, r, "done", TRUE)
<1> DEFINE full == Saved(sw[s])
<1>1. sw[s] \in SwitchStates
  BY DEF TypeOK
<1>2. full \in SwitchStates /\ KeepsLinks(s, full) /\ KeepsController(s, full)
  BY <1>1, SavedFacts DEF KeepsLinks, KeepsController
<1>3. KeepsLinks(s, sw[s]) /\ KeepsController(s, sw[s])
  BY DEF KeepsLinks, KeepsController
<1>4. Call(s, sw[s], full, next)
  BY DEF Save
<1> HIDE DEF full
<1>5. \/ Advances(s, full, next, job.error)
      \/ \E y \in {sw[s], sw[s], full} : Advances(s, y, "done", TRUE)
  BY Zenon, <1>1, <1>2, <1>4, CallAdvances
<1> QED BY Zenon, <1>1, <1>2, <1>3, <1>5

(* Links are written only where they differ, applied first.                 *)
LEMMA ApplyAdvances ==
    ASSUME TypeOK, NEW s \in Switches, NEW target \in Links, Apply(s, target),
           UNCHANGED cancelled
    PROVE  \E r \in SwitchStates :
              /\ KeepsController(s, r)
              /\ \/ Advances(s, r, "done", job.error) \/ Advances(s, r, "done", TRUE)
                 \/ Advances(s, r, "save", job.error)
              /\ \/ KeepsLinks(s, r)
                 \/ /\ ~(sw[s].applied = target /\ sw[s].startup = target)
                    /\ r.applied = target /\ r.startup = sw[s].startup
<1> DEFINE full == [sw[s] EXCEPT !.applied = target]
<1>1. sw[s] \in SwitchStates /\ "done" \in Steps /\ "save" \in Steps
  BY DEF TypeOK, Steps
<1>2. /\ full \in SwitchStates /\ KeepsController(s, full)
      /\ full.applied = target /\ full.startup = sw[s].startup
  BY <1>1 DEF SwitchStates, KeepsController
<1>3. KeepsLinks(s, sw[s]) /\ KeepsController(s, sw[s])
  BY DEF KeepsLinks, KeepsController
<1>4. CASE sw[s].applied = target /\ sw[s].startup = target
  <2>1. Check(s, TRUE, "done")
    BY Zenon, <1>4 DEF Apply
  <2>2. Advances(s, sw[s], "done", job.error)
    BY Zenon, <1>1, <2>1, CheckAdvances
  <2> QED BY Zenon, <1>1, <1>3, <2>2
<1>5. CASE ~(sw[s].applied = target /\ sw[s].startup = target)
  <2>1. Call(s, sw[s], full, "save")
    BY Zenon, <1>5 DEF Apply
  <2> HIDE DEF full
  <2>2. \/ Advances(s, full, "save", job.error)
        \/ \E y \in {sw[s], sw[s], full} : Advances(s, y, "done", TRUE)
    BY Zenon, <1>1, <1>2, <2>1, CallAdvances
  <2> QED BY Zenon, <1>1, <1>2, <1>3, <1>5, <2>2
<1> QED BY Zenon, <1>4, <1>5

-----------------------------------------------------------------------------
(* The actions of the futures *)

LEMMA AdvancesFacts ==
    ASSUME TypeOK, NEW s \in Switches, NEW r, NEW x, NEW e, Advances(s, r, x, e)
    PROVE  /\ job'.pc = job.pc /\ job'.step[s] = x /\ job'.error = e /\ sw'[s] = r
           /\ job'.plan = job.plan /\ job'.unverified = job.unverified
BY DEF TypeOK, Advances, Stepped

LEMMA FutureKeepsLinks ==
    ASSUME IInv, NEW s \in Switches, NEW r \in SwitchStates, NEW x \in Steps,
           NEW e \in {job.error, TRUE}, Advances(s, r, x, e), job.step[s] # "done",
           s \in job.unverified \/ KeepsController(s, r), KeepsLinks(s, r),
           s \in job.unverified => Prepared(s)',
           s \in job.changed => Activating(s)'
    PROVE  IInv' /\ LinkStep
<1>1. (Raised(s) => Raised(s)') /\ LinkStep
  BY LinksKept DEF IInv
<1>2. job.pc \in Preparing => Raised(s)'
  BY <1>1 DEF IInv, Drifts
<1>3. IInv'
  BY Zenon, <1>2, FutureFrame
<1> QED BY <1>1, <1>3

(* A future that ends with an error is asked for nothing more, except in    *)
(* the phases that move no controller.                                      *)
LEMMA FailureKeeps ==
    ASSUME IInv, NEW s \in Switches, NEW r \in SwitchStates,
           Advances(s, r, "done", TRUE), job.step[s] # "done", KeepsLinks(s, r),
           \/ s \in job.unverified /\ job.pc \notin {"isolate", "links", "verify_links"}
           \/ KeepsController(s, r)
    PROVE  IInv' /\ LinkStep
<1>1. TypeOK /\ "done" \in Steps
  BY DEF IInv, Steps
<1>2. job'.pc = job.pc /\ job'.step[s] = "done" /\ job'.error = TRUE /\ sw'[s] = r
  BY Zenon, <1>1, AdvancesFacts
<1>3. s \in job.unverified => Prepared(s)'
  BY <1>2 DEF IInv, Stops, Prepared, IsOff, KeepsController
<1>4. s \in job.changed => Activating(s)'
  BY <1>2 DEF Activating
<1> QED BY Zenon, <1>1, <1>3, <1>4, FutureKeepsLinks

(* A check moves nothing but its future.                                    *)
LEMMA CheckKeeps ==
    ASSUME IInv, NEW s \in Switches, NEW ok \in BOOLEAN, NEW next \in Steps,
           Check(s, ok, next), UNCHANGED cancelled, job.step[s] # "done",
           ok /\ s \in job.unverified /\ job.pc = "stop" => next = "done" /\ IsOff(s),
           ok /\ s \in job.unverified /\ job.pc = "stage" => next = "done" /\ IsOff(s),
           s \in job.changed => job.pc # "activate"
    PROVE  IInv' /\ LinkStep
<1>1. TypeOK /\ sw[s] \in SwitchStates
  BY DEF IInv, TypeOK
<1>2. KeepsLinks(s, sw[s]) /\ KeepsController(s, sw[s])
  BY DEF KeepsLinks, KeepsController
<1>3. CASE ok = FALSE /\ Advances(s, sw[s], "done", TRUE)
  BY Zenon, <1>1, <1>2, <1>3, FailureKeeps
<1>4. CASE ok = TRUE /\ Advances(s, sw[s], next, job.error)
  <2>1. job'.pc = job.pc /\ job'.step[s] = next /\ sw'[s] = sw[s]
    BY <1>1, <1>4, AdvancesFacts
  <2>2. s \in job.unverified => Prepared(s)'
    BY <1>4, <2>1 DEF IInv, Stops, Prepared, IsOff
  <2>3. s \in job.changed => Activating(s)'
    BY <2>1 DEF Activating
  <2> QED BY Zenon, <1>1, <1>2, <1>4, <2>2, <2>3, FutureKeepsLinks
<1> QED BY Zenon, <1>1, <1>3, <1>4, CheckAdvances

LEMMA SkipKeeps ==
    ASSUME IInv, NEW s \in Switches, Skip(s), UNCHANGED cancelled, job.step[s] # "done"
    PROVE  IInv' /\ LinkStep
<1>1. TypeOK /\ sw[s] \in SwitchStates
  BY DEF IInv, TypeOK
<1>2. KeepsLinks(s, sw[s]) /\ KeepsController(s, sw[s])
  BY DEF KeepsLinks, KeepsController
<1> QED BY Zenon, <1>1, <1>2, SkipAdvances, FailureKeeps

LEMMA SaveKeeps ==
    ASSUME IInv, NEW s \in Switches, NEW next \in Steps, Save(s, next), UNCHANGED cancelled,
           job.step[s] # "done", job.pc \in {"isolate", "links", "cleanup"}
    PROVE  IInv' /\ LinkStep
<1>1. TypeOK
  BY DEF IInv
<1>2. PICK r \in SwitchStates :
              /\ KeepsLinks(s, r) /\ KeepsController(s, r)
              /\ Advances(s, r, next, job.error) \/ Advances(s, r, "done", TRUE)
  BY Zenon, <1>1, SaveAdvances
<1>3. CASE Advances(s, r, next, job.error)
  <2>1. job'.pc = job.pc /\ sw'[s] = r
    BY <1>1, <1>3, AdvancesFacts
  <2>2. s \in job.unverified => Prepared(s)'
    BY <1>2, <2>1 DEF IInv, Stops, Prepared, IsOff, KeepsController
  <2>3. s \in job.changed => Activating(s)'
    BY <2>1 DEF Activating
  <2> QED BY Zenon, <1>2, <1>3, <2>2, <2>3, FutureKeepsLinks
<1>4. CASE Advances(s, r, "done", TRUE)
  BY Zenon, <1>2, <1>4, FailureKeeps
<1> QED BY Zenon, <1>2, <1>3, <1>4

(* stop_cluster_controller of an unverified controller; its wait follows.   *)
LEMMA DisableKeeps ==
    ASSUME IInv, NEW s \in Switches, Disable(s, "stopping"), UNCHANGED cancelled,
           job.step[s] # "done", s \in job.unverified, job.pc \in {"stop", "stage", "cleanup"}
    PROVE  IInv' /\ LinkStep
<1>1. TypeOK /\ "stopping" \in Steps
  BY DEF IInv, Steps
<1>2. ASSUME NEW r \in SwitchStates, Advances(s, r, "stopping", job.error), KeepsLinks(s, r),
             r.on = FALSE
      PROVE  IInv' /\ LinkStep
  <2>1. job'.pc = job.pc /\ job'.step[s] = "stopping" /\ sw'[s] = r
    BY <1>1, <1>2, AdvancesFacts
  <2>2. Prepared(s)'
    BY <1>2, <2>1 DEF Prepared
  <2>3. Activating(s)'
    BY <2>1 DEF Activating
  <2> QED BY Zenon, <1>1, <1>2, <2>2, <2>3, FutureKeepsLinks
<1>3. ASSUME NEW r \in SwitchStates, Advances(s, r, "done", TRUE), KeepsLinks(s, r)
      PROVE  IInv' /\ LinkStep
  BY Zenon, <1>3, FailureKeeps
<1> QED BY Zenon, <1>1, <1>2, <1>3, DisableAdvances

(* A write of links moves no controller, so it keeps the invariant when it  *)
(* leaves nothing to raise outside the stopped groups.                      *)
LEMMA ApplyKeeps ==
    ASSUME IInv, NEW s \in Switches, NEW target \in Links, Apply(s, target),
           UNCHANGED cancelled, job.step[s] # "done", job.pc \in {"isolate", "links", "cleanup"},
           \/ target = "down" /\ job.pc # "links"
           \/ target = Target(s) /\ job.pc = "links",
           job.pc = "isolate" => s \in job.changed
    PROVE  IInv' /\ LinkStep
<1>1. TypeOK /\ job \in Jobs /\ {"done", "save"} \subseteq Steps
  BY DEF IInv, TypeOK, Jobs, Steps
<1>2. PICK r \in SwitchStates :
              /\ KeepsController(s, r)
              /\ \/ Advances(s, r, "done", job.error) \/ Advances(s, r, "done", TRUE)
                 \/ Advances(s, r, "save", job.error)
              /\ \/ KeepsLinks(s, r)
                 \/ /\ ~(sw[s].applied = target /\ sw[s].startup = target)
                    /\ r.applied = target /\ r.startup = sw[s].startup
  BY Zenon, <1>1, ApplyAdvances
<1>3. PICK x \in {"done", "save"}, e \in {job.error, TRUE} : Advances(s, r, x, e)
  BY Zenon, <1>2
<1>4. /\ job'.pc = job.pc /\ sw'[s] = r /\ job'.plan = job.plan
      /\ job'.unverified = job.unverified
  BY <1>1, <1>3, AdvancesFacts
<1>5. s \in job.unverified => Prepared(s)'
  BY <1>2, <1>4 DEF IInv, Stops, Prepared, IsOff, KeepsController
<1>6. s \in job.changed => Activating(s)'
  BY <1>4 DEF Activating
<1>7. CASE KeepsLinks(s, r)
  BY Zenon, <1>1, <1>2, <1>3, <1>5, <1>6, <1>7, FutureKeepsLinks
<1>8. CASE /\ ~(sw[s].applied = target /\ sw[s].startup = target)
           /\ r.applied = target /\ r.startup = sw[s].startup
  <2>1. \A u \in Switches : u # s => sw'[u] = sw[u]
    BY <1>1, <1>3 DEF Advances, TypeOK
  <2>2. job.pc = "isolate" => Raised(s)'
    <3> HAVE job.pc = "isolate"
    <3>1. s \in Primaries /\ s \in job.unverified
      BY DEF IInv, Marked, Preparing
    <3>2. \A g \in job.plan.groups : s \in g.members => g.primary = s
      BY <1>1, <3>1, GroupOfPrimary
    <3> QED BY <1>4, <3>1, <3>2 DEF Raised
  <2>3. job.pc = "links" /\ target = Target(s) => Raised(s)' /\ LinkStep
    <3> HAVE job.pc = "links" /\ target = Target(s)
    <3>1. Raised(s)
      BY DEF IInv, Drifts, Preparing
    <3>2. ~LinksMatch(s)
      BY <1>8 DEF LinksMatch
    <3>3. Target(s) # "down" =>
             s \in job.unverified /\ \A g \in job.plan.groups : s \in g.members => g.primary \in job.unverified
      BY <3>1, <3>2 DEF Raised
    <3>4. Raised(s)'
      BY <1>4, <3>3 DEF Raised, Target
    <3>5. \A u \in job.unverified : ~sw[u].running
      BY <1>1 DEF IInv, Stops, Prepared, IsOff, Jobs
    <3> QED BY <1>4, <1>8, <2>1, <3>3, <3>4, <3>5 DEF LinkStep
  <2>4. target = "down" => LinkStep
    BY <1>4, <1>8, <2>1 DEF LinkStep
  <2>5. job.pc \in Preparing => Raised(s)'
    BY <2>2, <2>3 DEF Preparing
  <2> QED BY Zenon, <1>1, <1>2, <1>3, <1>5, <1>6, <2>3, <2>4, <2>5, FutureFrame
<1> QED BY <1>2, <1>7, <1>8

(* The controllers are stopped one by one, each until it no longer runs.    *)
LEMMA StopControllerKeeps ==
    ASSUME IInv, NEW s \in Switches, StopController(s)
    PROVE  IInv' /\ LinkStep
<1>1. job.pc = "stop" /\ UNCHANGED cancelled /\ job.step[s] # "done" /\ s \in job.unverified
  BY DEF StopController, At, IInv, Futures
<1>2. CASE Skip(s)
  BY <1>1, <1>2, SkipKeeps
<1>3. CASE Disable(s, "stopping")
  BY <1>1, <1>3, DisableKeeps
<1>4. CASE job.step[s] = "stopping" /\ Check(s, ~sw[s].running, "done")
  <2>1. sw[s].on = FALSE /\ sw[s].running \in BOOLEAN /\ "done" \in Steps
    BY <1>1, <1>4 DEF IInv, Stops, Prepared, TypeOK, SwitchStates, Steps
  <2>2. ~sw[s].running => IsOff(s)
    BY <2>1 DEF IsOff
  <2> DEFINE ok == ~sw[s].running
  <2>3. ok \in BOOLEAN /\ Check(s, ok, "done") /\ (ok => IsOff(s))
    BY <1>4, <2>1, <2>2
  <2> HIDE DEF ok
  <2> QED BY <1>1, <2>1, <2>3, CheckKeeps
<1> QED BY <1>1, <1>2, <1>3, <1>4 DEF StopController, At

LEMMA IsolateKeeps ==
    ASSUME IInv, NEW s \in Switches, Isolate(s)
    PROVE  IInv' /\ LinkStep
<1>1. job.pc = "isolate" /\ UNCHANGED cancelled /\ job.step[s] # "done" /\ s \in job.changed
  BY DEF Isolate, At, IInv, Futures
<1>2. "done" \in Steps /\ "down" \in Links
  BY BoundsAssumption DEF Steps
<1>3. CASE Skip(s)
  BY <1>1, <1>3, SkipKeeps
<1>4. CASE Apply(s, "down")
  BY <1>1, <1>2, <1>4, ApplyKeeps
<1>5. CASE Save(s, "done")
  BY <1>1, <1>2, <1>5, SaveKeeps
<1> QED BY <1>3, <1>4, <1>5 DEF Isolate

(* Settings are written on a controller that is started for it from a stop  *)
(* and stopped again.                                                       *)
LEMMA StageKeeps ==
    ASSUME IInv, NEW s \in Switches, Stage(s)
    PROVE  IInv' /\ LinkStep
<1>1. /\ job.pc = "stage" /\ UNCHANGED cancelled /\ job.step[s] # "done"
      /\ s \in job.changed /\ s \in job.unverified
  BY DEF Stage, At, IInv, Futures, Marked, Preparing
<1>2. {"done", "write", "stop"} \subseteq Steps /\ TypeOK /\ sw[s] \in SwitchStates
  BY DEF Steps, IInv, TypeOK
<1>3. CASE Skip(s)
  BY <1>1, <1>3, SkipKeeps
<1>4. ASSUME NEW r \in SwitchStates, NEW x \in {"write", "stop"},
             Advances(s, r, x, job.error), KeepsLinks(s, r)
      PROVE  IInv' /\ LinkStep
  <2>1. job'.pc = job.pc /\ job'.step[s] = x /\ sw'[s] = r
    BY <1>2, <1>4, AdvancesFacts
  <2>2. Prepared(s)' /\ Activating(s)'
    BY <1>1, <1>4, <2>1 DEF Prepared, Activating
  <2> QED BY Zenon, <1>1, <1>2, <1>4, <2>2, FutureKeepsLinks
<1>5. ASSUME NEW r \in SwitchStates, Advances(s, r, "done", TRUE), KeepsLinks(s, r)
      PROVE  IInv' /\ LinkStep
  BY Zenon, <1>1, <1>5, FailureKeeps
<1>6. CASE job.step[s] = "start" /\ Enable(s, "write")
  <2>1. IsOff(s)
    BY <1>1, <1>6 DEF IInv, Stops, Prepared
  <2> QED BY Zenon, <1>1, <1>2, <1>4, <1>5, <1>6, <2>1, EnableAdvances
<1>7. CASE Call(s, sw[s], [sw[s] EXCEPT !.stored = GroupOf(s).config], "stop")
  <2> DEFINE full == [sw[s] EXCEPT !.stored = GroupOf(s).config]
  <2>1. GroupOf(s) \in Groups
    BY <1>1, GroupOfPrimary DEF IInv, Marked, TypeOK, Jobs
  <2>2. GroupOf(s).config \in Configs
    BY <2>1 DEF Groups
  <2>3. full \in SwitchStates /\ KeepsLinks(s, full) /\ KeepsLinks(s, sw[s])
    BY <1>2, <2>2 DEF SwitchStates, KeepsLinks
  <2>4. Call(s, sw[s], full, "stop")
    BY <1>7
  <2> HIDE DEF full
  <2>5. \/ Advances(s, full, "stop", job.error)
        \/ \E y \in {sw[s], sw[s], full} : Advances(s, y, "done", TRUE)
    BY Zenon, <1>1, <1>2, <2>3, <2>4, CallAdvances
  <2> QED BY Zenon, <1>2, <1>4, <1>5, <2>3, <2>5
<1>8. CASE Disable(s, "stopping")
  BY <1>1, <1>8, DisableKeeps
<1>9. CASE job.step[s] = "stopping" /\ Check(s, ~sw[s].running, "done")
  <2>1. sw[s].on = FALSE /\ sw[s].running \in BOOLEAN
    BY <1>1, <1>2, <1>9 DEF IInv, Stops, Prepared, SwitchStates
  <2>2. ~sw[s].running => IsOff(s)
    BY <2>1 DEF IsOff
  <2> DEFINE ok == ~sw[s].running
  <2>3. ok \in BOOLEAN /\ Check(s, ok, "done") /\ (ok => IsOff(s))
    BY <1>9, <2>1, <2>2
  <2> HIDE DEF ok
  <2> QED BY <1>1, <1>2, <2>3, CheckKeeps
<1> QED BY <1>3, <1>6, <1>7, <1>8, <1>9 DEF Stage

LEMMA PrepareLinksKeeps ==
    ASSUME IInv, NEW s \in Switches, PrepareLinks(s)
    PROVE  IInv' /\ LinkStep
<1>1. job.pc = "links" /\ UNCHANGED cancelled /\ job.step[s] # "done"
  BY Zenon DEF PrepareLinks, At
<1>2. {"done", "apply"} \subseteq Steps /\ Target(s) \in Links
  BY PlansAssumption DEF Steps, IInv, TypeOK, Target
<1>3. CASE Skip(s)
  BY <1>1, <1>3, SkipKeeps
<1>4. CASE Save(s, "apply") \/ Save(s, "done")
  BY <1>1, <1>2, <1>4, SaveKeeps
<1>5. CASE Check(s, TRUE, "apply")
  BY Zenon, <1>1, <1>2, <1>5, CheckKeeps
<1>6. CASE Apply(s, Target(s))
  BY <1>1, <1>2, <1>6, ApplyKeeps
<1> QED BY Zenon, <1>3, <1>4, <1>5, <1>6 DEF PrepareLinks

(* Failure cleanup touches unverified controllers only.                     *)
LEMMA CleanUpKeeps ==
    ASSUME IInv, NEW s \in Switches, CleanUp(s)
    PROVE  IInv' /\ LinkStep
<1>1. /\ job.pc = "cleanup" /\ UNCHANGED cancelled /\ job.step[s] # "done"
      /\ s \in job.unverified
  BY DEF CleanUp, At, IInv, Futures
<1>2. {"done", "apply"} \subseteq Steps /\ "down" \in Links /\ sw[s] \in SwitchStates
  BY BoundsAssumption DEF Steps, IInv, TypeOK
<1>3. CASE Disable(s, "stopping")
  BY <1>1, <1>3, DisableKeeps
<1>4. CASE Check(s, ~sw[s].running, "apply")
  <2> DEFINE ok == ~sw[s].running
  <2>1. ok \in BOOLEAN /\ Check(s, ok, "apply")
    BY <1>4
  <2> HIDE DEF ok
  <2> QED BY <1>1, <1>2, <2>1, CheckKeeps
<1>5. CASE Apply(s, "down")
  BY <1>1, <1>2, <1>5, ApplyKeeps
<1>6. CASE Save(s, "done")
  BY <1>1, <1>2, <1>6, SaveKeeps
<1> QED BY <1>3, <1>4, <1>5, <1>6 DEF CleanUp

(* The proof that complete_group records is true: the controller was        *)
(* started from a stop, with the settings just read, by this worker.        *)
LEMMA CompleteGroupKeeps ==
    ASSUME IInv, NEW s \in Switches, job.pc = "activate", job.step[s] = "poll",
           sw[s].stored = GroupOf(s).config, CompleteGroup(s),
           UNCHANGED <<sw, events, cancelled>>
    PROVE  IInv'
<1> DEFINE new == [primary |-> s, members |-> GroupOf(s).members, config |-> GroupOf(s).config]
<1>1. TypeOK /\ job \in Jobs /\ "done" \in Steps /\ job.changed \subseteq Primaries
  BY DEF IInv, TypeOK, Jobs, Steps, Marked
<1>2. /\ job' \in Jobs /\ job'.pc = job.pc /\ job'.plan = job.plan
      /\ job'.changed = job.changed /\ job'.error = job.error
      /\ job'.unverified = job.unverified \ {s} /\ job'.step = [job.step EXCEPT ![s] = "done"]
  BY Zenon, <1>1 DEF CompleteGroup, Jobs
<1>3. s \in job.changed =>
         /\ new \in Groups /\ s \in new.members
         /\ sw[s].on /\ sw[s].running /\ sw[s].live = new.config
  <2> HAVE s \in job.changed
  <2>1. GroupOf(s) \in Groups /\ s \in GroupOf(s).members
    BY <1>1, GroupOfPrimary
  <2>2. IsLive(s)
    BY DEF IInv, Stops, Activating
  <2> QED BY <2>1, <2>2 DEF Groups, IsLive
<1>4. /\ s \in job.changed => proofs' = proofs \cup {new}
      /\ s \notin job.changed => proofs' = proofs
  BY DEF CompleteGroup
<1>5. new.primary = s /\ new.config = GroupOf(s).config
  OBVIOUS
<1> HIDE DEF new
<1>6. Primaries' = Primaries /\ \A u : GroupOf(u)' = GroupOf(u)
  BY <1>2 DEF Primaries, GroupOf
<1>7. /\ job'.step[s] = "done"
      /\ \A u \in Switches : u # s => job'.step[u] = job.step[u]
  BY <1>1, <1>2 DEF Jobs
<1>8. TypeOK'
  BY <1>1, <1>2, <1>3, <1>4 DEF TypeOK, Jobs
<1>9. Withdrawn'
  BY <1>2, <1>3, <1>4, <1>5 DEF IInv, Withdrawn
<1>10. Futures'
  BY <1>2, <1>7 DEF IInv, Futures
<1>11. Marked'
  BY <1>2, <1>6 DEF IInv, Marked, Preparing
<1>12. \A u : Proven(u) => Proven(u)'
  BY <1>4, <1>6 DEF Proven
<1>13. s \in job.changed => Proven(s)'
  BY <1>4, <1>5, <1>6 DEF Proven
<1>14. Stops'
  <2>1. ASSUME NEW u \in Switches PROVE Prepared(u)'
    BY <1>2 DEF Prepared
  <2>2. ASSUME NEW u \in job.changed, u \in Switches PROVE Activating(u)'
    <3>1. CASE u = s
      BY <1>7, <1>13, <2>2, <3>1 DEF Activating
    <3>2. CASE u # s
      BY <1>2, <1>7, <1>12, <2>2, <3>2 DEF IInv, Stops, Activating, IsOff, IsLive
    <3> QED BY <3>1, <3>2
  <2> QED BY <1>2, <2>1, <2>2 DEF Stops
<1>15. Keeps'
  BY <1>2, <1>6, <1>12 DEF IInv, Keeps
<1>16. Drifts'
  BY <1>2 DEF Drifts, Preparing
<1>17. ProofIsTrue'
  BY <1>3, <1>4, <1>5 DEF IInv, ProofIsTrue
<1> QED BY <1>8, <1>9, <1>10, <1>11, <1>14, <1>15, <1>16, <1>17 DEF IInv

LEMMA ConfigureGroupKeeps ==
    ASSUME IInv, NEW s \in Switches, ConfigureGroup(s)
    PROVE  IInv' /\ LinkStep
<1>1. job.pc = "activate" /\ UNCHANGED cancelled /\ job.step[s] # "done"
  BY Zenon DEF ConfigureGroup, At
<1>2. "poll" \in Steps /\ TypeOK /\ sw[s] \in SwitchStates /\ job \in Jobs
  BY DEF Steps, IInv, TypeOK, Jobs
<1>3. CASE Skip(s)
  BY <1>1, <1>3, SkipKeeps
<1>4. CASE job.step[s] = "start" /\ s \in job.changed /\ Enable(s, "poll")
  <2>1. IsOff(s) /\ s \in job.unverified
    BY <1>1, <1>4 DEF IInv, Stops, Activating, Futures
  <2>2. ASSUME NEW r \in SwitchStates, Advances(s, r, "poll", job.error), KeepsLinks(s, r),
               r.on = TRUE, r.running = TRUE, r.live = r.stored
        PROVE  IInv' /\ LinkStep
    <3>1. job'.pc = job.pc /\ job'.step[s] = "poll" /\ sw'[s] = r
      BY <1>2, <2>2, AdvancesFacts
    <3>2. Prepared(s)' /\ Activating(s)'
      BY <1>1, <2>2, <3>1 DEF Prepared, Activating, IsLive
    <3> QED BY Zenon, <1>1, <1>2, <2>1, <2>2, <3>2, FutureKeepsLinks
  <2>3. ASSUME NEW r \in SwitchStates, Advances(s, r, "done", TRUE), KeepsLinks(s, r)
        PROVE  IInv' /\ LinkStep
    BY Zenon, <1>1, <2>1, <2>3, FailureKeeps
  <2> QED BY Zenon, <1>1, <1>2, <1>4, <2>1, <2>2, <2>3, EnableAdvances
<1>5. CASE s \notin job.changed /\ Check(s, TRUE, "poll")
  BY Zenon, <1>1, <1>2, <1>5, CheckKeeps
<1>6. CASE /\ job.step[s] = "poll" /\ UNCHANGED <<sw, events>>
           /\ sw[s].stored = GroupOf(s).config /\ CompleteGroup(s)
  BY <1>1, <1>6, CompleteGroupKeeps DEF LinkStep
<1>7. CASE Event /\ UNCHANGED <<sw, proofs>> /\ job' = Failed(s)
  <2>1. Advances(s, sw[s], "done", TRUE)
    <3>1. Stepped(s, "done", TRUE)
      BY Zenon, <1>2, <1>7, FailedSteps
    <3>2. sw' = [sw EXCEPT ![s] = sw[s]] /\ events' \in 0..MaxEvents
      BY <1>2, <1>7, BoundsAssumption DEF Event, TypeOK
    <3> QED BY Zenon, <1>1, <1>7, <3>1, <3>2 DEF Advances
  <2>2. KeepsLinks(s, sw[s]) /\ KeepsController(s, sw[s])
    BY DEF KeepsLinks, KeepsController
  <2> QED BY Zenon, <1>1, <1>2, <2>1, <2>2, FailureKeeps
<1> QED BY Zenon, <1>3, <1>4, <1>5, <1>6, <1>7 DEF ConfigureGroup

-----------------------------------------------------------------------------
(* From phase to phase *)

(* Failure leaves unverified controllers, and only them, to be stopped.     *)
LEMMA CleanupKeeps ==
    ASSUME IInv, job' = Cleanup(job), UNCHANGED <<sw, proofs>>, cancelled' \in BOOLEAN,
           events' \in 0..MaxEvents
    PROVE  IInv'
<1>1. TypeOK /\ job \in Jobs /\ {"done", "stop"} \subseteq Steps /\ "cleanup" \in Phases
  BY DEF IInv, TypeOK, Jobs, Steps, Phases
<1>2. Phase(job.unverified \cap job.pending, "stop") \in [Switches -> Steps]
  BY <1>1 DEF Phase
<1>3. /\ job' \in Jobs /\ job'.pc = "cleanup" /\ job'.plan = job.plan
      /\ job'.changed = job.changed /\ job'.unverified = job.unverified
      /\ job'.step = Phase(job.unverified \cap job.pending, "stop")
  BY Zenon, <1>1, <1>2 DEF Cleanup, Jobs
<1>4. TypeOK'
  BY <1>1, <1>3 DEF TypeOK, Jobs
<1>5. Primaries' = Primaries
  BY <1>3 DEF Primaries
<1>6. Futures'
  BY <1>3 DEF Futures, Phase
<1>7. Stops'
  BY <1>3 DEF Stops, Prepared, Activating
<1>8. Withdrawn' /\ Marked' /\ Keeps' /\ Drifts' /\ ProofIsTrue'
  BY <1>3, <1>5 DEF IInv, Withdrawn, Marked, Keeps, Drifts, ProofIsTrue, Preparing
<1> QED BY <1>4, <1>6, <1>7, <1>8 DEF IInv

(* The end of a phase: cleanup after an error or a cancellation; otherwise  *)
(* the next phase, which finds every future done without an error.          *)
LEMMA EndPhaseKeeps ==
    ASSUME IInv, NEW pc \in Phases, NEW new \in Phases, NEW set \in SUBSET Switches,
           NEW step \in Steps, EndPhase(pc, Enter(new, set, step)),
           \/ pc = "stop" /\ new = "isolate" /\ set \subseteq job.changed
           \/ pc = "isolate" /\ new = "stage" /\ set \subseteq job.changed
           \/ pc = "stage" /\ new = "links"
           \/ pc = "links" /\ new = "verify_links"
           \/ pc = "activate" /\ new = "verify"
    PROVE  IInv' /\ LinkStep
<1>1. /\ TypeOK /\ job \in Jobs /\ "done" \in Steps /\ Drained
      /\ job.pc = pc /\ UNCHANGED <<sw, proofs, events, cancelled>>
  BY DEF IInv, TypeOK, Jobs, Steps, EndPhase, At
<1>2. LinkStep
  BY <1>1 DEF LinkStep
<1>3. CASE Halted
  BY <1>1, <1>2, <1>3, CleanupKeeps DEF EndPhase, TypeOK
<1>4. CASE ~Halted
  <2>1. job' = Enter(new, set, step) /\ job.error = FALSE
    BY <1>1, <1>4 DEF EndPhase, Halted, Jobs
  <2>2. Phase(set, step) \in [Switches -> Steps]
    BY <1>1 DEF Phase
  <2>3. /\ job' \in Jobs /\ job'.pc = new /\ job'.plan = job.plan
        /\ job'.changed = job.changed /\ job'.unverified = job.unverified
        /\ job'.step = Phase(set, step)
    BY Zenon, <1>1, <2>1, <2>2 DEF Enter, Jobs
  <2>4. TypeOK'
    BY <1>1, <2>3 DEF TypeOK, Jobs
  <2>5. Primaries' = Primaries /\ \A u : Proven(u)' = Proven(u) /\ Target(u)' = Target(u)
    BY <1>1, <2>3 DEF Primaries, Proven, GroupOf, Target
  <2>6. Withdrawn' /\ ProofIsTrue'
    BY <1>1, <2>3 DEF IInv, Withdrawn, ProofIsTrue
  <2>7. Futures'
    BY <1>1, <2>3 DEF Futures, Phase
  <2>8. Marked'
    BY <1>1, <2>3, <2>5 DEF IInv, Marked, Preparing
  <2>9. Drifts'
    BY <1>1, <2>3, <2>5 DEF IInv, Drifts, Raised, LinksMatch, Preparing
  <2>10. ASSUME NEW s \in Switches, s \in job.unverified, pc # "activate" PROVE IsOff(s)
    BY <1>1, <2>1, <2>10 DEF IInv, Stops, Prepared, Drained
  <2>11. Stops'
    <3>1. ASSUME NEW s \in Switches, s \in job.unverified PROVE Prepared(s)'
      BY Zenon, <1>1, <2>3, <2>10, <3>1 DEF Prepared, IsOff
    <3>2. ASSUME NEW s \in Switches PROVE Activating(s)'
      BY <2>3 DEF Activating
    <3> QED BY <2>3, <3>1, <3>2 DEF Stops
  <2>12. Keeps'
    <3>1. pc = "activate" => \A s \in Primaries : Proven(s)
      <4> SUFFICES ASSUME pc = "activate", NEW s \in Primaries PROVE Proven(s)
        OBVIOUS
      <4>1. s \in Switches
        BY <1>1, GroupOfPrimary
      <4>2. CASE s \in job.changed
        BY <1>1, <2>1, <4>1, <4>2 DEF IInv, Stops, Activating, Drained
      <4>3. CASE s \notin job.changed
        BY <1>1, <4>3 DEF IInv, Keeps
      <4> QED BY <4>2, <4>3
    <3>2. pc # "activate" => \A s \in Primaries : s \notin job.changed => Proven(s)
      BY <1>1 DEF IInv, Keeps, Preparing
    <3> QED BY <1>1, <2>3, <2>5, <3>1, <3>2 DEF Keeps, Preparing
  <2> QED BY <1>2, <2>4, <2>6, <2>7, <2>8, <2>9, <2>11, <2>12 DEF IInv
<1> QED BY <1>3, <1>4

(* Every controller that is started has stopped before, and the switches    *)
(* that are no primaries need no more care.                                 *)
LEMMA VerifyLinksKeeps ==
    ASSUME IInv, VerifyLinks
    PROVE  IInv' /\ LinkStep
<1>1. /\ TypeOK /\ job \in Jobs /\ {"start", "done"} \subseteq Steps /\ "activate" \in Phases
      /\ job.pc = "verify_links" /\ UNCHANGED <<sw, proofs, cancelled>>
  BY DEF IInv, TypeOK, Jobs, Steps, Phases, VerifyLinks, At
<1>2. LinkStep
  BY <1>1 DEF LinkStep
<1>3. CASE job' = Cleanup(job)
  <2>1. events' \in 0..MaxEvents /\ cancelled' \in BOOLEAN
    BY <1>1, BoundsAssumption DEF VerifyLinks, Event, TypeOK
  <2> QED BY <1>1, <1>2, <1>3, <2>1, CleanupKeeps
<1>4. CASE /\ UNCHANGED events
           /\ job' = [job EXCEPT !.pc = "activate", !.step = Phase(Primaries, "start"),
                                 !.unverified = @ \cap Primaries, !.pending = @ \cap Primaries]
  <2>1. Phase(Primaries, "start") \in [Switches -> Steps]
    BY <1>1 DEF Phase
  <2>2. /\ job' \in Jobs /\ job'.pc = "activate" /\ job'.plan = job.plan
        /\ job'.changed = job.changed /\ job'.unverified = job.unverified \cap Primaries
        /\ job'.step = Phase(Primaries, "start")
    BY Zenon, <1>1, <1>4, <2>1 DEF Jobs
  <2>3. TypeOK'
    BY <1>1, <1>4, <2>2 DEF TypeOK, Jobs
  <2>4. Primaries' = Primaries /\ \A u : Proven(u)' = Proven(u)
    BY <1>1, <2>2 DEF Primaries, Proven, GroupOf
  <2>5. Withdrawn' /\ ProofIsTrue' /\ Drifts'
    BY <1>1, <2>2 DEF IInv, Withdrawn, ProofIsTrue, Drifts, Preparing
  <2>6. job.changed \subseteq Primaries /\ job.changed \subseteq job.unverified
    BY <1>1 DEF IInv, Marked, Preparing
  <2>7. Futures' /\ Marked'
    BY <2>2, <2>4, <2>6 DEF Futures, Marked, Preparing
  <2>8. ASSUME NEW s \in Switches, s \in job.changed PROVE Activating(s)'
    <3>1. IsOff(s)
      BY <1>1, <2>6, <2>8 DEF IInv, Stops, Prepared
    <3>2. job'.step[s] = "start"
      BY <2>2, <2>6, <2>8 DEF Phase
    <3> QED BY <1>1, <3>1, <3>2 DEF Activating, IsOff
  <2>9. Stops'
    BY <2>2, <2>8 DEF Stops, Prepared
  <2>10. Keeps'
    BY <1>1, <2>2, <2>4 DEF IInv, Keeps, Preparing
  <2> QED BY <1>2, <2>3, <2>5, <2>7, <2>9, <2>10 DEF IInv
<1> QED BY <1>3, <1>4 DEF VerifyLinks

(* A job that is over, or is replaced, leaves its proofs and nothing else.  *)
LEMMA OverKeeps ==
    ASSUME IInv, UNCHANGED <<sw, events>>, proofs' \subseteq proofs, cancelled' \in BOOLEAN,
           job' \in Jobs, job'.pc \in Over \cup {"inspect"},
           job'.changed = {} \/ (job'.changed = job.changed /\ job'.plan = job.plan),
           job'.unverified \subseteq job.unverified
    PROVE  IInv' /\ LinkStep
<1>1. LinkStep
  BY DEF LinkStep
<1>2. TypeOK'
  BY DEF IInv, TypeOK, Jobs
<1>3. Withdrawn' /\ ProofIsTrue'
  BY DEF IInv, Withdrawn, ProofIsTrue
<1>4. Futures' /\ Stops' /\ Keeps' /\ Drifts'
  BY DEF Futures, Stops, Prepared, Activating, Keeps, Drifts, Preparing, Over
<1>5. Marked'
  BY DEF IInv, Marked, Preparing, Over, Primaries
<1> QED BY <1>1, <1>2, <1>3, <1>4, <1>5 DEF IInv

(* A group is the group of its primary.                                     *)
LEMMA GroupOfGroup ==
    ASSUME job \in Jobs, NEW g \in job.plan.groups
    PROVE  g.primary \in Primaries /\ GroupOf(g.primary) = g
<1>1. g.primary \in Primaries /\ job.plan \in Plans
  BY DEF Primaries, Jobs
<1>2. g.primary \in g.members
  BY <1>1, PlansAssumption
<1>3. GroupOf(g.primary) \in job.plan.groups /\ g.primary \in GroupOf(g.primary).members
  BY <1>1, GroupOfPrimary
<1>4. GroupOf(g.primary).members \cap g.members # {}
  BY <1>2, <1>3
<1> QED BY <1>1, <1>3, <1>4, PlansAssumption

(* The marking covers what will move: the primary of every group with a     *)
(* link that drifted, and every other switch with a link to be raised.      *)
LEMMA InspectKeeps ==
    ASSUME IInv, Inspect
    PROVE  IInv' /\ LinkStep
<1>1. /\ TypeOK /\ job \in Jobs /\ {"stop", "done"} \subseteq Steps /\ "stop" \in Phases
      /\ job.pc = "inspect" /\ UNCHANGED <<sw, cancelled>>
  BY Zenon DEF IInv, TypeOK, Jobs, Steps, Phases, Inspect, At
<1>2. LinkStep
  BY <1>1 DEF LinkStep
<1>3. CASE UNCHANGED proofs /\ job' = Cleanup(job) /\ (Event \/ UNCHANGED events)
  <2>1. events' \in 0..MaxEvents /\ cancelled' \in BOOLEAN
    BY <1>1, <1>3, BoundsAssumption DEF Event, TypeOK
  <2> QED BY <1>1, <1>2, <1>3, <2>1, CleanupKeeps
<1>4. ASSUME UNCHANGED events, NEW unready \in SUBSET Primaries,
             NEW changed, changed = {s \in Primaries : Changed(s, unready)},
             NEW marked, marked = changed \cup {s \in Switches \ Primaries : Obsolete(s)},
             Withdraw(marked),
             job' = [job EXCEPT
                     !.pc = "stop", !.step = Phase(marked, "stop"), !.changed = changed,
                     !.matches = {s \in Primaries : StoredMatches(s)},
                     !.drift = {s \in Switches : sw[s].saved # (s \in Primaries)},
                     !.unverified = marked, !.pending = marked]
      PROVE  IInv'
  <2>1. Primaries \subseteq Switches
    BY <1>1, GroupOfPrimary
  <2>2. changed \subseteq Primaries /\ marked \subseteq Switches /\ changed \subseteq marked
    BY <1>4, <2>1
  <2>3. Phase(marked, "stop") \in [Switches -> Steps]
    BY <1>1 DEF Phase
  <2> DEFINE m == {s \in Primaries : StoredMatches(s)}
             d == {s \in Switches : sw[s].saved # (s \in Primaries)}
             step == Phase(marked, "stop")
  <2>4. /\ m \subseteq Switches /\ d \subseteq Switches
        /\ job' = [job EXCEPT !.pc = "stop", !.step = step, !.changed = changed,
                              !.matches = m, !.drift = d, !.unverified = marked,
                              !.pending = marked]
    BY <1>4, <2>1
  <2> HIDE DEF m, d, step
  <2>5. /\ job' \in Jobs /\ job'.pc = "stop" /\ job'.plan = job.plan
        /\ job'.changed = changed /\ job'.unverified = marked
        /\ job'.step = Phase(marked, "stop")
    <3>1. step \in [Switches -> Steps] /\ step = Phase(marked, "stop")
      BY <2>3 DEF step
    <3> QED BY Zenon, <1>1, <2>1, <2>2, <2>4, <3>1 DEF Jobs
  <2>6. proofs' = {p \in proofs : p.primary \notin marked}
    BY <1>4 DEF Withdraw
  <2>7. Primaries' = Primaries /\ \A u : GroupOf(u)' = GroupOf(u)
    BY <2>5 DEF Primaries, GroupOf
  <2>8. TypeOK'
    BY Zenon, <1>1, <1>4, <2>5, <2>6 DEF TypeOK, Jobs
  <2>9. Withdrawn' /\ ProofIsTrue'
    BY <1>1, <2>5, <2>6 DEF IInv, Withdrawn, ProofIsTrue
  <2>10. Futures' /\ Marked'
    BY <2>2, <2>5, <2>7 DEF Futures, Marked, Phase
  <2>11. Stops'
    <3>1. \A s \in Switches : s \in marked => job'.step[s] = "stop"
      BY <2>5 DEF Phase
    <3> QED BY <2>5, <3>1 DEF Stops, Prepared, Activating
  <2>12. Keeps'
    <3> SUFFICES ASSUME NEW s \in Primaries, s \notin changed PROVE Proven(s)'
      BY <2>5, <2>7 DEF Keeps
    <3>1. s \notin marked
      BY <1>4
    <3>2. PICK p \in proofs : p.primary = s /\ p.config = GroupOf(s).config
      BY <1>4 DEF Changed, Proven
    <3> QED BY <2>6, <2>7, <3>1, <3>2 DEF Proven
  <2>13. Drifts'
    <3> SUFFICES ASSUME NEW s \in Switches, ~LinksMatch(s), Target(s) # "down"
                 PROVE  /\ s \in marked
                        /\ \A g \in job.plan.groups : s \in g.members => g.primary \in marked
      BY <1>1, <2>5 DEF Drifts, Raised, LinksMatch, Target
    <3>1. ASSUME NEW g \in job.plan.groups, s \in g.members PROVE g.primary \in marked
      <4>1. g.primary \in Primaries /\ GroupOf(g.primary) = g
        BY <1>1, GroupOfGroup
      <4>2. Changed(g.primary, unready)
        BY <3>1, <4>1 DEF Changed
      <4> QED BY <1>4, <4>1, <4>2
    <3>2. CASE s \in Primaries
      <4>1. GroupOf(s) \in job.plan.groups /\ GroupOf(s).primary = s /\ s \in GroupOf(s).members
        BY <1>1, <3>2, GroupOfPrimary
      <4> QED BY <3>1, <4>1
    <3>3. CASE s \notin Primaries
      <4>1. Obsolete(s)
        BY DEF Obsolete
      <4> QED BY <1>4, <3>1, <3>3, <4>1
    <3> QED BY <3>1, <3>2, <3>3
  <2> QED BY <2>8, <2>9, <2>10, <2>11, <2>12, <2>13 DEF IInv
<1> QED BY Zenon, <1>2, <1>3, <1>4 DEF Inspect

-----------------------------------------------------------------------------
(* Around the worker *)

(* A disabled controller stops in its own time; it has no proof.            *)
LEMMA ControllerStopsKeeps ==
    ASSUME IInv, ControllerStops
    PROVE  IInv' /\ LinkStep
<1>1. PICK s \in Switches : /\ sw[s].running /\ ~sw[s].on
                            /\ sw' = [sw EXCEPT ![s].running = FALSE]
                            /\ UNCHANGED <<proofs, job, cancelled, events>>
  BY Zenon DEF ControllerStops
<1>2. sw \in [Switches -> SwitchStates] /\ job \in Jobs /\ proofs \subseteq Groups
  BY DEF IInv, TypeOK, Jobs
<1>3. sw' \in [Switches -> SwitchStates]
  BY Zenon, <1>1, <1>2 DEF SwitchStates
<1>4. ASSUME NEW u \in Switches
      PROVE  /\ sw'[u].applied = sw[u].applied /\ sw'[u].startup = sw[u].startup
             /\ sw'[u].on = sw[u].on /\ sw'[u].live = sw[u].live /\ sw'[u].stored = sw[u].stored
             /\ sw[u].on \/ sw[u].running = FALSE => sw'[u].running = sw[u].running
  BY Zenon, <1>1, <1>2 DEF SwitchStates
<1>5. TypeOK'
  BY <1>1, <1>3 DEF IInv, TypeOK
<1>6. \A u : Proven(u)' = Proven(u)
  BY <1>1 DEF Proven, GroupOf
<1>7. Withdrawn' /\ Futures' /\ Marked' /\ Keeps'
  BY <1>1, <1>6 DEF IInv, Withdrawn, Futures, Marked, Keeps, Primaries
<1>8. Stops'
  <2>1. ASSUME NEW u \in Switches PROVE (IsOff(u) => IsOff(u)') /\ (IsLive(u) => IsLive(u)')
    BY Zenon, <1>4 DEF IsOff, IsLive
  <2>2. ASSUME NEW u \in Switches, Prepared(u) PROVE Prepared(u)'
    BY <1>1, <1>4, <2>1, <2>2 DEF Prepared
  <2>3. ASSUME NEW u \in Switches, Activating(u) PROVE Activating(u)'
    BY <1>1, <1>6, <2>1, <2>3 DEF Activating
  <2> QED BY <1>1, <2>2, <2>3 DEF IInv, Stops
<1>9. Drifts'
  BY <1>1, <1>4 DEF IInv, Drifts, Raised, LinksMatch, Target
<1>10. ProofIsTrue'
  BY <1>1, <1>2, <1>4 DEF IInv, ProofIsTrue, Groups
<1>11. LinkStep
  BY Zenon, <1>4 DEF LinkStep
<1> QED BY <1>5, <1>7, <1>8, <1>9, <1>10, <1>11 DEF IInv

(* Between jobs a switch is moved only together with the proofs it is a     *)
(* member of, its own among them.                                           *)
LEMMA BetweenJobsKeeps ==
    ASSUME IInv, job.pc \in Over, UNCHANGED <<job, cancelled>>, events' \in 0..MaxEvents,
           NEW s \in Switches, NEW r \in SwitchStates, sw' = [sw EXCEPT ![s] = r],
           r.applied = sw[s].applied, proofs' \subseteq proofs,
           KeepsController(s, r) \/ \A p \in proofs' : s \notin p.members
    PROVE  IInv' /\ LinkStep
<1>1. sw \in [Switches -> SwitchStates] /\ proofs \subseteq Groups
  BY DEF IInv, TypeOK
<1>2. sw'[s] = r /\ \A u \in Switches : u # s => sw'[u] = sw[u]
  BY <1>1
<1>3. TypeOK'
  BY <1>1 DEF IInv, TypeOK
<1>4. Withdrawn' /\ Futures' /\ Marked' /\ Stops' /\ Keeps' /\ Drifts'
  BY Zenon
  DEF IInv, Withdrawn, Futures, Marked, Stops, Prepared, Activating, Keeps, Drifts,
      Preparing, Over, Primaries
<1>5. ProofIsTrue'
  <2> SUFFICES ASSUME NEW p \in proofs'
               PROVE  /\ sw'[p.primary].on /\ sw'[p.primary].running
                      /\ sw'[p.primary].live = p.config
    BY DEF ProofIsTrue
  <2>1. /\ p.primary \in Switches /\ p.primary \in p.members
        /\ sw[p.primary].on /\ sw[p.primary].running /\ sw[p.primary].live = p.config
    BY <1>1 DEF IInv, Withdrawn, ProofIsTrue, Groups
  <2> QED BY <1>2, <2>1 DEF KeepsController
<1>6. LinkStep
  BY <1>2 DEF LinkStep
<1> QED BY <1>3, <1>4, <1>5, <1>6 DEF IInv

LEMMA OtherMutationKeeps ==
    ASSUME IInv, OtherMutation
    PROVE  IInv' /\ LinkStep
<1>1. PICK s \in Switches :
         /\ job.pc \in Over /\ Event
         /\ \/ sw[s].on /\ sw' = Set(s, Stopped(sw[s]))
            \/ ~sw[s].on /\ sw' = Set(s, Started(sw[s]))
            \/ sw[s].on /\ \E c \in Configs : sw' = [sw EXCEPT ![s].stored = c]
         /\ proofs' = {p \in proofs : s \notin p.members}
         /\ UNCHANGED <<job, cancelled>>
  BY DEF OtherMutation
<1>2. sw[s] \in SwitchStates /\ events' \in 0..MaxEvents
  BY <1>1, BoundsAssumption DEF IInv, TypeOK, Event
<1>3. PICK r \in SwitchStates : r.applied = sw[s].applied /\ sw' = [sw EXCEPT ![s] = r]
  <2>1. CASE sw' = Set(s, Stopped(sw[s]))
    BY Zenon, <1>2, <2>1, StoppedFacts DEF Set
  <2>2. CASE sw' = Set(s, Started(sw[s]))
    BY Zenon, <1>2, <2>2, StartedFacts DEF Set
  <2>3. ASSUME NEW c \in Configs, sw' = [sw EXCEPT ![s].stored = c]
        PROVE  \E r \in SwitchStates : r.applied = sw[s].applied /\ sw' = [sw EXCEPT ![s] = r]
    <3> DEFINE r == [sw[s] EXCEPT !.stored = c]
    <3>1. r \in SwitchStates /\ r.applied = sw[s].applied
      BY <1>2 DEF SwitchStates
    <3>2. sw' = [sw EXCEPT ![s] = r]
      BY <2>3
    <3> QED BY Zenon, <3>1, <3>2
  <2> QED BY <1>1, <2>1, <2>2, <2>3
<1> QED BY Zenon, <1>1, <1>2, <1>3, BetweenJobsKeeps

LEMMA StartupDriftKeeps ==
    ASSUME IInv, StartupDrift
    PROVE  IInv' /\ LinkStep
<1>1. PICK s \in Switches :
         /\ job.pc \in Over /\ Event /\ sw' = [sw EXCEPT ![s].saved = FALSE]
         /\ UNCHANGED <<proofs, job, cancelled>>
  BY Zenon DEF StartupDrift
<1> DEFINE r == [sw[s] EXCEPT !.saved = FALSE]
<1>2. sw[s] \in SwitchStates /\ events' \in 0..MaxEvents
  BY <1>1, BoundsAssumption DEF IInv, TypeOK, Event
<1>3. r \in SwitchStates /\ r.applied = sw[s].applied /\ KeepsController(s, r)
  BY Zenon, <1>2 DEF SwitchStates, KeepsController
<1>4. sw' = [sw EXCEPT ![s] = r]
  BY <1>1
<1> HIDE DEF r
<1> QED BY Zenon, <1>1, <1>2, <1>3, <1>4, BetweenJobsKeeps

-----------------------------------------------------------------------------
(* The theorems *)

LEMMA NewJobFacts ==
    ASSUME NEW n \in 1..MaxJobs, NEW plan \in Plans
    PROVE  /\ NewJob(n, plan) \in Jobs /\ NewJob(n, plan).pc = "inspect"
           /\ NewJob(n, plan).changed = {} /\ NewJob(n, plan).unverified = {}
<1>1. Phase({}, "done") \in [Switches -> Steps]
  BY DEF Phase, Steps
<1> QED BY Zenon, <1>1 DEF NewJob, Jobs, Phases

LEMMA InitIInv == Init => IInv
<1> SUFFICES ASSUME Init PROVE IInv
  OBVIOUS
<1>1. 1 \in 1..MaxJobs /\ 0 \in 0..MaxEvents
  BY BoundsAssumption
<1>2. /\ job \in Jobs /\ job.pc = "inspect" /\ job.changed = {} /\ job.unverified = {}
  BY <1>1, NewJobFacts DEF Init
<1>3. TypeOK
  BY Zenon, <1>1, <1>2, BoundsAssumption DEF Init, TypeOK, Jobs
<1>4. Withdrawn /\ Futures /\ Marked /\ Stops /\ Keeps /\ Drifts /\ ProofIsTrue
  BY <1>2
  DEF Init, Withdrawn, Futures, Marked, Stops, Prepared, Activating, Keeps, Drifts,
      ProofIsTrue, Preparing
<1> QED BY <1>3, <1>4 DEF IInv

LEMMA NextIInv ==
    ASSUME IInv, [Next]_vars
    PROVE  IInv' /\ LinkStep
<1>1. /\ TypeOK /\ job \in Jobs /\ cancelled \in BOOLEAN
      /\ {"apply", "start", "save_cluster", "done"} \subseteq Steps
      /\ {"stop", "isolate", "stage", "links", "verify_links", "activate", "verify"} \subseteq Phases
      /\ Staged \subseteq job.changed /\ Staged \subseteq Switches
  BY DEF IInv, TypeOK, Jobs, Steps, Phases, Staged
<1>2. CASE Inspect
  BY <1>2, InspectKeeps
<1>3. CASE ToIsolate
  BY <1>1, <1>3, EndPhaseKeeps DEF ToIsolate
<1>4. CASE ToStage
  BY <1>1, <1>4, EndPhaseKeeps DEF ToStage
<1>5. CASE ToLinks
  BY <1>1, <1>5, EndPhaseKeeps DEF ToLinks
<1>6. CASE ToVerifyLinks
  BY <1>1, <1>6, EndPhaseKeeps DEF ToVerifyLinks
<1>7. CASE VerifyLinks
  BY <1>7, VerifyLinksKeeps
<1>8. CASE ToVerify
  BY <1>1, <1>8, EndPhaseKeeps DEF ToVerify
<1>9. CASE Verify
  <2>1. UNCHANGED <<sw, proofs, cancelled>> /\ LinkStep
    BY <1>9 DEF Verify, At, LinkStep
  <2>2. CASE job' = Cleanup(job)
    <3>1. events' \in 0..MaxEvents
      BY <1>1, <1>9, BoundsAssumption DEF Verify, Event, TypeOK
    <3> QED BY <1>1, <2>1, <2>2, <3>1, CleanupKeeps
  <2>3. CASE job' = [job EXCEPT !.pc = "completed"] /\ UNCHANGED events
    <3>1. /\ job' \in Jobs /\ job'.pc \in Over /\ job'.changed = job.changed
          /\ job'.plan = job.plan /\ job'.unverified = job.unverified
      BY <1>1, <2>3 DEF Jobs, Over
    <3> QED BY <1>1, <2>1, <2>3, <3>1, OverKeeps
  <2> QED BY <1>9, <2>2, <2>3 DEF Verify
<1>10. CASE Release
  <2>1. /\ job' \in Jobs /\ job'.pc \in Over /\ job'.changed = job.changed
        /\ job'.plan = job.plan /\ job'.unverified = job.unverified
    BY <1>1, <1>10 DEF Release, Jobs, Over
  <2> QED BY <1>1, <1>10, <2>1, OverKeeps DEF Release, At
<1>11. CASE \E s \in Switches :
               \/ StopController(s) \/ Isolate(s) \/ Stage(s) \/ PrepareLinks(s)
               \/ ConfigureGroup(s) \/ CleanUp(s)
  BY <1>11, StopControllerKeeps, IsolateKeeps, StageKeeps, PrepareLinksKeeps,
     ConfigureGroupKeeps, CleanUpKeeps
<1>12. CASE ControllerStops
  BY <1>12, ControllerStopsKeeps
<1>13. CASE Cancel \/ UNCHANGED vars
  <2>1. UNCHANGED <<sw, proofs, job, events>> /\ cancelled' \in BOOLEAN
    BY Zenon, <1>1, <1>13 DEF Cancel, vars
  <2>2. LinkStep
    BY <2>1 DEF LinkStep
  <2>3. TypeOK' /\ Withdrawn' /\ Futures' /\ Marked' /\ ProofIsTrue'
    BY <2>1 DEF IInv, TypeOK, Withdrawn, Futures, Marked, Primaries, ProofIsTrue
  <2>4. Keeps' /\ Drifts'
    <3>1. Primaries' = Primaries /\ \A u : Proven(u)' = Proven(u)
      BY <2>1 DEF Primaries, Proven, GroupOf
    <3>2. ASSUME NEW u \in Switches PROVE Raised(u)' = Raised(u)
      BY <2>1 DEF Raised, LinksMatch, Target
    <3> QED BY <2>1, <3>1, <3>2 DEF IInv, Keeps, Drifts
  <2>5. Stops'
    <3>1. ASSUME NEW u \in Switches PROVE Prepared(u)' = Prepared(u)
      BY <2>1 DEF Prepared, IsOff
    <3>2. ASSUME NEW u \in Switches PROVE Activating(u)' = Activating(u)
      BY <2>1 DEF Activating, IsOff, IsLive, Proven, GroupOf
    <3> QED BY <2>1, <3>1, <3>2 DEF IInv, Stops
  <2> QED BY <2>2, <2>3, <2>4, <2>5 DEF IInv
<1>14. CASE Restart
  <2>1. /\ job' \in Jobs /\ job'.pc \in Over /\ job'.changed = job.changed
        /\ job'.plan = job.plan /\ job'.unverified = job.unverified
    BY <1>1, <1>14 DEF Restart, Jobs, Over
  <2>2. proofs' \subseteq proofs /\ cancelled' \in BOOLEAN /\ UNCHANGED <<sw, events>>
    BY Zenon, <1>14 DEF Restart
  <2> QED BY <2>1, <2>2, OverKeeps
<1>15. CASE NextJob
  <2>1. PICK plan \in Plans : job' = NewJob(job.n + 1, plan)
    BY <1>15 DEF NextJob
  <2>2. job.n + 1 \in 1..MaxJobs
    BY <1>1, <1>15, BoundsAssumption DEF NextJob, Jobs
  <2>3. /\ job' \in Jobs /\ job'.pc = "inspect" /\ job'.changed = {} /\ job'.unverified = {}
    BY <2>1, <2>2, NewJobFacts
  <2> QED BY Zenon, <1>15, <2>3, OverKeeps DEF NextJob
<1>16. CASE OtherMutation
  BY <1>16, OtherMutationKeeps
<1>17. CASE StartupDrift
  BY <1>17, StartupDriftKeeps
<1> QED BY <1>2, <1>3, <1>4, <1>5, <1>6, <1>7, <1>8, <1>9, <1>10, <1>11, <1>12, <1>13,
           <1>14, <1>15, <1>16, <1>17
        DEF Next

LEMMA Invariance == Spec => []IInv
BY InitIInv, NextIInv, PTL DEF Spec

(* An activation proof stays true for as long as it is kept: through later  *)
(* jobs with any plans, their failures, cancellations and cleanups,         *)
(* restarts, and mutations by other requests (has_activation_proof).        *)
THEOREM ActivationProofsAreTrue == Spec => []ProofIsTrue
<1>1. IInv => ProofIsTrue
  BY DEF IInv
<1> QED BY <1>1, Invariance, PTL

(* Links are raised only on switches whose controllers have stopped, and    *)
(* only under stopped group primaries (prepare_links after mark_pending and *)
(* stop_controllers).                                                       *)
THEOREM LinksMoveUnderStoppedControllers == Spec => LinksMoveUnderStop
<1>1. IInv /\ [Next]_vars => [LinkStep]_vars
  BY NextIInv
<1>2. LinksMoveUnderStop <=> [][LinkStep]_vars
  BY PTL DEF LinksMoveUnderStop, LinkStep
<1> QED BY <1>1, <1>2, Invariance, PTL DEF Spec

\* The steps of CompletedIsLive.
CompleteStep ==
    job.pc # "completed" /\ job'.pc = "completed" =>
        /\ \A s \in Switches : LinksMatch(s) /\ sw[s].on = sw[s].saved
                              /\ (sw[s].on <=> s \in Primaries)
        /\ \A s \in Primaries : sw[s].running /\ sw[s].live = GroupOf(s).config

(* Only the verification completes a job.                                   *)
LEMMA OnlyVerifyCompletes ==
    ASSUME IInv, [Next]_vars, job.pc # "completed", job'.pc = "completed"
    PROVE  job.pc = "verify" /\ Verified
<1>1. job \in Jobs /\ TypeOK
  BY DEF IInv, TypeOK, Jobs
<1>2. job' # Cleanup(job)
  BY Zenon, <1>1 DEF Cleanup, Jobs
<1>3. \A s, x : job' # Goto(s, x) /\ job' # Failed(s)
  BY Zenon, <1>1 DEF Goto, Failed, Jobs
<1>4. ASSUME NEW pc, NEW set, NEW step, pc # "completed" PROVE job' # Enter(pc, set, step)
  BY Zenon, <1>1, <1>4 DEF Enter, Jobs
<1>5. ASSUME NEW s \in Switches PROVE ~CompleteGroup(s)
  BY Zenon, <1>1 DEF CompleteGroup, Jobs
<1>6. ~Inspect /\ ~VerifyLinks /\ ~Release /\ ~Restart
  BY Zenon, <1>1, <1>2 DEF Inspect, VerifyLinks, Release, Restart, Jobs
<1>7. ~ToIsolate /\ ~ToStage /\ ~ToLinks /\ ~ToVerifyLinks /\ ~ToVerify
  BY <1>2, <1>4 DEF ToIsolate, ToStage, ToLinks, ToVerifyLinks, ToVerify, EndPhase
<1>8. ASSUME NEW s \in Switches
      PROVE  /\ ~Skip(s)
             /\ \A ok, next : ~Check(s, ok, next)
             /\ \A half, r, next : ~Call(s, half, r, next)
  BY <1>3 DEF Skip, Check, Call
<1>9. ASSUME NEW s \in Switches
      PROVE  /\ \A next : ~Disable(s, next) /\ ~Enable(s, next) /\ ~Save(s, next)
             /\ \A target : ~Apply(s, target)
  BY Zenon, <1>8 DEF Disable, Enable, Save, Apply
<1>10. ASSUME NEW s \in Switches
       PROVE  /\ ~StopController(s) /\ ~Isolate(s) /\ ~Stage(s) /\ ~PrepareLinks(s)
              /\ ~ConfigureGroup(s) /\ ~CleanUp(s)
  BY Zenon, <1>3, <1>5, <1>8, <1>9
  DEF StopController, Isolate, Stage, PrepareLinks, ConfigureGroup, CleanUp
<1>11. job' # job
  OBVIOUS
<1>12. ~NextJob
  BY DEF NextJob, NewJob
<1>13. Verify
  BY <1>6, <1>7, <1>10, <1>11, <1>12
  DEF Next, vars, ControllerStops, Cancel, OtherMutation, StartupDrift
<1> QED BY <1>2, <1>13 DEF Verify, At

(* A completed job leaves every group of its plan with a controller that    *)
(* runs the planned settings, every other switch disabled, and every link   *)
(* target applied and saved (run_reconciliation up to its verification).    *)
THEOREM CompletedLayoutsAreLive == Spec => CompletedIsLive
<1>1. ASSUME IInv, [Next]_vars PROVE CompleteStep
  <2> SUFFICES ASSUME job.pc # "completed", job'.pc = "completed"
               PROVE  /\ \A s \in Switches : LinksMatch(s) /\ sw[s].on = sw[s].saved
                                             /\ (sw[s].on <=> s \in Primaries)
                      /\ \A s \in Primaries : sw[s].running /\ sw[s].live = GroupOf(s).config
    BY DEF CompleteStep
  <2>1. job.pc = "verify" /\ Verified
    BY <1>1, OnlyVerifyCompletes
  <2>2. \A s \in Primaries : Proven(s)
    BY <1>1, <2>1 DEF IInv, Keeps
  <2>3. \A s \in Primaries : sw[s].running /\ sw[s].live = GroupOf(s).config
    BY <1>1, <2>2 DEF IInv, ProofIsTrue, Proven
  <2> QED BY Zenon, <2>1, <2>3 DEF Verified
<1>2. IInv /\ [Next]_vars => [CompleteStep]_vars
  BY <1>1
<1>3. CompletedIsLive <=> [][CompleteStep]_vars
  BY PTL DEF CompletedIsLive, CompleteStep
<1> QED BY <1>2, <1>3, Invariance, PTL DEF Spec
=============================================================================
