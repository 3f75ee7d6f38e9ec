---------------------------- MODULE MCFabricJobs ----------------------------
(* The two jobs that move fabric controllers: the managed layout's worker  *)
(* (FabricReconciliation) and the scale-up fabric manager job              *)
(* (ScaleUpFabricV2).  Admission keeps them off each other's switches, and *)
(* a behaviour is about one of them.                                       *)
EXTENDS FabricReconciliation, TLC

CONSTANTS p1, s1, FabricSwitches, FabricJobs, MaxFaults

VARIABLES
    about,                                              \* "layout" or "scale_up"
    site, supported, fabric, fabricJob, faults          \* ScaleUpFabricV2

fabricVars == <<site, supported, fabric, fabricJob, faults>>

-----------------------------------------------------------------------------
(* Two switches: one fabric of both under either primary, two fabrics of   *)
(* one switch each, or one fabric with the other switch unassigned; the    *)
(* same fabric with other settings.                                        *)
Group(primary, members, config) == [primary |-> primary, members |-> members, config |-> config]
Both(primary, config) ==
    [groups |-> {Group(primary, {p1, s1}, config)}, links |-> [x \in {p1, s1} |-> "joint"]]

MCPlans ==
    {Both(p1, "c1"), Both(p1, "c2"), Both(s1, "c1"),
     [groups |-> {Group(p1, {p1}, "c2"), Group(s1, {s1}, "c2")},
      links |-> [x \in {p1, s1} |-> "split"]],
     [groups |-> {Group(p1, {p1}, "c2")}, links |-> [x \in {p1, s1} |-> IF x = p1 THEN "split" ELSE "down"]]}

\* From the factory, or running one fabric that this process did not activate.
Off == [applied |-> "joint", startup |-> "joint", on |-> FALSE, saved |-> FALSE,
        running |-> FALSE, stored |-> "c0", live |-> "c0"]
On == [applied |-> "joint", startup |-> "joint", on |-> TRUE, saved |-> TRUE,
       running |-> TRUE, stored |-> "c1", live |-> "c1"]
MCFound == {[x \in {p1, s1} |-> Off], [x \in {p1, s1} |-> IF x = p1 THEN On ELSE Off]}

\* Node IPs exist on VR NVL72 switches only.
FabricSites ==
    [vr: {TRUE}, insecure: BOOLEAN, secondary: BOOLEAN]
        \cup [vr: {FALSE}, insecure: BOOLEAN, secondary: {FALSE}]

\* A switch is disabled, an enabled controller with its node IPs, or enabled
\* with nothing on it; the port of a disabled one may be open.
Idle == [on |-> FALSE, ips |-> "none", sec |-> "none", grpc |-> FALSE]

FabricFound ==
    {Idle, [Idle EXCEPT !.grpc = TRUE], [Idle EXCEPT !.on = TRUE],
     [on |-> TRUE, ips |-> "own", sec |-> "own", grpc |-> TRUE],
     [on |-> TRUE, ips |-> "own", sec |-> "none", grpc |-> TRUE]}

Fabric == INSTANCE ScaleUpFabricV2 WITH
    Switches <- FabricSwitches, Sites <- FabricSites, Found <- FabricFound,
    MaxJobs <- FabricJobs, sw <- fabric, job <- fabricJob

-----------------------------------------------------------------------------
\* A part the behaviour is not about keeps one of its initial states.
MCInit ==
    /\ about \in {"layout", "scale_up"}
    /\ Init /\ Fabric!Init
    /\ about # "layout" => job.plan = Both(p1, "c1") /\ ~sw[p1].on
    /\ about # "scale_up" =>
          /\ ~site.vr /\ ~site.insecure /\ supported = {}
          /\ \A x \in FabricSwitches : ~fabric[x].on /\ ~fabric[x].grpc
          /\ fabricJob.primary = CHOOSE x \in FabricSwitches : TRUE

MCNext ==
    \/ about = "layout" /\ Next /\ UNCHANGED <<about, fabricVars>>
    \/ about = "scale_up" /\ Fabric!Next /\ UNCHANGED <<about, vars>>

MCSpec == MCInit /\ [][MCNext]_<<about, vars, fabricVars>>

Symmetry == Permutations(FabricSwitches)

-----------------------------------------------------------------------------
(* The primary is enabled after the other switches of the request are      *)
(* disabled and, on VR NVL72, have stopped                                 *)
(* (run_configure_scale_up_fabric_manager_v2_job).                         *)
HandsOverInOrder == Fabric!HandsOverInOrder

(* A failed job has restored what it had read, or says that it has not     *)
(* (the rollback of the same function).                                    *)
RestoredUnlessReported == Fabric!RestoredUnlessReported
=============================================================================
