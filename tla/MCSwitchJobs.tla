---------------------------- MODULE MCSwitchJobs ----------------------------
(* Jobs on switches: their admission through both registries               *)
(* (SwitchAdmission) and the image update of one switch (SwitchImage).     *)
(* They share no state, and a behaviour is about one of them.              *)
EXTENDS SwitchAdmission, TLC

CONSTANTS
    j1, j2, j3, s1, s2, s3, n1, n2, n3,
    Builds, None, ImageJobs

VARIABLES
    about,                          \* "admission" or "image"
    site, run, cancelled, sw        \* SwitchImage

imageVars == <<site, run, cancelled, sw>>

-----------------------------------------------------------------------------
(* Three jobs on three switches: layouts of one switch, of two as one      *)
(* fabric, of two as two fabrics, and one that leaves s2 unassigned.       *)
(* Mutations of one switch, under its own label or another one's, with and *)
(* without its physical identity, and of two switches.                     *)
MCJobs == {j1, j2, j3}
MCSwitches == {s1, s2, s3}
MCLabel == s1 :> n1 @@ s2 :> n2 @@ s3 :> n3

MCMutationScopes ==
    {{n} : n \in {n1, n2, n3}}
        \cup {{n, s} : n \in {n1, n2}, s \in {s1, s2}}
        \cup {{n1, s1, n2, s2}}

Layout(S, groups) == [switches |-> S, groups |-> groups]

MCPlans ==
    {Layout({s1}, s1 :> {s1}), Layout({s2}, s2 :> {s2}), Layout({s3}, s3 :> {s3}),
     Layout({s1, s2}, s1 :> {s1, s2}),
     Layout({s1, s2}, s1 :> {s1} @@ s2 :> {s2}),
     Layout({s1, s2}, s1 :> {s1})}

\* Two builds on a switch of either kind, on a secure and an insecure site.
Image == INSTANCE SwitchImage WITH
    Sites <- [vr: BOOLEAN, secure: BOOLEAN], MaxJobs <- ImageJobs

-----------------------------------------------------------------------------
\* A part the behaviour is not about keeps one of its initial states.
ImageInit ==
    /\ Image!Init
    /\ about # "image" => ~site.vr /\ ~site.secure /\ sw.os = "onie" /\ ~run.onie

MCInit == about \in {"admission", "image"} /\ Init /\ ImageInit

MCNext ==
    \/ about = "admission" /\ Next /\ UNCHANGED <<about, imageVars>>
    \/ about = "image" /\ Image!Next /\ UNCHANGED <<about, vars>>

MCSpec == MCInit /\ [][MCNext]_<<about, vars, imageVars>>

Symmetry == Permutations(MCJobs) \cup Permutations(Builds)

-----------------------------------------------------------------------------
(* A completed image job leaves the switch on its target, now and at the   *)
(* next boot (complete_verified).                                          *)
CompletedRunsTarget == Image!CompletedRunsTarget

(* A VR switch is reset only on proof of the installed target              *)
(* (activate_staged_system_image_via_bmc).                                 *)
ResetProven == Image!ResetProven

(* What a cancelled image job still does to the switch belongs to the      *)
(* stage that was under way when its token was set (start_stage).          *)
CancelEndsWithStage == Image!CancelEndsWithStage
=============================================================================
