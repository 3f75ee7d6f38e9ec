-------------------------- MODULE MCSwitchSecurity --------------------------
(* The three parts of a switch's security: the NVUE client's transport     *)
(* (NvueTransport), the certificate install (SwitchCertificates) and the   *)
(* unset flow (MtlsUnset).  They share no state, and a behaviour is about  *)
(* one of them.                                                            *)
EXTENDS NvueTransport, TLC

CONSTANTS Limit, MaxRun, Foreign, MaxRuns, None

VARIABLES
    about,                  \* "transport", "certificates" or "unset"
    cancelled, runs,        \* token of the job on the switch, jobs so far
    store, bound, encrypted, gnmiCa, keys, install, detached, leaked, crowded,
    running, saved, pending, clusterOn, schema, run

certificateVars == <<store, bound, encrypted, gnmiCa, keys, install, detached,
                     leaked, crowded>>
unsetVars == <<running, saved, pending, clusterOn, schema, run>>
jobVars == <<cancelled, runs>>

\* A rotation of the NVUE API alone, which leaves the NMX Controller on the
\* entries of an earlier run, one of both, and one of the gNMI server.
InstallRequests == {{"nvue"}, {"nvue", "nmxc"}, {"gnmi"}}

Certificates == INSTANCE SwitchCertificates WITH job <- install, Requests <- InstallRequests

\* Every service alone, and two of them in either order.
UnsetRequests ==
    LET S == {"nvue", "gnmi", "nmxc"} IN
    {<<x>> : x \in S} \cup {r \in S \X S : r[1] # r[2]}

Unset == INSTANCE MtlsUnset WITH Requests <- UnsetRequests

\* A part the behaviour is not about keeps one of its initial states.  The
\* switch without the gNMI client-CA resource is one RMS has not bound yet.
MCInit ==
    /\ about \in {"transport", "certificates", "unset"}
    /\ Init /\ Certificates!Init /\ Unset!Init
    /\ gnmiCa <=> bound["applied"]["ca"]["nvue"] # None
    /\ about # "certificates" => ~gnmiCa
    /\ about # "unset" => ~clusterOn /\ schema = None

MCNext ==
    \/ /\ about = "transport" /\ Next
       /\ UNCHANGED <<about, jobVars, certificateVars, unsetVars>>
    \/ /\ about = "certificates" /\ Certificates!Next
       /\ UNCHANGED <<about, vars, unsetVars>>
    \/ /\ about = "unset" /\ Unset!Next
       /\ UNCHANGED <<about, vars, certificateVars>>

MCSpec == MCInit /\ [][MCNext]_<<about, vars, jobVars, certificateVars, unsetVars>>

Symmetry == Permutations(Handlers)

-----------------------------------------------------------------------------
\* No reclamation deletes an entry a service is bound to (plan_store_reclaim).
BoundEntriesPresent == Certificates!BoundEntriesPresent

\* A private key on the switch has a cleanup, or its leak was reported
\* (StagedMaterialCleanupGuard).
KeyAccountedFor == Certificates!KeyAccountedFor

\* The services of a completed install use its entries (verify_mtls_services).
CompletedMatches == Certificates!CompletedMatches

\* An install imports only into stores with room for one more entry
\* (reclaim_certificate_store_capacity).
RoomForImport == Certificates!RoomForImport

\* The services a completed unset reports as cleared are insecure now and
\* after a reboot (MtlsUnsetReport).
CompletedIsInsecure == Unset!CompletedIsInsecure

\* A service reported as not attempted is as it was (run_flow_while).
NotAttemptedUntouched == Unset!NotAttemptedUntouched
=============================================================================
