--------------------------- MODULE NvueTransport ----------------------------
(***************************************************************************)
(* The NVUE client a switch is reached through, shared by every request    *)
(* and reconfigured while in use (nvue_client/src/client.rs): request      *)
(* handlers that move it to verified client TLS and follow the material on *)
(* disk (initialize_nvue_client_with_options), password rotation           *)
(* (update_credentials), and the certificate job, which bootstraps on a    *)
(* clone of its own and then moves the clone and the registered client to  *)
(* verified TLS (ensure_nvue_client_for_certificate,                       *)
(* bind_nvue_mtls_with_client_transition).                                 *)
(*                                                                         *)
(* A candidate transport is prepared under the client's reconfigure lock,  *)
(* carried without it, and activated under it again after a probe.  A      *)
(* deployment with verified switches is modelled.                          *)
(***************************************************************************)
EXTENDS Naturals

CONSTANTS
    Handlers,               \* requests in flight
    Attempts,               \* NVUE_HELLO_CONNECT_ATTEMPTS
    MaxMaterial,            \* bound: rotations of the files, from material 1
    MaxPasswords,           \* bound: password rotations
    MaxRevision             \* bound: reconfigurations of a client, below 2^64

ASSUME TransportAssumption ==
    /\ Attempts \in Nat
    /\ MaxMaterial \in Nat /\ MaxPasswords \in Nat /\ MaxRevision \in Nat

Clients == {"registered", "local"}

\* Client TLS material is named by how often it was rotated, a password by how
\* often it was changed.  Material 0 is none: plain HTTPS.
Generation == [material : Nat, verified : BOOLEAN]
ClientState == [generation : Generation, revision : Nat, credentials : Nat]

PreparedClientTls ==
    [owner : Clients, based_on : Nat, generation : Generation, credentials : Nat]

VARIABLES
    client,                 \* [Clients -> ClientState]
    disk,                   \* the material in the files
    handler,                \* [Handlers -> [pc, verified, prepared]]
    job                     \* the certificate job

vars == <<client, disk, handler, job>>

Nothing == [owner |-> "local", based_on |-> 0, credentials |-> 0,
            generation |-> [material |-> 0, verified |-> FALSE]]

IdleHandler == [pc |-> "idle", verified |-> FALSE, prepared |-> Nothing]
IdleJob == [pc |-> "idle", material |-> 0, prepared |-> Nothing, attempt |-> 0]

Init ==
    /\ client = [c \in Clients |->
                    [generation |-> [material |-> 0, verified |-> FALSE],
                     revision |-> 0, credentials |-> 0]]
    /\ disk = 1
    /\ handler = [h \in Handlers |-> IdleHandler]
    /\ job = IdleJob

-----------------------------------------------------------------------------
\* uses_verified_client_tls
Verified(c) ==
    client[c].generation.material # 0 /\ client[c].generation.verified

\* prepare_client_tls_candidate: the candidate takes the client's credentials
\* and the files as they are now.
Prepared(c, verified) ==
    [owner |-> c, based_on |-> client[c].revision,
     generation |-> [material |-> disk, verified |-> verified],
     credentials |-> client[c].credentials]

\* Mutant of Current.
CurrentAlways(p) == TRUE

\* activate_prepared_client_tls: nothing was reconfigured since.
Current(p) == client[p.owner].revision = p.based_on

\* A stale candidate is good only when its generation is the active one, and
\* then nothing is installed.
Redundant(p) == ~Current(p) /\ client[p.owner].generation = p.generation

Install(p) ==
    /\ client[p.owner].revision < MaxRevision
    /\ client' = [client EXCEPT ![p.owner] =
                     [generation |-> p.generation, revision |-> @.revision + 1,
                      credentials |-> p.credentials]]

-----------------------------------------------------------------------------
\* initialize_nvue_client_with_options on the registered client.  What it saw
\* of the transport decides how the candidate is prepared.
Choose(h) ==
    /\ handler[h].pc = "idle"
    /\ handler' = [handler EXCEPT ![h].pc = "prepare",
                                  ![h].verified = Verified("registered")]
    /\ UNCHANGED <<client, disk, job>>

\* prepare_verified_client_tls, or prepare_client_tls_if_changed with the
\* verification the client is configured with.  The files may be unreadable.
HandlerPrepare(h) ==
    /\ handler[h].pc = "prepare"
    /\ LET p == Prepared("registered",
                         handler[h].verified =>
                             client["registered"].generation.verified)
           unchanged == /\ handler[h].verified
                        /\ client["registered"].generation = p.generation
       IN  \/ handler' = [handler EXCEPT ![h] = IdleHandler]
           \/ /\ ~unchanged
              /\ handler' = [handler EXCEPT ![h].pc = "activate",
                                            ![h].prepared = p]
    /\ UNCHANGED <<client, disk, job>>

\* A candidate that is stale or fails its probe is given up: the request fails
\* or keeps the transport it has.
HandlerActivate(h) ==
    /\ handler[h].pc = "activate"
    /\ handler' = [handler EXCEPT ![h] = IdleHandler]
    /\ \/ UNCHANGED client
       \/ Current(handler[h].prepared) /\ Install(handler[h].prepared)
    /\ UNCHANGED <<disk, job>>

-----------------------------------------------------------------------------
\* The certificate job.
JobGoto(pc) == job' = [job EXCEPT !.pc = pc]

JobTakes(c, verified, pc) ==
    job' = [job EXCEPT !.pc = pc, !.prepared = Prepared(c, verified)]

JobFails == job' = IdleJob /\ UNCHANGED client

\* Mutant of Bootstrap: the job works on the registered client.
BootstrapShared == "registered"

\* The client the job bootstraps on.
Bootstrap == "local"

\* prepare_switch_certificate_node: the job's client is a clone, with a
\* revision and a lock of its own.
JobClone ==
    /\ job.pc = "idle"
    /\ client' = [client EXCEPT !["local"] = client["registered"]]
    /\ JobGoto("ensure")
    /\ UNCHANGED <<disk, handler>>

\* ensure_nvue_client_for_certificate: the transport works as it is, or a
\* verified candidate is tried.
EnsureCurrent ==
    /\ job.pc = "ensure"
    /\ \/ JobGoto("transition")
       \/ JobTakes(Bootstrap, TRUE, "ensure_verified")
    /\ UNCHANGED <<client, disk, handler>>

\* Only when both were refused for the switch's certificate is an unverified
\* candidate tried.
EnsureVerified ==
    /\ job.pc = "ensure_verified"
    /\ \/ Current(job.prepared) /\ Install(job.prepared) /\ JobGoto("transition")
       \/ JobTakes(Bootstrap, FALSE, "ensure_unverified") /\ UNCHANGED client
       \/ JobFails
    /\ UNCHANGED <<disk, handler>>

EnsureUnverified ==
    /\ job.pc = "ensure_unverified"
    /\ \/ Current(job.prepared) /\ Install(job.prepared) /\ JobGoto("transition")
       \/ JobFails
    /\ UNCHANGED <<disk, handler>>

\* prepare_nvue_tls_transition: the install is about the material on disk now.
Transition ==
    /\ job.pc = "transition"
    /\ job' = [job EXCEPT !.pc = "prepare_local", !.material = disk]
    /\ UNCHANGED <<client, disk, handler>>

\* Mutant of Pinned.
AnyMaterial == TRUE

\* The candidate to be prepared is of the material the install is about.
Pinned == disk = job.material

\* bind_nvue_mtls_with_client_transition prepares the candidate of the clone
\* before the switch is told, and the registered client's after the clone's
\* worked.
JobPrepare(c, from, to) ==
    /\ job.pc = from
    /\ \/ job' = IdleJob
       \/ /\ Pinned
          /\ job' = [job EXCEPT !.pc = to, !.prepared = Prepared(c, TRUE),
                                !.attempt = 1]
    /\ UNCHANGED <<client, disk, handler>>

\* activate_nvue_client_tls_with_retries: a stale candidate is prepared again,
\* a connection that is not ready tried again.
JobActivate(c, at, to) ==
    /\ job.pc = at
    /\ \/ Current(job.prepared) /\ Install(job.prepared) /\ JobGoto(to)
       \/ Redundant(job.prepared) /\ JobGoto(to) /\ UNCHANGED client
       \/ /\ job.attempt < Attempts
          /\ \/ /\ ~Current(job.prepared) /\ ~Redundant(job.prepared)
                /\ Pinned
                /\ job' = [job EXCEPT !.prepared = Prepared(c, TRUE),
                                      !.attempt = @ + 1]
             \/ /\ Current(job.prepared) \/ Redundant(job.prepared)
                /\ job' = [job EXCEPT !.attempt = @ + 1]
          /\ UNCHANGED client
       \/ JobFails
    /\ UNCHANGED <<disk, handler>>

JobDone ==
    /\ job.pc = "done"
    /\ job' = IdleJob
    /\ UNCHANGED <<client, disk, handler>>

Job ==
    \/ JobClone
    \/ EnsureCurrent
    \/ EnsureVerified
    \/ EnsureUnverified
    \/ Transition
    \/ JobPrepare("local", "prepare_local", "activate_local")
    \/ JobActivate("local", "activate_local", "prepare_registered")
    \/ JobPrepare("registered", "prepare_registered", "activate_registered")
    \/ JobActivate("registered", "activate_registered", "done")
    \/ JobDone

-----------------------------------------------------------------------------
\* refresh_http_credentials, after the switch took the new password.
UpdateCredentials ==
    /\ client["registered"].credentials < MaxPasswords
    /\ client["registered"].revision < MaxRevision
    /\ client' = [client EXCEPT !["registered"].credentials = @ + 1,
                                !["registered"].revision = @ + 1]
    /\ UNCHANGED <<disk, handler, job>>

\* Whoever provides the material replaces the files.
RotateMaterial ==
    /\ disk < MaxMaterial
    /\ disk' = disk + 1
    /\ UNCHANGED <<client, handler, job>>

Next ==
    \/ \E h \in Handlers : Choose(h) \/ HandlerPrepare(h) \/ HandlerActivate(h)
    \/ Job
    \/ UpdateCredentials
    \/ RotateMaterial

Spec == Init /\ [][Next]_vars

-----------------------------------------------------------------------------
TypeOK ==
    /\ client \in [Clients -> ClientState]
    /\ disk \in Nat \ {0}
    /\ handler \in [Handlers -> [pc : {"idle", "prepare", "activate"},
                                 verified : BOOLEAN,
                                 prepared : PreparedClientTls]]
    /\ job \in [pc : {"idle", "ensure", "ensure_verified", "ensure_unverified",
                      "transition", "prepare_local", "activate_local",
                      "prepare_registered", "activate_registered", "done"},
                material : Nat, prepared : PreparedClientTls, attempt : Nat]

\* A candidate prepared before a password rotation never puts the old password
\* back, in whatever order requests and the certificate job prepare and
\* activate theirs (activate_prepared_client_tls).
CredentialsKept ==
    [][client'["registered"].credentials >= client["registered"].credentials]_vars

\* The transport that accepts any server certificate stays with the certificate
\* job: the registered client is plain or verified, even while a job bootstraps
\* ("Keep bootstrap transport changes local to the job").
RegisteredVerified ==
    client["registered"].generation.material # 0 =>
        client["registered"].generation.verified

\* The step that completes an install's binding leaves the registered client
\* verified on the material the install began with, although files were rotated
\* and its candidates went stale meanwhile ("material changed during certificate
\* installation").
RegisteredFollowsInstall ==
    [][job.pc = "activate_registered" /\ job'.pc = "done" =>
           client'["registered"].generation =
               [material |-> job.material, verified |-> TRUE]]_vars

=============================================================================
