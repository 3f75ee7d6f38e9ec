------------------------ MODULE NvueTransportProofs -------------------------
(***************************************************************************)
(* Proofs about NvueTransport for any number of requests, rotations and    *)
(* retries.  Neither property is inductive: what a candidate may do when   *)
(* it is activated depends on what it was prepared from.  The inductive    *)
(* invariant says that of every candidate being carried: while the client  *)
(* has the revision the candidate was based on, it also has the            *)
(* credentials the candidate was built with, and a candidate for the       *)
(* registered client verifies the server.                                  *)
(***************************************************************************)
EXTENDS NvueTransport, TLAPS

\* The candidate's revision was the client's, and at that revision the
\* credentials were the candidate's.
Fits(p) ==
    /\ p.based_on <= client[p.owner].revision
    /\ p.based_on = client[p.owner].revision =>
           p.credentials = client[p.owner].credentials

HandlersFit ==
    \A h \in Handlers :
        /\ handler[h].pc = "activate" =>
              /\ handler[h].prepared.owner = "registered"
              /\ handler[h].prepared.generation.verified
              /\ handler[h].prepared.generation.material # 0
              /\ Fits(handler[h].prepared)
        /\ handler[h].pc = "prepare" /\ handler[h].verified =>
              Verified("registered")

JobFits ==
    /\ job.pc \in {"ensure_verified", "ensure_unverified", "activate_local"} =>
          job.prepared.owner = "local"
    /\ job.pc = "activate_registered" =>
          /\ job.prepared.owner = "registered"
          /\ job.prepared.generation = [material |-> job.material,
                                        verified |-> TRUE]
          /\ job.material # 0
          /\ Fits(job.prepared)
    /\ job.pc = "prepare_registered" => job.material # 0
    /\ job.pc \in {"prepare_local", "activate_local"} => job.material # 0

IInv == TypeOK /\ HandlersFit /\ JobFits /\ RegisteredVerified

-----------------------------------------------------------------------------
(* A candidate prepared now is based on the client as it is.               *)
LEMMA PreparedFits ==
    ASSUME TypeOK, NEW c \in Clients, NEW v \in BOOLEAN
    PROVE  /\ Prepared(c, v) \in PreparedClientTls
           /\ Prepared(c, v).owner = c
           /\ Prepared(c, v).generation = [material |-> disk, verified |-> v]
           /\ Prepared(c, v).generation.material # 0
           /\ Prepared(c, v).generation.verified = v
           /\ Fits(Prepared(c, v))
<1>1. /\ client[c].revision \in Nat
      /\ client[c].credentials \in Nat
      /\ disk \in Nat /\ disk # 0
  BY DEF TypeOK, ClientState
<1> QED BY <1>1 DEF Prepared, PreparedClientTls, Generation, Fits

(* What installing a candidate does, to its owner and to the other client. *)
LEMMA InstallEffect ==
    ASSUME TypeOK, NEW p \in PreparedClientTls, Install(p)
    PROVE  /\ client' \in [Clients -> ClientState]
           /\ client'[p.owner].generation = p.generation
           /\ client'[p.owner].revision = client[p.owner].revision + 1
           /\ client'[p.owner].credentials = p.credentials
           /\ \A c \in Clients : c # p.owner => client'[c] = client[c]
<1>1. /\ p.owner \in Clients /\ p.generation \in Generation /\ p.credentials \in Nat
  BY DEF PreparedClientTls
<1>2. client[p.owner].revision + 1 \in Nat
  BY <1>1 DEF TypeOK, ClientState
<1>3. [generation |-> p.generation, revision |-> client[p.owner].revision + 1,
       credentials |-> p.credentials] \in ClientState
  BY <1>1, <1>2 DEF ClientState
<1> QED BY <1>1, <1>3 DEF Install, TypeOK

(* The registered client is left alone, or gets a higher revision and a    *)
(* verified generation if it had one.                                      *)
RegisteredMovesOn ==
    \/ client'["registered"] = client["registered"]
    \/ /\ client'["registered"].revision > client["registered"].revision
       /\ Verified("registered") => Verified("registered")'

(* Candidates for the registered client keep fitting when it moves on.     *)
LEMMA CandidatesKeepFitting ==
    ASSUME TypeOK, TypeOK', RegisteredMovesOn,
           NEW p \in PreparedClientTls, p.owner = "registered", Fits(p)
    PROVE  Fits(p)'
<1>1. /\ client["registered"].revision \in Nat
      /\ client'["registered"].revision \in Nat
      /\ p.based_on \in Nat
  BY DEF TypeOK, ClientState, Clients, PreparedClientTls
<1>2. CASE client'["registered"] = client["registered"]
  BY <1>2 DEF Fits
<1>3. CASE client'["registered"].revision > client["registered"].revision
  BY <1>1, <1>3 DEF Fits
<1> QED BY <1>2, <1>3 DEF RegisteredMovesOn

(* So a step that changes no request keeps HandlersFit.                    *)
LEMMA HandlersKeepFitting ==
    ASSUME TypeOK, TypeOK', HandlersFit, RegisteredMovesOn, UNCHANGED handler
    PROVE  HandlersFit'
<1> SUFFICES ASSUME NEW h \in Handlers
             PROVE  /\ handler[h].pc = "activate" =>
                          /\ handler[h].prepared.owner = "registered"
                          /\ handler[h].prepared.generation.verified
                          /\ handler[h].prepared.generation.material # 0
                          /\ Fits(handler[h].prepared)'
                    /\ handler[h].pc = "prepare" /\ handler[h].verified =>
                          Verified("registered")'
  BY DEF HandlersFit, Fits
<1>1. handler[h].prepared \in PreparedClientTls
  BY DEF TypeOK
<1>2. CASE handler[h].pc = "activate"
  BY <1>1, <1>2, CandidatesKeepFitting DEF HandlersFit, Fits
<1>3. CASE handler[h].pc = "prepare" /\ handler[h].verified
  BY <1>3 DEF HandlersFit, RegisteredMovesOn, Verified
<1> QED BY <1>2, <1>3

-----------------------------------------------------------------------------
(* The steps of a request.                                                 *)
LEMMA HandlerStep ==
    ASSUME IInv, NEW h \in Handlers,
           Choose(h) \/ HandlerPrepare(h) \/ HandlerActivate(h)
    PROVE  IInv'
<1> USE DEF IInv
<1>0. /\ Nothing \in PreparedClientTls
      /\ "registered" \in Clients
      /\ job' = job
      /\ disk' = disk
  BY DEF Nothing, PreparedClientTls, Generation, Clients, Choose, HandlerPrepare,
         HandlerActivate
<1>1. CASE Choose(h)
  <2>1. Verified("registered") \in BOOLEAN
    BY <1>0 DEF Verified, TypeOK, ClientState, Generation
  <2>2. TypeOK'
    BY Zenon, <1>0, <1>1, <2>1 DEF Choose, TypeOK
  <2>3. HandlersFit'
    BY <1>1 DEF Choose, TypeOK, HandlersFit, Fits, Verified
  <2> QED BY <1>0, <1>1, <2>2, <2>3 DEF Choose, JobFits, Fits, RegisteredVerified
<1>2. CASE HandlerPrepare(h)
  <2> DEFINE v == handler[h].verified => client["registered"].generation.verified
             p == Prepared("registered", v)
  <2>1. v = TRUE
    BY <1>2 DEF HandlerPrepare, HandlersFit, Verified, TypeOK
  <2>2. /\ p \in PreparedClientTls /\ p.owner = "registered"
        /\ p.generation.verified /\ p.generation.material # 0 /\ Fits(p)
    BY Zenon, <1>0, <2>1, PreparedFits
  <2>3. client' = client
    BY <1>2 DEF HandlerPrepare
  <2>4. CASE handler' = [handler EXCEPT ![h] = IdleHandler]
    <3>1. TypeOK'
      BY <1>0, <2>3, <2>4 DEF TypeOK, IdleHandler
    <3>2. HandlersFit'
      BY <2>3, <2>4 DEF TypeOK, HandlersFit, IdleHandler, Fits, Verified
    <3> QED BY <1>0, <2>3, <3>1, <3>2 DEF JobFits, Fits, RegisteredVerified
  <2>5. CASE handler' = [handler EXCEPT ![h].pc = "activate", ![h].prepared = p]
    <3> HIDE DEF p
    <3>1. TypeOK'
      BY Zenon, <1>0, <2>2, <2>3, <2>5 DEF TypeOK
    <3>2. HandlersFit'
      BY <2>2, <2>3, <2>5 DEF TypeOK, HandlersFit, Fits, Verified
    <3> QED BY <1>0, <2>3, <3>1, <3>2 DEF JobFits, Fits, RegisteredVerified
  <2> QED BY <1>2, <2>4, <2>5 DEF HandlerPrepare
<1>3. CASE HandlerActivate(h)
  <2> DEFINE p == handler[h].prepared
  <2>1. /\ p \in PreparedClientTls /\ p.owner = "registered"
        /\ p.generation.verified /\ p.generation.material # 0
    BY <1>3 DEF HandlerActivate, HandlersFit, TypeOK
  <2>2. handler' = [handler EXCEPT ![h] = IdleHandler]
    BY <1>3 DEF HandlerActivate
  <2>3. /\ client' \in [Clients -> ClientState]
        /\ RegisteredMovesOn
        /\ RegisteredVerified'
        /\ client'["local"] = client["local"]
    <3>1. CASE UNCHANGED client
      BY <3>1 DEF RegisteredMovesOn, RegisteredVerified, TypeOK
    <3>2. CASE Install(p)
      <4>1. client["registered"].revision \in Nat
        BY <1>0 DEF TypeOK, ClientState
      <4> QED BY <2>1, <3>2, <4>1, InstallEffect
              DEF RegisteredMovesOn, RegisteredVerified, Verified, Clients
    <3> QED BY <1>3, <3>1, <3>2 DEF HandlerActivate
  <2>4. TypeOK'
    BY <1>0, <2>2, <2>3 DEF TypeOK, IdleHandler
  <2>5. HandlersFit'
    <3> SUFFICES ASSUME NEW g \in Handlers, g # h
                 PROVE  /\ handler[g].pc = "activate" =>
                              /\ handler[g].prepared.owner = "registered"
                              /\ handler[g].prepared.generation.verified
                              /\ handler[g].prepared.generation.material # 0
                              /\ Fits(handler[g].prepared)'
                        /\ handler[g].pc = "prepare" /\ handler[g].verified =>
                              Verified("registered")'
      BY <2>2 DEF TypeOK, HandlersFit, IdleHandler, Fits
    <3>1. handler[g].prepared \in PreparedClientTls /\ handler'[g] = handler[g]
      BY <2>2 DEF TypeOK
    <3>2. CASE handler[g].pc = "activate"
      BY <2>3, <2>4, <3>1, <3>2, CandidatesKeepFitting DEF HandlersFit, Fits
    <3>3. CASE handler[g].pc = "prepare" /\ handler[g].verified
      BY <2>3, <3>3 DEF HandlersFit, RegisteredMovesOn, Verified
    <3> QED BY <3>2, <3>3
  <2>6. JobFits'
    <3>1. job.prepared \in PreparedClientTls
      BY DEF TypeOK
    <3>2. CASE job.pc = "activate_registered"
      BY <1>0, <2>3, <2>4, <3>1, <3>2, CandidatesKeepFitting DEF JobFits, Fits
    <3>3. CASE job.pc # "activate_registered"
      BY <1>0, <3>3 DEF JobFits
    <3> QED BY <3>2, <3>3
  <2> QED BY <2>3, <2>4, <2>5, <2>6
<1> QED BY <1>1, <1>2, <1>3

-----------------------------------------------------------------------------
(* The steps of the certificate job.  All leave the requests alone, and    *)
(* only the last activation touches the registered client.                 *)
LEMMA LocalStep ==
    ASSUME IInv, TypeOK', UNCHANGED <<disk, handler>>,
           client'["registered"] = client["registered"], JobFits'
    PROVE  IInv'
<1>1. RegisteredMovesOn
  BY DEF RegisteredMovesOn
<1>2. HandlersFit'
  BY <1>1, HandlersKeepFitting DEF IInv
<1> QED BY <1>2 DEF IInv, RegisteredVerified

LEMMA EnsureStep ==
    ASSUME IInv, JobClone \/ EnsureCurrent \/ EnsureVerified \/ EnsureUnverified
                 \/ Transition
    PROVE  IInv'
<1> USE DEF IInv
<1>0. /\ Nothing \in PreparedClientTls
      /\ "registered" \in Clients /\ "local" \in Clients
      /\ IdleJob.pc = "idle" /\ IdleJob.material = 0 /\ IdleJob.attempt = 0
      /\ IdleJob.prepared = Nothing
  BY DEF Nothing, PreparedClientTls, Generation, Clients, IdleJob
<1>1. CASE JobClone
  <2>1. /\ TypeOK' /\ client'["registered"] = client["registered"]
        /\ UNCHANGED <<disk, handler>>
    BY <1>0, <1>1 DEF JobClone, JobGoto, TypeOK
  <2>2. JobFits'
    BY <1>1 DEF JobClone, JobGoto, JobFits, TypeOK
  <2> QED BY <2>1, <2>2, LocalStep
<1>2. CASE EnsureCurrent
  <2>1. CASE JobGoto("transition")
    <3>1. TypeOK' /\ JobFits'
      BY <1>2, <2>1 DEF EnsureCurrent, JobGoto, TypeOK, JobFits
    <3> QED BY <1>2, <3>1, LocalStep DEF EnsureCurrent
  <2>2. CASE JobTakes(Bootstrap, TRUE, "ensure_verified")
    <3>1. TypeOK' /\ JobFits'
      BY Zenon, <1>0, <1>2, <2>2, PreparedFits
         DEF EnsureCurrent, JobTakes, Bootstrap, TypeOK, JobFits
    <3> QED BY <1>2, <3>1, LocalStep DEF EnsureCurrent
  <2> QED BY Zenon, <1>2, <2>1, <2>2 DEF EnsureCurrent
<1>3. CASE EnsureVerified \/ EnsureUnverified
  <2>0. /\ job.prepared \in PreparedClientTls /\ job.prepared.owner = "local"
        /\ UNCHANGED <<disk, handler>>
    BY Zenon, <1>3 DEF EnsureVerified, EnsureUnverified, JobFits, TypeOK
  <2>1. CASE Install(job.prepared) /\ JobGoto("transition")
    <3>1. /\ client' \in [Clients -> ClientState]
          /\ client'["registered"] = client["registered"]
      BY <1>0, <2>0, <2>1, InstallEffect
    <3>2. TypeOK' /\ JobFits'
      BY <2>0, <2>1, <3>1 DEF JobGoto, TypeOK, JobFits
    <3> QED BY <2>0, <3>1, <3>2, LocalStep
  <2>2. CASE JobTakes(Bootstrap, FALSE, "ensure_unverified") /\ UNCHANGED client
    <3>1. TypeOK' /\ JobFits'
      BY Zenon, <1>0, <2>0, <2>2, PreparedFits DEF JobTakes, Bootstrap, TypeOK, JobFits
    <3> QED BY <2>0, <2>2, <3>1, LocalStep
  <2>3. CASE JobFails
    <3>1. TypeOK' /\ JobFits'
      BY <1>0, <2>0, <2>3 DEF JobFails, TypeOK, JobFits, IdleJob
    <3> QED BY <2>0, <2>3, <3>1, LocalStep DEF JobFails
  <2> QED BY Zenon, <1>3, <2>1, <2>2, <2>3 DEF EnsureVerified, EnsureUnverified
<1>4. CASE Transition
  <2>1. TypeOK' /\ JobFits'
    BY Zenon, <1>4 DEF Transition, TypeOK, JobFits
  <2> QED BY <1>4, <2>1, LocalStep DEF Transition
<1> QED BY <1>1, <1>2, <1>3, <1>4

LEMMA BindStep ==
    ASSUME IInv,
           \/ JobPrepare("local", "prepare_local", "activate_local")
           \/ JobPrepare("registered", "prepare_registered", "activate_registered")
           \/ JobActivate("local", "activate_local", "prepare_registered")
           \/ JobActivate("registered", "activate_registered", "done")
           \/ JobDone
    PROVE  IInv'
<1> USE DEF IInv
<1>0. /\ Nothing \in PreparedClientTls
      /\ "registered" \in Clients /\ "local" \in Clients
  BY DEF Nothing, PreparedClientTls, Generation, Clients
<1>1. UNCHANGED <<disk, handler>>
  BY DEF JobPrepare, JobActivate, JobDone
<1>2. CASE job' = IdleJob /\ UNCHANGED client
  <2>1. TypeOK' /\ JobFits'
    BY <1>0, <1>1, <1>2 DEF TypeOK, JobFits, IdleJob
  <2> QED BY <1>1, <1>2, <2>1, LocalStep
<1>3. ASSUME NEW c \in Clients,
             JobPrepare(c, IF c = "local" THEN "prepare_local"
                                          ELSE "prepare_registered",
                           IF c = "local" THEN "activate_local"
                                          ELSE "activate_registered"),
             job' # IdleJob
      PROVE  IInv'
  <2> DEFINE p == Prepared(c, TRUE)
  <2>1. /\ p \in PreparedClientTls /\ p.owner = c /\ Fits(p)
        /\ p.generation = [material |-> disk, verified |-> TRUE]
    BY Zenon, <1>3, PreparedFits
  <2>2. /\ client' = client /\ disk = job.material /\ job.material # 0
        /\ job' = [job EXCEPT !.pc = IF c = "local" THEN "activate_local"
                                                    ELSE "activate_registered",
                              !.prepared = p, !.attempt = 1]
    BY <1>3 DEF JobPrepare, Pinned, JobFits
  <2> HIDE DEF p
  <2>3. TypeOK'
    BY Zenon, <1>1, <2>1, <2>2 DEF TypeOK
  <2>4. JobFits'
    BY <1>3, <2>1, <2>2 DEF TypeOK, JobFits, Fits, Clients
  <2> QED BY <1>1, <2>2, <2>3, <2>4, LocalStep
<1>4. ASSUME NEW c \in Clients,
             JobActivate(c, IF c = "local" THEN "activate_local"
                                           ELSE "activate_registered",
                            IF c = "local" THEN "prepare_registered"
                                           ELSE "done")
      PROVE  IInv'
  <2>0. /\ job.prepared \in PreparedClientTls /\ job.prepared.owner = c
        /\ job.material # 0
        /\ c = "registered" => job.prepared.generation.verified
        /\ c = "local" \/ c = "registered"
    BY <1>3, <1>4 DEF JobActivate, JobFits, TypeOK, Clients
  <2> DEFINE to == IF c = "local" THEN "prepare_registered" ELSE "done"
  <2>1. CASE Install(job.prepared) /\ JobGoto(to)
    <3>1. /\ client' \in [Clients -> ClientState]
          /\ RegisteredVerified'
          /\ RegisteredMovesOn
      <4>1. client["registered"].revision \in Nat
        BY <1>0 DEF TypeOK, ClientState
      <4>2. CASE c = "local"
        BY <1>0, <2>0, <2>1, <4>2, InstallEffect
        DEF RegisteredMovesOn, RegisteredVerified
      <4>3. CASE c = "registered"
        <5>1. job.prepared.generation.material # 0
          BY <1>4, <4>3 DEF JobActivate, JobFits
        <5> QED BY <1>0, <2>0, <2>1, <4>1, <4>3, <5>1, InstallEffect
                DEF RegisteredMovesOn, RegisteredVerified, Verified
      <4> QED BY <2>0, <4>2, <4>3
    <3>2. TypeOK' /\ JobFits'
      BY <1>1, <2>0, <2>1, <3>1 DEF JobGoto, TypeOK, JobFits
    <3> QED BY <1>1, <3>1, <3>2, HandlersKeepFitting
  <2>2. CASE JobGoto(to) /\ UNCHANGED client
    <3>1. TypeOK' /\ JobFits'
      BY <1>1, <2>0, <2>2 DEF JobGoto, TypeOK, JobFits
    <3> QED BY <1>1, <2>2, <3>1, LocalStep
  <2>3. CASE /\ Pinned /\ UNCHANGED client
             /\ job' = [job EXCEPT !.prepared = Prepared(c, TRUE),
                                   !.attempt = @ + 1]
    <3> DEFINE p == Prepared(c, TRUE)
    <3>1. /\ p \in PreparedClientTls /\ p.owner = c /\ Fits(p)
          /\ p.generation = [material |-> disk, verified |-> TRUE]
      BY Zenon, PreparedFits
    <3>2. /\ disk = job.material /\ client' = client
          /\ job' = [job EXCEPT !.prepared = p, !.attempt = @ + 1]
      BY <2>3 DEF Pinned
    <3> HIDE DEF p
    <3>3. TypeOK'
      <4>1. job.attempt + 1 \in Nat
        BY DEF TypeOK
      <4>2. job' = [job EXCEPT !.prepared = p, !.attempt = job.attempt + 1]
        BY <3>2
      <4>3. job' \in [pc : {"idle", "ensure", "ensure_verified", "ensure_unverified",
                            "transition", "prepare_local", "activate_local",
                            "prepare_registered", "activate_registered", "done"},
                      material : Nat, prepared : PreparedClientTls, attempt : Nat]
        BY Zenon, <3>1, <4>1, <4>2 DEF TypeOK
      <4> QED BY <1>1, <3>2, <4>3 DEF TypeOK
    <3>4. JobFits'
      BY <1>4, <2>0, <3>1, <3>2 DEF JobActivate, TypeOK, JobFits, Fits
    <3> QED BY <1>1, <2>3, <3>3, <3>4, LocalStep
  <2>4. CASE job' = [job EXCEPT !.attempt = @ + 1] /\ UNCHANGED client
    <3>1. TypeOK' /\ JobFits'
      BY <1>1, <2>4 DEF TypeOK, JobFits, Fits
    <3> QED BY <1>1, <2>4, <3>1, LocalStep
  <2> QED BY <1>2, <1>4, <2>1, <2>2, <2>3, <2>4 DEF JobActivate, JobFails
<1>5. CASE JobDone
  BY <1>2, <1>5 DEF JobDone
<1>6. CASE JobPrepare("local", "prepare_local", "activate_local")
  BY Zenon, <1>0, <1>2, <1>3, <1>6 DEF JobPrepare
<1>7. CASE JobPrepare("registered", "prepare_registered", "activate_registered")
  BY Zenon, <1>0, <1>2, <1>3, <1>7 DEF JobPrepare
<1>8. CASE JobActivate("local", "activate_local", "prepare_registered")
  BY <1>0, <1>4, <1>8
<1>9. CASE JobActivate("registered", "activate_registered", "done")
  BY <1>0, <1>4, <1>9
<1> QED BY <1>5, <1>6, <1>7, <1>8, <1>9

-----------------------------------------------------------------------------
LEMMA EnvironmentStep ==
    ASSUME IInv, UpdateCredentials \/ RotateMaterial
    PROVE  IInv'
<1> USE DEF IInv
<1>1. CASE UpdateCredentials
  <2>1. /\ "registered" \in Clients
        /\ client["registered"] \in ClientState
        /\ client["registered"].revision \in Nat
        /\ client["registered"].credentials \in Nat
    BY DEF TypeOK, ClientState, Clients
  <2>2. /\ client' \in [Clients -> ClientState]
        /\ client'["registered"].revision = client["registered"].revision + 1
        /\ client'["registered"].generation = client["registered"].generation
        /\ UNCHANGED <<disk, handler, job>>
    BY <1>1, <2>1 DEF UpdateCredentials, TypeOK, ClientState
  <2>3. TypeOK' /\ RegisteredMovesOn /\ RegisteredVerified'
    BY <2>1, <2>2 DEF TypeOK, RegisteredMovesOn, RegisteredVerified, Verified
  <2>4. JobFits'
    <3>1. job.prepared \in PreparedClientTls
      BY DEF TypeOK
    <3>2. CASE job.pc = "activate_registered"
      BY <2>2, <2>3, <3>1, <3>2, CandidatesKeepFitting DEF JobFits, Fits
    <3>3. CASE job.pc # "activate_registered"
      BY <2>2, <3>3 DEF JobFits
    <3> QED BY <3>2, <3>3
  <2> QED BY <2>2, <2>3, <2>4, HandlersKeepFitting
<1>2. CASE RotateMaterial
  <2>1. TypeOK'
    BY <1>2 DEF RotateMaterial, TypeOK
  <2> QED BY <1>2, <2>1
          DEF RotateMaterial, HandlersFit, JobFits, Fits, RegisteredVerified, Verified
<1> QED BY <1>1, <1>2

LEMMA InitIInv == Init => IInv
<1> SUFFICES ASSUME Init PROVE IInv
  OBVIOUS
<1>1. Nothing \in PreparedClientTls
  BY DEF Nothing, PreparedClientTls, Generation, Clients
<1>2. TypeOK
  BY <1>1 DEF Init, TypeOK, ClientState, Generation, IdleHandler, IdleJob
<1>3. /\ client["registered"].generation.material = 0
      /\ job.pc = "idle"
      /\ \A h \in Handlers : handler[h].pc = "idle"
  BY DEF Init, IdleHandler, IdleJob, Clients
<1> QED BY <1>2, <1>3 DEF IInv, HandlersFit, JobFits, RegisteredVerified

LEMMA NextIInv == IInv /\ [Next]_vars => IInv'
<1> SUFFICES ASSUME IInv, [Next]_vars PROVE IInv'
  OBVIOUS
<1>1. CASE UNCHANGED vars
  BY <1>1 DEF vars, IInv, TypeOK, HandlersFit, JobFits, Fits, RegisteredVerified,
              Verified
<1>2. CASE \E h \in Handlers : Choose(h) \/ HandlerPrepare(h) \/ HandlerActivate(h)
  BY <1>2, HandlerStep
<1>3. CASE Job
  BY <1>3, EnsureStep, BindStep DEF Job
<1>4. CASE UpdateCredentials \/ RotateMaterial
  BY <1>4, EnvironmentStep
<1> QED BY <1>1, <1>2, <1>3, <1>4 DEF Next

(* IInv holds in every reachable state.                                    *)
LEMMA SpecIInv == Spec => []IInv
BY InitIInv, NextIInv, PTL DEF Spec

-----------------------------------------------------------------------------
(* The registered client never accepts an unverified server, however many  *)
(* requests reconfigure it and whatever the certificate job bootstraps     *)
(* over (ensure_nvue_client_for_certificate).                              *)
THEOREM RegisteredStaysVerified == Spec => []RegisteredVerified
<1>1. IInv => RegisteredVerified
  BY DEF IInv
<1> QED BY <1>1, SpecIInv, PTL

(* No activation reverts a password rotation of the registered client      *)
(* (activate_prepared_client_tls, update_credentials).                     *)
THEOREM RotationIsNeverUndone == Spec => CredentialsKept
<1> DEFINE Kept == client'["registered"].credentials >= client["registered"].credentials
<1>1. ASSUME IInv, [Next]_vars PROVE Kept
  <2>1. /\ "registered" \in Clients
        /\ client["registered"].credentials \in Nat
        /\ client["registered"].revision \in Nat
        /\ \A h \in Handlers : handler[h].prepared \in PreparedClientTls
        /\ job.prepared \in PreparedClientTls
    BY <1>1 DEF IInv, TypeOK, ClientState, Clients
  <2>2. CASE client'["registered"] = client["registered"]
    BY <2>1, <2>2
  <2>3. ASSUME NEW p \in PreparedClientTls, p.owner = "registered", Fits(p),
               Current(p), Install(p)
        PROVE  Kept
    BY <1>1, <2>1, <2>3, InstallEffect DEF IInv, Fits, Current
  <2>4. ASSUME NEW h \in Handlers,
               Choose(h) \/ HandlerPrepare(h) \/ HandlerActivate(h)
        PROVE  Kept
    <3>1. CASE UNCHANGED client
      BY <2>2, <3>1
    <3>2. CASE HandlerActivate(h) /\ Current(handler[h].prepared)
               /\ Install(handler[h].prepared)
      BY <1>1, <2>1, <2>3, <3>2 DEF IInv, HandlersFit, HandlerActivate
    <3> QED BY <2>4, <3>1, <3>2 DEF Choose, HandlerPrepare, HandlerActivate
  <2>5. CASE Job
    <3>1. CASE UNCHANGED client
      BY <2>2, <3>1
    <3>2. CASE JobClone
      BY <1>1, <2>2, <3>2 DEF JobClone, IInv, TypeOK, Clients
    <3>3. CASE Install(job.prepared) /\ job.prepared.owner = "local"
      BY <1>1, <2>1, <2>2, <3>3, InstallEffect DEF IInv
    <3>4. CASE /\ job.pc = "activate_registered" /\ Current(job.prepared)
               /\ Install(job.prepared)
      BY <1>1, <2>1, <2>3, <3>4 DEF IInv, JobFits
    <3> QED BY Zenon, <1>1, <2>5, <3>1, <3>2, <3>3, <3>4
            DEF IInv, JobFits, Job, EnsureCurrent, EnsureVerified, EnsureUnverified,
                Transition, JobPrepare, JobActivate, JobDone, JobFails
  <2>6. CASE UpdateCredentials
    BY <1>1, <2>1, <2>6 DEF UpdateCredentials, IInv, TypeOK, ClientState
  <2>7. CASE RotateMaterial
    BY <2>2, <2>7 DEF RotateMaterial
  <2>8. CASE UNCHANGED vars
    BY <2>2, <2>8 DEF vars
  <2> QED BY <1>1, <2>4, <2>5, <2>6, <2>7, <2>8 DEF Next
<1>2. IInv /\ [Next]_vars => [Kept]_vars
  BY <1>1
<1> QED BY <1>2, SpecIInv, PTL DEF Spec, CredentialsKept

(* A completed install leaves the registered client verified on its own    *)
(* material (bind_nvue_mtls_with_client_transition,                        *)
(* activate_nvue_client_tls_with_retries).                                 *)
THEOREM InstallMovesRegistered == Spec => RegisteredFollowsInstall
<1> DEFINE Follows == job.pc = "activate_registered" /\ job'.pc = "done" =>
               client'["registered"].generation =
                   [material |-> job.material, verified |-> TRUE]
<1>1. ASSUME IInv, [Next]_vars, job.pc = "activate_registered", job'.pc = "done"
      PROVE  client'["registered"].generation =
                 [material |-> job.material, verified |-> TRUE]
  <2>1. JobActivate("registered", "activate_registered", "done")
    BY Zenon, <1>1
    DEF Next, vars, Choose, HandlerPrepare, HandlerActivate, UpdateCredentials,
        RotateMaterial, Job, JobClone, EnsureCurrent, EnsureVerified,
        EnsureUnverified, Transition, JobPrepare, JobActivate, JobDone
  <2>2. /\ job.prepared \in PreparedClientTls /\ job.prepared.owner = "registered"
        /\ job.prepared.generation = [material |-> job.material, verified |-> TRUE]
    BY <1>1 DEF IInv, JobFits, TypeOK
  <2>3. CASE Install(job.prepared)
    BY <1>1, <2>2, <2>3, InstallEffect DEF IInv
  <2>4. CASE Redundant(job.prepared) /\ UNCHANGED client
    BY <2>2, <2>4 DEF Redundant
  <2>5. IdleJob.pc # "done"
    BY DEF IdleJob
  <2>6. (job' = [job EXCEPT !.attempt = @ + 1]) => job'.pc # "done"
    BY <1>1 DEF IInv, TypeOK
  <2>7. (job' = [job EXCEPT !.prepared = Prepared("registered", TRUE),
                            !.attempt = @ + 1]) => job'.pc # "done"
    BY <1>1 DEF IInv, TypeOK
  <2> QED BY <1>1, <2>1, <2>3, <2>4, <2>5, <2>6, <2>7 DEF JobActivate, JobFails
<1>2. IInv /\ [Next]_vars => [Follows]_vars
  BY <1>1
<1> QED BY <1>2, SpecIInv, PTL DEF Spec, RegisteredFollowsInstall

=============================================================================
