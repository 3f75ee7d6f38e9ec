------------------------- MODULE OrchestratorProofs -------------------------
(***************************************************************************)
(* Proofs about two registries of the orchestrator: the fabric operation   *)
(* registry (FabricOperations), for any sets of jobs, keys, rules,         *)
(* controllers and digests and any capacities, and the tasks of jobs and   *)
(* their graceful shutdown (JobSupervision), for any sets of jobs.         *)
(***************************************************************************)
EXTENDS FabricOperations, JobSupervision, FiniteSetTheorems, TLAPS

(* A controller has at most one proof, so a superseded digest is never     *)
(* reported as active next to the current one.                             *)
OneProofPerController ==
    \A p, q \in proofs : p.controller = q.controller => p = q

(* The inductive invariant of the ownership and evidence rules.            *)
Evidence ==
    /\ TypeOK
    /\ ScopesDisjoint
    /\ PendingExclusive
    /\ PendingUnproven
    /\ OneProofPerController

-----------------------------------------------------------------------------
(* Eviction only removes proofs.                                           *)
LEMMA EvictSubset ==
    ASSUME NEW ps
    PROVE  Evict(ps) \subseteq ps
BY DEF Evict, PopFront

(* Initially there is no operation and no proof.                           *)
LEMMA InitEvidence == Init => Evidence
BY DEF Init, Evidence, TypeOK, ScopesDisjoint, PendingExclusive,
       PendingUnproven, OneProofPerController, PendingAnywhere, Proven

(* Admission of an unowned scope: the new scope meets no other.            *)
LEMMA AdmitEvidence ==
    ASSUME Evidence, NEW j \in Jobs, NEW ks \in SUBSET Keys, NEW r \in Rules,
           Admit(j, ks, r)
    PROVE  Evidence'
<1> USE DEF Evidence, Admit, With
<1>1. TypeOK'
  BY DEF TypeOK, FabricOperation
<1>2. ScopesDisjoint'
  BY DEF ScopesDisjoint, Overlapping, TypeOK
<1>3. PendingExclusive'
  BY DEF PendingExclusive, TypeOK
<1>4. PendingUnproven'
  BY DEF PendingUnproven, PendingAnywhere, Proven, TypeOK
<1>5. OneProofPerController'
  BY DEF OneProofPerController
<1> QED
  BY <1>1, <1>2, <1>3, <1>4, <1>5

(* A transfer moves scope and pending marks from one owner to another.     *)
LEMMA TransferEvidence ==
    ASSUME Evidence, NEW j \in Jobs, NEW prev \in Jobs,
           NEW ks \in SUBSET Keys, NEW r \in Rules, Transfer(j, prev, ks, r)
    PROVE  Evidence'
<1> USE DEF Evidence, Transfer
<1>0. prev \in DOMAIN operations /\ j # prev
  BY DEF Overlapping
<1>1. TypeOK'
  BY <1>0 DEF TypeOK, FabricOperation
<1>2. ScopesDisjoint'
  BY <1>0 DEF ScopesDisjoint, TypeOK
<1>3. PendingExclusive'
  BY <1>0 DEF PendingExclusive, TypeOK
<1>4. PendingUnproven'
  BY <1>0 DEF PendingUnproven, PendingAnywhere, Proven, TypeOK
<1>5. OneProofPerController'
  BY DEF OneProofPerController
<1> QED
  BY <1>1, <1>2, <1>3, <1>4, <1>5

(* Marking: no other owner has the marks, and the proofs go first.         *)
LEMMA MarkPendingEvidence ==
    ASSUME Evidence, NEW j \in Jobs, NEW cs \in SUBSET Controllers,
           MarkPending(j, cs)
    PROVE  Evidence'
<1> USE DEF Evidence, MarkPending, SetPending, With
<1>1. TypeOK'
  BY DEF TypeOK, FabricOperation, ActivationProof, ProofsExcept
<1>2. ScopesDisjoint'
  BY DEF ScopesDisjoint, TypeOK, FabricOperation
<1>3. PendingExclusive'
  BY DEF PendingExclusive, PendingElsewhere, TypeOK, FabricOperation
<1>4. PendingUnproven'
  BY DEF PendingUnproven, PendingAnywhere, Proven, ProofsExcept, TypeOK,
         FabricOperation
<1>5. OneProofPerController'
  BY DEF OneProofPerController, ProofsExcept
<1> QED
  BY <1>1, <1>2, <1>3, <1>4, <1>5

(* Clearing a mark only shrinks a pending set.                             *)
LEMMA ClearInactiveEvidence ==
    ASSUME Evidence, NEW j \in Jobs, NEW c \in Controllers,
           ClearInactive(j, c)
    PROVE  Evidence'
<1> USE DEF Evidence, ClearInactive, SetPending, With
<1>1. TypeOK'
  BY DEF TypeOK, FabricOperation
<1>2. ScopesDisjoint'
  BY DEF ScopesDisjoint, TypeOK, FabricOperation
<1>3. PendingExclusive'
  BY DEF PendingExclusive, TypeOK, FabricOperation
<1>4. PendingUnproven'
  BY DEF PendingUnproven, PendingAnywhere, Proven, TypeOK, FabricOperation
<1>5. OneProofPerController'
  BY DEF OneProofPerController
<1> QED
  BY <1>1, <1>2, <1>3, <1>4, <1>5

(* The pushed proof is the controller's only one and its mark is gone.     *)
LEMMA RecordActivationEvidence ==
    ASSUME Evidence, NEW j \in Jobs, NEW c \in Controllers, NEW d \in Digests,
           NEW ks \in SUBSET Keys, RecordActivation(j, c, d, ks)
    PROVE  Evidence'
<1> USE DEF Evidence, RecordActivation, SetPending, With
<1> DEFINE new == [controller |-> c, digest |-> d, scope |-> ks, at |-> nextAt]
<1>0. proofs' \subseteq ProofsExcept({c}) \cup {new}
  BY Zenon, EvictSubset
<1>1. TypeOK'
  BY <1>0 DEF TypeOK, FabricOperation, ActivationProof, ProofsExcept
<1>2. ScopesDisjoint'
  BY DEF ScopesDisjoint, TypeOK, FabricOperation
<1>3. PendingExclusive'
  BY DEF PendingExclusive, TypeOK, FabricOperation
<1>4. PendingUnproven'
  <2> SUFFICES ASSUME NEW e \in Controllers, NEW k \in DOMAIN operations',
                      e \in operations'[k].pending,
                      NEW p \in proofs', p.controller = e
               PROVE  FALSE
    BY Zenon DEF PendingUnproven, PendingAnywhere, Proven
  <2>1. k \in DOMAIN operations /\ e \in operations[k].pending
    BY DEF TypeOK, FabricOperation
  <2>2. p \notin proofs
    BY <2>1 DEF PendingUnproven, PendingAnywhere, Proven
  <2>3. e = c
    BY <2>2, <1>0 DEF ProofsExcept
  <2>4. k = j
    BY <2>1, <2>3 DEF PendingExclusive
  <2> QED
    BY <2>3, <2>4 DEF TypeOK, FabricOperation
<1>5. OneProofPerController'
  BY <1>0 DEF OneProofPerController, ProofsExcept
<1> QED
  BY <1>1, <1>2, <1>3, <1>4, <1>5

(* Removing an operation, with or without proofs, disturbs nothing.        *)
LEMMA ReleaseEvidence ==
    ASSUME Evidence, NEW j \in Jobs, Finish(j) \/ ReleaseFailed(j)
    PROVE  Evidence'
<1>0. operations' = Without(j) /\ proofs' \subseteq proofs /\ nextAt' = nextAt
  BY DEF Finish, ReleaseFailed, ProofsExcept
<1> USE <1>0 DEF Evidence, Without
<1>1. TypeOK'
  BY DEF TypeOK
<1>2. ScopesDisjoint'
  BY DEF ScopesDisjoint
<1>3. PendingExclusive'
  BY DEF PendingExclusive
<1>4. PendingUnproven'
  BY DEF PendingUnproven, PendingAnywhere, Proven
<1>5. OneProofPerController'
  BY DEF OneProofPerController
<1> QED
  BY <1>1, <1>2, <1>3, <1>4, <1>5

(* An invalidation only removes proofs.                                    *)
LEMMA InvalidateEvidence ==
    ASSUME Evidence, NEW ks \in SUBSET Keys, InvalidateAndRequireClear(ks)
    PROVE  Evidence'
<1>0. operations' = operations /\ proofs' \subseteq proofs /\ nextAt' = nextAt
  BY DEF InvalidateAndRequireClear
<1> QED
  BY <1>0 DEF Evidence, TypeOK, ScopesDisjoint, PendingExclusive,
              PendingUnproven, OneProofPerController, PendingAnywhere, Proven

(* Every step of the registry preserves the invariant.                     *)
LEMMA NextEvidence == Evidence /\ [Next]_vars => Evidence'
<1> SUFFICES ASSUME Evidence, [Next]_vars
             PROVE  Evidence'
  OBVIOUS
<1>1. ASSUME NEW j \in Jobs, NEW ks \in SUBSET Keys, NEW r \in Rules,
             Admit(j, ks, r)
      PROVE  Evidence'
  BY <1>1, AdmitEvidence
<1>2. ASSUME NEW j \in Jobs, NEW prev \in Jobs, NEW ks \in SUBSET Keys,
             NEW r \in Rules, Transfer(j, prev, ks, r)
      PROVE  Evidence'
  BY <1>2, TransferEvidence
<1>3. ASSUME NEW j \in Jobs, NEW cs \in SUBSET Controllers, MarkPending(j, cs)
      PROVE  Evidence'
  BY <1>3, MarkPendingEvidence
<1>4. ASSUME NEW j \in Jobs, NEW c \in Controllers, ClearInactive(j, c)
      PROVE  Evidence'
  BY <1>4, ClearInactiveEvidence
<1>5. ASSUME NEW j \in Jobs, NEW c \in Controllers, NEW d \in Digests,
             NEW ks \in SUBSET Keys, RecordActivation(j, c, d, ks)
      PROVE  Evidence'
  BY <1>5, RecordActivationEvidence
<1>6. ASSUME NEW j \in Jobs, Finish(j) \/ ReleaseFailed(j)
      PROVE  Evidence'
  BY <1>6, ReleaseEvidence
<1>7. ASSUME NEW ks \in SUBSET Keys, InvalidateAndRequireClear(ks)
      PROVE  Evidence'
  BY <1>7, InvalidateEvidence
<1>8. CASE UNCHANGED vars
  BY <1>8 DEF vars, Evidence, TypeOK, ScopesDisjoint, PendingExclusive,
              PendingUnproven, OneProofPerController, PendingAnywhere, Proven
<1> QED
  BY <1>1, <1>2, <1>3, <1>4, <1>5, <1>6, <1>7, <1>8 DEF Next

(* The registry keeps its types, its operations' scopes and pending marks  *)
(* disjoint, and never proves a pending controller or one twice.           *)
THEOREM EvidenceInvariant == Spec => []Evidence
BY InitEvidence, NextEvidence, PTL DEF Spec

(* has_activation_proof never vouches for a controller that is pending.    *)
THEOREM PendingIsUnproven == Spec => []PendingUnproven
<1>1. Evidence => PendingUnproven
  BY DEF Evidence
<1> QED
  BY <1>1, EvidenceInvariant, PTL

(* No two operations own a common scope key.                               *)
THEOREM ScopesAreDisjoint == Spec => []ScopesDisjoint
<1>1. Evidence => ScopesDisjoint
  BY DEF Evidence
<1> QED
  BY <1>1, EvidenceInvariant, PTL

-----------------------------------------------------------------------------
(* A nonempty finite proof queue has a front.                              *)
LEMMA FrontExists ==
    ASSUME NEW ps \in SUBSET ActivationProof, IsFiniteSet(ps), ps # {}
    PROVE  \E p \in ps : \A q \in ps : ~(q.at < p.at)
<1> DEFINE Older(p) == {q \in ps : q.at < p.at}
           R == StrictSubsetOrdering(ps)
           T == {Older(p) : p \in ps}
<1>1. IsWellFoundedOn(R, SUBSET ps)
  BY Zenon, FS_StrictSubsetOrderingWellFounded, FS_FiniteSubsetsOfFinite
<1>2. T \subseteq SUBSET ps /\ T # {}
  OBVIOUS
<1>3. PICK O \in T : \A U \in T : ~(<<U, O>> \in R)
  <2> HIDE DEF R, T
  <2> QED
    BY <1>1, <1>2, WFMin
<1>4. PICK p \in ps : O = Older(p)
  OBVIOUS
<1>5. ASSUME NEW q \in ps, q.at < p.at
      PROVE  FALSE
  <2>1. Older(q) \subseteq Older(p)
    BY <1>5 DEF ActivationProof
  <2>2. q \in Older(p) /\ q \notin Older(q)
    BY <1>5 DEF ActivationProof
  <2>3. <<Older(q), O>> \in R
    BY <2>1, <2>2, <1>4 DEF StrictSubsetOrdering
  <2> QED
    BY <2>3, <1>3
<1> QED
  BY <1>5

(* Adding one element adds at most one to the cardinality.                 *)
LEMMA AddOne ==
    ASSUME NEW S, NEW x, IsFiniteSet(S), NEW n \in Nat, Cardinality(S) <= n
    PROVE  IsFiniteSet(S \cup {x}) /\ Cardinality(S \cup {x}) <= n + 1
<1>1. Cardinality(S) \in Nat
  BY FS_CardinalityType
<1>2. /\ IsFiniteSet(S \cup {x})
      /\ Cardinality(S \cup {x}) =
            IF x \in S THEN Cardinality(S) ELSE Cardinality(S) + 1
  BY FS_AddElement
<1> QED
  BY <1>1, <1>2

(* Evicting from a queue one over capacity brings it back to capacity.     *)
LEMMA EvictCapacity ==
    ASSUME NEW ps \in SUBSET ActivationProof, IsFiniteSet(ps),
           Cardinality(ps) <= MAX_ACTIVATION_PROOFS + 1
    PROVE  /\ IsFiniteSet(Evict(ps))
           /\ Cardinality(Evict(ps)) <= MAX_ACTIVATION_PROOFS
<1> USE CapacityAssumption
<1>0. IsFiniteSet(Evict(ps)) /\ Cardinality(ps) \in Nat
  BY EvictSubset, FS_Subset, FS_CardinalityType
<1>1. CASE Cardinality(ps) <= MAX_ACTIVATION_PROOFS
  BY <1>0, <1>1 DEF Evict
<1>2. CASE Cardinality(ps) > MAX_ACTIVATION_PROOFS
  <2>1. ps # {}
    BY <1>2, FS_EmptySet
  <2>2. PICK p \in ps : \A q \in ps : ~(q.at < p.at)
    BY <2>1, FrontExists
  <2>3. Evict(ps) \subseteq ps \ {p}
    BY <1>2, <2>2 DEF Evict, PopFront
  <2>4. IsFiniteSet(ps \ {p}) /\ Cardinality(ps \ {p}) = Cardinality(ps) - 1
    BY FS_RemoveElement
  <2>5. Cardinality(Evict(ps)) <= Cardinality(ps \ {p})
    BY <2>3, <2>4, FS_Subset
  <2> QED
    BY <1>0, <2>4, <2>5, FS_CardinalityType
<1> QED
  BY <1>0, <1>1, <1>2

(* The capacity invariant needs the two collections to be finite.          *)
Bounded ==
    /\ IsFiniteSet(DOMAIN operations)
    /\ IsFiniteSet(proofs)
    /\ WithinCapacity

(* Only Admit and Transfer add an owner, and only RecordActivation adds a  *)
(* proof.                                                                  *)
LEMMA NextBounded == TypeOK /\ Bounded /\ [Next]_vars => Bounded'
<1> SUFFICES ASSUME TypeOK, Bounded, [Next]_vars
             PROVE  Bounded'
  OBVIOUS
<1> USE CapacityAssumption
<1>0. /\ Cardinality(DOMAIN operations) \in Nat
      /\ Cardinality(proofs) \in Nat
  BY FS_CardinalityType DEF Bounded
<1> DEFINE Ops == /\ IsFiniteSet(DOMAIN operations)
                  /\ Cardinality(DOMAIN operations) <= MAX_OPERATIONS
           Prfs == /\ IsFiniteSet(proofs)
                   /\ Cardinality(proofs) <= MAX_ACTIVATION_PROOFS
<1>a. ASSUME proofs' \subseteq proofs
      PROVE  Prfs'
  BY <1>0, <1>a, FS_Subset, FS_CardinalityType DEF Bounded, WithinCapacity
<1>b. ASSUME DOMAIN operations' \subseteq DOMAIN operations
      PROVE  Ops'
  BY <1>0, <1>b, FS_Subset, FS_CardinalityType DEF Bounded, WithinCapacity
<1>1. ASSUME NEW j \in Jobs, NEW ks \in SUBSET Keys, NEW r \in Rules,
             Admit(j, ks, r)
      PROVE  Bounded'
  <2>1. DOMAIN operations' = DOMAIN operations \cup {j}
    BY <1>1 DEF Admit, With
  <2>2. Cardinality(DOMAIN operations) <= MAX_OPERATIONS - 1
    BY <1>0, <1>1 DEF Admit
  <2>3. MAX_OPERATIONS - 1 \in Nat
    BY <1>0, <2>2
  <2>4. /\ IsFiniteSet(DOMAIN operations \cup {j})
        /\ Cardinality(DOMAIN operations \cup {j}) <= (MAX_OPERATIONS - 1) + 1
    BY Zenon, <2>2, <2>3, AddOne DEF Bounded
  <2>5. Ops'
    BY <2>1, <2>4
  <2> QED
    BY <2>5, <1>1, <1>a DEF Admit, Bounded, WithinCapacity
<1>2. ASSUME NEW j \in Jobs, NEW prev \in Jobs, NEW ks \in SUBSET Keys,
             NEW r \in Rules, Transfer(j, prev, ks, r)
      PROVE  Bounded'
  <2>1. /\ DOMAIN operations' = (DOMAIN operations \ {prev}) \cup {j}
        /\ prev \in DOMAIN operations
    BY <1>2 DEF Transfer, Overlapping
  <2>2. /\ IsFiniteSet(DOMAIN operations \ {prev})
        /\ Cardinality(DOMAIN operations \ {prev})
                = Cardinality(DOMAIN operations) - 1
    BY <2>1, FS_RemoveElement DEF Bounded
  <2>3. /\ Cardinality(DOMAIN operations \ {prev}) <= MAX_OPERATIONS - 1
        /\ Cardinality(DOMAIN operations \ {prev}) \in Nat
    BY <1>0, <2>2, FS_CardinalityType DEF Bounded, WithinCapacity
  <2>4. MAX_OPERATIONS - 1 \in Nat
    BY <2>3
  <2>5. /\ IsFiniteSet((DOMAIN operations \ {prev}) \cup {j})
        /\ Cardinality((DOMAIN operations \ {prev}) \cup {j})
                <= (MAX_OPERATIONS - 1) + 1
    BY Zenon, <2>2, <2>3, <2>4, AddOne
  <2>6. Ops'
    BY <2>1, <2>5
  <2> QED
    BY <2>6, <1>2, <1>a DEF Transfer, Bounded, WithinCapacity
<1>3. ASSUME NEW j \in Jobs, NEW c \in Controllers, NEW d \in Digests,
             NEW ks \in SUBSET Keys, RecordActivation(j, c, d, ks)
      PROVE  Bounded'
  <2> DEFINE new == [controller |-> c, digest |-> d, scope |-> ks, at |-> nextAt]
             kept == ProofsExcept({c})
  <2>1. proofs' = Evict(kept \cup {new})
    BY <1>3 DEF RecordActivation
  <2>2. IsFiniteSet(kept) /\ Cardinality(kept) <= MAX_ACTIVATION_PROOFS
    BY <1>0, FS_Subset, FS_CardinalityType
       DEF Bounded, WithinCapacity, ProofsExcept
  <2>3. /\ kept \cup {new} \in SUBSET ActivationProof
        /\ new \in ActivationProof
    BY DEF TypeOK, ProofsExcept, ActivationProof
  <2> HIDE DEF kept, new
  <2>4. /\ IsFiniteSet(kept \cup {new})
        /\ Cardinality(kept \cup {new}) <= MAX_ACTIVATION_PROOFS + 1
    BY Zenon, <2>2, AddOne
  <2>5. Prfs'
    BY <2>1, <2>3, <2>4, EvictCapacity
  <2>6. DOMAIN operations' \subseteq DOMAIN operations
    BY <1>3 DEF RecordActivation, SetPending, With
  <2> QED
    BY <2>5, <2>6, <1>b DEF Bounded, WithinCapacity
<1>4. ASSUME NEW j \in Jobs,
             \/ \E cs \in SUBSET Controllers : MarkPending(j, cs)
             \/ \E c \in Controllers : ClearInactive(j, c)
      PROVE  Bounded'
  <2>1. proofs' \subseteq proofs /\ DOMAIN operations' \subseteq DOMAIN operations
    BY <1>4 DEF MarkPending, ClearInactive, SetPending, With, ProofsExcept
  <2> QED
    BY <2>1, <1>a, <1>b DEF Bounded, WithinCapacity
<1>5. ASSUME NEW j \in Jobs, Finish(j) \/ ReleaseFailed(j)
      PROVE  Bounded'
  <2>1. proofs' \subseteq proofs /\ DOMAIN operations' \subseteq DOMAIN operations
    BY <1>5 DEF Finish, ReleaseFailed, Without, ProofsExcept
  <2> QED
    BY <2>1, <1>a, <1>b DEF Bounded, WithinCapacity
<1>6. ASSUME NEW ks \in SUBSET Keys, InvalidateAndRequireClear(ks)
      PROVE  Bounded'
  BY <1>6, <1>a, <1>b DEF InvalidateAndRequireClear, Bounded, WithinCapacity
<1>7. CASE UNCHANGED vars
  BY <1>7 DEF vars, Bounded, WithinCapacity
<1> QED
  BY <1>1, <1>2, <1>3, <1>4, <1>5, <1>6, <1>7 DEF Next

(* The two capacities hold in every reachable state.                       *)
THEOREM RegistryWithinCapacity == Spec => []WithinCapacity
<1>1. Init => Bounded
  BY FS_EmptySet, CapacityAssumption DEF Init, Bounded, WithinCapacity
<1>2. Evidence => TypeOK
  BY DEF Evidence
<1>3. Bounded => WithinCapacity
  BY DEF Bounded
<1> QED
  BY <1>1, <1>2, <1>3, NextBounded, EvidenceInvariant, PTL DEF Spec

-----------------------------------------------------------------------------
(* The proof record_activation pushes is still there when it returns.      *)
LEMMA RecordProves ==
    ASSUME TypeOK, NEW j \in Jobs, NEW c \in Controllers, NEW d \in Digests,
           NEW ks \in SUBSET Keys, RecordActivation(j, c, d, ks)
    PROVE  Proven(c)'
<1> DEFINE new == [controller |-> c, digest |-> d, scope |-> ks, at |-> nextAt]
           kept == ProofsExcept({c})
<1>1. proofs' = Evict(kept \cup {new})
  BY DEF RecordActivation
<1>2. new \in Evict(kept \cup {new})
  <2>1. CASE kept = {}
    <3>1. Cardinality(kept \cup {new}) = 1
      BY Zenon, <2>1, FS_Singleton
    <3> QED
      BY <3>1, CapacityAssumption DEF Evict
  <2>2. CASE kept # {}
    <3>1. PICK q \in kept : q.at < new.at
      BY <2>2 DEF TypeOK, ProofsExcept
    <3> QED
      BY <3>1 DEF Evict, PopFront
  <2> QED
    BY <2>1, <2>2
<1> QED
  BY <1>1, <1>2 DEF Proven

(* A mark survives every step that changes another owner's or another      *)
(* controller's entry, and a transfer.                                     *)
LEMMA NextMarkResolved == TypeOK /\ [Next]_vars => [MarkResolved]_vars
<1> SUFFICES ASSUME TypeOK, Next, NEW c \in Controllers,
                    PendingAnywhere(c), ~PendingAnywhere(c)'
             PROVE  \/ Proven(c)'
                    \/ \E j \in Jobs : ClearInactive(j, c) \/ ReleaseFailed(j)
  BY DEF MarkResolved
<1>0. PICK k \in DOMAIN operations : c \in operations[k].pending
  BY DEF PendingAnywhere
<1>1. ASSUME NEW j \in Jobs, NEW ks \in SUBSET Keys, NEW r \in Rules,
             Admit(j, ks, r)
      PROVE  FALSE
  BY <1>0, <1>1 DEF Admit, With, PendingAnywhere
<1>2. ASSUME NEW j \in Jobs, NEW prev \in Jobs, NEW ks \in SUBSET Keys,
             NEW r \in Rules, Transfer(j, prev, ks, r)
      PROVE  FALSE
  BY <1>0, <1>2 DEF Transfer, PendingAnywhere
<1>3. ASSUME NEW j \in Jobs, NEW cs \in SUBSET Controllers, MarkPending(j, cs)
      PROVE  FALSE
  BY <1>0, <1>3 DEF MarkPending, SetPending, With, PendingAnywhere, TypeOK,
                    FabricOperation
<1>4. ASSUME NEW j \in Jobs, NEW e \in Controllers, ClearInactive(j, e)
      PROVE  ClearInactive(j, c)
  BY Zenon, <1>0, <1>4 DEF ClearInactive, SetPending, With, PendingAnywhere, TypeOK,
                    FabricOperation
<1>5. ASSUME NEW j \in Jobs, NEW e \in Controllers, NEW d \in Digests,
             NEW ks \in SUBSET Keys, RecordActivation(j, e, d, ks)
      PROVE  Proven(c)'
  <2>1. e = c
    BY <1>0, <1>5 DEF RecordActivation, SetPending, With, PendingAnywhere,
                      TypeOK, FabricOperation
  <2> QED
    BY <1>5, <2>1, RecordProves
<1>6. ASSUME NEW j \in Jobs, Finish(j)
      PROVE  FALSE
  BY <1>0, <1>6 DEF Finish, Without, PendingAnywhere
<1>7. ASSUME NEW ks \in SUBSET Keys, InvalidateAndRequireClear(ks)
      PROVE  FALSE
  BY <1>0, <1>7 DEF InvalidateAndRequireClear, PendingAnywhere
<1> QED
  BY <1>1, <1>2, <1>3, <1>4, <1>5, <1>6, <1>7 DEF Next

(* A pending mark is never lost: it becomes a proof, or the owner verified *)
(* the controller inactive, or the owner failed.                           *)
THEOREM MarksAreResolved == Spec => MarksResolved
<1>1. Evidence => TypeOK
  BY DEF Evidence
<1> QED
  BY <1>1, NextMarkResolved, EvidenceInvariant, PTL DEF Spec, MarksResolved

(* Ownership is exclusive, evidence consistent and both tables bounded, for *)
(* every number of jobs, keys and controllers and every limit.              *)
THEOREM RegistryIsSound == Spec => []RegistrySound
<1>1. Evidence /\ WithinCapacity => RegistrySound
  BY DEF Evidence, RegistrySound
<1> QED
  BY <1>1, EvidenceInvariant, RegistryWithinCapacity, PTL

-----------------------------------------------------------------------------
(***************************************************************************)
(* JobSupervision.  The shutdown reads the records, the task map and the   *)
(* write lock one after the other while creations and spawns go on.  What  *)
(* makes its snapshots complete is that the flag is raised first           *)
(* (Closing): a creation that the cancellation did not see finds the flag, *)
(* and a worker runs only after its spawner read the flag as unset, which  *)
(* was after it registered its tasks (Tracked).  A handle belongs to a     *)
(* live record (Owned), so the final sweep leaves no worker without one.   *)
(***************************************************************************)
Pcs == {"up", "begun", "cancelled", "waiting", "aborting", "draining", "parents",
        "sweep", "fail", "returned"}

Typed ==
    /\ TrackerTypeOK
    /\ shutdown \in [pc : Pcs, flag : BOOLEAN, ids : SUBSET TrackedJobs,
                     taskIds : SUBSET Leaves]

\* A record, its handle, and the creation that is about to insert it.
Owned ==
    \A j \in TrackedJobs :
        /\ lock = j => Absent(j)
        /\ holder[j] # "none" => record[j] # "absent"
        /\ holder[j] # "none" /\ shutdown.pc # "returned" => record[j] = "Live"

\* The two tasks of a job and the call that spawns them.
Tracked ==
    \A j \in Leaves :
        /\ spawner[j] = "none" <=> worker[j] = "none"
        /\ spawner[j] # "none" => record[j] # "absent" /\ holder[j] # "caller"
        /\ worker[j] = "running" => spawner[j] = "done"
        /\ supervisor[j] \in {"cleanup", "done"} => worker[j] = "finished"
        /\ j \in aborted.supervisors => worker[j] = "finished"
        /\ spawner[j] \in {"registered", "open", "done"} /\ worker[j] # "finished"
              => j \in tasks
        /\ spawner[j] \in {"open", "done"} /\ worker[j] # "finished" =>
              (shutdown.pc \notin {"up", "begun", "cancelled"} => j \in shutdown.taskIds)

\* Where the shutdown is decides what may still appear.
Closing ==
    /\ shutdown.flag <=> shutdown.pc # "up"
    /\ shutdown.pc \notin {"up", "begun"} => lock = None
    /\ shutdown.pc = "fail" =>
          \A j \in TrackedJobs : record[j] = "Live" => j \in shutdown.ids
    /\ shutdown.pc = "returned" => \A j \in TrackedJobs : record[j] # "Live"

IInv == Typed /\ Owned /\ Tracked /\ Closing /\ NothingEscapesCancellation

(* Initially there is no job.                                              *)
LEMMA InitIInv == TrackerInit => IInv
  <1> SUFFICES ASSUME TrackerInit PROVE IInv
    OBVIOUS
  <1>1. Typed
    BY DEF TrackerInit, Typed, TrackerTypeOK, Pcs
  <1>2. Owned /\ Tracked /\ Closing /\ NothingEscapesCancellation
    BY SupervisionAssumption
    DEF TrackerInit, Owned, Tracked, Closing, NothingEscapesCancellation, TrackedJobs
  <1> QED
    BY <1>1, <1>2 DEF IInv

(* A creation takes the write lock for a job without a record.             *)
LEMMA BeginCreateStep ==
  ASSUME IInv, NEW j \in TrackedJobs, BeginCreate(j)
  PROVE  IInv'
  <1>1. Typed'
    BY DEF IInv, Typed, TrackerTypeOK, BeginCreate, taskVars
  <1>2. Owned'
    BY DEF IInv, Owned, Absent, BeginCreate, Absent
  <1>3. Tracked'
    BY DEF IInv, Tracked, BeginCreate, taskVars
  <1>4. Closing' /\ NothingEscapesCancellation'
    BY DEF IInv, Closing, NothingEscapesCancellation, BeginCreate
  <1> QED
    BY <1>1, <1>2, <1>3, <1>4 DEF IInv

(* It inserts only while the flag is unset: never after the snapshots.     *)
LEMMA EndCreateStep ==
  ASSUME IInv, NEW j \in TrackedJobs, EndCreate(j)
  PROVE  IInv'
  <1>1. Typed'
    BY DEF IInv, Typed, TrackerTypeOK, EndCreate, taskVars
  <1>2. Owned'
    BY SupervisionAssumption
    DEF IInv, Typed, TrackerTypeOK, Owned, TrackedJobs, EndCreate
  <1>3. Tracked'
    BY DEF IInv, Owned, Absent, Tracked, EndCreate, taskVars
  <1>4. Closing' /\ NothingEscapesCancellation'
    BY SupervisionAssumption
    DEF IInv, Closing, NothingEscapesCancellation, TrackedJobs, EndCreate
  <1> QED
    BY <1>1, <1>2, <1>3, <1>4 DEF IInv

(* A handle that never had a worker is consumed or dropped.                *)
LEMMA EndUnspawnedStep ==
  ASSUME IInv, NEW j \in TrackedJobs, EndUnspawned(j)
  PROVE  IInv'
  <1>1. Typed'
    BY DEF IInv, Typed, TrackerTypeOK, Final, EndUnspawned, Consume, Drop, Finalise,
           taskVars
  <1>2. Owned'
    BY DEF IInv, Typed, TrackerTypeOK, Owned, Absent, EndUnspawned, Consume, Drop,
           Finalise
  <1>3. Tracked'
    BY DEF IInv, Typed, TrackerTypeOK, Tracked, TrackedJobs, EndUnspawned, Consume,
           Drop, Finalise, taskVars
  <1>4. Closing' /\ NothingEscapesCancellation'
    BY DEF IInv, Closing, NothingEscapesCancellation, TrackedJobs, EndUnspawned,
           Consume, Drop, Finalise
  <1> QED
    BY <1>1, <1>2, <1>3, <1>4 DEF IInv

(* The tracker takes a parent's handle.                                    *)
LEMMA KeepParentHandleStep ==
  ASSUME IInv, NEW p \in Parents, KeepParentHandle(p)
  PROVE  IInv'
  <1>1. Typed'
    BY DEF IInv, Typed, TrackerTypeOK, TrackedJobs, KeepParentHandle, taskVars
  <1>2. Owned'
    BY DEF IInv, Owned, Absent, KeepParentHandle
  <1>3. Tracked'
    BY DEF IInv, Tracked, KeepParentHandle, taskVars
  <1>4. Closing' /\ NothingEscapesCancellation'
    BY DEF IInv, Closing, NothingEscapesCancellation, KeepParentHandle
  <1> QED
    BY <1>1, <1>2, <1>3, <1>4 DEF IInv

(* The caller's handle moves into the gated worker.                        *)
LEMMA SpawnTasksStep ==
  ASSUME IInv, NEW j \in Leaves, SpawnTasks(j)
  PROVE  IInv'
  <1>1. Typed'
    BY DEF IInv, Typed, TrackerTypeOK, TrackedJobs, SpawnTasks
  <1>2. Owned'
    BY DEF IInv, Owned, Absent, SpawnTasks
  <1>3. Tracked'
    BY DEF IInv, Typed, TrackerTypeOK, Owned, Tracked, TrackedJobs, SpawnTasks
  <1>4. Closing' /\ NothingEscapesCancellation'
    BY DEF IInv, Closing, NothingEscapesCancellation, SpawnTasks
  <1> QED
    BY <1>1, <1>2, <1>3, <1>4 DEF IInv

(* The tasks enter the map before the flag is read.                        *)
LEMMA RegisterTaskStep ==
  ASSUME IInv, NEW j \in Leaves, RegisterTask(j)
  PROVE  IInv'
  <1>1. Typed'
    BY DEF IInv, Typed, TrackerTypeOK, RegisterTask, jobVars
  <1>2. Owned'
    BY DEF IInv, Owned, Absent, RegisterTask, jobVars
  <1>3. Tracked'
    BY DEF IInv, Tracked, RegisterTask, jobVars
  <1>4. Closing' /\ NothingEscapesCancellation'
    BY DEF IInv, Closing, NothingEscapesCancellation, RegisterTask, jobVars
  <1> QED
    BY <1>1, <1>2, <1>3, <1>4 DEF IInv

(* The flag decides between opening the gate and refusing to start.        *)
LEMMA LoadFlagStep ==
  ASSUME IInv, NEW j \in Leaves, LoadFlag(j)
  PROVE  IInv'
  <1>1. Typed'
    BY DEF IInv, Typed, TrackerTypeOK, LoadFlag, jobVars
  <1>2. Owned'
    BY DEF IInv, Owned, Absent, LoadFlag, jobVars
  <1>3. Tracked'
    BY DEF IInv, Tracked, Closing, LoadFlag, jobVars
  <1>4. Closing' /\ NothingEscapesCancellation'
    BY DEF IInv, Closing, NothingEscapesCancellation, LoadFlag
  <1> QED
    BY <1>1, <1>2, <1>3, <1>4 DEF IInv

(* A worker runs: its tasks are registered, and were before any snapshot.  *)
LEMMA OpenGateStep ==
  ASSUME IInv, NEW j \in Leaves, OpenGate(j)
  PROVE  IInv'
  <1>1. Typed'
    BY DEF IInv, Typed, TrackerTypeOK, OpenGate, jobVars
  <1>2. Owned'
    BY DEF IInv, Owned, Absent, OpenGate, jobVars
  <1>3. Tracked'
    BY DEF IInv, Typed, TrackerTypeOK, Tracked, OpenGate, jobVars
  <1>4. Closing' /\ NothingEscapesCancellation'
    BY DEF IInv, Closing, NothingEscapesCancellation, OpenGate, jobVars
  <1> QED
    BY <1>1, <1>2, <1>3, <1>4 DEF IInv

(* A refused worker ends without running.                                  *)
LEMMA RefuseStartStep ==
  ASSUME IInv, NEW j \in Leaves, RefuseStart(j)
  PROVE  IInv'
  <1>1. Typed'
    BY DEF IInv, Typed, TrackerTypeOK, TrackedJobs, RefuseStart
  <1>2. Owned'
    BY DEF IInv, Owned, Absent, RefuseStart
  <1>3. Tracked'
    BY DEF IInv, Tracked, RefuseStart
  <1>4. Closing' /\ NothingEscapesCancellation'
    BY DEF IInv, Closing, NothingEscapesCancellation, RefuseStart
  <1> QED
    BY <1>1, <1>2, <1>3, <1>4 DEF IInv

(* A worker ends its job and finishes in one step.                         *)
LEMMA EndWorkStep ==
  ASSUME IInv, NEW j \in Leaves, EndWork(j)
  PROVE  IInv'
  <1>1. Typed'
    BY DEF IInv, Typed, TrackerTypeOK, Final, EndWork, Consume, Drop, Finalise
  <1>2. Owned'
    BY DEF IInv, Typed, TrackerTypeOK, Owned, Absent, EndWork, Consume, Drop, Finalise
  <1>3. Tracked'
    BY DEF IInv, Typed, TrackerTypeOK, Tracked, TrackedJobs, EndWork, Consume, Drop,
           Finalise
  <1>4. Closing' /\ NothingEscapesCancellation'
    BY DEF IInv, Closing, NothingEscapesCancellation, TrackedJobs, EndWork, Consume,
           Drop, Finalise
  <1> QED
    BY <1>1, <1>2, <1>3, <1>4 DEF IInv

(* The supervisor sees its worker finished.                                *)
LEMMA BeginCleanupStep ==
  ASSUME IInv, NEW j \in Leaves, BeginCleanup(j)
  PROVE  IInv'
  <1>1. Typed'
    BY DEF IInv, Typed, TrackerTypeOK, BeginCleanup, jobVars
  <1>2. Owned'
    BY DEF IInv, Owned, Absent, BeginCleanup, jobVars
  <1>3. Tracked'
    BY DEF IInv, Tracked, BeginCleanup, jobVars
  <1>4. Closing' /\ NothingEscapesCancellation'
    BY DEF IInv, Closing, NothingEscapesCancellation, BeginCleanup, jobVars
  <1> QED
    BY <1>1, <1>2, <1>3, <1>4 DEF IInv

(* The supervisor unregisters a finished worker only.                      *)
LEMMA EndSupervisorStep ==
  ASSUME IInv, NEW j \in Leaves, EndSupervisor(j)
  PROVE  IInv'
  <1>1. Typed'
    BY DEF IInv, Typed, TrackerTypeOK, EndSupervisor, jobVars
  <1>2. Owned'
    BY DEF IInv, Owned, Absent, EndSupervisor, jobVars
  <1>3. Tracked'
    BY DEF IInv, Tracked, EndSupervisor, jobVars
  <1>4. Closing' /\ NothingEscapesCancellation'
    BY DEF IInv, Closing, NothingEscapesCancellation, EndSupervisor, jobVars
  <1> QED
    BY <1>1, <1>2, <1>3, <1>4 DEF IInv

(* The flag is raised.                                                     *)
LEMMA BeginShutdownStep ==
  ASSUME IInv, BeginShutdown
  PROVE  IInv'
  <1>1. Typed'
    BY Zenon, SupervisionAssumption
    DEF IInv, Typed, TrackerTypeOK, Pcs, Final, TrackedJobs, BeginShutdown, jobVars,
        taskVars
  <1>2. Owned'
    BY DEF IInv, Owned, Absent, BeginShutdown, jobVars
  <1>3. Tracked'
    BY DEF IInv, Tracked, BeginShutdown, jobVars, taskVars
  <1>4. Closing' /\ NothingEscapesCancellation'
    BY DEF Closing, NothingEscapesCancellation, BeginShutdown
  <1> QED
    BY <1>1, <1>2, <1>3, <1>4 DEF IInv

(* With the lock free, every live leaf is cancelled.                       *)
LEMMA CancelActiveLeavesStep ==
  ASSUME IInv, NEW childless \in SUBSET Parents, CancelActiveLeaves(childless)
  PROVE  IInv'
  <1>1. Typed'
    BY Zenon, SupervisionAssumption
    DEF IInv, Typed, TrackerTypeOK, Pcs, Final, TrackedJobs, CancelActiveLeaves,
        taskVars
  <1>2. Owned'
    BY SupervisionAssumption DEF IInv, Owned, TrackedJobs, CancelActiveLeaves
  <1>3. Tracked'
    BY DEF IInv, Tracked, CancelActiveLeaves, taskVars
  <1>4. Closing' /\ NothingEscapesCancellation'
    BY DEF IInv, Closing, NothingEscapesCancellation, CancelActiveLeaves
  <1> QED
    BY <1>1, <1>2, <1>3, <1>4 DEF IInv

(* The snapshot holds every task that may still run.                       *)
LEMMA SnapshotTasksStep ==
  ASSUME IInv, SnapshotTasks
  PROVE  IInv'
  <1>1. Typed'
    BY Zenon, SupervisionAssumption
    DEF IInv, Typed, TrackerTypeOK, Pcs, Final, TrackedJobs, SnapshotTasks, jobVars,
        taskVars
  <1>2. Owned'
    BY SupervisionAssumption
    DEF IInv, Owned, Closing, TrackedJobs, SnapshotTasks, jobVars
  <1>3. Tracked'
    BY DEF IInv, Tracked, SnapshotTasks, jobVars, taskVars
  <1>4. Closing' /\ NothingEscapesCancellation'
    BY DEF IInv, Closing, NothingEscapesCancellation, SnapshotTasks, jobVars
  <1> QED
    BY <1>1, <1>2, <1>3, <1>4 DEF IInv

(* The waits of the shutdown change only where it is.                      *)
LEMMA ShutdownMovesStep ==
  ASSUME IInv, TasksDrained \/ GiveUp
  PROVE  IInv'
  <1>1. Typed'
    BY DEF IInv, Typed, TrackerTypeOK, Pcs, TasksDrained, GiveUp, jobVars, taskVars
  <1>2. Owned'
    BY SupervisionAssumption
    DEF IInv, Owned, Closing, TrackedJobs, TasksDrained, GiveUp, jobVars
  <1>3. Tracked'
    BY DEF IInv, Typed, Tracked, TasksDrained, GiveUp, jobVars, taskVars
  <1>4. Closing' /\ NothingEscapesCancellation'
    BY DEF IInv, Typed, Closing, NothingEscapesCancellation, TasksDrained, GiveUp,
           jobVars
  <1> QED
    BY <1>1, <1>2, <1>3, <1>4 DEF IInv

(* Workers are aborted.                                                    *)
LEMMA AbortWorkersStep ==
  ASSUME IInv, AbortWorkers
  PROVE  IInv'
  <1>1. Typed'
    BY DEF IInv, Typed, TrackerTypeOK, Pcs, AbortWorkers, Step, Remaining, jobVars
  <1>2. Owned'
    BY SupervisionAssumption
    DEF IInv, Owned, Closing, TrackedJobs, AbortWorkers, Step, jobVars
  <1>3. Tracked'
    BY DEF IInv, Tracked, AbortWorkers, Step, jobVars
  <1>4. Closing' /\ NothingEscapesCancellation'
    BY DEF IInv, Closing, NothingEscapesCancellation, AbortWorkers, Step, jobVars
  <1> QED
    BY <1>1, <1>2, <1>3, <1>4 DEF IInv

(* Supervisors are aborted once their workers have finished.               *)
LEMMA AbortSupervisorsStep ==
  ASSUME IInv, AbortSupervisors
  PROVE  IInv'
  <1>1. Typed'
    BY DEF IInv, Typed, TrackerTypeOK, Pcs, AbortSupervisors, Step, Remaining, jobVars
  <1>2. Owned'
    BY SupervisionAssumption
    DEF IInv, Owned, Closing, TrackedJobs, AbortSupervisors, Step, jobVars
  <1>3. Tracked'
    BY DEF IInv, Tracked, AbortSupervisors, Step, jobVars
  <1>4. Closing' /\ NothingEscapesCancellation'
    BY DEF IInv, Closing, NothingEscapesCancellation, AbortSupervisors, Step, jobVars
  <1> QED
    BY <1>1, <1>2, <1>3, <1>4 DEF IInv

(* The handles of parents are consumed.                                    *)
LEMMA FailParentsStep ==
  ASSUME IInv, FailParents
  PROVE  IInv'
  <1>1. Typed'
    BY DEF IInv, Typed, TrackerTypeOK, Pcs, Final, FailParents, Step, Finalise, taskVars
  <1>2. Owned'
    BY SupervisionAssumption
    DEF IInv, Owned, Closing, TrackedJobs, FailParents, Step, Finalise
  <1>3. Tracked'
    BY DEF IInv, Tracked, TrackedJobs, FailParents, Step, Finalise, taskVars
  <1>4. Closing' /\ NothingEscapesCancellation'
    BY DEF IInv, Closing, NothingEscapesCancellation, TrackedJobs, FailParents, Step,
           Finalise
  <1> QED
    BY <1>1, <1>2, <1>3, <1>4 DEF IInv

(* The sweep reads every live record.                                      *)
LEMMA SnapshotLiveStep ==
  ASSUME IInv, SnapshotLive
  PROVE  IInv'
  <1>1. Typed'
    BY Zenon, SupervisionAssumption
    DEF IInv, Typed, TrackerTypeOK, Pcs, Final, TrackedJobs, SnapshotLive, jobVars,
        taskVars
  <1>2. Owned'
    BY SupervisionAssumption DEF IInv, Owned, TrackedJobs, SnapshotLive, jobVars
  <1>3. Tracked'
    BY DEF IInv, Tracked, SnapshotLive, jobVars, taskVars
  <1>4. Closing' /\ NothingEscapesCancellation'
    BY DEF IInv, Closing, NothingEscapesCancellation, SnapshotLive, jobVars
  <1> QED
    BY <1>1, <1>2, <1>3, <1>4 DEF IInv

(* It ends each of them: none is live when the shutdown returns.           *)
LEMMA FailRemainingStep ==
  ASSUME IInv, FailRemaining
  PROVE  IInv'
  <1>1. Typed'
    BY DEF IInv, Typed, TrackerTypeOK, Pcs, Final, FailRemaining, Step, Finalise,
           taskVars
  <1>2. Owned'
    BY SupervisionAssumption
    DEF IInv, Owned, Closing, TrackedJobs, FailRemaining, Step, Finalise
  <1>3. Tracked'
    BY DEF IInv, Tracked, TrackedJobs, FailRemaining, Step, Finalise, taskVars
  <1>4. Closing' /\ NothingEscapesCancellation'
    BY DEF IInv, Closing, NothingEscapesCancellation, TrackedJobs, FailRemaining,
           Step, Finalise
  <1> QED
    BY <1>1, <1>2, <1>3, <1>4 DEF IInv

-----------------------------------------------------------------------------
(* Every step keeps the invariant.                                         *)
LEMMA IInvInductive == IInv /\ [TrackerNext]_trackerVars => IInv'
  <1> SUFFICES ASSUME IInv, [TrackerNext]_trackerVars PROVE IInv'
    OBVIOUS
  <1>1. ASSUME NEW j \in TrackedJobs, BeginCreate(j) \/ EndCreate(j) \/ EndUnspawned(j)
        PROVE  IInv'
    BY <1>1, BeginCreateStep, EndCreateStep, EndUnspawnedStep
  <1>2. ASSUME NEW j \in Leaves,
               \/ SpawnTasks(j) \/ RegisterTask(j) \/ LoadFlag(j) \/ OpenGate(j)
               \/ RefuseStart(j) \/ EndWork(j) \/ BeginCleanup(j) \/ EndSupervisor(j)
        PROVE  IInv'
    BY <1>2, SpawnTasksStep, RegisterTaskStep, LoadFlagStep, OpenGateStep,
       RefuseStartStep, EndWorkStep, BeginCleanupStep, EndSupervisorStep
  <1>3. CASE ShutdownStep
    BY <1>3, CancelActiveLeavesStep, SnapshotTasksStep, ShutdownMovesStep,
       AbortWorkersStep, AbortSupervisorsStep, FailParentsStep, SnapshotLiveStep,
       FailRemainingStep
    DEF ShutdownStep
  <1>4. CASE UNCHANGED trackerVars
    BY <1>4
    DEF trackerVars, IInv, Typed, TrackerTypeOK, Owned, Absent, Tracked, Closing,
        NothingEscapesCancellation
  <1> QED
    BY <1>1, <1>2, <1>3, <1>4, KeepParentHandleStep, BeginShutdownStep DEF TrackerNext

(* The invariant gives what a shutdown promises.                           *)
LEMMA IInvSound == IInv => ShutdownSound
  <1> SUFFICES ASSUME IInv PROVE ShutdownSound
    OBVIOUS
  <1>1. TrackerTypeOK /\ NothingEscapesCancellation /\ SupervisorOutlivesWorker
    BY DEF IInv, Typed, Tracked, SupervisorOutlivesWorker
  <1>2. AllFinalOnReturn
    BY SupervisionAssumption DEF IInv, Closing, AllFinalOnReturn, TrackedJobs
  <1>3. RunningIsTracked
    BY DEF IInv, Tracked, RunningIsTracked
  <1>4. WorkerKeepsRecord
    BY DEF IInv, Owned, WorkerKeepsRecord, TrackedJobs
  <1> QED
    BY <1>1, <1>2, <1>3, <1>4 DEF ShutdownSound

(* A graceful shutdown with any number of jobs: no live job and no         *)
(* creation in progress is left when it returns, nothing escapes its       *)
(* cancellation, every running worker is in the task map and in its        *)
(* snapshot, and a worker keeps its record and its supervisor              *)
(* (shutdown_and_await_terminal, spawn_job_inner).                         *)
THEOREM ShutdownIsSound == TrackerSpec => []ShutdownSound
  BY InitIInv, IInvInductive, IInvSound, PTL DEF TrackerSpec
=============================================================================
