-------------------------- MODULE FabricOperations --------------------------
(***************************************************************************)
(* The process-local registry of managed fabric operations                 *)
(* (orchestrator/fabric_operation.rs).  Every method of the registry takes *)
(* one mutex for its whole body, so every method is one action; a call     *)
(* that returns Err changes nothing and is a disabled action.              *)
(*                                                                         *)
(* A blank string is an input error only, so job ids, scope keys, rules,   *)
(* controllers and digests are the members of arbitrary sets.  The proof   *)
(* queue (a VecDeque) is a set of proofs that carry the position `at` at   *)
(* which they were pushed: push_back takes the next position and pop_front *)
(* removes the proof with the least one.                                   *)
(***************************************************************************)
EXTENDS Naturals, FiniteSets

CONSTANTS
    Jobs,                   \* job ids
    Keys,                   \* canonical scope keys (switch identities, aliases)
    Rules,                  \* deployment rule ids
    Controllers,            \* ControllerIdentity values
    Digests,                \* digests of a desired static configuration
    MAX_OPERATIONS,
    MAX_ACTIVATION_PROOFS,
    MaxRecords              \* bound on the activations one behaviour records

ASSUME CapacityAssumption ==
    /\ MAX_OPERATIONS \in Nat
    /\ MAX_ACTIVATION_PROOFS \in Nat \ {0}
    /\ MaxRecords \in Nat

VARIABLES
    operations,             \* job id -> the FabricOperation it owns
    proofs,                 \* the retained ActivationProofs
    nextAt                  \* position of the next proof pushed

vars == <<operations, proofs, nextAt>>

(* normalize rejects an intent without scope keys.                         *)
FabricOperation ==
    [scope: (SUBSET Keys) \ {{}}, rule: Rules, pending: SUBSET Controllers]

ActivationProof ==
    [controller: Controllers, digest: Digests, scope: SUBSET Keys, at: Nat]

(* Every map entry is an operation with a nonempty scope, every proof was  *)
(* pushed at an earlier position.                                          *)
TypeOK ==
    /\ DOMAIN operations \subseteq Jobs
    /\ operations \in [DOMAIN operations -> FabricOperation]
    /\ proofs \subseteq ActivationProof
    /\ nextAt \in Nat
    /\ \A p \in proofs : p.at < nextAt

Init ==
    /\ operations = [j \in {} |-> {}]
    /\ proofs = {}
    /\ nextAt = 0

-----------------------------------------------------------------------------
(* The owners of operations that share a key with ks.                      *)
OverlappingExactScope(ks) == {j \in DOMAIN operations : operations[j].scope = ks}

Overlapping(ks) == {j \in DOMAIN operations : operations[j].scope \cap ks # {}}

(* has_activation_proof, for some digest.                                  *)
Proven(c) == \E p \in proofs : p.controller = c

PendingAnywhere(c) == \E j \in DOMAIN operations : c \in operations[j].pending

(* proofs.retain: what is left once some controllers lose their proofs.    *)
ProofsExcept(cs) == {p \in proofs : p.controller \notin cs}

(* The queue after pop_front.                                              *)
PopFront(ps) == {p \in ps : \E q \in ps : q.at < p.at}

Evict(ps) ==
    IF Cardinality(ps) > MAX_ACTIVATION_PROOFS THEN PopFront(ps) ELSE ps

(* The map with j's entry replaced or added, and with j's entry removed.   *)
With(j, op) ==
    [k \in DOMAIN operations \cup {j} |-> IF k = j THEN op ELSE operations[k]]

Without(j) == [k \in DOMAIN operations \ {j} |-> operations[k]]

SetPending(j, cs) == With(j, [operations[j] EXCEPT !.pending = cs])

-----------------------------------------------------------------------------
(* admit(intent, j, None): a scope nobody owns.                            *)
Admit(j, ks, r) ==
    /\ ks # {}
    /\ j \notin DOMAIN operations
    /\ Overlapping(ks) = {}
    /\ Cardinality(DOMAIN operations) < MAX_OPERATIONS
    /\ operations' = With(j, [scope |-> ks, rule |-> r, pending |-> {}])
    /\ UNCHANGED <<proofs, nextAt>>

(* admit(intent, j, Some(prev)): j takes over prev's unresolved operation, *)
(* which must be the only overlapping one and have the same scope and      *)
(* rule.  Pending controllers are inherited and prev owns nothing after.   *)
Transfer(j, prev, ks, r) ==
    /\ ks # {}
    /\ j \notin DOMAIN operations
    /\ Overlapping(ks) = {prev}
    /\ operations[prev].scope = ks
    /\ operations[prev].rule = r
    /\ operations' = [k \in (DOMAIN operations \ {prev}) \cup {j} |->
                        IF k = j THEN operations[prev] ELSE operations[k]]
    /\ UNCHANGED <<proofs, nextAt>>

(* mark_pending: all of cs, or nothing if one is pending under another     *)
(* owner.  The controllers lose their proofs.                              *)
PendingElsewhere(j, cs) ==
    \E k \in DOMAIN operations \ {j} : operations[k].pending \cap cs # {}

MarkPending(j, cs) ==
    /\ j \in DOMAIN operations
    /\ ~PendingElsewhere(j, cs)
    /\ operations' = SetPending(j, operations[j].pending \cup cs)
    /\ proofs' = ProofsExcept(cs)
    /\ UNCHANGED nextAt

(* clear_inactive: the worker has verified the controller disabled.        *)
ClearInactive(j, c) ==
    /\ j \in DOMAIN operations
    /\ operations' = SetPending(j, operations[j].pending \ {c})
    /\ UNCHANGED <<proofs, nextAt>>

(* record_activation: the pending mark becomes a proof in one step.        *)
RecordActivation(j, c, d, ks) ==
    /\ nextAt < MaxRecords
    /\ j \in DOMAIN operations
    /\ operations[j].scope \cap ks # {}
    /\ c \in operations[j].pending
    /\ operations' = SetPending(j, operations[j].pending \ {c})
    /\ proofs' = Evict(ProofsExcept({c}) \cup
                    {[controller |-> c, digest |-> d, scope |-> ks, at |-> nextAt]})
    /\ nextAt' = nextAt + 1

(* finish: refused while an activation is pending.                         *)
Finish(j) ==
    /\ j \in DOMAIN operations
    /\ operations[j].pending = {}
    /\ operations' = Without(j)
    /\ UNCHANGED <<proofs, nextAt>>

(* release_failed.                                                         *)
ReleaseFailed(j) ==
    /\ j \in DOMAIN operations
    /\ operations' = Without(j)
    /\ proofs' = ProofsExcept(operations[j].pending)
    /\ UNCHANGED nextAt

(* invalidate_and_require_clear: an external mutator about to write to the *)
(* devices behind ks.                                                      *)
InvalidateAndRequireClear(ks) ==
    /\ ks # {}
    /\ Overlapping(ks) = {}
    /\ proofs' = {p \in proofs : p.scope \cap ks = {}}
    /\ UNCHANGED <<operations, nextAt>>

Next ==
    \/ \E j \in Jobs, ks \in SUBSET Keys, r \in Rules : Admit(j, ks, r)
    \/ \E j, prev \in Jobs, ks \in SUBSET Keys, r \in Rules :
            Transfer(j, prev, ks, r)
    \/ \E j \in Jobs, cs \in SUBSET Controllers : MarkPending(j, cs)
    \/ \E j \in Jobs, c \in Controllers : ClearInactive(j, c)
    \/ \E j \in Jobs, c \in Controllers, d \in Digests, ks \in SUBSET Keys :
            RecordActivation(j, c, d, ks)
    \/ \E j \in Jobs : Finish(j)
    \/ \E j \in Jobs : ReleaseFailed(j)
    \/ \E ks \in SUBSET Keys : InvalidateAndRequireClear(ks)

Spec == Init /\ [][Next]_vars

-----------------------------------------------------------------------------
(* No key is owned by two operations.  admit looks for overlap and inserts *)
(* under one lock, and a transfer replaces the owner it overlaps with.     *)
ScopesDisjoint ==
    \A j, k \in DOMAIN operations :
        j # k => operations[j].scope \cap operations[k].scope = {}

(* No controller is pending under two operations, whatever their scopes    *)
(* (a controller's identity is observed, not derived from the scope keys): *)
(* mark_pending rejects the batch, and a transfer moves the marks.         *)
PendingExclusive ==
    \A j, k \in DOMAIN operations :
        j # k => operations[j].pending \cap operations[k].pending = {}

(* A controller whose activation is pending anywhere has no proof, so      *)
(* has_activation_proof never vouches for a controller a worker may have   *)
(* written to and not verified (mark_pending drops the proof before device *)
(* writes; record_activation replaces the mark by the proof in one step).  *)
PendingUnproven == \A c \in Controllers : PendingAnywhere(c) => ~Proven(c)

(* MAX_OPERATIONS and MAX_ACTIVATION_PROOFS hold at all times, a transfer  *)
(* into a full registry and a record into a full queue included.           *)
WithinCapacity ==
    /\ Cardinality(DOMAIN operations) <= MAX_OPERATIONS
    /\ Cardinality(proofs) <= MAX_ACTIVATION_PROOFS

(* A pending mark is never lost: a controller stops being pending only by  *)
(* becoming proven, by its owner verifying it inactive, or by the failed   *)
(* owner's release.  In particular finish refuses, a transfer inherits the *)
(* marks, and the queue never evicts the proof it has just pushed.         *)
MarkResolved ==
    \A c \in Controllers :
        PendingAnywhere(c) /\ ~PendingAnywhere(c)' =>
            \/ Proven(c)'
            \/ \E j \in Jobs : ClearInactive(j, c) \/ ReleaseFailed(j)

MarksResolved == [][MarkResolved]_vars

(* The registry under its one lock: owners are exclusive, evidence about a *)
(* controller is never contradictory, and the limits hold, whatever jobs   *)
(* admit, transfer, mark, record, finish and release in which order.       *)
RegistrySound ==
    ScopesDisjoint /\ PendingExclusive /\ PendingUnproven /\ WithinCapacity

=============================================================================
