------------------------- MODULE JobRegistryProofs --------------------------
(***************************************************************************)
(* Theorems about JobRegistry, for any sets of jobs, guards, nodes and     *)
(* devices, any capacity and any retention.                                *)
(***************************************************************************)
EXTENDS JobRegistry, FiniteSetTheorems, TLAPS

(* A live job on a node holds the node's alias: the link between the two   *)
(* indexes that makes NodeExclusive follow from the alias table.           *)
NodeHoldsAlias ==
    \A j \in DOMAIN jobs : \A n \in Nodes :
        ShouldIndex(j, n) => n \in scopesByOwner[j]

(* Parents know their children, which is what eviction relies on.          *)
ParentKnowsChild ==
    \A j \in DOMAIN jobs : jobs[j].parent # None =>
        /\ jobs[j].parent \in DOMAIN jobs
        /\ j \in jobs[jobs[j].parent].children

RegistryInv ==
    /\ TypeOK
    /\ NodeIndexExact
    /\ AliasIndexesInverse
    /\ NoLeakedAlias
    /\ NodeHoldsAlias
    /\ ParentKnowsChild
    /\ ChildrenRetained

-----------------------------------------------------------------------------
(* Jobs that may leave the registry together: none has a tracked child,    *)
(* and none is the child of a parent that is not expired.                  *)
Removable(js) ==
    /\ js \subseteq DOMAIN jobs
    /\ \A j \in js : jobs[j].children \cap DOMAIN jobs = {}
    /\ \A p \in DOMAIN jobs : ~Expired(p) => jobs[p].children \cap js = {}

(* What cleanup_expired selects may leave together, and is terminal.       *)
LEMMA EvictableIsRemovable ==
    ASSUME TypeOK
    PROVE  /\ Removable(Evictable)
           /\ \A j \in Evictable : Terminal(j)
<1>1. Evictable \subseteq DOMAIN jobs
  BY DEF Evictable
<1>2. \A j \in Evictable : jobs[j].children \cap DOMAIN jobs = {} /\ Terminal(j)
  BY DEF Evictable, Expired
<1>3. ASSUME NEW p \in DOMAIN jobs, ~Expired(p), NEW j \in jobs[p].children
      PROVE  j \notin Evictable
  <2>1. IsParent(p)
    BY <1>3 DEF IsParent
  <2>2. j \in ProtectedChildren
    BY <1>3, <2>1 DEF ProtectedChildren
  <2> QED BY <2>2 DEF Evictable
<1> QED BY <1>1, <1>2, <1>3 DEF Removable

(* A queued job without parent and children may leave.                     *)
LEMMA QueuedLeafIsRemovable ==
    ASSUME TypeOK, NEW j \in DOMAIN jobs,
           ~IsParent(j), jobs[j].parent = None
    PROVE  Removable({j})
BY RegistryAssumption DEF TypeOK, Removable, IsParent, JobSnapshot

(* The jobs an admission keeps: the others were removable and terminal.    *)
LEMMA PrunedIsRemovable ==
    ASSUME TypeOK
    PROVE  /\ KeptForAdmission \subseteq DOMAIN jobs
           /\ Removable(DOMAIN jobs \ KeptForAdmission)
           /\ \A j \in DOMAIN jobs : Live(j) => j \in KeptForAdmission
<1>1. CASE KeptForAdmission = DOMAIN jobs
  BY <1>1 DEF Removable
<1>2. CASE KeptForAdmission = DOMAIN jobs \ Evictable
  <2>1. Evictable \subseteq DOMAIN jobs
    BY DEF Evictable
  <2>2. DOMAIN jobs \ KeptForAdmission = Evictable
    BY <1>2, <2>1
  <2>3. \A j \in DOMAIN jobs : Live(j) => j \notin Evictable
    BY EvictableIsRemovable DEF Live
  <2> QED BY <1>2, <2>2, <2>3, EvictableIsRemovable
<1> QED BY <1>1, <1>2 DEF KeptForAdmission

-----------------------------------------------------------------------------
LEMMA InitRegistryInv == Init => RegistryInv
BY Zenon, RegistryAssumption
   DEF Init, RegistryInv, TypeOK, NodeIndexExact, AliasIndexesInverse,
       NoLeakedAlias, NodeHoldsAlias, ParentKnowsChild, ChildrenRetained,
       Owners, Scopes, ShouldIndex, Live

(* The alias table stays a table under both of its operations.             *)
LEMMA ReserveKeepsInverse ==
    ASSUME TypeOK, AliasIndexesInverse, NEW o \in Owners, NEW ss \in SUBSET Scopes,
           \A s \in ss : activeByScope[s] \in {None, o},
           ReserveScopes(o, ss)
    PROVE  /\ activeByScope' \in [Scopes -> Owners \cup {None}]
           /\ scopesByOwner' \in [Owners -> SUBSET Scopes]
           /\ AliasIndexesInverse'
BY RegistryAssumption DEF TypeOK, AliasIndexesInverse, ReserveScopes, Owners

LEMMA ReleaseKeepsInverse ==
    ASSUME TypeOK, AliasIndexesInverse, NEW os \in SUBSET Owners,
           ReleaseScopes(os)
    PROVE  /\ activeByScope' \in [Scopes -> Owners \cup {None}]
           /\ scopesByOwner' \in [Owners -> SUBSET Scopes]
           /\ AliasIndexesInverse'
BY RegistryAssumption DEF TypeOK, AliasIndexesInverse, ReleaseScopes, Owners

-----------------------------------------------------------------------------
(* Removing removable jobs, as remove_queued_leaf and cleanup_expired do.  *)
LEMMA RemoveKeepsInv ==
    ASSUME RegistryInv, NEW js, Removable(js), Remove(js)
    PROVE  RegistryInv'
<1> USE DEF RegistryInv
<1>1. js \subseteq DOMAIN jobs /\ js \subseteq Owners /\ js \subseteq JobIds
  BY DEF Removable, TypeOK, Owners
<1>2. DOMAIN jobs' = DOMAIN jobs \ js /\ \A k \in DOMAIN jobs' : jobs'[k] = jobs[k]
  BY DEF Remove
<1>3. \A k \in DOMAIN jobs' : Expired(k)' <=> Expired(k)
  BY <1>2 DEF Expired, Terminal
<1>4. \A k : Live(k)' <=> Live(k) /\ k \notin js
  BY <1>2 DEF Live, Terminal
<1>5. \A k \in JobIds, n \in Nodes : ShouldIndex(k, n)' <=> ShouldIndex(k, n) /\ k \notin js
  BY <1>2, <1>4 DEF ShouldIndex, Live
<1>6. /\ activeByScope' \in [Scopes -> Owners \cup {None}]
      /\ scopesByOwner' \in [Owners -> SUBSET Scopes]
      /\ AliasIndexesInverse'
  BY <1>1, ReleaseKeepsInverse DEF Remove
<1>7. \A o \in Owners : scopesByOwner'[o] = IF o \in js THEN {} ELSE scopesByOwner[o]
  BY DEF Remove, ReleaseScopes
<1>8. TypeOK'
  <2>1. jobs' \in [DOMAIN jobs' -> JobSnapshot] /\ DOMAIN jobs' \subseteq issued
    BY <1>2 DEF TypeOK, Remove
  <2>2. activeByNode' \in [Nodes -> SUBSET JobIds]
    BY DEF TypeOK, Remove, Unindex
  <2>3. \A j \in DOMAIN jobs' :
            /\ jobs'[j].children \subseteq issued \ {j}
            /\ jobs'[j].children # {} => jobs'[j].parent = None
            /\ \A k \in jobs'[j].children \cap DOMAIN jobs' : jobs'[k].parent = j
    BY <1>2 DEF TypeOK
  <2> QED BY <1>6, <2>1, <2>2, <2>3 DEF TypeOK, Remove
<1>9. NodeIndexExact'
  <2>1. \A n \in Nodes : activeByNode'[n] = activeByNode[n] \ js
    BY DEF Remove, Unindex
  <2>2. ASSUME NEW n \in Nodes
        PROVE  activeByNode'[n] = {j \in DOMAIN jobs' : ShouldIndex(j, n)'}
    <3>1. activeByNode[n] = {j \in DOMAIN jobs : ShouldIndex(j, n)}
      BY DEF NodeIndexExact
    <3>2. \A k \in DOMAIN jobs' : ShouldIndex(k, n)' <=> ShouldIndex(k, n)
      BY <1>2, <1>5, <1>8 DEF TypeOK
    <3> QED BY <1>2, <2>1, <3>1, <3>2
  <2> QED BY <2>2 DEF NodeIndexExact
<1>10. NoLeakedAlias'
  BY <1>4, <1>7 DEF NoLeakedAlias, Remove
<1>11. NodeHoldsAlias'
  BY <1>1, <1>2, <1>5, <1>7 DEF NodeHoldsAlias, TypeOK, Owners
<1>12. ParentKnowsChild'
  <2> SUFFICES ASSUME NEW j \in DOMAIN jobs', jobs'[j].parent # None
               PROVE  /\ jobs'[j].parent \in DOMAIN jobs'
                      /\ j \in jobs'[jobs'[j].parent].children
    BY DEF ParentKnowsChild
  <2>1. /\ jobs[j].parent \in DOMAIN jobs
        /\ j \in jobs[jobs[j].parent].children
    BY <1>2 DEF ParentKnowsChild
  <2>2. jobs[j].parent \notin js
    BY <1>2, <2>1 DEF Removable
  <2> QED BY <1>2, <2>1, <2>2
<1>13. ChildrenRetained'
  BY <1>2, <1>3 DEF ChildrenRetained, Removable
<1> QED BY <1>6, <1>8, <1>9, <1>10, <1>11, <1>12, <1>13

(* Transitions of one job: the rest of the registry stays as it is.        *)
LEMMA MarkRunningKeepsInv ==
    ASSUME RegistryInv, NEW j \in JobIds, MarkRunning(j)
    PROVE  RegistryInv'
<1> USE DEF RegistryInv
<1>1. DOMAIN jobs' = DOMAIN jobs /\ j \in DOMAIN jobs
  BY DEF MarkRunning, Live
<1>2. \A k \in DOMAIN jobs :
        /\ jobs'[k] \in JobSnapshot
        /\ jobs'[k].node = jobs[k].node /\ jobs'[k].parent = jobs[k].parent
        /\ jobs'[k].children = jobs[k].children
        /\ Terminal(k)' <=> Terminal(k)
        /\ Expired(k)' <=> Expired(k)
  BY <1>1 DEF MarkRunning, TypeOK, JobSnapshot, States, Terminal, Expired, Live
<1>3. \A k : Live(k)' <=> Live(k)
  BY <1>1, <1>2 DEF Live
<1>4. \A k \in DOMAIN jobs, n \in Nodes : ShouldIndex(k, n)' <=> ShouldIndex(k, n)
  BY <1>1, <1>2, <1>3 DEF ShouldIndex
<1>5. UNCHANGED <<indexes, guards, issued, shuttingDown>>
  BY DEF MarkRunning
<1>6. jobs' \in [DOMAIN jobs' -> JobSnapshot]
  BY Zenon, <1>1, <1>2 DEF MarkRunning
<1>7. TypeOK'
  BY <1>1, <1>2, <1>5, <1>6 DEF TypeOK, indexes
<1>8. NodeIndexExact'
  BY <1>1, <1>4, <1>5 DEF NodeIndexExact, indexes
<1>9. AliasIndexesInverse' /\ NoLeakedAlias' /\ NodeHoldsAlias'
  BY <1>1, <1>3, <1>4, <1>5
     DEF AliasIndexesInverse, NoLeakedAlias, NodeHoldsAlias, indexes
<1>10. ParentKnowsChild' /\ ChildrenRetained'
  BY <1>1, <1>2 DEF ParentKnowsChild, ChildrenRetained
<1> QED BY <1>7, <1>8, <1>9, <1>10

LEMMA MarkTerminalKeepsInv ==
    ASSUME RegistryInv, NEW j \in JobIds, MarkTerminal(j)
    PROVE  RegistryInv'
<1> USE DEF RegistryInv
<1>1. DOMAIN jobs' = DOMAIN jobs /\ j \in DOMAIN jobs /\ ~Terminal(j)
  BY DEF MarkTerminal, Live
<1>2. \A k \in DOMAIN jobs :
        /\ jobs'[k] \in JobSnapshot
        /\ jobs'[k].node = jobs[k].node /\ jobs'[k].parent = jobs[k].parent
        /\ jobs'[k].children = jobs[k].children
        /\ Terminal(k)' <=> Terminal(k) \/ k = j
        /\ Expired(k) => Expired(k)'
  BY <1>1, RegistryAssumption
     DEF MarkTerminal, TypeOK, JobSnapshot, States, Terminal, Expired
<1>3. \A k : Live(k)' <=> Live(k) /\ k # j
  BY <1>1, <1>2 DEF Live
<1>4. \A k \in DOMAIN jobs, n \in Nodes :
        ShouldIndex(k, n)' <=> ShouldIndex(k, n) /\ k # j
  BY <1>1, <1>2, <1>3 DEF ShouldIndex
<1>5. /\ activeByScope' \in [Scopes -> Owners \cup {None}]
      /\ scopesByOwner' \in [Owners -> SUBSET Scopes]
      /\ AliasIndexesInverse'
  BY Zenon, ReleaseKeepsInverse DEF MarkTerminal, Owners
<1>6. \A o \in Owners : scopesByOwner'[o] = IF o = j THEN {} ELSE scopesByOwner[o]
  BY DEF MarkTerminal, ReleaseScopes
<1>7. \A n \in Nodes : activeByNode'[n] = activeByNode[n] \ {j}
  BY DEF MarkTerminal, Unindex
<1>8. TypeOK'
  <2>1. jobs' \in [DOMAIN jobs' -> JobSnapshot]
    BY <1>1, <1>2 DEF MarkTerminal
  <2>2. activeByNode' \in [Nodes -> SUBSET JobIds]
    BY DEF TypeOK, MarkTerminal, Unindex
  <2> QED BY <1>1, <1>2, <1>5, <2>1, <2>2 DEF TypeOK, MarkTerminal
<1>9. NodeIndexExact'
  BY <1>1, <1>4, <1>7 DEF NodeIndexExact
<1>10. NoLeakedAlias'
  BY <1>3, <1>6 DEF NoLeakedAlias, MarkTerminal
<1>11. NodeHoldsAlias'
  BY <1>1, <1>4, <1>6 DEF NodeHoldsAlias, TypeOK, Owners
<1>12. ParentKnowsChild' /\ ChildrenRetained'
  BY <1>1, <1>2 DEF ParentKnowsChild, ChildrenRetained
<1> QED BY <1>5, <1>8, <1>9, <1>10, <1>11, <1>12

(* Time passes: records only grow older.                                   *)
LEMMA TickKeepsInv ==
    ASSUME RegistryInv, Tick
    PROVE  RegistryInv'
<1> USE DEF RegistryInv
<1>1. DOMAIN jobs' = DOMAIN jobs
  BY DEF Tick
<1>2. \A k \in DOMAIN jobs :
        /\ jobs'[k] \in JobSnapshot
        /\ jobs'[k].node = jobs[k].node /\ jobs'[k].parent = jobs[k].parent
        /\ jobs'[k].children = jobs[k].children
        /\ Terminal(k)' <=> Terminal(k)
        /\ Expired(k) => Expired(k)'
  BY <1>1, RegistryAssumption
     DEF Tick, TypeOK, JobSnapshot, States, Terminal, Expired
<1>3. \A k : Live(k)' <=> Live(k)
  BY <1>1, <1>2 DEF Live
<1>4. \A k \in DOMAIN jobs, n \in Nodes : ShouldIndex(k, n)' <=> ShouldIndex(k, n)
  BY <1>1, <1>2, <1>3 DEF ShouldIndex
<1>5. UNCHANGED <<indexes, guards, issued, shuttingDown>>
  BY DEF Tick
<1>6. jobs' \in [DOMAIN jobs' -> JobSnapshot]
  BY <1>1, <1>2 DEF Tick
<1>7. TypeOK'
  BY <1>1, <1>2, <1>5, <1>6 DEF TypeOK, indexes
<1>8. NodeIndexExact'
  BY <1>1, <1>4, <1>5 DEF NodeIndexExact, indexes
<1>9. AliasIndexesInverse' /\ NoLeakedAlias' /\ NodeHoldsAlias'
  BY <1>1, <1>3, <1>4, <1>5
     DEF AliasIndexesInverse, NoLeakedAlias, NodeHoldsAlias, indexes
<1>10. ParentKnowsChild' /\ ChildrenRetained'
  BY <1>1, <1>2 DEF ParentKnowsChild, ChildrenRetained
<1> QED BY <1>7, <1>8, <1>9, <1>10

(* Steps that leave the records alone: the registry invariant follows from *)
(* what they do to the alias table.                                        *)
LEMMA AliasStepKeepsInv ==
    ASSUME RegistryInv, UNCHANGED <<jobs, activeByNode, issued>>,
           guards' \subseteq Guards, shuttingDown' \in BOOLEAN,
           activeByScope' \in [Scopes -> Owners \cup {None}],
           scopesByOwner' \in [Owners -> SUBSET Scopes],
           AliasIndexesInverse',
           \A o \in Owners : scopesByOwner'[o] # {} => o \in guards' \/ Live(o),
           \A j \in JobIds : scopesByOwner[j] \subseteq scopesByOwner'[j]
    PROVE  RegistryInv'
<1> USE DEF RegistryInv
<1>1. \A k : Live(k)' <=> Live(k)
  BY DEF Live, Terminal
<1>2. \A k \in DOMAIN jobs : Expired(k)' <=> Expired(k)
  BY DEF Expired, Terminal
<1>3. \A k, n : ShouldIndex(k, n)' <=> ShouldIndex(k, n)
  BY <1>1 DEF ShouldIndex
<1>4. TypeOK'
  BY DEF TypeOK
<1>5. NodeIndexExact'
  BY <1>3 DEF NodeIndexExact
<1>6. NoLeakedAlias'
  BY <1>1 DEF NoLeakedAlias
<1>7. NodeHoldsAlias'
  BY <1>3 DEF NodeHoldsAlias, TypeOK
<1>8. ParentKnowsChild' /\ ChildrenRetained'
  BY <1>2 DEF ParentKnowsChild, ChildrenRetained
<1> QED BY <1>4, <1>5, <1>6, <1>7, <1>8

LEMMA ReserveMutationKeepsInv ==
    ASSUME RegistryInv, NEW g \in Guards, NEW ss \in SUBSET Scopes,
           ReserveMutation(g, ss)
    PROVE  RegistryInv'
<1> USE DEF RegistryInv
<1>1. g \in Owners /\ \A s \in ss : activeByScope[s] \in {None, g}
  BY DEF ReserveMutation, Conflict, Owners
<1>2. /\ activeByScope' \in [Scopes -> Owners \cup {None}]
      /\ scopesByOwner' \in [Owners -> SUBSET Scopes]
      /\ AliasIndexesInverse'
  BY <1>1, ReserveKeepsInverse DEF ReserveMutation
<1>3. \A o \in Owners : scopesByOwner'[o] = IF o = g THEN scopesByOwner[g] \cup ss
                                                     ELSE scopesByOwner[o]
  BY DEF ReserveMutation, ReserveScopes, TypeOK
<1>4. guards' = guards \cup {g} /\ guards' \subseteq Guards
  BY DEF ReserveMutation, TypeOK
<1>5. \A o \in Owners : scopesByOwner'[o] # {} => o \in guards' \/ Live(o)
  BY <1>3, <1>4 DEF NoLeakedAlias
<1>6. \A j \in JobIds : scopesByOwner[j] \subseteq scopesByOwner'[j]
  BY <1>3 DEF Owners
<1> QED BY <1>2, <1>4, <1>5, <1>6, AliasStepKeepsInv DEF ReserveMutation, TypeOK

LEMMA DropReservationKeepsInv ==
    ASSUME RegistryInv, NEW g \in Guards, DropReservation(g)
    PROVE  RegistryInv'
<1> USE DEF RegistryInv
<1>1. {g} \in SUBSET Owners
  BY DEF Owners
<1>2. /\ activeByScope' \in [Scopes -> Owners \cup {None}]
      /\ scopesByOwner' \in [Owners -> SUBSET Scopes]
      /\ AliasIndexesInverse'
  BY <1>1, ReleaseKeepsInverse DEF DropReservation
<1>3. \A o \in Owners : scopesByOwner'[o] = IF o = g THEN {} ELSE scopesByOwner[o]
  BY DEF DropReservation, ReleaseScopes
<1>4. guards' = guards \ {g} /\ guards' \subseteq Guards
  BY DEF DropReservation, TypeOK
<1>5. \A o \in Owners : scopesByOwner'[o] # {} => o \in guards' \/ Live(o)
  BY <1>3, <1>4 DEF NoLeakedAlias
<1>6. \A j \in JobIds : scopesByOwner[j] \subseteq scopesByOwner'[j]
  BY <1>3, RegistryAssumption DEF Owners
<1> QED BY <1>2, <1>4, <1>5, <1>6, AliasStepKeepsInv DEF DropReservation, TypeOK

LEMMA ReserveJobScopesKeepsInv ==
    ASSUME RegistryInv, NEW j \in JobIds, NEW ss \in SUBSET Scopes,
           ReserveJobScopes(j, ss)
    PROVE  RegistryInv'
<1> USE DEF RegistryInv
<1>1. j \in Owners /\ \A s \in ss : activeByScope[s] \in {None, j}
  BY DEF ReserveJobScopes, Conflict, Owners
<1>2. /\ activeByScope' \in [Scopes -> Owners \cup {None}]
      /\ scopesByOwner' \in [Owners -> SUBSET Scopes]
      /\ AliasIndexesInverse'
  BY <1>1, ReserveKeepsInverse DEF ReserveJobScopes
<1>3. \A o \in Owners : scopesByOwner'[o] = IF o = j THEN scopesByOwner[j] \cup ss
                                                     ELSE scopesByOwner[o]
  BY DEF ReserveJobScopes, ReserveScopes, TypeOK
<1>4. guards' = guards /\ Live(j)
  BY DEF ReserveJobScopes
<1>5. \A o \in Owners : scopesByOwner'[o] # {} => o \in guards' \/ Live(o)
  BY <1>3, <1>4 DEF NoLeakedAlias
<1>6. \A k \in JobIds : scopesByOwner[k] \subseteq scopesByOwner'[k]
  BY <1>3 DEF Owners
<1> QED BY <1>2, <1>4, <1>5, <1>6, AliasStepKeepsInv DEF ReserveJobScopes, TypeOK

(* Admission: the capacity check prunes, then the new record goes into     *)
(* every index.                                                            *)
LEMMA CreateJobKeepsInv ==
    ASSUME RegistryInv, NEW j \in JobIds, NEW n \in Nodes \cup {None},
           NEW p \in JobIds \cup {None}, NEW ss \in SUBSET Scopes,
           NEW state \in {"Queued", "Running"},
           CreateJob(j, n, p, ss, state)
    PROVE  RegistryInv'
<1> USE DEF RegistryInv
<1> DEFINE kept == KeptForAdmission
           gone == DOMAIN jobs \ kept
           mine == AdmittedScopes(n, ss)
<1>1. /\ j \notin issued /\ j \notin DOMAIN jobs /\ j # None
      /\ p # None => p \in DOMAIN jobs /\ Live(p) /\ jobs[p].parent = None
      /\ p # j
  BY RegistryAssumption DEF CreateJob, CanAcceptChild, Live, TypeOK
<1>2. /\ kept \subseteq DOMAIN jobs
      /\ Removable(gone)
      /\ \A k \in DOMAIN jobs : Live(k) => k \in kept
  BY PrunedIsRemovable
<1>3. DOMAIN jobs' = kept \cup {j}
  BY <1>1, <1>2 DEF CreateJob
<1>4. /\ jobs'[j] \in JobSnapshot
      /\ jobs'[j].node = n /\ jobs'[j].parent = p
      /\ jobs'[j].children = {} /\ jobs'[j].state # "Terminal"
  <2>1. jobs'[j] = [state |-> state, node |-> n, parent |-> p, children |-> {},
                    age |-> 0]
    BY <1>1, <1>2 DEF CreateJob
  <2> QED BY <2>1, RegistryAssumption DEF JobSnapshot, States
<1>5. \A k \in kept :
        /\ jobs'[k] \in JobSnapshot
        /\ jobs'[k].node = jobs[k].node /\ jobs'[k].parent = jobs[k].parent
        /\ jobs'[k].children = IF k = p THEN jobs[k].children \cup {j}
                                        ELSE jobs[k].children
        /\ Terminal(k)' <=> Terminal(k)
        /\ Expired(k)' <=> Expired(k)
  <2> SUFFICES ASSUME NEW k \in kept
               PROVE  /\ jobs'[k] \in JobSnapshot
                      /\ jobs'[k].node = jobs[k].node
                      /\ jobs'[k].parent = jobs[k].parent
                      /\ jobs'[k].children = IF k = p THEN jobs[k].children \cup {j}
                                                      ELSE jobs[k].children
                      /\ jobs'[k].state = jobs[k].state /\ jobs'[k].age = jobs[k].age
    BY DEF Terminal, Expired
  <2>1. jobs[k] \in JobSnapshot
    BY <1>2 DEF TypeOK
  <2>2. CASE k = p
    <3>1. jobs'[k] = [jobs[k] EXCEPT !.children = @ \cup {j}]
      BY <1>1, <1>2, <2>2 DEF CreateJob
    <3> QED BY <2>1, <2>2, <3>1 DEF JobSnapshot
  <2>3. CASE k # p
    <3>1. jobs'[k] = jobs[k]
      BY <1>1, <1>2, <2>3 DEF CreateJob
    <3> QED BY <2>1, <2>3, <3>1
  <2> QED BY <2>2, <2>3
<1> HIDE DEF kept
<1>6. \A k : Live(k)' <=> Live(k) \/ k = j
  <2>1. ~Terminal(j)'
    BY <1>4 DEF Terminal
  <2> QED BY Zenon, <1>1, <1>2, <1>3, <1>5, <2>1 DEF Live
<1>7. \A k \in DOMAIN jobs', m \in Nodes :
        ShouldIndex(k, m)' <=> IF k = j THEN m = n ELSE ShouldIndex(k, m)
  BY Zenon, <1>1, <1>3, <1>4, <1>5, <1>6 DEF ShouldIndex
<1>8. mine \in SUBSET Scopes /\ (n # None => n \in mine)
  BY DEF AdmittedScopes, Scopes
<1>9. \A s \in mine : activeByScope[s] = None
  BY DEF CreateJob, Conflict
<1>10. /\ activeByScope' \in [Scopes -> Owners \cup {None}]
       /\ scopesByOwner' \in [Owners -> SUBSET Scopes]
       /\ AliasIndexesInverse'
  BY Zenon, <1>8, <1>9, ReserveKeepsInverse DEF CreateJob, Owners
<1>11. \A o \in Owners : scopesByOwner'[o] = IF o = j THEN scopesByOwner[j] \cup mine
                                                      ELSE scopesByOwner[o]
  BY DEF CreateJob, ReserveScopes, TypeOK
<1>12. \A m \in Nodes : activeByNode'[m] = IF m = n THEN activeByNode[m] \cup {j}
                                                    ELSE activeByNode[m]
  BY DEF CreateJob
<1>13. TypeOK'
  <2>1. jobs' \in [DOMAIN jobs' -> JobSnapshot]
    <3>1. \A k \in DOMAIN jobs' : jobs'[k] \in JobSnapshot
      BY Zenon, <1>3, <1>4, <1>5
    <3>2. jobs' = [k \in DOMAIN jobs' |-> jobs'[k]]
      BY DEF CreateJob
    <3> QED BY <3>1, <3>2
  <2>2. activeByNode' \in [Nodes -> SUBSET JobIds]
    BY DEF TypeOK, CreateJob
  <2>3. issued' = issued \cup {j} /\ DOMAIN jobs' \subseteq issued' /\ issued' \subseteq JobIds
    BY <1>2, <1>3 DEF TypeOK, CreateJob
  <2>4. \A q \in DOMAIN jobs :
            /\ jobs[q].children \subseteq issued \ {q}
            /\ jobs[q].children # {} => jobs[q].parent = None
            /\ \A c \in jobs[q].children \cap DOMAIN jobs : jobs[c].parent = q
    BY DEF TypeOK
  <2>5. guards' \subseteq Guards /\ shuttingDown' \in BOOLEAN
    BY DEF TypeOK, CreateJob
  <2>6. \A k \in DOMAIN jobs' :
            /\ jobs'[k].children \subseteq issued' \ {k}
            /\ jobs'[k].children # {} => jobs'[k].parent = None
    <3> SUFFICES ASSUME NEW k \in DOMAIN jobs'
                 PROVE  /\ jobs'[k].children \subseteq issued' \ {k}
                        /\ jobs'[k].children # {} => jobs'[k].parent = None
      OBVIOUS
    <3>1. CASE k = j
      BY <1>4, <3>1
    <3>2. CASE k # j
      <4>1. k \in kept /\ k \in DOMAIN jobs
        BY <1>2, <1>3, <3>2
      <4>2. /\ jobs[k].children \subseteq issued \ {k}
            /\ jobs[k].children # {} => jobs[k].parent = None
        BY <2>4, <4>1
      <4>3. /\ jobs'[k].parent = jobs[k].parent
            /\ jobs'[k].children = IF k = p THEN jobs[k].children \cup {j}
                                            ELSE jobs[k].children
        BY <1>5, <4>1
      <4>4. k # None
        BY <4>1, RegistryAssumption DEF TypeOK
      <4>5. k = p => jobs[k].parent = None
        BY <1>1, <4>4
      <4> QED BY <1>1, <2>3, <3>2, <4>2, <4>3, <4>5
    <3> QED BY <3>1, <3>2
  <2>7. ASSUME NEW k \in DOMAIN jobs', NEW c \in jobs'[k].children \cap DOMAIN jobs'
        PROVE  jobs'[c].parent = k
    <3>1. k \in kept
      BY <1>3, <1>4, <2>7
    <3>2. CASE c = j
      <4>1. jobs[k].children \subseteq issued
        BY <1>2, <3>1 DEF TypeOK
      <4>2. k = p
        BY Zenon, <1>1, <1>5, <2>7, <3>1, <3>2, <4>1
      <4> QED BY <1>4, <3>2, <4>2
    <3>3. CASE c # j
      <4>1. c \in kept /\ c \in jobs[k].children
        BY Zenon, <1>3, <1>5, <2>7, <3>1, <3>3
      <4>2. k \in DOMAIN jobs /\ c \in jobs[k].children \cap DOMAIN jobs
        BY <1>2, <3>1, <4>1
      <4>3. jobs[c].parent = k
        BY <2>4, <4>2
      <4>4. jobs'[c].parent = jobs[c].parent
        BY Zenon, <1>5, <4>1
      <4> QED BY <4>3, <4>4
    <3> QED BY <3>2, <3>3
  <2> QED BY <1>10, <2>1, <2>2, <2>3, <2>6, <2>7, <2>5 DEF TypeOK
<1>14. NodeIndexExact'
  <2> SUFFICES ASSUME NEW m \in Nodes
               PROVE  activeByNode'[m] = {k \in DOMAIN jobs' : ShouldIndex(k, m)'}
    BY DEF NodeIndexExact
  <2>1. activeByNode[m] = {k \in DOMAIN jobs : ShouldIndex(k, m)}
    BY DEF NodeIndexExact
  <2>2. \A k \in DOMAIN jobs : ShouldIndex(k, m) => k \in kept
    BY <1>2 DEF ShouldIndex
  <2>3. activeByNode[m] = {k \in kept : ShouldIndex(k, m)}
    BY <1>2, <2>1, <2>2
  <2> QED BY Zenon, <1>1, <1>2, <1>3, <1>7, <1>12, <2>3
<1>15. NoLeakedAlias'
  BY <1>6, <1>11 DEF NoLeakedAlias, CreateJob
<1>16. NodeHoldsAlias'
  <2> SUFFICES ASSUME NEW k \in DOMAIN jobs', NEW m \in Nodes, ShouldIndex(k, m)'
               PROVE  m \in scopesByOwner'[k]
    BY DEF NodeHoldsAlias
  <2>1. k \in Owners
    BY <1>13 DEF TypeOK, Owners
  <2>2. CASE k = j
    BY <1>7, <1>8, <1>11, <2>1, <2>2, RegistryAssumption
  <2>3. CASE k # j
    BY <1>2, <1>3, <1>7, <1>11, <2>1, <2>3 DEF NodeHoldsAlias
  <2> QED BY <2>2, <2>3
<1>17. ParentKnowsChild'
  <2> SUFFICES ASSUME NEW k \in DOMAIN jobs', jobs'[k].parent # None
               PROVE  /\ jobs'[k].parent \in DOMAIN jobs'
                      /\ k \in jobs'[jobs'[k].parent].children
    BY DEF ParentKnowsChild
  <2>1. CASE k = j
    <3>1. p # None /\ jobs'[k].parent = p
      BY <1>4, <2>1
    <3>2. p \in kept
      BY <1>1, <1>2, <3>1
    <3> QED BY Zenon, <1>3, <1>5, <2>1, <3>1, <3>2
  <2>2. CASE k # j
    <3>1. k \in kept /\ jobs'[k].parent = jobs[k].parent
      BY Zenon, <1>3, <1>5, <2>2
    <3>2. jobs[k].parent \in DOMAIN jobs /\ k \in jobs[jobs[k].parent].children
      BY <1>2, <3>1 DEF ParentKnowsChild
    <3>3. jobs[k].parent \notin gone
      BY <1>2, <3>1, <3>2 DEF Removable
    <3>4. jobs[k].parent \in kept
      BY <3>2, <3>3
    <3> QED BY Zenon, <1>3, <1>5, <3>1, <3>2, <3>4
  <2> QED BY <2>1, <2>2
<1>18. ChildrenRetained'
  <2> SUFFICES ASSUME NEW k \in DOMAIN jobs', ~Expired(k)'
               PROVE  jobs'[k].children \subseteq DOMAIN jobs'
    BY DEF ChildrenRetained
  <2>1. CASE k = j
    BY <1>4, <2>1
  <2>2. CASE k # j
    <3>1. k \in kept /\ k \in DOMAIN jobs /\ ~Expired(k)
      BY Zenon, <1>2, <1>3, <1>5, <2>2
    <3>2. jobs[k].children \subseteq DOMAIN jobs /\ jobs[k].children \cap gone = {}
      BY <1>2, <3>1 DEF ChildrenRetained, Removable
    <3> QED BY Zenon, <1>3, <1>5, <3>1, <3>2
  <2> QED BY <2>1, <2>2
<1> QED BY <1>10, <1>13, <1>14, <1>15, <1>16, <1>17, <1>18

-----------------------------------------------------------------------------
LEMMA NextKeepsInv == RegistryInv /\ [Next]_vars => RegistryInv'
<1> SUFFICES ASSUME RegistryInv, [Next]_vars
             PROVE  RegistryInv'
  OBVIOUS
<1>1. ASSUME NEW j \in JobIds, NEW n \in Nodes \cup {None},
             NEW p \in JobIds \cup {None}, NEW ss \in SUBSET Scopes,
             CreateJob(j, n, p, ss, "Queued")
      PROVE  RegistryInv'
  BY <1>1, CreateJobKeepsInv
<1>2. ASSUME NEW j \in JobIds, CreateJob(j, None, None, {}, "Running")
      PROVE  RegistryInv'
  BY <1>2, CreateJobKeepsInv
<1>3. ASSUME NEW g \in Guards, NEW ss \in SUBSET Scopes, ReserveMutation(g, ss)
      PROVE  RegistryInv'
  BY <1>3, ReserveMutationKeepsInv
<1>4. ASSUME NEW g \in Guards, DropReservation(g)
      PROVE  RegistryInv'
  BY <1>4, DropReservationKeepsInv
<1>5. ASSUME NEW j \in JobIds, NEW ss \in SUBSET Scopes, ReserveJobScopes(j, ss)
      PROVE  RegistryInv'
  BY <1>5, ReserveJobScopesKeepsInv
<1>6. ASSUME NEW j \in JobIds, MarkRunning(j)
      PROVE  RegistryInv'
  BY <1>6, MarkRunningKeepsInv
<1>7. ASSUME NEW j \in JobIds, MarkTerminal(j)
      PROVE  RegistryInv'
  BY <1>7, MarkTerminalKeepsInv
<1>8. ASSUME NEW j \in JobIds, RemoveQueuedLeaf(j)
      PROVE  RegistryInv'
  <2>1. Removable({j})
    BY <1>8, QueuedLeafIsRemovable DEF RemoveQueuedLeaf, RegistryInv
  <2> QED BY <1>8, <2>1, RemoveKeepsInv DEF RemoveQueuedLeaf
<1>9. CASE CleanupExpired
  <2>1. Removable(Evictable)
    BY EvictableIsRemovable DEF RegistryInv
  <2> QED BY <1>9, <2>1, RemoveKeepsInv DEF CleanupExpired
<1>10. CASE BeginShutdown
  BY <1>10, AliasStepKeepsInv
     DEF BeginShutdown, indexes, RegistryInv, TypeOK, NoLeakedAlias, AliasIndexesInverse
<1>11. CASE Tick
  BY <1>11, TickKeepsInv
<1>12. CASE UNCHANGED vars
  BY <1>12, AliasStepKeepsInv
     DEF vars, RegistryInv, TypeOK, NoLeakedAlias, AliasIndexesInverse
<1> QED BY <1>1, <1>2, <1>3, <1>4, <1>5, <1>6, <1>7, <1>8, <1>9, <1>10, <1>11, <1>12
        DEF Next

(* The inductive invariant of the job registry holds in every behaviour:   *)
(* consistent indexes, no leaked alias, a node's alias with every live job *)
(* on it, and families of jobs that eviction keeps whole.                  *)
THEOREM RegistryInvariant == Spec => []RegistryInv
BY InitRegistryInv, NextKeepsInv, PTL DEF Spec

(* The store's indexes agree with its records after every operation.       *)
THEOREM IndexesAreConsistent == Spec => []IndexesConsistent
<1>1. RegistryInv => IndexesConsistent
  BY DEF RegistryInv, IndexesConsistent
<1> QED BY <1>1, RegistryInvariant, PTL

(* A node has at most one user, be it a job that runs there or an owner of *)
(* its alias: require_node_idle and the alias check exclude each other's   *)
(* admissions although they look at different indexes.                     *)
THEOREM NodesAreExclusive == Spec => []NodeExclusive
<1>1. ASSUME RegistryInv PROVE NodeExclusive
  <2> SUFFICES ASSUME NEW n \in Nodes, NEW x \in Users(n), NEW y \in Users(n)
               PROVE  x = y
    BY DEF NodeExclusive
  <2>1. ASSUME NEW u \in Users(n)
        PROVE  u \in Owners /\ n \in scopesByOwner[u]
    BY <1>1, <2>1 DEF Users, RegistryInv, NodeHoldsAlias, TypeOK, Owners
  <2>2. \A o \in Owners : n \in scopesByOwner[o] => activeByScope[n] = o
    BY <1>1 DEF RegistryInv, AliasIndexesInverse, Scopes
  <2> QED BY <2>1, <2>2
<1> QED BY <1>1, RegistryInvariant, PTL

(* No alias outlives its owner, whichever way the owner ends.              *)
THEOREM NoAliasLeaks == Spec => []NoLeakedAlias
<1>1. RegistryInv => NoLeakedAlias
  BY DEF RegistryInv
<1> QED BY <1>1, RegistryInvariant, PTL

(* No parent loses a child to eviction while it is retained itself, so     *)
(* aggregation never counts a child as missing.                            *)
THEOREM ChildrenAreRetained == Spec => []ChildrenRetained
<1>1. RegistryInv => ChildrenRetained
  BY DEF RegistryInv
<1> QED BY <1>1, RegistryInvariant, PTL

(* A child's parent is tracked as long as the child is.                    *)
THEOREM ParentsOutliveChildren == Spec => []ParentOutlivesChildren
<1>1. RegistryInv => ParentOutlivesChildren
  BY DEF RegistryInv, ParentKnowsChild, ParentOutlivesChildren
<1> QED BY <1>1, RegistryInvariant, PTL

-----------------------------------------------------------------------------
(* Cardinality facts for the capacity limit.                               *)
LEMMA SubsetWithin ==
    ASSUME NEW S, IsFiniteSet(S), NEW T \in SUBSET S, NEW m \in Nat,
           Cardinality(S) <= m
    PROVE  IsFiniteSet(T) /\ Cardinality(T) <= m
<1>1. IsFiniteSet(T) /\ Cardinality(T) <= Cardinality(S)
  BY FS_Subset
<1>2. Cardinality(T) \in Nat /\ Cardinality(S) \in Nat
  BY <1>1, FS_CardinalityType
<1> QED BY <1>1, <1>2

LEMMA AddedWithin ==
    ASSUME NEW S, IsFiniteSet(S), NEW x, NEW m \in Nat, Cardinality(S) < m
    PROVE  IsFiniteSet(S \cup {x}) /\ Cardinality(S \cup {x}) <= m
<1>1. /\ IsFiniteSet(S \cup {x})
      /\ Cardinality(S \cup {x}) = IF x \in S THEN Cardinality(S) ELSE Cardinality(S) + 1
  BY FS_AddElement
<1>2. Cardinality(S) \in Nat
  BY FS_CardinalityType
<1> QED BY <1>1, <1>2

(* The registry never holds more than max_jobs records, though the check   *)
(* prunes and counts before it inserts.                                    *)
THEOREM RegistryWithinCapacity == Spec => []WithinCapacity
<1> DEFINE Bounded == IsFiniteSet(DOMAIN jobs) /\ WithinCapacity
<1>1. Init => Bounded
  <2> SUFFICES ASSUME Init PROVE Bounded
    OBVIOUS
  <2>1. DOMAIN jobs = {}
    BY DEF Init
  <2>2. IsFiniteSet({}) /\ Cardinality({}) = 0
    BY FS_EmptySet
  <2> QED BY <2>1, <2>2, RegistryAssumption DEF WithinCapacity
<1>2. ASSUME Bounded, [Next]_vars PROVE Bounded'
  <2>1. CASE DOMAIN jobs' \subseteq DOMAIN jobs
    BY <1>2, <2>1, SubsetWithin, RegistryAssumption DEF WithinCapacity
  <2>2. ASSUME NEW j, NEW n, NEW p, NEW ss, NEW state, CreateJob(j, n, p, ss, state)
        PROVE  Bounded'
    <3> DEFINE kept == KeptForAdmission
    <3>1. kept \subseteq DOMAIN jobs
      BY DEF KeptForAdmission
    <3>2. IsFiniteSet(kept)
      BY <1>2, <3>1, FS_Subset
    <3>3. Cardinality(kept) < MAX_JOBS
      BY <2>2 DEF CreateJob, HasRoom
    <3>4. DOMAIN jobs' = kept \cup {j}
      BY <2>2 DEF CreateJob
    <3> HIDE DEF kept
    <3>5. IsFiniteSet(kept \cup {j}) /\ Cardinality(kept \cup {j}) <= MAX_JOBS
      BY Zenon, <3>2, <3>3, AddedWithin, RegistryAssumption
    <3> QED BY <3>4, <3>5 DEF WithinCapacity
  <2>3. ASSUME NEW j \in JobIds, MarkRunning(j) \/ MarkTerminal(j) \/ RemoveQueuedLeaf(j)
        PROVE  DOMAIN jobs' \subseteq DOMAIN jobs
    BY <2>3 DEF MarkRunning, MarkTerminal, RemoveQueuedLeaf, Remove
  <2>4. ASSUME NEW j \in JobIds, NEW ss \in SUBSET Scopes, ReserveJobScopes(j, ss)
        PROVE  DOMAIN jobs' \subseteq DOMAIN jobs
    BY <2>4 DEF ReserveJobScopes
  <2>5. ASSUME NEW g \in Guards, NEW ss \in SUBSET Scopes,
               ReserveMutation(g, ss) \/ DropReservation(g)
        PROVE  DOMAIN jobs' \subseteq DOMAIN jobs
    BY <2>5 DEF ReserveMutation, DropReservation
  <2>6. CASE CleanupExpired \/ BeginShutdown \/ Tick \/ UNCHANGED vars
    <3>1. DOMAIN jobs' \subseteq DOMAIN jobs
      BY <2>6 DEF CleanupExpired, Remove, BeginShutdown, Tick, vars
    <3> QED BY <3>1, <2>1
  <2> QED BY <1>2, <2>1, <2>2, <2>3, <2>4, <2>5, <2>6 DEF Next
<1>3. Bounded => WithinCapacity
  OBVIOUS
<1> QED BY <1>1, <1>2, <1>3, PTL DEF Spec

(* What each step does to a terminal record: nothing, or its age, or it    *)
(* goes.                                                                   *)
Untouched(j) == jobs'[j] = [jobs[j] EXCEPT !.age = jobs'[j].age]

LEMMA SameIsUntouched ==
    ASSUME TypeOK, NEW j \in DOMAIN jobs, jobs'[j] = jobs[j]
    PROVE  Untouched(j)
<1>1. jobs[j] \in JobSnapshot
  BY DEF TypeOK
<1> QED BY <1>1 DEF Untouched, JobSnapshot

(* A terminal job stays terminal and takes no child, whatever transitions, *)
(* completions, drops and admissions arrive late.                          *)
THEOREM TerminalJobsAreFinal == Spec => TerminalIsFinal
<1>1. ASSUME RegistryInv, [Next]_vars, NEW j \in DOMAIN jobs, Terminal(j)
      PROVE  j \notin DOMAIN jobs' \/ Untouched(j)
  <2> SUFFICES ASSUME j \in DOMAIN jobs' PROVE Untouched(j)
    OBVIOUS
  <2> TypeOK
    BY <1>1 DEF RegistryInv
  <2>1. ASSUME NEW k \in JobIds, NEW n, NEW p \in JobIds \cup {None}, NEW ss, NEW state,
               CreateJob(k, n, p, ss, state)
        PROVE  Untouched(j)
    <3>1. k # j
      BY <2>1 DEF CreateJob, TypeOK
    <3>2. p # j
      BY <1>1, <2>1, RegistryAssumption DEF CreateJob, CanAcceptChild, Live, TypeOK
    <3>3. jobs'[j] = jobs[j]
      BY <2>1, <3>1, <3>2 DEF CreateJob
    <3> QED BY <3>3, SameIsUntouched
  <2>2. ASSUME NEW k \in JobIds, MarkRunning(k) \/ MarkTerminal(k)
        PROVE  Untouched(j)
    <3>1. k # j
      BY <1>1, <2>2 DEF MarkRunning, MarkTerminal, Live
    <3>2. jobs'[j] = jobs[j]
      BY <2>2, <3>1 DEF MarkRunning, MarkTerminal
    <3> QED BY <3>2, SameIsUntouched
  <2>3. ASSUME NEW js, Remove(js)
        PROVE  Untouched(j)
    <3>1. jobs'[j] = jobs[j]
      BY <2>3 DEF Remove
    <3> QED BY <3>1, SameIsUntouched
  <2>4. CASE Tick
    <3>1. jobs[j] \in JobSnapshot
      BY DEF TypeOK
    <3>2. CASE jobs[j].age < TTL
      <4>1. jobs'[j] = [jobs[j] EXCEPT !.age = @ + 1]
        BY <1>1, <2>4, <3>2 DEF Tick
      <4> QED BY <3>1, <4>1 DEF Untouched, JobSnapshot
    <3>3. CASE ~(jobs[j].age < TTL)
      <4>1. jobs'[j] = jobs[j]
        BY <2>4, <3>3 DEF Tick
      <4> QED BY <4>1, SameIsUntouched
    <3> QED BY <3>2, <3>3
  <2>5. CASE UNCHANGED jobs
    BY <2>5, SameIsUntouched
  <2>6. ASSUME NEW k \in JobIds, NEW ss \in SUBSET Scopes, ReserveJobScopes(k, ss)
        PROVE  UNCHANGED jobs
    BY <2>6 DEF ReserveJobScopes
  <2>7. ASSUME NEW g \in Guards, NEW ss \in SUBSET Scopes,
               ReserveMutation(g, ss) \/ DropReservation(g)
        PROVE  UNCHANGED jobs
    BY <2>7 DEF ReserveMutation, DropReservation
  <2>8. CASE BeginShutdown \/ UNCHANGED vars
    <3>1. UNCHANGED jobs
      BY <2>8 DEF BeginShutdown, vars
    <3> QED BY <2>5, <3>1
  <2>9. CASE CleanupExpired \/ \E k \in JobIds : RemoveQueuedLeaf(k)
    BY Zenon, <2>3, <2>9 DEF CleanupExpired, RemoveQueuedLeaf
  <2> QED BY <1>1, <2>1, <2>2, <2>4, <2>5, <2>6, <2>7, <2>8, <2>9 DEF Next
<1>2. RegistryInv /\ [Next]_vars =>
        [\A j \in DOMAIN jobs : Terminal(j) =>
            \/ j \notin DOMAIN jobs'
            \/ jobs'[j] = [jobs[j] EXCEPT !.age = jobs'[j].age]]_vars
  BY <1>1 DEF Untouched
<1> QED BY <1>2, RegistryInvariant, PTL DEF Spec, TerminalIsFinal

(* Every device has one user, the indexes say which, and no index keeps    *)
(* one that has ended, for every number of jobs, guards and devices.       *)
THEOREM ExclusionIsSound == Spec => []ExclusionSound
<1>1. IndexesConsistent /\ NoLeakedAlias /\ NodeExclusive => ExclusionSound
  BY DEF ExclusionSound
<1> QED
  BY <1>1, IndexesAreConsistent, NoAliasLeaks, NodesAreExclusive, PTL

(* Eviction keeps families whole and the registry within max_jobs.         *)
THEOREM RetentionIsSound == Spec => []RetentionSound
<1>1. ChildrenRetained /\ ParentOutlivesChildren /\ WithinCapacity => RetentionSound
  BY DEF RetentionSound
<1> QED
  BY <1>1, ChildrenAreRetained, ParentsOutliveChildren, RegistryWithinCapacity, PTL
=============================================================================
