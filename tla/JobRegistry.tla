---------------------------- MODULE JobRegistry -----------------------------
(***************************************************************************)
(* The job registry and its store (orchestrator/job_lifecycle/registry.rs  *)
(* and store.rs): job records, the active-node index, the two alias        *)
(* indexes that jobs and direct-mutation guards share, TTL eviction and    *)
(* the capacity limit.  Every operation runs under the registry's write    *)
(* lock and is one action; a refused call changes nothing and is disabled. *)
(*                                                                         *)
(* A node stands for a (rack, node) pair and is its own LogicalNode alias; *)
(* devices are the normalised PhysicalSwitch and Endpoint aliases.         *)
(* Completed and Failed are one state, as the registry tells them apart    *)
(* only in what it logs.  Job ids are UUIDs, so an id is issued once.      *)
(* Every caller that names a node sets require_node_idle.                  *)
(***************************************************************************)
EXTENDS Naturals, FiniteSets

CONSTANTS
    JobIds,
    Guards,                 \* owner ids of direct-mutation reservations
    Nodes,
    Devices,
    MAX_JOBS,
    TTL,                    \* retention of terminal jobs, in clock ticks
    None

ASSUME RegistryAssumption ==
    /\ JobIds \cap Guards = {} /\ Nodes \cap Devices = {}
    /\ None \notin JobIds \cup Guards \cup Nodes
    /\ MAX_JOBS \in Nat
    /\ TTL \in Nat

Owners == JobIds \cup Guards
Scopes == Nodes \cup Devices

VARIABLES
    jobs,                   \* by_id: job id -> JobSnapshot
    activeByNode,           \* node -> ids of its non-terminal jobs
    activeByScope,          \* alias -> owner, or None
    scopesByOwner,          \* owner -> its aliases
    guards,                 \* the MutationReservations alive
    issued,                 \* every job id handed out so far
    shuttingDown

indexes == <<activeByNode, activeByScope, scopesByOwner>>
vars == <<jobs, activeByNode, activeByScope, scopesByOwner, guards, issued,
          shuttingDown>>

States == {"Queued", "Running", "Terminal"}

JobSnapshot ==
    [state: States, node: Nodes \cup {None}, parent: JobIds \cup {None},
     children: SUBSET JobIds, age: 0..TTL]

(* Types, and the shape of the job forest: children and parents name each  *)
(* other, and a child has no children (can_accept_child).                  *)
TypeOK ==
    /\ DOMAIN jobs \subseteq issued /\ issued \subseteq JobIds
    /\ jobs \in [DOMAIN jobs -> JobSnapshot]
    /\ activeByNode \in [Nodes -> SUBSET JobIds]
    /\ activeByScope \in [Scopes -> Owners \cup {None}]
    /\ scopesByOwner \in [Owners -> SUBSET Scopes]
    /\ guards \subseteq Guards
    /\ shuttingDown \in BOOLEAN
    /\ \A j \in DOMAIN jobs :
        /\ jobs[j].children \subseteq issued \ {j}
        /\ jobs[j].children # {} => jobs[j].parent = None
        /\ \A k \in jobs[j].children \cap DOMAIN jobs : jobs[k].parent = j

Init ==
    /\ jobs = [j \in {} |-> {}]
    /\ activeByNode = [n \in Nodes |-> {}]
    /\ activeByScope = [s \in Scopes |-> None]
    /\ scopesByOwner = [o \in Owners |-> {}]
    /\ guards = {}
    /\ issued = {}
    /\ shuttingDown = FALSE

-----------------------------------------------------------------------------
Terminal(j) == jobs[j].state = "Terminal"

Live(j) == j \in DOMAIN jobs /\ ~Terminal(j)

IsParent(j) == jobs[j].children # {}

(* should_index.                                                           *)
ShouldIndex(j, n) == Live(j) /\ jobs[j].node = n

(* conflicting_scope_except: an alias of ss held by anyone but o, or a     *)
(* node of ss with a live job other than o.                                *)
Conflict(ss, o) ==
    \E s \in ss :
        \/ activeByScope[s] \notin {None, o}
        \/ s \in Nodes /\ activeByNode[s] \ {o} # {}

(* reserve_scopes and release_scopes.  Faulty variant: a release forgets   *)
(* the aliases.                                                            *)
ReserveScopes(o, ss) ==
    /\ activeByScope' = [s \in Scopes |-> IF s \in ss THEN o ELSE activeByScope[s]]
    /\ scopesByOwner' = [scopesByOwner EXCEPT ![o] = @ \cup ss]

ReleaseScopes(os) ==
    /\ activeByScope' = [s \in Scopes |->
            IF \E o \in os : s \in scopesByOwner[o] THEN None ELSE activeByScope[s]]
    /\ scopesByOwner' = [o \in Owners |-> IF o \in os THEN {} ELSE scopesByOwner[o]]

(* remove_active_job, for several jobs.                                    *)
Unindex(js) == activeByNode' = [n \in Nodes |-> activeByNode[n] \ js]

(* can_accept_child.                                                       *)
CanAcceptChild(p) == Live(p) /\ jobs[p].parent = None

-----------------------------------------------------------------------------
(* cleanup_expired.  Which jobs go is decided on the map as the pass finds *)
(* it: an expired job that no unexpired parent protects, and, if it is a   *)
(* parent, none of whose children is still tracked.  Faulty variants: no   *)
(* child is protected; parents go before their children.                   *)
Expired(j) == Terminal(j) /\ jobs[j].age >= TTL

ProtectedChildren ==
    UNION {jobs[p].children : p \in {p \in DOMAIN jobs : IsParent(p) /\ ~Expired(p)}}

ExpiredUnprotected ==
    {j \in DOMAIN jobs : Expired(j) /\ j \notin ProtectedChildren}

Evictable ==
    {j \in DOMAIN jobs :
        /\ Expired(j)
        /\ j \notin ProtectedChildren
        /\ jobs[j].children \cap DOMAIN jobs = {}}

(* capacity_check: a full registry is pruned before the admission fails.   *)
KeptForAdmission ==
    IF Cardinality(DOMAIN jobs) >= MAX_JOBS THEN DOMAIN jobs \ Evictable
                                            ELSE DOMAIN jobs

HasRoom(kept) == Cardinality(kept) < MAX_JOBS

(* The aliases a new job reserves: a named node is one of them.  Faulty    *)
(* variant: only the aliases the caller lists.                             *)
ExplicitScopes(n, ss) == ss

AdmittedScopes(n, ss) == IF n = None THEN ss ELSE ss \cup {n}

(* create_job_with_scopes for job j, on node n or none, as a child of p or *)
(* at top level, with aliases ss, in its initial state.  The jobs the      *)
(* capacity check prunes are terminal: they are in neither index.          *)
CreateJob(j, n, p, ss, state) ==
    LET kept == KeptForAdmission
        new == [state |-> state, node |-> n, parent |-> p, children |-> {},
                age |-> 0]
    IN  /\ j \notin issued
        /\ ~shuttingDown
        /\ p # None => CanAcceptChild(p)
        /\ n # None => activeByNode[n] = {}
        /\ ~Conflict(AdmittedScopes(n, ss), None)
        /\ HasRoom(kept)
        /\ jobs' = [k \in kept \cup {j} |->
                        IF k = j THEN new
                        ELSE IF k = p
                             THEN [jobs[k] EXCEPT !.children = @ \cup {j}]
                             ELSE jobs[k]]
        /\ activeByNode' = [m \in Nodes |->
                IF m = n THEN activeByNode[m] \cup {j} ELSE activeByNode[m]]
        /\ ReserveScopes(j, AdmittedScopes(n, ss))
        /\ issued' = issued \cup {j}
        /\ UNCHANGED <<guards, shuttingDown>>

(* reserve_mutation, and the guard's Drop.                                 *)
ReserveMutation(g, ss) ==
    /\ g \notin guards
    /\ ~shuttingDown
    /\ ~Conflict(ss, None)
    /\ guards' = guards \cup {g}
    /\ ReserveScopes(g, ss)
    /\ UNCHANGED <<jobs, activeByNode, issued, shuttingDown>>

DropReservation(g) ==
    /\ g \in guards
    /\ guards' = guards \ {g}
    /\ ReleaseScopes({g})
    /\ UNCHANGED <<jobs, activeByNode, issued, shuttingDown>>

(* reserve_job_scopes: a live worker adds aliases before device mutation.  *)
ReserveJobScopes(j, ss) ==
    /\ ~shuttingDown
    /\ Live(j)
    /\ ~Conflict(ss, j)
    /\ ReserveScopes(j, ss)
    /\ UNCHANGED <<jobs, activeByNode, guards, issued, shuttingDown>>

-----------------------------------------------------------------------------
(* transition_state from a state that is not terminal: mark_running, and   *)
(* mark_completed or mark_failed (through the handle, its Drop or the      *)
(* shutdown sweep).  touch restarts the job's age.                         *)
MarkRunning(j) ==
    /\ Live(j)
    /\ jobs' = [jobs EXCEPT ![j].state = "Running"]
    /\ UNCHANGED <<indexes, guards, issued, shuttingDown>>

MarkTerminal(j) ==
    /\ Live(j)
    /\ jobs' = [jobs EXCEPT ![j].state = "Terminal", ![j].age = 0]
    /\ ReleaseScopes({j})
    /\ Unindex({j})
    /\ UNCHANGED <<guards, issued, shuttingDown>>

(* remove, for the jobs of js.                                             *)
Remove(js) ==
    /\ jobs' = [k \in DOMAIN jobs \ js |-> jobs[k]]
    /\ ReleaseScopes(js)
    /\ Unindex(js)
    /\ UNCHANGED <<guards, issued, shuttingDown>>

(* remove_queued_leaf: the roll-back of a job that was never spawned.      *)
RemoveQueuedLeaf(j) ==
    /\ j \in DOMAIN jobs
    /\ jobs[j].state = "Queued" /\ ~IsParent(j) /\ jobs[j].parent = None
    /\ Remove({j})

CleanupExpired == Evictable # {} /\ Remove(Evictable)

(* begin_shutdown.                                                         *)
BeginShutdown ==
    /\ shuttingDown' = TRUE
    /\ UNCHANGED <<jobs, indexes, guards, issued>>

(* The monotonic clock: every terminal job grows older together.           *)
Tick ==
    /\ jobs' = [j \in DOMAIN jobs |->
            IF Terminal(j) /\ jobs[j].age < TTL
            THEN [jobs[j] EXCEPT !.age = @ + 1] ELSE jobs[j]]
    /\ UNCHANGED <<indexes, guards, issued, shuttingDown>>

Next ==
    \/ \E j \in JobIds, n \in Nodes \cup {None}, p \in JobIds \cup {None},
          ss \in SUBSET Scopes : CreateJob(j, n, p, ss, "Queued")
    \/ \E j \in JobIds : CreateJob(j, None, None, {}, "Running")
    \/ \E g \in Guards, ss \in SUBSET Scopes : ReserveMutation(g, ss)
    \/ \E g \in Guards : DropReservation(g)
    \/ \E j \in JobIds, ss \in SUBSET Scopes : ReserveJobScopes(j, ss)
    \/ \E j \in JobIds : MarkRunning(j)
    \/ \E j \in JobIds : MarkTerminal(j)
    \/ \E j \in JobIds : RemoveQueuedLeaf(j)
    \/ CleanupExpired
    \/ BeginShutdown
    \/ Tick

Spec == Init /\ [][Next]_vars

-----------------------------------------------------------------------------
(* The active-node index holds exactly the live jobs of each node.         *)
NodeIndexExact ==
    \A n \in Nodes : activeByNode[n] = {j \in DOMAIN jobs : ShouldIndex(j, n)}

(* The two alias indexes are inverse to each other, so releasing an owner  *)
(* never frees or keeps an alias of another.                               *)
AliasIndexesInverse ==
    \A s \in Scopes, o \in Owners : s \in scopesByOwner[o] <=> activeByScope[s] = o

(* What the store's assert_consistent demands after every operation.       *)
IndexesConsistent == NodeIndexExact /\ AliasIndexesInverse

(* No alias outlives its owner: whoever holds one is a live guard or a     *)
(* tracked job that is not terminal (release on a terminal transition,     *)
(* on removal and on the guard's Drop).                                    *)
NoLeakedAlias ==
    \A o \in Owners : scopesByOwner[o] # {} => o \in guards \/ Live(o)

(* A node has one user at a time: two live jobs never share a node, and no *)
(* guard or other job holds a node's alias while a job runs on it, though  *)
(* the two kinds of occupancy are kept in different indexes.               *)
Users(n) == {j \in DOMAIN jobs : ShouldIndex(j, n)} \cup
            {o \in Owners : n \in scopesByOwner[o]}

NodeExclusive == \A n \in Nodes : \A x, y \in Users(n) : x = y

(* Eviction never takes a child from a parent that is live or not expired, *)
(* by whichever order they become terminal and whether the reaper or an    *)
(* admission prunes: aggregation would count the child as missing and fail *)
(* the parent.                                                             *)
ChildrenRetained ==
    \A p \in DOMAIN jobs : ~Expired(p) => jobs[p].children \subseteq DOMAIN jobs

(* A parent's record outlives its children's, so parent_for_job never      *)
(* names an evicted parent.                                                *)
ParentOutlivesChildren ==
    \A j \in DOMAIN jobs : jobs[j].parent # None => jobs[j].parent \in DOMAIN jobs

(* The registry never tracks more than max_jobs records.                   *)
WithinCapacity == Cardinality(DOMAIN jobs) <= MAX_JOBS

(* A device has one user at a time, and none that is gone: the exclusion   *)
(* rests on two indexes that admissions, later reservations, guard drops,  *)
(* removals and terminal transitions each change in part.                  *)
ExclusionSound == IndexesConsistent /\ NoLeakedAlias /\ NodeExclusive

(* The registry keeps to its limit by evicting, and eviction keeps parent  *)
(* and children together.                                                  *)
RetentionSound == ChildrenRetained /\ ParentOutlivesChildren /\ WithinCapacity

(* A terminal job never becomes active again and takes no new child: all   *)
(* it can do is grow old and be evicted.  Late progress updates, a second  *)
(* completion and the handle's Drop leave it alone.                        *)
TerminalIsFinal ==
    [][\A j \in DOMAIN jobs : Terminal(j) =>
        \/ j \notin DOMAIN jobs'
        \/ jobs'[j] = [jobs[j] EXCEPT !.age = jobs'[j].age]]_vars

=============================================================================
