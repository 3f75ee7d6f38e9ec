------------------------- MODULE ParentAggregation --------------------------
(***************************************************************************)
(* One batch request and the aggregation of its parent job                 *)
(* (orchestrator/job_tracker.rs, with the batch handlers of                *)
(* api/grpc/firmware_handlers.rs, switch_image_handlers.rs and             *)
(* firmware_object_handlers.rs).                                           *)
(*                                                                         *)
(* refresh_parent_state is not atomic: it clones the parent's record, then *)
(* reads its children one registry lock at a time, then takes the parent's *)
(* handle out of parent_job_handles and seals the job.  The request        *)
(* handler, every worker on exit, the reaper and status polls all run it,  *)
(* concurrently, on snapshots that may be stale.                           *)
(*                                                                         *)
(* A request is interleaved if it is a BatchUpdateFirmware, which awaits,  *)
(* admits and may fail one node at a time; the other handlers admit every  *)
(* child before any of them can end (create_batch_jobs;                    *)
(* UpdateSwitchSystemImage).  It is watched if the reaper or a poll may    *)
(* refresh its parent while it still admits.  A request's future is        *)
(* dropped at an await when its client goes away, and the handles it holds *)
(* are dropped with it.                                                    *)
(***************************************************************************)
EXTENDS Naturals, Sequences, FiniteSets

CONSTANTS
    Children,               \* the targets of the request, one child each
    Handler,                \* the thread of the request
    Observers,              \* the threads that refresh at any time: reaper, polls
    Interleaved, Watched    \* the kinds of request to check, subsets of BOOLEAN

ASSUME AggregationAssumption ==
    /\ Handler \notin Children \cup Observers /\ Children \cap Observers = {}
    /\ Interleaved \subseteq BOOLEAN /\ Watched \subseteq BOOLEAN

Threads == Children \cup Observers \cup {Handler}

VARIABLES
    parent,                 \* state of the parent record
    children,               \* its child_job_ids
    state,                  \* child -> state of its record
    handle,                 \* parent_job_handles holds the parent's handle
    request,                \* [pc, todo, held, interleaved, watched]
    refresh                 \* thread -> its call of refresh_parent_state

batch == <<parent, children, state>>
vars == <<parent, children, state, handle, request, refresh>>

Promise == INSTANCE BatchOutcome

Final == Promise!Final
Admitted == Promise!Admitted

(* A call in progress: the child ids still to read and what was counted.   *)
NoCall == [pc |-> "idle", list |-> <<>>, failed |-> FALSE, active |-> FALSE]
Due == [NoCall EXCEPT !.pc = "due"]

(* Types; a child has a record exactly when its parent lists it, once, and *)
(* the request holds handles of unfinished children only.                  *)
TypeOK ==
    /\ parent \in {"absent", "Running"} \cup Final
    /\ Len(children) = Cardinality(Admitted) /\ Admitted \subseteq Children
    /\ state \in [Children -> {"absent", "Queued", "Running"} \cup Final]
    /\ \A c \in Children : state[c] # "absent" <=> c \in Admitted
    /\ handle \in BOOLEAN
    /\ request.pc \in {"idle", "created", "admit", "scope", "dispatch", "drop", "done"}
    /\ request.todo \subseteq Children \ request.held
    /\ \A c \in request.held : state[c] = "Queued"
    /\ \A t \in Threads :
        /\ refresh[t].pc \in {"idle", "due", "count"}
        /\ \A i \in DOMAIN refresh[t].list : refresh[t].list[i] \in Admitted

Init ==
    /\ Promise!Init
    /\ handle = FALSE
    /\ request \in [pc : {"idle"}, todo : {Children}, held : {{}},
                    interleaved : Interleaved, watched : Watched]
    /\ refresh = [t \in Threads |-> NoCall]

-----------------------------------------------------------------------------
(* refresh_parent_state.                                                   *)
Quiet(t) == refresh[t].pc = "idle"

Call(t) == refresh' = [refresh EXCEPT ![t] = Due]

(* The request has its parent and is still in its admission loop.          *)
Admitting == request.pc \in {"created", "admit", "scope"}

(* The reaper and the polls refresh when they please, the others when they *)
(* call.  Faulty variant: nobody but the batch's own threads refreshes.    *)
MayBeginOwn(t) == t \notin Observers /\ refresh[t].pc = "due"

MayBegin(t) ==
    IF t \in Observers THEN Quiet(t) /\ (request.watched \/ ~Admitting)
                       ELSE refresh[t].pc = "due"

(* The parent's snapshot; a parent with no child, or sealed, is left alone.*)
BeginRefresh(t) ==
    /\ MayBegin(t)
    /\ refresh' = [refresh EXCEPT ![t] =
            IF parent = "Running" /\ children # <<>>
            THEN [NoCall EXCEPT !.pc = "count", !.list = children]
            ELSE NoCall]
    /\ UNCHANGED <<batch, handle, request>>

(* collect_parent_counts: one child.                                       *)
CountChild(t) ==
    LET call == refresh[t]
        s == state[Head(call.list)]
    IN  /\ call.pc = "count" /\ call.list # <<>>
        /\ refresh' = [refresh EXCEPT ![t] =
                [call EXCEPT !.list = Tail(call.list),
                             !.failed = @ \/ s = "Failed",
                             !.active = @ \/ s \notin Final]]
        /\ UNCHANGED <<batch, handle, request>>

(* Taking the handle out and consuming it, under the handles' mutex.  The  *)
(* handle's absence means that another thread sealed the parent.           *)
Seal(outcome) ==
    IF handle
    THEN /\ handle' = FALSE
         /\ parent' = IF parent = "Running" THEN outcome ELSE parent
    ELSE UNCHANGED <<parent, handle>>

(* refresh_terminal_parent, or a progress update when a child is active.   *)
(* Faulty variants: progress is not told from completion; a failed child   *)
(* is not told from a completed one.                                       *)
Done(call) == call.pc = "count" /\ call.list = <<>>

DecideByProgress(call) == IF call.active THEN "Running" ELSE "Completed"

Decide(call) == IF call.active THEN "Running"
                ELSE IF call.failed THEN "Failed" ELSE "Completed"

EndRefresh(t) ==
    /\ Done(refresh[t])
    /\ IF Decide(refresh[t]) = "Running" THEN UNCHANGED <<parent, handle>>
                                         ELSE Seal(Decide(refresh[t]))
    /\ refresh' = [refresh EXCEPT ![t] = NoCall]
    /\ UNCHANGED <<children, state, request>>

-----------------------------------------------------------------------------
(* The batch handler.                                                      *)
At(pc) == request.pc = pc /\ Quiet(Handler)

Goto(pc) == request' = [request EXCEPT !.pc = pc]

(* create_parent_job: the record, then the handle.                         *)
CreateParent ==
    /\ At("idle")
    /\ parent' = "Running"
    /\ Goto("created")
    /\ UNCHANGED <<children, state, handle, refresh>>

InsertHandle ==
    /\ At("created")
    /\ handle' = TRUE
    /\ Goto("admit")
    /\ UNCHANGED <<batch, refresh>>

(* A target refused before it has a job: a busy node, a duplicate, a bad   *)
(* request, a full registry, a sealed parent.                              *)
Reject(c) ==
    /\ At("admit")
    /\ c \in request.todo
    /\ request' = [request EXCEPT !.todo = @ \ {c}]
    /\ UNCHANGED <<batch, handle, refresh>>

(* create_child_job, and its refresh of the parent.                        *)
AdmitChild(c) ==
    /\ At("admit")
    /\ c \in request.todo
    /\ parent = "Running"
    /\ children' = Append(children, c)
    /\ state' = [state EXCEPT ![c] = "Queued"]
    /\ request' = [request EXCEPT !.pc = IF request.interleaved THEN "scope" ELSE @,
                                  !.todo = @ \ {c}, !.held = @ \cup {c}]
    /\ Call(Handler)
    /\ UNCHANGED <<parent, handle>>

(* The end of a job held by the handler, with or without the refresh.      *)
FailHeld(c, pc) ==
    /\ state' = [state EXCEPT ![c] = "Failed"]
    /\ request' = [request EXCEPT !.held = @ \ {c}, !.pc = pc]
    /\ UNCHANGED <<parent, children, handle>>

(* admit_firmware_node_for_job on the child just created.                  *)
ScopeGranted ==
    /\ At("scope")
    /\ Goto("admit")
    /\ UNCHANGED <<batch, handle, refresh>>

ScopeRefused ==
    /\ At("scope")
    /\ FailHeld(children[Len(children)], "admit")
    /\ Call(Handler)

(* Admission is over: the parent of a batch with no job is failed          *)
(* (mark_failed_message); otherwise the jobs are dispatched.               *)
EndAdmission ==
    /\ At("admit")
    /\ request.todo = {}
    /\ IF request.held = {} THEN Goto("done") /\ Seal("Failed")
                            ELSE Goto("dispatch") /\ UNCHANGED <<parent, handle>>
    /\ UNCHANGED <<children, state, refresh>>

(* One job: spawned, or failed by a setup step.  Faulty variant: a worker  *)
(* is spawned as soon as the next target is admitted.                      *)
SpawnPipelined(c) ==
    /\ c \in request.held
    /\ At("dispatch") \/ (At("admit") /\ ~request.interleaved
                                         /\ c # children[Len(children)])
    /\ request' = [request EXCEPT !.held = @ \ {c}]
    /\ UNCHANGED <<batch, handle, refresh>>

Spawn(c) ==
    /\ At("dispatch")
    /\ c \in request.held
    /\ request' = [request EXCEPT !.held = @ \ {c}]
    /\ UNCHANGED <<batch, handle, refresh>>

SetupFails(c) ==
    /\ At("dispatch") /\ ~request.interleaved
    /\ c \in request.held
    /\ FailHeld(c, "dispatch")
    /\ Call(Handler)

EndDispatch ==
    /\ At("dispatch") \/ At("drop")
    /\ request.held = {}
    /\ Goto("done")
    /\ UNCHANGED <<batch, handle, refresh>>

(* The client goes away while the handler awaits, and the handles it holds *)
(* are dropped one by one: no one refreshes the parent.                    *)
DropRequest ==
    /\ IF request.interleaved THEN At("admit") /\ request.todo # {}
                              ELSE At("dispatch") /\ request.held # {}
    /\ Goto("drop")
    /\ UNCHANGED <<batch, handle, refresh>>

DropHandle(c) ==
    /\ At("drop")
    /\ c \in request.held
    /\ FailHeld(c, "drop")
    /\ UNCHANGED refresh

-----------------------------------------------------------------------------
(* The worker of a spawned child.  It ends by consuming its handle, by a   *)
(* panic or by an abort (Failed, from JobHandle's Drop), and its           *)
(* RefreshParentOnWorkerExit guard, dropped after the handle, refreshes.   *)
Spawned(c) == c \in Admitted \ request.held /\ state[c] \notin Final

StartWork(c) ==
    /\ Spawned(c) /\ state[c] = "Queued"
    /\ state' = [state EXCEPT ![c] = "Running"]
    /\ UNCHANGED <<parent, children, handle, request, refresh>>

EndWork(c, outcome) ==
    /\ Spawned(c)
    /\ state' = [state EXCEPT ![c] = outcome]
    /\ Call(c)
    /\ UNCHANGED <<parent, children, handle, request>>

-----------------------------------------------------------------------------
HandlerStep ==
    \/ CreateParent \/ InsertHandle \/ ScopeGranted \/ ScopeRefused
    \/ EndAdmission \/ EndDispatch
    \/ \E c \in Children :
        Reject(c) \/ AdmitChild(c) \/ Spawn(c) \/ SetupFails(c) \/ DropHandle(c)

RefreshStep(t) == BeginRefresh(t) \/ CountChild(t) \/ EndRefresh(t)

Next ==
    \/ HandlerStep
    \/ DropRequest
    \/ \E c \in Children :
        StartWork(c) \/ \E outcome \in Final : EndWork(c, outcome)
    \/ \E t \in Threads : RefreshStep(t)

(* The runtime polls the request's task and every thread that refreshes;   *)
(* the reaper's timer never stops.  Nothing is assumed of workers, which   *)
(* wait for devices.                                                       *)
Fairness ==
    /\ WF_vars(HandlerStep)
    /\ \A t \in Threads : WF_vars(RefreshStep(t))

Spec == Init /\ [][Next]_vars /\ Fairness

-----------------------------------------------------------------------------
(* The batch's promise: the parent completes or fails in a state in which  *)
(* every child it has by then is final and the outcome is the right one.   *)
KeepsPromise == Promise!Spec

(* The promise is kept by the concurrent refreshes of the request, of its  *)
(* workers and, after admission, of the reaper and polls: every batch that *)
(* admits its children up front, unwatched, behaves as BatchOutcome.       *)
Promised == ~request.interleaved /\ ~request.watched

Kept == INSTANCE BatchOutcome WITH
            parent <- IF Promised THEN parent ELSE "absent",
            children <- IF Promised THEN children ELSE <<>>,
            state <- IF Promised THEN state ELSE [c \in Children |-> "absent"]

UnwatchedKeepsPromise == Kept!Spec

(* What aggregation guarantees however stale its snapshots: the parent is  *)
(* sealed only for children that are final, the first n it was given, and  *)
(* its outcome is theirs.  No interleaving of partial reads seals it for a *)
(* child that has not ended, or completes it over a failure it counted.    *)
SealedForPrefix ==
    parent \in Final /\ children # <<>> =>
        \E n \in DOMAIN children :
            /\ \A i \in 1..n : state[children[i]] \in Final
            /\ parent = "Failed" <=> \E i \in 1..n : state[children[i]] = "Failed"

(* The parent of an unsealed batch can be sealed: from the moment its id   *)
(* is known, the record is live exactly while parent_job_handles holds its *)
(* handle, so the "handle missing" branches of fail_parent and             *)
(* complete_parent are dead code.                                          *)
HandleWhileLive ==
    request.pc \notin {"idle", "created"} => (handle <=> parent = "Running")

(* Both, for every thread that refreshes the parent: the request, the      *)
(* workers' exits, polls and the reaper.                                   *)
SealingSound == TypeOK /\ SealedForPrefix /\ HandleWhileLive

(* While a request still has targets to admit, and has refused none for    *)
(* the parent's sake, its parent takes children: a target is refused for a *)
(* reason of its own, never because a sibling failed first.                *)
AdmissionStaysOpen ==
    request.pc \in {"admit", "scope"} /\ request.todo # {} => parent = "Running"

(* Once the request is over, completed or dropped, and no child is left    *)
(* running, a parent with children is sealed, though nobody polls it:      *)
(* otherwise its record is never evicted and the registry fills up.        *)
EventuallySealed ==
    (request.pc = "done" /\ children # <<>> /\ \A c \in Admitted : state[c] \in Final)
        ~> parent \in Final

=============================================================================
