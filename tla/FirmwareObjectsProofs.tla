------------------------ MODULE FirmwareObjectsProofs -----------------------
(***************************************************************************)
(* For any number of ids, manifests, artifacts and requests: an object     *)
(* becomes available with its files in the cache, and applies use the      *)
(* artifacts of the manifest they resolved.                                *)
(*                                                                         *)
(* AvailableIsCached is not inductive.  What a task publishes was counted  *)
(* earlier, file by file, and in between a delete may have emptied the     *)
(* directory, or a second task removed a file it found invalid.            *)
(* ReadyIsCached says when the count can be trusted: while the row the     *)
(* task works for is still there and nothing has swept it.  A removal that *)
(* finds the row gone needs no mark, because its creation time never comes *)
(* back (Dated), and a task alone in its directory removes only what       *)
(* neither it nor anybody else has counted.                                *)
(***************************************************************************)
EXTENDS FirmwareObjects, TLAPS

Catalogs == [state : {"preparing", "ready", "failed"}, manifest : Configs,
             ready : SUBSET Artifacts]

ObjectRows == [hw : HwTypes, is_default : BOOLEAN, available : BOOLEAN,
               config : Configs, parsed : Catalogs, created : Nat]

Files == Configs \X Artifacts

Tasks == [pc : {"none", "run", "publish", "unregister"}, id : Ids \cup {None},
          manifest : Configs \cup {None}, created : Nat,
          artifact : [Artifacts -> {"todo", "temp", "lost", "ready", "failed"}]]

Stored ==
    /\ clock \in Nat
    /\ DOMAIN catalog \subseteq Ids
    /\ \A id \in DOMAIN catalog : catalog[id] \in ObjectRows

Disk == files \in [Ids -> SUBSET Files] /\ swept \subseteq Nat

\* What a request holds, by where it is.
Holds(q, now) ==
    /\ q.pc \in {"default", "register"} => q.id \in Ids /\ q.config \in Configs
    /\ q.pc = "register" => q.row \in Nat /\ q.row <= now
    /\ q.pc \in {"cancel", "row", "dir", "resolve", "jobs", "record"} => q.id \in Ids
    /\ q.pc = "resolve" => q.row \in ObjectRows

Carried == ObjectRows \cup Nat \cup {None}

Points == {"new", "default", "register", "cancel", "row", "dir", "resolve", "jobs",
           "record", "over"}

Calls == [pc : Points, op : {"add", "delete", "apply", None}, id : Ids \cup {None},
          config : Configs \cup {None}, row : Carried,
          uses : SUBSET Files]

ReqOK ==
    /\ req \in [Requests -> Calls]
    /\ \A r \in Requests : Holds(req[r], clock)
    /\ tokens \in [Ids -> Requests \cup {None}]

Works(t) == t.pc # "none" => t.id \in Ids /\ t.manifest \in Configs

TaskOK == task \in [Requests -> Tasks] /\ \A t \in Requests : Works(task[t])

\* Nothing carries a creation time that the store's clock has not reached.
Dated ==
    /\ \A id \in DOMAIN catalog : catalog[id].created <= clock
    /\ \A t \in Requests : task[t].created <= clock

\* What a task has counted as ready is in the cache, unless it was swept.
ReadyIsCached ==
    \A t \in Requests :
        /\ task[t].pc # "none"
        /\ IsCurrent(task[t].id, task[t].created) /\ task[t].created \notin swept
        => \A a \in Artifacts : task[t].artifact[a] = "ready" =>
              <<task[t].manifest, a>> \in files[task[t].id]

IInv == Stored /\ Disk /\ ReqOK /\ TaskOK /\ Dated /\ ReadyIsCached /\ AvailableIsCached

-----------------------------------------------------------------------------
\* What a request may carry from one step to the next.
LEMMA CarriedFits == None \in Carried /\ Nat \subseteq Carried /\ ObjectRows \subseteq Carried
  BY DEF Carried

\* Nothing is stored and nothing runs at first.
LEMMA InitIInv == Init => IInv
  <1> SUFFICES ASSUME Init PROVE IInv
    OBVIOUS
  <1>1. Stored /\ Disk
    BY DEF Init, StoreInit, Stored, Disk
  <1>2. New \in Calls /\ Holds(New, clock)
    BY CarriedFits DEF New, Calls, Points, Holds
  <1>3. ReqOK
    BY <1>2 DEF Init, ReqOK
  <1>4. NoTask \in Tasks /\ NoTask.pc = "none" /\ NoTask.created = 0
    BY DEF NoTask, Tasks
  <1>5. TaskOK /\ Dated /\ ReadyIsCached /\ AvailableIsCached
    BY <1>4 DEF Init, StoreInit, TaskOK, Works, Dated, ReadyIsCached, AvailableIsCached
  <1> QED
    BY <1>1, <1>3, <1>5 DEF IInv

\* A request takes a step of its own.
LEMMA OneRequest ==
    ASSUME ReqOK, clock \in Nat, clock' \in Nat, clock <= clock',
           NEW r \in Requests, NEW q \in Calls, Holds(q, clock'),
           req' = [req EXCEPT ![r] = q],
           tokens' \in [Ids -> Requests \cup {None}]
    PROVE  ReqOK'
  <1>1. req' \in [Requests -> Calls]
    BY DEF ReqOK
  <1>2. ASSUME NEW x \in Requests PROVE Holds(req'[x], clock')
    BY DEF ReqOK, Holds
  <1> QED
    BY <1>1, <1>2 DEF ReqOK

\* A request that has answered holds nothing.
LEMMA AnswerFits == ASSUME NEW now PROVE Over \in Calls /\ Holds(Over, now)
  <1>1. Over = [pc |-> "over", op |-> None, id |-> None, config |-> None, row |-> None,
                uses |-> {}]
    BY DEF Over, New
  <1> QED
    BY <1>1, CarriedFits DEF Calls, Points, Holds

\* A step that leaves rows, files and tasks alone keeps the invariant.
LEMMA OnlyRequests ==
    ASSUME IInv, ReqOK', UNCHANGED <<catalog, clock, task, files, swept>>
    PROVE  IInv'
  BY DEF IInv, Stored, Disk, TaskOK, Dated, ReadyIsCached, AvailableIsCached,
         IsCurrent, Exists

-----------------------------------------------------------------------------
(* The operations of the store.                                            *)

\* A row of which at most the default flag has changed.
Kept(old, row) ==
    /\ row \in ObjectRows /\ row.created = old.created
    /\ row.available = old.available /\ row.parsed = old.parsed

\* A step that only moves defaults keeps the invariant.
LEMMA OnlyDefaults ==
    ASSUME IInv, ReqOK', DOMAIN catalog' = DOMAIN catalog, clock' = clock,
           \A i \in DOMAIN catalog : Kept(catalog[i], catalog'[i]),
           UNCHANGED <<task, files, swept>>
    PROVE  IInv'
  <1>1. Stored' /\ Disk' /\ TaskOK'
    BY DEF IInv, Stored, Disk, TaskOK, Kept
  <1>2. Dated'
    BY DEF IInv, Dated, Kept
  <1>3. ReadyIsCached'
    BY DEF IInv, ReadyIsCached, IsCurrent, Exists, Kept
  <1>4. AvailableIsCached'
    BY DEF IInv, AvailableIsCached, Kept
  <1> QED
    BY <1>1, <1>2, <1>3, <1>4 DEF IInv

\* Writing the flag leaves the rest of the row.
LEMMA FlagKept ==
    ASSUME NEW row \in ObjectRows, NEW d \in BOOLEAN
    PROVE  Kept(row, [row EXCEPT !.is_default = d])
  BY DEF ObjectRows, Kept

\* Both ways to set a default only move defaults.
LEMMA SetDefaultFits ==
    ASSUME Stored, NEW id \in Ids, SetDefault(id) \/ SetDefaultIfNone(id)
    PROVE  /\ id \in DOMAIN catalog /\ DOMAIN catalog' = DOMAIN catalog /\ clock' = clock
           /\ \A i \in DOMAIN catalog : Kept(catalog[i], catalog'[i])
  <1>1. id \in DOMAIN catalog /\ clock' = clock
    BY DEF SetDefault, SetDefaultIfNone, Exists, Update, store
  <1>2. \A i \in DOMAIN catalog : catalog[i] \in ObjectRows /\ Kept(catalog[i], catalog[i])
    BY DEF Stored, Kept
  <1>3. CASE SetDefault(id)
    <2>1. DOMAIN catalog' = DOMAIN catalog
      BY <1>3 DEF SetDefault
    <2>2. ASSUME NEW i \in DOMAIN catalog PROVE Kept(catalog[i], catalog'[i])
      <3>1. CASE catalog[i].hw = catalog[id].hw
        <4>1. catalog'[i] = [catalog[i] EXCEPT !.is_default = (i = id)]
          BY <1>3, <3>1 DEF SetDefault
        <4>2. (i = id) \in BOOLEAN
          OBVIOUS
        <4> QED
          BY Zenon, <4>1, <4>2, <1>2, FlagKept
      <3>2. CASE catalog[i].hw # catalog[id].hw
        BY <1>2, <1>3, <3>2 DEF SetDefault
      <3> QED
        BY <3>1, <3>2
    <2> QED
      BY <1>1, <2>1, <2>2
  <1>4. CASE SetDefaultIfNone(id) /\ Defaults(catalog[id].hw) = {}
    <2>1. catalog' = [catalog EXCEPT ![id] = [catalog[id] EXCEPT !.is_default = TRUE]]
      BY <1>4 DEF SetDefaultIfNone, Update
    <2>2. DOMAIN catalog' = DOMAIN catalog
      BY <2>1
    <2>3. \A i \in DOMAIN catalog : i # id => catalog'[i] = catalog[i]
      BY <2>1
    <2>4. catalog'[id] = [catalog[id] EXCEPT !.is_default = TRUE]
      BY <1>1, <2>1
    <2>5. Kept(catalog[id], catalog'[id])
      BY Zenon, <1>1, <1>2, <2>4, FlagKept
    <2> QED
      BY <1>1, <1>2, <2>2, <2>3, <2>5
  <1>5. CASE SetDefaultIfNone(id) /\ Defaults(catalog[id].hw) # {}
    BY <1>1, <1>2, <1>5 DEF SetDefaultIfNone, store
  <1> QED
    BY <1>3, <1>4, <1>5

\* A row of the given creation time cannot come back.
LEMMA CreateKeeps ==
    ASSUME IInv, ReqOK', NEW id \in Ids, NEW hw \in HwTypes, NEW config \in Configs,
           Create(id, hw, config, Catalog("preparing", config, {})),
           UNCHANGED <<task, files, swept>>
    PROVE  IInv'
  <1>n. clock \in Nat /\ clock' = clock + 1 /\ clock' \in Nat /\ id \notin DOMAIN catalog
    BY DEF IInv, Stored, Create, Exists
  <1>1. /\ DOMAIN catalog' = DOMAIN catalog \cup {id}
        /\ \A i \in DOMAIN catalog : catalog'[i] = catalog[i]
        /\ catalog'[id] = [hw |-> hw, is_default |-> FALSE, available |-> FALSE,
                           config |-> config, parsed |-> Catalog("preparing", config, {}),
                           created |-> clock + 1]
    BY <1>n DEF Create, Exists
  <1>2. /\ catalog'[id] \in ObjectRows /\ ~catalog'[id].available
        /\ catalog'[id].created = clock + 1
    BY <1>1, <1>n DEF ObjectRows, Catalogs, Catalog
  <1>3. Stored'
    BY Zenon, <1>1, <1>2, <1>n DEF IInv, Stored
  <1>4. Disk' /\ TaskOK'
    BY DEF IInv, Disk, TaskOK
  <1>5. Dated'
    <2>1. \A t \in Requests : task[t].created \in Nat /\ task[t].created <= clock
      BY DEF IInv, TaskOK, Tasks, Dated
    <2>2. \A i \in DOMAIN catalog : catalog[i].created \in Nat /\ catalog[i].created <= clock
      BY DEF IInv, Stored, ObjectRows, Dated
    <2> QED
      BY <2>1, <2>2, <1>1, <1>2, <1>n DEF Dated
  <1>6. ReadyIsCached'
    <2>1. ASSUME NEW t \in Requests, IsCurrent(task[t].id, task[t].created)'
          PROVE  IsCurrent(task[t].id, task[t].created)
      <3>1. task[t].created \in Nat /\ task[t].created <= clock
        BY DEF IInv, TaskOK, Tasks, Dated
      <3> QED
        BY <2>1, <3>1, <1>1, <1>2, <1>n DEF IsCurrent, Exists
    <2> QED
      BY <2>1 DEF IInv, ReadyIsCached
  <1>7. AvailableIsCached'
    BY <1>1, <1>2 DEF IInv, AvailableIsCached
  <1> QED
    BY <1>3, <1>4, <1>5, <1>6, <1>7 DEF IInv

\* A deleted row takes its claims with it.
LEMMA DeleteKeeps ==
    ASSUME IInv, ReqOK', NEW id \in Ids, Delete(id), UNCHANGED <<task, files, swept>>
    PROVE  IInv'
  <1>1. /\ DOMAIN catalog' = DOMAIN catalog \ {id} /\ clock' = clock
        /\ \A i \in DOMAIN catalog' : catalog'[i] = catalog[i]
    BY DEF Delete
  <1>2. Stored' /\ Disk' /\ TaskOK' /\ Dated'
    BY <1>1 DEF IInv, Stored, Disk, TaskOK, Dated
  <1>3. ReadyIsCached'
    BY <1>1 DEF IInv, ReadyIsCached, IsCurrent, Exists
  <1>4. AvailableIsCached'
    BY <1>1 DEF IInv, AvailableIsCached
  <1> QED
    BY <1>2, <1>3, <1>4 DEF IInv

-----------------------------------------------------------------------------
(* The requests.                                                           *)

\* A request that answers leaves no trace of itself.
LEMMA AnswerKeeps ==
    ASSUME IInv, NEW r \in Requests, Answer(r), clock' = clock, tokens' = tokens
    PROVE  ReqOK'
  <1>1. Over \in Calls /\ Holds(Over, clock') /\ clock \in Nat
    BY AnswerFits DEF IInv, Stored
  <1> QED
    BY <1>1, OneRequest DEF IInv, ReqOK, Answer

\* A refused store operation ends the request.
LEMMA StoreErrorKeeps ==
    ASSUME IInv, NEW r \in Requests, StoreError(r)
    PROVE  IInv'
  BY AnswerKeeps, OnlyRequests DEF StoreError, store, disk

\* An add inserts its row, not available.
LEMMA AddCreateKeeps ==
    ASSUME IInv, NEW r \in Requests, AddCreate(r)
    PROVE  IInv'
  <1> PICK id \in Ids, hw \in HwTypes, config \in Configs :
         /\ Create(id, hw, config, Catalog("preparing", config, {}))
         /\ req' = [req EXCEPT ![r] = [New EXCEPT !.pc = "default", !.op = "add",
                                                  !.id = id, !.config = config]]
    BY Zenon DEF AddCreate
  <1> DEFINE q == [New EXCEPT !.pc = "default", !.op = "add", !.id = id, !.config = config]
  <1>1. clock \in Nat /\ clock' \in Nat /\ clock <= clock'
    BY DEF IInv, Stored, Create
  <1>2. q \in Calls /\ Holds(q, clock')
    BY Zenon, CarriedFits DEF New, Calls, Points, Holds
  <1>3. tokens' \in [Ids -> Requests \cup {None}]
    BY DEF IInv, ReqOK, AddCreate
  <1> HIDE DEF q
  <1>4. ReqOK'
    BY Zenon, <1>1, <1>2, <1>3, OneRequest DEF IInv, q
  <1> QED
    BY <1>4, CreateKeeps DEF AddCreate, disk

\* The row's creation time is one the clock has reached.
LEMMA AddDefaultKeeps ==
    ASSUME IInv, NEW r \in Requests, AddDefault(r)
    PROVE  IInv'
  <1> DEFINE id == req[r].id
             q == [req[r] EXCEPT !.pc = "register", !.row = catalog'[id].created]
  <1>1. CASE StoreError(r)
    BY <1>1, StoreErrorKeeps
  <1>2. CASE ~StoreError(r)
    <2>1. /\ req[r].pc = "default" /\ (SetDefault(id) \/ SetDefaultIfNone(id))
          /\ req' = [req EXCEPT ![r].pc = "register", ![r].row = catalog'[id].created]
          /\ UNCHANGED <<tokens, cancelled, task, disk>>
      BY <1>2 DEF AddDefault
    <2>2. id \in Ids /\ req[r] \in Calls /\ req[r].config \in Configs /\ Stored
      BY <2>1 DEF IInv, ReqOK, Holds
    <2>3. /\ id \in DOMAIN catalog /\ DOMAIN catalog' = DOMAIN catalog /\ clock' = clock
          /\ \A i \in DOMAIN catalog : Kept(catalog[i], catalog'[i])
      BY <2>1, <2>2, SetDefaultFits
    <2>4. catalog'[id].created \in Nat /\ catalog'[id].created <= clock /\ clock \in Nat
      BY <2>2, <2>3 DEF IInv, Dated, Kept, ObjectRows, Stored
    <2>5. q \in Calls /\ q.pc = "register" /\ q.id = id /\ q.config = req[r].config
          /\ q.row = catalog'[id].created
      BY Zenon, <2>2, <2>4, CarriedFits DEF Calls, Points
    <2>6. req' = [req EXCEPT ![r] = q]
      BY Zenon, <2>1
    <2> HIDE DEF q
    <2>7. Holds(q, clock')
      BY <2>2, <2>3, <2>4, <2>5 DEF Holds
    <2>8. ReqOK'
      BY <2>1, <2>3, <2>4, <2>5, <2>6, <2>7, OneRequest DEF IInv, ReqOK
    <2> QED
      BY <2>1, <2>3, <2>8, OnlyDefaults DEF disk
  <1> QED
    BY <1>1, <1>2

\* A task starts with nothing counted.
LEMMA AddRegisterKeeps ==
    ASSUME IInv, NEW r \in Requests, AddRegister(r)
    PROVE  IInv'
  <1> DEFINE q == req[r]
             t == [NoTask EXCEPT !.pc = "run", !.id = q.id, !.manifest = q.config,
                                 !.created = q.row]
  <1>1. /\ q.id \in Ids /\ q.config \in Configs /\ q.row \in Nat /\ q.row <= clock
        /\ UNCHANGED <<catalog, clock, files, swept>>
    BY DEF AddRegister, IInv, ReqOK, Holds, store, disk
  <1>2. t \in Tasks /\ t.pc = "run" /\ t.id = q.id /\ t.manifest = q.config /\ t.created = q.row
        /\ \A a \in Artifacts : t.artifact[a] = "todo"
    BY Zenon, <1>1 DEF NoTask, Tasks
  <1>3. task' = [task EXCEPT ![r] = t]
    BY DEF AddRegister
  <1> HIDE DEF t
  <1>4. tokens' \in [Ids -> Requests \cup {None}]
    BY Zenon DEF IInv, ReqOK, AddRegister
  <1>5. ReqOK'
    <2>1. Over \in Calls /\ Holds(Over, clock') /\ clock \in Nat
      BY AnswerFits DEF IInv, Stored
    <2>2. req' = [req EXCEPT ![r] = Over]
      BY DEF AddRegister, Answer
    <2>3. ReqOK /\ clock' \in Nat /\ clock <= clock'
      BY <2>1, <1>1 DEF IInv
    <2> QED
      BY Zenon, <2>1, <2>2, <2>3, <1>4, OneRequest
  <1>6. TaskOK'
    BY <1>1, <1>2, <1>3 DEF IInv, TaskOK, Works
  <1>7. Dated'
    BY <1>1, <1>2, <1>3 DEF IInv, Dated, TaskOK
  <1>8. ReadyIsCached'
    BY <1>1, <1>2, <1>3 DEF IInv, ReadyIsCached, TaskOK, IsCurrent, Exists
  <1> QED
    BY <1>1, <1>5, <1>6, <1>7, <1>8 DEF IInv, Stored, Disk, AvailableIsCached

\* A request that moves on, with what it holds.
LEMMA RequestMoves ==
    ASSUME IInv, NEW r \in Requests, NEW q \in Calls, Holds(q, clock),
           req' = [req EXCEPT ![r] = q], tokens' \in [Ids -> Requests \cup {None}],
           UNCHANGED <<catalog, clock, task, files, swept>>
    PROVE  IInv'
  <1>1. ReqOK /\ clock \in Nat /\ clock' \in Nat /\ clock <= clock' /\ Holds(q, clock')
    BY DEF IInv, Stored
  <1>2. ReqOK'
    BY Zenon, <1>1, OneRequest
  <1> QED
    BY <1>2, OnlyRequests

\* The steps of a delete and of an apply that only move on.
LEMMA StepFits ==
    ASSUME IInv, NEW r \in Requests, NEW pc \in {"row", "dir", "record"},
           req[r].pc \in {"cancel", "row", "jobs"}
    PROVE  /\ [req[r] EXCEPT !.pc = pc] \in Calls
           /\ Holds([req[r] EXCEPT !.pc = pc], clock)
  <1>1. req[r] \in Calls /\ req[r].id \in Ids
    BY DEF IInv, ReqOK, Holds
  <1> QED
    BY <1>1 DEF Calls, Points, Holds

\* A delete takes the token it finds.
LEMMA DeleteTakeKeeps ==
    ASSUME IInv, NEW r \in Requests, DeleteTake(r)
    PROVE  IInv'
  <1> PICK id \in Ids :
         /\ req' = [req EXCEPT ![r] = [New EXCEPT !.pc = "cancel", !.op = "delete",
                                                  !.id = id, !.row = tokens[id]]]
         /\ tokens' = [tokens EXCEPT ![id] = None]
    BY Zenon DEF DeleteTake
  <1> DEFINE q == [New EXCEPT !.pc = "cancel", !.op = "delete", !.id = id, !.row = tokens[id]]
  <1>1. tokens[id] \in Carried /\ tokens' \in [Ids -> Requests \cup {None}]
    <2>1. tokens \in [Ids -> Requests \cup {None}] /\ Requests \subseteq Nat
      BY DEF IInv, ReqOK, Requests
    <2> QED
      BY <2>1, CarriedFits
  <1>2. q \in Calls /\ Holds(q, clock)
    BY Zenon, <1>1, CarriedFits DEF New, Calls, Points, Holds
  <1>3. req' = [req EXCEPT ![r] = q]
    OBVIOUS
  <1> HIDE DEF q
  <1> QED
    BY Zenon, <1>1, <1>2, <1>3, RequestMoves DEF DeleteTake, store, disk

\* It cancels the task of that token.
LEMMA DeleteCancelKeeps ==
    ASSUME IInv, NEW r \in Requests, DeleteCancel(r)
    PROVE  IInv'
  <1> DEFINE q == [req[r] EXCEPT !.pc = "row"]
  <1>1. q \in Calls /\ Holds(q, clock)
    BY Zenon, StepFits DEF DeleteCancel
  <1>2. req' = [req EXCEPT ![r] = q] /\ tokens' \in [Ids -> Requests \cup {None}]
    BY DEF DeleteCancel, Step, IInv, ReqOK
  <1> HIDE DEF q
  <1> QED
    BY Zenon, <1>1, <1>2, RequestMoves DEF DeleteCancel, store, disk

\* It removes the row.
LEMMA DeleteRowKeeps ==
    ASSUME IInv, NEW r \in Requests, DeleteRow(r)
    PROVE  IInv'
  <1>1. CASE StoreError(r)
    BY <1>1, StoreErrorKeeps
  <1>2. CASE Delete(req[r].id) /\ Step(r, "dir") /\ UNCHANGED <<tokens, cancelled, task, disk>>
    <2> DEFINE q == [req[r] EXCEPT !.pc = "dir"]
    <2>0. req[r].pc = "row"
      BY DEF DeleteRow
    <2>1. q \in Calls /\ Holds(q, clock) /\ req[r].id \in Ids
      <3>1. req[r].id \in Ids
        BY <2>0 DEF IInv, ReqOK, Holds
      <3> QED
        BY Zenon, <2>0, <3>1, StepFits
    <2>2. req' = [req EXCEPT ![r] = q]
      BY <1>2 DEF Step
    <2> HIDE DEF q
    <2>3. ReqOK /\ clock' = clock /\ clock \in Nat /\ tokens' \in [Ids -> Requests \cup {None}]
      BY <1>2 DEF IInv, Stored, ReqOK, Delete
    <2>4. clock' \in Nat /\ clock <= clock' /\ Holds(q, clock')
      BY <2>1, <2>3
    <2>5. ReqOK'
      BY Zenon, <2>1, <2>2, <2>3, <2>4, OneRequest
    <2> QED
      BY <1>2, <2>1, <2>5, DeleteKeeps DEF disk
  <1> QED
    BY <1>1, <1>2 DEF DeleteRow

\* An incarnation whose directory is removed under it is marked as swept.
LEMMA DeleteDirKeeps ==
    ASSUME IInv, NEW r \in Requests, DeleteDir(r)
    PROVE  IInv'
  <1> DEFINE id == req[r].id
  <1>1. id \in Ids /\ UNCHANGED <<catalog, clock, tokens>>
    BY DEF IInv, ReqOK, Holds, DeleteDir, store
  <1>2. ReqOK'
    BY <1>1, AnswerKeeps DEF DeleteDir
  <1>3. CASE UNCHANGED <<disk, task>>
    BY <1>1, <1>2, <1>3, OnlyRequests DEF disk
  <1>4. CASE ~UNCHANGED <<disk, task>>
    <2>1. /\ files' = [files EXCEPT ![id] = {}]
          /\ swept' = swept \cup IF Exists(id) THEN {catalog[id].created} ELSE {}
          /\ task' = [t \in Requests |->
                        IF task[t].id = id
                        THEN [task[t] EXCEPT !.artifact = [a \in Artifacts |->
                                 IF @[a] = "temp" THEN "lost" ELSE @[a]]]
                        ELSE task[t]]
      BY <1>4 DEF DeleteDir
    <2>2. ASSUME NEW t \in Requests
          PROVE  /\ task'[t] \in Tasks /\ task'[t].pc = task[t].pc /\ task'[t].id = task[t].id
                 /\ task'[t].manifest = task[t].manifest /\ task'[t].created = task[t].created
                 /\ \A a \in Artifacts :
                       task'[t].artifact[a] = "ready" => task[t].artifact[a] = "ready"
      <3>1. task[t] \in Tasks
        BY DEF IInv, TaskOK
      <3>2. CASE task[t].id # id
        BY <3>1, <3>2, <2>1
      <3>3. CASE task[t].id = id
        <4> DEFINE A == [a \in Artifacts |->
                            IF task[t].artifact[a] = "temp" THEN "lost" ELSE task[t].artifact[a]]
        <4>1. task'[t] = [task[t] EXCEPT !.artifact = A]
          BY <3>3, <2>1
        <4>2. A \in [Artifacts -> {"todo", "temp", "lost", "ready", "failed"}]
              /\ \A a \in Artifacts : A[a] = "ready" => task[t].artifact[a] = "ready"
          BY <3>1 DEF Tasks
        <4> HIDE DEF A
        <4> QED
          BY <3>1, <4>1, <4>2 DEF Tasks
      <3> QED
        BY <3>2, <3>3
    <2>3. TaskOK' /\ Stored'
      <3>1. task' \in [Requests -> Tasks]
        BY <2>1, <2>2
      <3> QED
        BY <3>1, <2>2, <1>1 DEF IInv, TaskOK, Works, Stored
    <2>4. Dated'
      BY <2>2, <1>1 DEF IInv, Dated
    <2>5. Disk'
      BY <1>1, <2>1 DEF IInv, Disk, Stored, ObjectRows, Exists
    <2>6. ReadyIsCached'
      BY <1>1, <2>1, <2>2
      DEF IInv, ReadyIsCached, IsCurrent, Exists, Disk, TaskOK, Works
    <2>7. AvailableIsCached'
      BY <1>1, <2>1 DEF IInv, AvailableIsCached, Exists, Disk, Stored
    <2> QED
      BY <1>2, <2>3, <2>4, <2>5, <2>6, <2>7 DEF IInv
  <1> QED
    BY <1>3, <1>4

\* An apply changes no row and no file.
LEMMA ApplyKeeps ==
    ASSUME IInv, NEW r \in Requests,
           ApplyLookup(r) \/ ApplyResolve(r) \/ ApplyJobs(r) \/ ApplyRecord(r)
    PROVE  IInv'
  <1>t. ReqOK /\ req[r] \in Calls /\ clock \in Nat
    BY DEF IInv, ReqOK, Stored
  <1>a. ASSUME Answer(r), UNCHANGED <<catalog, clock, tokens, task, files, swept>>
        PROVE  IInv'
    BY <1>a, AnswerKeeps, OnlyRequests
  <1>1. CASE ApplyLookup(r)
    <2> PICK id \in Ids :
           /\ Exists(id)
           /\ req' = [req EXCEPT ![r] = [New EXCEPT !.pc = "resolve", !.op = "apply",
                                                    !.id = id, !.row = catalog[id]]]
      BY Zenon, <1>1 DEF ApplyLookup
    <2> DEFINE q == [New EXCEPT !.pc = "resolve", !.op = "apply", !.id = id, !.row = catalog[id]]
    <2>1. catalog[id] \in ObjectRows /\ catalog[id] \in Carried
      BY CarriedFits DEF Exists, IInv, Stored
    <2>2. q \in Calls /\ Holds(q, clock)
      BY Zenon, <2>1, CarriedFits DEF New, Calls, Points, Holds
    <2>3. req' = [req EXCEPT ![r] = q]
      OBVIOUS
    <2>4. UNCHANGED <<catalog, clock, tokens, task, files, swept>>
      BY Zenon, <1>1 DEF ApplyLookup, store, disk
    <2> HIDE DEF q
    <2> QED
      BY Zenon, <1>t, <2>2, <2>3, <2>4, RequestMoves DEF ReqOK
  <1>2. CASE ApplyResolve(r)
    <2>1. req[r].pc = "resolve" /\ UNCHANGED <<catalog, clock, tokens, task, files, swept>>
      BY <1>2 DEF ApplyResolve, store, disk
    <2>2. req[r].row \in ObjectRows /\ req[r].id \in Ids
      BY <2>1, <1>t DEF ReqOK, Holds
    <2>3. CASE Answer(r)
      BY <1>a, <2>1, <2>3
    <2>4. CASE ~Answer(r)
      <3> PICK selected \in SUBSET Artifacts :
             req' = [req EXCEPT ![r].pc = "jobs", ![r].uses = {req[r].row.config} \X selected]
        BY <1>2, <2>4 DEF ApplyResolve
      <3> DEFINE uses == {req[r].row.config} \X selected
                 q == [req[r] EXCEPT !.pc = "jobs", !.uses = uses]
      <3>1. uses \in SUBSET Files
        BY <2>2 DEF ObjectRows, Files
      <3>2. req' = [req EXCEPT ![r] = q]
        OBVIOUS
      <3> HIDE DEF uses
      <3>3. q \in Calls /\ Holds(q, clock)
        BY Zenon, <1>t, <2>2, <3>1 DEF Calls, Points, Holds
      <3> HIDE DEF q
      <3> QED
        BY Zenon, <1>t, <2>1, <3>2, <3>3, RequestMoves DEF ReqOK
    <2> QED
      BY <2>3, <2>4
  <1>3. CASE ApplyJobs(r)
    <2>1. req[r].pc = "jobs" /\ UNCHANGED <<catalog, clock, tokens, task, files, swept>>
      BY <1>3 DEF ApplyJobs, store, disk
    <2>2. CASE Answer(r)
      BY <1>a, <2>1, <2>2
    <2>3. CASE Step(r, "record")
      <3> DEFINE q == [req[r] EXCEPT !.pc = "record"]
      <3>1. q \in Calls /\ Holds(q, clock)
        BY Zenon, <2>1, StepFits
      <3>2. req' = [req EXCEPT ![r] = q]
        BY <2>3 DEF Step
      <3> HIDE DEF q
      <3> QED
        BY Zenon, <1>t, <2>1, <3>1, <3>2, RequestMoves DEF ReqOK
    <2> QED
      BY <1>3, <2>2, <2>3 DEF ApplyJobs
  <1>4. CASE ApplyRecord(r)
    <2>1. Answer(r) /\ UNCHANGED <<catalog, clock, tokens, task, files, swept>>
      BY <1>4 DEF ApplyRecord, RecordApplyForIncarnation, RecordApply, store, disk
    <2> QED
      BY <1>a, <2>1
  <1> QED
    BY <1>1, <1>2, <1>3, <1>4

\* A request that sets a default.
LEMMA SetDefaultObjectKeeps ==
    ASSUME IInv, NEW r \in Requests, SetDefaultObject(r)
    PROVE  IInv'
  <1> PICK id \in Ids : SetDefault(id)
    BY DEF SetDefaultObject
  <1>1. /\ DOMAIN catalog' = DOMAIN catalog /\ clock' = clock
        /\ \A i \in DOMAIN catalog : Kept(catalog[i], catalog'[i])
    BY SetDefaultFits DEF IInv
  <1>2. ReqOK'
    BY <1>1, AnswerKeeps DEF SetDefaultObject
  <1> QED
    BY <1>1, <1>2, OnlyDefaults DEF SetDefaultObject, disk

-----------------------------------------------------------------------------
(* The preparation tasks.                                                  *)

\* A step of one task that does not change the rows and takes no file away.
LEMMA OneTask ==
    ASSUME IInv, NEW t \in Requests, NEW new \in Tasks, Works(new),
           task' = [task EXCEPT ![t] = new],
           new.pc # "none" => /\ task[t].pc # "none" /\ new.id = task[t].id
                              /\ new.manifest = task[t].manifest,
           new.created = task[t].created \/ new.created = 0,
           UNCHANGED <<catalog, clock, req, swept>>,
           tokens' \in [Ids -> Requests \cup {None}],
           files' \in [Ids -> SUBSET Files], \A id \in Ids : files[id] \subseteq files'[id],
           \A a \in Artifacts :
              new.pc # "none" /\ new.artifact[a] = "ready" =>
                  \/ task[t].artifact[a] = "ready" /\ new.created = task[t].created
                  \/ <<new.manifest, a>> \in files'[new.id]
    PROVE  IInv'
  <1>1. Stored' /\ ReqOK' /\ Disk'
    BY DEF IInv, Stored, ReqOK, Disk
  <1>2. TaskOK'
    BY DEF IInv, TaskOK
  <1>3. Dated'
    BY DEF IInv, Dated, TaskOK, Tasks, Stored
  <1>4. ReadyIsCached'
    <2> SUFFICES ASSUME NEW x \in Requests, task'[x].pc # "none",
                        IsCurrent(task[x].id, task[x].created)', task'[x].created \notin swept',
                        NEW a \in Artifacts, task'[x].artifact[a] = "ready"
                 PROVE  <<task'[x].manifest, a>> \in files'[task'[x].id]
      BY DEF ReadyIsCached
    <2>1. CASE x # t
      <3>1. task'[x] = task[x] /\ task[x].id \in Ids
        BY <2>1 DEF IInv, TaskOK, Works
      <3>2. <<task[x].manifest, a>> \in files[task[x].id]
        BY <3>1 DEF IInv, ReadyIsCached, IsCurrent, Exists
      <3> QED
        BY <3>1, <3>2
    <2>2. CASE x = t
      <3>1. task'[x] = new /\ new.id \in Ids
        BY <2>2 DEF IInv, TaskOK, Works
      <3>2. CASE task[t].artifact[a] = "ready" /\ new.created = task[t].created
        <4>1. <<task[t].manifest, a>> \in files[task[t].id]
          BY <3>1, <3>2 DEF IInv, ReadyIsCached, IsCurrent, Exists
        <4> QED
          BY <3>1, <4>1
      <3> QED
        BY <3>1, <3>2
    <2> QED
      BY <2>1, <2>2
  <1>5. AvailableIsCached'
    BY DEF IInv, AvailableIsCached, Stored
  <1> QED
    BY <1>1, <1>2, <1>3, <1>4, <1>5 DEF IInv

\* One artifact of a running task: what became ready is in the directory.
LEMMA ArtifactKeeps ==
    ASSUME IInv, NEW t \in Requests, NEW a \in Artifacts,
           Reuse(t, a) \/ Receive(t, a) \/ Persist(t, a) \/ DownloadFails(t, a)
    PROVE  IInv'
  <1> DEFINE m == task[t].manifest
             id == task[t].id
  <1>t. /\ task[t] \in Tasks /\ task[t].pc = "run" /\ id \in Ids /\ m \in Configs
        /\ files \in [Ids -> SUBSET Files]
    BY DEF IInv, TaskOK, Works, Disk, Reuse, Receive, Persist, DownloadFails,
           Downloading
  <1>1. PICK to \in {"ready", "temp", "failed"} :
           /\ Outcome(t, a, to) /\ swept' = swept
           /\ to = "ready" => <<m, a>> \in files'[id]
           /\ files' = files \/ files' = [files EXCEPT ![id] = @ \cup {<<m, a>>}]
    <2>1. CASE Reuse(t, a)
      <3>1. Outcome(t, a, "ready") /\ swept' = swept /\ files' = files /\ <<m, a>> \in files[id]
        BY <2>1 DEF Reuse, disk
      <3> QED
        BY <3>1
    <2>2. CASE Receive(t, a)
      <3>1. Outcome(t, a, "temp") /\ swept' = swept /\ files' = files
        BY <2>2 DEF Receive, disk
      <3> QED
        BY <3>1
    <2>3. CASE Persist(t, a)
      <3>1. /\ files' = [files EXCEPT ![id] = @ \cup {<<m, a>>}] /\ swept' = swept
            /\ Outcome(t, a, IF t \in cancelled THEN "failed" ELSE "ready")
        BY <2>3 DEF Persist
      <3>2. <<m, a>> \in files'[id]
        BY <1>t, <3>1
      <3> QED
        BY <3>1, <3>2
    <2>4. CASE DownloadFails(t, a)
      <3>1. Outcome(t, a, "failed") /\ swept' = swept /\ files' = files
        BY <2>4 DEF DownloadFails, disk
      <3> QED
        BY <3>1
    <2> QED
      BY <2>1, <2>2, <2>3, <2>4
  <1>2. <<m, a>> \in Files
    BY <1>t DEF Files
  <1>3. files' \in [Ids -> SUBSET Files] /\ \A i \in Ids : files[i] \subseteq files'[i]
    BY <1>1, <1>2, <1>t
  <1> DEFINE new == [task[t] EXCEPT !.artifact[a] = to]
  <1>4. task' = [task EXCEPT ![t] = new]
    BY <1>1 DEF Outcome
  <1>5. /\ new \in Tasks /\ new.pc = task[t].pc /\ new.id = id /\ new.manifest = m
        /\ new.created = task[t].created /\ new.artifact = [task[t].artifact EXCEPT ![a] = to]
    BY <1>t DEF Tasks
  <1> HIDE DEF new
  <1>6. Works(new)
    BY <1>t, <1>5 DEF Works
  <1>7. /\ tokens' \in [Ids -> Requests \cup {None}] /\ UNCHANGED <<catalog, clock, req, swept>>
    BY <1>1 DEF IInv, ReqOK, Outcome, store
  <1>8. \A b \in Artifacts :
           new.artifact[b] = "ready" =>
              task[t].artifact[b] = "ready" \/ <<new.manifest, b>> \in files'[new.id]
    BY <1>1, <1>5, <1>t DEF Tasks
  <1> QED
    BY Zenon, <1>t, <1>3, <1>4, <1>5, <1>6, <1>7, <1>8, OneTask

\* A file that is thrown away was counted by nobody, or its row is swept.
LEMMA DiscardKeeps ==
    ASSUME IInv, NEW t \in Requests, NEW a \in Artifacts, Discard(t, a)
    PROVE  IInv'
  <1> DEFINE m == task[t].manifest
             id == task[t].id
  <1>1. /\ task[t].artifact[a] = "todo" /\ id \in Ids /\ files \in [Ids -> SUBSET Files]
        /\ files' = [files EXCEPT ![id] = @ \ {<<m, a>>}]
        /\ UNCHANGED <<catalog, clock, req, task, tokens>>
    BY DEF Discard, Downloading, IInv, TaskOK, Works, Disk, store
  <1>2. /\ swept \subseteq swept'
        /\ Exists(id) /\ ~Alone(t) => catalog[id].created \in swept'
    BY DEF Discard
  <1>3. Stored' /\ ReqOK' /\ TaskOK' /\ Dated'
    BY <1>1 DEF IInv, Stored, ReqOK, TaskOK, Dated
  <1>4. Disk'
    <2>1. swept' \subseteq Nat
      BY Zenon DEF Discard, IInv, Disk, Stored, ObjectRows, Exists
    <2> QED
      BY <1>1, <2>1 DEF Disk
  <1>5. ReadyIsCached'
    <2> SUFFICES ASSUME NEW x \in Requests, task[x].pc # "none",
                        IsCurrent(task[x].id, task[x].created), task[x].created \notin swept',
                        NEW b \in Artifacts, task[x].artifact[b] = "ready"
                 PROVE  <<task[x].manifest, b>> \in files'[task[x].id]
      BY <1>1 DEF ReadyIsCached, IsCurrent, Exists
    <2>1. <<task[x].manifest, b>> \in files[task[x].id] /\ task[x].id \in Ids
      BY <1>2 DEF IInv, ReadyIsCached, TaskOK, Works
    <2>2. CASE x = t
      BY <1>1, <2>1, <2>2
    <2>3. CASE x # t /\ task[x].id = id
      BY <1>2, <2>3 DEF Alone, IsCurrent
    <2>4. CASE task[x].id # id
      BY <1>1, <2>1, <2>4
    <2> QED
      BY <2>2, <2>3, <2>4
  <1>6. AvailableIsCached'
    <2>1. \A i \in DOMAIN catalog : catalog[i].available /\ catalog[i].created \notin swept' => i # id
      BY <1>2 DEF Alone, Exists
    <2>2. \A i \in DOMAIN catalog : i # id => files'[i] = files[i]
      BY <1>1 DEF IInv, Stored
    <2> QED
      BY <1>1, <1>2, <2>1, <2>2 DEF IInv, AvailableIsCached
  <1> QED
    BY <1>3, <1>4, <1>5, <1>6 DEF IInv

\* The last artifact is done: what was counted stays as it was.
LEMMA MaterializedKeeps ==
    ASSUME IInv, NEW t \in Requests, Materialized(t)
    PROVE  IInv'
  <1> DEFINE pc == IF t \in cancelled THEN "unregister" ELSE "publish"
             new == [task[t] EXCEPT !.pc = pc]
  <1>1. task[t] \in Tasks /\ task[t].pc = "run" /\ Works(task[t]) /\ pc \in {"unregister", "publish"}
    BY DEF IInv, TaskOK, Materialized
  <1>2. task' = [task EXCEPT ![t] = new] /\ UNCHANGED <<catalog, clock, req, tokens, files, swept>>
    BY DEF Materialized, store, disk
  <1> HIDE DEF pc
  <1>3. /\ new \in Tasks /\ new.pc # "none" /\ new.id = task[t].id /\ new.artifact = task[t].artifact
        /\ new.manifest = task[t].manifest /\ new.created = task[t].created
    BY <1>1 DEF Tasks
  <1> HIDE DEF new
  <1>4. Works(new) /\ tokens \in [Ids -> Requests \cup {None}] /\ files \in [Ids -> SUBSET Files]
    BY <1>1, <1>3 DEF Works, IInv, ReqOK, Disk
  <1> QED
    BY Zenon, <1>1, <1>2, <1>3, <1>4, OneTask

\* A task that has ended counts nothing.
LEMMA UnregisterKeeps ==
    ASSUME IInv, NEW t \in Requests, Unregister(t)
    PROVE  IInv'
  <1>1. /\ NoTask \in Tasks /\ NoTask.pc = "none" /\ NoTask.created = 0 /\ Works(NoTask)
    BY DEF NoTask, Tasks, Works
  <1>2. task' = [task EXCEPT ![t] = NoTask] /\ UNCHANGED <<catalog, clock, req, files, swept>>
    BY DEF Unregister, store, disk
  <1>3. tokens' \in [Ids -> Requests \cup {None}] /\ files \in [Ids -> SUBSET Files]
    BY Zenon DEF Unregister, IInv, ReqOK, Disk
  <1> QED
    BY Zenon, <1>1, <1>2, <1>3, OneTask

\* The catalog that is published lists files that are there: the row is still
\* the one the task works for.
LEMMA PublishKeeps ==
    ASSUME IInv, NEW t \in Requests, Publish(t)
    PROVE  IInv'
  <1> DEFINE id == task[t].id
             m == task[t].manifest
             new == [task[t] EXCEPT !.pc = "unregister"]
  <1>1. /\ task[t] \in Tasks /\ task[t].pc = "publish" /\ Works(task[t])
        /\ id \in Ids /\ m \in Configs
    BY DEF IInv, TaskOK, Publish, Works
  <1>2. task' = [task EXCEPT ![t] = new] /\ UNCHANGED <<req, tokens, files, swept>>
    BY DEF Publish, disk
  <1>3. /\ new \in Tasks /\ new.pc # "none" /\ new.id = id /\ new.artifact = task[t].artifact
        /\ new.manifest = m /\ new.created = task[t].created
    BY <1>1 DEF Tasks
  <1> HIDE DEF new
  <1>4. Works(new) /\ tokens \in [Ids -> Requests \cup {None}] /\ files \in [Ids -> SUBSET Files]
    BY <1>1, <1>3 DEF Works, IInv, ReqOK, Disk
  <1>5. CASE UNCHANGED store
    BY Zenon, <1>1, <1>2, <1>3, <1>4, <1>5, OneTask DEF store
  <1>6. CASE FinishPreparation(id, task[t].created, Preparation(t), Prepared(t))
    <2> DEFINE parsed == Preparation(t)
               row == [catalog[id] EXCEPT !.parsed = parsed, !.available = Prepared(t)]
    <2>1. /\ id \in DOMAIN catalog /\ catalog[id].created = task[t].created
          /\ catalog' = [catalog EXCEPT ![id] = row] /\ clock' = clock
      BY <1>6 DEF FinishPreparation, IsCurrent, Exists, Update
    <2>2. /\ parsed \in Catalogs /\ parsed.manifest = m /\ Prepared(t) \in BOOLEAN
          /\ Prepared(t) => /\ parsed.state = "ready" /\ parsed.ready = Ready(t)
                            /\ Required[m] \subseteq Ready(t)
      BY <1>1 DEF Preparation, Catalog, Catalogs, Prepared, Ready
    <2> HIDE DEF parsed
    <2>3. catalog[id] \in ObjectRows
      BY <2>1 DEF IInv, Stored
    <2>4. /\ row \in ObjectRows /\ row.created = catalog[id].created
          /\ row.parsed = parsed /\ row.available = Prepared(t)
      BY Zenon, <2>2, <2>3 DEF ObjectRows
    <2> HIDE DEF row
    <2>5. /\ DOMAIN catalog' = DOMAIN catalog /\ catalog'[id] = row
          /\ \A i \in DOMAIN catalog : i # id => catalog'[i] = catalog[i]
      BY <2>1
    <2>6. Stored' /\ Disk' /\ ReqOK'
      BY <1>2, <2>1, <2>4, <2>5 DEF IInv, Stored, Disk, ReqOK
    <2>7. TaskOK'
      BY <1>2, <1>3, <1>4 DEF IInv, TaskOK
    <2>8. Dated'
      BY <1>2, <1>3, <2>1, <2>4, <2>5 DEF IInv, Dated, TaskOK
    <2>9. ReadyIsCached'
      <3>1. \A i \in DOMAIN catalog : catalog'[i].created = catalog[i].created
        BY <2>4, <2>5
      <3>2. \A x \in Requests :
               /\ task'[x].id = task[x].id /\ task'[x].created = task[x].created
               /\ task'[x].manifest = task[x].manifest /\ task'[x].artifact = task[x].artifact
               /\ task'[x].pc # "none" => task[x].pc # "none"
        BY <1>1, <1>2, <1>3 DEF IInv, TaskOK
      <3> QED
        BY <1>2, <2>5, <3>1, <3>2 DEF IInv, ReadyIsCached, IsCurrent, Exists
    <2>10. ASSUME Prepared(t), row.created \notin swept
           PROVE  {m} \X Ready(t) \subseteq files[id]
      BY <1>1, <2>1, <2>4, <2>10 DEF IInv, ReadyIsCached, IsCurrent, Exists, Ready
    <2>11. AvailableIsCached'
      <3> SUFFICES ASSUME NEW i \in DOMAIN catalog, catalog'[i].available,
                          catalog'[i].created \notin swept
                   PROVE  /\ catalog'[i].parsed.state = "ready"
                          /\ Required[catalog'[i].parsed.manifest] \subseteq catalog'[i].parsed.ready
                          /\ {catalog'[i].parsed.manifest} \X catalog'[i].parsed.ready \subseteq files[i]
        BY <1>2, <2>5 DEF AvailableIsCached
      <3>1. CASE i = id
        BY <3>1, <2>2, <2>4, <2>5, <2>10
      <3>2. CASE i # id
        BY <3>2, <2>5 DEF IInv, AvailableIsCached
      <3> QED
        BY <3>1, <3>2
    <2> QED
      BY <2>6, <2>7, <2>8, <2>9, <2>11 DEF IInv
  <1> QED
    BY <1>5, <1>6 DEF Publish

\* A restart forgets requests and tasks, and keeps rows and files.
LEMMA RestartKeeps ==
    ASSUME IInv, Restart
    PROVE  IInv'
  <1>1. UNCHANGED <<catalog, clock, files, swept>>
    BY DEF Restart, store, disk
  <1>2. NoTask \in Tasks /\ NoTask.pc = "none" /\ NoTask.created = 0
    BY DEF NoTask, Tasks
  <1>3. New \in Calls /\ Holds(New, clock) /\ Over \in Calls /\ Holds(Over, clock)
    BY Zenon, CarriedFits, AnswerFits DEF New, Calls, Points, Holds
  <1>4. ReqOK'
    <2>1. \A r \in Requests : req'[r] \in {New, Over}
      BY DEF Restart
    <2>2. req' \in [Requests -> Calls] /\ \A r \in Requests : Holds(req'[r], clock)
      BY <2>1, <1>3 DEF Restart
    <2> QED
      BY <2>2, <1>1 DEF Restart, ReqOK
  <1>5. TaskOK' /\ Dated' /\ ReadyIsCached'
    <2>1. task' = [r \in Requests |-> NoTask]
      BY DEF Restart
    <2>2. TaskOK'
      BY <1>2, <2>1 DEF TaskOK, Works
    <2>3. Dated'
      BY <1>1, <1>2, <2>1 DEF IInv, Dated, Stored
    <2>4. ReadyIsCached'
      BY <1>2, <2>1 DEF ReadyIsCached
    <2> QED
      BY <2>2, <2>3, <2>4
  <1> QED
    BY <1>1, <1>4, <1>5 DEF IInv, Stored, Disk, AvailableIsCached

-----------------------------------------------------------------------------
\* Every step keeps the invariant.
LEMMA NextIInv == IInv /\ [Next]_vars => IInv'
  <1> SUFFICES ASSUME IInv, [Next]_vars PROVE IInv'
    OBVIOUS
  <1>1. CASE Restart
    BY <1>1, RestartKeeps
  <1>2. ASSUME NEW r \in Requests, Handle(r) PROVE IInv'
    BY <1>2, AddCreateKeeps, AddDefaultKeeps, AddRegisterKeeps, DeleteTakeKeeps,
       DeleteCancelKeeps, DeleteRowKeeps, DeleteDirKeeps, ApplyKeeps,
       SetDefaultObjectKeeps DEF Handle
  <1>3. ASSUME NEW t \in Requests, Prepare(t) PROVE IInv'
    BY <1>3, ArtifactKeeps, DiscardKeeps, MaterializedKeeps, PublishKeeps, UnregisterKeeps DEF Prepare
  <1>4. CASE UNCHANGED vars
    BY <1>4, OnlyRequests DEF vars, IInv, ReqOK
  <1> QED
    BY <1>1, <1>2, <1>3, <1>4 DEF Next

\* For any ids, manifests, artifacts and number of requests: an object marked
\* available has every required artifact of its catalog in its directory, as
\* long as no late delete and no second task in the directory swept it
\* (materialize, finish_preparation, cached_firmware_file_valid).
THEOREM AvailableObjectsAreCached == Spec => []AvailableIsCached
  <1>1. IInv => AvailableIsCached
    BY DEF IInv
  <1> QED
    BY InitIInv, NextIInv, <1>1, PTL DEF Spec

-----------------------------------------------------------------------------
\* A request at its jobs works for the row it read, with that row's artifacts.
OwnArtifacts(q) ==
    q.pc \in {"jobs", "record"} =>
        /\ q.row.parsed.manifest = q.row.config
        /\ q.uses \subseteq {q.row.parsed.manifest} \X q.row.parsed.ready

\* A request's step leaves what the others use.
LEMMA OtherRequests ==
    ASSUME IInv, AppliesOwnArtifacts, NEW r \in Requests, NEW q, OwnArtifacts(q),
           req' = [req EXCEPT ![r] = q]
    PROVE  AppliesOwnArtifacts'
  BY DEF IInv, ReqOK, AppliesOwnArtifacts, OwnArtifacts

\* load_stored refuses a catalog of another manifest.
LEMMA HandleOwn ==
    ASSUME IInv, AppliesOwnArtifacts, NEW r \in Requests, Handle(r)
    PROVE  AppliesOwnArtifacts'
  <1>t. req[r] \in Calls
    BY DEF IInv, ReqOK
  <1>a. ASSUME Answer(r) PROVE AppliesOwnArtifacts'
    <2>1. OwnArtifacts(Over)
      BY DEF Over, New, OwnArtifacts
    <2> QED
      BY Zenon, <1>a, <2>1, OtherRequests DEF Answer
  <1>s. ASSUME NEW q, req' = [req EXCEPT ![r] = q], q.pc \notin {"jobs", "record"}
        PROVE  AppliesOwnArtifacts'
    BY Zenon, <1>s, OtherRequests DEF OwnArtifacts
  <1>1. CASE AddCreate(r)
    <2> PICK id, hw, config :
           req' = [req EXCEPT ![r] = [New EXCEPT !.pc = "default", !.op = "add",
                                                 !.id = id, !.config = config]]
      BY Zenon, <1>1 DEF AddCreate
    <2> DEFINE q == [New EXCEPT !.pc = "default", !.op = "add", !.id = id, !.config = config]
    <2>1. q.pc = "default" /\ req' = [req EXCEPT ![r] = q]
      BY DEF New
    <2> HIDE DEF q
    <2> QED
      BY Zenon, <1>s, <2>1
  <1>2. CASE AddDefault(r) /\ ~StoreError(r)
    <2> DEFINE q == [req[r] EXCEPT !.pc = "register", !.row = catalog'[req[r].id].created]
    <2>1. req' = [req EXCEPT ![r] = q]
      BY Zenon, <1>2 DEF AddDefault
    <2>2. q.pc = "register"
      BY <1>t DEF Calls
    <2> HIDE DEF q
    <2> QED
      BY Zenon, <1>s, <2>1, <2>2
  <1>3. CASE DeleteTake(r)
    <2> PICK id :
           req' = [req EXCEPT ![r] = [New EXCEPT !.pc = "cancel", !.op = "delete",
                                                 !.id = id, !.row = tokens[id]]]
      BY Zenon, <1>3 DEF DeleteTake
    <2> DEFINE q == [New EXCEPT !.pc = "cancel", !.op = "delete", !.id = id, !.row = tokens[id]]
    <2>1. q.pc = "cancel" /\ req' = [req EXCEPT ![r] = q]
      BY DEF New
    <2> HIDE DEF q
    <2> QED
      BY Zenon, <1>s, <2>1
  <1>4. CASE DeleteCancel(r) \/ (DeleteRow(r) /\ ~StoreError(r))
    <2> PICK pc \in {"row", "dir"} : req' = [req EXCEPT ![r].pc = pc]
      BY <1>4 DEF DeleteCancel, DeleteRow, Step
    <2> DEFINE q == [req[r] EXCEPT !.pc = pc]
    <2>1. q.pc = pc /\ req' = [req EXCEPT ![r] = q]
      BY <1>t DEF Calls
    <2> HIDE DEF q
    <2> QED
      BY Zenon, <1>s, <2>1
  <1>5. CASE ApplyLookup(r)
    <2> PICK id :
           req' = [req EXCEPT ![r] = [New EXCEPT !.pc = "resolve", !.op = "apply",
                                                 !.id = id, !.row = catalog[id]]]
      BY Zenon, <1>5 DEF ApplyLookup
    <2> DEFINE q == [New EXCEPT !.pc = "resolve", !.op = "apply", !.id = id, !.row = catalog[id]]
    <2>1. q.pc = "resolve" /\ req' = [req EXCEPT ![r] = q]
      BY DEF New
    <2> HIDE DEF q
    <2> QED
      BY Zenon, <1>s, <2>1
  <1>6. CASE ApplyResolve(r) /\ ~Answer(r)
    <2> PICK selected \in SUBSET Artifacts :
           /\ LoadStored(req[r].row) /\ selected \subseteq req[r].row.parsed.ready
           /\ req' = [req EXCEPT ![r].pc = "jobs", ![r].uses = {req[r].row.config} \X selected]
      BY Zenon, <1>6 DEF ApplyResolve
    <2> DEFINE uses == {req[r].row.config} \X selected
               q == [req[r] EXCEPT !.pc = "jobs", !.uses = uses]
    <2>1. req' = [req EXCEPT ![r] = q]
      OBVIOUS
    <2>2. uses \subseteq {req[r].row.parsed.manifest} \X req[r].row.parsed.ready
      BY DEF LoadStored
    <2> HIDE DEF uses
    <2>3. q.row = req[r].row /\ q.uses = uses
      BY <1>t DEF Calls
    <2>4. OwnArtifacts(q)
      BY <2>2, <2>3 DEF OwnArtifacts, LoadStored
    <2> HIDE DEF q
    <2> QED
      BY Zenon, <2>1, <2>4, OtherRequests
  <1>7. CASE ApplyJobs(r) /\ ~Answer(r)
    <2> DEFINE q == [req[r] EXCEPT !.pc = "record"]
    <2>1. req' = [req EXCEPT ![r] = q] /\ req[r].pc = "jobs"
      BY <1>7 DEF ApplyJobs, Step
    <2>2. q.row = req[r].row /\ q.uses = req[r].uses
      BY <1>t DEF Calls
    <2>3. OwnArtifacts(q)
      BY <2>1, <2>2 DEF AppliesOwnArtifacts, OwnArtifacts
    <2> HIDE DEF q
    <2> QED
      BY Zenon, <2>1, <2>3, OtherRequests
  <1>8. CASE Answer(r)
    BY <1>8, <1>a
  <1> QED
    BY Zenon, <1>1, <1>2, <1>3, <1>4, <1>5, <1>6, <1>7, <1>8
    DEF Handle, AddDefault, AddRegister, DeleteRow, DeleteDir, ApplyResolve, ApplyJobs,
        ApplyRecord, SetDefaultObject, StoreError

\* For any ids, manifests, artifacts and number of requests: the jobs of an apply
\* use artifacts prepared from the manifest of the row the apply read, also
\* when another manifest's catalog was published into that row (load_stored).
THEOREM AppliesUseOwnArtifacts == Spec => []AppliesOwnArtifacts
  <1>1. Init => AppliesOwnArtifacts
    BY DEF Init, New, AppliesOwnArtifacts
  <1>2. IInv /\ AppliesOwnArtifacts /\ [Next]_vars => AppliesOwnArtifacts'
    <2> SUFFICES ASSUME IInv, AppliesOwnArtifacts, [Next]_vars PROVE AppliesOwnArtifacts'
      OBVIOUS
    <2>1. ASSUME NEW r \in Requests, Handle(r) PROVE AppliesOwnArtifacts'
      BY <2>1, HandleOwn
    <2>2. CASE Restart
      BY <2>2 DEF Restart, New, Over, AppliesOwnArtifacts
    <2>3. ASSUME NEW t \in Requests, Prepare(t) PROVE AppliesOwnArtifacts'
      BY Zenon, <2>3
      DEF Prepare, Reuse, Discard, Receive, Persist, DownloadFails, Outcome, Materialized,
          Publish, Unregister, AppliesOwnArtifacts
    <2>4. CASE UNCHANGED vars
      BY <2>4 DEF vars, AppliesOwnArtifacts
    <2> QED
      BY <2>1, <2>2, <2>3, <2>4 DEF Next
  <1> QED
    BY InitIInv, NextIInv, <1>1, <1>2, PTL DEF Spec

=============================================================================
