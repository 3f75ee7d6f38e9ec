---------------------------- MODULE PostgresStore ---------------------------
(***************************************************************************)
(* The Postgres FirmwareObjectStore                                        *)
(* (persistence/postgres/firmware_object.rs), shared by several replicas.  *)
(* Choosing a default takes a transaction of several statements; every     *)
(* other operation is one statement, which waits while a transaction has   *)
(* the row locked.                                                         *)
(*                                                                         *)
(* The database is the environment, at READ COMMITTED: a statement sees    *)
(* what was committed when it started.  When it then waited for a row, it  *)
(* goes on with the row's newest version, and without the row if that was  *)
(* deleted, even if its id was inserted again.                             *)
(***************************************************************************)
EXTENDS FirmwareStore, FiniteSets

CONSTANTS
    Clients,                \* connections in a transaction
    MaxApplied,             \* bound: incarnations that applies are recorded for
    None

VARIABLES
    tx,                     \* [Clients -> transaction]
    slot,                   \* [HwTypes -> holder of the advisory lock or None]
    locked                  \* [Ids -> holder of the row lock or None]

locks == <<slot, locked>>
vars == <<catalog, history, clock, tx, slot, locked>>

\* seen is what the running statement saw when it started; writes are the
\* rows the transaction has written and not committed.
Closed == [pc |-> "closed", op |-> None, id |-> None, hw |-> None,
           seen |-> {}, writes |-> <<>>]

Init ==
    /\ StoreInit
    /\ tx = [c \in Clients |-> Closed]
    /\ slot = [hw \in HwTypes |-> None]
    /\ locked = [id \in Ids |-> None]

\* A transaction that commits, fails or is dropped with its request.
End(c) ==
    /\ tx' = [tx EXCEPT ![c] = Closed]
    /\ slot' = [hw \in HwTypes |-> IF slot[hw] = c THEN None ELSE slot[hw]]
    /\ locked' = [id \in Ids |-> IF locked[id] = c THEN None ELSE locked[id]]

Abort(c) == End(c) /\ UNCHANGED store

Goto(c, pc) ==
    tx' = [tx EXCEPT ![c].pc = pc, ![c].seen = {}] /\ UNCHANGED <<store, locks>>

Available(c, id) == locked[id] \in {None, c}

-----------------------------------------------------------------------------
\* Mutant of Begin: the target row is locked ahead of the slot.
BeginRowFirst(c) ==
    /\ tx[c].pc = "closed"
    /\ \E op \in {"set_default", "set_default_if_none"}, id \in Ids :
          /\ Exists(id) /\ locked[id] = None
          /\ tx' = [tx EXCEPT ![c].pc = "hw", ![c].op = op, ![c].id = id]
          /\ locked' = [locked EXCEPT ![id] = c]
    /\ UNCHANGED <<store, slot>>

\* pool.begin.  Only handle_add_firmware_object calls set_default_if_none,
\* for an id it has just inserted.
Begin(c) ==
    /\ tx[c].pc = "closed"
    /\ \E op \in {"set_default", "set_default_if_none"}, id \in Ids :
          /\ op = "set_default_if_none" => Exists(id)
          /\ tx' = [tx EXCEPT ![c].pc = "hw", ![c].op = op, ![c].id = id]
    /\ UNCHANGED <<store, locks>>

\* The hardware type that keys the advisory lock is read without a lock.  In
\* set_default_if_none the read is a subquery of the lock statement, and an
\* id that is not there locks nothing.
ReadHwType(c) ==
    LET t == tx[c] IN
    /\ t.pc = "hw"
    /\ \/ /\ Exists(t.id)
          /\ tx' = [tx EXCEPT ![c].pc = "slot", ![c].hw = catalog[t.id].hw]
          /\ UNCHANGED <<store, locks>>
       \/ ~Exists(t.id) /\ t.op = "set_default" /\ Abort(c)
       \/ ~Exists(t.id) /\ t.op = "set_default_if_none" /\ Goto(c, "read")

\* lock_default_slot, lock_default_slot_for_id
LockSlot(c) ==
    LET t == tx[c] IN
    /\ t.pc = "slot" /\ slot[t.hw] = None
    /\ slot' = [slot EXCEPT ![t.hw] = c]
    /\ tx' = [tx EXCEPT ![c].pc = IF t.op = "set_default" THEN "lock" ELSE "read"]
    /\ UNCHANGED <<store, locked>>

\* set_default: SELECT ... FOR UPDATE, which decides the hardware type the
\* transaction works on.
SelectForUpdate(c) ==
    LET t == tx[c] IN
    /\ t.pc = "lock"
    /\ \/ /\ Exists(t.id)
          /\ tx' = [tx EXCEPT ![c].pc = "locking",
                              ![c].seen = {[id |-> t.id,
                                            created |-> catalog[t.id].created]}]
          /\ UNCHANGED <<store, locks>>
       \/ ~Exists(t.id) /\ Abort(c)

SelectedForUpdate(c) ==
    LET t == tx[c] IN
    /\ t.pc = "locking" /\ Available(c, t.id)
    /\ \/ /\ \E r \in t.seen : IsCurrent(r.id, r.created)
          /\ tx' = [tx EXCEPT ![c].pc = "clear", ![c].hw = catalog[t.id].hw,
                              ![c].seen = {}]
          /\ locked' = [locked EXCEPT ![t.id] = c]
          /\ UNCHANGED <<store, slot>>
       \/ ~(\E r \in t.seen : IsCurrent(r.id, r.created)) /\ Abort(c)

\* set_default: UPDATE ... SET is_default = false over the rows it sees.
ClearDefaults(c) ==
    LET t == tx[c] IN
    /\ t.pc = "clear"
    /\ tx' = [tx EXCEPT ![c].pc = "clearing",
                        ![c].seen = {[id |-> i, created |-> catalog[i].created] :
                                        i \in Defaults(t.hw)}]
    /\ UNCHANGED <<store, locks>>

ClearedDefaults(c) ==
    LET t == tx[c]
        still == {r.id : r \in {s \in t.seen : /\ IsCurrent(s.id, s.created)
                                               /\ catalog[s.id].is_default}}
    IN
    /\ t.pc = "clearing" /\ \A r \in t.seen : Available(c, r.id)
    /\ tx' = [tx EXCEPT ![c].pc = "set", ![c].seen = {},
                        ![c].writes = [i \in still |-> FALSE]]
    /\ locked' = [i \in Ids |-> IF i \in still THEN c ELSE locked[i]]
    /\ UNCHANGED <<store, slot>>

\* set_default_if_none: the plain read.
ReadRow(c) ==
    LET t == tx[c] IN
    /\ t.pc = "read"
    /\ \/ /\ Exists(t.id)
          /\ tx' = [tx EXCEPT ![c].pc = "if_none", ![c].hw = catalog[t.id].hw]
          /\ UNCHANGED <<store, locks>>
       \/ ~Exists(t.id) /\ Abort(c)

\* set_default_if_none: UPDATE ... WHERE NOT EXISTS.  The subquery keeps the
\* snapshot of the statement when the update has waited for the row.
UpdateIfNone(c) ==
    LET t == tx[c] IN
    /\ t.pc = "if_none"
    /\ \/ /\ Exists(t.id) /\ Defaults(t.hw) = {}
          /\ tx' = [tx EXCEPT ![c].pc = "updating",
                              ![c].seen = {[id |-> t.id,
                                            created |-> catalog[t.id].created]}]
          /\ UNCHANGED <<store, locks>>
       \/ ~(Exists(t.id) /\ Defaults(t.hw) = {}) /\ Goto(c, "commit")

UpdatedIfNone(c) ==
    LET t == tx[c] IN
    /\ t.pc = "updating" /\ Available(c, t.id)
    /\ \/ /\ \E r \in t.seen : IsCurrent(r.id, r.created)
          /\ tx' = [tx EXCEPT ![c].pc = "set", ![c].seen = {}]
          /\ locked' = [locked EXCEPT ![t.id] = c]
          /\ UNCHANGED <<store, slot>>
       \/ ~(\E r \in t.seen : IsCurrent(r.id, r.created)) /\ Goto(c, "commit")

-----------------------------------------------------------------------------
\* rack_firmware_default_idx, a unique index over the default rows of a
\* hardware type.  A row whose entry another transaction is writing makes
\* the update wait for that transaction.
Rivals(c) == {i \in DOMAIN catalog \ {tx[c].id} :
                 catalog[i].hw = catalog[tx[c].id].hw}

Writers(c) == {d \in Clients \ {c} : DOMAIN tx[d].writes \cap Rivals(c) # {}}

\* Mutant of Duplicate: the index is not unique.
PlainIndex(c) == FALSE

Duplicate(c) ==
    \E i \in Rivals(c) : catalog[i].is_default /\ i \notin DOMAIN tx[c].writes

\* SET is_default = true on the locked row.
MarkDefault(c) ==
    LET t == tx[c] IN
    /\ t.pc = "set" /\ Writers(c) = {}
    /\ \/ /\ ~Duplicate(c)
          /\ tx' = [tx EXCEPT ![c].pc = "commit",
                              ![c].writes = [i \in DOMAIN t.writes \cup {t.id} |->
                                                i = t.id]]
          /\ UNCHANGED <<store, locks>>
       \/ Duplicate(c) /\ Abort(c)

Commit(c) ==
    /\ tx[c].pc = "commit"
    /\ catalog' = [i \in DOMAIN catalog |->
                      IF i \in DOMAIN tx[c].writes
                      THEN [catalog[i] EXCEPT !.is_default = tx[c].writes[i]]
                      ELSE catalog[i]]
    /\ End(c)
    /\ UNCHANGED <<history, clock>>

\* A lost connection or a dropped request.
Rollback(c) == tx[c].pc # "closed" /\ Abort(c)

-----------------------------------------------------------------------------
\* The operations of one statement.
Unlocked(id) == locked[id] = None

Insert ==
    \E id \in Ids, hw \in HwTypes, config \in Configs, parsed \in Metadata :
        Create(id, hw, config, parsed)

ReplaceConfig ==
    \E id \in Ids, config \in Configs : Unlocked(id) /\ UpdateConfig(id, config)

UpdateAvailable ==
    \E id \in Ids, available \in BOOLEAN : Unlocked(id) /\ SetAvailable(id, available)

UpdateParsed ==
    \E id \in Ids, parsed \in Metadata :
        Unlocked(id) /\ SetParsedComponentsAvailable(id, parsed)

PublishPreparation ==
    \E id \in Ids, created \in 1 .. clock, parsed \in Metadata, available \in BOOLEAN :
        Unlocked(id) /\ FinishPreparation(id, created, parsed, available)

Remove == \E id \in Ids : Unlocked(id) /\ Delete(id)

\* FOR SHARE makes the insert wait for the row and look at it again.
InsertHistory ==
    \E id \in Ids, created \in 1 .. MaxApplied :
        Unlocked(id) /\ RecordApplyForIncarnation(id, created)

Statement ==
    /\ \/ Insert \/ ReplaceConfig \/ UpdateAvailable \/ UpdateParsed
       \/ PublishPreparation \/ Remove \/ InsertHistory
    /\ UNCHANGED <<tx, locks>>

Transaction(c) ==
    \/ Begin(c) \/ ReadHwType(c) \/ LockSlot(c)
    \/ SelectForUpdate(c) \/ SelectedForUpdate(c)
    \/ ClearDefaults(c) \/ ClearedDefaults(c)
    \/ ReadRow(c) \/ UpdateIfNone(c) \/ UpdatedIfNone(c)
    \/ MarkDefault(c) \/ Commit(c) \/ Rollback(c)

Next == Statement \/ \E c \in Clients : Transaction(c)

Spec == Init /\ [][Next]_vars

-----------------------------------------------------------------------------
(* Every commit is one step of the store's contract: a reader never sees a *)
(* hardware type between two defaults, a set_default_if_none never takes   *)
(* the slot from another object, and no published preparation reaches an   *)
(* incarnation it was not made for, whatever statements interleave.        *)
ImplementsStore == StoreSpec

(* Transactions never wait for each other in a circle, which the order     *)
(* slot before row is there for (set_default: "avoids a deadlock").        *)
WaitsFor(c, d) ==
    LET t == tx[c] IN
    /\ c # d
    /\ \/ t.pc = "slot" /\ slot[t.hw] = d
       \/ t.pc \in {"locking", "updating"} /\ locked[t.id] = d
       \/ t.pc = "clearing" /\ \E r \in t.seen : locked[r.id] = d
       \/ t.pc = "set" /\ d \in Writers(c)

NoCircularWait ==
    ~ \E ring \in SUBSET Clients \ {{}} :
          \A c \in ring : \E d \in ring : WaitsFor(c, d)

(* The claim of lock_default_slot: a setter never fails on the unique      *)
(* index, "the loser serializes cleanly rather than failing with a         *)
(* duplicate-key error".                                                   *)
NeverDuplicateKey ==
    \A c \in Clients : tx[c].pc = "set" /\ Writers(c) = {} => ~Duplicate(c)
=============================================================================
