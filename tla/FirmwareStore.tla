---------------------------- MODULE FirmwareStore ---------------------------
(***************************************************************************)
(* What a FirmwareObjectStore promises (persistence/firmware_object.rs),   *)
(* which is what the memory store does: every operation holds the catalog  *)
(* lock from its first read to its last write                              *)
(* (persistence/memory/firmware_object.rs).                                *)
(*                                                                         *)
(* A row's `created` tells the incarnations of a reused id apart: a number *)
(* of the store's clock, which no two inserts share.                       *)
(***************************************************************************)
EXTENDS Naturals

CONSTANTS
    Ids,                    \* ids of firmware objects
    HwTypes,                \* RackHardwareType
    Configs,                \* manifests
    Metadata,               \* parsed_components
    MaxCreated              \* bound: inserts of a behaviour

VARIABLES
    catalog,                \* the rows: a function from the ids in the catalog
    history,                \* apply history: a set of [id, created]
    clock                   \* inserts so far

store == <<catalog, history, clock>>

Exists(id) == id \in DOMAIN catalog
IsCurrent(id, created) == Exists(id) /\ catalog[id].created = created
Defaults(hw) == {id \in DOMAIN catalog : catalog[id].hw = hw /\ catalog[id].is_default}

Rows == [hw : HwTypes, is_default : BOOLEAN, available : BOOLEAN, config : Configs,
         parsed : Metadata, created : 1 .. MaxCreated]

StoreInit ==
    /\ catalog = <<>>
    /\ history = {}
    /\ clock = 0

-----------------------------------------------------------------------------
Create(id, hw, config, parsed) ==
    /\ ~Exists(id) /\ clock < MaxCreated
    /\ catalog' = [i \in DOMAIN catalog \cup {id} |->
                      IF i = id
                      THEN [hw |-> hw, is_default |-> FALSE, available |-> FALSE,
                            config |-> config, parsed |-> parsed,
                            created |-> clock + 1]
                      ELSE catalog[i]]
    /\ clock' = clock + 1
    /\ UNCHANGED history

Update(id, row) ==
    /\ catalog' = [catalog EXCEPT ![id] = row]
    /\ UNCHANGED <<history, clock>>

UpdateConfig(id, config) ==
    Exists(id) /\ Update(id, [catalog[id] EXCEPT !.config = config])

SetAvailable(id, available) ==
    Exists(id) /\ Update(id, [catalog[id] EXCEPT !.available = available])

SetParsedComponentsAvailable(id, parsed) ==
    /\ Exists(id)
    /\ Update(id, [catalog[id] EXCEPT !.parsed = parsed, !.available = TRUE])

\* Published only for the incarnation that started the work.
FinishPreparation(id, created, parsed, available) ==
    /\ IsCurrent(id, created)
    /\ Update(id, [catalog[id] EXCEPT !.parsed = parsed, !.available = available])

SetDefault(id) ==
    /\ Exists(id)
    /\ catalog' = [i \in DOMAIN catalog |->
                      IF catalog[i].hw = catalog[id].hw
                      THEN [catalog[i] EXCEPT !.is_default = (i = id)]
                      ELSE catalog[i]]
    /\ UNCHANGED <<history, clock>>

SetDefaultIfNone(id) ==
    /\ Exists(id)
    /\ IF Defaults(catalog[id].hw) = {}
       THEN Update(id, [catalog[id] EXCEPT !.is_default = TRUE])
       ELSE UNCHANGED store

Delete(id) ==
    /\ Exists(id)
    /\ catalog' = [i \in DOMAIN catalog \ {id} |-> catalog[i]]
    /\ UNCHANGED <<history, clock>>

\* The record holds the id only; its incarnation is kept here to state what
\* the history means.
RecordApply(id, created) ==
    /\ history' = history \cup {[id |-> id, created |-> created]}
    /\ UNCHANGED <<catalog, clock>>

RecordApplyForIncarnation(id, created) ==
    IsCurrent(id, created) /\ RecordApply(id, created)

-----------------------------------------------------------------------------
StoreNext ==
    \/ \E id \in Ids :
        \/ \E hw \in HwTypes, config \in Configs, parsed \in Metadata :
              Create(id, hw, config, parsed)
        \/ \E config \in Configs : UpdateConfig(id, config)
        \/ \E available \in BOOLEAN : SetAvailable(id, available)
        \/ \E parsed \in Metadata : SetParsedComponentsAvailable(id, parsed)
        \/ \E created \in 1 .. clock, parsed \in Metadata, available \in BOOLEAN :
              FinishPreparation(id, created, parsed, available)
        \/ SetDefault(id)
        \/ SetDefaultIfNone(id)
        \/ Delete(id)
        \/ \E created \in 1 .. clock : RecordApplyForIncarnation(id, created)

StoreSpec == StoreInit /\ [][StoreNext]_store

\* One default per hardware type, whatever was added, deleted and re-added.
OneDefault ==
    \A i, j \in DOMAIN catalog :
        /\ catalog[i].is_default /\ catalog[j].is_default
        /\ catalog[i].hw = catalog[j].hw
        => i = j
=============================================================================
