-------------------------- MODULE MCFirmwareObjects -------------------------
(* Firmware objects over the abstract store, and the PostgreSQL store that *)
(* implements it, on rows of its own.  A behaviour is about one of them.   *)
EXTENDS FirmwareObjects, TLC

CONSTANTS PgIds, PgHwTypes, PgConfigs, PgMetadata, PgCreated, Clients, MaxApplied

VARIABLES
    about,                          \* "objects" or "postgres"
    rows, applies, inserts,         \* the tables of the PostgreSQL store
    tx, slot, locked

postgresVars == <<rows, applies, inserts, tx, slot, locked>>

Postgres == INSTANCE PostgresStore WITH
    Ids <- PgIds, HwTypes <- PgHwTypes, Configs <- PgConfigs,
    Metadata <- PgMetadata, MaxCreated <- PgCreated,
    catalog <- rows, history <- applies, clock <- inserts

MCInit == about \in {"objects", "postgres"} /\ Init /\ Postgres!Init

\* Availability is followed for the incarnations applies are recorded for.
Bounded == \A i \in DOMAIN rows' : rows'[i].available => rows'[i].created <= MaxApplied

\* The first insert is of one chosen type: the types are interchangeable.
FirstInsert ==
    inserts = 0 /\ inserts' = 1 =>
        \A i \in DOMAIN rows' : rows'[i].hw = CHOOSE hw \in PgHwTypes : TRUE

\* The first request is an add: any other finds the catalog empty.
FirstAdd == (\A r \in Requests : req[r].pc = "new") => clock' = 1

MCNext ==
    \/ about = "objects" /\ Next /\ FirstAdd /\ UNCHANGED <<about, postgresVars>>
    \/ /\ about = "postgres" /\ Postgres!Next /\ Bounded /\ FirstInsert
       /\ UNCHANGED <<about, vars>>

MCSpec == MCInit /\ [][MCNext]_<<about, vars, postgresVars>>

MCMetadata ==
    [state : {"preparing", "ready", "failed"}, manifest : Configs,
     ready : SUBSET Artifacts]

\* What one manifest requires is optional in the other one.
MCRequired ==
    [c \in Configs |-> IF c = CHOOSE first \in Configs : TRUE THEN Artifacts ELSE {}]

Symmetry == Permutations(Clients) \cup Permutations(PgIds)

-----------------------------------------------------------------------------
(* Transactions never wait for each other in a circle (lock_default_slot   *)
(* before the row).                                                        *)
NoCircularWait == Postgres!NoCircularWait

(* Every commit of the PostgreSQL store is one step of FirmwareStore, as   *)
(* StoreSpec has it.  The test for a stuttering step comes first because   *)
(* TLC would look for an operation in every step that changes no row.      *)
ImplementsStore ==
    /\ Postgres!StoreInit
    /\ [][UNCHANGED <<rows, applies, inserts>> \/ Postgres!StoreNext]_<<rows, applies, inserts>>
=============================================================================
