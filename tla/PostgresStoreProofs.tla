------------------------- MODULE PostgresStoreProofs ------------------------
(***************************************************************************)
(* The PostgreSQL store implements FirmwareStore, for any number of        *)
(* objects, hardware types and connections.                                *)
(*                                                                         *)
(* A statement is a store operation.  A commit is either without effect or *)
(* a SetDefault: every other default of the type must be among the rows    *)
(* the transaction clears.  A statement before the commit checked that,    *)
(* and it stays true because the rows it writes are locked and no second   *)
(* transaction marks a default of the same type (OneMarker).               *)
(***************************************************************************)
EXTENDS PostgresStore, TLAPS

CatalogRows == [hw : HwTypes, is_default : BOOLEAN, available : BOOLEAN,
                config : Configs, parsed : Metadata, created : Nat \ {0}]

Stored ==
    /\ clock \in Nat
    /\ DOMAIN catalog \subseteq Ids
    /\ catalog = [i \in DOMAIN catalog |-> catalog[i]]
    /\ \A i \in DOMAIN catalog : catalog[i] \in CatalogRows /\ catalog[i].created <= clock

Pcs == {"closed", "hw", "slot", "lock", "locking", "clear", "clearing", "read",
        "if_none", "updating", "set", "commit"}

Writes == UNION {[D -> BOOLEAN] : D \in SUBSET Ids}

Ops == {"set_default", "set_default_if_none", None}

Transactions == [pc : Pcs, op : Ops,
                 id : Ids \cup {None}, hw : HwTypes \cup {None},
                 seen : SUBSET [id : Ids, created : Nat], writes : Writes]

\* What a transaction holds, by where it is.
Fits(t, now) ==
    /\ t.pc # "closed" => t.id \in Ids
    /\ t.pc = "slot" => t.hw \in HwTypes
    /\ \A r \in t.seen : r.created <= now
    /\ t.pc \in {"locking", "updating"} => \A r \in t.seen : r.id = t.id
    /\ t.pc \notin {"set", "commit"} => DOMAIN t.writes = {}

TxOK == tx \in [Clients -> Transactions] /\ \A c \in Clients : Fits(tx[c], clock)

LocksOK == locked \in [Ids -> Clients \cup {None}] /\ slot \in [HwTypes -> Clients \cup {None}]

\* The transaction has its row, and the rows it writes.
Has(c) == Exists(tx[c].id) /\ locked[tx[c].id] = c

Owns(c) ==
    /\ tx[c].pc \in {"clear", "clearing", "set"} => Has(c)
    /\ tx[c].pc \in {"clear", "clearing"} => tx[c].hw = catalog[tx[c].id].hw
    /\ tx[c].pc = "clearing" => \A r \in tx[c].seen :
          IsCurrent(r.id, r.created) => catalog[r.id].hw = tx[c].hw
    /\ \A i \in DOMAIN tx[c].writes :
          /\ Exists(i) /\ locked[i] = c /\ Has(c)
          /\ catalog[i].hw = catalog[tx[c].id].hw

\* The transaction has marked its row as the default.
Marked(c) == tx[c].pc = "commit" /\ DOMAIN tx[c].writes # {}

\* Its commit leaves no other default of the type.
Clears(c) ==
    Marked(c) =>
        /\ tx[c].id \in DOMAIN tx[c].writes
        /\ \A i \in DOMAIN tx[c].writes : tx[c].writes[i] = (i = tx[c].id)
        /\ \A i \in DOMAIN catalog \ DOMAIN tx[c].writes :
              catalog[i].hw = catalog[tx[c].id].hw => ~catalog[i].is_default

OneMarker(c, d) ==
    Marked(c) /\ Marked(d) /\ c # d => catalog[tx[c].id].hw # catalog[tx[d].id].hw

IInv ==
    /\ Stored /\ TxOK /\ LocksOK
    /\ \A c \in Clients : Owns(c) /\ Clears(c)
    /\ \A c, d \in Clients : OneMarker(c, d)

-----------------------------------------------------------------------------
(* A transaction begins with no writes.                                    *)
LEMMA NoWrites == <<>> \in Writes /\ DOMAIN <<>> = {}
  <1>1. <<>> \in [{} -> BOOLEAN]
    OBVIOUS
  <1> QED
    BY <1>1 DEF Writes

(* The operations that take a transaction.                                 *)
LEMMA OpsFit == "set_default" \in Ops /\ "set_default_if_none" \in Ops /\ None \in Ops
  BY DEF Ops

(* Writes to any set of rows.                                              *)
LEMMA WritesFit ==
  ASSUME NEW D \in SUBSET Ids, NEW w \in [D -> BOOLEAN]
  PROVE  w \in Writes
  BY DEF Writes

(* A closed transaction holds nothing.                                     *)
LEMMA ClosedFits == Closed \in Transactions /\ \A now : Fits(Closed, now)
  BY NoWrites, OpsFit DEF Closed, Transactions, Fits, Pcs

(* Initially the table is empty and no transaction is open.                *)
LEMMA InitIInv == Init => IInv
  <1> SUFFICES ASSUME Init PROVE IInv
    OBVIOUS
  <1>1. Stored
    BY DEF Init, StoreInit, Stored
  <1>2. \A c \in Clients : tx[c] = Closed
    BY DEF Init
  <1>3. TxOK
    BY <1>2, ClosedFits DEF Init, TxOK
  <1>4. LocksOK
    BY DEF Init, LocksOK
  <1>5. \A c \in Clients : tx[c].pc = "closed" /\ DOMAIN tx[c].writes = {}
    BY <1>2, NoWrites DEF Closed
  <1>6. \A c \in Clients : Owns(c) /\ Clears(c)
    BY <1>5 DEF Owns, Clears, Marked
  <1>7. \A c, d \in Clients : OneMarker(c, d)
    BY <1>5 DEF OneMarker, Marked
  <1> QED
    BY <1>1, <1>3, <1>4, <1>6, <1>7 DEF IInv

-----------------------------------------------------------------------------
(* A transaction's step leaves the rows in place, the others' locks and    *)
(* what the others know about the rows.                                    *)
LEMMA TransactionFrame ==
  ASSUME None \notin Clients, IInv, NEW c \in Clients, NEW t \in Transactions,
         tx' = [tx EXCEPT ![c] = t], Fits(t, clock),
         clock' = clock, Stored', LocksOK',
         DOMAIN catalog' = DOMAIN catalog,
         \A i \in DOMAIN catalog : /\ catalog'[i].hw = catalog[i].hw
                                   /\ catalog'[i].created = catalog[i].created,
         \A i \in Ids, d \in Clients \ {c} : locked[i] = d => locked'[i] = d,
         Owns(c)', Clears(c)',
         \A d \in Clients \ {c} : Clears(d)',
         \A d \in Clients : OneMarker(c, d)'
  PROVE  IInv'
  <1>0. tx \in [Clients -> Transactions] /\ \A d \in Clients : Fits(tx[d], clock)
    BY DEF IInv, TxOK
  <1>1. /\ tx' \in [Clients -> Transactions] /\ tx'[c] = t
        /\ \A d \in Clients \ {c} : tx'[d] = tx[d]
    BY <1>0
  <1>2. TxOK'
    BY <1>0, <1>1 DEF TxOK
  <1>3. ASSUME NEW d \in Clients \ {c} PROVE Owns(d)'
    <2>1. Owns(d) /\ tx'[d] = tx[d] /\ tx[d].id \in Ids \cup {None} /\ Stored /\ LocksOK
      BY <1>0, <1>1 DEF IInv, Transactions
    <2>2. \A i : Exists(i) => Exists(i)' /\ i \in Ids /\ catalog'[i].hw = catalog[i].hw
      BY <2>1 DEF Exists, Stored
    <2>3. Has(d) => Has(d)'
      BY <2>1, <2>2 DEF Has
    <2>4. tx[d].pc \in {"clear", "clearing", "set"} => Has(d)'
      BY <2>1, <2>3 DEF Owns
    <2>5. tx[d].pc \in {"clear", "clearing"} => tx[d].hw = catalog'[tx[d].id].hw
      BY <2>1, <2>2 DEF Owns, Has
    <2>6. tx[d].pc = "clearing" => \A r \in tx[d].seen :
             IsCurrent(r.id, r.created)' => catalog'[r.id].hw = tx[d].hw
      BY <2>1 DEF Owns, IsCurrent, Exists
    <2>7. \A i \in DOMAIN tx[d].writes :
             /\ Exists(i)' /\ locked'[i] = d /\ Has(d)'
             /\ catalog'[i].hw = catalog'[tx[d].id].hw
      BY <2>1, <2>2, <2>3 DEF Owns, Has
    <2> QED
      BY <2>1, <2>4, <2>5, <2>6, <2>7 DEF Owns, IsCurrent
  <1>4. ASSUME NEW d \in Clients \ {c}, NEW e \in Clients \ {c} PROVE OneMarker(d, e)'
    <2>1. OneMarker(d, e) /\ Owns(d) /\ Owns(e) /\ tx'[d] = tx[d] /\ tx'[e] = tx[e]
      BY <1>1 DEF IInv
    <2>2. Marked(d) => catalog'[tx[d].id].hw = catalog[tx[d].id].hw
      BY <2>1 DEF Owns, Has, Marked, Exists
    <2>3. Marked(e) => catalog'[tx[e].id].hw = catalog[tx[e].id].hw
      BY <2>1 DEF Owns, Has, Marked, Exists
    <2> QED
      BY <2>1, <2>2, <2>3 DEF OneMarker, Marked
  <1>5. \A d \in Clients : OneMarker(d, c)'
    BY DEF OneMarker
  <1> QED
    BY <1>2, <1>3, <1>4, <1>5 DEF IInv

(* The same for a step that has written nothing.                           *)
LEMMA QuietFrame ==
  ASSUME None \notin Clients, IInv, NEW c \in Clients, NEW t \in Transactions,
         tx' = [tx EXCEPT ![c] = t], Fits(t, clock), DOMAIN t.writes = {},
         UNCHANGED store, LocksOK',
         \A i \in Ids, d \in Clients \ {c} : locked[i] = d => locked'[i] = d,
         t.pc \in {"clear", "clearing", "set"} => Exists(t.id) /\ locked'[t.id] = c,
         t.pc \in {"clear", "clearing"} => t.hw = catalog[t.id].hw,
         t.pc = "clearing" => \A r \in t.seen :
             IsCurrent(r.id, r.created) => catalog[r.id].hw = t.hw
  PROVE  IInv'
  <1>1. catalog' = catalog /\ clock' = clock
    BY DEF store
  <1>2. tx \in [Clients -> Transactions] /\ Stored
    BY DEF IInv, TxOK
  <1>3. tx'[c] = t /\ \A d \in Clients \ {c} : tx'[d] = tx[d]
    BY <1>2
  <1>4. Stored'
    BY <1>1, <1>2 DEF Stored
  <1>5. Owns(c)'
    BY <1>1, <1>3 DEF Owns, Has, Exists, IsCurrent
  <1>6. ~Marked(c)'
    BY <1>3 DEF Marked
  <1>7. Clears(c)' /\ \A d \in Clients : OneMarker(c, d)'
    BY <1>6 DEF Clears, OneMarker
  <1>8. ASSUME NEW d \in Clients \ {c} PROVE Clears(d)'
    BY <1>1, <1>3 DEF IInv, Clears, Marked
  <1> QED
    BY Zenon, <1>1, <1>4, <1>5, <1>7, <1>8, TransactionFrame

(* A transaction that ends gives back its locks and nothing else.          *)
LEMMA EndLocks ==
  ASSUME None \notin Clients, IInv, NEW c \in Clients, End(c)
  PROVE  /\ tx' = [tx EXCEPT ![c] = Closed] /\ LocksOK'
         /\ \A i \in Ids, d \in Clients \ {c} : locked[i] = d => locked'[i] = d
  <1>1. LocksOK
    BY DEF IInv
  <1> QED
    BY <1>1 DEF End, LocksOK

(* A transaction that ends without a commit.                               *)
LEMMA AbortStep ==
  ASSUME None \notin Clients, IInv, NEW c \in Clients, Abort(c)
  PROVE  IInv'
  <1>1. Closed.pc = "closed" /\ DOMAIN Closed.writes = {}
    BY NoWrites DEF Closed
  <1>2. UNCHANGED store /\ End(c)
    BY DEF Abort
  <1>3. /\ tx' = [tx EXCEPT ![c] = Closed] /\ LocksOK'
        /\ \A i \in Ids, d \in Clients \ {c} : locked[i] = d => locked'[i] = d
    BY <1>2, EndLocks
  <1>4. Closed \in Transactions /\ Fits(Closed, clock)
    BY ClosedFits
  <1> DEFINE t == Closed
  <1>5. /\ t \in Transactions /\ tx' = [tx EXCEPT ![c] = t] /\ Fits(t, clock)
        /\ DOMAIN t.writes = {} /\ t.pc = "closed"
    BY <1>1, <1>3, <1>4
  <1> HIDE DEF t
  <1> QED
    BY Zenon, <1>2, <1>3, <1>5, QuietFrame

(* A step that only moves the transaction and locks nothing.               *)
LEMMA MoveStep ==
  ASSUME None \notin Clients, IInv, NEW c \in Clients, NEW t \in Transactions,
         tx' = [tx EXCEPT ![c] = t], Fits(t, clock), DOMAIN t.writes = {},
         UNCHANGED <<store, locked>>, LocksOK',
         t.pc \notin {"clear", "clearing", "set"}
  PROVE  IInv'
  <1>1. UNCHANGED store /\ locked' = locked
    OBVIOUS
  <1> QED
    BY Zenon, <1>1, QuietFrame

(* It begins, and notes the row it is about.                               *)
LEMMA BeginStep ==
  ASSUME None \notin Clients, IInv, NEW c \in Clients, Begin(c)
  PROVE  IInv'
  <1>1. PICK op \in {"set_default", "set_default_if_none"}, id \in Ids :
           tx' = [tx EXCEPT ![c].pc = "hw", ![c].op = op, ![c].id = id]
    BY Zenon DEF Begin
  <1>2. UNCHANGED <<store, locked>> /\ LocksOK' /\ tx[c].pc = "closed"
    BY DEF Begin, locks, IInv, LocksOK
  <1>3. tx \in [Clients -> Transactions] /\ Fits(tx[c], clock)
    BY DEF IInv, TxOK
  <1> DEFINE t == [tx[c] EXCEPT !.pc = "hw", !.op = op, !.id = id]
  <1>4. tx' = [tx EXCEPT ![c] = t]
    BY Zenon, <1>1, <1>3
  <1>5. t \in Transactions
    BY Zenon, <1>3, OpsFit DEF Transactions, Pcs
  <1>6. t.pc = "hw" /\ t.id = id /\ t.seen = tx[c].seen /\ t.writes = tx[c].writes
    BY <1>3 DEF Transactions
  <1> HIDE DEF t
  <1>7. Fits(t, clock) /\ DOMAIN t.writes = {}
    BY <1>2, <1>3, <1>6 DEF Fits
  <1> QED
    BY Zenon, <1>2, <1>4, <1>5, <1>6, <1>7, MoveStep

(* It goes on to its last read or to its commit, having written nothing.   *)
LEMMA GotoStep ==
  ASSUME None \notin Clients, IInv, NEW c \in Clients, NEW pc \in {"read", "commit"},
         Goto(c, pc), tx[c].pc \notin {"closed", "set", "commit"}
  PROVE  IInv'
  <1>2. UNCHANGED <<store, locked>> /\ LocksOK'
    BY DEF Goto, locks, IInv, LocksOK
  <1>3. tx \in [Clients -> Transactions] /\ Fits(tx[c], clock)
    BY DEF IInv, TxOK
  <1> DEFINE t == [tx[c] EXCEPT !.pc = pc, !.seen = {}]
  <1>4. tx' = [tx EXCEPT ![c] = t]
    BY Zenon, <1>3 DEF Goto
  <1>5. t \in Transactions
    BY Zenon, <1>3 DEF Transactions, Pcs
  <1>6. t.pc = pc /\ t.id = tx[c].id /\ t.seen = {} /\ t.writes = tx[c].writes
    BY <1>3 DEF Transactions
  <1> HIDE DEF t
  <1>7. Fits(t, clock) /\ DOMAIN t.writes = {}
    BY <1>3, <1>6 DEF Fits
  <1> QED
    BY Zenon, <1>2, <1>4, <1>5, <1>6, <1>7, MoveStep

(* It reads the hardware type, or finds no row.                            *)
LEMMA ReadHwTypeStep ==
  ASSUME None \notin Clients, IInv, NEW c \in Clients, ReadHwType(c)
  PROVE  IInv'
  <1>1. tx[c].pc = "hw" /\ tx \in [Clients -> Transactions] /\ Fits(tx[c], clock) /\ Stored
    BY DEF ReadHwType, IInv, TxOK
  <1>2. CASE Abort(c)
    BY <1>2, AbortStep
  <1>3. CASE Goto(c, "read")
    BY <1>1, <1>3, GotoStep
  <1>4. CASE /\ Exists(tx[c].id)
             /\ tx' = [tx EXCEPT ![c].pc = "slot", ![c].hw = catalog[tx[c].id].hw]
             /\ UNCHANGED <<store, locks>>
    <2>1. catalog[tx[c].id].hw \in HwTypes
      BY <1>1, <1>4 DEF Exists, Stored, CatalogRows
    <2>2. UNCHANGED <<store, locked>> /\ LocksOK'
      BY <1>4 DEF locks, IInv, LocksOK
    <2> DEFINE t == [tx[c] EXCEPT !.pc = "slot", !.hw = catalog[tx[c].id].hw]
    <2>3. tx' = [tx EXCEPT ![c] = t]
      BY Zenon, <1>1, <1>4
    <2>4. t \in Transactions
      BY Zenon, <1>1, <2>1 DEF Transactions, Pcs
    <2>5. /\ t.pc = "slot" /\ t.id = tx[c].id /\ t.hw \in HwTypes
          /\ t.seen = tx[c].seen /\ t.writes = tx[c].writes
      BY <1>1, <2>1 DEF Transactions
    <2> HIDE DEF t
    <2>6. Fits(t, clock) /\ DOMAIN t.writes = {}
      BY <1>1, <2>5 DEF Fits
    <2> QED
      BY Zenon, <2>2, <2>3, <2>4, <2>5, <2>6, MoveStep
  <1> QED
    BY <1>2, <1>3, <1>4 DEF ReadHwType

(* It takes the advisory lock of that type.                                *)
LEMMA LockSlotStep ==
  ASSUME None \notin Clients, IInv, NEW c \in Clients, LockSlot(c)
  PROVE  IInv'
  <1>1. tx[c].pc = "slot" /\ tx \in [Clients -> Transactions] /\ Fits(tx[c], clock)
    BY DEF LockSlot, IInv, TxOK
  <1>2. UNCHANGED <<store, locked>> /\ slot' = [slot EXCEPT ![tx[c].hw] = c]
    BY DEF LockSlot
  <1>3. LocksOK'
    BY Zenon, <1>2 DEF IInv, LocksOK
  <1>4. PICK pc \in {"lock", "read"} : tx' = [tx EXCEPT ![c].pc = pc]
    BY Zenon DEF LockSlot
  <1> DEFINE t == [tx[c] EXCEPT !.pc = pc]
  <1>5. tx' = [tx EXCEPT ![c] = t]
    BY <1>1, <1>4
  <1>6. t \in Transactions
    BY <1>1 DEF Transactions, Pcs
  <1>7. t.pc = pc /\ t.id = tx[c].id /\ t.seen = tx[c].seen /\ t.writes = tx[c].writes
    BY <1>1 DEF Transactions
  <1> HIDE DEF t
  <1>8. Fits(t, clock) /\ DOMAIN t.writes = {}
    BY <1>1, <1>7 DEF Fits
  <1> QED
    BY Zenon, <1>2, <1>3, <1>5, <1>6, <1>7, <1>8, MoveStep

(* The statements that note the version of the row they will wait for.     *)
LEMMA NoteStep ==
  ASSUME None \notin Clients, IInv, NEW c \in Clients,
         NEW pc \in {"locking", "updating"},
         tx[c].pc \in {"lock", "if_none"}, Exists(tx[c].id),
         tx' = [tx EXCEPT ![c].pc = pc,
                          ![c].seen = {[id |-> tx[c].id,
                                        created |-> catalog[tx[c].id].created]}],
         UNCHANGED <<store, locks>>
  PROVE  IInv'
  <1>1. tx \in [Clients -> Transactions] /\ Fits(tx[c], clock) /\ Stored
    BY DEF IInv, TxOK
  <1>2. UNCHANGED <<store, locked>> /\ LocksOK'
    BY DEF locks, IInv, LocksOK
  <1> DEFINE n == catalog[tx[c].id].created
             r == [id |-> tx[c].id, created |-> n]
             t == [tx[c] EXCEPT !.pc = pc, !.seen = {r}]
  <1>3. n \in Nat /\ n <= clock /\ tx[c].id \in Ids
    BY <1>1 DEF Exists, Stored, CatalogRows
  <1>4. tx' = [tx EXCEPT ![c] = t]
    BY Zenon, <1>1
  <1> HIDE DEF n
  <1>5. r \in [id : Ids, created : Nat] /\ r.id = tx[c].id /\ r.created = n
    BY <1>3
  <1> HIDE DEF r
  <1>6. t \in Transactions
    BY Zenon, <1>1, <1>5 DEF Transactions, Pcs
  <1>7. t.pc = pc /\ t.id = tx[c].id /\ t.seen = {r} /\ t.writes = tx[c].writes
    BY <1>1 DEF Transactions
  <1> HIDE DEF t
  <1>8. Fits(t, clock) /\ DOMAIN t.writes = {}
    BY <1>1, <1>3, <1>5, <1>7 DEF Fits
  <1> QED
    BY Zenon, <1>2, <1>4, <1>6, <1>7, <1>8, MoveStep

(* It reads the row a second time.                                         *)
LEMMA ReadRowStep ==
  ASSUME None \notin Clients, IInv, NEW c \in Clients, ReadRow(c)
  PROVE  IInv'
  <1>1. tx[c].pc = "read" /\ tx \in [Clients -> Transactions] /\ Fits(tx[c], clock) /\ Stored
    BY DEF ReadRow, IInv, TxOK
  <1>2. CASE Abort(c)
    BY <1>2, AbortStep
  <1>3. CASE /\ Exists(tx[c].id)
             /\ tx' = [tx EXCEPT ![c].pc = "if_none", ![c].hw = catalog[tx[c].id].hw]
             /\ UNCHANGED <<store, locks>>
    <2>1. catalog[tx[c].id].hw \in HwTypes
      BY <1>1, <1>3 DEF Exists, Stored, CatalogRows
    <2>2. UNCHANGED <<store, locked>> /\ LocksOK'
      BY <1>3 DEF locks, IInv, LocksOK
    <2> DEFINE t == [tx[c] EXCEPT !.pc = "if_none", !.hw = catalog[tx[c].id].hw]
    <2>3. tx' = [tx EXCEPT ![c] = t]
      BY Zenon, <1>1, <1>3
    <2>4. t \in Transactions
      BY Zenon, <1>1, <2>1 DEF Transactions, Pcs
    <2>5. /\ t.pc = "if_none" /\ t.id = tx[c].id
          /\ t.seen = tx[c].seen /\ t.writes = tx[c].writes
      BY <1>1 DEF Transactions
    <2> HIDE DEF t
    <2>6. Fits(t, clock) /\ DOMAIN t.writes = {}
      BY <1>1, <2>5 DEF Fits
    <2> QED
      BY Zenon, <2>2, <2>3, <2>4, <2>5, <2>6, MoveStep
  <1> QED
    BY <1>2, <1>3 DEF ReadRow

(* It asks for the row, and notes the version it saw.                      *)
LEMMA SelectStep ==
  ASSUME None \notin Clients, IInv, NEW c \in Clients,
         SelectForUpdate(c) \/ UpdateIfNone(c)
  PROVE  IInv'
  <1>1. CASE Abort(c)
    BY <1>1, AbortStep
  <1>2. CASE tx[c].pc = "if_none" /\ Goto(c, "commit")
    BY <1>2, GotoStep
  <1>3. CASE \E pc \in {"locking", "updating"} :
               /\ tx[c].pc \in {"lock", "if_none"} /\ Exists(tx[c].id)
               /\ tx' = [tx EXCEPT ![c].pc = pc,
                                   ![c].seen = {[id |-> tx[c].id,
                                                 created |-> catalog[tx[c].id].created]}]
               /\ UNCHANGED <<store, locks>>
    BY Zenon, <1>3, NoteStep
  <1>4. CASE SelectForUpdate(c)
    BY <1>1, <1>3, <1>4 DEF SelectForUpdate
  <1>5. CASE UpdateIfNone(c)
    BY <1>2, <1>3, <1>5 DEF UpdateIfNone
  <1> QED
    BY <1>4, <1>5

(* The statements that go on with the row, once it is free: only if it is  *)
(* still the one they noted.                                               *)
LEMMA LockStep ==
  ASSUME None \notin Clients, IInv, NEW c \in Clients,
         SelectedForUpdate(c) \/ UpdatedIfNone(c)
  PROVE  IInv'
  <1>1. /\ tx[c].pc \in {"locking", "updating"} /\ Available(c, tx[c].id)
        /\ tx \in [Clients -> Transactions] /\ Fits(tx[c], clock) /\ Stored /\ LocksOK
    BY DEF SelectedForUpdate, UpdatedIfNone, IInv, TxOK
  <1>2. CASE Abort(c)
    BY <1>2, AbortStep
  <1>3. CASE Goto(c, "commit")
    BY <1>1, <1>3, GotoStep
  <1>4. ASSUME \E r \in tx[c].seen : IsCurrent(r.id, r.created),
               NEW pc \in {"clear", "set"}, NEW hw,
               hw = IF pc = "clear" THEN catalog[tx[c].id].hw ELSE tx[c].hw,
               tx' = [tx EXCEPT ![c] = [tx[c] EXCEPT !.pc = pc, !.hw = hw, !.seen = {}]],
               locked' = [locked EXCEPT ![tx[c].id] = c], UNCHANGED <<store, slot>>
        PROVE  IInv'
    <2>1. Exists(tx[c].id) /\ tx[c].id \in Ids
      BY <1>1, <1>4 DEF IsCurrent, Fits
    <2>2. catalog[tx[c].id].hw \in HwTypes /\ hw \in HwTypes \cup {None}
      BY <1>1, <1>4, <2>1 DEF Exists, Stored, CatalogRows, Transactions
    <2>3. /\ LocksOK' /\ locked'[tx[c].id] = c
          /\ \A i \in Ids, d \in Clients \ {c} : locked[i] = d => locked'[i] = d
      BY <1>1, <1>4, <2>1 DEF LocksOK, Available
    <2> DEFINE t == [tx[c] EXCEPT !.pc = pc, !.hw = hw, !.seen = {}]
    <2>4. tx' = [tx EXCEPT ![c] = t]
      BY <1>4
    <2>5. t \in Transactions
      BY Zenon, <1>1, <2>2 DEF Transactions, Pcs
    <2>6. t.pc = pc /\ t.id = tx[c].id /\ t.hw = hw /\ t.seen = {} /\ t.writes = tx[c].writes
      BY <1>1 DEF Transactions
    <2> HIDE DEF t
    <2>7. Fits(t, clock) /\ DOMAIN t.writes = {}
      BY <1>1, <2>6 DEF Fits
    <2>8. /\ t.pc \in {"clear", "clearing", "set"} => Exists(t.id) /\ locked'[t.id] = c
          /\ t.pc \in {"clear", "clearing"} => t.hw = catalog[t.id].hw
          /\ t.pc # "clearing"
      BY <1>4, <2>1, <2>3, <2>6
    <2>9. UNCHANGED store
      BY <1>4
    <2> QED
      BY Zenon, <2>3, <2>4, <2>5, <2>7, <2>8, <2>9, QuietFrame
  <1>5. CASE /\ \E r \in tx[c].seen : IsCurrent(r.id, r.created)
             /\ tx' = [tx EXCEPT ![c].pc = "clear", ![c].hw = catalog[tx[c].id].hw,
                                 ![c].seen = {}]
             /\ locked' = [locked EXCEPT ![tx[c].id] = c]
             /\ UNCHANGED <<store, slot>>
    <2>1. tx' = [tx EXCEPT ![c] = [tx[c] EXCEPT !.pc = "clear",
                                                !.hw = catalog[tx[c].id].hw, !.seen = {}]]
      BY Zenon, <1>1, <1>5
    <2> QED
      BY Zenon, <1>4, <1>5, <2>1
  <1>6. CASE /\ \E r \in tx[c].seen : IsCurrent(r.id, r.created)
             /\ tx' = [tx EXCEPT ![c].pc = "set", ![c].seen = {}]
             /\ locked' = [locked EXCEPT ![tx[c].id] = c]
             /\ UNCHANGED <<store, slot>>
    <2>1. tx' = [tx EXCEPT ![c] = [tx[c] EXCEPT !.pc = "set", !.hw = tx[c].hw, !.seen = {}]]
      BY <1>1, <1>6 DEF Transactions
    <2> QED
      BY Zenon, <1>4, <1>6, <2>1
  <1>7. CASE SelectedForUpdate(c)
    BY <1>2, <1>5, <1>7 DEF SelectedForUpdate
  <1>8. CASE UpdatedIfNone(c)
    BY <1>3, <1>6, <1>8 DEF UpdatedIfNone
  <1> QED
    BY <1>7, <1>8

(* It asks for the defaults of the type it is about to clear.              *)
LEMMA ClearDefaultsStep ==
  ASSUME None \notin Clients, IInv, NEW c \in Clients, ClearDefaults(c)
  PROVE  IInv'
  <1>1. /\ tx[c].pc = "clear" /\ tx \in [Clients -> Transactions]
        /\ Fits(tx[c], clock) /\ Owns(c) /\ Stored /\ LocksOK
    BY DEF ClearDefaults, IInv, TxOK
  <1> DEFINE saw == {[id |-> i, created |-> catalog[i].created] : i \in Defaults(tx[c].hw)}
             t == [tx[c] EXCEPT !.pc = "clearing", !.seen = saw]
  <1>2. UNCHANGED store /\ locked' = locked /\ LocksOK'
    BY <1>1 DEF ClearDefaults, locks, LocksOK
  <1>3. \A i \in Defaults(tx[c].hw) :
           /\ i \in Ids /\ catalog[i].created \in Nat /\ catalog[i].created <= clock
           /\ catalog[i].hw = tx[c].hw
    BY <1>1 DEF Defaults, Stored, CatalogRows
  <1>4. /\ saw \subseteq [id : Ids, created : Nat]
        /\ \A r \in saw : r.created <= clock /\ catalog[r.id].hw = tx[c].hw
    BY <1>3
  <1>5. tx' = [tx EXCEPT ![c] = t]
    BY Zenon, <1>1 DEF ClearDefaults
  <1> HIDE DEF saw
  <1>6. t \in Transactions
    BY Zenon, <1>1, <1>4 DEF Transactions, Pcs
  <1>7. /\ t.pc = "clearing" /\ t.id = tx[c].id /\ t.hw = tx[c].hw
        /\ t.seen = saw /\ t.writes = tx[c].writes
    BY <1>1 DEF Transactions
  <1> HIDE DEF t
  <1>8. Fits(t, clock) /\ DOMAIN t.writes = {}
    BY <1>1, <1>4, <1>7 DEF Fits
  <1>9. /\ Exists(t.id) /\ locked'[t.id] = c /\ t.hw = catalog[t.id].hw
        /\ \A r \in t.seen : IsCurrent(r.id, r.created) => catalog[r.id].hw = t.hw
    BY <1>1, <1>2, <1>4, <1>7 DEF Owns, Has
  <1>10. \A i \in Ids, d \in Clients \ {c} : locked[i] = d => locked'[i] = d
    BY <1>2
  <1> QED
    BY Zenon, <1>2, <1>5, <1>6, <1>8, <1>9, <1>10, QuietFrame

(* The rows a set_default clears are locked with the same statement.       *)
LEMMA ClearedDefaultsStep ==
  ASSUME None \notin Clients, IInv, NEW c \in Clients, ClearedDefaults(c)
  PROVE  IInv'
  <1> DEFINE still == {r.id : r \in {s \in tx[c].seen : /\ IsCurrent(s.id, s.created)
                                                        /\ catalog[s.id].is_default}}
             w == [i \in still |-> FALSE]
             t == [tx[c] EXCEPT !.pc = "set", !.seen = {}, !.writes = w]
  <1>1. /\ tx[c].pc = "clearing" /\ tx \in [Clients -> Transactions]
        /\ Fits(tx[c], clock) /\ Owns(c) /\ Stored /\ LocksOK
    BY DEF ClearedDefaults, IInv, TxOK
  <1>2. tx[c].seen \subseteq [id : Ids, created : Nat] /\ tx[c].id \in Ids
    BY <1>1 DEF Transactions, Fits
  <1>3. \A i \in still : /\ i \in Ids /\ Exists(i) /\ Available(c, i)
                         /\ catalog[i].hw = tx[c].hw
    BY <1>1, <1>2 DEF ClearedDefaults, IsCurrent, Owns
  <1>4. /\ UNCHANGED store /\ slot' = slot
        /\ locked' = [i \in Ids |-> IF i \in still THEN c ELSE locked[i]]
    BY DEF ClearedDefaults
  <1>5. tx' = [tx EXCEPT ![c] = t]
    BY Zenon, <1>1 DEF ClearedDefaults
  <1> HIDE DEF still
  <1>6. w \in Writes /\ DOMAIN w = still
    <2>1. still \in SUBSET Ids /\ w \in [still -> BOOLEAN]
      BY <1>3
    <2> QED
      BY Zenon, <2>1, WritesFit
  <1> HIDE DEF w
  <1>7. t \in Transactions
    BY Zenon, <1>1, <1>6 DEF Transactions, Pcs
  <1>8. t.pc = "set" /\ t.id = tx[c].id /\ t.seen = {} /\ t.writes = w
    BY <1>1 DEF Transactions
  <1> HIDE DEF t
  <1>9. Fits(t, clock)
    BY <1>2, <1>8 DEF Fits
  <1>10. tx'[c] = t /\ \A d \in Clients \ {c} : tx'[d] = tx[d]
    BY <1>1, <1>5
  <1>11. catalog' = catalog /\ clock' = clock
    BY <1>4 DEF store
  <1>12. /\ LocksOK'
         /\ \A i \in Ids, d \in Clients \ {c} : locked[i] = d => locked'[i] = d
    BY <1>1, <1>3, <1>4 DEF LocksOK, Available
  <1>13. Has(c)'
    BY <1>1, <1>2, <1>4, <1>8, <1>10, <1>11 DEF Owns, Has, Exists
  <1>14. \A i \in still : /\ Exists(i)' /\ locked'[i] = c
                          /\ catalog'[i].hw = catalog'[tx'[c].id].hw
    BY <1>1, <1>3, <1>4, <1>8, <1>10, <1>11 DEF Owns, Exists
  <1>15. Owns(c)'
    BY <1>6, <1>8, <1>10, <1>13, <1>14 DEF Owns
  <1>16. Clears(c)' /\ \A d \in Clients : OneMarker(c, d)'
    BY <1>8, <1>10 DEF Clears, OneMarker, Marked
  <1>17. \A d \in Clients \ {c} : Clears(d)'
    BY <1>10, <1>11 DEF IInv, Clears, Marked
  <1>18. Stored'
    BY <1>1, <1>11 DEF Stored
  <1> QED
    BY Zenon, <1>5, <1>7, <1>9, <1>11, <1>12, <1>15, <1>16, <1>17, <1>18,
       TransactionFrame

(* The unique index: a row is marked while no other transaction writes a   *)
(* row of the type, and no default of the type is left that the            *)
(* transaction does not clear.                                             *)
LEMMA MarkDefaultStep ==
  ASSUME None \notin Clients, IInv, NEW c \in Clients, MarkDefault(c)
  PROVE  IInv'
  <1>1. /\ tx[c].pc = "set" /\ Writers(c) = {} /\ tx \in [Clients -> Transactions]
        /\ Fits(tx[c], clock) /\ Owns(c) /\ Has(c) /\ Stored /\ LocksOK
    BY DEF MarkDefault, IInv, TxOK, Owns
  <1>2. CASE Abort(c)
    BY <1>2, AbortStep
  <1> DEFINE w == [i \in DOMAIN tx[c].writes \cup {tx[c].id} |-> i = tx[c].id]
             t == [tx[c] EXCEPT !.pc = "commit", !.writes = w]
  <1>3. CASE /\ ~Duplicate(c)
             /\ tx' = [tx EXCEPT ![c].pc = "commit", ![c].writes = w]
             /\ UNCHANGED <<store, locks>>
    <2>1. tx[c].id \in Ids /\ DOMAIN tx[c].writes \subseteq Ids
      BY <1>1 DEF Owns, Exists, Stored, Fits
    <2>2. tx' = [tx EXCEPT ![c] = t]
      BY Zenon, <1>1, <1>3
    <2>3. /\ w \in Writes /\ DOMAIN w = DOMAIN tx[c].writes \cup {tx[c].id}
          /\ \A i \in DOMAIN w : w[i] = (i = tx[c].id)
      <3>1. DOMAIN tx[c].writes \cup {tx[c].id} \in SUBSET Ids
        BY <2>1
      <3>2. w \in [DOMAIN tx[c].writes \cup {tx[c].id} -> BOOLEAN]
        OBVIOUS
      <3>3. w \in Writes
        BY Zenon, <3>1, <3>2, WritesFit
      <3> QED
        BY <3>3
    <2> HIDE DEF w
    <2>4. t \in Transactions
      <3>1. w \in Writes /\ tx[c] \in Transactions
        BY <1>1, <2>3
      <3> QED
        BY Zenon, <3>1 DEF Transactions, Pcs
    <2>5. t.pc = "commit" /\ t.id = tx[c].id /\ t.seen = tx[c].seen /\ t.writes = w
      BY <1>1 DEF Transactions
    <2> HIDE DEF t
    <2>6. Fits(t, clock)
      BY <1>1, <2>1, <2>5 DEF Fits
    <2>7. tx'[c] = t /\ \A d \in Clients \ {c} : tx'[d] = tx[d]
      BY <1>1, <2>2
    <2>8. catalog' = catalog /\ clock' = clock /\ locked' = locked /\ slot' = slot
      BY <1>3 DEF store, locks
    <2>9. Stored' /\ LocksOK'
      BY <1>1, <2>8 DEF Stored, LocksOK
    <2>10. Owns(c)'
      <3>1. \A i \in DOMAIN w : /\ Exists(i) /\ locked[i] = c
                                /\ catalog[i].hw = catalog[tx[c].id].hw
        BY <1>1, <2>3 DEF Owns, Has
      <3>2. Has(c)' /\ \A i : Exists(i)' <=> Exists(i)
        BY <1>1, <2>5, <2>7, <2>8 DEF Has, Exists
      <3> QED
        BY <2>5, <2>7, <2>8, <3>1, <3>2 DEF Owns
    <2>11. Clears(c)'
      <3>1. \A i \in DOMAIN catalog \ DOMAIN w :
               catalog[i].hw = catalog[tx[c].id].hw => ~catalog[i].is_default
        BY <1>3, <2>3 DEF Duplicate, Rivals
      <3> QED
        BY <2>3, <2>5, <2>7, <2>8, <3>1 DEF Clears
    <2>12. \A d \in Clients \ {c} : Clears(d)'
      BY <2>7, <2>8 DEF IInv, Clears, Marked
    <2>13. ASSUME NEW d \in Clients PROVE OneMarker(c, d)'
      <3>1. CASE d = c
        BY <3>1 DEF OneMarker
      <3>2. CASE d # c /\ Marked(d)
        <4>1. Clears(d) /\ Owns(d)
          BY DEF IInv
        <4>2. tx[d].id \in DOMAIN tx[d].writes /\ Exists(tx[d].id) /\ locked[tx[d].id] = d
          BY <3>2, <4>1 DEF Clears, Owns
        <4>3. tx[d].id \in DOMAIN catalog \ {tx[c].id}
          BY <1>1, <3>2, <4>2 DEF Exists, Has
        <4>4. d \notin Writers(c)
          BY <1>1
        <4>5. tx[d].id \notin Rivals(c)
          BY <3>2, <4>2, <4>4 DEF Writers
        <4>6. catalog[tx[d].id].hw # catalog[tx[c].id].hw
          BY <4>3, <4>5 DEF Rivals
        <4> QED
          BY <2>5, <2>7, <2>8, <3>2, <4>6 DEF OneMarker
      <3>3. CASE d # c /\ ~Marked(d)
        BY <2>7, <3>3 DEF OneMarker, Marked
      <3> QED
        BY <3>1, <3>2, <3>3
    <2>14. \A i \in Ids, d \in Clients \ {c} : locked[i] = d => locked'[i] = d
      BY <2>8
    <2> QED
      BY Zenon, <2>2, <2>4, <2>6, <2>8, <2>9, <2>10, <2>11, <2>12, <2>13, <2>14,
         TransactionFrame
  <1> QED
    BY <1>2, <1>3 DEF MarkDefault

(* A commit that wrote nothing is an abort, and the others are a           *)
(* SetDefault of the store.                                                *)
LEMMA CommitIsSetDefault ==
  ASSUME IInv, NEW c \in Clients, Commit(c)
  PROVE  IF Marked(c) THEN tx[c].id \in Ids /\ SetDefault(tx[c].id) ELSE Abort(c)
  <1>1. Stored /\ TxOK /\ Owns(c) /\ Clears(c) /\ tx[c].pc = "commit"
    BY DEF IInv, Commit
  <1>2. CASE ~Marked(c)
    <2>1. DOMAIN tx[c].writes = {}
      BY <1>1, <1>2 DEF Marked
    <2>2. catalog' = [i \in DOMAIN catalog |-> catalog[i]]
      BY <2>1 DEF Commit
    <2>3. UNCHANGED store
      BY <1>1, <2>2 DEF Stored, Commit, store
    <2> QED
      BY <1>2, <2>3 DEF Commit, Abort
  <1>3. CASE Marked(c)
    <2> DEFINE id == tx[c].id
               w == tx[c].writes
    <2>1. /\ id \in DOMAIN w
          /\ \A i \in DOMAIN w : /\ w[i] = (i = id) /\ i \in DOMAIN catalog
                                 /\ catalog[i].hw = catalog[id].hw
          /\ \A i \in DOMAIN catalog \ DOMAIN w :
                catalog[i].hw = catalog[id].hw => ~catalog[i].is_default
      BY <1>1, <1>3 DEF Clears, Owns, Exists
    <2>2. ASSUME NEW i \in DOMAIN catalog
          PROVE  (IF i \in DOMAIN w THEN [catalog[i] EXCEPT !.is_default = w[i]]
                                    ELSE catalog[i])
               = (IF catalog[i].hw = catalog[id].hw
                  THEN [catalog[i] EXCEPT !.is_default = (i = id)] ELSE catalog[i])
      <3>1. CASE i \in DOMAIN w
        BY <2>1, <3>1
      <3>2. CASE i \notin DOMAIN w /\ catalog[i].hw = catalog[id].hw
        <4>1. catalog[i] \in CatalogRows /\ catalog[i].is_default = FALSE /\ i # id
          BY <1>1, <2>1, <3>2 DEF Stored, CatalogRows
        <4>2. [catalog[i] EXCEPT !.is_default = FALSE] = catalog[i]
          BY <4>1 DEF CatalogRows
        <4> QED
          BY Zenon, <3>2, <4>1, <4>2
      <3>3. CASE i \notin DOMAIN w /\ catalog[i].hw # catalog[id].hw
        BY <3>3
      <3> QED
        BY <3>1, <3>2, <3>3
    <2>3. catalog' = [i \in DOMAIN catalog |->
                        IF i \in DOMAIN w THEN [catalog[i] EXCEPT !.is_default = w[i]]
                                          ELSE catalog[i]]
      BY DEF Commit
    <2>4. catalog' = [i \in DOMAIN catalog |->
                        IF catalog[i].hw = catalog[id].hw
                        THEN [catalog[i] EXCEPT !.is_default = (i = id)]
                        ELSE catalog[i]]
      BY <2>2, <2>3, Zenon
    <2>5. Exists(id) /\ id \in Ids
      BY <1>1, <2>1 DEF Exists, Stored
    <2> QED
      BY <1>3, <2>4, <2>5 DEF SetDefault, Commit
  <1> QED
    BY <1>2, <1>3

(* A commit changes flags of rows that only it had locked.                 *)
LEMMA CommitStep ==
  ASSUME None \notin Clients, IInv, NEW c \in Clients, Commit(c)
  PROVE  IInv'
  <1>1. CASE ~Marked(c)
    BY <1>1, CommitIsSetDefault, AbortStep
  <1>2. CASE Marked(c)
    <2>1. SetDefault(tx[c].id) /\ End(c) /\ clock' = clock
      BY Zenon, <1>2, CommitIsSetDefault DEF Commit
    <2>2. /\ tx' = [tx EXCEPT ![c] = Closed] /\ LocksOK'
          /\ \A i \in Ids, d \in Clients \ {c} : locked[i] = d => locked'[i] = d
      BY <2>1, EndLocks
    <2>3. /\ tx \in [Clients -> Transactions] /\ Stored
          /\ Exists(tx[c].id) /\ Owns(c) /\ Clears(c)
      BY <2>1 DEF IInv, TxOK, SetDefault
    <2>4. tx'[c] = Closed /\ \A d \in Clients \ {c} : tx'[d] = tx[d]
      BY <2>2, <2>3
    <2>5. /\ catalog' = [i \in DOMAIN catalog |-> catalog'[i]] /\ DOMAIN catalog' = DOMAIN catalog
          /\ \A i \in DOMAIN catalog : catalog'[i] =
                IF catalog[i].hw = catalog[tx[c].id].hw
                THEN [catalog[i] EXCEPT !.is_default = (i = tx[c].id)]
                ELSE catalog[i]
      BY <2>1 DEF SetDefault
    <2>6. \A i \in DOMAIN catalog :
             /\ catalog'[i] \in CatalogRows /\ catalog'[i].hw = catalog[i].hw
             /\ catalog'[i].created = catalog[i].created
             /\ catalog[i].hw # catalog[tx[c].id].hw => catalog'[i] = catalog[i]
      <3> SUFFICES ASSUME NEW i \in DOMAIN catalog
                   PROVE  /\ catalog'[i] \in CatalogRows /\ catalog'[i].hw = catalog[i].hw
                          /\ catalog'[i].created = catalog[i].created
                          /\ catalog[i].hw # catalog[tx[c].id].hw => catalog'[i] = catalog[i]
        OBVIOUS
      <3>1. catalog[i] \in CatalogRows
        BY <2>3 DEF Stored
      <3>2. \/ catalog'[i] = catalog[i]
            \/ /\ catalog[i].hw = catalog[tx[c].id].hw
               /\ \E b \in BOOLEAN : catalog'[i] = [catalog[i] EXCEPT !.is_default = b]
        BY Zenon, <2>5
      <3> QED
        BY Zenon, <3>1, <3>2 DEF CatalogRows
    <2>7. Stored'
      BY <2>1, <2>3, <2>5, <2>6 DEF Stored
    <2>8. Closed.pc = "closed" /\ DOMAIN Closed.writes = {}
      BY NoWrites DEF Closed
    <2>9. Owns(c)' /\ Clears(c)' /\ \A d \in Clients : OneMarker(c, d)'
      BY <2>4, <2>8 DEF Owns, Clears, OneMarker, Marked
    <2>10. ASSUME NEW d \in Clients \ {c} PROVE Clears(d)'
      <3>1. Clears(d) /\ Owns(d) /\ OneMarker(c, d) /\ tx'[d] = tx[d]
        BY <2>4 DEF IInv
      <3>2. CASE ~Marked(d)
        BY <3>1, <3>2 DEF Clears, Marked
      <3>3. CASE Marked(d)
        <4>1. tx[d].id \in DOMAIN catalog /\ catalog[tx[d].id].hw # catalog[tx[c].id].hw
          BY <1>2, <3>1, <3>3 DEF OneMarker, Clears, Owns, Exists
        <4>2. \A i \in DOMAIN catalog' \ DOMAIN tx[d].writes :
                 catalog'[i].hw = catalog'[tx[d].id].hw => ~catalog'[i].is_default
          BY <2>5, <2>6, <3>1, <3>3, <4>1 DEF Clears
        <4> QED
          BY <3>1, <3>3, <4>2 DEF Clears, Marked
      <3> QED
        BY <3>2, <3>3
    <2>11. Closed \in Transactions /\ Fits(Closed, clock)
      BY ClosedFits
    <2> QED
      BY Zenon, <2>1, <2>2, <2>5, <2>6, <2>7, <2>9, <2>10, <2>11, TransactionFrame
  <1> QED
    BY <1>1, <1>2

-----------------------------------------------------------------------------
(* A statement leaves locked rows alone and makes no default: what it adds *)
(* is newer than anything a transaction has noted.                         *)
LEMMA StatementFrame ==
  ASSUME None \notin Clients, IInv, UNCHANGED <<tx, locks>>,
         clock' \in Nat, clock <= clock', Stored',
         \A i \in DOMAIN catalog : locked[i] # None =>
             i \in DOMAIN catalog' /\ catalog'[i].hw = catalog[i].hw,
         \A i \in DOMAIN catalog' :
             \/ /\ i \in DOMAIN catalog /\ catalog'[i].hw = catalog[i].hw
                /\ catalog'[i].created = catalog[i].created
                /\ catalog'[i].is_default = catalog[i].is_default
             \/ ~catalog'[i].is_default /\ catalog'[i].created > clock
  PROVE  IInv'
  <1>1. tx' = tx /\ locked' = locked /\ slot' = slot
    BY DEF locks
  <1>2. Stored /\ TxOK /\ LocksOK /\ clock \in Nat
    BY DEF IInv, Stored
  <1>3. ASSUME NEW c \in Clients PROVE Fits(tx[c], clock')
    <2>1. tx[c].seen \subseteq [id : Ids, created : Nat] /\ Fits(tx[c], clock)
      BY <1>2 DEF TxOK, Transactions
    <2>2. \A r \in tx[c].seen : r.created <= clock'
      BY <1>2, <2>1 DEF Fits
    <2> QED
      BY <2>1, <2>2 DEF Fits
  <1>4. TxOK' /\ LocksOK'
    BY <1>1, <1>2, <1>3 DEF TxOK, LocksOK
  <1>5. ASSUME NEW c \in Clients PROVE Owns(c)' /\ Clears(c)'
    <2>1. /\ Owns(c) /\ Clears(c) /\ tx'[c] = tx[c] /\ tx[c] \in Transactions
          /\ Fits(tx[c], clock)
      BY <1>1, <1>2 DEF IInv, TxOK
    <2>2. \A i : Exists(i) /\ locked[i] = c => Exists(i)' /\ catalog'[i].hw = catalog[i].hw
      BY DEF Exists
    <2>3. Has(c) => Has(c)' /\ catalog'[tx[c].id].hw = catalog[tx[c].id].hw
      BY <1>1, <2>2 DEF Has
    <2>4. /\ tx[c].pc \in {"clear", "clearing", "set"} => Has(c)'
          /\ tx[c].pc \in {"clear", "clearing"} => tx[c].hw = catalog'[tx[c].id].hw
      BY <2>1, <2>3 DEF Owns
    <2>5. ASSUME tx[c].pc = "clearing", NEW r \in tx[c].seen, IsCurrent(r.id, r.created)'
          PROVE  catalog'[r.id].hw = tx[c].hw
      <3>1. r.created \in Nat /\ r.created <= clock
        BY <2>1 DEF Transactions, Fits
      <3>2. r.id \in DOMAIN catalog' /\ catalog'[r.id].created = r.created
        BY <2>5 DEF IsCurrent, Exists
      <3>3. /\ r.id \in DOMAIN catalog /\ catalog'[r.id].hw = catalog[r.id].hw
            /\ catalog'[r.id].created = catalog[r.id].created
        BY <1>2, <3>1, <3>2
      <3> QED
        BY Zenon, <2>1, <2>5, <3>2, <3>3 DEF Owns, IsCurrent, Exists
    <2>6. \A i \in DOMAIN tx[c].writes :
             /\ Exists(i)' /\ locked'[i] = c /\ Has(c)'
             /\ catalog'[i].hw = catalog'[tx[c].id].hw
      BY <1>1, <2>1, <2>2, <2>3 DEF Owns
    <2>7. Owns(c)'
      BY <2>1, <2>4, <2>5, <2>6 DEF Owns, IsCurrent
    <2>8. Clears(c)'
      <3> SUFFICES ASSUME Marked(c)
                   PROVE  \A i \in DOMAIN catalog' \ DOMAIN tx[c].writes :
                             catalog'[i].hw = catalog'[tx[c].id].hw => ~catalog'[i].is_default
        BY <2>1 DEF Clears, Marked
      <3>1. catalog'[tx[c].id].hw = catalog[tx[c].id].hw
        BY <2>1, <2>3 DEF Owns, Marked
      <3> QED
        BY <2>1, <3>1 DEF Clears
    <2> QED
      BY <2>7, <2>8
  <1>6. ASSUME NEW c \in Clients, NEW d \in Clients PROVE OneMarker(c, d)'
    <2>1. \A e \in Clients : Marked(e) => catalog'[tx[e].id].hw = catalog[tx[e].id].hw
      BY DEF IInv, Owns, Has, Marked, Exists
    <2> QED
      BY <1>1, <2>1 DEF IInv, OneMarker, Marked
  <1> QED
    BY <1>4, <1>5, <1>6 DEF IInv

(* A statement that updates one unlocked row.                              *)
LEMMA UpdateStep ==
  ASSUME None \notin Clients, IInv, UNCHANGED <<tx, locks>>, NEW id \in Ids,
         Unlocked(id), Exists(id), NEW row, Update(id, row), row \in CatalogRows,
         row.hw = catalog[id].hw, row.created = catalog[id].created,
         row.is_default = catalog[id].is_default
  PROVE  IInv'
  <1>1. Stored
    BY DEF IInv
  <1>2. catalog' = [catalog EXCEPT ![id] = row] /\ clock' = clock /\ clock \in Nat
    BY <1>1 DEF Update, Stored
  <1>3. /\ DOMAIN catalog' = DOMAIN catalog /\ catalog'[id] = row
        /\ \A i \in DOMAIN catalog \ {id} : catalog'[i] = catalog[i]
        /\ catalog' = [i \in DOMAIN catalog' |-> catalog'[i]]
    BY Zenon, <1>2 DEF Exists
  <1>4. Stored'
    BY <1>1, <1>2, <1>3 DEF Stored, Exists
  <1>5. \A i \in DOMAIN catalog : /\ catalog'[i].hw = catalog[i].hw
                                  /\ catalog'[i].created = catalog[i].created
                                  /\ catalog'[i].is_default = catalog[i].is_default
    BY <1>3
  <1> QED
    BY <1>2, <1>3, <1>4, <1>5, StatementFrame

(* Every single statement.                                                 *)
LEMMA StatementStep ==
  ASSUME None \notin Clients, IInv, Statement
  PROVE  IInv'
  <1>1. Stored /\ UNCHANGED <<tx, locks>> /\ clock \in Nat
    BY DEF IInv, Stored, Statement
  <1>2. ASSUME NEW id \in Ids, Unlocked(id), Exists(id),
               NEW config \in Configs, NEW parsed \in Metadata, NEW available \in BOOLEAN
        PROVE  /\ Update(id, [catalog[id] EXCEPT !.config = config]) => IInv'
               /\ Update(id, [catalog[id] EXCEPT !.available = available]) => IInv'
               /\ Update(id, [catalog[id] EXCEPT !.parsed = parsed,
                                                 !.available = available]) => IInv'
    <2>1. catalog[id] \in CatalogRows
      BY <1>1, <1>2 DEF Stored, Exists
    <2> DEFINE Same(row) == /\ row \in CatalogRows /\ row.hw = catalog[id].hw
                            /\ row.created = catalog[id].created
                            /\ row.is_default = catalog[id].is_default
    <2>2. Same([catalog[id] EXCEPT !.config = config])
      BY <2>1 DEF CatalogRows
    <2>3. Same([catalog[id] EXCEPT !.available = available])
      BY <2>1 DEF CatalogRows
    <2>4. Same([catalog[id] EXCEPT !.parsed = parsed, !.available = available])
      BY Zenon, <2>1 DEF CatalogRows
    <2>5. ASSUME NEW row, Same(row), Update(id, row) PROVE IInv'
      BY <1>1, <1>2, <2>5, UpdateStep
    <2> HIDE DEF Same
    <2> QED
      BY <2>2, <2>3, <2>4, <2>5
  <1>3. CASE Insert
    <2>1. PICK id \in Ids, hw \in HwTypes, config \in Configs, parsed \in Metadata :
             Create(id, hw, config, parsed)
      BY <1>3 DEF Insert
    <2> DEFINE row == [hw |-> hw, is_default |-> FALSE, available |-> FALSE,
                       config |-> config, parsed |-> parsed, created |-> clock + 1]
    <2>2. /\ catalog' = [i \in DOMAIN catalog \cup {id} |-> IF i = id THEN row ELSE catalog[i]]
          /\ clock' = clock + 1 /\ id \notin DOMAIN catalog
      BY <2>1 DEF Create, Exists
    <2>3. row \in CatalogRows /\ row.created = clock + 1 /\ row.is_default = FALSE
      BY <1>1 DEF CatalogRows
    <2> HIDE DEF row
    <2>4. /\ DOMAIN catalog' = DOMAIN catalog \cup {id} /\ catalog'[id] = row
          /\ \A i \in DOMAIN catalog : catalog'[i] = catalog[i]
          /\ catalog' = [i \in DOMAIN catalog' |-> catalog'[i]]
      BY <2>2
    <2>5. clock' \in Nat /\ clock <= clock' /\ \A n \in Nat : n <= clock => n <= clock'
      BY <1>1, <2>2
    <2>6. \A i \in DOMAIN catalog' : catalog'[i] \in CatalogRows /\ catalog'[i].created <= clock'
      <3>1. \A i \in DOMAIN catalog : catalog[i].created \in Nat
        BY <1>1 DEF Stored, CatalogRows
      <3> QED
        BY <1>1, <2>2, <2>3, <2>4, <2>5, <3>1 DEF Stored
    <2>7. Stored'
      BY <1>1, <2>4, <2>5, <2>6 DEF Stored
    <2>8. ~catalog'[id].is_default /\ catalog'[id].created > clock
      BY <1>1, <2>3, <2>4
    <2> QED
      BY <1>1, <2>4, <2>5, <2>7, <2>8, StatementFrame
  <1>4. CASE ReplaceConfig \/ UpdateAvailable \/ UpdateParsed \/ PublishPreparation
    <2>1. CASE ReplaceConfig
      BY Zenon, <1>1, <1>2, <2>1
      DEF ReplaceConfig, UpdateConfig, Stored, CatalogRows, Exists
    <2>2. CASE UpdateAvailable
      BY Zenon, <1>1, <1>2, <2>2
      DEF UpdateAvailable, SetAvailable, Stored, CatalogRows, Exists
    <2>3. CASE UpdateParsed
      BY Zenon, <1>1, <1>2, <2>3
      DEF UpdateParsed, SetParsedComponentsAvailable, Stored, CatalogRows, Exists
    <2>4. CASE PublishPreparation
      BY Zenon, <1>1, <1>2, <2>4
      DEF PublishPreparation, FinishPreparation, IsCurrent, Stored, CatalogRows, Exists
    <2> QED
      BY <1>4, <2>1, <2>2, <2>3, <2>4
  <1>5. CASE Remove
    <2>1. PICK id \in Ids : Unlocked(id) /\ Delete(id)
      BY <1>5 DEF Remove
    <2>2. catalog' = [i \in DOMAIN catalog \ {id} |-> catalog[i]] /\ clock' = clock
      BY <2>1 DEF Delete
    <2>3. /\ DOMAIN catalog' = DOMAIN catalog \ {id}
          /\ \A i \in DOMAIN catalog' : catalog'[i] = catalog[i]
          /\ catalog' = [i \in DOMAIN catalog' |-> catalog'[i]]
      BY <2>2
    <2>4. Stored'
      BY <1>1, <2>2, <2>3 DEF Stored
    <2>5. \A i \in DOMAIN catalog : locked[i] # None => i \in DOMAIN catalog'
      BY <2>1, <2>3 DEF Unlocked
    <2> QED
      BY <1>1, <2>2, <2>3, <2>4, <2>5, StatementFrame
  <1>6. CASE InsertHistory
    <2>1. catalog' = catalog /\ clock' = clock
      BY <1>6 DEF InsertHistory, RecordApplyForIncarnation, RecordApply
    <2>2. Stored'
      BY <1>1, <2>1 DEF Stored
    <2> QED
      BY <1>1, <2>1, <2>2, StatementFrame
  <1> QED
    BY <1>3, <1>4, <1>5, <1>6 DEF Statement

-----------------------------------------------------------------------------
(* Every step keeps the invariant.                                         *)
LEMMA IInvInductive ==
  ASSUME None \notin Clients, IInv, [Next]_vars
  PROVE  IInv'
  <1>1. CASE Statement
    BY <1>1, StatementStep
  <1>2. ASSUME NEW c \in Clients, Transaction(c) PROVE IInv'
    <2>1. CASE Rollback(c)
      BY <2>1, AbortStep DEF Rollback
    <2> QED
      BY <1>2, <2>1, BeginStep, ReadHwTypeStep, LockSlotStep, SelectStep, LockStep,
         ClearDefaultsStep, ClearedDefaultsStep, ReadRowStep, MarkDefaultStep, CommitStep
      DEF Transaction
  <1>3. CASE UNCHANGED vars
    <2>1. UNCHANGED <<catalog, clock, tx, slot, locked>>
      BY <1>3 DEF vars
    <2> QED
      BY <2>1 DEF IInv, Stored, TxOK, LocksOK, Owns, Has, Clears, OneMarker, Marked,
                  Exists, IsCurrent
  <1> QED
    BY <1>1, <1>2, <1>3 DEF Next

(* Every statement is one operation of the store.                          *)
LEMMA StatementRefines ==
  ASSUME IInv, Statement
  PROVE  StoreNext
  <1>1. CASE Insert
    BY <1>1 DEF Insert, StoreNext
  <1>2. CASE ReplaceConfig
    BY <1>2 DEF ReplaceConfig, StoreNext
  <1>3. CASE UpdateAvailable
    BY <1>3 DEF UpdateAvailable, StoreNext
  <1>4. CASE UpdateParsed
    BY <1>4 DEF UpdateParsed, StoreNext
  <1>5. CASE PublishPreparation
    BY <1>5 DEF PublishPreparation, StoreNext
  <1>6. CASE Remove
    BY <1>6 DEF Remove, StoreNext
  <1>7. CASE InsertHistory
    <2>1. PICK id \in Ids, created \in 1 .. MaxApplied : RecordApplyForIncarnation(id, created)
      BY <1>7 DEF InsertHistory
    <2>2. created \in 1 .. clock
      BY <2>1
      DEF RecordApplyForIncarnation, IsCurrent, Exists, IInv, Stored, CatalogRows
    <2> QED
      BY <2>1, <2>2 DEF StoreNext
  <1> QED
    BY <1>1, <1>2, <1>3, <1>4, <1>5, <1>6, <1>7 DEF Statement

(* Every step is an operation of the store, or changes nothing of it.      *)
LEMMA StepRefines ==
  ASSUME IInv, [Next]_vars
  PROVE  [StoreNext]_store
  <1>1. CASE Statement
    BY <1>1, StatementRefines
  <1>2. ASSUME NEW c \in Clients, Transaction(c) PROVE [StoreNext]_store
    <2>1. CASE Commit(c)
      BY <2>1, CommitIsSetDefault DEF StoreNext, Abort
    <2>2. CASE ~Commit(c)
      BY Zenon, <1>2, <2>2
      DEF Transaction, Begin, ReadHwType, LockSlot, SelectForUpdate, SelectedForUpdate,
          ClearDefaults, ClearedDefaults, ReadRow, UpdateIfNone, UpdatedIfNone,
          MarkDefault, Rollback, Abort, Goto
    <2> QED
      BY <2>1, <2>2
  <1>3. CASE UNCHANGED vars
    BY <1>3 DEF vars, store
  <1> QED
    BY <1>1, <1>2, <1>3 DEF Next

(* Whatever the connections interleave, the PostgreSQL store behaves as    *)
(* the contract says: set_default and set_default_if_none take effect at   *)
(* the commit and in one step, a default is never lost or doubled on the   *)
(* way, and every other statement is the operation it stands for.          *)
THEOREM PostgresImplementsStore ==
  ASSUME None \notin Clients
  PROVE  Spec => ImplementsStore
  <1>1. IInv /\ [Next]_vars => IInv'
    BY IInvInductive
  <1>2. IInv /\ [Next]_vars => [StoreNext]_store
    BY StepRefines
  <1>3. Init => StoreInit
    BY DEF Init
  <1> QED
    BY <1>1, <1>2, <1>3, InitIInv, PTL DEF Spec, ImplementsStore, StoreSpec
=============================================================================
