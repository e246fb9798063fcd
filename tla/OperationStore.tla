---------------------------- MODULE OperationStore ----------------------------
(***************************************************************************)
(* persistence/store.py: the SQLite tables operations, idempotency_index   *)
(* and operation_items, and every OperationStore method that writes them.  *)
(* Each method is one transaction (BEGIN IMMEDIATE under a process lock),  *)
(* so it is one action.  The next-state relation lets any caller make any  *)
(* call at any time; the modules of the services EXTEND this one and       *)
(* decide which call is made when.                                         *)
(*                                                                         *)
(* Payloads and error texts are opaque values; timestamps are left out.    *)
(***************************************************************************)
EXTENDS Naturals, FiniteSets

CONSTANTS OpIds,     \* operation ids (uuid4().hex: never drawn twice)
          Keys,      \* idempotency keys
          Types,     \* operation types
          ItemKeys,  \* idempotency keys of bulk items
          Results,   \* result payloads
          Errors,    \* error texts
          None       \* SQL NULL, and "no such row"

VARIABLES ops,       \* operations: row or None
          index,     \* idempotency_index: key -> operation id or None
          items,     \* operation_items: operation id -> item key -> row or None
          usedIds    \* the ids already drawn

storeVars == <<ops, index, items, usedIds>>

Status == {"pending", "completed", "failed", "needs_review"}
TerminalStatus == Status \ {"pending"}

OpRow == [type: Types, key: Keys, status: Status,
          result: Results \cup {None}, error: Errors \cup {None}]
ItemRow == [status: Status, result: Results \cup {None}, error: Errors \cup {None}]

\* NULL is no id, no payload and no row.
ASSUME NoneAssumption ==
    /\ None \notin OpIds \cup Results \cup Errors
    /\ None \notin OpRow
    /\ None \notin ItemRow

StoreInit ==
    /\ ops = [id \in OpIds |-> None]
    /\ index = [k \in Keys |-> None]
    /\ items = [id \in OpIds |-> [ik \in ItemKeys |-> None]]
    /\ usedIds = {}

------------------------------------------------------------------------------
(* Rows. *)

\* Fault: the insert writes a status that OperationStatus does not have.
NewOpRowUnknownStatus(t, k) ==
    [type |-> t, key |-> k, status |-> "new", result |-> None, error |-> None]

NewOpRow(t, k) ==
    [type |-> t, key |-> k, status |-> "pending", result |-> None, error |-> None]
NewItemRow == [status |-> "pending", result |-> None, error |-> None]

LiveOps == {id \in OpIds : ops[id] # None}
RowsOfKey(k) == {id \in LiveOps : ops[id].key = k}

\* Fault: a transition that overwrites any status.
SettledOverAnything(row, s, res, err) ==
    [row EXCEPT !.status = s, !.result = res, !.error = err]

\* Terminal states are sticky: a pending row takes any status, a terminal row
\* only its own again (its payload is then written anew).
Settled(row, s, res, err) ==
    IF row.status \in {"pending", s}
    THEN [row EXCEPT !.status = s, !.result = res, !.error = err]
    ELSE row

\* The payload columns _transition writes: complete passes a result and no
\* error, fail and mark_needs_review an error and no result.
Payload(s, res, err) ==
    IF s = "completed" THEN res \in Results /\ err = None
                       ELSE res = None /\ err \in Errors

\* Fault: reopening keeps the error column.
ReopenedWithError(row) == [row EXCEPT !.status = "pending"]

Reopened(row) == [row EXCEPT !.status = "pending", !.error = None]

------------------------------------------------------------------------------
(* Operations. *)

\* begin_operation inserts the row and its index entry, unless the key is
\* taken in either table (UNIQUE and PRIMARY KEY): then it writes nothing.
KeyFree(k) == RowsOfKey(k) = {} /\ index[k] = None

BeginOperation(t, k, id) ==
    /\ KeyFree(k)
    /\ id \notin usedIds
    /\ usedIds' = usedIds \cup {id}
    /\ ops' = [ops EXCEPT ![id] = NewOpRow(t, k)]
    /\ index' = [index EXCEPT ![k] = id]
    /\ UNCHANGED items

\* _transition: a missing row raises and a sticky one is returned as it is,
\* both without a write.
Transition(id, s, res, err) ==
    /\ ops' = IF ops[id] = None THEN ops
              ELSE [ops EXCEPT ![id] = Settled(@, s, res, err)]
    /\ UNCHANGED <<index, items, usedIds>>

\* Fault: the index entry survives its operation.
DeleteKeepingIndex(id) ==
    /\ ops' = [ops EXCEPT ![id] = None]
    /\ items' = [items EXCEPT ![id] = [ik \in ItemKeys |-> None]]
    /\ UNCHANGED <<index, usedIds>>

\* delete_operation: items, index entry and row go in one transaction; a
\* missing row is a no-op.
DeleteOperation(id) ==
    /\ ops' = [ops EXCEPT ![id] = None]
    /\ index' = [k \in Keys |-> IF index[k] = id THEN None ELSE index[k]]
    /\ items' = [items EXCEPT ![id] = [ik \in ItemKeys |-> None]]
    /\ UNCHANGED usedIds

\* Fault: reset does not refuse a completed operation.
ResetEvenCompleted(id) ==
    /\ ops' = IF ops[id] = None THEN ops
              ELSE [ops EXCEPT ![id] = Reopened(@)]
    /\ UNCHANGED <<index, items, usedIds>>

\* reset_operation_for_retry: a missing or completed operation raises, a
\* pending one is returned as it is.
ResetOperation(id) ==
    /\ ops' = IF ops[id] # None /\ ops[id].status \in {"failed", "needs_review"}
              THEN [ops EXCEPT ![id] = Reopened(@)]
              ELSE ops
    /\ UNCHANGED <<index, items, usedIds>>

------------------------------------------------------------------------------
(* Items. *)

\* begin_item: UNIQUE(operation_id, key) makes the second insert a read, and
\* the foreign key refuses an item without its operation.
BeginItem(id, ik) ==
    /\ items' = IF ops[id] # None /\ items[id][ik] = None
                THEN [items EXCEPT ![id][ik] = NewItemRow]
                ELSE items
    /\ UNCHANGED <<ops, index, usedIds>>

\* _transition_item: as _transition, on one item.
TransitionItem(id, ik, s, res, err) ==
    /\ items' = IF items[id][ik] = None THEN items
                ELSE [items EXCEPT ![id][ik] = Settled(@, s, res, err)]
    /\ UNCHANGED <<ops, index, usedIds>>

\* reset_items_for_retry: every failed or needs_review item of the operation
\* goes back to pending; completed items keep their result.
ResetItems(id) ==
    /\ items' = [items EXCEPT ![id] =
                    [ik \in ItemKeys |->
                        IF @[ik] # None /\ @[ik].status \in {"failed", "needs_review"}
                        THEN Reopened(@[ik])
                        ELSE @[ik]]]
    /\ UNCHANGED <<ops, index, usedIds>>

------------------------------------------------------------------------------

StoreNext ==
    \E id \in OpIds :
        \/ \E t \in Types, k \in Keys : BeginOperation(t, k, id)
        \/ \E s \in TerminalStatus, res \in Results \cup {None}, err \in Errors \cup {None} :
              Payload(s, res, err) /\ Transition(id, s, res, err)
        \/ DeleteOperation(id)
        \/ ResetOperation(id)
        \/ \E ik \in ItemKeys : BeginItem(id, ik)
        \/ \E ik \in ItemKeys, s \in TerminalStatus,
              res \in Results \cup {None}, err \in Errors \cup {None} :
              Payload(s, res, err) /\ TransitionItem(id, ik, s, res, err)
        \/ ResetItems(id)

StoreSpec == StoreInit /\ [][StoreNext]_storeVars

------------------------------------------------------------------------------
(* Properties. *)

StoreTypeOK ==
    /\ ops \in [OpIds -> OpRow \cup {None}]
    /\ index \in [Keys -> OpIds \cup {None}]
    /\ items \in [OpIds -> [ItemKeys -> ItemRow \cup {None}]]
    /\ usedIds \in SUBSET OpIds

\* The index and the operations table agree in both directions, across any
\* sequence of begins and deletes.  Were an index entry to outlive its row,
\* every later begin_operation of that key would roll back and then find no
\* row to read back ("operation lookup failed immediately after insert").
IndexAgrees ==
    /\ \A k \in Keys : index[k] # None => ops[index[k]] # None /\ ops[index[k]].key = k
    /\ \A id \in LiveOps : index[ops[id].key] = id

\* One idempotency key never has two operations at once: what a caller reads
\* back by key is the operation every other caller of the key sees.
OneOperationPerKey == \A k \in Keys : \A i, j \in RowsOfKey(k) : i = j

\* No item outlives its operation (the foreign key the delete order respects):
\* an operation id that is free again starts without leftovers.
ItemsHaveParent ==
    \A id \in OpIds, ik \in ItemKeys : items[id][ik] # None => ops[id] # None

\* What a row's payload columns may hold, for its status.
Consistent(row) ==
    /\ row.status = "pending" => row.result = None /\ row.error = None
    /\ row.status = "completed" => row.result # None /\ row.error = None
    /\ row.status \in {"failed", "needs_review"} => row.result = None /\ row.error # None

\* A replay never answers with a leftover: through every sequence of
\* transitions and resets, on operations and on items, a completed row has a
\* result and no error, a failed or needs_review row an error and no result,
\* and a reopened one neither.
PayloadMatchesStatus ==
    /\ \A id \in LiveOps : Consistent(ops[id])
    /\ \A id \in OpIds, ik \in ItemKeys :
          items[id][ik] # None => Consistent(items[id][ik])

\* A completed operation or item stays completed until its operation is
\* deleted: no late failure, retry or concurrent writer takes a success back.
CompletedSticks ==
    [][\A id \in LiveOps :
          /\ ops[id].status = "completed" =>
                ops'[id] = None \/ ops'[id].status = "completed"
          /\ \A ik \in ItemKeys :
                items[id][ik] # None /\ items[id][ik].status = "completed" =>
                    \/ ops'[id] = None
                    \/ items'[id][ik] # None /\ items'[id][ik].status = "completed"
      ]_storeVars

\* The ledger of the keys, as the tables represent it.
SlotOf(k) ==
    IF index[k] = None
    THEN [status |-> "free", result |-> None, error |-> None]
    ELSE [status |-> ops[index[k]].status,
          result |-> ops[index[k]].result,
          error |-> ops[index[k]].error]

LedgerSlots == [k \in Keys |-> SlotOf(k)]

Ledger == INSTANCE KeyLedger WITH slot <- LedgerSlots

\* The tables implement the ledger: one claim per key, one kind of outcome per
\* claim, reopening only of what is not completed.
ImplementsLedger == Ledger!LedgerSpec
==============================================================================
