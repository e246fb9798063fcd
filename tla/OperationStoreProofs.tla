------------------------- MODULE OperationStoreProofs -------------------------
(***************************************************************************)
(* Proofs about OperationStore for any sets of ids, keys, items and        *)
(* payloads.  One invariant, StoreInv, carries everything: a lemma per     *)
(* store method shows that the method preserves it.  The modules of the    *)
(* services reuse these lemmas: whatever they do to the tables, they do by *)
(* these methods.                                                          *)
(***************************************************************************)
EXTENDS OperationStore, TLAPS

\* A row's id was drawn: a fresh id never names an existing row.
LiveIdsDrawn == LiveOps \subseteq usedIds

\* The inductive invariant.  OneOperationPerKey follows from it.  A begin
\* keeps IndexAgrees and ItemsHaveParent only because its id is fresh, which
\* LiveIdsDrawn says of the tables; a reset keeps PayloadMatchesStatus only
\* because a failed row had no result to leave behind.
StoreInv ==
    /\ StoreTypeOK
    /\ LiveIdsDrawn
    /\ IndexAgrees
    /\ ItemsHaveParent
    /\ PayloadMatchesStatus

\* Typing of rows: each way a row is written gives a row.
LEMMA NewRows ==
    ASSUME NEW t \in Types, NEW k \in Keys
    PROVE  /\ NewOpRow(t, k) \in OpRow
           /\ NewItemRow \in ItemRow
           /\ Consistent(NewOpRow(t, k))
           /\ Consistent(NewItemRow)
BY DEF NewOpRow, NewItemRow, OpRow, ItemRow, Status, Consistent

\* A settled operation row is a row of the same key, consistent if the row
\* was, and a completed row is still completed.
LEMMA SettledOpRow ==
    ASSUME NEW row \in OpRow, NEW s \in TerminalStatus,
           NEW res \in Results \cup {None}, NEW err \in Errors \cup {None},
           Payload(s, res, err), Consistent(row)
    PROVE  /\ Settled(row, s, res, err) \in OpRow
           /\ Settled(row, s, res, err).key = row.key
           /\ Consistent(Settled(row, s, res, err))
           /\ row.status = "completed" => Settled(row, s, res, err).status = "completed"
BY NoneAssumption DEF Settled, OpRow, Status, TerminalStatus, Payload, Consistent

LEMMA SettledItemRow ==
    ASSUME NEW row \in ItemRow, NEW s \in TerminalStatus,
           NEW res \in Results \cup {None}, NEW err \in Errors \cup {None},
           Payload(s, res, err), Consistent(row)
    PROVE  /\ Settled(row, s, res, err) \in ItemRow
           /\ Consistent(Settled(row, s, res, err))
           /\ row.status = "completed" => Settled(row, s, res, err).status = "completed"
BY NoneAssumption DEF Settled, ItemRow, Status, TerminalStatus, Payload, Consistent

LEMMA ReopenedOpRow ==
    ASSUME NEW row \in OpRow, Consistent(row), row.status \in {"failed", "needs_review"}
    PROVE  /\ Reopened(row) \in OpRow
           /\ Reopened(row).key = row.key
           /\ Consistent(Reopened(row))
BY DEF Reopened, OpRow, Status, Consistent

LEMMA ReopenedItemRow ==
    ASSUME NEW row \in ItemRow, Consistent(row), row.status \in {"failed", "needs_review"}
    PROVE  Reopened(row) \in ItemRow /\ Consistent(Reopened(row))
BY DEF Reopened, ItemRow, Status, Consistent

------------------------------------------------------------------------------

LEMMA InitInv == StoreInit => StoreInv
BY DEF StoreInit, StoreInv, StoreTypeOK, IndexAgrees, ItemsHaveParent,
       PayloadMatchesStatus, LiveOps, LiveIdsDrawn

LEMMA BeginOperationInv ==
    ASSUME StoreInv, NEW id \in OpIds, NEW t \in Types, NEW k \in Keys,
           BeginOperation(t, k, id)
    PROVE  StoreInv'
<1> USE NoneAssumption DEF StoreInv, BeginOperation
<1>0. ops[id] = None
  BY DEF LiveIdsDrawn, LiveOps
<1>1. StoreTypeOK'
  BY NewRows DEF StoreTypeOK
<1>2. LiveIdsDrawn'
  BY DEF StoreTypeOK, LiveIdsDrawn, LiveOps
<1>3. IndexAgrees'
  BY <1>0, NewRows DEF IndexAgrees, StoreTypeOK, KeyFree, RowsOfKey, LiveOps, NewOpRow
<1>4. ItemsHaveParent'
  BY <1>0, NewRows DEF ItemsHaveParent, StoreTypeOK
<1>5. PayloadMatchesStatus'
  BY <1>0, NewRows DEF PayloadMatchesStatus, StoreTypeOK, LiveOps
<1>6. QED
  BY <1>1, <1>2, <1>3, <1>4, <1>5

LEMMA TransitionInv ==
    ASSUME StoreInv, NEW id \in OpIds, NEW s \in TerminalStatus,
           NEW res \in Results \cup {None}, NEW err \in Errors \cup {None},
           Payload(s, res, err), Transition(id, s, res, err)
    PROVE  StoreInv'
<1> USE NoneAssumption DEF StoreInv
<1>1. CASE ops[id] = None
  BY <1>1 DEF Transition, StoreTypeOK, LiveIdsDrawn, IndexAgrees, ItemsHaveParent,
              PayloadMatchesStatus, LiveOps
<1>2. CASE ops[id] # None
  <2> DEFINE row == Settled(ops[id], s, res, err)
  <2>1. ops[id] \in OpRow /\ Consistent(ops[id])
    BY <1>2 DEF StoreTypeOK, PayloadMatchesStatus, LiveOps
  <2>2. row \in OpRow /\ row.key = ops[id].key /\ Consistent(row)
    BY <2>1, SettledOpRow
  <2>3. ops' = [ops EXCEPT ![id] = row] /\ UNCHANGED <<index, items, usedIds>>
    BY <1>2 DEF Transition
  <2> HIDE DEF row
  <2>4. StoreTypeOK' /\ LiveIdsDrawn'
    BY <1>2, <2>2, <2>3 DEF StoreTypeOK, LiveIdsDrawn, LiveOps
  <2>5. IndexAgrees'
    BY <1>2, <2>2, <2>3 DEF StoreTypeOK, IndexAgrees, LiveOps
  <2>6. ItemsHaveParent' /\ PayloadMatchesStatus'
    BY <1>2, <2>2, <2>3 DEF StoreTypeOK, ItemsHaveParent, PayloadMatchesStatus, LiveOps
  <2>7. QED
    BY <2>4, <2>5, <2>6
<1>3. QED
  BY <1>1, <1>2

LEMMA DeleteOperationInv ==
    ASSUME StoreInv, NEW id \in OpIds, DeleteOperation(id)
    PROVE  StoreInv'
<1> USE NoneAssumption DEF StoreInv, DeleteOperation
<1>1. StoreTypeOK' /\ LiveIdsDrawn'
  BY DEF StoreTypeOK, LiveIdsDrawn, LiveOps
<1>2. IndexAgrees'
  BY DEF StoreTypeOK, IndexAgrees, LiveOps, OpRow
<1>3. ItemsHaveParent' /\ PayloadMatchesStatus'
  BY DEF StoreTypeOK, ItemsHaveParent, PayloadMatchesStatus, LiveOps
<1>4. QED
  BY <1>1, <1>2, <1>3

LEMMA ResetOperationInv ==
    ASSUME StoreInv, NEW id \in OpIds, ResetOperation(id)
    PROVE  StoreInv'
<1> USE NoneAssumption DEF StoreInv
<1> DEFINE reopens == ops[id] # None /\ ops[id].status \in {"failed", "needs_review"}
<1>1. CASE ~reopens
  BY <1>1 DEF ResetOperation, StoreTypeOK, LiveIdsDrawn, IndexAgrees, ItemsHaveParent,
              PayloadMatchesStatus, LiveOps
<1>2. CASE reopens
  <2> DEFINE row == Reopened(ops[id])
  <2>1. ops[id] \in OpRow /\ Consistent(ops[id])
    BY <1>2 DEF StoreTypeOK, PayloadMatchesStatus, LiveOps
  <2>2. row \in OpRow /\ row.key = ops[id].key /\ Consistent(row)
    BY <1>2, <2>1, ReopenedOpRow
  <2>3. ops' = [ops EXCEPT ![id] = row] /\ UNCHANGED <<index, items, usedIds>>
    BY <1>2 DEF ResetOperation
  <2> HIDE DEF row
  <2>4. StoreTypeOK' /\ LiveIdsDrawn'
    BY <1>2, <2>2, <2>3 DEF StoreTypeOK, LiveIdsDrawn, LiveOps
  <2>5. IndexAgrees'
    BY <1>2, <2>2, <2>3 DEF StoreTypeOK, IndexAgrees, LiveOps
  <2>6. ItemsHaveParent' /\ PayloadMatchesStatus'
    BY <1>2, <2>2, <2>3 DEF StoreTypeOK, ItemsHaveParent, PayloadMatchesStatus, LiveOps
  <2>7. QED
    BY <2>4, <2>5, <2>6
<1>3. QED
  BY <1>1, <1>2

\* What the three item methods have in common: they leave the operations alone
\* and write only consistent item rows, under an operation that exists.
LEMMA ItemWriteInv ==
    ASSUME StoreInv, UNCHANGED <<ops, index, usedIds>>,
           items' \in [OpIds -> [ItemKeys -> ItemRow \cup {None}]],
           \A i \in OpIds, ik \in ItemKeys :
              items'[i][ik] # None => ops[i] # None /\ Consistent(items'[i][ik])
    PROVE  StoreInv'
BY DEF StoreInv, StoreTypeOK, LiveIdsDrawn, IndexAgrees, ItemsHaveParent,
       PayloadMatchesStatus, LiveOps

LEMMA BeginItemInv ==
    ASSUME StoreInv, NEW id \in OpIds, NEW ik \in ItemKeys, BeginItem(id, ik)
    PROVE  StoreInv'
<1>1. NewItemRow \in ItemRow /\ Consistent(NewItemRow)
  BY DEF NewItemRow, ItemRow, Status, Consistent
<1>2. items' \in [OpIds -> [ItemKeys -> ItemRow \cup {None}]]
  BY <1>1 DEF StoreInv, StoreTypeOK, BeginItem
<1>3. ASSUME NEW i \in OpIds, NEW jk \in ItemKeys, items'[i][jk] # None
      PROVE  ops[i] # None /\ Consistent(items'[i][jk])
  BY <1>1, <1>3 DEF StoreInv, StoreTypeOK, ItemsHaveParent, PayloadMatchesStatus, BeginItem
<1>4. QED
  BY <1>2, <1>3, ItemWriteInv DEF BeginItem

LEMMA TransitionItemInv ==
    ASSUME StoreInv, NEW id \in OpIds, NEW ik \in ItemKeys, NEW s \in TerminalStatus,
           NEW res \in Results \cup {None}, NEW err \in Errors \cup {None},
           Payload(s, res, err), TransitionItem(id, ik, s, res, err)
    PROVE  StoreInv'
<1>1. CASE items[id][ik] = None
  BY <1>1, ItemWriteInv
     DEF TransitionItem, StoreInv, StoreTypeOK, ItemsHaveParent, PayloadMatchesStatus
<1>2. CASE items[id][ik] # None
  <2> DEFINE row == Settled(items[id][ik], s, res, err)
  <2>1. items[id][ik] \in ItemRow /\ Consistent(items[id][ik]) /\ ops[id] # None
    BY <1>2 DEF StoreInv, StoreTypeOK, PayloadMatchesStatus, ItemsHaveParent
  <2>2. row \in ItemRow /\ Consistent(row)
    BY <2>1, SettledItemRow
  <2>3. items' = [items EXCEPT ![id][ik] = row] /\ UNCHANGED <<ops, index, usedIds>>
    BY <1>2 DEF TransitionItem
  <2> HIDE DEF row
  <2>4. items' \in [OpIds -> [ItemKeys -> ItemRow \cup {None}]]
    BY <2>2, <2>3 DEF StoreInv, StoreTypeOK
  <2>5. ASSUME NEW i \in OpIds, NEW jk \in ItemKeys, items'[i][jk] # None
        PROVE  ops[i] # None /\ Consistent(items'[i][jk])
    BY <2>1, <2>2, <2>3, <2>5
       DEF StoreInv, StoreTypeOK, ItemsHaveParent, PayloadMatchesStatus
  <2>6. QED
    BY <2>3, <2>4, <2>5, ItemWriteInv
<1>3. QED
  BY <1>1, <1>2

LEMMA ResetItemsInv ==
    ASSUME StoreInv, NEW id \in OpIds, ResetItems(id)
    PROVE  StoreInv'
<1> DEFINE back(ik) == items[id][ik] # None
                       /\ items[id][ik].status \in {"failed", "needs_review"}
           now == [ik \in ItemKeys |->
                      IF back(ik) THEN Reopened(items[id][ik]) ELSE items[id][ik]]
<1>1. items' = [items EXCEPT ![id] = now] /\ UNCHANGED <<ops, index, usedIds>>
  BY DEF ResetItems
<1>2. ASSUME NEW ik \in ItemKeys
      PROVE  /\ now[ik] \in ItemRow \cup {None}
             /\ now[ik] # None => ops[id] # None /\ Consistent(now[ik])
  <2>1. items[id][ik] \in ItemRow \cup {None}
    BY DEF StoreInv, StoreTypeOK
  <2>2. items[id][ik] # None => ops[id] # None /\ Consistent(items[id][ik])
    BY DEF StoreInv, ItemsHaveParent, PayloadMatchesStatus
  <2>3. CASE back(ik)
    <3>1. Reopened(items[id][ik]) \in ItemRow /\ Consistent(Reopened(items[id][ik]))
      BY <2>1, <2>2, <2>3, ReopenedItemRow
    <3>2. QED
      BY <2>2, <2>3, <3>1
  <2>4. CASE ~back(ik)
    BY <2>1, <2>2, <2>4
  <2>5. QED
    BY <2>3, <2>4
<1>3. items' \in [OpIds -> [ItemKeys -> ItemRow \cup {None}]]
  <2>1. now \in [ItemKeys -> ItemRow \cup {None}]
    BY <1>2
  <2> HIDE DEF now
  <2>2. QED
    BY <1>1, <2>1 DEF StoreInv, StoreTypeOK
<1>4. ASSUME NEW i \in OpIds, NEW ik \in ItemKeys, items'[i][ik] # None
      PROVE  ops[i] # None /\ Consistent(items'[i][ik])
  <2>1. CASE i = id
    <3>1. items'[i][ik] = now[ik]
      BY <1>1, <2>1 DEF StoreInv, StoreTypeOK
    <3> HIDE DEF now
    <3>2. QED
      BY <1>2, <1>4, <2>1, <3>1
  <2>2. CASE i # id
    <3>1. items'[i][ik] = items[i][ik]
      BY <1>1, <2>2 DEF StoreInv, StoreTypeOK
    <3>2. QED
      BY <1>4, <3>1 DEF StoreInv, ItemsHaveParent, PayloadMatchesStatus
  <2>3. QED
    BY <2>1, <2>2
<1>5. QED
  BY <1>1, <1>3, <1>4, ItemWriteInv

------------------------------------------------------------------------------

LEMMA StepInv == StoreInv /\ [StoreNext]_storeVars => StoreInv'
<1> SUFFICES ASSUME StoreInv, [StoreNext]_storeVars
             PROVE  StoreInv'
  OBVIOUS
<1>1. ASSUME NEW id \in OpIds, NEW t \in Types, NEW k \in Keys, BeginOperation(t, k, id)
      PROVE  StoreInv'
  BY <1>1, BeginOperationInv
<1>2. ASSUME NEW id \in OpIds, NEW s \in TerminalStatus, NEW res \in Results \cup {None},
             NEW err \in Errors \cup {None}, Payload(s, res, err),
             Transition(id, s, res, err)
      PROVE  StoreInv'
  BY <1>2, TransitionInv
<1>3. ASSUME NEW id \in OpIds, DeleteOperation(id)
      PROVE  StoreInv'
  BY <1>3, DeleteOperationInv
<1>4. ASSUME NEW id \in OpIds, ResetOperation(id)
      PROVE  StoreInv'
  BY <1>4, ResetOperationInv
<1>5. ASSUME NEW id \in OpIds, NEW ik \in ItemKeys, BeginItem(id, ik)
      PROVE  StoreInv'
  BY <1>5, BeginItemInv
<1>6. ASSUME NEW id \in OpIds, NEW ik \in ItemKeys, NEW s \in TerminalStatus,
             NEW res \in Results \cup {None}, NEW err \in Errors \cup {None},
             Payload(s, res, err), TransitionItem(id, ik, s, res, err)
      PROVE  StoreInv'
  BY <1>6, TransitionItemInv
<1>7. ASSUME NEW id \in OpIds, ResetItems(id)
      PROVE  StoreInv'
  BY <1>7, ResetItemsInv
<1>8. CASE UNCHANGED storeVars
  BY <1>8 DEF storeVars, StoreInv, StoreTypeOK, LiveIdsDrawn, IndexAgrees,
              ItemsHaveParent, PayloadMatchesStatus, LiveOps
<1>9. QED
  BY <1>1, <1>2, <1>3, <1>4, <1>5, <1>6, <1>7, <1>8 DEF StoreNext

\* Every reachable state of the tables satisfies the inductive invariant,
\* whatever the callers of the store do.
THEOREM StoreInvariant == StoreSpec => []StoreInv
BY InitInv, StepInv, PTL DEF StoreSpec

\* The variables keep their types (the columns hold what the schema says).
THEOREM StoreTypes == StoreSpec => []StoreTypeOK
<1>1. StoreInv => StoreTypeOK
  BY DEF StoreInv
<1>2. QED
  BY <1>1, StoreInvariant, PTL

\* idempotency_index and operations agree after any sequence of begins and
\* deletes, so no key is ever wedged between the two tables.
THEOREM IndexAndTableAgree == StoreSpec => []IndexAgrees
<1>1. StoreInv => IndexAgrees
  BY DEF StoreInv
<1>2. QED
  BY <1>1, StoreInvariant, PTL

\* An idempotency key names at most one operation.
THEOREM KeyNamesOneOperation == StoreSpec => []OneOperationPerKey
<1>1. StoreInv => OneOperationPerKey
  BY DEF StoreInv, IndexAgrees, OneOperationPerKey, RowsOfKey, LiveOps
<1>2. QED
  BY <1>1, StoreInvariant, PTL

\* Items never outlive their operation.
THEOREM NoOrphanItems == StoreSpec => []ItemsHaveParent
<1>1. StoreInv => ItemsHaveParent
  BY DEF StoreInv
<1>2. QED
  BY <1>1, StoreInvariant, PTL

\* The payload columns always fit the status: a replay never answers with a
\* leftover of an earlier attempt.
THEOREM PayloadFitsStatus == StoreSpec => []PayloadMatchesStatus
<1>1. StoreInv => PayloadMatchesStatus
  BY DEF StoreInv
<1>2. QED
  BY <1>1, StoreInvariant, PTL

------------------------------------------------------------------------------
(* Completed rows. *)

CompletedStays(id) ==
    /\ ops[id].status = "completed" => ops'[id] = None \/ ops'[id].status = "completed"
    /\ \A ik \in ItemKeys :
          items[id][ik] # None /\ items[id][ik].status = "completed" =>
              \/ ops'[id] = None
              \/ items'[id][ik] # None /\ items'[id][ik].status = "completed"

LEMMA TransitionKeepsCompleted ==
    ASSUME StoreInv, NEW id \in OpIds, NEW s \in TerminalStatus,
           NEW res \in Results \cup {None}, NEW err \in Errors \cup {None},
           Payload(s, res, err), Transition(id, s, res, err), NEW i \in LiveOps
    PROVE  CompletedStays(i)
<1>1. ops[i] \in OpRow /\ Consistent(ops[i])
  BY DEF StoreInv, StoreTypeOK, PayloadMatchesStatus, LiveOps
<1>2. CASE i = id
  <2>1. ops'[i] = Settled(ops[i], s, res, err)
    BY <1>2 DEF Transition, LiveOps, StoreInv, StoreTypeOK
  <2>2. ops[i].status = "completed" => ops'[i].status = "completed"
    BY <1>1, <2>1, SettledOpRow
  <2>3. QED
    BY <2>2 DEF CompletedStays, Transition
<1>3. CASE i # id
  BY <1>3 DEF CompletedStays, Transition, LiveOps, StoreInv, StoreTypeOK
<1>4. QED
  BY <1>2, <1>3

LEMMA TransitionItemKeepsCompleted ==
    ASSUME StoreInv, NEW id \in OpIds, NEW jk \in ItemKeys, NEW s \in TerminalStatus,
           NEW res \in Results \cup {None}, NEW err \in Errors \cup {None},
           Payload(s, res, err), TransitionItem(id, jk, s, res, err), NEW i \in LiveOps
    PROVE  CompletedStays(i)
<1> SUFFICES ASSUME NEW ik \in ItemKeys, items[i][ik] # None,
                    items[i][ik].status = "completed"
             PROVE  items'[i][ik] # None /\ items'[i][ik].status = "completed"
  BY DEF CompletedStays, TransitionItem
<1>1. items[i][ik] \in ItemRow /\ Consistent(items[i][ik])
  BY DEF StoreInv, StoreTypeOK, PayloadMatchesStatus, LiveOps
<1>2. CASE i = id /\ ik = jk
  <2>1. items'[i][ik] = Settled(items[i][ik], s, res, err)
    BY <1>2 DEF TransitionItem, LiveOps, StoreInv, StoreTypeOK
  <2>2. QED
    BY <1>1, <2>1, SettledItemRow, NoneAssumption
<1>3. CASE ~(i = id /\ ik = jk)
  BY <1>3 DEF TransitionItem, LiveOps, StoreInv, StoreTypeOK
<1>4. QED
  BY <1>2, <1>3

LEMMA StepKeepsCompleted ==
    ASSUME StoreInv, [StoreNext]_storeVars, NEW i \in LiveOps
    PROVE  CompletedStays(i)
<1>1. i \in OpIds /\ ops[i] # None
  BY DEF LiveOps
<1>2. ASSUME NEW id \in OpIds, NEW t \in Types, NEW k \in Keys, BeginOperation(t, k, id)
      PROVE  CompletedStays(i)
  BY <1>1, <1>2 DEF CompletedStays, BeginOperation, StoreInv, StoreTypeOK, LiveIdsDrawn
<1>3. ASSUME NEW id \in OpIds, NEW s \in TerminalStatus, NEW res \in Results \cup {None},
             NEW err \in Errors \cup {None}, Payload(s, res, err),
             Transition(id, s, res, err)
      PROVE  CompletedStays(i)
  BY <1>3, TransitionKeepsCompleted
<1>4. ASSUME NEW id \in OpIds, DeleteOperation(id)
      PROVE  CompletedStays(i)
  BY <1>1, <1>4 DEF CompletedStays, DeleteOperation, StoreInv, StoreTypeOK
<1>5. ASSUME NEW id \in OpIds, ResetOperation(id)
      PROVE  CompletedStays(i)
  BY <1>1, <1>5 DEF CompletedStays, ResetOperation, StoreInv, StoreTypeOK
<1>6. ASSUME NEW id \in OpIds, NEW ik \in ItemKeys, BeginItem(id, ik)
      PROVE  CompletedStays(i)
  BY <1>1, <1>6 DEF CompletedStays, BeginItem, StoreInv, StoreTypeOK
<1>7. ASSUME NEW id \in OpIds, NEW ik \in ItemKeys, NEW s \in TerminalStatus,
             NEW res \in Results \cup {None}, NEW err \in Errors \cup {None},
             Payload(s, res, err), TransitionItem(id, ik, s, res, err)
      PROVE  CompletedStays(i)
  BY <1>7, TransitionItemKeepsCompleted
<1>8. ASSUME NEW id \in OpIds, ResetItems(id)
      PROVE  CompletedStays(i)
  BY <1>1, <1>8 DEF CompletedStays, ResetItems, StoreInv, StoreTypeOK
<1>9. CASE UNCHANGED storeVars
  BY <1>1, <1>9 DEF CompletedStays, storeVars
<1>10. QED
  BY <1>2, <1>3, <1>4, <1>5, <1>6, <1>7, <1>8, <1>9 DEF StoreNext

\* No step of any caller takes a completed operation or item back, short of
\* deleting the operation.
THEOREM SuccessIsNeverTakenBack == StoreSpec => CompletedSticks
<1>1. StoreInv /\ [StoreNext]_storeVars =>
        [\A i \in LiveOps : CompletedStays(i)]_storeVars
  BY StepKeepsCompleted
<1>2. (\A i \in LiveOps : CompletedStays(i)) =>
        \A id \in LiveOps :
          /\ ops[id].status = "completed" =>
                ops'[id] = None \/ ops'[id].status = "completed"
          /\ \A ik \in ItemKeys :
                items[id][ik] # None /\ items[id][ik].status = "completed" =>
                    \/ ops'[id] = None
                    \/ items'[id][ik] # None /\ items'[id][ik].status = "completed"
  BY DEF CompletedStays
<1>3. QED
  BY <1>1, <1>2, StoreInvariant, PTL DEF StoreSpec, CompletedSticks
------------------------------------------------------------------------------
(* The tables implement the ledger. *)

\* The slot of a key that has a row, and of one that has none.
LEMMA SlotValue ==
    ASSUME StoreInv, NEW id \in LiveOps
    PROVE  /\ ops[id].key \in Keys
           /\ index[ops[id].key] = id
           /\ SlotOf(ops[id].key) =
                [status |-> ops[id].status, result |-> ops[id].result, error |-> ops[id].error]
<1>1. id \in OpIds /\ ops[id] \in OpRow
  BY DEF LiveOps, StoreInv, StoreTypeOK
<1>2. QED
  BY <1>1, NoneAssumption DEF StoreInv, IndexAgrees, SlotOf, OpRow

LEMMA SlotStatus ==
    ASSUME StoreInv, NEW id \in LiveOps
    PROVE  LedgerSlots[ops[id].key].status = ops[id].status
<1>1. LedgerSlots[ops[id].key] = SlotOf(ops[id].key)
  BY SlotValue DEF LedgerSlots
<1>2. index[ops[id].key] = id /\ id # None
  BY SlotValue, NoneAssumption DEF LiveOps
<1>3. SlotOf(ops[id].key).status = ops[id].status
  BY <1>2 DEF SlotOf
<1>4. QED
  BY <1>1, <1>3

\* Writing one live row in place changes the slot of its key to the new row
\* and no other slot.
LEMMA RowWriteIsSlotWrite ==
    ASSUME StoreInv, NEW id \in LiveOps, NEW row \in OpRow, row.key = ops[id].key,
           ops' = [ops EXCEPT ![id] = row], index' = index
    PROVE  LedgerSlots' =
             [LedgerSlots EXCEPT ![ops[id].key] =
                [status |-> row.status, result |-> row.result, error |-> row.error]]
<1> DEFINE k == ops[id].key
           new == [status |-> row.status, result |-> row.result, error |-> row.error]
<1>1. /\ id \in OpIds /\ ops[id] \in OpRow /\ k \in Keys /\ index[k] = id
      /\ id # None /\ ops'[id] = row
  BY SlotValue, NoneAssumption DEF LiveOps, StoreInv, StoreTypeOK
<1>2. SlotOf(k)' = new
  BY <1>1 DEF SlotOf
<1>3. ASSUME NEW j \in Keys, j # k
      PROVE  SlotOf(j)' = SlotOf(j)
  <2>1. index[j] # id
    BY <1>1, <1>3 DEF StoreInv, IndexAgrees
  <2>2. index[j] # None => ops'[index[j]] = ops[index[j]]
    BY <1>1, <2>1 DEF StoreInv, StoreTypeOK
  <2>3. QED
    BY <2>2 DEF SlotOf
<1>4. QED
  BY <1>1, <1>2, <1>3 DEF LedgerSlots

LEMMA BeginIsClaim ==
    ASSUME StoreInv, NEW id \in OpIds, NEW t \in Types, NEW k \in Keys,
           BeginOperation(t, k, id)
    PROVE  Ledger!Claim(k)
<1>1. LedgerSlots[k] = Ledger!Free
  BY DEF LedgerSlots, SlotOf, Ledger!Free, BeginOperation, KeyFree
<1>2. ops[id] = None /\ id # None
  BY NoneAssumption DEF BeginOperation, StoreInv, LiveIdsDrawn, LiveOps
<1>3. ops'[id] = NewOpRow(t, k) /\ index'[k] = id
  BY DEF BeginOperation, StoreInv, StoreTypeOK
<1>4. SlotOf(k)' = Ledger!Claimed
  BY <1>2, <1>3 DEF SlotOf, NewOpRow, Ledger!Claimed
<1>5. ASSUME NEW j \in Keys, j # k
      PROVE  SlotOf(j)' = SlotOf(j)
  <2>1. index'[j] = index[j]
    BY <1>5 DEF BeginOperation, StoreInv, StoreTypeOK
  <2>2. index[j] # None => index[j] # id /\ ops'[index[j]] = ops[index[j]]
    BY <1>2 DEF BeginOperation, StoreInv, StoreTypeOK, IndexAgrees
  <2>3. QED
    BY <2>1, <2>2 DEF SlotOf
<1>6. LedgerSlots' = [LedgerSlots EXCEPT ![k] = Ledger!Claimed]
  BY <1>4, <1>5 DEF LedgerSlots
<1>7. QED
  BY <1>1, <1>6 DEF Ledger!Claim

\* A transition that the row accepts settles the slot; one that it refuses, or
\* that finds no row, changes no slot.
LEMMA TransitionIsSettle ==
    ASSUME StoreInv, NEW id \in OpIds, NEW s \in TerminalStatus,
           NEW res \in Results \cup {None}, NEW err \in Errors \cup {None},
           Payload(s, res, err), Transition(id, s, res, err)
    PROVE  LedgerSlots' = LedgerSlots \/ \E k \in Keys : Ledger!Settle(k, s)
<1>1. CASE ops[id] # None /\ ops[id].status \in {"pending", s}
  <2> DEFINE row == Settled(ops[id], s, res, err)
             out == [status |-> s, result |-> res, error |-> err]
             k == ops[id].key
  <2>1. id \in LiveOps /\ ops[id] \in OpRow /\ Consistent(ops[id])
    BY <1>1 DEF StoreInv, StoreTypeOK, PayloadMatchesStatus, LiveOps
  <2>2. row \in OpRow /\ row.key = ops[id].key
    BY <2>1, SettledOpRow
  <2>3. row.status = s /\ row.result = res /\ row.error = err
    BY <1>1, <2>1 DEF Settled, OpRow
  <2>4. ops' = [ops EXCEPT ![id] = row] /\ index' = index
    BY <1>1 DEF Transition
  <2> HIDE DEF row
  <2>5. LedgerSlots' = [LedgerSlots EXCEPT ![k] = out]
    BY <2>1, <2>2, <2>3, <2>4, RowWriteIsSlotWrite
  <2>6. k \in Keys /\ LedgerSlots[k].status \in {"pending", s}
    BY <1>1, <2>1, SlotValue, SlotStatus
  <2>7. out \in Ledger!Outcome(s)
    BY DEF Payload, Ledger!Outcome, TerminalStatus, Status
  <2>8. QED
    BY <2>5, <2>6, <2>7 DEF Ledger!Settle
<1>2. CASE ~(ops[id] # None /\ ops[id].status \in {"pending", s})
  <2>1. ops' = ops /\ index' = index
    BY <1>2 DEF Transition, Settled, StoreInv, StoreTypeOK
  <2>2. QED
    BY <2>1 DEF LedgerSlots, SlotOf
<1>3. QED
  BY <1>1, <1>2

LEMMA ResetIsReopen ==
    ASSUME StoreInv, NEW id \in OpIds, ResetOperation(id)
    PROVE  LedgerSlots' = LedgerSlots \/ \E k \in Keys : Ledger!Reopen(k)
<1>1. CASE ops[id] # None /\ ops[id].status \in {"failed", "needs_review"}
  <2> DEFINE row == Reopened(ops[id])
             k == ops[id].key
  <2>1. id \in LiveOps /\ ops[id] \in OpRow /\ Consistent(ops[id])
    BY <1>1 DEF StoreInv, StoreTypeOK, PayloadMatchesStatus, LiveOps
  <2>2. row \in OpRow /\ row.key = ops[id].key
    BY <1>1, <2>1, ReopenedOpRow
  <2>3. row.status = "pending" /\ row.result = None /\ row.error = None
    BY <1>1, <2>1 DEF Reopened, OpRow, Consistent
  <2>4. ops' = [ops EXCEPT ![id] = row] /\ index' = index
    BY <1>1 DEF ResetOperation
  <2> HIDE DEF row
  <2>5. LedgerSlots' = [LedgerSlots EXCEPT ![k] = Ledger!Claimed]
    BY <2>1, <2>2, <2>3, <2>4, RowWriteIsSlotWrite DEF Ledger!Claimed
  <2>6. k \in Keys /\ LedgerSlots[k].status \in {"failed", "needs_review"}
    BY <1>1, <2>1, SlotValue, SlotStatus
  <2>7. QED
    BY <2>5, <2>6 DEF Ledger!Reopen
<1>2. CASE ~(ops[id] # None /\ ops[id].status \in {"failed", "needs_review"})
  BY <1>2 DEF ResetOperation, LedgerSlots, SlotOf
<1>3. QED
  BY <1>1, <1>2

LEMMA DeleteIsDrop ==
    ASSUME StoreInv, NEW id \in OpIds, DeleteOperation(id)
    PROVE  LedgerSlots' = LedgerSlots \/ \E k \in Keys : Ledger!Drop(k)
<1>1. CASE ops[id] # None
  <2>0. id \in LiveOps /\ ops[id] \in OpRow
    BY <1>1 DEF StoreInv, StoreTypeOK, LiveOps
  <2> PICK k \in Keys : k = ops[id].key
    BY <2>0 DEF OpRow
  <2>1. index[k] = id /\ id # None
    BY <2>0, SlotValue, NoneAssumption
  <2>2. LedgerSlots[k].status \in Status
    BY <2>0, SlotStatus DEF OpRow
  <2>3. LedgerSlots[k] # Ledger!Free
    BY <2>2 DEF Ledger!Free, Status
  <2>4. SlotOf(k)' = Ledger!Free
    BY <2>1 DEF SlotOf, DeleteOperation, Ledger!Free
  <2>5. ASSUME NEW j \in Keys, j # k
        PROVE  SlotOf(j)' = SlotOf(j)
    <3>1. index[j] # id
      BY <2>1, <2>5 DEF StoreInv, IndexAgrees, LiveOps
    <3>2. index'[j] = index[j]
      BY <3>1 DEF DeleteOperation
    <3>3. index[j] # None => ops'[index[j]] = ops[index[j]]
      BY <3>1 DEF DeleteOperation, StoreInv, StoreTypeOK
    <3>4. QED
      BY <3>2, <3>3 DEF SlotOf
  <2>6. LedgerSlots' = [LedgerSlots EXCEPT ![k] = Ledger!Free]
    BY <2>1, <2>4, <2>5 DEF LedgerSlots
  <2>7. QED
    BY <2>1, <2>3, <2>6 DEF Ledger!Drop
<1>2. CASE ops[id] = None
  <2>1. \A j \in Keys : index[j] # id
    BY <1>2, NoneAssumption DEF StoreInv, IndexAgrees
  <2>2. ops' = ops /\ index' = index
    BY <1>2, <2>1 DEF DeleteOperation, StoreInv, StoreTypeOK
  <2>3. QED
    BY <2>2 DEF LedgerSlots, SlotOf
<1>3. QED
  BY <1>1, <1>2

LEMMA StepIsLedgerStep ==
    ASSUME StoreInv, [StoreNext]_storeVars
    PROVE  [Ledger!LedgerNext]_LedgerSlots
<1> USE DEF Ledger!LedgerNext
<1>1. ASSUME NEW id \in OpIds, NEW t \in Types, NEW k \in Keys, BeginOperation(t, k, id)
      PROVE  Ledger!LedgerNext
  BY <1>1, BeginIsClaim
<1>2. ASSUME NEW id \in OpIds, NEW s \in TerminalStatus, NEW res \in Results \cup {None},
             NEW err \in Errors \cup {None}, Payload(s, res, err),
             Transition(id, s, res, err)
      PROVE  [Ledger!LedgerNext]_LedgerSlots
  BY <1>2, TransitionIsSettle DEF TerminalStatus, Status, Ledger!TerminalStatus
<1>3. ASSUME NEW id \in OpIds, DeleteOperation(id)
      PROVE  [Ledger!LedgerNext]_LedgerSlots
  BY <1>3, DeleteIsDrop
<1>4. ASSUME NEW id \in OpIds, ResetOperation(id)
      PROVE  [Ledger!LedgerNext]_LedgerSlots
  BY <1>4, ResetIsReopen
<1>5. ASSUME UNCHANGED <<ops, index>>
      PROVE  LedgerSlots' = LedgerSlots
  BY <1>5 DEF LedgerSlots, SlotOf
<1>6. QED
  BY <1>1, <1>2, <1>3, <1>4, <1>5
     DEF StoreNext, storeVars, BeginItem, TransitionItem, ResetItems

\* The three tables implement the abstract ledger: every transaction of the
\* store is one ledger step on one key, or none.
THEOREM StoreImplementsLedger == StoreSpec => ImplementsLedger
<1>1. StoreInit => Ledger!LedgerInit
  BY DEF StoreInit, Ledger!LedgerInit, LedgerSlots, SlotOf, Ledger!Free
<1>2. StoreInv /\ [StoreNext]_storeVars => [Ledger!LedgerNext]_LedgerSlots
  BY StepIsLedgerStep
<1>3. QED
  BY <1>1, <1>2, StoreInvariant, PTL DEF StoreSpec, ImplementsLedger, Ledger!LedgerSpec
==============================================================================
