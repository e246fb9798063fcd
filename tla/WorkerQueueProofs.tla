--------------------------- MODULE WorkerQueueProofs ---------------------------
(***************************************************************************)
(* Proofs about the loop of run_bulk for any number of requests and items, *)
(* whatever the handler does.  The bulks never delete an operation, so     *)
(* their rows stay, and completed ones stay completed: RunOK, what a loop  *)
(* may rely on between its own steps, survives the steps of all others.    *)
(* The proofs about the bulks EXTEND this module.                          *)
(***************************************************************************)
EXTENDS WorkerQueue, OperationStoreProofs, SequenceTheorems

Elements(s) == {s[i] : i \in DOMAIN s}

\* What a loop may rely on: its operation exists, its todo is from its list,
\* the handler's item has a row, and what it has recorded as completed is.
RunOK(r) ==
    run[r] # None =>
        /\ run[r].id \in LiveOps
        /\ Elements(run[r].todo) \subseteq Elements(run[r].list)
        /\ Len(run[r].todo) <= Len(run[r].list)
        /\ run[r].step # "next" => run[r].todo # <<>> /\ items[run[r].id][Item(r)] # None
        /\ \A ik \in ItemKeys : run[r].records[ik] = "completed" =>
              items[run[r].id][ik] # None /\ items[run[r].id][ik].status = "completed"
        /\ run[r].stop => \/ run[r].todo = <<>>
                          \/ \A ik \in ItemKeys : run[r].records[ik] \in {None, "completed"}

QueueInv ==
    /\ StoreInv
    /\ RetryTypeOK
    /\ QueueTypeOK
    /\ \A r \in Runs : RunOK(r)

------------------------------------------------------------------------------
(* The store under bulks. *)

\* The store's methods other than delete_operation.
KeepingNext ==
    \E id \in OpIds :
        \/ \E t \in Types, k \in Keys : BeginOperation(t, k, id)
        \/ \E s \in TerminalStatus, res \in Results \cup {None}, err \in Errors \cup {None} :
              Payload(s, res, err) /\ Transition(id, s, res, err)
        \/ ResetOperation(id)
        \/ \E ik \in ItemKeys : BeginItem(id, ik)
        \/ \E ik \in ItemKeys, s \in TerminalStatus,
              res \in Results \cup {None}, err \in Errors \cup {None} :
              Payload(s, res, err) /\ TransitionItem(id, ik, s, res, err)
        \/ ResetItems(id)

\* No row goes, and a completed item stays completed.
RowsStay ==
    /\ LiveOps \subseteq LiveOps'
    /\ \A id \in LiveOps : /\ ops'[id].type = ops[id].type
                           /\ ops'[id].key = ops[id].key
                           /\ ops[id].status = "completed" => ops'[id].status = "completed"
    /\ \A id \in LiveOps, ik \in ItemKeys : items[id][ik] # None =>
          /\ items'[id][ik] # None
          /\ items[id][ik].status = "completed" => items'[id][ik].status = "completed"

LEMMA KeepingIsStoreStep == KeepingNext => StoreNext
BY DEF KeepingNext, StoreNext

LEMMA ItemRowsStay ==
    ASSUME StoreInv, NEW id \in OpIds, NEW jk \in ItemKeys, NEW row \in ItemRow,
           items' = [items EXCEPT ![id][jk] = row], UNCHANGED ops,
           items[id][jk] # None /\ items[id][jk].status = "completed" => row.status = "completed"
    PROVE  RowsStay
<1>1. /\ items \in [OpIds -> [ItemKeys -> ItemRow \cup {None}]]
      /\ None \notin ItemRow
  BY NoneAssumption DEF StoreInv, StoreTypeOK
<1>2. ASSUME NEW i \in LiveOps, NEW ik \in ItemKeys, items[i][ik] # None
      PROVE  /\ items'[i][ik] # None
             /\ items[i][ik].status = "completed" => items'[i][ik].status = "completed"
  <2>1. i \in OpIds
    BY DEF LiveOps
  <2>2. CASE i = id /\ ik = jk
    <3>1. items'[i][ik] = row
      BY <1>1, <2>2
    <3>2. QED
      BY <1>1, <1>2, <2>2, <3>1
  <2>3. CASE ~(i = id /\ ik = jk)
    <3>1. items'[i][ik] = items[i][ik]
      BY <1>1, <2>1, <2>3
    <3>2. QED
      BY <1>2, <3>1
  <2>4. QED
    BY <2>2, <2>3
<1>3. QED
  BY <1>2 DEF RowsStay, LiveOps

LEMMA OpRowsStay ==
    ASSUME StoreInv, NEW id \in OpIds, NEW row \in OpRow,
           ops' = [ops EXCEPT ![id] = row], UNCHANGED items,
           ops[id] # None => /\ row.type = ops[id].type /\ row.key = ops[id].key
                             /\ ops[id].status = "completed" => row.status = "completed"
    PROVE  RowsStay
<1>1. ops \in [OpIds -> OpRow \cup {None}] /\ None \notin OpRow
  BY NoneAssumption DEF StoreInv, StoreTypeOK
<1>2. ASSUME NEW i \in LiveOps
      PROVE  /\ i \in LiveOps'
             /\ ops'[i].type = ops[i].type /\ ops'[i].key = ops[i].key
             /\ ops[i].status = "completed" => ops'[i].status = "completed"
  <2>1. i \in OpIds /\ ops[i] # None
    BY DEF LiveOps
  <2>2. CASE i = id
    <3>1. ops'[i] = row
      BY <1>1, <2>2
    <3>2. QED
      BY <1>1, <2>1, <2>2, <3>1 DEF LiveOps
  <2>3. CASE i # id
    <3>1. ops'[i] = ops[i]
      BY <1>1, <2>1, <2>3
    <3>2. QED
      BY <2>1, <3>1 DEF LiveOps
  <2>4. QED
    BY <2>2, <2>3
<1>3. QED
  BY <1>2 DEF RowsStay

LEMMA UnchangedRowsStay == UNCHANGED storeVars => RowsStay
BY DEF storeVars, RowsStay, LiveOps

LEMMA KeepingRowsStay ==
    ASSUME StoreInv, KeepingNext
    PROVE  RowsStay
<1>1. PICK id \in OpIds :
        \/ \E t \in Types, k \in Keys : BeginOperation(t, k, id)
        \/ \E s \in TerminalStatus, res \in Results \cup {None}, err \in Errors \cup {None} :
              Payload(s, res, err) /\ Transition(id, s, res, err)
        \/ ResetOperation(id)
        \/ \E ik \in ItemKeys : BeginItem(id, ik)
        \/ \E ik \in ItemKeys, s \in TerminalStatus,
              res \in Results \cup {None}, err \in Errors \cup {None} :
              Payload(s, res, err) /\ TransitionItem(id, ik, s, res, err)
        \/ ResetItems(id)
  BY DEF KeepingNext
<1>t. /\ ops \in [OpIds -> OpRow \cup {None}]
      /\ items \in [OpIds -> [ItemKeys -> ItemRow \cup {None}]]
      /\ None \notin OpRow /\ None \notin ItemRow
  BY NoneAssumption DEF StoreInv, StoreTypeOK
<1>2. ASSUME NEW t \in Types, NEW k \in Keys, BeginOperation(t, k, id)
      PROVE  RowsStay
  <2>1. ops[id] = None
    BY <1>2 DEF BeginOperation, StoreInv, LiveIdsDrawn, LiveOps
  <2>2. NewOpRow(t, k) \in OpRow
    BY NewRows
  <2>3. QED
    BY <1>2, <2>1, <2>2, OpRowsStay DEF BeginOperation
<1>3. ASSUME NEW s \in TerminalStatus, NEW res \in Results \cup {None},
             NEW err \in Errors \cup {None}, Payload(s, res, err), Transition(id, s, res, err)
      PROVE  RowsStay
  <2>1. CASE ops[id] = None
    BY <1>3, <2>1 DEF Transition, RowsStay, LiveOps
  <2>2. CASE ops[id] # None
    <3>1. ops[id] \in OpRow /\ Consistent(ops[id])
      BY <1>t, <2>2 DEF StoreInv, PayloadMatchesStatus, LiveOps
    <3>2. PICK row \in OpRow : row = Settled(ops[id], s, res, err)
      BY <1>3, <3>1, SettledOpRow
    <3>3. row.type = ops[id].type
      BY <3>1, <3>2 DEF Settled, OpRow
    <3>4. /\ row.key = ops[id].key
          /\ ops[id].status = "completed" => row.status = "completed"
      BY <1>3, <3>1, <3>2, SettledOpRow
    <3>5. ops' = [ops EXCEPT ![id] = row] /\ UNCHANGED items
      BY <1>3, <2>2, <3>2 DEF Transition
    <3>6. QED
      BY <3>3, <3>4, <3>5, OpRowsStay
  <2>3. QED
    BY <2>1, <2>2
<1>4. ASSUME ResetOperation(id)
      PROVE  RowsStay
  <2>1. CASE ops[id] # None /\ ops[id].status \in {"failed", "needs_review"}
    <3>1. ops[id] \in OpRow /\ Consistent(ops[id])
      BY <1>t, <2>1 DEF StoreInv, PayloadMatchesStatus, LiveOps
    <3>2. PICK row \in OpRow : row = Reopened(ops[id])
      BY <2>1, <3>1, ReopenedOpRow
    <3>3. row.type = ops[id].type /\ row.key = ops[id].key
      BY <3>1, <3>2 DEF Reopened, OpRow
    <3>4. ops' = [ops EXCEPT ![id] = row] /\ UNCHANGED items
      BY <1>4, <2>1, <3>2 DEF ResetOperation
    <3>5. QED
      BY <2>1, <3>3, <3>4, OpRowsStay
  <2>2. CASE ~(ops[id] # None /\ ops[id].status \in {"failed", "needs_review"})
    BY <1>4, <2>2 DEF ResetOperation, RowsStay, LiveOps
  <2>3. QED
    BY <2>1, <2>2
<1>5. ASSUME NEW jk \in ItemKeys, BeginItem(id, jk)
      PROVE  RowsStay
  <2>1. CASE ops[id] # None /\ items[id][jk] = None
    <3>1. NewItemRow \in ItemRow
      BY DEF NewItemRow, ItemRow, Status
    <3>2. QED
      BY <1>5, <2>1, <3>1, ItemRowsStay DEF BeginItem
  <2>2. CASE ~(ops[id] # None /\ items[id][jk] = None)
    BY <1>5, <2>2 DEF BeginItem, RowsStay, LiveOps
  <2>3. QED
    BY <2>1, <2>2
<1>6. ASSUME NEW jk \in ItemKeys, NEW s \in TerminalStatus, NEW res \in Results \cup {None},
             NEW err \in Errors \cup {None}, Payload(s, res, err),
             TransitionItem(id, jk, s, res, err)
      PROVE  RowsStay
  <2>1. CASE items[id][jk] = None
    BY <1>6, <2>1 DEF TransitionItem, RowsStay, LiveOps
  <2>2. CASE items[id][jk] # None
    <3>1. items[id][jk] \in ItemRow /\ Consistent(items[id][jk])
      BY <1>t, <2>2 DEF StoreInv, PayloadMatchesStatus
    <3>2. PICK row \in ItemRow : row = Settled(items[id][jk], s, res, err)
      BY <1>6, <3>1, SettledItemRow
    <3>3. items[id][jk].status = "completed" => row.status = "completed"
      BY <1>6, <3>1, <3>2, SettledItemRow
    <3>4. items' = [items EXCEPT ![id][jk] = row] /\ UNCHANGED ops
      BY <1>6, <2>2, <3>2 DEF TransitionItem
    <3>5. QED
      BY <3>3, <3>4, ItemRowsStay
  <2>3. QED
    BY <2>1, <2>2
<1>7. ASSUME ResetItems(id)
      PROVE  RowsStay
  <2>1. ASSUME NEW i \in LiveOps, NEW ik \in ItemKeys, items[i][ik] # None
        PROVE  /\ items'[i][ik] # None
               /\ items[i][ik].status = "completed" => items'[i][ik].status = "completed"
    <3>1. i \in OpIds /\ items[i][ik] \in ItemRow /\ Consistent(items[i][ik])
      BY <1>t, <2>1 DEF LiveOps, StoreInv, PayloadMatchesStatus
    <3>2. CASE i = id /\ items[i][ik].status \in {"failed", "needs_review"}
      <4>1. Reopened(items[i][ik]) \in ItemRow
        BY <3>1, <3>2, ReopenedItemRow
      <4>2. items'[i][ik] = Reopened(items[i][ik])
        BY <1>7, <1>t, <2>1, <3>1, <3>2 DEF ResetItems
      <4>3. QED
        BY <1>t, <3>2, <4>1, <4>2
    <3>3. CASE ~(i = id /\ items[i][ik].status \in {"failed", "needs_review"})
      <4>1. items'[i][ik] = items[i][ik]
        BY <1>7, <1>t, <3>1, <3>3 DEF ResetItems
      <4>2. QED
        BY <2>1, <4>1
    <3>4. QED
      BY <3>2, <3>3
  <2>2. QED
    BY <1>7, <2>1 DEF ResetItems, RowsStay, LiveOps
<1>8. QED
  BY <1>1, <1>2, <1>3, <1>4, <1>5, <1>6, <1>7

------------------------------------------------------------------------------
(* The operator. *)

LEMMA OperatorKeepsRows ==
    ASSUME StoreInv, RetryTypeOK, RetryNext
    PROVE  RetryTypeOK' /\ (KeepingNext \/ UNCHANGED storeVars)
<1>1. operator \in [Operators -> Retry \cup {None}] /\ ops \in [OpIds -> OpRow \cup {None}]
  BY DEF RetryTypeOK, StoreInv, StoreTypeOK
<1>2. PICK o \in Operators :
          \/ \E id \in OpIds : LookAtOperation(o, id)
          \/ RetryItems(o) \/ RetryOperation(o) \/ OperatorStops(o)
  BY DEF RetryNext
<1>3. ASSUME NEW id \in OpIds, LookAtOperation(o, id)
      PROVE  RetryTypeOK' /\ UNCHANGED storeVars
  <2>1. [id |-> id, seen |-> ops[id].status, step |-> "items"] \in Retry
    BY <1>1, <1>3 DEF LookAtOperation, LiveOps, OpRow, Retry
  <2>2. QED
    BY <1>1, <1>3, <2>1 DEF LookAtOperation, RetryTypeOK
<1>4. CASE RetryItems(o)
  <2>1. operator[o] \in Retry
    BY <1>1, <1>4 DEF RetryItems
  <2>2. [operator[o] EXCEPT !.step = "operation"] \in Retry /\ operator[o].id \in OpIds
    BY <2>1 DEF Retry
  <2>3. RetryTypeOK'
    BY <1>1, <1>4, <2>2 DEF RetryItems, RetryTypeOK
  <2>4. KeepingNext
    BY <1>4, <2>2 DEF RetryItems, KeepingNext
  <2>5. QED
    BY <2>3, <2>4
<1>5. CASE RetryOperation(o)
  <2>1. operator[o].id \in OpIds
    BY <1>1, <1>5 DEF RetryOperation, Retry
  <2>2. QED
    BY <1>1, <1>5, <2>1 DEF RetryOperation, RetryTypeOK, KeepingNext
<1>6. CASE OperatorStops(o)
  BY <1>1, <1>6 DEF OperatorStops, RetryTypeOK
<1>7. QED
  BY <1>2, <1>3, <1>4, <1>5, <1>6

\* A step by which no operation becomes completed.
NoneCompletes ==
    \A id \in LiveOps' : ops'[id].status = "completed" =>
        id \in LiveOps /\ ops[id].status = "completed"

LEMMA SameOpsStay == ASSUME UNCHANGED ops PROVE NoneCompletes
BY DEF NoneCompletes, LiveOps

LEMMA BegunOpsStay ==
    ASSUME StoreInv, NEW t \in Types, NEW k \in Keys, NEW id \in OpIds,
           BeginOperation(t, k, id)
    PROVE  NoneCompletes
<1>1. ops \in [OpIds -> OpRow \cup {None}] /\ ops' = [ops EXCEPT ![id] = NewOpRow(t, k)]
  BY DEF StoreInv, StoreTypeOK, BeginOperation
<1>2. NewOpRow(t, k).status = "pending"
  BY DEF NewOpRow
<1>3. QED
  BY <1>1, <1>2 DEF NoneCompletes, LiveOps

LEMMA ResetOpsStay ==
    ASSUME StoreInv, NEW id \in OpIds, ResetOperation(id)
    PROVE  NoneCompletes
<1>1. ops \in [OpIds -> OpRow \cup {None}]
  BY DEF StoreInv, StoreTypeOK
<1>2. CASE ops[id] # None /\ ops[id].status \in {"failed", "needs_review"}
  <2>1. ops' = [ops EXCEPT ![id] = Reopened(ops[id])] /\ ops[id] \in OpRow
    BY <1>1, <1>2 DEF ResetOperation
  <2>2. Reopened(ops[id]).status = "pending"
    BY <2>1 DEF Reopened, OpRow
  <2>3. QED
    BY <1>1, <2>1, <2>2 DEF NoneCompletes, LiveOps
<1>3. CASE ~(ops[id] # None /\ ops[id].status \in {"failed", "needs_review"})
  BY <1>3, SameOpsStay DEF ResetOperation
<1>4. QED
  BY <1>2, <1>3

\* An operator's steps complete nothing.
LEMMA OperatorCompletesNone ==
    ASSUME StoreInv, RetryTypeOK, RetryNext
    PROVE  NoneCompletes
<1>1. PICK o \in Operators :
        \/ \E id \in OpIds : LookAtOperation(o, id)
        \/ RetryItems(o) \/ RetryOperation(o) \/ OperatorStops(o)
  BY DEF RetryNext
<1>2. CASE RetryOperation(o)
  <2>1. operator[o].id \in OpIds /\ ResetOperation(operator[o].id)
    BY <1>2 DEF RetryOperation, RetryTypeOK, Retry
  <2>2. QED
    BY <2>1, ResetOpsStay
<1>3. CASE ~RetryOperation(o)
  <2>1. UNCHANGED ops
    BY <1>1, <1>3 DEF LookAtOperation, RetryItems, ResetItems, OperatorStops, storeVars
  <2>2. QED
    BY <2>1, SameOpsStay
<1>4. QED
  BY <1>2, <1>3

------------------------------------------------------------------------------
(* Sequences. *)

LEMMA ListElements ==
    ASSUME NEW s \in Seq(ItemKeys), s # <<>>
    PROVE  /\ Head(s) \in ItemKeys /\ Head(s) \in Elements(s)
           /\ Tail(s) \in Seq(ItemKeys)
           /\ Elements(Tail(s)) \subseteq Elements(s)
<1>1. /\ Head(s) \in ItemKeys /\ Tail(s) \in Seq(ItemKeys)
      /\ Len(Tail(s)) = Len(s) - 1
      /\ \A i \in 1 .. Len(Tail(s)) : Tail(s)[i] = s[i + 1]
  BY HeadTailProperties
<1>2. Len(s) \in Nat /\ Len(s) >= 1 /\ DOMAIN s = 1 .. Len(s) /\ Head(s) = s[1]
  BY EmptySeq, LenProperties
<1>3. Head(s) \in Elements(s)
  BY <1>2 DEF Elements
<1>4. ASSUME NEW i \in DOMAIN Tail(s)
      PROVE  Tail(s)[i] \in Elements(s)
  <2>1. i \in 1 .. Len(Tail(s))
    BY <1>1, LenProperties
  <2>2. i + 1 \in DOMAIN s /\ Tail(s)[i] = s[i + 1]
    BY <1>1, <1>2, <2>1
  <2>3. QED
    BY <2>2 DEF Elements
<1>5. QED
  BY <1>1, <1>3, <1>4 DEF Elements

------------------------------------------------------------------------------
(* The loop. *)

LEMMA RunFields ==
    ASSUME QueueTypeOK, NEW r \in Runs, run[r] # None
    PROVE  /\ run[r] \in RunRec
           /\ run[r].id \in OpIds /\ run[r].list \in Seq(ItemKeys)
           /\ run[r].todo \in Seq(ItemKeys) /\ run[r].stop \in BOOLEAN
           /\ run[r].step \in RunSteps
           /\ run[r].floods \in 0 .. (MaxFloodWaits - 1)
           /\ run[r].records \in [ItemKeys -> Status \cup {None}]
BY DEF QueueTypeOK, RunRec

\* The loops that a step leaves alone keep what they rely on.
LEMMA OthersKept ==
    ASSUME QueueTypeOK, RowsStay, NEW s \in Runs, RunOK(s), run'[s] = run[s]
    PROVE  RunOK(s)'
<1> SUFFICES ASSUME run[s] # None
             PROVE  RunOK(s)'
  BY DEF RunOK
<1>1. PICK v : v = run[s]
  OBVIOUS
<1>2. v.id \in OpIds /\ v.todo \in Seq(ItemKeys)
  BY <1>1, RunFields
<1>3. v.id \in LiveOps /\ v.id \in LiveOps'
  BY <1>1 DEF RunOK, RowsStay
<1>4. v.step # "next" => v.todo # <<>> /\ items'[v.id][Head(v.todo)] # None
  <2>1. v.todo # <<>> => Head(v.todo) \in ItemKeys
    BY <1>2, ListElements
  <2>2. QED
    BY <1>1, <1>3, <2>1 DEF RunOK, RowsStay, Item
<1>5. \A ik \in ItemKeys : v.records[ik] = "completed" =>
          items'[v.id][ik] # None /\ items'[v.id][ik].status = "completed"
  BY <1>1, <1>3 DEF RunOK, RowsStay
<1>6. QED
  BY <1>1, <1>3, <1>4, <1>5 DEF RunOK, Item

\* A step of one loop, which leaves it as rec or ends it.
LEMMA LoopSteps ==
    ASSUME QueueTypeOK, \A s \in Runs : RunOK(s), RowsStay, NEW r \in Runs,
           NEW rec \in RunRec \cup {None}, run' = [run EXCEPT ![r] = rec], RunOK(r)'
    PROVE  QueueTypeOK' /\ \A s \in Runs : RunOK(s)'
<1>1. QueueTypeOK'
  BY DEF QueueTypeOK
<1>2. ASSUME NEW s \in Runs, s # r
      PROVE  RunOK(s)'
  <2>1. run'[s] = run[s]
    BY <1>2 DEF QueueTypeOK
  <2>2. QED
    BY <2>1, OthersKept
<1>3. QED
  BY <1>1, <1>2

LEMMA LoopsKept ==
    ASSUME QueueTypeOK, \A s \in Runs : RunOK(s), RowsStay, UNCHANGED run
    PROVE  QueueTypeOK' /\ \A s \in Runs : RunOK(s)'
BY OthersKept DEF QueueTypeOK

LEMMA LoopEnds ==
    ASSUME QueueTypeOK, \A s \in Runs : RunOK(s), RowsStay, NEW r \in Runs, EndRun(r)
    PROVE  QueueTypeOK' /\ \A s \in Runs : RunOK(s)'
<1>1. run' = [run EXCEPT ![r] = None] /\ run'[r] = None
  BY DEF EndRun, QueueTypeOK
<1>2. RunOK(r)'
  BY <1>1 DEF RunOK
<1>3. QED
  BY <1>1, <1>2, LoopSteps

LEMMA LoopStarts ==
    ASSUME QueueTypeOK, \A s \in Runs : RunOK(s), RowsStay, NEW r \in Runs,
           NEW id \in OpIds, id \in LiveOps', NEW list \in Seq(ItemKeys),
           NEW stop \in BOOLEAN, StartRun(r, id, list, stop)
    PROVE  QueueTypeOK' /\ \A s \in Runs : RunOK(s)'
<1> DEFINE rec == [id |-> id, list |-> list, todo |-> list, stop |-> stop, step |-> "next",
                   floods |-> 0, records |-> [ik \in ItemKeys |-> None]]
<1>1. rec \in RunRec
  <2>1. 0 \in 0 .. (MaxFloodWaits - 1)
    BY MaxFloodWaitsAssumption
  <2>2. QED
    BY <2>1 DEF RunRec, RunSteps
<1>2. run' = [run EXCEPT ![r] = rec] /\ run'[r] = rec
  BY DEF StartRun, QueueTypeOK
<1>3. None # "completed"
  BY RecordsAssumption DEF Status
<1>4. RunOK(r)'
  BY <1>2, <1>3, LenProperties DEF RunOK
<1>5. QED
  BY <1>1, <1>2, <1>4, LoopSteps

\* What a loop's record is once an item's outcome is in.
LEMMA RecordedFields ==
    ASSUME NEW rec \in RunRec, rec.todo # <<>>, NEW status \in Status,
           Elements(rec.todo) \subseteq Elements(rec.list), Len(rec.todo) <= Len(rec.list)
    PROVE  LET ik == Head(rec.todo)  new == Recorded(rec, ik, status) IN
           /\ ik \in ItemKeys
           /\ new \in RunRec
           /\ new.id = rec.id /\ new.list = rec.list /\ new.stop = rec.stop
           /\ new.step = "next"
           /\ new.records = [rec.records EXCEPT ![ik] = status]
           /\ rec.stop /\ status # "completed" => new.todo = <<>>
           /\ Elements(new.todo) \subseteq Elements(rec.list)
           /\ Len(new.todo) <= Len(rec.list)
<1> DEFINE ik == Head(rec.todo)
           new == Recorded(rec, ik, status)
           records == [rec.records EXCEPT ![ik] = status]
           todo == IF rec.stop /\ status # "completed" THEN <<>> ELSE Tail(rec.todo)
<1>1. rec.todo \in Seq(ItemKeys) /\ rec.records \in [ItemKeys -> Status \cup {None}]
  BY DEF RunRec
<1>2. ik \in ItemKeys /\ Tail(rec.todo) \in Seq(ItemKeys)
      /\ Elements(Tail(rec.todo)) \subseteq Elements(rec.list)
  BY <1>1, ListElements
<1>3. records \in [ItemKeys -> Status \cup {None}]
  BY <1>1, <1>2
<1>4. <<>> \in Seq(ItemKeys) /\ Elements(<<>>) = {}
  BY EmptySeq DEF Elements
<1>5. todo \in Seq(ItemKeys) /\ Elements(todo) \subseteq Elements(rec.list)
  BY <1>2, <1>4
<1>6. Len(todo) <= Len(rec.list)
  <2>1. rec.list \in Seq(ItemKeys)
    BY DEF RunRec
  <2>2. /\ Len(rec.list) \in Nat /\ Len(rec.todo) \in Nat
        /\ Len(<<>>) = 0 /\ Len(Tail(rec.todo)) = Len(rec.todo) - 1
    BY <1>1, <2>1, LenProperties, EmptySeq, HeadTailProperties
  <2>3. QED
    BY <2>2
<1>7. 0 \in 0 .. (MaxFloodWaits - 1)
  BY MaxFloodWaitsAssumption
<1>8. new = [rec EXCEPT !.step = "next", !.floods = 0, !.records = records, !.todo = todo]
  BY DEF Recorded
<1> HIDE DEF new, records, todo
<1>9. /\ new \in RunRec
      /\ new.id = rec.id /\ new.list = rec.list /\ new.stop = rec.stop
      /\ new.step = "next" /\ new.records = records /\ new.todo = todo
  BY <1>3, <1>5, <1>7, <1>8 DEF RunRec, RunSteps
<1>10. QED
  BY <1>2, <1>5, <1>9, <1>6 DEF records, todo, new

\* An outcome is recorded as the item's row has it.
LEMMA LoopRecords ==
    ASSUME QueueTypeOK, \A s \in Runs : RunOK(s), RowsStay, NEW r \in Runs,
           run[r] # None, run[r].todo # <<>>, NEW status \in Status,
           items'[run[r].id][Item(r)] # None, status = items'[run[r].id][Item(r)].status,
           run' = [run EXCEPT ![r] = Recorded(@, Item(r), status)]
    PROVE  QueueTypeOK' /\ \A s \in Runs : RunOK(s)'
<1>1. PICK rec : rec = run[r]
  OBVIOUS
<1>2. PICK new : new = Recorded(rec, Head(rec.todo), status)
  OBVIOUS
<1>3. /\ rec \in RunRec /\ rec.todo # <<>> /\ rec.id \in LiveOps
      /\ rec.records \in [ItemKeys -> Status \cup {None}]
      /\ Elements(rec.todo) \subseteq Elements(rec.list) /\ Len(rec.todo) <= Len(rec.list)
  BY <1>1, RunFields DEF RunOK
<1>4. /\ Head(rec.todo) \in ItemKeys
      /\ new \in RunRec
      /\ new.id = rec.id /\ new.list = rec.list /\ new.stop = rec.stop
      /\ new.step = "next"
      /\ new.records = [rec.records EXCEPT ![Head(rec.todo)] = status]
      /\ rec.stop /\ status # "completed" => new.todo = <<>>
      /\ Elements(new.todo) \subseteq Elements(rec.list) /\ Len(new.todo) <= Len(rec.list)
  BY <1>2, <1>3, RecordedFields
<1>5. run' = [run EXCEPT ![r] = new] /\ run'[r] = new
  BY <1>1, <1>2 DEF Item, QueueTypeOK
<1>6. new.id \in LiveOps'
  BY <1>3, <1>4 DEF RowsStay
<1>7. ASSUME NEW ik \in ItemKeys, new.records[ik] = "completed"
      PROVE  items'[new.id][ik] # None /\ items'[new.id][ik].status = "completed"
  <2>1. CASE ik = Head(rec.todo)
    <3>1. new.records[ik] = status
      BY <1>3, <1>4, <2>1
    <3>2. QED
      BY <1>1, <1>4, <1>7, <2>1, <3>1 DEF Item
  <2>2. CASE ik # Head(rec.todo)
    <3>1. new.records[ik] = rec.records[ik]
      BY <1>3, <1>4, <2>2
    <3>2. items[rec.id][ik] # None /\ items[rec.id][ik].status = "completed"
      BY <1>1, <1>7, <3>1 DEF RunOK
    <3>3. QED
      BY <1>3, <1>4, <3>2 DEF RowsStay
  <2>3. QED
    BY <2>1, <2>2
<1>8. ASSUME new.stop
      PROVE  new.todo = <<>> \/ \A ik \in ItemKeys : new.records[ik] \in {None, "completed"}
  <2>1. CASE status = "completed"
    <3>1. \A ik \in ItemKeys : rec.records[ik] \in {None, "completed"}
      BY <1>1, <1>3, <1>4, <1>8 DEF RunOK
    <3>2. QED
      BY <1>3, <1>4, <2>1, <3>1
  <2>2. CASE status # "completed"
    BY <1>4, <1>8, <2>2
  <2>3. QED
    BY <2>1, <2>2
<1>9. RunOK(r)'
  BY <1>4, <1>5, <1>6, <1>7, <1>8 DEF RunOK
<1>10. QED
  BY <1>4, <1>5, <1>9, LoopSteps

\* Between two items and at one: what else stays is the same.
LEMMA LoopMoves ==
    ASSUME QueueTypeOK, \A s \in Runs : RunOK(s), RowsStay, NEW r \in Runs,
           run[r] # None, run[r].todo # <<>>, items'[run[r].id][Item(r)] # None,
           NEW step \in RunSteps, NEW floods \in 0 .. (MaxFloodWaits - 1),
           run' = [run EXCEPT ![r] = [@ EXCEPT !.step = step, !.floods = floods]]
    PROVE  QueueTypeOK' /\ \A s \in Runs : RunOK(s)'
<1>1. PICK rec : rec = run[r]
  OBVIOUS
<1>2. PICK new : new = [rec EXCEPT !.step = step, !.floods = floods]
  OBVIOUS
<1>3. rec \in RunRec /\ rec.id \in LiveOps /\ rec.id \in LiveOps'
  BY <1>1, RunFields DEF RunOK, RowsStay
<1>4. /\ new \in RunRec
      /\ new.id = rec.id /\ new.list = rec.list /\ new.stop = rec.stop
      /\ new.todo = rec.todo /\ new.records = rec.records
  BY <1>2, <1>3 DEF RunRec
<1>5. run' = [run EXCEPT ![r] = new] /\ run'[r] = new
  BY <1>1, <1>2 DEF QueueTypeOK
<1>6. \A ik \in ItemKeys : new.records[ik] = "completed" =>
          items'[new.id][ik] # None /\ items'[new.id][ik].status = "completed"
  BY <1>1, <1>3, <1>4 DEF RunOK, RowsStay
<1>7. /\ Elements(new.todo) \subseteq Elements(new.list) /\ Len(new.todo) <= Len(new.list)
      /\ new.stop => new.todo = <<>> \/ \A ik \in ItemKeys : new.records[ik] \in {None, "completed"}
  BY <1>1, <1>4 DEF RunOK
<1>8. new.todo # <<>> /\ items'[new.id][Head(new.todo)] # None
  BY <1>1, <1>4 DEF Item
<1>9. RunOK(r)'
  BY <1>3, <1>4, <1>5, <1>6, <1>7, <1>8 DEF RunOK, Item
<1>10. QED
  BY <1>4, <1>5, <1>9, LoopSteps

\* The loop takes its next item.
LEMMA NextItemKeeps ==
    ASSUME QueueInv, NEW r \in Runs, NextItem(r)
    PROVE  /\ KeepingNext
           /\ QueueTypeOK' /\ \A s \in Runs : RunOK(s)'
<1> DEFINE id == run[r].id
           row == items'[id][Item(r)]
<1>1. /\ run[r] # None /\ run[r].todo # <<>> /\ run[r].step = "next"
      /\ id \in OpIds /\ id \in LiveOps /\ Item(r) \in ItemKeys
      /\ run[r].todo \in Seq(ItemKeys) /\ run[r].floods \in 0 .. (MaxFloodWaits - 1)
  BY RunFields, ListElements DEF NextItem, Working, QueueInv, RunOK, Item
<1>2. BeginItem(id, Item(r))
  BY DEF NextItem
<1>3. KeepingNext
  BY <1>1, <1>2 DEF KeepingNext
<1>4. StoreInv' /\ RowsStay
  BY <1>1, <1>2, <1>3, BeginItemInv, KeepingRowsStay DEF QueueInv
<1>5. ops[id] # None
  BY <1>1 DEF LiveOps
<1>6. row # None
  <2>1. CASE items[id][Item(r)] = None
    <3>1. row = NewItemRow
      BY <1>1, <1>2, <1>5, <2>1 DEF BeginItem, QueueInv, StoreInv, StoreTypeOK
    <3>2. NewItemRow \in ItemRow
      BY DEF NewItemRow, ItemRow, Status
    <3>3. QED
      BY <3>1, <3>2, NoneAssumption
  <2>2. CASE items[id][Item(r)] # None
    BY <1>2, <2>2 DEF BeginItem
  <2>3. QED
    BY <2>1, <2>2
<1>7. row \in ItemRow
  BY <1>1, <1>4, <1>6 DEF StoreInv, StoreTypeOK
<1>8. row.status \in Status
  BY <1>7 DEF ItemRow
<1>9. CASE row.status = "pending"
  <2>1. PICK floods \in 0 .. (MaxFloodWaits - 1) : floods = run[r].floods
    BY <1>1
  <2>2. [run[r] EXCEPT !.step = "handler"] =
            [run[r] EXCEPT !.step = "handler", !.floods = floods]
    BY <1>1, <2>1, RunFields DEF QueueInv, RunRec
  <2>3. run' = [run EXCEPT ![r] = [@ EXCEPT !.step = "handler", !.floods = floods]]
    BY <1>9, <2>2 DEF NextItem
  <2>4. "handler" \in RunSteps
    BY DEF RunSteps
  <2>5. QED
    BY <1>1, <1>3, <1>4, <1>6, <2>3, <2>4, LoopMoves DEF QueueInv
<1>10. CASE row.status # "pending"
  <2>1. run' = [run EXCEPT ![r] = Recorded(@, Item(r), row.status)]
    BY <1>10 DEF NextItem
  <2>2. QED
    BY <1>1, <1>3, <1>4, <1>6, <1>8, <2>1, LoopRecords DEF QueueInv
<1>11. QED
  BY <1>9, <1>10

LEMMA WorkingRun ==
    ASSUME QueueInv, NEW r \in Runs, Working(r, "handler") \/ Working(r, "pause")
    PROVE  /\ run[r] # None /\ run[r].todo # <<>> /\ run[r].id \in OpIds
           /\ run[r].id \in LiveOps
           /\ Item(r) \in ItemKeys /\ items[run[r].id][Item(r)] # None
           /\ run[r].floods \in 0 .. (MaxFloodWaits - 1)
BY RunFields, ListElements DEF Working, QueueInv, RunOK, Item

\* The handler's verdict is in.
LEMMA ItemEndsKeeps ==
    ASSUME QueueInv, NEW r \in Runs, NEW s \in TerminalStatus,
           NEW res \in Results \cup {None}, NEW err \in Errors \cup {None},
           Payload(s, res, err), ItemEnds(r, s, res, err)
    PROVE  /\ KeepingNext
           /\ QueueTypeOK' /\ \A q \in Runs : RunOK(q)'
<1> DEFINE id == run[r].id
           row == items'[id][Item(r)]
<1>1. /\ run[r] # None /\ run[r].todo # <<>> /\ id \in OpIds /\ id \in LiveOps
      /\ Item(r) \in ItemKeys /\ items[id][Item(r)] # None
  BY WorkingRun DEF ItemEnds
<1>2. TransitionItem(id, Item(r), s, res, err)
  BY DEF ItemEnds
<1>3. KeepingNext
  BY <1>1, <1>2 DEF KeepingNext
<1>4. StoreInv' /\ RowsStay
  BY <1>1, <1>2, <1>3, TransitionItemInv, KeepingRowsStay DEF QueueInv
<1>5. row # None
  BY <1>1, <1>4 DEF RowsStay
<1>6. row.status \in Status
  BY <1>1, <1>4, <1>5 DEF StoreInv, StoreTypeOK, ItemRow
<1>7. run' = [run EXCEPT ![r] = Recorded(@, Item(r), row.status)]
  BY DEF ItemEnds
<1>8. QED
  BY <1>1, <1>3, <1>4, <1>5, <1>6, <1>7, LoopRecords DEF QueueInv

\* The loop sleeps, or wakes up.
LEMMA PauseKeeps ==
    ASSUME QueueInv, NEW r \in Runs, FloodPause(r) \/ Wake(r)
    PROVE  /\ UNCHANGED storeVars
           /\ QueueTypeOK' /\ \A s \in Runs : RunOK(s)'
<1>1. /\ run[r] # None /\ run[r].todo # <<>> /\ run[r].id \in OpIds
      /\ Item(r) \in ItemKeys /\ items[run[r].id][Item(r)] # None
      /\ run[r].floods \in 0 .. (MaxFloodWaits - 1)
  BY WorkingRun DEF FloodPause, Wake
<1>2. UNCHANGED storeVars /\ items' = items /\ RowsStay
  BY UnchangedRowsStay DEF FloodPause, Wake, storeVars
<1>3. "pause" \in RunSteps /\ "handler" \in RunSteps
  BY DEF RunSteps
<1>4. CASE FloodPause(r)
  <2>1. PICK floods \in 0 .. (MaxFloodWaits - 1) : floods = run[r].floods + 1
    BY <1>1, <1>4, MaxFloodWaitsAssumption DEF FloodPause
  <2>2. run' = [run EXCEPT ![r] = [@ EXCEPT !.step = "pause", !.floods = floods]]
    BY <1>4, <2>1 DEF FloodPause
  <2>3. QED
    BY <1>1, <1>2, <1>3, <2>2, LoopMoves DEF QueueInv
<1>5. CASE Wake(r)
  <2>1. PICK floods \in 0 .. (MaxFloodWaits - 1) : floods = run[r].floods
    BY <1>1
  <2>2. [run[r] EXCEPT !.step = "handler"] =
            [run[r] EXCEPT !.step = "handler", !.floods = floods]
    BY <1>1, <2>1, RunFields DEF QueueInv, RunRec
  <2>3. run' = [run EXCEPT ![r] = [@ EXCEPT !.step = "handler", !.floods = floods]]
    BY <1>5, <2>2 DEF Wake
  <2>4. QED
    BY <1>1, <1>2, <1>3, <2>3, LoopMoves DEF QueueInv
<1>6. QED
  BY <1>4, <1>5

\* What the services see of a loop's step: it is still the same run, at the
\* same item if it is at one, and the other loops are where they were.
SameRun(r) ==
    /\ run'[r] # None /\ run'[r].id = run[r].id /\ run'[r].list = run[r].list
    /\ run'[r].step # "next" => run'[r].todo = run[r].todo
    /\ \A s \in Runs \ {r} : run'[s] = run[s]

LEMMA RecordedIsSameRun ==
    ASSUME QueueInv, NEW r \in Runs, run[r] # None, run[r].todo # <<>>,
           NEW status \in Status, run' = [run EXCEPT ![r] = Recorded(@, Item(r), status)]
    PROVE  SameRun(r) /\ run'[r].step = "next"
<1>1. PICK new : new = Recorded(run[r], Head(run[r].todo), status)
  OBVIOUS
<1>2. /\ run[r] \in RunRec /\ Elements(run[r].todo) \subseteq Elements(run[r].list)
      /\ Len(run[r].todo) <= Len(run[r].list)
  BY RunFields DEF QueueInv, RunOK
<1>3. new \in RunRec /\ new.id = run[r].id /\ new.list = run[r].list /\ new.step = "next"
  BY <1>1, <1>2, RecordedFields
<1>4. run' = [run EXCEPT ![r] = new]
  BY <1>1 DEF Item
<1>5. run'[r] = new /\ \A s \in Runs \ {r} : run'[s] = run[s]
  BY <1>4 DEF QueueInv, QueueTypeOK
<1>6. QED
  BY <1>3, <1>5, RecordsAssumption DEF SameRun

LEMMA MoveIsSameRun ==
    ASSUME QueueInv, NEW r \in Runs, run[r] # None,
           NEW step \in RunSteps, NEW floods \in 0 .. (MaxFloodWaits - 1),
           run' = [run EXCEPT ![r] = [@ EXCEPT !.step = step, !.floods = floods]]
    PROVE  SameRun(r) /\ run'[r].step = step
<1>1. PICK new : new = [run[r] EXCEPT !.step = step, !.floods = floods]
  OBVIOUS
<1>2. run[r] \in RunRec
  BY RunFields DEF QueueInv
<1>3. /\ new \in RunRec /\ new.id = run[r].id /\ new.list = run[r].list
      /\ new.todo = run[r].todo /\ new.step = step
  BY <1>1, <1>2 DEF RunRec
<1>4. run'[r] = new /\ \A s \in Runs \ {r} : run'[s] = run[s]
  BY <1>1 DEF QueueInv, QueueTypeOK
<1>5. QED
  BY <1>3, <1>4, RecordsAssumption DEF SameRun

LEMMA NextItemMoves ==
    ASSUME QueueInv, NEW r \in Runs, NextItem(r)
    PROVE  /\ SameRun(r)
           /\ run'[r].step \in {"next", "handler"}
           /\ run'[r].step = "handler" <=> items'[run[r].id][Item(r)].status = "pending"
<1> DEFINE row == items'[run[r].id][Item(r)]
<1>1. /\ run[r] # None /\ run[r].todo # <<>> /\ run[r].floods \in 0 .. (MaxFloodWaits - 1)
      /\ run[r].id \in OpIds /\ run[r].id \in LiveOps /\ Item(r) \in ItemKeys
      /\ run[r] \in RunRec
  BY RunFields, ListElements DEF NextItem, Working, QueueInv, Item, RunOK
<1>2. CASE row.status = "pending"
  <2>1. PICK floods \in 0 .. (MaxFloodWaits - 1) : floods = run[r].floods
    BY <1>1
  <2>2. [run[r] EXCEPT !.step = "handler"] =
            [run[r] EXCEPT !.step = "handler", !.floods = floods]
    BY <1>1, <2>1 DEF RunRec
  <2>3. run' = [run EXCEPT ![r] = [@ EXCEPT !.step = "handler", !.floods = floods]]
    BY <1>2, <2>2 DEF NextItem
  <2>4. QED
    BY <1>1, <1>2, <2>3, MoveIsSameRun DEF RunSteps
<1>3. CASE row.status # "pending"
  <2>1. row # None
    <3>1. BeginItem(run[r].id, Item(r)) /\ ops[run[r].id] # None
      BY <1>1 DEF NextItem, LiveOps
    <3>2. NewItemRow \in ItemRow
      BY DEF NewItemRow, ItemRow, Status
    <3>3. QED
      BY <1>1, <3>1, <3>2, NoneAssumption DEF BeginItem, QueueInv, StoreInv, StoreTypeOK
  <2>2. StoreInv'
    BY <1>1, BeginItemInv DEF NextItem, QueueInv
  <2>3. row.status \in Status
    BY <1>1, <2>1, <2>2 DEF StoreInv, StoreTypeOK, ItemRow
  <2>4. run' = [run EXCEPT ![r] = Recorded(@, Item(r), row.status)]
    BY <1>3 DEF NextItem
  <2>5. QED
    BY <1>1, <1>3, <2>3, <2>4, RecordedIsSameRun
<1>4. QED
  BY <1>2, <1>3

LEMMA ItemEndsMoves ==
    ASSUME QueueInv, NEW r \in Runs, NEW s \in TerminalStatus,
           NEW res \in Results \cup {None}, NEW err \in Errors \cup {None},
           Payload(s, res, err), ItemEnds(r, s, res, err)
    PROVE  SameRun(r) /\ run'[r].step = "next"
<1>1. /\ run[r] # None /\ run[r].todo # <<>> /\ run[r].id \in OpIds
      /\ run[r].id \in LiveOps /\ Item(r) \in ItemKeys /\ items[run[r].id][Item(r)] # None
  BY WorkingRun DEF ItemEnds
<1>2. StoreInv' /\ RowsStay
  BY <1>1, ItemEndsKeeps, KeepingRowsStay, TransitionItemInv DEF QueueInv, ItemEnds
<1>3. items'[run[r].id][Item(r)].status \in Status
  BY <1>1, <1>2 DEF RowsStay, StoreInv, StoreTypeOK, ItemRow
<1>4. QED
  BY <1>1, <1>3, RecordedIsSameRun DEF ItemEnds

LEMMA PauseMoves ==
    ASSUME QueueInv, NEW r \in Runs, FloodPause(r) \/ Wake(r)
    PROVE  /\ SameRun(r)
           /\ FloodPause(r) => run'[r].step = "pause"
           /\ Wake(r) => run'[r].step = "handler"
<1>1. run[r] # None /\ run[r].floods \in 0 .. (MaxFloodWaits - 1) /\ run[r] \in RunRec
  BY WorkingRun, RunFields DEF FloodPause, Wake, QueueInv
<1>2. ASSUME FloodPause(r)
      PROVE  SameRun(r) /\ run'[r].step = "pause"
  <2>1. PICK floods \in 0 .. (MaxFloodWaits - 1) : floods = run[r].floods + 1
    BY <1>1, <1>2, MaxFloodWaitsAssumption DEF FloodPause
  <2>2. run' = [run EXCEPT ![r] = [@ EXCEPT !.step = "pause", !.floods = floods]]
    BY <1>2, <2>1 DEF FloodPause
  <2>3. QED
    BY <1>1, <1>2, <2>2, MoveIsSameRun DEF RunSteps
<1>3. ASSUME Wake(r)
      PROVE  SameRun(r) /\ run'[r].step = "handler"
  <2>1. PICK floods \in 0 .. (MaxFloodWaits - 1) : floods = run[r].floods
    BY <1>1
  <2>2. [run[r] EXCEPT !.step = "handler"] =
            [run[r] EXCEPT !.step = "handler", !.floods = floods]
    BY <1>1, <2>1 DEF RunRec
  <2>3. run' = [run EXCEPT ![r] = [@ EXCEPT !.step = "handler", !.floods = floods]]
    BY <1>3, <2>2 DEF Wake
  <2>4. QED
    BY <1>1, <1>3, <2>3, MoveIsSameRun DEF RunSteps
<1>4. QED
  BY <1>2, <1>3

LEMMA StartIsNewRun ==
    ASSUME QueueInv, NEW r \in Runs, NEW id \in OpIds, NEW list \in Seq(ItemKeys),
           NEW stop \in BOOLEAN, StartRun(r, id, list, stop)
    PROVE  /\ run'[r].id = id /\ run'[r].list = list /\ run'[r].step = "next"
           /\ \A s \in Runs \ {r} : run'[s] = run[s]
BY DEF StartRun, QueueInv, QueueTypeOK

\* A loop that is done has recorded every status that counts.
LEMMA DoneRun ==
    ASSUME QueueInv, NEW r \in Runs, LoopDone(r)
    PROVE  run[r] # None /\ run[r].id \in OpIds /\ run[r].id \in LiveOps
BY RunFields DEF LoopDone, Working, QueueInv, RunOK

------------------------------------------------------------------------------
(* What the services' proofs put together. *)

LEMMA QueueInvFrom ==
    ASSUME StoreInv, KeepingNext \/ UNCHANGED storeVars, RetryTypeOK',
           QueueTypeOK', \A s \in Runs : RunOK(s)'
    PROVE  QueueInv'
BY KeepingIsStoreStep, StepInv DEF QueueInv

LEMMA OperatorStays == ASSUME RetryTypeOK, UNCHANGED operator PROVE RetryTypeOK'
BY DEF RetryTypeOK

\* begin_operation and the start of a loop.
LEMMA BulkStarts ==
    ASSUME QueueInv, NEW r \in Runs, NEW t \in Types, NEW k \in Keys, NEW id \in OpIds,
           NEW list \in Seq(ItemKeys), NEW stop \in BOOLEAN, UNCHANGED operator,
           \/ BeginOperation(t, k, id)
           \/ id \in RowsOfKey(k) /\ UNCHANGED storeVars,
           StartRun(r, id, list, stop)
    PROVE  QueueInv' /\ RowsStay /\ NoneCompletes /\ id \in LiveOps' /\ UNCHANGED items
<1>1. StoreInv
  BY DEF QueueInv
<1>2. KeepingNext \/ UNCHANGED storeVars
  BY DEF KeepingNext
<1>3. RowsStay
  BY <1>1, <1>2, KeepingRowsStay, UnchangedRowsStay
<1>4. NoneCompletes /\ UNCHANGED items
  BY <1>1, BegunOpsStay, SameOpsStay DEF BeginOperation, storeVars
<1>5. id \in LiveOps'
  <2>1. CASE BeginOperation(t, k, id)
    <3>1. NewOpRow(t, k) \in OpRow
      BY NewRows
    <3>2. QED
      BY <1>1, <2>1, <3>1, NoneAssumption DEF BeginOperation, LiveOps, StoreInv, StoreTypeOK
  <2>2. CASE id \in RowsOfKey(k)
    BY <1>3, <2>2 DEF RowsOfKey, RowsStay
  <2>3. QED
    BY <2>1, <2>2
<1>6. QueueTypeOK' /\ \A s \in Runs : RunOK(s)'
  BY <1>3, <1>5, LoopStarts DEF QueueInv
<1>7. QED
  BY <1>1, <1>2, <1>3, <1>4, <1>5, <1>6, QueueInvFrom, OperatorStays DEF QueueInv
==============================================================================
