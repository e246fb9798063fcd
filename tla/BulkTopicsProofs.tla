---------------------------- MODULE BulkTopicsProofs ----------------------------
(***************************************************************************)
(* Proofs about bulk_create_topics for any number of requests, operators,  *)
(* operations and items, any of which may work on one operation at once.   *)
(* The loop's part is WorkerQueueProofs; here a handler that has come to   *)
(* the first message has created its topic, so that a completed item has   *)
(* one, and a completed parent, if all requests of an operation_id send    *)
(* the same items, has all of them completed.                              *)
(***************************************************************************)
EXTENDS BulkTopics, WorkerQueueProofs

\* All lists are of the same items, as the repetitions of one request are.
OneList == \A l, m \in Requests : Elements(l) = Elements(m)

Listed == UNION {Elements(l) : l \in Requests}

\* A handler waits for Telegram while it runs; once its topic is there, it stays.
AskOK(r) ==
    /\ ask[r] # None <=> Working(r, "handler")
    /\ ask[r] # None /\ (ask[r].performed \/ ask[r].step = "message") =>
          topics[run[r].id][Item(r)] > 0

ListOK(r) == run[r] # None => run[r].list \in Requests

CompletedHasTopic(id, ik) ==
    items[id][ik] # None /\ items[id][ik].status = "completed" => topics[id][ik] > 0

ItemsOK ==
    \A id \in OpIds, ik \in ItemKeys :
        /\ CompletedHasTopic(id, ik)
        /\ items[id][ik] # None => ik \in Listed

AsksTyped ==
    /\ ask \in [Runs -> Ask \cup {None}]
    /\ topics \in [OpIds -> [ItemKeys -> 0..MaxTopics]]
    /\ deaths \in 0..MaxDeaths

BulkInv ==
    /\ QueueInv
    /\ AsksTyped
    /\ \A r \in Runs : AskOK(r) /\ ListOK(r)
    /\ ItemsOK

\* What CompletedCoversItems needs to be inductive: an item that a late request
\* begins under a completed parent would be pending, so there must be none left.
CompletedHasAll ==
    \A id \in LiveOps : ops[id].status = "completed" =>
        \A ik \in Listed : items[id][ik] # None /\ items[id][ik].status = "completed"

------------------------------------------------------------------------------
(* Items and lists. *)

LEMMA ListedItems == Listed \subseteq ItemKeys /\ \A l \in Requests : Elements(l) \subseteq Listed
<1>1. ASSUME NEW l \in Requests, NEW i \in DOMAIN l
      PROVE  l[i] \in ItemKeys
  BY BulkAssumption, LenProperties
<1>2. QED
  BY <1>1 DEF Listed, Elements

LEMMA TopicsOfItems ==
    ASSUME AsksTyped, NEW id \in OpIds, NEW ik \in ItemKeys
    PROVE  topics[id][ik] \in 0..MaxTopics
BY DEF AsksTyped

\* The item a handler is at is one of its list.
LEMMA ItemIsListed ==
    ASSUME BulkInv, NEW r \in Runs, run[r] # None, run[r].todo # <<>>
    PROVE  Item(r) \in ItemKeys /\ Item(r) \in Listed
<1>1. run[r].todo \in Seq(ItemKeys) /\ run[r].list \in Requests
  BY RunFields DEF BulkInv, QueueInv, ListOK
<1>2. Item(r) \in Elements(run[r].todo) /\ Item(r) \in ItemKeys
  BY <1>1, ListElements DEF Item
<1>3. QED
  BY <1>1, <1>2, ListedItems DEF BulkInv, QueueInv, RunOK

LEMMA SameItemsOK ==
    ASSUME ItemsOK, UNCHANGED <<items, topics>>
    PROVE  ItemsOK'
BY DEF ItemsOK, CompletedHasTopic

LEMMA BeginItemsOK ==
    ASSUME StoreInv, ItemsOK, NEW id \in OpIds, NEW jk \in Listed, BeginItem(id, jk),
           UNCHANGED topics
    PROVE  ItemsOK'
<1>1. items \in [OpIds -> [ItemKeys -> ItemRow \cup {None}]]
  BY DEF StoreInv, StoreTypeOK
<1>2. ASSUME NEW i \in OpIds, NEW ik \in ItemKeys
      PROVE  items'[i][ik] = items[i][ik] \/ (ik = jk /\ items'[i][ik] = NewItemRow)
  BY <1>1 DEF BeginItem
<1>3. NewItemRow.status = "pending"
  BY DEF NewItemRow
<1>4. ASSUME NEW i \in OpIds, NEW ik \in ItemKeys
      PROVE  CompletedHasTopic(i, ik)' /\ (items'[i][ik] # None => ik \in Listed)
  BY <1>2, <1>3 DEF ItemsOK, CompletedHasTopic
<1>5. QED
  BY <1>4 DEF ItemsOK

LEMMA TransitionItemsOK ==
    ASSUME StoreInv, ItemsOK, NEW id \in OpIds, NEW jk \in ItemKeys,
           NEW s \in TerminalStatus, NEW res \in Results \cup {None},
           NEW err \in Errors \cup {None}, TransitionItem(id, jk, s, res, err),
           s = "completed" => topics[id][jk] > 0, UNCHANGED topics
    PROVE  ItemsOK'
<1>1. items \in [OpIds -> [ItemKeys -> ItemRow \cup {None}]]
  BY DEF StoreInv, StoreTypeOK
<1>2. CASE items[id][jk] = None
  BY <1>2, SameItemsOK DEF TransitionItem
<1>3. CASE items[id][jk] # None
  <2>1. PICK row : row = Settled(items[id][jk], s, res, err)
    OBVIOUS
  <2>2. items[id][jk] \in ItemRow
    BY <1>1, <1>3
  <2>3. row.status = s \/ row = items[id][jk]
    BY <2>1, <2>2 DEF Settled, ItemRow
  <2>4. items' = [items EXCEPT ![id][jk] = row]
    BY <1>3, <2>1 DEF TransitionItem
  <2>5. ASSUME NEW i \in OpIds, NEW ik \in ItemKeys
        PROVE  CompletedHasTopic(i, ik)' /\ (items'[i][ik] # None => ik \in Listed)
    <3>1. CASE i = id /\ ik = jk
      <4>1. items'[i][ik] = row
        BY <1>1, <2>4, <3>1
      <4>2. QED
        BY <1>3, <2>3, <3>1, <4>1 DEF ItemsOK, CompletedHasTopic
    <3>2. CASE ~(i = id /\ ik = jk)
      <4>1. items'[i][ik] = items[i][ik]
        BY <1>1, <2>4, <3>2
      <4>2. QED
        BY <4>1 DEF ItemsOK, CompletedHasTopic
    <3>3. QED
      BY <3>1, <3>2
  <2>6. QED
    BY <2>5 DEF ItemsOK
<1>4. QED
  BY <1>2, <1>3

LEMMA ResetItemsOK ==
    ASSUME StoreInv, ItemsOK, NEW id \in OpIds, ResetItems(id), UNCHANGED topics
    PROVE  ItemsOK'
<1>1. items \in [OpIds -> [ItemKeys -> ItemRow \cup {None}]]
  BY DEF StoreInv, StoreTypeOK
<1>2. ASSUME NEW i \in OpIds, NEW ik \in ItemKeys
      PROVE  CompletedHasTopic(i, ik)' /\ (items'[i][ik] # None => ik \in Listed)
  <2>1. CASE i = id /\ items[i][ik] # None /\ items[i][ik].status \in {"failed", "needs_review"}
    <3>1. items'[i][ik] = Reopened(items[i][ik]) /\ items[i][ik] \in ItemRow
      BY <1>1, <2>1 DEF ResetItems
    <3>2. items'[i][ik].status = "pending"
      BY <3>1 DEF Reopened, ItemRow
    <3>3. QED
      BY <2>1, <3>2 DEF ItemsOK, CompletedHasTopic
  <2>2. CASE ~(i = id /\ items[i][ik] # None /\ items[i][ik].status \in {"failed", "needs_review"})
    <3>1. items'[i][ik] = items[i][ik]
      BY <1>1, <2>2 DEF ResetItems
    <3>2. QED
      BY <3>1 DEF ItemsOK, CompletedHasTopic
  <2>3. QED
    BY <2>1, <2>2
<1>3. QED
  BY <1>2 DEF ItemsOK

------------------------------------------------------------------------------
(* Handlers. *)

TopicsGrow == \A id \in OpIds, ik \in ItemKeys : topics[id][ik] > 0 => topics'[id][ik] > 0

\* The handlers that a step leaves alone.
LEMMA OtherAsk ==
    ASSUME BulkInv, NEW s \in Runs, run'[s] = run[s], ask'[s] = ask[s], TopicsGrow
    PROVE  AskOK(s)' /\ ListOK(s)'
<1>1. AskOK(s) /\ ListOK(s)
  BY DEF BulkInv
<1>2. (ask[s] # None <=> Working(s, "handler"))'
  BY <1>1 DEF AskOK, Working
<1>3. ASSUME ask[s] # None, ask[s].performed \/ ask[s].step = "message"
      PROVE  topics'[run[s].id][Item(s)] > 0
  <2>1. run[s] # None /\ run[s].id \in OpIds /\ Item(s) \in ItemKeys
    BY <1>1, <1>3, WorkingRun DEF AskOK, BulkInv
  <2>2. QED
    BY <1>1, <1>3, <2>1 DEF AskOK, TopicsGrow
<1>4. QED
  BY <1>1, <1>2, <1>3 DEF AskOK, ListOK, Item

\* A step of one request that neither creates nor dies.
LEMMA StepMatches ==
    ASSUME BulkInv, QueueInv', ItemsOK', NEW r \in Runs,
           \A s \in Runs \ {r} : run'[s] = run[s],
           NEW x \in Ask \cup {None}, ask' = [ask EXCEPT ![r] = x],
           UNCHANGED <<topics, deaths>>, AskOK(r)', ListOK(r)'
    PROVE  BulkInv'
<1>1. AsksTyped'
  BY DEF BulkInv, AsksTyped
<1>2. ASSUME NEW s \in Runs, s # r
      PROVE  AskOK(s)' /\ ListOK(s)'
  <2>1. run'[s] = run[s] /\ ask'[s] = ask[s] /\ TopicsGrow
    BY <1>2 DEF BulkInv, AsksTyped, TopicsGrow
  <2>2. QED
    BY <2>1, OtherAsk
<1>3. QED
  BY <1>1, <1>2 DEF BulkInv

\* Asks that are unchanged, or sent anew.
LEMMA SentAsk ==
    ASSUME AsksTyped, NEW r \in Runs, NEW step \in {"create", "message"}, Send(r, step)
    PROVE  /\ [step |-> step, performed |-> FALSE] \in Ask
           /\ ask' = [ask EXCEPT ![r] = [step |-> step, performed |-> FALSE]]
           /\ ask'[r] # None /\ ask'[r].step = step /\ ask'[r].performed = FALSE
<1>1. PICK a : a = [step |-> step, performed |-> FALSE]
  OBVIOUS
<1>2. a \in Ask /\ a.step = step /\ a.performed = FALSE
  BY <1>1 DEF Ask
<1>3. ask' = [ask EXCEPT ![r] = a]
  BY <1>1 DEF Send
<1>4. ask'[r] = a
  BY <1>3 DEF AsksTyped
<1>5. a # None
  BY <1>2, BulkAssumption
<1>6. QED
  BY <1>1, <1>2, <1>3, <1>4, <1>5

LEMMA BulkCreateTopicsMatches ==
    ASSUME BulkInv, NEW r \in Runs, NEW k \in Keys, NEW list \in Requests,
           NEW stop \in BOOLEAN, BulkCreateTopics(r, k, list, stop)
    PROVE  BulkInv'
<1>1. PICK id \in OpIds :
          /\ \/ BeginOperation(BulkType, k, id)
             \/ id \in RowsOfKey(k) /\ UNCHANGED storeVars
          /\ StartRun(r, id, list, stop)
  BY DEF BulkCreateTopics
<1>2. /\ QueueInv /\ list \in Seq(ItemKeys) /\ BulkType \in Types
      /\ UNCHANGED <<operator, ask, topics, deaths>> /\ run[r] = None
  BY BulkAssumption DEF BulkInv, BulkCreateTopics
<1>3. QueueInv' /\ UNCHANGED items
  BY <1>1, <1>2, BulkStarts
<1>4. ItemsOK'
  BY <1>2, <1>3, SameItemsOK DEF BulkInv
<1>5. /\ run'[r].list = list /\ run'[r].step = "next"
      /\ \A s \in Runs \ {r} : run'[s] = run[s]
  BY <1>1, <1>2, StartIsNewRun
<1>6. ask[r] = None /\ ask \in [Runs -> Ask \cup {None}]
  BY <1>2 DEF BulkInv, AskOK, Working, AsksTyped
<1>7. AskOK(r)' /\ ListOK(r)'
  BY <1>2, <1>5, <1>6 DEF AskOK, ListOK, Working
<1>8. ask' = [ask EXCEPT ![r] = None]
  BY <1>2, <1>6
<1>9. QED
  BY <1>2, <1>3, <1>4, <1>5, <1>7, <1>8, StepMatches

LEMMA TakeItemMatches ==
    ASSUME BulkInv, NEW r \in Runs, TakeItem(r)
    PROVE  BulkInv'
<1>1. NextItem(r) /\ UNCHANGED <<operator, topics, deaths>> /\ QueueInv /\ AsksTyped
  BY DEF TakeItem, BulkInv
<1>2. KeepingNext /\ QueueTypeOK' /\ \A s \in Runs : RunOK(s)'
  BY <1>1, NextItemKeeps
<1>3. QueueInv'
  BY <1>1, <1>2, QueueInvFrom, OperatorStays DEF QueueInv
<1>4. SameRun(r) /\ run'[r].step \in {"next", "handler"}
  BY <1>1, NextItemMoves
<1>5. run[r] # None /\ run[r].todo # <<>> /\ run[r].id \in OpIds /\ run[r].step = "next"
  BY <1>1, RunFields DEF NextItem, Working, QueueInv
<1>6. ItemsOK'
  <2>1. BeginItem(run[r].id, Item(r)) /\ Item(r) \in Listed
    BY <1>1, <1>5, ItemIsListed DEF NextItem
  <2>2. QED
    BY <1>1, <1>5, <2>1, BeginItemsOK DEF BulkInv, QueueInv
<1>7. ListOK(r)'
  BY <1>4, <1>5 DEF SameRun, ListOK, BulkInv
<1>8. CASE run'[r].step = "handler"
  <2>1. Send(r, "create")
    BY <1>8 DEF TakeItem
  <2>2. AskOK(r)'
    BY <1>1, <1>4, <1>8, <2>1, SentAsk DEF AskOK, Working, SameRun
  <2>3. QED
    BY <1>1, <1>3, <1>4, <1>6, <1>7, <2>1, <2>2, SentAsk, StepMatches DEF SameRun
<1>9. CASE run'[r].step = "next"
  <2>1. ask' = ask /\ ask[r] = None
    BY <1>5, <1>9 DEF TakeItem, BulkInv, AskOK, Working
  <2>2. ask' = [ask EXCEPT ![r] = None]
    BY <1>1, <2>1 DEF AsksTyped
  <2>3. AskOK(r)'
    BY <1>9, <2>1 DEF AskOK, Working
  <2>4. QED
    BY <1>1, <1>3, <1>4, <1>6, <1>7, <2>2, <2>3, StepMatches DEF SameRun
<1>10. QED
  BY <1>4, <1>8, <1>9

\* An item ends, by a verdict that its topic bears out.
LEMMA VerdictMatches ==
    ASSUME BulkInv, NEW r \in Runs, NEW s \in TerminalStatus,
           NEW res \in Results \cup {None}, NEW err \in Errors \cup {None},
           Payload(s, res, err), ItemEnds(r, s, res, err), SendNothing(r),
           s = "completed" => topics[run[r].id][Item(r)] > 0,
           UNCHANGED <<operator, topics, deaths>>
    PROVE  BulkInv'
<1>1. QueueInv /\ KeepingNext /\ QueueTypeOK' /\ \A q \in Runs : RunOK(q)'
  BY ItemEndsKeeps DEF BulkInv
<1>2. QueueInv'
  BY <1>1, QueueInvFrom, OperatorStays DEF QueueInv
<1>3. SameRun(r) /\ run'[r].step = "next"
  BY <1>1, ItemEndsMoves
<1>4. run[r] # None /\ run[r].id \in OpIds /\ Item(r) \in ItemKeys
  BY <1>1, WorkingRun DEF ItemEnds
<1>5. ItemsOK'
  <2>1. TransitionItem(run[r].id, Item(r), s, res, err)
    BY DEF ItemEnds
  <2>2. QED
    BY <1>1, <1>4, <2>1, TransitionItemsOK DEF BulkInv, QueueInv
<1>6. ListOK(r)'
  BY <1>3, <1>4 DEF SameRun, ListOK, BulkInv
<1>7. ask' = [ask EXCEPT ![r] = None] /\ ask'[r] = None
  BY DEF SendNothing, BulkInv, AsksTyped
<1>8. AskOK(r)'
  BY <1>3, <1>7 DEF AskOK, Working
<1>9. QED
  BY <1>2, <1>3, <1>5, <1>6, <1>7, <1>8, StepMatches DEF SameRun

LEMMA ItemEndsMatches ==
    ASSUME BulkInv, NEW r \in Runs,
           \/ \E res \in Results : ItemSucceeds(r, res)
           \/ \E err \in Errors : ItemFails(r, err)
           \/ \E err \in Errors : ItemFloods(r, err) /\ FloodBudgetSpent(r, err)
    PROVE  BulkInv'
<1>1. AskOK(r)
  BY DEF BulkInv
<1>2. ASSUME NEW res \in Results, ItemSucceeds(r, res)
      PROVE  BulkInv'
  <2>1. topics[run[r].id][Item(r)] > 0
    BY <1>1, <1>2 DEF ItemSucceeds, WaitsFor, AskOK
  <2>2. "completed" \in TerminalStatus /\ Payload("completed", res, None)
    BY DEF TerminalStatus, Status, Payload
  <2>3. QED
    BY <1>2, <2>1, <2>2, VerdictMatches DEF ItemSucceeds
<1>3. ASSUME NEW err \in Errors,
             ItemFails(r, err) \/ (ItemFloods(r, err) /\ FloodBudgetSpent(r, err))
      PROVE  BulkInv'
  <2>1. /\ "failed" \in TerminalStatus /\ Payload("failed", None, err)
        /\ "needs_review" \in TerminalStatus /\ Payload("needs_review", None, err)
    BY DEF TerminalStatus, Status, Payload
  <2>2. QED
    BY <1>3, <2>1, VerdictMatches DEF ItemFails, ItemFloods, FloodBudgetSpent
<1>4. QED
  BY <1>2, <1>3

LEMMA PauseMatches ==
    ASSUME BulkInv, NEW r \in Runs,
           \/ \E err \in Errors : ItemFloods(r, err) /\ FloodPause(r)
           \/ Resume(r)
    PROVE  BulkInv'
<1>1. QueueInv /\ AsksTyped /\ (FloodPause(r) \/ Wake(r)) /\ UNCHANGED <<operator, topics, deaths>>
  BY DEF BulkInv, ItemFloods, Resume
<1>2. UNCHANGED storeVars /\ QueueTypeOK' /\ \A s \in Runs : RunOK(s)'
  BY <1>1, PauseKeeps
<1>3. QueueInv'
  BY <1>1, <1>2, QueueInvFrom, OperatorStays DEF QueueInv
<1>4. /\ SameRun(r)
      /\ FloodPause(r) => run'[r].step = "pause"
      /\ Wake(r) => run'[r].step = "handler"
  BY <1>1, PauseMoves
<1>5. ItemsOK'
  BY <1>1, <1>2, SameItemsOK DEF storeVars, BulkInv
<1>6. run[r] # None /\ ListOK(r)'
  BY <1>1, <1>4, WorkingRun DEF FloodPause, Wake, SameRun, ListOK, BulkInv
<1>7. CASE Resume(r)
  <2>1. Send(r, "create") /\ Wake(r)
    BY <1>7 DEF Resume
  <2>2. AskOK(r)'
    BY <1>1, <1>4, <2>1, SentAsk DEF AskOK, Working, SameRun
  <2>3. QED
    BY <1>1, <1>3, <1>4, <1>5, <1>6, <2>1, <2>2, SentAsk, StepMatches DEF SameRun
<1>8. CASE \E err \in Errors : ItemFloods(r, err) /\ FloodPause(r)
  <2>1. ask' = [ask EXCEPT ![r] = None] /\ ask'[r] = None
    BY <1>1, <1>8 DEF ItemFloods, SendNothing, AsksTyped
  <2>2. AskOK(r)'
    BY <1>4, <1>8, <2>1 DEF AskOK, Working
  <2>3. QED
    BY <1>1, <1>3, <1>4, <1>5, <1>6, <2>1, <2>2, StepMatches DEF SameRun
<1>9. QED
  BY <1>7, <1>8

------------------------------------------------------------------------------
(* The other steps. *)

LEMMA TopicCreatedMatches ==
    ASSUME BulkInv, NEW r \in Runs, TopicCreated(r)
    PROVE  BulkInv'
<1>1. /\ UNCHANGED <<queueVars, topics, deaths>> /\ Send(r, "message")
      /\ ask[r] # None /\ ask[r].performed
  BY DEF TopicCreated, WaitsFor
<1>2. QueueInv /\ AsksTyped /\ AskOK(r) /\ ListOK(r)
  BY DEF BulkInv
<1>3. UNCHANGED storeVars /\ UNCHANGED operator /\ UNCHANGED run
  BY <1>1 DEF queueVars, retryVars
<1>4. QueueInv'
  BY <1>2, <1>3, LoopsKept, UnchangedRowsStay, QueueInvFrom, OperatorStays DEF QueueInv
<1>5. ItemsOK'
  BY <1>1, <1>3, SameItemsOK DEF BulkInv, storeVars
<1>6. AskOK(r)' /\ ListOK(r)'
  BY <1>1, <1>2, <1>3, SentAsk DEF AskOK, ListOK, Working, Item
<1>7. QED
  BY <1>1, <1>2, <1>3, <1>4, <1>5, <1>6, SentAsk, StepMatches

LEMMA TelegramPerformsMatches ==
    ASSUME BulkInv, NEW r \in Runs, TelegramPerforms(r)
    PROVE  BulkInv'
<1>1. /\ ask[r] # None /\ UNCHANGED <<queueVars, deaths>>
      /\ QueueInv /\ AsksTyped /\ AskOK(r) /\ ListOK(r)
  BY DEF TelegramPerforms, BulkInv
<1>2. UNCHANGED storeVars /\ UNCHANGED operator /\ UNCHANGED run /\ UNCHANGED items
  BY <1>1 DEF queueVars, retryVars, storeVars
<1>3. QueueInv'
  BY <1>1, <1>2, LoopsKept, UnchangedRowsStay, QueueInvFrom, OperatorStays DEF QueueInv
<1>4. run[r].id \in OpIds /\ Item(r) \in ItemKeys
  BY <1>1, WorkingRun DEF AskOK
<1>5. ask[r] \in Ask /\ [ask[r] EXCEPT !.performed = TRUE] \in Ask
  BY <1>1 DEF AsksTyped, Ask
<1>6. PICK new \in Ask : new = [ask[r] EXCEPT !.performed = TRUE]
  BY <1>5
<1>7. ask' = [ask EXCEPT ![r] = new] /\ ask'[r] = new
  BY <1>1, <1>6 DEF TelegramPerforms, AsksTyped
<1>8. new.step = ask[r].step /\ new.performed = TRUE /\ new # None
  BY <1>5, <1>6, BulkAssumption DEF Ask
<1>9. /\ topics' \in [OpIds -> [ItemKeys -> 0..MaxTopics]]
      /\ TopicsGrow
      /\ ask[r].step = "create" => topics'[run[r].id][Item(r)] > 0
  <2>1. topics \in [OpIds -> [ItemKeys -> 0..MaxTopics]]
    BY <1>1 DEF AsksTyped
  <2>2. topics[run[r].id][Item(r)] \in 0..MaxTopics
    BY <1>4, <2>1
  <2>3. CASE ask[r].step = "create" /\ topics[run[r].id][Item(r)] < MaxTopics
    <3>1. PICK n \in 0..MaxTopics : n = topics[run[r].id][Item(r)] + 1
      BY <2>2, <2>3, BulkAssumption
    <3>2. topics' = [topics EXCEPT ![run[r].id][Item(r)] = n]
      BY <2>3, <3>1 DEF TelegramPerforms
    <3>3. n > 0
      BY <2>2, <3>1, BulkAssumption
    <3>4. QED
      BY <1>4, <2>1, <3>2, <3>3 DEF TopicsGrow
  <2>4. CASE ~(ask[r].step = "create" /\ topics[run[r].id][Item(r)] < MaxTopics)
    <3>1. topics' = topics
      BY <2>4 DEF TelegramPerforms
    <3>2. ask[r].step = "create" => topics[run[r].id][Item(r)] > 0
      BY <2>2, <2>4, BulkAssumption
    <3>3. QED
      BY <2>1, <3>1, <3>2 DEF TopicsGrow
  <2>5. QED
    BY <2>3, <2>4
<1>10. AsksTyped'
  BY <1>1, <1>7, <1>9 DEF AsksTyped
<1>11. AskOK(r)' /\ ListOK(r)'
  <2>1. ask[r].step \in {"create", "message"}
    BY <1>5 DEF Ask
  <2>2. ask[r].step = "message" => topics'[run[r].id][Item(r)] > 0
    BY <1>1, <1>4, <1>9 DEF AskOK, TopicsGrow
  <2>3. QED
    BY <1>1, <1>2, <1>7, <1>8, <1>9, <2>1, <2>2 DEF AskOK, ListOK, Working, Item
<1>12. ASSUME NEW s \in Runs, s # r
       PROVE  AskOK(s)' /\ ListOK(s)'
  BY <1>1, <1>2, <1>7, <1>9, <1>12, OtherAsk DEF AsksTyped
<1>13. ItemsOK'
  <2>1. \A id \in OpIds, ik \in ItemKeys : CompletedHasTopic(id, ik)'
    BY <1>2, <1>9 DEF BulkInv, ItemsOK, CompletedHasTopic, TopicsGrow
  <2>2. QED
    BY <1>2, <2>1 DEF BulkInv, ItemsOK
<1>14. QED
  BY <1>3, <1>10, <1>11, <1>12, <1>13 DEF BulkInv

LEMMA FinishBulkMatches ==
    ASSUME BulkInv, NEW r \in Runs, NEW res \in Results, NEW err \in Errors,
           FinishBulk(r, res, err)
    PROVE  KeepingNext /\ BulkInv'
<1>1. QueueInv /\ AsksTyped /\ run[r].id \in OpIds /\ UNCHANGED <<operator, ask, topics, deaths>>
  BY DoneRun DEF FinishBulk, BulkInv
<1>2. /\ "completed" \in TerminalStatus /\ Payload("completed", res, None)
      /\ "needs_review" \in TerminalStatus /\ Payload("needs_review", None, err)
  BY DEF TerminalStatus, Status, Payload
<1>3. KeepingNext /\ UNCHANGED items
  BY <1>1, <1>2 DEF FinishBulk, KeepingNext, Transition
<1>4. EndRun(r) /\ run' = [run EXCEPT ![r] = None]
  BY DEF FinishBulk, EndRun
<1>5. QueueTypeOK' /\ \A s \in Runs : RunOK(s)'
  BY <1>1, <1>3, <1>4, KeepingRowsStay, LoopEnds DEF QueueInv
<1>6. QueueInv'
  BY <1>1, <1>3, <1>5, QueueInvFrom, OperatorStays DEF QueueInv
<1>7. ItemsOK'
  BY <1>1, <1>3, SameItemsOK DEF BulkInv
<1>8. run'[r] = None /\ \A s \in Runs \ {r} : run'[s] = run[s]
  BY <1>1, <1>4 DEF QueueInv, QueueTypeOK
<1>9. ask[r] = None
  BY DEF FinishBulk, LoopDone, Working, BulkInv, AskOK
<1>10. ask' = [ask EXCEPT ![r] = None]
  BY <1>1, <1>9 DEF AsksTyped
<1>11. AskOK(r)' /\ ListOK(r)'
  BY <1>1, <1>8, <1>9 DEF AskOK, ListOK, Working
<1>12. QED
  BY <1>1, <1>3, <1>6, <1>7, <1>8, <1>10, <1>11, StepMatches

LEMMA CrashMatches ==
    ASSUME BulkInv, NEW r \in Runs, Crash(r)
    PROVE  BulkInv'
<1>1. /\ QueueInv /\ AsksTyped /\ UNCHANGED <<retryVars, topics>>
      /\ EndRun(r) /\ run' = [run EXCEPT ![r] = None]
      /\ ask' = [ask EXCEPT ![r] = None]
  BY DEF Crash, BulkInv, EndRun, SendNothing
<1>2. UNCHANGED storeVars /\ UNCHANGED operator /\ UNCHANGED items
  BY <1>1 DEF retryVars, storeVars
<1>3. QueueTypeOK' /\ \A s \in Runs : RunOK(s)'
  BY <1>1, <1>2, UnchangedRowsStay, LoopEnds DEF QueueInv
<1>4. QueueInv'
  BY <1>1, <1>2, <1>3, QueueInvFrom, OperatorStays DEF QueueInv
<1>5. AsksTyped'
  BY <1>1, BulkAssumption DEF AsksTyped, Crash
<1>6. ItemsOK'
  BY <1>1, <1>2, SameItemsOK DEF BulkInv
<1>7. ASSUME NEW s \in Runs
      PROVE  AskOK(s)' /\ ListOK(s)'
  <2>1. CASE s = r
    <3>1. run'[s] = None /\ ask'[s] = None
      BY <1>1, <2>1 DEF QueueInv, QueueTypeOK, AsksTyped
    <3>2. QED
      BY <3>1 DEF AskOK, ListOK, Working
  <2>2. CASE s # r
    <3>1. run'[s] = run[s] /\ ask'[s] = ask[s] /\ TopicsGrow
      BY <1>1, <2>2 DEF QueueInv, QueueTypeOK, AsksTyped, TopicsGrow
    <3>2. QED
      BY <3>1, OtherAsk
  <2>3. QED
    BY <2>1, <2>2
<1>8. QED
  BY <1>4, <1>5, <1>6, <1>7 DEF BulkInv

LEMMA RetryMatches ==
    ASSUME BulkInv, RetryNext, UNCHANGED <<run, ask, topics, deaths>>
    PROVE  BulkInv' /\ (KeepingNext \/ UNCHANGED storeVars)
<1>1. QueueInv /\ StoreInv /\ AsksTyped
  BY DEF BulkInv, QueueInv
<1>2. RetryTypeOK' /\ (KeepingNext \/ UNCHANGED storeVars)
  BY <1>1, OperatorKeepsRows DEF QueueInv
<1>3. QueueTypeOK' /\ \A s \in Runs : RunOK(s)'
  BY <1>1, <1>2, KeepingRowsStay, UnchangedRowsStay, LoopsKept DEF QueueInv
<1>4. QueueInv'
  BY <1>1, <1>2, <1>3, QueueInvFrom
<1>5. ItemsOK'
  <2>1. PICK o \in Operators :
          \/ \E id \in OpIds : LookAtOperation(o, id)
          \/ RetryItems(o) \/ RetryOperation(o) \/ OperatorStops(o)
    BY DEF RetryNext
  <2>2. CASE RetryItems(o)
    <3>1. operator[o].id \in OpIds /\ ResetItems(operator[o].id)
      BY <1>1, <2>2 DEF RetryItems, QueueInv, RetryTypeOK, Retry
    <3>2. QED
      BY <1>1, <3>1, ResetItemsOK DEF BulkInv
  <2>3. CASE ~RetryItems(o)
    <3>1. UNCHANGED items
      BY <2>1, <2>3 DEF LookAtOperation, RetryOperation, ResetOperation, OperatorStops, storeVars
    <3>2. QED
      BY <3>1, SameItemsOK DEF BulkInv
  <2>4. QED
    BY <2>2, <2>3
<1>6. AsksTyped' /\ TopicsGrow
  BY <1>1 DEF AsksTyped, TopicsGrow
<1>7. \A s \in Runs : AskOK(s)' /\ ListOK(s)'
  BY <1>6, OtherAsk
<1>8. QED
  BY <1>2, <1>4, <1>5, <1>6, <1>7 DEF BulkInv

------------------------------------------------------------------------------

LEMMA BulkInitInv == BulkInit => BulkInv
<1> SUFFICES ASSUME BulkInit
             PROVE  BulkInv
  OBVIOUS
<1>1. StoreInv
  BY InitInv DEF BulkInit
<1>2. QueueInv
  BY <1>1 DEF BulkInit, RetryInit, QueueInit, QueueInv, RetryTypeOK, QueueTypeOK, RunOK
<1>3. AsksTyped
  <2>1. 0 \in 0..MaxTopics /\ 0 \in 0..MaxDeaths
    BY BulkAssumption
  <2>2. QED
    BY <2>1 DEF BulkInit, AsksTyped
<1>4. \A r \in Runs : AskOK(r) /\ ListOK(r)
  BY DEF BulkInit, QueueInit, AskOK, ListOK, Working
<1>5. ItemsOK
  BY DEF BulkInit, StoreInit, ItemsOK, CompletedHasTopic
<1>6. QED
  BY <1>2, <1>3, <1>4, <1>5 DEF BulkInv

LEMMA BulkStepInv == BulkInv /\ [BulkNext]_bulkVars => BulkInv'
<1> SUFFICES ASSUME BulkInv, [BulkNext]_bulkVars
             PROVE  BulkInv'
  OBVIOUS
<1>1. ASSUME NEW r \in Runs, Request(r)
      PROVE  BulkInv'
  BY <1>1, BulkCreateTopicsMatches DEF Request
<1>2. ASSUME NEW r \in Runs, NEW err \in Errors, ItemFloods(r, err)
      PROVE  BulkInv'
  <2>1. FloodPause(r) \/ FloodBudgetSpent(r, err)
    BY <1>2 DEF ItemFloods
  <2>2. QED
    BY <1>2, <2>1, PauseMatches, ItemEndsMatches
<1>3. ASSUME NEW r \in Runs, Proceed(r)
      PROVE  BulkInv'
  BY <1>2, <1>3, TakeItemMatches, TopicCreatedMatches, PauseMatches, ItemEndsMatches,
     FinishBulkMatches DEF Proceed
<1>4. CASE RetryNext /\ UNCHANGED <<run, ask, topics, deaths>>
  BY <1>4, RetryMatches
<1>5. CASE UNCHANGED bulkVars
  <2>1. /\ UNCHANGED storeVars /\ UNCHANGED operator /\ UNCHANGED run /\ UNCHANGED items
        /\ UNCHANGED <<ask, topics, deaths>>
    BY <1>5 DEF bulkVars, queueVars, retryVars, storeVars
  <2>2. QueueInv'
    BY <2>1, LoopsKept, UnchangedRowsStay, QueueInvFrom, OperatorStays DEF BulkInv, QueueInv
  <2>3. AsksTyped' /\ TopicsGrow
    BY <2>1 DEF BulkInv, AsksTyped, TopicsGrow
  <2>4. \A s \in Runs : AskOK(s)' /\ ListOK(s)'
    BY <2>1, <2>3, OtherAsk
  <2>5. QED
    BY <2>1, <2>2, <2>3, <2>4, SameItemsOK DEF BulkInv
<1>6. QED
  BY <1>1, <1>3, <1>4, <1>5, TelegramPerformsMatches, CrashMatches DEF BulkNext

------------------------------------------------------------------------------
(* The bulk's use of the store. *)

\* A step of a bulk calls the store as KeepingNext says, or leaves it alone.
LEMMA BulkStepKeeps ==
    BulkInv /\ [BulkNext]_bulkVars => KeepingNext \/ UNCHANGED storeVars
<1> SUFFICES ASSUME BulkInv, [BulkNext]_bulkVars
             PROVE  KeepingNext \/ UNCHANGED storeVars
  OBVIOUS
<1>1. QueueInv
  BY DEF BulkInv
<1>2. ASSUME NEW r \in Runs, Request(r)
      PROVE  KeepingNext \/ UNCHANGED storeVars
  <2>1. PICK k \in Keys, id \in OpIds :
            BeginOperation(BulkType, k, id) \/ UNCHANGED storeVars
    BY <1>2 DEF Request, BulkCreateTopics
  <2>2. QED
    BY <2>1, BulkAssumption DEF KeepingNext
<1>3. ASSUME NEW r \in Runs, NEW s \in TerminalStatus, NEW res \in Results \cup {None},
             NEW err \in Errors \cup {None}, Payload(s, res, err), ItemEnds(r, s, res, err)
      PROVE  KeepingNext
  BY <1>1, <1>3, ItemEndsKeeps
<1>4. ASSUME NEW r \in Runs, NEW res \in Results, ItemSucceeds(r, res)
      PROVE  KeepingNext
  <2>1. "completed" \in TerminalStatus /\ Payload("completed", res, None)
    BY DEF TerminalStatus, Status, Payload
  <2>2. QED
    BY <1>3, <1>4, <2>1 DEF ItemSucceeds
<1>5. ASSUME NEW r \in Runs, NEW err \in Errors, ItemFails(r, err) \/ ItemFloods(r, err)
      PROVE  KeepingNext \/ UNCHANGED storeVars
  <2>1. /\ "failed" \in TerminalStatus /\ Payload("failed", None, err)
        /\ "needs_review" \in TerminalStatus /\ Payload("needs_review", None, err)
    BY DEF TerminalStatus, Status, Payload
  <2>2. QED
    BY <1>3, <1>5, <2>1 DEF ItemFails, ItemFloods, FloodPause, FloodBudgetSpent
<1>6. ASSUME NEW r \in Runs, TakeItem(r)
      PROVE  KeepingNext
  BY <1>1, <1>6, NextItemKeeps DEF TakeItem
<1>7. ASSUME NEW r \in Runs, TopicCreated(r) \/ Resume(r) \/ TelegramPerforms(r) \/ Crash(r)
      PROVE  UNCHANGED storeVars
  BY <1>7 DEF TopicCreated, Resume, Wake, TelegramPerforms, Crash, queueVars, retryVars
<1>8. CASE RetryNext
  BY <1>1, <1>8, OperatorKeepsRows DEF QueueInv
<1>9. CASE UNCHANGED bulkVars
  BY <1>9 DEF bulkVars, queueVars, retryVars
<1>10. ASSUME NEW r \in Runs, Proceed(r)
       PROVE  KeepingNext \/ UNCHANGED storeVars
  BY <1>4, <1>5, <1>6, <1>7, <1>10, FinishBulkMatches DEF Proceed
<1>11. QED
  BY <1>2, <1>7, <1>8, <1>9, <1>10 DEF BulkNext

------------------------------------------------------------------------------
(* Completed parents. *)

LEMMA HasAllStays ==
    ASSUME CompletedHasAll, RowsStay, NoneCompletes
    PROVE  CompletedHasAll'
<1>1. ASSUME NEW id \in LiveOps', ops'[id].status = "completed", NEW ik \in Listed
      PROVE  items'[id][ik] # None /\ items'[id][ik].status = "completed"
  <2>1. id \in LiveOps /\ ops[id].status = "completed"
    BY <1>1 DEF NoneCompletes
  <2>2. items[id][ik] # None /\ items[id][ik].status = "completed"
    BY <2>1 DEF CompletedHasAll
  <2>3. QED
    BY <2>1, <2>2, ListedItems DEF RowsStay
<1>2. QED
  BY <1>1 DEF CompletedHasAll

\* The request that completes a parent has a completed record for each item of
\* its list, and its list is everybody's.
LEMMA FinishHasAll ==
    ASSUME OneList, BulkInv, CompletedHasAll, NEW r \in Runs, NEW res \in Results,
           NEW err \in Errors, FinishBulk(r, res, err)
    PROVE  CompletedHasAll'
<1>1. QueueInv /\ StoreInv /\ run[r] # None /\ run[r].id \in OpIds /\ UNCHANGED items
  BY DoneRun DEF FinishBulk, BulkInv, QueueInv, Transition
<1>2. ops \in [OpIds -> OpRow \cup {None}]
  BY <1>1 DEF StoreInv, StoreTypeOK
<1>3. CASE AllCompleted(r)
  <2>1. ASSUME NEW ik \in Listed
        PROVE  items[run[r].id][ik] # None /\ items[run[r].id][ik].status = "completed"
    <3>1. run[r].list \in Requests
      BY <1>1 DEF BulkInv, ListOK
    <3>2. ik \in Elements(run[r].list) /\ ik \in ItemKeys
      BY <3>1, ListedItems DEF OneList, Listed
    <3>3. run[r].records[ik] = "completed"
      BY <1>3, <3>2 DEF AllCompleted, Elements
    <3>4. QED
      BY <1>1, <3>2, <3>3 DEF QueueInv, RunOK
  <2>2. Transition(run[r].id, "completed", res, None)
    BY <1>3 DEF FinishBulk
  <2>3. \A i \in OpIds \ {run[r].id} : ops'[i] = ops[i]
    BY <1>1, <1>2, <2>2 DEF Transition
  <2>4. QED
    BY <1>1, <2>1, <2>3 DEF CompletedHasAll, LiveOps
<1>4. CASE ~AllCompleted(r)
  <2>1. Transition(run[r].id, "needs_review", None, err)
    BY <1>4 DEF FinishBulk
  <2>2. run[r].id \in LiveOps
    BY <1>1 DEF QueueInv, RunOK
  <2>3. PICK row : row = Settled(ops[run[r].id], "needs_review", None, err)
    OBVIOUS
  <2>4. ops' = [ops EXCEPT ![run[r].id] = row] /\ ops[run[r].id] \in OpRow
    BY <1>1, <1>2, <2>1, <2>2, <2>3 DEF Transition, LiveOps
  <2>5. row.status = "needs_review" \/ row = ops[run[r].id]
    BY <2>3, <2>4 DEF Settled, OpRow
  <2>6. NoneCompletes
    BY <1>1, <1>2, <2>2, <2>4, <2>5 DEF NoneCompletes, LiveOps
  <2>7. RowsStay
    BY <1>1, FinishBulkMatches, KeepingRowsStay
  <2>8. QED
    BY <2>6, <2>7, HasAllStays
<1>5. QED
  BY <1>3, <1>4

\* A handler's steps write items, which leaves the parents alone.
LEMMA HandlerCompletesNone ==
    ASSUME BulkInv, NEW r \in Runs,
           \/ TakeItem(r) \/ TopicCreated(r) \/ Resume(r)
           \/ \E res \in Results : ItemSucceeds(r, res)
           \/ \E err \in Errors : ItemFails(r, err) \/ ItemFloods(r, err)
           \/ TelegramPerforms(r) \/ Crash(r)
    PROVE  NoneCompletes /\ RowsStay
<1>1. QueueInv /\ StoreInv
  BY DEF BulkInv, QueueInv
<1>2. CASE TakeItem(r)
  <2>1. NextItem(r) /\ UNCHANGED ops
    BY <1>2 DEF TakeItem, NextItem, BeginItem
  <2>2. QED
    BY <1>1, <2>1, NextItemKeeps, KeepingRowsStay, SameOpsStay
<1>3. ASSUME NEW s \in TerminalStatus, NEW res \in Results \cup {None},
             NEW err \in Errors \cup {None}, Payload(s, res, err), ItemEnds(r, s, res, err)
      PROVE  NoneCompletes /\ RowsStay
  <2>1. UNCHANGED ops
    BY <1>3 DEF ItemEnds, TransitionItem
  <2>2. QED
    BY <1>1, <1>3, <2>1, ItemEndsKeeps, KeepingRowsStay, SameOpsStay
<1>4. ASSUME NEW res \in Results, ItemSucceeds(r, res)
      PROVE  NoneCompletes /\ RowsStay
  <2>1. "completed" \in TerminalStatus /\ Payload("completed", res, None)
    BY DEF TerminalStatus, Status, Payload
  <2>2. QED
    BY <1>3, <1>4, <2>1 DEF ItemSucceeds
<1>5. ASSUME UNCHANGED storeVars
      PROVE  NoneCompletes /\ RowsStay
  BY <1>5, UnchangedRowsStay, SameOpsStay DEF storeVars
<1>6. ASSUME NEW err \in Errors, ItemFails(r, err) \/ ItemFloods(r, err)
      PROVE  NoneCompletes /\ RowsStay
  <2>1. /\ "failed" \in TerminalStatus /\ Payload("failed", None, err)
        /\ "needs_review" \in TerminalStatus /\ Payload("needs_review", None, err)
    BY DEF TerminalStatus, Status, Payload
  <2>2. QED
    BY <1>3, <1>5, <1>6, <2>1 DEF ItemFails, ItemFloods, FloodPause, FloodBudgetSpent
<1>7. CASE TopicCreated(r) \/ Resume(r) \/ TelegramPerforms(r) \/ Crash(r)
  BY <1>5, <1>7 DEF TopicCreated, Resume, Wake, TelegramPerforms, Crash, queueVars, retryVars
<1>8. QED
  BY <1>2, <1>4, <1>6, <1>7

LEMMA HasAllStep ==
    ASSUME OneList, BulkInv, CompletedHasAll, [BulkNext]_bulkVars
    PROVE  CompletedHasAll'
<1>1. QueueInv /\ StoreInv /\ RetryTypeOK
  BY DEF BulkInv, QueueInv
<1>2. ASSUME UNCHANGED storeVars
      PROVE  CompletedHasAll'
  BY <1>2, UnchangedRowsStay, SameOpsStay, HasAllStays DEF storeVars
<1>3. ASSUME NEW r \in Runs, Request(r)
      PROVE  CompletedHasAll'
  <2>1. PICK k \in Keys, id \in OpIds :
            BeginOperation(BulkType, k, id) \/ UNCHANGED storeVars
    BY <1>3 DEF Request, BulkCreateTopics
  <2>2. CASE BeginOperation(BulkType, k, id)
    <3>1. KeepingNext
      BY <2>2, BulkAssumption DEF KeepingNext
    <3>2. QED
      BY <1>1, <2>2, <3>1, KeepingRowsStay, BegunOpsStay, BulkAssumption, HasAllStays
  <2>3. QED
    BY <1>2, <2>1, <2>2
<1>4. ASSUME NEW r \in Runs, Proceed(r) \/ TelegramPerforms(r) \/ Crash(r)
      PROVE  CompletedHasAll'
  <2>1. CASE \E res \in Results, err \in Errors : FinishBulk(r, res, err)
    BY <2>1, FinishHasAll
  <2>2. CASE ~\E res \in Results, err \in Errors : FinishBulk(r, res, err)
    <3>1. \/ TakeItem(r) \/ TopicCreated(r) \/ Resume(r)
          \/ \E res \in Results : ItemSucceeds(r, res)
          \/ \E err \in Errors : ItemFails(r, err) \/ ItemFloods(r, err)
          \/ TelegramPerforms(r) \/ Crash(r)
      BY <1>4, <2>2 DEF Proceed
    <3>2. QED
      BY <3>1, HandlerCompletesNone, HasAllStays
  <2>3. QED
    BY <2>1, <2>2
<1>5. CASE RetryNext
  <2>1. RowsStay
    BY <1>1, <1>5, OperatorKeepsRows, KeepingRowsStay, UnchangedRowsStay
  <2>2. QED
    BY <1>1, <1>5, <2>1, OperatorCompletesNone, HasAllStays
<1>6. CASE UNCHANGED bulkVars
  BY <1>2, <1>6 DEF bulkVars, queueVars, retryVars
<1>7. QED
  BY <1>3, <1>4, <1>5, <1>6 DEF BulkNext

------------------------------------------------------------------------------
(* Theorems. *)

\* The inductive invariant, for any number of overlapping bulk_create_topics of
\* one operation, operators and dying processes.
THEOREM BulkInvariant == BulkSpec => []BulkInv
<1>1. BulkSpec => BulkInit /\ [][BulkNext]_bulkVars
  BY DEF BulkSpec
<1>2. QED
  BY <1>1, BulkInitInv, BulkStepInv, PTL

\* The variables of the store, the operators, the loops (run_bulk) and their
\* handlers (_execute_create) keep their types; a loop never counts more
\* FLOOD_WAITs of an item than max_flood_wait_retries allows.
THEOREM BulkIsTyped == BulkSpec => []BulkTypeOK
<1>1. BulkInv => BulkTypeOK
  BY DEF BulkInv, QueueInv, StoreInv, AsksTyped, BulkTypeOK
<1>2. QED
  BY <1>1, BulkInvariant, PTL

\* A completed record of a running loop (run_bulk) is true until the loop ends,
\* whatever other requests of the operation and the operator do meanwhile.
THEOREM RecordsHold == BulkSpec => []CompletedRecordsHold
<1>1. BulkInv => CompletedRecordsHold
  BY DEF BulkInv, QueueInv, RunOK, CompletedRecordsHold
<1>2. QED
  BY <1>1, BulkInvariant, PTL

\* A loop that was told to stop on failure (run_bulk) has nothing left to do
\* once it has a record other than completed, its own or one it met.
THEOREM LoopStopsAtFailure == BulkSpec => []StopsAtFailure
<1>1. BulkInv => StopsAtFailure
  BY DEF BulkInv, QueueInv, RunOK, StopsAtFailure
<1>2. QED
  BY <1>1, BulkInvariant, PTL

\* bulk_create_topics, its loops and the operators use the store's own calls and
\* nothing else, so that all that is proved of StoreSpec holds under them.
THEOREM TopicsUseStore == BulkSpec => StoreSpec
<1>1. BulkSpec => BulkInit /\ [][BulkNext]_bulkVars
  BY DEF BulkSpec
<1>2. BulkInit => StoreInit
  BY DEF BulkInit
<1>3. BulkInv /\ [BulkNext]_bulkVars => [StoreNext]_storeVars
  BY BulkStepKeeps, KeepingIsStoreStep
<1>4. QED
  BY <1>1, <1>2, <1>3, BulkInvariant, PTL DEF StoreSpec

\* What a bulk has done is never undone: its parent and its items keep their
\* rows, and what is completed of them stays so, whoever else works on the bulk,
\* retries it or dies.
THEOREM TopicsAreKept == BulkSpec => [][RowsStay]_storeVars
<1>1. BulkSpec => [][BulkNext]_bulkVars
  BY DEF BulkSpec
<1>2. BulkInv /\ [BulkNext]_bulkVars => [RowsStay]_storeVars
  BY BulkStepKeeps, KeepingRowsStay DEF BulkInv, QueueInv
<1>3. QED
  BY <1>1, <1>2, BulkInvariant, PTL

\* If the requests of an operation_id send the same items, a parent that
\* bulk_create_topics completed has all of them completed, each with its topic.
THEOREM CompletedBulksCoverItems ==
    ASSUME OneList
    PROVE  BulkSpec => []CompletedCoversItems
<1>1. BulkSpec => BulkInit /\ [][BulkNext]_bulkVars
  BY DEF BulkSpec
<1>2. BulkInit => CompletedHasAll
  BY DEF BulkInit, StoreInit, CompletedHasAll, LiveOps
<1>3. BulkInv /\ CompletedHasAll /\ [BulkNext]_bulkVars => CompletedHasAll'
  BY HasAllStep, OneList
<1>4. BulkInv /\ CompletedHasAll => CompletedCoversItems
  <2> SUFFICES ASSUME BulkInv, CompletedHasAll, NEW id \in LiveOps,
                      ops[id].status = "completed", NEW ik \in ItemKeys, items[id][ik] # None
               PROVE  items[id][ik].status = "completed" /\ topics[id][ik] > 0
    BY DEF CompletedCoversItems
  <2>1. id \in OpIds
    BY DEF LiveOps
  <2>2. ik \in Listed
    BY <2>1 DEF BulkInv, ItemsOK
  <2>3. items[id][ik].status = "completed"
    BY <2>2 DEF CompletedHasAll
  <2>4. QED
    BY <2>1, <2>3 DEF BulkInv, ItemsOK, CompletedHasTopic
<1>5. QED
  BY <1>1, <1>2, <1>3, <1>4, BulkInvariant, PTL
==============================================================================
