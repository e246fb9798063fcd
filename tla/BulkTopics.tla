------------------------------ MODULE BulkTopics ------------------------------
(***************************************************************************)
(* bulk_create_topics (topics/service.py) on the worker queue: one parent  *)
(* operation, one item per topic.  A request whose parent is still pending *)
(* works on it as well, be it left by a process that died, reopened by the *)
(* operator, or still being worked on by another request.                  *)
(*                                                                         *)
(* The handler is _execute_create: it creates the topic and then posts its *)
(* first message; a FLOOD_WAIT at either makes the queue run all of it     *)
(* again.  Item results, names and messages are left out.                  *)
(***************************************************************************)
EXTENDS WorkerQueue

CONSTANTS Requests,    \* the lists of items that callers send
          MaxTopics,   \* bound: the topics of an item are counted up to here
          MaxDeaths    \* bound: processes that die in the middle of a run

VARIABLES ask,         \* request -> what its handler waits for, or None
          topics,      \* operation -> item -> how many topics were created
          deaths       \* how many processes have died

bulkVars == <<queueVars, ask, topics, deaths>>

BulkType == "topic_bulk_create"

Ask == [step : {"create", "message"}, performed : BOOLEAN]

ASSUME BulkAssumption ==
    /\ Types = {BulkType}
    /\ Requests \subseteq Seq(ItemKeys) \ {<<>>}
    /\ None \notin Ask
    /\ MaxTopics \in Nat \ {0}
    /\ MaxDeaths \in Nat

BulkInit ==
    /\ StoreInit
    /\ RetryInit
    /\ QueueInit
    /\ ask = [r \in Runs |-> None]
    /\ topics = [id \in OpIds |-> [ik \in ItemKeys |-> 0]]
    /\ deaths = 0

WaitsFor(r, step) == ask[r] # None /\ ask[r].step = step
Send(r, step) == ask' = [ask EXCEPT ![r] = [step |-> step, performed |-> FALSE]]
SendNothing(r) == ask' = [ask EXCEPT ![r] = None]

------------------------------------------------------------------------------
(* The request. *)

\* begin_operation: a new or a pending parent is worked on; a completed one is
\* replayed and any other raises, neither of which changes anything.
BulkCreateTopics(r, k, list, stop) ==
    /\ run[r] = None
    /\ \E id \in OpIds :
          /\ \/ BeginOperation(BulkType, k, id)
             \/ /\ id \in RowsOfKey(k)
                /\ ops[id].status = "pending"
                /\ UNCHANGED storeVars
          /\ StartRun(r, id, list, stop)
    /\ UNCHANGED <<operator, ask, topics, deaths>>

TakeItem(r) ==
    /\ NextItem(r)
    /\ IF run'[r].step = "handler" THEN Send(r, "create") ELSE UNCHANGED ask
    /\ UNCHANGED <<operator, topics, deaths>>

------------------------------------------------------------------------------
(* The handler. *)

\* Telegram performs the request the handler waits for.
TelegramPerforms(r) ==
    /\ ask[r] # None
    /\ ~ask[r].performed
    /\ topics' = IF ask[r].step = "create" /\ topics[run[r].id][Item(r)] < MaxTopics
                 THEN [topics EXCEPT ![run[r].id][Item(r)] = @ + 1]
                 ELSE topics
    /\ ask' = [ask EXCEPT ![r].performed = TRUE]
    /\ UNCHANGED <<queueVars, deaths>>

TopicCreated(r) ==
    /\ WaitsFor(r, "create")
    /\ ask[r].performed
    /\ Send(r, "message")
    /\ UNCHANGED <<queueVars, topics, deaths>>

\* The message was posted, or failed, which does not fail the item.
ItemSucceeds(r, res) ==
    /\ WaitsFor(r, "message")
    /\ ItemEnds(r, "completed", res, None)
    /\ SendNothing(r)
    /\ UNCHANGED <<operator, topics, deaths>>

\* create_topic failed, with or without a topic.
ItemFails(r, err) ==
    /\ WaitsFor(r, "create")
    /\ ItemEnds(r, "failed", None, err)
    /\ SendNothing(r)
    /\ UNCHANGED <<operator, topics, deaths>>

\* FLOOD_WAIT at either request: Telegram has not performed it.
ItemFloods(r, err) ==
    /\ ask[r] # None
    /\ ~ask[r].performed
    /\ FloodPause(r) \/ FloodBudgetSpent(r, err)
    /\ SendNothing(r)
    /\ UNCHANGED <<operator, topics, deaths>>

\* The sleep is over and the handler starts from its first request.
Resume(r) ==
    /\ Wake(r)
    /\ Send(r, "create")
    /\ UNCHANGED <<operator, topics, deaths>>

------------------------------------------------------------------------------
(* The end of the request. *)

\* Fault: failed items do not count against the parent.
NothingToReview(r) ==
    \A i \in DOMAIN run[r].list : run[r].records[run[r].list[i]] \in {"completed", "failed"}

AllCompleted(r) ==
    \A i \in DOMAIN run[r].list : run[r].records[run[r].list[i]] = "completed"

\* The parent is completed when every item of the list is, and needs review
\* otherwise.
FinishBulk(r, res, err) ==
    /\ LoopDone(r)
    /\ IF AllCompleted(r)
       THEN Transition(run[r].id, "completed", res, None)
       ELSE Transition(run[r].id, "needs_review", None, err)
    /\ EndRun(r)
    /\ UNCHANGED <<operator, ask, topics, deaths>>

Crash(r) ==
    /\ run[r] # None
    /\ deaths < MaxDeaths
    /\ deaths' = deaths + 1
    /\ EndRun(r)
    /\ SendNothing(r)
    /\ UNCHANGED <<retryVars, topics>>

------------------------------------------------------------------------------

Proceed(r) ==
    \/ TakeItem(r)
    \/ TopicCreated(r)
    \/ Resume(r)
    \/ \E res \in Results : ItemSucceeds(r, res)
    \/ \E err \in Errors : ItemFails(r, err) \/ ItemFloods(r, err)
    \/ \E res \in Results, err \in Errors : FinishBulk(r, res, err)

Request(r) ==
    \E k \in Keys, list \in Requests, stop \in BOOLEAN : BulkCreateTopics(r, k, list, stop)

BulkNext ==
    \/ \E r \in Runs : Request(r) \/ Proceed(r) \/ TelegramPerforms(r) \/ Crash(r)
    \/ RetryNext /\ UNCHANGED <<run, ask, topics, deaths>>

\* Telethon answers or raises and sleeps end, so a loop goes on; and somebody
\* repeats the request while its operation is pending.
BulksGoOn == \A r \in Runs : WF_bulkVars(Proceed(r)) /\ WF_bulkVars(Request(r))

BulkSpec == BulkInit /\ [][BulkNext]_bulkVars /\ BulksGoOn

------------------------------------------------------------------------------
(* Properties. *)

BulkTypeOK ==
    /\ StoreTypeOK
    /\ RetryTypeOK
    /\ QueueTypeOK
    /\ ask \in [Runs -> Ask \cup {None}]
    /\ topics \in [OpIds -> [ItemKeys -> 0..MaxTopics]]
    /\ deaths \in 0..MaxDeaths

\* A completed parent leaves nothing behind: every item it has is completed and
\* has its topic, also when several requests, the operator and a restart worked
\* on it at once.  It is a property of requests that send one list for an
\* operation_id: the code completes the parent of whatever list it was sent.
CompletedCoversItems ==
    \A id \in LiveOps : ops[id].status = "completed" =>
        \A ik \in ItemKeys : items[id][ik] # None =>
            items[id][ik].status = "completed" /\ topics[id][ik] > 0

\* The loop may rely on a completed record until its end: no other request and
\* no retry takes it back.
CompletedRecordsHold ==
    \A r \in Runs : run[r] # None =>
        \A ik \in ItemKeys : run[r].records[ik] = "completed" =>
            items[run[r].id][ik].status = "completed"

\* With stop_on_failure no further item is begun once one has not completed.
StopsAtFailure ==
    \A r \in Runs : run[r] # None /\ run[r].stop =>
        \/ run[r].todo = <<>>
        \/ \A ik \in ItemKeys : run[r].records[ik] \in {None, "completed"}

\* A bulk whose request is repeated comes to an end, however often Telegram
\* answers FLOOD_WAIT, also after a process died in the middle of it and after
\* the operator reopened it.
PendingBulkSettles ==
    \A id \in OpIds :
        (id \in LiveOps /\ ops[id].status = "pending") ~>
            (id \in LiveOps /\ ops[id].status # "pending")

\* docs/init-plan.md on the bulk: no duplicates by planfix_task_id.  So an item
\* gets one topic.
OneTopicPerItem == \A id \in OpIds, ik \in ItemKeys : topics[id][ik] <= 1
==============================================================================
