----------------------------- MODULE GroupCreate -----------------------------
(***************************************************************************)
(* create_group (groups/service.py): the one service whose replay asks     *)
(* Telegram first.  A completed operation is replayed only while its chat  *)
(* still exists; when the chat is gone the operation is dropped and the    *)
(* key claimed anew.  The check, the drop and the new claim are separate   *)
(* steps: the check waits for Telegram, and the two store calls are two    *)
(* transactions on a database that other processes write.                  *)
(*                                                                         *)
(* The result payload is the chat.  The calls that populate a chat         *)
(* (permissions, layout, members, admins, invite link) are one step, for   *)
(* they share their error handling, and so are the /task message and the   *)
(* clean-up after it, whose errors are all ignored.                        *)
(***************************************************************************)
EXTENDS OperatorRetry

CONSTANTS Callers,      \* requests being served
          MaxChats,     \* bound: supergroups that may be created
          SkipFolder    \* keys whose requests say skip_folder

VARIABLES call,         \* caller -> what it is doing, or None
          made,         \* chat -> the key it was created for, or None
          lostChats,    \* chats that chat_exists no longer finds
          placed,       \* chats added to the folder
          asked,        \* caller -> the chats already lost when it last asked
          answer,       \* caller -> the chat it was last given, or None
          died          \* operations whose executing process died

groupVars == <<retryVars, call, made, lostChats, placed, asked, answer, died>>

Chats == 1..MaxChats
GroupType == "group_create"

ASSUME GroupAssumption ==
    /\ MaxChats \in Nat
    /\ Types = {GroupType}
    /\ Results = Chats
    /\ SkipFolder \subseteq Keys
    /\ None \notin Keys

\* "check" and "reclaim" belong to the replay of a lost chat, the rest to the
\* execution.
Steps == {"check", "reclaim", "create", "populate", "folder", "task"}
Executing == Steps \ {"check", "reclaim"}
Call == [key : Keys, id : OpIds, step : Steps, chat : Chats \cup {None}]

GroupInit ==
    /\ StoreInit
    /\ RetryInit
    /\ call = [c \in Callers |-> None]
    /\ made = [ch \in Chats |-> None]
    /\ lostChats = {}
    /\ placed = {}
    /\ asked = [c \in Callers |-> {}]
    /\ answer = [c \in Callers |-> None]
    /\ died = {}

At(c, step) == call[c] # None /\ call[c].step = step
Executes(c, id) == call[c] # None /\ call[c].step \in Executing /\ call[c].id = id
Fresh == {ch \in Chats : made[ch] = None /\ \A d \in Chats : d < ch => made[d] # None}

Goto(c, step) == call' = [call EXCEPT ![c].step = step]
Done(c) == call' = [call EXCEPT ![c] = None]

------------------------------------------------------------------------------
(* The request, and the replay of a completed operation. *)

\* Fault: the id of the new row is not kept.
BeginForgetsId(c, k, id) ==
    /\ BeginOperation(GroupType, k, id)
    /\ call' = [call EXCEPT ![c] = [key |-> k, id |-> None, step |-> "create", chat |-> None]]

\* begin_operation created the row.
Begin(c, k, id) ==
    /\ BeginOperation(GroupType, k, id)
    /\ call' = [call EXCEPT ![c] = [key |-> k, id |-> id, step |-> "create", chat |-> None]]

\* Fault: a completed operation is replayed without asking Telegram.
CreateGroupUnverified(c, k) ==
    /\ call[c] = None
    /\ asked' = [asked EXCEPT ![c] = lostChats]
    /\ \E id \in OpIds :
          \/ Begin(c, k, id) /\ answer' = [answer EXCEPT ![c] = None]
          \/ /\ id \in RowsOfKey(k)
             /\ ops[id].status = "completed"
             /\ answer' = [answer EXCEPT ![c] = ops[id].result]
             /\ UNCHANGED <<storeVars, call>>
    /\ UNCHANGED <<operator, made, lostChats, placed, died>>

\* A new key is claimed and executed.  A completed row is checked first; any
\* other row raises, which changes nothing.
CreateGroup(c, k) ==
    /\ call[c] = None
    /\ asked' = [asked EXCEPT ![c] = lostChats]
    /\ answer' = [answer EXCEPT ![c] = None]
    /\ \E id \in OpIds :
          \/ Begin(c, k, id)
          \/ /\ id \in RowsOfKey(k)
             /\ ops[id].status = "completed"
             /\ call' = [call EXCEPT ![c] =
                            [key |-> k, id |-> id, step |-> "check", chat |-> ops[id].result]]
             /\ UNCHANGED storeVars
    /\ UNCHANGED <<operator, made, lostChats, placed, died>>

\* chat_exists answers True: the saved result is the answer.
ChatExists(c) ==
    /\ At(c, "check")
    /\ call[c].chat \notin lostChats
    /\ answer' = [answer EXCEPT ![c] = call[c].chat]
    /\ Done(c)
    /\ UNCHANGED <<retryVars, made, lostChats, placed, asked, died>>

\* chat_exists raises, FLOOD_WAIT or anything else: so does create_group, and
\* the store is left alone.
CheckFails(c) ==
    /\ At(c, "check")
    /\ Done(c)
    /\ UNCHANGED <<retryVars, made, lostChats, placed, asked, answer, died>>

\* chat_exists answers False, also for a chat that lives but that the session does
\* not know (the ValueError of get_input_entity): delete_operation.
DropStale(c) ==
    /\ At(c, "check")
    /\ call[c].chat \in lostChats
    /\ DeleteOperation(call[c].id)
    /\ Goto(c, "reclaim")
    /\ UNCHANGED <<operator, made, lostChats, placed, asked, answer, died>>

\* The second begin_operation.  Whether it created the row is not looked at:
\* a row another caller has begun meanwhile is executed too.
Reclaim(c) ==
    /\ At(c, "reclaim")
    /\ \E id \in OpIds :
          \/ Begin(c, call[c].key, id)
          \/ /\ id \in RowsOfKey(call[c].key)
             /\ call' = [call EXCEPT ![c] =
                            [key |-> @.key, id |-> id, step |-> "create", chat |-> None]]
             /\ UNCHANGED storeVars
    /\ UNCHANGED <<operator, made, lostChats, placed, asked, answer, died>>

------------------------------------------------------------------------------
(* The execution. *)

\* Telegram creates the supergroup; its answer is not yet there.
TelegramCreates(c) ==
    /\ At(c, "create")
    /\ call[c].chat = None
    /\ \E ch \in Fresh :
          /\ made' = [made EXCEPT ![ch] = call[c].key]
          /\ call' = [call EXCEPT ![c].chat = ch]
    /\ UNCHANGED <<retryVars, lostChats, placed, asked, answer, died>>

SupergroupCreated(c) ==
    /\ At(c, "create")
    /\ call[c].chat # None
    /\ Goto(c, "populate")
    /\ UNCHANGED <<retryVars, made, lostChats, placed, asked, answer, died>>

\* Every populating call succeeded or was skipped.  skip_folder goes straight
\* to the task message.
Populated(c) ==
    /\ At(c, "populate")
    /\ Goto(c, IF call[c].key \in SkipFolder THEN "task" ELSE "folder")
    /\ UNCHANGED <<retryVars, made, lostChats, placed, asked, answer, died>>

AddedToFolder(c) ==
    /\ At(c, "folder")
    /\ placed' = placed \cup {call[c].chat}
    /\ Goto(c, "task")
    /\ UNCHANGED <<retryVars, made, lostChats, asked, answer, died>>

\* Fault: a folder failure is skipped like those of the populating calls.
FolderFailureSkipped(c, err) ==
    /\ At(c, "folder")
    /\ Goto(c, "task")
    /\ UNCHANGED <<retryVars, made, lostChats, placed, asked, answer, died>>

\* Any failure of the folder step, FLOOD_WAIT included, is a
\* FolderPeerFailureError: mark_needs_review.
FolderFails(c, err) ==
    /\ At(c, "folder")
    /\ Transition(call[c].id, "needs_review", None, err)
    /\ Done(c)
    /\ UNCHANGED <<operator, made, lostChats, placed, asked, answer, died>>

\* Fault: FLOOD_WAIT leaves the row pending.
FloodWaitUnrecorded(c, err) ==
    /\ At(c, "create") \/ At(c, "populate")
    /\ Done(c)
    /\ UNCHANGED <<retryVars, made, lostChats, placed, asked, answer, died>>

\* FLOOD_WAIT while creating or populating: mark_needs_review.
FloodWait(c, err) ==
    /\ At(c, "create") \/ At(c, "populate")
    /\ Transition(call[c].id, "needs_review", None, err)
    /\ Done(c)
    /\ UNCHANGED <<operator, made, lostChats, placed, asked, answer, died>>

\* Fault: the failed operation is dropped, to free its key for a new attempt.
CreateFailsAndFreesKey(c, err) ==
    /\ At(c, "create")
    /\ DeleteOperation(call[c].id)
    /\ Done(c)
    /\ UNCHANGED <<operator, made, lostChats, placed, asked, answer, died>>

\* create_supergroup fails otherwise, with or without a chat: fail_operation.
CreateFails(c, err) ==
    /\ At(c, "create")
    /\ Transition(call[c].id, "failed", None, err)
    /\ Done(c)
    /\ UNCHANGED <<operator, made, lostChats, placed, asked, answer, died>>

\* The /task message is sent or skipped; complete_operation; the caller gets
\* the chat it created, whatever the row says.  It raises when the row has gone.
Finish(c) ==
    /\ At(c, "task")
    /\ Transition(call[c].id, "completed", call[c].chat, None)
    /\ answer' = [answer EXCEPT ![c] = IF call[c].id \in LiveOps THEN call[c].chat ELSE None]
    /\ Done(c)
    /\ UNCHANGED <<operator, made, lostChats, placed, asked, died>>

Crash(c) ==
    /\ call[c] # None
    /\ died' = IF call[c].step \in Executing THEN died \cup {call[c].id} ELSE died
    /\ Done(c)
    /\ UNCHANGED <<retryVars, made, lostChats, placed, asked, answer>>

\* Somebody deletes a chat in Telegram, or removes the account from it, or the
\* session forgets it.  Whether the chat lives on makes no difference to create_group.
ChatLost(ch) ==
    /\ made[ch] # None
    /\ lostChats' = lostChats \cup {ch}
    /\ UNCHANGED <<retryVars, call, made, placed, asked, answer, died>>

------------------------------------------------------------------------------

Proceed(c) ==
    \/ ChatExists(c)
    \/ DropStale(c)
    \/ Reclaim(c)
    \/ SupergroupCreated(c)
    \/ Populated(c)
    \/ AddedToFolder(c)
    \/ Finish(c)
    \/ \E err \in Errors : FolderFails(c, err) \/ FloodWait(c, err) \/ CreateFails(c, err)

GroupNext ==
    \/ \E c \in Callers :
          \/ \E k \in Keys : CreateGroup(c, k)
          \/ Proceed(c)
          \/ CheckFails(c)
          \/ TelegramCreates(c)
          \/ Crash(c)
    \/ \E ch \in Chats : ChatLost(ch)
    \/ RetryNext /\ UNCHANGED <<call, made, lostChats, placed, asked, answer, died>>

\* Telethon answers or raises, and the code around it never waits for more.
CallsProceed == \A c \in Callers : WF_groupVars(Proceed(c))
GroupSpec == GroupInit /\ [][GroupNext]_groupVars /\ CallsProceed

------------------------------------------------------------------------------
(* Properties. *)

GroupTypeOK ==
    /\ StoreTypeOK
    /\ RetryTypeOK
    /\ call \in [Callers -> Call \cup {None}]
    /\ made \in [Chats -> Keys \cup {None}]
    /\ lostChats \in SUBSET Chats
    /\ placed \in SUBSET Chats
    /\ asked \in [Callers -> SUBSET Chats]
    /\ answer \in [Callers -> Chats \cup {None}]
    /\ died \in SUBSET OpIds

ChatsOf(k) == {ch \in Chats : made[ch] = k}

\* As long as no chat of a key is lost, repeated, concurrent, failed, crashed
\* and retried calls create one supergroup for it at the most.
OneGroupUntilLost ==
    \A k \in Keys : ChatsOf(k) \cap lostChats = {} => Cardinality(ChatsOf(k)) <= 1

\* A caller is never given a chat that had been lost before it asked: the
\* replay is only of what still exists.
NoDeadAnswer == \A c \in Callers : answer[c] # None => answer[c] \notin asked[c]

\* A completed operation names a chat that was created for its own key and is
\* in the folder, unless its requests skip the folder.
CompletedIsPlaced ==
    \A id \in LiveOps : ops[id].status = "completed" =>
        /\ made[ops[id].result] = ops[id].key
        /\ ops[id].result \in placed \/ ops[id].key \in SkipFolder

\* Each step is a step of the store or leaves it alone.
UsesStore == StoreSpec

\* An operation that is being executed is settled, or dropped with its chat,
\* unless its process dies.
ExecutionSettles ==
    \A id \in OpIds :
        (\E c \in Callers : Executes(c, id)) ~>
            (id \in died \/ id \notin LiveOps \/ ops[id].status # "pending")

\* docs/init-plan.md: a repeated call with the same planfix_task_id or title
\* does not create a duplicate.  So a key has one chat that exists.
OneExistingGroup == \A k \in Keys : Cardinality(ChatsOf(k) \ lostChats) <= 1
==============================================================================
