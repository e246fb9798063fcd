------------------------------ MODULE FrontDoor ------------------------------
(***************************************************************************)
(* The two doors of the program and the rehearsal: one request, asked of   *)
(* the command line (cli/main.py), of the same command with --dry-run and  *)
(* of the HTTP API (http_api/*.py), at the same time.                      *)
(*                                                                         *)
(* A command is the sequence of the checks it makes before it calls its    *)
(* service, each with the exit code or status of its refusal, in the order *)
(* of the code.  Between two of them, where the code awaits Telegram, the  *)
(* world may change.  A request is abstracted to what the checks ask of    *)
(* it; printing and the wording of errors are left out.  Behind the checks *)
(* the service is what it does to the abstract ledger of KeyLedger, with   *)
(* the group that create_group looks for before it replays a row; what it  *)
(* does at Telegram is in SingleShot, GroupCreate, BulkTopics, BulkMembers,*)
(* MassSend and Folders.                                                   *)
(***************************************************************************)
EXTENDS Integers, Sequences

CONSTANTS Asks,         \* the requests tried, a subset of AllAsks
          MaxChanges    \* how often the world changes

VARIABLES ask,          \* the request
          world,        \* Telegram, and the server's client
          changes,      \* how often the world has changed
          ledger,       \* the slot of the request's idempotency key (KeyLedger)
          begun,        \* how many operations the key has had: the id of the last one
          run,          \* surface -> its run of the request
          adopted       \* operations executed by a run that did not begin them (observer)

frontVars == <<ask, world, changes, ledger, begun, run, adopted>>

Key == "key"
Ledger == INSTANCE KeyLedger WITH Keys <- {Key}, Results <- {"result"},
                                  Errors <- {"error"}, None <- "none", slot <- ledger

Slot == ledger[Key]
Slots == {Ledger!Free, Ledger!Claimed} \cup UNION {Ledger!Outcome(x) : x \in Ledger!TerminalStatus}

Surfaces == {"live", "dry", "http"}

------------------------------------------------------------------------------
(* Requests.  "neither" of two options stands for both as well, which the    *)
(* commands refuse alike; only a message without a chat has a meaning.       *)

Targets == {"id", "name", "neither"}

GroupCreateAsks ==
    [command: {"groups.create"}, title: {"text", "blank"},
     task: {"none", "blank", "set"}, layout: {"known", "unknown"}, skipFolder: BOOLEAN]

LayoutAsks == [command: {"groups.set-layout"}, layout: {"known", "unknown"}]

TopicCreateAsks == [command: {"topics.create"}, target: Targets, name: {"text", "blank"}]

\* A blank topic name is a skipped row of a CSV file, an error in a JSON file.
BulkTopicAsks ==
    [command: {"topics.bulk-create"}, target: Targets,
     items: {"good", "csv_blank", "json_blank", "none"}]

TopicCloseAsks ==
    [command: {"topics.close"}, target: Targets, topic: {"id", "name", "blank", "neither"}]

\* Among the users one that is blank, one that is no reference ("@"), or one
\* with a role that does not exist.
BulkAddAsks ==
    [command: {"members.bulk-add"}, target: Targets,
     users: {"good", "blank", "invalid", "bad_role", "none"}]

BulkRemoveAsks ==
    [command: {"members.bulk-remove"}, target: Targets, mode: {"known", "unknown"},
     users: {"good", "protected", "invalid", "none"}, yes: BOOLEAN, force: BOOLEAN]

SendAsks ==
    [command: {"messages.send"}, mass: BOOLEAN, target: Targets,
     topic: {"id", "name", "both", "blank", "neither"}, text: {"text", "blank"}]

AddChatAsks == [command: {"folders.add-chat"}, target: Targets]

OperationCommands == {"operations.status", "operations.retry"}
PlainCommands == {"groups.get-layout", "folders.inspect"} \cup OperationCommands
PlainAsks == [command: PlainCommands]

AllAsks ==
    UNION {GroupCreateAsks, LayoutAsks, TopicCreateAsks, BulkTopicAsks, TopicCloseAsks,
           BulkAddAsks, BulkRemoveAsks, SendAsks, AddChatAsks, PlainAsks}

ASSUME FrontAssumption == Asks \subseteq AllAsks /\ MaxChanges \in Nat

\* messages_send: without a chat the message goes to the whole folder.
IsMass(a) == a.mass \/ a.target = "neither"
HasTopicName(a) == a.topic \in {"name", "both", "blank"}

------------------------------------------------------------------------------
(* Stages.  Refusals are of four kinds: the request itself ("args"), what it *)
(* names ("lookup"), a missing --yes or --force ("consent"), and no Telegram *)
(* ("down").  A check of the request that is met leaves no stage: it waits   *)
(* for nothing, so what comes next comes with it.                            *)

If(cond, stages) == IF cond THEN stages ELSE <<>>

Refusal(kind, code) == <<[kind |-> kind, code |-> code]>>
Need(cond, code) == If(~cond, Refusal("args", code))
Consent(cond, code) == If(~cond, Refusal("consent", code))

Stage(kind) == <<[kind |-> kind, code |-> 0]>>

Open == Stage("open")             \* a client: a session of the command's own, or the server's
Folder == Stage("folder")         \* resolve_folder
Chat == Stage("chat")             \* resolve_chat_in_folder
Peer == Stage("peer")             \* resolve_chat
TopicByName == Stage("topic")     \* resolve_topic_id_by_name
TopicById == Stage("topic_id")    \* the id among list_topics
Recorded == Stage("recorded")     \* get_operation
Retryable == Stage("retryable")   \* get_operation, and it is not completed
Plan == Stage("plan")             \* print the dry_run document
Serve == Stage("serve")           \* call the service

------------------------------------------------------------------------------
(* The command line. *)

GroupsCreateArgs(a) == Need(a.layout = "known", 2)

GroupsCreateDry(a) ==
    GroupsCreateArgs(a) \o Need(a.title = "text" \/ a.task # "none", 2)
    \o If(~a.skipFolder, Open \o Folder) \o Plan

\* create_group itself refuses a blank title without a task id; with a blank
\* task id it is the idempotency key that cannot be derived.
GroupsCreateLive(a) ==
    GroupsCreateArgs(a) \o Open
    \o Need(a.title = "text" \/ a.task # "none", 1)
    \o Need(a.title = "text" \/ a.task = "set", 1) \o Serve

SetLayoutDry(a) == Need(a.layout = "known", 2) \o Plan

SetLayoutLive(a) == Need(a.layout = "known", 2) \o Open \o Serve

GetLayoutLive(a) == Open \o Serve

TopicsCreateArgs(a) == Need(a.target # "neither", 2)

\* That the topics cannot be listed is a warning.
TopicsCreateDry(a) ==
    TopicsCreateArgs(a) \o Need(a.name = "text", 2) \o Open
    \o If(a.target = "name", Chat) \o Plan

TopicsCreateLive(a) ==
    TopicsCreateArgs(a) \o Open \o If(a.target = "name", Chat)
    \o Need(a.name = "text", 1) \o Serve

BulkCreateArgs(a) ==
    Need(a.target # "neither", 2) \o Need(a.items \notin {"none", "json_blank"}, 2)

BulkCreateDry(a) == BulkCreateArgs(a) \o Open \o If(a.target = "name", Chat) \o Plan

BulkCreateLive(a) == BulkCreateArgs(a) \o Open \o If(a.target = "name", Chat) \o Serve

TopicsCloseArgs(a) == Need(a.target # "neither" /\ a.topic # "neither", 2)

\* The rehearsal also looks for a topic given by its id.
TopicsCloseDry(a) ==
    TopicsCloseArgs(a) \o Open \o If(a.target = "name", Chat) \o Need(a.topic # "blank", 1)
    \o (IF a.topic = "id" THEN TopicById ELSE TopicByName) \o Plan

TopicsCloseLive(a) ==
    TopicsCloseArgs(a) \o Open \o If(a.target = "name", Chat) \o Need(a.topic # "blank", 1)
    \o If(a.topic = "name", TopicByName) \o Serve

BulkAddArgs(a) == Need(a.target # "neither" /\ a.users # "none", 2)

\* Fault: roles are not looked at before the real run.
BulkAddDryAnyRole(a) ==
    BulkAddArgs(a) \o Need(a.users \notin {"blank", "invalid"}, 2)
    \o Open \o If(a.target = "name", Chat) \o Plan

BulkAddDry(a) ==
    BulkAddArgs(a) \o Need(a.users \notin {"bad_role", "blank", "invalid"}, 2)
    \o Open \o If(a.target = "name", Chat) \o Plan

\* The exit with 2 for a role is raised inside the coroutine and becomes a 1;
\* bulk_add_members drops a blank user and raises for an invalid one.
BulkAddLive(a) ==
    BulkAddArgs(a) \o Open \o If(a.target = "name", Chat)
    \o Need(a.users \notin {"bad_role", "invalid"}, 1) \o Serve

\* The options, then the users, which are normalized in either mode.
BulkRemoveArgs(a, dry) ==
    Need(a.target # "neither" /\ a.mode = "known" /\ a.users # "none", 2)
    \o Consent(dry \/ a.yes, 2)
    \o Need(a.users # "invalid", 2)
    \o Consent(dry \/ a.force \/ a.users # "protected", 2)

BulkRemoveDry(a) == BulkRemoveArgs(a, TRUE) \o If(a.target = "name", Open \o Chat) \o Plan

BulkRemoveLive(a) == BulkRemoveArgs(a, FALSE) \o Open \o If(a.target = "name", Chat) \o Serve

SendArgs(a) ==
    Need(~(a.mass /\ a.target # "neither") /\ (IsMass(a) => HasTopicName(a)), 2)

\* Where a message goes to.
SendLookups(a) ==
    IF IsMass(a) THEN Folder
    ELSE If(a.target = "name", Chat) \o Need(a.topic # "blank", 1)
         \o If(a.topic = "name", TopicByName)

SendDry(a) ==
    SendArgs(a) \o Need(a.text = "text" /\ ~(IsMass(a) /\ a.topic = "blank"), 2)
    \o Open \o SendLookups(a) \o Plan

\* mass_send_message looks at the text before the folder, send_message after the
\* lookups.
SendLive(a) ==
    SendArgs(a) \o Open
    \o If(IsMass(a), Need(a.text = "text" /\ a.topic # "blank", 1))
    \o SendLookups(a) \o Need(a.text = "text", 1) \o Serve

AddChatArgs(a) == Need(a.target # "neither", 2)

AddChatDry(a) ==
    AddChatArgs(a) \o Open \o Folder \o (IF a.target = "id" THEN Peer ELSE Chat) \o Plan

AddChatLive(a) ==
    AddChatArgs(a) \o Open \o If(a.target = "name", Chat) \o Folder \o Peer \o Serve

\* Fault: the folder is looked up and nothing is said of it.
InspectLiveSilent(a) == Open \o Folder

InspectLive(a) == Open \o Folder \o Serve

StatusLive(a) == Recorded \o Serve

RetryDry(a) == Retryable \o Plan

RetryLive(a) == Retryable \o Serve

------------------------------------------------------------------------------
(* The HTTP API.  Telegram is reached through the server's client, and       *)
(* without one the answer is 503.                                            *)

GroupsCreateHttp(a) ==
    Need(a.layout = "known", 422) \o Open \o Need(a.title = "text" \/ a.task = "set", 400) \o Serve

SetLayoutHttp(a) == Need(a.layout = "known", 422) \o Open \o Serve

GetLayoutHttp(a) == Open \o Serve

TopicsCreateHttp(a) ==
    Need(a.target # "neither", 422) \o Open \o If(a.target = "name", Chat)
    \o Need(a.name = "text", 400) \o Serve

BulkCreateHttp(a) ==
    Need(a.target # "neither" /\ a.items # "none", 422) \o Open \o If(a.target = "name", Chat)
    \o Need(a.items = "good", 400) \o Serve

TopicsCloseHttp(a) ==
    Need(a.target # "neither", 422) \o Open \o If(a.target = "name", Chat) \o Serve

BulkAddHttp(a) ==
    Need(a.users # "none", 422) \o Open \o Need(a.users \notin {"bad_role", "invalid"}, 400) \o Serve

\* Fault: the protected accounts are not looked at.
BulkRemoveHttpUnguarded(a) ==
    Need(a.users # "none", 422) \o Open
    \o Need(a.mode = "known" /\ a.users # "invalid", 400) \o Serve

BulkRemoveHttp(a) ==
    Need(a.users # "none", 422) \o Open
    \o Consent(a.force \/ a.users # "protected", 409)
    \o Need(a.mode = "known" /\ a.users # "invalid", 400) \o Serve

SendHttp(a) ==
    Need(IsMass(a) => a.topic \in {"name", "blank"}, 422) \o Open
    \o If(IsMass(a), Need(a.text = "text" /\ a.topic # "blank", 400))
    \o (IF IsMass(a) THEN Folder
        ELSE If(a.target = "name", Chat) \o Need(a.topic # "blank", 500)
             \o If(a.topic = "name", TopicByName))
    \o Need(a.text = "text", 400) \o Serve

AddChatHttp(a) ==
    Need(a.target # "neither", 422) \o Open \o If(a.target = "name", Chat) \o Folder \o Peer \o Serve

InspectHttp(a) == Open \o Folder \o Serve

------------------------------------------------------------------------------
(* Runs. *)

\* Where the request can be asked.  Read-only commands have no dry run; the API
\* closes a topic by its id and changes the members of a chat by its id.
Offered(s) ==
    /\ s = "dry" => ask.command \notin (PlainCommands \ {"operations.retry"})
    /\ s = "http" =>
          /\ ask.command \notin OperationCommands
          /\ ask.command = "topics.close" => ask.topic = "id"
          /\ ask.command \in {"members.bulk-add", "members.bulk-remove"} => ask.target = "id"
          /\ ask.command = "messages.send" => (ask.mass => ask.target = "neither")

DryProgram(a) ==
    CASE a.command = "groups.create" -> GroupsCreateDry(a)
      [] a.command = "groups.set-layout" -> SetLayoutDry(a)
      [] a.command = "topics.create" -> TopicsCreateDry(a)
      [] a.command = "topics.bulk-create" -> BulkCreateDry(a)
      [] a.command = "topics.close" -> TopicsCloseDry(a)
      [] a.command = "members.bulk-add" -> BulkAddDry(a)
      [] a.command = "members.bulk-remove" -> BulkRemoveDry(a)
      [] a.command = "messages.send" -> SendDry(a)
      [] a.command = "folders.add-chat" -> AddChatDry(a)
      [] a.command = "operations.retry" -> RetryDry(a)

LiveProgram(a) ==
    CASE a.command = "groups.create" -> GroupsCreateLive(a)
      [] a.command = "groups.set-layout" -> SetLayoutLive(a)
      [] a.command = "groups.get-layout" -> GetLayoutLive(a)
      [] a.command = "topics.create" -> TopicsCreateLive(a)
      [] a.command = "topics.bulk-create" -> BulkCreateLive(a)
      [] a.command = "topics.close" -> TopicsCloseLive(a)
      [] a.command = "members.bulk-add" -> BulkAddLive(a)
      [] a.command = "members.bulk-remove" -> BulkRemoveLive(a)
      [] a.command = "messages.send" -> SendLive(a)
      [] a.command = "folders.add-chat" -> AddChatLive(a)
      [] a.command = "folders.inspect" -> InspectLive(a)
      [] a.command = "operations.status" -> StatusLive(a)
      [] a.command = "operations.retry" -> RetryLive(a)

HttpProgram(a) ==
    CASE a.command = "groups.create" -> GroupsCreateHttp(a)
      [] a.command = "groups.set-layout" -> SetLayoutHttp(a)
      [] a.command = "groups.get-layout" -> GetLayoutHttp(a)
      [] a.command = "topics.create" -> TopicsCreateHttp(a)
      [] a.command = "topics.bulk-create" -> BulkCreateHttp(a)
      [] a.command = "topics.close" -> TopicsCloseHttp(a)
      [] a.command = "members.bulk-add" -> BulkAddHttp(a)
      [] a.command = "members.bulk-remove" -> BulkRemoveHttp(a)
      [] a.command = "messages.send" -> SendHttp(a)
      [] a.command = "folders.add-chat" -> AddChatHttp(a)
      [] a.command = "folders.inspect" -> InspectHttp(a)

Program(s) ==
    CASE s = "live" -> LiveProgram(ask) [] s = "dry" -> DryProgram(ask) [] s = "http" -> HttpProgram(ask)

Here(s) == Program(s)[run[s].at]

\* What a stage asks of the world, after Telegram has answered at all.
Holds(st) ==
    CASE st.kind \in {"args", "consent"} -> FALSE
      [] st.kind = "folder" -> world.folder
      [] st.kind = "chat" -> world.folder /\ world.chat = "one"
      [] st.kind = "peer" -> world.chat # "none"
      [] st.kind = "topic" -> world.topic = "one"
      [] st.kind = "topic_id" -> world.topic # "none"
      [] st.kind = "recorded" -> Slot # Ledger!Free
      [] st.kind = "retryable" -> Slot.status \notin {"free", "completed"}
      [] OTHER -> TRUE

AsksTelegram == {"folder", "chat", "peer", "topic", "topic_id"}

\* Whether a stage finds no Telegram: a command opens a session of its own, the
\* server has a client or has not.
Down(s, st) ==
    \/ st.kind = "open" /\ s = "http" /\ ~world.cached
    \/ st.kind = "open" /\ s # "http" /\ ~world.telegram
    \/ st.kind \in AsksTelegram /\ ~world.telegram

\* The code of an unexpected exception, of a conflict and of success.
Raised(s) == IF s = "http" THEN 500 ELSE 1
Ok(s) == IF s = "http" THEN 200 ELSE 0
Conflict(s) == IF s = "http" THEN 409 ELSE 2
InReview(s) == IF s = "http" THEN 502 ELSE 2

\* _translate_folder_error and its likes, and the except clauses of the commands.
NotFound(s, st) ==
    IF s # "http" THEN {2}
    ELSE CASE st.kind = "folder" -> {404, 409}
           [] st.kind = "chat" -> IF world.folder THEN {IF world.chat = "many" THEN 409 ELSE 404}
                                                  ELSE {404, 409}
           [] st.kind = "topic" -> {IF world.topic = "many" THEN 409 ELSE 404}
           [] OTHER -> {404}

Answer(s, code, why) ==
    run' = [run EXCEPT ![s] = [@ EXCEPT !.state = "answered", !.code = code, !.why = why]]

Begin(s) ==
    /\ run[s].state = "idle" /\ Offered(s)
    /\ run' = [run EXCEPT ![s] = [@ EXCEPT !.state = "checking", !.at = 1, !.since = changes]]
    /\ UNCHANGED <<ask, world, changes, ledger, begun, adopted>>

Pass(s) ==
    /\ run[s].state = "checking"
    /\ Here(s).kind \notin {"plan", "serve"}
    /\ ~Down(s, Here(s)) /\ Holds(Here(s))
    /\ run' = [run EXCEPT ![s].at = @ + 1]
    /\ UNCHANGED <<ask, world, changes, ledger, begun, adopted>>

Refuse(s) ==
    /\ run[s].state = "checking"
    /\ \/ /\ Down(s, Here(s))
          /\ Answer(s, IF Here(s).kind = "open" /\ s = "http" THEN 503 ELSE Raised(s), "down")
       \/ /\ ~Down(s, Here(s)) /\ ~Holds(Here(s))
          /\ IF Here(s).kind \in {"args", "consent"}
             THEN Answer(s, Here(s).code, Here(s).kind)
             ELSE \E code \in NotFound(s, Here(s)) : Answer(s, code, "lookup")
    /\ UNCHANGED <<ask, world, changes, ledger, begun, adopted>>

PrintPlan(s) ==
    /\ run[s].state = "checking" /\ Here(s).kind = "plan"
    /\ Answer(s, 0, "planned")
    /\ UNCHANGED <<ask, world, changes, ledger, begun, adopted>>

------------------------------------------------------------------------------
(* Services. *)

Bulks == {"topics.bulk-create", "members.bulk-add", "members.bulk-remove"}
Singles == {"groups.create", "groups.set-layout", "topics.create", "topics.close"}

IsBulk == ask.command \in Bulks
IsSingle == ask.command \in Singles \/ (ask.command = "messages.send" /\ ~IsMass(ask))

AtService(s) == run[s].state = "checking" /\ Here(s).kind = "serve"
Works(s, op) == run' = [run EXCEPT ![s] = [@ EXCEPT !.state = "working", !.op = op]]

\* The operation is new, or a bulk that is still pending.
Claims(s) ==
    /\ AtService(s) /\ (IsSingle \/ IsBulk)
    /\ \/ Ledger!Claim(Key) /\ begun' = begun + 1
       \/ IsBulk /\ Slot.status = "pending" /\ UNCHANGED <<ledger, begun>>
    /\ Works(s, begun')
    /\ UNCHANGED <<ask, world, changes, adopted>>

\* The operation found is the last one, and its outcome is the answer.
Repeats(s, code, why) ==
    run' = [run EXCEPT ![s] = [@ EXCEPT !.state = "answered", !.op = begun, !.code = code, !.why = why]]

\* The operation exists: its outcome is the answer, but a group that is recorded
\* is looked for first.
Replays(s) ==
    /\ AtService(s) /\ (IsSingle \/ IsBulk)
    /\ \/ /\ Slot.status = "completed"
          /\ IF ask.command = "groups.create"
             THEN run' = [run EXCEPT ![s] = [@ EXCEPT !.state = "verifying", !.op = begun]]
             ELSE Repeats(s, Ok(s), "replayed")
       \/ Slot.status = "pending" /\ ~IsBulk /\ Repeats(s, Conflict(s), "outcome")
       \/ Slot.status = "failed" /\ Repeats(s, Conflict(s), "outcome")
       \/ Slot.status = "needs_review" /\ Repeats(s, InReview(s), "outcome")
    /\ UNCHANGED <<ask, world, changes, ledger, begun, adopted>>

\* chat_exists at Telegram, and the answer on its way.
TelegramChecks(s) ==
    /\ run[s].state = "verifying" /\ world.telegram
    /\ run' = [run EXCEPT ![s].state = IF run[s].op \in world.lost THEN "gone" ELSE "found"]
    /\ UNCHANGED <<ask, world, changes, ledger, begun, adopted>>

StillExists(s) ==
    /\ run[s].state = "found"
    /\ Answer(s, Ok(s), "replayed")
    /\ UNCHANGED <<ask, world, changes, ledger, begun, adopted>>

\* FLOOD_WAIT leaves it open whether the chat is there, and any other error of
\* the check is nobody's to handle.  The row stays completed.
CheckFails(s) ==
    /\ run[s].state = "verifying"
    /\ Answer(s, InReview(s), "outcome") \/ Answer(s, Raised(s), "outcome")
    /\ UNCHANGED <<ask, world, changes, ledger, begun, adopted>>

\* Fault: the row is deleted by its key instead of its id.
DropStaleByKey(s) ==
    /\ run[s].state = "gone"
    /\ IF Slot # Ledger!Free THEN Ledger!Drop(Key) ELSE UNCHANGED ledger
    /\ run' = [run EXCEPT ![s].state = "reclaiming"]
    /\ UNCHANGED <<ask, world, changes, begun, adopted>>

\* The row whose chat was not found is deleted, if it is still there.
DropStale(s) ==
    /\ run[s].state = "gone"
    /\ IF run[s].op = begun /\ Slot # Ledger!Free THEN Ledger!Drop(Key) ELSE UNCHANGED ledger
    /\ run' = [run EXCEPT ![s].state = "reclaiming"]
    /\ UNCHANGED <<ask, world, changes, begun, adopted>>

\* begin_operation once more.  Whether it created the row it returns is not looked
\* at: a row that another run has begun meanwhile is executed too.
Reclaim(s) ==
    /\ run[s].state = "reclaiming"
    /\ \/ Ledger!Claim(Key) /\ begun' = begun + 1 /\ UNCHANGED adopted
       \/ Slot # Ledger!Free /\ adopted' = adopted \cup {begun} /\ UNCHANGED <<ledger, begun>>
    /\ Works(s, begun')
    /\ UNCHANGED <<ask, world, changes>>

\* A mass send, a placement and the reads have no operation of their own.
Goes(s) ==
    /\ AtService(s) /\ ~IsSingle /\ ~IsBulk
    /\ ask.command \notin OperationCommands
    /\ Works(s, 0)
    /\ UNCHANGED <<ask, world, changes, ledger, begun, adopted>>

\* How a failure is told: the API has a status for ValueError, and creating a
\* group one for FolderError.
Failed(s) ==
    {Raised(s)}
    \cup (IF s = "http" /\ (IsSingle \/ IsBulk \/ ask.command = "messages.send") THEN {400} ELSE {})
    \cup (IF s = "http" /\ ask.command = "groups.create" THEN {409} ELSE {})

\* How an outcome is told.  A bulk that needs review is answered like one that
\* completed, with its status in the body.
Told(s, outcome) ==
    CASE outcome = "completed" -> {Ok(s)}
      [] outcome = "needs_review" -> {IF IsBulk THEN Ok(s) ELSE InReview(s)}
      [] outcome = "failed" -> Failed(s)

\* What the execution came to is written to its row and told.  An outcome that is
\* recorded already stays, and the caller is told his own.
Settles(s) ==
    /\ run[s].state = "working" /\ (IsSingle \/ IsBulk)
    /\ run[s].op = begun
    /\ \E outcome \in IF IsBulk THEN {"completed", "needs_review"} ELSE Ledger!TerminalStatus :
          /\ \/ Ledger!Settle(Key, outcome)
             \/ Slot.status \in Ledger!TerminalStatus \ {outcome} /\ UNCHANGED ledger
          /\ \E code \in Told(s, outcome) :
                Answer(s, code, IF outcome = "completed" THEN "done" ELSE "outcome")
    /\ UNCHANGED <<ask, world, changes, begun, adopted>>

\* The errors that a read of the layout and a placement in a folder have codes of
\* their own for: FLOOD_WAIT; a FolderError of the placement, and over HTTP
\* FolderPeerFailureError.
Translated(s) ==
    CASE ask.command = "groups.get-layout" -> IF s = "http" THEN {502} ELSE {}
      [] ask.command = "folders.add-chat" -> IF s = "http" THEN {404, 502} ELSE {2}
      [] OTHER -> {}

Returns(s) ==
    /\ run[s].state = "working" /\ ~IsSingle /\ ~IsBulk
    /\ \/ Answer(s, Ok(s), "done")
       \/ \E code \in Failed(s) \cup Translated(s) : Answer(s, code, "outcome")
    /\ UNCHANGED <<ask, world, changes, ledger, begun, adopted>>

\* An exception that settles nothing, such as a transition of a row that is gone.
Raises(s) ==
    /\ run[s].state = "working" /\ (IsSingle \/ IsBulk)
    /\ \E code \in Failed(s) : Answer(s, code, "outcome")
    /\ UNCHANGED <<ask, world, changes, ledger, begun, adopted>>

OperationCommand(s) ==
    /\ AtService(s)
    /\ \/ ask.command = "operations.status" /\ UNCHANGED ledger
       \/ ask.command = "operations.retry" /\ Ledger!Reopen(Key)
       \/ ask.command = "operations.retry" /\ Slot.status = "pending" /\ UNCHANGED ledger
    /\ Answer(s, 0, "done")
    /\ UNCHANGED <<ask, world, changes, begun, adopted>>

\* Telegram goes or comes back, the server gets or loses its client, and people
\* make and remove folders, chats and topics, the chat of a recorded group too.
WorldChanges ==
    /\ changes < MaxChanges
    /\ \/ world' = [world EXCEPT !.telegram = ~@]
       \/ world' = [world EXCEPT !.cached = ~@]
       \/ world' = [world EXCEPT !.folder = ~@]
       \/ \E n \in {"none", "one", "many"} : world' = [world EXCEPT !.chat = n]
       \/ \E n \in {"none", "one", "many"} : world' = [world EXCEPT !.topic = n]
       \/ /\ ask.command = "groups.create" /\ Slot.status = "completed"
          /\ world' = [world EXCEPT !.lost = @ \cup {begun}]
    /\ world' # world
    /\ changes' = changes + 1
    /\ UNCHANGED <<ask, ledger, begun, run, adopted>>

\* What an earlier request may have left: nothing fails a bulk, and what is neither
\* a bulk nor a single operation has no slot.
Earlier ==
    CASE ask.command \in OperationCommands \/ IsSingle -> Slots
      [] IsBulk -> {left \in Slots : left.status # "failed"}
      [] OTHER -> {Ledger!Free}

FrontInit ==
    /\ ask \in Asks
    /\ world = [telegram |-> TRUE, cached |-> TRUE, folder |-> TRUE, chat |-> "one", topic |-> "one",
              lost |-> {}]
    /\ changes = 0
    /\ ledger \in [{Key} -> Earlier]
    /\ begun = IF Slot = Ledger!Free THEN 0 ELSE 1
    /\ run = [s \in Surfaces |->
                 [state |-> "idle", at |-> 0, since |-> 0, op |-> 0, code |-> 0, why |-> "none"]]
    /\ adopted = {}

FrontNext ==
    \/ WorldChanges
    \/ \E s \in Surfaces :
          \/ Begin(s) \/ Pass(s) \/ Refuse(s) \/ PrintPlan(s)
          \/ Claims(s) \/ Replays(s) \/ Goes(s)
          \/ TelegramChecks(s) \/ StillExists(s) \/ CheckFails(s) \/ DropStale(s) \/ Reclaim(s)
          \/ Settles(s) \/ Returns(s) \/ Raises(s) \/ OperationCommand(s)

FrontSpec == FrontInit /\ [][FrontNext]_frontVars

------------------------------------------------------------------------------
(* Properties. *)

\* A run that checks is at a stage of its program, and every program ends in a
\* plan or in the service: no command falls off its end without an answer.
FrontTypeOK ==
    /\ ask \in AllAsks
    /\ changes \in 0..MaxChanges
    /\ ledger \in [{Key} -> Slots]
    /\ begun \in Nat /\ world.lost \subseteq 1..begun /\ adopted \subseteq 1..begun
    /\ \A s \in Surfaces :
          /\ run[s].state \in {"idle", "checking", "verifying", "found", "gone", "reclaiming",
                              "working", "answered"}
          /\ run[s].op \in 0..begun
          /\ run[s].state = "checking" => run[s].at \in 1..Len(Program(s))
          /\ run[s].state = "answered" =>
                run[s].code \in IF s = "http" THEN {200, 400, 404, 409, 422, 500, 502, 503} ELSE 0..2

Refused(s) == run[s].state = "answered" /\ run[s].why \in {"args", "lookup"}
TurnedAway(s) == Refused(s) \/ run[s].why = "consent"
SameWorld(s, t) == run[s].since = changes /\ run[t].since = changes

\* The one request whose idempotency key cannot be derived though the rehearsal
\* plans it: a blank title with a blank task id.
NoKey(a) == a.command = "groups.create" /\ a.title = "blank" /\ a.task = "blank"

\* A rehearsal that printed a plan foretells that the real run passes its checks
\* too, as long as nothing changed since the earlier of the two began: only a
\* missing --yes or --force, or Telegram being away, can still stop it
\* (docs/dry-run-contract.md: "operators rely on dry-run as a safe rehearsal").
DryRunForetells ==
    run["dry"].why = "planned" /\ SameWorld("dry", "live") /\ ~NoKey(ask) => ~Refused("live")

\* Requests that mean different things to the two doors: a CSV row without a name
\* is skipped, a topic id in a mass send is ignored.
CliOnly(a) ==
    \/ a.command = "topics.bulk-create" /\ a.items = "csv_blank"
    \/ a.command = "messages.send" /\ IsMass(a) /\ a.topic = "both"

\* The two doors check alike, each in code of its own: in the same world the API
\* does not accept what the command refuses, nor refuse what the command
\* accepts, the guard of protected accounts included.
SurfacesAgree ==
    /\ run["live"].state = "answered" /\ run["http"].state = "answered"
    /\ SameWorld("live", "http") /\ ~CliOnly(ask)
    /\ \A s \in {"live", "http"} : run[s].why # "down"
    /\ ask.command = "members.bulk-remove" => ask.yes
    => (TurnedAway("live") <=> TurnedAway("http"))

\* Exit code 0, or status 200, for a request with an operation of its own means
\* that this operation is completed and stays so, whichever door executed it; only
\* a bulk may answer so and need review.  Two kinds are excepted: an operation
\* whose chat is not found any more may be dropped and begun anew, and of two runs
\* that execute one operation (groups/service.py:663) the later tells its own
\* outcome though the row keeps the earlier one's.
OkMeansRecorded ==
    \A s \in {"live", "http"} :
        run[s].state = "answered" /\ run[s].code = Ok(s) /\ (IsSingle \/ IsBulk) =>
            \/ run[s].op \in world.lost \cup adopted
            \/ /\ run[s].op = begun
               /\ Slot.status \in {"completed"} \cup IF IsBulk THEN {"needs_review"} ELSE {}

\* docs/dry-run-contract.md: "Dry-run must produce the same validation errors and
\* exit codes as the real run for these inputs".
DryRunSameExit ==
    Refused("live") /\ SameWorld("dry", "live") /\ run["dry"].state = "answered"
        => run["dry"].code = run["live"].code
==============================================================================
