# telegram-planfix-assistant in TLA+

The assistant creates Telegram groups and topics, changes members, sends
messages and sorts chats into folders on behalf of Planfix, through an HTTP API
and a command line. Every change of Telegram is an *operation* in a SQLite
table, under an *idempotency key*: a repeated request must be answered from the
table and must not change Telegram again. This directory models that promise,
the places where it is hard to keep, and proves the core of it.

All paths below are relative to `src/telegram_planfix_assistant/` of the
repository unless they start with `docs/` or `skills/`.

## Inventory

| Component | State it keeps | Operations | Correct when |
| --- | --- | --- | --- |
| Operation store (`persistence/store.py`, `schema.py`, `models.py`) | tables `operations`, `idempotency_index`, `operation_items` | begin, complete, fail, mark for review, delete, reset; the same for items | a key has one operation; the two tables of keys agree; terminal statuses are sticky and success is never taken back; payload columns fit the status |
| `operations retry` (`cli/main.py`) | what it has read | reads an operation, resets its items, resets it | never reopens what is completed, although the server writes in between |
| Single-shot services: `create_topic`, `close_topic` (`topics/service.py`), `set_topics_layout` (`groups/service.py`), `send_message` (`messages/service.py`) | none but the store | begin; replay or execute; record the outcome | Telegram performs a key's request at most once; all callers hear the same result; success is told only after the fact; what is executed settles |
| Group creation (`groups/service.py`, `groups/telethon_backend.py`) | none but the store | the same, with a check that a saved chat still exists, and several Telegram calls to execute | one chat per key; no dead chat is answered; a completed group is in its folder |
| Worker queue (`worker/queue.py`) | semaphore of one queue object | `run_bulk`: items one by one, FLOOD_WAIT slept off a bounded number of times, `stop_on_failure` | every item gets a recorded outcome; the loop ends |
| Bulk topics (`topics/service.py`) | none but the store | parent operation and items on the queue; a pending parent is resumed | the parent completes when all of its items have; a repeated request resumes where the last one died; one topic per item |
| Bulk members (`members/service.py`) | none but the store | `bulk_add_members`, `bulk_remove_members` on the queue, with two requests per item | a completed admin is promoted, a completed kick leaves no ban, answers about a user do not contradict each other, a parent completes when the whole list has |
| Mass send (`messages/service.py`) | none but the store | one `send_message` per chat of a folder | a topic gets a message once; what is reported was delivered; an error is not taken for a missing topic |
| Folders (`folders/`) | Telegram's own filters | inspect, resolve, add a chat (a read, a wait and a write of the whole filter) | what was placed stays, unless the owner or an overlapping write took it out |
| Topic lookup (`topics/telethon_backend.py`) | none | pages of topics, lookup by name | no topic is missed |
| Session (`telegram_client/session.py`), lifespan (`http_api/app.py`), health (`health.py`) | the cached client | connect, disconnect, log in; connect at start, retry in the background, probe | one client at a time; one that never connected does not stay cached; the server recovers from an outage |
| Keys (`persistence/idempotency.py`) | none | one key builder per operation type | different requests have different keys |
| Alert trackers (`observability/alerts.py`) | counters, windows, last progress | record, check | an alert at the threshold, once. Nothing calls them |
| HTTP API (`http_api/*.py`) and CLI (`cli/main.py`) | none of their own | the checks of each request, the dry run, the translation of outcomes | a dry run foretells the real run; both doors accept the same requests; success means a completed operation |
| Configuration, logging | none of their own | read at start, written only | outside of the models |

How they interact: an HTTP handler or a CLI command calls a service; the service
calls `begin_operation`, awaits Telegram through Telethon and records the
outcome in the store. Bulk services hand the awaiting to a `WorkerQueue`, built
anew for each request. Handlers share one event loop, so they interleave at
every `await`; the server and each CLI command are processes of their own that
share the database file, so they interleave at every store call. There is no
callback and no background worker: nothing is executed unless a request does it.

What makes it hard:

- two requests with one key, also in two processes;
- Telegram performs a request and the answer is lost, or the process dies;
- FLOOD_WAIT, which pauses a bulk and marks a single operation for review;
- an operator who reopens operations on what he read a moment ago;
- chats that disappear in Telegram while the table still has them;
- several Telegram calls in one operation, of which a later one fails;
- one `operation_id` sent again with another list, or other roles;
- Telegram's filters, which can only be written as a whole;
- a session that several callers connect at once while Telegram goes and comes;
- each check written twice, or three times: for the command, its dry run and
  the endpoint.

`PROJECT.json` lists each such place at its line, under `hazards`, with the
properties that guard it or the reason why none does yet.

## Modules

    KeyLedger                 what the store promises: one slot per key
    AtMostOnce                what the single-shot services promise to callers
    OperationStore            the tables; implements KeyLedger
      OperatorRetry           + "operations retry" processes
        SingleShot            + create_topic, close_topic, set_topics_layout, send_message;
                              implements AtMostOnce
          MassSend            + mass_send_message, one send_message per chat
        GroupCreate           + create_group
        WorkerQueue           + run_bulk, _run_item
          BulkTopics          + bulk_create_topics
          BulkMembers         + bulk_add_members, bulk_remove_members
    Session                   the shared client, lifespan, retry task, health polls
      Server                  + folder requests through it; an instance of Folders
    Folders                   resolve_folder, add_chat_to_folder, the owner's edits
    FrontDoor                 command, dry run and endpoint of one request,
                              in front of an instance of KeyLedger
    ...Proofs                 theorems about OperationStore, SingleShot (with
                              MassSend), GroupCreate, Server, FrontDoor, and
                              BulkTopics and BulkMembers on WorkerQueueProofs
    MC...                     values of the constants for TLC

Each line `EXTENDS` the one it is indented under. A service module uses the
store's own action operators (`BeginOperation`, `Transition`, ...) in its
actions, so the tables in it are the tables of `OperationStore`; the property
`UsesStore`, which is `StoreSpec` itself, says that. It is proved of every
service: `ServicesUseStore`, `MassSendsUseStore`, `GroupUsesStore`,
`TopicsUseStore` and `MembersUseStore`.

Definitions called "Fault: ..." next to a definition of the same parameters are
plausible bugs of that code. No specification uses them: they document which
mistake each property would reveal.

**OperationStore.** A row is a record or `None`. Every method is one SQLite
transaction (`BEGIN IMMEDIATE`, under a process lock), so it is one action.
`begin_operation` inserts row and index entry, or nothing (`KeyFree` is the
`UNIQUE` and the `PRIMARY KEY` constraint). `_transition` is `Transition`, with
the sticky rule in `Settled`. Payloads are opaque; timestamps are left out.
Ids are drawn once (`uuid4`), which `usedIds` remembers.

**OperatorRetry.** The command reads (`LookAtOperation`), resets the items
(`RetryItems`) and resets the operation (`RetryOperation`), three steps of a
process that may be killed between any two of them.

**SingleShot.** A caller claims a key and waits (`call`), or gets a replay. From
there on everything is an answer of Telegram: performed or not
(`TelegramApplies`), and answered by success (`TopicCreated`, `Finish`),
FLOOD_WAIT (`FloodWait`, which Telegram raises instead of performing the
request) or any other error (`Fail`, also of a request that *was* performed).
`applied` counts what Telegram did, `told` collects what callers heard, `lost`
the operations whose process died; they are observers, no action reads them.
All four services have this shape; `create_topic` has the first message as a
second wait, whose errors other than FLOOD_WAIT are ignored.

**AtMostOnce** keeps of this what a caller can see. Telegram performs a request
it never performed before (`Perform`), the first message after its topic, and a
caller is told of success (`Tell`) of a performed request, with the result that
all before it were told. It has no rows, no processes and no operator;
`KeepsPromise` says that `SingleShot` implements it.

**GroupCreate.** The replay first asks `chat_exists`; `DropStale` and `Reclaim`
are the two store calls after a negative answer. A chat is *lost* when
`chat_exists` answers False for it. That need not mean that it is gone: the answer
is False for a chat that was deleted, for one that is closed to the account, and,
by the `ValueError` of `get_input_entity`, for one that lives and that the session
does not know (`groups/telethon_backend.py:265-274`). So a live chat can be dropped
and made again, and `lostChats` has all three kinds; in the model the loss is for
good. `Reclaim` takes whatever row `begin_operation` returns, as the code does. The execution has the steps create,
populate, folder and task. Populating is one step because all of its calls share
their error handling: FLOOD_WAIT is raised, anything else is noted and skipped.
A folder failure of any kind becomes `FolderPeerFailureError`. The result
payload is the chat, so `Results = Chats`. What Telegram has is `made` (the chats
and the key each was created for), `lostChats` and `placed`; observers are
`asked` (the chats already lost when the caller asked), `answer` and `died`.

**WorkerQueue, BulkTopics.** A run is one request's loop over its list:
`NextItem` is `begin_item` and the decision to run the handler, `ItemEnds` the
outcome, `FloodPause` and `Wake` the sleep, `FloodBudgetSpent` its limit. The
handler of `BulkTopics` creates the topic and posts its first message. A request
whose parent is pending works on it, whoever else does: this is how a bulk is
resumed, and how two requests may run one item at the same time. The semaphore
is left out: a queue object is used by one request, whose loop is sequential.

**BulkMembers.** The same loop, with a handler of two requests: invite and
promote, or ban and lift the ban (`TelegramAdds`, `TelegramPromotes`,
`TelegramBans`, `TelegramUnbans`; `GoesOn` is the step from the first to the
second). FLOOD_WAIT at the first request goes to the queue; at the second the
code wraps it into an ordinary error, so `SecondFails` fails the item. The chat
is `member` and `bannedBy`. A caller sends one of several lists under the same
`operation_id` (`Requests`), since neither list nor role is part of the key.
`job` is what the request's own frame holds: its roles, the items that were
completed before it, and the row it got back for each item, from which
`FinishBulk` counts. Observers are `asked` (the roles an item was run with),
`told` (what answers claimed of a user), `shared` (operations that two requests
worked on at once) and `deaths`.

**MassSend.** A walk visits its chats in any order: `ListTopicsFails`, `SkipChat`
(no topic or several) or `SendToTopic`, which is `SingleShot`'s claim or replay
under the key `(operation_id, chat, topic)`; `Sent` and `SendFails` are the ends
of its `send_message`. `topics` is the far side and changes while walks go on.
`counted` is an observer: how many answers counted a message as sent.

**Folders.** `ListFolders` finds the folder and sees whether the chat is in it,
`ResolveChat` is the wait for the chat, `FetchFilters` reads the filters anew and
`WriteFilter` writes the one that was read, with the chat appended; each of them
may raise (`PlacementFails`). `OwnerEdits` are the account owner's changes in
the Telegram app. `placed` remembers what placers were told, `excused` what the
owner, or a write over a filter that had changed since it was read, took out.

**Session.** A caller of `get_client` caches a client before it is connected
(`GetClient`) and waits; `Connected` returns what the cache holds *then*, and
`ConnectFails` empties the cache whatever it holds. Callers are the lifespan
hook, its retry task, which ends at the first success, and the health polls.
An outage takes every connection. `proven`, `emptyHanded` and `raced` (a
connect failed while another caller relied on the client) are observers.

**Server** composes the two: a folder request takes the client of the moment it
is accepted (`handle`) and places its chat with that client, whatever becomes of
the session.

**FrontDoor.** A command is a sequence of stages in the order of the code: checks
of the request (`Need`, `Consent`), lookups that ask Telegram, and at the end
`Plan` or `Serve`; a failing stage answers with the code's exit code or status,
and a check that the request meets leaves no stage.
There are three programs for a request, `...Live`, `...Dry` and `...Http`, and all
three run at the same time, each pausing where the code awaits Telegram, while
the world changes. The model enumerates every combination of what the checks tell
apart (`AllAsks`).

Behind the checks a service is what it does to the abstract `KeyLedger`, which
starts with whatever an earlier request may have left (`Earlier`): `Claims` begins
an operation, or goes on with a pending bulk; `Replays` answers from an operation
that exists; `Settles` writes the outcome, which an outcome recorded already
outlasts, and tells the caller his own. `groups.create` does more, as the code
does (`groups/service.py:642-682`): a completed operation is replayed only after
`chat_exists` (`TelegramChecks`, `StillExists`), FLOOD_WAIT at that check is told as
needs_review and any other error is raised (`CheckFails`), and after a negative
answer the row is deleted by its id (`DropStale`) and the key begun again
(`Reclaim`), where a row that the other door has begun meanwhile is executed too.
`begun` counts the key's operations, so that a run knows which of them it means
(`op`), and `world.lost` has those whose chat is lost. `adopted` is an observer: the
operations that such a `Reclaim` executed without having begun them. How outcomes
are told is in `Told`, `Failed` (400 for a `ValueError`, 409 for a `FolderError` of
group creation) and `Translated` (the errors that a read of the layout and a
placement have codes of their own for).

Properties name their exceptions: `NoKey`, a group with a blank title and a blank
task id, which the dry run plans and the real run refuses because no key can be
derived (part of disagreement 4 below); `CliOnly`, two requests that mean
different things at the two doors; and in `OkMeansRecorded` the operations in
`world.lost` and `adopted`. A lost chat's operation may be dropped and begun anew
under an answer of success that was true when it was given. An adopted operation
is executed twice (disagreement 2), and whoever ends later tells its own outcome,
though the row keeps that of the first: 200 or exit code 0 over a row that needs
review or has failed. TLC finds the property violated without either exception.

## What the runs show

| Run | Question | Result |
| --- | --- | --- |
| `store` | can any sequence of store calls break the tables, or the ledger they implement? | no |
| `single_shot` | can repeated, concurrent, failed, crashed and retried requests perform a request twice, tell different results, tell success too early, break `AtMostOnce`, or leave an executed operation pending? | no |
| `single_shot_reopened` | is a reopened operation executed again, as `operations retry` documents? | no, even if nothing fails and all requests are repeated for ever |
| `group_create` | does a key have one chat as long as none is lost; is a lost chat ever answered; is a completed group placed; does an execution settle? | yes; no; yes; yes |
| `group_create_twice` | does a key have one *existing* chat, also once a chat was lost? | no |
| `bulk_topics` | do concurrent runs, FLOOD_WAIT, a death and an operator leave a bulk whose parent tells the truth, and does it end? | yes |
| `bulk_topics_twice` | does an item get one topic? | no |
| `bulk_members` | do lists that overlap, FLOOD_WAIT between two requests, failed promotions and liftings, deaths and an operator leave an item, an answer or a parent that claims too much? | no |
| `mass_send` | do concurrent and repeated mass sends over changing topics send or count a message twice, report what was not delivered, or miss a chat silently? | no |
| `server` | does the session keep one client and recover from an outage, and do placements through it stay? | yes |
| `front_door` | does a dry run foretell the real run, do the two doors check alike, does success stand for a completed operation, unless its chat was lost or two runs executed it? | yes |
| `dry_run_codes` | does a dry run refuse with the exit code of the real run? | no |

The four disagreements, each with its counterexample in a run:

1. `operations retry` reopens an operation "so the worker can re-run it"
   (`skills/telegram-planfix-assistant/SKILL.md:188`; `cli/main.py:3041`). No
   worker exists that would: a reopened single-shot operation stays pending, and
   every repetition of its request is refused with the advice to retry it. Only
   bulks resume from pending. The same holds for operations left pending by a
   process that died. The theorem `OrphansStayOrphans` shows it for any number
   of requests, rows and operators.
2. Two `create_group` calls that both find the saved chat gone: the first drops
   the operation and begins a new one, the second drops nothing more, gets the
   first one's pending row back from `begin_operation`, does not look at
   `created` and executes it as well. One key gets two supergroups.
3. FLOOD_WAIT at the first message of a bulk item: the queue repeats the whole
   handler, which creates the topic once more.
4. `docs/dry-run-contract.md:56-57` wants "the **same** validation errors and exit
   codes" from a dry run. A role that does not exist exits with 2 in the dry run
   of `members bulk-add` and with 1 in the real run, whose `typer.Exit(2)` is
   raised inside the coroutine and caught by the `except Exception` around it; a
   blank topic name, text or title is refused with 2 and with 1; a group with a
   blank title and a blank task id is planned and then refused.

A fifth, for which no run is spent: the comment at `messages/service.py:436-438`
says that a repeated mass send skips the chats that were sent to, "re-attempting
the rest". A chat whose send failed has its row, and a repeat reports it failed
without an attempt, as any single-shot operation does; that is
`ReplayOutcome`.

### Bounds

| Run | Values | Why they are enough |
| --- | --- | --- |
| `store` | 3 ids, 2 keys, 1 item, 2 results, 1 error | a key can be begun, dropped and begun again while another key lives; two results tell a replaced payload from a kept one. Ids, of which no definition names one, are symmetric |
| `single_shot` | the 4 services with a key each, 2 ids, 2 callers, 1 operator | callers only meet on a key, so two callers of one key and two callers of two keys are all the meetings there are |
| `group_create` | 2 keys (one with `skip_folder`), 2 ids, 3 chats, 2 callers, 1 operator | an operation can be dropped and begun again, and one chat be lost and replaced by both callers |
| `bulk_topics` | 2 requests, 2 items, 2 FLOOD_WAITs per item (`MaxFloodWaits`), 1 death (`MaxDeaths`), topics counted up to 1 (`MaxTopics`) | a first item that stops the loop and a second that must not be begun; a run that meets the items of another; one wait and then the limit |
| `bulk_topics_twice` | 1 request, topics counted up to 2 | the counterexample needs no second request |
| `bulk_members` | 2 users, 1 bulk of each type with its own run, 2 ids, one-item lists that differ in user or mode, 2 FLOOD_WAITs (`MaxFloodWaits`), 1 death, 1 operator | the list changes between two requests of an `operation_id`; an addition meets a ban; an item fails at each of its requests and is retried. Two requests on one bulk *at once* (`shared`), which two of the properties leave out, are beyond these bounds; the proofs cover them |
| `mass_send` | 1 `operation_id`, 2 chats of up to 2 topics, 2 ids, 2 walks, 1 operator, 1 change of topics (`MaxRetitled`) | two walks meet at a chat; a title becomes ambiguous, or goes, between two walks |
| `server` | 3 clients, 1 poll, 1 outage (`MaxOutages`), 2 chats, 1 folder, 2 names, 2 requests, 2 placements or edits (`MaxChanges`) | a client in use, one cached and one being made; two placements overlap, or one and an edit |
| `front_door`, `dry_run_codes` | every request of `AllAsks`, 1 change of the world (`MaxChanges`) | a change can fall between any two steps of the three programs, the check of a saved chat included; one lost chat is enough for both doors to find it gone, so that one drops and begins again under the eyes of the other. `front_door` has 1.5 million distinct states |

`MaxTopics`, `MaxDeaths`, `MaxRetitled`, `MaxOutages` and `MaxChanges` are bounds of the model and not of the
code; `MaxFloodWaits` is the code's `max_flood_wait_retries` (6 by default). Ids
that run out end a behaviour early, hence `CHECK_DEADLOCK FALSE` in all runs:
the program as a whole is never obliged to do anything, and a state in which all
ids are used and all callers idle is not an error.

### Fairness

- `SingleShot` and `GroupCreate`: weak fairness of what a handler does next
  (`AnswersCome`, `Proceed`). Telethon answers a request or raises, and between
  two awaits nothing blocks; which of the enabled outcomes it is stays open.
- `BulkTopics`: the same for `Proceed`, which includes the end of a sleep; and
  weak fairness of `Request`, since nothing but a repeated request resumes a
  bulk. Without repeated requests a bulk whose process died stays pending, as
  single operations do.
- `Server`: `ConnectsEnd`, that connect() returns or raises and that the retry
  task's pauses end; and `HealthIsPolled`, since `docker-compose.yml` asks
  `/health` every 60 s. The second carries `Recovers`: after its first success the
  retry task is over, and nothing else reconnects the client.
- `BulkMembers`, `MassSend` and `FrontDoor` state no fairness: their properties are
  of safety.
- `MCSingleShot!PatientSpec` gives the claim about reopened operations its best
  chance: no deaths, every request repeated for ever, commands that go on.

## What is proved

For every value of the constants, with the named assumptions of the modules:
`NULL` is no id, payload, row, chat or client, a key belongs to one service, which
is its prefix in `idempotency.py`, `NULL` is no status and no run, request or job of a
loop, bounds are natural numbers, and a queue allows at least one FLOOD_WAIT
(`max_flood_wait_retries`), a bulk of topics at least one topic (`MaxTopics`), and
the requests tried at the doors are among the combinations of `AllAsks`.
`MassConstants`, which says that a mass send's keys are its `(operation_id, chat,
topic)` and of type `message_send`, that there is a topic id, and what `NULL` is
not, stands in the statements of the theorems about `MassSend`: as a
module's assumption it would narrow those about `SingleShot` beside them.
`MCMassSend` has TLC evaluate it.

`OperationStoreProofs`, of `StoreSpec`:

- `StoreInvariant`: `StoreInv`, the conjunction of `StoreTypeOK`, `IndexAgrees`,
  `ItemsHaveParent`, `PayloadMatchesStatus` and `LiveIdsDrawn` (a row's id has
  been drawn), which it needs to be inductive: a new row must not replace a
  living one. `OneOperationPerKey` follows from `IndexAgrees`, for two rows of a
  key would both be the one its index entry names.
- `SuccessIsNeverTakenBack`, an action property, from the same invariant.
- `StoreImplementsLedger`: the refinement `slot <- LedgerSlots`. Each store
  action is mapped to a step of `KeyLedger` or to a stutter: item actions, calls
  of missing rows and sticky transitions stutter.

`SingleShotProofs`, of `ShotSpec`:

- `ServicesUseStore`: every step is one of `StoreNext` or leaves the tables
  alone, hence `StoreSpec`, hence all of the above.
- `ShotInvariant`: `ShotInv`. That Telegram performs a request at most once is
  not inductive: a call that has not been performed must be known to be the only
  one its key has ever had. `EffectsMatch` says that nothing was performed for
  a key without a row, and of a running call what it has had performed and that
  what it still waits for was not; `ExecutorOwnsRow` says that a running call is
  alone with its row. Since only a new row is ever executed, and rows of these
  services are never deleted, a reopened row stays nobody's. `AnswersAgree` and
  `SuccessMeansApplied` are proved in the same induction.
- `PerformedAtMostOnce`, `OneExecutorPerRow`, `CallersAgree`, `NoEarlySuccess`,
  `ShotIsTyped` are its consequences.
- `ServicesKeepPromise`: the refinement of `AtMostOnce`. `TelegramApplies` is a
  `Perform` because of `EffectsMatch`. `Finish` and a replay of a completed row are
  a `Tell` because the key has one row: nobody was told of it while it was
  pending, and everybody its result since. All else stutters.
- `OrphansStayOrphans` and `OrphansAreNotPerformed`: a pending row that no call
  executes (`Orphan`) stays that for ever, and Telegram is asked for nothing more
  under its key. A call gets its row by inserting it, and a row is in nobody
  else's hands; `ExecutorOwnsRow` and ids drawn once make it so. This is
  disagreement 1 for any number of callers, operators and keys.

`GroupCreateProofs`, of `GroupSpec`:

- `GroupUsesStore`, as for the single-shot services.
- `GroupInvariant`: `GroupInv`. `OneGroupUntilLost` is not inductive, and nothing
  about the call alone makes it so, for here a completed row *is* dropped and
  begun again. `KeyOK` says of a key none of whose chats is lost that it has at
  most one caller that has claimed it, that none of these is at `reclaim`, and
  that it has a chat only where it has a row; the drop needs a lost chat.
  `CallOK` binds a call's id to its key for as long as the row lives, which ids
  drawn once guarantee, its chat to the key it was made for, and the answer to
  chats not known to be lost; `LostWereMade` keeps `asked` within `lostChats`.
- `OneGroupPerKey`, `NoDeadChatIsAnswered`, `CompletedGroupsArePlaced` and
  `GroupIsTyped` are its consequences.

The second part of `SingleShotProofs`, of `MassSpec`: every step of a mass send is
a step of `SingleShot` or leaves its variables alone (`MassSendsUseServices`), so
`ShotInv` holds under it, and with it `MassSendsUseStore`, `MassSendsKeepPromise`,
which is `AtMostOnce` message by message, and `LostSendsStayLost`, the orphans.
`WalkOK` adds that a walk's running send has the key of the chat the walk is at,
and `CountedWasTold` that a counted message was told as sent, which no running
send's message was: hence `EachTopicOnce`. `ReportsAreTrue` and `ErrorsAreNotMisses`
(an action property) come from the same invariant.

`ServerProofs`, of `ServerSpec`: each half of the state has an invariant that
the other half's steps leave alone. `AllWaitForCached` (while nothing raced, all
callers wait for the cached client) carries `OneClient`; `StillbornIsAwaited`
extends `NoStillborn` to the time before the server serves; `PlacementsInOrder`
says what a placement under way relies on, and carries `PlacementsStay`. The
composition is faithful to its parts: `ServerRunsSession` shows that the server
implements `SessionSpec`, whose fairness is the server's own, and
`ServerPlacesChats` that it implements `FolderSpec`.

`WorkerQueueProofs` has the lemmas that the two bulks share. `RunOK` says what a
loop relies on: its operation lives, what is left is part of its list, the item a
handler works on has a row, every record of "completed" is the row's status still,
and a loop that must stop has nothing left after any other record. It survives
the steps of others because of `RowsStay`: no step of a bulk, another request or
an operator removes a row or takes "completed" back. `NoneCompletes` marks the
steps that complete no operation: all but the end of a loop. That every step is
one of the store's (`TopicsUseStore`, `MembersUseStore`) and that `RowsStay` holds
of it (`TopicsAreKept`, `MembersAreKept`) are theorems of the two modules that
follow.

`BulkTopicsProofs`, of `BulkSpec`: `BulkInvariant` adds to the loops what a handler
waits for and that a completed item has a topic. `BulkIsTyped`, `RecordsHold` and
`LoopStopsAtFailure` follow from it. `CompletedBulksCoverItems` needs one thing
more, `OneList`: the requests of an `operation_id` send the same items. Only then
does the list of the request that completes the parent cover everything that the
operation has begun; the theorem assumes it in its statement.

`BulkMembersProofs`, of `MembersSpec`, for any number of requests on one bulk at
once, with lists of any length: more than the run has room for.
`MembersInvariant` joins what holds of a run and of an item. Of a run: the role its
handler runs with is noted in `asked` before Telegram sees a request (`AskFits`),
what it got back as completed is so still (`RecFits`), and while no second request
has shared the bulk, it is alone and its item is pending (`AloneFits`). Of an
item: what it may have completed with (`ResultFits`), beside which ban
(`BanFits`), and that all answers said what its row says (`ToldFits`). A step of a
handler disturbs only its own item, and only if that is pending; the others'
items are `Calm`. `CompletedAdminsArePromoted`, `KicksLeaveNoBan`, `PrivacySticks`
and the action property `BulksCompleteByFullList` are consequences. The last holds
for requests with different lists: whoever completes a bulk has seen his own list
completed.

`FrontDoorProofs`, of `FrontSpec`, for every request of `AllAsks` and any bound on
the changes of the world:

- A program is a concatenation of stages, and what is said of all its stages is
  said of its parts (`Joined`): that all of them hold (`Passing`), all but those
  that ask for `--yes` or `--force` (`Excused`), and which codes they refuse with
  (`Cli`, `Http`). One lemma per command relates its three programs, by
  propositional reasoning about checks that have the same condition at two
  doors.
- `FrontInvariant`: `FrontInv`. `SurfacesAgree` and `DryRunForetells` speak of
  answers only, and say nothing of a run on its way to one, so they are not
  inductive. `RunOK` says at which stage of its program a run is and that plans and
  the service's answers come from the last; `Current` says that, while the world
  is the one the run began in, the stages behind it hold and the one that refused
  it does not.
- `OkMeansRecorded` is not inductive either: of a run that is still executing or
  verifying it says nothing. `Stands` says what such a run may rely on: a chat that
  is being looked for belongs to the key's last operation, completed, or is lost; a
  run at the drop has found a lost chat; an operation in execution is the last,
  pending and in one run's hands, or adopted. `StoreOK` bounds ids by `begun` and
  says that a lost chat's operation is completed or gone. `OthersRely` shows that no
  step of one run takes this from another: only the drop could, and it deletes by
  id an operation whose chat is lost.
- `RehearsalsForetell`, `DoorsAgree`, `SuccessIsRecorded` and `DoorsAreTyped` follow,
  and `DoorsExecuteAlone`: of the two doors one executes a single operation, unless
  it is adopted.
- `RehearsalsOnlyRehearse`: a dry run comes to no service, and a step of it
  changes neither the world nor the ledger nor the key's operations
  (`docs/dry-run-contract.md:121`).
- `DoorsUseLedger` and `DoorsImplementLedger`: what the doors do to the ledger, the
  drop of `create_group` included, are its own steps; and they implement
  `LedgerSpec` where no earlier request left an operation.

Proved and not checked by a run of its own: `OneOperationPerKey`,
`ItemsHaveParent`, `UsesStore` of every service, the two theorems about orphans
and `LostSendsStayLost`, the refinements of `SingleShot` by `MassSend` and of
`Session` and `Folders` by `Server`, `KeepsPromise` of `MassSend`, `TopicsAreKept`,
`MembersAreKept`, `RehearsalsOnlyRehearse`, `DoorsExecuteAlone` and the two theorems
about the doors and the ledger.

Model-checked only: the liveness properties (`RunningSettles`,
`ExecutionSettles`, `PendingBulkSettles`, `Recovers`), since liveness under
fairness is out of the prover's reach. Every safety property of a passing run is
proved.

## What is not modelled

- Idempotency keys as texts: they are model values, or tuples of what the code
  joins, so two requests never collide in one key by their spelling.
- The pages of `list_topics`: what a page holds is Telegram's choice and not in
  the repository. The models take the result of the walk.
- Two keys of one chat in `set_topics_layout`: keys are independent in
  `SingleShot`.
- The alert trackers, `run_operation` and `resume_bulk` of the queue, which
  nothing calls, and the queue's semaphore, which no queue object ever fills.
- Configuration, logging, printing, texts, payload contents and timestamps.
- In `FrontDoor`: the bearer check, errors of the configuration file, `auth`,
  `health` and `version`, both of two exclusive options (refused like neither),
  ids that are not positive, the difference between an empty and a blank
  string, and calls without an `operation_id`, whose key no one else has.
- In `Folders`: listed chats that cannot be resolved, and pinned chats.
- In `Session`: the interactive login, the proxy, and the module-level manager,
  which the server does not use.
- In `BulkMembers`: the normalization of user references; an item is a user. That
  the user is not in the chat when the ban is lifted is taken for a lifted ban,
  as the handler does.
- `create_group`'s clean-up of service messages: its errors are ignored and it
  changes nothing a later step looks at.

## Plan

The order is by how much of the program's promise rests on a module.

1. Done: the store, the single-shot services, group creation, the worker queue
   with the bulks of topics and of members, mass sends, folders, session and
   server, the two doors; proofs of all their safety properties, and the
   at-most-once promise as an abstract specification.
2. `BulkMembers` under TLC with two requests on one bulk, and `BulkTopics` with a
   second list under one `operation_id`, which need more room than TLC has now.
3. `TopicsLayout`: a chat with two layout keys, switched back and forth
   (`groups/service.py:763`).
4. `IdempotencyKeys` and `TopicPages`: pure functions against their reference
   definitions over bounded inputs, with no `RECURSIVE` operators, so that lemmas
   about them can be proved.
5. `Trackers`, once something calls the alert trackers.
