------------------------------ MODULE BulkMembers ------------------------------
(***************************************************************************)
(* bulk_add_members and bulk_remove_members (members/service.py) on the    *)
(* worker queue, with the members and the bans of one Telegram chat.       *)
(*                                                                         *)
(* Each handler makes two requests: add and then promote an admin, or ban  *)
(* and then lift the ban.  FLOOD_WAIT at the first makes the queue pause   *)
(* and run the handler again; at the second it is wrapped like any other   *)
(* error and fails the item.  An item is a user, by normalized reference;  *)
(* its role or mode is part of the request and no part of its key.         *)
(***************************************************************************)
EXTENDS WorkerQueue

CONSTANTS TypeOf,      \* Keys -> Types: a key carries its operation's type as prefix
          Requests,    \* type -> the bodies that callers send
          Sends,       \* bound: the requests of which keys a run may serve
          Joined,      \* bound: the sets of users that may be in the chat at first
          MaxDeaths    \* bound: processes that die in the middle of a run

VARIABLES job,         \* request -> what it asks of each item, and what was done before it
          ask,         \* request -> what its handler waits for, or None
          member,      \* user -> its place in the chat
          bannedBy,    \* user -> the operation whose ban holds, or None
          asked,       \* operation -> item -> the roles and modes handlers ran it with
          told,        \* operation -> item -> what answers claimed of it
          shared,      \* operations that two requests have worked on at once
          deaths       \* how many processes have died

memberVars == <<queueVars, job, ask, member, bannedBy, asked, told, shared, deaths>>

AddType == "member_bulk_add"
RemoveType == "member_bulk_remove"
Roles == {"member", "admin"}
Modes == {"ban", "ban_unban"}

\* stop: continue_on_error is off.
Body(as) == [items : Seq([user : ItemKeys, as : as]) \ {<<>>}, stop : BOOLEAN]

\* What a handler returns; a parent's result is only its counts.
AddResult == [status : {"added", "already_member", "privacy"}, promoted : BOOLEAN]
RemoveResult == [status : {"removed", "not_present"}, mode : Modes]
CountsResult == [status : {"counts"}]
ErrorTexts == {"failed", "promotion failed", "unban failed", "FLOOD_WAIT"}

\* "there": the first request found the user in the chat already.
Ask == [step : {"first", "second"}, there : BOOLEAN,
        reply : {"none", "ok", "already", "privacy", "gone"}]

\* rec: the row the loop has got back for an item.
Job == [as : Seq(Roles \cup Modes), existing : SUBSET ItemKeys,
        rec : [ItemKeys -> ItemRow \cup {None}]]

ASSUME MembersAssumption ==
    /\ Types = {AddType, RemoveType}
    /\ TypeOf \in [Keys -> Types]
    /\ Sends \in [Runs -> SUBSET Keys]
    /\ Requests[AddType] \subseteq Body(Roles)
    /\ Requests[RemoveType] \subseteq Body(Modes)
    /\ Joined \subseteq SUBSET ItemKeys
    /\ Results = AddResult \cup RemoveResult \cup CountsResult
    /\ Errors = ErrorTexts
    /\ MaxDeaths \in Nat
    /\ None \notin Ask /\ None \notin Job

MembersInit ==
    /\ StoreInit
    /\ RetryInit
    /\ QueueInit
    /\ job = [r \in Runs |-> None]
    /\ ask = [r \in Runs |-> None]
    /\ \E there \in Joined :
          member = [u \in ItemKeys |-> IF u \in there THEN "member" ELSE "absent"]
    /\ bannedBy = [u \in ItemKeys |-> None]
    /\ asked = [id \in OpIds |-> [u \in ItemKeys |-> {}]]
    /\ told = [id \in OpIds |-> [u \in ItemKeys |-> {}]]
    /\ shared = {}
    /\ deaths = 0

Adding(r) == ops[run[r].id].type = AddType
\* What the request asks of the item the loop is at.
As(r) == job[r].as[Len(run[r].list) - Len(run[r].todo) + 1]

Send(r, step, there) ==
    ask' = [ask EXCEPT ![r] = [step |-> step, there |-> there, reply |-> "none"]]
SendNothing(r) == ask' = [ask EXCEPT ![r] = None]
Waits(r, step, reply) == ask[r] # None /\ ask[r].step = step /\ ask[r].reply = reply

------------------------------------------------------------------------------
(* What an answer reports of an item. *)

Row(id, u) == items[id][u]

\* Fault: a replay reports whatever was completed as done.
AddStatusExistedFirst(row, existing) ==
    IF row = None \/ row.status = "pending" THEN "skipped"
    ELSE IF row.status # "completed" THEN row.status
    ELSE IF existing THEN "existed" ELSE row.result.status

\* _item_status_from_record: privacy is reported as such by replays too.
AddStatus(row, existing) ==
    IF row = None \/ row.status = "pending" THEN "skipped"
    ELSE IF row.status # "completed" THEN row.status
    ELSE IF existing /\ row.result.status # "privacy" THEN "existed" ELSE row.result.status

\* _remove_status_from_record
RemoveStatus(row, existing) ==
    IF row = None \/ row.status = "pending" THEN "skipped"
    ELSE IF row.status # "completed" THEN row.status
    ELSE IF existing THEN "existed" ELSE row.result.status

ItemStatus(t, row, existing) ==
    IF t = AddType THEN AddStatus(row, existing) ELSE RemoveStatus(row, existing)

\* An answer claims the item is done, that privacy forbids it, or neither.
Claim(status) ==
    IF status = "privacy" THEN {"privacy"}
    ELSE IF status \in {"failed", "needs_review", "skipped"} THEN {} ELSE {"done"}

\* The answer gives each user asked for its status.
Answer(id, status) ==
    told' = [told EXCEPT ![id] = [u \in ItemKeys |->
                IF u \in DOMAIN status THEN @[u] \cup Claim(status[u]) ELSE @[u]]]

------------------------------------------------------------------------------
(* The request. *)

UsersOf(list) == {list[i].user : i \in DOMAIN list}
CompletedItems(id) == {u \in ItemKeys : Row(id, u) # None /\ Row(id, u).status = "completed"}

\* begin_operation made the parent, or found it pending: the loop starts, and
\* remembers which items were completed before it.
StartBulk(r, k, body, id) ==
    /\ \/ BeginOperation(TypeOf[k], k, id)
       \/ id \in RowsOfKey(k) /\ ops[id].status = "pending" /\ UNCHANGED storeVars
    /\ StartRun(r, id, [i \in DOMAIN body.items |-> body.items[i].user], body.stop)
    /\ job' = [job EXCEPT ![r] = [as |-> [i \in DOMAIN body.items |-> body.items[i].as],
                                  existing |-> CompletedItems(id),
                                  rec |-> [u \in ItemKeys |-> None]]]
    /\ shared' = IF \E q \in Runs : run[q] # None /\ run[q].id = id
                 THEN shared \cup {id} ELSE shared
    /\ UNCHANGED told

\* _replay_bulk, _replay_bulk_remove: a completed parent is answered from the
\* rows of the items asked for.
ReplayBulk(k, body, id) ==
    /\ id \in RowsOfKey(k)
    /\ ops[id].status = "completed"
    /\ Answer(id, [u \in UsersOf(body.items) |-> ItemStatus(TypeOf[k], Row(id, u), TRUE)])
    /\ UNCHANGED <<storeVars, run, job, shared>>

\* A parent that has failed or needs review raises, which changes nothing.
Serve(r, k, body) ==
    /\ run[r] = None
    /\ \E id \in OpIds : StartBulk(r, k, body, id) \/ ReplayBulk(k, body, id)
    /\ UNCHANGED <<operator, ask, member, bannedBy, asked, deaths>>

BulkAddMembers(r, k) ==
    TypeOf[k] = AddType /\ \E body \in Requests[AddType] : Serve(r, k, body)

BulkRemoveMembers(r, k) ==
    TypeOf[k] = RemoveType /\ \E body \in Requests[RemoveType] : Serve(r, k, body)

\* The row the loop gets back for an item, for the answer.
WithRecord(j, u, row) == [j EXCEPT !.rec = [@ EXCEPT ![u] = row]]
KeepRecord(r) ==
    job' = [job EXCEPT ![r] = WithRecord(@, Item(r), items'[run[r].id][Item(r)])]

TakeItem(r) ==
    /\ NextItem(r)
    /\ IF run'[r].step = "handler"
       THEN /\ Send(r, "first", FALSE)
            /\ asked' = [asked EXCEPT ![run[r].id][Item(r)] = @ \cup {As(r)}]
            /\ UNCHANGED job
       ELSE KeepRecord(r) /\ UNCHANGED <<ask, asked>>
    /\ UNCHANGED <<operator, member, bannedBy, told, shared, deaths>>

------------------------------------------------------------------------------
(* Telegram. *)

Reply(r, reply) == ask' = [ask EXCEPT ![r].reply = reply]

\* Invites a user, unless it is in the chat, does not allow it, or is banned.
TelegramAdds(r, u) ==
    \/ /\ member[u] # "absent"
       /\ Reply(r, "already")
       /\ UNCHANGED <<member, bannedBy>>
    \/ /\ member[u] = "absent"
       /\ Reply(r, "privacy")
       /\ UNCHANGED <<member, bannedBy>>
    \/ /\ member[u] = "absent" /\ bannedBy[u] = None
       /\ Reply(r, "ok")
       /\ member' = [member EXCEPT ![u] = "member"]
       /\ UNCHANGED bannedBy

TelegramPromotes(r, u) ==
    /\ member[u] # "absent"
    /\ Reply(r, "ok")
    /\ member' = [member EXCEPT ![u] = "admin"]
    /\ UNCHANGED bannedBy

\* A user who is not in the chat is reported so, or banned all the same.
TelegramBans(r, u) ==
    \/ /\ member[u] = "absent"
       /\ Reply(r, "gone")
       /\ UNCHANGED <<member, bannedBy>>
    \/ /\ Reply(r, "ok")
       /\ member' = [member EXCEPT ![u] = "absent"]
       /\ bannedBy' = [bannedBy EXCEPT ![u] = run[r].id]

\* The handler takes "the user is not in the chat" for a lifted ban, and so does
\* this model.
TelegramUnbans(r, u) ==
    /\ bannedBy' = [bannedBy EXCEPT ![u] = None]
    /\ \E reply \in {"ok", "gone"} : Reply(r, reply)
    /\ UNCHANGED member

\* Telegram performs and answers the request a handler waits for.
TelegramPerforms(r) ==
    /\ ask[r] # None
    /\ ask[r].reply = "none"
    /\ LET u == Item(r) IN
       IF Adding(r)
       THEN IF ask[r].step = "first" THEN TelegramAdds(r, u) ELSE TelegramPromotes(r, u)
       ELSE IF ask[r].step = "first" THEN TelegramBans(r, u) ELSE TelegramUnbans(r, u)
    /\ UNCHANGED <<queueVars, job, asked, told, shared, deaths>>

------------------------------------------------------------------------------
(* The handlers. *)

EndItem(r, s, res, err) ==
    /\ ItemEnds(r, s, res, err)
    /\ KeepRecord(r)
    /\ SendNothing(r)
    /\ UNCHANGED <<operator, member, bannedBy, asked, told, shared, deaths>>

\* add_member has succeeded, or found the user there, and admins are promoted;
\* ban_member has succeeded, and kicks go on to lift the ban.
GoesOn(r) ==
    /\ Working(r, "handler")
    /\ Waits(r, "first", "ok") \/ Waits(r, "first", "already")
    /\ As(r) \in {"admin", "ban_unban"}
    /\ Send(r, "second", ask[r].reply = "already")
    /\ UNCHANGED <<queueVars, job, member, bannedBy, asked, told, shared, deaths>>

Added(r) ==
    /\ Working(r, "handler")
    /\ Adding(r)
    /\ \/ /\ Waits(r, "first", "privacy")
          /\ EndItem(r, "completed", [status |-> "privacy", promoted |-> FALSE], None)
       \/ /\ Waits(r, "first", "ok") \/ Waits(r, "first", "already")
          /\ As(r) = "member"
          /\ EndItem(r, "completed",
                [status |-> IF ask[r].reply = "already" THEN "already_member" ELSE "added",
                 promoted |-> FALSE], None)
       \/ /\ Waits(r, "second", "ok")
          /\ EndItem(r, "completed",
                [status |-> IF ask[r].there THEN "already_member" ELSE "added",
                 promoted |-> TRUE], None)

\* MemberNotPresentError at the ban ends the handler; at the lifting it is
\* taken for success.
Removed(r) ==
    /\ Working(r, "handler")
    /\ ~Adding(r)
    /\ \/ /\ Waits(r, "first", "gone")
          /\ EndItem(r, "completed", [status |-> "not_present", mode |-> As(r)], None)
       \/ /\ \/ Waits(r, "first", "ok") /\ As(r) = "ban"
             \/ Waits(r, "second", "ok")
             \/ Waits(r, "second", "gone")
          /\ EndItem(r, "completed", [status |-> "removed", mode |-> As(r)], None)

\* Any other error of the first request, performed or not.
FirstFails(r) ==
    /\ ask[r] # None
    /\ ask[r].step = "first"
    /\ EndItem(r, "failed", None, "failed")

\* Fault: an error of the second request is noted and not raised.
SecondFailsSwallowed(r) ==
    /\ ask[r] # None
    /\ ask[r].step = "second"
    /\ IF Adding(r)
       THEN EndItem(r, "completed", [status |-> "added", promoted |-> FALSE], None)
       ELSE EndItem(r, "completed", [status |-> "removed", mode |-> "ban_unban"], None)

\* Any error of the second request, FLOOD_WAIT included.
SecondFails(r) ==
    /\ ask[r] # None
    /\ ask[r].step = "second"
    /\ EndItem(r, "failed", None, IF Adding(r) THEN "promotion failed" ELSE "unban failed")

\* FLOOD_WAIT at the first request: Telegram has not performed it.
FirstFloods(r) ==
    /\ Waits(r, "first", "none")
    /\ \/ FloodPause(r) /\ UNCHANGED job
       \/ FloodBudgetSpent(r, "FLOOD_WAIT") /\ KeepRecord(r)
    /\ SendNothing(r)
    /\ UNCHANGED <<operator, member, bannedBy, asked, told, shared, deaths>>

\* Fault: the handler is woken and sends nothing.
ResumeSilently(r) ==
    /\ Wake(r)
    /\ UNCHANGED <<operator, job, ask, member, bannedBy, asked, told, shared, deaths>>

\* The sleep is over and the handler starts from its first request.
Resume(r) ==
    /\ Wake(r)
    /\ Send(r, "first", FALSE)
    /\ UNCHANGED <<operator, job, member, bannedBy, asked, told, shared, deaths>>

------------------------------------------------------------------------------
(* The end of the request. *)

Reported(r, u) == ItemStatus(ops[run[r].id].type, job[r].rec[u], u \in job[r].existing)
Asked(r) == {run[r].list[i] : i \in DOMAIN run[r].list}

\* Fault: needs_review items do not count against the parent.
NothingFailed(r) == \A u \in Asked(r) : Reported(r, u) \notin {"failed", "skipped"}

\* failed, needs_review and skipped are all zero.
NothingLeft(r) == \A u \in Asked(r) : Claim(Reported(r, u)) # {}

FinishBulk(r) ==
    /\ LoopDone(r)
    /\ IF NothingLeft(r)
       THEN Transition(run[r].id, "completed", [status |-> "counts"], None)
       ELSE Transition(run[r].id, "needs_review", None, "failed")
    /\ Answer(run[r].id, [u \in Asked(r) |-> Reported(r, u)])
    /\ EndRun(r)
    /\ job' = [job EXCEPT ![r] = None]
    /\ UNCHANGED <<operator, ask, member, bannedBy, asked, shared, deaths>>

Crash(r) ==
    /\ run[r] # None
    /\ deaths < MaxDeaths
    /\ deaths' = deaths + 1
    /\ EndRun(r)
    /\ job' = [job EXCEPT ![r] = None]
    /\ SendNothing(r)
    /\ UNCHANGED <<retryVars, member, bannedBy, asked, told, shared>>

------------------------------------------------------------------------------

Handle(r) ==
    GoesOn(r) \/ Added(r) \/ Removed(r) \/ FirstFails(r) \/ SecondFails(r) \/ FirstFloods(r)

Proceed(r) == TakeItem(r) \/ Handle(r) \/ Resume(r) \/ FinishBulk(r)

Request(r) == \E k \in Sends[r] : BulkAddMembers(r, k) \/ BulkRemoveMembers(r, k)

MembersNext ==
    \/ \E r \in Runs :
          \/ Request(r)
          \/ Proceed(r)
          \/ TelegramPerforms(r)
          \/ Crash(r)
    \/ RetryNext /\ UNCHANGED <<run, job, ask, member, bannedBy, asked, told, shared, deaths>>

MembersSpec == MembersInit /\ [][MembersNext]_memberVars

------------------------------------------------------------------------------
(* Properties. *)

MembersTypeOK ==
    /\ StoreTypeOK
    /\ RetryTypeOK
    /\ QueueTypeOK
    /\ job \in [Runs -> Job \cup {None}]
    /\ \A r \in Runs :
          /\ run[r] = None <=> job[r] = None
          /\ run[r] # None => DOMAIN job[r].as = DOMAIN run[r].list
          /\ ask[r] # None <=> Working(r, "handler")
    /\ ask \in [Runs -> Ask \cup {None}]
    /\ member \in [ItemKeys -> {"absent", "member", "admin"}]
    /\ bannedBy \in [ItemKeys -> OpIds \cup {None}]
    /\ asked \in [OpIds -> [ItemKeys -> SUBSET (Roles \cup Modes)]]
    /\ told \in [OpIds -> [ItemKeys -> SUBSET {"done", "privacy"}]]
    /\ shared \in SUBSET OpIds
    /\ deaths \in 0..MaxDeaths

\* members/service.py:22, "added: user was added by this run (and promoted when
\* role=admin)".  So an item that was only ever asked for as admin completes
\* promoted, or as forbidden by privacy: neither a FLOOD_WAIT between the two
\* requests nor a failed promotion that is retried through "already member"
\* leaves a plain member behind a completed item.  Asking for the same user in
\* both roles under one operation_id is outside: the role is no part of the key.
CompletedAdminIsPromoted ==
    \A id \in LiveOps, u \in ItemKeys :
        ops[id].type = AddType /\ asked[id][u] = {"admin"}
            /\ Row(id, u) # None /\ Row(id, u).status = "completed"
        => Row(id, u).result.promoted \/ Row(id, u).result.status = "privacy"

\* A kick that completes as "removed" has lifted its own ban: only a ban-only
\* item and a "not_present", which a retry after a failed lifting reports, may
\* stand beside a ban of the operation.  Two requests that work on the same
\* bulk at once may ban again behind the first one's back, and are outside.
KickLeavesNoBan ==
    \A id \in LiveOps \ shared, u \in ItemKeys :
        bannedBy[u] = id /\ Row(id, u).status = "completed"
        => Row(id, u).result.mode = "ban" \/ Row(id, u).result.status = "not_present"

\* The comment in _item_status_from_record: privacy is sticky across replays.
\* So no two answers of one operation say of a user that it is in the chat and
\* that it cannot be added; two requests at once may overwrite the verdict of
\* each other and are outside.
PrivacyIsSticky ==
    \A id \in LiveOps \ shared, u \in ItemKeys : Cardinality(told[id][u]) <= 1

\* A bulk is completed by a request all of whose own items are completed at that
\* moment, also when others sent the operation_id with other lists, the loop
\* was stopped early, or the operator reopened items meanwhile.
CompletedByFullList ==
    [][\A id \in LiveOps :
          ops[id].status = "pending" /\ ops'[id].status = "completed" =>
              \E r \in Runs :
                  /\ run[r] # None
                  /\ run[r].id = id
                  /\ Asked(r) \subseteq CompletedItems(id)]_memberVars
==============================================================================
