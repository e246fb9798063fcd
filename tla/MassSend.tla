------------------------------- MODULE MassSend -------------------------------
(***************************************************************************)
(* mass_send_message (messages/service.py): a walk over the chats of a     *)
(* folder, listed once at its start, which finds the topic of a given      *)
(* title in each chat and sends it a message by send_message, under the    *)
(* key (operation_id, chat, topic).                                        *)
(*                                                                         *)
(* EXTENDS SingleShot, whose send_message, store and operator it uses.     *)
(* The folder is whatever chats it holds when a walk begins (see Folders). *)
(* A request without an operation_id is one whose MassOp no other names.   *)
(***************************************************************************)
EXTENDS SingleShot

CONSTANTS Chats,
          MassOps,     \* the operation_ids of mass sends
          TopicIds,    \* ids of topics, drawn per chat
          MaxRetitled  \* bound: changes of a chat's topics

VARIABLES topics,      \* chat -> the topics that bear the requested title
          walk,        \* caller -> its mass send, or None
          counted,     \* key -> how many answers counted its message as sent
          retitled     \* how often a chat's topics have changed

topicVars == <<topics, retitled>>
massVars == <<shotVars, topicVars, walk, counted>>

\* A failed chat's row in the answer tells an error of list_topics by its reason.
Outcome == {"none", "sent", "existed", "skipped", "failed", "list_topics_failed"}

Walk == [op : MassOps, left : SUBSET Chats, at : Chats \cup {None}, out : [Chats -> Outcome]]

\* What the theorems about mass sends assume of the constants.
MassConstants ==
    /\ Keys = MassOps \X Chats \X TopicIds
    /\ \A k \in Keys : TypeOf[k] = "message_send"
    /\ None \notin Chats \cup Walk \cup Call
    /\ TopicIds # {}
    /\ MaxRetitled \in Nat

HasOneTopic(c) == Cardinality(topics[c]) = 1

MassInit ==
    /\ ShotInit
    /\ topics \in [Chats -> {{}, {CHOOSE t \in TopicIds : TRUE}}]
    /\ walk = [w \in Callers |-> None]
    /\ counted = [k \in Keys |-> 0]
    /\ retitled = 0

\* Fault: one key per operation_id and topic.
MessageKeyOfTopic(op, c, t) == <<op, CHOOSE d \in Chats : TRUE, t>>

\* per_chat_op_id
MessageKey(op, c, t) == <<op, c, t>>

------------------------------------------------------------------------------
(* The walk. *)

\* resolve_folder gives the chats to walk over, in an arbitrary order.
StartMassSend(w, op, chats) ==
    /\ walk[w] = None
    /\ walk' = [walk EXCEPT ![w] =
                   [op |-> op, left |-> chats, at |-> None,
                    out |-> [c \in Chats |-> "none"]]]
    /\ UNCHANGED <<shotVars, topicVars, counted>>

Between(w) == walk[w] # None /\ walk[w].at = None

\* Fault: the walk leaves a chat and still waits for it.
PassedWaiting(wk, c, outcome) == [wk EXCEPT !.left = @ \ {c}, !.out = [@ EXCEPT ![c] = outcome]]

\* What a walk is once it has left chat c with an outcome.
Passed(wk, c, outcome) ==
    [wk EXCEPT !.left = @ \ {c}, !.at = None, !.out = [@ EXCEPT ![c] = outcome]]

Leave(w, c, outcome) == walk' = [walk EXCEPT ![w] = Passed(@, c, outcome)]

Count(k, outcome) ==
    counted' = [counted EXCEPT ![k] = @ + IF outcome = "sent" THEN 1 ELSE 0]

\* Fault: a replay counts as sent.
ReplayOutcomeSent(id) == IF ops[id].status = "completed" THEN "sent" ELSE "failed"

\* What send_message says of a key that has a row.
ReplayOutcome(id) == IF ops[id].status = "completed" THEN "existed" ELSE "failed"

\* list_topics found one topic of the title: send_message claims its key and
\* sends, or finds the row of an earlier request.
SendToTopic(w, c, t) ==
    LET k == MessageKey(walk[w].op, c, t)
    IN  \E id \in OpIds :
            \/ /\ Claim(w, k, id)
               /\ walk' = [walk EXCEPT ![w].at = c]
               /\ UNCHANGED counted
            \/ /\ Replay(w, k, id)
               /\ Leave(w, c, ReplayOutcome(id))
               /\ Count(k, ReplayOutcome(id))

\* No topic of the title, or several: skipped.
SkipChat(w, c) ==
    /\ Leave(w, c, "skipped")
    /\ UNCHANGED <<shotVars, counted>>

VisitChat(w, c) ==
    /\ Between(w)
    /\ c \in walk[w].left
    /\ IF HasOneTopic(c) THEN \E t \in topics[c] : SendToTopic(w, c, t)
                         ELSE SkipChat(w, c)
    /\ UNCHANGED topicVars

\* Fault: the error of list_topics is taken for a chat without the topic.
ListTopicsFailsSilently(w, c) ==
    /\ Between(w)
    /\ c \in walk[w].left
    /\ Leave(w, c, "skipped")
    /\ UNCHANGED <<shotVars, topicVars, counted>>

\* list_topics raises, FLOOD_WAIT or another error.
ListTopicsFails(w, c) ==
    /\ Between(w)
    /\ c \in walk[w].left
    /\ Leave(w, c, "list_topics_failed")
    /\ UNCHANGED <<shotVars, topicVars, counted>>

\* send_message returns or raises: either way the walk goes on.
Sent(w) ==
    /\ walk[w] # None
    /\ \E res \in Results : Finish(w, res)
    /\ Leave(w, walk[w].at, "sent")
    /\ Count(KeyOf(w), "sent")
    /\ UNCHANGED topicVars

SendFails(w) ==
    /\ walk[w] # None
    /\ \E err \in Errors : FloodWait(w, err) \/ Fail(w, err)
    /\ Leave(w, walk[w].at, "failed")
    /\ UNCHANGED <<topicVars, counted>>

\* The answer, with the outcome of every chat.
FinishMassSend(w) ==
    /\ Between(w)
    /\ walk[w].left = {}
    /\ walk' = [walk EXCEPT ![w] = None]
    /\ UNCHANGED <<shotVars, topicVars, counted>>

\* The process dies between two chats, or while it sends.
MassSendDies(w) ==
    /\ walk[w] # None
    /\ IF Running(w) THEN Crash(w) ELSE UNCHANGED shotVars
    /\ walk' = [walk EXCEPT ![w] = None]
    /\ UNCHANGED <<topicVars, counted>>

WalkOn(w) ==
    \/ \E c \in Chats : VisitChat(w, c) \/ ListTopicsFails(w, c)
    \/ Sent(w)
    \/ SendFails(w)
    \/ FinishMassSend(w)

------------------------------------------------------------------------------
(* The world around the walk. *)

\* The title of a topic is given to another topic of the chat as well, or a
\* topic is renamed or deleted.
RetitleTopics(c, ts) ==
    /\ retitled < MaxRetitled
    /\ retitled' = retitled + 1
    /\ topics' = [topics EXCEPT ![c] = ts]
    /\ UNCHANGED <<shotVars, walk, counted>>

MassNext ==
    \/ \E w \in Callers :
          \/ \E op \in MassOps, chats \in SUBSET Chats : StartMassSend(w, op, chats)
          \/ WalkOn(w)
          \/ TelegramApplies(w) /\ UNCHANGED <<topicVars, walk, counted>>
          \/ MassSendDies(w)
    \/ \E c \in Chats, ts \in SUBSET TopicIds : RetitleTopics(c, ts)
    \/ Operate /\ UNCHANGED <<topicVars, walk, counted>>

MassSpec == MassInit /\ [][MassNext]_massVars

------------------------------------------------------------------------------
(* Properties. *)

MassTypeOK ==
    /\ ShotTypeOK
    /\ topics \in [Chats -> SUBSET TopicIds]
    /\ walk \in [Callers -> Walk \cup {None}]
    /\ \A w \in Callers : Running(w) <=> walk[w] # None /\ walk[w].at # None
    /\ counted \in [Keys -> Nat]
    /\ retitled \in 0 .. MaxRetitled

\* However many mass sends of an operation_id are made, one after the other or
\* at once, and whatever the operator reopens, a topic gets the message at most
\* once and at most one answer counts it as sent.
SentOnce ==
    \A k \in Keys : applied[k]["call"] <= 1 /\ counted[k] <= 1

\* An answer that reports a chat as sent or existed is right: the message of
\* the operation_id is in a topic of that very chat.
ReportedIsDelivered ==
    \A w \in Callers : walk[w] # None =>
        \A c \in Chats : walk[w].out[c] \in {"sent", "existed"} =>
            \E t \in TopicIds : applied[<<walk[w].op, c, t>>]["call"] > 0

\* The outcome an answer gives to a chat in this step.
Becomes(w, c, outcome) ==
    /\ walk[w] # None /\ walk'[w] # None
    /\ walk[w].out[c] # outcome /\ walk'[w].out[c] = outcome

\* A chat is reported as skipped only when it has no topic, or several, of that
\* title: a throttle or an error of Telegram is not taken for a missing topic.
NoSilentMiss ==
    [][\A w \in Callers, c \in Chats : Becomes(w, c, "skipped") => ~HasOneTopic(c)]_massVars
==============================================================================
