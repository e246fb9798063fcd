------------------------------ MODULE SingleShot ------------------------------
(***************************************************************************)
(* The services that do one thing in Telegram under one idempotency key:   *)
(* create_topic, close_topic (topics/service.py), set_topics_layout        *)
(* (groups/service.py) and send_message (messages/service.py), called      *)
(* concurrently by HTTP requests and CLI processes that share the store.   *)
(* A handler gives up control only while it waits for Telegram: what it    *)
(* does before and after that wait is one action each.                     *)
(*                                                                         *)
(* Telegram may apply a request whose answer is lost, and a process may    *)
(* die at any wait.  The wording of errors and of payloads is left out.    *)
(***************************************************************************)
EXTENDS OperatorRetry

CONSTANTS Callers,   \* requests being served: HTTP handlers and CLI commands
          TypeOf     \* Keys -> Types: a key carries its operation's type as prefix

VARIABLES call,      \* caller -> the operation it executes, or None
          applied,   \* key -> step -> how often Telegram performed that request
          told,      \* key -> the results callers were given as success
          lost       \* operations whose executing process died

shotVars == <<retryVars, call, applied, told, lost>>

ShotTypes == {"topic_create", "topic_close", "group_layout_set", "message_send"}

ASSUME TypeOfAssumption == Types = ShotTypes /\ TypeOf \in [Keys -> Types]

\* A handler waits for its main request ("call") or, in create_topic, for the
\* topic's first message ("message").
Steps == {"call", "message"}
Call == [id : OpIds, step : Steps, applied : BOOLEAN]

ShotInit ==
    /\ StoreInit
    /\ RetryInit
    /\ call = [c \in Callers |-> None]
    /\ applied = [k \in Keys |-> [s \in Steps |-> 0]]
    /\ told = [k \in Keys |-> {}]
    /\ lost = {}

Running(c) == call[c] # None
KeyOf(c) == ops[call[c].id].key
ServiceOf(c) == ops[call[c].id].type
Executes(c, id) == Running(c) /\ call[c].id = id

Idle(c) == call' = [call EXCEPT ![c] = None]

------------------------------------------------------------------------------
(* A request arrives. *)

\* Fault: the wait of the new call carries a step no handler knows.
ClaimWithoutStep(c, k, id) ==
    /\ BeginOperation(TypeOf[k], k, id)
    /\ call' = [call EXCEPT ![c] = [id |-> id, step |-> "begin", applied |-> FALSE]]
    /\ UNCHANGED <<operator, applied, told, lost>>

\* begin_operation created the row: the handler sends its request and waits.
Claim(c, k, id) ==
    /\ BeginOperation(TypeOf[k], k, id)
    /\ call' = [call EXCEPT ![c] = [id |-> id, step |-> "call", applied |-> FALSE]]
    /\ UNCHANGED <<operator, applied, told, lost>>

\* Fault: a row that is still pending is executed once more.
ReplayResumesPending(c, k, id) ==
    /\ id \in RowsOfKey(k)
    /\ IF ops[id].status = "pending"
       THEN call' = [call EXCEPT ![c] = [id |-> id, step |-> "call", applied |-> FALSE]]
       ELSE call' = call
    /\ told' = [told EXCEPT ![k] = IF ops[id].status = "completed"
                                   THEN @ \cup {ops[id].result} ELSE @]
    /\ UNCHANGED <<retryVars, applied, lost>>

\* Fault: a failed row is executed once more without being reopened.
ReplayRepeatsFailed(c, k, id) ==
    /\ id \in RowsOfKey(k)
    /\ IF ops[id].status = "failed"
       THEN call' = [call EXCEPT ![c] = [id |-> id, step |-> "call", applied |-> FALSE]]
       ELSE call' = call
    /\ told' = [told EXCEPT ![k] = IF ops[id].status = "completed"
                                   THEN @ \cup {ops[id].result} ELSE @]
    /\ UNCHANGED <<retryVars, applied, lost>>

\* begin_operation found the key's row: a completed one gives the saved result,
\* any other status raises.  Neither touches Telegram.
Replay(c, k, id) ==
    /\ id \in RowsOfKey(k)
    /\ told' = [told EXCEPT ![k] = IF ops[id].status = "completed"
                                   THEN @ \cup {ops[id].result} ELSE @]
    /\ UNCHANGED <<retryVars, call, applied, lost>>

Serve(c, k) ==
    /\ ~Running(c)
    /\ \E id \in OpIds : Claim(c, k, id) \/ Replay(c, k, id)

CreateTopic(c, k)     == TypeOf[k] = "topic_create"     /\ Serve(c, k)
CloseTopic(c, k)      == TypeOf[k] = "topic_close"      /\ Serve(c, k)
SetTopicsLayout(c, k) == TypeOf[k] = "group_layout_set" /\ Serve(c, k)
SendMessage(c, k)     == TypeOf[k] = "message_send"     /\ Serve(c, k)

------------------------------------------------------------------------------
(* Telegram performs the request and answers it. *)

TelegramApplies(c) ==
    /\ Running(c)
    /\ ~call[c].applied
    /\ call' = [call EXCEPT ![c].applied = TRUE]
    /\ applied' = [applied EXCEPT ![KeyOf(c)][call[c].step] = @ + 1]
    /\ UNCHANGED <<retryVars, told, lost>>

\* Fault: the first message is sent without waiting for the topic.
TopicAssumed(c) ==
    /\ Running(c)
    /\ ServiceOf(c) = "topic_create"
    /\ call[c].step = "call"
    /\ call' = [call EXCEPT ![c] = [@ EXCEPT !.step = "message", !.applied = FALSE]]
    /\ UNCHANGED <<retryVars, applied, told, lost>>

\* _execute_create has its topic id and sends the topic's first message.
TopicCreated(c) ==
    /\ Running(c)
    /\ ServiceOf(c) = "topic_create"
    /\ call[c].step = "call"
    /\ call[c].applied
    /\ call' = [call EXCEPT ![c] = [@ EXCEPT !.step = "message", !.applied = FALSE]]
    /\ UNCHANGED <<retryVars, applied, told, lost>>

\* The last request succeeded, or the first message failed, which create_topic
\* takes for success.
Succeeded(c) ==
    \/ call[c].step = "call" /\ ServiceOf(c) # "topic_create" /\ call[c].applied
    \/ call[c].step = "message"

\* Fault: the handler answers with what it did, and saves something else.
FinishSavingAnother(c, res) ==
    /\ Running(c)
    /\ Succeeded(c)
    /\ \E other \in Results \ {res} : Transition(call[c].id, "completed", other, None)
    /\ told' = [told EXCEPT ![KeyOf(c)] = @ \cup {res}]
    /\ Idle(c)
    /\ UNCHANGED <<operator, applied, lost>>

\* complete_operation, and the result goes to the caller.
Finish(c, res) ==
    /\ Running(c)
    /\ Succeeded(c)
    /\ Transition(call[c].id, "completed", res, None)
    /\ told' = [told EXCEPT ![KeyOf(c)] = @ \cup {res}]
    /\ Idle(c)
    /\ UNCHANGED <<operator, applied, lost>>

\* Fault: FLOOD_WAIT is raised to the caller with the row left pending.
FloodWaitUnrecorded(c, err) ==
    /\ Running(c)
    /\ ~call[c].applied
    /\ Idle(c)
    /\ UNCHANGED <<retryVars, applied, told, lost>>

\* Fault: the review mark is written without its reason.
FloodWaitWithoutReason(c, err) ==
    /\ Running(c)
    /\ ~call[c].applied
    /\ Transition(call[c].id, "needs_review", None, None)
    /\ Idle(c)
    /\ UNCHANGED <<operator, applied, told, lost>>

\* Telegram refuses with FLOOD_WAIT, at the request or at the first message:
\* mark_needs_review.
FloodWait(c, err) ==
    /\ Running(c)
    /\ ~call[c].applied
    /\ Transition(call[c].id, "needs_review", None, err)
    /\ Idle(c)
    /\ UNCHANGED <<operator, applied, told, lost>>

\* Fault: the first-message rule is used for the main request: its failure is
\* taken for success too.
FailSwallowed(c, err) ==
    /\ Running(c)
    /\ call[c].step = "call"
    /\ \E res \in Results :
          /\ Transition(call[c].id, "completed", res, None)
          /\ told' = [told EXCEPT ![KeyOf(c)] = @ \cup {res}]
    /\ Idle(c)
    /\ UNCHANGED <<operator, applied, lost>>

\* Any other error of the main request, be the request applied or not:
\* fail_operation.
Fail(c, err) ==
    /\ Running(c)
    /\ call[c].step = "call"
    /\ Transition(call[c].id, "failed", None, err)
    /\ Idle(c)
    /\ UNCHANGED <<operator, applied, told, lost>>

\* The process dies while it waits: the row stays as it is.
Crash(c) ==
    /\ Running(c)
    /\ lost' = lost \cup {call[c].id}
    /\ Idle(c)
    /\ UNCHANGED <<retryVars, applied, told>>

------------------------------------------------------------------------------

Request(c, k) == CreateTopic(c, k) \/ CloseTopic(c, k) \/ SetTopicsLayout(c, k) \/ SendMessage(c, k)

Answer(c) ==
    \/ TopicCreated(c)
    \/ \E res \in Results : Finish(c, res)
    \/ \E err \in Errors : FloodWait(c, err) \/ Fail(c, err)

Operate == RetryNext /\ UNCHANGED <<call, applied, told, lost>>

ShotStep ==
    \/ \E c \in Callers :
          \/ \E k \in Keys : Request(c, k)
          \/ TelegramApplies(c)
          \/ Answer(c)
    \/ Operate

ShotNext == ShotStep \/ \E c \in Callers : Crash(c)

\* Every request Telethon sends is answered or raises.
AnswersCome == \A c \in Callers : WF_shotVars(Answer(c))

ShotSafety == ShotInit /\ [][ShotNext]_shotVars

ShotSpec == ShotSafety /\ AnswersCome

------------------------------------------------------------------------------
(* Properties. *)

ShotTypeOK ==
    /\ StoreTypeOK
    /\ RetryTypeOK
    /\ call \in [Callers -> Call \cup {None}]
    /\ applied \in [Keys -> [Steps -> Nat]]
    /\ told \in [Keys -> SUBSET Results]
    /\ lost \in SUBSET OpIds

\* Whatever requests are repeated, answers are lost, processes die and
\* operations are retried by the operator, Telegram performs the request of an
\* idempotency key, and a topic's first message, at most once.
AppliedAtMostOnce == \A k \in Keys, s \in Steps : applied[k][s] <= 1

\* A row that is being executed is pending and has a single executor, though
\* nothing in the store says who that is: the verdict of a handler therefore
\* always lands, and is never dropped by a sticky status.
ExecutorOwnsRow ==
    /\ \A c \in Callers : Running(c) => call[c].id \in LiveOps /\ ops[call[c].id].status = "pending"
    /\ \A c, d \in Callers : Running(c) /\ Running(d) /\ call[c].id = call[d].id => c = d

\* All callers of a key that are told of success are given the same result, the
\* one the store has saved.
AnswersAgree ==
    \A k \in Keys : \A res \in told[k] :
        \E id \in RowsOfKey(k) : ops[id].status = "completed" /\ ops[id].result = res

\* Neither a caller nor the table is told of success before Telegram has
\* performed the request.
SuccessMeansApplied ==
    /\ \A k \in Keys : told[k] # {} => applied[k]["call"] > 0
    /\ \A id \in LiveOps : ops[id].status = "completed" => applied[ops[id].key]["call"] > 0

\* What a service is to its callers, with rows, processes and operators hidden.
Once == INSTANCE AtMostOnce

\* To their callers the services are AtMostOnce: a key's request is performed
\* once or never, a topic's first message after its topic, and whoever is told of
\* success is told what all others are told, of a request that was performed.
KeepsPromise == Once!OnceSpec

\* A service only writes the store through its methods: each step is a step of
\* the store or leaves it alone.
UsesStore == StoreSpec

\* An operation that is being executed reaches a terminal status, unless its
\* process dies.
RunningSettles ==
    \A id \in OpIds :
        (\E c \in Callers : Executes(c, id)) ~>
            (id \in lost \/ (id \in LiveOps /\ ops[id].status # "pending"))

\* cli/main.py on "operations retry": "The actual re-execution is performed by
\* the worker queue when it next picks the operation up".  So an operation the
\* operator has reopened is executed again.
ReopenedRunsAgain ==
    \A id \in OpIds :
        (id \in LiveOps /\ ops[id].status = "pending" /\ ~\E c \in Callers : Executes(c, id)) ~>
            (\E c \in Callers : Executes(c, id))
==============================================================================
