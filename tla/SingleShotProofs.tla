--------------------------- MODULE SingleShotProofs ---------------------------
(***************************************************************************)
(* Proofs about SingleShot for any number of callers, operators, keys and  *)
(* operation ids, and then about MassSend, whose walks send by its         *)
(* services, for any number of walks, chats, topics and operation_ids.     *)
(*                                                                         *)
(* A service touches the tables only through the store's methods           *)
(* (ServicesUseStore), so StoreInv carries over; on top of it, ShotInv     *)
(* relates the rows to who executes them and to what Telegram has done.    *)
(* Each step of a walk is a step of the services or leaves them alone, so  *)
(* ShotInv holds for mass sends too; MassInv relates the walks and their   *)
(* answers to it.  Only the second part assumes MassConstants.             *)
(***************************************************************************)
EXTENDS MassSend, OperationStoreProofs

------------------------------------------------------------------------------
(* Single requests. *)

\* How often Telegram has performed a request, as far as the rows and the
\* running calls tell: never without a row, and not yet by a call that is
\* still waiting to be performed.
EffectsMatch ==
    /\ AppliedAtMostOnce
    /\ \A k \in Keys : RowsOfKey(k) = {} => \A s \in Steps : applied[k][s] = 0
    /\ \A c \in Callers : Running(c) =>
          /\ call[c].step = "call" => applied[KeyOf(c)]["message"] = 0
          /\ ~call[c].applied => applied[KeyOf(c)][call[c].step] = 0
          /\ call[c].applied \/ call[c].step = "message" => applied[KeyOf(c)]["call"] > 0

\* The inductive invariant.  AppliedAtMostOnce alone is not inductive: a call
\* that has not been performed must be known to be the only one its key has
\* ever had, which takes ExecutorOwnsRow and the rest of EffectsMatch.
ShotInv ==
    /\ ShotTypeOK
    /\ StoreInv
    /\ ExecutorOwnsRow
    /\ EffectsMatch
    /\ AnswersAgree
    /\ SuccessMeansApplied

------------------------------------------------------------------------------
(* Each step is a step of the store, or leaves it alone. *)

LEMMA ShotStepIsStoreStep ==
    ASSUME ShotTypeOK, [ShotNext]_shotVars
    PROVE  [StoreNext]_storeVars
<1> USE TypeOfAssumption
<1>1. ASSUME NEW c \in Callers, NEW k \in Keys, NEW id \in OpIds, Claim(c, k, id)
      PROVE  [StoreNext]_storeVars
  <2>1. TypeOf[k] \in Types
    OBVIOUS
  <2>2. BeginOperation(TypeOf[k], k, id)
    BY <1>1 DEF Claim
  <2>3. QED
    BY <2>1, <2>2 DEF StoreNext
<1>2. ASSUME NEW c \in Callers, Running(c), NEW s \in TerminalStatus,
             NEW res \in Results \cup {None}, NEW err \in Errors \cup {None},
             Payload(s, res, err), Transition(call[c].id, s, res, err)
      PROVE  [StoreNext]_storeVars
  <2>1. call[c].id \in OpIds
    BY <1>2 DEF ShotTypeOK, Running, Call
  <2>2. QED
    BY <1>2, <2>1 DEF StoreNext
<1>3. ASSUME NEW c \in Callers, NEW k \in Keys, Request(c, k)
      PROVE  [StoreNext]_storeVars
  <2>1. PICK id \in OpIds : Claim(c, k, id) \/ Replay(c, k, id)
    BY <1>3 DEF Request, CreateTopic, CloseTopic, SetTopicsLayout, SendMessage, Serve
  <2>2. Replay(c, k, id) => UNCHANGED storeVars
    BY DEF Replay, retryVars
  <2>3. QED
    BY <1>1, <2>1, <2>2
<1>4. ASSUME NEW c \in Callers, Answer(c)
      PROVE  [StoreNext]_storeVars
  <2>1. CASE TopicCreated(c)
    BY <2>1 DEF TopicCreated, retryVars
  <2>2. ASSUME NEW res \in Results, Finish(c, res)
        PROVE  [StoreNext]_storeVars
    <3>1. Payload("completed", res, None) /\ "completed" \in TerminalStatus
      BY DEF Payload, TerminalStatus, Status
    <3>2. QED
      BY <1>2, <2>2, <3>1 DEF Finish
  <2>3. ASSUME NEW err \in Errors, FloodWait(c, err) \/ Fail(c, err)
        PROVE  [StoreNext]_storeVars
    <3>1. /\ Payload("needs_review", None, err) /\ "needs_review" \in TerminalStatus
          /\ Payload("failed", None, err) /\ "failed" \in TerminalStatus
      BY DEF Payload, TerminalStatus, Status
    <3>2. QED
      BY <1>2, <2>3, <3>1 DEF FloodWait, Fail
  <2>4. QED
    BY <1>4, <2>1, <2>2, <2>3 DEF Answer
<1>5. ASSUME Operate
      PROVE  [StoreNext]_storeVars
  <2>1. ASSUME NEW o \in Operators, RetryItems(o) \/ RetryOperation(o)
        PROVE  [StoreNext]_storeVars
    <3>1. operator[o].id \in OpIds
      BY <2>1 DEF ShotTypeOK, RetryTypeOK, RetryItems, RetryOperation, Retry
    <3>2. QED
      BY <2>1, <3>1 DEF RetryItems, RetryOperation, StoreNext
  <2>2. QED
    BY <1>5, <2>1 DEF Operate, RetryNext, LookAtOperation, OperatorStops
<1>6. QED
  BY <1>3, <1>4, <1>5
  DEF ShotNext, ShotStep, shotVars, retryVars, TelegramApplies, Crash

\* The types carry over: the tables by the store's invariant, the rest action
\* by action.
LEMMA ShotTypeInv ==
    ASSUME ShotInv, [ShotNext]_shotVars
    PROVE  StoreInv' /\ ShotTypeOK'
<1>1. StoreInv' /\ StoreTypeOK'
  BY ShotStepIsStoreStep, StepInv DEF ShotInv, StoreInv
<1>2. /\ RetryTypeOK /\ call \in [Callers -> Call \cup {None}]
      /\ applied \in [Keys -> [Steps -> Nat]] /\ told \in [Keys -> SUBSET Results]
      /\ lost \in SUBSET OpIds /\ StoreTypeOK
  BY DEF ShotInv, ShotTypeOK
<1> DEFINE TypesNext ==
             /\ RetryTypeOK' /\ call' \in [Callers -> Call \cup {None}]
             /\ applied' \in [Keys -> [Steps -> Nat]] /\ told' \in [Keys -> SUBSET Results]
             /\ lost' \in SUBSET OpIds
<1>3. ASSUME NEW c \in Callers, Running(c)
      PROVE  call[c] \in Call /\ KeyOf(c) \in Keys
  <2>1. call[c] \in Call /\ ops[call[c].id] \in OpRow
    BY <1>2, <1>3 DEF ShotInv, ExecutorOwnsRow, Running, Call, StoreTypeOK, LiveOps
  <2>2. QED
    BY <2>1 DEF KeyOf, OpRow
<1>4. ASSUME NEW c \in Callers, NEW k \in Keys, Request(c, k)
      PROVE  TypesNext
  <2>1. PICK id \in OpIds : Claim(c, k, id) \/ Replay(c, k, id)
    BY <1>4 DEF Request, CreateTopic, CloseTopic, SetTopicsLayout, SendMessage, Serve
  <2>2. CASE Claim(c, k, id)
    BY <1>2, <2>2 DEF Claim, Call, Steps, RetryTypeOK
  <2>3. CASE Replay(c, k, id)
    <3>1. ops[id].status = "completed" => ops[id].result \in Results
      BY <1>2, <2>3 DEF Replay, RowsOfKey, LiveOps, ShotInv, StoreInv,
                        PayloadMatchesStatus, Consistent, StoreTypeOK, OpRow
    <3>2. told' \in [Keys -> SUBSET Results]
      BY <1>2, <2>3, <3>1 DEF Replay
    <3>3. QED
      BY <1>2, <2>3, <3>2 DEF Replay, retryVars, RetryTypeOK
  <2>4. QED
    BY <2>1, <2>2, <2>3
<1>5. ASSUME NEW c \in Callers, TelegramApplies(c)
      PROVE  TypesNext
  <2>1. call[c] \in Call /\ KeyOf(c) \in Keys /\ call[c].step \in Steps
    BY <1>3, <1>5 DEF TelegramApplies, Call
  <2>2. applied[KeyOf(c)][call[c].step] + 1 \in Nat
    BY <1>2, <2>1
  <2>3. applied' \in [Keys -> [Steps -> Nat]]
    BY <1>2, <1>5, <2>1, <2>2 DEF TelegramApplies
  <2>4. [call[c] EXCEPT !.applied = TRUE] \in Call
    BY <2>1 DEF Call
  <2>5. call' \in [Callers -> Call \cup {None}]
    BY <1>2, <1>5, <2>4 DEF TelegramApplies
  <2>6. QED
    BY <1>2, <1>5, <2>3, <2>5 DEF TelegramApplies, retryVars, RetryTypeOK
<1>6. ASSUME NEW c \in Callers, Answer(c)
      PROVE  TypesNext
  <2>1. CASE TopicCreated(c)
    <3>1. [[call[c] EXCEPT !.step = "message"] EXCEPT !.applied = FALSE] \in Call
      BY <1>3, <2>1 DEF TopicCreated, Call, Steps
    <3>2. call' \in [Callers -> Call \cup {None}]
      BY <1>2, <2>1, <3>1 DEF TopicCreated
    <3>3. QED
      BY <1>2, <2>1, <3>2 DEF TopicCreated, retryVars, RetryTypeOK
  <2>2. ASSUME NEW res \in Results, Finish(c, res)
        PROVE  TypesNext
    <3>1. told' \in [Keys -> SUBSET Results]
      BY <1>2, <2>2 DEF Finish
    <3>2. QED
      BY <1>2, <2>2, <3>1 DEF Finish, Idle, RetryTypeOK
  <2>3. ASSUME NEW err \in Errors, FloodWait(c, err) \/ Fail(c, err)
        PROVE  TypesNext
    BY <1>2, <2>3 DEF FloodWait, Fail, Idle, RetryTypeOK
  <2>4. QED
    BY <1>6, <2>1, <2>2, <2>3 DEF Answer
<1>7. ASSUME NEW c \in Callers, Crash(c)
      PROVE  TypesNext
  BY <1>2, <1>3, <1>7 DEF Crash, Idle, Call, retryVars, RetryTypeOK
<1>8. ASSUME Operate
      PROVE  TypesNext
  <2>1. PICK o \in Operators :
            \/ \E id \in OpIds : LookAtOperation(o, id)
            \/ RetryItems(o)
            \/ RetryOperation(o)
            \/ OperatorStops(o)
    BY <1>8 DEF Operate, RetryNext
  <2>2. ASSUME NEW id \in OpIds, LookAtOperation(o, id)
        PROVE  RetryTypeOK'
    <3>1. ops[id].status \in Status \ {"completed"}
      BY <1>2, <2>2 DEF LookAtOperation, LiveOps, StoreTypeOK, OpRow
    <3>2. QED
      BY <1>2, <2>2, <3>1 DEF LookAtOperation, RetryTypeOK, Retry
  <2>3. CASE RetryItems(o)
    <3>1. operator[o] \in Retry
      BY <1>2, <2>3 DEF RetryItems, RetryTypeOK
    <3>2. [operator[o] EXCEPT !.step = "operation"] \in Retry
      BY <3>1 DEF Retry
    <3>3. RetryTypeOK'
      BY <1>2, <2>3, <3>2 DEF RetryItems, RetryTypeOK
    <3>4. QED
      BY <1>2, <1>8, <3>3 DEF Operate
  <2>4. CASE RetryOperation(o) \/ OperatorStops(o)
    BY <1>2, <1>8, <2>4 DEF Operate, RetryOperation, OperatorStops, RetryTypeOK
  <2>5. QED
    BY <1>2, <1>8, <2>1, <2>2, <2>3, <2>4 DEF Operate
<1>9. ASSUME UNCHANGED shotVars
      PROVE  TypesNext
  BY <1>2, <1>9 DEF shotVars, retryVars, RetryTypeOK
<1>10. TypesNext
  BY <1>4, <1>5, <1>6, <1>7, <1>8, <1>9 DEF ShotNext, ShotStep
<1>11. QED
  BY <1>1, <1>10 DEF ShotTypeOK

------------------------------------------------------------------------------
(* Who executes what, and what has been done for it. *)

ExecutionMatches ==
    /\ ExecutorOwnsRow
    /\ EffectsMatch
    /\ AnswersAgree
    /\ SuccessMeansApplied

\* A running call has a pending row, the only one of its key, and nobody has
\* been told of success yet.
LEMMA RunningRow ==
    ASSUME ShotInv, NEW c \in Callers, Running(c)
    PROVE  /\ call[c] \in Call
           /\ call[c].id \in OpIds /\ call[c].id \in LiveOps
           /\ ops[call[c].id] \in OpRow
           /\ ops[call[c].id].status = "pending"
           /\ KeyOf(c) \in Keys
           /\ RowsOfKey(KeyOf(c)) = {call[c].id}
           /\ told[KeyOf(c)] = {}
<1>1. /\ call[c] \in Call
      /\ call[c].id \in LiveOps /\ ops[call[c].id].status = "pending"
  BY DEF ShotInv, ShotTypeOK, ExecutorOwnsRow, Running
<1>2. call[c].id \in OpIds /\ ops[call[c].id] \in OpRow
  BY <1>1 DEF LiveOps, ShotInv, ShotTypeOK, StoreTypeOK
<1>3. KeyOf(c) \in Keys
  BY <1>2 DEF KeyOf, OpRow
<1>4. RowsOfKey(KeyOf(c)) = {call[c].id}
  <2>1. call[c].id \in RowsOfKey(KeyOf(c))
    BY <1>1 DEF RowsOfKey, KeyOf
  <2>2. \A i \in RowsOfKey(KeyOf(c)) : index[KeyOf(c)] = i
    BY DEF RowsOfKey, ShotInv, StoreInv, IndexAgrees
  <2>3. QED
    BY <2>1, <2>2
<1>5. told[KeyOf(c)] = {}
  <2>1. \A id \in RowsOfKey(KeyOf(c)) : ops[id].status # "completed"
    BY <1>1, <1>4
  <2>2. QED
    BY <1>3, <2>1 DEF ShotInv, AnswersAgree
<1>6. QED
  BY <1>1, <1>2, <1>3, <1>4, <1>5

\* Running calls of one key are the same call.
LEMMA OneCallPerKey ==
    ASSUME ShotInv, NEW c \in Callers, NEW d \in Callers, Running(c), Running(d),
           KeyOf(c) = KeyOf(d)
    PROVE  c = d
BY RunningRow DEF ShotInv, ExecutorOwnsRow

\* A store step that leaves pending and completed rows alone, and the keys of
\* all rows, does not disturb the executions.
LEMMA RowsLeftAlone ==
    ASSUME ShotInv, UNCHANGED <<call, applied, told>>, LiveOps' = LiveOps,
           \A id \in LiveOps :
              /\ ops'[id].key = ops[id].key
              /\ ops[id].status \in {"pending", "completed"} => ops'[id] = ops[id]
              /\ ops'[id].status = "completed" => ops[id].status = "completed"
    PROVE  ExecutionMatches'
<1>1. \A k : RowsOfKey(k)' = RowsOfKey(k)
  BY DEF RowsOfKey
<1>2. \A c \in Callers :
         /\ Running(c)' = Running(c)
         /\ Running(c) => /\ call[c].id \in LiveOps
                          /\ ops'[call[c].id] = ops[call[c].id]
                          /\ KeyOf(c)' = KeyOf(c)
  BY DEF Running, KeyOf, ShotInv, ExecutorOwnsRow
<1>3. ExecutorOwnsRow'
  BY <1>2 DEF ExecutorOwnsRow, Running, ShotInv
<1>4. EffectsMatch'
  <2>1. AppliedAtMostOnce'
    BY DEF ShotInv, EffectsMatch, AppliedAtMostOnce
  <2>2. \A k \in Keys : RowsOfKey(k)' = {} => \A s \in Steps : applied'[k][s] = 0
    BY <1>1 DEF ShotInv, EffectsMatch
  <2>3. QED
    BY <1>2, <2>1, <2>2 DEF ShotInv, EffectsMatch, KeyOf, Running
<1>5. AnswersAgree'
  <2> SUFFICES ASSUME NEW k \in Keys, NEW res \in told[k]
               PROVE  \E id \in RowsOfKey(k)' :
                         ops'[id].status = "completed" /\ ops'[id].result = res
    BY DEF AnswersAgree
  <2>1. PICK id \in RowsOfKey(k) : ops[id].status = "completed" /\ ops[id].result = res
    BY DEF ShotInv, AnswersAgree
  <2>2. id \in LiveOps /\ ops'[id] = ops[id]
    BY <2>1 DEF RowsOfKey
  <2>3. QED
    BY <1>1, <2>1, <2>2
<1>6. SuccessMeansApplied'
  BY DEF ShotInv, SuccessMeansApplied
<1>7. QED
  BY <1>3, <1>4, <1>5, <1>6 DEF ExecutionMatches

\* The operator reopens only rows that are failed or need review.
LEMMA OperateMatches ==
    ASSUME ShotInv, Operate
    PROVE  ExecutionMatches'
<1>1. UNCHANGED <<call, applied, told>>
  BY DEF Operate
<1>2. CASE UNCHANGED ops
  BY <1>1, <1>2, RowsLeftAlone DEF LiveOps
<1>3. ASSUME NEW o \in Operators, RetryOperation(o)
      PROVE  ExecutionMatches'
  <2> DEFINE id == operator[o].id
  <2>1. id \in OpIds
    BY <1>3 DEF RetryOperation, ShotInv, ShotTypeOK, RetryTypeOK, Retry
  <2>2. CASE ops[id] # None /\ ops[id].status \in {"failed", "needs_review"}
    <3>1. ops[id] \in OpRow
      BY <2>1, <2>2 DEF ShotInv, ShotTypeOK, StoreTypeOK
    <3>2. /\ Reopened(ops[id]) \in OpRow /\ Reopened(ops[id]).key = ops[id].key
          /\ Reopened(ops[id]).status = "pending"
      BY <2>1, <2>2, <3>1, ReopenedOpRow
      DEF ShotInv, StoreInv, PayloadMatchesStatus, LiveOps, Reopened, OpRow
    <3>3. ops' = [ops EXCEPT ![id] = Reopened(ops[id])]
      BY <1>3, <2>2 DEF RetryOperation, ResetOperation
    <3>4. ops \in [OpIds -> OpRow \cup {None}]
      BY DEF ShotInv, ShotTypeOK, StoreTypeOK
    <3>5. \A i \in OpIds : ops'[i] = IF i = id THEN Reopened(ops[id]) ELSE ops[i]
      BY <3>3, <3>4
    <3>6. LiveOps' = LiveOps
      BY <2>1, <2>2, <3>2, <3>5, NoneAssumption DEF LiveOps
    <3>7. \A i \in LiveOps :
             /\ ops'[i].key = ops[i].key
             /\ ops[i].status \in {"pending", "completed"} => ops'[i] = ops[i]
             /\ ops'[i].status = "completed" => ops[i].status = "completed"
      BY <2>2, <3>2, <3>5 DEF LiveOps
    <3>8. QED
      BY <1>1, <3>6, <3>7, RowsLeftAlone
  <2>3. CASE ~(ops[id] # None /\ ops[id].status \in {"failed", "needs_review"})
    <3>1. UNCHANGED ops
      BY <1>3, <2>3 DEF RetryOperation, ResetOperation
    <3>2. QED
      BY <1>2, <3>1
  <2>4. QED
    BY <2>2, <2>3
<1>4. QED
  BY <1>2, <1>3 DEF Operate, RetryNext, LookAtOperation, RetryItems, ResetItems,
                    OperatorStops, storeVars

\* A claimed key had no row, so Telegram had not been asked for it.
LEMMA ClaimMatches ==
    ASSUME ShotInv, NEW c \in Callers, ~Running(c), NEW k \in Keys, NEW id \in OpIds,
           Claim(c, k, id)
    PROVE  ExecutionMatches'
<1> DEFINE row == NewOpRow(TypeOf[k], k)
           new == [id |-> id, step |-> "call", applied |-> FALSE]
<1>1. /\ row \in OpRow /\ row.key = k /\ row.status = "pending"
  BY TypeOfAssumption, NewRows DEF NewOpRow
<1>2. id \notin LiveOps /\ ops[id] = None
  BY DEF Claim, BeginOperation, ShotInv, StoreInv, LiveIdsDrawn, LiveOps
<1>3. \A i \in OpIds : ops'[i] = IF i = id THEN row ELSE ops[i]
  BY DEF Claim, BeginOperation, ShotInv, ShotTypeOK, StoreTypeOK
<1>4. \A d \in Callers : call'[d] = IF d = c THEN new ELSE call[d]
  BY DEF Claim, ShotInv, ShotTypeOK
<1>5. LiveOps' = LiveOps \cup {id}
  BY <1>1, <1>2, <1>3, NoneAssumption DEF LiveOps
<1>6. \A j \in Keys : RowsOfKey(j)' = IF j = k THEN {id} ELSE RowsOfKey(j)
  <2>1. RowsOfKey(k) = {}
    BY DEF Claim, BeginOperation, KeyFree
  <2>2. \A i \in LiveOps : i # id /\ i \in OpIds /\ ops'[i] = ops[i]
    BY <1>2, <1>3 DEF LiveOps
  <2>3. QED
    BY <1>1, <1>3, <1>5, <2>1, <2>2 DEF RowsOfKey
<1>7. \A s \in Steps : applied[k][s] = 0
  BY DEF Claim, BeginOperation, KeyFree, ShotInv, EffectsMatch
<1>8. UNCHANGED <<applied, told>>
  BY DEF Claim
<1>9. \A d \in Callers : d # c /\ Running(d) =>
         /\ call[d].id \in LiveOps /\ call[d].id # id
         /\ ops'[call[d].id] = ops[call[d].id]
  BY <1>2, <1>3 DEF ShotInv, ExecutorOwnsRow, LiveOps
<1>10. ExecutorOwnsRow'
  BY <1>1, <1>3, <1>4, <1>5, <1>9 DEF ShotInv, ExecutorOwnsRow, Running
<1>11. EffectsMatch'
  <2>1. AppliedAtMostOnce'
    BY <1>8 DEF ShotInv, EffectsMatch, AppliedAtMostOnce
  <2>2. \A j \in Keys : RowsOfKey(j)' = {} => \A s \in Steps : applied'[j][s] = 0
    BY <1>6, <1>8 DEF ShotInv, EffectsMatch
  <2>3. \A d \in Callers : Running(d)' =>
          /\ call'[d].step = "call" => applied'[KeyOf(d)']["message"] = 0
          /\ ~call'[d].applied => applied'[KeyOf(d)'][call'[d].step] = 0
          /\ call'[d].applied \/ call'[d].step = "message" => applied'[KeyOf(d)']["call"] > 0
    BY <1>1, <1>3, <1>4, <1>7, <1>8, <1>9 DEF ShotInv, EffectsMatch, Running, KeyOf, Steps
  <2>4. QED
    BY <2>1, <2>2, <2>3 DEF EffectsMatch, Running, KeyOf
<1>12. AnswersAgree'
  <2> SUFFICES ASSUME NEW j \in Keys, NEW res \in told[j]
               PROVE  \E i \in RowsOfKey(j)' : ops'[i].status = "completed" /\ ops'[i].result = res
    BY <1>8 DEF AnswersAgree
  <2>1. PICK i \in RowsOfKey(j) : ops[i].status = "completed" /\ ops[i].result = res
    BY DEF ShotInv, AnswersAgree
  <2>2. j # k
    BY <2>1 DEF Claim, BeginOperation, KeyFree
  <2>3. ops'[i] = ops[i]
    BY <1>2, <1>3, <2>1 DEF RowsOfKey, LiveOps
  <2>4. QED
    BY <1>6, <2>1, <2>2, <2>3
<1>13. SuccessMeansApplied'
  BY <1>1, <1>2, <1>3, <1>5, <1>8 DEF ShotInv, SuccessMeansApplied, LiveOps
<1>14. QED
  BY <1>10, <1>11, <1>12, <1>13 DEF ExecutionMatches

\* A replay repeats a saved result and changes nothing else.
LEMMA ReplayMatches ==
    ASSUME ShotInv, NEW c \in Callers, NEW k \in Keys, NEW id \in OpIds, Replay(c, k, id)
    PROVE  ExecutionMatches'
<1>1. UNCHANGED <<ops, LiveOps, call, applied>>
  BY DEF Replay, retryVars, storeVars, LiveOps
<1>2. \A j \in Keys : \A res \in told'[j] :
         \/ res \in told[j]
         \/ j = k /\ ops[id].status = "completed" /\ ops[id].result = res
  BY DEF Replay, ShotInv, ShotTypeOK
<1>3. ExecutorOwnsRow' /\ EffectsMatch'
  BY <1>1 DEF ShotInv, ExecutorOwnsRow, EffectsMatch, AppliedAtMostOnce, Running, KeyOf, RowsOfKey
<1>4. AnswersAgree'
  BY <1>1, <1>2 DEF Replay, ShotInv, AnswersAgree, RowsOfKey
<1>5. SuccessMeansApplied'
  BY <1>1, <1>2 DEF Replay, ShotInv, SuccessMeansApplied, RowsOfKey
<1>6. QED
  BY <1>3, <1>4, <1>5 DEF ExecutionMatches

\* Telegram performs a request only for a call that had not been performed,
\* and whose key no other call serves.
LEMMA AppliesMatches ==
    ASSUME ShotInv, NEW c \in Callers, TelegramApplies(c)
    PROVE  ExecutionMatches'
<1> DEFINE k == KeyOf(c)
           s == call[c].step
<1>1. Running(c) /\ ~call[c].applied
  BY DEF TelegramApplies
<1>2. k \in Keys /\ s \in Steps /\ applied[k][s] = 0 /\ RowsOfKey(k) # {}
  BY <1>1, RunningRow DEF Call, ShotInv, EffectsMatch
<1>3. UNCHANGED <<ops, LiveOps, told>>
  BY DEF TelegramApplies, retryVars, storeVars, LiveOps
<1>4. \A j \in Keys, t \in Steps :
         applied'[j][t] = IF j = k /\ t = s THEN 1 ELSE applied[j][t]
  BY <1>2 DEF TelegramApplies, ShotInv, ShotTypeOK
<1>5. \A d \in Callers : d # c => call'[d] = call[d]
  BY DEF TelegramApplies, ShotInv, ShotTypeOK
<1>6. call'[c].id = call[c].id /\ call'[c].step = s /\ call'[c].applied
  BY <1>1, RunningRow DEF TelegramApplies, ShotInv, ShotTypeOK, Call
<1>7. \A d \in Callers : d # c /\ Running(d) => KeyOf(d) # k /\ KeyOf(d) \in Keys
  BY <1>1, OneCallPerKey, RunningRow
<1>8. ExecutorOwnsRow'
  BY <1>1, <1>3, <1>5, <1>6 DEF ShotInv, ExecutorOwnsRow, Running
<1>9. EffectsMatch'
  <2>1. AppliedAtMostOnce'
    BY <1>4 DEF ShotInv, EffectsMatch, AppliedAtMostOnce
  <2>2. \A j \in Keys : RowsOfKey(j)' = {} => \A t \in Steps : applied'[j][t] = 0
    BY <1>2, <1>3, <1>4 DEF ShotInv, EffectsMatch, RowsOfKey
  <2>3. ASSUME NEW d \in Callers, Running(d)', d # c
        PROVE  /\ call'[d].step = "call" => applied'[KeyOf(d)']["message"] = 0
               /\ ~call'[d].applied => applied'[KeyOf(d)'][call'[d].step] = 0
               /\ call'[d].applied \/ call'[d].step = "message" => applied'[KeyOf(d)']["call"] > 0
    <3>1. Running(d) /\ call'[d] = call[d] /\ KeyOf(d)' = KeyOf(d)
      BY <1>3, <1>5, <2>3 DEF Running, KeyOf
    <3>2. call[d].step \in Steps /\ KeyOf(d) \in Keys /\ KeyOf(d) # k
      BY <1>7, <2>3, <3>1, RunningRow DEF Call
    <3>3. \A t \in Steps : applied'[KeyOf(d)][t] = applied[KeyOf(d)][t]
      BY <1>4, <3>2
    <3>4. QED
      BY <3>1, <3>2, <3>3 DEF ShotInv, EffectsMatch, Steps
  <2>4. /\ call'[c].step = "call" => applied'[KeyOf(c)']["message"] = 0
        /\ call'[c].applied \/ call'[c].step = "message" => applied'[KeyOf(c)']["call"] > 0
    <3>1. KeyOf(c)' = k
      BY <1>3, <1>6 DEF KeyOf
    <3>2. s = "call" => applied[k]["message"] = 0
      BY <1>1 DEF ShotInv, EffectsMatch
    <3>3. s = "message" => applied[k]["call"] > 0
      BY <1>1 DEF ShotInv, EffectsMatch
    <3>4. QED
      BY <1>2, <1>4, <1>6, <3>1, <3>2, <3>3 DEF Steps
  <2>5. QED
    BY <1>6, <2>1, <2>2, <2>3, <2>4 DEF EffectsMatch, Running, KeyOf
<1>10. AnswersAgree'
  BY <1>3 DEF ShotInv, AnswersAgree, RowsOfKey
<1>11. SuccessMeansApplied'
  <2>1. \A j \in Keys : applied[j]["call"] > 0 => applied'[j]["call"] > 0
    BY <1>4 DEF Steps
  <2>2. \A id \in LiveOps : ops[id].key \in Keys
    BY DEF LiveOps, ShotInv, ShotTypeOK, StoreTypeOK, OpRow
  <2>3. QED
    BY <1>3, <2>1, <2>2 DEF ShotInv, SuccessMeansApplied
<1>12. QED
  BY <1>8, <1>9, <1>10, <1>11 DEF ExecutionMatches

\* The first message is asked for once the topic exists, and never before.
LEMMA TopicCreatedMatches ==
    ASSUME ShotInv, NEW c \in Callers, TopicCreated(c)
    PROVE  ExecutionMatches'
<1>1. Running(c) /\ call[c].step = "call" /\ call[c].applied
  BY DEF TopicCreated
<1>2. UNCHANGED <<ops, LiveOps, applied, told>>
  BY DEF TopicCreated, retryVars, storeVars, LiveOps
<1>3. \A d \in Callers : d # c => call'[d] = call[d]
  BY DEF TopicCreated, ShotInv, ShotTypeOK
<1>4. call'[c].id = call[c].id /\ call'[c].step = "message" /\ ~call'[c].applied
  BY <1>1, RunningRow DEF TopicCreated, ShotInv, ShotTypeOK, Call
<1>5. ExecutorOwnsRow'
  BY <1>1, <1>2, <1>3, <1>4 DEF ShotInv, ExecutorOwnsRow, Running
<1>6. EffectsMatch'
  <2>1. KeyOf(c)' = KeyOf(c) /\ applied[KeyOf(c)]["message"] = 0 /\ applied[KeyOf(c)]["call"] > 0
    BY <1>1, <1>2, <1>4 DEF KeyOf, ShotInv, EffectsMatch
  <2>2. QED
    BY <1>2, <1>3, <1>4, <2>1
    DEF ShotInv, EffectsMatch, AppliedAtMostOnce, Running, KeyOf, RowsOfKey
<1>7. AnswersAgree' /\ SuccessMeansApplied'
  BY <1>2 DEF ShotInv, AnswersAgree, SuccessMeansApplied, RowsOfKey
<1>8. QED
  BY <1>5, <1>6, <1>7 DEF ExecutionMatches

\* A call that ends, with its own row written or not, disturbs no other call.
LEMMA CallEnds ==
    ASSUME ShotInv, NEW c \in Callers, Running(c), Idle(c), UNCHANGED applied,
           LiveOps' = LiveOps,
           \A id \in LiveOps : ops'[id].key = ops[id].key,
           \A id \in LiveOps : id # call[c].id => ops'[id] = ops[id]
    PROVE  ExecutorOwnsRow' /\ EffectsMatch'
<1>1. \A d \in Callers : d # c => call'[d] = call[d]
  BY DEF Idle, ShotInv, ShotTypeOK
<1>2. ~Running(c)'
  BY DEF Idle, Running, ShotInv, ShotTypeOK
<1>3. \A d \in Callers : Running(d)' =>
         /\ d # c /\ Running(d) /\ call'[d] = call[d]
         /\ call[d].id \in LiveOps /\ ops'[call[d].id] = ops[call[d].id]
  BY <1>1, <1>2 DEF Running, ShotInv, ExecutorOwnsRow
<1>4. ExecutorOwnsRow'
  BY <1>3 DEF ShotInv, ExecutorOwnsRow
<1>5. \A k : RowsOfKey(k)' = RowsOfKey(k)
  BY DEF RowsOfKey
<1>6. EffectsMatch'
  BY <1>3, <1>5 DEF ShotInv, EffectsMatch, AppliedAtMostOnce, KeyOf
<1>7. QED
  BY <1>4, <1>6

\* What _transition does to the row of a running call: it takes the verdict.
LEMMA VerdictLands ==
    ASSUME ShotInv, NEW c \in Callers, Running(c), NEW s \in TerminalStatus,
           NEW res \in Results \cup {None}, NEW err \in Errors \cup {None},
           Transition(call[c].id, s, res, err)
    PROVE  /\ LiveOps' = LiveOps
           /\ \A id \in LiveOps : ops'[id].key = ops[id].key
           /\ \A id \in LiveOps : id # call[c].id => ops'[id] = ops[id]
           /\ ops'[call[c].id].status = s /\ ops'[call[c].id].result = res
<1> DEFINE id == call[c].id
           row == Settled(ops[id], s, res, err)
<1>1. id \in OpIds /\ id \in LiveOps /\ ops[id] \in OpRow /\ ops[id].status = "pending"
  BY RunningRow
<1>2. ops' = [ops EXCEPT ![id] = row]
  BY <1>1 DEF Transition, LiveOps
<1>3. /\ row \in OpRow /\ row.key = ops[id].key
      /\ row.status = s /\ row.result = res
  BY <1>1 DEF Settled, OpRow, TerminalStatus
<1>4. \A i \in OpIds : ops'[i] = IF i = id THEN row ELSE ops[i]
  BY <1>2 DEF ShotInv, ShotTypeOK, StoreTypeOK
<1>5. LiveOps' = LiveOps
  BY <1>1, <1>3, <1>4, NoneAssumption DEF LiveOps
<1>6. QED
  BY <1>1, <1>3, <1>4, <1>5 DEF LiveOps

\* A refused or failed call leaves no success behind, and takes none back.
LEMMA RefusalMatches ==
    ASSUME ShotInv, NEW c \in Callers, NEW err \in Errors, FloodWait(c, err) \/ Fail(c, err)
    PROVE  ExecutionMatches'
<1>1. PICK s \in {"needs_review", "failed"} : Transition(call[c].id, s, None, err)
  BY DEF FloodWait, Fail
<1>2. Running(c) /\ Idle(c) /\ UNCHANGED <<applied, told>> /\ s \in TerminalStatus
  BY DEF FloodWait, Fail, TerminalStatus, Status
<1>3. /\ LiveOps' = LiveOps
      /\ \A id \in LiveOps : ops'[id].key = ops[id].key
      /\ \A id \in LiveOps : id # call[c].id => ops'[id] = ops[id]
      /\ ops'[call[c].id].status = s
  BY <1>1, <1>2, VerdictLands
<1>4. ExecutorOwnsRow' /\ EffectsMatch'
  BY <1>2, <1>3, CallEnds
<1>5. AnswersAgree'
  BY <1>2, <1>3, RunningRow DEF ShotInv, AnswersAgree, RowsOfKey
<1>6. SuccessMeansApplied'
  BY <1>2, <1>3 DEF ShotInv, SuccessMeansApplied
<1>7. QED
  BY <1>4, <1>5, <1>6 DEF ExecutionMatches

\* A finished call saves the very result it answers with, after Telegram has
\* performed its request.
LEMMA FinishMatches ==
    ASSUME ShotInv, NEW c \in Callers, NEW res \in Results, Finish(c, res)
    PROVE  ExecutionMatches'
<1> DEFINE k == KeyOf(c)
           id == call[c].id
<1>1. Running(c) /\ Idle(c) /\ UNCHANGED applied /\ "completed" \in TerminalStatus
  BY DEF Finish, TerminalStatus, Status
<1>2. /\ LiveOps' = LiveOps
      /\ \A i \in LiveOps : ops'[i].key = ops[i].key
      /\ \A i \in LiveOps : i # id => ops'[i] = ops[i]
      /\ ops'[id].status = "completed" /\ ops'[id].result = res
  BY <1>1, VerdictLands DEF Finish
<1>3. /\ k \in Keys /\ id \in RowsOfKey(k) /\ told[k] = {}
      /\ ops[id].status = "pending"
  BY <1>1, RunningRow
<1>4. \A j \in Keys : told'[j] = IF j = k THEN {res} ELSE told[j]
  BY <1>3 DEF Finish, ShotInv, ShotTypeOK
<1>5. applied[k]["call"] > 0
  BY <1>1 DEF Finish, Succeeded, ShotInv, EffectsMatch
<1>6. ExecutorOwnsRow' /\ EffectsMatch'
  BY <1>1, <1>2, CallEnds
<1>7. AnswersAgree'
  <2> SUFFICES ASSUME NEW j \in Keys, NEW r \in told'[j]
               PROVE  \E i \in RowsOfKey(j)' : ops'[i].status = "completed" /\ ops'[i].result = r
    BY DEF AnswersAgree
  <2>1. CASE j = k
    BY <1>2, <1>3, <1>4, <2>1 DEF RowsOfKey
  <2>2. CASE j # k
    <3>1. PICK i \in RowsOfKey(j) : ops[i].status = "completed" /\ ops[i].result = r
      BY <1>4, <2>2 DEF ShotInv, AnswersAgree
    <3>2. QED
      BY <1>2, <1>3, <3>1 DEF RowsOfKey
  <2>3. QED
    BY <2>1, <2>2
<1>8. SuccessMeansApplied'
  BY <1>1, <1>2, <1>3, <1>4, <1>5 DEF ShotInv, SuccessMeansApplied, RowsOfKey
<1>9. QED
  BY <1>6, <1>7, <1>8 DEF ExecutionMatches

\* A dead process leaves its row pending, and with it the key.
LEMMA CrashMatches ==
    ASSUME ShotInv, NEW c \in Callers, Crash(c)
    PROVE  ExecutionMatches'
<1>1. /\ Running(c) /\ Idle(c) /\ UNCHANGED <<ops, LiveOps, applied, told>>
  BY DEF Crash, retryVars, storeVars, LiveOps
<1>2. ExecutorOwnsRow' /\ EffectsMatch'
  BY <1>1, CallEnds
<1>3. AnswersAgree' /\ SuccessMeansApplied'
  BY <1>1 DEF ShotInv, AnswersAgree, SuccessMeansApplied, RowsOfKey
<1>4. QED
  BY <1>2, <1>3 DEF ExecutionMatches

------------------------------------------------------------------------------
(* The theorems. *)

LEMMA ShotInitInv == ShotInit => ShotInv
<1> SUFFICES ASSUME ShotInit
             PROVE  ShotInv
  OBVIOUS
<1>1. StoreInv /\ LiveOps = {}
  BY InitInv DEF ShotInit, StoreInit, LiveOps
<1>2. ShotTypeOK
  BY <1>1 DEF ShotInit, RetryInit, ShotTypeOK, RetryTypeOK, StoreInv
<1>3. ExecutionMatches
  BY <1>1 DEF ShotInit, ExecutionMatches, ExecutorOwnsRow, EffectsMatch, AppliedAtMostOnce,
              AnswersAgree, SuccessMeansApplied, Running, RowsOfKey, Steps
<1>4. QED
  BY <1>1, <1>2, <1>3 DEF ShotInv, ExecutionMatches

LEMMA ShotStepInv == ShotInv /\ [ShotNext]_shotVars => ShotInv'
<1> SUFFICES ASSUME ShotInv, [ShotNext]_shotVars
             PROVE  ShotInv'
  OBVIOUS
<1>1. ASSUME NEW c \in Callers, NEW k \in Keys, Request(c, k)
      PROVE  ExecutionMatches'
  <2>1. ~Running(c) /\ \E id \in OpIds : Claim(c, k, id) \/ Replay(c, k, id)
    BY <1>1 DEF Request, CreateTopic, CloseTopic, SetTopicsLayout, SendMessage, Serve
  <2>2. QED
    BY <2>1, ClaimMatches, ReplayMatches
<1>2. ASSUME NEW c \in Callers, Answer(c)
      PROVE  ExecutionMatches'
  BY <1>2, TopicCreatedMatches, FinishMatches, RefusalMatches DEF Answer
<1>3. ASSUME UNCHANGED shotVars
      PROVE  ExecutionMatches'
  <2>1. UNCHANGED <<ops, LiveOps, call, applied, told>>
    BY <1>3 DEF shotVars, retryVars, storeVars, LiveOps
  <2>2. QED
    BY <2>1, RowsLeftAlone
<1>4. ExecutionMatches'
  BY <1>1, <1>2, <1>3, AppliesMatches, OperateMatches, CrashMatches DEF ShotNext, ShotStep
<1>5. StoreInv' /\ ShotTypeOK'
  BY ShotTypeInv
<1>6. QED
  BY <1>4, <1>5 DEF ShotInv, ExecutionMatches

THEOREM ShotInvariant == ShotSpec => []ShotInv
BY ShotInitInv, ShotStepInv, PTL DEF ShotSpec, ShotSafety

\* A service's every step is a step of the store, or leaves it alone: all that
\* is proved of the store holds while the services run on it.
THEOREM ServicesUseStore == ShotSpec => UsesStore
<1>1. ShotInit => StoreInit
  BY DEF ShotInit
<1>2. ShotInv /\ [ShotNext]_shotVars => [StoreNext]_storeVars
  BY ShotStepIsStoreStep DEF ShotInv
<1>3. QED
  BY <1>1, <1>2, ShotInvariant, PTL DEF ShotSpec, ShotSafety, UsesStore, StoreSpec

\* The variables keep their types.
THEOREM ShotIsTyped == ShotSpec => []ShotTypeOK
<1>1. ShotInv => ShotTypeOK
  BY DEF ShotInv
<1>2. QED
  BY <1>1, ShotInvariant, PTL

\* However often a request is repeated, its answer lost, its process killed or
\* its operation retried by the operator, Telegram performs it at most once.
THEOREM PerformedAtMostOnce == ShotSpec => []AppliedAtMostOnce
<1>1. ShotInv => AppliedAtMostOnce
  BY DEF ShotInv, EffectsMatch
<1>2. QED
  BY <1>1, ShotInvariant, PTL

\* A row that is executed is pending and has one executor: the verdict of a
\* handler is never dropped.
THEOREM OneExecutorPerRow == ShotSpec => []ExecutorOwnsRow
<1>1. ShotInv => ExecutorOwnsRow
  BY DEF ShotInv
<1>2. QED
  BY <1>1, ShotInvariant, PTL

\* All callers of a key that are told of success get the saved result.
THEOREM CallersAgree == ShotSpec => []AnswersAgree
<1>1. ShotInv => AnswersAgree
  BY DEF ShotInv
<1>2. QED
  BY <1>1, ShotInvariant, PTL

\* Success is neither told nor saved before Telegram performed the request.
THEOREM NoEarlySuccess == ShotSpec => []SuccessMeansApplied
<1>1. ShotInv => SuccessMeansApplied
  BY DEF ShotInv
<1>2. QED
  BY <1>1, ShotInvariant, PTL

------------------------------------------------------------------------------
(* What the services promise. *)

\* Telegram performs the request of a running call for the first time, and a
\* topic's first message after the topic.
LEMMA AppliesIsPromised ==
    ASSUME ShotInv, NEW c \in Callers, TelegramApplies(c)
    PROVE  Once!OnceNext
<1> DEFINE k == KeyOf(c)
           s == call[c].step
<1>1. Running(c) /\ ~call[c].applied /\ UNCHANGED told
  BY DEF TelegramApplies
<1>2. k \in Keys /\ s \in Once!PromisedSteps /\ applied[k][s] = 0
  BY <1>1, RunningRow DEF Call, Steps, Once!PromisedSteps, ShotInv, EffectsMatch
<1>3. s = "message" => applied[k]["call"] = 1
  <2>1. s = "message" => applied[k]["call"] > 0 /\ applied[k]["call"] <= 1
    BY <1>1, <1>2 DEF ShotInv, EffectsMatch, AppliedAtMostOnce, Steps
  <2>2. applied[k]["call"] \in Nat
    BY <1>2 DEF ShotInv, ShotTypeOK, Steps
  <2>3. QED
    BY <2>1, <2>2
<1>4. applied' = [applied EXCEPT ![k][s] = 1]
  BY <1>2 DEF TelegramApplies
<1>5. Once!Perform(k, s)
  BY <1>1, <1>2, <1>3, <1>4 DEF Once!Perform
<1>6. QED
  BY <1>2, <1>5 DEF Once!OnceNext

\* Whoever is told of success is told after the request was performed.
LEMMA ToldIsPromised ==
    ASSUME ShotInv, ShotInv', NEW k \in Keys, NEW res \in Results, UNCHANGED applied,
           told[k] \subseteq {res}, told' = [told EXCEPT ![k] = @ \cup {res}]
    PROVE  Once!OnceNext
<1>1. told' = [told EXCEPT ![k] = {res}]
  BY DEF ShotInv, ShotTypeOK
<1>2. told'[k] # {}
  BY DEF ShotInv, ShotTypeOK
<1>3. applied[k]["call"] = 1
  <2>1. applied[k]["call"] > 0
    BY <1>2 DEF ShotInv, SuccessMeansApplied
  <2>2. applied[k]["call"] \in Nat /\ applied[k]["call"] <= 1
    BY DEF ShotInv, ShotTypeOK, EffectsMatch, AppliedAtMostOnce, Steps
  <2>3. QED
    BY <2>1, <2>2
<1>4. Once!Tell(k, res)
  BY <1>1, <1>3 DEF Once!Tell
<1>5. QED
  BY <1>4 DEF Once!OnceNext

\* A replay tells of the one row of its key, which is what others were told of.
LEMMA ReplayIsPromised ==
    ASSUME ShotInv, ShotInv', NEW c \in Callers, NEW k \in Keys, NEW id \in OpIds,
           Replay(c, k, id)
    PROVE  [Once!OnceNext]_<<applied, told>>
<1>1. id \in LiveOps /\ id \in RowsOfKey(k) /\ ops[id] \in OpRow /\ UNCHANGED applied
  BY DEF Replay, RowsOfKey, LiveOps, ShotInv, ShotTypeOK, StoreTypeOK
<1>2. CASE ops[id].status = "completed"
  <2>1. ops[id].result \in Results
    BY <1>1, <1>2 DEF ShotInv, StoreInv, PayloadMatchesStatus, Consistent, OpRow
  <2>2. \A i \in RowsOfKey(k) : i = id
    BY <1>1 DEF RowsOfKey, ShotInv, StoreInv, IndexAgrees
  <2>3. told[k] \subseteq {ops[id].result}
    BY <2>2 DEF ShotInv, AnswersAgree
  <2>4. told' = [told EXCEPT ![k] = @ \cup {ops[id].result}]
    BY <1>2 DEF Replay
  <2>5. QED
    BY <1>1, <2>1, <2>3, <2>4, ToldIsPromised
<1>3. CASE ops[id].status # "completed"
  BY <1>1, <1>3 DEF Replay, ShotInv, ShotTypeOK
<1>4. QED
  BY <1>2, <1>3

\* Every other step leaves both alone.
LEMMA ShotStepIsPromised ==
    ASSUME ShotInv, ShotInv', [ShotNext]_shotVars
    PROVE  [Once!OnceNext]_<<applied, told>>
<1>1. ASSUME NEW c \in Callers, NEW k \in Keys, Request(c, k)
      PROVE  [Once!OnceNext]_<<applied, told>>
  <2>1. \E id \in OpIds : Claim(c, k, id) \/ Replay(c, k, id)
    BY <1>1 DEF Request, CreateTopic, CloseTopic, SetTopicsLayout, SendMessage, Serve
  <2>2. QED
    BY <2>1, ReplayIsPromised DEF Claim
<1>2. ASSUME NEW c \in Callers, NEW res \in Results, Finish(c, res)
      PROVE  [Once!OnceNext]_<<applied, told>>
  <2>1. Running(c) /\ UNCHANGED applied /\ told' = [told EXCEPT ![KeyOf(c)] = @ \cup {res}]
    BY <1>2 DEF Finish
  <2>2. KeyOf(c) \in Keys /\ told[KeyOf(c)] = {}
    BY <2>1, RunningRow
  <2>3. QED
    BY <2>1, <2>2, ToldIsPromised
<1>3. ASSUME NEW c \in Callers, Answer(c)
      PROVE  [Once!OnceNext]_<<applied, told>>
  BY <1>2, <1>3 DEF Answer, TopicCreated, FloodWait, Fail
<1>4. ASSUME Operate \/ (\E c \in Callers : Crash(c)) \/ UNCHANGED shotVars
      PROVE  [Once!OnceNext]_<<applied, told>>
  BY <1>4 DEF Operate, Crash, shotVars
<1>5. QED
  BY <1>1, <1>3, <1>4, AppliesIsPromised DEF ShotNext, ShotStep

LEMMA ShotInitIsPromised == ShotInit => Once!OnceInit
BY DEF ShotInit, Once!OnceInit, Steps, Once!PromisedSteps

\* To their callers create_topic, close_topic, set_topics_layout and send_message
\* are what AtMostOnce describes: whatever is repeated, lost, killed or reopened,
\* a key's request is performed once or never, its first message after it, and
\* all who are told of success are told the same, of a performed request.
THEOREM ServicesKeepPromise == ShotSpec => KeepsPromise
<1>1. ShotInv /\ ShotInv' /\ [ShotNext]_shotVars => [Once!OnceNext]_<<applied, told>>
  BY ShotStepIsPromised
<1>2. QED
  BY <1>1, ShotInitIsPromised, ShotInvariant, PTL
     DEF ShotSpec, ShotSafety, KeepsPromise, Once!OnceSpec

------------------------------------------------------------------------------
(* Pending rows without an executor. *)

\* Left behind by a process that died, or reopened by the operator.
Orphan(id) ==
    /\ id \in LiveOps
    /\ ops[id].status = "pending"
    /\ \A c \in Callers : ~Executes(c, id)

\* A row gets an executor when it is inserted, and a verdict from its executor.
LEMMA OrphanStays ==
    ASSUME ShotInv, NEW id \in OpIds, Orphan(id), [ShotNext]_shotVars
    PROVE  Orphan(id)' /\ applied'[ops[id].key] = applied[ops[id].key]
<1>1. /\ id \in LiveOps /\ ops[id] # None /\ ops[id].status = "pending"
      /\ id \in usedIds /\ \A c \in Callers : Running(c) => call[c].id # id
      /\ call \in [Callers -> Call \cup {None}]
      /\ ops \in [OpIds -> OpRow \cup {None}] /\ ops[id].key \in Keys
      /\ applied \in [Keys -> [Steps -> Nat]]
  <2>1. ops \in [OpIds -> OpRow \cup {None}] /\ ops[id] \in OpRow
    BY DEF ShotInv, StoreInv, StoreTypeOK, Orphan, LiveOps
  <2>2. QED
    BY <2>1 DEF ShotInv, ShotTypeOK, StoreInv, LiveIdsDrawn, Orphan, Executes, LiveOps, OpRow
<1>2. ASSUME UNCHANGED ops, UNCHANGED call
      PROVE  Orphan(id)'
  BY <1>1, <1>2 DEF Orphan, LiveOps, Executes, Running
<1>3. ASSUME NEW c \in Callers, NEW v \in Call \cup {None}, v # None => v.id # id,
             call' = [call EXCEPT ![c] = v], ops'[id] = ops[id]
      PROVE  Orphan(id)'
  <2>1. \A d \in Callers : call'[d] # None => call'[d].id # id
    BY <1>1, <1>3 DEF Running
  <2>2. QED
    BY <1>1, <1>3, <2>1 DEF Orphan, LiveOps, Executes, Running
<1>4. ASSUME NEW c \in Callers, NEW k \in Keys, Request(c, k)
      PROVE  Orphan(id)' /\ UNCHANGED applied
  <2>1. PICK i \in OpIds : Claim(c, k, i) \/ Replay(c, k, i)
    BY <1>4 DEF Request, CreateTopic, CloseTopic, SetTopicsLayout, SendMessage, Serve
  <2>2. CASE Claim(c, k, i)
    <3>1. i # id /\ ops'[id] = ops[id]
      BY <1>1, <2>2 DEF Claim, BeginOperation
    <3>2. PICK v : v = [id |-> i, step |-> "call", applied |-> FALSE]
      OBVIOUS
    <3>3. v \in Call /\ v.id # id /\ call' = [call EXCEPT ![c] = v] /\ UNCHANGED applied
      BY <2>2, <3>1, <3>2 DEF Claim, Call, Steps
    <3>4. QED
      BY <1>3, <3>1, <3>3
  <2>3. CASE Replay(c, k, i)
    BY <1>2, <2>3 DEF Replay, retryVars, storeVars
  <2>4. QED
    BY <2>1, <2>2, <2>3
<1>5. ASSUME NEW c \in Callers, Running(c), Idle(c),
             \/ UNCHANGED ops
             \/ \E st, res, err : Transition(call[c].id, st, res, err)
      PROVE  Orphan(id)'
  <2>1. call[c].id # id
    BY <1>1, <1>5
  <2>2. ops'[id] = ops[id]
    BY <1>1, <1>5, <2>1 DEF Transition
  <2>3. QED
    BY <1>3, <1>5, <2>2 DEF Idle
<1>6. ASSUME NEW c \in Callers, Answer(c) \/ Crash(c)
      PROVE  Orphan(id)' /\ UNCHANGED applied
  <2>1. CASE TopicCreated(c)
    <3>1. call[c] \in Call /\ call[c].id # id /\ ops' = ops
      BY <1>1, <2>1 DEF TopicCreated, Running, retryVars, storeVars
    <3>2. PICK v : v = [call[c] EXCEPT !.step = "message", !.applied = FALSE]
      OBVIOUS
    <3>3. v \in Call /\ v.id = call[c].id /\ call' = [call EXCEPT ![c] = v]
      BY <1>1, <2>1, <3>1, <3>2 DEF TopicCreated, Call, Steps
    <3>4. QED
      BY <1>1, <1>3, <2>1, <3>1, <3>3 DEF TopicCreated
  <2>2. CASE ~TopicCreated(c)
    BY <1>5, <1>6, <2>2 DEF Answer, Finish, FloodWait, Fail, Crash, retryVars, storeVars
  <2>3. QED
    BY <2>1, <2>2
<1>7. ASSUME NEW c \in Callers, TelegramApplies(c)
      PROVE  Orphan(id)' /\ applied'[ops[id].key] = applied[ops[id].key]
  <2>1. call[c] \in Call /\ call[c].id # id /\ call[c].id \in LiveOps /\ ops' = ops
    BY <1>1, <1>7 DEF TelegramApplies, Running, retryVars, storeVars, ShotInv, ExecutorOwnsRow
  <2>2. PICK v : v = [call[c] EXCEPT !.applied = TRUE]
    OBVIOUS
  <2>3. v \in Call /\ v.id = call[c].id /\ call' = [call EXCEPT ![c] = v]
    BY <1>7, <2>1, <2>2 DEF TelegramApplies, Call
  <2>4. KeyOf(c) # ops[id].key
    BY <1>1, <2>1 DEF ShotInv, StoreInv, IndexAgrees, KeyOf
  <2>5. applied'[ops[id].key] = applied[ops[id].key]
    BY <1>1, <1>7, <2>4 DEF TelegramApplies
  <2>6. QED
    BY <1>1, <1>3, <2>1, <2>3, <2>5
<1>8. CASE Operate
  <2>1. ops'[id] = ops[id]
    BY <1>1, <1>8 DEF Operate, RetryNext, LookAtOperation, RetryItems, RetryOperation,
                      OperatorStops, ResetItems, ResetOperation, storeVars
  <2>2. QED
    BY <1>1, <1>8, <2>1 DEF Operate, Orphan, LiveOps, Executes, Running
<1>9. CASE UNCHANGED shotVars
  BY <1>2, <1>9 DEF shotVars, retryVars, storeVars
<1>10. QED
  BY <1>4, <1>6, <1>7, <1>8, <1>9 DEF ShotNext, ShotStep, Operate

\* The single-shot services have no executor for a pending row but the call that
\* inserted it: an operation whose process died, or that operations retry has
\* reopened, stays pending and without an executor for ever, whatever requests
\* are repeated and however often it is retried.
THEOREM OrphansStayOrphans ==
    ASSUME NEW id \in OpIds
    PROVE  ShotSpec => [](Orphan(id) => []Orphan(id))
<1>1. ShotInv /\ Orphan(id) /\ [ShotNext]_shotVars => Orphan(id)'
  BY OrphanStays
<1>2. QED
  BY <1>1, ShotInvariant, PTL DEF ShotSpec, ShotSafety

\* And Telegram is never again asked for anything under its key.
THEOREM OrphansAreNotPerformed ==
    ASSUME NEW id \in OpIds
    PROVE  ShotSpec => [][Orphan(id) => applied'[ops[id].key] = applied[ops[id].key]]_shotVars
<1>1. ShotInv /\ [ShotNext]_shotVars =>
        [Orphan(id) => applied'[ops[id].key] = applied[ops[id].key]]_shotVars
  BY OrphanStays
<1>2. QED
  BY <1>1, ShotInvariant, PTL DEF ShotSpec, ShotSafety

------------------------------------------------------------------------------
(* Mass sends: walks. *)

\* What is known of a walk: it executes a send exactly while it waits at a chat,
\* the send is that of a topic of this chat, and what it reports is delivered.
WalkOK(w) ==
    /\ Running(w) <=> walk[w] # None /\ walk[w].at # None
    /\ Running(w) => \E t \in TopicIds : KeyOf(w) = MessageKey(walk[w].op, walk[w].at, t)
    /\ walk[w] # None =>
          \A c \in Chats : walk[w].out[c] \in {"sent", "existed"} =>
              \E t \in TopicIds : applied[MessageKey(walk[w].op, c, t)]["call"] > 0

\* SentOnce alone is not inductive: a message that an answer has counted must
\* be known to have been told as sent, which no running send's is.
CountedWasTold == \A k \in Keys : counted[k] <= 1 /\ (counted[k] > 0 => told[k] # {})

WalksTyped ==
    /\ topics \in [Chats -> SUBSET TopicIds]
    /\ walk \in [Callers -> Walk \cup {None}]
    /\ counted \in [Keys -> Nat]
    /\ retitled \in 0 .. MaxRetitled

MassInv ==
    /\ MassConstants
    /\ ShotInv
    /\ WalksTyped
    /\ \A w \in Callers : WalkOK(w)
    /\ CountedWasTold

LEMMA MassInvTypes == MassInv => MassTypeOK
BY DEF MassInv, ShotInv, WalksTyped, WalkOK, MassTypeOK

------------------------------------------------------------------------------
(* The services under the walks. *)

LEMMA NotWaitingNotRunning ==
    ASSUME MassTypeOK, NEW w \in Callers, Between(w)
    PROVE  ~Running(w)
BY DEF MassTypeOK, Between

LEMMA MessageKeys ==
    ASSUME MassConstants, NEW op \in MassOps, NEW c \in Chats, NEW t \in TopicIds
    PROVE  MessageKey(op, c, t) \in Keys /\ TypeOf[MessageKey(op, c, t)] = "message_send"
BY DEF MassConstants, MessageKey

LEMMA WalkFields ==
    ASSUME MassTypeOK, NEW w \in Callers, walk[w] # None
    PROVE  /\ walk[w] \in Walk
           /\ walk[w].op \in MassOps /\ walk[w].left \in SUBSET Chats
           /\ walk[w].at \in Chats \cup {None} /\ walk[w].out \in [Chats -> Outcome]
BY DEF MassTypeOK, Walk

LEMMA VisitIsRequest ==
    ASSUME MassConstants, MassTypeOK, NEW w \in Callers, NEW c \in Chats, VisitChat(w, c)
    PROVE  [ShotNext]_shotVars
<1>1. ~Running(w) /\ walk[w].op \in MassOps
  BY NotWaitingNotRunning, WalkFields DEF VisitChat, Between
<1>2. CASE HasOneTopic(c)
  <2>1. PICK t \in topics[c] : SendToTopic(w, c, t)
    BY <1>2 DEF VisitChat
  <2>2. t \in TopicIds
    BY DEF MassTypeOK
  <2>3. MessageKey(walk[w].op, c, t) \in Keys /\ TypeOf[MessageKey(walk[w].op, c, t)] = "message_send"
    BY <1>1, <2>2, MessageKeys
  <2>4. \E id \in OpIds : \/ Claim(w, MessageKey(walk[w].op, c, t), id)
                          \/ Replay(w, MessageKey(walk[w].op, c, t), id)
    BY <2>1 DEF SendToTopic
  <2>5. Request(w, MessageKey(walk[w].op, c, t))
    BY <1>1, <2>3, <2>4 DEF Request, SendMessage, Serve
  <2>6. QED
    BY <2>3, <2>5 DEF ShotNext, ShotStep
<1>3. CASE ~HasOneTopic(c)
  BY <1>3 DEF VisitChat, SkipChat
<1>4. QED
  BY <1>2, <1>3

\* A walk's every step is a step of the services, or leaves them alone.
LEMMA MassStepIsShotStep ==
    ASSUME MassConstants, MassTypeOK, [MassNext]_massVars
    PROVE  [ShotNext]_shotVars
<1>1. ASSUME NEW w \in Callers, WalkOn(w)
      PROVE  [ShotNext]_shotVars
  <2>1. CASE \E c \in Chats : VisitChat(w, c)
    BY <2>1, VisitIsRequest
  <2>2. CASE \/ \E c \in Chats : ListTopicsFails(w, c)
             \/ FinishMassSend(w)
    BY <2>2 DEF ListTopicsFails, FinishMassSend
  <2>3. CASE Sent(w) \/ SendFails(w)
    BY <2>3 DEF Sent, SendFails, ShotNext, ShotStep, Answer
  <2>4. QED
    BY <1>1, <2>1, <2>2, <2>3 DEF WalkOn
<1>2. ASSUME NEW w \in Callers, MassSendDies(w)
      PROVE  [ShotNext]_shotVars
  BY <1>2 DEF MassSendDies, ShotNext
<1>3. ASSUME NEW w \in Callers, TelegramApplies(w) \/
             \E op \in MassOps, chats \in SUBSET Chats : StartMassSend(w, op, chats)
      PROVE  [ShotNext]_shotVars
  BY <1>3 DEF StartMassSend, ShotNext, ShotStep
<1>4. CASE \/ \E c \in Chats, ts \in SUBSET TopicIds : RetitleTopics(c, ts)
           \/ Operate
           \/ UNCHANGED massVars
  BY <1>4 DEF RetitleTopics, ShotNext, ShotStep, massVars
<1>5. QED
  BY <1>1, <1>2, <1>3, <1>4 DEF MassNext

\* No step of the services takes back what was told or what Telegram has done.
LEMMA ShotGrows ==
    ASSUME ShotInv, [ShotNext]_shotVars, NEW k \in Keys
    PROVE  /\ told[k] \subseteq told'[k]
           /\ applied[k]["call"] > 0 => applied'[k]["call"] > 0
<1>1. told \in [Keys -> SUBSET Results] /\ applied \in [Keys -> [Steps -> Nat]] /\ "call" \in Steps
  BY DEF ShotInv, ShotTypeOK, Steps
<1>2. ASSUME NEW c \in Callers, NEW j \in Keys, Request(c, j)
      PROVE  told[k] \subseteq told'[k] /\ UNCHANGED applied
  BY <1>1, <1>2 DEF Request, CreateTopic, CloseTopic, SetTopicsLayout, SendMessage, Serve, Claim, Replay
<1>3. ASSUME NEW c \in Callers, Answer(c)
      PROVE  told[k] \subseteq told'[k] /\ UNCHANGED applied
  BY <1>1, <1>3 DEF Answer, TopicCreated, Finish, FloodWait, Fail
<1>4. ASSUME NEW c \in Callers, TelegramApplies(c)
      PROVE  told' = told /\ (applied[k]["call"] > 0 => applied'[k]["call"] > 0)
  <2>1. KeyOf(c) \in Keys /\ call[c].step \in Steps
    BY <1>4, RunningRow DEF TelegramApplies, Call
  <2>2. \A j \in Keys, t \in Steps :
           applied'[j][t] = IF j = KeyOf(c) /\ t = call[c].step THEN applied[j][t] + 1 ELSE applied[j][t]
    BY <1>1, <1>4, <2>1 DEF TelegramApplies
  <2>3. applied[k]["call"] \in Nat
    BY <1>1
  <2>4. QED
    BY <1>1, <1>4, <2>2, <2>3 DEF TelegramApplies
<1>5. CASE (\E c \in Callers : Crash(c)) \/ Operate \/ UNCHANGED shotVars
  BY <1>5 DEF Crash, Operate, shotVars
<1>6. QED
  BY <1>2, <1>3, <1>4, <1>5 DEF ShotNext, ShotStep

\* A row keeps its key.
LEMMA KeysStay ==
    ASSUME ShotInv, [ShotNext]_shotVars, NEW i \in LiveOps
    PROVE  ops'[i].key = ops[i].key
<1>1. i \in OpIds /\ ops[i] # None /\ ops[i] \in OpRow /\ ops \in [OpIds -> OpRow \cup {None}]
  BY DEF LiveOps, ShotInv, ShotTypeOK, StoreTypeOK
<1>2. ASSUME NEW c \in Callers, NEW k \in Keys, Request(c, k)
      PROVE  ops'[i].key = ops[i].key
  <2>1. ASSUME NEW id \in OpIds, Claim(c, k, id)
        PROVE  ops'[i] = ops[i]
    <3>1. id # i
      BY <2>1, <1>1 DEF Claim, BeginOperation, ShotInv, StoreInv, LiveIdsDrawn, LiveOps
    <3>2. QED
      BY <1>1, <2>1, <3>1 DEF Claim, BeginOperation
  <2>2. ASSUME NEW id \in OpIds, Replay(c, k, id)
        PROVE  ops'[i] = ops[i]
    BY <2>2 DEF Replay, retryVars, storeVars
  <2>3. QED
    BY <1>2, <2>1, <2>2 DEF Request, CreateTopic, CloseTopic, SetTopicsLayout, SendMessage, Serve
<1>3. ASSUME NEW c \in Callers, Answer(c)
      PROVE  ops'[i].key = ops[i].key
  <2>1. CASE TopicCreated(c)
    BY <2>1 DEF TopicCreated, retryVars, storeVars
  <2>2. ASSUME NEW res \in Results, Finish(c, res)
        PROVE  ops'[i].key = ops[i].key
    BY <2>2, VerdictLands DEF Finish, TerminalStatus, Status
  <2>3. ASSUME NEW err \in Errors, FloodWait(c, err) \/ Fail(c, err)
        PROVE  ops'[i].key = ops[i].key
    BY <2>3, VerdictLands DEF FloodWait, Fail, TerminalStatus, Status
  <2>4. QED
    BY <1>3, <2>1, <2>2, <2>3 DEF Answer
<1>4. CASE Operate
  <2>1. CASE UNCHANGED ops
    BY <2>1
  <2>2. ASSUME NEW o \in Operators, ResetOperation(operator[o].id)
        PROVE  ops'[i].key = ops[i].key
    BY <1>1, <2>2 DEF ResetOperation, Reopened, OpRow
  <2>3. QED
    BY <1>4, <2>1, <2>2 DEF Operate, RetryNext, LookAtOperation, RetryItems, ResetItems,
                            RetryOperation, OperatorStops, storeVars
<1>5. CASE (\E c \in Callers : TelegramApplies(c) \/ Crash(c)) \/ UNCHANGED shotVars
  BY <1>5 DEF TelegramApplies, Crash, shotVars, retryVars, storeVars
<1>6. QED
  BY <1>2, <1>3, <1>4, <1>5 DEF ShotNext, ShotStep

------------------------------------------------------------------------------
(* The walks. *)

\* A walk that a step does not touch, and whose send it leaves running.
LEMMA WalkStays ==
    ASSUME MassInv, [ShotNext]_shotVars, NEW v \in Callers, walk'[v] = walk[v],
           Running(v)' <=> Running(v), Running(v) => call'[v].id = call[v].id
    PROVE  WalkOK(v)'
<1>1. WalkOK(v) /\ ShotInv /\ MassTypeOK /\ MassConstants
  BY MassInvTypes DEF MassInv
<1>2. Running(v) => KeyOf(v)' = KeyOf(v)
  BY <1>1, RunningRow, KeysStay DEF KeyOf
<1>3. ASSUME walk[v] # None, NEW c \in Chats, NEW t \in TopicIds,
             applied[MessageKey(walk[v].op, c, t)]["call"] > 0
      PROVE  applied'[MessageKey(walk[v].op, c, t)]["call"] > 0
  BY <1>1, <1>3, WalkFields, MessageKeys, ShotGrows
<1>4. QED
  BY <1>1, <1>2, <1>3 DEF WalkOK, MessageKey

\* The walk that leaves a chat, its send at an end.
LEMMA LeaveKeeps ==
    ASSUME MassInv, [ShotNext]_shotVars, NEW w \in Callers, walk[w] # None,
           NEW c \in Chats, NEW o \in Outcome, Leave(w, c, o), ~Running(w)',
           o \in {"sent", "existed"} =>
               \E t \in TopicIds : applied'[MessageKey(walk[w].op, c, t)]["call"] > 0
    PROVE  /\ walk' \in [Callers -> Walk \cup {None}]
           /\ \A v \in Callers \ {w} : walk'[v] = walk[v]
           /\ WalkOK(w)'
<1>1. WalkOK(w) /\ ShotInv /\ MassTypeOK /\ MassConstants
  BY MassInvTypes DEF MassInv
<1>2. /\ walk[w] \in Walk /\ walk[w].op \in MassOps /\ walk[w].left \in SUBSET Chats
      /\ walk[w].out \in [Chats -> Outcome]
  BY <1>1, WalkFields
<1>3. walk \in [Callers -> Walk \cup {None}]
  BY <1>1 DEF MassTypeOK
<1> DEFINE out == [walk[w].out EXCEPT ![c] = o]
           now == Passed(walk[w], c, o)
<1>4. out \in [Chats -> Outcome] /\ \A d \in Chats : out[d] = IF d = c THEN o ELSE walk[w].out[d]
  BY <1>2
<1>5. now \in Walk /\ now.at = None /\ now.op = walk[w].op /\ now.out = out
  BY <1>2, <1>4 DEF Walk, Passed
<1>6. walk' \in [Callers -> Walk \cup {None}]
  BY <1>3, <1>5 DEF Leave
<1>7. walk'[w] = now /\ \A v \in Callers \ {w} : walk'[v] = walk[v]
  BY <1>3 DEF Leave
<1>8. ASSUME NEW d \in Chats, out[d] \in {"sent", "existed"}
      PROVE  \E t \in TopicIds : applied'[MessageKey(walk[w].op, d, t)]["call"] > 0
  <2>1. CASE d = c
    BY <1>4, <1>8, <2>1
  <2>2. CASE d # c
    <3>1. PICK t \in TopicIds : applied[MessageKey(walk[w].op, d, t)]["call"] > 0
      BY <1>1, <1>4, <1>8, <2>2 DEF WalkOK
    <3>2. QED
      BY <1>1, <1>2, <3>1, MessageKeys, ShotGrows
  <2>3. QED
    BY <2>1, <2>2
<1>9. WalkOK(w)'
  <2> HIDE DEF now, out
  <2>1. QED
    BY <1>5, <1>7, <1>8 DEF WalkOK, MessageKey
<1>10. QED
  BY <1>6, <1>7, <1>9

\* A call that begins.
LEMMA ClaimRuns ==
    ASSUME MassConstants, ShotInv, NEW w \in Callers, NEW k \in Keys, NEW id \in OpIds,
           Claim(w, k, id)
    PROVE  /\ \A v \in Callers \ {w} : call'[v] = call[v]
           /\ Running(w)' /\ KeyOf(w)' = k
           /\ UNCHANGED <<told, applied>>
<1> DEFINE new == [id |-> id, step |-> "call", applied |-> FALSE]
<1>1. ops \in [OpIds -> OpRow \cup {None}] /\ call \in [Callers -> Call \cup {None}]
  BY DEF ShotInv, ShotTypeOK, StoreTypeOK
<1>2. new \in Call /\ new.id = id
  BY DEF Call, Steps
<1>0. new # None
  BY <1>2 DEF MassConstants
<1>3. call' = [call EXCEPT ![w] = new] /\ UNCHANGED <<told, applied>>
  BY DEF Claim
<1>4. ops' = [ops EXCEPT ![id] = NewOpRow(TypeOf[k], k)]
  BY DEF Claim, BeginOperation
<1>5. ops'[id].key = k
  BY <1>1, <1>4 DEF NewOpRow
<1> HIDE DEF new
<1>6. call'[w] = new /\ \A v \in Callers \ {w} : call'[v] = call[v]
  BY <1>1, <1>3
<1>7. QED
  BY <1>0, <1>2, <1>3, <1>5, <1>6 DEF Running, KeyOf

\* A call that ends.
LEMMA IdleStops ==
    ASSUME ShotInv, NEW w \in Callers, Idle(w)
    PROVE  ~Running(w)' /\ \A v \in Callers \ {w} : call'[v] = call[v]
BY DEF ShotInv, ShotTypeOK, Idle, Running

------------------------------------------------------------------------------
(* One lemma per kind of step. *)

\* What each step must show of the walks; the services' side is ShotStepInv.
WalksMatch ==
    /\ WalksTyped
    /\ \A w \in Callers : WalkOK(w)
    /\ CountedWasTold

\* Counting is the answers' business alone.
LEMMA CountedStays ==
    ASSUME MassInv, [ShotNext]_shotVars, UNCHANGED counted
    PROVE  CountedWasTold'
BY ShotGrows DEF MassInv, CountedWasTold

LEMMA NotSentNotCounted ==
    ASSUME WalksTyped, NEW k \in Keys, NEW o \in Outcome \ {"sent"}, Count(k, o)
    PROVE  UNCHANGED counted
<1>1. \A j \in Keys : counted[j] + 0 = counted[j]
  BY DEF WalksTyped
<1>2. counted' = [counted EXCEPT ![k] = counted[k] + 0]
  BY DEF Count
<1>3. QED
  BY <1>1, <1>2 DEF WalksTyped

LEMMA VisitMatches ==
    ASSUME MassInv, NEW w \in Callers, NEW c \in Chats, VisitChat(w, c)
    PROVE  WalksMatch'
<1> DEFINE k(t) == MessageKey(walk[w].op, c, t)
<1>1. /\ MassConstants /\ ShotInv /\ WalksTyped /\ WalkOK(w) /\ MassTypeOK /\ [ShotNext]_shotVars
      /\ walk[w] # None /\ ~Running(w) /\ UNCHANGED topicVars
  BY MassInvTypes, VisitIsRequest, NotWaitingNotRunning DEF MassInv, VisitChat, Between
<1>2. /\ walk[w] \in Walk /\ walk[w].op \in MassOps
      /\ walk \in [Callers -> Walk \cup {None}]
  BY <1>1, WalkFields DEF WalksTyped
<1>3. ASSUME NEW o \in Outcome \ {"sent"}, Leave(w, c, o), UNCHANGED <<call, counted>>,
             o = "existed" => \E t \in TopicIds : applied'[k(t)]["call"] > 0
      PROVE  WalksMatch'
  <2>1. ~Running(w)' /\ \A v \in Callers : (Running(v)' <=> Running(v)) /\ call'[v] = call[v]
    BY <1>1, <1>3 DEF Running
  <2>2. /\ walk' \in [Callers -> Walk \cup {None}]
        /\ \A v \in Callers \ {w} : walk'[v] = walk[v]
        /\ WalkOK(w)'
    BY <1>1, <1>3, <2>1, LeaveKeeps
  <2>3. \A v \in Callers : WalkOK(v)'
    BY <1>1, <2>1, <2>2, WalkStays
  <2>4. CountedWasTold'
    BY <1>1, <1>3, CountedStays
  <2>5. QED
    BY <1>1, <1>3, <2>2, <2>3, <2>4 DEF WalksMatch, WalksTyped, topicVars
<1>4. ASSUME NEW t \in TopicIds, NEW id \in OpIds, Claim(w, k(t), id),
             walk' = [walk EXCEPT ![w].at = c], UNCHANGED counted
      PROVE  WalksMatch'
  <2>1. k(t) \in Keys
    BY <1>1, <1>2, MessageKeys
  <2>2. /\ \A v \in Callers \ {w} : call'[v] = call[v]
        /\ Running(w)' /\ KeyOf(w)' = k(t) /\ UNCHANGED <<told, applied>>
    BY <1>1, <1>4, <2>1, ClaimRuns
  <2>3. /\ [walk[w] EXCEPT !.at = c] \in Walk
        /\ [walk[w] EXCEPT !.at = c].op = walk[w].op
        /\ [walk[w] EXCEPT !.at = c].at = c
        /\ [walk[w] EXCEPT !.at = c].out = walk[w].out
    BY <1>2 DEF Walk
  <2>4. /\ walk' \in [Callers -> Walk \cup {None}]
        /\ walk'[w] = [walk[w] EXCEPT !.at = c]
        /\ \A v \in Callers \ {w} : walk'[v] = walk[v]
    BY <1>2, <1>4, <2>3
  <2>5. walk'[w] # None /\ walk'[w].at # None
    BY <1>1, <2>3, <2>4 DEF MassConstants
  <2>6. WalkOK(w)'
    BY <1>1, <2>2, <2>3, <2>4, <2>5 DEF WalkOK, MessageKey
  <2>7. \A v \in Callers \ {w} : WalkOK(v)'
    BY <1>1, <2>2, <2>4, WalkStays DEF Running
  <2>8. CountedWasTold'
    BY <1>1, <1>4, CountedStays
  <2>9. QED
    BY <1>1, <1>4, <2>4, <2>6, <2>7, <2>8 DEF WalksMatch, WalksTyped, topicVars
<1>5. ASSUME NEW t \in TopicIds, NEW id \in OpIds, Replay(w, k(t), id),
             Leave(w, c, ReplayOutcome(id)), Count(k(t), ReplayOutcome(id))
      PROVE  WalksMatch'
  <2>1. k(t) \in Keys
    BY <1>1, <1>2, MessageKeys
  <2>2. ReplayOutcome(id) \in Outcome \ {"sent"}
    BY DEF ReplayOutcome, Outcome
  <2>3. UNCHANGED <<call, applied>>
    BY <1>5 DEF Replay
  <2>4. ReplayOutcome(id) = "existed" => applied'[k(t)]["call"] > 0
    <3>1. id \in LiveOps /\ ops[id].key = k(t)
      BY <1>5 DEF Replay, RowsOfKey
    <3>2. ops[id].status = "completed" => applied[k(t)]["call"] > 0
      BY <1>1, <3>1 DEF ShotInv, SuccessMeansApplied
    <3>3. QED
      BY <2>3, <3>2 DEF ReplayOutcome
  <2>5. UNCHANGED counted
    BY <1>1, <1>5, <2>1, <2>2, NotSentNotCounted
  <2>6. QED
    BY <1>3, <1>5, <2>2, <2>3, <2>4, <2>5
<1>6. CASE HasOneTopic(c)
  <2>1. PICK t \in topics[c] : SendToTopic(w, c, t)
    BY <1>6 DEF VisitChat
  <2>2. t \in TopicIds
    BY <1>1 DEF WalksTyped
  <2>3. QED
    BY <1>4, <1>5, <2>1, <2>2 DEF SendToTopic
<1>7. CASE ~HasOneTopic(c)
  <2>1. SkipChat(w, c)
    BY <1>7 DEF VisitChat
  <2>2. QED
    BY <1>3, <2>1 DEF SkipChat, shotVars, Outcome
<1>8. QED
  BY <1>6, <1>7

LEMMA SentMatches ==
    ASSUME MassInv, NEW w \in Callers, Sent(w)
    PROVE  WalksMatch'
<1> DEFINE k == KeyOf(w)
           c == walk[w].at
<1>1. /\ ShotInv /\ WalksTyped /\ WalkOK(w) /\ MassTypeOK /\ CountedWasTold
      /\ walk[w] # None /\ UNCHANGED topicVars
  BY MassInvTypes DEF MassInv, Sent
<1>2. PICK res \in Results : Finish(w, res)
  BY DEF Sent
<1>3. /\ Running(w) /\ Idle(w) /\ UNCHANGED applied
      /\ told' = [told EXCEPT ![k] = @ \cup {res}]
  BY <1>2 DEF Finish
<1>4. [ShotNext]_shotVars
  BY <1>2 DEF ShotNext, ShotStep, Answer
<1>5. c \in Chats /\ walk[w].op \in MassOps
  BY <1>1, <1>3, WalkFields DEF WalkOK
<1>6. k \in Keys /\ told[k] = {} /\ told'[k] # {}
  BY <1>1, <1>3, RunningRow DEF ShotInv, ShotTypeOK
<1>7. applied'[k]["call"] > 0
  BY <1>1, <1>4, <1>6, ShotStepInv DEF ShotInv, SuccessMeansApplied
<1>8. PICK t \in TopicIds : k = MessageKey(walk[w].op, c, t)
  BY <1>1, <1>3 DEF WalkOK
<1>9. ~Running(w)' /\ \A v \in Callers \ {w} : call'[v] = call[v]
  BY <1>1, <1>3, IdleStops
<1>10. Leave(w, c, "sent") /\ "sent" \in Outcome /\ Count(k, "sent")
  BY DEF Sent, Outcome
<1>11. /\ walk' \in [Callers -> Walk \cup {None}]
       /\ \A v \in Callers \ {w} : walk'[v] = walk[v]
       /\ WalkOK(w)'
  <2>1. \E u \in TopicIds : applied'[MessageKey(walk[w].op, c, u)]["call"] > 0
    BY <1>7, <1>8
  <2> HIDE DEF c, k
  <2>2. QED
    BY <1>1, <1>4, <1>5, <1>9, <1>10, <2>1, LeaveKeeps
<1>12. \A v \in Callers \ {w} : WalkOK(v)'
  BY <1>4, <1>9, <1>11, WalkStays DEF Running
<1>13. \A j \in Keys : counted'[j] = IF j = k THEN counted[j] + 1 ELSE counted[j]
  BY <1>1, <1>6, <1>10 DEF Count, WalksTyped
<1>14. counted' \in [Keys -> Nat]
  <2>1. counted' = [counted EXCEPT ![k] = counted[k] + 1]
    BY <1>10 DEF Count
  <2>2. counted[k] + 1 \in Nat
    BY <1>1, <1>6 DEF WalksTyped
  <2>3. QED
    BY <1>1, <2>1, <2>2 DEF WalksTyped
<1>15. counted[k] = 0
  BY <1>1, <1>6 DEF CountedWasTold, WalksTyped
<1>16. CountedWasTold'
  <2>1. ASSUME NEW j \in Keys
        PROVE  counted'[j] <= 1 /\ (counted'[j] > 0 => told'[j] # {})
    <3>1. CASE j = k
      BY <1>6, <1>13, <1>15, <3>1
    <3>2. CASE j # k
      <4>1. counted'[j] = counted[j] /\ told[j] \subseteq told'[j]
        BY <1>1, <1>4, <1>13, <3>2, ShotGrows
      <4>2. QED
        BY <1>1, <4>1 DEF CountedWasTold
    <3>3. QED
      BY <3>1, <3>2
  <2>2. QED
    BY <2>1 DEF CountedWasTold
<1>17. QED
  BY <1>1, <1>11, <1>12, <1>14, <1>16 DEF WalksMatch, WalksTyped, topicVars

LEMMA SendFailsMatches ==
    ASSUME MassInv, NEW w \in Callers, SendFails(w)
    PROVE  WalksMatch'
<1>1. /\ WalksTyped /\ WalkOK(w) /\ MassTypeOK /\ ShotInv
      /\ walk[w] # None /\ Leave(w, walk[w].at, "failed") /\ UNCHANGED <<topicVars, counted>>
  BY MassInvTypes DEF MassInv, SendFails
<1>2. /\ Running(w) /\ Idle(w) /\ [ShotNext]_shotVars
  BY DEF SendFails, FloodWait, Fail, ShotNext, ShotStep, Answer
<1>3. ~Running(w)' /\ \A v \in Callers \ {w} : call'[v] = call[v]
  BY <1>1, <1>2, IdleStops
<1>4. walk[w].at \in Chats /\ "failed" \in Outcome
  BY <1>1, <1>2, WalkFields DEF WalkOK, Outcome
<1>5. /\ walk' \in [Callers -> Walk \cup {None}]
      /\ \A v \in Callers \ {w} : walk'[v] = walk[v]
      /\ WalkOK(w)'
  BY <1>1, <1>2, <1>3, <1>4, LeaveKeeps
<1>6. \A v \in Callers \ {w} : WalkOK(v)'
  BY <1>2, <1>3, <1>5, WalkStays DEF Running
<1>7. QED
  BY <1>1, <1>2, <1>5, <1>6, CountedStays DEF WalksMatch, WalksTyped, topicVars

LEMMA ListTopicsFailsMatches ==
    ASSUME MassInv, NEW w \in Callers, NEW c \in Chats, ListTopicsFails(w, c)
    PROVE  WalksMatch'
<1>1. /\ WalksTyped /\ MassTypeOK /\ walk[w] # None /\ ~Running(w)
      /\ Leave(w, c, "list_topics_failed") /\ UNCHANGED <<shotVars, topicVars, counted>>
  BY MassInvTypes, NotWaitingNotRunning DEF MassInv, ListTopicsFails, Between
<1>2. \A v \in Callers : (Running(v)' <=> Running(v)) /\ call'[v] = call[v]
  BY <1>1 DEF shotVars, Running
<1>3. /\ walk' \in [Callers -> Walk \cup {None}]
      /\ \A v \in Callers \ {w} : walk'[v] = walk[v]
      /\ WalkOK(w)'
  BY <1>1, <1>2, LeaveKeeps DEF Outcome
<1>4. \A v \in Callers \ {w} : WalkOK(v)'
  BY <1>1, <1>2, <1>3, WalkStays
<1>5. QED
  BY <1>1, <1>3, <1>4, CountedStays DEF WalksMatch, WalksTyped, topicVars

\* A walk that begins has reported nothing; one that ends reports no more.
LEMMA StartMatches ==
    ASSUME MassInv, NEW w \in Callers, NEW op \in MassOps, NEW chats \in SUBSET Chats,
           StartMassSend(w, op, chats)
    PROVE  WalksMatch'
<1> DEFINE new == [op |-> op, left |-> chats, at |-> None, out |-> [c \in Chats |-> "none"]]
<1>1. /\ WalksTyped /\ WalkOK(w) /\ walk[w] = None
      /\ UNCHANGED <<shotVars, topicVars, counted>>
  BY DEF MassInv, StartMassSend
<1>2. new \in Walk /\ new.at = None /\ \A c \in Chats : new.out[c] = "none"
  BY DEF Walk, Outcome
<1>3. walk' = [walk EXCEPT ![w] = new]
  BY DEF StartMassSend
<1> HIDE DEF new
<1>4. /\ walk' \in [Callers -> Walk \cup {None}]
      /\ walk'[w] = new /\ \A v \in Callers \ {w} : walk'[v] = walk[v]
  BY <1>1, <1>2, <1>3 DEF WalksTyped
<1>5. \A v \in Callers : (Running(v)' <=> Running(v)) /\ call'[v] = call[v]
  BY <1>1 DEF shotVars, Running
<1>6. WalkOK(w)'
  BY <1>1, <1>2, <1>4, <1>5 DEF WalkOK
<1>7. \A v \in Callers \ {w} : WalkOK(v)'
  BY <1>1, <1>4, <1>5, WalkStays
<1>8. QED
  BY <1>1, <1>4, <1>6, <1>7, CountedStays DEF WalksMatch, WalksTyped, topicVars

LEMMA WalkEndsMatches ==
    ASSUME MassInv, NEW w \in Callers, FinishMassSend(w) \/ MassSendDies(w)
    PROVE  WalksMatch'
<1>1. /\ ShotInv /\ WalksTyped /\ WalkOK(w) /\ MassTypeOK
      /\ walk' = [walk EXCEPT ![w] = None] /\ UNCHANGED <<topicVars, counted>>
  BY MassInvTypes DEF MassInv, FinishMassSend, MassSendDies
<1>2. /\ walk' \in [Callers -> Walk \cup {None}]
      /\ walk'[w] = None /\ \A v \in Callers \ {w} : walk'[v] = walk[v]
  BY <1>1 DEF WalksTyped
<1>3. /\ [ShotNext]_shotVars
      /\ ~Running(w)' /\ \A v \in Callers \ {w} : call'[v] = call[v]
  <2>1. CASE UNCHANGED shotVars /\ ~Running(w)
    BY <2>1 DEF shotVars, Running
  <2>2. CASE Crash(w)
    BY <1>1, <2>2, IdleStops DEF Crash, ShotNext
  <2>3. CASE FinishMassSend(w)
    BY <1>1, <2>1, <2>3, NotWaitingNotRunning DEF FinishMassSend
  <2>4. QED
    BY <2>1, <2>2, <2>3 DEF MassSendDies
<1>4. WalkOK(w)'
  BY <1>2, <1>3 DEF WalkOK
<1>5. \A v \in Callers \ {w} : WalkOK(v)'
  BY <1>2, <1>3, WalkStays DEF Running
<1>6. QED
  BY <1>1, <1>2, <1>3, <1>4, <1>5, CountedStays DEF WalksMatch, WalksTyped, topicVars

\* A step that is no walk's: Telegram's, the operator's, or a chat's.
LEMMA AroundMatches ==
    ASSUME MassInv,
           \/ (Operate \/ \E w \in Callers : TelegramApplies(w)) /\ UNCHANGED <<topicVars, walk, counted>>
           \/ \E c \in Chats, ts \in SUBSET TopicIds : RetitleTopics(c, ts)
           \/ UNCHANGED massVars
    PROVE  WalksMatch'
<1>1. MassConstants /\ ShotInv /\ WalksTyped /\ UNCHANGED <<walk, counted>>
  BY DEF MassInv, RetitleTopics, massVars
<1>2. topics' \in [Chats -> SUBSET TopicIds] /\ retitled' \in 0 .. MaxRetitled
  <2>1. CASE UNCHANGED topicVars
    BY <1>1, <2>1 DEF WalksTyped, topicVars
  <2>2. ASSUME NEW c \in Chats, NEW ts \in SUBSET TopicIds, RetitleTopics(c, ts)
        PROVE  topics' \in [Chats -> SUBSET TopicIds] /\ retitled' \in 0 .. MaxRetitled
    <3>1. topics' \in [Chats -> SUBSET TopicIds]
      BY <1>1, <2>2 DEF WalksTyped, RetitleTopics
    <3>2. retitled' \in 0 .. MaxRetitled
      BY <1>1, <2>2 DEF MassConstants, WalksTyped, RetitleTopics
    <3>3. QED
      BY <3>1, <3>2
  <2>3. QED
    BY <2>1, <2>2 DEF massVars
<1>3. [ShotNext]_shotVars
  BY DEF ShotNext, ShotStep, RetitleTopics, massVars
<1>4. \A v \in Callers : (Running(v)' <=> Running(v)) /\ (Running(v) => call'[v].id = call[v].id)
  <2>1. CASE UNCHANGED call
    BY <2>1 DEF Running
  <2>2. ASSUME NEW w \in Callers, TelegramApplies(w)
        PROVE  \A v \in Callers :
                  (Running(v)' <=> Running(v)) /\ (Running(v) => call'[v].id = call[v].id)
    <3>1. call[w] \in Call /\ call \in [Callers -> Call \cup {None}] /\ Running(w)
      BY <1>1, <2>2, RunningRow DEF TelegramApplies, ShotInv, ShotTypeOK
    <3>2. /\ [call[w] EXCEPT !.applied = TRUE] \in Call
          /\ [call[w] EXCEPT !.applied = TRUE].id = call[w].id
      BY <3>1 DEF Call
    <3>3. call' = [call EXCEPT ![w] = [call[w] EXCEPT !.applied = TRUE]]
      BY <2>2 DEF TelegramApplies
    <3>4. /\ call'[w] = [call[w] EXCEPT !.applied = TRUE]
          /\ \A v \in Callers \ {w} : call'[v] = call[v]
      BY <3>1, <3>3
    <3>5. call'[w] # None /\ call'[w].id = call[w].id
      BY <1>1, <3>2, <3>4 DEF MassConstants
    <3>6. QED
      BY <3>1, <3>4, <3>5 DEF Running
  <2>3. QED
    BY <2>1, <2>2 DEF Operate, RetitleTopics, massVars, shotVars
<1>5. \A v \in Callers : WalkOK(v)'
  BY <1>1, <1>3, <1>4, WalkStays
<1>6. QED
  BY <1>1, <1>2, <1>3, <1>5, CountedStays DEF WalksMatch, WalksTyped

------------------------------------------------------------------------------
(* The invariant and what follows from it. *)

LEMMA MassInitInv ==
    ASSUME MassConstants, MassInit
    PROVE  MassInv
<1>1. ShotInv
  BY ShotInitInv DEF MassInit
<1>2. topics \in [Chats -> SUBSET TopicIds]
  BY DEF MassConstants, MassInit
<1>3. WalksTyped
  BY <1>2 DEF MassConstants, MassInit, WalksTyped
<1>4. \A w \in Callers : WalkOK(w)
  BY DEF MassInit, ShotInit, WalkOK, Running
<1>5. CountedWasTold
  BY DEF MassInit, CountedWasTold
<1>6. QED
  BY <1>1, <1>3, <1>4, <1>5 DEF MassInv

LEMMA MassStepInv == MassInv /\ [MassNext]_massVars => MassInv'
<1> SUFFICES ASSUME MassInv, [MassNext]_massVars
             PROVE  MassInv'
  OBVIOUS
<1>1. ShotInv'
  <2>1. [ShotNext]_shotVars
    BY MassInvTypes, MassStepIsShotStep DEF MassInv
  <2>2. QED
    BY <2>1, ShotStepInv DEF MassInv
<1>2. WalksMatch'
  <2>1. ASSUME NEW w \in Callers, WalkOn(w)
        PROVE  WalksMatch'
    BY <2>1, VisitMatches, ListTopicsFailsMatches, SentMatches, SendFailsMatches, WalkEndsMatches
       DEF WalkOn
  <2>2. QED
    BY <2>1, StartMatches, WalkEndsMatches, AroundMatches DEF MassNext
<1>3. MassConstants'
  BY DEF MassInv, MassConstants, Walk, Call, Outcome
<1>4. QED
  BY <1>1, <1>2, <1>3 DEF MassInv, WalksMatch

THEOREM MassInvariant ==
    ASSUME MassConstants
    PROVE  MassSpec => []MassInv
BY MassInitInv, MassStepInv, PTL DEF MassSpec

\* mass_send_message sends through send_message only: each of its steps is one of
\* the single-shot services or leaves their state alone, so that their safety, a
\* replay instead of a second request above all, holds under it.
THEOREM MassSendsUseServices ==
    ASSUME MassConstants
    PROVE  MassSpec => ShotSafety
<1>1. MassInit => ShotInit
  BY DEF MassInit
<1>2. MassInv /\ [MassNext]_massVars => [ShotNext]_shotVars
  BY MassInvTypes, MassStepIsShotStep DEF MassInv
<1>3. QED
  BY <1>1, <1>2, MassInvariant, PTL DEF MassSpec, ShotSafety

\* So mass sends touch the tables through the store's own calls only.
THEOREM MassSendsUseStore ==
    ASSUME MassConstants
    PROVE  MassSpec => UsesStore
<1>1. ShotInit => StoreInit
  BY DEF ShotInit
<1>2. MassInv /\ [ShotNext]_shotVars => [StoreNext]_storeVars
  BY ShotStepIsStoreStep DEF MassInv, ShotInv
<1>3. QED
  BY <1>1, <1>2, MassInvariant, MassSendsUseServices, PTL DEF ShotSafety, UsesStore, StoreSpec

\* And they keep the services' promise: the message of an operation_id reaches
\* each topic of each chat at most once, whichever walks send it.
THEOREM MassSendsKeepPromise ==
    ASSUME MassConstants
    PROVE  MassSpec => KeepsPromise
<1>1. MassInv => ShotInv
  BY DEF MassInv
<1>2. ShotInv /\ ShotInv' /\ [ShotNext]_shotVars => [Once!OnceNext]_<<applied, told>>
  BY ShotStepIsPromised
<1>3. QED
  BY <1>1, <1>2, ShotInitIsPromised, MassInvariant, MassSendsUseServices, PTL
     DEF ShotSafety, KeepsPromise, Once!OnceSpec

\* A send whose process died is one of those orphans: no repetition of the mass
\* send delivers the message to its topic.
THEOREM LostSendsStayLost ==
    ASSUME MassConstants, NEW id \in OpIds
    PROVE  MassSpec => [](Orphan(id) => []Orphan(id))
<1>1. MassInv => ShotInv
  BY DEF MassInv
<1>2. ShotInv /\ Orphan(id) /\ [ShotNext]_shotVars => Orphan(id)'
  BY OrphanStays
<1>3. QED
  BY <1>1, <1>2, MassInvariant, MassSendsUseServices, PTL DEF ShotSafety

\* The variables keep their types, and a walk executes a send exactly while it
\* waits at a chat (mass_send_message awaits send_message in its loop).
THEOREM MassIsTyped ==
    ASSUME MassConstants
    PROVE  MassSpec => []MassTypeOK
BY MassInvariant, MassInvTypes, PTL

\* However many mass sends of an operation_id run, and whatever the operator
\* reopens, a topic gets the message at most once and is counted once as sent.
THEOREM EachTopicOnce ==
    ASSUME MassConstants
    PROVE  MassSpec => []SentOnce
<1>1. MassInv => SentOnce
  BY DEF MassInv, ShotInv, EffectsMatch, AppliedAtMostOnce, Steps, CountedWasTold, SentOnce
<1>2. QED
  BY <1>1, MassInvariant, PTL

\* A chat reported as sent or existed has the message of the operation_id.
THEOREM ReportsAreTrue ==
    ASSUME MassConstants
    PROVE  MassSpec => []ReportedIsDelivered
<1>1. MassInv => ReportedIsDelivered
  BY DEF MassInv, WalkOK, MessageKey, ReportedIsDelivered
<1>2. QED
  BY <1>1, MassInvariant, PTL

\* An error of list_topics is never reported as a chat without the topic: a chat
\* that is reported as skipped in a step has none, or several, of the title.
THEOREM ErrorsAreNotMisses ==
    ASSUME MassConstants
    PROVE  MassSpec => NoSilentMiss
<1>1. ASSUME MassInv, [MassNext]_massVars, NEW w \in Callers, NEW c \in Chats,
             Becomes(w, c, "skipped")
      PROVE  ~HasOneTopic(c)
  <2>1. /\ walk[w] # None /\ walk'[w] # None
        /\ walk[w].out[c] # "skipped" /\ walk'[w].out[c] = "skipped"
    BY <1>1 DEF Becomes
  <2>2. /\ WalksTyped /\ MassTypeOK
        /\ walk \in [Callers -> Walk \cup {None}] /\ walk[w] \in Walk
        /\ walk[w].out \in [Chats -> Outcome]
    BY <1>1, <2>1, MassInvTypes, WalkFields DEF MassInv, WalksTyped
  <2>3. ASSUME NEW v \in Callers, NEW d \in Chats, NEW o \in Outcome \ {"skipped"}, Leave(v, d, o)
        PROVE  FALSE
    <3>1. walk' = [walk EXCEPT ![v] = Passed(walk[v], d, o)]
      BY <2>3 DEF Leave
    <3>2. v = w
      BY <2>1, <2>2, <3>1
    <3>3. walk'[w] = Passed(walk[w], d, o)
      BY <2>2, <3>1, <3>2
    <3>4. Passed(walk[w], d, o).out = [walk[w].out EXCEPT ![d] = o]
      BY <2>2 DEF Passed, Walk
    <3>5. QED
      BY <2>1, <2>2, <2>3, <3>3, <3>4
  <2>4. ASSUME NEW v \in Callers, NEW d \in Chats, SkipChat(v, d)
        PROVE  v = w /\ d = c
    <3>1. walk' = [walk EXCEPT ![v] = Passed(walk[v], d, "skipped")]
      BY <2>4 DEF SkipChat, Leave
    <3>2. v = w
      BY <2>1, <2>2, <3>1
    <3>3. walk'[w] = Passed(walk[w], d, "skipped")
      BY <2>2, <3>1, <3>2
    <3>4. Passed(walk[w], d, "skipped").out = [walk[w].out EXCEPT ![d] = "skipped"]
      BY <2>2 DEF Passed, Walk
    <3>5. QED
      BY <2>1, <2>2, <3>2, <3>3, <3>4
  <2>5. UNCHANGED walk => FALSE
    BY <2>1
  <2>6. ASSUME NEW v \in Callers, NEW d \in Chats, VisitChat(v, d)
        PROVE  ~HasOneTopic(c)
    <3>1. CASE HasOneTopic(d)
      <4>1. PICK t \in topics[d], id \in OpIds :
                \/ walk' = [walk EXCEPT ![v].at = d]
                \/ Leave(v, d, ReplayOutcome(id))
        BY <2>6, <3>1 DEF VisitChat, SendToTopic
      <4>2. CASE walk' = [walk EXCEPT ![v].at = d]
        <5>1. [walk[w] EXCEPT !.at = d].out = walk[w].out
          BY <2>2 DEF Walk
        <5>2. walk'[w] \in {walk[w], [walk[w] EXCEPT !.at = d]}
          BY <2>2, <4>2
        <5>3. QED
          BY <2>1, <5>1, <5>2
      <4>3. CASE Leave(v, d, ReplayOutcome(id))
        BY <2>3, <4>3 DEF ReplayOutcome, Outcome
      <4>4. QED
        BY <4>1, <4>2, <4>3
    <3>2. CASE ~HasOneTopic(d)
      BY <2>4, <2>6, <3>2 DEF VisitChat
    <3>3. QED
      BY <3>1, <3>2
  <2>7. ASSUME NEW v \in Callers, Sent(v) \/ SendFails(v)
        PROVE  FALSE
    <3>1. walk[v].at \in Chats
      <4>1. Running(v) /\ walk[v] # None
        BY <2>7 DEF Sent, SendFails, Finish, FloodWait, Fail
      <4>2. QED
        BY <2>2, <4>1, WalkFields DEF MassTypeOK
    <3>2. QED
      BY <2>3, <2>7, <3>1 DEF Sent, SendFails, Outcome
  <2>8. ASSUME NEW v \in Callers, NEW op \in MassOps, NEW chats \in SUBSET Chats,
               StartMassSend(v, op, chats)
        PROVE  FALSE
    <3>1. v # w /\ walk'[w] = walk[w]
      BY <2>1, <2>2, <2>8 DEF StartMassSend
    <3>2. QED
      BY <2>1, <3>1
  <2>9. ASSUME NEW v \in Callers, FinishMassSend(v) \/ MassSendDies(v)
        PROVE  FALSE
    <3>1. walk' = [walk EXCEPT ![v] = None]
      BY <2>9 DEF FinishMassSend, MassSendDies
    <3>2. walk'[w] = walk[w]
      BY <2>1, <2>2, <3>1
    <3>3. QED
      BY <2>1, <3>2
  <2>10. ASSUME NEW v \in Callers, NEW d \in Chats, ListTopicsFails(v, d)
         PROVE  FALSE
    BY <2>3, <2>10 DEF ListTopicsFails, Outcome
  <2>11. QED
    BY <1>1, <2>5, <2>6, <2>7, <2>8, <2>9, <2>10 DEF MassNext, WalkOn, RetitleTopics, massVars
<1>2. MassInv /\ [MassNext]_massVars =>
          [\A w \in Callers, c \in Chats : Becomes(w, c, "skipped") => ~HasOneTopic(c)]_massVars
  BY <1>1
<1>3. QED
  BY <1>2, MassInvariant, PTL DEF MassSpec, NoSilentMiss
==============================================================================
