--------------------------- MODULE GroupCreateProofs ---------------------------
(***************************************************************************)
(* Proofs about GroupCreate for any number of callers, operators, keys,    *)
(* operation ids and chats.  The store's invariant carries over, for every *)
(* step is a step of the store or leaves it alone; on top of it, CallOK    *)
(* says what a caller may rely on in the middle of its steps, and KeyOK    *)
(* why a key of which no chat is lost has one chat at the most.            *)
(***************************************************************************)
EXTENDS GroupCreate, OperationStoreProofs, FiniteSetTheorems

\* What a caller goes by: its chat was made for its key, a chat it made is not
\* one that had been lost, and its row, if it is still there, is of its key.
CallOK(c) ==
    call[c] # None =>
        /\ call[c].id \in usedIds
        /\ call[c].id \in LiveOps => ops[call[c].id].key = call[c].key
        /\ call[c].chat # None => made[call[c].chat] = call[c].key
        /\ call[c].step \notin {"create", "reclaim"} => call[c].chat # None
        /\ call[c].step \in Executing /\ call[c].chat # None => call[c].chat \notin asked[c]
        /\ call[c].step = "task" => call[c].chat \in placed \/ call[c].key \in SkipFolder

\* A caller that has claimed key k, in the first place or again.
Claims(c, k) == call[c] # None /\ call[c].key = k /\ call[c].step # "check"
Unmade(c) == call[c].step = "create" /\ call[c].chat = None

\* While no chat of a key is lost, the key has one row, one execution of it at
\* the most, and a chat only when its row has been executed.
KeyOK(k) ==
    ChatsOf(k) \cap lostChats = {} =>
        /\ \A a, b \in ChatsOf(k) : a = b
        /\ ChatsOf(k) # {} => RowsOfKey(k) # {}
        /\ \A c \in Callers : Claims(c, k) =>
              /\ call[c].step # "reclaim"
              /\ call[c].id \in RowsOfKey(k)
              /\ Unmade(c) => ChatsOf(k) = {}
        /\ \A c, d \in Callers : Claims(c, k) /\ Claims(d, k) => c = d

\* A chat is lost after it was made, and known to be lost after that.
LostWereMade ==
    /\ \A ch \in lostChats : made[ch] # None
    /\ \A c \in Callers : asked[c] \subseteq lostChats

GroupInv ==
    /\ GroupTypeOK
    /\ StoreInv
    /\ LostWereMade
    /\ NoDeadAnswer
    /\ CompletedIsPlaced
    /\ \A c \in Callers : CallOK(c)
    /\ \A k \in Keys : KeyOK(k)

------------------------------------------------------------------------------
(* The store and the types. *)

LEMMA CallFields ==
    ASSUME GroupTypeOK, NEW c \in Callers, call[c] # None
    PROVE  /\ call[c] \in Call
           /\ call[c].key \in Keys /\ call[c].id \in OpIds /\ call[c].step \in Steps
           /\ call[c].chat \in Chats \cup {None}
BY DEF GroupTypeOK, Call

\* The store's side of a verdict.
LEMMA VerdictIsStoreStep ==
    ASSUME GroupTypeOK, NEW c \in Callers, call[c] # None, NEW s \in TerminalStatus,
           NEW res \in Results \cup {None}, NEW err \in Errors \cup {None},
           Payload(s, res, err), Transition(call[c].id, s, res, err)
    PROVE  StoreNext
BY CallFields DEF StoreNext

LEMMA BeginIsStoreStep ==
    ASSUME NEW c \in Callers, NEW k \in Keys, NEW id \in OpIds, Begin(c, k, id)
    PROVE  StoreNext
BY GroupAssumption DEF Begin, StoreNext

LEMMA GroupStepIsStoreStep ==
    ASSUME GroupTypeOK, \A c \in Callers : CallOK(c), [GroupNext]_groupVars
    PROVE  [StoreNext]_storeVars
<1>1. ASSUME NEW c \in Callers, NEW k \in Keys, CreateGroup(c, k)
      PROVE  [StoreNext]_storeVars
  BY <1>1, BeginIsStoreStep DEF CreateGroup
<1>2. ASSUME NEW c \in Callers, Reclaim(c)
      PROVE  [StoreNext]_storeVars
  <2>1. call[c].key \in Keys
    BY <1>2, CallFields DEF Reclaim, At
  <2>2. QED
    BY <1>2, <2>1, BeginIsStoreStep DEF Reclaim
<1>3. ASSUME NEW c \in Callers, DropStale(c)
      PROVE  [StoreNext]_storeVars
  <2>1. call[c].id \in OpIds
    BY <1>3, CallFields DEF DropStale, At
  <2>2. QED
    BY <1>3, <2>1 DEF DropStale, StoreNext
<1>4. ASSUME NEW c \in Callers, Finish(c)
      PROVE  [StoreNext]_storeVars
  <2>1. call[c] # None /\ call[c].chat \in Chats
    BY <1>4, CallFields DEF Finish, At, CallOK
  <2>2. Payload("completed", call[c].chat, None) /\ "completed" \in TerminalStatus
    BY <2>1, GroupAssumption DEF Payload, TerminalStatus, Status
  <2>3. QED
    BY <1>4, <2>1, <2>2, VerdictIsStoreStep, GroupAssumption DEF Finish
<1>5. ASSUME NEW c \in Callers, NEW err \in Errors,
             FolderFails(c, err) \/ FloodWait(c, err) \/ CreateFails(c, err)
      PROVE  [StoreNext]_storeVars
  <2>1. call[c] # None
    BY <1>5 DEF FolderFails, FloodWait, CreateFails, At
  <2>2. /\ Payload("needs_review", None, err) /\ "needs_review" \in TerminalStatus
        /\ Payload("failed", None, err) /\ "failed" \in TerminalStatus
    BY DEF Payload, TerminalStatus, Status
  <2>3. QED
    BY <1>5, <2>1, <2>2, VerdictIsStoreStep DEF FolderFails, FloodWait, CreateFails
<1>6. ASSUME NEW c \in Callers,
             \/ ChatExists(c) \/ CheckFails(c) \/ TelegramCreates(c) \/ SupergroupCreated(c)
             \/ Populated(c) \/ AddedToFolder(c) \/ Crash(c)
      PROVE  UNCHANGED storeVars
  BY <1>6 DEF ChatExists, CheckFails, TelegramCreates, SupergroupCreated, Populated,
              AddedToFolder, Crash, retryVars
<1>7. ASSUME NEW o \in Operators, RetryItems(o) \/ RetryOperation(o)
      PROVE  StoreNext
  <2>1. operator[o].id \in OpIds
    BY <1>7 DEF GroupTypeOK, RetryTypeOK, RetryItems, RetryOperation, Retry
  <2>2. QED
    BY <1>7, <2>1 DEF RetryItems, RetryOperation, StoreNext
<1>8. CASE RetryNext
  BY <1>7, <1>8 DEF RetryNext, LookAtOperation, OperatorStops
<1>9. CASE (\E ch \in Chats : ChatLost(ch)) \/ UNCHANGED groupVars
  BY <1>9 DEF ChatLost, groupVars, retryVars
<1>10. QED
  BY <1>1, <1>2, <1>3, <1>4, <1>5, <1>6, <1>8, <1>9 DEF GroupNext, Proceed

LEMMA OperatorTyped ==
    ASSUME GroupTypeOK, RetryNext
    PROVE  RetryTypeOK'
<1>1. operator \in [Operators -> Retry \cup {None}] /\ ops \in [OpIds -> OpRow \cup {None}]
  BY DEF GroupTypeOK, RetryTypeOK, StoreTypeOK
<1>2. PICK o \in Operators :
          \/ \E id \in OpIds : LookAtOperation(o, id)
          \/ RetryItems(o) \/ RetryOperation(o) \/ OperatorStops(o)
  BY DEF RetryNext
<1>3. ASSUME NEW id \in OpIds, LookAtOperation(o, id)
      PROVE  RetryTypeOK'
  <2>1. [id |-> id, seen |-> ops[id].status, step |-> "items"] \in Retry
    BY <1>1, <1>3 DEF LookAtOperation, LiveOps, OpRow, Retry
  <2>2. QED
    BY <1>1, <1>3, <2>1 DEF LookAtOperation, RetryTypeOK
<1>4. CASE RetryItems(o)
  <2>1. operator[o] \in Retry
    BY <1>1, <1>4 DEF RetryItems
  <2>2. [operator[o] EXCEPT !.step = "operation"] \in Retry
    BY <2>1 DEF Retry
  <2>3. QED
    BY <1>1, <1>4, <2>2 DEF RetryItems, RetryTypeOK
<1>5. CASE RetryOperation(o) \/ OperatorStops(o)
  BY <1>1, <1>5 DEF RetryOperation, OperatorStops, RetryTypeOK
<1>6. QED
  BY <1>2, <1>3, <1>4, <1>5

------------------------------------------------------------------------------
(* What a step leaves alone. *)

\* The part of GroupTypeOK that is neither the store's nor the operator's.
CallersTyped ==
    /\ call \in [Callers -> Call \cup {None}]
    /\ made \in [Chats -> Keys \cup {None}]
    /\ lostChats \in SUBSET Chats
    /\ placed \in SUBSET Chats
    /\ asked \in [Callers -> SUBSET Chats]
    /\ answer \in [Callers -> Chats \cup {None}]
    /\ died \in SUBSET OpIds

\* What is left to show of a step.
CallersMatch ==
    /\ CallersTyped
    /\ LostWereMade
    /\ NoDeadAnswer
    /\ CompletedIsPlaced
    /\ \A c \in Callers : CallOK(c)
    /\ \A k \in Keys : KeyOK(k)

\* No id is drawn again, so a row keeps its key or goes; a made chat keeps its
\* key, and a placed one its place.
WorldGrows ==
    /\ usedIds \subseteq usedIds'
    /\ \A i \in usedIds : i \in LiveOps' => i \in LiveOps /\ ops'[i].key = ops[i].key
    /\ \A ch \in Chats : made[ch] # None => made'[ch] = made[ch]
    /\ placed \subseteq placed'

\* No row goes and no key is taken or freed.
RowsKept ==
    /\ LiveOps' = LiveOps
    /\ \A i \in LiveOps : ops'[i].key = ops[i].key
    /\ UNCHANGED usedIds

LEMMA CallStays ==
    ASSUME GroupInv, WorldGrows, NEW d \in Callers, call'[d] = call[d], asked'[d] = asked[d]
    PROVE  CallOK(d)'
<1>1. CallOK(d) /\ GroupTypeOK
  BY DEF GroupInv
<1>2. call[d] # None => call[d].chat \in Chats \cup {None} /\ call[d].key \in Keys
  BY <1>1, CallFields
<1>3. QED
  BY <1>1, <1>2, GroupAssumption DEF CallOK, WorldGrows

\* A key none of whose calls claims it anew, whose rows stay and of which no
\* chat is made.
LEMMA KeyStays ==
    ASSUME GroupInv, NEW k \in Keys, ChatsOf(k)' = ChatsOf(k), lostChats \subseteq lostChats',
           RowsOfKey(k) \subseteq RowsOfKey(k)',
           \A d \in Callers : Claims(d, k)' =>
              /\ Claims(d, k)
              /\ call'[d].id = call[d].id
              /\ call'[d].step = "reclaim" => call[d].step = "reclaim"
              /\ Unmade(d)' => Unmade(d)
    PROVE  KeyOK(k)'
BY DEF GroupInv, KeyOK

LEMMA KeptRowsOfKeys ==
    ASSUME RowsKept, NEW k \in Keys
    PROVE  RowsOfKey(k)' = RowsOfKey(k)
BY DEF RowsKept, RowsOfKey

LEMMA KeptRowsGrow ==
    ASSUME RowsKept, UNCHANGED made, placed \subseteq placed'
    PROVE  WorldGrows
BY DEF RowsKept, WorldGrows

LEMMA UnchangedRowsKept ==
    ASSUME UNCHANGED storeVars
    PROVE  RowsKept /\ UNCHANGED <<ops, LiveOps>>
BY DEF storeVars, RowsKept, LiveOps

\* A verdict keeps the rows; it makes none completed but its own.
LEMMA VerdictRows ==
    ASSUME GroupInv, NEW id \in OpIds, NEW s \in TerminalStatus,
           NEW res \in Results \cup {None}, NEW err \in Errors \cup {None},
           Transition(id, s, res, err)
    PROVE  /\ RowsKept
           /\ \A i \in LiveOps : ops'[i].status = "completed" =>
                 \/ ops[i].status = "completed" /\ ops'[i].result = ops[i].result
                 \/ i = id /\ s = "completed" /\ ops'[i].result = res
<1>1. ops \in [OpIds -> OpRow \cup {None}] /\ None \notin OpRow
  BY NoneAssumption DEF GroupInv, GroupTypeOK, StoreTypeOK
<1>2. CASE ops[id] = None
  BY <1>2 DEF Transition, RowsKept, LiveOps
<1>3. CASE ops[id] # None
  <2>1. ops[id] \in OpRow
    BY <1>1, <1>3
  <2> DEFINE row == Settled(ops[id], s, res, err)
  <2>2. /\ row.key = ops[id].key
        /\ row.status = "completed" =>
              \/ ops[id].status = "completed" /\ row.result = ops[id].result
              \/ s = "completed" /\ row.result = res
    BY <2>1 DEF Settled, OpRow, TerminalStatus
  <2>3. row # None
    <3>1. row \in OpRow
      BY <2>1 DEF Settled, OpRow, TerminalStatus
    <3>2. QED
      BY <1>1, <3>1
  <2>4. ops' = [ops EXCEPT ![id] = row] /\ UNCHANGED usedIds
    BY <1>3 DEF Transition
  <2> HIDE DEF row
  <2>5. \A i \in OpIds : ops'[i] = IF i = id THEN row ELSE ops[i]
    BY <1>1, <2>4
  <2>6. LiveOps' = LiveOps
    BY <1>3, <2>3, <2>5 DEF LiveOps
  <2>7. QED
    BY <2>2, <2>4, <2>5, <2>6 DEF RowsKept, LiveOps
<1>4. QED
  BY <1>2, <1>3

\* Completed rows of before, and chats that are placed as before or more.
LEMMA CompletedRowsStay ==
    ASSUME GroupInv, WorldGrows,
           \A i \in LiveOps' : ops'[i].status = "completed" =>
                 /\ i \in LiveOps /\ ops[i].status = "completed"
                 /\ ops'[i].result = ops[i].result
    PROVE  CompletedIsPlaced'
<1>1. \A i \in LiveOps : i \in usedIds /\ ops[i] \in OpRow
  BY DEF GroupInv, StoreInv, LiveIdsDrawn, GroupTypeOK, StoreTypeOK, LiveOps
<1>2. \A i \in LiveOps : ops[i].status = "completed" => ops[i].result \in Chats
  BY <1>1, GroupAssumption DEF GroupInv, StoreInv, PayloadMatchesStatus, Consistent, OpRow
<1>3. ASSUME NEW i \in LiveOps', ops'[i].status = "completed"
      PROVE  /\ made'[ops'[i].result] = ops'[i].key
             /\ ops'[i].result \in placed' \/ ops'[i].key \in SkipFolder
  <2>1. /\ i \in LiveOps /\ ops[i].status = "completed" /\ ops'[i].result = ops[i].result
        /\ ops'[i].key = ops[i].key
    BY <1>1, <1>3 DEF WorldGrows
  <2>2. ops[i].key \in Keys /\ ops[i].result \in Chats
    BY <1>1, <1>2, <2>1 DEF OpRow
  <2>3. /\ made[ops[i].result] = ops[i].key
        /\ ops[i].result \in placed \/ ops[i].key \in SkipFolder
    BY <2>1 DEF GroupInv, CompletedIsPlaced
  <2>4. QED
    BY <2>1, <2>2, <2>3, GroupAssumption DEF WorldGrows
<1>4. QED
  BY <1>3 DEF CompletedIsPlaced

\* What a caller that was executing is next, its chat in hand: in a later step,
\* or at its end.
LEMMA MoveOn ==
    ASSUME GroupInv, NEW c \in Callers, call[c] # None, RowsKept,
           UNCHANGED <<made, lostChats, asked>>, placed \subseteq placed', placed' \in SUBSET Chats,
           NEW next, call' = [call EXCEPT ![c] = next],
           next # None =>
              /\ next \in Call
              /\ next.key = call[c].key /\ next.id = call[c].id /\ next.chat = call[c].chat
              /\ call[c].step \in Executing /\ next.step \in {"populate", "folder", "task"}
              /\ call[c].chat # None
              /\ next.step = "task" => next.chat \in placed' \/ next.key \in SkipFolder
    PROVE  /\ call' \in [Callers -> Call \cup {None}]
           /\ LostWereMade'
           /\ \A d \in Callers : CallOK(d)'
           /\ \A k \in Keys : KeyOK(k)'
           /\ WorldGrows
<1>1. /\ GroupTypeOK /\ CallOK(c)
      /\ call \in [Callers -> Call \cup {None}]
  BY DEF GroupInv, GroupTypeOK
<1>2. call' \in [Callers -> Call \cup {None}]
  BY <1>1
<1>3. call'[c] = next /\ \A d \in Callers \ {c} : call'[d] = call[d]
  BY <1>1
<1>4. WorldGrows
  BY KeptRowsGrow
<1>5. LostWereMade'
  BY DEF GroupInv, LostWereMade
<1>6. CallOK(c)'
  <2>1. call[c].id \in usedIds /\ (call[c].id \in LiveOps => ops[call[c].id].key = call[c].key)
    BY <1>1 DEF CallOK
  <2>2. next # None => /\ made[next.chat] = next.key
                       /\ next.chat \notin asked[c]
                       /\ next.step \in Executing
    BY <1>1 DEF CallOK, Executing, Steps
  <2>3. QED
    BY <1>3, <2>1, <2>2 DEF CallOK, RowsKept
<1>7. \A d \in Callers \ {c} : CallOK(d)'
  BY <1>3, <1>4, CallStays
<1>8. ASSUME NEW k \in Keys
      PROVE  KeyOK(k)'
  <2>1. ChatsOf(k)' = ChatsOf(k) /\ RowsOfKey(k)' = RowsOfKey(k)
    BY KeptRowsOfKeys DEF ChatsOf
  <2>2. \A d \in Callers : Claims(d, k)' =>
           /\ Claims(d, k)
           /\ call'[d].id = call[d].id
           /\ call'[d].step = "reclaim" => call[d].step = "reclaim"
           /\ Unmade(d)' => Unmade(d)
    BY <1>3 DEF Claims, Unmade, Executing, Steps
  <2>3. QED
    BY <2>1, <2>2, KeyStays
<1>9. QED
  BY <1>2, <1>4, <1>5, <1>6, <1>7, <1>8

------------------------------------------------------------------------------
(* The execution. *)

LEMMA ExecutionMatches ==
    ASSUME GroupInv, NEW c \in Callers,
           SupergroupCreated(c) \/ Populated(c) \/ AddedToFolder(c)
    PROVE  CallersMatch'
<1>1. /\ GroupTypeOK /\ CallOK(c) /\ call[c] # None /\ UNCHANGED <<made, lostChats, asked, answer, died>>
      /\ UNCHANGED storeVars
  BY DEF GroupInv, SupergroupCreated, Populated, AddedToFolder, At, retryVars
<1>2. /\ call[c] \in Call /\ call[c].step \in {"create", "populate", "folder"}
      /\ call[c].chat \in Chats /\ call[c].chat # None
  BY <1>1, CallFields, GroupAssumption, NoneAssumption
     DEF SupergroupCreated, Populated, AddedToFolder, At, CallOK
<1>3. PICK step \in {"populate", "folder", "task"} :
          /\ call' = [call EXCEPT ![c].step = step]
          /\ step = "task" => call[c].chat \in placed' \/ call[c].key \in SkipFolder
  BY <1>1, <1>2 DEF SupergroupCreated, Populated, AddedToFolder, Goto, GroupTypeOK
<1> DEFINE next == [call[c] EXCEPT !.step = step]
<1>4. /\ next \in Call /\ next.key = call[c].key /\ next.id = call[c].id
      /\ next.chat = call[c].chat /\ next.step = step
  BY <1>2 DEF Call, Steps
<1>5. call' = [call EXCEPT ![c] = next]
  BY <1>3
<1>6. placed \subseteq placed' /\ placed' \in SUBSET Chats
  BY <1>1, <1>2 DEF SupergroupCreated, Populated, AddedToFolder, GroupTypeOK
<1>7. call[c].step \in Executing
  BY <1>2 DEF Executing, Steps
<1> HIDE DEF next
<1>8. RowsKept /\ UNCHANGED <<ops, LiveOps>>
  BY <1>1, UnchangedRowsKept
<1>9. /\ call' \in [Callers -> Call \cup {None}]
      /\ LostWereMade' /\ WorldGrows
      /\ \A d \in Callers : CallOK(d)'
      /\ \A k \in Keys : KeyOK(k)'
  BY <1>1, <1>2, <1>3, <1>4, <1>5, <1>6, <1>7, <1>8, MoveOn
<1>10. CompletedIsPlaced'
  BY <1>8, <1>9, CompletedRowsStay
<1>11. NoDeadAnswer'
  BY <1>1 DEF GroupInv, NoDeadAnswer
<1>12. QED
  BY <1>1, <1>6, <1>9, <1>10, <1>11 DEF CallersMatch, CallersTyped, GroupTypeOK

\* A caller that ends without a verdict: its answer, if it has one, is a chat
\* that exists.
LEMMA EndMatches ==
    ASSUME GroupInv, NEW c \in Callers, ChatExists(c) \/ CheckFails(c) \/ Crash(c)
    PROVE  CallersMatch'
<1>1. /\ GroupTypeOK /\ CallOK(c) /\ call[c] # None /\ LostWereMade
      /\ UNCHANGED <<made, lostChats, placed, asked>> /\ UNCHANGED storeVars
      /\ call' = [call EXCEPT ![c] = None]
  BY DEF GroupInv, ChatExists, CheckFails, Crash, At, Done, retryVars
<1>2. RowsKept /\ UNCHANGED <<ops, LiveOps>>
  BY <1>1, UnchangedRowsKept
<1>3. /\ call' \in [Callers -> Call \cup {None}]
      /\ LostWereMade' /\ WorldGrows
      /\ \A d \in Callers : CallOK(d)'
      /\ \A k \in Keys : KeyOK(k)'
  <2>1. placed \subseteq placed' /\ placed' \in SUBSET Chats
    BY <1>1 DEF GroupTypeOK
  <2>2. QED
    BY <1>1, <1>2, <2>1, MoveOn
<1>4. CompletedIsPlaced'
  BY <1>2, <1>3, CompletedRowsStay
<1>5. answer' \in [Callers -> Chats \cup {None}] /\ NoDeadAnswer'
  <2>1. CASE ChatExists(c)
    <3>1. call[c].chat \in Chats /\ call[c].chat \notin asked[c]
      BY <1>1, <2>1, CallFields DEF ChatExists, At, CallOK, LostWereMade
    <3>2. answer' = [answer EXCEPT ![c] = call[c].chat]
      BY <2>1 DEF ChatExists
    <3>3. QED
      BY <1>1, <3>1, <3>2 DEF GroupInv, GroupTypeOK, NoDeadAnswer
  <2>2. CASE CheckFails(c) \/ Crash(c)
    BY <1>1, <2>2 DEF CheckFails, Crash, GroupInv, GroupTypeOK, NoDeadAnswer
  <2>3. QED
    BY <2>1, <2>2
<1>6. died' \in SUBSET OpIds
  <2>1. call[c].id \in OpIds
    BY <1>1, CallFields
  <2>2. QED
    BY <1>1, <2>1 DEF ChatExists, CheckFails, Crash, GroupTypeOK
<1>7. QED
  BY <1>1, <1>3, <1>4, <1>5, <1>6 DEF CallersMatch, CallersTyped, GroupTypeOK

\* A verdict ends its caller, and completes a row with a chat that is placed.
LEMMA VerdictMatches ==
    ASSUME GroupInv, NEW c \in Callers,
           \/ Finish(c)
           \/ \E err \in Errors : FolderFails(c, err) \/ FloodWait(c, err) \/ CreateFails(c, err)
    PROVE  CallersMatch'
<1>1. /\ GroupTypeOK /\ CallOK(c) /\ call[c] # None /\ LostWereMade
      /\ UNCHANGED <<made, lostChats, placed, asked, died>>
      /\ call' = [call EXCEPT ![c] = None]
  BY DEF GroupInv, Finish, FolderFails, FloodWait, CreateFails, At, Done
<1>2. call[c].id \in OpIds /\ call[c].chat \in Chats \cup {None} /\ call[c].key \in Keys
  BY <1>1, CallFields
<1>3. PICK s \in TerminalStatus, res \in Results \cup {None}, err \in Errors \cup {None} :
          /\ Transition(call[c].id, s, res, err)
          /\ s = "completed" => At(c, "task") /\ res = call[c].chat
  BY <1>2, GroupAssumption DEF Finish, FolderFails, FloodWait, CreateFails, TerminalStatus, Status
<1>4. /\ RowsKept
      /\ \A i \in LiveOps : ops'[i].status = "completed" =>
            \/ ops[i].status = "completed" /\ ops'[i].result = ops[i].result
            \/ i = call[c].id /\ s = "completed" /\ ops'[i].result = res
  BY <1>2, <1>3, VerdictRows
<1>5. /\ call' \in [Callers -> Call \cup {None}]
      /\ LostWereMade' /\ WorldGrows
      /\ \A d \in Callers : CallOK(d)'
      /\ \A k \in Keys : KeyOK(k)'
  <2>1. placed \subseteq placed' /\ placed' \in SUBSET Chats
    BY <1>1 DEF GroupTypeOK
  <2>2. QED
    BY <1>1, <1>4, <2>1, MoveOn
<1>6. CompletedIsPlaced'
  <2>1. ASSUME NEW i \in LiveOps, ops'[i].status = "completed"
        PROVE  /\ made[ops'[i].result] = ops[i].key
               /\ ops'[i].result \in placed \/ ops[i].key \in SkipFolder
    <3>1. CASE ops[i].status = "completed" /\ ops'[i].result = ops[i].result
      BY <3>1 DEF GroupInv, CompletedIsPlaced
    <3>2. CASE i = call[c].id /\ At(c, "task") /\ ops'[i].result = call[c].chat
      BY <1>1, <3>2 DEF CallOK, At
    <3>3. QED
      BY <1>3, <1>4, <2>1, <3>1, <3>2
  <2>2. QED
    BY <1>1, <1>4, <2>1 DEF CompletedIsPlaced, RowsKept
<1>7. answer' \in [Callers -> Chats \cup {None}] /\ NoDeadAnswer'
  <2>1. CASE Finish(c)
    <3>1. call[c].chat # None /\ call[c].chat \notin asked[c]
      BY <1>1, <2>1 DEF Finish, At, CallOK, Executing, Steps
    <3>2. answer' = [answer EXCEPT ![c] = IF call[c].id \in LiveOps THEN call[c].chat ELSE None]
      BY <2>1 DEF Finish
    <3>3. QED
      BY <1>1, <1>2, <3>1, <3>2 DEF GroupInv, GroupTypeOK, NoDeadAnswer
  <2>2. CASE UNCHANGED answer
    BY <1>1, <2>2 DEF GroupInv, GroupTypeOK, NoDeadAnswer
  <2>3. QED
    BY <2>1, <2>2 DEF FolderFails, FloodWait, CreateFails
<1>8. QED
  BY <1>1, <1>5, <1>6, <1>7 DEF CallersMatch, CallersTyped, GroupTypeOK

------------------------------------------------------------------------------
(* The claim of a key, and its replay. *)

\* A claim inserts a row of the key, which had none.
LEMMA BeginRows ==
    ASSUME GroupInv, NEW c \in Callers, NEW k \in Keys, NEW id \in OpIds, Begin(c, k, id),
           UNCHANGED <<made, placed>>
    PROVE  /\ LiveOps' = LiveOps \cup {id} /\ id \in usedIds'
           /\ ops'[id].key = k /\ ops'[id].status = "pending"
           /\ \A i \in LiveOps : ops'[i] = ops[i]
           /\ RowsOfKey(k) = {}
           /\ \A j \in Keys : RowsOfKey(j) \subseteq RowsOfKey(j)'
           /\ WorldGrows
           /\ CompletedIsPlaced'
<1>1. ops \in [OpIds -> OpRow \cup {None}] /\ LiveOps \subseteq usedIds
  BY DEF GroupInv, GroupTypeOK, StoreTypeOK, StoreInv, LiveIdsDrawn
<1> DEFINE row == NewOpRow(GroupType, k)
<1>2. row \in OpRow /\ row # None /\ row.key = k /\ row.status = "pending"
  BY NewRows, NoneAssumption, GroupAssumption DEF NewOpRow
<1>3. /\ ops' = [ops EXCEPT ![id] = row] /\ id \notin usedIds /\ usedIds' = usedIds \cup {id}
      /\ RowsOfKey(k) = {}
  BY DEF Begin, BeginOperation, KeyFree
<1> HIDE DEF row
<1>4. \A i \in OpIds : ops'[i] = IF i = id THEN row ELSE ops[i]
  BY <1>1, <1>3
<1>5. LiveOps' = LiveOps \cup {id}
  BY <1>2, <1>4 DEF LiveOps
<1>6. \A i \in LiveOps : i # id /\ ops'[i] = ops[i]
  BY <1>1, <1>3, <1>4 DEF LiveOps
<1>7. \A j \in Keys : RowsOfKey(j) \subseteq RowsOfKey(j)'
  BY <1>5, <1>6 DEF RowsOfKey
<1>8. WorldGrows
  BY <1>3, <1>5, <1>6 DEF WorldGrows
<1>9. CompletedIsPlaced'
  BY <1>2, <1>4, <1>5, <1>6, <1>8, CompletedRowsStay
<1>10. QED
  BY <1>2, <1>3, <1>4, <1>5, <1>6, <1>7, <1>8, <1>9

\* A caller that claims key k anew, with nothing made yet: its own record, and
\* the keys other than k.
LEMMA ClaimMatches ==
    ASSUME GroupInv, NEW c \in Callers, NEW k \in Keys, NEW id \in OpIds, WorldGrows,
           call' = [call EXCEPT ![c] = [key |-> k, id |-> id, step |-> "create", chat |-> None]],
           id \in usedIds', id \in RowsOfKey(k)',
           UNCHANGED <<made, lostChats>>, \A j \in Keys : RowsOfKey(j) \subseteq RowsOfKey(j)',
           \A d \in Callers \ {c} : asked'[d] = asked[d]
    PROVE  /\ call' \in [Callers -> Call \cup {None}]
           /\ call'[c].key = k /\ call'[c].id = id /\ call'[c].step = "create"
           /\ \A d \in Callers \ {c} : call'[d] = call[d]
           /\ \A d \in Callers : CallOK(d)'
           /\ \A j \in Keys \ {k} : KeyOK(j)'
<1>1. GroupTypeOK /\ call \in [Callers -> Call \cup {None}]
  BY DEF GroupInv, GroupTypeOK
<1> DEFINE new == [key |-> k, id |-> id, step |-> "create", chat |-> None]
<1>2. new \in Call /\ new.key = k /\ new.id = id /\ new.step = "create" /\ new.chat = None
  BY DEF Call, Steps
<1> HIDE DEF new
<1>3. call' = [call EXCEPT ![c] = new]
  BY DEF new
<1>4. call'[c] = new /\ \A d \in Callers \ {c} : call'[d] = call[d]
  BY <1>1, <1>3
<1>5. call' \in [Callers -> Call \cup {None}]
  BY <1>1, <1>2, <1>3
<1>6. CallOK(c)'
  BY <1>2, <1>4 DEF CallOK, RowsOfKey
<1>7. \A d \in Callers \ {c} : CallOK(d)'
  BY <1>4, CallStays
<1>8. ASSUME NEW j \in Keys \ {k}
      PROVE  KeyOK(j)'
  <2>1. ChatsOf(j)' = ChatsOf(j)
    BY DEF ChatsOf
  <2>2. \A d \in Callers : Claims(d, j)' => d # c /\ call'[d] = call[d]
    BY <1>2, <1>4 DEF Claims
  <2>3. \A d \in Callers : Claims(d, j)' =>
           /\ Claims(d, j)
           /\ call'[d].id = call[d].id
           /\ call'[d].step = "reclaim" => call[d].step = "reclaim"
           /\ Unmade(d)' => Unmade(d)
    BY <2>2 DEF Claims, Unmade
  <2>4. QED
    BY <2>1, <2>3, KeyStays
<1>9. QED
  BY <1>2, <1>4, <1>5, <1>6, <1>7, <1>8

\* The first claim of a key: nobody else holds it, and it has no chat of a key
\* whose chats are all there.
LEMMA FirstClaimMatches ==
    ASSUME GroupInv, NEW c \in Callers, call[c] = None, NEW k \in Keys, NEW id \in OpIds,
           Begin(c, k, id),
           UNCHANGED <<made, lostChats, placed>>, \A d \in Callers \ {c} : asked'[d] = asked[d]
    PROVE  /\ call' \in [Callers -> Call \cup {None}]
           /\ CompletedIsPlaced'
           /\ \A d \in Callers : CallOK(d)'
           /\ \A j \in Keys : KeyOK(j)'
<1>1. /\ LiveOps' = LiveOps \cup {id} /\ id \in usedIds'
      /\ ops'[id].key = k /\ RowsOfKey(k) = {}
      /\ \A j \in Keys : RowsOfKey(j) \subseteq RowsOfKey(j)'
      /\ WorldGrows /\ CompletedIsPlaced'
  BY BeginRows
<1>2. id \in RowsOfKey(k)'
  BY <1>1 DEF RowsOfKey
<1>3. call' = [call EXCEPT ![c] = [key |-> k, id |-> id, step |-> "create", chat |-> None]]
  BY DEF Begin
<1>4. /\ call' \in [Callers -> Call \cup {None}]
      /\ call'[c].key = k /\ call'[c].id = id /\ call'[c].step = "create"
      /\ \A d \in Callers \ {c} : call'[d] = call[d]
      /\ \A d \in Callers : CallOK(d)'
      /\ \A j \in Keys \ {k} : KeyOK(j)'
  BY <1>1, <1>2, <1>3, ClaimMatches
<1>5. KeyOK(k)'
  <2> SUFFICES ASSUME ChatsOf(k) \cap lostChats = {}
               PROVE  /\ ChatsOf(k) = {}
                      /\ \A d \in Callers : Claims(d, k)' => d = c
    BY <1>2, <1>4 DEF KeyOK, Claims, ChatsOf
  <2>1. ChatsOf(k) = {} /\ \A d \in Callers : ~Claims(d, k)
    BY <1>1 DEF GroupInv, KeyOK
  <2>2. QED
    BY <1>4, <2>1 DEF Claims
<1>6. QED
  BY <1>1, <1>4, <1>5

\* A caller that begins to check a completed operation.
LEMMA CheckMatches ==
    ASSUME GroupInv, NEW c \in Callers, NEW k \in Keys, NEW id \in RowsOfKey(k),
           ops[id].status = "completed",
           call' = [call EXCEPT ![c] =
                       [key |-> k, id |-> id, step |-> "check", chat |-> ops[id].result]],
           UNCHANGED <<made, lostChats, placed>>, UNCHANGED storeVars,
           \A d \in Callers \ {c} : asked'[d] = asked[d]
    PROVE  /\ call' \in [Callers -> Call \cup {None}]
           /\ CompletedIsPlaced'
           /\ \A d \in Callers : CallOK(d)'
           /\ \A j \in Keys : KeyOK(j)'
<1>1. /\ call \in [Callers -> Call \cup {None}]
      /\ id \in LiveOps /\ id \in OpIds /\ ops[id].key = k /\ ops[id] \in OpRow /\ id \in usedIds
  BY DEF GroupInv, GroupTypeOK, StoreTypeOK, StoreInv, LiveIdsDrawn, RowsOfKey, LiveOps
<1>2. ops[id].result \in Chats /\ ops[id].result # None /\ made[ops[id].result] = k
  BY <1>1, GroupAssumption
     DEF GroupInv, StoreInv, PayloadMatchesStatus, Consistent, OpRow, CompletedIsPlaced
<1> DEFINE new == [key |-> k, id |-> id, step |-> "check", chat |-> ops[id].result]
<1>3. /\ new \in Call /\ new.key = k /\ new.id = id /\ new.step = "check"
      /\ new.chat = ops[id].result
  BY <1>1, <1>2 DEF Call, Steps
<1> HIDE DEF new
<1>4. call' = [call EXCEPT ![c] = new]
  BY DEF new
<1>5. call'[c] = new /\ \A d \in Callers \ {c} : call'[d] = call[d]
  BY <1>1, <1>4
<1>6. call' \in [Callers -> Call \cup {None}]
  BY <1>1, <1>3, <1>4
<1>7. RowsKept /\ UNCHANGED <<ops, LiveOps, usedIds>>
  BY UnchangedRowsKept DEF RowsKept
<1>8. WorldGrows
  BY <1>7, KeptRowsGrow
<1>9. CallOK(c)'
  BY <1>1, <1>2, <1>3, <1>5, <1>7 DEF CallOK, Executing
<1>10. \A d \in Callers \ {c} : CallOK(d)'
  BY <1>5, <1>8, CallStays
<1>11. ASSUME NEW j \in Keys
       PROVE  KeyOK(j)'
  <2>1. ChatsOf(j)' = ChatsOf(j) /\ RowsOfKey(j)' = RowsOfKey(j)
    BY <1>7, KeptRowsOfKeys DEF ChatsOf
  <2>2. \A d \in Callers : Claims(d, j)' => d # c /\ call'[d] = call[d]
    BY <1>3, <1>5 DEF Claims
  <2>3. \A d \in Callers : Claims(d, j)' =>
           /\ Claims(d, j)
           /\ call'[d].id = call[d].id
           /\ call'[d].step = "reclaim" => call[d].step = "reclaim"
           /\ Unmade(d)' => Unmade(d)
    BY <2>2 DEF Claims, Unmade
  <2>4. QED
    BY <2>1, <2>3, KeyStays
<1>12. CompletedIsPlaced'
  BY <1>7, <1>8, CompletedRowsStay
<1>13. QED
  BY <1>6, <1>9, <1>10, <1>11, <1>12

LEMMA CreateGroupMatches ==
    ASSUME GroupInv, NEW c \in Callers, NEW k \in Keys, CreateGroup(c, k)
    PROVE  CallersMatch'
<1>1. /\ call[c] = None /\ UNCHANGED <<made, lostChats, placed, died>>
      /\ asked' = [asked EXCEPT ![c] = lostChats]
      /\ answer' = [answer EXCEPT ![c] = None]
      /\ GroupTypeOK
  BY DEF CreateGroup, GroupInv
<1>2. /\ \A d \in Callers \ {c} : asked'[d] = asked[d] /\ answer'[d] = answer[d]
      /\ asked'[c] = lostChats /\ answer'[c] = None
  BY <1>1 DEF GroupTypeOK
<1>3. LostWereMade' /\ NoDeadAnswer'
  BY <1>1, <1>2 DEF GroupInv, LostWereMade, NoDeadAnswer
<1>4. /\ call' \in [Callers -> Call \cup {None}]
      /\ CompletedIsPlaced'
      /\ \A d \in Callers : CallOK(d)'
      /\ \A j \in Keys : KeyOK(j)'
  BY <1>1, <1>2, FirstClaimMatches, CheckMatches DEF CreateGroup
<1>5. QED
  BY <1>1, <1>3, <1>4 DEF CallersMatch, CallersTyped, GroupTypeOK

\* The second claim, of a key that has lost a chat, of a new row or of another
\* caller's.
LEMMA ReclaimMatches ==
    ASSUME GroupInv, NEW c \in Callers, Reclaim(c)
    PROVE  CallersMatch'
<1>0. PICK k \in Keys : k = call[c].key
  BY CallFields DEF GroupInv, Reclaim, At
<1>1. /\ GroupTypeOK /\ call[c] # None /\ call[c].step = "reclaim"
      /\ UNCHANGED <<made, lostChats, placed, asked, answer, died>>
  BY DEF GroupInv, Reclaim, At
<1>2. ChatsOf(k) \cap lostChats # {}
  BY <1>0, <1>1 DEF GroupInv, KeyOK, Claims
<1>3. KeyOK(k)'
  BY <1>1, <1>2 DEF KeyOK, ChatsOf
<1>4. PICK id \in OpIds :
          \/ Begin(c, k, id)
          \/ /\ id \in RowsOfKey(k)
             /\ call' = [call EXCEPT ![c] = [key |-> k, id |-> id, step |-> "create", chat |-> None]]
             /\ UNCHANGED storeVars
  BY <1>0 DEF Reclaim
<1>5. /\ WorldGrows /\ CompletedIsPlaced'
      /\ call' = [call EXCEPT ![c] = [key |-> k, id |-> id, step |-> "create", chat |-> None]]
      /\ id \in usedIds' /\ id \in RowsOfKey(k)'
      /\ \A j \in Keys : RowsOfKey(j) \subseteq RowsOfKey(j)'
  <2>1. CASE Begin(c, k, id)
    <3>1. /\ LiveOps' = LiveOps \cup {id} /\ id \in usedIds' /\ ops'[id].key = k
          /\ \A j \in Keys : RowsOfKey(j) \subseteq RowsOfKey(j)'
          /\ WorldGrows /\ CompletedIsPlaced'
      BY <1>1, <2>1, BeginRows
    <3>2. id \in RowsOfKey(k)'
      BY <3>1 DEF RowsOfKey
    <3>3. QED
      BY <2>1, <3>1, <3>2 DEF Begin
  <2>2. CASE /\ id \in RowsOfKey(k)
             /\ call' = [call EXCEPT ![c] = [key |-> k, id |-> id, step |-> "create", chat |-> None]]
             /\ UNCHANGED storeVars
    <3>1. RowsKept /\ UNCHANGED <<ops, LiveOps, usedIds>>
      BY <2>2, UnchangedRowsKept DEF RowsKept
    <3>2. WorldGrows
      BY <1>1, <3>1, KeptRowsGrow
    <3>3. CompletedIsPlaced'
      BY <3>1, <3>2, CompletedRowsStay
    <3>4. \A j \in Keys : RowsOfKey(j)' = RowsOfKey(j)
      BY <3>1, KeptRowsOfKeys
    <3>5. id \in usedIds
      BY <2>2 DEF RowsOfKey, GroupInv, StoreInv, LiveIdsDrawn
    <3>6. QED
      BY <1>1, <2>2, <3>1, <3>2, <3>3, <3>4, <3>5
  <2>3. QED
    BY <1>4, <2>1, <2>2
<1>6. /\ call' \in [Callers -> Call \cup {None}]
      /\ \A d \in Callers : CallOK(d)'
      /\ \A j \in Keys \ {k} : KeyOK(j)'
  BY <1>1, <1>5, ClaimMatches
<1>7. LostWereMade' /\ NoDeadAnswer'
  BY <1>1 DEF GroupInv, LostWereMade, NoDeadAnswer
<1>8. \A j \in Keys : KeyOK(j)'
  BY <1>3, <1>6
<1>9. QED
  BY <1>1, <1>5, <1>6, <1>7, <1>8 DEF CallersMatch, CallersTyped, GroupTypeOK

\* The drop of an operation whose chat is lost: of its key nothing is claimed
\* any more, and no other key loses a row.
LEMMA DropStaleMatches ==
    ASSUME GroupInv, NEW c \in Callers, DropStale(c)
    PROVE  CallersMatch'
<1>0. PICK k \in Keys, id \in OpIds, ch \in Chats :
          k = call[c].key /\ id = call[c].id /\ ch = call[c].chat
  BY CallFields DEF GroupInv, DropStale, At, GroupTypeOK
<1>1. /\ GroupTypeOK /\ CallOK(c) /\ call[c] # None /\ call[c].step = "check" /\ ch \in lostChats
      /\ UNCHANGED <<made, lostChats, placed, asked, answer, died>>
  BY <1>0 DEF GroupInv, DropStale, At
<1>2. made[ch] = k /\ id \in usedIds /\ (id \in LiveOps => ops[id].key = k)
  BY <1>0, <1>1, NoneAssumption, GroupAssumption DEF CallOK
<1>3. /\ ops' = [ops EXCEPT ![id] = None] /\ UNCHANGED usedIds
      /\ ops \in [OpIds -> OpRow \cup {None}]
  BY <1>0, <1>1 DEF DropStale, DeleteOperation, GroupTypeOK, StoreTypeOK
<1>4. LiveOps' = LiveOps \ {id} /\ \A i \in LiveOps \ {id} : ops'[i] = ops[i]
  BY <1>3 DEF LiveOps
<1>5. WorldGrows
  BY <1>1, <1>3, <1>4 DEF WorldGrows
<1> DEFINE next == [call[c] EXCEPT !.step = "reclaim"]
<1>6. call[c] \in Call /\ call \in [Callers -> Call \cup {None}]
  BY <1>1, CallFields DEF GroupTypeOK
<1>7. /\ next \in Call /\ next.key = k /\ next.id = id /\ next.chat = ch
      /\ next.step = "reclaim"
  BY <1>0, <1>6 DEF Call, Steps
<1>8. call' = [call EXCEPT ![c] = next]
  BY DEF DropStale, Goto
<1> HIDE DEF next
<1>9. call'[c] = next /\ \A d \in Callers \ {c} : call'[d] = call[d]
  BY <1>6, <1>8
<1>10. call' \in [Callers -> Call \cup {None}]
  BY <1>6, <1>7, <1>8
<1>11. CallOK(c)'
  BY <1>1, <1>2, <1>3, <1>4, <1>7, <1>9 DEF CallOK, Executing
<1>12. \A d \in Callers \ {c} : CallOK(d)'
  BY <1>1, <1>5, <1>9, CallStays
<1>13. KeyOK(k)'
  BY <1>1, <1>2 DEF KeyOK, ChatsOf
<1>14. ASSUME NEW j \in Keys \ {k}
       PROVE  KeyOK(j)'
  <2>1. ChatsOf(j)' = ChatsOf(j)
    BY <1>1 DEF ChatsOf
  <2>2. RowsOfKey(j) \subseteq RowsOfKey(j)'
    BY <1>2, <1>4 DEF RowsOfKey
  <2>3. \A d \in Callers : Claims(d, j)' => d # c /\ call'[d] = call[d]
    BY <1>7, <1>9 DEF Claims
  <2>4. \A d \in Callers : Claims(d, j)' =>
           /\ Claims(d, j)
           /\ call'[d].id = call[d].id
           /\ call'[d].step = "reclaim" => call[d].step = "reclaim"
           /\ Unmade(d)' => Unmade(d)
    BY <2>3 DEF Claims, Unmade
  <2>5. QED
    BY <1>1, <2>1, <2>2, <2>4, KeyStays
<1>15. CompletedIsPlaced'
  BY <1>4, <1>5, CompletedRowsStay
<1>16. LostWereMade' /\ NoDeadAnswer'
  BY <1>1 DEF GroupInv, LostWereMade, NoDeadAnswer
<1>17. QED
  BY <1>1, <1>10, <1>11, <1>12, <1>13, <1>14, <1>15, <1>16 DEF CallersMatch, CallersTyped, GroupTypeOK

------------------------------------------------------------------------------
(* Telegram and the operator. *)

\* The supergroup is the first of a key whose chats are all there, and was not
\* there when its caller asked.
LEMMA TelegramCreatesMatches ==
    ASSUME GroupInv, NEW c \in Callers, TelegramCreates(c)
    PROVE  CallersMatch'
<1>0. PICK k \in Keys : k = call[c].key
  BY CallFields DEF GroupInv, TelegramCreates, At
<1>1. /\ GroupTypeOK /\ LostWereMade /\ CallOK(c) /\ KeyOK(k)
      /\ call[c] # None /\ Claims(c, k) /\ Unmade(c)
      /\ UNCHANGED <<lostChats, placed, asked, answer, died>> /\ UNCHANGED storeVars
  BY <1>0 DEF GroupInv, TelegramCreates, At, Claims, Unmade, retryVars
<1>2. PICK ch \in Chats :
          made[ch] = None /\ made' = [made EXCEPT ![ch] = k] /\ call' = [call EXCEPT ![c].chat = ch]
  BY <1>0 DEF TelegramCreates, Fresh
<1>3. made \in [Chats -> Keys \cup {None}] /\ call \in [Callers -> Call \cup {None}] /\ call[c] \in Call
  BY <1>1, CallFields DEF GroupTypeOK
<1>4. \A d \in Chats : made'[d] = IF d = ch THEN k ELSE made[d]
  BY <1>2, <1>3
<1>5. RowsKept /\ UNCHANGED <<ops, LiveOps, usedIds>>
  BY <1>1, UnchangedRowsKept DEF RowsKept
<1>6. WorldGrows
  BY <1>1, <1>2, <1>4, <1>5 DEF WorldGrows, RowsKept
<1> DEFINE next == [call[c] EXCEPT !.chat = ch]
<1>7. /\ next \in Call /\ next.key = k /\ next.id = call[c].id /\ next.chat = ch
      /\ next.step = "create"
  BY <1>0, <1>1, <1>3 DEF Call, Unmade
<1>8. call' = [call EXCEPT ![c] = next]
  BY <1>2
<1> HIDE DEF next
<1>9. call'[c] = next /\ \A d \in Callers \ {c} : call'[d] = call[d]
  BY <1>3, <1>8
<1>10. call' \in [Callers -> Call \cup {None}]
  BY <1>3, <1>7, <1>8
<1>11. ch \notin asked[c] /\ ch \notin lostChats /\ ch # None
  BY <1>1, <1>2, NoneAssumption, GroupAssumption DEF LostWereMade
<1>12. CallOK(c)'
  BY <1>0, <1>1, <1>4, <1>5, <1>7, <1>9, <1>11 DEF CallOK, Executing, Steps
<1>13. \A d \in Callers \ {c} : CallOK(d)'
  BY <1>1, <1>6, <1>9, CallStays
<1>14. \A j \in Keys \ {k} : ChatsOf(j)' = ChatsOf(j)
  BY <1>2, <1>4, GroupAssumption DEF ChatsOf
<1>15. ChatsOf(k)' = ChatsOf(k) \cup {ch}
  BY <1>4 DEF ChatsOf
<1>16. ASSUME NEW j \in Keys \ {k}
       PROVE  KeyOK(j)'
  <2>1. RowsOfKey(j)' = RowsOfKey(j)
    BY <1>5, KeptRowsOfKeys
  <2>2. \A d \in Callers : Claims(d, j)' => d # c /\ call'[d] = call[d]
    BY <1>7, <1>9 DEF Claims
  <2>3. \A d \in Callers : Claims(d, j)' =>
           /\ Claims(d, j)
           /\ call'[d].id = call[d].id
           /\ call'[d].step = "reclaim" => call[d].step = "reclaim"
           /\ Unmade(d)' => Unmade(d)
    BY <2>2 DEF Claims, Unmade
  <2>4. QED
    BY <1>1, <1>14, <2>1, <2>3, KeyStays
<1>17. KeyOK(k)'
  <2> SUFFICES ASSUME (ChatsOf(k) \cap lostChats)' = {}
               PROVE  /\ \A a, b \in ChatsOf(k)' : a = b
                      /\ RowsOfKey(k)' # {}
                      /\ \A d \in Callers : Claims(d, k)' =>
                            /\ call'[d].step # "reclaim"
                            /\ call'[d].id \in RowsOfKey(k)'
                            /\ ~Unmade(d)'
                      /\ \A d, e \in Callers : Claims(d, k)' /\ Claims(e, k)' => d = e
    BY DEF KeyOK
  <2>1. ChatsOf(k) \cap lostChats = {}
    BY <1>1, <1>15
  <2>2. /\ ChatsOf(k) = {} /\ call[c].id \in RowsOfKey(k)
        /\ \A d \in Callers : Claims(d, k) => d = c
    BY <1>1, <2>1 DEF KeyOK
  <2>3. RowsOfKey(k)' = RowsOfKey(k)
    BY <1>5, KeptRowsOfKeys
  <2>4. \A d \in Callers : Claims(d, k)' => d = c
    BY <1>9, <2>2 DEF Claims
  <2>5. ~Unmade(c)' /\ call'[c].step # "reclaim" /\ call'[c].id \in RowsOfKey(k)'
    BY <1>7, <1>9, <1>11, <2>2, <2>3 DEF Unmade
  <2>6. QED
    BY <1>15, <2>2, <2>3, <2>4, <2>5
<1>18. CompletedIsPlaced'
  BY <1>5, <1>6, CompletedRowsStay
<1>19. LostWereMade' /\ NoDeadAnswer' /\ made' \in [Chats -> Keys \cup {None}]
  <2>1. made' \in [Chats -> Keys \cup {None}]
    BY <1>2, <1>3
  <2>2. lostChats \subseteq Chats /\ \A d \in lostChats : made'[d] # None
    BY <1>1, <1>4, GroupAssumption DEF LostWereMade, GroupTypeOK
  <2>3. QED
    BY <1>1, <2>1, <2>2 DEF GroupInv, LostWereMade, NoDeadAnswer
<1>20. \A j \in Keys : KeyOK(j)'
  BY <1>16, <1>17
<1>21. QED
  BY <1>1, <1>10, <1>12, <1>13, <1>18, <1>19, <1>20 DEF CallersMatch, CallersTyped, GroupTypeOK

\* A loss, and what the operator does, leave the callers where they are.
LEMMA AroundMatches ==
    ASSUME GroupInv,
           \/ \E ch \in Chats : ChatLost(ch)
           \/ RetryNext /\ UNCHANGED <<call, made, lostChats, placed, asked, answer, died>>
           \/ UNCHANGED groupVars
    PROVE  CallersMatch'
<1>1. /\ GroupTypeOK /\ LostWereMade
      /\ UNCHANGED <<call, made, placed, asked, answer, died>>
      /\ lostChats \subseteq lostChats' /\ lostChats' \in SUBSET Chats
      /\ \A ch \in lostChats' : made[ch] # None
  BY DEF GroupInv, GroupTypeOK, LostWereMade, ChatLost, groupVars
<1>2. /\ RowsKept
      /\ \A i \in LiveOps : ops'[i].status = "completed" =>
            ops[i].status = "completed" /\ ops'[i].result = ops[i].result
  <2>1. CASE UNCHANGED storeVars
    BY <2>1, UnchangedRowsKept
  <2>2. CASE UNCHANGED <<ops, usedIds>>
    BY <2>2 DEF RowsKept, LiveOps
  <2>3. ASSUME NEW o \in Operators, RetryOperation(o)
        PROVE  /\ RowsKept
               /\ \A i \in LiveOps : ops'[i].status = "completed" =>
                     ops[i].status = "completed" /\ ops'[i].result = ops[i].result
    <3>1. PICK id \in OpIds : ResetOperation(id)
      BY <1>1, <2>3 DEF RetryOperation, GroupTypeOK, RetryTypeOK, Retry
    <3>2. ops \in [OpIds -> OpRow \cup {None}]
      BY <1>1 DEF GroupTypeOK, StoreTypeOK
    <3>3. CASE ops[id] # None /\ ops[id].status \in {"failed", "needs_review"}
      <4> DEFINE row == Reopened(ops[id])
      <4>1. ops[id] \in OpRow
        BY <3>2, <3>3
      <4>2. row \in OpRow /\ row.key = ops[id].key /\ row.status = "pending"
        BY <3>3, <4>1 DEF Reopened, OpRow, Status
      <4>3. row # None
        BY <4>2, NoneAssumption
      <4>4. ops' = [ops EXCEPT ![id] = row] /\ UNCHANGED usedIds
        BY <3>1, <3>3 DEF ResetOperation
      <4> HIDE DEF row
      <4>5. \A i \in OpIds : ops'[i] = IF i = id THEN row ELSE ops[i]
        BY <3>2, <4>4
      <4>6. QED
        BY <3>3, <4>2, <4>3, <4>4, <4>5 DEF RowsKept, LiveOps
    <3>4. CASE ~(ops[id] # None /\ ops[id].status \in {"failed", "needs_review"})
      BY <2>2, <3>1, <3>4 DEF ResetOperation, RowsKept, LiveOps
    <3>5. QED
      BY <3>3, <3>4
  <2>4. QED
    BY <2>1, <2>2, <2>3 DEF RetryNext, LookAtOperation, RetryItems, ResetItems, OperatorStops,
                            ChatLost, groupVars, retryVars
<1>3. WorldGrows
  BY <1>1, <1>2, KeptRowsGrow
<1>4. \A d \in Callers : CallOK(d)'
  BY <1>1, <1>3, CallStays
<1>5. ASSUME NEW k \in Keys
      PROVE  KeyOK(k)'
  <2>1. ChatsOf(k)' = ChatsOf(k) /\ RowsOfKey(k)' = RowsOfKey(k)
    BY <1>1, <1>2, KeptRowsOfKeys DEF ChatsOf
  <2>2. \A d \in Callers : Claims(d, k)' =>
           /\ Claims(d, k)
           /\ call'[d].id = call[d].id
           /\ call'[d].step = "reclaim" => call[d].step = "reclaim"
           /\ Unmade(d)' => Unmade(d)
    BY <1>1 DEF Claims, Unmade
  <2>3. QED
    BY <1>1, <2>1, <2>2, KeyStays
<1>6. CompletedIsPlaced'
  BY <1>2, <1>3, CompletedRowsStay DEF RowsKept
<1>7. LostWereMade' /\ NoDeadAnswer'
  BY <1>1 DEF GroupInv, LostWereMade, NoDeadAnswer
<1>8. QED
  BY <1>1, <1>4, <1>5, <1>6, <1>7 DEF CallersMatch, CallersTyped, GroupTypeOK

------------------------------------------------------------------------------
(* The invariant and what follows from it. *)

LEMMA GroupInitInv == GroupInit => GroupInv
<1> SUFFICES ASSUME GroupInit
             PROVE  GroupInv
  OBVIOUS
<1>1. StoreInv /\ LiveOps = {}
  BY InitInv DEF GroupInit, StoreInit, LiveOps
<1>2. GroupTypeOK
  BY <1>1 DEF GroupInit, RetryInit, GroupTypeOK, RetryTypeOK, StoreInv
<1>3. LostWereMade /\ NoDeadAnswer /\ CompletedIsPlaced /\ \A c \in Callers : CallOK(c)
  BY <1>1 DEF GroupInit, LostWereMade, NoDeadAnswer, CompletedIsPlaced, CallOK
<1>4. \A k \in Keys : KeyOK(k)
  BY GroupAssumption DEF GroupInit, KeyOK, ChatsOf, Claims
<1>5. QED
  BY <1>1, <1>2, <1>3, <1>4 DEF GroupInv

LEMMA GroupStepInv == GroupInv /\ [GroupNext]_groupVars => GroupInv'
<1> SUFFICES ASSUME GroupInv, [GroupNext]_groupVars
             PROVE  GroupInv'
  OBVIOUS
<1>1. StoreInv' /\ StoreTypeOK'
  <2>1. [StoreNext]_storeVars
    BY GroupStepIsStoreStep DEF GroupInv
  <2>2. QED
    BY <2>1, StepInv DEF GroupInv, StoreInv
<1>2. RetryTypeOK'
  <2>1. UNCHANGED operator \/ RetryNext
    BY DEF GroupNext, CreateGroup, Proceed, ChatExists, DropStale, Reclaim, SupergroupCreated,
           Populated, AddedToFolder, Finish, FolderFails, FloodWait, CreateFails, CheckFails,
           TelegramCreates, Crash, ChatLost, groupVars, retryVars
  <2>2. QED
    BY <2>1, OperatorTyped DEF GroupInv, GroupTypeOK, RetryTypeOK
<1>3. CallersMatch'
  <2>1. ASSUME NEW c \in Callers, Proceed(c)
        PROVE  CallersMatch'
    BY <2>1, EndMatches, DropStaleMatches, ReclaimMatches, ExecutionMatches, VerdictMatches
       DEF Proceed
  <2>2. QED
    BY <2>1, CreateGroupMatches, EndMatches, TelegramCreatesMatches, AroundMatches DEF GroupNext
<1>4. GroupTypeOK'
  BY <1>1, <1>2, <1>3 DEF GroupTypeOK, CallersMatch, CallersTyped
<1>5. QED
  BY <1>1, <1>3, <1>4 DEF GroupInv, CallersMatch

THEOREM GroupInvariant == GroupSpec => []GroupInv
<1>1. GroupSpec => GroupInit /\ [][GroupNext]_groupVars
  BY DEF GroupSpec
<1>2. QED
  BY <1>1, GroupInitInv, GroupStepInv, PTL

\* The variables keep their types.
THEOREM GroupIsTyped == GroupSpec => []GroupTypeOK
<1>1. GroupInv => GroupTypeOK
  BY DEF GroupInv
<1>2. QED
  BY <1>1, GroupInvariant, PTL

\* create_group writes the tables by the store's methods alone, the drop of a
\* lost chat's operation included.
THEOREM GroupUsesStore == GroupSpec => UsesStore
<1>1. GroupSpec => GroupInit /\ [][GroupNext]_groupVars
  BY DEF GroupSpec
<1>2. GroupInit => StoreInit
  BY DEF GroupInit
<1>3. GroupInv /\ [GroupNext]_groupVars => [StoreNext]_storeVars
  BY GroupStepIsStoreStep DEF GroupInv
<1>4. QED
  BY <1>1, <1>2, <1>3, GroupInvariant, PTL DEF UsesStore, StoreSpec

\* While no chat of a key is lost, calls, retries and crashes make one of it.
THEOREM OneGroupPerKey == GroupSpec => []OneGroupUntilLost
<1>1. ASSUME GroupInv, NEW k \in Keys, ChatsOf(k) \cap lostChats = {}
      PROVE  Cardinality(ChatsOf(k)) <= 1
  <2>1. \A a, b \in ChatsOf(k) : a = b
    BY <1>1 DEF GroupInv, KeyOK
  <2>2. CASE ChatsOf(k) = {}
    BY <2>2, FS_EmptySet
  <2>3. CASE ChatsOf(k) # {}
    <3>1. PICK ch : ChatsOf(k) = {ch}
      BY <2>1, <2>3
    <3>2. Cardinality({ch}) = 1
      BY FS_Singleton, Zenon
    <3>3. QED
      BY <3>1, <3>2
  <2>4. QED
    BY <2>2, <2>3
<1>2. GroupInv => OneGroupUntilLost
  BY <1>1 DEF OneGroupUntilLost
<1>3. QED
  BY <1>2, GroupInvariant, PTL

\* No caller is given a chat that was lost before it asked.
THEOREM NoDeadChatIsAnswered == GroupSpec => []NoDeadAnswer
<1>1. GroupInv => NoDeadAnswer
  BY DEF GroupInv
<1>2. QED
  BY <1>1, GroupInvariant, PTL

\* A completed operation's chat was made for its key, and is in the folder.
THEOREM CompletedGroupsArePlaced == GroupSpec => []CompletedIsPlaced
<1>1. GroupInv => CompletedIsPlaced
  BY DEF GroupInv
<1>2. QED
  BY <1>1, GroupInvariant, PTL
==============================================================================
