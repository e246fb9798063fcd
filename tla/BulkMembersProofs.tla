--------------------------- MODULE BulkMembersProofs ---------------------------
(***************************************************************************)
(* Proofs about bulk_add_members and bulk_remove_members for any number of *)
(* requests, operators, operations and users, with lists of any length,    *)
(* and any of the requests at work on one bulk at once.                    *)
(*                                                                         *)
(* What the properties rest on: a handler's request is recorded with the   *)
(* operation before Telegram sees it; as long as no two requests shared a  *)
(* bulk, the one that works on it finds its items as it left them.         *)
(***************************************************************************)
EXTENDS BulkMembers, WorkerQueueProofs, FiniteSetTheorems

Done(id, u) == items[id][u] # None /\ items[id][u].status = "completed"
Verdict(row) == IF row.result.status = "privacy" THEN "privacy" ELSE "done"

(* What a request relies on between its steps. *)

JobFits(r) ==
    /\ job[r] # None <=> run[r] # None
    /\ run[r] # None => /\ Len(job[r].as) = Len(run[r].list)
                        /\ job[r].as \in Seq(IF Adding(r) THEN Roles ELSE Modes)

\* A handler at work waits for Telegram, and is known to have been run with its
\* role or mode; once it has lifted its ban, the ban does not hold.
AskFits(r) ==
    /\ ask[r] # None <=> Working(r, "handler")
    /\ Working(r, "handler") \/ Working(r, "pause") => As(r) \in asked[run[r].id][Item(r)]
    /\ ask[r] # None /\ ask[r].step = "second" /\ ask[r].reply \in {"ok", "gone"}
          /\ ~Adding(r) /\ run[r].id \notin shared
       => bannedBy[Item(r)] # run[r].id

\* A completed row that the loop got back is completed still, and the same row
\* unless others write it too.
RecFits(r) ==
    run[r] # None => \A u \in ItemKeys :
        job[r].rec[u] # None /\ job[r].rec[u].status = "completed" =>
            /\ Done(run[r].id, u)
            /\ run[r].id \notin shared => job[r].rec[u] = items[run[r].id][u]

AloneFits(r) ==
    run[r] # None /\ run[r].id \notin shared =>
        /\ \A s \in Runs \ {r} : run[s] = None \/ run[s].id # run[r].id
        /\ run[r].step # "next" => items[run[r].id][Item(r)].status = "pending"

RunFits(r) == JobFits(r) /\ AskFits(r) /\ RecFits(r) /\ AloneFits(r)

(* What holds of an item. *)

ResultFits(id, u) ==
    Done(id, u) =>
        IF ops[id].type = AddType
        THEN asked[id][u] = {"admin"} =>
                items[id][u].result.promoted \/ items[id][u].result.status = "privacy"
        ELSE items[id][u].result.status # "privacy"

BanFits(id, u) ==
    bannedBy[u] = id =>
        /\ items[id][u] # None /\ ops[id].type # AddType
        /\ id \notin shared /\ Done(id, u) =>
              items[id][u].result.mode = "ban" \/ items[id][u].result.status = "not_present"

ToldFits(id, u) ==
    id \notin shared /\ told[id][u] # {} =>
        Done(id, u) /\ told[id][u] = {Verdict(items[id][u])}

ItemFits(id, u) == ResultFits(id, u) /\ BanFits(id, u) /\ ToldFits(id, u)

KeysFit == \A id \in LiveOps : ops[id].type = TypeOf[ops[id].key]

MembersTyped ==
    /\ job \in [Runs -> Job \cup {None}]
    /\ ask \in [Runs -> Ask \cup {None}]
    /\ member \in [ItemKeys -> {"absent", "member", "admin"}]
    /\ bannedBy \in [ItemKeys -> OpIds \cup {None}]
    /\ asked \in [OpIds -> [ItemKeys -> SUBSET (Roles \cup Modes)]]
    /\ told \in [OpIds -> [ItemKeys -> SUBSET {"done", "privacy"}]]
    /\ shared \in SUBSET OpIds
    /\ deaths \in 0..MaxDeaths

MembersInv ==
    /\ QueueInv
    /\ MembersTyped
    /\ KeysFit
    /\ \A r \in Runs : RunFits(r)
    /\ \A id \in OpIds, u \in ItemKeys : ItemFits(id, u)

------------------------------------------------------------------------------
(* Steps that leave a run, or an item, as it was. *)

\* A step leaves what is pending or completed of an item, and completes nothing.
Calm(id, u) ==
    /\ items[id][u] # None /\ items[id][u].status \in {"pending", "completed"} =>
          items'[id][u] = items[id][u]
    /\ Done(id, u)' => items'[id][u] = items[id][u]

\* Nothing that was noted is taken back.
Noted ==
    /\ RowsStay
    /\ shared \subseteq shared'
    /\ \A id \in OpIds, u \in ItemKeys : asked[id][u] \subseteq asked'[id][u]

LEMMA RunStays ==
    ASSUME MembersInv, Noted, NEW s \in Runs,
           run'[s] = run[s], job'[s] = job[s], ask'[s] = ask[s],
           run[s] # None /\ run[s].id \notin shared' =>
               /\ \A q \in Runs \ {s} : run'[q] = None \/ run'[q].id # run[s].id
               /\ \A u \in ItemKeys : /\ Calm(run[s].id, u)
                                      /\ bannedBy'[u] = run[s].id => bannedBy[u] = run[s].id
    PROVE  RunFits(s)'
<1>1. RunFits(s) /\ QueueInv
  BY DEF MembersInv
<1>2. CASE run[s] = None
  <2>1. run'[s] = None /\ job'[s] = None /\ ask'[s] = None
    BY <1>1, <1>2 DEF RunFits, JobFits, AskFits, Working
  <2>2. QED
    BY <2>1 DEF RunFits, JobFits, AskFits, RecFits, AloneFits, Working
<1>3. CASE run[s] # None
  <2>1. PICK v : v = run[s]
    OBVIOUS
  <2>2. PICK j : j = job[s]
    OBVIOUS
  <2>3. /\ v # None /\ v.id \in OpIds /\ v.id \in LiveOps
        /\ run'[s] = v /\ job'[s] = j
        /\ v.step # "next" => Head(v.todo) \in ItemKeys /\ items[v.id][Head(v.todo)] # None
    BY <1>1, <1>3, <2>1, <2>2, RunFields, ListElements DEF QueueInv, RunOK, Item
  <2>4. ops'[v.id].type = ops[v.id].type
    BY <2>3 DEF Noted, RowsStay
  <2>5. JobFits(s)'
    BY <1>1, <2>1, <2>2, <2>3, <2>4 DEF RunFits, JobFits, Adding
  <2>6. AskFits(s)'
    <3>1. (ask[s] # None <=> Working(s, "handler"))'
      BY <1>1 DEF RunFits, AskFits, Working
    <3>2. (Working(s, "handler") \/ Working(s, "pause") => As(s) \in asked[run[s].id][Item(s)])'
      BY <1>1, <2>1, <2>2, <2>3 DEF RunFits, AskFits, Working, As, Item, Noted
    <3>3. ASSUME ask[s] # None, ask[s].step = "second", ask[s].reply \in {"ok", "gone"},
                 ops'[v.id].type # AddType, v.id \notin shared'
          PROVE  bannedBy'[Head(v.todo)] # v.id
      <4>1. v.step = "handler" /\ v.id \notin shared
        BY <1>1, <2>1, <3>3 DEF RunFits, AskFits, Working, Noted
      <4>2. bannedBy[Head(v.todo)] # v.id
        BY <1>1, <2>1, <2>4, <3>3, <4>1 DEF RunFits, AskFits, Adding, Item
      <4>3. QED
        BY <2>1, <2>3, <3>3, <4>1, <4>2
    <3>4. QED
      BY <2>1, <2>3, <3>1, <3>2, <3>3 DEF AskFits, Adding, Item
  <2>7. RecFits(s)'
    <3>1. ASSUME NEW u \in ItemKeys, j.rec[u] # None, j.rec[u].status = "completed"
          PROVE  /\ Done(v.id, u)'
                 /\ v.id \notin shared' => j.rec[u] = items'[v.id][u]
      <4>1. /\ Done(v.id, u)
            /\ v.id \notin shared => j.rec[u] = items[v.id][u]
        BY <1>1, <1>3, <2>1, <2>2, <3>1 DEF RunFits, RecFits
      <4>2. Done(v.id, u)'
        BY <2>3, <4>1 DEF Done, Noted, RowsStay
      <4>3. ASSUME v.id \notin shared'
            PROVE  j.rec[u] = items'[v.id][u]
        BY <1>3, <2>1, <4>1, <4>2, <4>3 DEF Calm, Noted
      <4>4. QED
        BY <4>2, <4>3
    <3>2. QED
      BY <2>3, <3>1 DEF RecFits, Done
  <2>8. AloneFits(s)'
    <3>1. ASSUME v.id \notin shared', v.step # "next"
          PROVE  items'[v.id][Head(v.todo)].status = "pending"
      <4>1. items[v.id][Head(v.todo)].status = "pending"
        BY <1>1, <1>3, <2>1, <3>1 DEF RunFits, AloneFits, Item, Noted
      <4>2. QED
        BY <1>3, <2>1, <2>3, <3>1, <4>1 DEF Calm
    <3>2. QED
      BY <1>3, <2>1, <2>3, <3>1 DEF AloneFits, Item
  <2>9. QED
    BY <2>5, <2>6, <2>7, <2>8 DEF RunFits
<1>4. QED
  BY <1>2, <1>3

LEMMA ItemStays ==
    ASSUME MembersInv, Noted, NEW id \in OpIds, NEW u \in ItemKeys, Calm(id, u),
           told'[id][u] = told[id][u],
           bannedBy'[u] = id => bannedBy[u] = id,
           Done(id, u)' => asked'[id][u] = asked[id][u]
    PROVE  ItemFits(id, u)'
<1>1. ItemFits(id, u) /\ StoreInv
  BY DEF MembersInv, QueueInv
<1>2. items[id][u] # None => /\ id \in LiveOps /\ ops'[id].type = ops[id].type
                             /\ items'[id][u] # None
  BY <1>1 DEF StoreInv, ItemsHaveParent, LiveOps, Noted, RowsStay
<1>3. ResultFits(id, u)'
  BY <1>1, <1>2 DEF ItemFits, ResultFits, Calm, Done
<1>4. BanFits(id, u)'
  BY <1>1, <1>2 DEF ItemFits, BanFits, Calm, Done, Noted
<1>5. ToldFits(id, u)'
  BY <1>1 DEF ItemFits, ToldFits, Calm, Done, Noted, Verdict
<1>6. QED
  BY <1>3, <1>4, <1>5 DEF ItemFits

LEMMA KeysStay ==
    ASSUME KeysFit, RowsStay, LiveOps' \subseteq LiveOps
    PROVE  KeysFit'
BY DEF KeysFit, RowsStay

LEMMA SameItemsCalm ==
    ASSUME UNCHANGED items, NEW id \in OpIds, NEW u \in ItemKeys
    PROVE  Calm(id, u)
BY DEF Calm

------------------------------------------------------------------------------
(* A step of one request. *)

\* What it leaves to the others: the bulks it does not work on.
Quiet(r) ==
    /\ Noted
    /\ \A s \in Runs \ {r} : run'[s] = run[s] /\ job'[s] = job[s] /\ ask'[s] = ask[s]
    /\ \A id \in OpIds, u \in ItemKeys :
          run[r] = None \/ run[r].id # id =>
              Calm(id, u) /\ (bannedBy'[u] = id => bannedBy[u] = id)
    /\ run'[r] # None =>
          \/ run[r] # None /\ run'[r].id = run[r].id
          \/ run'[r].id \in shared'
          \/ \A s \in Runs \ {r} : run[s] = None \/ run[s].id # run'[r].id

LEMMA OthersFit ==
    ASSUME MembersInv, NEW r \in Runs, Quiet(r), NEW s \in Runs \ {r}
    PROVE  RunFits(s)'
<1>1. run'[s] = run[s] /\ job'[s] = job[s] /\ ask'[s] = ask[s] /\ Noted
  BY DEF Quiet
<1>2. ASSUME run[s] # None, run[s].id \notin shared'
      PROVE  /\ \A q \in Runs \ {s} : run'[q] = None \/ run'[q].id # run[s].id
             /\ \A u \in ItemKeys : /\ Calm(run[s].id, u)
                                    /\ bannedBy'[u] = run[s].id => bannedBy[u] = run[s].id
  <2>1. run[s].id \in OpIds /\ run[s].id \notin shared
    BY <1>1, <1>2, RunFields DEF MembersInv, QueueInv, Noted
  <2>2. \A q \in Runs \ {s} : run[q] = None \/ run[q].id # run[s].id
    BY <1>2, <2>1 DEF MembersInv, RunFits, AloneFits
  <2>3. run'[r] = None \/ run'[r].id # run[s].id
    BY <1>2, <2>2 DEF Quiet
  <2>4. \A q \in Runs \ {s} : run'[q] = None \/ run'[q].id # run[s].id
    BY <2>2, <2>3 DEF Quiet
  <2>5. run[r] = None \/ run[r].id # run[s].id
    BY <2>2
  <2>6. QED
    BY <2>1, <2>4, <2>5 DEF Quiet
<1>3. QED
  BY <1>1, <1>2, RunStays

LEMMA StepFits ==
    ASSUME MembersInv, NEW r \in Runs, Quiet(r), QueueInv', MembersTyped', KeysFit',
           RunFits(r)', \A id \in OpIds, u \in ItemKeys : ItemFits(id, u)'
    PROVE  MembersInv'
BY OthersFit DEF MembersInv

LEMMA AsTyped ==
    ASSUME MembersInv, NEW r \in Runs, run[r] # None, run[r].todo # <<>>
    PROVE  As(r) \in IF Adding(r) THEN Roles ELSE Modes
<1>1. /\ run[r].list \in Seq(ItemKeys) /\ run[r].todo \in Seq(ItemKeys)
      /\ Len(run[r].todo) <= Len(run[r].list)
  BY RunFields DEF MembersInv, QueueInv, RunOK
<1>2. /\ Len(job[r].as) = Len(run[r].list)
      /\ job[r].as \in Seq(IF Adding(r) THEN Roles ELSE Modes)
  BY DEF MembersInv, RunFits, JobFits
<1>3. Len(run[r].list) \in Nat /\ Len(run[r].todo) \in Nat \ {0}
  BY <1>1, LenProperties, EmptySeq
<1>4. Len(run[r].list) - Len(run[r].todo) + 1 \in 1..Len(job[r].as)
  <2>1. \A m \in Nat, n \in Nat \ {0} : n <= m => m - n + 1 \in 1..m
    OBVIOUS
  <2>2. QED
    BY <1>1, <1>2, <1>3, <2>1
<1>5. QED
  BY <1>2, <1>4, ElementOfSeq DEF As

------------------------------------------------------------------------------
(* The request. *)

LEMMA SameRange == \A m, n \in Nat : 1..m = 1..n => m = n
<1> SUFFICES ASSUME NEW m \in Nat, NEW n \in Nat, 1..m = 1..n, m < n
             PROVE  FALSE
  OBVIOUS
<1>1. n \in 1..n /\ n \notin 1..m
  OBVIOUS
<1>2. QED
  BY <1>1

\* The columns of a request's list.
LEMMA Columns ==
    ASSUME NEW B, NEW s \in Seq([user : ItemKeys, as : B])
    PROVE  /\ [i \in DOMAIN s |-> s[i].user] \in Seq(ItemKeys)
           /\ [i \in DOMAIN s |-> s[i].as] \in Seq(B)
           /\ Len([i \in DOMAIN s |-> s[i].as]) = Len([i \in DOMAIN s |-> s[i].user])
<1>1. DOMAIN s = 1..Len(s) /\ Len(s) \in Nat
  BY LenProperties
<1>2. \A i \in 1..Len(s) : s[i] \in [user : ItemKeys, as : B]
  BY ElementOfSeq
<1>3. \A i \in 1..Len(s) : s[i].user \in ItemKeys /\ s[i].as \in B
  BY <1>2
<1>4. PICK users : users = [i \in DOMAIN s |-> s[i].user]
  OBVIOUS
<1>5. PICK as : as = [i \in DOMAIN s |-> s[i].as]
  OBVIOUS
<1>6. users \in Seq(ItemKeys) /\ as \in Seq(B) /\ DOMAIN users = DOMAIN as
  BY <1>1, <1>3, <1>4, <1>5
<1>7. Len(as) = Len(users)
  <2>1. /\ DOMAIN users = 1..Len(users) /\ Len(users) \in Nat
        /\ DOMAIN as = 1..Len(as) /\ Len(as) \in Nat
    BY <1>6, LenProperties
  <2>2. QED
    BY <1>6, <2>1, SameRange
<1>8. QED
  BY <1>4, <1>5, <1>6, <1>7

LEMMA StartBulkFits ==
    ASSUME MembersInv, NEW r \in Runs, NEW k \in Keys,
           NEW body \in Body(IF TypeOf[k] = AddType THEN Roles ELSE Modes),
           NEW id \in OpIds, run[r] = None, StartBulk(r, k, body, id),
           UNCHANGED <<operator, ask, member, bannedBy, asked, deaths>>
    PROVE  MembersInv'
<1> DEFINE B == IF TypeOf[k] = AddType THEN Roles ELSE Modes
           as == [i \in DOMAIN body.items |-> body.items[i].as]
           list == [i \in DOMAIN body.items |-> body.items[i].user]
           new == [as |-> as, existing |-> CompletedItems(id), rec |-> [u \in ItemKeys |-> None]]
<1>1. QueueInv /\ StoreInv /\ MembersTyped /\ KeysFit /\ TypeOf[k] \in Types
  BY MembersAssumption DEF MembersInv, QueueInv
<1>2. /\ list \in Seq(ItemKeys) /\ as \in Seq(B) /\ Len(as) = Len(list)
      /\ body.stop \in BOOLEAN
  <2>1. body.items \in Seq([user : ItemKeys, as : B]) /\ body.stop \in BOOLEAN
    BY DEF Body
  <2>2. QED
    BY <2>1, Columns
<1>3. as \in Seq(Roles \cup Modes)
  BY <1>2, SeqMonotonic
<1>4. new \in Job
  BY <1>3 DEF Job, CompletedItems
<1> HIDE DEF list, as, B
<1>5. /\ BeginOperation(TypeOf[k], k, id) \/ (id \in RowsOfKey(k) /\ UNCHANGED storeVars)
      /\ StartRun(r, id, list, body.stop)
      /\ job' = [job EXCEPT ![r] = new]
      /\ UNCHANGED told
  BY DEF StartBulk, list, as
<1>6. QueueInv' /\ RowsStay /\ id \in LiveOps' /\ UNCHANGED items
  BY <1>1, <1>2, <1>5, BulkStarts
<1>7. /\ run'[r] # None /\ run'[r].id = id /\ run'[r].list = list /\ run'[r].step = "next"
      /\ \A s \in Runs \ {r} : run'[s] = run[s]
  <2>1. id \in LiveOps' /\ QueueTypeOK'
    BY <1>6 DEF QueueInv
  <2>2. run'[r] = [id |-> id, list |-> list, todo |-> list, stop |-> body.stop, step |-> "next",
                   floods |-> 0, records |-> [ik \in ItemKeys |-> None]]
    BY <1>1, <1>5 DEF StartRun, QueueInv, QueueTypeOK
  <2>3. run'[r] \in RunRec
    <3>1. 0 \in 0 .. (MaxFloodWaits - 1)
      BY MaxFloodWaitsAssumption
    <3>2. QED
      BY <1>2, <2>2, <3>1 DEF RunRec, RunSteps
  <2>4. QED
    BY <1>1, <1>2, <1>5, <2>2, <2>3, RecordsAssumption, StartIsNewRun
<1>8. shared \subseteq shared' /\ shared' \in SUBSET OpIds
      /\ (id \in shared' \/ \A s \in Runs \ {r} : run[s] = None \/ run[s].id # id)
  BY <1>1 DEF StartBulk, MembersTyped
<1>9. Noted
  BY <1>6, <1>8 DEF Noted
<1>10. job'[r] = new /\ \A s \in Runs \ {r} : job'[s] = job[s]
  BY <1>1, <1>5 DEF MembersTyped
<1>11. Quiet(r)
  <2>1. \A i \in OpIds, u \in ItemKeys : Calm(i, u) /\ (bannedBy'[u] = i => bannedBy[u] = i)
    BY <1>6, SameItemsCalm
  <2>2. \A s \in Runs \ {r} : run'[s] = run[s] /\ job'[s] = job[s] /\ ask'[s] = ask[s]
    BY <1>7, <1>10
  <2>3. run'[r].id \in shared' \/ \A s \in Runs \ {r} : run[s] = None \/ run[s].id # run'[r].id
    BY <1>7, <1>8
  <2>4. QED
    BY <1>9, <2>1, <2>2, <2>3 DEF Quiet
<1>12. MembersTyped'
  BY <1>1, <1>4, <1>5, <1>8 DEF MembersTyped
<1>13. KeysFit' /\ ops'[id].type = TypeOf[k]
  <2>1. CASE BeginOperation(TypeOf[k], k, id)
    <3>1. \A i \in LiveOps' : i # id => i \in LiveOps /\ ops'[i] = ops[i]
      BY <1>1, <2>1 DEF BeginOperation, LiveOps, StoreInv, StoreTypeOK
    <3>2. ops'[id].type = TypeOf[k] /\ ops'[id].key = k
      BY <1>1, <2>1 DEF BeginOperation, NewOpRow, StoreInv, StoreTypeOK
    <3>3. QED
      BY <1>1, <3>1, <3>2 DEF KeysFit
  <2>2. CASE id \in RowsOfKey(k) /\ UNCHANGED storeVars
    BY <1>1, <2>2 DEF KeysFit, RowsOfKey, storeVars, LiveOps
  <2>3. QED
    BY <1>5, <2>1, <2>2
<1>14. RunFits(r)'
  <2>1. JobFits(r)'
    <3>1. new # None /\ new.as = as
      BY <1>4, MembersAssumption
    <3>2. QED
      BY <1>2, <1>7, <1>10, <1>13, <3>1 DEF JobFits, Adding, B
  <2>2. AskFits(r)'
    <3>1. ask'[r] = None
      BY DEF MembersInv, RunFits, AskFits, Working
    <3>2. QED
      BY <1>7, <3>1 DEF AskFits, Working
  <2>3. RecFits(r)'
    BY <1>10 DEF RecFits
  <2>4. AloneFits(r)'
    BY <1>7, <1>8 DEF AloneFits
  <2>5. QED
    BY <2>1, <2>2, <2>3, <2>4 DEF RunFits
<1>15. \A i \in OpIds, u \in ItemKeys : ItemFits(i, u)'
  BY <1>5, <1>6, <1>9, SameItemsCalm, ItemStays
<1>16. QED
  BY <1>6, <1>11, <1>12, <1>13, <1>14, <1>15, StepFits

\* What an answer claims of an item's row.
LEMMA ClaimOfRow ==
    ASSUME NEW t \in Types, NEW row \in ItemRow \cup {None}, NEW existing \in BOOLEAN
    PROVE  /\ Claim(ItemStatus(t, row, existing)) \in SUBSET {"done", "privacy"}
           /\ Claim(ItemStatus(t, row, existing)) # {} => row # None /\ row.status = "completed"
<1>1. row = None \/ row.status \in Status
  BY DEF ItemRow
<1>2. QED
  BY <1>1 DEF Claim, ItemStatus, AddStatus, RemoveStatus, Status

LEMMA ClaimIsVerdict ==
    ASSUME NEW t \in Types, NEW row \in ItemRow, NEW existing \in BOOLEAN,
           row.status = "completed", row.result \in Results,
           t # AddType => row.result.status # "privacy"
    PROVE  Claim(ItemStatus(t, row, existing)) = {Verdict(row)}
<1>1. row.result.status \notin {"failed", "needs_review", "skipped"}
  BY MembersAssumption DEF AddResult, RemoveResult, CountsResult
<1>2. row # None
  BY NoneAssumption
<1>3. QED
  BY <1>1, <1>2 DEF Claim, ItemStatus, AddStatus, RemoveStatus, Verdict

\* An answer from the rows of a bulk that nobody else writes.
LEMMA AnswerFits ==
    ASSUME MembersInv, NEW id \in OpIds, NEW users \in SUBSET ItemKeys, NEW status,
           DOMAIN status = users, Answer(id, status), id \in LiveOps,
           NEW type \in Types, type = ops[id].type,
           NEW rows \in [ItemKeys -> ItemRow \cup {None}],
           \A u \in users : \E known \in BOOLEAN : status[u] = ItemStatus(type, rows[u], known),
           \A u \in users : rows[u] # None /\ rows[u].status = "completed"
               /\ id \notin shared => rows[u] = items[id][u]
    PROVE  /\ told' \in [OpIds -> [ItemKeys -> SUBSET {"done", "privacy"}]]
           /\ \A i \in OpIds \ {id}, u \in ItemKeys : told'[i][u] = told[i][u]
           /\ \A u \in ItemKeys : id \notin shared /\ told'[id][u] # {} =>
                 Done(id, u) /\ told'[id][u] = {Verdict(items[id][u])}
<1>1. /\ told \in [OpIds -> [ItemKeys -> SUBSET {"done", "privacy"}]]
      /\ \A u \in ItemKeys : ItemFits(id, u)
      /\ StoreInv
  BY DEF MembersInv, MembersTyped, QueueInv
<1>2. \A u \in users : Claim(status[u]) \in SUBSET {"done", "privacy"}
  <2> SUFFICES ASSUME NEW u \in users
               PROVE  Claim(status[u]) \in SUBSET {"done", "privacy"}
    OBVIOUS
  <2>1. PICK known \in BOOLEAN : status[u] = ItemStatus(type, rows[u], known)
    OBVIOUS
  <2>2. rows[u] \in ItemRow \cup {None}
    OBVIOUS
  <2>3. QED
    BY <2>1, <2>2, ClaimOfRow
<1>3. PICK new : new = [u \in ItemKeys |-> IF u \in users THEN told[id][u] \cup Claim(status[u])
                                                        ELSE told[id][u]]
  OBVIOUS
<1>4. told' = [told EXCEPT ![id] = new]
  BY <1>3 DEF Answer
<1>5. new \in [ItemKeys -> SUBSET {"done", "privacy"}]
  BY <1>1, <1>2, <1>3
<1>6. told'[id] = new /\ \A i \in OpIds \ {id} : told'[i] = told[i]
  BY <1>1, <1>4
<1>7. ASSUME NEW u \in ItemKeys, id \notin shared, new[u] # {}
      PROVE  Done(id, u) /\ new[u] = {Verdict(items[id][u])}
  <2>1. told[id][u] # {} => Done(id, u) /\ told[id][u] = {Verdict(items[id][u])}
    BY <1>1, <1>7 DEF ItemFits, ToldFits
  <2>2. CASE u \in users /\ Claim(status[u]) # {}
    <3>1. PICK known \in BOOLEAN :
             status[u] = ItemStatus(type, rows[u], known) /\ rows[u] \in ItemRow \cup {None}
      BY <2>2
    <3>2. rows[u] # None /\ rows[u].status = "completed"
      BY <2>2, <3>1, ClaimOfRow
    <3>3. rows[u] = items[id][u] /\ Done(id, u) /\ rows[u] \in ItemRow
      BY <1>7, <2>2, <3>1, <3>2 DEF Done
    <3>4. rows[u].result \in Results
      <4>1. Consistent(items[id][u])
        BY <1>1, <3>3 DEF StoreInv, PayloadMatchesStatus, Done
      <4>2. QED
        BY <3>2, <3>3, <4>1 DEF Consistent, ItemRow
    <3>5. type # AddType => rows[u].result.status # "privacy"
      BY <1>1, <3>3 DEF ItemFits, ResultFits
    <3>6. Claim(status[u]) = {Verdict(rows[u])}
      BY <3>1, <3>2, <3>3, <3>4, <3>5, ClaimIsVerdict
    <3>7. QED
      BY <1>3, <2>1, <2>2, <3>3, <3>6
  <2>3. CASE ~(u \in users /\ Claim(status[u]) # {})
    <3>1. new[u] = told[id][u]
      BY <1>3, <2>3
    <3>2. QED
      BY <1>7, <2>1, <3>1
  <2>4. QED
    BY <2>2, <2>3
<1>8. QED
  BY <1>1, <1>4, <1>5, <1>6, <1>7

LEMMA ReplayBulkFits ==
    ASSUME MembersInv, NEW r \in Runs, NEW k \in Keys, NEW B,
           NEW body \in Body(B), NEW id \in OpIds, ReplayBulk(k, body, id),
           UNCHANGED <<operator, ask, member, bannedBy, asked, deaths>>
    PROVE  MembersInv'
<1>1. /\ QueueInv /\ StoreInv /\ MembersTyped /\ KeysFit
      /\ UNCHANGED <<storeVars, run, job, shared>>
      /\ id \in LiveOps /\ ops[id].key = k
  BY DEF MembersInv, QueueInv, ReplayBulk, RowsOfKey
<1>2. UNCHANGED <<ops, items>>
  BY <1>1 DEF storeVars
<1>3. RowsStay /\ Noted
  BY <1>1, UnchangedRowsStay DEF Noted
<1>4. QueueInv'
  BY <1>1, <1>3, LoopsKept, QueueInvFrom, OperatorStays DEF QueueInv
<1>5. UsersOf(body.items) \subseteq ItemKeys
  <2>1. body.items \in Seq([user : ItemKeys, as : B])
    BY DEF Body
  <2>2. \A i \in DOMAIN body.items : body.items[i] \in [user : ItemKeys, as : B]
    BY <2>1, LenProperties
  <2>3. QED
    BY <2>2 DEF UsersOf
<1>6. PICK status : status = [u \in UsersOf(body.items) |-> ItemStatus(TypeOf[k], Row(id, u), TRUE)]
  OBVIOUS
<1>7. /\ Answer(id, status) /\ DOMAIN status = UsersOf(body.items)
      /\ \A u \in UsersOf(body.items) : status[u] = ItemStatus(TypeOf[k], items[id][u], TRUE)
  BY <1>6 DEF ReplayBulk, Row
<1>8. items[id] \in [ItemKeys -> ItemRow \cup {None}]
  BY <1>1 DEF StoreInv, StoreTypeOK
<1>9. TypeOf[k] \in Types /\ TypeOf[k] = ops[id].type
  BY <1>1, MembersAssumption DEF KeysFit
<1>10. /\ told' \in [OpIds -> [ItemKeys -> SUBSET {"done", "privacy"}]]
       /\ \A i \in OpIds \ {id}, u \in ItemKeys : told'[i][u] = told[i][u]
       /\ \A u \in ItemKeys : id \notin shared /\ told'[id][u] # {} =>
             Done(id, u) /\ told'[id][u] = {Verdict(items[id][u])}
  <2>1. PICK rows \in [ItemKeys -> ItemRow \cup {None}] : rows = items[id]
    BY <1>8
  <2>2. PICK users \in SUBSET ItemKeys : users = UsersOf(body.items)
    BY <1>5
  <2>3. \A u \in users : \E known \in BOOLEAN : status[u] = ItemStatus(TypeOf[k], rows[u], known)
    BY <1>7, <2>1, <2>2
  <2>4. \A u \in users : rows[u] # None /\ rows[u].status = "completed"
            /\ id \notin shared => rows[u] = items[id][u]
    BY <2>1
  <2>5. QED
    BY <1>1, <1>7, <1>9, <2>2, <2>3, <2>4, AnswerFits
<1>11. MembersTyped'
  BY <1>1, <1>10 DEF MembersTyped
<1>12. KeysFit'
  BY <1>1, <1>2 DEF KeysFit, LiveOps
<1>13. \A s \in Runs : RunFits(s)'
  <2> SUFFICES ASSUME NEW s \in Runs
               PROVE  RunFits(s)'
    OBVIOUS
  <2>1. run[s] # None /\ run[s].id \notin shared' =>
            /\ \A q \in Runs \ {s} : run'[q] = None \/ run'[q].id # run[s].id
            /\ \A u \in ItemKeys : /\ Calm(run[s].id, u)
                                   /\ bannedBy'[u] = run[s].id => bannedBy[u] = run[s].id
    BY <1>1, <1>2 DEF MembersInv, RunFits, AloneFits, Calm
  <2>2. QED
    BY <1>1, <1>3, <2>1, RunStays
<1>14. ASSUME NEW i \in OpIds, NEW u \in ItemKeys
       PROVE  ItemFits(i, u)'
  <2>1. CASE i # id
    BY <1>2, <1>3, <1>10, <2>1, SameItemsCalm, ItemStays
  <2>2. CASE i = id
    <3>1. ItemFits(i, u)
      BY DEF MembersInv
    <3>2. ToldFits(i, u)'
      BY <1>1, <1>2, <1>10, <2>2 DEF ToldFits, Done
    <3>3. QED
      BY <1>1, <1>2, <3>1, <3>2 DEF ItemFits, ResultFits, BanFits, Done
  <2>3. QED
    BY <2>1, <2>2
<1>15. QED
  BY <1>4, <1>11, <1>12, <1>13, <1>14 DEF MembersInv

LEMMA ServeFits ==
    ASSUME MembersInv, NEW r \in Runs, Request(r)
    PROVE  MembersInv'
<1>1. PICK k \in Keys : BulkAddMembers(r, k) \/ BulkRemoveMembers(r, k)
  BY MembersAssumption DEF Request
<1>2. PICK body \in Body(IF TypeOf[k] = AddType THEN Roles ELSE Modes) : Serve(r, k, body)
  BY <1>1, MembersAssumption DEF BulkAddMembers, BulkRemoveMembers, AddType, RemoveType
<1>3. PICK id \in OpIds : StartBulk(r, k, body, id) \/ ReplayBulk(k, body, id)
  BY <1>2 DEF Serve
<1>4. run[r] = None /\ UNCHANGED <<operator, ask, member, bannedBy, asked, deaths>>
  BY <1>2 DEF Serve
<1>5. QED
  BY <1>3, <1>4, StartBulkFits, ReplayBulkFits

------------------------------------------------------------------------------
(* The end of a request. *)

\* A transition begins no operation.
LEMMA TransitionBeginsNone ==
    ASSUME StoreInv, NEW id \in OpIds, NEW s, NEW res, NEW err, Transition(id, s, res, err)
    PROVE  LiveOps' \subseteq LiveOps
<1>1. ops \in [OpIds -> OpRow \cup {None}]
  BY DEF StoreInv, StoreTypeOK
<1>2. \A i \in OpIds : ops[i] = None => ops'[i] = None
  BY <1>1 DEF Transition
<1>3. QED
  BY <1>2 DEF LiveOps

\* A request that is gone.
LEMMA EndedFits ==
    ASSUME NEW r \in Runs, run'[r] = None, job'[r] = None, ask'[r] = None
    PROVE  RunFits(r)'
BY DEF RunFits, JobFits, AskFits, RecFits, AloneFits, Working

LEMMA ReportedFields ==
    ASSUME MembersInv, NEW r \in Runs, run[r] # None
    PROVE  /\ job[r] \in Job /\ run[r].id \in LiveOps /\ run[r].id \in OpIds
           /\ ops[run[r].id].type \in Types
           /\ job[r].rec \in [ItemKeys -> ItemRow \cup {None}]
           /\ Asked(r) \subseteq ItemKeys
           /\ \A u \in ItemKeys : job[r].rec[u] # None /\ job[r].rec[u].status = "completed" =>
                 /\ Done(run[r].id, u)
                 /\ run[r].id \notin shared => job[r].rec[u] = items[run[r].id][u]
<1>1. QueueInv /\ StoreInv /\ MembersTyped /\ JobFits(r) /\ RecFits(r)
  BY DEF MembersInv, QueueInv, RunFits
<1>2. job[r] \in Job /\ run[r].id \in LiveOps /\ run[r].id \in OpIds
      /\ run[r].list \in Seq(ItemKeys)
  BY <1>1, RunFields DEF QueueInv, RunOK, JobFits, MembersTyped
<1>3. ops[run[r].id] \in OpRow
  BY <1>1, <1>2 DEF LiveOps, StoreInv, StoreTypeOK
<1>4. Asked(r) \subseteq ItemKeys
  BY <1>2, LenProperties DEF Asked
<1>5. QED
  BY <1>1, <1>2, <1>3, <1>4 DEF OpRow, Job, RecFits

LEMMA FinishBulkFits ==
    ASSUME MembersInv, NEW r \in Runs, FinishBulk(r)
    PROVE  KeepingNext /\ MembersInv'
<1> DEFINE id == run[r].id
<1>1. /\ QueueInv /\ StoreInv /\ MembersTyped /\ KeysFit
      /\ UNCHANGED <<operator, ask, member, bannedBy, asked, shared, deaths>>
      /\ run[r] # None /\ id \in OpIds /\ id \in LiveOps
  BY DoneRun DEF MembersInv, QueueInv, FinishBulk
<1>2. PICK s \in {"completed", "needs_review"},
           res \in Results \cup {None}, err \in Errors \cup {None} :
         Payload(s, res, err) /\ Transition(id, s, res, err)
  <2>1. /\ [status |-> "counts"] \in Results /\ "failed" \in Errors
        /\ Payload("completed", [status |-> "counts"], None)
        /\ Payload("needs_review", None, "failed")
    BY MembersAssumption DEF CountsResult, ErrorTexts, Payload
  <2>2. QED
    BY <2>1 DEF FinishBulk
<1>3. KeepingNext /\ UNCHANGED items /\ LiveOps' \subseteq LiveOps
  BY <1>1, <1>2, TransitionBeginsNone DEF KeepingNext, Transition, TerminalStatus, Status
<1>4. RowsStay /\ Noted
  BY <1>1, <1>3, KeepingRowsStay DEF Noted
<1>5. /\ EndRun(r) /\ run' = [run EXCEPT ![r] = None]
      /\ job' = [job EXCEPT ![r] = None]
  BY DEF FinishBulk, EndRun
<1>6. QueueTypeOK' /\ \A q \in Runs : RunOK(q)'
  BY <1>1, <1>4, <1>5, LoopEnds DEF QueueInv
<1>7. QueueInv'
  BY <1>1, <1>3, <1>6, QueueInvFrom, OperatorStays DEF QueueInv
<1>8. /\ run'[r] = None /\ job'[r] = None
      /\ \A q \in Runs \ {r} : run'[q] = run[q] /\ job'[q] = job[q]
  BY <1>1, <1>5 DEF QueueInv, QueueTypeOK, MembersTyped
<1>9. ask'[r] = None
  BY <1>1 DEF FinishBulk, LoopDone, Working, MembersInv, RunFits, AskFits
<1>10. PICK status : status = [u \in Asked(r) |-> Reported(r, u)]
  OBVIOUS
<1>11. /\ Answer(id, status) /\ DOMAIN status = Asked(r)
       /\ \A u \in Asked(r) : status[u] =
              ItemStatus(ops[id].type, job[r].rec[u], u \in job[r].existing)
  BY <1>10 DEF FinishBulk, Reported
<1>12. \A u \in Asked(r) : \E known \in BOOLEAN :
           status[u] = ItemStatus(ops[id].type, job[r].rec[u], known)
  <2> SUFFICES ASSUME NEW u \in Asked(r)
               PROVE  \E known \in BOOLEAN :
                          status[u] = ItemStatus(ops[id].type, job[r].rec[u], known)
    OBVIOUS
  <2> WITNESS (u \in job[r].existing) \in BOOLEAN
  <2> QED
    BY <1>11
<1>13. /\ told' \in [OpIds -> [ItemKeys -> SUBSET {"done", "privacy"}]]
       /\ \A i \in OpIds \ {id}, u \in ItemKeys : told'[i][u] = told[i][u]
       /\ \A u \in ItemKeys : id \notin shared /\ told'[id][u] # {} =>
             Done(id, u) /\ told'[id][u] = {Verdict(items[id][u])}
  <2> HIDE DEF id
  <2>1. /\ ops[id].type \in Types /\ Asked(r) \subseteq ItemKeys
        /\ job[r].rec \in [ItemKeys -> ItemRow \cup {None}]
        /\ \A u \in Asked(r) : job[r].rec[u] # None /\ job[r].rec[u].status = "completed"
               /\ id \notin shared => job[r].rec[u] = items[id][u]
    BY <1>1, ReportedFields DEF id
  <2>2. QED
    BY <1>1, <1>11, <1>12, <2>1, AnswerFits
<1>14. MembersTyped'
  BY <1>1, <1>5, <1>13 DEF MembersTyped
<1>15. Quiet(r)
  BY <1>1, <1>3, <1>4, <1>8, SameItemsCalm DEF Quiet
<1>16. ASSUME NEW i \in OpIds, NEW u \in ItemKeys
       PROVE  ItemFits(i, u)'
  <2>1. CASE i # id
    BY <1>1, <1>3, <1>4, <1>13, <2>1, SameItemsCalm, ItemStays
  <2>2. CASE i = id
    <3>1. ItemFits(i, u)
      BY DEF MembersInv
    <3>2. ops'[i].type = ops[i].type
      BY <1>1, <1>4, <2>2 DEF RowsStay
    <3>3. ToldFits(i, u)'
      BY <1>1, <1>3, <1>13, <2>2 DEF ToldFits, Done
    <3>4. QED
      BY <1>1, <1>3, <3>1, <3>2, <3>3 DEF ItemFits, ResultFits, BanFits, Done
  <2>3. QED
    BY <2>1, <2>2
<1>17. QED
  BY <1>1, <1>3, <1>4, <1>7, <1>8, <1>9, <1>14, <1>15, <1>16, KeysStay, EndedFits, StepFits

LEMMA CrashFits ==
    ASSUME MembersInv, NEW r \in Runs, Crash(r)
    PROVE  MembersInv'
<1>1. /\ QueueInv /\ MembersTyped /\ KeysFit
      /\ UNCHANGED <<retryVars, member, bannedBy, asked, told, shared>>
      /\ EndRun(r) /\ run' = [run EXCEPT ![r] = None]
      /\ job' = [job EXCEPT ![r] = None] /\ ask' = [ask EXCEPT ![r] = None]
  BY DEF MembersInv, Crash, EndRun, SendNothing
<1>2. UNCHANGED storeVars /\ UNCHANGED operator /\ UNCHANGED items /\ UNCHANGED ops
  BY <1>1 DEF retryVars, storeVars
<1>3. RowsStay /\ Noted
  BY <1>1, <1>2, UnchangedRowsStay DEF Noted
<1>4. QueueTypeOK' /\ \A q \in Runs : RunOK(q)'
  BY <1>1, <1>3, LoopEnds DEF QueueInv
<1>5. QueueInv'
  BY <1>1, <1>2, <1>4, QueueInvFrom, OperatorStays DEF QueueInv
<1>6. /\ run'[r] = None /\ job'[r] = None /\ ask'[r] = None
      /\ \A q \in Runs \ {r} : run'[q] = run[q] /\ job'[q] = job[q] /\ ask'[q] = ask[q]
  BY <1>1 DEF QueueInv, QueueTypeOK, MembersTyped
<1>7. MembersTyped'
  BY <1>1, MembersAssumption DEF MembersTyped, Crash
<1>8. Quiet(r)
  BY <1>1, <1>2, <1>3, <1>6, SameItemsCalm DEF Quiet
<1>9. \A i \in OpIds, u \in ItemKeys : ItemFits(i, u)'
  BY <1>1, <1>2, <1>3, SameItemsCalm, ItemStays
<1>10. KeysFit'
  BY <1>1, <1>2 DEF KeysFit, LiveOps
<1>11. QED
  BY <1>5, <1>6, <1>7, <1>8, <1>9, <1>10, EndedFits, StepFits

------------------------------------------------------------------------------
(* The loop. *)

LEMMA BegunItemsCalm ==
    ASSUME StoreInv, NEW i \in OpIds, NEW jk \in ItemKeys, BeginItem(i, jk)
    PROVE  \A id \in OpIds, u \in ItemKeys : Calm(id, u)
<1>1. items \in [OpIds -> [ItemKeys -> ItemRow \cup {None}]]
  BY DEF StoreInv, StoreTypeOK
<1>2. \A id \in OpIds, u \in ItemKeys :
          items'[id][u] = items[id][u] \/ (items[id][u] = None /\ items'[id][u] = NewItemRow)
  BY <1>1 DEF BeginItem
<1>3. NewItemRow.status = "pending"
  BY DEF NewItemRow
<1>4. QED
  BY <1>2, <1>3 DEF Calm, Done

\* The request is still at the same item, with the same list.
LEMMA SameAs ==
    ASSUME NEW r \in Runs, SameRun(r), run'[r].step # "next", job'[r] = job[r]
    PROVE  As(r)' = As(r) /\ Item(r)' = Item(r) /\ run'[r].id = run[r].id
BY DEF SameRun, As, Item

\* The same type, the same list: what a request is asked for stays.
LEMMA SameJob ==
    ASSUME MembersInv, RowsStay, NEW r \in Runs, run[r] # None, SameRun(r),
           job'[r] # None, job'[r].as = job[r].as
    PROVE  JobFits(r)'
<1>1. run[r].id \in LiveOps /\ JobFits(r)
  BY DEF MembersInv, QueueInv, RunOK, RunFits
<1>2. ops'[run[r].id].type = ops[run[r].id].type
  BY <1>1 DEF RowsStay
<1>3. QED
  BY <1>1, <1>2 DEF JobFits, Adding, SameRun

\* Records of a loop that has taken no row over.
LEMMA SameRecords ==
    ASSUME MembersInv, Noted, NEW r \in Runs, run[r] # None, SameRun(r), job'[r].rec = job[r].rec,
           \A u \in ItemKeys : Calm(run[r].id, u)
    PROVE  RecFits(r)'
<1>1. run[r].id \in LiveOps /\ run[r].id \in OpIds /\ RecFits(r)
  BY DEF MembersInv, QueueInv, RunOK, RunFits, LiveOps
<1>2. QED
  BY <1>1 DEF RecFits, SameRun, Calm, Done, Noted, RowsStay

\* A loop that has got back the row of its item.
LEMMA NewRecord ==
    ASSUME MembersInv, Noted, NEW r \in Runs, run[r] # None, SameRun(r),
           NEW jk \in ItemKeys, items'[run[r].id][jk] \in ItemRow \cup {None},
           job'[r] = WithRecord(job[r], jk, items'[run[r].id][jk]),
           \A u \in ItemKeys \ {jk} : Calm(run[r].id, u)
    PROVE  /\ job'[r] \in Job /\ job'[r] # None /\ job'[r].as = job[r].as
           /\ RecFits(r)'
<1>1. /\ run[r].id \in LiveOps /\ run[r].id \in OpIds /\ RecFits(r)
      /\ job[r] \in Job /\ job[r].rec \in [ItemKeys -> ItemRow \cup {None}]
  BY ReportedFields DEF MembersInv, RunFits
<1>2. PICK row \in ItemRow \cup {None} : row = items'[run[r].id][jk]
  OBVIOUS
<1>3. PICK rec : rec = [job[r].rec EXCEPT ![jk] = row]
  OBVIOUS
<1>4. rec \in [ItemKeys -> ItemRow \cup {None}]
  BY <1>1, <1>3
<1>5. job'[r] = [job[r] EXCEPT !.rec = rec]
  BY <1>2, <1>3 DEF WithRecord
<1>6. /\ job'[r] \in Job /\ job'[r].as = job[r].as /\ job'[r].rec = rec
  BY <1>1, <1>4, <1>5 DEF Job
<1>7. ASSUME NEW u \in ItemKeys, rec[u] # None, rec[u].status = "completed"
      PROVE  /\ Done(run[r].id, u)'
             /\ run[r].id \notin shared' => rec[u] = items'[run[r].id][u]
  <2>1. CASE u = jk
    BY <1>1, <1>2, <1>3, <1>7, <2>1 DEF Done, SameRun
  <2>2. CASE u # jk
    <3>1. rec[u] = job[r].rec[u]
      BY <1>1, <1>3, <2>2
    <3>2. /\ Done(run[r].id, u)
          /\ run[r].id \notin shared => rec[u] = items[run[r].id][u]
      BY <1>1, <1>7, <3>1 DEF RecFits
    <3>3. QED
      BY <1>1, <2>2, <3>2 DEF Calm, Done, Noted, RowsStay, SameRun
  <2>3. QED
    BY <2>1, <2>2
<1>8. RecFits(r)'
  BY <1>6, <1>7 DEF RecFits, SameRun, Done
<1>9. QED
  BY <1>6, <1>8, MembersAssumption

LEMMA SentAsk ==
    ASSUME MembersTyped, NEW r \in Runs, NEW step \in {"first", "second"}, NEW there \in BOOLEAN,
           Send(r, step, there)
    PROVE  /\ ask' \in [Runs -> Ask \cup {None}]
           /\ ask'[r] # None /\ ask'[r].step = step /\ ask'[r].reply = "none"
           /\ \A s \in Runs \ {r} : ask'[s] = ask[s]
<1>1. PICK a : a = [step |-> step, there |-> there, reply |-> "none"]
  OBVIOUS
<1>2. a \in Ask /\ a.step = step /\ a.reply = "none"
  BY <1>1 DEF Ask
<1>3. ask' = [ask EXCEPT ![r] = a]
  BY <1>1 DEF Send
<1>4. ask'[r] = a /\ \A s \in Runs \ {r} : ask'[s] = ask[s]
  BY <1>3 DEF MembersTyped
<1>5. QED
  BY <1>2, <1>3, <1>4, MembersAssumption DEF MembersTyped

LEMMA NoAsk ==
    ASSUME MembersTyped, NEW r \in Runs, SendNothing(r)
    PROVE  /\ ask' \in [Runs -> Ask \cup {None}]
           /\ ask'[r] = None
           /\ \A s \in Runs \ {r} : ask'[s] = ask[s]
BY DEF SendNothing, MembersTyped

LEMMA TakeItemFits ==
    ASSUME MembersInv, NEW r \in Runs, TakeItem(r)
    PROVE  MembersInv'
<1> DEFINE id == run[r].id
           jk == Item(r)
<1>1. /\ QueueInv /\ StoreInv /\ MembersTyped /\ KeysFit /\ NextItem(r)
      /\ UNCHANGED <<operator, member, bannedBy, told, shared, deaths>>
  BY DEF MembersInv, QueueInv, TakeItem
<1>2. KeepingNext /\ QueueTypeOK' /\ \A s \in Runs : RunOK(s)'
  BY <1>1, NextItemKeeps
<1>3. QueueInv'
  BY <1>1, <1>2, QueueInvFrom, OperatorStays DEF QueueInv
<1>4. /\ SameRun(r) /\ run'[r].step \in {"next", "handler"}
      /\ run'[r].step = "handler" <=> items'[id][jk].status = "pending"
  BY <1>1, NextItemMoves
<1>5. /\ run[r] # None /\ run[r].step = "next" /\ run[r].todo # <<>>
      /\ id \in OpIds /\ id \in LiveOps /\ jk \in ItemKeys
  BY <1>1, RunFields, ListElements DEF NextItem, Working, QueueInv, RunOK, Item
<1>6. BeginItem(id, jk) /\ UNCHANGED ops
  BY <1>1 DEF NextItem, BeginItem
<1>7. \A i \in OpIds, u \in ItemKeys : Calm(i, u)
  BY <1>1, <1>5, <1>6, BegunItemsCalm
<1>8. RowsStay
  BY <1>1, <1>2, KeepingRowsStay
<1>9. KeysFit'
  BY <1>1, <1>6 DEF KeysFit, LiveOps
<1>10. As(r) \in Roles \cup Modes
  BY <1>5, AsTyped
<1>11. JobFits(r) /\ AskFits(r) /\ RecFits(r) /\ AloneFits(r)
  BY DEF MembersInv, RunFits
<1>12. \A s \in Runs \ {r} : run[s] = None \/ run[s].id # id \/ id \in shared
  BY <1>5, <1>11 DEF AloneFits
<1>13. CASE run'[r].step = "handler"
  <2>1. /\ Send(r, "first", FALSE) /\ UNCHANGED job
        /\ asked' = [asked EXCEPT ![id][jk] = @ \cup {As(r)}]
    BY <1>13 DEF TakeItem
  <2>2. PICK set : set = asked[id][jk] \cup {As(r)}
    OBVIOUS
  <2>3. asked' = [asked EXCEPT ![id][jk] = set]
    BY <2>1, <2>2
  <2>4. set \in SUBSET (Roles \cup Modes)
    BY <1>1, <1>5, <1>10, <2>2 DEF MembersTyped
  <2>5. asked' \in [OpIds -> [ItemKeys -> SUBSET (Roles \cup Modes)]]
    BY <1>1, <1>5, <2>3, <2>4 DEF MembersTyped
  <2>6. /\ asked'[id][jk] = set
        /\ \A i \in OpIds, u \in ItemKeys : (i = id /\ u = jk) \/ asked'[i][u] = asked[i][u]
    BY <1>1, <1>5, <2>3 DEF MembersTyped
  <2>7. \A i \in OpIds, u \in ItemKeys : asked[i][u] \subseteq asked'[i][u]
    BY <2>2, <2>6
  <2>8. Noted
    BY <1>1, <1>8, <2>7 DEF Noted
  <2>9. /\ ask' \in [Runs -> Ask \cup {None}]
        /\ ask'[r] # None /\ ask'[r].step = "first"
        /\ \A s \in Runs \ {r} : ask'[s] = ask[s]
    BY <1>1, <2>1, SentAsk
  <2>10. Quiet(r)
    BY <1>1, <1>4, <1>5, <1>7, <2>1, <2>8, <2>9 DEF Quiet, SameRun
  <2>11. MembersTyped'
    BY <1>1, <2>1, <2>5, <2>9 DEF MembersTyped
  <2>12. As(r)' = As(r) /\ Item(r)' = jk /\ run'[r].id = id
    BY <1>4, <1>13, <2>1, SameAs
  <2>13. JobFits(r)'
    BY <1>4, <1>5, <1>8, <1>11, <2>1, SameJob DEF JobFits
  <2>14. AskFits(r)'
    BY <1>4, <1>13, <2>2, <2>6, <2>9, <2>12 DEF AskFits, Working, SameRun
  <2>15. RecFits(r)'
    BY <1>4, <1>5, <1>7, <2>1, <2>8, SameRecords
  <2>16. AloneFits(r)'
    BY <1>1, <1>4, <1>12, <1>13, <2>12 DEF AloneFits, SameRun
  <2>17. \A i \in OpIds, u \in ItemKeys : ItemFits(i, u)'
    <3> SUFFICES ASSUME NEW i \in OpIds, NEW u \in ItemKeys
                 PROVE  ItemFits(i, u)'
      OBVIOUS
    <3>1. Done(i, u)' => asked'[i][u] = asked[i][u]
      BY <1>4, <1>13, <2>6 DEF Done
    <3>2. QED
      BY <1>1, <1>7, <2>8, <3>1, ItemStays
  <2>18. QED
    BY <1>3, <1>9, <2>10, <2>11, <2>13, <2>14, <2>15, <2>16, <2>17, StepFits DEF RunFits
<1>14. CASE run'[r].step = "next"
  <2>1. KeepRecord(r) /\ UNCHANGED <<ask, asked>>
    BY <1>14 DEF TakeItem
  <2>2. Noted
    BY <1>1, <1>8, <2>1 DEF Noted
  <2>3. items'[id][jk] \in ItemRow \cup {None}
    BY <1>3, <1>5 DEF QueueInv, StoreInv, StoreTypeOK
  <2>4. PICK new : new = WithRecord(job[r], jk, items'[id][jk])
    OBVIOUS
  <2>5. job' = [job EXCEPT ![r] = new]
    BY <2>1, <2>4 DEF KeepRecord
  <2>6. job'[r] = new /\ \A s \in Runs \ {r} : job'[s] = job[s]
    BY <1>1, <2>5 DEF MembersTyped
  <2>7. /\ job'[r] \in Job /\ job'[r] # None /\ job'[r].as = job[r].as
        /\ RecFits(r)'
    BY <1>4, <1>5, <1>7, <2>2, <2>3, <2>4, <2>6, NewRecord
  <2>8. MembersTyped'
    BY <1>1, <2>1, <2>5, <2>6, <2>7 DEF MembersTyped
  <2>9. Quiet(r)
    BY <1>1, <1>4, <1>5, <1>7, <2>1, <2>2, <2>6 DEF Quiet, SameRun
  <2>10. JobFits(r)'
    BY <1>4, <1>5, <1>8, <2>7, SameJob
  <2>11. AskFits(r)'
    BY <1>5, <1>11, <1>14, <2>1 DEF AskFits, Working
  <2>12. AloneFits(r)'
    BY <1>1, <1>4, <1>12, <1>14 DEF AloneFits, SameRun
  <2>13. \A i \in OpIds, u \in ItemKeys : ItemFits(i, u)'
    BY <1>1, <1>7, <2>1, <2>2, ItemStays
  <2>14. QED
    BY <1>3, <1>9, <2>7, <2>8, <2>9, <2>10, <2>11, <2>12, <2>13, StepFits DEF RunFits
<1>15. QED
  BY <1>4, <1>13, <1>14

------------------------------------------------------------------------------
(* The end of an item. *)

\* What a handler's verdict may be.
Fair(r, s, res) ==
    s = "completed" =>
        IF Adding(r)
        THEN As(r) = "admin" => res.promoted \/ res.status = "privacy"
        ELSE /\ res.status # "privacy"
             /\ \/ res.mode = "ban" \/ res.status = "not_present"
                \/ run[r].id \in shared
                \/ bannedBy[Item(r)] # run[r].id

LEMMA EndItemFits ==
    ASSUME MembersInv, NEW r \in Runs, NEW s \in TerminalStatus,
           NEW res \in Results \cup {None}, NEW err \in Errors \cup {None},
           Payload(s, res, err), EndItem(r, s, res, err), Fair(r, s, res)
    PROVE  KeepingNext /\ MembersInv'
<1> DEFINE id == run[r].id
           jk == Item(r)
<1>1. /\ QueueInv /\ StoreInv /\ MembersTyped /\ KeysFit
      /\ ItemEnds(r, s, res, err) /\ KeepRecord(r) /\ SendNothing(r)
      /\ UNCHANGED <<operator, member, bannedBy, asked, told, shared, deaths>>
  BY DEF MembersInv, QueueInv, EndItem
<1>2. KeepingNext /\ QueueTypeOK' /\ \A q \in Runs : RunOK(q)'
  BY <1>1, ItemEndsKeeps
<1>3. QueueInv'
  BY <1>1, <1>2, QueueInvFrom, OperatorStays DEF QueueInv
<1>4. SameRun(r) /\ run'[r].step = "next"
  BY <1>1, ItemEndsMoves
<1>5. /\ run[r] # None /\ id \in OpIds /\ id \in LiveOps /\ jk \in ItemKeys
      /\ items[id][jk] # None /\ run[r].step = "handler"
  BY <1>1, WorkingRun DEF ItemEnds, Working
<1>6. TransitionItem(id, jk, s, res, err) /\ UNCHANGED ops
  BY <1>1 DEF ItemEnds, TransitionItem
<1>7. JobFits(r) /\ AskFits(r) /\ RecFits(r) /\ AloneFits(r)
      /\ \A i \in OpIds, u \in ItemKeys : ItemFits(i, u)
  BY DEF MembersInv, RunFits
<1>8. PICK row \in ItemRow : row = items[id][jk]
  BY <1>1, <1>5 DEF StoreInv, StoreTypeOK
<1>9. PICK new : new = Settled(row, s, res, err)
  OBVIOUS
<1>10. items' = [items EXCEPT ![id][jk] = new]
  BY <1>5, <1>6, <1>8, <1>9 DEF TransitionItem
<1>11. /\ items'[id][jk] = new
       /\ \A i \in OpIds, u \in ItemKeys : (i = id /\ u = jk) \/ items'[i][u] = items[i][u]
  BY <1>1, <1>5, <1>10 DEF StoreInv, StoreTypeOK
<1>12. new = row \/ (new.status = s /\ new.result = res)
  BY <1>8, <1>9 DEF Settled, ItemRow
<1>13. id \notin shared => row.status = "pending"
  BY <1>5, <1>7, <1>8 DEF AloneFits
<1>14. RowsStay /\ Noted
  BY <1>1, <1>2, KeepingRowsStay DEF Noted
<1>15. \A i \in OpIds, u \in ItemKeys : (i = id /\ u = jk) \/ Calm(i, u)
  BY <1>11 DEF Calm
<1>16. /\ ask' \in [Runs -> Ask \cup {None}] /\ ask'[r] = None
       /\ \A q \in Runs \ {r} : ask'[q] = ask[q]
  BY <1>1, NoAsk
<1>17. items'[id][jk] \in ItemRow \cup {None}
  BY <1>3, <1>5 DEF QueueInv, StoreInv, StoreTypeOK
<1>18. PICK kept : kept = WithRecord(job[r], jk, items'[id][jk])
  OBVIOUS
<1>19. job' = [job EXCEPT ![r] = kept]
  BY <1>1, <1>18 DEF KeepRecord
<1>20. job'[r] = kept /\ \A q \in Runs \ {r} : job'[q] = job[q]
  BY <1>1, <1>19 DEF MembersTyped
<1>21. \A u \in ItemKeys \ {jk} : Calm(id, u)
  BY <1>5, <1>15
<1>22. /\ job'[r] \in Job /\ job'[r] # None /\ job'[r].as = job[r].as
       /\ RecFits(r)'
  BY <1>4, <1>5, <1>14, <1>17, <1>18, <1>20, <1>21, NewRecord
<1>23. MembersTyped'
  BY <1>1, <1>16, <1>19, <1>20, <1>22 DEF MembersTyped
<1>24. KeysFit'
  BY <1>1, <1>6 DEF KeysFit, LiveOps
<1>25. Quiet(r)
  BY <1>1, <1>4, <1>5, <1>14, <1>15, <1>16, <1>20 DEF Quiet, SameRun
<1>26. JobFits(r)'
  BY <1>4, <1>5, <1>14, <1>22, SameJob
<1>27. AskFits(r)'
  BY <1>4, <1>16 DEF AskFits, Working
<1>28. AloneFits(r)'
  BY <1>1, <1>4, <1>5, <1>7 DEF AloneFits, SameRun
<1>29. ASSUME NEW i \in OpIds, NEW u \in ItemKeys, i = id, u = jk
       PROVE  ItemFits(i, u)'
  <2>1. /\ ops'[i].type = ops[i].type /\ items'[i][u] = new /\ items[i][u] = row
        /\ asked'[i][u] = asked[i][u] /\ told'[i][u] = told[i][u]
        /\ bannedBy'[u] = bannedBy[u] /\ shared' = shared
        /\ row # None /\ new # None
    BY <1>1, <1>5, <1>8, <1>11, <1>14, <1>29, NoneAssumption DEF RowsStay
  <2>2. As(r) \in asked[i][u]
    BY <1>5, <1>7, <1>29 DEF AskFits, Working
  <2>3. Adding(r) <=> ops[i].type = AddType
    BY <1>29 DEF Adding
  <2>4. ItemFits(i, u)
    BY <1>7
  <2>5. ResultFits(i, u)'
    <3>1. CASE new = row
      BY <2>1, <2>4, <3>1 DEF ItemFits, ResultFits, Done
    <3>2. CASE new.status = s /\ new.result = res
      BY <2>1, <2>2, <2>3, <3>2 DEF ResultFits, Done, Fair
    <3>3. QED
      BY <1>12, <3>1, <3>2
  <2>6. BanFits(i, u)'
    <3>1. bannedBy[u] = i => ops[i].type # AddType
      BY <2>4 DEF ItemFits, BanFits
    <3>2. ASSUME bannedBy[u] = i, i \notin shared, new.status = "completed"
          PROVE  new.result.mode = "ban" \/ new.result.status = "not_present"
      <4>1. new.status = s /\ new.result = res
        BY <1>12, <1>13, <1>29, <3>2
      <4>2. QED
        BY <1>29, <2>3, <3>1, <3>2, <4>1 DEF Fair
    <3>3. QED
      BY <2>1, <3>1, <3>2 DEF BanFits, Done
  <2>7. ToldFits(i, u)'
    <3>1. i \notin shared => told[i][u] = {}
      BY <1>13, <1>29, <2>1, <2>4 DEF ItemFits, ToldFits, Done
    <3>2. QED
      BY <2>1, <3>1 DEF ToldFits
  <2>8. QED
    BY <2>5, <2>6, <2>7 DEF ItemFits
<1>30. ASSUME NEW i \in OpIds, NEW u \in ItemKeys
       PROVE  ItemFits(i, u)'
  <2>1. CASE i = id /\ u = jk
    BY <1>29, <2>1
  <2>2. CASE ~(i = id /\ u = jk)
    BY <1>1, <1>14, <1>15, <2>2, ItemStays
  <2>3. QED
    BY <2>1, <2>2
<1>31. QED
  BY <1>2, <1>3, <1>22, <1>23, <1>24, <1>25, <1>26, <1>27, <1>28, <1>30,
     StepFits DEF RunFits

LEMMA CompletesFit ==
    ASSUME MembersInv, NEW r \in Runs, NEW res \in Results,
           EndItem(r, "completed", res, None), Fair(r, "completed", res)
    PROVE  KeepingNext /\ MembersInv'
<1>1. "completed" \in TerminalStatus /\ Payload("completed", res, None)
  BY DEF TerminalStatus, Status, Payload
<1>2. QED
  BY <1>1, EndItemFits

LEMMA FailsFit ==
    ASSUME MembersInv, NEW r \in Runs, NEW s \in {"failed", "needs_review"},
           NEW err \in ErrorTexts, EndItem(r, s, None, err)
    PROVE  KeepingNext /\ MembersInv'
<1>1. s \in TerminalStatus /\ err \in Errors /\ Payload(s, None, err)
  BY MembersAssumption DEF TerminalStatus, Status, Payload
<1>2. Fair(r, s, None)
  BY DEF Fair
<1>3. QED
  BY <1>1, <1>2, EndItemFits

\* A handler at work on an item has a row, a role or a mode, and a request.
LEMMA HandlerFields ==
    ASSUME MembersInv, NEW r \in Runs, Working(r, "handler")
    PROVE  /\ As(r) \in IF Adding(r) THEN Roles ELSE Modes
           /\ ask[r] # None /\ ask[r] \in Ask
           /\ ask[r].step = "second" /\ ask[r].reply \in {"ok", "gone"} /\ ~Adding(r) =>
                 run[r].id \in shared \/ bannedBy[Item(r)] # run[r].id
<1>1. run[r] # None /\ run[r].todo # <<>>
  BY WorkingRun DEF MembersInv
<1>2. As(r) \in IF Adding(r) THEN Roles ELSE Modes
  BY <1>1, AsTyped
<1>3. AskFits(r) /\ ask \in [Runs -> Ask \cup {None}]
  BY DEF MembersInv, RunFits, MembersTyped
<1>4. QED
  BY <1>2, <1>3 DEF AskFits

LEMMA AddedFits ==
    ASSUME MembersInv, NEW r \in Runs, Added(r)
    PROVE  KeepingNext /\ MembersInv'
<1>1. Adding(r)
  BY DEF Added
<1>2. PICK res \in AddResult :
          /\ EndItem(r, "completed", res, None)
          /\ As(r) = "admin" => res.promoted \/ res.status = "privacy"
  <2>1. CASE EndItem(r, "completed", [status |-> "privacy", promoted |-> FALSE], None)
    <3>1. PICK res : res = [status |-> "privacy", promoted |-> FALSE]
      OBVIOUS
    <3>2. res \in AddResult /\ res.status = "privacy"
      BY <3>1 DEF AddResult
    <3>3. QED
      BY <2>1, <3>1, <3>2
  <2>2. CASE /\ As(r) = "member"
             /\ EndItem(r, "completed",
                   [status |-> IF ask[r].reply = "already" THEN "already_member" ELSE "added",
                    promoted |-> FALSE], None)
    BY <2>2 DEF AddResult
  <2>3. CASE EndItem(r, "completed",
                [status |-> IF ask[r].there THEN "already_member" ELSE "added",
                 promoted |-> TRUE], None)
    <3>1. PICK res : res = [status |-> IF ask[r].there THEN "already_member" ELSE "added",
                            promoted |-> TRUE]
      OBVIOUS
    <3>2. res \in AddResult /\ res.promoted
      BY <3>1 DEF AddResult
    <3>3. QED
      BY <2>3, <3>1, <3>2
  <2>4. QED
    BY <2>1, <2>2, <2>3 DEF Added
<1>3. res \in Results
  BY MembersAssumption
<1>4. Fair(r, "completed", res)
  BY <1>1, <1>2 DEF Fair
<1>5. QED
  BY <1>2, <1>3, <1>4, CompletesFit

LEMMA RemovedFits ==
    ASSUME MembersInv, NEW r \in Runs, Removed(r)
    PROVE  KeepingNext /\ MembersInv'
<1>1. Working(r, "handler") /\ ~Adding(r)
  BY DEF Removed
<1>2. /\ As(r) \in Modes
      /\ ask[r] # None /\ ask[r].step = "second" /\ ask[r].reply \in {"ok", "gone"} =>
            run[r].id \in shared \/ bannedBy[Item(r)] # run[r].id
  BY <1>1, HandlerFields
<1>3. PICK res \in RemoveResult :
          /\ EndItem(r, "completed", res, None)
          /\ \/ res.mode = "ban" \/ res.status = "not_present"
             \/ run[r].id \in shared \/ bannedBy[Item(r)] # run[r].id
  <2>1. CASE EndItem(r, "completed", [status |-> "not_present", mode |-> As(r)], None)
    BY <1>2, <2>1 DEF RemoveResult
  <2>2. CASE /\ \/ Waits(r, "first", "ok") /\ As(r) = "ban"
                \/ Waits(r, "second", "ok") \/ Waits(r, "second", "gone")
             /\ EndItem(r, "completed", [status |-> "removed", mode |-> As(r)], None)
    BY <1>2, <2>2 DEF RemoveResult, Waits
  <2>3. QED
    BY <2>1, <2>2 DEF Removed
<1>4. res \in Results /\ res.status # "privacy"
  BY MembersAssumption DEF RemoveResult
<1>5. Fair(r, "completed", res)
  BY <1>1, <1>3, <1>4 DEF Fair
<1>6. QED
  BY <1>3, <1>4, <1>5, CompletesFit

LEMMA FailuresFit ==
    ASSUME MembersInv, NEW r \in Runs, FirstFails(r) \/ SecondFails(r)
    PROVE  KeepingNext /\ MembersInv'
<1>1. CASE FirstFails(r)
  BY <1>1, FailsFit DEF FirstFails, ErrorTexts
<1>2. CASE SecondFails(r)
  <2>1. \E err \in ErrorTexts : EndItem(r, "failed", None, err)
    BY <1>2 DEF SecondFails, ErrorTexts
  <2>2. QED
    BY <2>1, FailsFit
<1>3. QED
  BY <1>1, <1>2

------------------------------------------------------------------------------
(* Between the requests of a handler. *)

LEMMA HandlerFits ==
    ASSUME MembersInv, NEW r \in Runs, Working(r, "handler") \/ Working(r, "pause"),
           UNCHANGED <<storeVars, operator, job, asked, told, shared, deaths>>,
           QueueTypeOK', \A q \in Runs : RunOK(q)',
           SameRun(r), run'[r].step \in {"handler", "pause"},
           ask' \in [Runs -> Ask \cup {None}],
           ask'[r] # None <=> run'[r].step = "handler",
           \A q \in Runs \ {r} : ask'[q] = ask[q],
           member' \in [ItemKeys -> {"absent", "member", "admin"}],
           bannedBy' \in [ItemKeys -> OpIds \cup {None}],
           \A i \in OpIds, u \in ItemKeys : bannedBy'[u] = i =>
               bannedBy[u] = i \/ (i = run[r].id /\ u = Item(r) /\ ~Adding(r)),
           ask'[r] # None /\ ask'[r].step = "second" /\ ask'[r].reply \in {"ok", "gone"}
               /\ ~Adding(r) /\ run[r].id \notin shared => bannedBy'[Item(r)] # run[r].id
    PROVE  MembersInv'
<1>1. /\ QueueInv /\ MembersTyped /\ KeysFit /\ UNCHANGED <<ops, items>>
      /\ run[r] # None /\ run[r].id \in LiveOps /\ run[r].id \in OpIds
      /\ Item(r) \in ItemKeys /\ items[run[r].id][Item(r)] # None
  BY WorkingRun DEF MembersInv, storeVars
<1>2. RowsStay /\ Noted
  BY UnchangedRowsStay DEF Noted
<1>3. QueueInv'
  BY <1>1, QueueInvFrom, OperatorStays DEF QueueInv
<1>4. MembersTyped'
  BY <1>1 DEF MembersTyped
<1>5. KeysFit'
  BY <1>1 DEF KeysFit, LiveOps
<1>6. Quiet(r)
  BY <1>1, <1>2, SameItemsCalm DEF Quiet, SameRun
<1>7. JobFits(r) /\ AskFits(r) /\ RecFits(r) /\ AloneFits(r)
      /\ \A i \in OpIds, u \in ItemKeys : ItemFits(i, u)
  BY DEF MembersInv, RunFits
<1>8. /\ As(r)' = As(r) /\ Item(r)' = Item(r) /\ run'[r].id = run[r].id
      /\ (Adding(r)' <=> Adding(r)) /\ run'[r] # None /\ run'[r].list = run[r].list
  BY <1>1, SameAs DEF SameRun, Adding
<1>9. RunFits(r)'
  <2>1. JobFits(r)'
    BY <1>1, <1>7, <1>8 DEF JobFits
  <2>2. AskFits(r)'
    <3>1. As(r) \in asked[run[r].id][Item(r)]
      BY <1>7 DEF AskFits
    <3>2. QED
      BY <1>8, <3>1 DEF AskFits, Working
  <2>3. RecFits(r)'
    BY <1>1, <1>7, <1>8 DEF RecFits, Done
  <2>4. AloneFits(r)'
    BY <1>1, <1>7, <1>8 DEF AloneFits, SameRun, Working
  <2>5. QED
    BY <2>1, <2>2, <2>3, <2>4 DEF RunFits
<1>10. ASSUME NEW i \in OpIds, NEW u \in ItemKeys
       PROVE  ItemFits(i, u)'
  <2>1. CASE bannedBy'[u] = i => bannedBy[u] = i
    BY <1>1, <1>2, <2>1, SameItemsCalm, ItemStays
  <2>2. CASE i = run[r].id /\ u = Item(r) /\ ~Adding(r)
    <3>1. ItemFits(i, u)
      BY <1>7
    <3>2. i \notin shared => items[i][u].status = "pending"
      BY <1>1, <1>7, <2>2 DEF AloneFits, Working
    <3>3. BanFits(i, u)'
      BY <1>1, <2>2, <3>2 DEF BanFits, Done, Adding
    <3>4. QED
      BY <1>1, <3>1, <3>3 DEF ItemFits, ResultFits, ToldFits, Done
  <2>3. QED
    BY <2>1, <2>2
<1>11. QED
  BY <1>3, <1>4, <1>5, <1>6, <1>9, <1>10, StepFits

LEMMA FirstFloodsFits ==
    ASSUME MembersInv, NEW r \in Runs, FirstFloods(r)
    PROVE  MembersInv'
<1>1. /\ SendNothing(r)
      /\ UNCHANGED <<operator, member, bannedBy, asked, told, shared, deaths>>
      /\ QueueInv /\ MembersTyped
  BY DEF FirstFloods, MembersInv
<1>2. CASE FloodBudgetSpent(r, "FLOOD_WAIT") /\ KeepRecord(r)
  <2>1. EndItem(r, "needs_review", None, "FLOOD_WAIT")
    BY <1>1, <1>2 DEF EndItem, FloodBudgetSpent
  <2>2. QED
    BY <2>1, FailsFit DEF ErrorTexts
<1>3. CASE FloodPause(r) /\ UNCHANGED job
  <2>1. /\ UNCHANGED storeVars /\ QueueTypeOK' /\ \A s \in Runs : RunOK(s)'
        /\ SameRun(r) /\ run'[r].step = "pause"
    BY <1>1, <1>3, PauseKeeps, PauseMoves
  <2>2. /\ ask' \in [Runs -> Ask \cup {None}] /\ ask'[r] = None
        /\ \A s \in Runs \ {r} : ask'[s] = ask[s]
    BY <1>1, NoAsk
  <2>3. Working(r, "handler")
    BY <1>3 DEF FloodPause
  <2>4. QED
    BY <1>1, <1>3, <2>1, <2>2, <2>3, HandlerFits DEF MembersTyped
<1>4. QED
  BY <1>2, <1>3 DEF FirstFloods

LEMMA ResumeFits ==
    ASSUME MembersInv, NEW r \in Runs, Resume(r)
    PROVE  MembersInv'
<1>1. /\ Wake(r) /\ Send(r, "first", FALSE) /\ Working(r, "pause")
      /\ UNCHANGED <<operator, job, member, bannedBy, asked, told, shared, deaths>>
      /\ QueueInv /\ MembersTyped
  BY DEF Resume, Wake, MembersInv
<1>2. /\ UNCHANGED storeVars /\ QueueTypeOK' /\ \A s \in Runs : RunOK(s)'
      /\ SameRun(r) /\ run'[r].step = "handler"
  BY <1>1, PauseKeeps, PauseMoves
<1>3. /\ ask' \in [Runs -> Ask \cup {None}] /\ ask'[r] # None /\ ask'[r].step = "first"
      /\ \A s \in Runs \ {r} : ask'[s] = ask[s]
  BY <1>1, SentAsk
<1>4. QED
  BY <1>1, <1>2, <1>3, HandlerFits DEF MembersTyped

LEMMA SameLoops ==
    ASSUME MembersInv, NEW r \in Runs, Working(r, "handler"), UNCHANGED queueVars
    PROVE  /\ UNCHANGED <<storeVars, operator>> /\ QueueTypeOK' /\ \A s \in Runs : RunOK(s)'
           /\ SameRun(r) /\ run'[r].step = "handler"
<1>1. UNCHANGED <<storeVars, operator>> /\ UNCHANGED run /\ QueueInv
  BY DEF queueVars, retryVars, MembersInv
<1>2. QED
  BY <1>1, UnchangedRowsStay, LoopsKept DEF SameRun, Working, QueueInv

LEMMA GoesOnFits ==
    ASSUME MembersInv, NEW r \in Runs, GoesOn(r)
    PROVE  MembersInv'
<1>1. /\ Working(r, "handler") /\ MembersTyped
      /\ UNCHANGED <<queueVars, job, member, bannedBy, asked, told, shared, deaths>>
  BY DEF GoesOn, MembersInv
<1>2. /\ UNCHANGED <<storeVars, operator>> /\ QueueTypeOK' /\ \A s \in Runs : RunOK(s)'
      /\ SameRun(r) /\ run'[r].step = "handler"
  BY <1>1, SameLoops
<1>3. PICK there \in BOOLEAN : Send(r, "second", there)
  <2> WITNESS (ask[r].reply = "already") \in BOOLEAN
  <2> QED
    BY DEF GoesOn
<1>4. /\ ask' \in [Runs -> Ask \cup {None}] /\ ask'[r] # None /\ ask'[r].reply = "none"
      /\ \A s \in Runs \ {r} : ask'[s] = ask[s]
  BY <1>1, <1>3, SentAsk
<1>5. QED
  BY <1>1, <1>2, <1>4, HandlerFits DEF MembersTyped

------------------------------------------------------------------------------
(* Telegram. *)

LEMMA Replied ==
    ASSUME MembersTyped, NEW r \in Runs, ask[r] # None,
           NEW reply \in {"none", "ok", "already", "privacy", "gone"}, Reply(r, reply)
    PROVE  /\ ask' \in [Runs -> Ask \cup {None}]
           /\ ask'[r] # None /\ ask'[r].step = ask[r].step
           /\ \A s \in Runs \ {r} : ask'[s] = ask[s]
<1>1. ask \in [Runs -> Ask \cup {None}] /\ ask[r] \in Ask
  BY DEF MembersTyped
<1>2. PICK a : a = [ask[r] EXCEPT !.reply = reply]
  OBVIOUS
<1>3. a \in Ask /\ a.step = ask[r].step
  BY <1>1, <1>2 DEF Ask
<1>4. ask' = [ask EXCEPT ![r] = a]
  BY <1>2 DEF Reply
<1>5. QED
  BY <1>1, <1>3, <1>4, MembersAssumption

\* What Telegram does to the chat for the request that a handler waits for.
LEMMA Performed ==
    ASSUME MembersInv, NEW r \in Runs, Working(r, "handler"), TelegramPerforms(r)
    PROVE  /\ \E reply \in {"none", "ok", "already", "privacy", "gone"} : Reply(r, reply)
           /\ member' \in [ItemKeys -> {"absent", "member", "admin"}]
           /\ bannedBy' \in [ItemKeys -> OpIds \cup {None}]
           /\ \A i \in OpIds, u \in ItemKeys : bannedBy'[u] = i =>
                 bannedBy[u] = i \/ (i = run[r].id /\ u = Item(r) /\ ~Adding(r))
           /\ ask[r].step = "second" /\ ~Adding(r) => bannedBy'[Item(r)] # run[r].id
<1>1. /\ run[r].id \in OpIds /\ Item(r) \in ItemKeys
      /\ member \in [ItemKeys -> {"absent", "member", "admin"}]
      /\ bannedBy \in [ItemKeys -> OpIds \cup {None}]
      /\ ask[r] \in Ask
  BY WorkingRun, HandlerFields DEF MembersInv, MembersTyped
<1>2. PICK id \in OpIds, jk \in ItemKeys : id = run[r].id /\ jk = Item(r)
  BY <1>1
<1>3. CASE Adding(r) /\ (TelegramAdds(r, Item(r)) \/ TelegramPromotes(r, Item(r)))
  BY <1>1, <1>2, <1>3 DEF TelegramAdds, TelegramPromotes
<1>4. CASE ~Adding(r) /\ ask[r].step = "first" /\ TelegramBans(r, Item(r))
  <2>1. CASE UNCHANGED <<member, bannedBy>> /\ Reply(r, "gone")
    BY <1>1, <1>4, <2>1
  <2>2. CASE /\ Reply(r, "ok")
             /\ member' = [member EXCEPT ![jk] = "absent"]
             /\ bannedBy' = [bannedBy EXCEPT ![jk] = id]
    BY <1>1, <1>2, <1>4, <2>2
  <2>3. QED
    BY <1>2, <1>4, <2>1, <2>2 DEF TelegramBans
<1>5. CASE ~Adding(r) /\ TelegramUnbans(r, Item(r))
  <2>1. bannedBy' = [bannedBy EXCEPT ![jk] = None] /\ UNCHANGED member
    BY <1>2, <1>5 DEF TelegramUnbans
  <2>2. \E reply \in {"none", "ok", "already", "privacy", "gone"} : Reply(r, reply)
    BY <1>5 DEF TelegramUnbans
  <2>3. bannedBy'[jk] = None /\ \A u \in ItemKeys \ {jk} : bannedBy'[u] = bannedBy[u]
    BY <1>1, <2>1
  <2>4. QED
    BY <1>1, <1>2, <2>1, <2>2, <2>3, NoneAssumption
<1>6. QED
  BY <1>3, <1>4, <1>5 DEF TelegramPerforms

LEMMA PerformsFits ==
    ASSUME MembersInv, NEW r \in Runs, TelegramPerforms(r)
    PROVE  MembersInv'
<1>1. /\ Working(r, "handler") /\ ask[r] # None /\ MembersTyped
      /\ UNCHANGED <<queueVars, job, asked, told, shared, deaths>>
  BY DEF TelegramPerforms, MembersInv, RunFits, AskFits
<1>2. /\ UNCHANGED <<storeVars, operator>> /\ QueueTypeOK' /\ \A s \in Runs : RunOK(s)'
      /\ SameRun(r) /\ run'[r].step = "handler"
  BY <1>1, SameLoops
<1>3. PICK reply \in {"none", "ok", "already", "privacy", "gone"} : Reply(r, reply)
  BY <1>1, Performed
<1>4. /\ ask' \in [Runs -> Ask \cup {None}] /\ ask'[r] # None /\ ask'[r].step = ask[r].step
      /\ \A s \in Runs \ {r} : ask'[s] = ask[s]
  BY <1>1, <1>3, Replied
<1>5. /\ member' \in [ItemKeys -> {"absent", "member", "admin"}]
      /\ bannedBy' \in [ItemKeys -> OpIds \cup {None}]
      /\ \A i \in OpIds, u \in ItemKeys : bannedBy'[u] = i =>
            bannedBy[u] = i \/ (i = run[r].id /\ u = Item(r) /\ ~Adding(r))
      /\ ask[r].step = "second" /\ ~Adding(r) => bannedBy'[Item(r)] # run[r].id
  BY <1>1, Performed
<1>6. QED
  BY <1>1, <1>2, <1>4, <1>5, HandlerFits

------------------------------------------------------------------------------
(* The operator, and the invariant. *)

\* What an operator's process leaves of the items.
LEMMA ReopenedItemsCalm ==
    ASSUME StoreInv, NEW id \in OpIds, ResetItems(id)
    PROVE  \A i \in OpIds, u \in ItemKeys : Calm(i, u)
<1>1. items \in [OpIds -> [ItemKeys -> ItemRow \cup {None}]]
  BY DEF StoreInv, StoreTypeOK
<1>2. \A i \in OpIds, u \in ItemKeys :
          \/ items'[i][u] = items[i][u]
          \/ /\ items[i][u] \in ItemRow /\ items[i][u].status \in {"failed", "needs_review"}
             /\ items'[i][u] = Reopened(items[i][u])
  BY <1>1 DEF ResetItems
<1>3. \A row \in ItemRow : Reopened(row).status = "pending"
  BY DEF Reopened, ItemRow
<1>4. QED
  BY <1>2, <1>3 DEF Calm, Done

LEMMA OperatorIsCalm ==
    ASSUME MembersInv, RetryNext
    PROVE  /\ \A i \in OpIds, u \in ItemKeys : Calm(i, u)
           /\ LiveOps' \subseteq LiveOps
<1>1. StoreInv /\ RetryTypeOK
  BY DEF MembersInv, QueueInv
<1>2. PICK o \in Operators :
          \/ \E id \in OpIds : LookAtOperation(o, id)
          \/ RetryItems(o) \/ RetryOperation(o) \/ OperatorStops(o)
  BY DEF RetryNext
<1>3. CASE RetryItems(o)
  <2>1. operator[o].id \in OpIds /\ ResetItems(operator[o].id)
    BY <1>1, <1>3 DEF RetryItems, RetryTypeOK, Retry
  <2>2. UNCHANGED ops
    BY <2>1 DEF ResetItems
  <2>3. QED
    BY <1>1, <2>1, <2>2, ReopenedItemsCalm DEF LiveOps
<1>4. CASE RetryOperation(o)
  <2>1. operator[o].id \in OpIds /\ ResetOperation(operator[o].id)
    BY <1>1, <1>4 DEF RetryOperation, RetryTypeOK, Retry
  <2>2. UNCHANGED items /\ ops \in [OpIds -> OpRow \cup {None}]
    BY <1>1, <2>1 DEF ResetOperation, StoreInv, StoreTypeOK
  <2>3. \A i \in OpIds : ops[i] = None => ops'[i] = None
    BY <2>1, <2>2 DEF ResetOperation
  <2>4. QED
    BY <2>2, <2>3, SameItemsCalm DEF LiveOps
<1>5. CASE UNCHANGED storeVars
  BY <1>5, SameItemsCalm DEF storeVars, LiveOps
<1>6. QED
  BY <1>2, <1>3, <1>4, <1>5 DEF LookAtOperation, OperatorStops

\* Nothing but the operator's part of the store may change.
LEMMA CalmStepFits ==
    ASSUME MembersInv, KeepingNext \/ UNCHANGED storeVars, RetryTypeOK',
           \A i \in OpIds, u \in ItemKeys : Calm(i, u), LiveOps' \subseteq LiveOps,
           UNCHANGED <<run, job, ask, member, bannedBy, asked, told, shared, deaths>>
    PROVE  MembersInv'
<1>1. QueueInv /\ StoreInv /\ MembersTyped /\ KeysFit
  BY DEF MembersInv, QueueInv
<1>2. RowsStay /\ Noted
  BY <1>1, KeepingRowsStay, UnchangedRowsStay DEF Noted
<1>3. QueueInv'
  BY <1>1, <1>2, LoopsKept, QueueInvFrom DEF QueueInv
<1>4. MembersTyped'
  BY <1>1 DEF MembersTyped
<1>5. KeysFit'
  BY <1>1, <1>2, KeysStay
<1>6. \A s \in Runs : RunFits(s)'
  <2> SUFFICES ASSUME NEW s \in Runs
               PROVE  RunFits(s)'
    OBVIOUS
  <2>1. run[s] # None => run[s].id \in OpIds
    BY <1>1, RunFields DEF QueueInv
  <2>2. run[s] # None /\ run[s].id \notin shared' =>
            /\ \A q \in Runs \ {s} : run'[q] = None \/ run'[q].id # run[s].id
            /\ \A u \in ItemKeys : /\ Calm(run[s].id, u)
                                   /\ bannedBy'[u] = run[s].id => bannedBy[u] = run[s].id
    BY <2>1 DEF MembersInv, RunFits, AloneFits
  <2>3. QED
    BY <1>2, <2>2, RunStays
<1>7. \A i \in OpIds, u \in ItemKeys : ItemFits(i, u)'
  BY <1>2, ItemStays
<1>8. QED
  BY <1>3, <1>4, <1>5, <1>6, <1>7 DEF MembersInv

LEMMA MembersInitInv == MembersInit => MembersInv
<1> SUFFICES ASSUME MembersInit
             PROVE  MembersInv
  OBVIOUS
<1>1. StoreInv
  BY InitInv DEF MembersInit
<1>2. QueueInv
  BY <1>1 DEF MembersInit, RetryInit, QueueInit, QueueInv, RetryTypeOK, QueueTypeOK, RunOK
<1>3. MembersTyped
  <2>1. 0 \in 0..MaxDeaths
    BY MembersAssumption
  <2>2. QED
    BY <2>1 DEF MembersInit, MembersTyped
<1>4. LiveOps = {} /\ \A i \in OpIds, u \in ItemKeys : items[i][u] = None
  BY DEF MembersInit, StoreInit, LiveOps
<1>5. \A r \in Runs : RunFits(r)
  BY DEF MembersInit, QueueInit, RunFits, JobFits, AskFits, RecFits, AloneFits, Working
<1>6. \A i \in OpIds, u \in ItemKeys : ItemFits(i, u)
  <2>1. \A i \in OpIds, u \in ItemKeys : bannedBy[u] # i /\ told[i][u] = {}
    BY NoneAssumption DEF MembersInit
  <2>2. QED
    BY <1>4, <2>1 DEF ItemFits, ResultFits, BanFits, ToldFits, Done
<1>7. QED
  BY <1>2, <1>3, <1>4, <1>5, <1>6 DEF MembersInv, KeysFit

LEMMA MembersStepInv == MembersInv /\ [MembersNext]_memberVars => MembersInv'
<1> SUFFICES ASSUME MembersInv, [MembersNext]_memberVars
             PROVE  MembersInv'
  OBVIOUS
<1>1. ASSUME NEW r \in Runs, Request(r) \/ Proceed(r) \/ TelegramPerforms(r) \/ Crash(r)
      PROVE  MembersInv'
  BY <1>1, ServeFits, TakeItemFits, GoesOnFits, AddedFits, RemovedFits, FailuresFit,
     FirstFloodsFits, ResumeFits, FinishBulkFits, PerformsFits, CrashFits DEF Proceed, Handle
<1>2. CASE RetryNext /\ UNCHANGED <<run, job, ask, member, bannedBy, asked, told, shared, deaths>>
  <2>1. RetryTypeOK' /\ (KeepingNext \/ UNCHANGED storeVars)
    BY <1>2, OperatorKeepsRows DEF MembersInv, QueueInv
  <2>2. QED
    BY <1>2, <2>1, OperatorIsCalm, CalmStepFits
<1>3. CASE UNCHANGED memberVars
  <2>1. UNCHANGED <<storeVars, operator>> /\ RetryTypeOK' /\ UNCHANGED <<ops, items>>
    BY <1>3, OperatorStays DEF memberVars, queueVars, retryVars, storeVars, MembersInv, QueueInv
  <2>2. QED
    BY <1>3, <2>1, SameItemsCalm, CalmStepFits DEF memberVars, queueVars, LiveOps
<1>4. QED
  BY <1>1, <1>2, <1>3 DEF MembersNext

------------------------------------------------------------------------------
(* The bulk's use of the store. *)

\* A step of a bulk calls the store as KeepingNext says, or leaves it alone.
LEMMA MembersStepKeeps ==
    MembersInv /\ [MembersNext]_memberVars => KeepingNext \/ UNCHANGED storeVars
<1> SUFFICES ASSUME MembersInv, [MembersNext]_memberVars
             PROVE  KeepingNext \/ UNCHANGED storeVars
  OBVIOUS
<1>1. QueueInv
  BY DEF MembersInv
<1>2. ASSUME NEW r \in Runs, Request(r)
      PROVE  KeepingNext \/ UNCHANGED storeVars
  <2>1. PICK k \in Keys : BulkAddMembers(r, k) \/ BulkRemoveMembers(r, k)
    BY <1>2, MembersAssumption DEF Request
  <2>2. PICK id \in OpIds : \E body : StartBulk(r, k, body, id) \/ ReplayBulk(k, body, id)
    BY <2>1 DEF BulkAddMembers, BulkRemoveMembers, Serve
  <2>3. BeginOperation(TypeOf[k], k, id) \/ UNCHANGED storeVars
    BY <2>2 DEF StartBulk, ReplayBulk
  <2>4. QED
    BY <2>3, MembersAssumption DEF KeepingNext
<1>3. ASSUME NEW r \in Runs, TakeItem(r)
      PROVE  KeepingNext
  BY <1>1, <1>3, NextItemKeeps DEF TakeItem
<1>4. ASSUME NEW r \in Runs, FirstFloods(r)
      PROVE  KeepingNext \/ UNCHANGED storeVars
  <2>1. /\ "needs_review" \in TerminalStatus /\ "FLOOD_WAIT" \in Errors
        /\ Payload("needs_review", None, "FLOOD_WAIT")
    BY MembersAssumption DEF TerminalStatus, Status, Payload, ErrorTexts
  <2>2. QED
    BY <1>1, <1>4, <2>1, ItemEndsKeeps DEF FirstFloods, FloodPause, FloodBudgetSpent
<1>5. ASSUME NEW r \in Runs,
             GoesOn(r) \/ Resume(r) \/ TelegramPerforms(r) \/ Crash(r)
      PROVE  UNCHANGED storeVars
  BY <1>5 DEF GoesOn, Resume, Wake, TelegramPerforms, Crash, queueVars, retryVars
<1>6. ASSUME NEW r \in Runs, Proceed(r)
      PROVE  KeepingNext \/ UNCHANGED storeVars
  BY <1>3, <1>4, <1>5, <1>6, AddedFits, RemovedFits, FailuresFit, FinishBulkFits
     DEF Proceed, Handle
<1>7. CASE RetryNext
  BY <1>1, <1>7, OperatorKeepsRows DEF QueueInv
<1>8. CASE UNCHANGED memberVars
  BY <1>8 DEF memberVars, queueVars, retryVars
<1>9. QED
  BY <1>2, <1>5, <1>6, <1>7, <1>8 DEF MembersNext

------------------------------------------------------------------------------
(* Who completes a bulk. *)

CompletesByList(id) ==
    ops[id].status = "pending" /\ ops'[id].status = "completed" =>
        \E r \in Runs : /\ run[r] # None
                        /\ run[r].id = id
                        /\ Asked(r) \subseteq CompletedItems(id)

LEMMA NoneCompleted ==
    ASSUME NoneCompletes, RowsStay
    PROVE  \A id \in LiveOps : CompletesByList(id)
BY DEF NoneCompletes, RowsStay, CompletesByList

LEMMA SameOpsNoneCompleted ==
    ASSUME UNCHANGED ops
    PROVE  \A id \in LiveOps : CompletesByList(id)
BY DEF CompletesByList

LEMMA FinishedByList ==
    ASSUME MembersInv, NEW r \in Runs, FinishBulk(r)
    PROVE  \A id \in LiveOps : CompletesByList(id)
<1>1. /\ run[r] # None /\ run[r].id \in OpIds /\ run[r].id \in LiveOps
      /\ ops \in [OpIds -> OpRow \cup {None}]
  BY DoneRun DEF MembersInv, QueueInv, StoreInv, StoreTypeOK, FinishBulk
<1>2. CASE NothingLeft(r)
  <2>1. ASSUME NEW u \in Asked(r)
        PROVE  u \in CompletedItems(run[r].id)
    <3>1. PICK known \in BOOLEAN :
             Reported(r, u) = ItemStatus(ops[run[r].id].type, job[r].rec[u], known)
      <4> WITNESS (u \in job[r].existing) \in BOOLEAN
      <4> QED
        BY DEF Reported
    <3>2. /\ u \in ItemKeys /\ job[r].rec[u] \in ItemRow \cup {None}
          /\ ops[run[r].id].type \in Types
      BY <1>1, ReportedFields
    <3>3. job[r].rec[u] # None /\ job[r].rec[u].status = "completed"
      BY <1>2, <3>1, <3>2, ClaimOfRow DEF NothingLeft
    <3>4. Done(run[r].id, u)
      BY <1>1, <3>2, <3>3, ReportedFields
    <3>5. QED
      BY <3>2, <3>4 DEF CompletedItems, Row, Done
  <2>2. \A i \in LiveOps \ {run[r].id} : ops'[i] = ops[i]
    BY <1>1, <1>2 DEF FinishBulk, Transition, LiveOps
  <2>3. QED
    BY <1>1, <2>1, <2>2 DEF CompletesByList
<1>3. CASE ~NothingLeft(r)
  <2>1. PICK row : row = Settled(ops[run[r].id], "needs_review", None, "failed")
    OBVIOUS
  <2>2. ops' = [ops EXCEPT ![run[r].id] = row] /\ ops[run[r].id] \in OpRow
    BY <1>1, <1>3, <2>1 DEF FinishBulk, Transition, LiveOps
  <2>3. row.status = "needs_review" \/ row = ops[run[r].id]
    BY <2>1, <2>2 DEF Settled, OpRow
  <2>4. \A i \in LiveOps : ops'[i].status = "completed" => ops[i].status = "completed"
    BY <1>1, <2>2, <2>3 DEF LiveOps
  <2>5. QED
    BY <2>4 DEF CompletesByList
<1>4. QED
  BY <1>2, <1>3

LEMMA StartedByList ==
    ASSUME MembersInv, NEW r \in Runs, Request(r)
    PROVE  \A id \in LiveOps : CompletesByList(id)
<1>1. PICK k \in Keys : BulkAddMembers(r, k) \/ BulkRemoveMembers(r, k)
  BY MembersAssumption DEF Request
<1>2. PICK id \in OpIds : \E body : StartBulk(r, k, body, id) \/ ReplayBulk(k, body, id)
  BY <1>1 DEF BulkAddMembers, BulkRemoveMembers, Serve
<1>3. CASE BeginOperation(TypeOf[k], k, id)
  <2>1. StoreInv /\ TypeOf[k] \in Types
    BY MembersAssumption DEF MembersInv, QueueInv
  <2>2. KeepingNext
    BY <1>3, <2>1 DEF KeepingNext
  <2>3. QED
    BY <1>3, <2>1, <2>2, KeepingRowsStay, BegunOpsStay, NoneCompleted
<1>4. CASE UNCHANGED storeVars
  BY <1>4, SameOpsNoneCompleted DEF storeVars
<1>5. QED
  BY <1>2, <1>3, <1>4 DEF StartBulk, ReplayBulk

LEMMA HandledByList ==
    ASSUME NEW r \in Runs,
           \/ TakeItem(r) \/ Handle(r) \/ Resume(r) \/ TelegramPerforms(r) \/ Crash(r)
    PROVE  UNCHANGED ops
<1>1. CASE TakeItem(r)
  BY <1>1 DEF TakeItem, NextItem, BeginItem
<1>2. ASSUME NEW s, NEW res, NEW err, ItemEnds(r, s, res, err)
      PROVE  UNCHANGED ops
  BY <1>2 DEF ItemEnds, TransitionItem
<1>3. CASE Added(r) \/ Removed(r) \/ FirstFails(r) \/ SecondFails(r)
  BY <1>2, <1>3 DEF Added, Removed, FirstFails, SecondFails, EndItem
<1>4. CASE FirstFloods(r)
  BY <1>2, <1>4 DEF FirstFloods, FloodPause, FloodBudgetSpent, storeVars
<1>5. CASE GoesOn(r) \/ Resume(r) \/ TelegramPerforms(r) \/ Crash(r)
  BY <1>5 DEF GoesOn, Resume, Wake, TelegramPerforms, Crash, queueVars, retryVars, storeVars
<1>6. QED
  BY <1>1, <1>3, <1>4, <1>5 DEF Handle

LEMMA MembersStepByList ==
    MembersInv /\ [MembersNext]_memberVars => \A id \in LiveOps : CompletesByList(id)
<1> SUFFICES ASSUME MembersInv, [MembersNext]_memberVars
             PROVE  \A id \in LiveOps : CompletesByList(id)
  OBVIOUS
<1>1. ASSUME NEW r \in Runs, Request(r) \/ Proceed(r) \/ TelegramPerforms(r) \/ Crash(r)
      PROVE  \A id \in LiveOps : CompletesByList(id)
  BY <1>1, StartedByList, FinishedByList, HandledByList, SameOpsNoneCompleted DEF Proceed
<1>2. CASE RetryNext
  <2>1. StoreInv /\ RetryTypeOK
    BY DEF MembersInv, QueueInv
  <2>2. RowsStay /\ NoneCompletes
    BY <1>2, <2>1, OperatorKeepsRows, KeepingRowsStay, UnchangedRowsStay, OperatorCompletesNone
  <2>3. QED
    BY <2>2, NoneCompleted
<1>3. CASE UNCHANGED memberVars
  BY <1>3, SameOpsNoneCompleted DEF memberVars, queueVars, retryVars, storeVars
<1>4. QED
  BY <1>1, <1>2, <1>3 DEF MembersNext

------------------------------------------------------------------------------
(* Theorems. *)

\* The inductive invariant, for any number of overlapping bulk_add_members and
\* bulk_remove_members, operators and dying processes.
THEOREM MembersInvariant == MembersSpec => []MembersInv
<1>1. MembersSpec => MembersInit /\ [][MembersNext]_memberVars
  BY DEF MembersSpec
<1>2. QED
  BY <1>1, MembersInitInv, MembersStepInv, PTL

\* The variables keep their types, and a handler (_execute_add, _execute_remove)
\* waits for Telegram exactly while the loop says that it runs.
THEOREM MembersAreTyped == MembersSpec => []MembersTypeOK
<1>1. MembersInv => MembersTypeOK
  <2> SUFFICES ASSUME MembersInv
               PROVE  MembersTypeOK
    OBVIOUS
  <2>1. ASSUME NEW r \in Runs
        PROVE  /\ run[r] = None <=> job[r] = None
               /\ run[r] # None => DOMAIN job[r].as = DOMAIN run[r].list
               /\ ask[r] # None <=> Working(r, "handler")
    <3>1. JobFits(r) /\ AskFits(r)
      BY DEF MembersInv, RunFits
    <3>2. ASSUME run[r] # None
          PROVE  DOMAIN job[r].as = DOMAIN run[r].list
      <4>1. run[r].list \in Seq(ItemKeys)
        BY <3>2, RunFields DEF MembersInv, QueueInv
      <4>2. /\ Len(job[r].as) = Len(run[r].list)
            /\ job[r].as \in Seq(IF Adding(r) THEN Roles ELSE Modes)
        BY <3>1, <3>2 DEF JobFits
      <4>3. QED
        BY <4>1, <4>2, LenProperties
    <3>3. QED
      BY <3>1, <3>2 DEF JobFits, AskFits
  <2>2. QED
    BY <2>1 DEF MembersInv, QueueInv, StoreInv, MembersTyped, MembersTypeOK
<1>2. QED
  BY <1>1, MembersInvariant, PTL

\* bulk_add_members, bulk_remove_members, their loops and the operators use the
\* store's own calls and nothing else, so that all that is proved of StoreSpec
\* holds under them.
THEOREM MembersUseStore == MembersSpec => StoreSpec
<1>1. MembersSpec => MembersInit /\ [][MembersNext]_memberVars
  BY DEF MembersSpec
<1>2. MembersInit => StoreInit
  BY DEF MembersInit
<1>3. MembersInv /\ [MembersNext]_memberVars => [StoreNext]_storeVars
  BY MembersStepKeeps, KeepingIsStoreStep
<1>4. QED
  BY <1>1, <1>2, <1>3, MembersInvariant, PTL DEF StoreSpec

\* What a member bulk has done is never undone in the store: its parent and its
\* items keep their rows, and what is completed of them stays so, whoever else
\* works on the bulk, retries it or dies.
THEOREM MembersAreKept == MembersSpec => [][RowsStay]_storeVars
<1>1. MembersSpec => [][MembersNext]_memberVars
  BY DEF MembersSpec
<1>2. MembersInv /\ [MembersNext]_memberVars => [RowsStay]_storeVars
  BY MembersStepKeeps, KeepingRowsStay DEF MembersInv, QueueInv
<1>3. QED
  BY <1>1, <1>2, MembersInvariant, PTL

\* An item that bulk_add_members only ever ran for an admin completes promoted
\* or forbidden by privacy, also when several requests work on it at once.
THEOREM CompletedAdminsArePromoted == MembersSpec => []CompletedAdminIsPromoted
<1>1. MembersInv => CompletedAdminIsPromoted
  BY DEF MembersInv, ItemFits, ResultFits, CompletedAdminIsPromoted, LiveOps, Row, Done
<1>2. QED
  BY <1>1, MembersInvariant, PTL

\* A kick that bulk_remove_members completes as removed leaves no ban of its
\* own behind, if no two requests worked on the bulk at once.
THEOREM KicksLeaveNoBan == MembersSpec => []KickLeavesNoBan
<1>1. MembersInv => KickLeavesNoBan
  <2> SUFFICES ASSUME MembersInv, NEW id \in LiveOps \ shared, NEW u \in ItemKeys,
                      bannedBy[u] = id, Row(id, u).status = "completed"
               PROVE  Row(id, u).result.mode = "ban" \/ Row(id, u).result.status = "not_present"
    BY DEF KickLeavesNoBan
  <2>1. BanFits(id, u)
    BY DEF MembersInv, ItemFits, LiveOps
  <2>2. QED
    BY <2>1 DEF BanFits, Done, Row
<1>2. QED
  BY <1>1, MembersInvariant, PTL

\* No two answers of one bulk contradict each other about a user
\* (_item_status_from_record), if no two requests worked on it at once.
THEOREM PrivacySticks == MembersSpec => []PrivacyIsSticky
<1>1. MembersInv => PrivacyIsSticky
  <2> SUFFICES ASSUME MembersInv, NEW id \in LiveOps \ shared, NEW u \in ItemKeys
               PROVE  Cardinality(told[id][u]) <= 1
    BY DEF PrivacyIsSticky
  <2>1. ToldFits(id, u)
    BY DEF MembersInv, ItemFits, LiveOps
  <2>2. told[id][u] = {} \/ \E verdict : told[id][u] = {verdict}
    BY <2>1 DEF ToldFits
  <2>3. Cardinality(told[id][u]) = 0 \/ Cardinality(told[id][u]) = 1
    BY <2>2, FS_EmptySet, FS_Singleton
  <2>4. QED
    BY <2>3
<1>2. QED
  BY <1>1, MembersInvariant, PTL

\* bulk_add_members and bulk_remove_members complete a bulk only when all items
\* of the request's own list are completed at that moment.
THEOREM BulksCompleteByFullList == MembersSpec => CompletedByFullList
<1>1. MembersSpec => [][MembersNext]_memberVars
  BY DEF MembersSpec
<1>2. MembersInv /\ [MembersNext]_memberVars =>
        [\A id \in LiveOps : CompletesByList(id)]_memberVars
  BY MembersStepByList
<1>3. (\A id \in LiveOps : CompletesByList(id)) =>
        \A id \in LiveOps :
          ops[id].status = "pending" /\ ops'[id].status = "completed" =>
              \E r \in Runs :
                  /\ run[r] # None
                  /\ run[r].id = id
                  /\ Asked(r) \subseteq CompletedItems(id)
  BY DEF CompletesByList
<1>4. QED
  BY <1>1, <1>2, <1>3, MembersInvariant, PTL DEF CompletedByFullList
==============================================================================
