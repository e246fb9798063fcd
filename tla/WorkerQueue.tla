----------------------------- MODULE WorkerQueue -----------------------------
(***************************************************************************)
(* WorkerQueue.run_bulk and _run_item (worker/queue.py): the loop that     *)
(* takes the items of a bulk operation one by one, runs the service's      *)
(* handler on those that are pending, sleeps through FLOOD_WAIT a bounded  *)
(* number of times and writes each item's outcome.  The services that run  *)
(* bulks EXTEND this module and add the handler.                           *)
(*                                                                         *)
(* Every request makes a queue of its own, so the semaphore is never       *)
(* contended within one run and bounds nothing between runs: it is left    *)
(* out.  run_operation and resume_bulk have no caller in the program.      *)
(***************************************************************************)
EXTENDS OperatorRetry, Sequences

CONSTANTS Runs,           \* requests that run a bulk
          MaxFloodWaits   \* max_flood_wait_retries

ASSUME MaxFloodWaitsAssumption == MaxFloodWaits \in Nat \ {0}

VARIABLE run              \* what each request's loop is doing, or None

queueVars == <<retryVars, run>>

\* "next": between two items; "handler": the handler runs on the first item of
\* todo; "pause": sleeping off a FLOOD_WAIT of that item.
RunSteps == {"next", "handler", "pause"}

\* records: the statuses run_bulk returns, for the items it has dealt with.
RunRec == [id : OpIds, list : Seq(ItemKeys), todo : Seq(ItemKeys), stop : BOOLEAN,
           step : RunSteps, floods : 0..(MaxFloodWaits - 1),
           records : [ItemKeys -> Status \cup {None}]]

\* No record is no status, and no run is none.
ASSUME RecordsAssumption == None \notin Status /\ None \notin RunRec

QueueInit == run = [r \in Runs |-> None]

Working(r, step) == run[r] # None /\ run[r].step = step
Item(r) == Head(run[r].todo)
LoopDone(r) == Working(r, "next") /\ run[r].todo = <<>>

StartRun(r, id, list, stop) ==
    run' = [run EXCEPT ![r] =
               [id |-> id, list |-> list, todo |-> list, stop |-> stop, step |-> "next",
                floods |-> 0, records |-> [ik \in ItemKeys |-> None]]]

\* Fault: the loop goes on after a failed item although it was told to stop.
RecordedWithoutStop(rec, ik, status) ==
    [rec EXCEPT !.step = "next", !.floods = 0, !.records[ik] = status, !.todo = Tail(@)]

\* The record of an item is in; with stop_on_failure anything but completed
\* ends the loop.
Recorded(rec, ik, status) ==
    [rec EXCEPT !.step = "next", !.floods = 0, !.records = [@ EXCEPT ![ik] = status],
                !.todo = IF rec.stop /\ status # "completed" THEN <<>> ELSE Tail(@)]

\* begin_item; an item that is not pending is recorded as it is, a pending one
\* goes to the handler.
NextItem(r) ==
    /\ Working(r, "next")
    /\ run[r].todo # <<>>
    /\ BeginItem(run[r].id, Item(r))
    /\ LET row == items'[run[r].id][Item(r)] IN
       run' = [run EXCEPT ![r] = IF row.status = "pending"
                                 THEN [@ EXCEPT !.step = "handler"]
                                 ELSE Recorded(@, Item(r), row.status)]

\* Fault: the loop trusts its own verdict instead of the row it gets back.
ItemEndsUnread(r, s, res, err) ==
    /\ Working(r, "handler")
    /\ TransitionItem(run[r].id, Item(r), s, res, err)
    /\ run' = [run EXCEPT ![r] = Recorded(@, Item(r), s)]

\* The handler returned or raised: complete_item, fail_item or
\* mark_item_needs_review, and the record is the row as it then is.
ItemEnds(r, s, res, err) ==
    /\ Working(r, "handler")
    /\ TransitionItem(run[r].id, Item(r), s, res, err)
    /\ run' = [run EXCEPT ![r] = Recorded(@, Item(r), items'[run[r].id][Item(r)].status)]

\* Fault: the FLOOD_WAITs of an item are not counted.
FloodPauseUncounted(r) ==
    /\ Working(r, "handler")
    /\ run' = [run EXCEPT ![r].step = "pause"]
    /\ UNCHANGED storeVars

\* Fault: the FLOOD_WAITs of an item are counted and not limited.
FloodPauseUnlimited(r) ==
    /\ Working(r, "handler")
    /\ run' = [run EXCEPT ![r] = [@ EXCEPT !.step = "pause", !.floods = @ + 1]]
    /\ UNCHANGED storeVars

\* FLOOD_WAIT within the budget: sleep, then run the same handler again.
FloodPause(r) ==
    /\ Working(r, "handler")
    /\ run[r].floods + 1 < MaxFloodWaits
    /\ run' = [run EXCEPT ![r] = [@ EXCEPT !.step = "pause", !.floods = run[r].floods + 1]]
    /\ UNCHANGED storeVars

\* FLOOD_WAIT that uses up the budget.
FloodBudgetSpent(r, err) ==
    /\ run[r].floods + 1 >= MaxFloodWaits
    /\ ItemEnds(r, "needs_review", None, err)

Wake(r) ==
    /\ Working(r, "pause")
    /\ run' = [run EXCEPT ![r].step = "handler"]
    /\ UNCHANGED storeVars

\* The request is over, or its process died.
EndRun(r) == run' = [run EXCEPT ![r] = None]

QueueTypeOK == run \in [Runs -> RunRec \cup {None}]
==============================================================================
