---------------------------- MODULE OperatorRetry ----------------------------
(***************************************************************************)
(* cli/main.py, "operations retry": an operator's CLI process, which reads *)
(* an operation and then reopens its items and itself in two separate      *)
(* transactions of the store.  The server process writes the same database *)
(* in between, so each store call is an action.  The modules of the        *)
(* services EXTEND this one and add the handlers.                          *)
(***************************************************************************)
EXTENDS OperationStore

CONSTANT Operators   \* CLI processes running "operations retry"

VARIABLE operator    \* what each process read, or None when it is not running

retryVars == <<storeVars, operator>>

Retry == [id : OpIds, seen : Status \ {"completed"}, step : {"items", "operation"}]

RetryTypeOK == operator \in [Operators -> Retry \cup {None}]

RetryInit == operator = [o \in Operators |-> None]

\* get_operation: an unknown or completed operation ends the command, any
\* other status is kept for the decision at the end.
LookAtOperation(o, id) ==
    /\ operator[o] = None
    /\ id \in LiveOps
    /\ ops[id].status # "completed"
    /\ operator' = [operator EXCEPT ![o] =
                        [id |-> id, seen |-> ops[id].status, step |-> "items"]]
    /\ UNCHANGED storeVars

\* reset_items_for_retry; the operation itself is left alone when it was read
\* as pending.
RetryItems(o) ==
    /\ operator[o] # None
    /\ operator[o].step = "items"
    /\ ResetItems(operator[o].id)
    /\ operator' = [operator EXCEPT ![o] =
                        IF @.seen = "pending" THEN None ELSE [@ EXCEPT !.step = "operation"]]

\* reset_operation_for_retry; it raises, and writes nothing, when the operation
\* has gone or has completed since it was read.
RetryOperation(o) ==
    /\ operator[o] # None
    /\ operator[o].step = "operation"
    /\ ResetOperation(operator[o].id)
    /\ operator' = [operator EXCEPT ![o] = None]

\* The process is killed between two of its steps.
OperatorStops(o) ==
    /\ operator[o] # None
    /\ operator' = [operator EXCEPT ![o] = None]
    /\ UNCHANGED storeVars

RetryNext ==
    \E o \in Operators :
        \/ \E id \in OpIds : LookAtOperation(o, id)
        \/ RetryItems(o)
        \/ RetryOperation(o)
        \/ OperatorStops(o)
==============================================================================
