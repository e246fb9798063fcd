------------------------------ MODULE KeyLedger ------------------------------
(***************************************************************************)
(* What the operation store promises to the services built on it: one slot *)
(* per idempotency key.  A free slot is claimed by exactly one caller, a   *)
(* claimed slot receives one outcome, an outcome other than "completed"    *)
(* can be reopened by an operator, and a slot can be dropped.  Nothing     *)
(* else ever happens to a key.  OperationStore implements this machine     *)
(* with three SQL tables.                                                  *)
(***************************************************************************)
CONSTANTS Keys,      \* idempotency keys
          Results,   \* result payloads
          Errors,    \* error texts
          None       \* SQL NULL

VARIABLE slot        \* slot[k]: what the key's current operation looks like

TerminalStatus == {"completed", "failed", "needs_review"}

Free == [status |-> "free", result |-> None, error |-> None]
Claimed == [status |-> "pending", result |-> None, error |-> None]

\* The outcomes of a terminal status: a completed slot holds a result and no
\* error, the two others an error and no result.
Outcome(s) ==
    IF s = "completed"
    THEN [status: {s}, result: Results, error: {None}]
    ELSE [status: {s}, result: {None}, error: Errors]

LedgerInit == slot = [k \in Keys |-> Free]

Claim(k) == slot[k] = Free /\ slot' = [slot EXCEPT ![k] = Claimed]

\* A first outcome, or the same kind of outcome once more (the payload may
\* then be replaced).
Settle(k, s) ==
    /\ slot[k].status \in {"pending", s}
    /\ \E o \in Outcome(s) : slot' = [slot EXCEPT ![k] = o]

Reopen(k) ==
    /\ slot[k].status \in {"failed", "needs_review"}
    /\ slot' = [slot EXCEPT ![k] = Claimed]

Drop(k) == slot[k] # Free /\ slot' = [slot EXCEPT ![k] = Free]

LedgerNext ==
    \E k \in Keys :
        \/ Claim(k)
        \/ \E s \in TerminalStatus : Settle(k, s)
        \/ Reopen(k)
        \/ Drop(k)

LedgerSpec == LedgerInit /\ [][LedgerNext]_slot
==============================================================================
