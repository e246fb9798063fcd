------------------------------ MODULE AtMostOnce ------------------------------
(***************************************************************************)
(* What the services that do one thing in Telegram under one idempotency   *)
(* key promise to those who call them: the request of a key is performed   *)
(* at most once, then the first message that belongs to it at most once,   *)
(* and success is told only of a performed request, and to everyone with   *)
(* the same result.  Requests, rows, processes and the operator's command  *)
(* are not part of the promise: SingleShot has them, and implements it.    *)
(***************************************************************************)
EXTENDS Naturals

CONSTANTS Keys,      \* idempotency keys
          Results    \* result payloads

VARIABLES applied,   \* key -> step -> how often Telegram performed that request
          told       \* key -> the results callers were given as success

\* The request itself, and the first message of a created topic.
PromisedSteps == {"call", "message"}

OnceInit ==
    /\ applied = [k \in Keys |-> [s \in PromisedSteps |-> 0]]
    /\ told = [k \in Keys |-> {}]

\* Telegram performs a request that it never performed before.
Perform(k, s) ==
    /\ applied[k][s] = 0
    /\ s = "message" => applied[k]["call"] = 1
    /\ applied' = [applied EXCEPT ![k][s] = 1]
    /\ UNCHANGED told

\* A caller is told of success, with the result that all before it were told.
Tell(k, res) ==
    /\ applied[k]["call"] = 1
    /\ told[k] \subseteq {res}
    /\ told' = [told EXCEPT ![k] = {res}]
    /\ UNCHANGED applied

OnceNext ==
    \E k \in Keys :
        \/ \E s \in PromisedSteps : Perform(k, s)
        \/ \E res \in Results : Tell(k, res)

OnceSpec == OnceInit /\ [][OnceNext]_<<applied, told>>
==============================================================================
