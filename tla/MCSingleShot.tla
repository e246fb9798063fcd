----------------------------- MODULE MCSingleShot -----------------------------
(* SingleShot under TLC: one key of each of the four services, of which two *)
(* can be in use at a time (two operation ids), two callers, one operator.  *)
EXTENDS SingleShot, TLC

CONSTANTS kTopic, kClose, kLayout, kMessage

MCTypes == ShotTypes
MCTypeOf == kTopic :> "topic_create" @@ kClose :> "topic_close"
            @@ kLayout :> "group_layout_set" @@ kMessage :> "message_send"

\* The most favourable world for a reopened operation: no process dies in the
\* middle of a request, callers keep repeating their requests, and a command
\* the operator has started goes on.
PatientFairness ==
    /\ AnswersCome
    /\ \A c \in Callers, k \in Keys : WF_shotVars(Request(c, k))
    /\ \A o \in Operators : WF_shotVars((RetryItems(o) \/ RetryOperation(o))
                                        /\ UNCHANGED <<call, applied, told, lost>>)

PatientSpec == ShotInit /\ [][ShotStep]_shotVars /\ PatientFairness
==============================================================================
