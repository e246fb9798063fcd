------------------------------ MODULE MCMassSend ------------------------------
(* MassSend under TLC: one operation_id, two chats of up to two topics each, *)
(* of which two messages can be sent (two operation ids).                    *)
EXTENDS MassSend, TLC

ASSUME MassAssumption == MassConstants

MCKeys == MassOps \X Chats \X TopicIds
MCTypes == ShotTypes
MCTypeOf == [k \in MCKeys |-> "message_send"]

Alike == Permutations(OpIds) \cup Permutations(Callers) \cup Permutations(Chats)
==============================================================================
