---------------------------- MODULE MCBulkMembers ----------------------------
(* BulkMembers under TLC: one bulk of additions and one of removals, two      *)
(* users, lists that overlap, one operator.                                   *)
EXTENDS BulkMembers, TLC

CONSTANTS u1, u2, kAdd, kRemove, q1, q2

MCTypes == {AddType, RemoveType}
MCTypeOf == kAdd :> AddType @@ kRemove :> RemoveType
MCRequests ==
    AddType :> {[items |-> <<[user |-> u1, as |-> "admin"]>>, stop |-> FALSE],
                [items |-> <<[user |-> u2, as |-> "member"]>>, stop |-> FALSE]}
    @@ RemoveType :> {[items |-> <<[user |-> u1, as |-> m]>>, stop |-> FALSE] : m \in Modes}
MCSends == q1 :> {kAdd} @@ q2 :> {kRemove}
MCJoined == {{u1}}
MCSymmetry == Permutations(OpIds)
MCResults == AddResult \cup RemoveResult \cup CountsResult
MCErrors == ErrorTexts
==============================================================================
