---------------------------- MODULE MCGroupCreate ----------------------------
(* GroupCreate under TLC: two callers of two keys, one of which skips the     *)
(* folder; three ids and three chats, so that a lost chat can be replaced by  *)
(* both callers at once.                                                      *)
EXTENDS GroupCreate

MCTypes == {GroupType}
MCResults == Chats
==============================================================================
