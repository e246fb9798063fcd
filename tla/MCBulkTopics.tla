----------------------------- MODULE MCBulkTopics -----------------------------
(* BulkTopics under TLC: two requests of the same operation_id with the same  *)
(* two items, one process death, one operator.                                *)
EXTENDS BulkTopics

CONSTANTS i1, i2

MCTypes == {BulkType}
MCRequests == {<<i1, i2>>}
==============================================================================
