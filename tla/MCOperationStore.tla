--------------------------- MODULE MCOperationStore ---------------------------
(* OperationStore under TLC: two keys of two types, three ids, so that a key *)
(* can be deleted and claimed again, and one bulk item per operation.        *)
EXTENDS OperationStore, TLC

Symmetry == Permutations(OpIds)
==============================================================================
