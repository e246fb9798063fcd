------------------------------- MODULE MCServer -------------------------------
(* Server under TLC: the lifespan, the retry task and one health poll at a    *)
(* time, and two requests that place two chats in a folder, which the owner   *)
(* may rename or delete meanwhile.                                            *)
EXTENDS Server

CONSTANTS f1, nA, nB

\* By name alone, and cross-checked with an id.
MCWanted == {[name |-> nA, id |-> None], [name |-> nA, id |-> f1]}
==============================================================================
