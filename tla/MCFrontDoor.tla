----------------------------- MODULE MCFrontDoor -----------------------------
(* FrontDoor under TLC: every request of every command.                      *)
EXTENDS FrontDoor

\* Every property relates the command to its rehearsal or to the API, and none the
\* rehearsal to the API.  A rehearsal changes nothing that another run reads (theorem
\* RehearsalsOnlyRehearse), so behaviours in which only one of the two runs beside
\* the command are all that TLC needs to see.
RehearsalOrApi == run["dry"].state = "idle" \/ run["http"].state = "idle"
==============================================================================
