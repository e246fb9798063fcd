-------------------------------- MODULE Server --------------------------------
(***************************************************************************)
(* The folder endpoints of the HTTP server (http_api/folders.py) on the    *)
(* shared session.  A request is refused with 503 while the manager has no *)
(* client; otherwise its backend wraps the client of that moment and       *)
(* places the chat with it, whatever becomes of the session meanwhile.     *)
(*                                                                         *)
(* EXTENDS Session and composes it with Folders: the placers are requests. *)
(***************************************************************************)
EXTENDS Session

CONSTANTS Chats, FolderIds, FolderNames, Wanted, Placers, MaxChanges   \* see Folders

VARIABLES folders, placing, placed, excused, changes,                  \* see Folders
          handle       \* request -> the client its backend wraps, or None

INSTANCE Folders

ASSUME WantedAssumption == WantedConstants

filterVars == <<folders, placing, placed, excused, changes>>
serverVars == <<sessionVars, filterVars, handle>>

ServerInit ==
    /\ SessionInit
    /\ FolderInit
    /\ handle = [p \in Placers |-> None]

\* _backend_or_503 and _default_folder_backend_factory: without a client the
\* answer is 503, with one that has no connection, or without such a folder, an
\* error; none of them changes anything.
Accept(p, want, c) ==
    /\ phase = "serving"
    /\ client \in linked
    /\ ListFolders(p, want, c)
    /\ handle' = [handle EXCEPT ![p] = client]
    /\ UNCHANGED sessionVars

\* add_chat: each of its requests to Telegram needs the connection of the client
\* that the backend wraps.
Serve(p) ==
    /\ handle[p] \in linked
    /\ ResolveChat(p) \/ FetchFilters(p) \/ WriteFilter(p)
    /\ handle' = [handle EXCEPT ![p] = IF placing'[p] = None THEN None ELSE @]
    /\ UNCHANGED sessionVars

\* Fault: a request that raises keeps its client.
RefuseKeepingClient(p) ==
    /\ PlacementFails(p)
    /\ UNCHANGED <<sessionVars, handle>>

\* One of them raises: 404, 409, 500 or 502.
Refuse(p) ==
    /\ PlacementFails(p)
    /\ handle' = [handle EXCEPT ![p] = None]
    /\ UNCHANGED sessionVars

\* The server serves its requests to their end before it shuts down.
SessionStep ==
    /\ SessionNext
    /\ phase' = "stopped" => phase = "stopped" \/ \A p \in Placers : placing[p] = None
    /\ UNCHANGED <<filterVars, handle>>

ServerNext ==
    \/ SessionStep
    \/ OwnerEdits /\ UNCHANGED <<sessionVars, handle>>
    \/ \E p \in Placers :
          \/ \E want \in Wanted, c \in Chats : Accept(p, want, c)
          \/ Serve(p)
          \/ Refuse(p)

ServerSpec ==
    /\ ServerInit
    /\ [][ServerNext]_serverVars
    /\ ConnectsEnd
    /\ HealthIsPolled

------------------------------------------------------------------------------
(* Properties. *)

ServerTypeOK ==
    /\ SessionTypeOK
    /\ FolderTypeOK
    /\ handle \in [Placers -> Clients \cup {None}]
    /\ \A p \in Placers : placing[p] # None <=> handle[p] # None
==============================================================================
