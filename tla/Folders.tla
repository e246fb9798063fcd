------------------------------- MODULE Folders -------------------------------
(***************************************************************************)
(* folders/service.py and folders/telethon_backend.py: finding a chat      *)
(* folder by name, and placing a chat in it.  Telegram keeps the folders   *)
(* and only offers to read them all and to write one as a whole, so        *)
(* placing a chat is a read, a wait and a write; the account's owner, in   *)
(* the Telegram app, and other placements change the folders in between.   *)
(*                                                                         *)
(* A listed chat that cannot be resolved, and pinned chats, are left out.  *)
(***************************************************************************)
EXTENDS Naturals, FiniteSets

CONSTANTS Chats,
          FolderIds,
          FolderNames,
          Wanted,      \* the folders that callers ask for: name and id, or None for no id
          Placers,     \* processes and requests that place a chat in a folder
          MaxChanges,  \* bound: placements that are begun, and changes made by hand
          None         \* no folder, no id, nothing under way

VARIABLES folders,     \* Telegram's copy: id -> name and chats, or None
          placing,     \* placer -> the placement it is in the middle of, or None
          placed,      \* <<folder, chat>>: what placers were told is done
          excused,     \* <<folder, chat>>: taken out by hand or by overlapping writes
          changes      \* how many placements were begun and changes made by hand

folderVars == <<folders, placing, placed, excused, changes>>

Folder == [name : FolderNames, chats : SUBSET Chats]

Placement == [folder : FolderIds, chat : Chats, step : {"resolve", "fetch", "write"},
              already : BOOLEAN, seen : Folder \cup {None}]

\* What is assumed of the constants, where they are given values.
WantedConstants ==
    /\ Wanted \subseteq [name : FolderNames, id : FolderIds \cup {None}]
    /\ None \notin FolderIds \cup Folder \cup Placement
    /\ MaxChanges \in Nat

FolderTypeOK ==
    /\ folders \in [FolderIds -> Folder \cup {None}]
    /\ placing \in [Placers -> Placement \cup {None}]
    /\ placed \in SUBSET (FolderIds \X Chats)
    /\ excused \in SUBSET (FolderIds \X Chats)
    /\ changes \in 0 .. MaxChanges

FolderInit ==
    /\ folders \in [FolderIds -> [name : FolderNames, chats : SUBSET Chats] \cup {None}]
    /\ placing = [p \in Placers |-> None]
    /\ placed = {}
    /\ excused = {}
    /\ changes = 0

\* resolve_folder: by name, cross-checked with the id when there is one; none
\* or, without an id, several candidates raise.
Resolved(want) ==
    LET named == {f \in FolderIds : folders[f] # None /\ folders[f].name = want.name}
    IN  IF want.id # None THEN named \cap {want.id}
        ELSE IF Cardinality(named) = 1 THEN named ELSE {}

Change == changes < MaxChanges /\ changes' = changes + 1

------------------------------------------------------------------------------
(* add_chat_to_folder. *)

\* The folder is found, and whether the chat is in it is known, before the wait
\* for resolve_chat.
ListFolders(p, want, c) ==
    /\ Change
    /\ placing[p] = None
    /\ \E f \in Resolved(want) :
          placing' = [placing EXCEPT ![p] =
                        [folder |-> f, chat |-> c, step |-> "resolve",
                         already |-> c \in folders[f].chats, seen |-> None]]
    /\ UNCHANGED <<folders, placed, excused>>

At(p, step) == placing[p] # None /\ placing[p].step = step
Pair(p) == <<placing[p].folder, placing[p].chat>>

\* A chat that was in the folder is reported as it is.
ResolveChat(p) ==
    /\ At(p, "resolve")
    /\ IF placing[p].already
       THEN /\ placing' = [placing EXCEPT ![p] = None]
            /\ placed' = placed \cup {Pair(p)}
       ELSE /\ placing' = [placing EXCEPT ![p].step = "fetch"]
            /\ UNCHANGED placed
    /\ UNCHANGED <<folders, excused, changes>>

\* The filters are read anew; a folder that has gone meanwhile raises.
FetchFilters(p) ==
    /\ At(p, "fetch")
    /\ LET seen == folders[placing[p].folder]
       IN  placing' = [placing EXCEPT ![p] =
                          IF seen = None THEN None ELSE [@ EXCEPT !.step = "write", !.seen = seen]]
    /\ UNCHANGED <<folders, placed, excused, changes>>

\* What a write replaces: an overlapped one is excused for the chats it drops.
Dropped(f, chats) == IF folders[f] = None THEN {} ELSE {f} \X (folders[f].chats \ chats)
Overlapped(p) == folders[placing[p].folder] # placing[p].seen

\* Fault: the filter is written with the new chat only.
WriteFilterAlone(p) ==
    /\ At(p, "write")
    /\ LET f == placing[p].folder
           written == [placing[p].seen EXCEPT !.chats = {placing[p].chat}]
       IN  /\ folders' = [folders EXCEPT ![f] = written]
           /\ excused' = IF Overlapped(p) THEN excused \cup Dropped(f, written.chats)
                         ELSE excused
    /\ placed' \in {placed, placed \cup {Pair(p)}}
    /\ placing' = [placing EXCEPT ![p] = None]
    /\ UNCHANGED changes

\* The filter that was read is written back with the chat appended, name and
\* all; the answer may be lost.
WriteFilter(p) ==
    /\ At(p, "write")
    /\ LET f == placing[p].folder
           written == [placing[p].seen EXCEPT !.chats = @ \cup {placing[p].chat}]
       IN  /\ folders' = [folders EXCEPT ![f] = written]
           /\ excused' = IF Overlapped(p) THEN excused \cup Dropped(f, written.chats)
                         ELSE excused
    /\ placed' \in {placed, placed \cup {Pair(p)}}
    /\ placing' = [placing EXCEPT ![p] = None]
    /\ UNCHANGED changes

\* A request raises, or the process dies.
PlacementFails(p) ==
    /\ placing[p] # None
    /\ placing' = [placing EXCEPT ![p] = None]
    /\ UNCHANGED <<folders, placed, excused, changes>>

AddChatToFolder(p) ==
    \/ \E want \in Wanted, c \in Chats : ListFolders(p, want, c)
    \/ ResolveChat(p)
    \/ FetchFilters(p)
    \/ WriteFilter(p)
    \/ PlacementFails(p)

------------------------------------------------------------------------------
(* The owner of the account, in the Telegram app. *)

RenameFolder(f, name) ==
    /\ Change
    /\ folders[f] # None
    /\ folders' = [folders EXCEPT ![f].name = name]
    /\ UNCHANGED <<placing, placed, excused>>

DeleteFolder(f) ==
    /\ Change
    /\ folders[f] # None
    /\ folders' = [folders EXCEPT ![f] = None]
    /\ excused' = excused \cup {f} \X folders[f].chats
    /\ UNCHANGED <<placing, placed>>

PutChat(f, c) ==
    /\ Change
    /\ folders[f] # None
    /\ folders' = [folders EXCEPT ![f].chats = @ \cup {c}]
    /\ UNCHANGED <<placing, placed, excused>>

TakeChat(f, c) ==
    /\ Change
    /\ folders[f] # None
    /\ c \in folders[f].chats
    /\ folders' = [folders EXCEPT ![f].chats = @ \ {c}]
    /\ excused' = excused \cup {<<f, c>>}
    /\ UNCHANGED <<placing, placed>>

OwnerEdits ==
    \E f \in FolderIds :
        \/ \E name \in FolderNames : RenameFolder(f, name)
        \/ DeleteFolder(f)
        \/ \E c \in Chats : PutChat(f, c) \/ TakeChat(f, c)

FolderNext == OwnerEdits \/ \E p \in Placers : AddChatToFolder(p)

FolderSpec == FolderInit /\ [][FolderNext]_folderVars

------------------------------------------------------------------------------
(* Properties. *)

\* A chat that a caller was told is in a folder stays there, through any number
\* of later placements, until the owner takes it out or two writes of the
\* folder overlap: no placement that runs alone drops what others have placed.
PlacedStays ==
    \A pair \in placed :
        \/ pair \in excused
        \/ folders[pair[1]] # None /\ pair[2] \in folders[pair[1]].chats
==============================================================================
