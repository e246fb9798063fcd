----------------------------- MODULE ServerProofs -----------------------------
(***************************************************************************)
(* Safety of the server: of the shared session under racing connects and   *)
(* outages, and of the folder placements that go through it.  Every step   *)
(* of the server is a step of the session, an edit by the owner, or a      *)
(* request; each half of the state has its own invariant, which the steps  *)
(* of the other half leave alone.                                          *)
(***************************************************************************)
EXTENDS Server, TLAPS

------------------------------------------------------------------------------
(* The session. *)

\* While no connect() has failed under another caller, all callers wait for the
\* cached client; and a stopped process waits for nothing.
AllWaitForCached ==
    /\ raced \/ \A u \in Users : waits[u] # None => waits[u] = client
    /\ phase = "stopped" => ~retry /\ \A u \in Users : waits[u] = None

\* CacheHoldsNoStillborn holds before the server serves, too.
StillbornIsAwaited ==
    phase # "stopped" /\ client # None /\ client \notin proven =>
        \E u \in Users : waits[u] = client

SessionInv ==
    /\ SessionTypeOK
    /\ OneClientUnlessRaced
    /\ AllWaitForCached
    /\ StillbornIsAwaited

LEMMA NamedUsers == "lifespan" \in Users /\ "retry" \in Users /\ Polls \subseteq Users
BY DEF Users

LEMMA SessionInitInv == SessionInit => SessionInv
<1> SUFFICES ASSUME SessionInit
             PROVE  SessionInv
  OBVIOUS
<1>1. SessionTypeOK
  <2>1. 0 \in 0 .. MaxOutages
    BY SessionAssumption
  <2>2. QED
    BY <2>1, NamedUsers DEF SessionInit, SessionTypeOK
<1>2. OneClientUnlessRaced
  BY DEF SessionInit, OneClientUnlessRaced
<1>3. AllWaitForCached /\ StillbornIsAwaited
  BY NamedUsers DEF SessionInit, AllWaitForCached, StillbornIsAwaited
<1>4. QED
  BY <1>1, <1>2, <1>3 DEF SessionInv

\* The factory's object is new: nobody holds it.
LEMMA NewClientIsFree ==
    ASSUME \E c \in Clients : ~Held(c)
    PROVE  NewClient \in Clients /\ ~Held(NewClient)
BY DEF NewClient

\* What the callers of get_client keep, whoever calls it; Keeps leaves out phase
\* and retry, which the callers change.
Kept ==
    /\ client \in Clients \cup {None}
    /\ waits \in [Users -> Clients \cup {None}]
    /\ linked \in SUBSET Clients
    /\ proven \in SUBSET Clients
    /\ emptyHanded \in BOOLEAN
    /\ raced \in BOOLEAN
    /\ raced \/ (linked \subseteq {client} /\ ~emptyHanded)
    /\ raced \/ \A u \in Users : waits[u] # None => waits[u] = client
    /\ client # None /\ client \notin proven => \E u \in Users : waits[u] = client

LEMMA GetClientKeeps ==
    ASSUME Kept, NEW u \in Users, GetClient(u)
    PROVE  /\ Kept'
           /\ waits' = [waits EXCEPT ![u] = client']
           /\ UNCHANGED <<reachable, outages>>
<1>1. client' \in Clients
  BY NewClientIsFree DEF GetClient, Kept
<1>2. waits' \in [Users -> Clients \cup {None}] /\ \A v \in Users \ {u} : waits'[v] = waits[v]
  BY <1>1 DEF GetClient, Kept
<1>3. waits'[u] = client'
  BY DEF GetClient, Kept
<1>4. raced' \/ \A v \in Users : waits'[v] # None => waits'[v] = client'
  BY <1>2, <1>3 DEF GetClient, Kept
<1>5. raced' \/ (linked' \subseteq {client'} /\ ~emptyHanded')
  BY SessionAssumption DEF GetClient, Kept
<1>6. proven' \in SUBSET Clients /\ UNCHANGED <<linked, emptyHanded, raced, reachable, outages>>
  BY DEF GetClient, Kept
<1>7. Kept'
  BY <1>1, <1>2, <1>3, <1>4, <1>5, <1>6 DEF Kept
<1>8. QED
  BY <1>6, <1>7 DEF GetClient

LEMMA ConnectedKeeps ==
    ASSUME Kept, NEW u \in Users, Connected(u)
    PROVE  Kept' /\ waits' = [waits EXCEPT ![u] = None] /\ UNCHANGED <<client, reachable, outages>>
<1>1. waits[u] \in Clients
  BY DEF Connected, Kept
<1>2. \A v \in Users : waits'[v] = IF v = u THEN None ELSE waits[v]
  BY DEF Connected, Kept
<1>3. raced' \/ (linked' \subseteq {client'} /\ ~emptyHanded')
  BY <1>1, SessionAssumption DEF Connected, Kept
<1>4. client' # None /\ client' \notin proven' => \E v \in Users : waits'[v] = client'
  BY <1>1, <1>2 DEF Connected, Kept
<1>5. QED
  BY <1>1, <1>2, <1>3, <1>4 DEF Connected, Kept

LEMMA ConnectFailsKeeps ==
    ASSUME Kept, NEW u \in Users, ConnectFails(u)
    PROVE  Kept' /\ waits' = [waits EXCEPT ![u] = None] /\ UNCHANGED <<reachable, outages>>
<1>1. \A v \in Users : waits'[v] = IF v = u THEN None ELSE waits[v]
  BY DEF ConnectFails, Kept
<1>2. raced' \/ \A v \in Users : waits'[v] = None
  BY <1>1 DEF ConnectFails, Kept
<1>3. raced' \/ (linked' \subseteq {client'} /\ ~emptyHanded')
  BY DEF ConnectFails, Kept
<1>4. QED
  BY <1>1, <1>2, <1>3 DEF ConnectFails, Kept

\* The rest of SessionInv: what the process keeps of its phase and its task.
Processed ==
    /\ phase \in {"starting", "serving", "stopped"}
    /\ retry \in BOOLEAN
    /\ reachable \in BOOLEAN
    /\ outages \in 0 .. MaxOutages
    /\ waits["lifespan"] # None => phase = "starting"
    /\ waits["retry"] # None => retry
    /\ phase = "stopped" => ~retry /\ \A u \in Users : waits[u] = None

\* A process that has stopped waits for nothing: only Telegram moves.
LEMMA StoppedStepInv ==
    ASSUME SessionInv, phase = "stopped", [SessionNext]_sessionVars
    PROVE  SessionInv'
<1>1. ~retry /\ \A u \in Users : waits[u] = None
  BY DEF SessionInv, AllWaitForCached
<1>2. OutageBegins \/ OutageEnds \/ UNCHANGED sessionVars
  BY <1>1, NamedUsers
     DEF SessionNext, Lifespan, LifespanCalls, LifespanServes, LifespanServesUnconnected, RetryTask,
         RetryCalls, RetrySucceeds, RetryGoesOn, PollCalls, PollEnds, Shutdown, Connected,
         ConnectFails
<1>3. /\ linked' \subseteq linked
      /\ reachable' \in BOOLEAN
      /\ UNCHANGED <<phase, retry, client, waits, proven, emptyHanded, raced>>
  BY <1>2 DEF OutageBegins, OutageEnds, sessionVars, SessionInv, SessionTypeOK
<1>4. outages' \in 0 .. MaxOutages
  BY <1>2, SessionAssumption
     DEF OutageBegins, OutageEnds, sessionVars, SessionInv, SessionTypeOK
<1>5. SessionTypeOK' /\ AllWaitForCached'
  BY <1>1, <1>3, <1>4 DEF SessionInv, SessionTypeOK, AllWaitForCached
<1>6. OneClientUnlessRaced'
  BY <1>3 DEF SessionInv, OneClientUnlessRaced
<1>7. QED
  BY <1>3, <1>5, <1>6 DEF SessionInv, StillbornIsAwaited

LEMMA LivingStepInv ==
    ASSUME SessionInv, phase # "stopped", SessionNext
    PROVE  SessionInv'
<1> USE NamedUsers
<1>0. Kept /\ Processed
  BY DEF SessionInv, SessionTypeOK, OneClientUnlessRaced, AllWaitForCached, StillbornIsAwaited,
         Kept, Processed
<1>a. phase' # "stopped" /\ Kept' /\ Processed' => SessionInv'
  BY DEF SessionInv, SessionTypeOK, OneClientUnlessRaced, AllWaitForCached, StillbornIsAwaited,
         Kept, Processed
<1>b. phase' = "stopped" /\ SessionTypeOK' /\ AllWaitForCached' /\ OneClientUnlessRaced' => SessionInv'
  BY DEF SessionInv, StillbornIsAwaited
<1>1. ASSUME NEW u \in Users, GetClient(u), u # "lifespan" \/ phase = "starting",
             u # "retry" \/ retry, UNCHANGED <<phase, retry>>
      PROVE  SessionInv'
  <2>1. Kept' /\ waits' = [waits EXCEPT ![u] = client'] /\ UNCHANGED <<reachable, outages>>
    BY <1>0, <1>1, GetClientKeeps
  <2>2. Processed'
    BY <1>0, <1>1, <2>1 DEF Processed, Kept
  <2>3. QED
    BY <1>1, <2>1, <2>2, <1>a
<1>2. ASSUME NEW u \in Users, Connected(u) \/ ConnectFails(u),
             phase' \in {"starting", "serving"}, retry' \in BOOLEAN,
             phase' = phase \/ u = "lifespan",
             retry' = retry \/ u = "retry" \/ retry' = TRUE
      PROVE  SessionInv'
  <2>1. Kept' /\ waits' = [waits EXCEPT ![u] = None] /\ UNCHANGED <<reachable, outages>>
    BY <1>0, <1>2, ConnectedKeeps, ConnectFailsKeeps
  <2>2. Processed'
    BY <1>0, <1>2, <2>1 DEF Processed, Kept
  <2>3. QED
    BY <1>2, <2>1, <2>2, <1>a
<1>3. CASE Lifespan
  BY <1>1, <1>2, <1>3, <1>0
     DEF Lifespan, LifespanCalls, LifespanServes, LifespanServesUnconnected, Processed
<1>4. CASE RetryTask
  BY <1>1, <1>2, <1>4, <1>0 DEF RetryTask, RetryCalls, RetrySucceeds, RetryGoesOn, Processed
<1>5. ASSUME NEW u \in Polls, PollCalls(u) \/ PollEnds(u)
      PROVE  SessionInv'
  <2>1. u \in Users /\ u # "lifespan" /\ u # "retry"
    BY <1>5, SessionAssumption DEF Users
  <2>2. QED
    BY <1>1, <1>2, <1>5, <1>0, <2>1 DEF PollCalls, PollEnds, Processed
<1>6. CASE Shutdown
  <2>1. \A u \in Users : waits'[u] = None
    BY <1>0, <1>6 DEF Shutdown, Kept, Processed, Users
  <2>2. SessionTypeOK' /\ AllWaitForCached'
    BY <1>0, <1>6, <2>1 DEF Shutdown, Kept, Processed, SessionTypeOK, AllWaitForCached
  <2>3. OneClientUnlessRaced'
    BY <1>0, <1>6 DEF Shutdown, Kept, OneClientUnlessRaced
  <2>4. QED
    BY <1>6, <2>2, <2>3, <1>b DEF Shutdown
<1>7. CASE OutageBegins \/ OutageEnds
  <2>1. Kept'
    BY <1>0, <1>7 DEF OutageBegins, OutageEnds, Kept
  <2>2. outages' \in 0 .. MaxOutages
    BY <1>0, <1>7, SessionAssumption DEF OutageBegins, OutageEnds, Processed
  <2>3. Processed' /\ phase' # "stopped"
    BY <1>0, <1>7, <2>2 DEF OutageBegins, OutageEnds, Processed
  <2>4. QED
    BY <2>1, <2>3, <1>a
<1>8. QED
  BY <1>3, <1>4, <1>5, <1>6, <1>7 DEF SessionNext

LEMMA SessionStepInv ==
    ASSUME SessionInv, [SessionNext]_sessionVars
    PROVE  SessionInv'
<1>1. CASE UNCHANGED sessionVars
  BY <1>1 DEF sessionVars, SessionInv, SessionTypeOK, OneClientUnlessRaced, AllWaitForCached,
              StillbornIsAwaited
<1>2. QED
  BY <1>1, StoppedStepInv, LivingStepInv

------------------------------------------------------------------------------
(* The folders. *)

\* A chat is in a folder, or excused.
Stands(f, c) == <<f, c>> \in excused \/ (folders[f] # None /\ c \in folders[f].chats)

\* What a placement in the middle of its steps relies on: a chat that it found
\* in the folder stands there, and what it writes back is a folder.
PlacementsInOrder ==
    \A p \in Placers : placing[p] # None =>
        /\ At(p, "resolve") /\ placing[p].already => Stands(placing[p].folder, placing[p].chat)
        /\ At(p, "write") => placing[p].seen # None

FolderInv ==
    /\ FolderTypeOK
    /\ PlacedStays
    /\ PlacementsInOrder

\* One of the placements' own steps.
PlacementStep(p) ==
    \/ \E want \in Wanted, c \in Chats : ListFolders(p, want, c)
    \/ ResolveChat(p)
    \/ FetchFilters(p)
    \/ WriteFilter(p)
    \/ PlacementFails(p)

FolderStep == OwnerEdits \/ \E p \in Placers : PlacementStep(p)

LEMMA FolderInitInv == FolderInit => FolderInv
<1> SUFFICES ASSUME FolderInit
             PROVE  FolderInv
  OBVIOUS
<1>1. 0 \in 0 .. MaxChanges
  BY WantedAssumption DEF WantedConstants
<1>2. FolderTypeOK
  BY <1>1 DEF FolderInit, FolderTypeOK, Folder
<1>3. PlacedStays /\ PlacementsInOrder
  BY DEF FolderInit, PlacedStays, PlacementsInOrder
<1>4. QED
  BY <1>2, <1>3 DEF FolderInv

LEMMA PlacementFields ==
    ASSUME FolderTypeOK, NEW p \in Placers, placing[p] # None
    PROVE  /\ placing[p] \in Placement
           /\ placing[p].folder \in FolderIds
           /\ placing[p].chat \in Chats
           /\ placing[p].step \in {"resolve", "fetch", "write"}
           /\ placing[p].already \in BOOLEAN
           /\ placing[p].seen \in Folder \cup {None}
BY DEF FolderTypeOK, Placement

LEMMA FolderFields ==
    ASSUME FolderTypeOK, NEW f \in FolderIds, folders[f] # None
    PROVE  /\ folders[f] \in Folder
           /\ folders[f].name \in FolderNames
           /\ folders[f].chats \in SUBSET Chats
BY DEF FolderTypeOK, Folder

\* The folder that a placement writes.
Written(p) == [placing[p].seen EXCEPT !.chats = @ \cup {placing[p].chat}]

LEMMA WrittenIsFolder ==
    ASSUME FolderInv, NEW p \in Placers, At(p, "write")
    PROVE  /\ Written(p) \in Folder
           /\ Written(p) # None
           /\ Written(p).chats = placing[p].seen.chats \cup {placing[p].chat}
           /\ placing[p].seen \in Folder
<1>1. placing[p].seen \in Folder /\ placing[p].chat \in Chats
  BY PlacementFields DEF FolderInv, PlacementsInOrder, At
<1>2. Written(p) \in Folder
  BY <1>1 DEF Written, Folder
<1>3. Written(p).chats = placing[p].seen.chats \cup {placing[p].chat}
  BY <1>1 DEF Written, Folder
<1>4. QED
  BY <1>1, <1>2, <1>3, WantedAssumption DEF WantedConstants

LEMMA WriteIsWritten ==
    ASSUME FolderInv, NEW p \in Placers, WriteFilter(p)
    PROVE  /\ At(p, "write")
           /\ placing[p].folder \in FolderIds /\ placing[p].chat \in Chats
           /\ folders' = [folders EXCEPT ![placing[p].folder] = Written(p)]
           /\ excused' = IF Overlapped(p)
                         THEN excused \cup Dropped(placing[p].folder, Written(p).chats)
                         ELSE excused
           /\ placed' \in {placed, placed \cup {Pair(p)}}
           /\ placing' = [placing EXCEPT ![p] = None]
           /\ UNCHANGED changes
<1>1. At(p, "write") /\ placing[p].folder \in FolderIds /\ placing[p].chat \in Chats
  BY PlacementFields DEF WriteFilter, At, FolderInv
<1>2. QED
  BY <1>1 DEF WriteFilter, Written

\* A chat that stands in a folder still does so after any step.
LEMMA StandingStays ==
    ASSUME FolderInv, FolderStep, NEW f \in FolderIds, NEW c \in Chats, Stands(f, c)
    PROVE  Stands(f, c)'
<1> USE DEF Stands
<1>1. FolderTypeOK
  BY DEF FolderInv
<1>2. ASSUME NEW g \in FolderIds, NEW name \in FolderNames, RenameFolder(g, name)
      PROVE  Stands(f, c)'
  BY <1>1, <1>2, FolderFields, WantedAssumption
     DEF RenameFolder, WantedConstants, FolderTypeOK, Folder
<1>3. ASSUME NEW g \in FolderIds, DeleteFolder(g)
      PROVE  Stands(f, c)'
  BY <1>1, <1>3 DEF DeleteFolder, FolderTypeOK
<1>4. ASSUME NEW g \in FolderIds, NEW d \in Chats, PutChat(g, d)
      PROVE  Stands(f, c)'
  BY <1>1, <1>4, FolderFields, WantedAssumption
     DEF PutChat, WantedConstants, FolderTypeOK, Folder
<1>5. ASSUME NEW g \in FolderIds, NEW d \in Chats, TakeChat(g, d)
      PROVE  Stands(f, c)'
  BY <1>1, <1>5, FolderFields, WantedAssumption
     DEF TakeChat, WantedConstants, FolderTypeOK, Folder
<1>6. ASSUME NEW p \in Placers, WriteFilter(p)
      PROVE  Stands(f, c)'
  <2>1. /\ At(p, "write")
        /\ placing[p].folder \in FolderIds
        /\ folders' = [folders EXCEPT ![placing[p].folder] = Written(p)]
        /\ excused' = IF Overlapped(p)
                      THEN excused \cup Dropped(placing[p].folder, Written(p).chats)
                      ELSE excused
    BY <1>6, WriteIsWritten
  <2>2. /\ Written(p) # None
        /\ Written(p).chats = placing[p].seen.chats \cup {placing[p].chat}
    BY <2>1, WrittenIsFolder
  <2>3. CASE f # placing[p].folder
    BY <1>1, <2>1, <2>3 DEF FolderTypeOK
  <2>4. CASE f = placing[p].folder /\ Overlapped(p)
    BY <1>1, <2>1, <2>2, <2>4 DEF FolderTypeOK, Dropped
  <2>5. CASE f = placing[p].folder /\ ~Overlapped(p)
    BY <1>1, <2>1, <2>2, <2>5 DEF FolderTypeOK, Overlapped
  <2>6. QED
    BY <2>3, <2>4, <2>5
<1>7. ASSUME NEW p \in Placers,
             \/ \E want \in Wanted, d \in Chats : ListFolders(p, want, d)
             \/ ResolveChat(p) \/ FetchFilters(p) \/ PlacementFails(p)
      PROVE  Stands(f, c)'
  BY <1>7 DEF ListFolders, ResolveChat, FetchFilters, PlacementFails
<1>8. QED
  BY <1>2, <1>3, <1>4, <1>5, <1>6, <1>7 DEF FolderStep, OwnerEdits, PlacementStep

\* What a step leaves of a placement: nothing, what it was, or the next step.
LEMMA ListFoldersInv ==
    ASSUME FolderInv, NEW p \in Placers, NEW want \in Wanted, NEW d \in Chats,
           ListFolders(p, want, d)
    PROVE  FolderTypeOK' /\ PlacementsInOrder' /\ placed' = placed
<1>1. PICK f \in Resolved(want) :
          placing' = [placing EXCEPT ![p] =
                        [folder |-> f, chat |-> d, step |-> "resolve",
                         already |-> d \in folders[f].chats, seen |-> None]]
  BY DEF ListFolders
<1>2. f \in FolderIds /\ folders[f] # None
  BY WantedAssumption DEF Resolved, WantedConstants
<1>3. [folder |-> f, chat |-> d, step |-> "resolve",
       already |-> d \in folders[f].chats, seen |-> None] \in Placement
  BY <1>2 DEF Placement
<1>4. changes' \in 0 .. MaxChanges /\ UNCHANGED <<folders, placed, excused>>
  BY WantedAssumption DEF ListFolders, Change, FolderInv, FolderTypeOK, WantedConstants
<1>5. FolderTypeOK'
  BY <1>1, <1>3, <1>4 DEF FolderInv, FolderTypeOK
<1>6. PlacementsInOrder'
  BY <1>1, <1>2, <1>4 DEF FolderInv, FolderTypeOK, PlacementsInOrder, At, Stands
<1>7. QED
  BY <1>4, <1>5, <1>6

\* A step that is about the placements' records alone.
LEMMA PlacementGoesOn ==
    ASSUME FolderInv, NEW p \in Placers, ResolveChat(p) \/ FetchFilters(p) \/ PlacementFails(p)
    PROVE  /\ FolderTypeOK' /\ PlacementsInOrder'
           /\ \A pair \in placed' \ placed :
                 /\ pair = <<placing[p].folder, placing[p].chat>>
                 /\ At(p, "resolve") /\ placing[p].already
<1>1. placing[p] # None
  BY DEF ResolveChat, FetchFilters, PlacementFails, At
<1>2. /\ placing[p] \in Placement
      /\ placing[p].folder \in FolderIds /\ placing[p].chat \in Chats
  BY <1>1, PlacementFields DEF FolderInv
<1>3. UNCHANGED <<folders, excused, changes>>
  BY DEF ResolveChat, FetchFilters, PlacementFails
<1>4. /\ placing' \in [Placers -> Placement \cup {None}]
      /\ \A q \in Placers \ {p} : placing'[q] = placing[q]
      /\ placing'[p] # None => placing'[p].step # "resolve"
      /\ placing'[p] # None /\ placing'[p].step = "write" => placing'[p].seen # None
  <2>1. CASE ResolveChat(p)
    BY <1>2, <2>1 DEF ResolveChat, FolderInv, FolderTypeOK, Placement, At
  <2>2. CASE FetchFilters(p)
    <3>1. folders[placing[p].folder] \in Folder \cup {None}
      BY <1>2 DEF FolderInv, FolderTypeOK
    <3>2. QED
      BY <1>2, <2>2, <3>1 DEF FetchFilters, FolderInv, FolderTypeOK, Placement, At
  <2>3. CASE PlacementFails(p)
    BY <2>3 DEF PlacementFails, FolderInv, FolderTypeOK
  <2>4. QED
    BY <2>1, <2>2, <2>3
<1>5. /\ placed' \in SUBSET (FolderIds \X Chats)
      /\ \A pair \in placed' \ placed :
            /\ pair = <<placing[p].folder, placing[p].chat>>
            /\ At(p, "resolve") /\ placing[p].already
  BY <1>2 DEF ResolveChat, FetchFilters, PlacementFails, FolderInv, FolderTypeOK, Pair
<1>6. FolderTypeOK'
  BY <1>3, <1>4, <1>5 DEF FolderInv, FolderTypeOK
<1>7. PlacementsInOrder'
  BY <1>3, <1>4 DEF FolderInv, PlacementsInOrder, At, Stands
<1>8. QED
  BY <1>5, <1>6, <1>7

LEMMA WriteFilterInv ==
    ASSUME FolderInv, NEW p \in Placers, WriteFilter(p)
    PROVE  /\ FolderTypeOK' /\ PlacementsInOrder'
           /\ \A pair \in placed' \ placed :
                 \E f \in FolderIds, c \in Chats : pair = <<f, c>> /\ Stands(f, c)'
<1>1. PICK f \in FolderIds, c \in Chats : f = placing[p].folder /\ c = placing[p].chat
  BY WriteIsWritten
<1>2. /\ At(p, "write")
      /\ folders' = [folders EXCEPT ![f] = Written(p)]
      /\ excused' = IF Overlapped(p) THEN excused \cup Dropped(f, Written(p).chats) ELSE excused
      /\ placed' \in {placed, placed \cup {<<f, c>>}}
      /\ placing' = [placing EXCEPT ![p] = None]
      /\ changes' = changes
  BY <1>1, WriteIsWritten DEF Pair
<1>3. /\ Written(p) \in Folder /\ Written(p) # None
      /\ Written(p).chats = placing[p].seen.chats \cup {c}
  BY <1>1, <1>2, WrittenIsFolder
<1>4. FolderTypeOK'
  <2>1. folders' \in [FolderIds -> Folder \cup {None}]
    BY <1>2, <1>3 DEF FolderInv, FolderTypeOK
  <2>2. placing' \in [Placers -> Placement \cup {None}]
    BY <1>2 DEF FolderInv, FolderTypeOK
  <2>3. placed' \in SUBSET (FolderIds \X Chats)
    BY <1>2 DEF FolderInv, FolderTypeOK
  <2>4. Dropped(f, Written(p).chats) \subseteq FolderIds \X Chats
    BY FolderFields DEF Dropped, FolderInv
  <2>5. excused' \in SUBSET (FolderIds \X Chats)
    BY <1>2, <2>4 DEF FolderInv, FolderTypeOK
  <2>6. changes' \in 0 .. MaxChanges
    BY <1>2 DEF FolderInv, FolderTypeOK
  <2>7. QED
    BY <2>1, <2>2, <2>3, <2>5, <2>6 DEF FolderTypeOK
<1>5. ASSUME NEW g \in FolderIds, NEW d \in Chats, Stands(g, d)
      PROVE  Stands(g, d)'
  BY <1>5, StandingStays DEF FolderStep, PlacementStep
<1>6. ASSUME NEW q \in Placers, placing'[q] # None
      PROVE  /\ (At(q, "resolve") /\ placing[q].already => Stands(placing[q].folder, placing[q].chat))'
             /\ (At(q, "write") => placing[q].seen # None)'
  <2>1. placing'[q] = placing[q] /\ placing[q] # None
    BY <1>2, <1>6 DEF FolderInv, FolderTypeOK
  <2>2. PICK g \in FolderIds, d \in Chats : g = placing[q].folder /\ d = placing[q].chat
    BY <2>1, PlacementFields DEF FolderInv
  <2>3. At(q, "resolve") /\ placing[q].already => Stands(g, d)
    BY <2>1, <2>2 DEF FolderInv, PlacementsInOrder
  <2>4. At(q, "resolve") /\ placing[q].already => Stands(g, d)'
    BY <1>5, <2>3
  <2>5. At(q, "write") => placing[q].seen # None
    BY <2>1 DEF FolderInv, PlacementsInOrder
  <2>6. QED
    BY <2>1, <2>2, <2>4, <2>5 DEF At, Stands
<1>7. PlacementsInOrder'
  BY <1>6 DEF PlacementsInOrder
<1>8. folders'[f] = Written(p)
  BY <1>2 DEF FolderInv, FolderTypeOK
<1>9. Stands(f, c)'
  BY <1>3, <1>8 DEF Stands
<1>10. \A pair \in placed' \ placed : pair = <<f, c>>
  BY <1>2
<1>11. QED
  BY <1>4, <1>7, <1>9, <1>10

LEMMA OwnerEditsInv ==
    ASSUME FolderInv, OwnerEdits
    PROVE  FolderTypeOK' /\ placing' = placing /\ placed' = placed
<1>1. Change => changes' \in 0 .. MaxChanges
  BY WantedAssumption DEF Change, FolderInv, FolderTypeOK, WantedConstants
<1>2. ASSUME NEW f \in FolderIds, NEW name \in FolderNames, RenameFolder(f, name)
      PROVE  FolderTypeOK'
  <2>1. [folders[f] EXCEPT !.name = name] \in Folder
    BY <1>2, FolderFields DEF RenameFolder, FolderInv, Folder
  <2>2. QED
    BY <1>1, <1>2, <2>1 DEF RenameFolder, FolderInv, FolderTypeOK
<1>3. ASSUME NEW f \in FolderIds, DeleteFolder(f)
      PROVE  FolderTypeOK'
  BY <1>1, <1>3, FolderFields DEF DeleteFolder, FolderInv, FolderTypeOK
<1>4. ASSUME NEW f \in FolderIds, NEW c \in Chats, PutChat(f, c)
      PROVE  FolderTypeOK'
  <2>1. [folders[f] EXCEPT !.chats = @ \cup {c}] \in Folder
    BY <1>4, FolderFields DEF PutChat, FolderInv, Folder
  <2>2. QED
    BY <1>1, <1>4, <2>1 DEF PutChat, FolderInv, FolderTypeOK
<1>5. ASSUME NEW f \in FolderIds, NEW c \in Chats, TakeChat(f, c)
      PROVE  FolderTypeOK'
  <2>1. [folders[f] EXCEPT !.chats = @ \ {c}] \in Folder
    BY <1>5, FolderFields DEF TakeChat, FolderInv, Folder
  <2>2. folders' \in [FolderIds -> Folder \cup {None}]
    BY <1>5, <2>1 DEF TakeChat, FolderInv, FolderTypeOK
  <2>3. excused' \in SUBSET (FolderIds \X Chats)
    BY <1>5 DEF TakeChat, FolderInv, FolderTypeOK
  <2>4. changes' \in 0 .. MaxChanges /\ UNCHANGED <<placing, placed>>
    BY <1>1, <1>5 DEF TakeChat
  <2>5. QED
    BY <2>2, <2>3, <2>4 DEF FolderInv, FolderTypeOK
<1>6. QED
  BY <1>2, <1>3, <1>4, <1>5 DEF OwnerEdits, RenameFolder, DeleteFolder, PutChat, TakeChat

LEMMA FolderStepInv ==
    ASSUME FolderInv, FolderStep
    PROVE  FolderInv'
<1>1. ASSUME NEW f \in FolderIds, NEW c \in Chats, Stands(f, c)
      PROVE  Stands(f, c)'
  BY <1>1, StandingStays
<1>2. ASSUME OwnerEdits
      PROVE  FolderTypeOK' /\ PlacementsInOrder' /\ placed' = placed
  <2>1. FolderTypeOK' /\ placing' = placing /\ placed' = placed
    BY <1>2, OwnerEditsInv
  <2>2. ASSUME NEW q \in Placers, placing[q] # None
        PROVE  /\ (At(q, "resolve") /\ placing[q].already =>
                       Stands(placing[q].folder, placing[q].chat))'
               /\ (At(q, "write") => placing[q].seen # None)'
    <3>1. PICK g \in FolderIds, d \in Chats : g = placing[q].folder /\ d = placing[q].chat
      BY <2>2, PlacementFields DEF FolderInv
    <3>2. At(q, "resolve") /\ placing[q].already => Stands(g, d)
      BY <2>2, <3>1 DEF FolderInv, PlacementsInOrder
    <3>3. At(q, "resolve") /\ placing[q].already => Stands(g, d)'
      BY <1>1, <3>2
    <3>4. At(q, "write") => placing[q].seen # None
      BY <2>2 DEF FolderInv, PlacementsInOrder
    <3>5. QED
      BY <2>1, <3>1, <3>3, <3>4 DEF At, Stands
  <2>3. PlacementsInOrder'
    BY <2>1, <2>2 DEF PlacementsInOrder
  <2>4. QED
    BY <2>1, <2>3
<1>3. ASSUME NEW p \in Placers, PlacementStep(p)
      PROVE  /\ FolderTypeOK' /\ PlacementsInOrder'
             /\ \A pair \in placed' \ placed :
                   \E f \in FolderIds, c \in Chats : pair = <<f, c>> /\ Stands(f, c)'
  <2>1. ASSUME NEW want \in Wanted, NEW d \in Chats, ListFolders(p, want, d)
        PROVE  FolderTypeOK' /\ PlacementsInOrder' /\ placed' = placed
    BY <2>1, ListFoldersInv
  <2>2. CASE ResolveChat(p) \/ FetchFilters(p) \/ PlacementFails(p)
    <3>1. placing[p] # None
      BY <2>2 DEF ResolveChat, FetchFilters, PlacementFails, At
    <3>2. PICK g \in FolderIds, d \in Chats : g = placing[p].folder /\ d = placing[p].chat
      BY <3>1, PlacementFields DEF FolderInv
    <3>3. At(p, "resolve") /\ placing[p].already => Stands(g, d)'
      BY <1>1, <3>1, <3>2 DEF FolderInv, PlacementsInOrder
    <3>4. /\ FolderTypeOK' /\ PlacementsInOrder'
          /\ \A pair \in placed' \ placed :
                pair = <<g, d>> /\ At(p, "resolve") /\ placing[p].already
      BY <2>2, <3>2, PlacementGoesOn
    <3>5. QED
      BY <3>3, <3>4
  <2>3. CASE WriteFilter(p)
    BY <2>3, WriteFilterInv
  <2>4. QED
    BY <1>3, <2>1, <2>2, <2>3 DEF PlacementStep
<1>4. /\ FolderTypeOK' /\ PlacementsInOrder'
      /\ \A pair \in placed' \ placed :
            \E f \in FolderIds, c \in Chats : pair = <<f, c>> /\ Stands(f, c)'
  <2>1. CASE OwnerEdits
    BY <1>2, <2>1
  <2>2. CASE \E p \in Placers : PlacementStep(p)
    BY <1>3, <2>2
  <2>3. QED
    BY <2>1, <2>2 DEF FolderStep
<1>5. \A pair \in placed : \E f \in FolderIds, c \in Chats : pair = <<f, c>> /\ Stands(f, c)
  BY DEF FolderInv, FolderTypeOK, PlacedStays, Stands
<1>6. \A pair \in placed' : \E f \in FolderIds, c \in Chats : pair = <<f, c>> /\ Stands(f, c)'
  BY <1>1, <1>4, <1>5
<1>7. PlacedStays'
  <2> SUFFICES ASSUME NEW pair \in placed'
               PROVE  pair \in excused' \/ (folders'[pair[1]] # None /\ pair[2] \in folders'[pair[1]].chats)
    BY DEF PlacedStays
  <2>1. PICK f \in FolderIds, c \in Chats : pair = <<f, c>> /\ Stands(f, c)'
    BY <1>6
  <2>2. QED
    BY <2>1 DEF Stands
<1>8. QED
  BY <1>4, <1>7 DEF FolderInv

------------------------------------------------------------------------------
(* The server. *)

\* A request has a client exactly while it is in the middle of its placement.
HandlesHeld ==
    /\ handle \in [Placers -> Clients \cup {None}]
    /\ \A p \in Placers : placing[p] # None <=> handle[p] # None

ServerInv ==
    /\ SessionInv
    /\ FolderInv
    /\ HandlesHeld

LEMMA ServerInitInv == ServerInit => ServerInv
<1> SUFFICES ASSUME ServerInit
             PROVE  ServerInv
  OBVIOUS
<1>1. SessionInv /\ FolderInv
  BY SessionInitInv, FolderInitInv DEF ServerInit
<1>2. HandlesHeld
  BY DEF ServerInit, FolderInit, HandlesHeld
<1>3. QED
  BY <1>1, <1>2 DEF ServerInv

\* What a placement's own step does to the placements' records.
LEMMA OthersGoOn ==
    ASSUME FolderInv, NEW p \in Placers,
           ResolveChat(p) \/ FetchFilters(p) \/ WriteFilter(p) \/ PlacementFails(p)
    PROVE  /\ placing[p] # None
           /\ \A q \in Placers \ {p} : placing'[q] = placing[q]
BY DEF ResolveChat, FetchFilters, WriteFilter, PlacementFails, At, FolderInv, FolderTypeOK

LEMMA HandlesStayHeld ==
    ASSUME ServerInv, [ServerNext]_serverVars
    PROVE  HandlesHeld'
<1>1. CASE UNCHANGED <<placing, handle>>
  BY <1>1 DEF ServerInv, HandlesHeld
<1>2. ASSUME NEW p \in Placers, NEW want \in Wanted, NEW c \in Chats, Accept(p, want, c)
      PROVE  HandlesHeld'
  <2>1. client \in Clients /\ client # None
    BY <1>2, SessionAssumption DEF Accept, ServerInv, SessionInv, SessionTypeOK
  <2>2. PICK f \in Resolved(want) :
            placing' = [placing EXCEPT ![p] =
                          [folder |-> f, chat |-> c, step |-> "resolve",
                           already |-> c \in folders[f].chats, seen |-> None]]
    BY <1>2 DEF Accept, ListFolders
  <2>3. [folder |-> f, chat |-> c, step |-> "resolve",
         already |-> c \in folders[f].chats, seen |-> None] \in Placement
    BY WantedAssumption DEF Placement, Resolved, WantedConstants
  <2>4. placing'[p] # None /\ \A q \in Placers \ {p} : placing'[q] = placing[q]
    BY <2>2, <2>3, WantedAssumption DEF ServerInv, FolderInv, FolderTypeOK, WantedConstants
  <2>5. QED
    BY <1>2, <2>1, <2>4 DEF Accept, ServerInv, HandlesHeld
<1>3. ASSUME NEW p \in Placers, Serve(p) \/ Refuse(p)
      PROVE  HandlesHeld'
  <2>1. placing[p] # None /\ \A q \in Placers \ {p} : placing'[q] = placing[q]
    BY <1>3, OthersGoOn DEF Serve, Refuse, ServerInv
  <2>2. handle[p] # None
    BY <2>1 DEF ServerInv, HandlesHeld
  <2>3. handle' = [handle EXCEPT ![p] = IF placing'[p] = None THEN None ELSE @]
    <3>1. CASE Serve(p)
      BY <3>1 DEF Serve
    <3>2. CASE Refuse(p)
      BY <3>2 DEF Refuse, PlacementFails, ServerInv, FolderInv, FolderTypeOK
    <3>3. QED
      BY <1>3, <3>1, <3>2
  <2>4. QED
    BY <2>1, <2>2, <2>3 DEF ServerInv, HandlesHeld
<1>4. CASE SessionStep \/ UNCHANGED serverVars
  BY <1>1, <1>4 DEF SessionStep, filterVars, serverVars
<1>5. CASE OwnerEdits /\ UNCHANGED <<sessionVars, handle>>
  <2>1. placing' = placing
    BY <1>5, OwnerEditsInv DEF ServerInv
  <2>2. QED
    BY <1>1, <1>5, <2>1
<1>6. QED
  BY <1>2, <1>3, <1>4, <1>5 DEF ServerNext

\* The invariant of each half holds on through the steps of both.
LEMMA ServerStepInv == ServerInv /\ [ServerNext]_serverVars => ServerInv'
<1> SUFFICES ASSUME ServerInv, [ServerNext]_serverVars
             PROVE  ServerInv'
  OBVIOUS
<1>1. SessionInv'
  <2>1. [SessionNext]_sessionVars
    BY DEF ServerNext, SessionStep, Accept, Serve, Refuse, serverVars
  <2>2. QED
    BY <2>1, SessionStepInv DEF ServerInv
<1>2. FolderInv'
  <2>1. FolderStep \/ UNCHANGED filterVars
    BY DEF ServerNext, SessionStep, Accept, Serve, Refuse, serverVars, FolderStep, PlacementStep
  <2>2. CASE FolderStep
    BY <2>2, FolderStepInv DEF ServerInv
  <2>3. CASE UNCHANGED filterVars
    BY <2>3 DEF ServerInv, filterVars, FolderInv, FolderTypeOK, PlacedStays, PlacementsInOrder, At, Stands
  <2>4. QED
    BY <2>1, <2>2, <2>3
<1>3. HandlesHeld'
  BY HandlesStayHeld
<1>4. QED
  BY <1>1, <1>2, <1>3 DEF ServerInv

THEOREM ServerInvariant == ServerSpec => []ServerInv
<1>1. ServerSpec => ServerInit /\ [][ServerNext]_serverVars
  BY DEF ServerSpec
<1>2. QED
  BY <1>1, ServerInitInv, ServerStepInv, PTL

\* The endpoints only read the shared session (http_api/folders.py takes the
\* manager's client): the session under them behaves as it does alone, with the
\* same fairness, so what holds of SessionSpec holds of the server's session.
THEOREM ServerRunsSession == ServerSpec => SessionSpec
<1>1. ServerInit => SessionInit
  BY DEF ServerInit
<1>2. [ServerNext]_serverVars => [SessionNext]_sessionVars
  BY DEF ServerNext, SessionStep, Accept, Serve, Refuse, serverVars
<1>3. QED
  BY <1>1, <1>2, PTL DEF ServerSpec, SessionSpec

\* And the requests place chats by the steps of resolve_folder and
\* add_chat_to_folder, or fail: the session takes steps away and adds none.
THEOREM ServerPlacesChats == ServerSpec => FolderSpec
<1>1. ServerSpec => ServerInit /\ [][ServerNext]_serverVars
  BY DEF ServerSpec
<1>2. ServerInit => FolderInit
  BY DEF ServerInit
<1>3. [ServerNext]_serverVars => [FolderNext]_folderVars
  <2> SUFFICES ASSUME [ServerNext]_serverVars
               PROVE  [FolderNext]_folderVars
    OBVIOUS
  <2>1. CASE SessionStep \/ UNCHANGED serverVars
    BY <2>1 DEF SessionStep, serverVars, filterVars, folderVars
  <2>2. ASSUME NEW p \in Placers,
               \/ \E want \in Wanted, c \in Chats : Accept(p, want, c)
               \/ Serve(p)
               \/ Refuse(p)
        PROVE  AddChatToFolder(p)
    BY <2>2 DEF Accept, Serve, Refuse, AddChatToFolder
  <2>3. QED
    BY <2>1, <2>2 DEF ServerNext, FolderNext
<1>4. QED
  BY <1>1, <1>2, <1>3, PTL DEF FolderSpec

\* The server's state is typed, and a request holds a client exactly while it is
\* in the middle of placing a chat (http_api/folders.py, _backend_or_503).
THEOREM ServerTyped == ServerSpec => []ServerTypeOK
<1>1. ServerInv => ServerTypeOK
  BY DEF ServerInv, SessionInv, FolderInv, HandlesHeld, ServerTypeOK
<1>2. QED
  BY <1>1, ServerInvariant, PTL

\* As long as no connect() fails under another caller of get_client
\* (session.py), there is one client, however many requests, health polls and
\* outages there are.
THEOREM OneClient == ServerSpec => []OneClientUnlessRaced
<1>1. ServerInv => OneClientUnlessRaced
  BY DEF ServerInv, SessionInv
<1>2. QED
  BY <1>1, ServerInvariant, PTL

\* A client that never finished connecting (get_client, which clears the cache
\* when connect() raises) is in the cache only while somebody connects it.
THEOREM NoStillborn == ServerSpec => []CacheHoldsNoStillborn
<1>1. ServerInv => CacheHoldsNoStillborn
  BY DEF ServerInv, SessionInv, StillbornIsAwaited, CacheHoldsNoStillborn
<1>2. QED
  BY <1>1, ServerInvariant, PTL

\* A chat that a request reported as placed (add_chat_to_folder) stays in its
\* folder, however many placements follow, unless the owner or two overlapping
\* writes take it out.
THEOREM PlacementsStay == ServerSpec => []PlacedStays
<1>1. ServerInv => PlacedStays
  BY DEF ServerInv, FolderInv
<1>2. QED
  BY <1>1, ServerInvariant, PTL
==============================================================================
