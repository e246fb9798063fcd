------------------------------- MODULE Session -------------------------------
(***************************************************************************)
(* telegram_client/session.py, TelethonSessionManager, in the process of   *)
(* the HTTP server: the lifespan hook and its retry task (http_api/app.py) *)
(* and the health polls (health.py) share one manager, and each of them    *)
(* calls get_client, which waits for connect().                            *)
(*                                                                         *)
(* Telegram is out for a while now and then; an outage outlasts Telethon's *)
(* own attempts to reconnect.  Whether the account is logged in, the       *)
(* folder probe and the length of back-off pauses are left out.            *)
(***************************************************************************)
EXTENDS Naturals

CONSTANTS Clients,     \* client objects; one that nobody holds is drawn again
          Polls,       \* health requests that can be served at once
          MaxOutages,  \* bound: outages of Telegram
          None         \* no client

VARIABLES phase,       \* of the server process
          retry,       \* whether the lifespan's retry task runs
          client,      \* the manager's _client
          waits,       \* caller of get_client -> the client whose connect() it awaits
          linked,      \* the clients that have a connection
          reachable,   \* whether Telegram answers
          outages,     \* how often it has ceased to
          proven,      \* the clients that have been connected
          emptyHanded, \* get_client has returned None to a caller
          raced        \* a connect() failed while another caller relied on the client

sessionVars == <<phase, retry, client, waits, linked, reachable, outages, proven, emptyHanded, raced>>

ASSUME SessionAssumption ==
    /\ None \notin Clients
    /\ MaxOutages \in Nat
    /\ Polls \cap {"lifespan", "retry"} = {}

Users == Polls \cup {"lifespan", "retry"}

SessionTypeOK ==
    /\ phase \in {"starting", "serving", "stopped"}
    /\ retry \in BOOLEAN
    /\ client \in Clients \cup {None}
    /\ waits \in [Users -> Clients \cup {None}]
    /\ linked \in SUBSET Clients
    /\ reachable \in BOOLEAN
    /\ outages \in 0 .. MaxOutages
    /\ proven \in SUBSET Clients
    /\ emptyHanded \in BOOLEAN
    /\ raced \in BOOLEAN
    /\ waits["lifespan"] # None => phase = "starting"
    /\ waits["retry"] # None => retry

SessionInit ==
    /\ phase = "starting"
    /\ retry = FALSE
    /\ client = None
    /\ waits = [u \in Users |-> None]
    /\ linked = {}
    /\ reachable \in BOOLEAN
    /\ outages = 0
    /\ proven = {}
    /\ emptyHanded = FALSE
    /\ raced = FALSE

Held(c) == c = client \/ c \in linked \/ \E u \in Users : waits[u] = c

\* The factory's next object.
NewClient == CHOOSE c \in Clients : ~Held(c)

------------------------------------------------------------------------------
(* get_client. *)

\* Fault: every call makes a client of its own.
GetClientAnew(u) ==
    /\ waits[u] = None
    /\ \E c \in Clients : ~Held(c)
    /\ client' = NewClient
    /\ waits' = [waits EXCEPT ![u] = NewClient]
    /\ proven' = proven \ {NewClient}
    /\ UNCHANGED <<linked, reachable, outages, emptyHanded, raced>>

\* Fault: a cached client is taken for a connected one.
GetClientTrusting(u) ==
    /\ waits[u] = None
    /\ client = None
    /\ \E c \in Clients : ~Held(c)
    /\ client' = NewClient
    /\ waits' = [waits EXCEPT ![u] = NewClient]
    /\ proven' = proven \ {NewClient}
    /\ UNCHANGED <<linked, reachable, outages, emptyHanded, raced>>

\* The cached client, or a new one that is cached before it is connected.
GetClient(u) ==
    /\ waits[u] = None
    /\ client = None => \E c \in Clients : ~Held(c)
    /\ client' = IF client = None THEN NewClient ELSE client
    /\ waits' = [waits EXCEPT ![u] = client']
    /\ proven' = IF client = None THEN proven \ {NewClient} ELSE proven
    /\ UNCHANGED <<linked, reachable, outages, emptyHanded, raced>>

\* connect() succeeds; what is returned is the cache's content by now.
Connected(u) ==
    /\ waits[u] # None
    /\ waits[u] \in linked \/ reachable
    /\ linked' = linked \cup {waits[u]}
    /\ emptyHanded' = (emptyHanded \/ client = None)
    /\ waits' = [waits EXCEPT ![u] = None]
    /\ proven' = proven \cup {waits[u]}
    /\ UNCHANGED <<client, reachable, outages, raced>>

\* Fault: the cache keeps the client whose connect() raised.
ConnectFailsCached(u) ==
    /\ waits[u] # None
    /\ waits[u] \notin linked
    /\ ~reachable
    /\ raced' = (raced \/ client # waits[u] \/ \E v \in Users \ {u} : waits[v] # None)
    /\ waits' = [waits EXCEPT ![u] = None]
    /\ UNCHANGED <<client, linked, reachable, outages, proven, emptyHanded>>

\* connect() raises: the cache is emptied, whatever it holds.
ConnectFails(u) ==
    /\ waits[u] # None
    /\ waits[u] \notin linked
    /\ ~reachable
    /\ client' = None
    /\ raced' = (raced \/ client # waits[u] \/ \E v \in Users \ {u} : waits[v] # None)
    /\ waits' = [waits EXCEPT ![u] = None]
    /\ UNCHANGED <<linked, reachable, outages, proven, emptyHanded>>

------------------------------------------------------------------------------
(* The server process. *)

\* The lifespan hook connects before the server serves; a failure starts the
\* retry task.
LifespanCalls ==
    /\ phase = "starting"
    /\ GetClient("lifespan")
    /\ UNCHANGED <<phase, retry>>

LifespanServes ==
    /\ Connected("lifespan")
    /\ phase' = "serving"
    /\ UNCHANGED retry

LifespanServesUnconnected ==
    /\ ConnectFails("lifespan")
    /\ phase' = "serving"
    /\ retry' = TRUE

\* _retry_connect_until_ready: pause, call, until a call succeeds.
RetryCalls ==
    /\ retry
    /\ GetClient("retry")
    /\ UNCHANGED <<phase, retry>>

RetrySucceeds ==
    /\ Connected("retry")
    /\ retry' = FALSE
    /\ UNCHANGED phase

RetryGoesOn ==
    /\ ConnectFails("retry")
    /\ UNCHANGED <<phase, retry>>

\* A health request probes the session, by state().
PollCalls(u) ==
    /\ phase = "serving"
    /\ GetClient(u)
    /\ UNCHANGED <<phase, retry>>

PollEnds(u) ==
    /\ Connected(u) \/ ConnectFails(u)
    /\ UNCHANGED <<phase, retry>>

\* Shutdown, when the requests have ended: the retry task is cancelled where it
\* is, and the manager's client is disconnected.
Shutdown ==
    /\ phase = "serving"
    /\ \A u \in Polls : waits[u] = None
    /\ phase' = "stopped"
    /\ retry' = FALSE
    /\ waits' = [waits EXCEPT !["retry"] = None]
    /\ linked' = linked \ {client}
    /\ UNCHANGED <<client, reachable, outages, proven, emptyHanded, raced>>

------------------------------------------------------------------------------
(* Telegram. *)

OutageBegins ==
    /\ reachable
    /\ outages < MaxOutages
    /\ outages' = outages + 1
    /\ reachable' = FALSE
    /\ linked' = {}
    /\ UNCHANGED <<phase, retry, client, waits, proven, emptyHanded, raced>>

OutageEnds ==
    /\ ~reachable
    /\ reachable' = TRUE
    /\ UNCHANGED <<phase, retry, client, waits, linked, outages, proven, emptyHanded, raced>>

------------------------------------------------------------------------------

Lifespan == LifespanCalls \/ LifespanServes \/ LifespanServesUnconnected
RetryTask == RetryCalls \/ RetrySucceeds \/ RetryGoesOn

SessionNext ==
    \/ Lifespan
    \/ RetryTask
    \/ \E u \in Polls : PollCalls(u) \/ PollEnds(u)
    \/ Shutdown
    \/ OutageBegins
    \/ OutageEnds

\* connect() returns or raises, and the retry task's pauses end.
ConnectsEnd ==
    /\ WF_sessionVars(Lifespan)
    /\ WF_sessionVars(RetryTask)
    /\ \A u \in Polls : WF_sessionVars(PollEnds(u))

\* docker-compose.yml polls /health every 60 s.
HealthIsPolled == \A u \in Polls : WF_sessionVars(PollCalls(u))

SessionSpec == SessionInit /\ [][SessionNext]_sessionVars /\ ConnectsEnd /\ HealthIsPolled

------------------------------------------------------------------------------
(* Properties. *)

\* "Owns one Telethon client across the process lifecycle" and "Return a
\* connected client" hold as long as no connect() fails under another caller:
\* only the cached client ever has a connection, none is left after shutdown,
\* and no caller is handed an empty cache.
OneClientUnlessRaced ==
    raced \/ /\ linked \subseteq {client}
             /\ phase = "stopped" => linked = {}
             /\ ~emptyHanded

\* A client that never finished connecting does not stay in the cache, where the
\* HTTP routes would take it for a connected one: someone still connects it.
CacheHoldsNoStillborn ==
    phase = "serving" /\ client # None /\ client \notin proven =>
        \E u \in Users : waits[u] = client

\* The server recovers from any outage without a restart: while it serves and
\* Telegram answers, the cached client, which the HTTP routes use, is connected
\* after a while.
Recovers ==
    (phase = "serving" /\ reachable) ~>
        (client \in linked \/ ~reachable \/ phase = "stopped")
==============================================================================
