---------------------------- MODULE SessionManager ----------------------------
(***************************************************************************)
(* SessionManager (session.py) and the sessions of its clients: listening, *)
(* handshakes, sessions and their groups, the costs that requests run up,  *)
(* notifying all sessions, and shutdown.                                   *)
(*                                                                         *)
(* Of the tasks of serve() only discover_peers and _clear_stale_sessions   *)
(* ever run: the spawn of util.TaskGroup returns a task, so each "await    *)
(* group.spawn(...)" waits for the end of the task, and the second one     *)
(* never ends.                                                             *)
(***************************************************************************)
EXTENDS Integers, FiniteSets, FiniteSetsExt, Functions

CONSTANTS
    Client,
    GroupName,      \* names of groups: subnets
    GroupOf,        \* the group of each client, NoGroup for a private address
    NoGroup,
    Service,        \* the external services
    MaxCost,        \* bound on the cost of a session
    MaxAccepts,     \* bound on the connections
    MaxNotices      \* bound on the notifications

\* Of the constants; Services assumes it.
SessionManagerAssumption ==
    /\ GroupOf \in [Client -> GroupName \cup {NoGroup}] /\ NoGroup \notin GroupName
    /\ IsFiniteSet(Client) /\ {MaxCost, MaxAccepts, MaxNotices} \subseteq Nat \ {0}

VARIABLES
    phase,          \* of serve(): starting, serving, cancelling, closing, stopped
    unopened,       \* services that are still to be opened
    servers,        \* services that are listened on
    discovering,    \* discover_peers has not ended
    accepts,        \* bound: connections so far
    conn,           \* client -> off, handshake, open, closing, refused
    negotiated,     \* clients that have negotiated a protocol version
    stale,          \* clients that have been silent for session_timeout
    cost,           \* client -> cost of its session
    retained,       \* session_groups: name -> retained_cost
    untold, telling,    \* _notify_sessions: sessions still to be told, and being told
    notices         \* bound: calls of it so far

serverVars == <<phase, unopened, servers, discovering>>
noticeVars == <<untold, telling, notices>>
connVars == <<accepts, conn, negotiated, stale>>
vars == <<serverVars, connVars, cost, retained, noticeVars>>

\* The keys of SessionManager.sessions.
Sessions == {c \in Client : conn[c] \in {"open", "closing", "refused"}}

SessionCost(g) == SumFunctionOnSet(cost, {c \in Sessions : GroupOf[c] = g})

\* SessionGroup.cost.
GroupCost(g) == IF g \in DOMAIN retained THEN retained[g] + SessionCost(g) ELSE 0

\* The cost that a session has beside its own, for the throttling of requests.
ExtraCost(c) == IF GroupOf[c] = NoGroup THEN 0 ELSE GroupCost(GroupOf[c]) - cost[c]

Init ==
    /\ phase = "starting" /\ unopened = Service /\ servers = {} /\ discovering = TRUE
    /\ accepts = 0 /\ conn = [c \in Client |-> "off"] /\ negotiated = {} /\ stale = {}
    /\ cost = [c \in Client |-> 0] /\ retained = <<>>
    /\ untold = {} /\ telling = {} /\ notices = 0

-----------------------------------------------------------------------------
(* serve() *)

\* A port may be taken: the server goes on without the service.
OpenService(s) ==
    /\ phase = "starting" /\ s \in unopened
    /\ unopened' = unopened \ {s}
    /\ servers' \in {servers, servers \cup {s}}
    /\ UNCHANGED <<phase, discovering, connVars, cost, retained, noticeVars>>

Serve ==
    /\ phase = "starting" /\ unopened = {}
    /\ phase' = "serving"
    /\ UNCHANGED <<unopened, servers, discovering, connVars, cost, retained, noticeVars>>

DiscoverEnds ==
    /\ phase = "serving" /\ discovering /\ discovering' = FALSE
    /\ UNCHANGED <<phase, unopened, servers, connVars, cost, retained, noticeVars>>

Closed(cs) == conn' = [c \in Client |-> IF c \in cs /\ conn[c] = "open" THEN "closing" ELSE conn[c]]

\* A signal, or an error of another task: what calls _notify_sessions goes too.
\* The task group cancels the main loops of the sessions, which closes them.
Cancel ==
    /\ phase \in {"starting", "serving"}
    /\ phase' = IF phase = "serving" THEN "cancelling" ELSE "closing"
    /\ unopened' = {}
    /\ servers' = IF phase = "serving" THEN servers ELSE {}
    /\ Closed(Sessions)
    /\ untold' = {} /\ telling' = {}
    /\ UNCHANGED <<discovering, accepts, negotiated, stale, cost, retained, notices>>

\* Sessions that were there when the server was cancelled.
Waited == {c \in Client : conn[c] \in {"open", "closing"}}

\* Their main loops are over, and the servers stop listening.
StopServers ==
    /\ phase = "cancelling" /\ Waited = {}
    /\ phase' = "closing" /\ servers' = {}
    /\ UNCHANGED <<unopened, discovering, connVars, cost, retained, noticeVars>>

\* Mutant of ServersGone: it has no timeout.
ServersGonePatient == \A c \in Client : conn[c] = "off"

\* The servers' resources are waited for, for three seconds at most.
ServersGone == Waited = {}

Stop ==
    /\ phase = "closing" /\ ServersGone
    /\ phase' = "stopped"
    /\ UNCHANGED <<unopened, servers, discovering, connVars, cost, retained, noticeVars>>

-----------------------------------------------------------------------------
(* Clients *)

Accept(c) ==
    /\ servers # {} /\ conn[c] = "off" /\ conn' = [conn EXCEPT ![c] = "handshake"]
    /\ accepts < MaxAccepts /\ accepts' = accepts + 1
    /\ UNCHANGED <<serverVars, negotiated, stale, cost, retained, noticeVars>>

GiveUp(c) ==
    /\ conn[c] = "handshake" /\ conn' = [conn EXCEPT ![c] = "off"]
    /\ UNCHANGED <<serverVars, accepts, negotiated, stale, cost, retained, noticeVars>>

\* The transport is made: add_session.  Handshakes end after the servers were
\* closed too; such a session refuses its client.
AddSession(c) ==
    /\ conn[c] = "handshake" /\ phase # "stopped"
    /\ conn' = [conn EXCEPT ![c] = IF phase \in {"starting", "serving"} THEN "open" ELSE "refused"]
    /\ cost' = [cost EXCEPT ![c] = 1]
    /\ retained' = IF GroupOf[c] = NoGroup \/ GroupOf[c] \in DOMAIN retained THEN retained
                   ELSE [g \in DOMAIN retained \cup {GroupOf[c]} |->
                            IF g = GroupOf[c] THEN 0 ELSE retained[g]]
    /\ UNCHANGED <<serverVars, accepts, negotiated, stale, noticeVars>>

\* Its first message: server.version, which may be refused, or another one.
Negotiate(c) ==
    /\ conn[c] = "open" /\ c \notin negotiated
    /\ \/ negotiated' = negotiated \cup {c} /\ UNCHANGED conn
       \/ Closed({c}) /\ UNCHANGED negotiated
    /\ stale' = stale \ {c}
    /\ UNCHANGED <<serverVars, accepts, cost, retained, noticeVars>>

\* A request has its cost; a session that is over the hard limit is closed.
Request(c) ==
    /\ conn[c] = "open" /\ c \in negotiated
    /\ IF cost[c] + ExtraCost(c) >= MaxCost
       THEN Closed({c}) /\ UNCHANGED cost
       ELSE cost' = [cost EXCEPT ![c] = @ + 1] /\ UNCHANGED conn
    /\ stale' = stale \ {c}
    /\ UNCHANGED <<serverVars, accepts, negotiated, retained, noticeVars>>

\* The cost of a session decays with time.
Decay(c) ==
    /\ conn[c] = "open" /\ cost[c] > 0 /\ cost' = [cost EXCEPT ![c] = @ - 1]
    /\ UNCHANGED <<serverVars, connVars, retained, noticeVars>>

GoStale(c) ==
    /\ conn[c] = "open" /\ c \notin stale /\ stale' = stale \cup {c}
    /\ UNCHANGED <<serverVars, accepts, conn, negotiated, cost, retained, noticeVars>>

\* _clear_stale_sessions, and rpc_disconnect of sessions, of groups or of all.
ClearStale ==
    /\ phase = "serving" /\ ~ discovering /\ (\E c \in stale : conn[c] = "open")
    /\ Closed(stale)
    /\ UNCHANGED <<serverVars, accepts, negotiated, stale, cost, retained, noticeVars>>
RpcDisconnect(cs) ==
    /\ phase = "serving" /\ \E c \in cs : conn[c] = "open"
    /\ Closed(cs)
    /\ UNCHANGED <<serverVars, accepts, negotiated, stale, cost, retained, noticeVars>>

\* Mutant of RetainedAfter: what the session cost is forgotten.
RetainedAfterNothing(c) == retained

\* The costs that groups retain when a session is removed.
RetainedAfter(c) ==
    IF GroupOf[c] = NoGroup THEN retained ELSE [retained EXCEPT ![GroupOf[c]] = @ + cost[c]]

\* connection_lost: the client hung up, or close() is done with the session.
ConnectionLost(c) ==
    /\ c \in Sessions
    /\ conn' = [conn EXCEPT ![c] = "off"]
    /\ negotiated' = negotiated \ {c} /\ stale' = stale \ {c}
    /\ retained' = RetainedAfter(c)
    /\ cost' = [cost EXCEPT ![c] = 0]
    /\ UNCHANGED <<serverVars, accepts, noticeVars>>

-----------------------------------------------------------------------------
(* _notify_sessions: one session after the other *)

StartNotify ==
    /\ phase = "serving" /\ notices < MaxNotices /\ untold = {} /\ telling = {} /\ Sessions # {}
    /\ untold' = Sessions /\ notices' = notices + 1
    /\ UNCHANGED <<serverVars, connVars, cost, retained, telling>>

NotifyNext(c) ==
    /\ telling = {} /\ c \in untold
    /\ telling' = {c} /\ untold' = untold \ {c}
    /\ UNCHANGED <<serverVars, connVars, cost, retained, notices>>

\* The client reads what it is sent, or is gone.
NotifyDone(c) ==
    /\ c \in telling /\ telling' = {}
    /\ UNCHANGED <<serverVars, connVars, cost, retained, untold, notices>>

\* Mutant of TimedOut: only the session is closed.
TimedOutWaiting == telling

\* What is left to wait for when a notification takes more than 30 seconds.
TimedOut == {}

NotifyTimeout(c) ==
    /\ c \in telling /\ telling' = TimedOut
    /\ Closed({c})
    /\ UNCHANGED <<serverVars, accepts, negotiated, stale, cost, retained, untold, notices>>

-----------------------------------------------------------------------------
Next ==
    \/ \E s \in Service : OpenService(s)
    \/ Serve \/ DiscoverEnds \/ Cancel \/ StopServers \/ Stop \/ ClearStale \/ StartNotify
    \/ \E c \in Client :
        \/ Accept(c) \/ GiveUp(c) \/ AddSession(c) \/ Negotiate(c) \/ Request(c) \/ Decay(c) \/ GoStale(c)
        \/ ConnectionLost(c) \/ NotifyNext(c) \/ NotifyDone(c) \/ NotifyTimeout(c)
    \/ \E cs \in SUBSET Client : RpcDisconnect(cs)

\* Tasks go on, and close() ends within a second, or a timeout expires; a client
\* need do nothing.
Fairness ==
    /\ WF_vars(StopServers) /\ WF_vars(Stop)
    /\ \A c \in Client :
        /\ WF_vars(conn[c] \in {"closing", "refused"} /\ ConnectionLost(c))
        /\ WF_vars(NotifyNext(c)) /\ WF_vars(NotifyTimeout(c))

Spec == Init /\ [][Next]_vars /\ Fairness

-----------------------------------------------------------------------------
(* Properties *)

\* Each variable has its type, and each session is in a group that is known.
TypeOK ==
    /\ servers \subseteq Service /\ unopened \subseteq Service
    /\ negotiated \cup stale \subseteq Sessions
    /\ cost \in [Client -> 0 .. MaxCost] /\ \A c \in Client \ Sessions : cost[c] = 0
    /\ DOMAIN retained \subseteq GroupName
    /\ \A c \in Sessions : GroupOf[c] \in DOMAIN retained \cup {NoGroup}
    /\ untold \cup telling \subseteq Client

\* Hanging up does not shed costs: whatever sessions of a group come and go, its
\* cost only falls when that of a session decays.
CostSurvives ==
    [][\A g \in DOMAIN retained :
          GroupCost(g)' < GroupCost(g) => \E c \in Client : conn[c] = "open" /\ cost'[c] = cost[c] - 1]_vars

\* The block processor and the mempool wait for _notify_sessions: no client that
\* stays connected and reads nothing can hold it up for ever.
NotifyEnds == telling # {} ~> telling = {} /\ untold = {}

\* A server that is asked to stop does so, whatever the clients do; serve() has
\* best effort for "sessions that are still doing early-handshake".
ShutdownEnds == phase \in {"cancelling", "closing"} ~> phase = "stopped"
=============================================================================
