------------------------------ MODULE DaemonRPC ------------------------------
(***************************************************************************)
(* Daemon._send (daemon.py): a request is posted to the current URL and    *)
(* posted again after every temporary error, with growing pauses; a        *)
(* request whose pause is the longest one switches all to the next URL.    *)
(* Temporary errors (timeouts, connection errors, a service that refuses,  *)
(* a daemon that warms up or cannot parse) are not told apart.             *)
(***************************************************************************)
EXTENDS Integers, FiniteSets, FiniteSetsExt

CONSTANTS
    NumUrls,
    InitRetry, MaxRetry,    \* pauses, in units of time
    MaxWorkqueue,           \* posts in flight
    Request,
    MaxEvents               \* bound on what happens to the daemons

\* Of the constants; Services assumes it.
DaemonRPCAssumption ==
    /\ {NumUrls, InitRetry, MaxRetry, MaxWorkqueue} \subseteq Nat \ {0}
    /\ InitRetry <= MaxRetry /\ MaxEvents \in Nat

VARIABLES
    url_index,
    up,         \* the URLs that answer
    events,     \* bound: changes of up so far
    req         \* what each request does, its retry, and the URL it was posted to

vars == <<url_index, up, events, req>>

Idle == [at |-> "idle", retry |-> InitRetry, url |-> 0]

Init ==
    /\ url_index = 0 /\ events = 0
    /\ up \in SUBSET (0 .. NumUrls - 1)
    /\ req = [r \in Request |-> Idle]

\* A daemon starts or stops answering.
UpOrDown(u) ==
    /\ events < MaxEvents /\ events' = events + 1
    /\ up' = IF u \in up THEN up \ {u} ELSE up \cup {u}
    /\ UNCHANGED <<url_index, req>>

\* rpc_daemon_url: set_url switches to the first of the URLs.
SetUrl ==
    /\ events < MaxEvents /\ events' = events + 1
    /\ url_index' = 0
    /\ UNCHANGED <<up, req>>

Start(r) ==
    /\ req[r].at \in {"idle", "done"}
    /\ req' = [req EXCEPT ![r] = [Idle EXCEPT !.at = "ready"]]
    /\ UNCHANGED <<url_index, up, events>>

\* The semaphore lets it post.
Post(r) ==
    /\ req[r].at = "ready"
    /\ Cardinality({s \in Request : req[s].at = "posted"}) < MaxWorkqueue
    /\ req' = [req EXCEPT ![r].at = "posted", ![r].url = url_index]
    /\ UNCHANGED <<url_index, up, events>>

\* A result, or an error that is raised as a DaemonError.
Reply(r) ==
    /\ req[r].at = "posted" /\ req[r].url \in up
    /\ req' = [req EXCEPT ![r].at = "done"]
    /\ UNCHANGED <<url_index, up, events>>

\* failover().
Failover == (url_index + 1) % NumUrls

\* log_error after a temporary error, which a daemon that answers may give too.
LogError(r) ==
    /\ req[r].at = "posted"
    /\ IF req[r].retry = MaxRetry /\ NumUrls > 1
       THEN /\ url_index' = Failover
            /\ req' = [req EXCEPT ![r].at = "asleep", ![r].retry = 0]
       ELSE /\ req' = [req EXCEPT ![r].at = "asleep"]
            /\ UNCHANGED url_index
    /\ UNCHANGED <<up, events>>

\* Mutant of NextRetry: a pause of zero stays zero.
NextRetryDoubled(retry) == Min({MaxRetry, retry * 2})

NextRetry(retry) == Max({Min({MaxRetry, retry * 2}), InitRetry})

Wake(r) ==
    /\ req[r].at = "asleep"
    /\ req' = [req EXCEPT ![r].at = "ready", ![r].retry = NextRetry(@)]
    /\ UNCHANGED <<url_index, up, events>>

Next ==
    \/ SetUrl \/ \E u \in 0 .. NumUrls - 1 : UpOrDown(u)
    \/ \E r \in Request : Start(r) \/ Post(r) \/ Reply(r) \/ LogError(r) \/ Wake(r)

\* Requests go on, and a post ends; one to a daemon that answers, time and again,
\* is answered at some time.
Fairness ==
    \A r \in Request :
        /\ WF_vars(Post(r)) /\ WF_vars(Wake(r)) /\ WF_vars(Reply(r) \/ LogError(r)) /\ SF_vars(Reply(r))

Spec == Init /\ [][Next]_vars /\ Fairness

-----------------------------------------------------------------------------
(* Properties *)

\* "Handles temporary connection issues": if one of the daemons answers from
\* some time on, whichever it is, a request is answered, whatever failures it
\* met and whatever pauses they led to.
Answered ==
    (<>[](up # {})) => \A r \in Request : req[r].at = "ready" ~> req[r].at = "done"
=============================================================================
