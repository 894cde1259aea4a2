----------------------------- MODULE FeeEstimates -----------------------------
(***************************************************************************)
(* ElectrumX.estimatefee (session.py) and estimatefee_cache: a cached fee  *)
(* rate is good for one tip of the block processor, and a lock for each    *)
(* key keeps all requests but one from asking the daemon.  A fee rate      *)
(* stands for the tip at the moment when the daemon answered with it.      *)
(***************************************************************************)
EXTENDS Integers, FiniteSets

CONSTANTS
    Key,        \* the bucket of the number of blocks, with the mode
    Request,
    MaxTips     \* bound on the changes of the tip

\* Of the constants; Services assumes it.
FeeEstimatesAssumption == MaxTips \in Nat

VARIABLES
    tip,        \* BlockProcessor.tip, as the number of its changes
    cache,      \* key -> tip and fee rate, NoFee if there is none
    req         \* what each request does

vars == <<tip, cache, req>>

NoFee == [tip |-> -1, fee |-> -1]

\* What a request does for a key since the tip at which it came; while it asks,
\* the tip that the answer is for; the fee rate that it got.
Doing(at, key, since, for, fee) == [at |-> at, key |-> key, since |-> since, tip |-> for, fee |-> fee]
Idle == Doing("idle", "none", -1, -1, -1)

Init ==
    /\ tip = 0
    /\ cache = [k \in Key |-> NoFee]
    /\ req = [r \in Request |-> Idle]

NewTip == tip < MaxTips /\ tip' = tip + 1 /\ UNCHANGED <<cache, req>>

Answered(r, k, fee) == req' = [req EXCEPT ![r] = Doing("answered", k, req[r].since, -1, fee)]

\* A fee of the present tip is returned; else there is a lock to wait for.
Ask(r, k) ==
    /\ req[r].at \in {"idle", "answered"}
    /\ req' = [req EXCEPT ![r] = IF cache[k].tip = tip THEN Doing("answered", k, tip, -1, cache[k].fee)
                                ELSE Doing("waiting", k, tip, -1, -1)]
    /\ UNCHANGED <<tip, cache>>

\* Mutant of Locked: each request has a lock of its own.
LockedNever(k) == FALSE

Locked(k) == \E r \in Request : req[r].at = "asking" /\ req[r].key = k

\* The lock is taken, and the cache looked at again; tip is what the answer of
\* the daemon will be kept for.
Acquire(r) ==
    LET k == req[r].key
    IN  /\ req[r].at = "waiting" /\ ~ Locked(k)
        /\ IF cache[k].tip = tip THEN Answered(r, k, cache[k].fee)
           ELSE req' = [req EXCEPT ![r] = Doing("asking", k, req[r].since, tip, -1)]
        /\ UNCHANGED <<tip, cache>>

\* Mutant of KeptFor: the tip at the time of the answer, which may be another.
KeptForNext(r) == req[r].tip + 1

\* The tip that a fee rate is kept for.
KeptFor(r) == req[r].tip

Reply(r) ==
    /\ req[r].at = "asking"
    /\ \E fee \in req[r].tip .. tip :     \* of any moment since it was asked
        /\ cache' = [cache EXCEPT ![req[r].key] = [tip |-> KeptFor(r), fee |-> fee]]
        /\ Answered(r, req[r].key, fee)
    /\ UNCHANGED tip

\* The daemon refuses, or the client is gone: the lock is released.
Fail(r) ==
    /\ req[r].at \in {"waiting", "asking"}
    /\ req' = [req EXCEPT ![r] = Idle]
    /\ UNCHANGED <<tip, cache>>

Next == NewTip \/ \E r \in Request : Acquire(r) \/ Reply(r) \/ Fail(r) \/ \E k \in Key : Ask(r, k)

Spec == Init /\ [][Next]_vars

-----------------------------------------------------------------------------
(* Properties *)

\* The fee rate that a client gets was estimated no earlier than the block that
\* was the tip when the client asked, whatever was cached or came meanwhile.
FeeCurrent == \A r \in Request : req[r].at = "answered" => req[r].fee >= req[r].since

\* "create lock now, store it, and only then await on it": however many clients
\* ask for the same estimate, the daemon is asked by one of them at a time.
OneAsks == \A k \in Key : Cardinality({r \in Request : req[r].at = "asking" /\ req[r].key = k}) <= 1
=============================================================================
