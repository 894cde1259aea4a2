-------------------------------- MODULE Peers --------------------------------
(***************************************************************************)
(* PeerManager (peers.py) and Peer (peer.py): peers are noted, and a task  *)
(* for each connects to it, verifies it and sleeps, until the peer is      *)
(* forgotten or evicted.  Ports, features and the texts of answers are     *)
(* left out, and the addresses and ports tried one after another are one   *)
(* attempt.  A peer that is reported is public; discovery is on.           *)
(***************************************************************************)
EXTENDS Integers, FiniteSets, FiniteSetsExt, Functions

CONSTANTS
    Host,           \* names of hosts; those in Address are IP addresses
    TorHost,        \* the names that end in .onion
    Address, NoAddress,
    AddressOf,      \* the address that each clearnet host is reached at
    CoinPeers,      \* the hard-coded peers of the coin, and the server itself
    Listable,       \* names and addresses that a blacklist may hold
    ForceProxy,     \* env.force_proxy
    BadTries, GoodTries,    \* the try_limit of peers never seen good or bad, and of others
    NoteLimit,      \* the limit of _note_peers
    PeerId          \* bound: the Peer objects that there may be at once

\* Of the constants; Services assumes it.
PeersAssumption ==
    /\ TorHost \subseteq Host /\ CoinPeers \subseteq Host /\ NoAddress \notin Host \cup Address
    /\ AddressOf \in [Host \ TorHost -> Address] /\ \A h \in Host \cap Address : AddressOf[h] = h
    /\ ForceProxy \in BOOLEAN /\ BadTries \in Nat \ {0} /\ GoodTries >= BadTries
    /\ NoteLimit \in Nat

VARIABLES
    url,            \* there is a blacklist_url
    discovery,      \* the task that discover_peers waits for
    proxy,          \* there is a proxy
    blacklist,
    peers,          \* the peers that are known
    peer,           \* the Peer objects and what their tasks do
    up              \* the hosts that can be connected to

discoveryVars == <<url, discovery, proxy, blacklist>>
vars == <<discoveryVars, peers, peer, up>>

Gone == [host |-> NoAddress, ip |-> NoAddress, tries |-> 0, good |-> "never", bad |-> FALSE, at |-> "gone"]

Init ==
    /\ url \in BOOLEAN /\ discovery = "blacklist" /\ proxy = FALSE /\ blacklist = {}
    /\ peers = {} /\ peer = [i \in PeerId |-> Gone]
    /\ up \in SUBSET Host

-----------------------------------------------------------------------------
(* Peers that are known *)

\* Peer.matches, for a peer of this host and address.
Matches(host, ip) == {i \in peers : peer[i].host \in {host, ip} \/ peer[i].ip = host}

Blacklisted(p) == {p.host, p.ip} \cap blacklist # {}

\* _get_recent_good_peers: of no more than three hours ago.
RecentGood == {i \in peers : peer[i].good = "recent" /\ ~ peer[i].bad /\ ~ Blacklisted(peer[i])}

Tor(i) == peer[i].host \in TorHost
Unproxied(i) == (ForceProxy \/ Tor(i)) /\ ~ proxy

\* _note_peers: up to limit peers that match none are added, each with a task.
\* objects is what is otherwise changed.  Those that match an entry at most wake
\* its task early, as the blacklist does, which is a matter of time alone.
NotePeers(hosts, limit, objects) ==
    LET new == {h \in hosts : (h \in TorHost => proxy) /\ Matches(h, NoAddress) = {}}
        free == {i \in PeerId : peer[i] = Gone}
        number == Min({limit, Cardinality(new), Cardinality(free)})
    IN  \E use \in kSubset(number, free) : \E host \in Injection(use, new) :
            /\ peers' = peers \cup use
            /\ peer' = [i \in PeerId |->
                    IF i \in use THEN [Gone EXCEPT !.host = host[i], !.at = "start"] ELSE objects[i]]

\* on_add_peer, which may refuse, and add_localRPC_peer.
AddPeer(h) == NotePeers({h}, NoteLimit, peer) /\ UNCHANGED <<discoveryVars, up>>

-----------------------------------------------------------------------------
(* discover_peers waits for the end of each of its tasks in turn; the one    *)
(* that refreshes a blacklist has no end, nor that which finds no proxy      *)

RefreshBlacklist ==
    /\ discovery = "blacklist"
    /\ IF url THEN blacklist' \in SUBSET Listable /\ UNCHANGED discovery
       ELSE discovery' = "proxy" /\ UNCHANGED blacklist
    /\ UNCHANGED <<url, proxy, peers, peer, up>>

DetectProxy ==
    /\ discovery = "proxy"
    /\ discovery' = "import" /\ proxy' = TRUE
    /\ UNCHANGED <<url, blacklist, peers, peer, up>>

ImportPeers ==
    /\ discovery = "import" /\ discovery' = "over"
    /\ NotePeers(CoinPeers, Cardinality(CoinPeers), peer)
    /\ UNCHANGED <<url, proxy, blacklist, up>>

-----------------------------------------------------------------------------
(* _monitor_peer and _should_drop_peer *)

\* The loop ends if the peer was evicted.  Counts above both limits are alike.
Start(i) ==
    /\ peer[i].at = "start"
    /\ peer' = [peer EXCEPT ![i] =
            IF i \notin peers THEN Gone
            ELSE [@ EXCEPT !.tries = Min({@ + 1, GoodTries + 1}),
                           !.at = IF Unproxied(i) THEN "sleep" ELSE "connect"]]
    /\ UNCHANGED <<discoveryVars, peers, up>>

\* Mutant of Limit: good peers have no limit.
LimitNone(p) == IF p.good # "never" /\ ~ p.bad THEN GoodTries + 2 ELSE BadTries

Limit(p) == IF p.good # "never" /\ ~ p.bad THEN GoodTries ELSE BadTries

\* An attempt failed, which left the object p: the peer may be forgotten.
Failed(i, p) ==
    IF p.tries >= Limit(p)
    THEN peers' = peers \ {i} /\ peer' = [peer EXCEPT ![i] = Gone]
    ELSE peer' = [peer EXCEPT ![i] = [p EXCEPT !.at = "sleep"]] /\ UNCHANGED peers

MarkedBad(p) == [p EXCEPT !.bad = TRUE]

\* The start of _verify_peer.  The lock of the bucket is held for the check alone.
Connect(i) ==
    LET p == [peer[i] EXCEPT !.ip = IF Tor(i) THEN @ ELSE AddressOf[peer[i].host]]
        refused == \/ Blacklisted(p)
                   \/ ~ Tor(i) /\ \E j \in RecentGood \ {i} : peer[j].ip = p.ip
    IN  /\ peer[i].at = "connect" /\ peer[i].host \in up
        /\ IF refused THEN Failed(i, MarkedBad(p))
           ELSE peer' = [peer EXCEPT ![i] = [p EXCEPT !.at = "verify"]] /\ UNCHANGED peers
        /\ UNCHANGED <<discoveryVars, up>>

\* Its answers are good; the peers that it reports are noted.
Report(i) ==
    /\ peer[i].at = "verify" /\ peer[i].host \in up
    /\ \E hosts \in SUBSET Host : NotePeers(hosts, NoteLimit, [peer EXCEPT ![i].at = "register"])
    /\ UNCHANGED <<discoveryVars, up>>

\* The rest of _verify_peer, server.add_peer if it does not know this server, and
\* of _should_drop_peer: entries named by the same address are evicted.
Succeed(i) ==
    LET matches == Matches(peer[i].host, peer[i].ip)
    IN  /\ peer[i].at = "register" /\ peer[i].host \in up
        /\ peer' = [peer EXCEPT ![i].tries = 0, ![i].good = "recent", ![i].at = "sleep"]
        /\ peers' = IF Cardinality(matches) > 1 THEN peers \ {j \in matches : peer[j].host \in Address} ELSE peers
        /\ UNCHANGED <<discoveryVars, up>>

\* Connection, proxy and RPC errors and timeouts; a bad answer is a BadPeerError.
Fail(i) ==
    /\ peer[i].at \in {"connect", "verify", "register"}
    /\ \/ Failed(i, peer[i])
       \/ peer[i].at # "connect" /\ Failed(i, MarkedBad(peer[i]))
    /\ UNCHANGED <<discoveryVars, up>>

\* The pause is over, which doubles with every try.
Wake(i) ==
    /\ peer[i].at = "sleep" /\ peer' = [peer EXCEPT ![i].at = "start"]
    /\ UNCHANGED <<discoveryVars, peers, up>>

Monitor(i) == Start(i) \/ Connect(i) \/ Report(i) \/ Succeed(i) \/ Fail(i) \/ Wake(i)

\* Three hours have passed.
GetStale(i) ==
    /\ peer[i].good = "recent" /\ peer' = [peer EXCEPT ![i].good = "stale"]
    /\ UNCHANGED <<discoveryVars, peers, up>>

\* A host starts or stops to accept connections.
UpOrDown(h) ==
    /\ up' = IF h \in up THEN up \ {h} ELSE up \cup {h}
    /\ UNCHANGED <<discoveryVars, peers, peer>>

Next ==
    \/ RefreshBlacklist \/ DetectProxy \/ ImportPeers
    \/ \E i \in PeerId : Monitor(i) \/ GetStale(i)
    \/ \E h \in Host : AddPeer(h) \/ UpOrDown(h)

\* The task of each peer goes on.
Fairness == \A i \in PeerId : WF_vars(Monitor(i))

Spec == Init /\ [][Next]_vars /\ Fairness

-----------------------------------------------------------------------------
(* Properties *)

\* "Forgetting unreachable peers": a host that cannot be connected to from some
\* time on is dropped from the peers, however good it was and whoever reports it.
Forgets == \A h \in Host : <>[](h \notin up) => []<>(\A i \in peers : peer[i].host # h)
=============================================================================
