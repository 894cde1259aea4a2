------------------------------- MODULE Services -------------------------------
(***************************************************************************)
(* The parts of the server that share no state with one another, side by   *)
(* side.  A behaviour is one of one part, while the others stay as they    *)
(* began: steps of two of them commute, so that nothing is lost.           *)
(***************************************************************************)
EXTENDS Integers

CONSTANTS
    Client, GroupName, GroupOf, NoGroup, Service, MaxCost, MaxAccepts, MaxNotices,
    Key, FeeRequest, MaxTips,
    Chains, ReorgLimit, ProofRequest,
    NumUrls, InitRetry, MaxRetry, MaxWorkqueue, RpcRequest, MaxEvents,
    Host, TorHost, Address, NoAddress, AddressOf, CoinPeers, Listable, ForceProxy,
    BadTries, GoodTries, NoteLimit, PeerId,
    Txs, HeaderTx

VARIABLES
    part,           \* the one that this behaviour is of
    phase, unopened, servers, discovering, accepts, conn, negotiated, stale, cost, retained,
    untold, telling, notices,
    tip, cache, fee_req,
    chain, backing, initialized, length, level, depth_higher, proof_req,
    url_index, up, events, rpc_req,
    url, discovery, proxy, blacklist, peers, peer, reachable,
    coin, header, txs, block, cursor, left, txsRead

Manager == INSTANCE SessionManager
Fees == INSTANCE FeeEstimates WITH Request <- FeeRequest, req <- fee_req
Proofs == INSTANCE HeaderMerkle WITH Request <- ProofRequest, Exclusive <- TRUE, req <- proof_req
Rpc == INSTANCE DaemonRPC WITH Request <- RpcRequest, req <- rpc_req
Discovery == INSTANCE Peers WITH up <- reachable
Reader == INSTANCE BlockReader

ASSUME ServicesAssumption ==
    /\ Manager!SessionManagerAssumption /\ Fees!FeeEstimatesAssumption /\ Proofs!HeaderMerkleAssumption
    /\ Rpc!DaemonRPCAssumption /\ Discovery!PeersAssumption

managerVars == <<phase, unopened, servers, discovering, accepts, conn, negotiated, stale, cost, retained,
                 untold, telling, notices>>
feeVars == <<tip, cache, fee_req>>
proofVars == <<chain, backing, initialized, length, level, depth_higher, proof_req>>
rpcVars == <<url_index, up, events, rpc_req>>
peerVars == <<url, discovery, proxy, blacklist, peers, peer, reachable>>
readerVars == <<coin, header, txs, block, cursor, left, txsRead>>

vars == <<part, managerVars, feeVars, proofVars, rpcVars, peerVars, readerVars>>

Parts == {"manager", "fees", "proofs", "rpc", "peers", "reader"}

\* A part that nothing happens in begins in one way.
Init ==
    /\ part \in Parts
    /\ Manager!Init /\ Fees!Init
    /\ Proofs!Init /\ (part = "proofs" \/ chain = CHOOSE c \in Chains : TRUE)
    /\ Rpc!Init /\ (part = "rpc" \/ up = {})
    /\ IF part = "peers" THEN Discovery!Init ELSE Discovery!Init /\ reachable = {} /\ ~ url
    /\ IF part = "reader" THEN Reader!Init
       ELSE coin = "none" /\ header = "plain" /\ txs = <<>> /\ block = <<>> /\ cursor = 0 /\ left = 0 /\ txsRead = <<>>

Next ==
    /\ UNCHANGED part
    /\ \/ /\ part = "manager" /\ Manager!Next
          /\ UNCHANGED <<feeVars, proofVars, rpcVars, peerVars, readerVars>>
       \/ /\ part = "fees" /\ Fees!Next
          /\ UNCHANGED <<managerVars, proofVars, rpcVars, peerVars, readerVars>>
       \/ /\ part = "proofs" /\ Proofs!Next
          /\ UNCHANGED <<managerVars, feeVars, rpcVars, peerVars, readerVars>>
       \/ /\ part = "rpc" /\ Rpc!Next
          /\ UNCHANGED <<managerVars, feeVars, proofVars, peerVars, readerVars>>
       \/ /\ part = "peers" /\ Discovery!Next
          /\ UNCHANGED <<managerVars, feeVars, proofVars, rpcVars, readerVars>>
       \/ /\ part = "reader" /\ Reader!Next
          /\ UNCHANGED <<managerVars, feeVars, proofVars, rpcVars, peerVars>>

\* That of the parts.
Fairness ==
    /\ WF_(managerVars)(part = "manager" /\ Manager!StopServers)
    /\ WF_(managerVars)(part = "manager" /\ Manager!Stop)
    /\ \A c \in Client :
        /\ WF_(managerVars)(part = "manager" /\ conn[c] \in {"closing", "refused"} /\ Manager!ConnectionLost(c))
        /\ WF_(managerVars)(part = "manager" /\ Manager!NotifyNext(c))
        /\ WF_(managerVars)(part = "manager" /\ Manager!NotifyTimeout(c))
    /\ \A r \in RpcRequest :
        /\ WF_(rpcVars)(part = "rpc" /\ Rpc!Post(r))
        /\ WF_(rpcVars)(part = "rpc" /\ Rpc!Wake(r))
        /\ WF_(rpcVars)(part = "rpc" /\ (Rpc!Reply(r) \/ Rpc!LogError(r)))
        /\ SF_(rpcVars)(part = "rpc" /\ Rpc!Reply(r))
    /\ \A i \in PeerId : WF_(peerVars)(part = "peers" /\ Discovery!Monitor(i))

Spec == Init /\ [][Next]_vars /\ Fairness

-----------------------------------------------------------------------------
(* Properties of the parts *)

\* Hanging up does not shed the costs that a client's group has run up.
CostSurvives == Manager!CostSurvives

\* No client can hold up for ever the notifications of a block or the mempool.
NotifyEnds == Manager!NotifyEnds

\* A server that is asked to stop does so, whatever its clients do.
ShutdownEnds == Manager!ShutdownEnds

\* No client gets a fee rate that was estimated before the tip it asked at.
FeeCurrent == Fees!FeeCurrent

\* However many clients ask for one estimate, the daemon is asked by one at a time.
OneAsks == Fees!OneAsks

\* Between requests and reorgs the merkle cache is exact.
CacheExact == Proofs!CacheExact

\* A header proof that no reorg disturbs is right, and is never an error.
AnswersRight == Proofs!AnswersRight

\* A request to the daemons is answered if one of them answers from some time on.
Answered == Rpc!Answered

\* A peer that cannot be reached any more is forgotten.
Forgets == Discovery!Forgets

\* Transactions are read from a block with the right IDs, sizes and places.
IdsRight == Reader!IdsRight

\* Special transactions are read as they are written.
PayloadsRight == Reader!PayloadsRight
=============================================================================
