---------------------------- MODULE MCServices ----------------------------
(* Model-checking instance of the services around the database: the realtime *)
(* server with the browser's feed, reconciliation, retention and the pruner, *)
(* the bridge indexer, the limiters and the pool's ring buffer.  They share  *)
(* no state with each other here, so a behaviour takes the steps of one of   *)
(* them, chosen at first ("part"), while the others stay as they start.      *)
EXTENDS LiveFeed, Reconciliation, Retention, Bridge, SlidingWindow,
        RingBuffer

CONSTANT Parts  \* the components checked
VARIABLE part   \* the component the behaviour is about

mcvars == <<part, livevars, recvars, retvars, prunevars, bridgevars, windowvars, ringvars>>

-----------------------------------------------------------------------------
(* Values of the constants.                                              *)

MCClientIp == [c \in Clients |-> "ip1"]

MCRanges == {<<1, 2>>}

MCOldFrom == <<0, 0, 1>>
MCTimestampOf == <<1, 0, 1, 0>>

\* A burn on Stellar, a mint on another chain that agrees with it by time and amount,
\* and one that agrees by proof.
BridgeEvent(c, b, i, ty, tx, p, at) ==
    [chain |-> c, block |-> b, index |-> i, type |-> ty, tx |-> tx, proof |-> p,
     recipient |-> 0, amount |-> 1, time |-> at]

MCBridgeEvents ==
    {BridgeEvent(Stellar, 0, 1, "burn", "t1", 7, 1),
     BridgeEvent("eth", 1, 1, "mint", "t2", 0, 2),
     BridgeEvent("eth", 1, 2, "mint", "t3", 7, 2)}
MCLastBlock == [eth |-> 2, opt |-> 1]

-----------------------------------------------------------------------------
(* The sum of the components.                                            *)

MCInit ==
    /\ part \in Parts
    /\ FeedInit /\ RecInit /\ RetInit /\ PruneInit /\ BridgeInit /\ WindowInit /\ RingInit
    /\ part # "limiters" => limiter = "auth"

Feed == /\ part = "feed"
        /\ UNCHANGED <<part, recvars, retvars, prunevars, bridgevars, windowvars, ringvars>>
Reconciler == /\ \/ part = "scheduler" /\ Len(job') <= 1
                 \/ part = "jobs" /\ UNCHANGED schedvars
              /\ UNCHANGED <<part, livevars, retvars, prunevars, bridgevars, windowvars, ringvars>>
Archiver == /\ part = "retention"
            /\ UNCHANGED <<part, livevars, recvars, prunevars, bridgevars, windowvars, ringvars>>
PruneCycle == /\ part = "pruner"
              /\ UNCHANGED <<part, livevars, recvars, retvars, bridgevars, windowvars, ringvars>>
BridgeIndexer == /\ part = "bridge"
                 /\ UNCHANGED <<part, livevars, recvars, retvars, prunevars, windowvars, ringvars>>
Limiters == /\ part = "limiters"
            /\ UNCHANGED <<part, livevars, recvars, retvars, prunevars, bridgevars, ringvars>>
Ring == /\ part = "ring"
        /\ UNCHANGED <<part, livevars, recvars, retvars, prunevars, bridgevars, windowvars>>

MCNext ==
    \/ Feed /\ FeedNext
    \/ RecNext /\ Reconciler
    \/ Archiver /\ RetNext
    \/ PruneCycle /\ PruneNext
    \/ BridgeIndexer /\ BridgeNext
    \/ Limiters /\ WindowNext
    \/ Ring /\ RingNext

MCSpec == MCInit /\ [][MCNext]_mcvars
=============================================================================
