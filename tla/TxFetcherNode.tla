---------------------------- MODULE TxFetcherNode ----------------------------
(***************************************************************************)
(* The transaction fetcher with the goroutines that call it: one protocol  *)
(* handler per connected peer (eth/handler.go, eth/handler_eth.go), which  *)
(* calls Notify and Enqueue for what the peer sends and Drop when it       *)
(* leaves, and the goroutines scheduleFetches starts to send requests,     *)
(* which call Drop when that fails.                                        *)
(*                                                                         *)
(* Every call ends with a send on an unbuffered channel of the loop (or    *)
(* with quit): between what a call read or wrote before it and the loop    *)
(* taking the message anything else may happen.                            *)
(***************************************************************************)
EXTENDS TxFetcher

CONSTANTS
  MaxSenders            \* bound on the request goroutines of one peer

ASSUME SendersAssumption == MaxSenders \in Nat \ {0}

VARIABLES
  registered,    \* peers in the peer set of the handler
  call,          \* peer -> the fetcher call its handler is in
  pool,          \* hashes of the transactions in the pool
  underpriced,   \* hashes remembered as too cheap
  senders,       \* peer -> goroutines that still have to send a request
  failed         \* peer -> goroutines whose send failed, calling Drop

callVars == <<registered, call, pool, underpriced, senders, failed>>
nodeVars == <<vars, callVars>>

NoCall  == [op |-> "none"]
Call    == [op : {"none", "drop", "unregister"}]
             \cup [op : {"notify"}, metas : [Hash -> Slot]]
             \cup [op : {"enqueue"}, hashes : SUBSET Hash, direct : BOOLEAN]

NodeInit ==
  /\ Init
  /\ registered = {} /\ call = [p \in Peer |-> NoCall]
  /\ pool = {} /\ underpriced = {}
  /\ senders = [p \in Peer |-> 0] /\ failed = [p \in Peer |-> 0]

-----------------------------------------------------------------------------
(* The handler of a peer. *)
Free(p)       == p \in registered /\ call[p] = NoCall
CallOf(p, c)  == call' = [call EXCEPT ![p] = c]

\* runEthPeer registers the peer.
Register(p) ==
  /\ p \notin registered /\ call[p] = NoCall
  /\ registered' = registered \cup {p}
  /\ removing' = removing \ {p}
  /\ UNCHANGED <<waitVars, fetchVars, waitTimer, timeoutTimer, running, panicked,
                 call, pool, underpriced, senders, failed>>

\* Notify: known and underpriced transactions are filtered before the send.
Notify(p, metas) ==
  /\ Free(p)
  /\ LET unknown == [h \in Hash |-> IF h \in pool \cup underpriced THEN NoMeta ELSE metas[h]]
     IN Held(unknown) # {} /\ CallOf(p, [op |-> "notify", metas |-> unknown])
  /\ UNCHANGED <<vars, registered, pool, underpriced, senders, failed>>

\* Enqueue: the pool takes, rejects or finds underpriced each transaction.
Enqueue(p, hashes, direct) ==
  /\ Free(p)
  /\ \E ok \in SUBSET hashes : \E cheap \in SUBSET (hashes \ ok) :
       pool' = pool \cup ok /\ underpriced' = underpriced \cup (cheap \ pool)
  /\ CallOf(p, [op |-> "enqueue", hashes |-> hashes, direct |-> direct])
  /\ UNCHANGED <<vars, registered, senders, failed>>

\* The connection ends, by itself or by removePeer: unregisterPeer calls Drop.
BugLeave(p) ==
  /\ Free(p) /\ CallOf(p, [op |-> "unregister"])
  /\ UNCHANGED <<vars, registered, pool, underpriced, senders, failed>>
Leave(p) ==
  /\ Free(p) /\ CallOf(p, [op |-> "drop"])
  /\ UNCHANGED <<vars, registered, pool, underpriced, senders, failed>>

\* ... and only then takes the peer out of the set.
Unregister(p) ==
  /\ call[p].op = "unregister" /\ CallOf(p, NoCall)
  /\ registered' = registered \ {p}
  /\ UNCHANGED <<vars, pool, underpriced, senders, failed>>

BugTerminated(p) ==
  /\ ~running /\ call[p].op \in {"notify", "enqueue"}
  /\ CallOf(p, [op |-> "drop"])
  /\ UNCHANGED <<vars, registered, pool, underpriced, senders, failed>>

\* The fetcher is stopped: the call returns errTerminated, which ends the handler.
Terminated(p) ==
  /\ ~running /\ call[p].op \in {"notify", "enqueue", "drop"}
  /\ CallOf(p, [op |-> IF call[p].op = "drop" THEN "unregister" ELSE "drop"])
  /\ UNCHANGED <<vars, registered, pool, underpriced, senders, failed>>

-----------------------------------------------------------------------------
(* The request goroutines. *)

\* A new request of this step of the loop: it differs from the one before, and
\* nothing is stolen from it yet.
Started(p) ==
  /\ requests'[p].hashes # {} /\ requests'[p].stolen = {}
  /\ requests'[p].hashes # requests[p].hashes \/ requests[p].stolen # {}

\* Each new request starts a goroutine.
StartSenders ==
  /\ senders' = [p \in Peer |-> senders[p] + (IF Started(p) THEN 1 ELSE 0)]
  /\ \A p \in Peer : senders'[p] + failed[p] <= MaxSenders

\* fetchTx: the peer is looked up and the request is written, or that fails.
Send(p) ==
  /\ senders[p] > 0
  /\ senders' = [senders EXCEPT ![p] = @ - 1]
  /\ \/ p \in registered /\ UNCHANGED failed
     \/ failed' = [failed EXCEPT ![p] = @ + 1]
  /\ UNCHANGED <<vars, registered, call, pool, underpriced>>

\* The Drop of a failed request returns because the fetcher was stopped.
FailedReturns(p) ==
  /\ ~running /\ failed[p] > 0
  /\ failed' = [failed EXCEPT ![p] = @ - 1]
  /\ UNCHANGED <<vars, registered, call, pool, underpriced, senders>>

-----------------------------------------------------------------------------
(* The loop takes the message of a call, or of a timer. *)
TakeNotify(p) ==
  /\ call[p].op = "notify" /\ running
  /\ \/ LoopNotify(p, call[p].metas) /\ StartSenders
     \/ Used(p) >= MaxTxAnnounces /\ UNCHANGED <<vars, senders>>
  /\ CallOf(p, NoCall)
  /\ UNCHANGED <<registered, pool, underpriced, failed>>

TakeCleanup(p) ==
  /\ call[p].op = "enqueue"
  /\ LoopCleanup(p, call[p].hashes, call[p].direct) /\ StartSenders
  /\ CallOf(p, NoCall)
  /\ UNCHANGED <<registered, pool, underpriced, failed>>

TakeDrop(p) ==
  /\ call[p].op = "drop"
  /\ LoopDrop(p) /\ StartSenders
  /\ CallOf(p, [op |-> "unregister"])
  /\ UNCHANGED <<registered, pool, underpriced, failed>>

\* The goroutine deletes the request itself.
BugTakeFailed(p) ==
  /\ failed[p] > 0 /\ requests' = [requests EXCEPT ![p] = NoRequest]
  /\ failed' = [failed EXCEPT ![p] = @ - 1]
  /\ UNCHANGED <<waitVars, announces, announced, fetching, alternates, waitTimer, timeoutTimer,
                 running, panicked, removing, senders, registered, call, pool, underpriced>>
TakeFailed(p) ==
  /\ failed[p] > 0
  /\ LoopDrop(p) /\ StartSenders
  /\ failed' = [failed EXCEPT ![p] = @ - 1]
  /\ UNCHANGED <<registered, call, pool, underpriced>>

TakeTimer ==
  /\ LoopWait \/ LoopTimeout
  /\ StartSenders
  /\ UNCHANGED <<registered, call, pool, underpriced, failed>>

\* Time passes, the pool drops a transaction, an underpriced mark expires or is
\* evicted, the fetcher is stopped.
Environment ==
  \/ (WaitElapses \/ FetchElapses \/ Stop) /\ UNCHANGED callVars
  \/ \E h \in pool : pool' = pool \ {h} /\ UNCHANGED <<vars, registered, call, underpriced, senders, failed>>
  \/ \E h \in underpriced : underpriced' = underpriced \ {h} /\ UNCHANGED <<vars, registered, call, pool, senders, failed>>

PeerNext(p) ==
  \/ Register(p) \/ Leave(p) \/ Unregister(p) \/ Terminated(p)
  \/ \E metas \in [Hash -> Slot] : Notify(p, metas)
  \/ \E hashes \in SUBSET Hash, direct \in BOOLEAN : Enqueue(p, hashes, direct)
  \/ Send(p) \/ FailedReturns(p)
  \/ TakeNotify(p) \/ TakeCleanup(p) \/ TakeDrop(p) \/ TakeFailed(p)

NodeNext == (\E p \in Peer : PeerNext(p)) \/ TakeTimer \/ Environment
NodeSpec == NodeInit /\ [][NodeNext]_nodeVars

\* Go's select picks a ready case at random, so the loop takes every message that
\* keeps being offered; goroutines run; a disconnected peer's handler notices.
NodeFairness ==
  \A p \in Peer :
    /\ SF_nodeVars(TakeNotify(p)) /\ SF_nodeVars(TakeCleanup(p))
    /\ SF_nodeVars(TakeDrop(p)) /\ SF_nodeVars(TakeFailed(p))
    /\ WF_nodeVars(Send(p)) /\ WF_nodeVars(FailedReturns(p))
    /\ WF_nodeVars(Terminated(p)) /\ WF_nodeVars(Unregister(p))
    /\ SF_nodeVars(p \in removing /\ Leave(p))

FairNodeSpec == NodeSpec /\ NodeFairness

-----------------------------------------------------------------------------
(* Properties *)

\* The fetcher of a node behaves like the fetcher alone under arbitrary calls.
FetcherRefined == Spec

\* A peer that left is forgotten: because its handler drops it before it leaves
\* the peer set and sends nothing after that, no announcement or request of an
\* earlier connection is charged to the next one (handler.go:506-510).
GoneForgotten ==
  running => \A p \in Peer \ registered :
    waitslots[p] = NoSlots /\ announces[p] = NoSlots /\ ~requests[p].open

\* No handler hangs in a call, whether the loop takes it or is stopped, and so a
\* peer that is removed for lying about metadata is gone eventually.
CallsReturn == \A p \in Peer : []<>(call[p].op = "none")
LiarLeaves == \A p \in Peer : []<>(p \notin removing \/ p \notin registered)
=============================================================================
