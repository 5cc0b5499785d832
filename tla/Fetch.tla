------------------------------- MODULE Fetch --------------------------------
(***************************************************************************)
(* The concurrent fetchers of a sync cycle (concurrentFetch, one for       *)
(* bodies and one for receipts) around the queue of BlockQueue, with the   *)
(* header processor that feeds it, peers that answer, time out, leave and  *)
(* come back, and the end of the cycle (spawnSync).  Beacon mode: the      *)
(* errors that abort a legacy sync for want of peers do not occur.         *)
(***************************************************************************)
EXTENDS BlockQueue, Sequences

CONSTANTS
  Steady,     \* peers that stay and answer in time with something valid
  EventCap,   \* capacity of the channel of peering events
  MaxJoins    \* bound on how often a peer connects

ASSUME FetchAssumption ==
  Steady \subseteq Peer /\ EventCap \in Nat \ {0} /\ MaxJoins \in Nat

VARIABLES
  joins,      \* how often each peer registered
  conn,       \* a peer: not registered, registered, or unregistered and not yet revoked
  peering,    \* per fetcher: peers that joined or left
  wake,       \* per fetcher: content of blockWakeCh, receiptWakeCh
  loop,       \* per fetcher: where its loop is
  idles,      \* per fetcher: peers still to be asked in this pass
  asked,      \* per fetcher: the peer being asked, or whose answer is delivered
  request,    \* per fetcher and peer: in pending, in stales or in neither
  lost,       \* per fetcher: peers whose request went out on a connection that ended
  finished,   \* per fetcher: all headers are scheduled
  headers,    \* progress of processHeaders
  cancelled   \* cancelCh is closed

fetchVars == <<joins, conn, peering, wake, loop, idles, asked, request, lost, finished, headers, cancelled>>
allVars   == <<vars, fetchVars>>

LoopState == {"top", "ask", "reserve", "send", "select", "deliver", "done"}

FetchTypeOK ==
  /\ joins \in [Peer -> 0 .. MaxJoins]
  /\ conn \in [Peer -> {"out", "up", "leaving"}]
  /\ peering \in [Kind -> Seq([peer : Peer, join : BOOLEAN])]
  /\ \A k \in Kind : Len(peering[k]) <= EventCap
  /\ wake \in [Kind -> {"empty", "more", "end"}]
  /\ loop \in [Kind -> LoopState]
  /\ idles \in [Kind -> SUBSET Peer] /\ lost \in [Kind -> SUBSET Peer]
  /\ asked \in [Kind -> Peer]
  /\ request \in [Kind -> [Peer -> {"none", "pending", "stale"}]]
  /\ finished \in [Kind -> BOOLEAN] /\ cancelled \in BOOLEAN
  /\ headers \in {"schedule", "notify", "endBodies", "endReceipts", "done"}

FetchInit ==
  /\ Init
  /\ joins = [p \in Peer |-> 0]
  /\ conn = [p \in Peer |-> IF p \in Steady THEN "up" ELSE "out"]
  /\ peering = [k \in Kind |-> <<>>] /\ wake = [k \in Kind |-> "empty"]
  /\ loop = [k \in Kind |-> "top"]
  /\ idles = [k \in Kind |-> {}] /\ asked = [k \in Kind |-> CHOOSE p \in Peer : TRUE]
  /\ request = [k \in Kind |-> [p \in Peer |-> "none"]]
  /\ lost = [k \in Kind |-> {}] /\ finished = [k \in Kind |-> FALSE]
  /\ headers = "schedule" /\ cancelled = FALSE

Goto(k, l) == loop' = [loop EXCEPT ![k] = l]

\* A non-blocking send of true on both wake channels.
WakeBoth == wake' = [k \in Kind |-> IF wake[k] = "empty" THEN "more" ELSE wake[k]]

-----------------------------------------------------------------------------
(* processHeaders *)

ScheduleHeader ==
  /\ headers = "schedule" /\ ~cancelled /\ Schedule
  /\ headers' = "notify"
  /\ UNCHANGED <<joins, conn, peering, wake, loop, idles, asked, request, lost, finished, cancelled>>

NotifyFetchers ==
  /\ headers = "notify" /\ WakeBoth
  /\ headers' = "schedule"
  /\ UNCHANGED <<vars, joins, conn, peering, loop, idles, asked, request, lost, finished, cancelled>>

\* The stream of headers has ended: false is sent to one fetcher, then to the
\* other, waiting for room.
EndOfHeaders ==
  /\ headers = "schedule" /\ head = MaxNumber
  /\ headers' = "endBodies"
  /\ UNCHANGED <<vars, joins, conn, peering, wake, loop, idles, asked, request, lost, finished, cancelled>>

BugNotifyEnd(k) ==
  /\ headers = IF k = "body" THEN "endBodies" ELSE "endReceipts"
  /\ wake' = IF wake[k] = "empty" THEN [wake EXCEPT ![k] = "end"] ELSE wake
  /\ headers' = IF k = "body" /\ "receipt" \in Kind THEN "endReceipts" ELSE "done"
  /\ UNCHANGED <<vars, joins, conn, peering, loop, idles, asked, request, lost, finished, cancelled>>
NotifyEnd(k) ==
  /\ headers = IF k = "body" THEN "endBodies" ELSE "endReceipts"
  /\ \/ wake[k] = "empty" /\ wake' = [wake EXCEPT ![k] = "end"]
     \/ cancelled /\ UNCHANGED wake
  /\ headers' = IF k = "body" /\ "receipt" \in Kind THEN "endReceipts" ELSE "done"
  /\ UNCHANGED <<vars, joins, conn, peering, loop, idles, asked, request, lost, finished, cancelled>>

CancelHeaders ==
  /\ cancelled /\ headers = "schedule"
  /\ headers' = "done"
  /\ UNCHANGED <<vars, joins, conn, peering, wake, loop, idles, asked, request, lost, finished, cancelled>>

-----------------------------------------------------------------------------
(* concurrentFetch: one pass over the idle peers *)

NothingPending(k) == \A p \in Peer : request[k][p] # "pending"

\* Nothing is queued: wait, or end when all headers are known and no request
\* is out.
TopIdle(k) ==
  /\ loop[k] = "top" /\ call = Idle /\ taskQueue[k] = {}
  /\ Goto(k, IF NothingPending(k) /\ finished[k] THEN "done" ELSE "select")
  /\ UNCHANGED <<vars, joins, conn, peering, wake, idles, asked, request, lost, finished, headers, cancelled>>

TopAssign(k) ==
  /\ loop[k] = "top" /\ call = Idle /\ taskQueue[k] # {}
  /\ idles' = [idles EXCEPT ![k] = {p \in Peer : conn[p] = "up" /\ request[k][p] = "none"}]
  /\ Goto(k, "ask")
  /\ UNCHANGED <<vars, joins, conn, peering, wake, asked, request, lost, finished, headers, cancelled>>

\* The next idle peer reserves, in the order of capacity.
Ask(k, p) ==
  /\ loop[k] = "ask" /\ p \in idles[k]
  /\ \E c \in Capacities : Reserve(k, p, c)
  /\ idles' = [idles EXCEPT ![k] = @ \ {p}]
  /\ asked' = [asked EXCEPT ![k] = p] /\ Goto(k, "reserve")
  /\ UNCHANGED <<joins, conn, peering, wake, request, lost, finished, headers, cancelled>>

\* The reservation is made.  A throttled one ends the pass.
Reserved(k) ==
  /\ loop[k] = "reserve" /\ call # Idle /\ call.kind = k /\ ReserveReturn
  /\ LET throttled == /\ call.skip = {} /\ Cardinality(call.send) < call.count
                      /\ taskQueue[k] # {}
     IN  /\ Goto(k, IF call.send # {} THEN "send" ELSE "ask")
         /\ idles' = IF throttled THEN [idles EXCEPT ![k] = {}] ELSE idles
  /\ UNCHANGED <<joins, conn, peering, wake, asked, request, lost, finished, headers, cancelled>>

PassEnds(k) ==
  /\ loop[k] = "ask" /\ call = Idle
  /\ idles[k] = {} \/ taskQueue[k] = {}
  /\ idles' = [idles EXCEPT ![k] = {}]
  /\ Goto(k, "select")
  /\ UNCHANGED <<vars, joins, conn, peering, wake, asked, request, lost, finished, headers, cancelled>>

\* The request is sent; a connection that has ended may still take it.
Send(k) ==
  /\ loop[k] = "send"
  /\ request' = [request EXCEPT ![k][asked[k]] = "pending"]
  /\ lost' = IF conn[asked[k]] = "up" THEN lost ELSE [lost EXCEPT ![k] = @ \cup {asked[k]}]
  /\ Goto(k, "ask")
  /\ UNCHANGED <<vars, joins, conn, peering, wake, idles, asked, finished, headers, cancelled>>

\* expire logs an error and does nothing when the request is gone.
Unreserve(k, p) ==
  \/ Expire(k, p)
  \/ call = Idle /\ pendPool[k][p] = {} /\ UNCHANGED vars

SendFails(k) ==
  /\ loop[k] = "send" /\ conn[asked[k]] # "up"
  /\ Unreserve(k, asked[k])
  /\ Goto(k, "ask")
  /\ UNCHANGED <<joins, conn, peering, wake, idles, asked, request, lost, finished, headers, cancelled>>

-----------------------------------------------------------------------------
(* concurrentFetch: events *)

PeerJoins(k) ==
  /\ loop[k] = "select" /\ peering[k] # <<>> /\ Head(peering[k]).join
  /\ peering' = [peering EXCEPT ![k] = Tail(@)]
  /\ Goto(k, "top")
  /\ UNCHANGED <<vars, joins, conn, wake, idles, asked, request, lost, finished, headers, cancelled>>

PeerLeaves(k) ==
  /\ loop[k] = "select" /\ peering[k] # <<>> /\ ~Head(peering[k]).join
  /\ LET p == Head(peering[k]).peer
     IN  /\ IF request[k][p] = "pending" THEN Unreserve(k, p) ELSE UNCHANGED vars
         /\ request' = [request EXCEPT ![k][p] = "none"]
         /\ lost' = [lost EXCEPT ![k] = @ \ {p}]
  /\ peering' = [peering EXCEPT ![k] = Tail(@)]
  /\ Goto(k, "top")
  /\ UNCHANGED <<joins, conn, wake, idles, asked, finished, headers, cancelled>>

BugTimeout(k, p) ==
  /\ loop[k] = "select" /\ request[k][p] = "pending" /\ p \notin Steady
  /\ call = Idle
  /\ request' = [request EXCEPT ![k][p] = "stale"]
  /\ Goto(k, "top")
  /\ UNCHANGED <<vars, joins, conn, peering, wake, idles, asked, lost, finished, headers, cancelled>>

\* A request times out: its tasks go back to the queue, the peer stays busy
\* until it answers or leaves.
Timeout(k, p) ==
  /\ loop[k] = "select" /\ request[k][p] = "pending" /\ p \notin Steady
  /\ Unreserve(k, p)
  /\ request' = [request EXCEPT ![k][p] = "stale"]
  /\ Goto(k, "top")
  /\ UNCHANGED <<joins, conn, peering, wake, idles, asked, lost, finished, headers, cancelled>>

\* A response, in time or late.  Its sender's handler is released before the
\* data is delivered.
Response(k, p) ==
  /\ loop[k] = "select" /\ request[k][p] # "none"
  /\ p \notin lost[k] /\ conn[p] = "up"
  /\ request' = [request EXCEPT ![k][p] = "none"]
  /\ asked' = [asked EXCEPT ![k] = p]
  /\ Goto(k, "deliver")
  /\ UNCHANGED <<vars, joins, conn, peering, wake, idles, lost, finished, headers, cancelled>>

\* The data of a peer that is still registered is delivered.
DeliverResponse(k) ==
  /\ loop[k] = "deliver" /\ conn[asked[k]] = "up"
  /\ \/ \E good \in SUBSET Number, empty \in BOOLEAN :
          /\ asked[k] \in Steady => good # {}
          /\ Deliver(k, asked[k], good, empty)
     \/ call = Idle /\ pendPool[k][asked[k]] = {} /\ UNCHANGED vars
  /\ Goto(k, "top")
  /\ UNCHANGED <<joins, conn, peering, wake, idles, asked, request, lost, finished, headers, cancelled>>

\* Otherwise it is ignored.
IgnoreResponse(k) ==
  /\ loop[k] = "deliver" /\ conn[asked[k]] # "up"
  /\ Goto(k, "top")
  /\ UNCHANGED <<vars, joins, conn, peering, wake, idles, asked, request, lost, finished, headers, cancelled>>

Woken(k) ==
  /\ loop[k] = "select" /\ wake[k] # "empty"
  /\ finished' = [finished EXCEPT ![k] = @ \/ wake[k] = "end"]
  /\ wake' = [wake EXCEPT ![k] = "empty"]
  /\ Goto(k, "top")
  /\ UNCHANGED <<vars, joins, conn, peering, idles, asked, request, lost, headers, cancelled>>

CancelFetch(k) ==
  /\ loop[k] = "select" /\ cancelled
  /\ request' = [request EXCEPT ![k] = [p \in Peer |-> "none"]]
  /\ lost' = [lost EXCEPT ![k] = {}]
  /\ Goto(k, "done")
  /\ UNCHANGED <<vars, joins, conn, peering, wake, idles, asked, finished, headers, cancelled>>

-----------------------------------------------------------------------------
(* Peers, the processor and the end of the cycle *)

\* Events go to the fetchers that still run, when they have room.
Announce(p, join) ==
  /\ \A k \in Kind : loop[k] = "done" \/ Len(peering[k]) < EventCap
  /\ peering' = [k \in Kind |-> IF loop[k] = "done" THEN <<>>
                                ELSE Append(peering[k], [peer |-> p, join |-> join])]

\* A peer registers.  (One that comes back while a pass holds its earlier
\* connection is not considered.)
RegisterPeer(p) ==
  /\ conn[p] = "out" /\ joins[p] < MaxJoins
  /\ joins' = [joins EXCEPT ![p] = @ + 1]
  /\ \A k \in Kind : p \notin idles[k] /\ ~(loop[k] \in {"reserve", "send"} /\ asked[k] = p)
  /\ conn' = [conn EXCEPT ![p] = "up"] /\ Announce(p, TRUE)
  /\ UNCHANGED <<vars, wake, loop, idles, asked, request, lost, finished, headers, cancelled>>

\* UnregisterPeer: the peer set first, then the queue.
UnregisterPeer(p) ==
  /\ conn[p] = "up" /\ p \notin Steady
  /\ conn' = [conn EXCEPT ![p] = "leaving"] /\ Announce(p, FALSE)
  /\ lost' = [k \in Kind |-> IF request[k][p] = "none" THEN lost[k] ELSE lost[k] \cup {p}]
  /\ UNCHANGED <<vars, joins, wake, loop, idles, asked, request, finished, headers, cancelled>>

RevokePeer(p) ==
  /\ conn[p] = "leaving" /\ Revoke(p)
  /\ conn' = [conn EXCEPT ![p] = "out"]
  /\ UNCHANGED <<joins, peering, wake, loop, idles, asked, request, lost, finished, headers, cancelled>>

\* Results, with the wake-up of throttled fetchers at its end.
TakeResults ==
  /\ GetCompleted /\ WakeBoth
  /\ UNCHANGED <<joins, conn, peering, loop, idles, asked, request, lost, finished, headers, cancelled>>

\* The call that holds q.lock goes on; the processor tests and waits.
CallStep ==
  /\ DeliverReturn \/ \E h \in Number : ReserveHeader(h) \/ Reconstruct(h)
  /\ UNCHANGED fetchVars

ResultsWait ==
  /\ ResultsCall \/ ResultsLock \/ ResultsWoken
  /\ UNCHANGED fetchVars

\* spawnSync closes the queue when everything but the processor has ended.
CloseQueue ==
  /\ headers = "done" /\ \A k \in Kind : loop[k] = "done"
  /\ Close
  /\ UNCHANGED fetchVars

Cancel ==
  /\ ~cancelled /\ cancelled' = TRUE
  /\ UNCHANGED <<vars, joins, conn, peering, wake, loop, idles, asked, request, lost, finished, headers>>

LoopStep(k) ==
  \/ TopIdle(k) \/ TopAssign(k) \/ Reserved(k) \/ PassEnds(k)
  \/ Send(k) \/ SendFails(k) \/ DeliverResponse(k) \/ IgnoreResponse(k)
  \/ \E p \in Peer : Ask(k, p)

PeerEvent(k) == PeerJoins(k) \/ PeerLeaves(k)

HeaderStep ==
  ScheduleHeader \/ NotifyFetchers \/ EndOfHeaders \/ CancelHeaders \/ \E k \in Kind : NotifyEnd(k)

FetchNext ==
  \/ HeaderStep \/ CallStep \/ ResultsWait \/ TakeResults \/ CloseQueue \/ Cancel
  \/ \E k \in Kind : \/ LoopStep(k) \/ PeerEvent(k) \/ Woken(k) \/ CancelFetch(k)
                     \/ \E p \in Peer : Timeout(k, p) \/ Response(k, p)
  \/ \E p \in Peer : RegisterPeer(p) \/ UnregisterPeer(p) \/ RevokePeer(p)

\* Weak fairness only: goroutines that can run do, a mutex that stays free is
\* granted, a select takes an event that stays there, UnregisterPeer goes on to
\* Revoke, Steady peers answer.
FetchFairness ==
  /\ WF_allVars(HeaderStep) /\ WF_allVars(CallStep)
  /\ WF_allVars(ResultsWait \/ TakeResults) /\ WF_allVars(CloseQueue)
  /\ \A k \in Kind : /\ WF_allVars(LoopStep(k)) /\ WF_allVars(PeerEvent(k))
                     /\ WF_allVars(Woken(k)) /\ WF_allVars(CancelFetch(k))
                     /\ \A p \in Steady : WF_allVars(Response(k, p))
  /\ \A p \in Peer \ Steady : WF_allVars(RevokePeer(p))

FetchSpec == FetchInit /\ [][FetchNext]_allVars /\ FetchFairness

-----------------------------------------------------------------------------
(* Properties *)

\* A fetcher that was not cancelled ends when its work is done ("If there's
\* nothing more to fetch, wait or terminate", fetchers_concurrent.go): headers
\* have ended, nothing is queued, and the only requests left are those of peers
\* in the middle of UnregisterPeer, whose tasks Revoke is about to put back.
EndsWhenDone ==
  [][\A k \in Kind : loop[k] # "done" /\ loop'[k] = "done" /\ ~cancelled =>
       /\ head = MaxNumber
       /\ \A h \in taskPool[k] : \E p \in Peer : h \in pendPool[k][p] /\ conn[p] = "leaving"]_allVars

\* Peers that fail are dropped for good sooner or later.
OthersLeave == <>[](\A p \in Peer \ Steady : conn[p] = "out")

\* A fetcher has taken the answer of a peer that is being unregistered and will
\* ignore it: nobody is told when Revoke then returns the tasks to the queue.
Overtaken == \E k \in Kind : loop[k] = "deliver" /\ conn[asked[k]] # "up"

\* Every sync cycle ends once only Steady peers are left: neither a fetcher that
\* waits to be woken, nor the header processor that waits for room in a wake
\* channel, nor Results that waits for a block is left alone.  The one exception
\* is the race of Overtaken.
CycleEnds == OthersLeave /\ []~Overtaken => []<>(results = "done")
=============================================================================
