----------------------------- MODULE BlockQueue -----------------------------
(***************************************************************************)
(* The downloader's queue of block parts and its cache of results          *)
(* (eth/downloader/queue.go, resultstore.go): headers are scheduled, peers *)
(* reserve their bodies and receipts, deliver them, time out or leave, and *)
(* the processor takes completed blocks out of the cache in order.         *)
(*                                                                         *)
(* A header is its number: one chain is scheduled in a sync cycle.  q.lock *)
(* is held by the call in call; reserveHeaders and deliver go through      *)
(* headers one by one and meanwhile Results, which works on the cache      *)
(* under the cache's own lock, may take blocks out.                        *)
(***************************************************************************)
EXTENDS Integers, FiniteSets

CONSTANTS
  Peer,
  MaxNumber,      \* last block number of the sync cycle
  CacheLimit,     \* slots of the result cache
  MaxResults,     \* blocks one call of Results takes at most
  Capacities,     \* how many parts a peer is asked for at once
  EmptyBody,      \* blocks without body
  EmptyReceipts,  \* blocks without receipts
  SnapSync        \* the mode of the cycle needs receipts

ASSUME QueueAssumption ==
  /\ MaxNumber \in Nat /\ CacheLimit \in Nat \ {0} /\ MaxResults \in Nat \ {0}
  /\ Capacities \subseteq Nat \ {0}
  /\ SnapSync \in BOOLEAN

\* Parts of a block to be fetched.  In a full sync the fetcher of receipts runs
\* too, with nothing to do.
Kind   == IF SnapSync THEN {"body", "receipt"} ELSE {"body"}
Number == 1 .. MaxNumber

VARIABLES
  head,            \* headerHead: the last header scheduled
  taskPool,        \* blockTaskPool, receiptTaskPool
  taskQueue,       \* blockTaskQueue, receiptTaskQueue: lowest number first
  pendPool,        \* blockPendPool, receiptPendPool: headers of the request of each peer
  lacking,         \* headers a peer is known not to have data of
  created,         \* items: the numbers with a fetchResult in the cache
  missing,         \* fetchResult.pending: kinds of data still outstanding
  resultOffset,    \* number of the first slot of the cache
  indexIncomplete, \* slots from the first one known to be complete
  threshold,       \* throttleThreshold
  closed,
  call,            \* the call that holds q.lock
  results,         \* progress of the caller of Results
  panicked

storeVars == <<created, missing, resultOffset, indexIncomplete, threshold>>
taskVars  == <<head, taskPool, taskQueue, pendPool, lacking>>
vars      == <<taskVars, storeVars, closed, call, results, panicked>>

Idle == [op |-> "none"]
Call ==
  {Idle} \cup
  [op : {"reserve"}, kind : Kind, peer : Peer, count : Capacities,
   send : SUBSET Number, skip : SUBSET Number] \cup
  [op : {"deliver"}, kind : Kind, peer : Peer, accepted : BOOLEAN,
   good : SUBSET Number, rest : SUBSET Number]

TypeOK ==
  /\ head \in 0 .. MaxNumber
  /\ taskPool \in [Kind -> SUBSET Number] /\ taskQueue \in [Kind -> SUBSET Number]
  /\ pendPool \in [Kind -> [Peer -> SUBSET Number]]
  /\ lacking \in [Peer -> SUBSET Number]
  /\ created \in SUBSET Number /\ missing \in [Number -> SUBSET Kind]
  /\ resultOffset \in 1 .. MaxNumber + 1
  /\ indexIncomplete \in 0 .. CacheLimit /\ threshold \in 1 .. CacheLimit
  /\ closed \in BOOLEAN
  /\ call \in Call
  /\ results \in {"idle", "lock", "wait", "woken", "take", "done"}
  /\ panicked \in BOOLEAN

\* After Reset and Prepare(1, mode).
Init ==
  /\ head = 0
  /\ taskPool = [k \in Kind |-> {}] /\ taskQueue = [k \in Kind |-> {}]
  /\ pendPool = [k \in Kind |-> [p \in Peer |-> {}]]
  /\ lacking = [p \in Peer |-> {}]
  /\ created = {} /\ missing = [n \in Number |-> {}]
  /\ resultOffset = 1 /\ indexIncomplete = 0 /\ threshold \in 1 .. CacheLimit
  /\ closed = FALSE /\ call = Idle /\ results = "idle" /\ panicked = FALSE

-----------------------------------------------------------------------------
(* The result cache *)

\* What a new fetchResult of a header waits for.
Outstanding(n) == {k \in Kind : \/ k = "body" /\ n \notin EmptyBody
                                \/ k = "receipt" /\ n \notin EmptyReceipts}

AllDone(n) == n \in created /\ missing[n] = {}

HasCompletedItems == AllDone(resultOffset)

\* countCompleted goes on from the index it reached the last time.
Completed(i) ==
  /\ i >= indexIncomplete
  /\ \A j \in indexIncomplete .. i - 1 : j < CacheLimit /\ AllDone(resultOffset + j)
  /\ i < CacheLimit => ~AllDone(resultOffset + i)

\* active.Signal wakes the caller of Results if it waits.
Signal == results' = IF results = "wait" THEN "woken" ELSE results

-----------------------------------------------------------------------------
(* Headers *)

\* Schedule, for a header that follows the last one; others are refused.
Schedule ==
  /\ call = Idle /\ head < MaxNumber
  /\ head' = head + 1
  /\ LET Scheduled(k) == {h \in {head + 1} : k = "body" \/ h \notin EmptyReceipts}
     IN  /\ taskPool'  = [k \in Kind |-> taskPool[k] \cup Scheduled(k)]
         /\ taskQueue' = [k \in Kind |-> taskQueue[k] \cup Scheduled(k)]
  /\ UNCHANGED <<pendPool, lacking, storeVars, closed, call, results, panicked>>

-----------------------------------------------------------------------------
(* ReserveBodies and ReserveReceipts: reserveHeaders *)

Reserve(k, p, count) ==
  /\ call = Idle /\ taskQueue[k] # {} /\ pendPool[k][p] = {}
  /\ call' = [op |-> "reserve", kind |-> k, peer |-> p, count |-> count, send |-> {}, skip |-> {}]
  /\ UNCHANGED <<taskVars, storeVars, closed, results, panicked>>

IsFirst(h, S) == h \in S /\ \A g \in S : h <= g

Throttled(h) == h - resultOffset >= threshold

Reserving(h) ==
  /\ call.op = "reserve" /\ IsFirst(h, taskQueue[call.kind])
  /\ Cardinality(call.send) < call.count

\* AddFetch: a slot of the cache belongs to the header from now on, unless the
\* block was handed out already.
AddFetch(h) ==
  /\ IF h < resultOffset THEN UNCHANGED <<created, missing>>
     ELSE /\ created' = created \cup {h}
          /\ missing' = [missing EXCEPT ![h] = IF h \in created THEN @ ELSE Outstanding(h)]
  /\ UNCHANGED <<resultOffset, indexIncomplete, threshold>>

\* The task of a part that is not needed (any more) is dropped.
ReserveHeader(h) ==
  /\ Reserving(h) /\ ~Throttled(h)
  /\ AddFetch(h)
  /\ LET k == call.kind
         noop == h < resultOffset \/ k \notin missing'[h]
     IN  /\ taskQueue' = [taskQueue EXCEPT ![k] = @ \ {h}]
         /\ taskPool' = IF noop THEN [taskPool EXCEPT ![k] = @ \ {h}] ELSE taskPool
         /\ call' = CASE noop -> call
                      [] ~noop /\ h \in lacking[call.peer] -> [call EXCEPT !.skip = @ \cup {h}]
                      [] OTHER -> [call EXCEPT !.send = @ \cup {h}]
  /\ UNCHANGED <<head, pendPool, lacking, closed, results, panicked>>

BugReserveReturn ==
  /\ call.op = "reserve"
  /\ \/ Cardinality(call.send) >= call.count
     \/ taskQueue[call.kind] = {}
     \/ \E h \in Number : IsFirst(h, taskQueue[call.kind]) /\ Throttled(h)
  /\ taskQueue' = [taskQueue EXCEPT ![call.kind] = @ \cup call.skip]
  /\ pendPool' = [pendPool EXCEPT ![call.kind][call.peer] = call.send]
  /\ call' = Idle
  /\ UNCHANGED <<head, taskPool, lacking, storeVars, closed, results, panicked>>

\* The queue is empty, the request is full, or the next header must wait for
\* room in the cache.
ReserveReturn ==
  /\ call.op = "reserve"
  /\ \/ Cardinality(call.send) >= call.count
     \/ taskQueue[call.kind] = {}
     \/ \E h \in Number : IsFirst(h, taskQueue[call.kind]) /\ Throttled(h)
  /\ taskQueue' = [taskQueue EXCEPT ![call.kind] = @ \cup call.skip]
  /\ IF HasCompletedItems THEN Signal ELSE UNCHANGED results
  /\ pendPool' = [pendPool EXCEPT ![call.kind][call.peer] = call.send]
  /\ call' = Idle
  /\ UNCHANGED <<head, taskPool, lacking, storeVars, closed, panicked>>

-----------------------------------------------------------------------------
(* DeliverBodies and DeliverReceipts: deliver *)

\* An answer of which the first parts, those for the headers of good, are
\* valid.  An empty answer marks the headers as lacking.
Deliver(k, p, good, empty) ==
  /\ call = Idle /\ pendPool[k][p] # {}
  /\ good \subseteq pendPool[k][p]
  /\ \A g \in good, h \in pendPool[k][p] \ good : g < h
  /\ empty => good = {}
  /\ pendPool' = [pendPool EXCEPT ![k][p] = {}]
  /\ lacking' = IF empty THEN [lacking EXCEPT ![p] = @ \cup pendPool[k][p]] ELSE lacking
  /\ call' = [op |-> "deliver", kind |-> k, peer |-> p, accepted |-> FALSE,
              good |-> good, rest |-> pendPool[k][p] \ good]
  /\ UNCHANGED <<head, taskPool, taskQueue, storeVars, closed, results, panicked>>

\* One part is put into its slot, unless the slot is gone.
Reconstruct(h) ==
  /\ call.op = "deliver" /\ IsFirst(h, call.good)
  /\ missing' = IF h < resultOffset THEN missing ELSE [missing EXCEPT ![h] = @ \ {call.kind}]
  /\ panicked' = (panicked \/ (h >= resultOffset /\ h \notin created))
  /\ taskPool' = [taskPool EXCEPT ![call.kind] = @ \ {h}]
  /\ call' = [call EXCEPT !.good = @ \ {h}, !.accepted = TRUE]
  /\ UNCHANGED <<head, taskQueue, pendPool, lacking, created, resultOffset, indexIncomplete,
                 threshold, closed, results>>

BugDeliverReturn ==
  /\ call.op = "deliver" /\ call.good = {}
  /\ taskQueue' = IF call.accepted THEN taskQueue
                  ELSE [taskQueue EXCEPT ![call.kind] = @ \cup call.rest]
  /\ IF call.accepted THEN Signal ELSE UNCHANGED results
  /\ call' = Idle
  /\ UNCHANGED <<head, taskPool, pendPool, lacking, storeVars, closed, panicked>>

DeliverReturn ==
  /\ call.op = "deliver" /\ call.good = {}
  /\ taskQueue' = [taskQueue EXCEPT ![call.kind] = @ \cup call.rest]
  /\ IF call.accepted THEN Signal ELSE UNCHANGED results
  /\ call' = Idle
  /\ UNCHANGED <<head, taskPool, pendPool, lacking, storeVars, closed, panicked>>

-----------------------------------------------------------------------------
(* Requests that end without an answer *)

\* ExpireBodies, ExpireReceipts: expire.
Expire(k, p) ==
  /\ call = Idle /\ pendPool[k][p] # {}
  /\ taskQueue' = [taskQueue EXCEPT ![k] = @ \cup pendPool[k][p]]
  /\ pendPool' = [pendPool EXCEPT ![k][p] = {}]
  /\ UNCHANGED <<head, taskPool, lacking, storeVars, closed, call, results, panicked>>

Revoke(p) ==
  /\ call = Idle
  /\ taskQueue' = [k \in Kind |-> taskQueue[k] \cup pendPool[k][p]]
  /\ pendPool' = [k \in Kind |-> [pendPool[k] EXCEPT ![p] = {}]]
  /\ UNCHANGED <<head, taskPool, lacking, storeVars, closed, call, results, panicked>>

-----------------------------------------------------------------------------
(* Results and Close *)

Close ==
  /\ call = Idle /\ ~closed
  /\ closed' = TRUE /\ Signal
  /\ UNCHANGED <<taskVars, storeVars, call, panicked>>

\* The test of the loop, without q.lock.
ResultsCall ==
  /\ results = "idle"
  /\ results' = IF HasCompletedItems THEN "take" ELSE "lock"
  /\ UNCHANGED <<taskVars, storeVars, closed, call, panicked>>

\* With q.lock the test is repeated before waiting.
ResultsLock ==
  /\ results = "lock" /\ call = Idle
  /\ results' = IF HasCompletedItems \/ closed THEN "take" ELSE "wait"
  /\ UNCHANGED <<taskVars, storeVars, closed, call, panicked>>

\* Wait has returned.
ResultsWoken ==
  /\ results = "woken" /\ call = Idle
  /\ results' = IF HasCompletedItems \/ closed THEN "take" ELSE "lock"
  /\ UNCHANGED <<taskVars, storeVars, closed, call, panicked>>

BugGetCompleted ==
  /\ results = "take"
  /\ \E completed \in 0 .. CacheLimit, t \in 1 .. CacheLimit :
       /\ Completed(completed)
       /\ LET limit == IF MaxResults > completed THEN completed ELSE MaxResults
          IN  /\ created' = created \ (resultOffset .. resultOffset + limit - 1)
              /\ resultOffset' = resultOffset + limit
              /\ indexIncomplete' = completed
              /\ results' = IF limit = 0 THEN "done" ELSE "idle"
       /\ threshold' = t
  /\ UNCHANGED <<taskVars, missing, closed, call, panicked>>

\* GetCompleted removes complete blocks from the front of the cache; the new
\* throttle threshold depends on their sizes.  An empty result ends the
\* processor.
GetCompleted ==
  /\ results = "take"
  /\ \E completed \in 0 .. CacheLimit, t \in 1 .. CacheLimit :
       /\ Completed(completed)
       /\ LET limit == IF MaxResults > completed THEN completed ELSE MaxResults
          IN  /\ created' = created \ (resultOffset .. resultOffset + limit - 1)
              /\ resultOffset' = resultOffset + limit
              /\ indexIncomplete' = completed - limit
              /\ results' = IF limit = 0 THEN "done" ELSE "idle"
       /\ threshold' = t
  /\ UNCHANGED <<taskVars, missing, closed, call, panicked>>

-----------------------------------------------------------------------------
QueueStep ==
  \/ \E h \in Number : ReserveHeader(h) \/ Reconstruct(h)
  \/ ReserveReturn \/ DeliverReturn

ResultsStep == ResultsCall \/ ResultsLock \/ ResultsWoken \/ GetCompleted

Next ==
  \/ Schedule
  \/ \E k \in Kind, p \in Peer :
       \/ \E c \in Capacities : Reserve(k, p, c)
       \/ \E good \in SUBSET Number, empty \in BOOLEAN : Deliver(k, p, good, empty)
       \/ Expire(k, p)
  \/ \E p \in Peer : Revoke(p)
  \/ QueueStep
  \/ ResultsStep
  \/ Close

Spec == Init /\ [][Next]_vars

-----------------------------------------------------------------------------
(* Properties *)

\* The headers of a kind that a call works on.
InHand(k) ==
  IF call.op = "reserve" /\ call.kind = k THEN call.send \cup call.skip
  ELSE IF call.op = "deliver" /\ call.kind = k THEN call.good \cup call.rest
  ELSE {}

\* Every task is in exactly one place: in the queue, in the request of one
\* peer or in the hands of a call (blockTaskPool, receiptTaskPool are their
\* union).
OnePlace ==
  \A k \in Kind : \A h \in Number :
    /\ h \in taskPool[k] <=> \/ h \in taskQueue[k] \/ h \in InHand(k)
                            \/ \E p \in Peer : h \in pendPool[k][p]
    /\ ~(h \in taskQueue[k] /\ h \in InHand(k))
    /\ \A p \in Peer : h \in pendPool[k][p] =>
         /\ h \notin taskQueue[k] /\ h \notin InHand(k)
         /\ \A q \in Peer \ {p} : h \notin pendPool[k][q]

\* No part is forgotten: whatever a scheduled block that was not handed out
\* still lacks is a task.  Failed, expired, revoked and skipped parts go back
\* to the queue (queue.go: deliver, expire, Revoke, reserveHeaders).
NothingForgotten ==
  \A h \in resultOffset .. head :
    /\ h \notin created => h \in taskPool["body"]
    /\ \A k \in Kind :
         (IF h \in created THEN k \in missing[h] ELSE k \in Outstanding(h)) =>
            h \in taskPool[k]

\* No block part is lost or fetched by two peers at once, whatever peers
\* deliver, delay or drop, and deliver finds a slot for every part whose block
\* was not handed out yet: it never dereferences a nil fetchResult (queue.go).
TasksKept == OnePlace /\ NothingForgotten /\ ~panicked

\* GetCompleted hands out blocks in order, without gaps, and only with body
\* and receipts in place: the index remembered by countCompleted never points
\* past an incomplete block (resultstore.go).
HandedOutComplete ==
  [][resultOffset' # resultOffset =>
       \A h \in resultOffset .. resultOffset' - 1 : h <= head /\ AllDone(h)]_vars

\* Results never sleeps while the next block is complete or the queue is
\* closed: whoever completes a block signals (queue.go: Results waits on
\* q.active, reserveHeaders completes empty blocks without a delivery).
NoLostWakeup ==
  results = "wait" /\ call = Idle => ~HasCompletedItems /\ ~closed
=============================================================================
